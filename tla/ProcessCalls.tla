---------------------------- MODULE ProcessCalls ----------------------------
(***************************************************************************)
(* The calls about processes, threads, signals, time and limits:           *)
(* syscalls/process, thread, signals, time and other.                      *)
(***************************************************************************)
EXTENDS CallObject

Status(pars) == NewObject(SuccessResult("res"), pars)

Result(i, pars) == NewObject([i EXCEPT !.d = "ret"], pars)

CloneCall == [clone |-> Result(ProcessID("new_pid"),
                               <<CloneFlagsValue("flags"), GenericPointerValue("stack")>>)]

ExecPars == <<StringData("filename", "in"), StringArrayData("argv"), StringArrayData("envp")>>

SpawnCalls ==
    [clone3   |-> Result(ProcessID("pid"), <<CloneArgs("cl_args"), IntValue("size")>>),
     fork     |-> Result(ProcessID("pid"), << >>),
     execve   |-> Status(ExecPars),
     execveat |-> Status(<<FileDescriptor("dirfd")>> \o ExecPars \o <<AtFlagsValue("flags")>>)]

IdCalls ==
    [getxid  |-> NewObject(UserOrGroupID("id"), << >>),
     getpgid |-> Result(ProcessGroupID("id"), <<ProcessID("pid")>>),
     getsid  |-> Result(SessionID("id"), <<ProcessID("pid")>>),
     setsid  |-> Result(SessionID("new_sid"), << >>)]

WaitCalls ==
    [wait4   |-> Result(ProcessID("event_pid"),
                     <<ProcessID("pid"), WaitStatus("wstatus"), WaitOptions("options"),
                       ResourceUsage("rusage")>>),
     waitpid |-> Result(ProcessID("event_pid"),
                     <<ProcessID("pid"), WaitStatus("wstatus"), WaitOptions("options")>>),
     waitid  |-> Status(<<WaitID("idtype")>>)]

PIDFDCalls ==
    [pidfd_open        |-> NewObject(FileNumResult("new_fd"), <<ProcessID("pid"), PIDFDFlags("flags")>>),
     pidfd_getfd       |-> NewObject(FileNumResult("new_fd"),
                               <<FileDescriptor("pidfd"), FileDescriptor("targetfd"),
                                 PIDFDFlags("flags")>>),
     pidfd_send_signal |-> Status(<<FileDescriptor("pidfd"), SignalNumber("sig"),
                                    SigInfo("siginfo"), PIDFDFlags("flags")>>)]

ThreadCalls ==
    [set_tid_address |-> Result(ThreadID("caller_tid"), <<GenericPointerValue("address")>>),
     get_robust_list |-> Status(<<ThreadID("thread_id"), PointerToScalar("list_head", "out"),
                                  PointerToScalar("size_ptr", "inout")>>),
     set_robust_list |-> Status(<<GenericPointerValue("list_head"), IntValue("size")>>)]

FutexCall == [futex |-> NewObject(NoItem, <<GenericPointerValue("futex_addr"),
                                            FutexOperation("operation")>>)]

SignalCalls ==
    [alarm           |-> NewObject(ReturnValue("old_seconds"), <<IntValue("seconds")>>),
     sigaction       |-> Status(<<SignalNumber("signum"), SigActionParameter("action", "in"),
                                  SigActionParameter("old_action", "out")>>),
     rt_sigaction    |-> Status(<<SignalNumber("signum"), SigActionParameter("action", "in"),
                                  SigActionParameter("old_action", "out"), IntValue("size")>>),
     sigprocmask     |-> Status(<<SigSetOperation("operation"), SigSetParameter("new_mask", "in", TRUE),
                                  SigSetParameter("old_mask", "out", TRUE)>>),
     rt_sigprocmask  |-> Status(<<SigSetOperation("operation"), SigSetParameter("new_mask", "in", FALSE),
                                  SigSetParameter("old_mask", "out", FALSE), IntValue("size")>>),
     tgkill          |-> Status(<<ProcessID("thread_group"), ThreadID("thread_id"),
                                  SignalNumber("signum")>>)]

SignalFDPars == <<FileDescriptor("fd"), SigSetParameter("mask", "in", FALSE), IntValue("sigset_size")>>

SignalFDCalls ==
    [signalfd  |-> NewObject(FileNumResult("new_fd"), SignalFDPars),
     signalfd4 |-> NewObject(FileNumResult("new_fd"), SignalFDPars \o <<SignalFDFlags("flags")>>)]

TimeCalls ==
    [nanosleep       |-> Status(<<TimeSpecParameter("req_time", "in"), RemainingTimeSpec("rem_time")>>),
     clock_nanosleep |-> Status(<<ClockID("clockid"), ClockNanoSleepFlags("flags"),
                                  TimeSpecParameter("time", "in"), RemainingTimeSpec("remaining")>>)]

(* Calls that are not implemented, unknown or given up have placeholders.  *)
PlaceholderCalls == [unknown |-> NewObject(ReturnValue("result"), <<Placeholder("params")>>)]

OtherCalls ==
    [getrlimit       |-> Status(<<ResourceType("type"), ResourceLimit("limit", "out")>>),
     setrlimit       |-> Status(<<ResourceType("type"), ResourceLimit("limit", "in")>>),
     prlimit64       |-> Status(<<ProcessID("pid"), ResourceType("type"), ResourceLimit("limit", "in"),
                                  ResourceLimit("old_limit", "out")>>),
     restart_syscall |-> Status(<< >>),
     exit            |-> Status(<<ExitStatus("status")>>),
     getrandom       |-> NewObject(ReturnValue("obtained"),
                             <<BufferPointer("buf", "out", "count"), IntValue("count"),
                               GetRandomFlagsValue("flags")>>),
     rseq            |-> Status(<<RSeqParameter("rseq", "rseq_len"), IntValue("rseq_len"),
                                  RSeqFlagsValue("flags"), IntValue("signature")>>),
     uname           |-> Status(<<UnameStruct("uname")>>)]

----------------------------------------------------------------------------
(* clone(): the flags select parameters, the ABI their registers.          *)

CloneOptionals == {"parent_tid", "pidfd", "child_tid", "tls"}

ClonePrepare(o) == Reset(DropParameters(o, 2), CloneOptionals)

Padding(n) == [i \in 1 .. n |-> Unused]

AddAt(o, pos, item, wanted) ==
    IF wanted
    THEN AddNew(AddParameters(o, Padding(IF pos > Len(o.pars) THEN pos - Len(o.pars) ELSE 0)),
                <<item>>)
    ELSE o

(* Variant: the order of the last two registers does not depend on the ABI.*)
CloneCheck2ndPassOneOrder(o, abi, v) ==
    LET p == IF "PARENT_SETTID" \in v THEN AddNew(o, <<PointerToScalar("parent_tid", "out")>>) ELSE o
        q == AddAt(p, 3, GenericPointerValue("child_tid"), "CHILD_SETTID" \in v)
    IN  AddAt(q, 4, GenericPointerValue("tls"), "SETTLS" \in v)

CloneCheck2ndPass(o, abi, v) ==
    LET p == CASE "PARENT_SETTID" \in v -> AddNew(o, <<PointerToScalar("parent_tid", "out")>>)
               [] "PIDFD" \in v /\ ~("PARENT_SETTID" \in v)
                                         -> AddNew(o, <<PointerToScalar("pidfd", "out")>>)
               [] OTHER                  -> o
        tid(q, pos) == AddAt(q, pos, GenericPointerValue("child_tid"), "CHILD_SETTID" \in v)
        tls(q, pos) == AddAt(q, pos, GenericPointerValue("tls"), "SETTLS" \in v)
    IN  IF abi \in {"X86_64", "X32"} THEN tls(tid(p, 3), 4) ELSE tid(tls(p, 3), 4)

(* waitid(): the type of the ID decides about the second parameter.        *)
WaitIDPrepare(o) == Reset(DropParameters(o, 1), {"id_pid", "id_pgid", "id_pidfd"})

WaitIDTypes ==
    [PID   |-> <<ProcessID("id_pid")>>, PGID |-> <<ProcessGroupID("id_pgid")>>,
     PIDFD |-> <<FileDescriptor("id_pidfd")>>]

WaitIDRest == <<SigInfo("siginfo"), WaitOptions("options"), ResourceUsage("rusage")>>

WaitIDCheck2ndPass(o, type) ==
    CASE type \in DOMAIN WaitIDTypes ->
            AddParameters(AddNew(o, WaitIDTypes[type]), WaitIDRest)
      [] type = "ALL" -> AddParameters(o, <<Unused>> \o WaitIDRest)
      [] OTHER        -> [o EXCEPT !.flaw = "runtime"]

----------------------------------------------------------------------------
(* futex(): the operation decides about everything but two parameters.     *)

Timeout == TimeSpecParameter("timeout", "in")

FutexArgs(op) ==
    CASE op = "WAIT"        -> <<IntValue("value"), Timeout>>
      [] op = "WAIT_BITSET" -> <<IntValue("value"), Timeout, Unused, IntValue("bitset")>>
      [] op = "WAKE"        -> <<IntValue("wake_count")>>
      [] op = "WAKE_BITSET" -> <<IntValue("wake_count"), Unused, Unused, IntValue("bitset")>>
      [] op = "CREATE_FD"   -> <<SignalNumber("fd_sig")>>
      [] op = "REQUEUE"     -> <<IntValue("wake_count"), IntValue("requeue_limit"),
                                 GenericPointerValue("futex2_addr")>>
      [] op = "CMP_REQUEUE" -> <<IntValue("wake_count"), IntValue("requeue_limit"),
                                 GenericPointerValue("futex2_addr"), IntValue("requeue_value")>>
      [] op = "WAKE_OP"     -> <<IntValue("wake_count"), IntValue("wake_count2"),
                                 GenericPointerValue("futex2_addr"), FutexWakeOperation("wake_op")>>
      [] op = "LOCK_PI"     -> <<Unused, Timeout>>
      [] op = "WAIT_REQUEUE_PI" -> <<IntValue("value"), Timeout, GenericPointerValue("futex2_addr")>>
      [] OTHER              -> << >>

FutexOps == {"WAIT", "WAIT_BITSET", "WAKE", "WAKE_BITSET", "CREATE_FD", "REQUEUE", "CMP_REQUEUE",
             "WAKE_OP", "LOCK_PI", "UNLOCK_PI", "WAIT_REQUEUE_PI"}

FutexOptionals == UNION {Names(FutexArgs(op)) : op \in FutexOps} \cup {"num_woken_up", "new_fd"}

FutexPrepare(o) ==
    ReturnNew(Reset(DropParameters(o, 2), FutexOptionals), SuccessResult("result"))

FutexCheck2ndPass(o, op) ==
    LET p == AddNew(o, FutexArgs(op))
        returns(i) == ReturnNew(Reset(p, {"result"}), i)
    IN  CASE op \in {"WAKE", "WAKE_BITSET", "REQUEUE", "CMP_REQUEUE", "WAKE_OP"} ->
                returns(ReturnValue("num_woken_up"))
          [] op = "CREATE_FD" -> returns(FileNumResult("new_fd"))
          [] OTHER            -> p

=============================================================================
