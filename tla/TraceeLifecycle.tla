-------------------------- MODULE TraceeLifecycle ---------------------------
(***************************************************************************)
(* One Tracee object of the Engine, from addTracee() or auto-attach to its *)
(* removal from m_tracees, against its thread: all orders of ptrace-stops, *)
(* signals from elsewhere, SIGKILL at every moment, and detach() from a    *)
(* callback or from outside of one.                                        *)
(***************************************************************************)
EXTENDS TraceeObject

CONSTANTS Kinds,          \* the ways the tracee comes about
          ThreadCalls,    \* the system calls the thread makes
          ThreadSignals   \* the signals it is sent

ASSUME KindsAssumption == Kinds \subseteq {"child", "foreign", "auto"}
ASSUME CallsAssumption == ThreadCalls \subseteq Calls
ASSUME SignalsAssumption == ThreadSignals \subseteq Signals

\* obj: the object is "created", "registered" in m_tracees, "erased" from it
\* again, or trace() was left by an exception or a crash ("aborted").
VARIABLES t, k, v, obj

vars == <<t, k, v, obj>>

Frame == [t |-> t, k |-> k, v |-> v, ex |-> "none"]

Becomes(f) == t' = f.t /\ k' = f.k /\ v' = f.v

Inputs == [ev : {k.at}, kill : {"no", "request", "decode", "late"}, detach : BOOLEAN,
           res : IF k.at = "SYS_EXIT" THEN Results(k.nr) ELSE {"ok"},
           recovered : IF k.at = "SYS_ENTRY" /\ k.nr = "restart_syscall"
                       THEN {"none", "read"} ELSE {"none"},
           deadly : IF k.at = "SIG_TERM" THEN BOOLEAN ELSE {FALSE}]

(* Engine *)

\* addTracee(); the object of a failed attach is destroyed, and its destructor
\* collects a child.
AddTracee ==
    LET f == Attach(Frame)
        failed == f.ex # "none"
    IN  /\ obj = "created"
        /\ Becomes(IF failed /\ t.child THEN [f EXCEPT !.k = Collect(@)] ELSE f)
        /\ t.child /\ failed => k.run = "zombie"
        /\ obj' = IF failed THEN "erased" ELSE "registered"

\* Variant: only a tracee that was detached from is removed.
RemovedIfDetached(f) == f.t.state = "DETACHED"

\* checkCleanupTracee(): whether the object leaves m_tracees.
Removed(f) == f.t.state = "DEAD" \/ (f.t.state = "DETACHED" /\ ~f.t.child)

CheckCleanupTracee(f) ==
    /\ Becomes(IF f.t.state = "DEAD" THEN DoDetach(f) ELSE f)
    /\ obj' = IF Removed(f) THEN "erased" ELSE "registered"

\* trace() and handleEvent(): ESRCH and EIO are swallowed, other exceptions
\* leave trace().
HandleEventOf(in) ==
    LET f == ProcessEvent([Frame EXCEPT !.k = Collect(@)], in)
    IN  /\ obj = "registered" /\ ~t.blocked
        /\ k.status
        /\ IF f.ex \in {"none", "ESRCH", "EIO"} THEN CheckCleanupTracee(f)
           ELSE Becomes(f) /\ obj' = "aborted"

EventPending == obj = "registered" /\ ~t.blocked /\ k.status

EngineHandleEvent == \E in \in Inputs : HandleEventOf(in)

\* The wait() in cleanupChild() returns; ~ChildTracee() kills what is left.
ChildCollected ==
    /\ t.blocked /\ k.status
    /\ t' = [t EXCEPT !.blocked = FALSE]
    /\ k' = IF obj = "erased" THEN Collect(Kill(k)) ELSE Collect(k)
    /\ UNCHANGED <<v, obj>>

\* detach() from outside of this tracee's callbacks.
ConsumerDetach ==
    /\ obj = "registered" /\ ~t.blocked
    /\ Becomes(DetachTracee(Frame))
    /\ UNCHANGED obj

(* The thread and its environment *)

ThreadStep(k2) == k' = k2 /\ UNCHANGED <<t, v, obj>>

EnterSyscall == CanEnterCall(k) /\ \E c \in ThreadCalls : ThreadStep(EnterCall(k, c))
LeaveSyscall == CanLeaveCall(k) /\ ThreadStep(LeaveCall(k))
ReportEvent == \E e \in EventStops : CanReport(k, e) /\ ThreadStep(StopAt(k, e))
InterruptStop == CanTrap(k) /\ ThreadStep(TakeTrap(k))
DeliverSignal == \E s \in Signals : CanDeliver(k, s) /\ ThreadStep(Deliver(k, s, t.child))
CallExit == CanExit(k) /\ ThreadStep(Exit(k))
ReportExit == k.run = "dying" /\ k.traced /\ ThreadStep(ExitStop(k))
ThreadDies == k.run = "dying" /\ ThreadStep(Die(k, t.child))
SendSignal == /\ k.run \notin {"dying", "zombie", "gone"}
              /\ \E s \in ThreadSignals \ k.pend : ThreadStep(Send(k, s))
KillThread == k.run \in {"run", "stop", "listen"} /\ ThreadStep(Kill(k))

ThreadNext == \/ EnterSyscall \/ LeaveSyscall \/ ReportEvent \/ InterruptStop
              \/ DeliverSignal \/ CallExit \/ ReportExit \/ ThreadDies

TracerNext == AddTracee \/ EngineHandleEvent \/ ChildCollected \/ ConsumerDetach

Next == TracerNext \/ ThreadNext \/ SendSignal \/ KillThread

NewThread == [run |-> "run", at |-> "none", status |-> FALSE, traced |-> FALSE,
              sysgood |-> FALSE, trap |-> FALSE, notify |-> FALSE, gstop |-> FALSE,
              insys |-> FALSE, nr |-> "read", pend |-> {}, fatal |-> FALSE]

JobStopped(th) == [th EXCEPT !.run = "stop", !.at = "STOPPED", !.gstop = TRUE]

\* create() has returned: the child stopped itself before its execve().
InitChild == /\ t = [NewTracee(TRUE) EXCEPT !.flags = {"INJECTED_SIGSTOP"}]
             /\ k = JobStopped(NewThread)
             /\ obj = "created"

\* A process from elsewhere, in user space, in a system call or stopped.
InitForeign == /\ t = NewTracee(FALSE)
               /\ k \in {NewThread, JobStopped(NewThread)}
                        \cup {[NewThread EXCEPT !.insys = TRUE, !.nr = c] : c \in ThreadCalls}
               /\ obj = "created"

\* configure() has returned for a new child of a tracee, which the kernel has
\* seized and put into its first stop.
InitAuto == /\ t = [NewTracee(FALSE) EXCEPT !.flags = {"WAIT_FOR_ATTACH_STOP"}]
            /\ k = TakeTrap([NewThread EXCEPT !.traced = TRUE])
            /\ obj = "registered"

Init == /\ v = NewView
        /\ \/ "child" \in Kinds /\ InitChild
           \/ "foreign" \in Kinds /\ InitForeign
           \/ "auto" \in Kinds /\ InitAuto

\* The trace loop runs; the thread takes the stops and the end that are due,
\* and a system call that is to be interrupted returns.  The first conjunct is the
\* weak fairness of EngineHandleEvent, which is enabled whenever EventPending holds.
Fairness == /\ []<>~EventPending \/ []<><<EngineHandleEvent>>_vars
            /\ WF_vars(AddTracee) /\ WF_vars(ChildCollected)
            /\ WF_vars(InterruptStop) /\ WF_vars(ThreadDies \/ ReportExit)
            /\ WF_vars(Due(k) /\ LeaveSyscall) /\ WF_vars(CallExit)

Spec == Init /\ [][Next]_vars
FairSpec == Spec /\ Fairness

-----------------------------------------------------------------------------
\* Type correctness of the object, the thread, the consumer's view and obj.
TypeOK == /\ t \in Tracees /\ k \in Thread /\ v \in Views
          /\ obj \in {"created", "registered", "erased", "aborted"}

\* What the tracer believes about the thread being inside of a system call
\* agrees with the stop the thread is in: handleSystemCall() never runs into
\* handleStateMismatch(), and m_current_syscall is there for an exit-stop.
SyscallInStep ==
    obj = "registered" /\ k.traced /\ k.status /\ k.at \in SyscallStops
        => /\ ("SYSCALL_ENTERED" \in t.flags) <=> (k.at = "SYS_EXIT")
           /\ k.at = "SYS_EXIT" => t.cur # "none"

\* SyscallInStep as an inductive invariant: the object and its thread are in step
\* from addTracee() on, at every step of either, until the thread is killed.
InStepInv ==
    /\ ThreadInv(k)
    /\ obj = "created" => /\ ~k.traced /\ ~k.sysgood /\ (k.run = "stop" => ~k.insys)
                          /\ t.flags \subseteq {"INJECTED_SIGSTOP"} /\ t.mode = "CONT"
                          /\ t.valid /\ ~t.blocked /\ t.state = "UNKNOWN"
    /\ obj = "registered" /\ Live(k) => Synced(t, k)

\* The callbacks fit together: attached() comes once, syscallEntry() and
\* syscallExit() alternate, RESUMED names the system call that was INTERRUPTED
\* before, and nothing but the end of the process follows exited().
CallbacksInOrder == ~v.wrong

\* Unless the client detaches, the end of a tracee is reported exactly once, by
\* exited() or by disappeared(), before the object leaves m_tracees. A tracee that was
\* never attached(), because its attach-stop was lost or it was killed before, may
\* leave without.
EndReportedOnce == ~v.asked => /\ v.ends < 2
                               /\ obj = "erased" /\ v.attached => v.ends = 1

\* Between two calls of wait() no tracee sits in a ptrace-stop that wait() has
\* already returned: processEvent() restarts or detaches it on every path, those
\* with an exception included, unless the kernel refuses PTRACE_LISTEN.
NoForgottenStop == obj = "registered" /\ t.valid /\ InStop(k) => k.status \/ v.refused

\* A thread that listens in group-stop is known to be stopped, to the Tracee and
\* to the consumer, and its process has really been stopped.
ListenMeansStopped ==
    k.run = "listen" /\ ~v.refused
        => t.state = "GROUP_STOP" /\ t.stopSig /\ v.stopped /\ k.gstop

\* Once the object lets go of the thread, by detach(), by an error or by leaving
\* m_tracees, the thread is not traced any more or it has been killed.
NothingLeftTraced ==
    obj = "erased" \/ ~t.valid
        => ~k.traced \/ k.fatal \/ k.run \in {"dying", "zombie", "gone"} \/ v.refused

\* The exit of a child with one thread, whose system calls are traced, is never put
\* down to another thread: the heuristic of handleExitEvent() is right here.
NeverLostToOthers == t.child /\ t.mode # "CONT" => ~v.lost

\* The Tracee, its thread, its errors and every SIGKILL implement the contract of
\* the EventConsumer: the callbacks keep their order, and the object leaves
\* m_tracees only after its end has been reported or detach() been called, after
\* which there are no more callbacks.
Contract == INSTANCE TraceeContract
                WITH attached <- v.attached, insys <- v.insys, intr <- v.intr,
                     ends <- v.ends, asked <- v.asked

\* The refinement of TraceeContract, see there.
ImplementsContract == Contract!Spec

\* A tracee that detach() was called for while it was running, with its
\* attach-stop behind it, is detached from (or found dead) at one of its next
\* stops, whatever that stop is.
DetachCompletes ==
    "DETACH_AT_NEXT_STOP" \in t.flags /\ "WAIT_FOR_ATTACH_STOP" \notin t.flags
        ~> t.state \in {"DETACHED", "DEAD"}

\* The end of a process that was not group-stopped when it came is noticed and the
\* object is removed.
EndNoticed ==
    obj = "registered" /\ k.run = "dying" /\ t.mode # "LISTEN" /\ ~v.asked
        ~> obj # "registered" \/ v.asked

\* Engine.hxx says of trace(): it delivers events "until all of the tracees have
\* exited or have been detached from".
TraceReturns == obj = "registered" /\ k.run \in {"dying", "zombie", "gone"}
                    ~> obj # "registered" \/ v.asked
=============================================================================
