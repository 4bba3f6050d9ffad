----------------------------- MODULE SystemCall -----------------------------
(***************************************************************************)
(* One system call number of one tracee: the SystemCallDB creates an       *)
(* object for it at the first use, setEntryInfo() and setExitInfo() fill   *)
(* it at every entry and exit of a call (Tracee::handleSystemCallEntry()   *)
(* and handleSystemCallExit()).                                            *)
(*                                                                         *)
(* The environment is the tracee: any ABI of its architecture in turn, any *)
(* operation, and at every stop at most one pointer or length that is of   *)
(* no use - whether memory can be read may change between the stops,       *)
(* because other threads map and unmap it meanwhile.                       *)
(***************************************************************************)
EXTENDS FileCalls, IoCalls, ProcessCalls, NetCalls, PrctlCalls

CONSTANT CallNames      \* the calls whose objects are explored

VARIABLES call,     \* the number
          arch,     \* the architecture of the tracee
          obj,      \* the SystemCall object
          abi,      \* m_abi
          opt,      \* what the arguments of the current call select
          phase,    \* idle, entered, exited, or broken by an exception
          res,      \* m_error: NO_DATA until the exit, ok for none
          st,       \* the unusable pointer at the last stop
          clean     \* was everything usable at every stop of this call?

vars == <<call, arch, obj, abi, opt, phase, res, st, clean>>

(* Creation, SystemCallDB.cxx: create_syscall() and get()                  *)

Signatures ==
    AccessCalls @@ StatCalls @@ OpenCalls @@ DirectoryCalls @@ DupCalls @@ FcntlCall @@ MemoryCalls
    @@ ReadWriteCalls @@ PositionedCalls @@ DescriptorCalls @@ SelectCalls @@ EPollCalls @@ PollCalls
    @@ CloneCall @@ SpawnCalls @@ IdCalls @@ WaitCalls @@ PIDFDCalls @@ ThreadCalls @@ FutexCall
    @@ SignalCalls @@ SignalFDCalls @@ TimeCalls @@ PlaceholderCalls @@ OtherCalls @@ ConnectionCalls
    @@ AcceptCalls @@ RecvCalls @@ SendCalls @@ ArchPrctlCall

(* Variant: the object of prctl() is kept.                                 *)
MultiSysNoPrctl == {"socketcall", "getsockopt", "setsockopt"}

(* These are overloaded: their objects are not kept.                       *)
MultiSys == {"prctl", "socketcall", "getsockopt", "setsockopt"}

NoObject == NewObject(NoItem, << >>)

CreateSyscall(c, o) ==
    CASE c = "prctl"      -> CreatePrctl(o.op)
      [] c = "socketcall" -> CreateSocketCall(o.sub, o.op)
      [] c = "getsockopt" -> CreateGetSockOpt(o.op)
      [] c = "setsockopt" -> CreateSetSockOpt(o.op)
      [] OTHER            -> Signatures[c]

DBGet(c, o) == IF c \in MultiSys \/ obj = NoObject THEN CreateSyscall(c, o) ELSE obj

AllCalls == DOMAIN Signatures \cup {"prctl", "socketcall", "getsockopt", "setsockopt"}

ASSUME CallNamesAssumption == CallNames \subseteq AllCalls

----------------------------------------------------------------------------
(* The tracee's choices.                                                   *)

(* The calls whose treatment depends on the ABI; for the others one will   *)
(* do, I386 where no other has the call.                                   *)
AnyABI == {"fadvise64", "mmap", "select", "clone", "prctl"}

OnlyI386 == {"mmap2", "newselect", "socketcall", "statfs64", "fstatfs64", "llseek", "fadvise64_64",
             "sigaction", "sigprocmask", "waitpid"}

Archs(c) == IF c \in {"fadvise64", "clone"} THEN {"x86", "arm"} ELSE {"x86"}

ABIsOf(c, a) ==
    CASE a = "arm"      -> {"AARCH64"}
      [] c \in AnyABI   -> {"X86_64", "I386", "X32"}
      [] c \in OnlyI386 -> {"I386"}
      [] OTHER          -> {"X86_64"}

Selected(op, sub, v) == [op |-> op, sub |-> sub, v |-> v]

NothingSelected == Selected("", "", {})

OptionsOf(c) ==
    CASE c \in {"open", "openat"} -> {Selected("", "", v) : v \in SUBSET {"create"}}
      [] c = "fcntl"      -> {Selected(op, "", {}) : op \in FcntlOps}
      [] c = "futex"      -> {Selected(op, "", {}) : op \in FutexOps}
      [] c = "arch_prctl" -> {Selected(op, "", {}) : op \in ArchPrctlOps}
      [] c = "waitid"     -> {Selected(op, "", {}) : op \in DOMAIN WaitIDTypes \cup {"ALL", "other"}}
      [] c = "clone"      -> {Selected("", "", v) : v \in SUBSET {"PARENT_SETTID", "PIDFD",
                                                                  "CHILD_SETTID", "SETTLS"}}
      [] c = "prctl"      -> UNION {{Selected(op, "", {v}) : v \in PrctlVariants(op)} : op \in PrctlOps}
      [] c \in {"getsockopt", "setsockopt"} -> {Selected(op, "", {}) : op \in SockOptions}
      [] c = "socketcall" ->
            {Selected("", sub, {}) : sub \in DOMAIN SocketSubCalls \cup {"other"}}
            \cup {Selected(op, sub, {}) : op \in SockOptions, sub \in {"getsockopt", "setsockopt"}}
      [] OTHER            -> {NothingSelected}

AllGood == [n |-> "", s |-> "good"]

Oddities(o) ==
    {AllGood} \cup
    UNION {{[n |-> o.pars[i].n, s |-> s] : s \in o.pars[i].odd} : i \in DOMAIN o.pars} \cup
    UNION {{[n |-> o.sub[i].n, s |-> s] : s \in o.sub[i].odd} : i \in DOMAIN o.sub}

(* What a register itself holds does not change between the two stops; a   *)
(* call does not succeed without the memory that the kernel requires.      *)
InRegister == {"null", "huge"}

Required == {"addrlen", "optlen", "dirent"}

ExitOddities(o, r) ==
    {s \in Oddities(o) :
        /\ IF {st.s, s.s} \cap InRegister # {} THEN s = st ELSE TRUE
        /\ ~(r = "ok" /\ s.s = "null" /\ s.n \in Required)}

----------------------------------------------------------------------------
(* setEntryInfo()                                                          *)

PrepareNewSystemCall(c, o, b) ==
    CASE c = "fcntl"      -> FcntlPrepare(o)
      [] c = "open"       -> OpenPrepare(o)
      [] c = "openat"     -> OpenAtPrepare(o)
      [] c \in {"fadvise64", "fadvise64_64"} -> FAdvisePrepare(o, c, b)
      [] c \in {"statfs", "fstatfs", "statfs64", "fstatfs64"} -> StatFSPrepare(o, c)
      [] c \in {"mmap", "mmap2"}       -> MmapPrepare(o, c, b)
      [] c \in {"select", "newselect"} -> SelectPrepare(o, c, b)
      [] c = "clone"      -> ClonePrepare(o)
      [] c = "waitid"     -> WaitIDPrepare(o)
      [] c = "futex"      -> FutexPrepare(o)
      [] c = "arch_prctl" -> ArchPrctlPrepare(o)
      [] OTHER            -> o

Check2ndPass(c, o, b, p, s) ==
    CASE c = "fcntl"      -> FcntlCheck2ndPass(o, p.op)
      [] c \in {"open", "openat"}      -> OpenCheck2ndPass(o, p.v)
      [] c \in {"mmap", "mmap2"}       -> MmapCheck2ndPass(o, s)
      [] c \in {"select", "newselect"} -> SelectCheck2ndPass(o, s)
      [] c = "clone"      -> CloneCheck2ndPass(o, b, p.v)
      [] c = "waitid"     -> WaitIDCheck2ndPass(o, p.op)
      [] c = "futex"      -> FutexCheck2ndPass(o, p.op)
      [] c = "arch_prctl" -> ArchPrctlCheck2ndPass(o, p.op)
      [] c = "prctl"      -> PrctlCheck2ndPass(o, p.op, b, p.v)
      [] c = "socketcall" -> SocketCallCheck2ndPass(o, s)
      [] OTHER            -> o

(* check2ndPass() asks for another pass where it may have added items.     *)
FillsAgain(c, before, after) ==
    /\ c \notin {"mmap", "mmap2", "select", "newselect", "socketcall"}
    /\ after.pars # before.pars

SetEntryInfo(c, o, b, p, s) ==
    LET first == FillParameters(PrepareNewSystemCall(c, o, b), s)
        second == IF first.flaw = "" THEN Check2ndPass(c, first, b, p, s) ELSE first
    IN  IF FillsAgain(c, first, second) THEN FillParameters(second, s) ELSE second

----------------------------------------------------------------------------
(* setExitInfo()                                                           *)

PostSystemCall(c, o, ok, s) ==
    CASE c \in {"select", "newselect"} -> SelectPost(o, ok, s)
      [] c = "socketcall"              -> SocketCallPost(o, ok, s)
      [] OTHER                         -> o

(* updateFDTracking() where it can fail                                    *)
UpdateFDTracking(c, o, p) ==
    IF c = "getsockopt" \/ (c = "socketcall" /\ p.sub = "getsockopt")
    THEN GetSockOptTrackFD(o, p.op) ELSE o

(* What the return item of a failed call keeps is not shown, so that its   *)
(* reset() is left out; m_return is taken to be set.                       *)
SetExitInfo(c, o, p, r, s) ==
    LET ok     == r = "ok"
        return == IF ok THEN FillItem(o, o.ret, "exit", "ok", "exit", s) ELSE o
        update == UpdateParameters(return, return.pars, ok, s)
        post   == PostSystemCall(c, update, ok, s)
    IN  IF ok THEN UpdateFDTracking(c, post, p) ELSE post

----------------------------------------------------------------------------
Init ==
    /\ call \in CallNames
    /\ arch \in Archs(call)
    /\ obj = NoObject
    /\ abi = "UNKNOWN"
    /\ opt = NothingSelected
    /\ phase = "idle"
    /\ res = "NO_DATA"
    /\ st = AllGood
    /\ clean = TRUE

PhaseAfter(next) == phase' = IF obj'.flaw = "" THEN next ELSE "broken"

(* handleSystemCallEntry()                                                 *)
Entry ==
    /\ phase = "idle"
    /\ \E b \in ABIsOf(call, arch), p \in OptionsOf(call) :
          /\ abi' = b
          /\ opt' = p
          /\ LET o == DBGet(call, p)
             IN  \E s \in Oddities(SetEntryInfo(call, o, b, p, AllGood)) :
                    /\ st' = s
                    /\ clean' = (s = AllGood)
                    /\ obj' = SetEntryInfo(call, o, b, p, s)
    /\ res' = "NO_DATA"
    /\ PhaseAfter("entered")
    /\ UNCHANGED <<call, arch>>

(* handleSystemCallExit(): the call succeeds, fails or is interrupted.     *)
Exit ==
    /\ phase = "entered"
    /\ \E r \in {"ok", "err", "eintr"} : \E s \in ExitOddities(obj, r) :
          /\ res' = r
          /\ st' = s
          /\ clean' = (clean /\ s = AllGood)
          /\ obj' = SetExitInfo(call, obj, opt, r, s)
    /\ PhaseAfter("exited")
    /\ UNCHANGED <<call, arch, abi, opt>>

(* The tracee runs on.  Overloaded calls get a new object next time; from  *)
(* now on what was read for this call is old.                              *)
Age(c) == IF c \in {"entry", "exit", "zero"} THEN "old" ELSE c

Aged(o) ==
    [o EXCEPT !.cell = [n \in DOMAIN @ |-> [main |-> Age(@[n].main), aux |-> Age(@[n].aux),
                                            done |-> Age(@[n].done)]]]

Resume ==
    /\ phase = "exited"
    /\ obj' = IF call \in MultiSys THEN NoObject ELSE Aged(obj)
    /\ phase' = "idle"
    /\ opt' = NothingSelected
    /\ res' = "NO_DATA"
    /\ st' = AllGood
    /\ clean' = TRUE
    /\ UNCHANGED <<call, arch, abi>>

Next == Entry \/ Exit \/ Resume

Spec == Init /\ [][Next]_vars

----------------------------------------------------------------------------
(* What an observer may look at: the items that str() formats              *)

ItemsOf(seq) == {seq[k] : k \in DOMAIN seq}

Shown == ItemsOf(obj.pars) \cup ItemsOf(obj.sub)

Members(i) == {CellOf(obj, i.n).main, CellOf(obj, i.n).aux}

Observable == phase \in {"entered", "exited"}

(* Types: the object never has more parameters than there are registers    *)
(* for arguments (m_pars is a SizedArray), whatever check2ndPass() adds.   *)
TypeOK ==
    /\ call \in CallNames
    /\ arch \in {"x86", "arm"}
    /\ abi \in ABIs \cup {"UNKNOWN"}
    /\ opt \in OptionsOf(call) \cup {NothingSelected}
    /\ phase \in {"idle", "entered", "exited", "broken"}
    /\ res \in {"NO_DATA", "ok", "err", "eintr"}
    /\ clean \in BOOLEAN
    /\ obj.flaw \in Flaws \cup {""}
    /\ Len(obj.pars) <= MaxPars
    /\ \A n \in DOMAIN obj.cell : \A c \in DOMAIN obj.cell[n] : obj.cell[n][c] \in Contents

(* A SystemCall object is used for every call of its number.  Whatever     *)
(* operations and ABIs it has seen before, prepareNewSystemCall() and      *)
(* check2ndPass() leave it with the parameters, the return item and the    *)
(* optional items of an object that was created for this very call.        *)
HistoryFree ==
    phase = "entered" =>
        LET new == SetEntryInfo(call, CreateSyscall(call, opt), abi, opt, st)
        IN  /\ obj.pars = new.pars /\ obj.sub = new.sub
            /\ obj.ret = new.ret /\ obj.live = new.live

(* m_pars and m_return are pointers to items, some of which live in a      *)
(* std::optional of the object: none of those in use has been reset().     *)
(* (A return item that was never set at all would not show here.)          *)
NoDangling ==
    phase # "broken" =>
        \A i \in ItemsOf(obj.pars) \cup {obj.ret} : i.opt => i.n \in obj.live

(* An item that needs another one (a length, a count, a level) to read its *)
(* data consults it after fillParameters() or updateData() has brought it  *)
(* up to date for this stop: DEFER_FILL is set wherever the order of the   *)
(* registers would not do.                                                 *)
SiblingsReady == obj.early = {}

(* Items that are known to keep what an earlier call left in them.         *)
KeepsOld == {"SigSetParameter", "OldMmapArgs", "OldSelectArgs"}

(* Nothing that is shown of a call was read for an earlier one, although   *)
(* the items are reused.  Excepted are the classes KeepsOld, and the items *)
(* that old mmap() and select() fill from such a structure.                *)
NothingStale ==
    Observable => \A i \in ItemsOf(obj.pars) \cup
                           (IF call = "socketcall" THEN ItemsOf(obj.sub) ELSE {}) :
                      i.k \notin KeepsOld => "old" \notin Members(i)

(* Output items that are known not to be read after a successful call.     *)
NotRead == {"RemainingTimeSpec", "FLockParameter", "SocketCallArgs"}

(* After a successful call every output parameter shows what the kernel    *)
(* stored during this call, if all the memory involved can be read.        *)
ResultsFresh ==
    phase = "exited" /\ res = "ok" /\ clean =>
        \A i \in Shown : NeedsUpdate(i) /\ i.k \notin NotRead => "exit" \in Members(i)

(* The registers in which the kernel expects the arguments whose place in  *)
(* m_pars depends on the operation or the ABI.                             *)
KernelRegister(c, b) ==
    CASE c = "clone" /\ b \in {"X86_64", "X32"} ->
            [flags |-> 1, stack |-> 2, parent_tid |-> 3, pidfd |-> 3, child_tid |-> 4, tls |-> 5]
      [] c = "clone" -> [flags |-> 1, stack |-> 2, parent_tid |-> 3, pidfd |-> 3, tls |-> 4, child_tid |-> 5]
      [] c = "futex" -> [futex_addr |-> 1, operation |-> 2, value |-> 3, wake_count |-> 3, fd_sig |-> 3,
                         timeout |-> 4, requeue_limit |-> 4, wake_count2 |-> 4, futex2_addr |-> 5,
                         bitset |-> 6, requeue_value |-> 6, wake_op |-> 6]
      [] c = "waitid" -> [idtype |-> 1, id_pid |-> 2, id_pgid |-> 2, id_pidfd |-> 2, siginfo |-> 3,
                          options |-> 4, rusage |-> 5]
      [] c = "open"   -> [filename |-> 1, flags |-> 2, mode |-> 3]
      [] c = "openat" -> [fd |-> 1, filename |-> 2, flags |-> 3, mode |-> 4]
      [] c = "fadvise64" /\ b = "I386" -> [fd |-> 1, size |-> 4, advice |-> 5]
      [] c \in {"fadvise64_64"}        -> [fd |-> 1, size |-> 5, advice |-> 6]
      [] c = "fadvise64"               -> [fd |-> 1, offset |-> 2, size |-> 3, advice |-> 4]
      [] c \in {"statfs64", "fstatfs64"} -> [path |-> 1, fd |-> 1, size |-> 2, buf |-> 3]
      [] c \in {"mmap", "select"} /\ b = "I386" -> [old_args |-> 1]
      [] c \in {"mmap", "mmap2"} -> [hint |-> 1, length |-> 2, prot |-> 3, flags |-> 4, fd |-> 5, offset |-> 6]
      [] OTHER -> << >>

(* In the calls whose arguments change places with the operation or the    *)
(* ABI (KernelRegister), every parameter is filled from the register in    *)
(* which this ABI passes it.                                               *)
ArgsInPosition ==
    Observable =>
        \A k \in DOMAIN obj.pars :
            LET n == obj.pars[k].n
                r == KernelRegister(call, abi)
            IN  n \in DOMAIN r => r[n] = k

(* What the code rejects with a RuntimeError.                              *)
Unsupported ==
    \/ call = "fadvise64" /\ abi = "X32"
    \/ call = "waitid" /\ opt.op = "other"
    \/ call = "socketcall" /\ opt.sub = "other"

(* A supported call whose pointers and lengths are all usable is handled   *)
(* without an exception or undefined behaviour, whatever calls the object  *)
(* has seen before.  rseq() is known to free its buffer twice.             *)
UsableCallHandled ==
    phase = "broken" /\ clean => Unsupported \/ call = "rseq"

=============================================================================
