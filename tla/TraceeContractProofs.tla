------------------------ MODULE TraceeContractProofs ------------------------
(***************************************************************************)
(* The theorems about TraceeLifecycle, for every choice of its constants,  *)
(* whatever order stops, signals, SIGKILL and detach() come in.  First its *)
(* type invariant and SyscallInStep, from the inductive invariant          *)
(* InStepInv: that the handlers of the tracer and the steps of the thread  *)
(* keep it is in TraceeObjectProofs.  Then the other safety properties and *)
(* the refinement of TraceeContract.  Their inductive invariant, ViewInv,  *)
(* says for each place an object can be in what is known of the object, of *)
(* its thread and of what the consumer has been told; what the handlers do *)
(* to the three is shown in TraceeViewProofs.                              *)
(***************************************************************************)
EXTENDS TraceeLifecycle, TraceeViewProofs

(* The object in step with its thread *)

IInv == TypeOK /\ InStepInv

(* The specification *)

\* What the inputs of an event can be.
LEMMA InputsType == ASSUME TypeOK, NEW in \in Inputs PROVE in \in InputRecords /\ in.ev = k.at
<1>1. k.at \in Statuses \cup {"none"}
  BY DEF TypeOK, Thread
<1>2. Results(k.nr) \subseteq {"ok", "EINTR", "ERESTART"}
  BY DEF Results
<1> DEFINE R == IF k.at = "SYS_EXIT" THEN Results(k.nr) ELSE {"ok"}
           C == IF k.at = "SYS_ENTRY" /\ k.nr = "restart_syscall" THEN {"none", "read"} ELSE {"none"}
           D == IF k.at = "SIG_TERM" THEN BOOLEAN ELSE {FALSE}
<1>3. R \subseteq {"ok", "EINTR", "ERESTART"} /\ C \subseteq MaybeCall /\ D \subseteq BOOLEAN
  BY <1>2 DEF MaybeCall, Calls
<1>4. in \in [ev : {k.at}, kill : {"no", "request", "decode", "late"}, detach : BOOLEAN,
              res : R, recovered : C, deadly : D]
  BY DEF Inputs
<1> HIDE DEF R, C, D
<1> QED
  BY <1>1, <1>3, <1>4 DEF InputRecords

\* The frame a handler starts with, k2 being the thread.
LEMMA FrameType ==
  ASSUME TypeOK, NEW k2 \in Thread
  PROVE  LET f == [Frame EXCEPT !.k = k2]
         IN  f \in Frames /\ f.t = t /\ f.k = k2 /\ f.v = v /\ f.ex = "none"
BY DEF TypeOK, Frame, Frames

\* In the initial states nothing is traced, or the thread is in its first stop.
LEMMA InitIInv == Init => IInv
<1> SUFFICES ASSUME Init PROVE IInv
  OBVIOUS
<1> DEFINE J == JobStopped(NewThread)
<1>1. NewThread \in Thread /\ ThreadInv(NewThread) /\ ~NewThread.traced /\ ~NewThread.sysgood
      /\ NewThread.run = "run" /\ ~NewThread.insys
  BY DEF NewThread, Thread, ThreadInv, Calls
<1>2. J \in Thread /\ ThreadInv(J) /\ ~J.traced /\ ~J.sysgood /\ ~J.insys
  BY DEF JobStopped, NewThread, Thread, ThreadInv, Calls, Statuses, PtraceStops, SyscallStops, SignalStops, EventStops
<1>3. v \in Views
  BY DEF Init, NewView, Views, MaybeCall
<1>4. ASSUME NEW c \in BOOLEAN, NEW s \in SUBSET Flags
      PROVE  LET x == [NewTracee(c) EXCEPT !.flags = s]
             IN  /\ x \in Tracees /\ x.flags = s /\ x.mode = "CONT" /\ x.valid /\ ~x.blocked
                 /\ x.state = "UNKNOWN"
  BY <1>4 DEF NewTracee, Tracees, States, RestartModes, MaybeCall
<1>5. CASE InitChild
  <2>1. {"INJECTED_SIGSTOP"} \in SUBSET Flags
    BY DEF Flags
  <2> QED BY <1>2, <1>3, <1>4, <1>5, <2>1 DEF InitChild, IInv, TypeOK, InStepInv
<1>6. CASE InitForeign
  <2>1. /\ t \in Tracees /\ t.flags = {} /\ t.mode = "CONT" /\ t.valid /\ ~t.blocked /\ t.state = "UNKNOWN"
    BY <1>6 DEF InitForeign, NewTracee, Tracees, States, RestartModes, MaybeCall
  <2>2. ASSUME NEW c \in ThreadCalls
        PROVE  LET x == [NewThread EXCEPT !.insys = TRUE, !.nr = c]
               IN  x \in Thread /\ ThreadInv(x) /\ ~x.traced /\ ~x.sysgood /\ x.run = "run"
    BY <2>2, CallsAssumption DEF NewThread, Thread, ThreadInv
  <2>3. k \in Thread /\ ThreadInv(k) /\ ~k.traced /\ ~k.sysgood /\ (k.run = "stop" => ~k.insys)
    BY <1>1, <1>2, <1>6, <2>2 DEF InitForeign
  <2>4. obj = "created"
    BY <1>6 DEF InitForeign
  <2> QED BY <1>3, <2>1, <2>3, <2>4 DEF IInv, TypeOK, InStepInv
<1>7. CASE InitAuto
  <2> DEFINE n == [NewThread EXCEPT !.traced = TRUE]
  <2>1. {"WAIT_FOR_ATTACH_STOP"} \in SUBSET Flags
    BY DEF Flags
  <2>2. /\ t \in Tracees /\ t.flags = {"WAIT_FOR_ATTACH_STOP"} /\ t.mode = "CONT" /\ t.valid /\ ~t.blocked
        /\ t.state = "UNKNOWN"
    BY <1>4, <1>7, <2>1 DEF InitAuto
  <2>3. n \in Thread /\ ~n.insys /\ ~n.sysgood
    BY <1>1 DEF NewThread, Thread, Calls
  <2>4. k = TakeTrap(n) /\ obj = "registered"
    BY <1>7 DEF InitAuto
  <2> HIDE DEF n
  <2>5. k \in Thread /\ ThreadInv(k) /\ k.run = "stop" /\ k.at \in {"EV_STOP_SIG", "EV_STOP_TRAP"}
        /\ ~k.insys /\ ~k.sysgood
    BY <2>3, <2>4, TakeTrapType, TakeTrapSynced
  <2>6. Synced(t, k)
    BY <2>2, <2>5 DEF Synced, SyscallStopPending, SyscallStops
  <2> QED BY <1>3, <2>2, <2>4, <2>5, <2>6 DEF IInv, TypeOK, InStepInv
<1> QED
  BY <1>5, <1>6, <1>7 DEF Init

\* A step of the thread preserves the invariant.
LEMMA ThreadStepIInv == ASSUME IInv, NEW b, KeepsInStep(k, b), ThreadStep(b) PROVE IInv'
<1>1. k' = b /\ t' = t /\ v' = v /\ obj' = obj
  BY DEF ThreadStep
<1>2. TypeOK' /\ ThreadInv(b)
  BY <1>1 DEF IInv, TypeOK, KeepsInStep
<1>3. obj = "created" => ~b.traced /\ ~b.sysgood /\ (b.run = "stop" => ~b.insys)
  BY DEF IInv, InStepInv, KeepsInStep
<1>4. obj = "registered" /\ Live(b) => Synced(t, b)
  <2>1. t \in Tracees
    BY DEF IInv, TypeOK
  <2> QED BY <2>1 DEF IInv, InStepInv, KeepsInStep
<1>5. InStepInv'
  BY <1>1, <1>2, <1>3, <1>4 DEF IInv, InStepInv
<1> QED
  BY <1>2, <1>5 DEF IInv

\* What a handler leaves becomes the next state.
LEMMA BecomesIInv ==
  ASSUME NEW f \in Frames, ThreadInv(f.k), Becomes(f), obj' \in {"registered", "erased", "aborted"},
         obj' = "registered" => Settled(f)
  PROVE  IInv'
<1>1. t' = f.t /\ k' = f.k /\ v' = f.v
  BY DEF Becomes
<1>2. f.t \in Tracees /\ f.k \in Thread /\ f.v \in Views
  BY FrameUpdate
<1>3. TypeOK'
  BY <1>1, <1>2 DEF TypeOK
<1>4. InStepInv'
  BY <1>1 DEF InStepInv, Settled
<1> QED
  BY <1>3, <1>4 DEF IInv

\* addTracee() preserves it.
LEMMA AddTraceeIInv == ASSUME IInv, AddTracee PROVE IInv'
<1> DEFINE f == Attach(Frame)
           g == IF f.ex # "none" /\ t.child THEN [f EXCEPT !.k = Collect(f.k)] ELSE f
<1>1. /\ obj = "created" /\ Becomes(g)
      /\ obj' = IF f.ex # "none" THEN "erased" ELSE "registered"
  BY DEF AddTracee
<1>2. Frame \in Frames /\ Frame.t = t /\ Frame.k = k /\ Frame.ex = "none"
  BY DEF IInv, TypeOK, Frame, Frames
<1>3. f \in Frames /\ (IF f.ex = "none" THEN Settled(f) ELSE f.k = k)
  <2> HIDE DEF f
  <2>1. /\ ThreadInv(k) /\ ~k.traced /\ ~k.sysgood /\ (k.run = "stop" => ~k.insys)
        /\ t.flags \subseteq {"INJECTED_SIGSTOP"} /\ t.mode = "CONT"
        /\ t.valid /\ ~t.blocked /\ t.state = "UNKNOWN"
    BY <1>1 DEF IInv, InStepInv
  <2> QED BY <1>2, <2>1, AttachSettled DEF f
<1> HIDE DEF f
<1>4. CASE f.ex = "none"
  <2>1. g = f /\ obj' = "registered" /\ ThreadInv(f.k)
    BY <1>1, <1>3, <1>4 DEF Settled
  <2> QED BY <1>1, <1>3, <1>4, <2>1, BecomesIInv
<1>5. CASE f.ex # "none"
  <2> DEFINE c == [f EXCEPT !.k = Collect(f.k)]
  <2>1. k \in Thread /\ ThreadInv(k) /\ f.k = k
    BY <1>3, <1>5 DEF IInv, TypeOK, InStepInv
  <2>2. Collect(k) \in Thread /\ ThreadInv(Collect(k))
    BY <2>1, CollectType, CollectInv
  <2>3. c \in Frames /\ c.k = Collect(k)
    BY <1>3, <2>1, <2>2 DEF Frames
  <2>4. g = c \/ g = f
    BY <1>5
  <2> HIDE DEF c, g
  <2>5. g \in Frames /\ ThreadInv(g.k)
    BY <1>3, <2>1, <2>2, <2>3, <2>4
  <2>6. obj' = "erased"
    BY <1>1, <1>5
  <2> QED BY <1>1, <2>5, <2>6, BecomesIInv
<1> QED
  BY <1>4, <1>5

\* An event that trace() handles does.
LEMMA EngineHandleEventIInv == ASSUME IInv, EngineHandleEvent PROVE IInv'
<1>1. PICK in \in Inputs : HandleEventOf(in)
  BY DEF EngineHandleEvent
<1> DEFINE f0 == [Frame EXCEPT !.k = Collect(k)]
           f == ProcessEvent(f0, in)
           g == IF f.t.state = "DEAD" THEN DoDetach(f) ELSE f
<1>2. /\ obj = "registered" /\ k.status
      /\ IF f.ex \in {"none", "ESRCH", "EIO"} THEN CheckCleanupTracee(f) ELSE Becomes(f) /\ obj' = "aborted"
  BY <1>1 DEF HandleEventOf, Frame
<1>3. TypeOK /\ k \in Thread /\ ThreadInv(k) /\ (Live(k) => Synced(t, k))
  BY <1>2 DEF IInv, TypeOK, InStepInv
<1>4. f0 \in Frames /\ f0.t = t /\ f0.k = Collect(k) /\ f0.ex = "none"
  BY <1>3, CollectType, FrameType
<1>5. in \in InputRecords /\ in.ev = k.at
  BY <1>3, InputsType
<1> HIDE DEF f0
<1>6. Settled(f)
  BY <1>2, <1>3, <1>4, <1>5, ProcessEventSettled
<1> HIDE DEF f
<1>7. f \in Frames /\ ThreadInv(f.k) /\ DoDetach(f) \in Frames /\ ThreadInv(DoDetach(f).k)
  BY <1>6, DoDetachThread DEF Settled
<1>8. CASE f.ex \in {"none", "ESRCH", "EIO"}
  <2>1. Becomes(g) /\ obj' = IF Removed(f) THEN "erased" ELSE "registered"
    BY <1>2, <1>8 DEF CheckCleanupTracee
  <2>2. g \in Frames /\ ThreadInv(g.k)
    BY <1>7
  <2>3. obj' = "registered" => Settled(g)
    BY <1>6, <2>1 DEF Removed
  <2> HIDE DEF g
  <2>4. obj' \in {"registered", "erased", "aborted"}
    BY <2>1
  <2> QED BY <2>1, <2>2, <2>3, <2>4, BecomesIInv
<1>9. CASE f.ex \notin {"none", "ESRCH", "EIO"}
  <2>1. Becomes(f) /\ obj' = "aborted"
    BY <1>2, <1>9
  <2> QED BY <1>7, <2>1, BecomesIInv
<1> QED
  BY <1>8, <1>9

\* detach() from outside does.
LEMMA ConsumerDetachIInv == ASSUME IInv, ConsumerDetach PROVE IInv'
<1> DEFINE f == DetachTracee(Frame)
<1>1. obj = "registered" /\ obj' = "registered" /\ Becomes(f)
  BY DEF ConsumerDetach
<1>2. Frame \in Frames /\ Frame.t = t /\ Frame.k = k
  BY DEF IInv, TypeOK, Frame, Frames
<1>3. Settled(Frame)
  BY <1>1, <1>2 DEF IInv, InStepInv, Settled
<1>4. Settled(f)
  BY <1>3, DetachTraceeSettled
<1> HIDE DEF f
<1> QED
  BY <1>1, <1>4, BecomesIInv DEF Settled

\* The wait() in cleanupChild() does: it takes a status away from a tracee only
\* when the object has let go of it.
LEMMA ChildCollectedIInv == ASSUME IInv, ChildCollected PROVE IInv'
<1> DEFINE x == [t EXCEPT !.blocked = FALSE]
           c == Collect(k)
           d == Collect(Kill(k))
<1>1. /\ t.blocked /\ k.status /\ t' = x /\ k' = (IF obj = "erased" THEN d ELSE c) /\ v' = v /\ obj' = obj
  BY DEF ChildCollected
<1>2. t \in Tracees /\ k \in Thread /\ v \in Views /\ ThreadInv(k)
      /\ obj \in {"created", "registered", "erased", "aborted"}
  BY DEF IInv, TypeOK, InStepInv
<1>3. /\ x \in Tracees /\ x.flags = t.flags /\ x.mode = t.mode /\ x.cur = t.cur /\ x.valid = t.valid
      /\ x.state = t.state /\ ~x.blocked
  BY <1>2 DEF Tracees
<1>4. c \in Thread /\ d \in Thread
  BY <1>2, CollectType, KillType
<1>5. ThreadInv(c) /\ ThreadInv(d)
  <2>1. Kill(k) \in Thread /\ ThreadInv(Kill(k))
    BY <1>2, KillType, KillNotLive
  <2> QED BY <1>2, <2>1, CollectInv
<1>6. obj # "created"
  BY <1>1 DEF IInv, InStepInv
<1>7. ASSUME obj = "registered", Live(c) PROVE Synced(x, c)
  <2>1. /\ c.run = k.run /\ c.at = k.at /\ c.traced = k.traced /\ c.sysgood = k.sysgood
        /\ c.insys = k.insys /\ ~c.status /\ k.run = "stop"
    BY <1>1, <1>2, <1>7 DEF Collect, Thread, ThreadInv, Live
  <2>2. Synced(t, k)
    BY <1>7, <2>1 DEF IInv, InStepInv, Live
  <2>3. k.at \in {"EV_STOP_SIG", "EV_STOP_TRAP"}
    BY <1>1, <2>1, <2>2 DEF Synced
  <2>4. ~SyscallStopPending(k) /\ ~SyscallStopPending(c)
    BY <2>1, <2>3 DEF SyscallStopPending, SyscallStops
  <2> QED BY <1>3, <2>1, <2>2, <2>4 DEF Synced
<1> HIDE DEF x, c, d
<1>8. TypeOK'
  BY <1>1, <1>2, <1>3, <1>4 DEF TypeOK
<1>9. InStepInv'
  BY <1>1, <1>5, <1>6, <1>7 DEF InStepInv
<1> QED
  BY <1>8, <1>9 DEF IInv

\* IInv is inductive.
LEMMA NextIInv == IInv /\ [Next]_vars => IInv'
<1> SUFFICES ASSUME IInv, [Next]_vars PROVE IInv'
  OBVIOUS
<1>1. t \in Tracees /\ k \in Thread /\ ThreadInv(k) /\ t.child \in BOOLEAN
  BY DEF IInv, TypeOK, InStepInv, Tracees
<1>2. CASE AddTracee
  BY <1>2, AddTraceeIInv
<1>3. CASE EngineHandleEvent
  BY <1>3, EngineHandleEventIInv
<1>4. CASE ChildCollected
  BY <1>4, ChildCollectedIInv
<1>5. CASE ConsumerDetach
  BY <1>5, ConsumerDetachIInv
<1>6. CASE EnterSyscall
  <2>1. PICK c \in ThreadCalls : ThreadStep(EnterCall(k, c))
    BY <1>6 DEF EnterSyscall
  <2>2. KeepsInStep(k, EnterCall(k, c))
    BY <1>1, <1>6, CallsAssumption, EnterCallKeeps DEF EnterSyscall
  <2> QED BY <2>1, <2>2, ThreadStepIInv
<1>7. CASE LeaveSyscall
  BY <1>1, <1>7, LeaveCallKeeps, ThreadStepIInv DEF LeaveSyscall
<1>8. CASE ReportEvent
  <2>1. PICK e \in EventStops : CanReport(k, e) /\ ThreadStep(StopAt(k, e))
    BY <1>8 DEF ReportEvent
  <2>2. KeepsInStep(k, StopAt(k, e))
    BY <1>1, <2>1, ReportKeeps
  <2> QED BY <2>1, <2>2, ThreadStepIInv
<1>9. CASE InterruptStop
  BY <1>1, <1>9, TrapKeeps, ThreadStepIInv DEF InterruptStop
<1>10. CASE DeliverSignal
  <2>1. PICK s \in Signals : CanDeliver(k, s) /\ ThreadStep(Deliver(k, s, t.child))
    BY <1>10 DEF DeliverSignal
  <2>2. KeepsInStep(k, Deliver(k, s, t.child))
    BY <1>1, <2>1, DeliverKeeps
  <2> QED BY <2>1, <2>2, ThreadStepIInv
<1>11. CASE CallExit
  BY <1>1, <1>11, EndKeeps, ThreadStepIInv DEF CallExit
<1>12. CASE ReportExit
  BY <1>1, <1>12, EndKeeps, ThreadStepIInv DEF ReportExit
<1>13. CASE ThreadDies
  BY <1>1, <1>13, EndKeeps, ThreadStepIInv DEF ThreadDies
<1>14. CASE SendSignal
  <2>1. PICK s \in ThreadSignals : ThreadStep(Send(k, s))
    BY <1>14 DEF SendSignal
  <2>2. KeepsInStep(k, Send(k, s))
    BY <1>1, SignalsAssumption, SendKeeps
  <2> QED BY <2>1, <2>2, ThreadStepIInv
<1>15. CASE KillThread
  BY <1>1, <1>15, EndKeeps, ThreadStepIInv DEF KillThread
<1>16. CASE UNCHANGED vars
  BY <1>16 DEF vars, IInv, TypeOK, InStepInv
<1> QED
  BY <1>2, <1>3, <1>4, <1>5, <1>6, <1>7, <1>8, <1>9, <1>10, <1>11, <1>12, <1>13, <1>14, <1>15, <1>16
     DEF Next, TracerNext, ThreadNext

\* The invariant implies what it is for: the stop that wait() is going to return
\* is one that handleSystemCall() expects.
LEMMA InStepEnough == IInv => SyscallInStep
<1> SUFFICES ASSUME IInv, obj = "registered", k.traced, k.status, k.at \in SyscallStops
             PROVE  /\ ("SYSCALL_ENTERED" \in t.flags) <=> (k.at = "SYS_EXIT")
                    /\ k.at = "SYS_EXIT" => t.cur # "none"
  BY DEF SyscallInStep
<1>1. k.run = "stop"
  BY DEF IInv, InStepInv, ThreadInv, SyscallStops
<1>2. Live(k)
  BY <1>1 DEF Live, PtraceStops, SyscallStops
<1>3. SyscallStopPending(k) /\ Synced(t, k)
  BY <1>1, <1>2 DEF IInv, InStepInv, SyscallStopPending
<1> QED
  BY <1>3 DEF Synced, SyscallStops

\* The object, the thread, the consumer's view and the object's place in m_tracees
\* keep to their types, whatever order stops, signals, SIGKILL and detach() come in.
THEOREM TypeCorrect == Spec => []TypeOK
<1>1. IInv => TypeOK
  BY DEF IInv
<1> QED
  BY <1>1, InitIInv, NextIInv, PTL DEF Spec

\* SyscallInStep holds for every way a tracee comes about, every set of system calls
\* and every set of signals: handleSystemCall() never runs into
\* handleStateMismatch().
THEOREM SyscallsInStep == Spec => []SyscallInStep
BY InStepEnough, InitIInv, NextIInv, PTL DEF Spec

\* The object and its thread are in step from addTracee() on until the thread is
\* killed: SYSCALL_ENTERED, the restart mode and m_current_syscall agree with where
\* the thread is.
THEOREM ObjectInStep == Spec => []InStepInv
<1>1. IInv => InStepInv
  BY DEF IInv
<1> QED
  BY <1>1, InitIInv, NextIInv, PTL DEF Spec

(* The contract *)

\* The thread is the only one of its process.
Alone == TRUE

\* What holds of the view wherever the object is.
AlwaysInv ==
    /\ KernelInv(k, Alone)
    /\ ~v.wrong
    /\ v.ends > 0 \/ v.lost => Over(k)
    /\ v.ends = 2 => v.asked /\ k.run = "gone"
    /\ t.child /\ t.mode # "CONT" => ~v.lost

\* An object that has left m_tracees has let go of its thread and has told its end,
\* unless the consumer asked it to go.
ErasedInv ==
    /\ Released(k) \/ v.refused
    /\ ~v.asked /\ v.attached => v.ends = 1

ViewInv ==
    /\ AlwaysInv
    /\ obj = "created" => v = NewView /\ t.intr = "none"
    /\ obj = "registered" => Core(t, k, v, Alone) /\ RestInv(t, k, v, Alone)
    /\ obj = "erased" => ErasedInv
    /\ obj = "aborted" => t.valid /\ k.run # "listen"

(* Init *)

\* Nothing has been told in the initial states.
LEMMA InitViewInv == Init => ViewInv
<1> SUFFICES ASSUME Init PROVE ViewInv
  OBVIOUS
<1>1. v = NewView
  BY DEF Init
<1>2. /\ ~v.wrong /\ v.ends = 0 /\ ~v.lost /\ ~v.attached /\ ~v.insys /\ ~v.asked /\ ~v.refused
  BY <1>1 DEF NewView
<1>3. NewThread \in Thread /\ ~NewThread.traced /\ ~NewThread.trap /\ ~NewThread.notify /\ ~NewThread.fatal
      /\ NewThread.run = "run"
  BY DEF NewThread, Thread, Calls
<1>4. CASE InitChild \/ InitForeign
  <2>1. t.intr = "none" /\ obj = "created"
    <3>1. CASE InitChild
      BY <3>1 DEF InitChild, NewTracee
    <3>2. CASE InitForeign
      BY <3>2 DEF InitForeign, NewTracee
    <3> QED BY <1>4, <3>1, <3>2
  <2>2. KernelInv(k, Alone)
    <3> DEFINE J == JobStopped(NewThread)
    <3>1. ~J.traced /\ ~J.trap /\ ~J.notify /\ ~J.fatal /\ J.run = "stop" /\ J.at = "STOPPED"
      BY DEF JobStopped, NewThread
    <3>2. ASSUME NEW c \in ThreadCalls
          PROVE  LET x == [NewThread EXCEPT !.insys = TRUE, !.nr = c]
                 IN  ~x.traced /\ ~x.trap /\ ~x.notify /\ ~x.fatal /\ x.run = "run"
      BY DEF NewThread
    <3>3. \/ ~k.traced /\ ~k.trap /\ ~k.notify /\ ~k.fatal /\ k.run = "stop" /\ k.at = "STOPPED"
          \/ ~k.traced /\ ~k.trap /\ ~k.notify /\ ~k.fatal /\ k.run = "run"
      BY <1>3, <1>4, <3>1, <3>2 DEF InitChild, InitForeign
    <3> QED BY <3>3 DEF KernelInv
  <2> QED BY <1>1, <1>2, <2>1, <2>2 DEF ViewInv, AlwaysInv
<1>5. CASE InitAuto
  <2> DEFINE n == [NewThread EXCEPT !.traced = TRUE]
  <2>1. /\ t.flags = {"WAIT_FOR_ATTACH_STOP"} /\ t.mode = "CONT" /\ t.valid /\ ~t.blocked
        /\ t.state = "UNKNOWN" /\ t.intr = "none"
    BY <1>5 DEF InitAuto, NewTracee
  <2>2. n \in Thread /\ n.traced /\ ~n.fatal /\ ~n.gstop
    BY DEF NewThread, Thread, Calls
  <2>3. k = TakeTrap(n) /\ obj = "registered"
    BY <1>5 DEF InitAuto
  <2> HIDE DEF n
  <2>4. k.traced /\ ~k.fatal /\ k.run = "stop" /\ k.at = "EV_STOP_TRAP" /\ k.status
    BY <2>2, <2>3, TakeTrapFields
  <2>5. KernelInv(k, Alone)
    BY <2>4 DEF KernelInv
  <2>6. HeldInv(t, k, v, Alone)
    BY <2>1, <2>4 DEF HeldInv
  <2>7. ToldInv(t, k, v)
    BY <1>2, <2>1 DEF ToldInv
  <2>8. ListenInv(t, k, v) /\ RestInv(t, k, v, Alone)
    BY <2>1, <2>4 DEF ListenInv, RestInv, InStop, Exiting
  <2> QED BY <1>2, <2>1, <2>3, <2>5, <2>6, <2>7, <2>8 DEF ViewInv, AlwaysInv, Core
<1> QED
  BY <1>4, <1>5 DEF Init

(* The thread's own steps *)

\* A step of the thread preserves the invariant.
LEMMA ThreadStepViewInv ==
  ASSUME IInv, ViewInv, NEW b \in Thread, StepKeeps(k, b, Alone), ThreadStep(b) PROVE ViewInv'
<1>1. k' = b /\ t' = t /\ v' = v /\ obj' = obj
  BY DEF ThreadStep
<1>2. t \in Tracees /\ k \in Thread /\ v \in Views /\ ThreadInv(k)
  BY DEF IInv, TypeOK, InStepInv
<1>3. AlwaysInv'
  BY <1>1 DEF ViewInv, AlwaysInv, StepKeeps
<1>4. obj = "registered" => Core(t, b, v, Alone) /\ RestInv(t, b, v, Alone)
  <2> SUFFICES ASSUME obj = "registered" PROVE Core(t, b, v, Alone) /\ RestInv(t, b, v, Alone)
    OBVIOUS
  <2>1. KernelInv(k, Alone) /\ Core(t, k, v, Alone) /\ RestInv(t, k, v, Alone) /\ (Live(k) => Synced(t, k))
    BY DEF ViewInv, AlwaysInv, IInv, InStepInv
  <2>2. t.child => Alone
    BY DEF Alone
  <2> QED BY <1>2, <2>1, <2>2, StepCore
<1>5. obj = "erased" => ErasedInv'
  BY <1>1 DEF ViewInv, ErasedInv, StepKeeps
<1>6. obj = "aborted" => t.valid /\ b.run # "listen"
  BY DEF ViewInv, StepKeeps
<1> QED
  BY <1>1, <1>3, <1>4, <1>5, <1>6 DEF ViewInv

(* The tracer's steps *)

\* addTracee() preserves it and tells nothing.
LEMMA AddTraceeViewInv ==
  ASSUME IInv, ViewInv, AddTracee
  PROVE  ViewInv' /\ v' = v /\ obj = "created" /\ obj' \in {"registered", "erased"}
<1> DEFINE f == Attach(Frame)
           c == [f EXCEPT !.k = Collect(f.k)]
           g == IF f.ex # "none" /\ t.child THEN c ELSE f
<1>1. /\ obj = "created" /\ Becomes(g)
      /\ obj' = IF f.ex # "none" THEN "erased" ELSE "registered"
  BY DEF AddTracee
<1>2. Frame \in Frames /\ Frame.t = t /\ Frame.k = k /\ Frame.v = v /\ Frame.ex = "none"
  BY DEF IInv, TypeOK, Frame, Frames
<1>3. /\ f \in Frames /\ KernelInv(f.k, Alone) /\ f.v = v
      /\ IF f.ex = "none" THEN Core(f.t, f.k, f.v, Alone) /\ RestInv(f.t, f.k, f.v, Alone) ELSE f.k = k /\ f.t.mode = "CONT"
  <2> HIDE DEF f
  <2>1. /\ ThreadInv(k) /\ ~k.traced
        /\ t.flags \subseteq {"INJECTED_SIGSTOP"} /\ t.mode = "CONT"
        /\ t.valid /\ ~t.blocked /\ t.state = "UNKNOWN"
    BY <1>1 DEF IInv, InStepInv
  <2>2. KernelInv(k, Alone) /\ v = NewView /\ t.intr = "none"
    BY <1>1 DEF ViewInv, AlwaysInv
  <2> QED BY <1>2, <2>1, <2>2, AttachCore DEF f
<1> HIDE DEF f
<1>4. ~k.traced /\ v = NewView /\ k \in Thread
  BY <1>1 DEF IInv, TypeOK, InStepInv, ViewInv
<1>5. ~v.wrong /\ v.ends = 0 /\ ~v.lost /\ ~v.attached
  BY <1>4 DEF NewView
<1>6. CASE f.ex = "none"
  <2>1. t' = f.t /\ k' = f.k /\ v' = v /\ obj' = "registered"
    BY <1>1, <1>3, <1>6 DEF Becomes
  <2>2. AlwaysInv' /\ Core(t', k', v', Alone) /\ RestInv(t', k', v', Alone)
    BY <1>3, <1>5, <1>6, <2>1 DEF AlwaysInv
  <2> QED BY <1>1, <2>1, <2>2 DEF ViewInv
<1>7. CASE f.ex # "none"
  <2>1. c \in Frames /\ c.v = v /\ c.t = f.t /\ c.k = Collect(k) /\ KernelInv(c.k, Alone) /\ ~c.k.traced
    BY <1>3, <1>4, <1>7, CollectFields, FrameParts
  <2> HIDE DEF c
  <2>2. obj' = "erased" /\ v' = v /\ KernelInv(k', Alone) /\ ~k'.traced
    BY <1>1, <1>3, <1>4, <1>7, <2>1 DEF Becomes
  <2>3. AlwaysInv' /\ ErasedInv'
    BY <1>5, <2>2 DEF AlwaysInv, ErasedInv, Released
  <2> QED BY <1>1, <2>2, <2>3 DEF ViewInv
<1> QED
  BY <1>6, <1>7

\* An object that is not removed keeps the invariant in any case.
LEMMA RegisteredViewInv ==
  ASSUME NEW f \in Frames, KernelInv(f.k, Alone), Core(f.t, f.k, f.v, Alone), RestInv(f.t, f.k, f.v, Alone), Becomes(f),
         obj' = "registered"
  PROVE  ViewInv'
<1>1. t' = f.t /\ k' = f.k /\ v' = f.v
  BY DEF Becomes
<1>2. AlwaysInv'
  BY <1>1 DEF AlwaysInv, Core, ToldInv
<1> QED
  BY <1>1, <1>2 DEF ViewInv

\* doDetach() of an object whose thread is dead, in checkCleanupTracee().
LEMMA DeadDetached ==
  ASSUME NEW f \in Frames, f.t.state = "DEAD", ~f.t.valid \/ f.k.run = "gone"
  PROVE  LET g == DoDetach(f)
         IN  /\ g \in Frames /\ g.k = f.k /\ SameTold(f.v, g.v) /\ g.v.asked = f.v.asked
             /\ g.v.refused <=> f.v.refused
             /\ g.t.child = f.t.child /\ g.t.mode = f.t.mode
<1> DEFINE g == DoDetach(f)
<1>1. /\ g \in Frames /\ LetGo(f.t, g.t)
      /\ g.k = IF Reachable(f) THEN Detach(f.k, f.t.child) ELSE f.k
      /\ SameTold(f.v, g.v) /\ g.v.asked = f.v.asked
      /\ g.v.refused <=> f.v.refused \/ (f.t.valid /\ f.k.run = "listen")
  BY DoDetachParts
<1>2. ~Reachable(f)
  BY DEF Reachable, InStop
<1> HIDE DEF g
<1> QED
  BY <1>1, <1>2 DEF LetGo, g

\* A step that trace() takes tells the consumer at most one thing, and the object
\* leaves m_tracees only if the consumer asked for it or has been told the end.
Honest(w) ==
    /\ Tells(v, w)
    /\ obj' \in {"registered", "erased", "aborted"}
    /\ obj' = "aborted" => w = v
    /\ obj' = "erased" => w.asked \/ w.ends = 1

\* The removal of an object from m_tracees.
LEMMA ErasedViewInv ==
  ASSUME NEW f \in Frames, KernelInv(f.k, Alone), ~f.v.wrong, f.v.ends > 0 \/ f.v.lost => Over(f.k),
         f.v.ends = 2 => f.v.asked /\ f.k.run = "gone", f.t.child /\ f.t.mode # "CONT" => ~f.v.lost,
         f.v.asked \/ f.v.ends = 1, Released(f.k) \/ f.v.refused, Tells(v, f.v),
         f.t.state = "DEAD" => ~f.t.valid \/ f.k.run = "gone",
         Becomes(IF f.t.state = "DEAD" THEN DoDetach(f) ELSE f), obj' = "erased"
  PROVE  ViewInv' /\ Honest(v')
<1> DEFINE g == IF f.t.state = "DEAD" THEN DoDetach(f) ELSE f
<1>1. /\ g \in Frames /\ g.k = f.k /\ SameTold(f.v, g.v) /\ g.v.asked = f.v.asked
      /\ g.v.refused <=> f.v.refused
      /\ g.t.child = f.t.child /\ g.t.mode = f.t.mode
  BY DeadDetached DEF SameTold
<1>2. t' = g.t /\ k' = g.k /\ v' = g.v
  BY DEF Becomes
<1> HIDE DEF g
<1>3. AlwaysInv' /\ ErasedInv'
  BY <1>1, <1>2 DEF AlwaysInv, ErasedInv, SameTold
<1>4. Honest(v')
  BY <1>1, <1>2 DEF Honest, Tells, SameTold
<1> QED
  BY <1>2, <1>3, <1>4 DEF ViewInv

\* An event that trace() handles preserves the invariant, and the consumer is told
\* what the contract allows.
LEMMA EngineHandleEventViewInv ==
  ASSUME IInv, ViewInv, EngineHandleEvent PROVE ViewInv' /\ obj = "registered" /\ Honest(v')
<1>1. PICK in \in Inputs : HandleEventOf(in)
  BY DEF EngineHandleEvent
<1> DEFINE f0 == [Frame EXCEPT !.k = Collect(k)]
           f == ProcessEvent(f0, in)
<1>2. /\ obj = "registered" /\ k.status
      /\ IF f.ex \in {"none", "ESRCH", "EIO"} THEN CheckCleanupTracee(f) ELSE Becomes(f) /\ obj' = "aborted"
  BY <1>1 DEF HandleEventOf, Frame
<1>3. /\ TypeOK /\ k \in Thread /\ ThreadInv(k) /\ (Live(k) => Synced(t, k))
      /\ KernelInv(k, Alone) /\ Core(t, k, v, Alone) /\ RestInv(t, k, v, Alone)
  BY <1>2 DEF IInv, TypeOK, InStepInv, ViewInv, AlwaysInv
<1>4. f0 \in Frames /\ f0.t = t /\ f0.k = Collect(k) /\ f0.v = v /\ f0.ex = "none"
  BY <1>3, CollectType, FrameType
<1>5. in \in InputRecords /\ in.ev = k.at
  BY <1>3, InputsType
<1> HIDE DEF f0
<1>6. IF k.run = "zombie" THEN EndedTo(f0, f) ELSE HandledTo(f0, f, Alone) /\ f0.v.ends = 0 /\ ~f0.v.lost /\ f0.k.run = "stop"
  <2>1. f0.t.child => Alone
    BY DEF Alone
  <2> QED BY <1>2, <1>3, <1>4, <1>5, <2>1, ProcessEventHandled
<1> HIDE DEF f
<1>7. CASE k.run = "zombie"
  <2>1. /\ f \in Frames /\ f.ex = "none" /\ f.k = Collect(k) /\ f.t.state = "DEAD" /\ Tells(v, f.v)
        /\ ~f.v.wrong /\ (f.v.ends = 2 => f.v.asked) /\ (~f.v.asked => f.v.ends = 1)
        /\ f.t.child /\ f.t.mode # "CONT" => ~f.v.lost
    BY <1>4, <1>6, <1>7 DEF EndedTo
  <2>2. f.k.run = "gone" /\ KernelInv(f.k, Alone)
    BY <1>3, <1>7, <2>1, CollectFields
  <2>3. Becomes(IF f.t.state = "DEAD" THEN DoDetach(f) ELSE f) /\ obj' = "erased"
    BY <1>2, <2>1 DEF CheckCleanupTracee, Removed
  <2>4. ViewInv' /\ Honest(v')
    BY <2>1, <2>2, <2>3, ErasedViewInv DEF Over, Released
  <2> QED BY <1>2, <2>4
<1>8. CASE k.run # "zombie" /\ Aborts(f0, f)
  <2>1. /\ f \in Frames /\ KernelInv(f.k, Alone) /\ f.t.valid /\ f.v = v /\ f.k = f0.k /\ f0.k.run = "stop"
        /\ v.ends = 0 /\ ~v.lost
    BY <1>4, <1>6, <1>8 DEF Aborts, HandledTo
  <2>2. Becomes(f) /\ obj' = "aborted"
    BY <1>2, <1>8 DEF Aborts
  <2>3. t' = f.t /\ k' = f.k /\ v' = v
    BY <2>1, <2>2 DEF Becomes
  <2>4. AlwaysInv'
    BY <1>3, <2>1, <2>3 DEF AlwaysInv, Core, ToldInv
  <2>5. ViewInv'
    BY <2>1, <2>2, <2>3, <2>4 DEF ViewInv
  <2>6. Honest(v')
    BY <2>2, <2>3 DEF Honest, Tells
  <2> QED BY <1>2, <2>5, <2>6
<1>9. CASE k.run # "zombie" /\ ~Aborts(f0, f)
  <2>1. /\ f \in Frames /\ KernelInv(f.k, Alone) /\ Tells(v, f.v) /\ f.ex \in {"none", "ESRCH", "EIO"}
        /\ Core(f.t, f.k, f.v, Alone) /\ RestInv(f.t, f.k, f.v, Alone)
    BY <1>4, <1>6, <1>9 DEF HandledTo
  <2>2. Becomes(IF f.t.state = "DEAD" THEN DoDetach(f) ELSE f) /\ obj' = IF Removed(f) THEN "erased" ELSE "registered"
    BY <1>2, <2>1 DEF CheckCleanupTracee
  <2>3. CASE Removed(f)
    <3>1. /\ f.t.state \in {"DEAD", "DETACHED"} /\ f.v.asked
          /\ ~f.t.valid \/ f.k.run = "gone"
      BY <2>1, <2>3 DEF Removed, Core, HeldInv
    <3>2. Released(f.k) \/ f.v.refused
      BY <2>1, <3>1 DEF Core, HeldInv, Released, Alone
    <3>3. ~f.v.wrong /\ (f.v.ends > 0 \/ f.v.lost => Over(f.k)) /\ (f.v.ends = 2 => f.v.asked /\ f.k.run = "gone")
          /\ (f.t.child /\ f.t.mode # "CONT" => ~f.v.lost)
      BY <2>1 DEF Core, ToldInv
    <3>4. ViewInv' /\ Honest(v')
      BY <2>1, <2>2, <2>3, <3>1, <3>2, <3>3, ErasedViewInv
    <3> QED BY <1>2, <3>4
  <2>4. CASE ~Removed(f)
    <3>1. Becomes(f) /\ obj' = "registered"
      BY <2>2, <2>4 DEF Removed
    <3>2. ViewInv'
      BY <2>1, <3>1, RegisteredViewInv
    <3>3. Honest(v')
      BY <2>1, <3>1 DEF Honest, Becomes
    <3> QED BY <1>2, <3>2, <3>3
  <2> QED BY <2>3, <2>4
<1> QED
  BY <1>7, <1>8, <1>9

\* detach() from outside preserves it.
LEMMA ConsumerDetachViewInv ==
  ASSUME IInv, ViewInv, ConsumerDetach PROVE ViewInv' /\ obj = "registered" /\ Honest(v')
<1> DEFINE f == DetachTracee(Frame)
<1>1. obj = "registered" /\ obj' = "registered" /\ Becomes(f)
  BY DEF ConsumerDetach
<1>2. Frame \in Frames /\ Frame.t = t /\ Frame.k = k /\ Frame.v = v
  BY DEF IInv, TypeOK, Frame, Frames
<1>3. ThreadInv(k) /\ (Live(k) => Synced(t, k)) /\ KernelInv(k, Alone) /\ Core(t, k, v, Alone) /\ RestInv(t, k, v, Alone)
  BY <1>1 DEF IInv, InStepInv, ViewInv, AlwaysInv
<1>4. f \in Frames /\ KernelInv(f.k, Alone) /\ Core(f.t, f.k, f.v, Alone) /\ RestInv(f.t, f.k, f.v, Alone) /\ Tells(v, f.v)
  <2>1. Frame.t.child => Alone
    BY DEF Alone
  <2> QED BY <1>2, <1>3, <2>1, DetachTraceeCore
<1> HIDE DEF f
<1>5. ViewInv'
  BY <1>1, <1>4, RegisteredViewInv
<1>6. Honest(v')
  BY <1>1, <1>4 DEF Honest, Becomes
<1> QED
  BY <1>1, <1>5, <1>6

\* The wait() in cleanupChild() preserves it.
LEMMA ChildCollectedViewInv == ASSUME IInv, ViewInv, ChildCollected PROVE ViewInv' /\ v' = v /\ obj' = obj
<1> DEFINE x == [t EXCEPT !.blocked = FALSE]
           a == IF obj = "erased" THEN Kill(k) ELSE k
           b == Collect(a)
<1>1. /\ t.blocked /\ k.status /\ t' = x /\ k' = b /\ v' = v /\ obj' = obj
  BY DEF ChildCollected
<1>2. t \in Tracees /\ k \in Thread /\ v \in Views /\ ThreadInv(k) /\ KernelInv(k, Alone)
  BY DEF IInv, TypeOK, InStepInv, ViewInv, AlwaysInv
<1>3. /\ x.flags = t.flags /\ x.mode = t.mode /\ x.valid = t.valid /\ x.child = t.child /\ x.prev = t.prev
      /\ x.state = t.state /\ ~x.blocked /\ x.intr = t.intr /\ x.stopSig = t.stopSig /\ x.cur = t.cur
  BY <1>2 DEF Tracees
<1>4. a \in Thread /\ StepKeeps(k, a, Alone)
  <2>1. StepKeeps(k, k, Alone)
    BY <1>2 DEF StepKeeps, Thread
  <2> QED BY <1>2, <2>1, KillType, KillStep
<1>5. /\ KernelInv(a, Alone) /\ (Over(k) => Over(a)) /\ (k.run = "gone" => a.run = "gone") /\ (Released(k) => Released(a))
      /\ a.run = "listen" => k.run = "listen"
  BY <1>4 DEF StepKeeps
<1>6. obj # "erased" => a = k
  OBVIOUS
<1> HIDE DEF x, a
<1>7. /\ b \in Thread /\ b.traced = a.traced /\ b.insys = a.insys /\ b.nr = a.nr /\ b.fatal = a.fatal
      /\ b.gstop = a.gstop /\ ~b.status
      /\ IF a.run = "zombie" THEN b.run = "gone" ELSE b.run = a.run /\ b.at = a.at
      /\ KernelInv(b, Alone)
  BY <1>4, <1>5, CollectFields
<1> HIDE DEF b
<1>8. AlwaysInv'
  BY <1>1, <1>3, <1>5, <1>7 DEF AlwaysInv, ViewInv, Over
<1>9. obj # "created"
  BY <1>1 DEF IInv, InStepInv
<1>10. ASSUME obj = "registered" PROVE Core(x, b, v, Alone) /\ RestInv(x, b, v, Alone)
  <2>1. a = k /\ HeldInv(t, k, v, Alone) /\ ToldInv(t, k, v) /\ ListenInv(t, k, v) /\ RestInv(t, k, v, Alone) /\ ~t.valid
    BY <1>1, <1>6, <1>10 DEF ViewInv, Core, HeldInv
  <2>2. k.run \in {"stop", "zombie"} /\ (k.run = "zombie" => k.at = "ENDED")
    BY <1>1, <1>2 DEF ThreadInv, PtraceStops, SyscallStops, SignalStops, EventStops
  <2>3. HeldInv(x, b, v, Alone)
    BY <1>3, <1>7, <2>1 DEF HeldInv, Released
  <2>4. ToldInv(x, b, v)
    <3>1. Live(b) => Live(k)
      BY <1>7, <2>1 DEF Live
    <3>2. Over(k) => Over(b)
      BY <1>7, <2>1 DEF Over
    <3> QED BY <1>3, <1>7, <2>1, <3>1, <3>2 DEF ToldInv
  <2>5. ListenInv(x, b, v)
    <3>1. /\ Live(b) => Live(k)
          /\ InTrapStop(k) /\ Live(b) => InTrapStop(b)
      BY <1>7, <2>1 DEF Live, InTrapStop
    <3> QED BY <1>3, <1>7, <2>1, <2>2, <3>1 DEF ListenInv
  <2>6. RestInv(x, b, v, Alone)
    BY <1>3, <1>7, <2>1, <2>2 DEF RestInv, Exiting
  <2> QED BY <2>3, <2>4, <2>5, <2>6 DEF Core
<1>11. ASSUME obj = "erased" PROVE ErasedInv'
  BY <1>1, <1>5, <1>7, <1>11 DEF ViewInv, ErasedInv, Released
<1>12. ASSUME obj = "aborted" PROVE x.valid /\ b.run # "listen"
  BY <1>3, <1>6, <1>7, <1>12 DEF ViewInv
<1> QED
  BY <1>1, <1>8, <1>9, <1>10, <1>11, <1>12 DEF ViewInv

(* The specification *)

\* Steps of the thread leave object and view alone.
LEMMA ThreadNextViewInv ==
  ASSUME IInv, ViewInv, ThreadNext \/ SendSignal \/ KillThread PROVE ViewInv' /\ v' = v /\ obj' = obj
<1>1. t \in Tracees /\ k \in Thread /\ ThreadInv(k) /\ KernelInv(k, Alone) /\ t.child \in BOOLEAN
  BY DEF IInv, TypeOK, InStepInv, ViewInv, AlwaysInv, Tracees
<1> SUFFICES \E b \in Thread : StepKeeps(k, b, Alone) /\ ThreadStep(b)
  BY ThreadStepViewInv DEF ThreadStep
<1>2. CASE EnterSyscall
  <2>1. PICK c \in ThreadCalls : ThreadStep(EnterCall(k, c))
    BY <1>2 DEF EnterSyscall
  <2>2. c \in Calls /\ CanEnterCall(k)
    BY <1>2, CallsAssumption DEF EnterSyscall
  <2> QED BY <1>1, <2>1, <2>2, EnterCallType, EnterCallStep
<1>3. CASE LeaveSyscall
  BY <1>1, <1>3, LeaveCallType, LeaveCallStep DEF LeaveSyscall
<1>4. CASE ReportEvent
  <2>1. PICK e \in EventStops : CanReport(k, e) /\ ThreadStep(StopAt(k, e))
    BY <1>4 DEF ReportEvent
  <2>2. StopAt(k, e) \in Thread
    BY <1>1, StopAtType DEF Statuses, PtraceStops
  <2> QED BY <1>1, <2>1, <2>2, ReportStep
<1>5. CASE InterruptStop
  BY <1>1, <1>5, TakeTrapType, TrapStep DEF InterruptStop
<1>6. CASE DeliverSignal
  <2>1. PICK s \in Signals : CanDeliver(k, s) /\ ThreadStep(Deliver(k, s, t.child))
    BY <1>6 DEF DeliverSignal
  <2> QED BY <1>1, <2>1, DeliverType, DeliverStep
<1>7. CASE CallExit
  BY <1>1, <1>7, EndType, EndStep DEF CallExit
<1>8. CASE ReportExit
  BY <1>1, <1>8, EndType, EndStep DEF ReportExit
<1>9. CASE ThreadDies
  BY <1>1, <1>9, EndType, EndStep DEF ThreadDies
<1>10. CASE SendSignal
  <2>1. PICK s \in ThreadSignals : ThreadStep(Send(k, s))
    BY <1>10 DEF SendSignal
  <2>2. s \in Signals
    BY SignalsAssumption
  <2> QED BY <1>1, <2>1, <2>2, SendType, SendStep
<1>11. CASE KillThread
  BY <1>1, <1>11, KillType, KillStep DEF KillThread
<1> QED
  BY <1>2, <1>3, <1>4, <1>5, <1>6, <1>7, <1>8, <1>9, <1>10, <1>11 DEF ThreadNext

\* ViewInv is inductive relative to IInv.
LEMMA NextViewInv == IInv /\ ViewInv /\ [Next]_vars => ViewInv'
<1> SUFFICES ASSUME IInv, ViewInv, [Next]_vars PROVE ViewInv'
  OBVIOUS
<1>1. CASE AddTracee
  BY <1>1, AddTraceeViewInv
<1>2. CASE EngineHandleEvent
  BY <1>2, EngineHandleEventViewInv
<1>3. CASE ChildCollected
  BY <1>3, ChildCollectedViewInv
<1>4. CASE ConsumerDetach
  BY <1>4, ConsumerDetachViewInv
<1>5. CASE ThreadNext \/ SendSignal \/ KillThread
  BY <1>5, ThreadNextViewInv
<1>6. CASE UNCHANGED vars
  BY <1>6 DEF vars, ViewInv, AlwaysInv, ErasedInv
<1> QED
  BY <1>1, <1>2, <1>3, <1>4, <1>5, <1>6 DEF Next, TracerNext

\* Both invariants hold throughout.
LEMMA AlwaysViewInv == Spec => [](IInv /\ ViewInv)
BY InitIInv, NextIInv, InitViewInv, NextViewInv, PTL DEF Spec

(* What the invariant says *)

\* An object that has been detached, or has left m_tracees, leaves nothing traced.
LEMMA NothingLeftEnough == IInv /\ ViewInv => NothingLeftTraced
<1> SUFFICES ASSUME IInv, ViewInv, obj = "erased" \/ ~t.valid
             PROVE  ~k.traced \/ k.fatal \/ k.run \in {"dying", "zombie", "gone"} \/ v.refused
  BY DEF NothingLeftTraced
<1>1. obj \in {"erased", "registered"}
  BY DEF IInv, TypeOK, InStepInv, ViewInv
<1>2. Released(k) \/ v.refused
  BY <1>1 DEF ViewInv, ErasedInv, Core, HeldInv, Alone
<1> QED
  BY <1>2 DEF Released

\* Only a registered object lets its thread listen.
LEMMA ListenEnough == IInv /\ ViewInv => ListenMeansStopped
<1> SUFFICES ASSUME IInv, ViewInv, k.run = "listen", ~v.refused
             PROVE  t.state = "GROUP_STOP" /\ t.stopSig /\ v.stopped /\ k.gstop
  BY DEF ListenMeansStopped
<1>1. k.traced /\ ~k.fatal /\ Live(k)
  BY DEF ViewInv, AlwaysInv, KernelInv, Live
<1>2. obj = "registered"
  BY <1>1 DEF IInv, TypeOK, InStepInv, ViewInv, ErasedInv, Released
<1>3. ListenInv(t, k, v)
  BY <1>2 DEF ViewInv, Core
<1> QED
  BY <1>1, <1>3 DEF ListenInv

\* The end is told once.
LEMMA EndEnough == IInv /\ ViewInv => EndReportedOnce
<1> SUFFICES ASSUME IInv, ViewInv, ~v.asked PROVE v.ends < 2 /\ (obj = "erased" /\ v.attached => v.ends = 1)
  BY DEF EndReportedOnce
<1>1. v.ends \in 0..2 /\ v.ends # 2
  BY DEF IInv, TypeOK, Views, ViewInv, AlwaysInv
<1> QED
  BY <1>1 DEF ViewInv, ErasedInv

\* Once detach(), an error or the removal from m_tracees has made the object let go
\* of its thread, nothing traces that thread any more, for every way a tracee comes
\* about, every set of calls and every set of signals.
THEOREM NeverLeftTraced == Spec => []NothingLeftTraced
BY AlwaysViewInv, NothingLeftEnough, PTL

\* Between two calls of wait() no tracee sits in a stop that wait() has returned:
\* processEvent() restarts it or detaches from it on every path, errors included.
THEOREM StopsNotForgotten == Spec => []NoForgottenStop
<1>1. IInv /\ ViewInv => NoForgottenStop
  BY DEF ViewInv, RestInv, NoForgottenStop
<1> QED
  BY <1>1, AlwaysViewInv, PTL

\* A thread under PTRACE_LISTEN is one of a stopped process, and both the Tracee and
\* the consumer know of it.
THEOREM ListenOnlyStopped == Spec => []ListenMeansStopped
BY AlwaysViewInv, ListenEnough, PTL

\* Without a detach(), exited() or disappeared() come exactly once, and before
\* checkCleanupTracee() removes the object.
THEOREM EndOnce == Spec => []EndReportedOnce
BY AlwaysViewInv, EndEnough, PTL

\* attached() comes once, syscallEntry() and syscallExit() alternate, RESUMED names
\* the call that was INTERRUPTED, and nothing but the end follows exited().
THEOREM CallbackOrder == Spec => []CallbacksInOrder
<1>1. IInv /\ ViewInv => CallbacksInOrder
  BY DEF ViewInv, AlwaysInv, CallbacksInOrder
<1> QED
  BY <1>1, AlwaysViewInv, PTL

\* handleExitEvent() never takes the exit of a child with one thread, whose calls
\* are traced, for the work of another thread.
THEOREM ExitHeuristicRight == Spec => []NeverLostToOthers
<1>1. IInv /\ ViewInv => NeverLostToOthers
  BY DEF ViewInv, AlwaysInv, NeverLostToOthers
<1> QED
  BY <1>1, AlwaysViewInv, PTL

(* The refinement *)

\* The initial states are initial states of the contract.
LEMMA InitContract == Init => Contract!Init
<1> SUFFICES ASSUME Init PROVE Contract!Init
  OBVIOUS
<1>1. v = NewView
  BY DEF Init
<1>2. obj \in {"created", "registered"}
  <2>1. (InitChild => obj = "created") /\ (InitForeign => obj = "created") /\ (InitAuto => obj = "registered")
    BY DEF InitChild, InitForeign, InitAuto
  <2> QED BY <2>1 DEF Init
<1> QED
  BY <1>1, <1>2 DEF NewView, Contract!Init

\* A step of trace() is one of the contract's steps.
LEMMA HonestContract ==
  ASSUME obj = "registered", v \in Views, v' \in Views, Honest(v') PROVE Contract!Next \/ UNCHANGED Contract!vars
<1>1. v'.asked \in BOOLEAN /\ v.asked \in BOOLEAN
  BY DEF Views
<1>2. CASE obj' = "aborted"
  BY <1>2 DEF Honest, Contract!Next, Contract!Abort
<1>3. CASE obj' # "aborted"
  <2>1. Contract!Callback
    BY <1>1, <1>3 DEF Honest, Tells, Contract!Callback, Contract!DetachOrNot, Contract!DropOrNot
  <2>2. Tells(v, v')
    BY DEF Honest
  <2>3. Contract!Attached \/ Contract!SyscallEntry \/ Contract!SyscallExit \/ Contract!End \/ Contract!Other
    BY <2>1, <2>2 DEF Tells, Views, Contract!Attached, Contract!SyscallEntry, Contract!SyscallExit,
                      Contract!End, Contract!Other
  <2> QED BY <2>3 DEF Contract!Next
<1> QED
  BY <1>2, <1>3

\* Every step of the Tracee, its thread and its tracer is one of the contract or
\* leaves what the consumer sees alone.
LEMMA NextContract ==
  ASSUME IInv, ViewInv, IInv', [Next]_vars PROVE Contract!Next \/ UNCHANGED Contract!vars
<1>1. v \in Views /\ v' \in Views
  BY DEF IInv, TypeOK
<1>2. CASE AddTracee
  <2>1. v' = v /\ obj = "created" /\ obj' \in {"registered", "erased"}
    BY <1>2, AddTraceeViewInv
  <2> QED BY <2>1 DEF Contract!Next, Contract!AddTracee
<1>3. CASE EngineHandleEvent
  BY <1>1, <1>3, EngineHandleEventViewInv, HonestContract
<1>4. CASE ConsumerDetach
  BY <1>1, <1>4, ConsumerDetachViewInv, HonestContract
<1>5. ASSUME v' = v, obj' = obj PROVE UNCHANGED Contract!vars
  BY <1>5 DEF Contract!vars
<1>6. CASE ChildCollected
  BY <1>5, <1>6, ChildCollectedViewInv
<1>7. CASE ThreadNext \/ SendSignal \/ KillThread
  BY <1>5, <1>7, ThreadNextViewInv
<1>8. CASE UNCHANGED vars
  BY <1>5, <1>8 DEF vars
<1> QED
  BY <1>2, <1>3, <1>4, <1>6, <1>7, <1>8 DEF Next, TracerNext

\* The Tracee with its thread, its errors and every SIGKILL implements the contract
\* of the EventConsumer: callbacks in order, and no removal from m_tracees before the
\* end has been told or detach() been called.
THEOREM RefinesContract == Spec => ImplementsContract
<1>1. IInv /\ ViewInv /\ IInv' /\ [Next]_vars => [Contract!Next]_(Contract!vars)
  BY NextContract
<1> QED
  BY <1>1, InitContract, AlwaysViewInv, PTL DEF Spec, ImplementsContract, Contract!Spec
=============================================================================
