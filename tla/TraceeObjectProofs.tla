------------------------- MODULE TraceeObjectProofs -------------------------
(***************************************************************************)
(* The operators of PtraceKernel and TraceeObject keep to their types.     *)
(* One lemma per operator, cited by the proofs about the specifications    *)
(* that are built from them.                                               *)
(***************************************************************************)
EXTENDS TraceeObject, TLAPS

Frames == [t : Tracees, k : Thread, v : Views, ex : {"none", "ESRCH", "EIO", "mismatch", "null"}]

InputRecords == [ev : Statuses \cup {"none"}, kill : {"no", "request", "decode", "late"},
                 detach : BOOLEAN, res : {"ok", "EINTR", "ERESTART"},
                 recovered : MaybeCall, deadly : BOOLEAN]

(* The thread *)

\* A ptrace-stop leaves a well-formed thread.
LEMMA StopAtType == ASSUME NEW k \in Thread, NEW e \in Statuses PROVE StopAt(k, e) \in Thread
BY DEF StopAt, Thread

\* So does the PTRACE_EVENT_STOP that is due.
LEMMA TakeTrapType == ASSUME NEW k \in Thread PROVE TakeTrap(k) \in Thread
BY DEF TakeTrap, StopAt, Thread, Statuses, PtraceStops, EventStops

\* SIGKILL leaves a well-formed thread.
LEMMA KillType == ASSUME NEW k \in Thread PROVE Kill(k) \in Thread
BY ZenonT(40) DEF Kill, Thread, Statuses

\* PTRACE_SEIZE does.
LEMMA SeizeType == ASSUME NEW k \in Thread PROVE Seize(k) \in Thread
<1> DEFINE s == [k EXCEPT !.traced = TRUE, !.sysgood = FALSE]
<1>1. s \in Thread
  BY DEF Thread
<1>2. TakeTrap(s) \in Thread
  BY <1>1, TakeTrapType
<1> QED
  BY <1>1, <1>2 DEF Seize

\* PTRACE_INTERRUPT does.
LEMMA InterruptType == ASSUME NEW k \in Thread PROVE Interrupt(k) \in Thread
<1>1. [k EXCEPT !.trap = TRUE] \in Thread
  BY DEF Thread
<1> QED
  BY <1>1, TakeTrapType DEF Interrupt

\* kill(2) does.
LEMMA SendType == ASSUME NEW k \in Thread, NEW s \in Signals PROVE Send(k, s) \in Thread
<1> DEFINE pd == (IF s = "CONT" THEN k.pend \ {"STOP"}
                  ELSE IF s = "STOP" THEN k.pend \ {"CONT"} ELSE k.pend) \cup {s}
           p == [k EXCEPT !.pend = pd]
           c == [p EXCEPT !.gstop = FALSE]
<1>1. p \in Thread
  <2>1. k.pend \subseteq Signals
    BY DEF Thread
  <2>2. pd \subseteq Signals
    BY <2>1
  <2> HIDE DEF pd
  <2> QED
    BY <2>2 DEF Thread
<1>2. c \in Thread
  <2> HIDE DEF p
  <2> QED BY <1>1 DEF Thread
<1>3. /\ [c EXCEPT !.run = "run", !.at = "none", !.status = FALSE] \in Thread
      /\ [c EXCEPT !.notify = TRUE] \in Thread
      /\ TakeTrap(c) \in Thread
  <2> HIDE DEF c
  <2>1. TakeTrap(c) \in Thread
    BY <1>2, TakeTrapType
  <2> QED BY <1>2, <2>1 DEF Thread
<1>4. Send(k, s) \in {p, c, TakeTrap(c), [c EXCEPT !.notify = TRUE],
                      [c EXCEPT !.run = "run", !.at = "none", !.status = FALSE]}
  BY DEF Send
<1> QED
  <2> HIDE DEF c, p
  <2> QED BY <1>1, <1>2, <1>3, <1>4

\* What kill(2) does to the stop a thread is in.
LEMMA SendFields ==
  ASSUME NEW k \in Thread, NEW s \in Signals
  PROVE  LET r == Send(k, s)
         IN  /\ r.traced = k.traced /\ r.sysgood = k.sysgood /\ r.insys = k.insys
             /\ \/ r.run = k.run /\ r.at = k.at /\ r.status = k.status
                \/ ~k.traced /\ k.run = "stop" /\ r.run = "run" /\ r.at = "none" /\ r.status = FALSE
                \/ k.traced /\ k.run = "listen" /\ r.run = "stop" /\ r.at \in {"EV_STOP_SIG", "EV_STOP_TRAP"}
<1> DEFINE pd == (IF s = "CONT" THEN k.pend \ {"STOP"}
                  ELSE IF s = "STOP" THEN k.pend \ {"CONT"} ELSE k.pend) \cup {s}
           p == [k EXCEPT !.pend = pd]
           c == [p EXCEPT !.gstop = FALSE]
<1>1. Send(k, s) = IF s # "CONT" THEN p
                   ELSE IF ~c.traced
                        THEN IF c.run = "stop"
                             THEN [c EXCEPT !.run = "run", !.at = "none", !.status = FALSE]
                             ELSE c
                   ELSE IF c.run = "listen" THEN TakeTrap(c)
                   ELSE [c EXCEPT !.notify = TRUE]
  BY DEF Send
<1>2. pd \in SUBSET Signals
  <2>1. k.pend \subseteq Signals
    BY DEF Thread
  <2> QED BY <2>1
<1> HIDE DEF pd
<1>3. /\ p \in Thread /\ p.traced = k.traced /\ p.sysgood = k.sysgood /\ p.insys = k.insys
      /\ p.run = k.run /\ p.at = k.at /\ p.status = k.status
  BY <1>2 DEF Thread
<1> HIDE DEF p
<1>4. /\ c \in Thread /\ c.traced = k.traced /\ c.sysgood = k.sysgood /\ c.insys = k.insys
      /\ c.run = k.run /\ c.at = k.at /\ c.status = k.status
  BY <1>3 DEF Thread
<1> HIDE DEF c
<1>5. LET r == TakeTrap(c)
      IN  /\ r.traced = k.traced /\ r.sysgood = k.sysgood /\ r.insys = k.insys /\ r.run = "stop"
          /\ r.at \in {"EV_STOP_SIG", "EV_STOP_TRAP"}
  BY <1>4 DEF TakeTrap, StopAt, Thread
<1>6. LET r == [c EXCEPT !.run = "run", !.at = "none", !.status = FALSE]
      IN  /\ r.traced = k.traced /\ r.sysgood = k.sysgood /\ r.insys = k.insys
          /\ r.run = "run" /\ r.at = "none" /\ r.status = FALSE
  BY <1>4 DEF Thread
<1>7. LET r == [c EXCEPT !.notify = TRUE]
      IN  /\ r.traced = k.traced /\ r.sysgood = k.sysgood /\ r.insys = k.insys
          /\ r.run = k.run /\ r.at = k.at /\ r.status = k.status
  BY <1>4 DEF Thread
<1>8. k.traced \in BOOLEAN
  BY DEF Thread
<1> QED
  BY <1>1, <1>3, <1>4, <1>5, <1>6, <1>7, <1>8

\* A thread that leaves a stop is well-formed.
LEMMA LeaveType == ASSUME NEW k \in Thread PROVE Leave(k) \in Thread
<1>1. [k EXCEPT !.run = "run", !.at = "none", !.status = FALSE] \in Thread
  BY DEF Thread
<1> QED
  BY <1>1, TakeTrapType DEF Leave

\* PTRACE_CONT and PTRACE_SYSCALL leave a well-formed thread.
LEMMA ResumeType ==
  ASSUME NEW k \in Thread, NEW mode, NEW sig, NEW deadly
  PROVE  Resume(k, mode, sig, deadly) \in Thread
<1> DEFINE r == [k EXCEPT !.sysgood = (mode = "SYSCALL")]
<1>1. r \in Thread
  BY DEF Thread
<1>2. /\ [r EXCEPT !.run = "zombie", !.at = "ENDED", !.status = TRUE] \in Thread
      /\ [r EXCEPT !.gstop = TRUE] \in Thread
  <2> HIDE DEF r
  <2> QED BY <1>1 DEF Thread, Statuses
<1>3. TakeTrap([r EXCEPT !.gstop = TRUE]) \in Thread
  BY <1>2, TakeTrapType
<1>4. Kill(r) \in Thread /\ Leave(r) \in Thread
  BY <1>1, KillType, LeaveType
<1>5. Resume(k, mode, sig, deadly) \in {[r EXCEPT !.run = "zombie", !.at = "ENDED", !.status = TRUE],
            TakeTrap([r EXCEPT !.gstop = TRUE]), Kill(r), Leave(r)}
  <2> HIDE DEF r
  <2> QED BY DEF Resume, r
<1> QED
  <2> HIDE DEF r
  <2> QED BY <1>2, <1>3, <1>4, <1>5

\* PTRACE_LISTEN does.
LEMMA ListenType == ASSUME NEW k \in Thread PROVE Listen(k) \in Thread
<1>1. [k EXCEPT !.run = "listen", !.at = "none", !.status = FALSE] \in Thread
  BY DEF Thread
<1> QED
  BY <1>1, TakeTrapType DEF Listen

\* PTRACE_DETACH does.
LEMMA DetachType == ASSUME NEW k \in Thread, NEW child \in BOOLEAN PROVE Detach(k, child) \in Thread
<1> DEFINE d == [k EXCEPT !.traced = FALSE, !.sysgood = FALSE, !.trap = FALSE, !.notify = FALSE]
<1>1. d \in Thread
  BY DEF Thread
<1>2. /\ [d EXCEPT !.run = "zombie", !.at = "ENDED", !.status = child] \in Thread
      /\ [d EXCEPT !.run = "stop", !.at = "STOPPED", !.status = child] \in Thread
      /\ [d EXCEPT !.run = "run", !.at = "none", !.status = FALSE] \in Thread
  <2> HIDE DEF d
  <2> QED BY <1>1 DEF Thread, Statuses
<1>3. Detach(k, child) \in {[d EXCEPT !.run = "zombie", !.at = "ENDED", !.status = child],
                           [d EXCEPT !.run = "stop", !.at = "STOPPED", !.status = child],
                           [d EXCEPT !.run = "run", !.at = "none", !.status = FALSE]}
  <2> HIDE DEF d
  <2> QED BY DEF Detach, d
<1> QED
  <2> HIDE DEF d
  <2> QED BY <1>2, <1>3

\* wait(2) does.
LEMMA CollectType == ASSUME NEW k \in Thread PROVE Collect(k) \in Thread
BY DEF Collect, Thread

\* The steps of the thread itself do.
LEMMA EnterCallType == ASSUME NEW k \in Thread, NEW c \in Calls PROVE EnterCall(k, c) \in Thread
<1> DEFINE e == [k EXCEPT !.insys = TRUE, !.nr = c]
<1>1. e \in Thread
  BY DEF Thread
<1>2. StopAt(e, "SYS_ENTRY") \in Thread
  BY <1>1, StopAtType DEF Statuses, PtraceStops, SyscallStops
<1> QED
  BY <1>1, <1>2 DEF EnterCall

\* The return from a system call does.
LEMMA LeaveCallType == ASSUME NEW k \in Thread PROVE LeaveCall(k) \in Thread
<1> DEFINE e == [k EXCEPT !.insys = FALSE]
<1>1. e \in Thread
  BY DEF Thread
<1>2. StopAt(e, "SYS_EXIT") \in Thread /\ Leave(e) \in Thread
  BY <1>1, StopAtType, LeaveType DEF Statuses, PtraceStops, SyscallStops
<1> QED
  BY <1>1, <1>2 DEF LeaveCall

\* The delivery of a signal does.
LEMMA DeliverType ==
  ASSUME NEW k \in Thread, NEW s \in Signals, NEW child \in BOOLEAN PROVE Deliver(k, s, child) \in Thread
<1> DEFINE d == [k EXCEPT !.pend = @ \ {s}]
<1>1. d \in Thread
  <2>1. k.pend \subseteq Signals
    BY DEF Thread
  <2>2. k.pend \ {s} \in SUBSET Signals
    BY <2>1
  <2> QED BY <2>2 DEF Thread
<1>2. /\ StopAt(d, SignalStop(s)) \in Thread
      /\ [d EXCEPT !.gstop = TRUE, !.run = "stop", !.at = "STOPPED", !.status = child] \in Thread
  <2>1. SignalStop(s) \in Statuses
    BY DEF SignalStop, Statuses, PtraceStops, SignalStops
  <2> HIDE DEF d
  <2> QED BY <1>1, <2>1, StopAtType DEF Thread, Statuses
<1>3. Deliver(k, s, child) \in {d, StopAt(d, SignalStop(s)),
            [d EXCEPT !.gstop = TRUE, !.run = "stop", !.at = "STOPPED", !.status = child]}
  <2> HIDE DEF d
  <2> QED BY DEF Deliver, d
<1> QED
  <2> HIDE DEF d
  <2> QED BY <1>1, <1>2, <1>3

\* The end of the thread does.
LEMMA EndType == ASSUME NEW k \in Thread, NEW child \in BOOLEAN
                 PROVE  Exit(k) \in Thread /\ ExitStop(k) \in Thread /\ Die(k, child) \in Thread
<1>1. ExitStop(k) \in Thread
  BY StopAtType DEF ExitStop, Statuses, PtraceStops, EventStops
<1>2. Exit(k) \in Thread
  BY DEF Exit, Thread
<1>3. k.traced \in BOOLEAN
  BY DEF Thread
<1>4. (k.traced \/ child) \in BOOLEAN
  BY <1>3
<1>5. Die(k, child) \in Thread
  <2> DEFINE b == (k.traced \/ child)
  <2>1. Die(k, child) = [k EXCEPT !.run = "zombie", !.at = "ENDED", !.status = b]
    BY DEF Die
  <2>2. b \in BOOLEAN
    BY <1>4
  <2> HIDE DEF b
  <2> QED BY <2>1, <2>2 DEF Thread, Statuses
<1> QED
  BY <1>1, <1>2, <1>5

(* The object *)

\* A frame stays one when one of its parts is replaced.
LEMMA FrameUpdate ==
  ASSUME NEW f \in Frames
  PROVE  /\ f.t \in Tracees /\ f.k \in Thread /\ f.v \in Views
         /\ \A x \in Tracees : [f EXCEPT !.t = x] \in Frames
         /\ \A x \in Thread : [f EXCEPT !.k = x] \in Frames
         /\ \A x \in Views : [f EXCEPT !.v = x] \in Frames
BY DEF Frames

\* A callback leaves a well-formed view.
LEMMA ToldType == ASSUME NEW v \in Views, NEW cb, NEW call \in MaybeCall, NEW flag
                  PROVE  Told(v, cb, call, flag) \in Views
<1> DEFINE early == v.early \/ (cb \notin {"attached", "exited", "disappeared"} /\ ~v.attached)
           attached == v.attached \/ cb = "attached"
           insys == (v.insys \/ cb = "syscallEntry") /\ cb # "syscallExit"
           stopped == (v.stopped \/ cb = "stopped") /\ cb # "resumed"
           intr == IF flag = "INTERRUPTED" THEN call ELSE IF flag = "RESUMED" THEN "none" ELSE v.intr
           ends == IF cb \in {"exited", "disappeared"} /\ v.ends < 2 THEN v.ends + 1 ELSE v.ends
           lost == v.lost \/ flag = "LOST_TO_MT_EXIT"
           wrong == \/ v.wrong
                    \/ cb = "attached" /\ v.attached
                    \/ cb = "syscallEntry" /\ v.insys
                    \/ cb = "syscallExit" /\ ~v.insys
                    \/ flag = "RESUMED" /\ v.intr # call
                    \/ cb \notin {"exited", "disappeared"} /\ v.ends > 0
<1>1. /\ early \in BOOLEAN /\ attached \in BOOLEAN /\ insys \in BOOLEAN /\ stopped \in BOOLEAN
      /\ lost \in BOOLEAN /\ wrong \in BOOLEAN
  BY DEF Views
<1>2. intr \in MaybeCall
  BY DEF Views, MaybeCall
<1>3. ends \in 0..2
  BY DEF Views
<1>4. Told(v, cb, call, flag) =
        [v EXCEPT !.early = early, !.attached = attached, !.insys = insys, !.stopped = stopped,
                  !.intr = intr, !.ends = ends, !.lost = lost, !.wrong = wrong]
  BY DEF Told
<1> HIDE DEF early, attached, insys, stopped, intr, ends, lost, wrong
<1> QED
  BY <1>1, <1>2, <1>3, <1>4 DEF Views

\* changeState() leaves a well-formed object.
LEMMA ChangeStateType == ASSUME NEW t \in Tracees, NEW s \in States PROVE ChangeState(t, s) \in Tracees
<1> DEFINE prev == IF t.state # "RUNNING" THEN t.state ELSE t.prev
           flags == ChangedFlags(t, s)
           mode == IF s # "GROUP_STOP" THEN t.mode
                   ELSE IF "INJECTED_SIGSTOP" \in t.flags THEN "SYSCALL" ELSE "LISTEN"
           stopSig == t.stopSig /\ ~(prev = "GROUP_STOP" /\ t.state # "GROUP_STOP")
<1>1. prev \in States /\ mode \in RestartModes
  BY DEF Tracees, RestartModes
<1>2. flags \subseteq Flags
  <2>1. t.flags \subseteq Flags
    BY DEF Tracees
  <2> QED BY <2>1 DEF ChangedFlags, Flags
<1>3. stopSig \in BOOLEAN
  BY DEF Tracees
<1>4. ChangeState(t, s) = [t EXCEPT !.flags = flags, !.mode = mode, !.prev = prev,
                                    !.stopSig = stopSig, !.state = s]
  BY DEF ChangeState
<1> HIDE DEF prev, flags, mode, stopSig
<1> QED
  BY <1>1, <1>2, <1>3, <1>4 DEF Tracees

\* The same for the frame, and cleanupChild() included.
LEMMA ToStateType == ASSUME NEW f \in Frames, NEW s \in States PROVE ToState(f, s) \in Frames
<1> DEFINE g == [f EXCEPT !.t = ChangeState(f.t, s)]
<1>1. g \in Frames
  BY FrameUpdate, ChangeStateType
<1>2. CleanupChild(g) \in Frames
  <2> HIDE DEF g
  <2>0. g.t \in Tracees
    BY <1>1, FrameUpdate
  <2>1. [g.t EXCEPT !.blocked = TRUE] \in Tracees
    BY <2>0 DEF Tracees
  <2>2. [g EXCEPT !.t = [g.t EXCEPT !.blocked = TRUE]] \in Frames
    BY <1>1, <2>1, FrameUpdate
  <2> QED
    BY <1>1, <2>2 DEF CleanupChild
<1> QED
  BY <1>1, <1>2 DEF ToState

\* doDetach() leaves a well-formed frame.
LEMMA DoDetachType == ASSUME NEW f \in Frames PROVE DoDetach(f) \in Frames
<1> DEFINE g == [f EXCEPT !.k = Detach(f.k, f.t.child)]
           r == f.v.refused \/ (f.t.valid /\ f.k.run = "listen")
           h == [f EXCEPT !.v = [f.v EXCEPT !.refused = r]]
           d == IF Reachable(f) THEN ToState(g, "DETACHED") ELSE DetachFailed(f)
<1>1. g \in Frames
  <2>1. f.t.child \in BOOLEAN
    BY FrameUpdate DEF Tracees
  <2> QED BY <2>1, FrameUpdate, DetachType
<1>2. h \in Frames
  <2>1. r \in BOOLEAN
    BY FrameUpdate DEF Views, Tracees
  <2> HIDE DEF r
  <2>2. [f.v EXCEPT !.refused = r] \in Views
    BY <2>1, FrameUpdate DEF Views
  <2> QED BY <2>2, FrameUpdate
<1>3. d \in Frames
  <2>1. DetachFailed(f) = ToState(h, "DEAD")
    BY DEF DetachFailed
  <2> HIDE DEF g, h
  <2> QED BY <1>1, <1>2, <2>1, ToStateType DEF States
<1>4. DoDetach(f) = [d EXCEPT !.t = [d.t EXCEPT !.valid = FALSE, !.flags = {}]]
  <2> HIDE DEF d
  <2>1. DoDetach(f) = [d EXCEPT !.t.valid = FALSE, !.t.flags = {}]
    BY DEF DoDetach, d
  <2> QED BY <1>3, <2>1 DEF Frames, Tracees
<1> HIDE DEF d
<1>5. [d.t EXCEPT !.valid = FALSE, !.flags = {}] \in Tracees
  <2>1. d.t \in Tracees
    BY <1>3, FrameUpdate
  <2> QED BY <2>1 DEF Tracees
<1> QED
  BY <1>3, <1>4, <1>5, FrameUpdate

(* The object and its thread, in the middle of processEvent(). *)

\* k0 is the thread as wait() found it.  As long as it is alive nothing happens to
\* it before the handler is done, and the object is in step with it.
Safe(f, k0) ==
    /\ f \in Frames /\ ThreadInv(f.k)
    /\ Live(f.k) => f.k = k0 /\ k0.run = "stop" /\ ~k0.status /\ Synced(f.t, k0)

\* What changeState() leaves alone, and what it does to the flags and the mode.
LEMMA ToStateFields ==
  ASSUME NEW f \in Frames, NEW s \in States
  PROVE  LET g == ToState(f, s)
         IN  /\ g \in Frames
             /\ g.k = f.k /\ g.v = f.v /\ g.ex = f.ex
             /\ g.t.cur = f.t.cur /\ g.t.valid = f.t.valid /\ g.t.state = s
             /\ g.t.flags = ChangedFlags(f.t, s)
             /\ s # "GROUP_STOP" => g.t.mode = f.t.mode
             /\ s = "GROUP_STOP" => g.t.mode \in {"SYSCALL", "LISTEN"}
             /\ s # "DEAD" => g.t.blocked = f.t.blocked
<1> DEFINE c == ChangeState(f.t, s)
           g == [f EXCEPT !.t = c]
<1>1. c \in Tracees /\ f.t \in Tracees
  BY FrameUpdate, ChangeStateType
<1>2. /\ c.cur = f.t.cur /\ c.valid = f.t.valid /\ c.state = s /\ c.blocked = f.t.blocked
      /\ c.flags = ChangedFlags(f.t, s)
      /\ s # "GROUP_STOP" => c.mode = f.t.mode
      /\ s = "GROUP_STOP" => c.mode \in {"SYSCALL", "LISTEN"}
  BY <1>1 DEF ChangeState, Tracees
<1> HIDE DEF c
<1>3. g \in Frames /\ g.t = c /\ g.k = f.k /\ g.v = f.v /\ g.ex = f.ex
  BY <1>1 DEF Frames
<1>4. ToState(f, s) = IF s = "DEAD" THEN CleanupChild(g) ELSE g
  BY DEF ToState, c
<1>5. CleanupChild(g) = g \/ CleanupChild(g) = [g EXCEPT !.t = [c EXCEPT !.blocked = TRUE]]
  <2> HIDE DEF g
  <2> QED BY <1>3 DEF CleanupChild
<1> DEFINE b == [c EXCEPT !.blocked = TRUE]
<1>6. /\ b \in Tracees /\ b.cur = c.cur /\ b.valid = c.valid /\ b.state = c.state
      /\ b.flags = c.flags /\ b.mode = c.mode
  BY <1>1 DEF Tracees
<1> HIDE DEF b
<1>7. [g EXCEPT !.t = b] \in Frames /\ [g EXCEPT !.t = b].t = b /\ [g EXCEPT !.t = b].k = f.k
      /\ [g EXCEPT !.t = b].v = f.v /\ [g EXCEPT !.t = b].ex = f.ex
  <2> HIDE DEF g
  <2> QED BY <1>3, <1>6 DEF Frames
<1>8. ToState(f, s) = g \/ (s = "DEAD" /\ ToState(f, s) = [g EXCEPT !.t = b])
  BY <1>4, <1>5 DEF b
<1> HIDE DEF g
<1>9. CASE ToState(f, s) = g
  BY <1>2, <1>3, <1>9
<1>10. CASE s = "DEAD" /\ ToState(f, s) = [g EXCEPT !.t = b]
  BY <1>2, <1>6, <1>7, <1>10
<1> QED
  BY <1>8, <1>9, <1>10

\* A thread that got SIGKILL takes part in nothing any more.
LEMMA KillNotLive == ASSUME NEW k \in Thread, ThreadInv(k) PROVE ~Live(Kill(k)) /\ ThreadInv(Kill(k))
BY DEF Kill, Live, ThreadInv, Thread, PtraceStops, SyscallStops, SignalStops, EventStops

\* Neither does one that was detached from.
LEMMA DetachNotLive ==
  ASSUME NEW k \in Thread, NEW child \in BOOLEAN, ThreadInv(k), InStop(k)
  PROVE  ~Live(Detach(k, child)) /\ ThreadInv(Detach(k, child))
BY DEF Detach, Live, ThreadInv, Thread, PtraceStops, SyscallStops, SignalStops, EventStops, InStop

\* SIGKILL keeps a frame safe.
LEMMA KillAtSafe == ASSUME NEW f, NEW k0, Safe(f, k0), NEW in, NEW point PROVE Safe(KillAt(f, in, point), k0)
<1>1. f \in Frames /\ f.k \in Thread /\ ThreadInv(f.k)
  BY FrameUpdate DEF Safe
<1> DEFINE g == [f EXCEPT !.k = Kill(f.k)]
<1>2. g \in Frames /\ g.k = Kill(f.k)
  BY <1>1, KillType DEF Frames
<1>3. Safe(g, k0)
  <2> HIDE DEF g
  <2> QED BY <1>1, <1>2, KillNotLive DEF Safe
<1> QED
  BY <1>3 DEF KillAt

\* So does an exception.
LEMMA ThrowSafe == ASSUME NEW f, NEW k0, Safe(f, k0), NEW e \in {"none", "ESRCH", "EIO", "mismatch", "null"}
                   PROVE  Safe(Throw(f, e), k0) /\ Throw(f, e).ex = e
<1>1. Throw(f, e) \in Frames /\ Throw(f, e).k = f.k /\ Throw(f, e).t = f.t /\ Throw(f, e).ex = e
  BY DEF Throw, Frames, Safe
<1> QED
  BY <1>1 DEF Safe

\* A state other than the ones of a system call and the group-stop does not matter.
LEMMA ToStateSafe ==
  ASSUME NEW f, NEW k0, Safe(f, k0), NEW s \in States,
         s \notin {"SYSCALL_ENTER_STOP", "SYSCALL_EXIT_STOP", "GROUP_STOP", "RUNNING", "DEAD"}
  PROVE  Safe(ToState(f, s), k0)
<1> DEFINE g == ToState(f, s)
<1>1. f \in Frames
  BY DEF Safe
<1>2. /\ g \in Frames /\ g.k = f.k /\ g.t.cur = f.t.cur /\ g.t.valid = f.t.valid
      /\ g.t.flags = ChangedFlags(f.t, s) /\ g.t.mode = f.t.mode /\ g.t.blocked = f.t.blocked
  BY <1>1, ToStateFields
<1>3. "SYSCALL_ENTERED" \in g.t.flags <=> "SYSCALL_ENTERED" \in f.t.flags
  BY <1>2 DEF ChangedFlags
<1> HIDE DEF g
<1>4. Live(f.k) => Synced(g.t, k0)
  BY <1>2, <1>3 DEF Safe, Synced, SyscallStopPending
<1> QED
  BY <1>2, <1>4 DEF Safe, g

\* doDetach() keeps a frame safe: it lets go of the thread, or that was dead.
LEMMA DoDetachSafe ==
  ASSUME NEW f \in Frames, NEW k0, ThreadInv(f.k),
         Live(f.k) /\ ~Reachable(f) => f.k = k0 /\ k0.run = "stop" /\ ~k0.status /\ Synced(f.t, k0)
  PROVE  Safe(DoDetach(f), k0) /\ DoDetach(f).ex = f.ex
<1>1. f \in Frames /\ f.k \in Thread /\ f.t \in Tracees /\ f.v \in Views /\ ThreadInv(f.k)
  BY FrameUpdate
<1> DEFINE g == [f EXCEPT !.k = Detach(f.k, f.t.child)]
           r == f.v.refused \/ (f.t.valid /\ f.k.run = "listen")
           h == [f EXCEPT !.v = [f.v EXCEPT !.refused = r]]
           d == IF Reachable(f) THEN ToState(g, "DETACHED") ELSE ToState(h, "DEAD")
           e == [d EXCEPT !.t = [d.t EXCEPT !.valid = FALSE, !.flags = {}]]
<1>2. g \in Frames /\ g.k = Detach(f.k, f.t.child) /\ g.ex = f.ex
  <2>1. f.t.child \in BOOLEAN
    BY <1>1 DEF Tracees
  <2> QED BY <1>1, <2>1, DetachType DEF Frames
<1>3. h \in Frames /\ h.k = f.k /\ h.t = f.t /\ h.ex = f.ex
  <2>1. r \in BOOLEAN
    BY <1>1 DEF Views, Tracees
  <2> HIDE DEF r
  <2>2. [f.v EXCEPT !.refused = r] \in Views
    BY <2>1, <1>1 DEF Views
  <2> QED BY <1>1, <2>2 DEF Frames
<1>4. DoDetach(f) = [d EXCEPT !.t.valid = FALSE, !.t.flags = {}]
  BY DEF DoDetach, DetachFailed
<1> HIDE DEF g, h
<1>5. d \in Frames /\ d.ex = f.ex /\ d.k = (IF Reachable(f) THEN g.k ELSE f.k)
      /\ (~Reachable(f) => d.t.mode = f.t.mode)
  <2>1. "DETACHED" \in States /\ "DEAD" \in States
    BY DEF States
  <2> QED BY <1>2, <1>3, <2>1, ToStateFields
<1> HIDE DEF d
<1>6. DoDetach(f) = e /\ e \in Frames /\ e.k = d.k /\ e.ex = d.ex /\ e.t.valid = FALSE /\ e.t.flags = {}
      /\ e.t.mode = d.t.mode
  <2> DEFINE x == [d.t EXCEPT !.valid = FALSE, !.flags = {}]
  <2>1. d.t \in Tracees
    BY <1>5, FrameUpdate
  <2>2. x \in Tracees /\ x.valid = FALSE /\ x.flags = {} /\ x.mode = d.t.mode
    BY <2>1 DEF Tracees
  <2>3. DoDetach(f) = e
    BY <1>4, <1>5 DEF Frames, Tracees
  <2> HIDE DEF x
  <2>4. e = [d EXCEPT !.t = x]
    BY DEF x
  <2> HIDE DEF e
  <2>5. e \in Frames /\ e.k = d.k /\ e.ex = d.ex /\ e.t = x
    BY <1>5, <2>2, <2>4 DEF Frames
  <2> QED BY <2>2, <2>3, <2>5
<1> HIDE DEF e
<1>7. CASE Reachable(f)
  <2>1. InStop(f.k) /\ f.t.child \in BOOLEAN
    BY <1>7, <1>1 DEF Reachable, Tracees
  <2>2. ~Live(e.k) /\ ThreadInv(e.k)
    BY <1>1, <1>2, <1>5, <1>6, <1>7, <2>1, DetachNotLive
  <2> QED BY <1>5, <1>6, <2>2 DEF Safe
<1>8. CASE ~Reachable(f)
  <2>1. e.k = f.k /\ e.t.mode = f.t.mode
    BY <1>5, <1>6, <1>8
  <2>2. ASSUME Live(f.k) PROVE Synced(e.t, k0)
    <3>1. f.k = k0 /\ k0.run = "stop" /\ ~k0.status /\ Synced(f.t, k0)
      BY <1>8, <2>2
    <3>2. ~f.t.valid
      BY <1>8, <2>2, <3>1 DEF Reachable, InStop, Live, PtraceStops, SyscallStops, SignalStops, EventStops
    <3>3. k0.at \in {"EV_STOP_SIG", "EV_STOP_TRAP"} /\ ~k0.insys
      BY <1>1, <3>1, <3>2 DEF Synced, ThreadInv
    <3>4. ~e.t.valid
      BY <1>6
    <3> QED BY <1>6, <2>1, <3>1, <3>3, <3>4 DEF Synced, SyscallStopPending, SyscallStops
  <2> QED BY <1>8, <1>1, <1>5, <1>6, <2>1, <2>2 DEF Safe
<1> QED
  BY <1>7, <1>8

\* detach() called while the tracee is known to be in a stop does.
LEMMA DetachTraceeSafe ==
  ASSUME NEW f, NEW k0, Safe(f, k0), f.t.state \notin {"RUNNING", "UNKNOWN"}
  PROVE  Safe(DetachTracee(f), k0) /\ DetachTracee(f).ex = f.ex
<1> DEFINE a == [f EXCEPT !.v = [f.v EXCEPT !.asked = TRUE]]
<1>1. f \in Frames /\ f.v \in Views
  BY FrameUpdate DEF Safe
<1>2. [f.v EXCEPT !.asked = TRUE] \in Views
  BY <1>1 DEF Views
<1>3. a \in Frames /\ a.t = f.t /\ a.k = f.k /\ a.ex = f.ex
  BY <1>1, <1>2 DEF Frames
<1>4. DetachTracee(f) = IF ~a.t.valid \/ a.t.state \in {"DEAD", "DETACHED"} THEN a ELSE DoDetach(a)
  <2>1. a.t.state \notin {"RUNNING", "UNKNOWN"}
    BY <1>3
  <2> QED BY <2>1 DEF DetachTracee
<1> HIDE DEF a
<1>5. Safe(a, k0)
  BY <1>3 DEF Safe
<1>6. Safe(DoDetach(a), k0) /\ DoDetach(a).ex = a.ex
  BY <1>5, DoDetachSafe DEF Safe
<1> QED
  BY <1>3, <1>4, <1>5, <1>6

\* A callback does, with the detach() the consumer may call from inside.
LEMMA NotifySafe ==
  ASSUME NEW f, NEW k0, Safe(f, k0), NEW in, NEW cb, NEW call \in MaybeCall, NEW flag,
         f.t.state \notin {"RUNNING", "UNKNOWN"}
  PROVE  LET g == Notify(f, in, cb, call, flag) IN Safe(g, k0) /\ g.ex = f.ex
<1> DEFINE n == [f EXCEPT !.v = Told(f.v, cb, call, flag)]
<1>1. f \in Frames /\ f.v \in Views
  BY FrameUpdate DEF Safe
<1>2. n \in Frames /\ n.t = f.t /\ n.k = f.k /\ n.ex = f.ex
  BY <1>1, ToldType DEF Frames
<1>3. Notify(f, in, cb, call, flag) = IF in.detach THEN DetachTracee(n) ELSE n
  BY DEF Notify
<1> HIDE DEF n
<1>4. Safe(n, k0)
  BY <1>2 DEF Safe
<1>5. Safe(DetachTracee(n), k0) /\ DetachTracee(n).ex = n.ex
  BY <1>2, <1>4, DetachTraceeSafe
<1> QED
  BY <1>2, <1>3, <1>4, <1>5

\* The object may be replaced by another one that is in step with the thread.
LEMMA ObjectSafe ==
  ASSUME NEW f, NEW k0, f \in Frames, ThreadInv(f.k), NEW x \in Tracees,
         Live(f.k) => f.k = k0 /\ k0.run = "stop" /\ ~k0.status /\ Synced(x, k0)
  PROVE  LET g == [f EXCEPT !.t = x]
         IN  Safe(g, k0) /\ g.t = x /\ g.k = f.k /\ g.v = f.v /\ g.ex = f.ex
<1> DEFINE g == [f EXCEPT !.t = x]
<1>1. g \in Frames /\ g.t = x /\ g.k = f.k /\ g.v = f.v /\ g.ex = f.ex
  BY DEF Frames
<1> HIDE DEF g
<1>2. Safe(g, k0)
  BY <1>1 DEF Safe
<1> QED
  BY <1>1, <1>2 DEF g

\* An object that differs only in what Synced does not speak of is in step, too.
LEMMA SyncedAlike ==
  ASSUME NEW t, NEW x, NEW k, Synced(t, k), ~k.status, k.run = "stop",
         "SYSCALL_ENTERED" \in x.flags <=> "SYSCALL_ENTERED" \in t.flags,
         "SYSCALL_ENTERED" \in x.flags => x.cur # "none",
         x.mode = t.mode, x.valid = t.valid, x.blocked = t.blocked
  PROVE  Synced(x, k)
BY DEF Synced, SyscallStopPending

(* System calls *)

\* The entry to a system call, after changeState().
LEMMA HandleSystemCallEntrySafe ==
  ASSUME NEW f \in Frames, NEW in \in InputRecords, ThreadInv(f.k),
         f.k.run = "stop", ~f.k.status, f.k.sysgood, f.k.insys,
         "SYSCALL_ENTERED" \in f.t.flags, f.t.mode # "CONT", f.t.valid, ~f.t.blocked,
         f.t.state = "SYSCALL_ENTER_STOP"
  PROVE  LET g == HandleSystemCallEntry(f, in) IN Safe(g, f.k) /\ g.ex \in {f.ex, "ESRCH"}
<1> DEFINE t == f.t
           c == f.k.nr
           restart == c = "restart_syscall"
           known == t.intr # "none"
           recover == restart /\ ~known /\ t.fresh /\ in.recovered # "none"
           afterSig == ~restart /\ known /\ "SEEN_SIGRETURN" \in t.flags
           cur == IF restart /\ known THEN t.intr ELSE IF recover THEN in.recovered ELSE c
           flag == IF (restart /\ known) \/ (afterSig /\ t.intr = c) THEN "RESUMED"
                   ELSE IF recover THEN "RECOVERED" ELSE "none"
           intr == IF restart \/ afterSig THEN "none" ELSE t.intr
           flags == IF afterSig THEN t.flags \ {"SEEN_SIGRETURN"} ELSE t.flags
           x == [t EXCEPT !.cur = cur, !.intr = intr, !.flags = flags]
           g0 == [f EXCEPT !.t = x]
           g == KillAt(g0, in, "decode")
           y == [g.t EXCEPT !.fresh = FALSE]
           h == [g EXCEPT !.t = y]
<1>1. f.t \in Tracees /\ f.k \in Thread
  BY FrameUpdate
<1>2. cur \in MaybeCall /\ cur # "none" /\ intr \in MaybeCall /\ flags \subseteq Flags
      /\ "SYSCALL_ENTERED" \in flags
  BY <1>1 DEF Tracees, Thread, InputRecords, MaybeCall, Calls, Flags
<1>3. HandleSystemCallEntry(f, in) =
        IF ~Reachable(g) THEN Throw(g, "ESRCH") ELSE Notify(h, in, "syscallEntry", cur, flag)
  <2> DEFINE r == [f EXCEPT !.t.cur = cur, !.t.intr = intr, !.t.flags = flags]
  <2>1. g0 = r
    <3> HIDE DEF cur, intr, flags
    <3> QED BY <1>1 DEF Frames, Tracees
  <2>2. HandleSystemCallEntry(f, in) =
          IF ~Reachable(KillAt(r, in, "decode")) THEN Throw(KillAt(r, in, "decode"), "ESRCH")
          ELSE Notify([KillAt(r, in, "decode") EXCEPT !.t.fresh = FALSE], in, "syscallEntry", cur, flag)
    BY Zenon DEF HandleSystemCallEntry
  <2> HIDE DEF r, g0, cur, flag
  <2> QED BY <2>1, <2>2
<1> HIDE DEF cur, intr, flags, flag
<1>4. /\ x \in Tracees /\ x.cur = cur /\ x.flags = flags /\ x.mode = t.mode /\ x.valid = t.valid
      /\ x.state = t.state /\ x.blocked = t.blocked
  BY <1>1, <1>2 DEF Tracees
<1> HIDE DEF x
<1>5. Synced(x, f.k)
  BY <1>2, <1>4 DEF Synced, SyscallStopPending
<1>6. Safe(g0, f.k) /\ g0.t = x /\ g0.ex = f.ex
  BY <1>4, <1>5, ObjectSafe
<1> HIDE DEF g0
<1>7. Safe(g, f.k) /\ g.t = g0.t /\ g.ex = g0.ex
  <2>1. g0 \in Frames
    BY <1>6 DEF Safe
  <2>2. g.t = g0.t /\ g.ex = g0.ex
    BY <2>1 DEF KillAt, Frames
  <2> QED BY <1>6, <2>2, KillAtSafe
<1> HIDE DEF g
<1>8. g \in Frames /\ g.t \in Tracees /\ ThreadInv(g.k)
  BY <1>7, FrameUpdate DEF Safe
<1>9. y \in Tracees /\ y.cur = g.t.cur /\ y.flags = g.t.flags /\ y.mode = g.t.mode
      /\ y.valid = g.t.valid /\ y.state = g.t.state /\ y.blocked = g.t.blocked
  BY <1>8 DEF Tracees
<1> HIDE DEF y
<1>10. Live(g.k) => g.k = f.k /\ f.k.run = "stop" /\ ~f.k.status /\ Synced(y, f.k)
  BY <1>4, <1>6, <1>7, <1>9, <1>2, SyncedAlike DEF Safe
<1>11. Safe(h, f.k) /\ h.t = y /\ h.ex = g.ex
  BY <1>8, <1>9, <1>10, ObjectSafe
<1> HIDE DEF h
<1>12. h.t.state \notin {"RUNNING", "UNKNOWN"}
  BY <1>4, <1>6, <1>7, <1>9, <1>11
<1>13. LET n == Notify(h, in, "syscallEntry", cur, flag) IN Safe(n, f.k) /\ n.ex = h.ex
  BY <1>2, <1>11, <1>12, NotifySafe
<1>14. Safe(Throw(g, "ESRCH"), f.k) /\ Throw(g, "ESRCH").ex = "ESRCH"
  BY <1>7, ThrowSafe
<1> QED
  BY <1>3, <1>6, <1>7, <1>11, <1>13, <1>14

\* The return from a system call, after changeState().
LEMMA HandleSystemCallExitSafe ==
  ASSUME NEW f, NEW k0, Safe(f, k0), NEW in \in InputRecords, ~k0.insys,
         f.t.state = "SYSCALL_EXIT_STOP"
  PROVE  LET g == HandleSystemCallExit(f, in) IN Safe(g, k0) /\ g.ex \in {f.ex, "ESRCH"}
<1> DEFINE g == KillAt(f, in, "decode")
           c == g.t.cur
           interrupted == in.res = "ERESTART"
           y == [g.t EXCEPT !.intr = IF interrupted THEN c ELSE g.t.intr]
           h == [g EXCEPT !.t = y]
           flag == IF interrupted THEN "INTERRUPTED" ELSE "none"
           n == Notify(h, in, "syscallExit", c, flag)
           sigreturn == c = "sigreturn" /\ n.t.intr # "none"
           intr == IF sigreturn /\ in.res = "EINTR" THEN "none" ELSE n.t.intr
           flags == IF sigreturn /\ in.res # "EINTR" THEN n.t.flags \cup {"SEEN_SIGRETURN"} ELSE n.t.flags
           z == [n.t EXCEPT !.intr = intr, !.flags = flags, !.cur = "none"]
           m == [n EXCEPT !.t = z]
<1>1. Safe(g, k0) /\ g.t = f.t /\ g.ex = f.ex
  <2>1. f \in Frames
    BY DEF Safe
  <2>2. g.t = f.t /\ g.ex = f.ex
    BY <2>1 DEF KillAt, Frames
  <2> QED BY <2>2, KillAtSafe
<1>2. HandleSystemCallExit(f, in) = IF ~Reachable(g) THEN Throw(g, "ESRCH")
        ELSE [n EXCEPT !.t.intr = intr, !.t.flags = flags, !.t.cur = "none"]
  BY DEF HandleSystemCallExit
<1> HIDE DEF g
<1>3. g \in Frames /\ g.t \in Tracees /\ ThreadInv(g.k)
  BY <1>1, FrameUpdate DEF Safe
<1>4. y \in Tracees /\ y.cur = g.t.cur /\ y.flags = g.t.flags /\ y.mode = g.t.mode
      /\ y.valid = g.t.valid /\ y.state = g.t.state /\ y.blocked = g.t.blocked
  BY <1>3 DEF Tracees
<1> HIDE DEF y
<1>5. Live(g.k) => g.k = k0 /\ k0.run = "stop" /\ ~k0.status /\ Synced(y, k0)
  <2> SUFFICES ASSUME Live(g.k) PROVE g.k = k0 /\ k0.run = "stop" /\ ~k0.status /\ Synced(y, k0)
    OBVIOUS
  <2>1. g.k = k0 /\ k0.run = "stop" /\ ~k0.status /\ Synced(g.t, k0)
    BY <1>1 DEF Safe
  <2>2. "SYSCALL_ENTERED" \in g.t.flags => g.t.cur # "none"
    BY <2>1 DEF Synced, SyscallStopPending
  <2> QED BY <1>4, <2>1, <2>2, SyncedAlike
<1>6. Safe(h, k0) /\ h.t = y /\ h.ex = g.ex
  BY <1>3, <1>4, <1>5, ObjectSafe
<1>7. c \in MaybeCall
  BY <1>3 DEF Tracees
<1> HIDE DEF h, c, flag
<1>8. Safe(n, k0) /\ n.ex = h.ex
  BY <1>1, <1>4, <1>6, <1>7, NotifySafe
<1> HIDE DEF n
<1>9. n \in Frames /\ n.t \in Tracees /\ ThreadInv(n.k)
  BY <1>8, FrameUpdate DEF Safe
<1>10. intr \in MaybeCall /\ flags \subseteq Flags
       /\ ("SYSCALL_ENTERED" \in flags <=> "SYSCALL_ENTERED" \in n.t.flags)
  BY <1>9 DEF Tracees, MaybeCall, Flags
<1> HIDE DEF intr, flags
<1>11. z \in Tracees /\ z.flags = flags /\ z.mode = n.t.mode /\ z.valid = n.t.valid /\ z.blocked = n.t.blocked
  BY <1>9, <1>10 DEF Tracees, MaybeCall
<1> HIDE DEF z
<1>12. Live(n.k) => n.k = k0 /\ k0.run = "stop" /\ ~k0.status /\ Synced(z, k0)
  <2> SUFFICES ASSUME Live(n.k) PROVE n.k = k0 /\ k0.run = "stop" /\ ~k0.status /\ Synced(z, k0)
    OBVIOUS
  <2>1. n.k = k0 /\ k0.run = "stop" /\ ~k0.status /\ Synced(n.t, k0)
    BY <1>8 DEF Safe
  <2>2. "SYSCALL_ENTERED" \notin n.t.flags
    BY <2>1 DEF Synced, SyscallStopPending
  <2> QED BY <1>10, <1>11, <2>1, <2>2, SyncedAlike
<1>13. Safe(m, k0) /\ m.ex = n.ex
  BY <1>9, <1>11, <1>12, ObjectSafe
<1>14. m = [n EXCEPT !.t.intr = intr, !.t.flags = flags, !.t.cur = "none"]
  BY <1>9 DEF m, z, Frames, Tracees
<1>15. Safe(Throw(g, "ESRCH"), k0) /\ Throw(g, "ESRCH").ex = "ESRCH"
  BY <1>1, ThrowSafe
<1> HIDE DEF m
<1> QED
  BY <1>1, <1>2, <1>6, <1>8, <1>13, <1>14, <1>15

\* A thread that answers after KillAt has not been killed there.
LEMMA KillAtReachable ==
  ASSUME NEW f \in Frames, NEW in, NEW point, Reachable(KillAt(f, in, point))
  PROVE  KillAt(f, in, point) = f
<1> DEFINE g == [f EXCEPT !.k = Kill(f.k)]
<1>1. f.k \in Thread /\ Kill(f.k) \in Thread
  BY FrameUpdate, KillType
<1>2. g.k = Kill(f.k)
  BY DEF Frames
<1>3. ~InStop(Kill(f.k))
  BY <1>1 DEF Kill, InStop, Thread
<1>4. KillAt(f, in, point) = IF in.kill = point THEN g ELSE f
  BY DEF KillAt
<1> HIDE DEF g
<1> QED
  BY <1>2, <1>3, <1>4 DEF Reachable

\* handleSystemCall() at a system call stop that wait() has just returned: the
\* object catches up with the thread, and handleStateMismatch() is not reached.
LEMMA HandleSystemCallSafe ==
  ASSUME NEW f \in Frames, NEW in \in InputRecords, ThreadInv(f.k), f.ex = "none",
         f.k.at \in SyscallStops, ~f.k.status,
         Live(f.k) => /\ f.k.run = "stop" /\ f.k.sysgood /\ (f.k.insys <=> f.k.at = "SYS_ENTRY")
                      /\ "SYSCALL_ENTERED" \in f.t.flags <=> ~f.k.insys
                      /\ f.t.mode # "CONT" /\ f.t.valid /\ ~f.t.blocked
  PROVE  LET g == HandleSystemCall(f, in) IN Safe(g, f.k) /\ g.ex \in {"none", "ESRCH"}
<1> DEFINE g == KillAt(f, in, "request")
           n == ToState(f, "SYSCALL_ENTER_STOP")
           x == ToState(f, "SYSCALL_EXIT_STOP")
<1>1. g \in Frames /\ ThreadInv(g.k) /\ (g = f \/ ~Live(g.k)) /\ g.ex = f.ex
  <2> DEFINE h == [f EXCEPT !.k = Kill(f.k)]
  <2>1. f.k \in Thread
    BY FrameUpdate
  <2>2. h \in Frames /\ h.k = Kill(f.k) /\ h.ex = f.ex
    BY <2>1, KillType DEF Frames
  <2>3. ~Live(h.k) /\ ThreadInv(h.k)
    BY <2>1, <2>2, KillNotLive
  <2>4. g = h \/ g = f
    BY DEF KillAt
  <2> HIDE DEF h, g
  <2> QED BY <2>2, <2>3, <2>4
<1>2. CASE ~Reachable(g)
  <2>1. HandleSystemCall(f, in) = Throw(g, "ESRCH")
    BY <1>2 DEF HandleSystemCall
  <2>2. ~Live(g.k)
    BY <1>1, <1>2 DEF Reachable, InStop, Live, SyscallStops
  <2>3. Safe(g, f.k)
    BY <1>1, <2>2 DEF Safe
  <2> QED BY <2>1, <2>3, ThrowSafe
<1>3. CASE Reachable(g)
  <2>1. g = f
    BY <1>3, KillAtReachable
  <2>2. Live(f.k) /\ f.k.run = "stop"
    BY <1>3, <2>1 DEF Reachable, InStop, Live, PtraceStops, SyscallStops
  <2>3. "SYSCALL_ENTER_STOP" \in States /\ "SYSCALL_EXIT_STOP" \in States
    BY DEF States
  <2>4. CASE f.k.at = "SYS_ENTRY"
    <3>1. f.k.insys /\ f.k.sysgood /\ "SYSCALL_ENTERED" \notin f.t.flags
      BY <2>2, <2>4
    <3>2. HandleSystemCall(f, in) = HandleSystemCallEntry(n, in)
      <4> HIDE DEF n
      <4> QED BY <1>3, <2>1, <2>4, <3>1 DEF HandleSystemCall, n
    <3>3. /\ n \in Frames /\ n.k = f.k /\ n.ex = f.ex /\ n.t.valid = f.t.valid /\ n.t.mode = f.t.mode
          /\ n.t.flags = ChangedFlags(f.t, "SYSCALL_ENTER_STOP") /\ n.t.blocked = f.t.blocked
          /\ n.t.state = "SYSCALL_ENTER_STOP"
      BY <2>3, ToStateFields
    <3>4. "SYSCALL_ENTERED" \in n.t.flags
      BY <3>3 DEF ChangedFlags
    <3> HIDE DEF n
    <3>5. LET h == HandleSystemCallEntry(n, in) IN Safe(h, n.k) /\ h.ex \in {n.ex, "ESRCH"}
      BY <2>2, <3>1, <3>3, <3>4, HandleSystemCallEntrySafe
    <3> QED BY <3>2, <3>3, <3>5
  <2>5. CASE f.k.at = "SYS_EXIT"
    <3>1. ~f.k.insys /\ f.k.sysgood /\ "SYSCALL_ENTERED" \in f.t.flags
      BY <2>2, <2>5
    <3>2. HandleSystemCall(f, in) = HandleSystemCallExit(x, in)
      <4> HIDE DEF x
      <4> QED BY <1>3, <2>1, <2>5, <3>1 DEF HandleSystemCall, x
    <3>3. /\ x \in Frames /\ x.k = f.k /\ x.ex = f.ex /\ x.t.valid = f.t.valid /\ x.t.mode = f.t.mode
          /\ x.t.flags = ChangedFlags(f.t, "SYSCALL_EXIT_STOP") /\ x.t.blocked = f.t.blocked
          /\ x.t.state = "SYSCALL_EXIT_STOP"
      BY <2>3, ToStateFields
    <3>4. "SYSCALL_ENTERED" \notin x.t.flags
      BY <3>3 DEF ChangedFlags
    <3> HIDE DEF x
    <3>5. Synced(x.t, f.k)
      BY <2>2, <3>1, <3>3, <3>4 DEF Synced, SyscallStopPending
    <3>6. Safe(x, f.k)
      BY <2>2, <3>3, <3>5 DEF Safe
    <3>7. LET h == HandleSystemCallExit(x, in) IN Safe(h, f.k) /\ h.ex \in {x.ex, "ESRCH"}
      BY <3>1, <3>3, <3>6, HandleSystemCallExitSafe
    <3> QED BY <3>2, <3>3, <3>7
  <2> QED BY <2>4, <2>5 DEF SyscallStops
<1> QED
  BY <1>2, <1>3

(* Signals and events *)

\* A handler that starts with a request fails with ESRCH or finds the frame as it was.
LEMMA RequestSafe ==
  ASSUME NEW f, NEW k0, Safe(f, k0), NEW in
  PROVE  LET g == KillAt(f, in, "request")
         IN  Safe(Throw(g, "ESRCH"), k0) /\ (Reachable(g) => g = f)
<1>1. f \in Frames
  BY DEF Safe
<1>2. Safe(KillAt(f, in, "request"), k0)
  BY KillAtSafe
<1> QED
  BY <1>1, <1>2, ThrowSafe, KillAtReachable

\* Flags other than SYSCALL_ENTERED may come and go.
LEMMA FlagsSafe ==
  ASSUME NEW f, NEW k0, Safe(f, k0), NEW s \in SUBSET Flags,
         "SYSCALL_ENTERED" \in s <=> "SYSCALL_ENTERED" \in f.t.flags
  PROVE  Safe([f EXCEPT !.t.flags = s], k0)
<1> DEFINE x == [f.t EXCEPT !.flags = s]
<1>1. f \in Frames /\ f.t \in Tracees /\ ThreadInv(f.k)
  BY FrameUpdate DEF Safe
<1>2. /\ x \in Tracees /\ x.flags = s /\ x.cur = f.t.cur /\ x.mode = f.t.mode
      /\ x.valid = f.t.valid /\ x.blocked = f.t.blocked
  BY <1>1 DEF Tracees
<1>3. [f EXCEPT !.t.flags = s] = [f EXCEPT !.t = x]
  OBVIOUS
<1> HIDE DEF x
<1>4. Live(f.k) => f.k = k0 /\ k0.run = "stop" /\ ~k0.status /\ Synced(x, k0)
  <2> SUFFICES ASSUME Live(f.k) PROVE f.k = k0 /\ k0.run = "stop" /\ ~k0.status /\ Synced(x, k0)
    OBVIOUS
  <2>1. f.k = k0 /\ k0.run = "stop" /\ ~k0.status /\ Synced(f.t, k0)
    BY DEF Safe
  <2>2. "SYSCALL_ENTERED" \in f.t.flags => f.t.cur # "none"
    BY <2>1 DEF Synced, SyscallStopPending
  <2> QED BY <1>2, <2>1, <2>2, SyncedAlike
<1> QED
  BY <1>1, <1>2, <1>3, <1>4, ObjectSafe

\* handleSignal() keeps the frame safe.
LEMMA HandleSignalSafe ==
  ASSUME NEW f, NEW k0, Safe(f, k0), NEW in \in InputRecords
  PROVE  Safe(HandleSignal(f, in), k0)
<1> DEFINE h == ToState(f, "SIGNAL_DELIVERY_STOP")
           g == KillAt(h, in, "request")
           c == [h EXCEPT !.t.flags = h.t.flags \ {"INJECTED_SIGCONT"}]
           n == Notify(h, in, "signaled", "none", "none")
<1>1. "SIGNAL_DELIVERY_STOP" \in States /\ f \in Frames
  BY DEF States, Safe
<1>2. Safe(h, k0) /\ h.t.state = "SIGNAL_DELIVERY_STOP"
  BY <1>1, ToStateSafe, ToStateFields
<1>3. HandleSignal(f, in) = IF ~Reachable(g) THEN Throw(g, "ESRCH")
        ELSE IF "INJECTED_SIGCONT" \in g.t.flags /\ in.ev = "SIG_CONT"
             THEN [g EXCEPT !.t.flags = g.t.flags \ {"INJECTED_SIGCONT"}]
             ELSE Notify(g, in, "signaled", "none", "none")
  <2> HIDE DEF h
  <2> QED BY DEF HandleSignal, h
<1> HIDE DEF h
<1>4. Safe(Throw(g, "ESRCH"), k0) /\ (Reachable(g) => g = h)
  BY <1>2, RequestSafe
<1>5. Safe(c, k0)
  <2>1. h.t \in Tracees
    BY <1>2, FrameUpdate DEF Safe
  <2>2. h.t.flags \ {"INJECTED_SIGCONT"} \in SUBSET Flags
    BY <2>1 DEF Tracees
  <2> QED BY <1>2, <2>2, FlagsSafe
<1>6. Safe(n, k0)
  <2>1. "none" \in MaybeCall
    BY DEF MaybeCall
  <2> QED BY <1>2, <2>1, NotifySafe
<1> HIDE DEF g
<1>7. HandleSignal(f, in) \in {Throw(g, "ESRCH"), c, n}
  <2>1. CASE ~Reachable(g)
    BY <1>3, <2>1
  <2>2. CASE Reachable(g)
    <3>1. g = h
      BY <1>4, <2>2
    <3> QED BY <1>3, <2>2, <3>1
  <2> QED BY <2>1, <2>2
<1> QED
  <2> HIDE DEF c, n
  <2> QED BY <1>4, <1>5, <1>6, <1>7

\* In a PTRACE_EVENT_STOP the restart mode may change to SYSCALL or LISTEN: the
\* thread is in user space there.
LEMMA ModeSafe ==
  ASSUME NEW f, NEW k0, Safe(f, k0), NEW x \in Tracees, k0.at \in {"EV_STOP_SIG", "EV_STOP_TRAP"},
         x.mode \in {f.t.mode, "SYSCALL", "LISTEN"}, x.valid = f.t.valid, x.blocked = f.t.blocked,
         x.cur = f.t.cur, "SYSCALL_ENTERED" \in x.flags <=> "SYSCALL_ENTERED" \in f.t.flags
  PROVE  LET g == [f EXCEPT !.t = x] IN Safe(g, k0) /\ g.t = x
<1>1. f \in Frames /\ ThreadInv(f.k)
  BY DEF Safe
<1>2. ASSUME Live(f.k) PROVE f.k = k0 /\ k0.run = "stop" /\ ~k0.status /\ Synced(x, k0)
  <2>1. f.k = k0 /\ k0.run = "stop" /\ ~k0.status /\ Synced(f.t, k0)
    BY <1>2 DEF Safe
  <2>2. ~k0.insys
    BY <1>1, <2>1 DEF ThreadInv
  <2>3. Synced(x, k0)
    BY <2>1, <2>2 DEF Synced, SyscallStopPending
  <2> QED BY <2>1, <2>3
<1> QED
  BY <1>1, <1>2, ObjectSafe

\* handleAttached() keeps the frame safe.
LEMMA HandleAttachedSafe ==
  ASSUME NEW f, NEW k0, Safe(f, k0), NEW in \in InputRecords,
         k0.at \in {"EV_STOP_SIG", "EV_STOP_TRAP"}, f.t.state \notin {"RUNNING", "UNKNOWN"}
  PROVE  Safe(HandleAttached(f, in), k0)
<1> DEFINE flags == f.t.flags \ {"WAIT_FOR_ATTACH_STOP"}
           mode == IF "INJECTED_SIGSTOP" \in f.t.flags THEN f.t.mode ELSE "SYSCALL"
           x == [f.t EXCEPT !.flags = flags, !.mode = mode]
           m == [f EXCEPT !.t = x]
           g == KillAt(m, in, "request")
           n == Notify(m, in, "attached", "none", "none")
<1>1. f \in Frames /\ f.t \in Tracees
  BY FrameUpdate DEF Safe
<1>2. /\ flags \in SUBSET Flags /\ mode \in RestartModes /\ mode \in {f.t.mode, "SYSCALL"}
      /\ "SYSCALL_ENTERED" \in flags <=> "SYSCALL_ENTERED" \in f.t.flags
  BY <1>1 DEF Tracees, RestartModes
<1>3. [f EXCEPT !.t.flags = f.t.flags \ {"WAIT_FOR_ATTACH_STOP"},
                !.t.mode = IF "INJECTED_SIGSTOP" \in f.t.flags THEN f.t.mode ELSE "SYSCALL"] = m
  BY <1>1 DEF Frames, Tracees
<1>4. HandleAttached(f, in) = IF ~Reachable(g) THEN Throw(g, "ESRCH")
                              ELSE Notify(g, in, "attached", "none", "none")
  <2> HIDE DEF m
  <2> QED BY <1>3 DEF HandleAttached
<1> HIDE DEF flags, mode
<1>5. /\ x \in Tracees /\ x.flags = flags /\ x.mode = mode /\ x.cur = f.t.cur
      /\ x.valid = f.t.valid /\ x.blocked = f.t.blocked /\ x.state = f.t.state
  BY <1>1, <1>2 DEF Tracees
<1> HIDE DEF x
<1>6. Safe(m, k0) /\ m.t = x
  BY <1>2, <1>5, ModeSafe
<1> HIDE DEF m
<1>7. Safe(Throw(g, "ESRCH"), k0) /\ (Reachable(g) => g = m)
  BY <1>6, RequestSafe
<1>8. Safe(n, k0)
  <2>1. "none" \in MaybeCall
    BY DEF MaybeCall
  <2> QED BY <1>5, <1>6, <2>1, NotifySafe
<1> HIDE DEF g
<1>9. HandleAttached(f, in) = Throw(g, "ESRCH") \/ HandleAttached(f, in) = n
  <2>1. CASE ~Reachable(g)
    BY <1>4, <2>1
  <2>2. CASE Reachable(g)
    <3>1. g = m
      BY <1>7, <2>2
    <3> QED BY <1>4, <2>2, <3>1
  <2> QED BY <2>1, <2>2
<1> QED
  <2> HIDE DEF n
  <2> QED BY <1>7, <1>8, <1>9

\* The branch of handleStopEvent() for a group-stop does.
LEMMA GroupStopSafe ==
  ASSUME NEW f, NEW k0, Safe(f, k0), NEW in \in InputRecords,
         k0.at \in {"EV_STOP_SIG", "EV_STOP_TRAP"}
  PROVE  Safe(Notify([ToState(f, "GROUP_STOP") EXCEPT !.t.stopSig = TRUE], in, "stopped", "none", "none"), k0)
<1> DEFINE h == ToState(f, "GROUP_STOP")
           x == [h.t EXCEPT !.stopSig = TRUE]
           y == [h EXCEPT !.t = x]
<1>1. f \in Frames /\ f.t \in Tracees /\ ThreadInv(f.k) /\ "GROUP_STOP" \in States /\ "none" \in MaybeCall
  BY FrameUpdate DEF Safe, States, MaybeCall
<1>2. /\ h \in Frames /\ h.k = f.k /\ h.v = f.v /\ h.ex = f.ex /\ h.t.cur = f.t.cur
      /\ h.t.valid = f.t.valid /\ h.t.state = "GROUP_STOP" /\ h.t.blocked = f.t.blocked
      /\ h.t.flags = ChangedFlags(f.t, "GROUP_STOP") /\ h.t.mode \in {"SYSCALL", "LISTEN"}
  BY <1>1, ToStateFields
<1>3. "SYSCALL_ENTERED" \in h.t.flags <=> "SYSCALL_ENTERED" \in f.t.flags
  BY <1>2 DEF ChangedFlags
<1> HIDE DEF h
<1>4. h.t \in Tracees
  BY <1>2, FrameUpdate
<1>5. /\ x \in Tracees /\ x.flags = h.t.flags /\ x.mode = h.t.mode /\ x.cur = h.t.cur
      /\ x.valid = h.t.valid /\ x.blocked = h.t.blocked /\ x.state = h.t.state
  BY <1>4 DEF Tracees
<1> HIDE DEF x
<1>6. Safe([f EXCEPT !.t = x], k0)
  BY <1>2, <1>3, <1>5, ModeSafe
<1>7. [f EXCEPT !.t = x] = y
  BY <1>1, <1>2 DEF Frames
<1>8. y.t = x
  BY <1>2 DEF Frames
<1>9. [h EXCEPT !.t.stopSig = TRUE] = y
  BY DEF x
<1> HIDE DEF y
<1>10. Safe(Notify(y, in, "stopped", "none", "none"), k0)
  BY <1>1, <1>2, <1>5, <1>6, <1>7, <1>8, NotifySafe
<1> QED
  BY <1>9, <1>10 DEF h

\* handleStopEvent() does.
LEMMA HandleStopEventSafe ==
  ASSUME NEW f, NEW k0, Safe(f, k0), NEW in \in InputRecords,
         k0.at \in {"EV_STOP_SIG", "EV_STOP_TRAP"}, f.t.state \notin {"RUNNING", "UNKNOWN"}
  PROVE  Safe(HandleStopEvent(f, in), k0)
<1> DEFINE x == [f.t EXCEPT !.mode = "SYSCALL"]
           n == Notify([ToState(f, "GROUP_STOP") EXCEPT !.t.stopSig = TRUE], in, "stopped", "none", "none")
<1>1. Safe(HandleAttached(f, in), k0) /\ Safe(n, k0)
  BY HandleAttachedSafe, GroupStopSafe
<1>2. f.t \in Tracees
  BY FrameUpdate DEF Safe
<1>3. /\ x \in Tracees /\ x.flags = f.t.flags /\ x.mode = "SYSCALL" /\ x.cur = f.t.cur
      /\ x.valid = f.t.valid /\ x.blocked = f.t.blocked
  BY <1>2 DEF Tracees, RestartModes
<1>4. [f EXCEPT !.t.mode = "SYSCALL"] = [f EXCEPT !.t = x]
  OBVIOUS
<1> HIDE DEF x
<1>5. Safe([f EXCEPT !.t = x], k0)
  BY <1>3, ModeSafe
<1>6. HandleStopEvent(f, in) = IF "WAIT_FOR_ATTACH_STOP" \in f.t.flags THEN HandleAttached(f, in)
        ELSE IF in.ev = "EV_STOP_SIG" THEN n ELSE [f EXCEPT !.t.mode = "SYSCALL"]
  BY DEF HandleStopEvent
<1> HIDE DEF n
<1> QED
  BY <1>1, <1>4, <1>5, <1>6

\* handleExitEvent() does.
LEMMA HandleExitEventSafe ==
  ASSUME NEW f, NEW k0, Safe(f, k0), NEW in \in InputRecords, f.t.state \notin {"RUNNING", "UNKNOWN"}
  PROVE  Safe(HandleExitEvent(f, in), k0)
<1> DEFINE g == KillAt(f, in, "request")
           lost == ~g.k.fatal /\ ~(g.t.prev = "SYSCALL_ENTER_STOP" /\ g.t.cur = "exit")
           flag == IF lost THEN "LOST_TO_MT_EXIT" ELSE "none"
           n == Notify(g, in, "exited", "none", flag)
           s == n.t.flags \cup {"WAIT_FOR_EXITED"}
<1>1. HandleExitEvent(f, in) = IF ~Reachable(g) THEN Throw(g, "ESRCH") ELSE [n EXCEPT !.t.flags = s]
  BY DEF HandleExitEvent
<1>2. Safe(Throw(g, "ESRCH"), k0) /\ (Reachable(g) => g = f)
  BY RequestSafe
<1> HIDE DEF flag, g
<1>3. ASSUME Reachable(g) PROVE Safe([n EXCEPT !.t.flags = s], k0)
  <2>1. "none" \in MaybeCall
    BY DEF MaybeCall
  <2>2. Safe(n, k0)
    BY <1>2, <1>3, <2>1, NotifySafe
  <2> HIDE DEF n
  <2>3. n.t \in Tracees
    BY <2>2, FrameUpdate DEF Safe
  <2>4. s \in SUBSET Flags /\ ("SYSCALL_ENTERED" \in s <=> "SYSCALL_ENTERED" \in n.t.flags)
    BY <2>3 DEF Tracees, Flags
  <2> HIDE DEF s
  <2> QED BY <2>2, <2>4, FlagsSafe
<1> HIDE DEF n, s
<1> QED
  BY <1>1, <1>2, <1>3

\* handleExecEvent() does.
LEMMA HandleExecEventSafe ==
  ASSUME NEW f, NEW k0, Safe(f, k0), NEW in \in InputRecords, f.t.state \notin {"RUNNING", "UNKNOWN"}
  PROVE  Safe(HandleExecEvent(f, in), k0)
<1> DEFINE g == KillAt(f, in, "request")
           n == Notify(g, in, "newExecutionContext", "none", "none")
<1>1. HandleExecEvent(f, in) = IF ~InStop(g.k) THEN Throw(g, "ESRCH") ELSE n
  BY DEF HandleExecEvent
<1>2. Safe(g, k0) /\ g.t = f.t
  <2>1. f \in Frames
    BY DEF Safe
  <2>2. g.t = f.t
    BY <2>1 DEF KillAt, Frames
  <2> QED BY <2>2, KillAtSafe
<1> HIDE DEF g
<1>3. Safe(n, k0)
  <2>1. "none" \in MaybeCall
    BY DEF MaybeCall
  <2> QED BY <1>2, <2>1, NotifySafe
<1>4. Safe(Throw(g, "ESRCH"), k0)
  BY <1>2, ThrowSafe
<1> HIDE DEF n
<1> QED
  BY <1>1, <1>3, <1>4

\* handleNewChildEvent() does.
LEMMA HandleNewChildEventSafe ==
  ASSUME NEW f, NEW k0, Safe(f, k0), NEW in \in InputRecords, f.t.state \notin {"RUNNING", "UNKNOWN"}
  PROVE  Safe(HandleNewChildEvent(f, in), k0)
<1> DEFINE g == KillAt(f, in, "request")
           n == Notify(g, in, "newChildProcess", "none", "none")
           d == Notify(g, in, "vforkComplete", "none", "none")
<1>1. HandleNewChildEvent(f, in) \in {Throw(g, "ESRCH"), d, Throw(g, "null"), n}
  <2> HIDE DEF g
  <2> QED BY DEF HandleNewChildEvent, g
<1>2. Safe(g, k0) /\ g.t = f.t
  <2>1. f \in Frames
    BY DEF Safe
  <2>2. g.t = f.t
    BY <2>1 DEF KillAt, Frames
  <2> QED BY <2>2, KillAtSafe
<1> HIDE DEF g
<1>3. Safe(n, k0) /\ Safe(d, k0)
  <2>1. "none" \in MaybeCall
    BY DEF MaybeCall
  <2> QED BY <1>2, <2>1, NotifySafe
<1>4. Safe(Throw(g, "ESRCH"), k0) /\ Safe(Throw(g, "null"), k0)
  BY <1>2, ThrowSafe
<1> HIDE DEF n, d
<1> QED
  BY <1>1, <1>3, <1>4

\* handleEvent() does, for the event the thread is stopped at.
LEMMA HandleEventSafe ==
  ASSUME NEW f, NEW k0, Safe(f, k0), NEW in \in InputRecords, in.ev = k0.at
  PROVE  Safe(HandleEvent(f, in), k0)
<1> DEFINE g == ToState(f, "EVENT_STOP")
<1>1. "EVENT_STOP" \in States /\ f \in Frames
  BY DEF States, Safe
<1>2. Safe(g, k0) /\ g.t.state = "EVENT_STOP"
  BY <1>1, ToStateSafe, ToStateFields
<1>3. HandleEvent(f, in) = CASE in.ev \in {"EV_STOP_SIG", "EV_STOP_TRAP"} -> HandleStopEvent(g, in)
                             [] in.ev = "EV_EXIT" -> HandleExitEvent(g, in)
                             [] in.ev = "EV_EXEC" -> HandleExecEvent(g, in)
                             [] OTHER -> HandleNewChildEvent(g, in)
  BY DEF HandleEvent
<1> HIDE DEF g
<1>4. CASE in.ev \in {"EV_STOP_SIG", "EV_STOP_TRAP"}
  BY <1>2, <1>3, <1>4, HandleStopEventSafe
<1>5. CASE in.ev = "EV_EXIT"
  BY <1>2, <1>3, <1>5, HandleExitEventSafe
<1>6. CASE in.ev = "EV_EXEC"
  BY <1>2, <1>3, <1>6, HandleExecEventSafe
<1>7. CASE in.ev \notin {"EV_STOP_SIG", "EV_STOP_TRAP", "EV_EXIT", "EV_EXEC"}
  BY <1>2, <1>3, <1>7, HandleNewChildEventSafe
<1> QED
  BY <1>4, <1>5, <1>6, <1>7

(* processEvent() *)

\* Between two events the object and its thread are in step, unless it was killed.
Settled(f) == f \in Frames /\ ThreadInv(f.k) /\ (Live(f.k) => Synced(f.t, f.k))

\* A safe frame is settled: nothing else has happened to the thread.
LEMMA SafeSettled == ASSUME NEW f, NEW k0, Safe(f, k0) PROVE Settled(f)
BY DEF Safe, Settled

\* A stop that is reported at once in place of a restart.
LEMMA TakeTrapSynced ==
  ASSUME NEW k \in Thread, ~k.insys
  PROVE  LET r == TakeTrap(k)
         IN  /\ ThreadInv(r) /\ r.run = "stop" /\ r.at \in {"EV_STOP_SIG", "EV_STOP_TRAP"}
             /\ r.insys = k.insys /\ r.sysgood = k.sysgood
BY DEF TakeTrap, StopAt, Thread, ThreadInv, PtraceStops, EventStops, SyscallStops, SignalStops

\* The thread is restarted by PTRACE_CONT or PTRACE_SYSCALL, x being the object then.
LEMMA ResumeSynced ==
  ASSUME NEW t \in Tracees, NEW x \in Tracees, NEW k \in Thread, NEW sig, NEW deadly,
         ThreadInv(k), InStop(k), ~k.status, k.at # "EV_EXIT" => Synced(t, k),
         t.mode # "LISTEN", t.valid, sig = "STOP" => k.at = "SIG_STOP",
         "SYSCALL_ENTERED" \in x.flags <=> "SYSCALL_ENTERED" \in t.flags,
         x.cur = t.cur, x.mode = t.mode, x.valid = t.valid, x.blocked = t.blocked, x.state = "RUNNING"
  PROVE  LET r == Resume(k, t.mode, sig, deadly) IN ThreadInv(r) /\ (Live(r) => Synced(x, r))
<1> DEFINE s == [k EXCEPT !.sysgood = (t.mode = "SYSCALL")]
           r == Resume(k, t.mode, sig, deadly)
<1>1. /\ s \in Thread /\ s.sysgood = (t.mode = "SYSCALL") /\ s.run = "stop" /\ s.at = k.at /\ s.insys = k.insys
      /\ s.status = k.status
  BY DEF Thread, InStop
<1>2. /\ r = CASE k.at = "EV_EXIT" -> [s EXCEPT !.run = "zombie", !.at = "ENDED", !.status = TRUE]
               [] k.at # "EV_EXIT" /\ sig = "STOP" /\ ~k.notify -> TakeTrap([s EXCEPT !.gstop = TRUE])
               [] k.at # "EV_EXIT" /\ sig = "TERM" /\ deadly -> Kill(s)
               [] OTHER -> Leave(s)
  BY DEF Resume
<1>3. t.mode = "CONT" \/ t.mode = "SYSCALL"
  BY DEF Tracees, RestartModes
<1> HIDE DEF s, r
<1>4. ThreadInv(s)
  BY <1>1 DEF ThreadInv, InStop
<1>5. CASE k.at = "EV_EXIT"
  <2>1. r = [s EXCEPT !.run = "zombie", !.at = "ENDED", !.status = TRUE]
    BY <1>2, <1>5
  <2>2. r.run = "zombie" /\ r.at = "ENDED"
    BY <1>1, <2>1 DEF Thread
  <2> QED BY <2>2 DEF ThreadInv, Live, r
<1>6. ASSUME NEW q \in Thread, k.at # "EV_EXIT", ~k.insys, q.insys = k.insys, q.sysgood = s.sysgood
      PROVE  LET p == TakeTrap(q) IN ThreadInv(p) /\ Synced(x, p)
  <2> DEFINE p == TakeTrap(q)
  <2>1. /\ ThreadInv(p) /\ p.run = "stop" /\ p.at \in {"EV_STOP_SIG", "EV_STOP_TRAP"}
        /\ p.insys = q.insys /\ p.sysgood = q.sysgood
    BY <1>6, TakeTrapSynced
  <2>2. Synced(t, k)
    BY <1>6
  <2>3. "SYSCALL_ENTERED" \notin t.flags
    BY <1>6, <2>2 DEF Synced, SyscallStopPending
  <2> HIDE DEF p
  <2>4. p.sysgood <=> t.mode = "SYSCALL"
    BY <1>1, <1>6, <2>1
  <2>5. Synced(x, p)
    BY <1>3, <1>6, <2>1, <2>2, <2>3, <2>4 DEF Synced, SyscallStopPending, SyscallStops
  <2> QED BY <2>1, <2>5 DEF p
<1>7. CASE k.at # "EV_EXIT" /\ sig = "STOP" /\ ~k.notify
  <2> DEFINE q == [s EXCEPT !.gstop = TRUE]
  <2>1. q \in Thread /\ q.insys = k.insys /\ q.sysgood = s.sysgood
    BY <1>1 DEF Thread
  <2>2. ~k.insys
    BY <1>7 DEF ThreadInv, InStop, SignalStops
  <2>3. r = TakeTrap(q)
    BY <1>2, <1>7
  <2> HIDE DEF q
  <2> QED BY <1>6, <1>7, <2>1, <2>2, <2>3 DEF r
<1>8. CASE r = Kill(s)
  BY <1>1, <1>4, <1>8, KillNotLive DEF r
<1>9. CASE k.at # "EV_EXIT" /\ r = Leave(s)
  <2>1. CASE Due(s) /\ ~s.insys
    <3>1. r = TakeTrap(s)
      BY <1>9, <2>1 DEF Leave
    <3> QED BY <1>1, <1>6, <1>9, <2>1, <3>1 DEF r
  <2>2. CASE ~(Due(s) /\ ~s.insys)
    <3>1. r = [s EXCEPT !.run = "run", !.at = "none", !.status = FALSE]
      BY <1>9, <2>2 DEF Leave
    <3>2. r.run = "run" /\ r.at = "none" /\ r.status = FALSE /\ r.insys = k.insys /\ r.sysgood = s.sysgood
      BY <1>1, <3>1 DEF Thread
    <3>3. ThreadInv(r)
      BY <3>2 DEF ThreadInv
    <3>4. Synced(t, k) /\ (r.sysgood <=> t.mode = "SYSCALL")
      BY <1>1, <1>9, <3>2
    <3>5. ~SyscallStopPending(k) /\ ~SyscallStopPending(r)
      BY <3>2 DEF SyscallStopPending
    <3>6. /\ "SYSCALL_ENTERED" \in x.flags => r.sysgood /\ r.insys /\ x.cur # "none"
          /\ r.sysgood /\ r.insys => "SYSCALL_ENTERED" \in x.flags
      BY <1>3, <3>2, <3>4, <3>5 DEF Synced
    <3>7. Synced(x, r)
      BY <1>3, <3>2, <3>4, <3>5, <3>6 DEF Synced
    <3> QED BY <3>3, <3>7 DEF r
  <2> QED BY <2>1, <2>2
<1> QED
  BY <1>2, <1>5, <1>7, <1>8, <1>9

\* A thread that has not been killed and waits in a safe frame is in step.
LEMMA SafeInStop ==
  ASSUME NEW f, NEW k0, Safe(f, k0), InStop(f.k)
  PROVE  f.k.at # "EV_EXIT" => f.k = k0 /\ ~f.k.status /\ Synced(f.t, f.k)
<1>1. f.k.at # "EV_EXIT" => Live(f.k)
  BY DEF Safe, ThreadInv, InStop, Live
<1> QED
  BY <1>1 DEF Safe

\* The signal that is injected is the one the thread stopped for.
LEMMA SignalOfStop == ASSUME NEW e, SignalOf(e) = "STOP" PROVE e = "SIG_STOP"
BY DEF SignalOf

\* The end of processEvent(): the tracee is restarted, let go, or was killed.
LEMMA RestartTraceeSettled ==
  ASSUME NEW f, NEW k0, Safe(f, k0), NEW in \in InputRecords, in.ev = k0.at
  PROVE  Settled(RestartTracee(f, in))
<1> DEFINE q == KillAt(f, in, "late")
           r == Restart(f, in)
           s == ToState(r, "RUNNING")
           nodetach == [in EXCEPT !.detach = FALSE]
           n == Notify(s, nodetach, "resumed", "none", "none")
<1>1. f \in Frames /\ f.t \in Tracees /\ f.k \in Thread /\ f.v \in Views /\ ThreadInv(f.k)
  BY FrameUpdate DEF Safe
<1>2. Settled(f)
  BY SafeSettled
<1>3. RestartTracee(f, in) = IF f.ex # "none" \/ f.t.state \in {"DEAD", "DETACHED"} THEN f
        ELSE IF r.ex # "none" \/ r.t.mode = "LISTEN" THEN r
        ELSE IF r.t.state = "GROUP_STOP" THEN n ELSE s
  BY DEF RestartTracee
<1>4. r = IF ~Reachable(q) THEN Throw(q, "ESRCH")
          ELSE IF q.t.mode # "LISTEN"
               THEN [q EXCEPT !.k = Resume(q.k, q.t.mode, SignalOf(in.ev), in.deadly)]
          ELSE IF ListenRefused(q.k) THEN Throw([q EXCEPT !.v.refused = TRUE], "EIO")
          ELSE [q EXCEPT !.k = Listen(q.k)]
  BY DEF Restart
<1>5. Safe(q, k0)
  BY KillAtSafe
<1> HIDE DEF r, s, n
<1>6. CASE ~Reachable(q)
  <2>1. r = Throw(q, "ESRCH")
    BY <1>4, <1>6
  <2>2. Safe(r, k0) /\ r.ex = "ESRCH"
    BY <1>5, <2>1, ThrowSafe
  <2>3. Settled(r)
    BY <2>2, SafeSettled
  <2> QED BY <1>2, <1>3, <2>2, <2>3
<1>7. CASE Reachable(q)
  <2>1. q = f
    BY <1>1, <1>7, KillAtReachable
  <2> HIDE DEF q
  <2>2. InStop(f.k) /\ f.t.valid
    BY <1>7, <2>1 DEF Reachable
  <2>3. f.k.at # "EV_EXIT" => f.k = k0 /\ ~f.k.status /\ Synced(f.t, f.k)
    BY <2>2, SafeInStop
  <2>4. CASE f.t.mode # "LISTEN"
    <3> DEFINE p == Resume(f.k, f.t.mode, SignalOf(in.ev), in.deadly)
    <3>1. p \in Thread
      BY <1>1, ResumeType
    <3>2. r = [f EXCEPT !.k = p]
      BY <1>4, <1>7, <2>1, <2>4
    <3> HIDE DEF p
    <3>3. r \in Frames /\ r.k = p /\ r.t = f.t /\ r.ex = f.ex
      BY <1>1, <3>1, <3>2 DEF Frames
    <3>4. "RUNNING" \in States
      BY DEF States
    <3>5. /\ s \in Frames /\ s.k = p /\ s.t.cur = f.t.cur /\ s.t.valid = f.t.valid /\ s.t.state = "RUNNING"
          /\ s.t.flags = ChangedFlags(f.t, "RUNNING") /\ s.t.mode = f.t.mode /\ s.t.blocked = f.t.blocked
      BY <3>3, <3>4, ToStateFields DEF s
    <3>6. "SYSCALL_ENTERED" \in s.t.flags <=> "SYSCALL_ENTERED" \in f.t.flags
      BY <3>5 DEF ChangedFlags
    <3>7. s.t \in Tracees /\ s.v \in Views
      BY <3>5, FrameUpdate
    <3>8. SignalOf(in.ev) = "STOP" => f.k.at = "SIG_STOP" \/ f.k.at = "EV_EXIT"
      BY <2>3, SignalOfStop
    <3>9. ThreadInv(p) /\ (Live(p) => Synced(s.t, p))
      <4>1. CASE f.k.at = "EV_EXIT"
        <5>1. p.run = "zombie" /\ p.at = "ENDED"
          BY <1>1, <4>1 DEF p, Resume, Thread
        <5> QED BY <5>1 DEF ThreadInv, Live
      <4>2. CASE f.k.at # "EV_EXIT"
        <5>1. SignalOf(in.ev) = "STOP" => f.k.at = "SIG_STOP"
          BY <3>8, <4>2
        <5> QED
          BY <1>1, <2>2, <2>3, <2>4, <3>5, <3>6, <3>7, <4>2, <5>1, ResumeSynced DEF p
      <4> QED BY <4>1, <4>2
    <3>10. Settled(s)
      BY <3>5, <3>9 DEF Settled
    <3>11. Settled(n)
      <4> DEFINE v == Told(s.v, "resumed", "none", "none")
      <4>1. nodetach.detach = FALSE
        BY DEF InputRecords
      <4>2. n = [s EXCEPT !.v = v]
        BY <4>1 DEF n, Notify
      <4>3. v \in Views
        BY <3>7, ToldType DEF MaybeCall
      <4> HIDE DEF v
      <4>4. n \in Frames /\ n.t = s.t /\ n.k = s.k
        BY <3>5, <4>2, <4>3 DEF Frames
      <4> QED BY <3>10, <4>4 DEF Settled
    <3>12. f.ex = "none" => r.ex = "none"
      BY <3>3
    <3> QED BY <1>2, <1>3, <2>4, <3>3, <3>10, <3>11, <3>12
  <2>5. CASE f.t.mode = "LISTEN" /\ ListenRefused(f.k)
    <3> DEFINE w == [f EXCEPT !.v.refused = TRUE]
               v == [f.v EXCEPT !.refused = TRUE]
    <3>1. r = Throw(w, "EIO")
      BY <1>4, <1>7, <2>1, <2>5
    <3>2. v \in Views
      BY <1>1 DEF Views
    <3>3. w = [f EXCEPT !.v = v]
      OBVIOUS
    <3> HIDE DEF v
    <3>4. w \in Frames /\ w.t = f.t /\ w.k = f.k
      BY <1>1, <3>2, <3>3 DEF Frames
    <3> HIDE DEF w
    <3>5. Safe(w, k0)
      BY <3>4 DEF Safe
    <3>6. Settled(r) /\ r.ex = "EIO"
      BY <3>1, <3>5, ThrowSafe, SafeSettled
    <3> QED BY <1>2, <1>3, <3>6
  <2>6. CASE f.t.mode = "LISTEN" /\ ~ListenRefused(f.k)
    <3> DEFINE p == Listen(f.k)
    <3>1. p \in Thread
      BY <1>1, ListenType
    <3>2. r = [f EXCEPT !.k = p]
      BY <1>4, <1>7, <2>1, <2>6
    <3>3. f.k.at \in {"EV_STOP_SIG", "EV_STOP_TRAP"} /\ ~f.k.insys
      BY <1>1, <2>2, <2>6 DEF ListenRefused, ThreadInv, InStop
    <3>4. /\ ThreadInv(p) /\ p.insys = f.k.insys /\ p.sysgood = f.k.sysgood
          /\ p.run = "listen" \/ (p.run = "stop" /\ p.at \in {"EV_STOP_SIG", "EV_STOP_TRAP"})
      <4>1. CASE f.k.notify
        BY <1>1, <3>3, <4>1, TakeTrapSynced DEF Listen
      <4>2. CASE ~f.k.notify
        BY <1>1, <3>3, <4>2 DEF Listen, Thread, ThreadInv
      <4> QED BY <4>1, <4>2
    <3> HIDE DEF p
    <3>5. r \in Frames /\ r.k = p /\ r.t = f.t
      BY <1>1, <3>1, <3>2 DEF Frames
    <3>6. Synced(f.t, f.k) /\ ~f.k.status
      BY <2>3, <3>3
    <3>7. Synced(f.t, p)
      BY <2>6, <3>3, <3>4, <3>6 DEF Synced, SyscallStopPending, SyscallStops
    <3>8. Settled(r)
      BY <3>4, <3>5, <3>7 DEF Settled
    <3> QED BY <1>2, <1>3, <2>6, <3>5, <3>8
  <2> QED BY <2>4, <2>5, <2>6
<1> QED
  BY <1>6, <1>7

\* An event that wait() has just returned, for an object in step with its thread:
\* k is the thread before its status was collected.
LEMMA ProcessEventSettled ==
  ASSUME NEW f \in Frames, NEW k \in Thread, f.k = Collect(k), f.ex = "none", k.status, ThreadInv(k),
         Live(k) => Synced(f.t, k), NEW in \in InputRecords, in.ev = k.at
  PROVE  Settled(ProcessEvent(f, in))
<1> DEFINE k0 == Collect(k)
<1>1. f.t \in Tracees /\ k0 \in Thread
  BY FrameUpdate, CollectType
<1>2. /\ ThreadInv(k0) /\ ~k0.status /\ k0.insys = k.insys /\ k0.sysgood = k.sysgood
      /\ k.run = "zombie" => ~Live(k0)
      /\ k.run # "zombie" => k0.run = k.run /\ k0.at = k.at /\ k0.traced = k.traced
  BY DEF Collect, Thread, ThreadInv, Live
<1>3. k.run = "stop" \/ k.run = "zombie"
  BY DEF ThreadInv
<1> HIDE DEF k0
<1>4. Live(k0) => Live(k) /\ k.run = "stop"
  BY <1>2, <1>3 DEF Live
<1>5. CASE k.at \in {"ENDED", "STOPPED"}
  <2>1. ~Live(k0)
    BY <1>2, <1>3, <1>5 DEF Live, PtraceStops, SyscallStops, SignalStops, EventStops
  <2>2. f.k = k0 /\ "DEAD" \in States /\ "SIGNAL_DELIVERY_STOP" \in States /\ "none" \in MaybeCall
    BY DEF k0, States, MaybeCall
  <2> DEFINE d == ToState(f, "DEAD")
             s == ToState(f, "SIGNAL_DELIVERY_STOP")
             n == Notify(d, in, "disappeared", "none", "none")
  <2>3. d \in Frames /\ d.k = k0 /\ d.t.state = "DEAD" /\ s \in Frames /\ s.k = k0
    BY <2>2, ToStateFields
  <2>4. ProcessEvent(f, in) \in {d, n, Throw(s, "ESRCH")}
    BY <1>5 DEF ProcessEvent, ProcessEnd
  <2> HIDE DEF d, s
  <2>5. Safe(d, k0) /\ Safe(s, k0)
    BY <1>2, <2>1, <2>3 DEF Safe
  <2>6. Safe(n, k0) /\ Safe(Throw(s, "ESRCH"), k0)
    BY <2>2, <2>3, <2>5, NotifySafe, ThrowSafe
  <2> HIDE DEF n
  <2> QED BY <2>4, <2>5, <2>6, SafeSettled
<1>6. CASE k.at \notin {"ENDED", "STOPPED"}
  <2>1. k.run = "stop" /\ k0.at = k.at /\ k0.run = "stop" /\ f.k = k0
    BY <1>2, <1>3, <1>6 DEF ThreadInv, k0
  <2>2. ProcessEvent(f, in) = HandleTrap(f, in)
    BY <1>6 DEF ProcessEvent
  <2>3. CASE "DETACH_AT_NEXT_STOP" \in f.t.flags
    <3> DEFINE g == KillAt(f, in, "request")
    <3>1. g \in Frames /\ ThreadInv(g.k) /\ g.t = f.t /\ (g.k = k0 \/ ~Live(g.k))
      <4> DEFINE h == [f EXCEPT !.k = Kill(k0)]
      <4>1. h \in Frames /\ h.k = Kill(k0) /\ h.t = f.t
        BY <1>1, KillType DEF Frames
      <4>2. ~Live(h.k) /\ ThreadInv(h.k)
        BY <1>1, <1>2, <4>1, KillNotLive
      <4>3. g = h \/ g = f
        BY <2>1 DEF KillAt
      <4> HIDE DEF h, g
      <4> QED BY <1>2, <2>1, <4>1, <4>2, <4>3
    <3> HIDE DEF g
    <3>2. Live(g.k) /\ ~Reachable(g) => g.k = k0 /\ k0.run = "stop" /\ ~k0.status /\ Synced(g.t, k0)
      <4> SUFFICES ASSUME Live(g.k), ~Reachable(g) PROVE Synced(g.t, k0)
        BY <1>2, <2>1, <3>1
      <4>1. g.k = k0 /\ Synced(f.t, k)
        BY <1>4, <3>1
      <4>2. ~f.t.valid
        BY <2>1, <3>1, <4>1 DEF Reachable, InStop, Live, PtraceStops, SyscallStops, SignalStops, EventStops
      <4>3. k.at \in {"EV_STOP_SIG", "EV_STOP_TRAP"}
        BY <2>1, <4>1, <4>2 DEF Synced
      <4> QED BY <1>2, <2>1, <3>1, <4>1, <4>3 DEF Synced, SyscallStopPending, SyscallStops
    <3>3. Safe(DoDetach(g), k0)
      BY <3>1, <3>2, DoDetachSafe
    <3>4. HandleTrap(f, in) = DoDetach(g)
      BY <2>3 DEF HandleTrap, g
    <3> QED BY <2>2, <3>3, <3>4, SafeSettled
  <2>4. CASE "DETACH_AT_NEXT_STOP" \notin f.t.flags
    <3> DEFINE h == CASE in.ev \in SyscallStops -> HandleSystemCall(f, in)
                      [] in.ev \in EventStops -> HandleEvent(f, in)
                      [] OTHER -> HandleSignal(f, in)
    <3>1. HandleTrap(f, in) = RestartTracee(h, in)
      BY <2>4 DEF HandleTrap
    <3>2. CASE k.at \in SyscallStops
      <4>1. Live(k0) => /\ k0.run = "stop" /\ k0.sysgood /\ (k0.insys <=> k0.at = "SYS_ENTRY")
                        /\ "SYSCALL_ENTERED" \in f.t.flags <=> ~k0.insys
                        /\ f.t.mode # "CONT" /\ f.t.valid /\ ~f.t.blocked
        <5> SUFFICES ASSUME Live(k0)
                     PROVE  /\ k0.run = "stop" /\ k0.sysgood /\ (k0.insys <=> k0.at = "SYS_ENTRY")
                            /\ "SYSCALL_ENTERED" \in f.t.flags <=> ~k0.insys
                            /\ f.t.mode # "CONT" /\ f.t.valid /\ ~f.t.blocked
          OBVIOUS
        <5>1. Synced(f.t, k) /\ SyscallStopPending(k)
          BY <1>4, <2>1, <3>2 DEF SyscallStopPending
        <5> QED BY <1>2, <2>1, <3>2, <5>1 DEF Synced, SyscallStops
      <4>2. Safe(HandleSystemCall(f, in), k0)
        BY <1>2, <2>1, <3>2, <4>1, HandleSystemCallSafe
      <4>3. h = HandleSystemCall(f, in)
        BY <3>2 DEF SyscallStops, EventStops
      <4> HIDE DEF h
      <4> QED BY <2>1, <2>2, <3>1, <4>2, <4>3, RestartTraceeSettled
    <3>3. CASE k.at \notin SyscallStops
      <4>1. Live(k0) => Synced(f.t, k0)
        <5> SUFFICES ASSUME Live(k0) PROVE Synced(f.t, k0)
          OBVIOUS
        <5>1. Synced(f.t, k) /\ ~SyscallStopPending(k) /\ ~SyscallStopPending(k0)
          BY <1>2, <1>4, <2>1, <3>3 DEF SyscallStopPending
        <5> QED BY <1>2, <2>1, <5>1 DEF Synced
      <4>2. Safe(f, k0)
        BY <1>2, <2>1, <4>1 DEF Safe
      <4>3. Safe(HandleEvent(f, in), k0) /\ Safe(HandleSignal(f, in), k0)
        BY <2>1, <4>2, HandleEventSafe, HandleSignalSafe
      <4>4. h = HandleEvent(f, in) \/ h = HandleSignal(f, in)
        BY <3>3
      <4> HIDE DEF h
      <4> QED BY <2>1, <2>2, <3>1, <4>3, <4>4, RestartTraceeSettled
    <3> QED BY <3>2, <3>3
  <2> QED BY <2>3, <2>4
<1> QED
  BY <1>5, <1>6

\* doDetach() of a DEAD object, which is removed then.
LEMMA DoDetachThread ==
  ASSUME NEW f \in Frames, ThreadInv(f.k) PROVE DoDetach(f) \in Frames /\ ThreadInv(DoDetach(f).k)
<1>1. f.k \in Thread /\ f.t \in Tracees /\ f.v \in Views
  BY FrameUpdate
<1>2. CASE ~Live(f.k) \/ Reachable(f)
  <2>1. Safe(DoDetach(f), f.k)
    BY <1>2, DoDetachSafe
  <2> QED BY <2>1 DEF Safe
<1>3. CASE ~Reachable(f)
  <2> DEFINE r == f.v.refused \/ (f.t.valid /\ f.k.run = "listen")
             h == [f EXCEPT !.v = [f.v EXCEPT !.refused = r]]
             d == ToState(h, "DEAD")
  <2>1. h \in Frames /\ h.k = f.k
    <3>1. r \in BOOLEAN
      BY <1>1 DEF Views, Tracees
    <3> HIDE DEF r
    <3>2. [f.v EXCEPT !.refused = r] \in Views
      BY <1>1, <3>1 DEF Views
    <3> QED BY <3>2 DEF Frames
  <2>2. DoDetach(f) = [d EXCEPT !.t.valid = FALSE, !.t.flags = {}]
    BY <1>3 DEF DoDetach, DetachFailed
  <2> HIDE DEF h
  <2>3. d \in Frames /\ d.k = h.k
    BY <2>1, ToStateFields DEF States
  <2> HIDE DEF d
  <2>4. DoDetach(f).k = d.k
    BY <2>2, <2>3 DEF Frames
  <2> QED BY <2>1, <2>3, <2>4, DoDetachType
<1> QED
  BY <1>2, <1>3

\* detach() from outside of a callback, the tracee being in any state.
LEMMA DetachTraceeSettled ==
  ASSUME NEW f, Settled(f) PROVE Settled(DetachTracee(f))
<1> DEFINE v == [f.v EXCEPT !.asked = TRUE]
           a == [f EXCEPT !.v = v]
           x == [a.t EXCEPT !.flags = a.t.flags \cup {"DETACH_AT_NEXT_STOP"}]
           w == [a EXCEPT !.t = x]
           i == [w EXCEPT !.k = Interrupt(w.k)]
           d == ToState(w, "DEAD")
<1>1. f \in Frames /\ f.t \in Tracees /\ f.k \in Thread /\ f.v \in Views /\ ThreadInv(f.k)
  BY FrameUpdate DEF Settled
<1>2. v \in Views
  BY <1>1 DEF Views
<1>3. DetachTracee(f) = IF ~a.t.valid \/ a.t.state \in {"DEAD", "DETACHED"} THEN a
        ELSE IF a.t.state \notin {"RUNNING", "UNKNOWN"} THEN DoDetach(a)
        ELSE IF "WAIT_FOR_ATTACH_STOP" \in w.t.flags THEN w
        ELSE IF w.k.run = "gone" THEN d ELSE i
  BY DEF DetachTracee
<1> HIDE DEF v
<1>4. a \in Frames /\ a.t = f.t /\ a.k = f.k
  BY <1>1, <1>2 DEF Frames
<1> HIDE DEF a
<1>5. Settled(a)
  BY <1>4 DEF Settled
<1>6. ASSUME a.t.valid, a.t.state \notin {"RUNNING", "UNKNOWN"} PROVE Settled(DoDetach(a))
  <2>1. CASE ~Live(a.k) \/ Reachable(a)
    <3>1. Safe(DoDetach(a), a.k)
      BY <1>1, <1>4, <2>1, DoDetachSafe
    <3> QED BY <3>1, SafeSettled
  <2>2. CASE Live(a.k) /\ ~Reachable(a)
    <3>1. Synced(a.t, a.k)
      BY <1>5, <2>2 DEF Settled
    <3>2. a.k.run = "listen"
      BY <1>6, <2>2, <3>1 DEF Live, Reachable, InStop, Synced, PtraceStops, SyscallStops, SignalStops, EventStops
    <3>3. ~a.k.insys /\ ~SyscallStopPending(a.k)
      BY <1>1, <1>4, <3>2 DEF ThreadInv, SyscallStopPending
    <3> DEFINE e == DoDetach(a)
    <3>4. e \in Frames /\ ThreadInv(e.k)
      BY <1>1, <1>4, DoDetachThread
    <3>5. e.k = a.k /\ e.t.flags = {} /\ e.t.valid = FALSE /\ e.t.mode = a.t.mode
      <4> DEFINE r == a.v.refused \/ (a.t.valid /\ a.k.run = "listen")
                 u == [a.v EXCEPT !.refused = r]
                 h == [a EXCEPT !.v = u]
                 c == ToState(h, "DEAD")
      <4>1. a.v \in Views /\ a.t \in Tracees
        BY <1>4, FrameUpdate
      <4>2. r \in BOOLEAN
        BY <4>1 DEF Views, Tracees
      <4>3. e = [c EXCEPT !.t.valid = FALSE, !.t.flags = {}]
        BY <2>2 DEF DoDetach, DetachFailed
      <4> HIDE DEF r
      <4>4. u \in Views
        BY <4>1, <4>2 DEF Views
      <4> HIDE DEF u
      <4>5. h \in Frames /\ h.k = a.k /\ h.t = a.t
        BY <1>4, <4>4 DEF Frames
      <4> HIDE DEF h
      <4>6. c \in Frames /\ c.k = a.k /\ c.t.mode = a.t.mode
        BY <4>5, ToStateFields DEF States
      <4> HIDE DEF c, e
      <4>7. c.t \in Tracees
        BY <4>6, FrameUpdate
      <4>8. e.t = [c.t EXCEPT !.valid = FALSE, !.flags = {}] /\ e.k = c.k
        BY <4>3, <4>6, <4>7 DEF Frames, Tracees
      <4> QED BY <4>6, <4>7, <4>8 DEF Tracees
    <3> HIDE DEF e
    <3>6. ~e.t.valid
      BY <3>5
    <3>7. Synced(e.t, e.k)
      BY <3>1, <3>2, <3>3, <3>5, <3>6 DEF Synced, SyscallStopPending
    <3> QED BY <3>4, <3>7 DEF Settled, e
  <2> QED BY <2>1, <2>2
<1>7. x \in Tracees /\ x.mode = a.t.mode /\ x.cur = a.t.cur /\ x.valid = a.t.valid /\ x.state = a.t.state
      /\ x.blocked = a.t.blocked /\ ("SYSCALL_ENTERED" \in x.flags <=> "SYSCALL_ENTERED" \in a.t.flags)
  <2> DEFINE s == a.t.flags \cup {"DETACH_AT_NEXT_STOP"}
  <2>1. s \in SUBSET Flags /\ ("SYSCALL_ENTERED" \in s <=> "SYSCALL_ENTERED" \in a.t.flags)
    BY <1>1, <1>4 DEF Tracees, Flags
  <2> HIDE DEF s
  <2> SUFFICES x = [a.t EXCEPT !.flags = s] => x \in Tracees /\ x.flags = s /\ x.mode = a.t.mode /\ x.cur = a.t.cur
                  /\ x.valid = a.t.valid /\ x.state = a.t.state /\ x.blocked = a.t.blocked
    BY <2>1 DEF s
  <2> QED BY <1>1, <1>4, <2>1 DEF Tracees
<1> HIDE DEF x
<1>8. w \in Frames /\ w.t = x /\ w.k = a.k
  BY <1>4, <1>7 DEF Frames
<1> HIDE DEF w
<1>9. Live(a.k) => Synced(x, a.k)
  BY <1>5, <1>7 DEF Settled, Synced
<1>10. Settled(w)
  BY <1>5, <1>8, <1>9 DEF Settled
<1>11. Settled(i)
  <2> DEFINE p == Interrupt(w.k)
  <2>1. w.k \in Thread /\ p \in Thread
    BY <1>8, FrameUpdate, InterruptType
  <2>2. i \in Frames /\ i.k = p /\ i.t = x
    BY <1>8, <2>1 DEF Frames
  <2>3. ThreadInv(w.k) /\ (Live(w.k) => Synced(x, w.k))
    BY <1>8, <1>10 DEF Settled
  <2>4. CASE w.k.run = "listen"
    <3>1. p = TakeTrap(w.k) /\ ~w.k.insys
      BY <2>3, <2>4 DEF Interrupt, ThreadInv
    <3>2. /\ ThreadInv(p) /\ p.run = "stop" /\ p.at \in {"EV_STOP_SIG", "EV_STOP_TRAP"} /\ p.insys = w.k.insys
          /\ p.sysgood = w.k.sysgood /\ p.traced = w.k.traced
      <4>1. p.traced = w.k.traced
        BY <2>1, <3>1 DEF TakeTrap, StopAt, Thread
      <4> QED BY <2>1, <3>1, <4>1, TakeTrapSynced
    <3> HIDE DEF p
    <3>3. Live(p) => Synced(x, w.k)
      BY <2>3, <2>4, <3>2 DEF Live
    <3>4. ~SyscallStopPending(p) /\ ~SyscallStopPending(w.k)
      BY <2>4, <3>2 DEF SyscallStopPending, SyscallStops
    <3>5. Live(p) => Synced(x, p)
      BY <2>4, <3>2, <3>3, <3>4 DEF Synced
    <3> QED BY <2>2, <3>2, <3>5 DEF Settled
  <2>5. CASE w.k.run # "listen"
    <3>1. p = [w.k EXCEPT !.trap = TRUE]
      BY <2>5 DEF Interrupt
    <3>2. /\ p.run = w.k.run /\ p.at = w.k.at /\ p.status = w.k.status /\ p.insys = w.k.insys
          /\ p.sysgood = w.k.sysgood /\ p.traced = w.k.traced
      BY <2>1, <3>1 DEF Thread
    <3> HIDE DEF p
    <3>3. ThreadInv(p) /\ (Live(p) => Synced(x, p))
      BY <2>3, <3>2 DEF ThreadInv, Live, Synced, SyscallStopPending
    <3> QED BY <2>2, <3>3 DEF Settled
  <2> QED BY <2>4, <2>5
<1>12. ASSUME w.k.run = "gone" PROVE Settled(d)
  <2>1. d \in Frames /\ d.k = w.k
    BY <1>8, ToStateFields DEF States
  <2> HIDE DEF d
  <2>2. ThreadInv(d.k) /\ ~Live(d.k)
    BY <1>10, <1>12, <2>1 DEF Settled, Live
  <2> QED BY <2>1, <2>2 DEF Settled
<1> HIDE DEF i, d
<1> QED
  BY <1>3, <1>5, <1>6, <1>10, <1>11, <1>12

\* attach(): the object of a thread that was not traced is in step with it, or the
\* thread could not be seized.
LEMMA AttachSettled ==
  ASSUME NEW f \in Frames, f.ex = "none", ThreadInv(f.k), ~f.k.traced, ~f.k.sysgood,
         f.k.run = "stop" => ~f.k.insys, f.t.flags \subseteq {"INJECTED_SIGSTOP"},
         f.t.mode = "CONT", f.t.valid, ~f.t.blocked, f.t.state = "UNKNOWN"
  PROVE  LET g == Attach(f)
         IN  g \in Frames /\ (IF g.ex = "none" THEN Settled(g) ELSE g.k = f.k)
<1>1. f.t \in Tracees /\ f.k \in Thread
  BY FrameUpdate
<1>2. CASE f.k.run \in {"run", "stop"}
  <2> DEFINE s == Seize(f.k)
             p == Interrupt(s)
             c == Send(p, "CONT")
             w == f.t.flags \cup {"WAIT_FOR_ATTACH_STOP"}
             x == [f.t EXCEPT !.flags = w]
             y == [f.t EXCEPT !.flags = w \cup {"INJECTED_SIGCONT"}]
             i == [f EXCEPT !.k = p, !.t = x]
             j == [f EXCEPT !.k = c, !.t = y]
  <2>1. s \in Thread /\ p \in Thread /\ c \in Thread
    BY <1>1, SeizeType, InterruptType, SendType DEF Signals
  <2>2. /\ s.traced /\ s.run = f.k.run /\ ~s.sysgood /\ (s.run = "stop" => ~s.insys) /\ ThreadInv(s)
        /\ s.run = "stop" => s.at \in {"EV_STOP_SIG", "EV_STOP_TRAP"}
    <3> DEFINE q == [f.k EXCEPT !.traced = TRUE, !.sysgood = FALSE]
    <3>1. /\ q \in Thread /\ q.traced /\ ~q.sysgood /\ q.run = f.k.run /\ q.at = f.k.at
          /\ q.status = f.k.status /\ q.insys = f.k.insys
      BY <1>1 DEF Thread
    <3>2. s = IF q.run = "stop" THEN TakeTrap(q) ELSE q
      BY DEF Seize
    <3> HIDE DEF q, s
    <3>3. CASE q.run = "stop"
      <4>1. TakeTrap(q).traced = q.traced
        BY <3>1 DEF TakeTrap, StopAt, Thread
      <4>2. ~q.insys
        BY <3>1, <3>3
      <4> QED BY <3>1, <3>2, <3>3, <4>1, <4>2, TakeTrapSynced
    <3>4. CASE q.run # "stop"
      BY <3>1, <3>2, <3>4 DEF ThreadInv
    <3> QED BY <3>3, <3>4
  <2>3. /\ p.traced = s.traced /\ p.run = s.run /\ p.sysgood = s.sysgood /\ p.insys = s.insys
        /\ p.at = s.at /\ p.status = s.status
    <3>1. p = [s EXCEPT !.trap = TRUE]
      BY <1>2, <2>2 DEF Interrupt
    <3> HIDE DEF s, p
    <3> QED BY <2>1, <3>1 DEF Thread
  <2>4. /\ c.traced = p.traced /\ c.run = p.run /\ c.sysgood = p.sysgood /\ c.insys = p.insys
        /\ c.at = p.at /\ c.status = p.status
    <3>1. "CONT" \in Signals
      BY DEF Signals
    <3>2. p.traced /\ p.run # "listen"
      BY <1>2, <2>2, <2>3
    <3> HIDE DEF p, s
    <3>3. /\ c.traced = p.traced /\ c.sysgood = p.sysgood /\ c.insys = p.insys
          /\ \/ c.run = p.run /\ c.at = p.at /\ c.status = p.status
             \/ ~p.traced /\ p.run = "stop" /\ c.run = "run" /\ c.at = "none" /\ c.status = FALSE
             \/ p.traced /\ p.run = "listen" /\ c.run = "stop" /\ c.at \in {"EV_STOP_SIG", "EV_STOP_TRAP"}
      BY Zenon, <2>1, <3>1, SendFields
    <3> HIDE DEF c
    <3> QED BY <3>2, <3>3
  <2> HIDE DEF s, p, c
  <2>5. /\ w \in SUBSET Flags /\ "SYSCALL_ENTERED" \notin w
        /\ w \cup {"INJECTED_SIGCONT"} \in SUBSET Flags
        /\ "SYSCALL_ENTERED" \notin w \cup {"INJECTED_SIGCONT"}
    BY DEF Flags
  <2>6. Attach(f) = i \/ Attach(f) = j
    <3> DEFINE h == [f EXCEPT !.k = s]
    <3>1. h \in Frames /\ h.t = f.t /\ h.k = s /\ h.v = f.v /\ h.ex = f.ex
      BY <2>1 DEF Frames
    <3>2. Attach(f) = Attached(h)
      BY <1>2 DEF Attach, s
    <3> DEFINE u == [h EXCEPT !.k = Interrupt(h.k), !.t.flags = h.t.flags \cup {"WAIT_FOR_ATTACH_STOP"}]
               o == [u EXCEPT !.k = Send(u.k, "CONT"), !.t.flags = u.t.flags \cup {"INJECTED_SIGCONT"}]
    <3>3. Attached(h) = u \/ Attached(h) = o
      <4> HIDE DEF h
      <4> QED BY DEF Attached
    <3> HIDE DEF h
    <3>4. u = i
      <4>1. u = [h EXCEPT !.k = p, !.t.flags = w]
        BY <3>1 DEF p
      <4> HIDE DEF w, u
      <4> QED BY <1>1, <3>1, <4>1 DEF Frames, Tracees
    <3>5. i.k = p /\ i.t.flags = w /\ i.t = x
      <4> HIDE DEF w
      <4> QED BY <1>1 DEF Frames, Tracees
    <3> HIDE DEF i
    <3>6. o = [i EXCEPT !.k = c, !.t.flags = w \cup {"INJECTED_SIGCONT"}]
      <4> HIDE DEF u
      <4> QED BY <3>4, <3>5 DEF c
    <3>7. o = j
      <4> DEFINE ww == w \cup {"INJECTED_SIGCONT"}
      <4> HIDE DEF ww, w, o
      <4>1. o = [i EXCEPT !.k = c, !.t.flags = ww]
        BY <3>6 DEF ww
      <4>2. j = [f EXCEPT !.k = c, !.t = [f.t EXCEPT !.flags = ww]]
        BY DEF ww
      <4> HIDE DEF j
      <4> QED BY <1>1, <4>1, <4>2 DEF Frames, Tracees, i
    <3> QED BY <3>2, <3>3, <3>4, <3>7
  <2> HIDE DEF w
  <2>7. /\ x \in Tracees /\ "SYSCALL_ENTERED" \notin x.flags /\ x.mode = "CONT" /\ x.valid
        /\ ~x.blocked /\ x.state = "UNKNOWN"
    BY <1>1, <2>5 DEF Tracees
  <2>8. /\ y \in Tracees /\ "SYSCALL_ENTERED" \notin y.flags /\ y.mode = "CONT" /\ y.valid
        /\ ~y.blocked /\ y.state = "UNKNOWN"
    BY <1>1, <2>5 DEF Tracees
  <2> HIDE DEF x, y
  <2>9. i \in Frames /\ i.k = p /\ i.t = x /\ i.ex = "none" /\ j \in Frames /\ j.k = c /\ j.t = y /\ j.ex = "none"
    BY <2>1, <2>7, <2>8 DEF Frames
  <2> HIDE DEF i, j
  <2>10. ThreadInv(p) /\ ThreadInv(c) /\ Synced(x, p) /\ Synced(y, c)
    <3>1. ThreadInv(p) /\ ThreadInv(c)
      BY <2>2, <2>3, <2>4 DEF ThreadInv
    <3>2. ~SyscallStopPending(p) /\ ~SyscallStopPending(c)
      BY <2>2, <2>3, <2>4 DEF SyscallStopPending, SyscallStops
    <3> QED BY <2>2, <2>3, <2>4, <2>7, <2>8, <3>1, <3>2 DEF Synced
  <2> QED BY <2>6, <2>9, <2>10 DEF Settled
<1>3. CASE f.k.run \notin {"run", "stop"}
  <2> DEFINE d == ToState(f, "DEAD")
             b == IF f.t.child THEN f ELSE d
  <2>1. d \in Frames /\ d.k = f.k
    BY ToStateFields DEF States
  <2>2. Attach(f) = Throw(b, "ESRCH")
    BY <1>3 DEF Attach
  <2> HIDE DEF d
  <2>3. b \in Frames /\ b.k = f.k
    BY <2>1
  <2> HIDE DEF b
  <2>4. Throw(b, "ESRCH") \in Frames /\ Throw(b, "ESRCH").k = b.k /\ Throw(b, "ESRCH").ex = "ESRCH"
    BY <2>3 DEF Throw, Frames
  <2> QED BY <2>2, <2>3, <2>4
<1> QED
  BY <1>2, <1>3

(* The thread's own steps *)

\* A step from thread a to thread b that keeps every object in step that was.
KeepsInStep(a, b) ==
    /\ b \in Thread /\ ThreadInv(b)
    /\ b.traced = a.traced
    /\ ~a.traced /\ ~a.sysgood /\ (a.run = "stop" => ~a.insys)
          => ~b.sysgood /\ (b.run = "stop" => ~b.insys)
    /\ \A x \in Tracees : (Live(a) => Synced(x, a)) => (Live(b) => Synced(x, b))

\* The entry to a system call keeps the object in step.
LEMMA EnterCallKeeps ==
  ASSUME NEW a \in Thread, ThreadInv(a), CanEnterCall(a), NEW c \in Calls PROVE KeepsInStep(a, EnterCall(a, c))
<1> DEFINE b == EnterCall(a, c)
<1>1. b \in Thread
  BY EnterCallType
<1>2. /\ b.traced = a.traced /\ b.sysgood = a.sysgood /\ b.insys
      /\ IF a.traced /\ a.sysgood THEN b.run = "stop" /\ b.at = "SYS_ENTRY" /\ b.status
         ELSE b.run = "run" /\ b.status = a.status
  BY DEF EnterCall, StopAt, Thread, CanEnterCall
<1> HIDE DEF b
<1>3. ThreadInv(b) /\ a.run = "run" /\ ~a.insys
  BY <1>2 DEF ThreadInv, CanEnterCall, PtraceStops, SyscallStops, SignalStops, EventStops
<1>4. ASSUME NEW x \in Tracees, Live(a) => Synced(x, a), Live(b) PROVE Synced(x, b)
  <2>1. Synced(x, a) /\ a.traced
    BY <1>2, <1>3, <1>4 DEF Live
  <2> QED BY <1>2, <1>3, <2>1 DEF Synced, SyscallStopPending, SyscallStops
<1> QED
  BY <1>1, <1>2, <1>3, <1>4 DEF KeepsInStep, b

\* So does the return from one.
LEMMA LeaveCallKeeps ==
  ASSUME NEW a \in Thread, ThreadInv(a), CanLeaveCall(a) PROVE KeepsInStep(a, LeaveCall(a))
<1> DEFINE b == LeaveCall(a)
<1>1. b \in Thread
  BY LeaveCallType
<1>2. /\ b.traced = a.traced /\ b.sysgood = a.sysgood /\ ~b.insys
      /\ IF a.traced /\ a.sysgood THEN b.run = "stop" /\ b.at = "SYS_EXIT" /\ b.status
         ELSE \/ b.run = "run" /\ b.at = "none" /\ ~b.status
              \/ b.run = "stop" /\ b.at \in {"EV_STOP_SIG", "EV_STOP_TRAP"}
  BY DEF LeaveCall, Leave, TakeTrap, StopAt, Thread, CanLeaveCall
<1> HIDE DEF b
<1>3. ThreadInv(b) /\ a.run = "run" /\ a.insys
  BY <1>2 DEF ThreadInv, CanLeaveCall, PtraceStops, SyscallStops, SignalStops, EventStops
<1>4. ASSUME NEW x \in Tracees, Live(a) => Synced(x, a), Live(b) PROVE Synced(x, b)
  <2>1. Synced(x, a) /\ a.traced
    BY <1>2, <1>3, <1>4 DEF Live
  <2> QED BY <1>2, <1>3, <2>1 DEF Synced, SyscallStopPending, SyscallStops
<1> QED
  BY <1>1, <1>2, <1>3, <1>4 DEF KeepsInStep, b

\* A stop other than the ones of a system call, or an exit, keeps it.
LEMMA StopKeeps ==
  ASSUME NEW a \in Thread, ThreadInv(a), NEW b \in Thread, b.traced = a.traced, b.sysgood = a.sysgood,
         b.insys = a.insys, a.traced,
         \/ /\ a.run = "run" /\ b.run = "stop" /\ b.at \in EventStops \cup SignalStops
            /\ b.at \in SignalStops \cup {"EV_STOP_SIG", "EV_STOP_TRAP"} => ~a.insys
         \/ a.run = "dying" /\ b.run = "stop" /\ b.at = "EV_EXIT"
  PROVE  KeepsInStep(a, b)
<1>1. ThreadInv(b)
  BY DEF ThreadInv, PtraceStops, SyscallStops, SignalStops, EventStops
<1>2. ASSUME NEW x \in Tracees, Live(a) => Synced(x, a), Live(b) PROVE Synced(x, b)
  <2>1. a.run = "run" /\ b.run = "stop" /\ b.at \in EventStops \cup SignalStops
    BY <1>2 DEF Live
  <2>2. Synced(x, a)
    BY <1>2, <2>1 DEF Live
  <2>3. ~SyscallStopPending(a) /\ ~SyscallStopPending(b)
    BY <2>1 DEF SyscallStopPending, SyscallStops, EventStops, SignalStops
  <2> QED BY <2>1, <2>2, <2>3 DEF Synced
<1> QED
  BY <1>1, <1>2 DEF KeepsInStep

\* An event that is reported from inside of a system call does.
LEMMA ReportKeeps ==
  ASSUME NEW a \in Thread, ThreadInv(a), NEW e \in EventStops, CanReport(a, e) PROVE KeepsInStep(a, StopAt(a, e))
<1> DEFINE b == StopAt(a, e)
<1>1. b \in Thread
  BY StopAtType DEF Statuses, PtraceStops
<1>2. /\ b.traced = a.traced /\ b.sysgood = a.sysgood /\ b.insys = a.insys
      /\ b.run = "stop" /\ b.at = e
  BY DEF StopAt, Thread
<1>3. a.run = "run" /\ a.traced /\ e \notin SignalStops \cup {"EV_STOP_SIG", "EV_STOP_TRAP"}
  BY DEF CanReport, CallEvents, SignalStops
<1> HIDE DEF b
<1>4. KeepsInStep(a, b)
  BY <1>1, <1>2, <1>3, StopKeeps
<1> QED
  BY <1>4 DEF b

\* The PTRACE_EVENT_STOP that is due does.
LEMMA TrapKeeps == ASSUME NEW a \in Thread, ThreadInv(a), CanTrap(a) PROVE KeepsInStep(a, TakeTrap(a))
<1> DEFINE b == TakeTrap(a)
<1>1. b \in Thread
  BY TakeTrapType
<1>2. /\ b.traced = a.traced /\ b.sysgood = a.sysgood /\ b.insys = a.insys
      /\ b.run = "stop" /\ b.at \in {"EV_STOP_SIG", "EV_STOP_TRAP"}
  BY DEF TakeTrap, StopAt, Thread
<1>3. a.run = "run" /\ a.traced /\ ~a.insys /\ b.at \in EventStops
  BY <1>2 DEF CanTrap, EventStops
<1> HIDE DEF b
<1>4. KeepsInStep(a, b)
  BY <1>1, <1>2, <1>3, StopKeeps
<1> QED
  BY <1>4 DEF b

\* The delivery of a signal does.
LEMMA DeliverKeeps ==
  ASSUME NEW a \in Thread, ThreadInv(a), NEW s \in Signals, CanDeliver(a, s), NEW child \in BOOLEAN
  PROVE  KeepsInStep(a, Deliver(a, s, child))
<1> DEFINE b == Deliver(a, s, child)
           d == [a EXCEPT !.pend = @ \ {s}]
<1>1. b \in Thread
  BY DeliverType
<1>2. a.run = "run" /\ ~a.insys
  BY DEF CanDeliver
<1>3. /\ d \in Thread /\ d.traced = a.traced /\ d.sysgood = a.sysgood /\ d.insys = a.insys
      /\ d.run = a.run /\ d.at = a.at /\ d.status = a.status
  <2>1. a.pend \ {s} \in SUBSET Signals
    BY DEF Thread
  <2> QED BY <2>1 DEF Thread
<1>4. b = IF a.traced THEN StopAt(d, SignalStop(s))
          ELSE IF s = "STOP" THEN [d EXCEPT !.gstop = TRUE, !.run = "stop", !.at = "STOPPED", !.status = child]
          ELSE d
  BY DEF Deliver
<1> HIDE DEF b, d
<1>5. CASE a.traced
  <2>1. /\ b.traced = a.traced /\ b.sysgood = a.sysgood /\ b.insys = a.insys
        /\ b.run = "stop" /\ b.at = SignalStop(s)
    BY <1>3, <1>4, <1>5 DEF StopAt, Thread
  <2>2. b.at \in SignalStops
    BY <2>1 DEF SignalStop, SignalStops
  <2> QED BY <1>1, <1>2, <1>5, <2>1, <2>2, StopKeeps DEF b
<1>6. CASE ~a.traced
  <2>1. /\ b.traced = a.traced /\ b.sysgood = a.sysgood /\ b.insys = a.insys
        /\ \/ b.run = "stop" /\ b.at = "STOPPED"
           \/ b.run = a.run /\ b.at = a.at /\ b.status = a.status
    BY <1>3, <1>4, <1>6 DEF Thread
  <2>2. ThreadInv(b) /\ ~Live(b)
    BY <1>2, <1>6, <2>1 DEF ThreadInv, Live, SignalStops
  <2> QED BY <1>1, <1>2, <2>1, <2>2 DEF KeepsInStep, b
<1> QED
  BY <1>5, <1>6

\* The end of the thread does: it takes part in nothing any more.
LEMMA EndKeeps ==
  ASSUME NEW a \in Thread, ThreadInv(a), NEW child \in BOOLEAN
  PROVE  /\ CanExit(a) => KeepsInStep(a, Exit(a))
         /\ a.run = "dying" /\ a.traced => KeepsInStep(a, ExitStop(a))
         /\ a.run = "dying" => KeepsInStep(a, Die(a, child))
         /\ KeepsInStep(a, Kill(a))
<1>1. Exit(a) \in Thread /\ ExitStop(a) \in Thread /\ Die(a, child) \in Thread /\ Kill(a) \in Thread
  BY EndType, KillType
<1>2. ASSUME CanExit(a) PROVE KeepsInStep(a, Exit(a))
  <2>1. /\ Exit(a).run = "dying" /\ Exit(a).traced = a.traced /\ Exit(a).sysgood = a.sysgood
        /\ Exit(a).status = a.status /\ a.run = "run"
    BY <1>2 DEF Exit, Thread, CanExit
  <2>2. ThreadInv(Exit(a)) /\ ~Live(Exit(a))
    BY <2>1 DEF ThreadInv, Live
  <2> QED BY <1>1, <2>1, <2>2 DEF KeepsInStep
<1>3. ASSUME a.run = "dying", a.traced PROVE KeepsInStep(a, ExitStop(a))
  <2>1. /\ ExitStop(a).run = "stop" /\ ExitStop(a).at = "EV_EXIT" /\ ExitStop(a).traced = a.traced
        /\ ExitStop(a).sysgood = a.sysgood /\ ExitStop(a).insys = a.insys
    BY DEF ExitStop, StopAt, Thread
  <2> QED BY <1>1, <1>3, <2>1, StopKeeps
<1>4. ASSUME a.run = "dying" PROVE KeepsInStep(a, Die(a, child))
  <2>1. /\ Die(a, child).run = "zombie" /\ Die(a, child).at = "ENDED" /\ Die(a, child).traced = a.traced
        /\ Die(a, child).sysgood = a.sysgood
    BY DEF Die, Thread
  <2>2. ThreadInv(Die(a, child)) /\ ~Live(Die(a, child))
    BY <2>1 DEF ThreadInv, Live
  <2> QED BY <1>1, <2>1, <2>2 DEF KeepsInStep
<1>5. KeepsInStep(a, Kill(a))
  <2>1. Kill(a).traced = a.traced /\ Kill(a).sysgood = a.sysgood /\ (Kill(a).run = "stop" => Kill(a) = a)
    BY DEF Kill, Thread
  <2>2. ThreadInv(Kill(a)) /\ ~Live(Kill(a))
    BY KillNotLive
  <2> QED BY <1>1, <2>1, <2>2 DEF KeepsInStep
<1> QED
  BY <1>2, <1>3, <1>4, <1>5

\* A signal from elsewhere does.
LEMMA SendKeeps ==
  ASSUME NEW a \in Thread, ThreadInv(a), NEW s \in Signals PROVE KeepsInStep(a, Send(a, s))
<1> DEFINE b == Send(a, s)
<1>1. b \in Thread
  BY SendType
<1>2. /\ b.traced = a.traced /\ b.sysgood = a.sysgood /\ b.insys = a.insys
      /\ \/ b.run = a.run /\ b.at = a.at /\ b.status = a.status
         \/ ~a.traced /\ a.run = "stop" /\ b.run = "run" /\ b.at = "none" /\ b.status = FALSE
         \/ a.traced /\ a.run = "listen" /\ b.run = "stop" /\ b.at \in {"EV_STOP_SIG", "EV_STOP_TRAP"}
  BY SendFields
<1> HIDE DEF b
<1>3. ThreadInv(b)
  BY <1>2 DEF ThreadInv, PtraceStops, SyscallStops, SignalStops, EventStops
<1>4. ASSUME NEW x \in Tracees, Live(a) => Synced(x, a), Live(b) PROVE Synced(x, b)
  <2>1. CASE b.run = a.run /\ b.at = a.at /\ b.status = a.status
    BY <1>2, <1>4, <2>1 DEF Live, Synced, SyscallStopPending
  <2>2. CASE a.traced /\ a.run = "listen" /\ b.run = "stop" /\ b.at \in {"EV_STOP_SIG", "EV_STOP_TRAP"}
    <3>1. Synced(x, a) /\ ~a.insys
      BY <1>4, <2>2 DEF Live, ThreadInv
    <3>2. ~SyscallStopPending(a) /\ ~SyscallStopPending(b)
      BY <2>2 DEF SyscallStopPending, SyscallStops
    <3> QED BY <1>2, <2>2, <3>1, <3>2 DEF Synced
  <2>3. CASE ~a.traced
    BY <1>2, <1>4, <2>3 DEF Live
  <2> QED BY <1>2, <2>1, <2>2, <2>3
<1>5. ~a.traced /\ (a.run = "stop" => ~a.insys) => (b.run = "stop" => ~b.insys)
  BY <1>2
<1> QED
  BY <1>1, <1>2, <1>3, <1>4, <1>5 DEF KeepsInStep, b

\* wait() keeps a thread as the kernel guarantees it to be.
LEMMA CollectInv == ASSUME NEW a \in Thread, ThreadInv(a) PROVE ThreadInv(Collect(a))
BY DEF Collect, ThreadInv, Thread
=============================================================================
