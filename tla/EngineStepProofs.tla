-------------------------- MODULE EngineStepProofs --------------------------
(***************************************************************************)
(* As long as no thread calls execve(), every Tracee of the Engine is in   *)
(* step with its thread, what is stored in m_unknown_events is the first   *)
(* stop of a thread nobody has told of, no stop is forgotten, and the      *)
(* consumer is told of every tracee what the contract allows.              *)
(***************************************************************************)
EXTENDS EngineProofs, TraceeViewProofs

(* Threads that are sent no signal. *)

\* The threads of the Engine are sent no signal but SIGKILL: they are in no
\* signal-delivery-stop or group-stop, and only a traced one stops.
Calm(k) ==
    /\ k \in Thread /\ ThreadInv(k)
    /\ ~k.gstop /\ ~k.notify /\ k.run # "listen" /\ k.nr # "execve"
    /\ k.run = "stop" => k.traced /\ k.at \in SyscallStops \cup {"EV_STOP_TRAP", "EV_EXIT", "EV_CHILD"}
    /\ ~k.traced => ~k.trap

\* The thread is on its way out, or has ended.
Down(k) == k.run \in {"dying", "zombie", "gone"}

\* SIGKILL ends every stop.
LEMMA KillCalm ==
  ASSUME NEW k, Calm(k)
  PROVE  LET b == Kill(k)
         IN  Calm(b) /\ Down(b) /\ ~Live(b) /\ b.traced = k.traced /\ (k.run = "gone" => b.run = "gone")
<1> DEFINE b == Kill(k)
<1>1. b \in Thread /\ ThreadInv(b) /\ ~Live(b)
  BY KillType, KillNotLive DEF Calm
<1>2. /\ b.traced = k.traced /\ b.gstop = k.gstop /\ b.notify = k.notify /\ b.trap = k.trap /\ b.nr = k.nr
      /\ Down(b) /\ (k.run = "gone" => b.run = "gone")
  <2>1. k \in Thread /\ k.run \in {"run", "stop", "listen", "dying", "zombie", "gone"}
    BY DEF Calm, Thread
  <2> QED BY <2>1, KillFields DEF Down
<1> HIDE DEF b
<1>3. Calm(b)
  BY <1>1, <1>2 DEF Calm, Down
<1> QED
  BY <1>1, <1>2, <1>3 DEF b

\* PTRACE_DETACH lets the thread run, or end if it was about to.
LEMMA DetachCalm ==
  ASSUME NEW k, Calm(k), InStop(k), NEW child \in BOOLEAN
  PROVE  LET b == Detach(k, child) IN Calm(b) /\ ~b.traced /\ b.run \in {"run", "zombie"}
<1> DEFINE b == Detach(k, child)
<1>1. b \in Thread /\ ThreadInv(b)
  BY DetachType, DetachNotLive DEF Calm
<1>2. ~b.traced /\ ~b.trap /\ ~b.notify /\ ~b.gstop /\ b.nr = k.nr /\ b.run \in {"run", "zombie"}
  BY DEF Detach, Calm, Thread
<1> HIDE DEF b
<1>3. Calm(b)
  BY <1>1, <1>2 DEF Calm
<1> QED
  BY <1>2, <1>3 DEF b

\* The PTRACE_EVENT_STOP that is due is not a group-stop.
LEMMA TakeTrapCalm ==
  ASSUME NEW k \in Thread, ~k.gstop, k.traced, ~k.insys, k.nr # "execve"
  PROVE  LET b == TakeTrap(k)
         IN  Calm(b) /\ b.run = "stop" /\ b.at = "EV_STOP_TRAP" /\ b.status /\ b.traced
<1> DEFINE b == TakeTrap(k)
<1>1. b \in Thread /\ ThreadInv(b)
  BY TakeTrapType, TakeTrapSynced
<1>2. /\ b.traced = k.traced /\ b.gstop = k.gstop /\ ~b.notify
      /\ b.run = "stop" /\ b.at = "EV_STOP_TRAP" /\ b.status /\ b.nr = k.nr
  BY TakeTrapFields
<1> HIDE DEF b
<1>3. Calm(b)
  BY <1>1, <1>2 DEF Calm
<1> QED
  BY <1>2, <1>3 DEF b

\* A restart: the thread runs, stops again, or ends.
LEMMA ResumeCalm ==
  ASSUME NEW k, Calm(k), InStop(k), NEW mode, NEW deadly
  PROVE  LET b == Resume(k, mode, "none", deadly)
         IN  /\ Calm(b) /\ b.traced /\ b.run \in {"run", "stop", "zombie"}
             /\ b.run = "stop" => b.status /\ b.at = "EV_STOP_TRAP"
<1> DEFINE r == [k EXCEPT !.sysgood = (mode = "SYSCALL")]
           z == [r EXCEPT !.run = "zombie", !.at = "ENDED", !.status = TRUE]
           g == [r EXCEPT !.run = "run", !.at = "none", !.status = FALSE]
<1>1. Resume(k, mode, "none", deadly) \in {z, g} \cup (IF r.insys THEN {} ELSE {TakeTrap(r)})
  BY DEF Resume, Leave
<1>2. /\ r \in Thread /\ r.insys = k.insys /\ r.nr = k.nr /\ ~r.gstop /\ ~r.notify /\ r.traced /\ r.nr # "execve"
  BY DEF Calm, Thread, InStop
<1> HIDE DEF r
<1>3. z \in Thread /\ z.run = "zombie" /\ z.at = "ENDED" /\ ~z.gstop /\ ~z.notify /\ z.traced /\ z.nr = r.nr
  BY <1>2 DEF Thread, Statuses
<1>4. g \in Thread /\ g.run = "run" /\ ~g.status /\ ~g.gstop /\ ~g.notify /\ g.traced /\ g.nr = r.nr
  BY <1>2 DEF Thread, Statuses
<1> HIDE DEF z, g
<1>5. Calm(z) /\ Calm(g)
  BY <1>2, <1>3, <1>4 DEF Calm, ThreadInv
<1>6. ~r.insys => LET b == TakeTrap(r) IN Calm(b) /\ b.run = "stop" /\ b.at = "EV_STOP_TRAP" /\ b.status /\ b.traced
  BY <1>2, TakeTrapCalm
<1> QED
  BY <1>1, <1>3, <1>4, <1>5, <1>6

\* PTRACE_INTERRUPT lets a stop become due.
LEMMA InterruptCalm ==
  ASSUME NEW k, Calm(k), k.traced
  PROVE  LET b == Interrupt(k)
         IN  Calm(b) /\ b.traced /\ b.run = k.run /\ b.at = k.at /\ b.status = k.status
<1> DEFINE b == Interrupt(k)
<1>1. b = [k EXCEPT !.trap = TRUE]
  BY DEF Interrupt, Calm
<1>2. /\ b \in Thread /\ b.traced = k.traced /\ b.gstop = k.gstop /\ b.notify = k.notify /\ b.nr = k.nr
      /\ b.run = k.run /\ b.at = k.at /\ b.status = k.status /\ b.insys = k.insys
  BY <1>1 DEF Calm, Thread
<1> HIDE DEF b
<1> QED
  BY <1>2 DEF Calm, ThreadInv, b

\* wait() collects a status.
LEMMA CollectCalm ==
  ASSUME NEW k, Calm(k)
  PROVE  LET b == Collect(k)
         IN  /\ Calm(b) /\ b.traced = k.traced /\ ~b.status /\ (k.run = "gone" => b.run = "gone")
             /\ IF k.run = "zombie" THEN b.run = "gone" ELSE b.run = k.run /\ b.at = k.at
<1> DEFINE b == Collect(k)
<1>1. /\ b \in Thread /\ b.traced = k.traced /\ b.insys = k.insys /\ b.nr = k.nr
      /\ b.gstop = k.gstop /\ b.notify = k.notify /\ b.trap = k.trap /\ ~b.status
      /\ IF k.run = "zombie" THEN b.run = "gone" ELSE b.run = k.run /\ b.at = k.at
  BY CollectFields DEF Calm
<1> HIDE DEF b
<1>2. Calm(b)
  BY <1>1 DEF Calm, ThreadInv
<1> QED
  BY <1>1, <1>2 DEF b

(* Object and thread, in the middle of processEvent(). *)

\* An object that has let go of its thread was asked to, or the thread has come to
\* its end; it never lets go of one that lives on and is traced.
Bound(t, k, v) ==
    /\ t.mode # "LISTEN"
    /\ t.valid => k.traced
    /\ ~t.valid => v.asked \/ k.run = "gone"
    /\ t.state \in {"DEAD", "DETACHED"} => ~t.valid \/ k.run = "gone"
    /\ "DETACH_AT_NEXT_STOP" \in t.flags => v.asked \/ k.run = "gone"
    /\ Live(k) => t.valid

\* As long as the thread has not been let go or killed it is as wait() found it, k0,
\* and it is not said to be unreachable.
Held(f, k0) ==
    /\ f \in Frames /\ Calm(f.k) /\ Bound(f.t, f.k, f.v)
    /\ f.k.run = "stop" => f.k = k0
    /\ f.k.run = "run" => ~f.k.traced
    /\ f.ex = "ESRCH" => ~Reachable(f)

\* The object may change in what Bound does not speak of.
LEMMA ObjectHeld ==
  ASSUME NEW f, NEW k0, Held(f, k0), NEW x \in Tracees, x.valid = f.t.valid, x.mode \in {f.t.mode, "CONT", "SYSCALL"},
         x.state \in {"DEAD", "DETACHED"} => x.state = f.t.state,
         "DETACH_AT_NEXT_STOP" \in x.flags => "DETACH_AT_NEXT_STOP" \in f.t.flags
  PROVE  LET g == [f EXCEPT !.t = x] IN Held(g, k0) /\ g.t = x /\ g.k = f.k /\ g.v = f.v /\ g.ex = f.ex
<1> DEFINE g == [f EXCEPT !.t = x]
<1>1. g \in Frames /\ g.t = x /\ g.k = f.k /\ g.v = f.v /\ g.ex = f.ex
  BY FrameParts DEF Held
<1> HIDE DEF g
<1> QED
  BY <1>1 DEF Held, Bound, Reachable, g

\* changeState() to a state in which the object keeps its thread.
LEMMA ToStateHeld ==
  ASSUME NEW f, NEW k0, Held(f, k0), NEW s \in States, s \notin {"DEAD", "DETACHED", "GROUP_STOP"}
  PROVE  LET g == ToState(f, s) IN Held(g, k0) /\ g.k = f.k /\ g.v = f.v /\ g.ex = f.ex /\ g.t.state = s /\ g.t.cur = f.t.cur
<1> DEFINE g == ToState(f, s)
<1>1. /\ g \in Frames /\ g.k = f.k /\ g.v = f.v /\ g.ex = f.ex /\ g.t.state = s /\ g.t.cur = f.t.cur
      /\ g.t.flags = ChangedFlags(f.t, s) /\ g.t.mode = f.t.mode /\ g.t.valid = f.t.valid
  BY ToStateParts DEF Held
<1>2. "DETACH_AT_NEXT_STOP" \in g.t.flags => "DETACH_AT_NEXT_STOP" \in f.t.flags
  BY <1>1 DEF ChangedFlags
<1> HIDE DEF g
<1> QED
  BY <1>1, <1>2 DEF Held, Bound, Reachable, g

\* SIGKILL, at any point.
LEMMA KillAtHeld ==
  ASSUME NEW f, NEW k0, Held(f, k0), NEW in, NEW point
  PROVE  LET g == KillAt(f, in, point)
         IN  Held(g, k0) /\ g.t = f.t /\ g.v = f.v /\ g.ex = f.ex /\ (Reachable(g) => g = f)
<1> DEFINE g == [f EXCEPT !.k = Kill(f.k)]
<1>1. Calm(Kill(f.k)) /\ Down(Kill(f.k)) /\ ~Live(Kill(f.k)) /\ Kill(f.k).traced = f.k.traced
      /\ (f.k.run = "gone" => Kill(f.k).run = "gone")
  BY KillCalm DEF Held
<1>2. g \in Frames /\ g.t = f.t /\ g.k = Kill(f.k) /\ g.v = f.v /\ g.ex = f.ex
  BY <1>1, FrameParts DEF Held, Calm
<1> HIDE DEF g
<1>3. Held(g, k0)
  BY <1>1, <1>2 DEF Held, Bound, Down, Reachable, InStop
<1>4. KillAt(f, in, point) \in {f, g} /\ (Reachable(KillAt(f, in, point)) => KillAt(f, in, point) = f)
  BY KillAtReachable DEF KillAt, g, Held
<1> QED
  BY <1>2, <1>3, <1>4

\* An exception.
LEMMA ThrowHeld ==
  ASSUME NEW f, NEW k0, Held(f, k0), NEW e \in {"none", "ESRCH", "EIO", "mismatch", "null"},
         e = "ESRCH" => ~Reachable(f)
  PROVE  LET g == Throw(f, e) IN Held(g, k0) /\ g.ex = e /\ g.t = f.t /\ g.k = f.k /\ g.v = f.v
<1>1. Throw(f, e) \in Frames /\ Throw(f, e).t = f.t /\ Throw(f, e).k = f.k /\ Throw(f, e).v = f.v /\ Throw(f, e).ex = e
  BY DEF Throw, Frames, Held
<1> QED
  BY <1>1 DEF Held, Reachable

\* doDetach() of a tracee that the consumer wants to let go of, or that has ended.
LEMMA DoDetachHeld ==
  ASSUME NEW f, NEW k0, Held(f, k0), f.v.asked \/ f.k.run = "gone"
  PROVE  LET g == DoDetach(f)
         IN  Held(g, k0) /\ g.ex = f.ex /\ g.v.asked = f.v.asked /\ g.v.attached = f.v.attached
             /\ ~g.t.valid /\ g.t.state \in {"DEAD", "DETACHED"} /\ (g.k = f.k \/ g.k.run # "gone")
<1> DEFINE g == DoDetach(f)
<1>1. /\ g \in Frames /\ g.ex = f.ex /\ LetGo(f.t, g.t)
      /\ g.k = IF Reachable(f) THEN Detach(f.k, f.t.child) ELSE f.k
      /\ SameTold(f.v, g.v) /\ g.v.asked = f.v.asked
  BY DoDetachParts DEF Held
<1>2. f.t.child \in BOOLEAN
  BY FrameParts DEF Held, Tracees
<1>3. /\ Calm(g.k) /\ (g.k.run = "stop" => g.k = k0) /\ (g.k.run = "run" => ~g.k.traced)
      /\ ~Live(g.k) /\ (g.k = f.k \/ (Reachable(f) /\ g.k.run # "gone"))
  <2>1. CASE Reachable(f)
    <3>1. LET b == Detach(f.k, f.t.child) IN Calm(b) /\ ~b.traced /\ b.run \in {"run", "zombie"}
      BY <1>2, <2>1, DetachCalm DEF Held, Reachable
    <3> QED BY <1>1, <2>1, <3>1 DEF Live
  <2>2. CASE ~Reachable(f)
    <3>1. g.k = f.k
      BY <1>1, <2>2
    <3>2. Live(f.k) => f.t.valid /\ f.k.run = "stop" /\ f.k.traced /\ f.k.at # "STOPPED"
      BY DEF Held, Bound, Calm, Live, PtraceStops, SyscallStops, EventStops, SignalStops
    <3>3. ~Live(f.k)
      BY <2>2, <3>2 DEF Reachable, InStop
    <3> HIDE DEF g
    <3> QED BY <3>1, <3>3 DEF Held
  <2> QED BY <2>1, <2>2
<1>4. f.k.run = "gone" => g.k = f.k
  BY <1>3 DEF Reachable, InStop
<1> HIDE DEF g
<1>5. Bound(g.t, g.k, g.v)
  BY <1>1, <1>3, <1>4 DEF Bound, LetGo, Held
<1> QED
  BY <1>1, <1>3, <1>5 DEF Held, LetGo, SameTold, Reachable, g

\* A callback, with the detach() the consumer may call from inside.
LEMMA NotifyHeld ==
  ASSUME NEW f, NEW k0, Held(f, k0), NEW in, NEW cb, NEW call \in MaybeCall, NEW flag,
         f.t.state \notin {"RUNNING", "UNKNOWN"},
         Reachable(f) \/ f.t.state \in {"DEAD", "DETACHED"}
  PROVE  LET g == Notify(f, in, cb, call, flag)
         IN  /\ Held(g, k0) /\ g.ex = f.ex /\ g.t.state \notin {"RUNNING", "UNKNOWN"}
             /\ g.v.attached <=> (f.v.attached \/ cb = "attached")
<1> DEFINE g == Notify(f, in, cb, call, flag)
           w == Told(f.v, cb, call, flag)
<1>1. /\ g \in Frames /\ g.ex = f.ex /\ SameTold(w, g.v)
      /\ \/ g.t = f.t /\ g.k = f.k /\ (f.v.asked => g.v.asked)
         \/ /\ Reachable(f) /\ LetGo(f.t, g.t) /\ g.t.state = "DETACHED" /\ g.v.asked
            /\ g.k = Detach(f.k, f.t.child)
  BY NotifyParts DEF Held, Reachable
<1>2. w.attached <=> (f.v.attached \/ cb = "attached")
  BY FrameParts, ToldParts DEF Held
<1>3. f.t.child \in BOOLEAN
  BY FrameParts DEF Held, Tracees
<1> HIDE DEF g, w
<1>4. CASE g.t = f.t /\ g.k = f.k /\ (f.v.asked => g.v.asked)
  <2>1. Held(g, k0)
    BY <1>1, <1>4 DEF Held, Bound, Reachable
  <2> QED BY <1>1, <1>2, <1>4, <2>1 DEF SameTold, g
<1>5. CASE Reachable(f) /\ LetGo(f.t, g.t) /\ g.t.state = "DETACHED" /\ g.v.asked /\ g.k = Detach(f.k, f.t.child)
  <2>1. Calm(g.k) /\ ~g.k.traced /\ g.k.run \in {"run", "zombie"}
    BY <1>3, <1>5, DetachCalm DEF Held, Reachable
  <2>2. Held(g, k0)
    BY <1>1, <1>5, <2>1 DEF Held, Bound, LetGo, Live, Reachable
  <2> QED BY <1>1, <1>2, <1>5, <2>2 DEF SameTold, g
<1> QED
  BY <1>1, <1>4, <1>5

(* The handlers. *)

\* The entry to a system call, after changeState().
LEMMA HandleSystemCallEntryHeld ==
  ASSUME NEW f, NEW k0, Held(f, k0), NEW in \in InputRecords, f.t.state = "SYSCALL_ENTER_STOP"
  PROVE  LET g == HandleSystemCallEntry(f, in) IN Held(g, k0) /\ g.ex \in {f.ex, "ESRCH"}
<1> DEFINE t == f.t
           c == f.k.nr
           restart == c = "restart_syscall"
           known == t.intr # "none"
           recover == restart /\ ~known /\ t.fresh /\ in.recovered # "none"
           afterSig == ~restart /\ known /\ "SEEN_SIGRETURN" \in t.flags
           cur == IF restart /\ known THEN t.intr ELSE IF recover THEN in.recovered ELSE c
           flag == IF (restart /\ known) \/ (afterSig /\ t.intr = c) THEN "RESUMED"
                   ELSE IF recover THEN "RECOVERED" ELSE "none"
           intr == IF restart \/ afterSig THEN "none" ELSE t.intr
           flags == IF afterSig THEN t.flags \ {"SEEN_SIGRETURN"} ELSE t.flags
           x == [t EXCEPT !.cur = cur, !.intr = intr, !.flags = flags]
           g0 == [f EXCEPT !.t = x]
           g == KillAt(g0, in, "decode")
           y == [g.t EXCEPT !.fresh = FALSE]
           h == [g EXCEPT !.t = y]
<1>1. f.t \in Tracees /\ f.k \in Thread /\ f \in Frames
  BY FrameParts DEF Held
<1>2. cur \in MaybeCall /\ intr \in MaybeCall /\ flags \in SUBSET Flags
      /\ ("DETACH_AT_NEXT_STOP" \in flags => "DETACH_AT_NEXT_STOP" \in f.t.flags)
  BY <1>1 DEF Tracees, Thread, InputRecords, MaybeCall, Calls, Flags
<1>3. HandleSystemCallEntry(f, in) =
        IF ~Reachable(g) THEN Throw(g, "ESRCH") ELSE Notify(h, in, "syscallEntry", cur, flag)
  <2> DEFINE r == [f EXCEPT !.t.cur = cur, !.t.intr = intr, !.t.flags = flags]
  <2>1. g0 = r
    <3> HIDE DEF cur, intr, flags
    <3> QED BY <1>1 DEF Frames, Tracees
  <2>2. HandleSystemCallEntry(f, in) =
          IF ~Reachable(KillAt(r, in, "decode")) THEN Throw(KillAt(r, in, "decode"), "ESRCH")
          ELSE Notify([KillAt(r, in, "decode") EXCEPT !.t.fresh = FALSE], in, "syscallEntry", cur, flag)
    BY Zenon DEF HandleSystemCallEntry
  <2> HIDE DEF r, g0, cur, flag
  <2> QED BY <2>1, <2>2
<1> HIDE DEF cur, intr, flags, flag
<1>4. x \in Tracees /\ x.valid = f.t.valid /\ x.mode = f.t.mode /\ x.state = f.t.state /\ x.flags = flags
  BY <1>1, <1>2 DEF Tracees
<1> HIDE DEF x
<1>5. Held(g0, k0) /\ g0.ex = f.ex /\ g0.t = x
  BY <1>2, <1>4, ObjectHeld
<1> HIDE DEF g0
<1>6. Held(g, k0) /\ g.t = x /\ g.ex = f.ex
  BY <1>5, KillAtHeld
<1> HIDE DEF g
<1>7. y \in Tracees /\ y.valid = g.t.valid /\ y.mode = g.t.mode /\ y.state = g.t.state /\ y.flags = g.t.flags
  BY <1>4, <1>6 DEF Tracees
<1> HIDE DEF y
<1>8. Held(h, k0) /\ h.ex = f.ex /\ h.t = y /\ h.k = g.k
  BY <1>6, <1>7, ObjectHeld
<1>9. ~Reachable(g) => Held(Throw(g, "ESRCH"), k0) /\ Throw(g, "ESRCH").ex = "ESRCH"
  BY <1>6, ThrowHeld
<1> HIDE DEF h
<1>10. Reachable(g) => Reachable(h)
  BY <1>7, <1>8 DEF Reachable
<1>11. h.t.state = "SYSCALL_ENTER_STOP"
  BY <1>4, <1>6, <1>7, <1>8
<1>12. Reachable(g) => LET n == Notify(h, in, "syscallEntry", cur, flag) IN Held(n, k0) /\ n.ex = h.ex
  BY <1>2, <1>8, <1>10, <1>11, NotifyHeld
<1> QED
  BY <1>3, <1>8, <1>9, <1>12

\* The return from a system call, after changeState().
LEMMA HandleSystemCallExitHeld ==
  ASSUME NEW f, NEW k0, Held(f, k0), NEW in, f.t.state = "SYSCALL_EXIT_STOP"
  PROVE  LET g == HandleSystemCallExit(f, in) IN Held(g, k0) /\ g.ex \in {f.ex, "ESRCH"}
<1> DEFINE g == KillAt(f, in, "decode")
           c == g.t.cur
           interrupted == in.res = "ERESTART"
           y == [g.t EXCEPT !.intr = IF interrupted THEN c ELSE g.t.intr]
           h == [g EXCEPT !.t = y]
           flag == IF interrupted THEN "INTERRUPTED" ELSE "none"
           n == Notify(h, in, "syscallExit", c, flag)
           sigreturn == c = "sigreturn" /\ n.t.intr # "none"
           intr == IF sigreturn /\ in.res = "EINTR" THEN "none" ELSE n.t.intr
           flags == IF sigreturn /\ in.res # "EINTR" THEN n.t.flags \cup {"SEEN_SIGRETURN"} ELSE n.t.flags
           z == [n.t EXCEPT !.intr = intr, !.flags = flags, !.cur = "none"]
           m == [n EXCEPT !.t = z]
<1>1. Held(g, k0) /\ g.t = f.t /\ g.ex = f.ex
  BY KillAtHeld
<1>2. HandleSystemCallExit(f, in) = IF ~Reachable(g) THEN Throw(g, "ESRCH")
        ELSE [n EXCEPT !.t.intr = intr, !.t.flags = flags, !.t.cur = "none"]
  BY DEF HandleSystemCallExit
<1> HIDE DEF g
<1>3. g \in Frames /\ g.t \in Tracees /\ c \in MaybeCall
  BY <1>1, FrameParts DEF Held, Tracees
<1>4. y \in Tracees /\ y.valid = g.t.valid /\ y.mode = g.t.mode /\ y.state = g.t.state /\ y.flags = g.t.flags
  BY <1>3 DEF Tracees
<1> HIDE DEF y
<1>5. Held(h, k0) /\ h.ex = f.ex /\ h.t = y /\ h.k = g.k
  BY <1>1, <1>4, ObjectHeld
<1> HIDE DEF h
<1>6. ~Reachable(g) => Held(Throw(g, "ESRCH"), k0) /\ Throw(g, "ESRCH").ex = "ESRCH"
  BY <1>1, ThrowHeld
<1>7. ASSUME Reachable(g) PROVE Held(m, k0) /\ m.ex = f.ex /\ m = [n EXCEPT !.t.intr = intr, !.t.flags = flags, !.t.cur = "none"]
  <2>1. Reachable(h) /\ h.t.state = "SYSCALL_EXIT_STOP"
    BY <1>1, <1>4, <1>5, <1>7 DEF Reachable
  <2>2. Held(n, k0) /\ n.ex = h.ex
    BY <1>3, <1>5, <2>1, NotifyHeld
  <2> HIDE DEF n
  <2>3. n \in Frames /\ n.t \in Tracees
    BY <2>2, FrameParts DEF Held
  <2>4. intr \in MaybeCall /\ flags \in SUBSET Flags
        /\ ("DETACH_AT_NEXT_STOP" \in flags => "DETACH_AT_NEXT_STOP" \in n.t.flags)
    BY <2>3 DEF Tracees, MaybeCall, Flags
  <2> HIDE DEF intr, flags
  <2>5. m = [n EXCEPT !.t.intr = intr, !.t.flags = flags, !.t.cur = "none"]
    BY <2>3 DEF Frames, Tracees
  <2>6. z \in Tracees /\ z.valid = n.t.valid /\ z.mode = n.t.mode /\ z.state = n.t.state /\ z.flags = flags
    BY <2>3, <2>4 DEF Tracees, MaybeCall
  <2> HIDE DEF z
  <2>7. Held(m, k0) /\ m.ex = n.ex
    BY <2>2, <2>4, <2>6, ObjectHeld
  <2> QED BY <1>5, <2>2, <2>5, <2>7
<1> QED
  BY <1>2, <1>6, <1>7

\* handleSystemCall()
LEMMA HandleSystemCallHeld ==
  ASSUME NEW f, NEW k0, Held(f, k0), NEW in \in InputRecords, f.ex = "none"
  PROVE  LET g == HandleSystemCall(f, in) IN Held(g, k0) /\ g.ex \in {"none", "ESRCH", "mismatch"}
<1> DEFINE g == KillAt(f, in, "request")
           x == ToState(g, "SYSCALL_EXIT_STOP")
           e == ToState(g, "SYSCALL_ENTER_STOP")
<1>1. Held(g, k0) /\ g.ex = "none"
  BY KillAtHeld
<1>2. HandleSystemCall(f, in) \in {Throw(g, "mismatch"), HandleSystemCallExit(x, in), HandleSystemCallEntry(e, in)}
        \/ (~Reachable(g) /\ HandleSystemCall(f, in) = Throw(g, "ESRCH"))
  BY DEF HandleSystemCall
<1> HIDE DEF g
<1>3. Held(x, k0) /\ x.t.state = "SYSCALL_EXIT_STOP" /\ x.ex = "none"
      /\ Held(e, k0) /\ e.t.state = "SYSCALL_ENTER_STOP" /\ e.ex = "none"
  BY <1>1, ToStateHeld DEF States
<1>4. /\ ~Reachable(g) => Held(Throw(g, "ESRCH"), k0) /\ Throw(g, "ESRCH").ex = "ESRCH"
      /\ Held(Throw(g, "mismatch"), k0) /\ Throw(g, "mismatch").ex = "mismatch"
  BY <1>1, ThrowHeld
<1> HIDE DEF x, e
<1>5. /\ LET n == HandleSystemCallExit(x, in) IN Held(n, k0) /\ n.ex \in {"none", "ESRCH"}
      /\ LET n == HandleSystemCallEntry(e, in) IN Held(n, k0) /\ n.ex \in {"none", "ESRCH"}
  BY <1>3, HandleSystemCallExitHeld, HandleSystemCallEntryHeld
<1> QED
  BY <1>2, <1>4, <1>5

\* handleStopEvent(), for a thread that is not group-stopped.
LEMMA HandleStopEventHeld ==
  ASSUME NEW f, NEW k0, Held(f, k0), NEW in, in.ev = "EV_STOP_TRAP", f.t.state = "EVENT_STOP"
  PROVE  LET g == HandleStopEvent(f, in) IN Held(g, k0) /\ g.ex \in {f.ex, "ESRCH"}
<1> DEFINE mode == IF "INJECTED_SIGSTOP" \in f.t.flags THEN f.t.mode ELSE "SYSCALL"
           x == [f.t EXCEPT !.flags = f.t.flags \ {"WAIT_FOR_ATTACH_STOP"}, !.mode = mode]
           m == [f EXCEPT !.t = x]
           g == KillAt(m, in, "request")
           y == [f.t EXCEPT !.mode = "SYSCALL"]
           h == [f EXCEPT !.t = y]
<1>1. f \in Frames /\ f.t \in Tracees
  BY FrameParts DEF Held
<1>2. HandleStopEvent(f, in) \in {h} \cup (IF Reachable(g) THEN {Notify(g, in, "attached", "none", "none")}
                                           ELSE {Throw(g, "ESRCH")})
  <2>1. m = [f EXCEPT !.t.flags = f.t.flags \ {"WAIT_FOR_ATTACH_STOP"}, !.t.mode = mode]
    BY <1>1 DEF Frames, Tracees
  <2>2. h = [f EXCEPT !.t.mode = "SYSCALL"]
    OBVIOUS
  <2> HIDE DEF m, h
  <2> QED BY <2>1, <2>2 DEF HandleStopEvent, HandleAttached
<1>3. /\ x \in Tracees /\ x.valid = f.t.valid /\ x.mode \in {f.t.mode, "SYSCALL"} /\ x.state = f.t.state
      /\ x.flags \subseteq f.t.flags
      /\ y \in Tracees /\ y.valid = f.t.valid /\ y.mode = "SYSCALL" /\ y.state = f.t.state /\ y.flags = f.t.flags
  BY <1>1 DEF Tracees, RestartModes
<1> HIDE DEF x, y
<1>4. Held(h, k0) /\ h.ex = f.ex /\ Held(m, k0) /\ m.ex = f.ex /\ m.t = x
  BY <1>3, ObjectHeld
<1> HIDE DEF h, m
<1>5. Held(g, k0) /\ g.ex = f.ex /\ g.t = x
  BY <1>4, KillAtHeld
<1> HIDE DEF g
<1>6. ~Reachable(g) => Held(Throw(g, "ESRCH"), k0) /\ Throw(g, "ESRCH").ex = "ESRCH"
  BY <1>5, ThrowHeld
<1>7. Reachable(g) => LET n == Notify(g, in, "attached", "none", "none") IN Held(n, k0) /\ n.ex = g.ex
  BY <1>3, <1>5, NotifyHeld DEF MaybeCall
<1> QED
  BY <1>2, <1>4, <1>5, <1>6, <1>7

\* handleExitEvent()
LEMMA HandleExitEventHeld ==
  ASSUME NEW f, NEW k0, Held(f, k0), NEW in, f.t.state = "EVENT_STOP"
  PROVE  LET g == HandleExitEvent(f, in) IN Held(g, k0) /\ g.ex \in {f.ex, "ESRCH"}
<1> DEFINE g == KillAt(f, in, "request")
           lost == ~g.k.fatal /\ ~(g.t.prev = "SYSCALL_ENTER_STOP" /\ g.t.cur = "exit")
           n == Notify(g, in, "exited", "none", IF lost THEN "LOST_TO_MT_EXIT" ELSE "none")
           x == [n.t EXCEPT !.flags = n.t.flags \cup {"WAIT_FOR_EXITED"}]
           m == [n EXCEPT !.t = x]
<1>1. HandleExitEvent(f, in) = IF ~Reachable(g) THEN Throw(g, "ESRCH") ELSE m
  BY DEF HandleExitEvent
<1>2. Held(g, k0) /\ g.ex = f.ex /\ g.t = f.t
  BY KillAtHeld
<1> HIDE DEF g
<1>3. ~Reachable(g) => Held(Throw(g, "ESRCH"), k0) /\ Throw(g, "ESRCH").ex = "ESRCH"
  BY <1>2, ThrowHeld
<1>4. ASSUME Reachable(g) PROVE Held(m, k0) /\ m.ex = f.ex
  <2>1. Held(n, k0) /\ n.ex = g.ex
    BY <1>2, <1>4, NotifyHeld DEF MaybeCall
  <2> HIDE DEF n
  <2>2. n.t \in Tracees
    BY <2>1, FrameParts DEF Held
  <2>3. n.t.flags \cup {"WAIT_FOR_EXITED"} \in SUBSET Flags
    BY <2>2 DEF Tracees, Flags
  <2>4. x \in Tracees /\ x.valid = n.t.valid /\ x.mode = n.t.mode /\ x.state = n.t.state
        /\ x.flags = n.t.flags \cup {"WAIT_FOR_EXITED"}
    BY <2>2, <2>3 DEF Tracees
  <2> HIDE DEF x
  <2>5. Held(m, k0) /\ m.ex = n.ex
    BY <2>1, <2>4, ObjectHeld
  <2> QED BY <1>2, <2>1, <2>5
<1> QED
  BY <1>1, <1>3, <1>4

\* handleNewChildEvent(): without a current system call there is none to bind.
LEMMA HandleNewChildEventHeld ==
  ASSUME NEW f, NEW k0, Held(f, k0), NEW in, in.ev = "EV_CHILD", f.t.state = "EVENT_STOP"
  PROVE  LET g == HandleNewChildEvent(f, in)
         IN  Held(g, k0) /\ g.ex \in {f.ex, "ESRCH", "null"} /\ (f.t.cur # "none" => g.ex \in {f.ex, "ESRCH"})
<1> DEFINE g == KillAt(f, in, "request")
           n == Notify(g, in, "newChildProcess", "none", "none")
<1>1. HandleNewChildEvent(f, in) = IF ~Reachable(g) THEN Throw(g, "ESRCH")
                                   ELSE IF g.t.cur = "none" THEN Throw(g, "null") ELSE n
  BY DEF HandleNewChildEvent
<1>2. Held(g, k0) /\ g.ex = f.ex /\ g.t = f.t
  BY KillAtHeld
<1> HIDE DEF g
<1>3. ~Reachable(g) => Held(Throw(g, "ESRCH"), k0) /\ Throw(g, "ESRCH").ex = "ESRCH"
  BY <1>2, ThrowHeld
<1>4. Held(Throw(g, "null"), k0) /\ Throw(g, "null").ex = "null"
  BY <1>2, ThrowHeld
<1>5. Reachable(g) => Held(n, k0) /\ n.ex = f.ex
  BY <1>2, NotifyHeld DEF MaybeCall
<1> HIDE DEF n
<1> QED
  BY <1>1, <1>2, <1>3, <1>4, <1>5

\* handleEvent(), for the events that threads without signals and execve() have.
LEMMA HandleEventHeld ==
  ASSUME NEW f, NEW k0, Held(f, k0), NEW in, in.ev \in {"EV_STOP_TRAP", "EV_EXIT", "EV_CHILD"}
  PROVE  LET g == HandleEvent(f, in)
         IN  /\ Held(g, k0) /\ g.ex \in {f.ex, "ESRCH", "null"}
             /\ in.ev = "EV_CHILD" /\ f.t.cur # "none" => g.ex \in {f.ex, "ESRCH"}
             /\ in.ev = "EV_STOP_TRAP" => g.ex \in {f.ex, "ESRCH"}
<1> DEFINE g == ToState(f, "EVENT_STOP")
<1>1. Held(g, k0) /\ g.t.state = "EVENT_STOP" /\ g.ex = f.ex /\ g.t.cur = f.t.cur
  BY ToStateHeld DEF States
<1>2. HandleEvent(f, in) = CASE in.ev = "EV_STOP_TRAP" -> HandleStopEvent(g, in)
                             [] in.ev = "EV_EXIT" -> HandleExitEvent(g, in)
                             [] in.ev = "EV_CHILD" -> HandleNewChildEvent(g, in)
  BY DEF HandleEvent
<1> HIDE DEF g
<1> QED
  BY <1>1, <1>2, HandleStopEventHeld, HandleExitEventHeld, HandleNewChildEventHeld

(* The end of processEvent(). *)

\* The thread is in a stop that nobody has to handle any more: it has been killed,
\* and the consumer wanted to let go of it.
Excused(k, v) == k.at = "EV_EXIT" /\ (v.attached => v.asked)

\* What processEvent() leaves: no stop is forgotten unless an exception leaves
\* trace(), and the new stop of a thread announces no child.
Rested(f) ==
    /\ f \in Frames /\ Calm(f.k) /\ Bound(f.t, f.k, f.v)
    /\ f.k.run = "stop" /\ f.k.status => f.k.at # "EV_CHILD"
    /\ f.k.run = "stop" /\ ~f.k.status => Excused(f.k, f.v) \/ f.ex \in {"mismatch", "null"}

\* A thread that does not answer is not in a stop, or is excused.
LEMMA UnreachableRested ==
  ASSUME NEW f, NEW k0, Held(f, k0), k0.status => k0.at # "EV_CHILD", ~Reachable(f) \/ f.ex \in {"mismatch", "null"}
  PROVE  Rested(f)
<1>1. f.k.run = "stop" => (f.k.status => f.k.at # "EV_CHILD") /\ f.k.traced /\ f.k.at # "STOPPED"
                          /\ (f.k.at # "EV_EXIT" => f.k.at \in PtraceStops \ {"EV_EXIT"})
  BY DEF Held, Calm, PtraceStops, SyscallStops, EventStops, SignalStops
<1>2. ASSUME f.k.run = "stop", ~Reachable(f) PROVE f.k.at = "EV_EXIT" /\ f.v.asked
  <2>1. ~f.t.valid
    BY <1>1, <1>2 DEF Reachable, InStop
  <2>2. f.v.asked /\ ~Live(f.k)
    BY <1>2, <2>1 DEF Held, Bound
  <2> QED BY <1>1, <1>2, <2>2 DEF Live
<1> QED
  BY <1>1, <1>2 DEF Held, Rested, Excused

\* A restart with PTRACE_CONT or PTRACE_SYSCALL.
LEMMA RestartRested ==
  ASSUME NEW f, NEW k0, Held(f, k0), NEW in \in InputRecords, SignalOf(in.ev) = "none", Reachable(f),
         f.ex = "none", f.t.state \notin {"DEAD", "DETACHED"}
  PROVE  LET q == [f EXCEPT !.k = Resume(f.k, f.t.mode, "none", in.deadly)]
             s == ToState(q, "RUNNING")
             n == Notify(s, [in EXCEPT !.detach = FALSE], "resumed", "none", "none")
         IN  Rested(s) /\ s.ex = "none" /\ Rested(n) /\ n.ex = "none" /\ q.ex = "none" /\ q.t = f.t
<1> DEFINE q == [f EXCEPT !.k = Resume(f.k, f.t.mode, "none", in.deadly)]
           s == ToState(q, "RUNNING")
           w == Told(s.v, "resumed", "none", "none")
           n == [s EXCEPT !.v = w]
<1>1. LET b == Resume(f.k, f.t.mode, "none", in.deadly)
      IN  /\ Calm(b) /\ b.traced /\ b.run \in {"run", "stop", "zombie"}
          /\ b.run = "stop" => b.status /\ b.at = "EV_STOP_TRAP"
  BY ResumeCalm DEF Held, Reachable
<1>2. q \in Frames /\ q.t = f.t /\ q.v = f.v /\ q.ex = f.ex /\ q.k = Resume(f.k, f.t.mode, "none", in.deadly)
  BY <1>1, FrameParts DEF Held, Calm
<1> HIDE DEF q
<1>3. /\ s \in Frames /\ s.k = q.k /\ s.v = q.v /\ s.ex = q.ex /\ s.t.state = "RUNNING"
      /\ s.t.flags = ChangedFlags(q.t, "RUNNING") /\ s.t.mode = q.t.mode /\ s.t.valid = q.t.valid
  BY <1>2, ToStateParts DEF States
<1>4. s.t.flags = f.t.flags
  BY <1>2, <1>3 DEF ChangedFlags
<1> HIDE DEF s
<1>5. Rested(s)
  BY <1>1, <1>2, <1>3, <1>4 DEF Rested, Held, Bound, Reachable, InStop
<1>6. w \in Views /\ w.asked = s.v.asked
  BY <1>3, FrameParts, ToldParts DEF MaybeCall
<1> HIDE DEF w
<1>7. n \in Frames /\ n.t = s.t /\ n.k = s.k /\ n.v = w /\ n.ex = s.ex
  BY <1>3, <1>6, FrameParts
<1>8. Notify(s, [in EXCEPT !.detach = FALSE], "resumed", "none", "none") = n
  BY ResumedNotify DEF w
<1> HIDE DEF n
<1>9. Rested(n)
  BY <1>1, <1>2, <1>3, <1>5, <1>6, <1>7 DEF Rested, Bound
<1> QED
  BY <1>2, <1>3, <1>5, <1>7, <1>8, <1>9 DEF s, q

\* restart(), or what is left to do after an exception or a detach().
LEMMA RestartTraceeRested ==
  ASSUME NEW f, NEW k0, Held(f, k0), k0.status => k0.at # "EV_CHILD", NEW in \in InputRecords, SignalOf(in.ev) = "none",
         f.ex \in {"none", "ESRCH", "mismatch", "null"}
  PROVE  LET g == RestartTracee(f, in) IN Rested(g) /\ g.ex \in {f.ex, "ESRCH"}
<1> DEFINE r == KillAt(f, in, "late")
           q == [r EXCEPT !.k = Resume(r.k, r.t.mode, "none", in.deadly)]
           s == ToState(q, "RUNNING")
           n == Notify(s, [in EXCEPT !.detach = FALSE], "resumed", "none", "none")
           R == RestartTracee(f, in)
<1>1. CASE f.ex # "none"
  <2>1. Rested(f)
    BY <1>1, UnreachableRested DEF Held
  <2> QED BY <1>1, <2>1 DEF RestartTracee
<1>2. CASE f.t.state \in {"DEAD", "DETACHED"}
  <2>1. ~Reachable(f)
    BY <1>2 DEF Held, Bound, Reachable, InStop
  <2> QED BY <1>2, <2>1, UnreachableRested DEF RestartTracee
<1>3. CASE f.ex = "none" /\ f.t.state \notin {"DEAD", "DETACHED"}
  <2>1. Held(r, k0) /\ r.t = f.t /\ r.ex = "none"
    BY <1>3, KillAtHeld
  <2>2. r.t.mode # "LISTEN"
    BY <2>1 DEF Held, Bound
  <2>3. Restart(f, in) = IF ~Reachable(r) THEN Throw(r, "ESRCH") ELSE q
    BY <2>2 DEF Restart
  <2> HIDE DEF r
  <2>4. CASE ~Reachable(r)
    <3>1. Held(Throw(r, "ESRCH"), k0) /\ Throw(r, "ESRCH").ex = "ESRCH" /\ ~Reachable(Throw(r, "ESRCH"))
      BY <2>1, <2>4, ThrowHeld DEF Held
    <3>2. RestartTracee(f, in) = Throw(r, "ESRCH")
      BY <1>3, <2>3, <2>4, <3>1 DEF RestartTracee
    <3> QED BY <3>1, <3>2, UnreachableRested
  <2>5. CASE Reachable(r)
    <3>1. Rested(s) /\ s.ex = "none" /\ Rested(n) /\ n.ex = "none" /\ q.ex = "none" /\ q.t = r.t
      BY <1>3, <2>1, <2>5, RestartRested
    <3> HIDE DEF q
    <3>2. Restart(f, in) = q /\ q.t.mode # "LISTEN"
      BY <2>2, <2>3, <2>5, <3>1
    <3> HIDE DEF n
    <3>3. RestartTracee(f, in) = IF q.t.state = "GROUP_STOP" THEN n ELSE s
      BY <1>3, <3>1, <3>2 DEF RestartTracee, n
    <3> HIDE DEF s
    <3> QED BY <1>3, <3>1, <3>3
  <2> QED BY <2>4, <2>5
<1> QED
  BY <1>1, <1>2, <1>3

\* Any stop of such a thread; the event may be an earlier one, if the thread has
\* been killed since.
LEMMA HandleTrapRested ==
  ASSUME NEW f, NEW k0, Held(f, k0), k0.status => k0.at # "EV_CHILD", f.ex = "none", NEW in \in InputRecords,
         in.ev \in SyscallStops \cup {"EV_STOP_TRAP", "EV_EXIT", "EV_CHILD"}
  PROVE  LET g == HandleTrap(f, in)
         IN  /\ Rested(g)
             /\ in.ev = "EV_STOP_TRAP" \/ (in.ev = "EV_CHILD" /\ f.t.cur # "none") => g.ex \in {"none", "ESRCH"}
<1> DEFINE g == KillAt(f, in, "request")
           e == HandleEvent(f, in)
           c == HandleSystemCall(f, in)
<1>1. SignalOf(in.ev) = "none"
  BY DEF SignalOf, SyscallStops
<1>2. CASE "DETACH_AT_NEXT_STOP" \in f.t.flags
  <2>1. Held(g, k0) /\ g.t = f.t /\ g.v = f.v /\ g.ex = f.ex
    BY KillAtHeld
  <2>2. g.v.asked \/ g.k.run = "gone"
    BY <1>2, <2>1 DEF Held, Bound
  <2> HIDE DEF g
  <2>3. LET d == DoDetach(g) IN Held(d, k0) /\ d.ex = "none" /\ ~d.t.valid
    BY <2>1, <2>2, DoDetachHeld
  <2>4. Rested(DoDetach(g))
    BY <2>3, UnreachableRested DEF Reachable
  <2>5. HandleTrap(f, in) = DoDetach(g)
    BY <1>2 DEF HandleTrap, g
  <2> QED BY <2>3, <2>4, <2>5
<1>3. CASE "DETACH_AT_NEXT_STOP" \notin f.t.flags /\ in.ev \in SyscallStops
  <2>1. HandleTrap(f, in) = RestartTracee(c, in)
    BY <1>3 DEF HandleTrap, SyscallStops, EventStops
  <2>2. Held(c, k0) /\ c.ex \in {"none", "ESRCH", "mismatch"}
    BY HandleSystemCallHeld
  <2>3. in.ev \notin {"EV_STOP_TRAP", "EV_CHILD"}
    BY <1>3 DEF SyscallStops
  <2> HIDE DEF c
  <2> QED BY <1>1, <2>1, <2>2, <2>3, RestartTraceeRested
<1>4. CASE "DETACH_AT_NEXT_STOP" \notin f.t.flags /\ in.ev \notin SyscallStops
  <2>1. HandleTrap(f, in) = RestartTracee(e, in)
    BY <1>4 DEF HandleTrap, EventStops
  <2>2. /\ Held(e, k0) /\ e.ex \in {f.ex, "ESRCH", "null"}
        /\ in.ev = "EV_CHILD" /\ f.t.cur # "none" => e.ex \in {f.ex, "ESRCH"}
        /\ in.ev = "EV_STOP_TRAP" => e.ex \in {f.ex, "ESRCH"}
    BY <1>4, HandleEventHeld
  <2> HIDE DEF e
  <2> QED BY <1>1, <2>1, <2>2, RestartTraceeRested
<1> QED
  BY <1>2, <1>3, <1>4

(* processEvent() as the Engine calls it. *)

\* Between two events: the object keeps its thread, and is in step with it.
Joined(t, k, v) == Bound(t, k, v) /\ (Live(k) => Synced(t, k))

\* What TraceeProcessEvent makes of f: a Tracee that is dead lets go.
Final(f) == IF f.t.state = "DEAD" THEN DoDetach(f) ELSE f

Finished(f) == Rested(f) /\ Joined(f.t, f.k, f.v)

\* A dead one has nothing to let go of.
LEMMA FinalRested ==
  ASSUME NEW f, Rested(f), Live(f.k) => Synced(f.t, f.k) PROVE Finished(Final(f)) /\ Final(f).ex = f.ex
<1> DEFINE g == DoDetach(f)
<1>1. CASE f.t.state = "DEAD"
  <2>1. ~f.t.valid \/ f.k.run = "gone"
    BY <1>1 DEF Rested, Bound
  <2>2. ~Reachable(f) /\ ~Live(f.k) /\ (f.v.asked \/ f.k.run = "gone")
    BY <2>1 DEF Reachable, InStop, Rested, Bound, Live
  <2>3. g \in Frames /\ g.ex = f.ex /\ LetGo(f.t, g.t) /\ g.k = f.k /\ SameTold(f.v, g.v) /\ g.v.asked = f.v.asked
    BY <2>2, DoDetachParts DEF Rested
  <2> HIDE DEF g
  <2>4. Bound(g.t, g.k, g.v)
    BY <2>2, <2>3 DEF Rested, Bound, LetGo
  <2>5. Rested(g)
    BY <2>3, <2>4 DEF Rested, SameTold, Excused
  <2> QED BY <1>1, <2>2, <2>3, <2>4, <2>5 DEF Finished, Joined, Final, g
<1>2. CASE f.t.state # "DEAD"
  BY <1>2 DEF Finished, Joined, Final, Rested
<1> QED
  BY <1>1, <1>2

\* An object that has just got the event of its thread.
LEMMA GotEvent ==
  ASSUME NEW f \in Frames, f.ex = "none", Calm(f.k), Bound(f.t, f.k, f.v), f.k.run # "run"
  PROVE  Held(f, f.k)
BY DEF Held

\* The end of the thread.
LEMMA ProcessEndRested ==
  ASSUME NEW f \in Frames, f.ex = "none", Calm(f.k), Bound(f.t, f.k, f.v), f.k.run = "gone", NEW in
  PROVE  LET g == ProcessEnd(f, in) IN Rested(g) /\ g.ex = "none"
<1> DEFINE d == ToState(f, "DEAD")
           n == Notify(d, in, "disappeared", "none", "none")
<1>1. /\ d \in Frames /\ d.k = f.k /\ d.v = f.v /\ d.ex = f.ex /\ d.t.state = "DEAD" /\ d.t.mode = f.t.mode
      /\ d.t.valid = f.t.valid /\ d.t.flags = f.t.flags
  BY ToStateDead
<1> HIDE DEF d
<1>2. Held(d, f.k)
  BY <1>1 DEF Held, Bound, Live
<1>3. Held(n, f.k) /\ n.ex = d.ex
  BY <1>1, <1>2, NotifyHeld DEF MaybeCall
<1>4. ~Reachable(d) /\ f.k.run # "stop"
  BY <1>1 DEF Reachable, InStop
<1>5. n.k = d.k \/ Reachable(d)
  BY <1>1, NotifyParts DEF MaybeCall
<1> HIDE DEF n
<1>6. Rested(d) /\ Rested(n)
  BY <1>1, <1>2, <1>3, <1>4, <1>5 DEF Held, Rested
<1> QED
  BY <1>1, <1>3, <1>6 DEF ProcessEnd, d, n

\* An event that wait() has just returned, a being the thread before that.
LEMMA EventFinished ==
  ASSUME NEW f \in Frames, NEW a, Calm(a), f.k = Collect(a), f.ex = "none", a.status, Joined(f.t, a, f.v),
         NEW in \in InputRecords, in.ev = a.at
  PROVE  LET g == Final(ProcessEvent(f, in))
         IN  /\ Finished(g)
             /\ in.ev = "EV_STOP_TRAP" \/ (in.ev = "EV_CHILD" /\ f.t.cur # "none") => g.ex \in {"none", "ESRCH"}
<1> DEFINE g == ProcessEvent(f, in)
<1>1. a \in Thread /\ ThreadInv(a) /\ a.run \in {"stop", "zombie"}
  BY DEF Calm, ThreadInv
<1>2. Settled(g)
  BY <1>1, ProcessEventSettled DEF Joined
<1>3. /\ Calm(f.k) /\ f.k.traced = a.traced /\ ~f.k.status
      /\ IF a.run = "zombie" THEN f.k.run = "gone" ELSE f.k.run = a.run /\ f.k.at = a.at
  BY CollectCalm
<1>4. Bound(f.t, f.k, f.v) /\ f.k.run # "run"
  BY <1>1, <1>3 DEF Joined, Bound, Live
<1>5. CASE a.run = "zombie"
  <2>1. in.ev = "ENDED"
    BY <1>1, <1>5 DEF ThreadInv
  <2>2. g = ProcessEnd(f, in)
    BY <2>1 DEF ProcessEvent
  <2> HIDE DEF g
  <2>3. Rested(g)
    BY <1>3, <1>4, <1>5, <2>2, ProcessEndRested
  <2> QED BY <1>2, <2>1, <2>3, FinalRested DEF Settled, g
<1>6. CASE a.run = "stop"
  <2>1. in.ev \in SyscallStops \cup {"EV_STOP_TRAP", "EV_EXIT", "EV_CHILD"}
    BY <1>6 DEF Calm
  <2>2. g = HandleTrap(f, in)
    BY <2>1 DEF ProcessEvent, SyscallStops
  <2> HIDE DEF g
  <2>3. Held(f, f.k)
    BY <1>3, <1>4, GotEvent
  <2>4. /\ Rested(g)
        /\ in.ev = "EV_STOP_TRAP" \/ (in.ev = "EV_CHILD" /\ f.t.cur # "none") => g.ex \in {"none", "ESRCH"}
    BY <1>3, <2>1, <2>2, <2>3, HandleTrapRested
  <2> QED BY <1>2, <2>4, FinalRested DEF Settled, g
<1> QED
  BY <1>1, <1>5, <1>6

\* An event that was stored: the thread still waits in its first stop, or it has been
\* killed since.
LEMMA StoredFinished ==
  ASSUME NEW f \in Frames, Calm(f.k), f.ex = "none", Joined(f.t, f.k, f.v), f.k.run # "run",
         Live(f.k) => f.k.at = "EV_STOP_TRAP" /\ ~f.k.status,
         f.k.status => f.k.at # "EV_CHILD", NEW in \in InputRecords, in.ev = "EV_STOP_TRAP"
  PROVE  LET g == Final(ProcessEvent(f, in)) IN Finished(g) /\ g.ex \in {"none", "ESRCH"}
<1> DEFINE g == ProcessEvent(f, in)
           e == HandleEvent(f, in)
           d == KillAt(f, in, "request")
<1>1. f.k \in Thread /\ ThreadInv(f.k) /\ f.k.run # "listen"
  BY DEF Calm
<1>2. CASE Live(f.k)
  <2> DEFINE a == [f.k EXCEPT !.status = TRUE]
  <2>1. /\ a \in Thread /\ a.run = f.k.run /\ a.at = f.k.at /\ a.traced = f.k.traced /\ a.status /\ a.insys = f.k.insys
        /\ a.gstop = f.k.gstop /\ a.notify = f.k.notify /\ a.nr = f.k.nr /\ a.trap = f.k.trap /\ a.sysgood = f.k.sysgood
    BY <1>1 DEF Thread
  <2>2. f.k.run = "stop" /\ ~f.k.status
    BY <1>1, <1>2 DEF Live
  <2>3. f.k = Collect(a)
    BY <1>1, <2>2 DEF Collect, Thread
  <2> HIDE DEF a
  <2>4. Calm(a)
    BY <2>1, <2>2 DEF Calm, ThreadInv
  <2>5. ~SyscallStopPending(a) /\ ~SyscallStopPending(f.k)
    BY <1>2, <2>1 DEF SyscallStopPending, SyscallStops
  <2>6. Synced(f.t, a)
    BY <1>2, <2>1, <2>5 DEF Joined, Synced
  <2>7. Joined(f.t, a, f.v)
    BY <2>1, <2>6 DEF Joined, Bound, Live
  <2> QED BY <1>2, <2>1, <2>3, <2>4, <2>7, EventFinished
<1>3. CASE ~Live(f.k)
  <2> DEFINE k0 == [f.k EXCEPT !.at = "EV_STOP_TRAP"]
  <2>1. k0.at = "EV_STOP_TRAP"
    BY <1>1 DEF Thread
  <2> HIDE DEF k0
  <2>2. Safe(f, k0)
    BY <1>1, <1>3 DEF Safe
  <2>3. Safe(e, k0)
    BY <2>1, <2>2, HandleEventSafe
  <2>4. Settled(RestartTracee(e, in))
    BY <2>1, <2>3, RestartTraceeSettled
  <2>5. Safe(d, k0)
    BY <2>2, KillAtSafe
  <2>6. ~Live(d.k)
    BY <1>1, <1>3, KillNotLive, FrameParts DEF KillAt
  <2>7. Settled(DoDetach(d))
    BY <2>5, <2>6, DoDetachSafe, SafeSettled DEF Safe
  <2>8. g = HandleTrap(f, in) /\ g \in {DoDetach(d), RestartTracee(e, in)}
    BY DEF ProcessEvent, HandleTrap, SyscallStops, EventStops
  <2> HIDE DEF g, e, d
  <2>9. Settled(g)
    BY <2>4, <2>7, <2>8
  <2>10. Held(f, f.k)
    BY GotEvent DEF Joined
  <2>11. Rested(g) /\ g.ex \in {"none", "ESRCH"}
    BY <2>8, <2>10, HandleTrapRested
  <2> QED BY <2>9, <2>11, FinalRested DEF Settled, g
<1> QED
  BY <1>2, <1>3

(* What threads do of themselves. *)

\* The first stop of a new thread, which nobody has restarted yet.
FirstStop(k) == k.run = "stop" /\ k.at = "EV_STOP_TRAP" /\ ~k.sysgood /\ ~k.insys

\* The CLONE or FORK stop that wait() has not returned yet.
ChildStop(k) == k.run = "stop" /\ k.at = "EV_CHILD" /\ k.status

\* A step from thread a to thread b that the Engine need not know of: it keeps every
\* object in step, and nothing but an end takes a thread out of a stop.
Advances(a, b) ==
    /\ Calm(b) /\ KeepsInStep(a, b)
    /\ Live(b) => Live(a)
    /\ Live(b) /\ FirstStop(a) => b = a
    /\ b.run = "stop" /\ ~b.status => b = a
    /\ a.run = "gone" => b.run = "gone"
    /\ b.run = "run" => a.run = "run"

\* Doing nothing is such a step.
LEMMA IdleAdvances ==
  ASSUME NEW a, Calm(a) PROVE Advances(a, a)
BY DEF Advances, KeepsInStep, Calm

\* SIGKILL is, and so is the end of a thread whose process exits.
LEMMA KillAdvances ==
  ASSUME NEW a, Calm(a)
  PROVE  /\ Advances(a, Kill(a)) /\ Advances(a, [Kill(a) EXCEPT !.fatal = a.fatal])
         /\ ~ChildStop(Kill(a)) /\ ~ChildStop([Kill(a) EXCEPT !.fatal = a.fatal])
<1> DEFINE k == Kill(a)
           b == [k EXCEPT !.fatal = a.fatal]
<1>1. Calm(k) /\ Down(k) /\ ~Live(k) /\ k.traced = a.traced /\ (a.run = "gone" => k.run = "gone") /\ KeepsInStep(a, k)
  BY KillCalm, EndKeeps DEF Calm
<1> HIDE DEF k
<1>2. /\ b \in Thread /\ b.run = k.run /\ b.at = k.at /\ b.status = k.status /\ b.traced = k.traced /\ b.trap = k.trap
      /\ b.gstop = k.gstop /\ b.notify = k.notify /\ b.nr = k.nr /\ b.insys = k.insys /\ b.sysgood = k.sysgood
  BY <1>1 DEF Calm, Thread
<1> HIDE DEF b
<1>3. Calm(b) /\ ~Live(b) /\ KeepsInStep(a, b)
  BY <1>1, <1>2 DEF Calm, ThreadInv, Live, KeepsInStep
<1> QED
  BY <1>1, <1>2, <1>3 DEF Advances, Down, ChildStop, k, b

\* A thread of its own makes such a step, and it reports no child in it.
LEMMA OwnAdvances ==
  ASSUME NEW a, Calm(a), a.run # "stop", NEW b, KeepsInStep(a, b), b.nr # "execve", ~b.gstop, ~b.notify,
         b.run \in {"run", "dying", "gone"} \/ (b.run = "zombie" /\ b.at = "ENDED")
         \/ (b.run = "stop" /\ b.status /\ b.traced /\ b.at \in SyscallStops \cup {"EV_STOP_TRAP", "EV_EXIT", "EV_CHILD"}),
         Live(b) => Live(a), ~b.traced => ~b.trap, a.run # "gone", b.run = "run" => a.run = "run"
  PROVE  Advances(a, b)
BY DEF Advances, Calm, KeepsInStep, FirstStop

\* The entry to a system call other than execve().
LEMMA EnterCallAdvances ==
  ASSUME NEW a, Calm(a), CanEnterCall(a), NEW c \in Calls \ {"execve"}
  PROVE  Advances(a, EnterCall(a, c)) /\ ~ChildStop(EnterCall(a, c))
<1> DEFINE b == EnterCall(a, c)
<1>1. KeepsInStep(a, b)
  BY EnterCallKeeps DEF Calm
<1>2. /\ b.nr = c /\ b.gstop = a.gstop /\ b.notify = a.notify /\ b.traced = a.traced /\ (b.trap => a.trap)
      /\ \/ b.run = "run"
         \/ b.run = "stop" /\ b.status /\ b.traced /\ b.at = "SYS_ENTRY"
  BY DEF EnterCall, StopAt, Calm, Thread, CanEnterCall
<1> HIDE DEF b
<1>3. a.run = "run" /\ (Live(b) => Live(a))
  BY <1>2 DEF CanEnterCall, Live
<1>4. Advances(a, b)
  BY <1>1, <1>2, <1>3, OwnAdvances DEF Calm, SyscallStops
<1> QED
  BY <1>2, <1>4 DEF b, ChildStop

\* The return from it.
LEMMA LeaveCallAdvances ==
  ASSUME NEW a, Calm(a), CanLeaveCall(a) PROVE Advances(a, LeaveCall(a)) /\ ~ChildStop(LeaveCall(a))
<1> DEFINE b == LeaveCall(a)
           e == [a EXCEPT !.insys = FALSE]
           s == StopAt(e, "SYS_EXIT")
           t == TakeTrap(e)
           r == [e EXCEPT !.run = "run", !.at = "none", !.status = FALSE]
<1>1. KeepsInStep(a, b) /\ a.run = "run"
  BY LeaveCallKeeps DEF Calm, CanLeaveCall
<1>2. /\ e \in Thread /\ e.run = "run" /\ e.traced = a.traced /\ e.trap = a.trap /\ ~e.gstop /\ ~e.notify /\ e.nr = a.nr
      /\ ~e.insys
  BY <1>1 DEF Calm, Thread
<1>3. b \in {s, r} \cup (IF Due(e) THEN {t} ELSE {})
  BY DEF LeaveCall, Leave
<1> HIDE DEF e
<1>4. /\ s.run = "stop" /\ s.status /\ s.at = "SYS_EXIT" /\ s.traced = a.traced /\ s.nr = a.nr /\ ~s.gstop /\ ~s.notify /\ ~s.trap
      /\ r.run = "run" /\ r.traced = a.traced /\ r.nr = a.nr /\ ~r.gstop /\ ~r.notify /\ r.trap = a.trap
  BY <1>2 DEF StopAt, Thread
<1>5. Due(e) => a.traced
  BY <1>2 DEF Due, Calm
<1>6. t.run = "stop" /\ t.status /\ t.at = "EV_STOP_TRAP" /\ t.traced = a.traced /\ t.nr = a.nr /\ ~t.gstop /\ ~t.notify /\ ~t.trap
  BY <1>2, TakeTrapFields
<1>7. b = s => a.traced
  <2>1. LeaveCall(a) = IF a.traced /\ a.sysgood THEN s ELSE Leave(e)
    BY <1>2 DEF LeaveCall, e, Calm, Thread
  <2>2. Leave(e).at # "SYS_EXIT"
    BY <1>2, <1>4, <1>6 DEF Leave
  <2> HIDE DEF s
  <2> QED BY <1>4, <2>1, <2>2
<1> HIDE DEF b, s, t, r
<1>8. /\ b.nr = a.nr /\ ~b.gstop /\ ~b.notify /\ b.traced = a.traced /\ (b.trap => a.trap)
      /\ \/ b.run = "run"
         \/ b.run = "stop" /\ b.status /\ b.traced /\ b.at \in {"SYS_EXIT", "EV_STOP_TRAP"}
  BY <1>3, <1>4, <1>5, <1>6, <1>7
<1>9. Live(b) => Live(a)
  BY <1>1, <1>8 DEF Live
<1>10. Advances(a, b)
  BY <1>1, <1>8, <1>9, OwnAdvances DEF Calm, SyscallStops
<1> QED
  BY <1>8, <1>10 DEF b, ChildStop

\* The PTRACE_EVENT_STOP that is due.
LEMMA TrapAdvances ==
  ASSUME NEW a, Calm(a), CanTrap(a) PROVE Advances(a, TakeTrap(a)) /\ ~ChildStop(TakeTrap(a))
<1> DEFINE b == TakeTrap(a)
<1>1. KeepsInStep(a, b) /\ a.run = "run" /\ a.traced
  BY TrapKeeps DEF Calm, CanTrap
<1>2. /\ b.run = "stop" /\ b.status /\ b.at = "EV_STOP_TRAP" /\ b.traced = a.traced /\ b.nr = a.nr
      /\ ~b.gstop /\ ~b.notify /\ ~b.trap
  BY TakeTrapFields DEF Calm
<1> HIDE DEF b
<1>3. Advances(a, b)
  BY <1>1, <1>2, OwnAdvances DEF Calm, Live
<1> QED
  BY <1>2, <1>3 DEF b, ChildStop

\* The end of a thread.
LEMMA EndAdvances ==
  ASSUME NEW a, Calm(a)
  PROVE  /\ CanExit(a) => Advances(a, Exit(a)) /\ ~ChildStop(Exit(a))
         /\ a.run = "dying" /\ a.traced => /\ Advances(a, ExitStop(a)) /\ ~ChildStop(ExitStop(a))
                                           /\ Advances(a, Die(a, FALSE)) /\ ~ChildStop(Die(a, FALSE))
         /\ a.run = "dying" /\ ~a.traced => LET b == [a EXCEPT !.run = "gone"] IN Advances(a, b) /\ ~ChildStop(b)
<1>1. ASSUME CanExit(a) PROVE Advances(a, Exit(a)) /\ ~ChildStop(Exit(a))
  <2> DEFINE b == Exit(a)
  <2>1. KeepsInStep(a, b) /\ a.run = "run"
    BY <1>1, EndKeeps DEF Calm, CanExit
  <2>2. b.run = "dying" /\ b.traced = a.traced /\ b.trap = a.trap /\ b.nr = a.nr /\ ~b.gstop /\ ~b.notify
    BY DEF Exit, Calm, Thread
  <2> HIDE DEF b
  <2>3. Advances(a, b)
    BY <2>1, <2>2, OwnAdvances DEF Calm, Live
  <2> QED BY <2>2, <2>3 DEF b, ChildStop
<1>2. ASSUME a.run = "dying", a.traced PROVE Advances(a, ExitStop(a)) /\ ~ChildStop(ExitStop(a))
  <2> DEFINE b == ExitStop(a)
  <2>1. KeepsInStep(a, b)
    BY <1>2, EndKeeps DEF Calm
  <2>2. /\ b.run = "stop" /\ b.at = "EV_EXIT" /\ b.status /\ b.traced = a.traced /\ ~b.trap /\ b.nr = a.nr
        /\ ~b.gstop /\ ~b.notify
    BY DEF ExitStop, StopAt, Calm, Thread
  <2> HIDE DEF b
  <2>3. Advances(a, b)
    BY <1>2, <2>1, <2>2, OwnAdvances DEF Calm, Live
  <2> QED BY <2>2, <2>3 DEF b, ChildStop
<1>3. ASSUME a.run = "dying", a.traced PROVE Advances(a, Die(a, FALSE)) /\ ~ChildStop(Die(a, FALSE))
  <2> DEFINE b == Die(a, FALSE)
  <2>1. KeepsInStep(a, b)
    BY <1>3, EndKeeps DEF Calm
  <2>2. /\ b.run = "zombie" /\ b.at = "ENDED" /\ b.traced = a.traced /\ b.trap = a.trap /\ b.nr = a.nr
        /\ ~b.gstop /\ ~b.notify
    BY DEF Die, Calm, Thread
  <2> HIDE DEF b
  <2>3. Advances(a, b)
    BY <1>3, <2>1, <2>2, OwnAdvances DEF Calm, Live
  <2> QED BY <2>2, <2>3 DEF b, ChildStop
<1>4. ASSUME a.run = "dying", ~a.traced PROVE LET b == [a EXCEPT !.run = "gone"] IN Advances(a, b) /\ ~ChildStop(b)
  <2> DEFINE b == [a EXCEPT !.run = "gone"]
  <2>1. /\ b \in Thread /\ b.run = "gone" /\ b.traced = a.traced /\ b.trap = a.trap /\ b.nr = a.nr /\ b.status = a.status
        /\ ~b.gstop /\ ~b.notify /\ b.sysgood = a.sysgood
    BY DEF Calm, Thread
  <2> HIDE DEF b
  <2>2. KeepsInStep(a, b) /\ ~Live(b)
    BY <1>4, <2>1 DEF KeepsInStep, Live, Calm, ThreadInv
  <2>3. Advances(a, b)
    BY <1>4, <2>1, <2>2, OwnAdvances DEF Calm
  <2> QED BY <2>1, <2>3 DEF b, ChildStop
<1> QED
  BY <1>1, <1>2, <1>3, <1>4

\* A thread that reports a new child.
LEMMA ChildAdvances ==
  ASSUME NEW a, Calm(a), CanReport(a, "EV_CHILD")
  PROVE  LET b == [StopAt(a, "EV_CHILD") EXCEPT !.nr = "read"] IN Advances(a, b)
<1> DEFINE b == [StopAt(a, "EV_CHILD") EXCEPT !.nr = "read"]
<1>1. a.run = "run" /\ a.traced
  BY DEF CanReport
<1>2. /\ b \in Thread /\ b.run = "stop" /\ b.at = "EV_CHILD" /\ b.status /\ b.traced = a.traced /\ b.nr = "read"
      /\ ~b.trap /\ ~b.gstop /\ ~b.notify /\ b.sysgood = a.sysgood /\ b.insys = a.insys
  BY DEF StopAt, Calm, Thread, Statuses, PtraceStops, EventStops, Calls
<1> HIDE DEF b
<1>3. KeepsInStep(a, b)
  BY <1>1, <1>2, StopKeeps DEF Calm, EventStops, SignalStops
<1>4. Advances(a, b)
  BY <1>1, <1>2, <1>3, OwnAdvances DEF Live
<1> QED
  BY <1>4 DEF b

\* A new thread is in its first stop.
LEMMA NewThreadStops ==
  LET k == TakeTrap([NewThread EXCEPT !.traced = TRUE]) IN Calm(k) /\ FirstStop(k) /\ k.status /\ k.traced
<1> DEFINE n == [NewThread EXCEPT !.traced = TRUE]
<1>1. n \in Thread /\ ~n.gstop /\ n.traced /\ ~n.insys /\ n.nr = "read" /\ ~n.sysgood
  BY DEF NewThread, Thread, Calls, Statuses
<1> HIDE DEF n
<1>2. LET k == TakeTrap(n) IN Calm(k) /\ FirstStop(k) /\ k.status /\ k.traced
  BY <1>1, TakeTrapCalm, TakeTrapFields DEF FirstStop
<1> QED
  BY <1>2 DEF n

(* The invariant. *)

\* Either the Tracee of q is in m_tracees, is in step with its thread and makes its
\* requests for it, or it is done with its thread.
Bonded(w, q) ==
    IF q \in DOMAIN w.tracees
    THEN w.own[q] = q /\ Joined(w.tracees[q], w.th[q], w.view[q])
    ELSE ~Live(w.th[q]) /\ (w.view[q].attached => w.view[q].asked \/ w.th[q].run = "gone")

\* The consumer may have heard of q: no event of it is stored.
KnownFit(w, q) == Bonded(w, q) /\ q \notin DOMAIN w.unknown

\* Nobody has heard of q: the thread is in its first stop, whose event is stored once
\* wait() has returned it, or it has been killed; l gives the threads' processes.
UnheardFit(w, l, q) ==
    /\ l[q] # NoPid => w.th[q].traced
    /\ Live(w.th[q]) => FirstStop(w.th[q])
    /\ w.th[q].run = "stop" /\ ~w.th[q].status => q \in DOMAIN w.unknown \/ w.th[q].at = "EV_EXIT"
    /\ q \in DOMAIN w.unknown => /\ w.unknown[q] = "EV_STOP_TRAP" /\ l[q] # NoPid
                                 /\ Live(w.th[q]) => ~w.th[q].status

Fit(w, l, q) ==
    /\ Calm(w.th[q])
    /\ IF q \in Known(w.announced) THEN KnownFit(w, q) ELSE UnheardFit(w, l, q)

\* No stop of the thread is forgotten.
NoneForgotten(w, q) ==
    q \in Known(w.announced) /\ w.th[q].run = "stop" /\ ~w.th[q].status => Excused(w.th[q], w.view[q])

\* A child that wait() is about to tell of is unknown, exists, and has one parent.
ChildInv ==
    \A p \in Pids : ChildStop(th[p]) => /\ msg[p] \notin Known(announced) /\ leader[msg[p]] # NoPid
                                        /\ \A q \in Pids \ {p} : ChildStop(th[q]) => msg[q] # msg[p]

\* Nothing is known of threads that do not exist.
PresentInv == \A p \in Pids : leader[p] = NoPid => p \notin Known(announced)

StepInv == /\ \A q \in Pids : Fit(Context, leader, q)
           /\ over = "no" => \A q \in Pids : NoneForgotten(Context, q)
           /\ ChildInv /\ PresentInv /\ execing = {}

\* What is known of q is the same in w and in x.
SameFor(w, x, q) ==
    /\ q \in DOMAIN x.tracees <=> q \in DOMAIN w.tracees
    /\ q \in DOMAIN w.tracees => x.tracees[q] = w.tracees[q] /\ x.own[q] = w.own[q]
    /\ q \in DOMAIN x.unknown <=> q \in DOMAIN w.unknown
    /\ q \in DOMAIN w.unknown => x.unknown[q] = w.unknown[q]
    /\ x.view[q] = w.view[q]
    /\ q \in Known(x.announced) <=> q \in Known(w.announced)

\* An object is bound to a thread that goes on.
LEMMA AdvanceJoined ==
  ASSUME NEW t \in Tracees, NEW a, NEW b, NEW v, Calm(a), Advances(a, b), Joined(t, a, v) PROVE Joined(t, b, v)
BY DEF Joined, Bound, Advances, KeepsInStep

\* A step of a thread that the Engine takes no notice of keeps everything fit.
LEMMA AdvanceFit ==
  ASSUME NEW w, NEW x, NEW l, NEW m, NEW q, Fit(w, l, q), SameFor(w, x, q), Advances(w.th[q], x.th[q]),
         m[q] = l[q], q \in DOMAIN w.tracees => w.tracees[q] \in Tracees
  PROVE  Fit(x, m, q) /\ (NoneForgotten(w, q) => NoneForgotten(x, q))
<1> DEFINE a == w.th[q]
           b == x.th[q]
           v == w.view[q]
           t == w.tracees[q]
<1>1. Calm(a) /\ Calm(b) /\ x.view[q] = v
  BY DEF Fit, Advances, SameFor
<1>2. ASSUME q \in DOMAIN w.tracees, w.own[q] = q, Joined(t, a, v)
      PROVE  Joined(x.tracees[q], b, x.view[q]) /\ x.own[q] = q
  <2>1. Joined(t, b, v)
    BY <1>1, <1>2, AdvanceJoined
  <2> QED BY <1>1, <1>2, <2>1 DEF SameFor
<1>3. ASSUME q \in Known(w.announced) PROVE KnownFit(x, q)
  <2>1. KnownFit(w, q)
    BY <1>3 DEF Fit
  <2>2. q \notin DOMAIN x.unknown
    BY <2>1 DEF KnownFit, SameFor
  <2>3. CASE q \in DOMAIN w.tracees
    BY <1>2, <2>1, <2>2, <2>3 DEF KnownFit, Bonded, SameFor
  <2>4. CASE q \notin DOMAIN w.tracees
    BY <1>1, <2>1, <2>2, <2>4 DEF KnownFit, Bonded, SameFor, Advances
  <2> QED BY <2>3, <2>4
<1>4. ASSUME q \notin Known(w.announced) PROVE UnheardFit(x, m, q)
  <2>1. UnheardFit(w, l, q)
    BY <1>4 DEF Fit
  <2> DEFINE U == q \in DOMAIN w.unknown
             X == q \in DOMAIN x.unknown
  <2>2. U \in BOOLEAN /\ X = U /\ (U => x.unknown[q] = w.unknown[q])
    BY DEF SameFor
  <2>3. /\ l[q] # NoPid => a.traced
        /\ Live(a) => FirstStop(a)
        /\ a.run = "stop" /\ ~a.status => U \/ a.at = "EV_EXIT"
        /\ U => w.unknown[q] = "EV_STOP_TRAP" /\ l[q] # NoPid /\ (Live(a) => ~a.status)
    BY <2>1 DEF UnheardFit
  <2>4. /\ b.traced = a.traced /\ (Live(b) => Live(a)) /\ (Live(b) /\ FirstStop(a) => b = a)
        /\ (b.run = "stop" /\ ~b.status => b = a)
    BY DEF Advances, KeepsInStep
  <2> HIDE DEF U, X, a, b
  <2>5. /\ m[q] # NoPid => b.traced
        /\ Live(b) => FirstStop(b)
        /\ b.run = "stop" /\ ~b.status => X \/ b.at = "EV_EXIT"
        /\ X => x.unknown[q] = "EV_STOP_TRAP" /\ m[q] # NoPid /\ (Live(b) => ~b.status)
    BY <2>2, <2>3, <2>4
  <2> QED BY <2>5 DEF UnheardFit, X, b
<1>5. q \in Known(x.announced) <=> q \in Known(w.announced)
  BY DEF SameFor
<1>6. NoneForgotten(w, q) => NoneForgotten(x, q)
  BY <1>1, <1>5 DEF NoneForgotten, Advances
<1> QED
  BY <1>1, <1>3, <1>4, <1>5, <1>6 DEF Fit

(* The handling of an event. *)

\* What the handling of an event leaves of the tracee p it is about.
Handed(x, p) ==
    /\ Calm(x.th[p]) /\ ~ChildStop(x.th[p]) /\ Bonded(x, p)
    /\ x.ex = "none" => NoneForgotten(x, p)

\* It leaves the rest alone, but SIGKILL may strike the other threads of the process.
OthersStay(w, x, p) ==
    \A q \in Pids \ {p} : /\ SameFor(w, x, q) /\ Advances(w.th[q], x.th[q])
                          /\ ChildStop(x.th[q]) => ChildStop(w.th[q])

\* SIGKILL for the group, seen from each of the threads.
LEMMA GroupAdvances ==
  ASSUME NEW T \in [Pids -> Thread], NEW p \in Pids, NEW q \in Pids, Calm(T[q])
  PROVE  LET b == KillGroup(T, p)[q] IN b \in {T[q], Kill(T[q])} /\ Advances(T[q], b) /\ (ChildStop(b) => ChildStop(T[q]))
<1>1. KillGroup(T, p)[q] \in {T[q], Kill(T[q])}
  BY DEF KillGroup
<1> QED
  BY <1>1, IdleAdvances, KillAdvances

\* What the handling of an event of p leaves: every other Tracee is as it was.
LEMMA ConcludedParts ==
  ASSUME NEW w, ContextInv(w), NEW p \in DOMAIN w.tracees, NEW in, in.ev # "EV_EXEC", w.own[p] = p,
         NEW f, f.k \in Thread
  PROVE  LET x == Concluded(w, p, in, f)
         IN  /\ \A q \in Pids \ {p} : SameFor(w, x, q)
             /\ \/ \A q \in Pids \ {p} : x.th[q] = w.th[q]
                \/ \A q \in Pids \ {p} : x.th[q] = IF q \in Group(p) THEN Kill(w.th[q]) ELSE w.th[q]
             /\ x.th[p] \in {f.k, Kill(f.k)} /\ x.view[p] = f.v
             /\ p \in DOMAIN x.tracees <=> ~Removed(f.t)
             /\ p \in DOMAIN x.tracees => x.tracees[p] = f.t /\ x.own[p] = p
             /\ x.ex = IF f.ex \in {"none", "ESRCH", "EIO"} THEN "none" ELSE f.ex
             /\ x.unknown = w.unknown /\ x.announced = w.announced
<1> DEFINE rest == DOMAIN w.tracees \ (IF Removed(f.t) THEN {p} ELSE {})
           threads == [w.th EXCEPT ![p] = f.k]
           T == IF in.kill = "no" THEN threads ELSE KillGroup(threads, p)
           tr == [q \in rest |-> IF q = p THEN f.t ELSE w.tracees[q]]
           ow == [q \in rest |-> IF q = p THEN p ELSE w.own[q]]
           vw == [q \in Pids |-> IF q = p THEN f.v ELSE w.view[q]]
           e == IF f.ex \in {"none", "ESRCH", "EIO"} THEN "none" ELSE f.ex
           x == [w EXCEPT !.th = T, !.tracees = tr, !.own = ow, !.view = vw, !.ex = e]
<1>1. Concluded(w, p, in, f) = x
  <2>1. RequestPid(w, p, in) = p /\ ~Substitutes(w, p, in)
    BY DEF RequestPid, Substitutes
  <2> DEFINE dropped == IF Substitutes(w, p, in) THEN {msg[p]} ELSE {}
             pid == RequestPid(w, p, in)
             rest2 == DOMAIN w.tracees \ (dropped \cup (IF Removed(f.t) THEN {p} ELSE {}))
             tr2 == [q \in rest2 |-> IF q = p THEN f.t ELSE w.tracees[q]]
             ow2 == [q \in rest2 |-> IF q = p THEN pid ELSE w.own[q]]
             threads2 == [w.th EXCEPT ![pid] = f.k]
             T2 == IF in.kill = "no" THEN threads2 ELSE KillGroup(threads2, p)
             vw2 == [q \in Pids |-> IF q = p THEN f.v ELSE IF q \in dropped THEN NewView ELSE w.view[q]]
  <2>2. Concluded(w, p, in, f) = [w EXCEPT !.th = T2, !.tracees = tr2, !.own = ow2, !.view = vw2, !.ex = e]
    BY DEF Concluded
  <2>3. dropped = {} /\ pid = p
    BY <2>1
  <2>4. rest2 = rest
    BY <2>3
  <2> HIDE DEF dropped, pid, rest2, rest
  <2>5. tr2 = tr /\ ow2 = ow /\ threads2 = threads /\ vw2 = vw
    BY <2>3, <2>4
  <2> HIDE DEF tr, ow, threads, vw, tr2, ow2, threads2, vw2, e
  <2>6. T2 = T
    BY <2>5
  <2> HIDE DEF T, T2
  <2> QED BY <2>2, <2>5, <2>6
<1>2. /\ w.th \in [Pids -> Thread] /\ DOMAIN w.tracees \subseteq Pids /\ p \in Pids
      /\ DOMAIN w.own = DOMAIN w.tracees /\ w \in Contexts
  BY ContextParts DEF ContextInv
<1>3. threads \in [Pids -> Thread] /\ threads[p] = f.k /\ \A q \in Pids \ {p} : threads[q] = w.th[q]
  BY <1>2
<1>4. /\ DOMAIN tr = rest /\ DOMAIN ow = rest /\ rest \subseteq DOMAIN w.tracees /\ (p \in rest <=> ~Removed(f.t))
      /\ \A q \in Pids \ {p} : /\ q \in rest <=> q \in DOMAIN w.tracees
                               /\ q \in rest => tr[q] = w.tracees[q] /\ ow[q] = w.own[q]
                               /\ vw[q] = w.view[q]
      /\ p \in rest => tr[p] = f.t /\ ow[p] = p
      /\ vw[p] = f.v
  BY <1>2
<1> HIDE DEF threads
<1>5. T = threads \/ \A q \in Pids : T[q] = IF q \in Group(p) THEN Kill(threads[q]) ELSE threads[q]
  BY DEF KillGroup
<1> HIDE DEF T, tr, ow, vw, rest, e
<1>6. /\ x.th = T /\ x.tracees = tr /\ x.own = ow /\ x.view = vw /\ x.ex = e
      /\ x.unknown = w.unknown /\ x.announced = w.announced
  BY <1>2 DEF Contexts
<1> HIDE DEF x
<1>7. \A q \in Pids \ {p} : SameFor(w, x, q)
  BY <1>4, <1>6 DEF SameFor
<1>8. /\ \/ \A q \in Pids \ {p} : T[q] = w.th[q]
         \/ \A q \in Pids \ {p} : T[q] = IF q \in Group(p) THEN Kill(w.th[q]) ELSE w.th[q]
      /\ T[p] \in {f.k, Kill(f.k)}
  BY <1>2, <1>3, <1>5
<1> QED
  BY <1>1, <1>2, <1>4, <1>6, <1>7, <1>8 DEF e

\* All threads but p advance, and p can still be handed to the Engine.
LEMMA ConcludedHanded ==
  ASSUME NEW w, ContextInv(w), NEW p \in DOMAIN w.tracees, NEW in, in.ev # "EV_EXEC", w.own[p] = p,
         NEW f, Finished(f), \A q \in Pids \ {p} : Calm(w.th[q])
  PROVE  LET x == Concluded(w, p, in, f)
         IN  Handed(x, p) /\ OthersStay(w, x, p) /\ x.ex = IF f.ex \in {"none", "ESRCH", "EIO"} THEN "none" ELSE f.ex
<1> DEFINE x == Concluded(w, p, in, f)
<1>1. p \in Pids /\ p \in Known(w.announced)
  BY ContextParts DEF ContextInv
<1>2. /\ f \in Frames /\ Rested(f) /\ Joined(f.t, f.k, f.v) /\ Calm(f.k) /\ f.k \in Thread /\ f.t \in Tracees
  BY FrameParts DEF Finished, Rested, Calm
<1>3. /\ \A q \in Pids \ {p} : SameFor(w, x, q)
      /\ \/ \A q \in Pids \ {p} : x.th[q] = w.th[q]
         \/ \A q \in Pids \ {p} : x.th[q] = IF q \in Group(p) THEN Kill(w.th[q]) ELSE w.th[q]
      /\ x.th[p] \in {f.k, Kill(f.k)} /\ x.view[p] = f.v
      /\ p \in DOMAIN x.tracees <=> ~Removed(f.t)
      /\ p \in DOMAIN x.tracees => x.tracees[p] = f.t /\ x.own[p] = p
      /\ x.ex = IF f.ex \in {"none", "ESRCH", "EIO"} THEN "none" ELSE f.ex
  BY <1>2, ConcludedParts
<1> HIDE DEF x
<1>4. OthersStay(w, x, p)
  <2> SUFFICES ASSUME NEW q \in Pids \ {p}
               PROVE  Advances(w.th[q], x.th[q]) /\ (ChildStop(x.th[q]) => ChildStop(w.th[q]))
    BY <1>3 DEF OthersStay
  <2>1. x.th[q] \in {w.th[q], Kill(w.th[q])} /\ Calm(w.th[q])
    BY <1>3
  <2> QED BY <2>1, IdleAdvances, KillAdvances
<1>5. Calm(x.th[p]) /\ ~ChildStop(x.th[p]) /\ (x.th[p].run = "stop" => x.th[p] = f.k) /\ Advances(f.k, x.th[p])
  <2>1. CASE x.th[p] = f.k
    BY <1>2, <2>1, IdleAdvances DEF Rested, ChildStop
  <2>2. CASE x.th[p] = Kill(f.k)
    <3>1. Calm(Kill(f.k)) /\ Down(Kill(f.k)) /\ Advances(f.k, Kill(f.k))
      BY <1>2, KillCalm, KillAdvances
    <3> QED BY <2>2, <3>1 DEF Down, ChildStop
  <2> QED BY <1>3, <2>1, <2>2
<1>6. Joined(f.t, x.th[p], f.v)
  BY <1>2, <1>5, AdvanceJoined
<1>7. Bonded(x, p)
  <2>1. CASE p \in DOMAIN x.tracees
    BY <1>3, <1>6, <2>1 DEF Bonded
  <2>2. CASE p \notin DOMAIN x.tracees
    <3>1. ~f.t.valid \/ x.th[p].run = "gone"
      BY <1>3, <1>6, <2>2 DEF Removed, Joined, Bound
    <3>2. ~Live(x.th[p]) /\ (f.v.asked \/ x.th[p].run = "gone")
      BY <1>6, <3>1 DEF Joined, Bound, Live
    <3> QED BY <1>3, <2>2, <3>2 DEF Bonded
  <2> QED BY <2>1, <2>2
<1>8. x.ex = "none" => NoneForgotten(x, p)
  <2>1. x.ex = "none" => f.ex \notin {"mismatch", "null"}
    BY <1>3
  <2> QED BY <1>2, <1>3, <1>5, <2>1 DEF NoneForgotten, Rested
<1> QED
  BY <1>3, <1>4, <1>5, <1>7, <1>8 DEF Handed, x

\* The frame the Tracee of p starts with, at an event other than an execve().
LEMMA PlainFrame ==
  ASSUME NEW w, ContextInv(w), NEW p \in DOMAIN w.tracees, NEW in, in.ev # "EV_EXEC", w.own[p] = p,
         msg \in [Pids -> Pids]
  PROVE  LET f == FrameOf(w, p, in)
         IN  f \in Frames /\ f.t = w.tracees[p] /\ f.k = w.th[p] /\ f.v = w.view[p] /\ f.ex = "none"
<1>1. RequestPid(w, p, in) = p /\ ~Substitutes(w, p, in)
  BY DEF RequestPid, Substitutes
<1>2. FrameOf(w, p, in) \in Frames
  BY FrameOfType
<1> QED
  BY <1>1, <1>2 DEF FrameOf

\* processEvent() for a status that wait() has just returned, a being the thread before.
LEMMA EventHanded ==
  ASSUME NEW w, ContextInv(w), TypeInv, NEW p \in DOMAIN w.tracees, NEW in \in InputRecords, w.own[p] = p,
         NEW a, Calm(a), a.status, w.th[p] = Collect(a), in.ev = a.at, Joined(w.tracees[p], a, w.view[p]),
         \A q \in Pids \ {p} : Calm(w.th[q]), NEW x \in TraceeProcessEvent(w, p, in)
  PROVE  /\ Handed(x, p) /\ OthersStay(w, x, p)
         /\ in.ev = "EV_CHILD" /\ w.tracees[p].cur # "none" => x.ex = "none"
<1> DEFINE f == FrameOf(w, p, in)
           g == Final(ProcessEvent(f, in))
<1>1. in.ev # "EV_EXEC"
  BY DEF Calm, ThreadInv, SyscallStops
<1>2. f \in Frames /\ f.t = w.tracees[p] /\ f.k = w.th[p] /\ f.v = w.view[p] /\ f.ex = "none"
  BY <1>1, PlainFrame DEF TypeInv
<1>3. x = Concluded(w, p, in, g)
  BY DEF TraceeProcessEvent, Final
<1> HIDE DEF f
<1>4. /\ Finished(g)
      /\ in.ev = "EV_CHILD" /\ f.t.cur # "none" => g.ex \in {"none", "ESRCH"}
  BY <1>2, EventFinished
<1> HIDE DEF g
<1>5. Handed(x, p) /\ OthersStay(w, x, p) /\ x.ex = IF g.ex \in {"none", "ESRCH", "EIO"} THEN "none" ELSE g.ex
  BY <1>1, <1>3, <1>4, ConcludedHanded
<1> QED
  BY <1>2, <1>4, <1>5

\* A child whose Tracee is new: its thread is in its first stop, or has been killed.
Fledged(x, c) ==
    /\ Calm(x.th[c]) /\ c \in DOMAIN x.tracees /\ Bonded(x, c) /\ c \in Known(x.announced)
    /\ x.th[c].run # "run" /\ (Live(x.th[c]) => FirstStop(x.th[c]))
    /\ x.th[c].run = "stop" /\ ~x.th[c].status => c \in DOMAIN x.unknown \/ Excused(x.th[c], x.view[c])
    /\ c \in DOMAIN x.unknown => x.unknown[c] = "EV_STOP_TRAP" /\ (Live(x.th[c]) => ~x.th[c].status)

\* It reports no child itself.
LEMMA FledgedSilent ==
  ASSUME NEW k, Calm(k), Live(k) => FirstStop(k) PROVE k.status => k.at # "EV_CHILD"
BY DEF Calm, ThreadInv, Live, FirstStop, PtraceStops, SyscallStops, EventStops, SignalStops

\* processEvent() for a status that was stored.
LEMMA StoredHanded ==
  ASSUME NEW w, ContextInv(w), TypeInv, NEW c, Fledged(w, c), c \in DOMAIN w.unknown, NEW in \in InputRecords,
         in.ev = "EV_STOP_TRAP", \A q \in Pids \ {c} : Calm(w.th[q]), NEW x \in TraceeProcessEvent(w, c, in)
  PROVE  Handed(x, c) /\ OthersStay(w, x, c) /\ x.ex = "none"
<1> DEFINE f == FrameOf(w, c, in)
           g == Final(ProcessEvent(f, in))
<1>1. /\ c \in DOMAIN w.tracees /\ w.own[c] = c /\ Joined(w.tracees[c], w.th[c], w.view[c]) /\ Calm(w.th[c])
      /\ w.th[c].run # "run" /\ (Live(w.th[c]) => FirstStop(w.th[c]) /\ ~w.th[c].status)
  BY DEF Fledged, Bonded
<1>2. f \in Frames /\ f.t = w.tracees[c] /\ f.k = w.th[c] /\ f.v = w.view[c] /\ f.ex = "none"
  BY <1>1, PlainFrame DEF TypeInv
<1>3. x = Concluded(w, c, in, g)
  BY DEF TraceeProcessEvent, Final
<1> HIDE DEF f
<1>4. f.k.status => f.k.at # "EV_CHILD"
  BY <1>1, <1>2, FledgedSilent
<1>5. Live(f.k) => f.k.at = "EV_STOP_TRAP" /\ ~f.k.status
  BY <1>1, <1>2 DEF FirstStop
<1>6. Finished(g) /\ g.ex \in {"none", "ESRCH"}
  BY <1>1, <1>2, <1>4, <1>5, StoredFinished
<1> HIDE DEF g
<1>7. Handed(x, c) /\ OthersStay(w, x, c) /\ x.ex = IF g.ex \in {"none", "ESRCH", "EIO"} THEN "none" ELSE g.ex
  BY <1>1, <1>3, <1>6, ConcludedHanded
<1> QED
  BY <1>6, <1>7

\* The Tracee that handleAutoAttach() creates, and what it is after a detach().
AutoAttached == [NewTracee(FALSE) EXCEPT !.flags = {"WAIT_FOR_ATTACH_STOP"}]
Leaving == [AutoAttached EXCEPT !.flags = {"WAIT_FOR_ATTACH_STOP", "DETACH_AT_NEXT_STOP"}]

\* The new Tracee and what the consumer knows of it after newChildProcess().
Fresh(t, v) == \/ t = AutoAttached /\ v = NewView
               \/ t = Leaving /\ v = [NewView EXCEPT !.asked = TRUE]

\* Either waits for its attach-stop, and goes at its next stop only if the consumer asked.
LEMMA FreshParts ==
  ASSUME NEW t, NEW v, Fresh(t, v)
  PROVE  /\ t.child = FALSE /\ t.state = "UNKNOWN" /\ t.mode = "CONT" /\ t.valid /\ ~t.blocked /\ t.intr = "none"
         /\ t.flags \in {{"WAIT_FOR_ATTACH_STOP"}, {"WAIT_FOR_ATTACH_STOP", "DETACH_AT_NEXT_STOP"}}
         /\ "DETACH_AT_NEXT_STOP" \in t.flags <=> v.asked
         /\ ~v.attached /\ ~v.insys /\ v.ends = 0 /\ ~v.lost /\ ~v.wrong /\ ~v.refused /\ ~v.early
         /\ v.intr = "none"
<1> DEFINE n == AutoAttached
           l == Leaving
           asked == [NewView EXCEPT !.asked = TRUE]
<1>1. /\ n.child = FALSE /\ n.state = "UNKNOWN" /\ n.mode = "CONT" /\ n.valid /\ ~n.blocked /\ n.intr = "none"
      /\ n.flags = {"WAIT_FOR_ATTACH_STOP"}
  BY DEF AutoAttached, NewTracee
<1>2. /\ l.child = FALSE /\ l.state = "UNKNOWN" /\ l.mode = "CONT" /\ l.valid /\ ~l.blocked /\ l.intr = "none"
      /\ l.flags = {"WAIT_FOR_ATTACH_STOP", "DETACH_AT_NEXT_STOP"}
  BY DEF Leaving, AutoAttached, NewTracee
<1>3. LET e == NewView
      IN  /\ ~e.attached /\ ~e.insys /\ e.ends = 0 /\ ~e.lost /\ ~e.wrong /\ ~e.refused /\ ~e.early
          /\ e.intr = "none" /\ ~e.asked
  BY DEF NewView
<1>4. LET e == asked
      IN  /\ ~e.attached /\ ~e.insys /\ e.ends = 0 /\ ~e.lost /\ ~e.wrong /\ ~e.refused /\ ~e.early
          /\ e.intr = "none" /\ e.asked
  BY DEF NewView
<1> HIDE DEF n, l, asked
<1>5. (t = n /\ v = NewView) \/ (t = l /\ v = asked)
  BY DEF Fresh, n, l, asked
<1>6. CASE t = n /\ v = NewView
  BY <1>1, <1>3, <1>6
<1>7. CASE t = l /\ v = asked
  BY <1>2, <1>4, <1>7
<1> QED
  BY <1>5, <1>6, <1>7

\* What the consumer may be told after a detach() it may have been told without it.
LEMMA FreshTells ==
  ASSUME NEW t, NEW v, Fresh(t, v), NEW z, Tells(v, z)
  PROVE  Tells(NewView, z)
<1> DEFINE e == NewView
<1>1. ~e.attached /\ ~e.insys /\ e.ends = 0 /\ e.intr = "none" /\ ~e.asked
  BY DEF NewView
<1>2. ~v.attached /\ ~v.insys /\ v.ends = 0 /\ v.intr = "none"
  BY FreshParts
<1>3. v.attached = e.attached /\ v.insys = e.insys
  BY DEF Fresh, NewView
<1> HIDE DEF e
<1> QED
  BY <1>1, <1>2, <1>3 DEF Tells, e

\* handleAutoAttach(): a thread nobody has heard of gets its Tracee.
LEMMA AutoAttachFledged ==
  ASSUME NEW w, ContextInv(w), NEW l, NEW c \in Pids, Fit(w, l, c), c \notin Known(w.announced), l[c] # NoPid
  PROVE  LET x == AutoAttach(w, c)
         IN  /\ Fledged(x, c) /\ x.th = w.th /\ x.born = c /\ x.ex = w.ex /\ x.unknown = w.unknown
             /\ x.announced = w.announced \cup {c}
             /\ \A q \in Pids \ {c} : SameFor(w, x, q)
             /\ x.tracees[c] = AutoAttached /\ x.view = w.view
<1> DEFINE n == [NewTracee(FALSE) EXCEPT !.flags = {"WAIT_FOR_ATTACH_STOP"}]
           tr == With(w.tracees, c, n)
           ow == With(w.own, c, c)
           an == w.announced \cup {c}
           x == AutoAttach(w, c)
           k == w.th[c]
<1>1. w \in Contexts /\ DOMAIN w.own = DOMAIN w.tracees /\ c \notin DOMAIN w.tracees
  BY DEF ContextInv
<1>2. x = [w EXCEPT !.tracees = tr, !.own = ow, !.announced = an, !.born = c]
  BY <1>1 DEF AutoAttach
<1>3. /\ DOMAIN tr = DOMAIN w.tracees \cup {c} /\ tr[c] = n
      /\ \A q \in DOMAIN w.tracees \ {c} : tr[q] = w.tracees[q]
      /\ DOMAIN ow = DOMAIN w.own \cup {c} /\ ow[c] = c
      /\ \A q \in DOMAIN w.own \ {c} : ow[q] = w.own[q]
  BY DEF With
<1>4. /\ n.state = "UNKNOWN" /\ n.flags = {"WAIT_FOR_ATTACH_STOP"} /\ n.mode = "CONT" /\ n.valid /\ ~n.blocked
  BY DEF NewTracee
<1>5. /\ Calm(k) /\ k.traced /\ (Live(k) => FirstStop(k))
      /\ k.run = "stop" /\ ~k.status => c \in DOMAIN w.unknown \/ k.at = "EV_EXIT"
      /\ c \in DOMAIN w.unknown => w.unknown[c] = "EV_STOP_TRAP" /\ (Live(k) => ~k.status)
  BY DEF Fit, UnheardFit
<1>6. k.run # "run" /\ ~w.view[c].attached
  BY DEF ContextInv
<1> HIDE DEF tr, ow, n
<1>7. /\ x.tracees = tr /\ x.own = ow /\ x.announced = an /\ x.born = c /\ x.th = w.th /\ x.ex = w.ex
      /\ x.unknown = w.unknown /\ x.view = w.view
  BY <1>1, <1>2 DEF Contexts
<1> HIDE DEF x, k
<1>8. Joined(n, k, w.view[c])
  <2>1. Bound(n, k, w.view[c])
    BY <1>4, <1>5 DEF Bound
  <2>2. Live(k) => Synced(n, k)
    BY <1>4, <1>5 DEF FirstStop, Synced, SyscallStopPending, SyscallStops
  <2> QED BY <2>1, <2>2 DEF Joined
<1>9. Fledged(x, c)
  <2>1. Bonded(x, c) /\ c \in DOMAIN x.tracees
    BY <1>3, <1>7, <1>8 DEF Bonded, k
  <2>2. c \in Known(x.announced)
    BY <1>7 DEF Known
  <2> QED BY <1>5, <1>6, <1>7, <2>1, <2>2 DEF Fledged, k, Excused
<1>10. \A q \in Pids \ {c} : SameFor(w, x, q)
  BY <1>1, <1>3, <1>7 DEF SameFor, Known
<1> QED
  BY <1>3, <1>7, <1>9, <1>10 DEF x, n, AutoAttached

\* newChildProcess(): detach() leaves the thread in its first stop.
LEMMA ChildDetachedParts ==
  ASSUME NEW w, ContextInv(w), NEW c \in DOMAIN w.tracees, w.tracees[c] = AutoAttached
  PROVE  LET x == ChildDetached(w, c)
         IN  /\ x.th = w.th /\ x.tracees[c] = Leaving /\ x.view[c] = [w.view[c] EXCEPT !.asked = TRUE]
<1> DEFINE f == [t |-> w.tracees[c], k |-> w.th[c], v |-> w.view[c], ex |-> "none"]
           v == [f.v EXCEPT !.asked = TRUE]
           a == [f EXCEPT !.v = v]
           d == DetachTracee(f)
           t == [a.t EXCEPT !.flags = @ \cup {"DETACH_AT_NEXT_STOP"}]
           g == [a EXCEPT !.t = t]
           tr == With(w.tracees, c, d.t)
           ths == [w.th EXCEPT ![c] = d.k]
           vw == [w.view EXCEPT ![c] = d.v]
           x == [w EXCEPT !.tracees = tr, !.th = ths, !.view = vw]
<1>1. /\ w.th \in [Pids -> Thread] /\ w.view \in [Pids -> Views] /\ c \in Pids /\ w \in Contexts
      /\ w.tracees[c] \in Tracees
  BY ContextParts, MapFacts DEF ContextInv
<1>2. f.t = AutoAttached /\ f.k = w.th[c] /\ f.v = w.view[c] /\ f \in Frames
  BY <1>1 DEF Frames
<1>3. /\ AutoAttached.flags = {"WAIT_FOR_ATTACH_STOP"} /\ AutoAttached.valid /\ AutoAttached.state = "UNKNOWN"
      /\ Leaving = [AutoAttached EXCEPT !.flags = {"WAIT_FOR_ATTACH_STOP", "DETACH_AT_NEXT_STOP"}]
      /\ Leaving.flags = {"WAIT_FOR_ATTACH_STOP", "DETACH_AT_NEXT_STOP"}
  BY DEF Leaving, AutoAttached, NewTracee
<1>4. ChildDetached(w, c) = x
  BY DEF ChildDetached
<1> HIDE DEF f, v
<1>5. a.t = AutoAttached /\ a.k = w.th[c] /\ a.v = v
  BY <1>2 DEF Frames
<1> HIDE DEF a
<1>6. t = Leaving
  <2>1. {"WAIT_FOR_ATTACH_STOP"} \cup {"DETACH_AT_NEXT_STOP"} = {"WAIT_FOR_ATTACH_STOP", "DETACH_AT_NEXT_STOP"}
    OBVIOUS
  <2> QED BY <1>3, <1>5, <2>1
<1> HIDE DEF t
<1>7. g.t = Leaving /\ g.k = w.th[c] /\ g.v = v
  <2>1. a \in [t : {a.t}, k : {a.k}, v : {a.v}, ex : {a.ex}]
    BY <1>2 DEF a, Frames
  <2> QED BY <1>5, <1>6, <2>1
<1>8. "WAIT_FOR_ATTACH_STOP" \in g.t.flags /\ a.t.valid /\ a.t.state = "UNKNOWN"
  BY <1>3, <1>5, <1>7
<1> HIDE DEF g
<1>9. d = g
  BY <1>8 DEF DetachTracee, a, g, t, v
<1> HIDE DEF d
<1>10. v = [w.view[c] EXCEPT !.asked = TRUE]
  BY <1>2 DEF v
<1>11. tr[c] = Leaving /\ vw[c] = [w.view[c] EXCEPT !.asked = TRUE] /\ ths = w.th
  BY <1>1, <1>7, <1>9, <1>10 DEF With
<1> HIDE DEF tr, vw, ths
<1>12. x.tracees = tr /\ x.view = vw /\ x.th = ths
  BY <1>1 DEF Contexts
<1> QED
  BY <1>4, <1>11, <1>12

\* handleAutoAttach(), newChildProcess() included.
LEMMA NewChildFledged ==
  ASSUME NEW w, ContextInv(w), NEW l, NEW c \in Pids, Fit(w, l, c), c \notin Known(w.announced), l[c] # NoPid,
         NEW b \in NewChildProcess(AutoAttach(w, c), c)
  PROVE  /\ ContextInv(b) /\ Fledged(b, c) /\ b.th = w.th /\ b.born = c /\ b.ex = w.ex /\ b.unknown = w.unknown
         /\ b.announced = w.announced \cup {c}
         /\ \A q \in Pids \ {c} : SameFor(w, b, q)
         /\ w.view[c] = NewView => Fresh(b.tracees[c], b.view[c])
<1> DEFINE x == AutoAttach(w, c)
<1>1. /\ Fledged(x, c) /\ x.th = w.th /\ x.born = c /\ x.ex = w.ex /\ x.unknown = w.unknown
      /\ x.announced = w.announced \cup {c} /\ x.tracees[c] = AutoAttached /\ x.view = w.view
      /\ \A q \in Pids \ {c} : SameFor(w, x, q)
  BY AutoAttachFledged
<1>2. ContextInv(x) /\ c \in DOMAIN x.tracees
  BY <1>1, AutoAttachInv DEF Fledged
<1>3. b = x \/ b = ChildDetached(x, c)
  BY DEF NewChildProcess
<1>4. b \in NewChildProcess(x, c)
  OBVIOUS
<1> HIDE DEF x
<1>5. CASE b = x
  BY <1>1, <1>2, <1>5 DEF Fresh
<1>6. CASE b = ChildDetached(x, c)
  <2>1. /\ ContextInv(b) /\ b.born = x.born /\ DOMAIN b.tracees = DOMAIN x.tracees
        /\ b.own = x.own /\ b.unknown = x.unknown /\ b.announced = x.announced /\ b.ex = x.ex
        /\ \A q \in Pids \ {c} : b.th[q] = x.th[q] /\ b.view[q] = x.view[q]
        /\ \A q \in DOMAIN x.tracees \ {c} : b.tracees[q] = x.tracees[q]
    BY <1>2, <1>4, NewChildProcessInv
  <2>2. b.th = x.th /\ b.tracees[c] = Leaving /\ b.view[c] = [x.view[c] EXCEPT !.asked = TRUE]
    BY <1>1, <1>2, <1>6, ChildDetachedParts
  <2>3. ASSUME NEW q \in Pids \ {c} PROVE SameFor(w, b, q)
    <3>1. SameFor(w, x, q)
      BY <1>1
    <3> QED BY <2>1, <3>1 DEF SameFor
  <2>4. x.view[c] \in Views
    BY <1>2, ContextParts
  <2>5. /\ b.view[c].asked /\ b.view[c].attached = x.view[c].attached
    BY <2>2, <2>4 DEF Views
  <2>6. Joined(b.tracees[c], b.th[c], b.view[c])
    <3>1. Joined(AutoAttached, x.th[c], x.view[c]) /\ Calm(x.th[c])
      BY <1>1 DEF Fledged, Bonded
    <3>2. /\ Leaving.state = AutoAttached.state /\ Leaving.mode = AutoAttached.mode /\ Leaving.valid = AutoAttached.valid
          /\ Leaving.cur = AutoAttached.cur /\ Leaving.intr = AutoAttached.intr /\ Leaving.valid
          /\ ~Leaving.blocked /\ Leaving.state = "UNKNOWN"
          /\ "SYSCALL_ENTERED" \in Leaving.flags <=> "SYSCALL_ENTERED" \in AutoAttached.flags
      BY DEF Leaving, AutoAttached, NewTracee
    <3>3. Bound(Leaving, b.th[c], b.view[c])
      BY <2>2, <2>5, <3>1, <3>2 DEF Joined, Bound
    <3>4. Live(b.th[c]) => Synced(Leaving, b.th[c])
      BY <2>2, <3>1, <3>2 DEF Joined, Synced
    <3> QED BY <2>2, <3>3, <3>4 DEF Joined
  <2>7. Fledged(b, c)
    <3>1. Bonded(b, c) /\ c \in DOMAIN b.tracees
      BY <1>1, <2>1, <2>6 DEF Fledged, Bonded
    <3>2. Excused(x.th[c], x.view[c]) => Excused(b.th[c], b.view[c])
      BY <2>2, <2>5 DEF Excused
    <3> QED BY <1>1, <2>1, <2>2, <3>1, <3>2 DEF Fledged
  <2>8. w.view[c] = NewView => Fresh(b.tracees[c], b.view[c])
    BY <1>1, <2>2 DEF Fresh
  <2> QED BY <1>1, <2>1, <2>2, <2>3, <2>7, <2>8
<1> QED
  BY <1>3, <1>5, <1>6

\* What happens to other threads meanwhile does not concern the child.
LEMMA FledgedStays ==
  ASSUME NEW w, ContextInv(w), NEW x, NEW c \in Pids, Fledged(w, c), SameFor(w, x, c), Advances(w.th[c], x.th[c])
  PROVE  Fledged(x, c)
<1> DEFINE a == w.th[c]
           b == x.th[c]
           U == c \in DOMAIN w.unknown
           X == c \in DOMAIN x.unknown
           v == w.view[c]
<1>1. U \in BOOLEAN /\ X = U /\ (U => x.unknown[c] = w.unknown[c]) /\ x.view[c] = v
  BY DEF SameFor
<1>2. /\ a.run # "run" /\ (Live(a) => FirstStop(a))
      /\ a.run = "stop" /\ ~a.status => U \/ Excused(a, v)
      /\ U => w.unknown[c] = "EV_STOP_TRAP" /\ (Live(a) => ~a.status)
  BY DEF Fledged
<1>3. /\ Calm(b) /\ (Live(b) => Live(a)) /\ (Live(b) /\ FirstStop(a) => b = a)
      /\ (b.run = "stop" /\ ~b.status => b = a) /\ (b.run = "run" => a.run = "run")
  BY DEF Advances
<1>4. Bonded(x, c) /\ c \in DOMAIN x.tracees /\ c \in Known(x.announced)
  <2>1. /\ Calm(a) /\ c \in DOMAIN w.tracees /\ w.own[c] = c /\ Joined(w.tracees[c], a, v)
        /\ c \in Known(w.announced)
    BY DEF Fledged, Bonded
  <2>2. w.tracees[c] \in Tracees
    BY <2>1, ContextParts, MapFacts
  <2>3. Joined(w.tracees[c], b, v)
    BY <2>1, <2>2, AdvanceJoined
  <2> QED BY <1>1, <2>1, <2>3 DEF SameFor, Bonded
<1> HIDE DEF a, b, U, X, v
<1>5. /\ b.run # "run" /\ (Live(b) => FirstStop(b))
      /\ b.run = "stop" /\ ~b.status => X \/ Excused(b, v)
      /\ X => x.unknown[c] = "EV_STOP_TRAP" /\ (Live(b) => ~b.status)
  BY <1>1, <1>2, <1>3
<1> QED
  BY <1>1, <1>3, <1>4, <1>5 DEF Fledged, b, X

\* checkUnknownEvents(): after it no stop of the child is forgotten.
LEMMA CheckUnknownEventsHanded ==
  ASSUME NEW w, ContextInv(w), TypeInv, NEW c \in Pids, w.born = c, w.ex = "none", Fledged(w, c),
         \A q \in Pids \ {c} : Calm(w.th[q]), NEW x \in CheckUnknownEvents(w)
  PROVE  /\ Handed(x, c) /\ c \notin DOMAIN x.unknown /\ x.ex = "none" /\ x.announced = w.announced
         /\ OthersStay(w, x, c)
<1>1. CASE c \notin DOMAIN w.unknown
  <2>1. x = w
    BY <1>1 DEF CheckUnknownEvents
  <2>2. OthersStay(w, w, c)
    BY IdleAdvances DEF OthersStay, SameFor
  <2>3. Calm(w.th[c]) /\ (w.th[c].status => w.th[c].at # "EV_CHILD")
    BY FledgedSilent DEF Fledged
  <2>4. Handed(w, c)
    BY <1>1, <2>3 DEF Fledged, Handed, NoneForgotten, ChildStop
  <2> QED BY <1>1, <2>1, <2>2, <2>4
<1>2. CASE c \in DOMAIN w.unknown
  <2> DEFINE e == w.unknown[c]
  <2>1. PICK y \in UNION {TraceeProcessEvent(w, c, in) : in \in Inputs(e)} :
               x = [y EXCEPT !.unknown = Without(y.unknown, c)]
    BY <1>2 DEF CheckUnknownEvents
  <2>2. PICK in \in Inputs(e) : y \in TraceeProcessEvent(w, c, in)
    BY <2>1
  <2>3. e = "EV_STOP_TRAP"
    BY <1>2 DEF Fledged
  <2>4. in \in InputRecords /\ in.ev = "EV_STOP_TRAP"
    <3>1. killing \in BOOLEAN /\ "EV_STOP_TRAP" \in Statuses \cup {"none"}
      BY DEF TypeInv, Statuses, PtraceStops, EventStops
    <3>2. in.ev = e
      BY <2>2 DEF Inputs
    <3> QED BY <2>2, <2>3, <3>1, <3>2, InputsType
  <2>5. Handed(y, c) /\ OthersStay(w, y, c) /\ y.ex = "none"
    BY <1>2, <2>2, <2>4, StoredHanded
  <2>6. ContextInv(y) /\ y.announced = w.announced
    <3>1. c \in DOMAIN w.tracees
      BY DEF Fledged
    <3> QED BY <2>2, <2>4, <3>1, TraceeProcessEventInv
  <2> DEFINE u == Without(y.unknown, c)
  <2>7. DOMAIN u = DOMAIN y.unknown \ {c} /\ \A q \in DOMAIN u : u[q] = y.unknown[q]
    BY DEF Without, Restrict
  <2> HIDE DEF u, e
  <2>8. x = [y EXCEPT !.unknown = u]
    BY <2>1 DEF u
  <2>9. /\ x.th = y.th /\ x.tracees = y.tracees /\ x.own = y.own /\ x.view = y.view
        /\ x.announced = y.announced /\ x.ex = y.ex /\ x.unknown = u
    <3>1. y \in Contexts
      BY <2>6 DEF ContextInv
    <3> QED BY <2>8, <3>1 DEF Contexts
  <2>10. Handed(x, c)
    BY <2>5, <2>9 DEF Handed, Bonded, NoneForgotten
  <2>11. OthersStay(w, x, c)
    <3> SUFFICES ASSUME NEW q \in Pids \ {c}
                 PROVE  SameFor(w, x, q) /\ Advances(w.th[q], x.th[q]) /\ (ChildStop(x.th[q]) => ChildStop(w.th[q]))
      BY DEF OthersStay
    <3>1. SameFor(w, y, q) /\ Advances(w.th[q], y.th[q]) /\ (ChildStop(y.th[q]) => ChildStop(w.th[q]))
      BY <2>5 DEF OthersStay
    <3>2. SameFor(w, x, q)
      BY <2>7, <2>9, <3>1 DEF SameFor
    <3> QED BY <2>9, <3>1, <3>2
  <2> QED BY <2>5, <2>6, <2>7, <2>9, <2>10, <2>11
<1> QED
  BY <1>1, <1>2

\* The other tracees and threads stay fit.
LEMMA OthersFit ==
  ASSUME NEW w, ContextInv(w), NEW x, NEW l, NEW p, OthersStay(w, x, p), NEW q \in Pids \ {p}, Fit(w, l, q)
  PROVE  Fit(x, l, q) /\ (NoneForgotten(w, q) => NoneForgotten(x, q)) /\ (ChildStop(x.th[q]) => ChildStop(w.th[q]))
<1>1. q \in DOMAIN w.tracees => w.tracees[q] \in Tracees
  BY ContextParts, MapFacts
<1>2. SameFor(w, x, q) /\ Advances(w.th[q], x.th[q]) /\ (ChildStop(x.th[q]) => ChildStop(w.th[q]))
  BY DEF OthersStay
<1> QED
  BY <1>1, <1>2, AdvanceFit

\* And so does the one that was handled.
LEMMA HandedFit ==
  ASSUME NEW x, NEW l, NEW p, Handed(x, p), p \in Known(x.announced), p \notin DOMAIN x.unknown
  PROVE  Fit(x, l, p) /\ (x.ex = "none" => NoneForgotten(x, p)) /\ ~ChildStop(x.th[p])
BY DEF Handed, Fit, KnownFit

\* What the handling of an event of p leaves: everything fits, and a new child has been
\* announced only if p reported it.
Outcome(x, p) ==
    /\ \A q \in Pids : Fit(x, leader, q)
    /\ x.ex = "none" => \A q \in Pids : NoneForgotten(x, q)
    /\ \A q \in Pids : ChildStop(x.th[q]) => ChildStop(th[q]) /\ q # p
    /\ x.announced = announced \/ (ChildStop(th[p]) /\ x.announced = announced \cup {msg[p]})

\* What the Engine starts from when wait() has returned a status of p.
LEMMA Collected ==
  ASSUME Inv, StepInv, over = "no", NEW p \in Pids
  PROVE  LET w == [Context EXCEPT !.th[p] = Collect(@)]
         IN  /\ w.th[p] = Collect(th[p]) /\ Fit(Context, leader, p) /\ Calm(th[p]) /\ NoneForgotten(Context, p)
             /\ \A q \in Pids \ {p} : Fit(w, leader, q) /\ NoneForgotten(w, q) /\ w.th[q] = th[q] /\ Calm(th[q])
<1> DEFINE w == [Context EXCEPT !.th[p] = Collect(@)]
<1>1. /\ w.th = [th EXCEPT ![p] = Collect(th[p])]
      /\ w.tracees = tracees /\ w.own = own /\ w.unknown = unknown /\ w.view = view
      /\ w.announced = announced
  BY CollectedContext
<1>2. /\ Context.th = th /\ Context.tracees = tracees /\ Context.own = own /\ Context.unknown = unknown
      /\ Context.view = view /\ Context.announced = announced
  BY DEF Context
<1>3. \A q \in Pids : Fit(Context, leader, q) /\ NoneForgotten(Context, q) /\ Calm(th[q])
  BY <1>2 DEF StepInv, Fit
<1> HIDE DEF w
<1>4. th \in [Pids -> Thread] /\ tracees \in Maps(Tracees)
  BY DEF Inv, TypeInv
<1>5. w.th[p] = Collect(th[p]) /\ \A q \in Pids \ {p} : w.th[q] = th[q]
  BY <1>1, <1>4
<1>6. ASSUME NEW q \in Pids \ {p} PROVE Fit(w, leader, q) /\ NoneForgotten(w, q)
  <2>1. SameFor(Context, w, q)
    BY <1>1, <1>2 DEF SameFor
  <2>2. Advances(Context.th[q], w.th[q])
    BY <1>2, <1>3, <1>5, IdleAdvances
  <2>3. q \in DOMAIN Context.tracees => Context.tracees[q] \in Tracees
    BY <1>2, <1>4, MapFacts
  <2> QED BY <1>3, <2>1, <2>2, <2>3, AdvanceFit
<1> QED
  BY <1>3, <1>5, <1>6 DEF w

\* An event other than the birth of a child, of a tracee in m_tracees.
LEMMA PlainOutcome ==
  ASSUME Inv, NEW w, ContextInv(w), w.announced = announced, NEW p \in Pids, p \in Known(announced),
         p \notin DOMAIN w.unknown, \A q \in Pids \ {p} : Fit(w, leader, q) /\ NoneForgotten(w, q) /\ w.th[q] = th[q],
         NEW x, Handed(x, p), OthersStay(w, x, p), x.unknown = w.unknown, x.announced = w.announced
  PROVE  Outcome(x, p)
<1>1. Fit(x, leader, p) /\ (x.ex = "none" => NoneForgotten(x, p)) /\ ~ChildStop(x.th[p])
  BY HandedFit
<1>2. \A q \in Pids \ {p} : /\ Fit(x, leader, q) /\ NoneForgotten(x, q)
                            /\ ChildStop(x.th[q]) => ChildStop(th[q])
  BY OthersFit
<1> QED
  BY <1>1, <1>2 DEF Outcome

\* handleEvent() for a new child, b being what handleAutoAttach() leaves, y what the
\* Tracee of its parent does.
LEMMA BirthOutcome ==
  ASSUME Inv, NEW p \in Pids, p \in Known(announced), p \notin DOMAIN unknown, ChildStop(th[p]),
         NEW c \in Pids \ {p}, c = msg[p], NEW b, ContextInv(b), Fledged(b, c), b.announced = announced \cup {c},
         b.unknown = unknown,
         \A q \in Pids \ {p, c} : Fit(b, leader, q) /\ NoneForgotten(b, q) /\ b.th[q] = th[q],
         NEW y, ContextInv(y), Handed(y, p), OthersStay(b, y, p), y.ex = "none", y.born = c,
         y.announced = b.announced, y.unknown = b.unknown,
         NEW x \in CheckUnknownEvents(y)
  PROVE  Outcome(x, p)
<1>1. TypeInv
  BY DEF Inv
<1>2. Fledged(y, c) /\ c \in DOMAIN y.tracees
  <2>1. SameFor(b, y, c) /\ Advances(b.th[c], y.th[c])
    BY DEF OthersStay
  <2>2. Fledged(y, c)
    BY <2>1, FledgedStays
  <2> QED BY <2>2 DEF Fledged
<1>3. \A q \in Pids \ {c} : Calm(y.th[q])
  BY DEF Handed, OthersStay, Advances
<1>4. /\ Handed(x, c) /\ c \notin DOMAIN x.unknown /\ x.ex = "none" /\ x.announced = y.announced
      /\ OthersStay(y, x, c)
  BY <1>1, <1>2, <1>3, CheckUnknownEventsHanded
<1>5. p \in Known(x.announced) /\ c \in Known(x.announced)
  BY <1>4 DEF Known
<1>6. Fit(x, leader, c) /\ NoneForgotten(x, c) /\ ~ChildStop(x.th[c])
  BY <1>4, <1>5, HandedFit
<1>7. Fit(y, leader, p) /\ NoneForgotten(y, p) /\ ~ChildStop(y.th[p])
  BY <1>4, <1>5, HandedFit
<1>8. Fit(x, leader, p) /\ NoneForgotten(x, p) /\ ~ChildStop(x.th[p])
  BY <1>4, <1>7, OthersFit
<1>9. ASSUME NEW q \in Pids \ {p, c}
      PROVE  Fit(x, leader, q) /\ NoneForgotten(x, q) /\ (ChildStop(x.th[q]) => ChildStop(th[q]))
  <2>1. Fit(y, leader, q) /\ NoneForgotten(y, q) /\ (ChildStop(y.th[q]) => ChildStop(th[q]))
    BY OthersFit
  <2> QED BY <1>4, <2>1, OthersFit
<1> QED
  BY <1>4, <1>6, <1>8, <1>9 DEF Outcome

\* handleEvent() of the Engine for a Tracee in m_tracees.
LEMMA HandleKnownOutcome ==
  ASSUME Inv, StepInv, over = "no", NEW p \in DOMAIN tracees, th[p].status,
         NEW x \in HandleKnown([Context EXCEPT !.th[p] = Collect(@)], p)
  PROVE  Outcome(x, p)
<1> DEFINE w == [Context EXCEPT !.th[p] = Collect(@)]
           c == msg[p]
           born(in) == /\ in.ev = "EV_CHILD" /\ ~HandlerCutShort(w.tracees[p], in)
                       /\ w.tracees[p].cur # "none"
           before(in) == IF born(in) THEN NewChildProcess(AutoAttach(w, c), c) ELSE {w}
<1>1. TypeInv /\ p \in Pids /\ c \in Pids /\ NoPid \notin Pids /\ p \in Known(announced)
  BY MapFacts, PidsAssumption DEF Inv, TypeInv, PidsInv
<1>2. PICK in \in Inputs(th[p].at) :
           \E b \in before(in) : \E y \in TraceeProcessEvent(b, p, in) : x \in CheckUnknownEvents(y)
  BY HandleKnownParts
<1>3. PICK b \in before(in) : \E y \in TraceeProcessEvent(b, p, in) : x \in CheckUnknownEvents(y)
  BY <1>2
<1>4. PICK y \in TraceeProcessEvent(b, p, in) : x \in CheckUnknownEvents(y)
  BY <1>3
<1>5. in \in InputRecords /\ in.ev = th[p].at
  <2>1. killing \in BOOLEAN /\ th[p].at \in Statuses \cup {"none"}
    BY <1>1 DEF TypeInv, Thread
  <2>2. in.ev = th[p].at
    BY <1>2 DEF Inputs
  <2> QED BY <1>2, <2>1, <2>2, InputsType
<1>6. /\ ContextInv(w) /\ w.tracees = tracees /\ w.own = own /\ w.unknown = unknown /\ w.view = view
      /\ w.announced = announced /\ w.born = NoPid /\ w.ex = "none"
  BY <1>1, CollectedContext
<1>7. /\ w.th[p] = Collect(th[p]) /\ Fit(Context, leader, p) /\ Calm(th[p]) /\ NoneForgotten(Context, p)
      /\ \A q \in Pids \ {p} : Fit(w, leader, q) /\ NoneForgotten(w, q) /\ w.th[q] = th[q] /\ Calm(th[q])
  BY <1>1, Collected
<1>8. own[p] = p /\ Joined(tracees[p], th[p], view[p]) /\ p \notin DOMAIN unknown
  BY <1>1, <1>7 DEF Fit, KnownFit, Bonded, Context
<1> HIDE DEF w, c
<1>9. CASE ~born(in)
  <2>1. b = w
    BY <1>3, <1>4, <1>9
  <2> HIDE DEF born
  <2>2. y \in TraceeProcessEvent(w, p, in)
    BY <1>3, <1>4, <2>1
  <2> HIDE DEF before
  <2>3. Handed(y, p) /\ OthersStay(w, y, p)
    BY <1>1, <1>5, <1>6, <1>7, <1>8, <2>2, EventHanded
  <2>4. y.born = w.born /\ y.unknown = w.unknown /\ y.announced = w.announced
    BY <1>1, <1>5, <1>6, <2>2, TraceeProcessEventInv
  <2>5. y.born \notin DOMAIN y.unknown
    <3>1. unknown \in Maps(EventStops)
      BY <1>1 DEF TypeInv
    <3> QED BY <1>1, <1>6, <2>4, <3>1, MapFacts
  <2>6. x = y
    BY <1>3, <1>4, <2>5 DEF CheckUnknownEvents
  <2> QED BY <1>1, <1>6, <1>7, <1>8, <2>3, <2>4, <2>6, PlainOutcome
<1>10. CASE born(in)
  <2>1. b \in NewChildProcess(AutoAttach(w, c), c) /\ in.ev = "EV_CHILD" /\ tracees[p].cur # "none"
    BY <1>3, <1>4, <1>6, <1>10
  <2>2. y \in TraceeProcessEvent(b, p, in)
    BY <1>3, <1>4
  <2> HIDE DEF born, before
  <2>3. ChildStop(th[p])
    BY <1>5, <1>7, <2>1 DEF ChildStop, Calm, ThreadInv
  <2>4. c \notin Known(announced) /\ leader[c] # NoPid /\ c # p
    BY <1>1, <2>3 DEF StepInv, ChildInv, c
  <2>5. /\ Fledged(b, c) /\ b.th = w.th /\ b.born = c /\ b.ex = w.ex /\ b.unknown = w.unknown
        /\ b.announced = w.announced \cup {c}
        /\ \A q \in Pids \ {c} : SameFor(w, b, q)
    BY <1>1, <1>6, <1>7, <2>1, <2>4, NewChildFledged
  <2>6. ContextInv(b)
    BY <1>1, <1>6, <1>7, <2>1, <2>4, NewChildFledged
  <2>7. p \in DOMAIN b.tracees /\ b.tracees[p] = tracees[p] /\ b.own[p] = p /\ b.view[p] = view[p]
        /\ b.th[p] = Collect(th[p])
    <3>1. SameFor(w, b, p)
      BY <1>1, <2>4, <2>5
    <3> QED BY <1>6, <1>7, <1>8, <2>5, <3>1 DEF SameFor
  <2>8. \A q \in Pids \ {p} : Calm(b.th[q])
    BY <1>7, <2>5
  <2>9. Handed(y, p) /\ OthersStay(b, y, p) /\ y.ex = "none"
    <3>1. Joined(b.tracees[p], th[p], b.view[p]) /\ Calm(th[p])
      BY <1>7, <1>8, <2>7
    <3>2. /\ Handed(y, p) /\ OthersStay(b, y, p)
          /\ in.ev = "EV_CHILD" /\ b.tracees[p].cur # "none" => y.ex = "none"
      BY <1>1, <1>5, <2>2, <2>6, <2>7, <2>8, <3>1, EventHanded
    <3> QED BY <2>1, <2>7, <3>2
  <2>10. ContextInv(y) /\ y.born = b.born /\ y.unknown = b.unknown /\ y.announced = b.announced
    BY <1>1, <1>5, <2>2, <2>6, <2>7, TraceeProcessEventInv
  <2>11. ASSUME NEW q \in Pids \ {p, c} PROVE Fit(b, leader, q) /\ NoneForgotten(b, q) /\ b.th[q] = th[q]
    <3>1. SameFor(w, b, q) /\ Advances(w.th[q], b.th[q])
      BY <1>7, <2>5, IdleAdvances
    <3>2. q \in DOMAIN w.tracees => w.tracees[q] \in Tracees
      BY <1>6, ContextParts, MapFacts
    <3>3. Fit(b, leader, q) /\ NoneForgotten(b, q)
      BY <1>7, <3>1, <3>2, AdvanceFit
    <3> QED BY <1>7, <2>5, <3>3
  <2>12. /\ c = msg[p] /\ c \in Pids \ {p}
         /\ p \in Known(announced) /\ b.announced = announced \cup {c} /\ b.unknown = unknown
         /\ y.born = c
    <3>1. c = msg[p]
      BY DEF c
    <3>2. c \in Pids \ {p} /\ p \in Known(announced)
      BY <1>1, <2>4
    <3>3. b.announced = announced \cup {c} /\ b.unknown = unknown /\ y.born = c
      BY <1>6, <2>5, <2>10
    <3> QED BY <3>1, <3>2, <3>3
  <2>13. x \in CheckUnknownEvents(y)
    BY <1>4
  <2> HIDE DEF c
  <2> QED BY <1>1, <1>8, <2>3, <2>5, <2>6, <2>9, <2>10, <2>11, <2>12, <2>13, BirthOutcome
<1> QED
  BY <1>9, <1>10

\* handleEvent() for a PID that is not in m_tracees: its first stop is stored.
LEMMA UnknownOutcome ==
  ASSUME Inv, StepInv, over = "no", NEW p \in Pids, p \notin DOMAIN tracees, th[p].status,
         NEW x \in CheckUnknownTraceeEvent([Context EXCEPT !.th[p] = Collect(@)], p)
  PROVE  Outcome(x, p)
<1> DEFINE w == [Context EXCEPT !.th[p] = Collect(@)]
           a == th[p]
           k == Collect(a)
           un == IF p \in DOMAIN w.unknown THEN w.unknown ELSE With(w.unknown, p, a.at)
           s == [w EXCEPT !.unknown = un]
<1>1. /\ ContextInv(w) /\ w.tracees = tracees /\ w.own = own /\ w.unknown = unknown /\ w.view = view
      /\ w.announced = announced /\ w.born = NoPid /\ w.ex = "none"
  BY CollectedContext
<1>2. /\ w.th[p] = k /\ Fit(Context, leader, p) /\ Calm(a) /\ NoneForgotten(Context, p)
      /\ \A q \in Pids \ {p} : Fit(w, leader, q) /\ NoneForgotten(w, q) /\ w.th[q] = th[q] /\ Calm(th[q])
  BY Collected
<1>3. a.run \in {"stop", "zombie"} /\ (a.run = "zombie" => a.at = "ENDED")
      /\ (a.run = "stop" => a.traced /\ a.at \in SyscallStops \cup {"EV_STOP_TRAP", "EV_EXIT", "EV_CHILD"})
  BY <1>2 DEF Calm, ThreadInv
<1>4. /\ Calm(k) /\ k.traced = a.traced /\ ~k.status
      /\ IF a.run = "zombie" THEN k.run = "gone" ELSE k.run = a.run /\ k.at = a.at
  BY <1>2, CollectCalm
<1>5. a.run = "stop" /\ ~Live(a) => a.at = "EV_EXIT"
  BY <1>3 DEF Live, PtraceStops, SyscallStops, EventStops
<1>6. Live(k) => Live(a)
  BY <1>3, <1>4 DEF Live
<1>7. ~ChildStop(k)
  BY <1>4 DEF ChildStop
<1>8. CASE p \in Known(announced)
  <2>1. ~Live(a) /\ (view[p].attached => view[p].asked \/ a.run = "gone") /\ p \notin DOMAIN unknown
    BY <1>2, <1>8 DEF Fit, KnownFit, Bonded, Context
  <2>2. x = w
    <3>1. a.at \notin {"EV_EXEC", "EV_STOP_SIG", "EV_STOP_TRAP"}
      BY <1>3, <1>5, <2>1
    <3> QED BY <3>1 DEF CheckUnknownTraceeEvent
  <2> HIDE DEF w, a, k
  <2>3. Handed(w, p)
    <3>1. Bonded(w, p)
      BY <1>1, <1>2, <1>3, <1>6, <2>1 DEF Bonded
    <3>2. NoneForgotten(w, p)
      BY <1>1, <1>2, <1>3, <1>4, <1>5, <2>1 DEF NoneForgotten, Excused
    <3> QED BY <1>2, <1>4, <1>7, <3>1, <3>2 DEF Handed
  <2>4. OthersStay(w, w, p)
    BY <1>2, IdleAdvances DEF OthersStay, SameFor
  <2> QED BY <1>1, <1>2, <1>8, <2>1, <2>2, <2>3, <2>4, PlainOutcome
<1>9. CASE p \notin Known(announced)
  <2> DEFINE U == p \in DOMAIN unknown
  <2>1. /\ leader[p] # NoPid => a.traced
        /\ Live(a) => FirstStop(a)
        /\ U => unknown[p] = "EV_STOP_TRAP"
    BY <1>2, <1>9 DEF Fit, UnheardFit, Context
  <2>2. leader[p] # NoPid
    BY <1>3 DEF Inv, LeadInv
  <2>3. \A q \in Pids : ChildStop(w.th[q]) => ChildStop(th[q]) /\ q # p
    BY <1>2, <1>7
  <2>4. ~view[p].attached
    BY <1>9 DEF Inv, UnheardInv
  <2>5. CASE a.at = "EV_STOP_TRAP"
    <3>1. x = s
      BY <2>5 DEF CheckUnknownTraceeEvent
    <3>2. /\ DOMAIN un = DOMAIN unknown \cup {p} /\ un[p] = "EV_STOP_TRAP"
          /\ \A q \in DOMAIN unknown \ {p} : un[q] = unknown[q]
      BY <1>1, <2>1, <2>5 DEF With
    <3> HIDE DEF w, un, a, k, U
    <3>3. /\ s.th = w.th /\ s.tracees = w.tracees /\ s.own = w.own /\ s.view = w.view
          /\ s.announced = w.announced /\ s.unknown = un
      BY <1>1 DEF ContextInv, Contexts
    <3> HIDE DEF s
    <3>4. Fit(s, leader, p)
      <4>1. a.run = "stop"
        BY <1>3, <2>5
      <4>2. Live(k) => FirstStop(k)
        <5>1. Live(k) => FirstStop(a)
          BY <1>6, <2>1
        <5>2. k = [a EXCEPT !.status = FALSE] /\ a \in Thread
          BY <1>2, <4>1 DEF k, Collect, Calm
        <5> QED BY <5>1, <5>2 DEF FirstStop, Thread
      <4>3. UnheardFit(s, leader, p)
        BY <1>2, <1>3, <1>4, <2>2, <3>2, <3>3, <4>1, <4>2 DEF UnheardFit
      <4> QED BY <1>1, <1>2, <1>4, <1>9, <3>3, <4>3 DEF Fit
    <3>5. NoneForgotten(s, p)
      BY <1>1, <1>9, <3>3 DEF NoneForgotten
    <3>6. ASSUME NEW q \in Pids \ {p} PROVE Fit(s, leader, q) /\ NoneForgotten(s, q)
      <4>1. SameFor(w, s, q)
        BY <1>1, <3>2, <3>3 DEF SameFor
      <4>2. Advances(w.th[q], s.th[q])
        BY <1>2, <3>3, IdleAdvances
      <4>3. q \in DOMAIN w.tracees => w.tracees[q] \in Tracees
        BY <1>1, ContextParts, MapFacts
      <4> QED BY <1>2, <4>1, <4>2, <4>3, AdvanceFit
    <3> QED BY <1>1, <2>3, <3>1, <3>3, <3>4, <3>5, <3>6 DEF Outcome
  <2>6. CASE a.at # "EV_STOP_TRAP"
    <3>1. x = w
      BY <1>3, <2>6 DEF CheckUnknownTraceeEvent, SyscallStops
    <3>2. ~Live(a)
      BY <2>1, <2>6 DEF FirstStop
    <3> HIDE DEF w, a, k, U
    <3>3. Fit(w, leader, p)
      <4>1. /\ k.traced = a.traced /\ ~Live(k) /\ (k.run = "stop" => k.at = "EV_EXIT")
        BY <1>3, <1>4, <1>5, <1>6, <3>2
      <4>2. UnheardFit(w, leader, p)
        BY <1>1, <1>2, <2>1, <2>2, <4>1 DEF UnheardFit, U
      <4> QED BY <1>1, <1>2, <1>4, <1>9, <4>2 DEF Fit
    <3>4. NoneForgotten(w, p)
      BY <1>1, <1>9 DEF NoneForgotten
    <3> QED BY <1>1, <1>2, <2>3, <3>1, <3>3, <3>4 DEF Outcome
  <2> QED BY <2>5, <2>6
<1> QED
  BY <1>8, <1>9

(* The steps. *)

\* The context of the next state.
LEMMA NextContext ==
  LET c == Context'
  IN  /\ c.th = th' /\ c.tracees = tracees' /\ c.own = own' /\ c.unknown = unknown' /\ c.view = view'
      /\ c.announced = announced'
BY DEF Context

\* And that of this one.
LEMMA ThisContext ==
  /\ Context.th = th /\ Context.tracees = tracees /\ Context.own = own /\ Context.unknown = unknown
  /\ Context.view = view /\ Context.announced = announced
BY DEF Context

\* wait() has returned the status of a thread.
LEMMA EngineHandleEventStep ==
  ASSUME Inv, StepInv, NEW p \in Pids, EngineHandleEvent(p) PROVE StepInv'
<1> DEFINE w == [Context EXCEPT !.th[p] = Collect(@)]
           c == Context'
<1>1. PICK x \in Handled(w, p) :
        /\ th' = x.th /\ tracees' = x.tracees /\ own' = x.own
        /\ unknown' = x.unknown /\ view' = x.view /\ announced' = x.announced
        /\ over' = IF x.ex = "none" THEN "no" ELSE "exception"
        /\ UNCHANGED threadVars
  BY DEF EngineHandleEvent
<1>2. over = "no" /\ th[p].status
  BY DEF EngineHandleEvent, EventPending, Reportable
<1>3. Outcome(x, p)
  BY <1>1, <1>2, HandleKnownOutcome, UnknownOutcome DEF Handled
<1>4. leader' = leader /\ msg' = msg /\ execing' = execing
  BY <1>1 DEF threadVars
<1>5. /\ c.th = x.th /\ c.tracees = x.tracees /\ c.own = x.own /\ c.unknown = x.unknown /\ c.view = x.view
      /\ c.announced = x.announced
  BY <1>1, NextContext
<1> HIDE DEF w, c
<1>6. \A q \in Pids : Fit(c, leader, q)
  <2> TAKE q \in Pids
  <2>1. Fit(x, leader, q)
    BY <1>3 DEF Outcome
  <2> QED BY <1>5, <2>1 DEF Fit, KnownFit, Bonded, UnheardFit
<1>7. over' = "no" => \A q \in Pids : NoneForgotten(c, q)
  <2> SUFFICES ASSUME over' = "no", NEW q \in Pids PROVE NoneForgotten(c, q)
    OBVIOUS
  <2>1. NoneForgotten(x, q)
    BY <1>1, <1>3 DEF Outcome
  <2> QED BY <1>5, <2>1 DEF NoneForgotten
<1>8. ChildInv /\ PresentInv /\ execing = {} /\ msg \in [Pids -> Pids]
  BY DEF StepInv, Inv, TypeInv
<1>9. \A q \in Pids : ChildStop(th'[q]) => ChildStop(th[q]) /\ q # p
  BY <1>1, <1>3 DEF Outcome
<1>10. announced' = announced \/ (ChildStop(th[p]) /\ announced' = announced \cup {msg[p]})
  BY <1>1, <1>3 DEF Outcome
<1>11. ChildInv'
  <2> SUFFICES ASSUME NEW q \in Pids, ChildStop(th'[q])
               PROVE  /\ msg[q] \notin Known(announced') /\ leader[msg[q]] # NoPid
                      /\ \A r \in Pids \ {q} : ChildStop(th'[r]) => msg[r] # msg[q]
    BY <1>4 DEF ChildInv
  <2>1. ChildStop(th[q]) /\ q # p
    BY <1>9
  <2>2. msg[q] \notin Known(announced) /\ leader[msg[q]] # NoPid
        /\ \A r \in Pids \ {q} : ChildStop(th[r]) => msg[r] # msg[q]
    BY <1>8, <2>1 DEF ChildInv
  <2>3. msg[q] \notin Known(announced')
    BY <1>10, <2>1, <2>2 DEF Known
  <2> QED BY <1>9, <2>2, <2>3
<1>12. PresentInv'
  <2>1. ChildStop(th[p]) => leader[msg[p]] # NoPid
    BY <1>8 DEF ChildInv
  <2> QED BY <1>4, <1>8, <1>10, <2>1 DEF PresentInv, Known
<1> QED
  BY <1>4, <1>6, <1>7, <1>8, <1>11, <1>12 DEF StepInv, c

\* A step of threads that the Engine need not know of.
LEMMA ThreadsStep ==
  ASSUME Inv, StepInv, \A q \in Pids : Advances(th[q], th'[q]) /\ (ChildStop(th'[q]) => ChildStop(th[q])),
         UNCHANGED threadVars, UNCHANGED engineVars
  PROVE  StepInv'
<1> DEFINE b == Context
           c == Context'
<1>1. /\ leader' = leader /\ msg' = msg /\ execing' = execing /\ tracees' = tracees /\ own' = own
      /\ unknown' = unknown /\ view' = view /\ announced' = announced /\ over' = over
  BY DEF threadVars, engineVars
<1>2. /\ c.th = th' /\ c.tracees = tracees /\ c.own = own /\ c.unknown = unknown /\ c.view = view
      /\ c.announced = announced
  BY <1>1, NextContext
<1>3. /\ b.th = th /\ b.tracees = tracees /\ b.own = own /\ b.unknown = unknown /\ b.view = view
      /\ b.announced = announced
  BY ThisContext
<1>4. /\ \A q \in Pids : Fit(b, leader, q)
      /\ over = "no" => \A q \in Pids : NoneForgotten(b, q)
      /\ ChildInv /\ PresentInv /\ execing = {}
  BY DEF StepInv
<1>5. \A q \in DOMAIN tracees : tracees[q] \in Tracees
  BY MapFacts DEF Inv, TypeInv
<1> HIDE DEF b, c
<1>6. ASSUME NEW q \in Pids PROVE Fit(c, leader, q) /\ (NoneForgotten(b, q) => NoneForgotten(c, q))
  <2>1. SameFor(b, c, q)
    BY <1>2, <1>3 DEF SameFor
  <2> QED BY <1>2, <1>3, <1>4, <1>5, <2>1, AdvanceFit
<1>7. ChildInv'
  BY <1>1, <1>4 DEF ChildInv
<1>8. PresentInv'
  BY <1>1, <1>4 DEF PresentInv
<1> QED
  BY <1>1, <1>4, <1>6, <1>7, <1>8 DEF StepInv, c

\* One of a single thread.
LEMMA ThreadStepStep ==
  ASSUME Inv, StepInv, NEW p \in Pids, NEW k, Advances(th[p], k), ~ChildStop(k), ThreadStep(p, k) PROVE StepInv'
<1>1. th' = [th EXCEPT ![p] = k] /\ UNCHANGED threadVars /\ UNCHANGED engineVars
  BY DEF ThreadStep
<1>2. th \in [Pids -> Thread] /\ \A q \in Pids : Calm(th[q])
  BY ThisContext DEF Inv, TypeInv, StepInv, Fit
<1>3. th'[p] = k /\ \A q \in Pids \ {p} : th'[q] = th[q]
  BY <1>1, <1>2
<1>4. \A q \in Pids : Advances(th[q], th'[q]) /\ (ChildStop(th'[q]) => ChildStop(th[q]))
  BY <1>2, <1>3, IdleAdvances
<1> QED
  BY <1>1, <1>4, ThreadsStep

\* detach() from outside of the callbacks: a thread in a stop is let go, one that
\* runs is told to stop first.
LEMMA DetachTraceeHeld ==
  ASSUME NEW f \in Frames, Calm(f.k), Joined(f.t, f.k, f.v)
  PROVE  LET d == DetachTracee(f)
         IN  /\ Calm(d.k) /\ Joined(d.t, d.k, d.v) /\ d.v.asked /\ d.v.attached = f.v.attached
             /\ d.k.run = "stop" => f.k.run = "stop" /\ d.k.at = f.k.at /\ d.k.status = f.k.status
             /\ f.k.run = "gone" => \/ d.t = f.t
                                    \/ d.t.state \in {"DEAD", "DETACHED"}
                                    \/ Joined(d.t, f.k, f.v)
             /\ ~f.k.traced => d.t = f.t
<1> DEFINE a == [f EXCEPT !.v.asked = TRUE]
           x == [f.t EXCEPT !.flags = @ \cup {"DETACH_AT_NEXT_STOP"}]
           w == [a EXCEPT !.t.flags = @ \cup {"DETACH_AT_NEXT_STOP"}]
           d == DetachTracee(f)
           g == DoDetach(a)
           z == ToState(w, "DEAD")
           i == [w EXCEPT !.k = Interrupt(@)]
<1>1. /\ f.t \in Tracees /\ f.k \in Thread /\ f.v \in Views
      /\ Bound(f.t, f.k, f.v) /\ (Live(f.k) => Synced(f.t, f.k))
  BY FrameParts DEF Joined
<1>2. Settled(f)
  BY <1>1 DEF Settled, Calm
<1>3. Settled(d)
  BY <1>2, DetachTraceeSettled
<1>4. a \in Frames /\ a.t = f.t /\ a.k = f.k /\ a.v.asked /\ a.v.attached = f.v.attached /\ a.ex = f.ex
  BY <1>1 DEF Frames, Views
<1>5. /\ x \in Tracees /\ x.valid = f.t.valid /\ x.mode = f.t.mode /\ x.state = f.t.state
      /\ x.flags = f.t.flags \cup {"DETACH_AT_NEXT_STOP"}
  BY <1>1 DEF Tracees, Flags
<1>6. w \in Frames /\ w.t = x /\ w.k = a.k /\ w.v = a.v /\ w.ex = a.ex
  <2>1. w = [a EXCEPT !.t = x]
    BY <1>4 DEF Frames
  <2> HIDE DEF a, x, w
  <2> QED BY <1>4, <1>5, <2>1, FrameParts
<1>7. d = IF ~a.t.valid \/ a.t.state \in {"DEAD", "DETACHED"} THEN a
          ELSE IF a.t.state \notin {"RUNNING", "UNKNOWN"} THEN g
          ELSE IF "WAIT_FOR_ATTACH_STOP" \in w.t.flags THEN w
          ELSE IF w.k.run = "gone" THEN z
          ELSE i
  BY DEF DetachTracee
<1> HIDE DEF a, x, w, d
<1>8. CASE d = a
  BY <1>1, <1>4, <1>8 DEF Bound, Joined, d
<1>9. CASE d = g /\ a.t.valid /\ a.t.state \notin {"RUNNING", "UNKNOWN"}
  <2>1. /\ g \in Frames /\ g.ex = a.ex /\ LetGo(a.t, g.t) /\ SameTold(a.v, g.v) /\ g.v.asked = a.v.asked
        /\ g.k = IF Reachable(a) THEN Detach(a.k, a.t.child) ELSE a.k
    BY <1>4, DoDetachParts
  <2>2. Reachable(a) => Calm(g.k) /\ ~g.k.traced /\ g.k.run \in {"run", "zombie"}
    BY <1>1, <1>4, <2>1, DetachCalm DEF Reachable, Tracees
  <2>3. Bound(g.t, g.k, g.v)
    <3>1. CASE Reachable(a)
      BY <1>1, <1>4, <2>1, <2>2, <3>1 DEF Bound, LetGo, Live
    <3>2. CASE ~Reachable(a)
      <4>1. ~InStop(f.k)
        BY <1>4, <1>9, <3>2 DEF Reachable
      <4>2. Live(f.k) => f.k.run = "run"
        BY <4>1 DEF Live, InStop, Calm, PtraceStops, SyscallStops, SignalStops, EventStops
      <4>3. ~Live(f.k)
        BY <1>1, <1>4, <1>9, <4>2 DEF Synced
      <4> QED BY <1>1, <1>4, <2>1, <3>2, <4>3 DEF Bound, LetGo
    <3> QED BY <3>1, <3>2
  <2>4. Calm(g.k) /\ (g.k.run = "stop" => f.k.run = "stop" /\ g.k = f.k)
    BY <1>4, <2>1, <2>2
  <2>5. f.k.traced
    BY <1>1, <1>4, <1>9 DEF Bound
  <2> HIDE DEF g
  <2> QED BY <1>3, <1>4, <1>9, <2>1, <2>3, <2>4, <2>5 DEF Joined, Settled, SameTold, LetGo, d
<1>10. ASSUME a.t.valid, a.t.state \notin {"DEAD", "DETACHED"} PROVE f.k.traced
  BY <1>1, <1>4, <1>10 DEF Bound
<1>11. CASE d = w /\ a.t.valid /\ a.t.state \notin {"DEAD", "DETACHED"}
  <2>1. Bound(d.t, d.k, d.v) /\ (f.k.run = "gone" => Bound(d.t, f.k, f.v) /\ ~Live(f.k))
    BY <1>1, <1>4, <1>5, <1>6, <1>11 DEF Bound, Live
  <2> QED BY <1>3, <1>4, <1>6, <1>10, <1>11, <2>1 DEF Joined, Settled, d
<1>12. CASE d = z /\ w.k.run = "gone" /\ a.t.valid /\ a.t.state \notin {"DEAD", "DETACHED"}
  <2>1. /\ z \in Frames /\ z.k = w.k /\ z.v = w.v /\ z.t.state = "DEAD" /\ z.t.valid = w.t.valid /\ z.t.mode = w.t.mode
    BY <1>6, ToStateDead
  <2> HIDE DEF z
  <2>2. Bound(d.t, d.k, d.v)
    BY <1>1, <1>4, <1>5, <1>6, <1>12, <2>1 DEF Bound, Live
  <2> QED BY <1>3, <1>4, <1>6, <1>10, <1>12, <2>1, <2>2 DEF Joined, Settled, d
<1>13. CASE d = i /\ w.k.run # "gone" /\ a.t.valid /\ a.t.state \notin {"DEAD", "DETACHED"}
  <2> DEFINE b == Interrupt(f.k)
  <2>1. Calm(b) /\ b.traced /\ b.run = f.k.run /\ b.at = f.k.at /\ b.status = f.k.status
    BY <1>10, <1>13, InterruptCalm
  <2>2. i.k = b /\ i.t = x /\ i.v = a.v
    BY <1>4, <1>6 DEF Frames
  <2> HIDE DEF i, b
  <2>3. Bound(d.t, d.k, d.v)
    BY <1>1, <1>4, <1>5, <1>10, <1>13, <2>1, <2>2 DEF Bound, Live
  <2> QED BY <1>3, <1>4, <1>6, <1>10, <1>13, <2>1, <2>2, <2>3 DEF Joined, Settled, d
<1> QED
  BY <1>7, <1>8, <1>9, <1>11, <1>12, <1>13

\* A step of the Engine or the consumer between two events concerns the threads of
\* the tracees in m_tracees only.
LEMMA BetweenEventsStep ==
  ASSUME Inv, StepInv, UNCHANGED threadVars, unknown' = unknown, announced' = announced,
         \A q \in Pids \ DOMAIN tracees : th'[q] = th[q] /\ view'[q] = view[q] /\ q \notin DOMAIN tracees',
         \A q \in DOMAIN tracees : Calm(th'[q]) /\ Bonded(Context', q) /\ (ChildStop(th'[q]) => ChildStop(th[q])),
         over' = "no" => over = "no" /\ \A q \in DOMAIN tracees : NoneForgotten(Context', q)
  PROVE  StepInv'
<1> DEFINE b == Context
           c == Context'
<1>1. leader' = leader /\ msg' = msg /\ execing' = execing
  BY DEF threadVars
<1>2. /\ c.th = th' /\ c.tracees = tracees' /\ c.own = own' /\ c.unknown = unknown /\ c.view = view'
      /\ c.announced = announced
  BY NextContext
<1>3. /\ b.th = th /\ b.tracees = tracees /\ b.own = own /\ b.unknown = unknown /\ b.view = view
      /\ b.announced = announced
  BY ThisContext
<1>4. /\ \A q \in Pids : Fit(b, leader, q)
      /\ over = "no" => \A q \in Pids : NoneForgotten(b, q)
      /\ ChildInv /\ PresentInv /\ execing = {}
  BY DEF StepInv
<1>5. DOMAIN tracees \subseteq Pids /\ \A q \in DOMAIN tracees : tracees[q] \in Tracees /\ q \in Known(announced)
  BY MapFacts DEF Inv, TypeInv, PidsInv
<1>6. \A q \in DOMAIN tracees : Bonded(c, q)
  OBVIOUS
<1>7. over' = "no" => over = "no" /\ \A q \in DOMAIN tracees : NoneForgotten(c, q)
  OBVIOUS
<1> HIDE DEF b, c
<1>8. ASSUME NEW q \in Pids
      PROVE  /\ Fit(c, leader, q) /\ (ChildStop(th'[q]) => ChildStop(th[q]))
             /\ over' = "no" => NoneForgotten(c, q)
  <2>1. CASE q \in DOMAIN tracees
    <3>1. q \notin DOMAIN c.unknown /\ q \in Known(c.announced)
      BY <1>2, <1>3, <1>4, <1>5, <2>1 DEF Fit, KnownFit
    <3>2. Fit(c, leader, q)
      BY <1>2, <1>6, <2>1, <3>1 DEF Fit, KnownFit
    <3> QED BY <1>7, <2>1, <3>2
  <2>2. CASE q \notin DOMAIN tracees
    <3>1. th'[q] = th[q] /\ view'[q] = view[q] /\ q \notin DOMAIN tracees'
      BY <2>2
    <3>2. SameFor(b, c, q)
      BY <1>2, <1>3, <2>2, <3>1 DEF SameFor
    <3>3. Advances(b.th[q], c.th[q])
      BY <1>2, <1>3, <1>4, <3>1, IdleAdvances DEF Fit
    <3>4. q \in DOMAIN b.tracees => b.tracees[q] \in Tracees
      BY <1>3, <2>2
    <3>5. Fit(c, leader, q) /\ (NoneForgotten(b, q) => NoneForgotten(c, q))
      BY <1>4, <3>2, <3>3, <3>4, AdvanceFit
    <3> QED BY <1>4, <1>7, <3>1, <3>5
  <2> QED BY <2>1, <2>2
<1>9. ChildInv'
  BY <1>1, <1>4, <1>8 DEF ChildInv
<1>10. PresentInv'
  BY <1>1, <1>4 DEF PresentInv
<1> QED
  BY <1>1, <1>4, <1>8, <1>9, <1>10 DEF StepInv, c

(* The steps of threads and of the consumer. *)

\* No thread calls execve(): SyscallInStep does not hold across it.
NoExec == "execve" \notin ThreadCalls

\* What the threads do of themselves.
LEMMA ThreadStepsStep ==
  ASSUME Inv, StepInv, NoExec, NEW p \in Pids,
         \/ EnterSyscall(p) \/ LeaveSyscall(p) \/ InterruptStop(p) \/ ThreadEnds(p) \/ CallExit(p) \/ KillProcess(p)
  PROVE  StepInv'
<1>1. th \in [Pids -> Thread] /\ \A q \in Pids : Calm(th[q])
  BY ThisContext DEF Inv, TypeInv, StepInv, Fit
<1>2. CASE EnterSyscall(p)
  <2>1. PICK c \in ThreadCalls : ThreadStep(p, EnterCall(th[p], c))
    BY <1>2 DEF EnterSyscall
  <2>2. CanEnterCall(th[p]) /\ c \in Calls \ {"execve"}
    BY <1>2, InputAssumption DEF EnterSyscall, NoExec
  <2> QED BY <1>1, <2>1, <2>2, EnterCallAdvances, ThreadStepStep
<1>3. CASE LeaveSyscall(p)
  BY <1>1, <1>3, LeaveCallAdvances, ThreadStepStep DEF LeaveSyscall
<1>4. CASE InterruptStop(p)
  BY <1>1, <1>4, TrapAdvances, ThreadStepStep DEF InterruptStop
<1>5. CASE ReportExit(p)
  BY <1>1, <1>5, EndAdvances, ThreadStepStep DEF ReportExit
<1>6. CASE ThreadDies(p)
  <2>1. CASE th[p].traced
    BY <1>1, <1>6, <2>1, EndAdvances, ThreadStepStep DEF ThreadDies
  <2>2. CASE ~th[p].traced
    BY <1>1, <1>6, <2>2, EndAdvances, ThreadStepStep DEF ThreadDies
  <2> QED BY <2>1, <2>2
<1>7. CASE CallExit(p)
  <2>1. /\ th' = [Zap(th, p) EXCEPT ![p] = Exit(@)] /\ CanExit(th[p])
        /\ UNCHANGED threadVars /\ UNCHANGED engineVars
    BY <1>7 DEF CallExit
  <2>2. ASSUME NEW q \in Pids PROVE Advances(th[q], th'[q]) /\ (ChildStop(th'[q]) => ChildStop(th[q]))
    <3>1. CASE q = p
      <4>1. th'[p] = Exit(th[p])
        BY <2>1 DEF Zap
      <4> QED BY <1>1, <2>1, <3>1, <4>1, EndAdvances
    <3>2. CASE q # p /\ q \in Group(p)
      <4>1. th'[q] = [Kill(th[q]) EXCEPT !.fatal = th[q].fatal]
        BY <2>1, <3>2 DEF Zap
      <4> QED BY <1>1, <4>1, KillAdvances
    <3>3. CASE q # p /\ q \notin Group(p)
      <4>1. th'[q] = th[q]
        BY <2>1, <3>3 DEF Zap
      <4> QED BY <1>1, <4>1, IdleAdvances
    <3> QED BY <3>1, <3>2, <3>3
  <2> QED BY <2>1, <2>2, ThreadsStep
<1>8. CASE KillProcess(p)
  <2>1. th' = KillGroup(th, p) /\ UNCHANGED threadVars /\ UNCHANGED engineVars
    BY <1>8 DEF KillProcess
  <2>2. \A q \in Pids : Advances(th[q], th'[q]) /\ (ChildStop(th'[q]) => ChildStop(th[q]))
    BY <1>1, <2>1, GroupAdvances
  <2> QED BY <2>1, <2>2, ThreadsStep
<1> QED
  BY <1>2, <1>3, <1>4, <1>5, <1>6, <1>7, <1>8 DEF ThreadEnds

\* A new thread or process: nobody has heard of it, and nothing is stored for it.
LEMMA CloneStep ==
  ASSUME Inv, StepInv, NEW p \in Pids, NEW c \in Pids, Clone(p, c) PROVE StepInv'
<1> DEFINE b == Context
           x == Context'
           k == [StopAt(th[p], "EV_CHILD") EXCEPT !.nr = "read"]
           n == TakeTrap([NewThread EXCEPT !.traced = TRUE])
<1>1. PICK g \in {leader[p], c} : leader' = [leader EXCEPT ![c] = g]
  BY DEF Clone
<1>2. /\ th' = [th EXCEPT ![p] = k, ![c] = n] /\ msg' = [msg EXCEPT ![p] = c]
      /\ execing' = execing /\ UNCHANGED engineVars
      /\ CanReport(th[p], "EV_CHILD") /\ th[p].run = "run" /\ leader[c] = NoPid
  BY DEF Clone, CanReport
<1>3. /\ th \in [Pids -> Thread] /\ leader \in [Pids -> Pids \cup {NoPid}] /\ msg \in [Pids -> Pids]
      /\ LeadInv /\ UnheardInv /\ NoPid \notin Pids
      /\ \A q \in DOMAIN tracees : tracees[q] \in Tracees
  BY PidsAssumption, MapFacts DEF Inv, TypeInv
<1>4. /\ tracees' = tracees /\ own' = own /\ unknown' = unknown /\ view' = view
      /\ announced' = announced /\ over' = over
  BY <1>2 DEF engineVars
<1>5. /\ x.th = th' /\ x.tracees = tracees /\ x.own = own /\ x.unknown = unknown /\ x.view = view
      /\ x.announced = announced
  BY <1>4, NextContext
<1>6. /\ b.th = th /\ b.tracees = tracees /\ b.own = own /\ b.unknown = unknown /\ b.view = view
      /\ b.announced = announced
  BY ThisContext
<1>7. /\ \A q \in Pids : Fit(b, leader, q) /\ Calm(th[q])
      /\ over = "no" => \A q \in Pids : NoneForgotten(b, q)
      /\ ChildInv /\ PresentInv /\ execing = {}
  BY <1>6 DEF StepInv, Fit
<1>8. leader[p] # NoPid /\ c # p /\ leader[p] \in Pids
  BY <1>2, <1>3 DEF LeadInv
<1>9. Advances(th[p], k)
  BY <1>2, <1>7, ChildAdvances
<1>10. Calm(n) /\ FirstStop(n) /\ n.status /\ n.traced
  BY NewThreadStops
<1>11. k \in Thread /\ n \in Thread
  BY <1>9, <1>10 DEF Advances, Calm
<1> HIDE DEF b, x, k, n
<1>12. th'[p] = k /\ th'[c] = n /\ \A q \in Pids \ {p, c} : th'[q] = th[q]
  BY <1>2, <1>3, <1>8, <1>11
<1>13. leader'[c] = g /\ g \in Pids /\ \A q \in Pids \ {c} : leader'[q] = leader[q]
  BY <1>1, <1>3, <1>8
<1>14. c \notin Known(announced)
  BY <1>2, <1>7 DEF PresentInv
<1>15. ASSUME NEW q \in Pids, q # c
       PROVE  Fit(x, leader', q) /\ (NoneForgotten(b, q) => NoneForgotten(x, q))
  <2>1. SameFor(b, x, q)
    BY <1>5, <1>6 DEF SameFor
  <2>2. Advances(b.th[q], x.th[q])
    BY <1>5, <1>6, <1>7, <1>9, <1>12, <1>15, IdleAdvances
  <2>3. leader'[q] = leader[q] /\ Fit(b, leader, q) /\ (q \in DOMAIN b.tracees => b.tracees[q] \in Tracees)
    BY <1>3, <1>6, <1>7, <1>13, <1>15
  <2> QED BY <2>1, <2>2, <2>3, AdvanceFit
<1>16. Fit(x, leader', c) /\ NoneForgotten(x, c)
  <2>1. UnheardFit(b, leader, c)
    BY <1>6, <1>7, <1>14 DEF Fit
  <2>2. c \notin DOMAIN x.unknown
    BY <1>2, <1>5, <1>6, <2>1 DEF UnheardFit
  <2>3. UnheardFit(x, leader', c)
    BY <1>5, <1>10, <1>12, <2>2 DEF UnheardFit
  <2> QED BY <1>5, <1>10, <1>12, <1>14, <2>3 DEF Fit, NoneForgotten
<1>17. ~ChildStop(n) /\ msg'[p] = c /\ \A q \in Pids \ {p} : msg'[q] = msg[q] /\ msg[q] \in Pids
  BY <1>2, <1>3, <1>10 DEF ChildStop, FirstStop
<1>18. ASSUME NEW q \in Pids, q # p, ChildStop(th'[q])
       PROVE  ChildStop(th[q]) /\ msg'[q] = msg[q] /\ msg[q] \notin Known(announced) /\ leader[msg[q]] # NoPid
  BY <1>7, <1>12, <1>17, <1>18 DEF ChildInv
<1>19. ChildInv'
  <2> SUFFICES ASSUME NEW q \in Pids, ChildStop(th'[q])
               PROVE  /\ msg'[q] \notin Known(announced) /\ leader'[msg'[q]] # NoPid
                      /\ \A r \in Pids \ {q} : ChildStop(th'[r]) => msg'[r] # msg'[q]
    BY <1>4 DEF ChildInv
  <2>1. CASE q = p
    <3>1. \A r \in Pids \ {p} : ChildStop(th'[r]) => msg'[r] # c
      BY <1>2, <1>18
    <3> QED BY <1>3, <1>13, <1>14, <1>17, <2>1, <3>1
  <2>2. CASE q # p
    <3>1. ChildStop(th[q]) /\ msg'[q] = msg[q] /\ msg[q] \notin Known(announced) /\ leader[msg[q]] # NoPid
      BY <1>18, <2>2
    <3>2. msg[q] # c /\ leader'[msg[q]] # NoPid
      BY <1>2, <1>13, <1>17, <2>2, <3>1
    <3>3. ASSUME NEW r \in Pids \ {q}, ChildStop(th'[r]) PROVE msg'[r] # msg[q]
      <4>1. CASE r = p
        BY <1>17, <3>2, <4>1
      <4>2. CASE r # p
        BY <1>7, <1>18, <3>1, <3>3, <4>2 DEF ChildInv
      <4> QED BY <4>1, <4>2
    <3> QED BY <3>1, <3>2, <3>3
  <2> QED BY <2>1, <2>2
<1>20. PresentInv'
  BY <1>3, <1>4, <1>7, <1>13, <1>14 DEF PresentInv
<1>21. /\ \A q \in Pids : Fit(x, leader', q)
       /\ over' = "no" => \A q \in Pids : NoneForgotten(x, q)
  BY <1>4, <1>7, <1>15, <1>16
<1> QED
  BY <1>2, <1>7, <1>19, <1>20, <1>21 DEF StepInv, x

\* What detach() makes of a Tracee in m_tracees.
LEMMA DetachedBonded ==
  ASSUME Inv, StepInv, NEW p \in DOMAIN tracees
  PROVE  LET d == DetachTracee([t |-> tracees[p], k |-> th[own[p]], v |-> view[p], ex |-> "none"])
         IN  /\ p \in Pids /\ own[p] = p /\ d.t \in Tracees /\ Calm(th[p]) /\ Joined(tracees[p], th[p], view[p])
             /\ Calm(d.k) /\ Joined(d.t, d.k, d.v) /\ d.v.asked
             /\ d.k.run = "stop" => th[p].run = "stop" /\ d.k.at = th[p].at /\ d.k.status = th[p].status
             /\ th[p].run = "gone" => \/ d.t = tracees[p] \/ d.t.state \in {"DEAD", "DETACHED"}
                                      \/ Joined(d.t, th[p], view[p])
             /\ ~th[p].traced => d.t = tracees[p]
<1> DEFINE f == [t |-> tracees[p], k |-> th[p], v |-> view[p], ex |-> "none"]
<1>1. /\ p \in Pids /\ tracees[p] \in Tracees /\ th[p] \in Thread /\ view[p] \in Views
      /\ DetachTracee([t |-> tracees[p], k |-> th[own[p]], v |-> view[p], ex |-> "none"]).t \in Tracees
  BY DetachedFrame, MapFacts DEF Inv, TypeInv
<1>2. p \in Known(announced)
  BY DEF Inv, PidsInv
<1>3. own[p] = p /\ Joined(tracees[p], th[p], view[p]) /\ Calm(th[p])
  BY <1>1, <1>2, ThisContext DEF StepInv, Fit, KnownFit, Bonded
<1>4. f \in Frames /\ f.t = tracees[p] /\ f.k = th[p] /\ f.v = view[p]
  BY <1>1 DEF Frames
<1>5. f = [t |-> tracees[p], k |-> th[own[p]], v |-> view[p], ex |-> "none"]
  BY <1>3
<1> HIDE DEF f
<1>6. Calm(f.k) /\ Joined(f.t, f.k, f.v)
  BY <1>3, <1>4
<1> QED
  BY <1>1, <1>3, <1>4, <1>5, <1>6, DetachTraceeHeld

\* detach() by the consumer.
LEMMA ConsumerDetachStep ==
  ASSUME Inv, StepInv, NEW p \in Pids, ConsumerDetach(p) PROVE StepInv'
<1> DEFINE d == DetachTracee([t |-> tracees[p], k |-> th[own[p]], v |-> view[p], ex |-> "none"])
           c == Context'
<1>1. /\ p \in DOMAIN tracees /\ over = "no"
      /\ tracees' = [tracees EXCEPT ![p] = d.t] /\ th' = [th EXCEPT ![own[p]] = d.k] /\ view' = [view EXCEPT ![p] = d.v]
      /\ own' = own /\ unknown' = unknown /\ announced' = announced /\ over' = over
      /\ UNCHANGED threadVars
  BY DEF ConsumerDetach
<1>2. /\ own[p] = p /\ Calm(d.k) /\ Joined(d.t, d.k, d.v) /\ d.v.asked
      /\ d.k.run = "stop" => th[p].run = "stop" /\ d.k.at = th[p].at /\ d.k.status = th[p].status
  BY <1>1, DetachedBonded
<1> HIDE DEF d
<1>3. /\ th \in [Pids -> Thread] /\ view \in [Pids -> Views] /\ DOMAIN tracees \subseteq Pids
  BY MapFacts DEF Inv, TypeInv
<1>4. /\ DOMAIN tracees' = DOMAIN tracees /\ tracees'[p] = d.t /\ th'[p] = d.k /\ view'[p] = d.v
      /\ \A q \in Pids \ {p} : th'[q] = th[q] /\ view'[q] = view[q]
      /\ \A q \in DOMAIN tracees \ {p} : tracees'[q] = tracees[q]
  BY <1>1, <1>2, <1>3
<1>5. /\ c.th = th' /\ c.tracees = tracees' /\ c.own = own /\ c.unknown = unknown /\ c.view = view'
      /\ c.announced = announced
  BY <1>1, NextContext
<1> HIDE DEF c
<1>6. ASSUME NEW q \in DOMAIN tracees
      PROVE  Calm(th'[q]) /\ Bonded(c, q) /\ (ChildStop(th'[q]) => ChildStop(th[q])) /\ NoneForgotten(c, q)
  <2>1. q \in Pids /\ Fit(Context, leader, q) /\ NoneForgotten(Context, q) /\ q \in Known(announced)
    BY <1>1, <1>3 DEF StepInv, Inv, PidsInv
  <2>2. /\ Calm(th[q]) /\ own[q] = q /\ Joined(tracees[q], th[q], view[q])
        /\ th[q].run = "stop" /\ ~th[q].status => Excused(th[q], view[q])
    BY <2>1, ThisContext DEF Fit, KnownFit, Bonded, NoneForgotten
  <2>3. CASE q = p
    BY <1>1, <1>2, <1>4, <1>5, <2>2, <2>3 DEF Bonded, ChildStop, NoneForgotten, Excused
  <2>4. CASE q # p
    <3>1. th'[q] = th[q] /\ view'[q] = view[q] /\ tracees'[q] = tracees[q]
      BY <1>4, <2>1, <2>4
    <3> QED BY <1>4, <1>5, <2>2, <3>1 DEF Bonded, NoneForgotten
  <2> QED BY <2>3, <2>4
<1>7. \A q \in Pids \ DOMAIN tracees : th'[q] = th[q] /\ view'[q] = view[q] /\ q \notin DOMAIN tracees'
  BY <1>1, <1>4
<1> QED
  BY <1>1, <1>6, <1>7, BetweenEventsStep DEF c

\* stop(): the objects that have let go of their threads are dropped.
LEMMA StopStep ==
  ASSUME Inv, StepInv, Stop PROVE StepInv'
<1> DEFINE done(p) == DetachTracee([t |-> tracees[p], k |-> th[own[p]], v |-> view[p], ex |-> "none"])
           d == [p \in DOMAIN tracees |-> done(p)]
           left == {p \in DOMAIN tracees : d[p].t.valid}
           at(q) == CHOOSE p \in DOMAIN tracees : own[p] = q
           k(q) == IF \E p \in DOMAIN tracees : own[p] = q THEN d[at(q)].k ELSE th[q]
           c == Context'
<1>1. /\ tracees' = [p \in left |-> d[p].t] /\ own' = Restrict(own, left)
      /\ th' = [q \in Pids |-> k(q)]
      /\ view' = [q \in Pids |-> IF q \in DOMAIN tracees THEN d[q].v ELSE view[q]]
      /\ UNCHANGED threadVars /\ unknown' = unknown /\ announced' = announced /\ over' = over /\ over = "no"
  BY DEF Stop
<1>2. \A p \in DOMAIN tracees : d[p] = done(p)
  OBVIOUS
<1>3. \A p \in DOMAIN tracees :
        /\ p \in Pids /\ own[p] = p
        /\ Calm(done(p).k) /\ Joined(done(p).t, done(p).k, done(p).v) /\ done(p).v.asked
        /\ done(p).k.run = "stop" => th[p].run = "stop" /\ done(p).k.at = th[p].at /\ done(p).k.status = th[p].status
  BY DetachedBonded
<1> HIDE DEF done, d
<1>4. ASSUME NEW q \in DOMAIN tracees PROVE th'[q] = d[q].k /\ view'[q] = d[q].v
  <2>1. at(q) = q /\ \E p \in DOMAIN tracees : own[p] = q
    BY <1>3
  <2> QED BY <1>1, <1>3, <2>1
<1>5. ASSUME NEW q \in Pids \ DOMAIN tracees PROVE th'[q] = th[q] /\ view'[q] = view[q] /\ q \notin DOMAIN tracees'
  <2>1. ~ \E p \in DOMAIN tracees : own[p] = q
    BY <1>3
  <2> QED BY <1>1, <2>1
<1>6. /\ DOMAIN tracees' = left /\ \A q \in left : tracees'[q] = d[q].t /\ own'[q] = q
  BY <1>1, <1>3 DEF Restrict
<1>7. /\ c.th = th' /\ c.tracees = tracees' /\ c.own = own' /\ c.unknown = unknown /\ c.view = view'
      /\ c.announced = announced
  BY <1>1, NextContext
<1> HIDE DEF c, at, k
<1>8. ASSUME NEW q \in DOMAIN tracees
      PROVE  Calm(th'[q]) /\ Bonded(c, q) /\ (ChildStop(th'[q]) => ChildStop(th[q])) /\ NoneForgotten(c, q)
  <2>1. q \in Pids /\ NoneForgotten(Context, q) /\ q \in Known(announced)
    BY <1>1, <1>3 DEF StepInv, Inv, PidsInv
  <2>2. th[q].run = "stop" /\ ~th[q].status => Excused(th[q], view[q])
    BY <2>1, ThisContext DEF NoneForgotten
  <2>3. /\ Calm(d[q].k) /\ Joined(d[q].t, d[q].k, d[q].v) /\ d[q].v.asked
        /\ d[q].k.run = "stop" => th[q].run = "stop" /\ d[q].k.at = th[q].at /\ d[q].k.status = th[q].status
    BY <1>2, <1>3
  <2>4. Bonded(c, q)
    <3>1. CASE q \in left
      BY <1>4, <1>6, <1>7, <2>3, <3>1 DEF Bonded
    <3>2. CASE q \notin left
      <4>1. ~d[q].t.valid
        BY <3>2
      <4>2. ~Live(d[q].k)
        BY <2>3, <4>1 DEF Joined, Bound
      <4> QED BY <1>4, <1>6, <1>7, <2>3, <3>2, <4>2 DEF Bonded
    <3> QED BY <3>1, <3>2
  <2> HIDE DEF left
  <2>5. (ChildStop(th'[q]) => ChildStop(th[q])) /\ NoneForgotten(c, q)
    BY <1>4, <1>7, <2>2, <2>3 DEF ChildStop, NoneForgotten, Excused
  <2> QED BY <1>4, <2>3, <2>4, <2>5
<1> QED
  BY <1>1, <1>5, <1>8, BetweenEventsStep DEF c

\* wait() finds no thread any more: the objects that are left have lost theirs.
LEMMA HandleNoChildrenStep ==
  ASSUME Inv, StepInv, HandleNoChildren PROVE StepInv'
<1> DEFINE done(p) == DetachTracee([t |-> tracees[p], k |-> th[own[p]], v |-> view[p], ex |-> "none"])
           left == {p \in DOMAIN tracees : ~Removed(done(p).t)}
           c == Context'
<1>1. /\ th' = th /\ UNCHANGED threadVars /\ unknown' = unknown /\ view' = view /\ announced' = announced
      /\ \A p \in Pids : th[p].traced => th[p].run = "gone"
      /\ over' # "no"
      /\ \/ tracees' = [p \in left |-> done(p).t] /\ own' = Restrict(own, left)
         \/ tracees' = tracees /\ own' = own
  BY DEF HandleNoChildren
<1>2. \A p \in DOMAIN tracees :
        /\ p \in Pids /\ own[p] = p /\ Calm(th[p]) /\ Joined(tracees[p], th[p], view[p])
        /\ th[p].run = "gone" => \/ done(p).t = tracees[p] \/ done(p).t.state \in {"DEAD", "DETACHED"}
                                 \/ Joined(done(p).t, th[p], view[p])
        /\ ~th[p].traced => done(p).t = tracees[p]
  BY DetachedBonded
<1>3. /\ c.th = th /\ c.tracees = tracees' /\ c.own = own' /\ c.unknown = unknown /\ c.view = view
      /\ c.announced = announced
  BY <1>1, NextContext
<1> HIDE DEF done, c
<1>4. DOMAIN tracees' \subseteq DOMAIN tracees
  BY <1>1
<1>5. ASSUME NEW q \in DOMAIN tracees PROVE Bonded(c, q)
  <2>1. /\ q \in Pids /\ own[q] = q /\ Joined(tracees[q], th[q], view[q]) /\ (th[q].traced => th[q].run = "gone")
    BY <1>1, <1>2
  <2>2. CASE tracees' = [p \in left |-> done(p).t] /\ own' = Restrict(own, left)
    <3>1. CASE q \in left
      <4>1. done(q).t.state \notin {"DEAD", "DETACHED"} /\ tracees'[q] = done(q).t /\ own'[q] = q
            /\ q \in DOMAIN tracees'
        BY <2>1, <2>2, <3>1 DEF Removed, Restrict
      <4>2. Joined(done(q).t, th[q], view[q])
        BY <1>2, <2>1, <4>1
      <4> QED BY <1>3, <4>1, <4>2 DEF Bonded
    <3>2. CASE q \notin left
      <4>1. q \notin DOMAIN tracees'
        BY <2>2, <3>2
      <4>2. ~Live(th[q])
        BY <2>1 DEF Live
      <4>3. view[q].asked \/ th[q].run = "gone"
        BY <2>1 DEF Joined, Bound
      <4> QED BY <1>3, <4>1, <4>2, <4>3 DEF Bonded
    <3> QED BY <3>1, <3>2
  <2>3. CASE tracees' = tracees /\ own' = own
    BY <1>3, <2>1, <2>3 DEF Bonded
  <2> QED BY <1>1, <2>2, <2>3
<1>6. \A q \in Pids \ DOMAIN tracees : th'[q] = th[q] /\ view'[q] = view[q] /\ q \notin DOMAIN tracees'
  BY <1>1, <1>4
<1>7. \A q \in DOMAIN tracees : Calm(th'[q]) /\ Bonded(c, q) /\ (ChildStop(th'[q]) => ChildStop(th[q]))
  BY <1>1, <1>2, <1>5
<1> HIDE DEF left
<1> QED
  BY <1>1, <1>6, <1>7, BetweenEventsStep DEF c

\* In the beginning the tracees run, outside of any system call.
LEMMA InitStep == ASSUME Init PROVE StepInv
<1>1. PICK traced \in TracedSets : InitTracing(traced)
  BY DEF Init
<1> DEFINE all == {Main} \cup Others
           t0 == [NewTracee(FALSE) EXCEPT !.state = "RUNNING", !.prev = "EVENT_STOP", !.mode = "SYSCALL"]
           R(b) == [NewThread EXCEPT !.run = "run", !.traced = b, !.sysgood = b]
           V(b) == [NewView EXCEPT !.attached = b]
<1>2. /\ leader = [p \in Pids |-> IF p \in all THEN Main ELSE NoPid]
      /\ execing = {} /\ DOMAIN unknown = {} /\ announced = {}
  BY DEF Init
<1>3. traced \subseteq all /\ all \subseteq Pids /\ Main \in Pids /\ NoPid \notin Pids /\ Known(announced) = all
  BY <1>2, PidsAssumption DEF Known
<1>4. /\ th = [p \in Pids |-> IF p \in all THEN R(p \in traced) ELSE NewThread]
      /\ tracees = [p \in traced |-> t0] /\ own = [p \in traced |-> p]
      /\ view = [p \in Pids |-> V(p \in traced)]
  BY <1>1 DEF InitTracing
<1>5. /\ NewThread \in Thread /\ NewThread.run = "gone" /\ ~NewThread.traced /\ ~NewThread.gstop /\ ~NewThread.notify
      /\ ~NewThread.trap /\ NewThread.nr = "read" /\ ~NewThread.status /\ ~NewThread.sysgood /\ ~NewThread.insys
      /\ NewThread.at = "none"
  BY DEF NewThread, Thread, Calls
<1>6. Calm(NewThread) /\ ~Live(NewThread)
  BY <1>5 DEF Calm, ThreadInv, Live
<1>7. ASSUME NEW b \in BOOLEAN
      PROVE  /\ Calm(R(b)) /\ (Live(R(b)) <=> b) /\ R(b).run = "run" /\ R(b).sysgood = b /\ R(b).traced = b /\ ~R(b).insys
             /\ V(b).attached = b
  <2> DEFINE r == R(b)
  <2>1. /\ r \in Thread /\ r.run = "run" /\ r.traced = b /\ r.sysgood = b /\ ~r.gstop /\ ~r.notify
        /\ ~r.trap /\ r.nr = "read" /\ ~r.status /\ ~r.insys /\ r.at = "none"
    BY <1>5 DEF Thread
  <2>2. V(b).attached = b
    BY DEF NewView
  <2> HIDE DEF r
  <2>3. Calm(r) /\ (Live(r) <=> b)
    BY <2>1 DEF Calm, ThreadInv, Live
  <2> QED BY <2>1, <2>2, <2>3 DEF r
<1>8. t0.mode = "SYSCALL" /\ t0.valid /\ t0.state = "RUNNING" /\ t0.flags = {} /\ ~t0.blocked
  BY DEF NewTracee
<1> HIDE DEF t0, R, V
<1>9. ASSUME NEW v PROVE Joined(t0, R(TRUE), v)
  <2> DEFINE r == R(TRUE)
  <2>1. r.run = "run" /\ r.traced /\ r.sysgood /\ ~r.insys
    BY <1>7
  <2> HIDE DEF r
  <2>2. Synced(t0, r) /\ Bound(t0, r, v)
    BY <1>8, <2>1 DEF Synced, SyscallStopPending, Bound
  <2> QED BY <2>2 DEF Joined, r
<1> HIDE DEF all
<1>10. ASSUME NEW q \in Pids PROVE Fit(Context, leader, q) /\ th[q].run # "stop"
  <2> DEFINE b == q \in traced
  <2>1. b \in BOOLEAN
    OBVIOUS
  <2>2. /\ view[q].attached = b /\ (q \in all => th[q] = R(b)) /\ (q \notin all => th[q] = NewThread)
    BY <1>4, <1>7, <2>1
  <2>3. CASE q \in traced
    <3>1. b = TRUE /\ q \in all
      BY <1>3, <2>3
    <3>2. /\ th[q] = R(TRUE) /\ tracees[q] = t0 /\ own[q] = q /\ q \in DOMAIN tracees
      BY <1>4, <2>2, <2>3, <3>1
    <3>3. KnownFit(Context, q)
      BY <1>2, <1>9, <3>2, ThisContext DEF KnownFit, Bonded
    <3> QED BY <1>3, <1>7, <3>1, <3>2, <3>3, ThisContext DEF Fit
  <2>4. CASE q \in all \ traced
    <3>1. b = FALSE
      BY <2>4
    <3>2. th[q] = R(FALSE) /\ view[q].attached = FALSE /\ q \notin DOMAIN tracees
      BY <1>4, <2>2, <2>4, <3>1
    <3>3. KnownFit(Context, q)
      BY <1>2, <1>7, <3>2, ThisContext DEF KnownFit, Bonded
    <3> QED BY <1>3, <1>7, <2>4, <3>2, <3>3, ThisContext DEF Fit
  <2>5. CASE q \notin all
    <3>1. th[q] = NewThread /\ leader[q] = NoPid
      BY <1>2, <2>2, <2>5
    <3>2. UnheardFit(Context, leader, q)
      BY <1>2, <1>5, <1>6, <3>1, ThisContext DEF UnheardFit
    <3> QED BY <1>3, <1>5, <1>6, <2>5, <3>1, <3>2, ThisContext DEF Fit
  <2> QED BY <1>3, <2>3, <2>4, <2>5
<1>11. \A q \in Pids : NoneForgotten(Context, q)
  BY <1>10, ThisContext DEF NoneForgotten
<1>12. ChildInv
  BY <1>10 DEF ChildInv, ChildStop
<1>13. PresentInv
  BY <1>2, <1>3 DEF PresentInv
<1> QED
  BY <1>2, <1>10, <1>11, <1>12, <1>13 DEF StepInv

(* The theorems. *)

\* Every step keeps the invariant, as long as no thread calls execve().
LEMMA NextStep ==
  ASSUME NoExec, Inv, StepInv, [Next]_vars PROVE StepInv'
<1>1. CASE UNCHANGED vars
  <2>1. th' = th /\ UNCHANGED threadVars /\ UNCHANGED engineVars
    BY <1>1 DEF vars
  <2>2. \A q \in Pids : Calm(th[q])
    BY ThisContext DEF StepInv, Fit
  <2> QED BY <2>1, <2>2, IdleAdvances, ThreadsStep
<1>2. ASSUME NEW p \in Pids, ThreadNext(p) PROVE StepInv'
  <2>1. ~ExecBegins(p)
    <3>1. Calm(th[p])
      BY ThisContext DEF StepInv, Fit
    <3> QED BY <3>1 DEF ExecBegins, Calm
  <2>2. ~ExecDone(p)
    BY DEF StepInv, ExecDone
  <2> QED BY <1>2, <2>1, <2>2, ThreadStepsStep, CloneStep DEF ThreadNext
<1>3. ASSUME NEW p \in Pids, KillProcess(p) \/ EngineHandleEvent(p) \/ ConsumerDetach(p) PROVE StepInv'
  BY <1>3, ThreadStepsStep, EngineHandleEventStep, ConsumerDetachStep
<1>4. CASE TraceReturns
  <2>1. /\ DOMAIN tracees = {} /\ over' = "returned" /\ th' = th /\ UNCHANGED threadVars /\ tracees' = tracees
        /\ unknown' = unknown /\ view' = view /\ announced' = announced
    BY <1>4 DEF TraceReturns
  <2> QED BY <2>1, BetweenEventsStep
<1> QED
  BY <1>1, <1>2, <1>3, <1>4, HandleNoChildrenStep, StopStep DEF Next

\* As long as no thread calls execve(), StepInv holds from the beginning on.
THEOREM StepInvariance == NoExec => (Spec => []StepInv)
<1> SUFFICES ASSUME NoExec PROVE Spec => []StepInv
  OBVIOUS
<1>1. Init => StepInv
  BY InitStep
<1>2. Inv /\ StepInv /\ [Next]_vars => StepInv'
  BY NextStep
<1> QED
  BY <1>1, <1>2, Invariance, PTL DEF Spec

\* What every Tracee believes about its thread being in a system call agrees with the
\* stop that wait() reports next, for any number of threads that come and go, and
\* wherever SIGKILL, detach() and stop() strike, as long as none calls execve().
THEOREM EveryTraceeInStep == NoExec => (Spec => []SyscallInStep)
<1> SUFFICES ASSUME NoExec PROVE Spec => []SyscallInStep
  OBVIOUS
<1>1. Inv /\ StepInv => SyscallInStep
  <2> SUFFICES ASSUME Inv, StepInv, NEW p \in DOMAIN tracees, th[p].traced, th[p].status, th[p].at \in SyscallStops
               PROVE  /\ ("SYSCALL_ENTERED" \in tracees[p].flags) <=> (th[p].at = "SYS_EXIT")
                      /\ th[p].at = "SYS_EXIT" => tracees[p].cur # "none"
    BY DEF SyscallInStep
  <2>1. p \in Pids /\ p \in Known(announced)
    BY MapFacts DEF Inv, TypeInv, PidsInv
  <2>2. Calm(th[p]) /\ Joined(tracees[p], th[p], view[p])
    BY <2>1, ThisContext DEF StepInv, Fit, KnownFit, Bonded
  <2>3. th[p].run = "stop"
    BY <2>2 DEF Calm, ThreadInv, SyscallStops
  <2>4. Synced(tracees[p], th[p])
    BY <2>2, <2>3 DEF Joined, Live, PtraceStops, SyscallStops
  <2> QED BY <2>3, <2>4 DEF Synced, SyscallStopPending, SyscallStops
<1> QED
  BY <1>1, Invariance, StepInvariance, PTL

\* What m_unknown_events holds is the first stop of a thread that nobody has told of
\* and which still waits there, unless it has been killed; so checkUnknownEvents()
\* handles no event of a thread that has gone on.
THEOREM StoredStillPending == NoExec => (Spec => []StoredIsPending)
<1> SUFFICES ASSUME NoExec PROVE Spec => []StoredIsPending
  OBVIOUS
<1>1. Inv /\ StepInv => StoredIsPending
  <2> SUFFICES ASSUME Inv, StepInv, NEW p \in DOMAIN unknown
               PROVE  /\ p \notin DOMAIN tracees
                      /\ \/ th[p].run = "stop" /\ th[p].at \in {unknown[p], "EV_EXIT"}
                         \/ th[p].run \in {"dying", "zombie", "gone"}
    BY DEF StoredIsPending
  <2>1. p \in Pids /\ Fit(Context, leader, p)
    BY MapFacts DEF Inv, TypeInv, StepInv
  <2>2. p \notin Known(announced) /\ Calm(th[p])
    BY <2>1, ThisContext DEF Fit, KnownFit
  <2>3. /\ unknown[p] = "EV_STOP_TRAP" /\ leader[p] # NoPid /\ th[p].traced
        /\ Live(th[p]) => FirstStop(th[p])
    BY <2>1, <2>2, ThisContext DEF Fit, UnheardFit
  <2>4. p \notin DOMAIN tracees
    BY <2>2 DEF Inv, PidsInv
  <2>5. th[p].run # "run" /\ th[p].run # "listen"
    BY <2>1, <2>2 DEF Inv, UnheardInv, Calm
  <2>6. CASE th[p].run = "stop"
    <3>1. Live(th[p]) \/ th[p].at = "EV_EXIT"
      BY <2>2, <2>3, <2>6 DEF Live, Calm, PtraceStops, EventStops, SyscallStops
    <3> QED BY <2>3, <2>4, <2>6, <3>1 DEF FirstStop
  <2>7. CASE th[p].run # "stop"
    BY <2>2, <2>4, <2>5, <2>7 DEF Calm, Thread
  <2> QED BY <2>6, <2>7
<1> QED
  BY <1>1, Invariance, StepInvariance, PTL

\* No thread is left in a stop that wait() has returned while trace() goes on, but for
\* those whose event is stored, and for exit-stops that are nobody's any more.
THEOREM NoStopForgotten == NoExec => (Spec => []NoForgottenStop)
<1> SUFFICES ASSUME NoExec PROVE Spec => []NoForgottenStop
  OBVIOUS
<1>1. Inv /\ StepInv => NoForgottenStop
  <2> SUFFICES ASSUME Inv, StepInv, over = "no", NEW p \in Pids, InStop(th[p]), ~th[p].status
               PROVE  p \in DOMAIN unknown \/ (th[p].at = "EV_EXIT" /\ (view[p].attached => view[p].asked))
    BY DEF NoForgottenStop
  <2>1. th[p].run = "stop" /\ Fit(Context, leader, p) /\ NoneForgotten(Context, p)
    BY DEF InStop, StepInv
  <2>2. CASE p \in Known(announced)
    BY <2>1, <2>2, ThisContext DEF NoneForgotten, Excused
  <2>3. CASE p \notin Known(announced)
    <3>1. p \in DOMAIN unknown \/ th[p].at = "EV_EXIT"
      BY <2>1, <2>3, ThisContext DEF Fit, UnheardFit
    <3>2. ~view[p].attached
      BY <2>3 DEF Inv, UnheardInv
    <3> QED BY <3>1, <3>2
  <2> QED BY <2>2, <2>3
<1> QED
  BY <1>1, Invariance, StepInvariance, PTL

(* What the consumer is told. *)

\* A thread need not be the only one of its process.
Shared == FALSE

\* A Tracee in m_tracees, its thread and what the consumer has been told of it agree;
\* the end of the thread has not been told, and it is traced with PTRACE_SYSCALL unless
\* nobody has restarted it yet.
Voiced(t, k, v) ==
    /\ t.child = FALSE /\ "INJECTED_SIGSTOP" \notin t.flags
    /\ Core(t, k, v, Shared) /\ RestInv(t, k, v, Shared)
    /\ ~v.asked => k.run # "gone"
    /\ t.mode = "CONT" /\ Live(k) => FirstStop(k)

\* What the kernel guarantees of a thread of the Engine; a child is reported from
\* inside of a system call.
Sound(k) == Calm(k) /\ KernelInv(k, Shared) /\ (ChildStop(k) => k.insys)

\* A step of a thread that the Engine need not know of.
Quiet(a, b) ==
    /\ StepKeeps(a, b, Shared) /\ Advances(a, b) /\ (ChildStop(b) => b.insys)
    /\ b.run = "gone" => a.run = "gone" \/ ~a.traced

\* Such a step tells the consumer nothing.
LEMMA QuietVoiced ==
  ASSUME NEW a, Sound(a), NEW b, Quiet(a, b), NEW t \in Tracees, NEW v \in Views, Voiced(t, a, v), Joined(t, a, v)
  PROVE  Voiced(t, b, v) /\ Sound(b)
<1>1. a \in Thread /\ b \in Thread /\ ThreadInv(a) /\ KernelInv(a, Shared) /\ Calm(b)
  BY DEF Sound, Quiet, Advances, Calm
<1>2. Core(t, b, v, Shared) /\ RestInv(t, b, v, Shared)
  <2>1. /\ StepKeeps(a, b, Shared) /\ Core(t, a, v, Shared) /\ RestInv(t, a, v, Shared)
        /\ (Live(a) => Synced(t, a)) /\ ~t.child
    BY DEF Quiet, Voiced, Joined
  <2> QED BY <1>1, <2>1, StepCore
<1>3. ~v.asked => b.run # "gone"
  <2>1. ~v.asked => a.run # "gone" /\ t.valid
    BY DEF Voiced, Core, HeldInv
  <2>2. t.valid => a.traced
    BY DEF Voiced, Core, HeldInv
  <2> QED BY <2>1, <2>2 DEF Quiet
<1>4. t.mode = "CONT" /\ Live(b) => FirstStop(b)
  BY DEF Quiet, Advances, Voiced
<1> QED
  BY <1>1, <1>2, <1>3, <1>4 DEF Voiced, Sound, Quiet, StepKeeps

\* Doing nothing is such a step.
LEMMA IdleQuiet == ASSUME NEW a, Sound(a) PROVE Quiet(a, a)
<1>1. StepKeeps(a, a, Shared)
  BY DEF Sound, StepKeeps, Calm
<1> QED
  BY <1>1, IdleAdvances DEF Sound, Quiet

\* SIGKILL is.
LEMMA KillQuiet == ASSUME NEW a, Sound(a) PROVE Quiet(a, Kill(a)) /\ ~ChildStop(Kill(a))
<1>1. Calm(a) /\ a \in Thread /\ ThreadInv(a) /\ KernelInv(a, Shared)
  BY DEF Sound, Calm
<1>2. StepKeeps(a, Kill(a), Shared)
  BY <1>1, KillStep
<1>3. Advances(a, Kill(a)) /\ ~ChildStop(Kill(a))
  BY <1>1, KillAdvances
<1>4. Kill(a).run = "gone" => a.run = "gone"
  BY <1>1, KillFields
<1> QED
  BY <1>2, <1>3, <1>4 DEF Quiet

\* And so is the end of the thread because its process exits.
LEMMA ZapQuiet ==
  ASSUME NEW a, Sound(a)
  PROVE  LET b == [Kill(a) EXCEPT !.fatal = a.fatal] IN Quiet(a, b) /\ ~ChildStop(b)
<1> DEFINE c == Kill(a)
           b == [c EXCEPT !.fatal = a.fatal]
<1>1. Calm(a) /\ a \in Thread /\ ThreadInv(a) /\ KernelInv(a, Shared)
  BY DEF Sound, Calm
<1>2. StepKeeps(a, c, Shared) /\ (c.run = "gone" => a.run = "gone")
  BY <1>1, KillStep, KillFields DEF Quiet
<1>3. Advances(a, b) /\ ~ChildStop(b)
  BY <1>1, KillAdvances
<1>4. c \in Thread
  BY <1>1, KillCalm DEF Calm
<1>5. /\ b.run = c.run /\ b.at = c.at /\ b.status = c.status /\ b.traced = c.traced /\ b.gstop = c.gstop
      /\ b.trap = c.trap /\ b.notify = c.notify /\ b.insys = c.insys /\ b.nr = c.nr /\ b.fatal = a.fatal
  BY <1>4 DEF Thread
<1>6. c.traced = a.traced /\ (a.fatal => c.fatal) /\ (c.run = "zombie" \/ c.run = "dying" \/ c = a)
  <2>1. a.fatal \in BOOLEAN
    BY <1>1 DEF Thread
  <2> QED BY <1>1, <2>1, KillFields
<1> HIDE DEF b, c
<1>7. KernelInv(b, Shared)
  BY <1>1, <1>2, <1>5, <1>6 DEF StepKeeps, KernelInv, Shared
<1>8. StepKeeps(a, b, Shared)
  BY <1>1, <1>2, <1>5, <1>6, <1>7 DEF StepKeeps, Over, Released, Live, InTrapStop, InStop, Shared
<1> QED
  BY <1>2, <1>3, <1>5, <1>8 DEF Quiet, b, c

\* What a thread does of itself is such a step, too.
LEMMA OwnQuiet ==
  ASSUME NEW a, Sound(a), NEW c \in Calls \ {"execve"}
  PROVE  /\ CanEnterCall(a) => Quiet(a, EnterCall(a, c)) /\ ~ChildStop(EnterCall(a, c))
         /\ CanLeaveCall(a) => Quiet(a, LeaveCall(a)) /\ ~ChildStop(LeaveCall(a))
         /\ CanTrap(a) => Quiet(a, TakeTrap(a)) /\ ~ChildStop(TakeTrap(a))
         /\ CanExit(a) => Quiet(a, Exit(a)) /\ ~ChildStop(Exit(a))
         /\ a.run = "dying" /\ a.traced => /\ Quiet(a, ExitStop(a)) /\ ~ChildStop(ExitStop(a))
                                           /\ Quiet(a, Die(a, FALSE)) /\ ~ChildStop(Die(a, FALSE))
         /\ a.run = "dying" /\ ~a.traced => LET b == [a EXCEPT !.run = "gone"] IN Quiet(a, b) /\ ~ChildStop(b)
<1>1. Calm(a) /\ a \in Thread /\ ThreadInv(a) /\ KernelInv(a, Shared)
  BY DEF Sound, Calm
<1>2. CanEnterCall(a) => Quiet(a, EnterCall(a, c)) /\ ~ChildStop(EnterCall(a, c))
  <2> SUFFICES ASSUME CanEnterCall(a) PROVE Quiet(a, EnterCall(a, c)) /\ ~ChildStop(EnterCall(a, c))
    OBVIOUS
  <2>1. StepKeeps(a, EnterCall(a, c), Shared)
    BY <1>1, EnterCallStep
  <2>2. Advances(a, EnterCall(a, c)) /\ ~ChildStop(EnterCall(a, c))
    BY <1>1, EnterCallAdvances
  <2>3. EnterCall(a, c).run # "gone"
    BY <1>1 DEF EnterCall, StopAt, CanEnterCall, Thread
  <2> QED BY <2>1, <2>2, <2>3 DEF Quiet
<1>3. CanLeaveCall(a) => Quiet(a, LeaveCall(a)) /\ ~ChildStop(LeaveCall(a))
  <2> SUFFICES ASSUME CanLeaveCall(a) PROVE Quiet(a, LeaveCall(a)) /\ ~ChildStop(LeaveCall(a))
    OBVIOUS
  <2>1. StepKeeps(a, LeaveCall(a), Shared)
    BY <1>1, LeaveCallStep
  <2>2. Advances(a, LeaveCall(a)) /\ ~ChildStop(LeaveCall(a))
    BY <1>1, LeaveCallAdvances
  <2>3. LeaveCall(a).run # "gone"
    BY <1>1 DEF LeaveCall, Leave, TakeTrap, StopAt, CanLeaveCall, Thread
  <2> QED BY <2>1, <2>2, <2>3 DEF Quiet
<1>4. CanTrap(a) => Quiet(a, TakeTrap(a)) /\ ~ChildStop(TakeTrap(a))
  <2> SUFFICES ASSUME CanTrap(a) PROVE Quiet(a, TakeTrap(a)) /\ ~ChildStop(TakeTrap(a))
    OBVIOUS
  <2>1. StepKeeps(a, TakeTrap(a), Shared)
    BY <1>1, TrapStep
  <2>2. Advances(a, TakeTrap(a)) /\ ~ChildStop(TakeTrap(a))
    BY <1>1, TrapAdvances
  <2>3. TakeTrap(a).run # "gone"
    BY <1>1, TakeTrapFields
  <2> QED BY <2>1, <2>2, <2>3 DEF Quiet
<1>5. CanExit(a) => Quiet(a, Exit(a)) /\ ~ChildStop(Exit(a))
  <2> SUFFICES ASSUME CanExit(a) PROVE Quiet(a, Exit(a)) /\ ~ChildStop(Exit(a))
    OBVIOUS
  <2>1. StepKeeps(a, Exit(a), Shared)
    BY <1>1, EndStep
  <2>2. Advances(a, Exit(a)) /\ ~ChildStop(Exit(a))
    BY <1>1, EndAdvances
  <2>3. Exit(a).run # "gone"
    BY <1>1 DEF Exit, Thread
  <2> QED BY <2>1, <2>2, <2>3 DEF Quiet
<1>6. a.run = "dying" /\ a.traced => /\ Quiet(a, ExitStop(a)) /\ ~ChildStop(ExitStop(a))
                                     /\ Quiet(a, Die(a, FALSE)) /\ ~ChildStop(Die(a, FALSE))
  <2> SUFFICES ASSUME a.run = "dying", a.traced
               PROVE  /\ Quiet(a, ExitStop(a)) /\ ~ChildStop(ExitStop(a))
                      /\ Quiet(a, Die(a, FALSE)) /\ ~ChildStop(Die(a, FALSE))
    OBVIOUS
  <2>1. StepKeeps(a, ExitStop(a), Shared) /\ StepKeeps(a, Die(a, FALSE), Shared)
    BY <1>1, EndStep
  <2>2. /\ Advances(a, ExitStop(a)) /\ ~ChildStop(ExitStop(a))
        /\ Advances(a, Die(a, FALSE)) /\ ~ChildStop(Die(a, FALSE))
    BY <1>1, EndAdvances
  <2>3. ExitStop(a).run = "stop" /\ Die(a, FALSE).run = "zombie"
    BY <1>1 DEF ExitStop, StopAt, Die, Thread
  <2> QED BY <2>1, <2>2, <2>3 DEF Quiet
<1>7. a.run = "dying" /\ ~a.traced => LET b == [a EXCEPT !.run = "gone"] IN Quiet(a, b) /\ ~ChildStop(b)
  <2> SUFFICES ASSUME a.run = "dying", ~a.traced
               PROVE  LET b == [a EXCEPT !.run = "gone"] IN Quiet(a, b) /\ ~ChildStop(b)
    OBVIOUS
  <2> DEFINE b == [a EXCEPT !.run = "gone"]
  <2>1. Advances(a, b) /\ ~ChildStop(b)
    BY <1>1, EndAdvances
  <2>2. /\ b.run = "gone" /\ b.at = a.at /\ b.status = a.status /\ b.traced = a.traced /\ b.gstop = a.gstop
        /\ b.trap = a.trap /\ b.notify = a.notify /\ b.insys = a.insys /\ b.nr = a.nr /\ b.fatal = a.fatal
    BY <1>1 DEF Thread
  <2> HIDE DEF b
  <2>3. KernelInv(b, Shared)
    BY <1>1, <2>2 DEF KernelInv
  <2>4. StepKeeps(a, b, Shared)
    BY <1>1, <2>2, <2>3 DEF StepKeeps, Over, Released, Live, InTrapStop, InStop, Exiting
  <2> QED BY <2>1, <2>4 DEF Quiet, b
<1> QED
  BY <1>2, <1>3, <1>4, <1>5, <1>6, <1>7

\* So is the report of a child.
LEMMA ChildQuiet ==
  ASSUME NEW a, Sound(a), CanReport(a, "EV_CHILD")
  PROVE  LET b == [StopAt(a, "EV_CHILD") EXCEPT !.nr = "read"] IN Quiet(a, b)
<1> DEFINE c == StopAt(a, "EV_CHILD")
           b == [c EXCEPT !.nr = "read"]
<1>1. Calm(a) /\ a \in Thread /\ ThreadInv(a) /\ KernelInv(a, Shared)
  BY DEF Sound, Calm
<1>2. StepKeeps(a, c, Shared)
  BY <1>1, ReportStep DEF EventStops
<1>3. Advances(a, b)
  BY <1>1, ChildAdvances
<1>4. /\ c \in Thread /\ c.run = "stop" /\ c.at = "EV_CHILD" /\ c.insys /\ c.traced
  BY <1>1 DEF StopAt, CanReport, Thread, Statuses, PtraceStops, EventStops
<1>5. /\ b.run = c.run /\ b.at = c.at /\ b.status = c.status /\ b.traced = c.traced /\ b.gstop = c.gstop
      /\ b.trap = c.trap /\ b.notify = c.notify /\ b.insys = c.insys /\ b.nr = "read" /\ b.fatal = c.fatal
  BY <1>4 DEF Thread
<1> HIDE DEF b, c
<1>6. KernelInv(b, Shared)
  BY <1>2, <1>4, <1>5 DEF StepKeeps, KernelInv
<1>7. StepKeeps(a, b, Shared)
  BY <1>2, <1>4, <1>5, <1>6 DEF StepKeeps, Over, Released, Live, InTrapStop, InStop, Exiting
<1> QED
  BY <1>3, <1>4, <1>5, <1>7 DEF Quiet, b, c

(* What the handlers tell. *)

\* Once the first stop has been handled the thread is traced with PTRACE_SYSCALL.
LEMMA FirstStopTuned ==
  ASSUME NEW f \in Frames, NEW in \in InputRecords, in.ev = "EV_STOP_TRAP", "INJECTED_SIGSTOP" \notin f.t.flags,
         "DETACH_AT_NEXT_STOP" \notin f.t.flags
  PROVE  HandleTrap(f, in).t.mode # "CONT"
<1> DEFINE g == ToState(f, "EVENT_STOP")
           m == [g EXCEPT !.t.flags = @ \ {"WAIT_FOR_ATTACH_STOP"}, !.t.mode = "SYSCALL"]
           k == KillAt(m, in, "request")
           h == HandleStopEvent(g, in)
<1>1. HandleTrap(f, in) = RestartTracee(h, in)
  BY DEF HandleTrap, HandleEvent, SyscallStops, EventStops
<1>2. g \in Frames /\ g.t.flags = f.t.flags
  BY ToStateParts DEF States, ChangedFlags
<1> HIDE DEF g
<1>3. g.t \in Tracees
  BY <1>2, FrameParts
<1>4. [g.t EXCEPT !.mode = "SYSCALL"] \in Tracees
  BY <1>3 DEF Tracees, RestartModes
<1>5. [[g.t EXCEPT !.flags = @ \ {"WAIT_FOR_ATTACH_STOP"}] EXCEPT !.mode = "SYSCALL"] \in Tracees
  BY <1>3 DEF Tracees, RestartModes
<1>6. m = [g EXCEPT !.t = [[g.t EXCEPT !.flags = @ \ {"WAIT_FOR_ATTACH_STOP"}] EXCEPT !.mode = "SYSCALL"]]
  BY <1>2, <1>3 DEF Frames, Tracees
<1>7. m \in Frames /\ m.t.mode = "SYSCALL"
  <2>1. m \in Frames /\ m.t = [[g.t EXCEPT !.flags = @ \ {"WAIT_FOR_ATTACH_STOP"}] EXCEPT !.mode = "SYSCALL"]
    BY <1>2, <1>5, <1>6, FrameParts
  <2> QED BY <1>3, <2>1 DEF Tracees
<1>8. CASE "WAIT_FOR_ATTACH_STOP" \in g.t.flags
  <2>1. h = IF ~Reachable(k) THEN Throw(k, "ESRCH") ELSE Notify(k, in, "attached", "none", "none")
    BY <1>2, <1>8 DEF HandleStopEvent, HandleAttached
  <2> HIDE DEF m
  <2>2. Stays(m, k)
    BY <1>7, SmallStays
  <2> HIDE DEF k
  <2>3. Stays(k, Throw(k, "ESRCH")) /\ Stays(k, Notify(k, in, "attached", "none", "none"))
    BY <2>2, SmallStays, NotifyStays DEF Stays, MaybeCall
  <2>4. Stays(k, h)
    BY <2>1, <2>3
  <2> HIDE DEF h
  <2>5. Stays(h, RestartTracee(h, in))
    BY <2>4, RestartTraceeStays DEF Stays
  <2> QED BY <1>1, <1>7, <2>2, <2>4, <2>5 DEF Stays, Tuned
<1>9. CASE "WAIT_FOR_ATTACH_STOP" \notin g.t.flags
  <2>1. h = [g EXCEPT !.t.mode = "SYSCALL"]
    BY <1>9 DEF HandleStopEvent
  <2>2. h = [g EXCEPT !.t = [g.t EXCEPT !.mode = "SYSCALL"]]
    BY <1>2, <2>1 DEF Frames
  <2> HIDE DEF h
  <2>3. h \in Frames /\ h.t.mode = "SYSCALL"
    <3>1. h \in Frames /\ h.t = [g.t EXCEPT !.mode = "SYSCALL"]
      BY <1>2, <1>4, <2>2, FrameParts
    <3> QED BY <1>3, <3>1 DEF Tracees
  <2>4. Stays(h, RestartTracee(h, in))
    BY <2>3, RestartTraceeStays
  <2> QED BY <1>1, <2>3, <2>4 DEF Stays, Tuned
<1> QED
  BY <1>8, <1>9

\* handleSystemCall() gets the stop that it expects.
LEMMA SystemCallExpected ==
  ASSUME NEW f, NEW k0, Held(f, k0), NEW in \in InputRecords, f.ex = "none", f.k.at \in SyscallStops,
         "SYSCALL_ENTERED" \in f.t.flags <=> f.k.at = "SYS_EXIT"
  PROVE  HandleSystemCall(f, in).ex \in {"none", "ESRCH"}
<1> DEFINE g == KillAt(f, in, "request")
           x == ToState(f, "SYSCALL_EXIT_STOP")
           e == ToState(f, "SYSCALL_ENTER_STOP")
<1>1. Held(g, k0) /\ (Reachable(g) => g = f)
  BY KillAtHeld
<1>2. CASE ~Reachable(g)
  <2>1. HandleSystemCall(f, in) = Throw(g, "ESRCH")
    BY <1>2 DEF HandleSystemCall
  <2> HIDE DEF g
  <2> QED BY <1>1, <1>2, <2>1, ThrowHeld
<1>3. CASE Reachable(g)
  <2>1. g = f
    BY <1>1, <1>3
  <2>2. HandleSystemCall(f, in) = IF f.k.at = "SYS_EXIT" THEN HandleSystemCallExit(x, in) ELSE HandleSystemCallEntry(e, in)
    BY <1>3, <2>1 DEF HandleSystemCall, SyscallStops
  <2>3. Held(x, k0) /\ x.ex = f.ex /\ x.t.state = "SYSCALL_EXIT_STOP" /\ Held(e, k0) /\ e.ex = f.ex /\ e.t.state = "SYSCALL_ENTER_STOP"
    BY ToStateHeld DEF States
  <2> HIDE DEF x, e
  <2>4. HandleSystemCallExit(x, in).ex \in {"none", "ESRCH"} /\ HandleSystemCallEntry(e, in).ex \in {"none", "ESRCH"}
    BY <2>3, HandleSystemCallEntryHeld, HandleSystemCallExitHeld
  <2> QED BY <2>2, <2>4
<1> QED
  BY <1>2, <1>3

\* No stop makes an exception leave trace().
LEMMA NoAbort ==
  ASSUME NEW f, NEW k0, Held(f, k0), k0.status => k0.at # "EV_CHILD", f.ex = "none", NEW in \in InputRecords, in.ev = f.k.at,
         in.ev \in SyscallStops \cup {"EV_STOP_TRAP", "EV_EXIT", "EV_CHILD"},
         in.ev \in SyscallStops => ("SYSCALL_ENTERED" \in f.t.flags <=> in.ev = "SYS_EXIT"),
         in.ev = "EV_CHILD" => f.t.cur # "none"
  PROVE  HandleTrap(f, in).ex \in {"none", "ESRCH"}
<1> DEFINE g == KillAt(f, in, "request")
           e == HandleEvent(f, in)
           x == ToState(f, "EVENT_STOP")
           c == HandleSystemCall(f, in)
<1>1. SignalOf(in.ev) = "none"
  BY DEF SignalOf, SyscallStops
<1>2. CASE "DETACH_AT_NEXT_STOP" \in f.t.flags
  <2>1. Held(g, k0) /\ g.t = f.t /\ g.v = f.v /\ g.ex = f.ex
    BY KillAtHeld
  <2>2. g.v.asked \/ g.k.run = "gone"
    BY <1>2, <2>1 DEF Held, Bound
  <2> HIDE DEF g
  <2>3. DoDetach(g).ex = "none"
    BY <2>1, <2>2, DoDetachHeld
  <2>4. HandleTrap(f, in) = DoDetach(g)
    BY <1>2 DEF HandleTrap, g
  <2> QED BY <2>3, <2>4
<1>3. CASE "DETACH_AT_NEXT_STOP" \notin f.t.flags /\ in.ev \in SyscallStops
  <2>1. HandleTrap(f, in) = RestartTracee(c, in)
    BY <1>3 DEF HandleTrap, SyscallStops, EventStops
  <2>2. Held(c, k0) /\ c.ex \in {"none", "ESRCH"}
    BY <1>3, HandleSystemCallHeld, SystemCallExpected
  <2> HIDE DEF c
  <2>3. RestartTracee(c, in).ex \in {c.ex, "ESRCH"}
    BY <1>1, <2>2, RestartTraceeRested
  <2> QED BY <2>1, <2>2, <2>3
<1>4. CASE "DETACH_AT_NEXT_STOP" \notin f.t.flags /\ in.ev = "EV_EXIT"
  <2>1. HandleTrap(f, in) = RestartTracee(e, in) /\ e = HandleExitEvent(x, in)
    BY <1>4 DEF HandleTrap, HandleEvent, EventStops, SyscallStops
  <2>2. Held(x, k0) /\ x.ex = f.ex /\ x.t.state = "EVENT_STOP"
    BY ToStateHeld DEF States
  <2> HIDE DEF x
  <2>3. Held(e, k0) /\ e.ex \in {"none", "ESRCH"}
    BY <2>1, <2>2, HandleExitEventHeld
  <2> HIDE DEF e
  <2>4. RestartTracee(e, in).ex \in {e.ex, "ESRCH"}
    BY <1>1, <2>3, RestartTraceeRested
  <2> QED BY <2>1, <2>3, <2>4
<1>5. CASE in.ev \in {"EV_STOP_TRAP", "EV_CHILD"}
  BY <1>5, HandleTrapRested
<1> QED
  BY <1>2, <1>3, <1>4, <1>5

\* Telling the same once more.
LEMMA TellsSame ==
  ASSUME NEW v, NEW w, NEW z, Tells(v, w), SameTold(w, z), w.asked => z.asked PROVE Tells(v, z)
BY DEF Tells, SameTold

\* The handler of an event leaves the object in agreement with its thread and with the
\* consumer, or done with its thread, which the consumer asked for or was told.
Spoken(f, g) ==
    /\ g.ex \in {"none", "ESRCH"} /\ KernelInv(g.k, Shared) /\ Tells(f.v, g.v)
    /\ IF Removed(g.t) THEN g.v.asked \/ g.v.ends = 1 ELSE Voiced(g.t, g.k, g.v)

\* doDetach() of an object whose thread does not answer any more.
LEMMA DeadSpoken ==
  ASSUME NEW f, NEW s \in Frames, s.t.state = "DEAD", ~s.t.valid \/ s.k.run = "gone", s.ex \in {"none", "ESRCH"},
         KernelInv(s.k, Shared), Tells(f.v, s.v), s.v.asked \/ s.v.ends = 1
  PROVE  Spoken(f, DoDetach(s))
<1> DEFINE g == DoDetach(s)
<1>1. ~Reachable(s)
  BY DEF Reachable, InStop
<1>2. /\ g \in Frames /\ g.ex = s.ex /\ LetGo(s.t, g.t) /\ g.k = s.k /\ SameTold(s.v, g.v) /\ g.v.asked = s.v.asked
  BY <1>1, DoDetachParts
<1> HIDE DEF g
<1>3. Tells(f.v, g.v)
  BY <1>2, TellsSame
<1>4. Removed(g.t) /\ (g.v.asked \/ g.v.ends = 1)
  BY <1>2 DEF Removed, LetGo, SameTold
<1> QED
  BY <1>2, <1>3, <1>4 DEF Spoken, g

\* processEvent() for a status that wait() has just returned, a being the thread before.
LEMMA EventSpoken ==
  ASSUME NEW f \in Frames, NEW a, Sound(a), f.k = Collect(a), f.ex = "none", a.status, Joined(f.t, a, f.v),
         Voiced(f.t, a, f.v), NEW in \in InputRecords, in.ev = a.at
  PROVE  Spoken(f, Final(ProcessEvent(f, in)))
<1> DEFINE s == ProcessEvent(f, in)
<1>1. Calm(a) /\ a \in Thread /\ ThreadInv(a) /\ a.run \in {"stop", "zombie"} /\ KernelInv(a, Shared)
  BY DEF Sound, Calm, ThreadInv
<1>2. /\ Core(f.t, a, f.v, Shared) /\ RestInv(f.t, a, f.v, Shared) /\ (Live(a) => Synced(f.t, a)) /\ ~f.t.child
      /\ Bound(f.t, a, f.v) /\ "INJECTED_SIGSTOP" \notin f.t.flags /\ (f.t.mode = "CONT" /\ Live(a) => FirstStop(a))
  BY DEF Voiced, Joined
<1>3. IF a.run = "zombie" THEN EndedTo(f, s)
      ELSE HandledTo(f, s, Shared) /\ f.v.ends = 0 /\ ~f.v.lost /\ f.k.run = "stop"
  BY <1>1, <1>2, ProcessEventHandled
<1>4. /\ Calm(f.k) /\ f.k.traced = a.traced /\ ~f.k.status
      /\ IF a.run = "zombie" THEN f.k.run = "gone" ELSE f.k.run = a.run /\ f.k.at = a.at
      /\ KernelInv(f.k, Shared)
  BY <1>1, CollectCalm, CollectFields
<1>5. f.t \in Tracees /\ f.v \in Views
  BY FrameParts
<1>6. CASE a.run = "zombie"
  <2> HIDE DEF s
  <2>1. s \in Frames /\ s.ex = "none" /\ s.k = f.k /\ s.t.state = "DEAD" /\ Tells(f.v, s.v) /\ (s.v.asked \/ s.v.ends = 1)
    BY <1>3, <1>6 DEF EndedTo
  <2> QED BY <1>4, <1>6, <2>1, DeadSpoken DEF Final, s
<1>7. CASE a.run = "stop"
  <2>1. in.ev \in SyscallStops \cup {"EV_STOP_TRAP", "EV_EXIT", "EV_CHILD"} /\ a.traced
    BY <1>1, <1>7 DEF Calm
  <2>2. s = HandleTrap(f, in)
    BY <2>1 DEF ProcessEvent, SyscallStops
  <2>3. Stays(f, s)
    BY ProcessEventStays
  <2>4. in.ev # "EV_EXIT" => Live(a)
    BY <1>7, <2>1 DEF Live, PtraceStops, SyscallStops, EventStops
  <2>5. s.ex \in {"none", "ESRCH"}
    <3>1. Held(f, f.k)
      <4>1. Bound(f.t, f.k, f.v) /\ f.k.run # "run"
        BY <1>2, <1>4, <1>7 DEF Bound, Live
      <4> QED BY <1>4, <4>1, GotEvent
    <3>2. in.ev \in SyscallStops => ("SYSCALL_ENTERED" \in f.t.flags <=> in.ev = "SYS_EXIT")
      BY <1>2, <1>7, <2>4 DEF Synced, SyscallStopPending, SyscallStops
    <3>3. in.ev = "EV_CHILD" => f.t.cur # "none"
      <4> SUFFICES ASSUME in.ev = "EV_CHILD" PROVE f.t.cur # "none"
        OBVIOUS
      <4>1. a.insys /\ Live(a) /\ ~SyscallStopPending(a)
        BY <1>7, <2>4 DEF Sound, ChildStop, SyscallStopPending, SyscallStops
      <4>2. f.t.mode = "SYSCALL"
        BY <1>2, <1>5, <4>1 DEF FirstStop, Bound, Tracees, RestartModes
      <4> QED BY <1>2, <4>1, <4>2 DEF Synced
    <3> QED BY <1>4, <1>7, <2>1, <2>2, <3>1, <3>2, <3>3, NoAbort
  <2>6. s.t.mode = "CONT" => ~Live(s.k) \/ FirstStop(s.k)
    <3> SUFFICES ASSUME s.t.mode = "CONT", Live(s.k) PROVE FALSE
      OBVIOUS
    <3>1. f.t.mode = "CONT" /\ ~Spent(f.k)
      BY <2>3 DEF Stays, Tuned, Serves, Spent, Live
    <3>2. Live(a)
      BY <1>4, <1>7, <2>1, <2>4, <3>1 DEF Spent
    <3>3. in.ev = "EV_STOP_TRAP"
      BY <1>2, <3>1, <3>2 DEF FirstStop
    <3>4. "DETACH_AT_NEXT_STOP" \in f.t.flags
      BY <1>2, <2>2, <3>3, FirstStopTuned
    <3>5. s = DoDetach(KillAt(f, in, "request"))
      BY <2>2, <3>4 DEF HandleTrap
    <3>6. KillAt(f, in, "request") \in Frames
      BY SmallStays DEF Stays
    <3>7. ~s.t.valid
      BY <3>5, <3>6, DoDetachParts DEF LetGo
    <3>8. s.t.state # "DEAD" => Joined(s.t, s.k, s.v)
      BY <1>1, EventFinished DEF Finished, Final
    <3>9. Reachable(KillAt(f, in, "request")) \/ s.k = KillAt(f, in, "request").k
      BY <3>5, <3>6, DoDetachParts
    <3>10. ~Live(s.k)
      <4>1. CASE Reachable(KillAt(f, in, "request"))
        <5>1. s.t.state = "DETACHED"
          BY <3>5, <3>6, <4>1, DoDetachParts
        <5> QED BY <3>7, <3>8, <5>1 DEF Joined, Bound
      <4>2. CASE ~Reachable(KillAt(f, in, "request"))
        <5>1. s.k = KillAt(f, in, "request").k
          BY <3>9, <4>2
        <5>2. CASE KillAt(f, in, "request") = f
          <6>1. InStop(f.k)
            BY <1>4, <1>7, <2>1, <3>3 DEF InStop
          <6>2. ~f.t.valid
            BY <4>2, <5>2, <6>1 DEF Reachable
          <6> QED BY <1>2, <3>2, <6>2 DEF Bound
        <5>3. CASE KillAt(f, in, "request") # f
          <6>1. KillAt(f, in, "request").k = Kill(f.k)
            BY <5>3, KillAtParts
          <6> QED BY <1>4, <5>1, <6>1, KillCalm
        <5> QED BY <5>2, <5>3
      <4> QED BY <4>1, <4>2
    <3> QED BY <3>10
  <2> HIDE DEF s
  <2>7. /\ s \in Frames /\ KernelInv(s.k, Shared) /\ Tells(f.v, s.v) /\ ~s.t.child
        /\ Core(s.t, s.k, s.v, Shared) /\ RestInv(s.t, s.k, s.v, Shared)
    BY <1>2, <1>3, <1>7, <2>5 DEF HandledTo, Aborts
  <2>8. s.k.run # "gone" /\ "INJECTED_SIGSTOP" \notin s.t.flags
    BY <1>2, <1>4, <1>7, <2>3 DEF Stays, Serves, Tuned
  <2>9. CASE s.t.state = "DEAD"
    <3>1. ~s.t.valid /\ s.v.asked
      BY <2>7, <2>8, <2>9 DEF Core, HeldInv
    <3> QED BY <2>5, <2>7, <2>9, <3>1, DeadSpoken DEF Final, s
  <2>10. CASE s.t.state # "DEAD"
    <3>1. Final(s) = s
      BY <2>10 DEF Final
    <3>2. Removed(s.t) => s.v.asked
      BY <2>7 DEF Removed, Core, HeldInv
    <3>3. s.t \in Tracees
      BY <2>7, FrameParts
    <3>4. Voiced(s.t, s.k, s.v)
      BY <2>6, <2>7, <2>8, <3>3 DEF Voiced, Tracees
    <3> QED BY <2>5, <2>7, <3>1, <3>2, <3>4 DEF Spoken, s
  <2> QED BY <2>9, <2>10
<1> QED
  BY <1>1, <1>6, <1>7

\* The thread of a new child: it waits in its first stop, or it has been killed there.
Young(k) == Sound(k) /\ k.traced /\ (FirstStop(k) \/ (k.run = "dying" /\ k.fatal))

\* A new Tracee agrees with its thread as long as nobody has handled the first stop.
LEMMA FreshVoiced ==
  ASSUME NEW k, Young(k), k.run = "stop" => k.status, NEW t, NEW v, Fresh(t, v)
  PROVE  Voiced(t, k, v) /\ Joined(t, k, v)
<1>1. /\ t.child = FALSE /\ t.state = "UNKNOWN" /\ t.mode = "CONT" /\ t.valid /\ ~t.blocked /\ t.intr = "none"
      /\ t.flags \in {{"WAIT_FOR_ATTACH_STOP"}, {"WAIT_FOR_ATTACH_STOP", "DETACH_AT_NEXT_STOP"}}
      /\ "DETACH_AT_NEXT_STOP" \in t.flags <=> v.asked
  BY FreshParts
<1>2. ~v.attached /\ ~v.insys /\ v.ends = 0 /\ ~v.lost /\ ~v.wrong /\ ~v.refused
  BY FreshParts
<1>3. /\ k.traced /\ Calm(k) /\ k.run # "listen" /\ (FirstStop(k) \/ (k.run = "dying" /\ k.fatal)) /\ k.run \notin {"run", "gone"}
      /\ Live(k) => FirstStop(k)
  BY DEF Young, Sound, Calm, FirstStop, Live
<1>4. Core(t, k, v, Shared)
  BY <1>1, <1>2, <1>3 DEF Core, HeldInv, ToldInv, ListenInv
<1>5. RestInv(t, k, v, Shared)
  BY <1>1, <1>2, <1>3 DEF RestInv, InStop
<1>6. Joined(t, k, v)
  BY <1>1, <1>2, <1>3 DEF Joined, Bound, Synced, SyscallStopPending, SyscallStops, FirstStop
<1> QED
  BY <1>1, <1>2, <1>3, <1>4, <1>5, <1>6 DEF Voiced

\* processEvent() for a first stop that was stored.
LEMMA StoredSpoken ==
  ASSUME NEW f \in Frames, Fresh(f.t, f.v), f.ex = "none", Young(f.k), f.k.run = "stop" => ~f.k.status,
         NEW in \in InputRecords, in.ev = "EV_STOP_TRAP"
  PROVE  Spoken(f, Final(ProcessEvent(f, in)))
<1>1. f.k \in Thread /\ Sound(f.k) /\ f.k.traced
  BY DEF Young, Sound, Calm
<1>2. CASE f.k.run = "stop"
  <2> DEFINE a == [f.k EXCEPT !.status = TRUE]
  <2>1. /\ a \in Thread /\ a.run = f.k.run /\ a.at = f.k.at /\ a.traced = f.k.traced /\ a.status /\ a.insys = f.k.insys
        /\ a.gstop = f.k.gstop /\ a.notify = f.k.notify /\ a.nr = f.k.nr /\ a.trap = f.k.trap /\ a.sysgood = f.k.sysgood
        /\ a.fatal = f.k.fatal
    BY <1>1 DEF Thread
  <2>2. f.k = Collect(a)
    BY <1>1, <1>2 DEF Collect, Thread
  <2>3. FirstStop(f.k)
    BY <1>2 DEF Young
  <2> HIDE DEF a
  <2>4. Young(a)
    <3>1. Calm(a) /\ KernelInv(a, Shared)
      BY <1>1, <1>2, <2>1 DEF Sound, Calm, ThreadInv, KernelInv
    <3>2. FirstStop(a) /\ ~ChildStop(a)
      BY <2>1, <2>3 DEF FirstStop, ChildStop
    <3> QED BY <1>1, <2>1, <3>1, <3>2 DEF Young, Sound
  <2>5. Voiced(f.t, a, f.v) /\ Joined(f.t, a, f.v)
    BY <2>1, <2>4, FreshVoiced
  <2> QED BY <2>1, <2>2, <2>3, <2>4, <2>5, EventSpoken DEF Young, FirstStop
<1>3. CASE f.k.run # "stop" /\ "DETACH_AT_NEXT_STOP" \in f.t.flags
  <2> DEFINE k == KillAt(f, in, "request")
             s == DoDetach(k)
  <2>1. f.k.run = "dying" /\ f.k.fatal
    BY <1>3 DEF Young, FirstStop
  <2>2. k \in Frames /\ k.k = f.k /\ k.v = f.v /\ k.ex = "none"
    <3>1. Kill(f.k) = f.k
      BY <1>1, <2>1 DEF Kill
    <3>2. k \in Frames /\ k.v = f.v /\ k.ex = f.ex /\ (k = f \/ k.k = Kill(f.k))
      BY KillAtParts
    <3> QED BY <3>1, <3>2
  <2>3. ~Reachable(k)
    BY <2>1, <2>2 DEF Reachable, InStop
  <2>4. ProcessEvent(f, in) = s
    BY <1>3 DEF ProcessEvent, HandleTrap
  <2> HIDE DEF k
  <2>5. /\ s \in Frames /\ s.ex = "none" /\ LetGo(k.t, s.t) /\ s.k = f.k /\ s.t.state = "DEAD"
        /\ SameTold(f.v, s.v) /\ s.v.asked = f.v.asked
    BY <2>2, <2>3, DoDetachParts
  <2>6. s.v.asked /\ Tells(f.v, s.v)
    <3>1. f.v.asked
      BY <1>3, FreshParts
    <3>2. Tells(f.v, f.v)
      BY DEF Tells
    <3> QED BY <2>5, <3>1, <3>2, TellsSame
  <2> HIDE DEF s
  <2>7. Spoken(f, DoDetach(s))
    BY <1>1, <2>5, <2>6, DeadSpoken DEF LetGo, Sound
  <2> QED BY <2>4, <2>5, <2>7 DEF Final
<1>4. CASE f.k.run # "stop" /\ "DETACH_AT_NEXT_STOP" \notin f.t.flags
  <2> DEFINE g == ToState(f, "EVENT_STOP")
             m == [g EXCEPT !.t.flags = @ \ {"WAIT_FOR_ATTACH_STOP"},
                            !.t.mode = IF "INJECTED_SIGSTOP" \in g.t.flags THEN @ ELSE "SYSCALL"]
             k == KillAt(m, in, "request")
             s == Throw(k, "ESRCH")
  <2>1. f.k.run = "dying" /\ f.k.fatal
    BY <1>4 DEF Young, FirstStop
  <2>2. /\ f.t.child = FALSE /\ f.t.state = "UNKNOWN" /\ f.t.flags = {"WAIT_FOR_ATTACH_STOP"} /\ f.t.mode = "CONT" /\ f.t.valid
        /\ ~f.t.blocked /\ f.t.intr = "none" /\ f.t \in Tracees
    <3>1. f.t.flags = {"WAIT_FOR_ATTACH_STOP"}
      BY <1>4, FreshParts
    <3>2. /\ f.t.child = FALSE /\ f.t.state = "UNKNOWN" /\ f.t.mode = "CONT" /\ f.t.valid
          /\ ~f.t.blocked /\ f.t.intr = "none"
      BY FreshParts
    <3>3. f.t \in Tracees
      BY FrameParts
    <3> QED BY <3>1, <3>2, <3>3
  <2>3. /\ ~f.v.attached /\ ~f.v.insys /\ f.v.ends = 0 /\ ~f.v.lost /\ ~f.v.asked /\ ~f.v.wrong /\ ~f.v.refused
    BY <1>4, FreshParts
  <2>4. /\ g \in Frames /\ g.k = f.k /\ g.v = f.v /\ g.t.flags = {"WAIT_FOR_ATTACH_STOP"} /\ g.t.state = "EVENT_STOP"
        /\ g.t.valid /\ g.t.child = FALSE /\ ~g.t.blocked /\ g.t.intr = "none"
    <3>1. "EVENT_STOP" \in States /\ "EVENT_STOP" # "DEAD"
      BY DEF States
    <3>2. /\ g \in Frames /\ g.k = f.k /\ g.v = f.v /\ g.t.state = "EVENT_STOP" /\ g.t.flags = ChangedFlags(f.t, "EVENT_STOP")
          /\ g.t.valid = f.t.valid /\ g.t.child = f.t.child /\ g.t.blocked = f.t.blocked /\ g.t.intr = f.t.intr
      <4> HIDE DEF m, k, s
      <4> QED BY <3>1, ToStateParts
    <3>3. ChangedFlags(f.t, "EVENT_STOP") = {"WAIT_FOR_ATTACH_STOP"}
      BY <2>2 DEF ChangedFlags
    <3> QED BY <2>2, <3>2, <3>3
  <2> HIDE DEF g
  <2>5. g.t \in Tracees
    BY <2>4, FrameParts
  <2> DEFINE u == [[g.t EXCEPT !.flags = @ \ {"WAIT_FOR_ATTACH_STOP"}] EXCEPT !.mode = "SYSCALL"]
  <2>6. /\ u \in Tracees /\ u.flags = {} /\ u.mode = "SYSCALL" /\ u.state = "EVENT_STOP" /\ u.valid /\ u.child = FALSE
        /\ ~u.blocked /\ u.intr = "none"
    BY <2>4, <2>5 DEF Tracees, RestartModes
  <2>7. m = [g EXCEPT !.t = u]
    BY <2>4, <2>5 DEF Frames, Tracees
  <2> HIDE DEF u
  <2>8. HandleStopEvent(g, in) = IF ~Reachable(k) THEN s ELSE Notify(k, in, "attached", "none", "none")
    BY <2>4 DEF HandleStopEvent, HandleAttached
  <2> HIDE DEF m
  <2>9. m \in Frames /\ m.t = u /\ m.k = f.k /\ m.v = f.v
    BY <2>4, <2>6, <2>7, FrameParts
  <2>10. k \in Frames /\ k.t = u /\ k.k = f.k /\ k.v = f.v
    <3>1. Kill(f.k) = f.k
      BY <1>1, <2>1 DEF Kill
    <3>2. k \in Frames /\ k.t = m.t /\ k.v = m.v /\ (k = m \/ k.k = Kill(m.k))
      BY <2>9, KillAtParts
    <3> QED BY <2>9, <3>1, <3>2
  <2>11. ~Reachable(k)
    BY <2>1, <2>10 DEF Reachable, InStop
  <2> HIDE DEF k
  <2>12. s.ex = "ESRCH" /\ s.t = u /\ s.k = f.k /\ s.v = f.v
    BY <2>10 DEF Throw, Frames
  <2>13. HandleTrap(f, in) = RestartTracee(HandleStopEvent(g, in), in)
    BY <2>2 DEF HandleTrap, HandleEvent, SyscallStops, EventStops, g
  <2>14. ProcessEvent(f, in) = HandleTrap(f, in)
    BY DEF ProcessEvent
  <2>15. HandleStopEvent(g, in) = s
    BY <2>8, <2>11
  <2> HIDE DEF s
  <2>16. RestartTracee(s, in) = s
    BY <2>12 DEF RestartTracee
  <2>17. Final(s) = s
    BY <2>6, <2>12 DEF Final
  <2>18. Voiced(u, f.k, f.v)
    <3>1. ~Live(f.k) /\ f.k.run \notin {"run", "gone", "stop", "listen"}
      BY <2>1 DEF Live
    <3>2. Core(u, f.k, f.v, Shared)
      BY <1>1, <2>3, <2>6, <3>1 DEF Core, HeldInv, ToldInv, ListenInv
    <3>3. RestInv(u, f.k, f.v, Shared)
      BY <2>1, <2>3, <2>6, <3>1 DEF RestInv, InStop
    <3> QED BY <2>3, <2>6, <3>1, <3>2, <3>3 DEF Voiced
  <2>19. Tells(f.v, f.v)
    BY DEF Tells
  <2> QED BY <1>1, <2>6, <2>12, <2>13, <2>14, <2>15, <2>16, <2>17, <2>18, <2>19 DEF Spoken, Removed, Sound
<1> QED
  BY <1>2, <1>4, <1>3

\* The other threads of the Engine take quiet steps, and SIGKILL for the process of p, or
\* its end, strikes all of its threads or none.
Struck(T, U, p) ==
    /\ \A q \in Pids \ {p} : Quiet(T[q], U[q]) /\ (ChildStop(U[q]) => ChildStop(T[q]))
    /\ \/ \A q \in Pids \ {p} : U[q] = T[q]
       \/ \A q \in Pids \ {p} : IF q \in Group(p) THEN ~ChildStop(U[q]) ELSE U[q] = T[q]

\* Nothing happens to the other threads.
LEMMA IdleStruck ==
  ASSUME NEW T, NEW U, NEW p, \A q \in Pids \ {p} : Sound(T[q]) /\ U[q] = T[q] PROVE Struck(T, U, p)
BY IdleQuiet DEF Struck

\* Or they are sent SIGKILL.
LEMMA KillStruck ==
  ASSUME NEW T, NEW p, NEW U, \A q \in Pids \ {p} : Sound(T[q]),
         \A q \in Pids \ {p} : U[q] = IF q \in Group(p) THEN Kill(T[q]) ELSE T[q]
  PROVE  Struck(T, U, p)
BY IdleQuiet, KillQuiet DEF Struck

\* Or their process exits.
LEMMA ZapStruck ==
  ASSUME NEW T, NEW p, NEW U, \A q \in Pids \ {p} : Sound(T[q]),
         \A q \in Pids \ {p} : U[q] = IF q \in Group(p) THEN [Kill(T[q]) EXCEPT !.fatal = T[q].fatal] ELSE T[q]
  PROVE  Struck(T, U, p)
<1>1. ASSUME NEW q \in Pids \ {p}
      PROVE  Quiet(T[q], U[q]) /\ IF q \in Group(p) THEN ~ChildStop(U[q]) ELSE U[q] = T[q]
  <2>1. Sound(T[q]) /\ U[q] = IF q \in Group(p) THEN [Kill(T[q]) EXCEPT !.fatal = T[q].fatal] ELSE T[q]
    OBVIOUS
  <2>2. CASE q \in Group(p)
    BY <2>1, <2>2, ZapQuiet
  <2>3. CASE q \notin Group(p)
    BY <2>1, <2>3, IdleQuiet
  <2> QED BY <2>2, <2>3
<1> QED
  BY <1>1 DEF Struck

\* The Tracee of q, if there is one, agrees with its thread and with what the consumer
\* has been told.
Heard(w, q) ==
    /\ Sound(w.th[q])
    /\ q \in DOMAIN w.tracees => /\ Voiced(w.tracees[q], w.th[q], w.view[q])
                                 /\ Joined(w.tracees[q], w.th[q], w.view[q])

\* It does so, or is gone, as the consumer knows, when an event of p has been handled; the
\* other Tracees are as they were.
Spoke(w, x, p) ==
    /\ x.ex = "none" /\ Heard(x, p) /\ Tells(w.view[p], x.view[p])
    /\ p \notin DOMAIN x.tracees => x.view[p].asked \/ x.view[p].ends = 1
    /\ Struck(w.th, x.th, p)
    /\ \A q \in Pids \ {p} : SameFor(w, x, q) /\ x.th[q] \in {w.th[q], Kill(w.th[q])}

\* That is what processEvent() comes to.
LEMMA ConcludedSpoke ==
  ASSUME NEW w, ContextInv(w), NEW p \in DOMAIN w.tracees, NEW in, in.ev # "EV_EXEC", w.own[p] = p,
         NEW f, f.v = w.view[p], NEW g, Finished(g), Spoken(f, g), \A q \in Pids \ {p} : Sound(w.th[q])
  PROVE  Spoke(w, Concluded(w, p, in, g), p)
<1> DEFINE x == Concluded(w, p, in, g)
<1>1. /\ g \in Frames /\ Joined(g.t, g.k, g.v) /\ Calm(g.k) /\ ~ChildStop(g.k) /\ g.k \in Thread
  BY DEF Finished, Rested, Calm, ChildStop
<1>2. /\ g.ex \in {"none", "ESRCH"} /\ KernelInv(g.k, Shared) /\ Tells(w.view[p], g.v)
      /\ IF Removed(g.t) THEN g.v.asked \/ g.v.ends = 1 ELSE Voiced(g.t, g.k, g.v)
  BY DEF Spoken
<1>3. /\ \A q \in Pids \ {p} : SameFor(w, x, q)
      /\ \/ \A q \in Pids \ {p} : x.th[q] = w.th[q]
         \/ \A q \in Pids \ {p} : x.th[q] = IF q \in Group(p) THEN Kill(w.th[q]) ELSE w.th[q]
      /\ x.th[p] \in {g.k, Kill(g.k)} /\ x.view[p] = g.v
      /\ p \in DOMAIN x.tracees <=> ~Removed(g.t)
      /\ p \in DOMAIN x.tracees => x.tracees[p] = g.t
      /\ x.ex = IF g.ex \in {"none", "ESRCH", "EIO"} THEN "none" ELSE g.ex
  BY <1>1, ConcludedParts
<1> HIDE DEF x
<1>4. Struck(w.th, x.th, p)
  BY <1>3, IdleStruck, KillStruck
<1>5. Sound(g.k) /\ g.t \in Tracees /\ g.v \in Views
  BY <1>1, <1>2, FrameParts DEF Sound
<1>6. Quiet(g.k, x.th[p])
  BY <1>3, <1>5, IdleQuiet, KillQuiet
<1>7. Sound(x.th[p])
  BY <1>5, <1>6 DEF Sound, Quiet, StepKeeps, Advances
<1>8. ~Removed(g.t) => Voiced(g.t, x.th[p], g.v)
  BY <1>1, <1>2, <1>5, <1>6, QuietVoiced
<1>9. Joined(g.t, x.th[p], g.v)
  BY <1>1, <1>5, <1>6, AdvanceJoined DEF Quiet
<1>10. Heard(x, p)
  BY <1>3, <1>7, <1>8, <1>9 DEF Heard
<1> QED
  BY <1>2, <1>3, <1>4, <1>10 DEF Spoke, x

\* processEvent() for a status that wait() has just returned, a being the thread before.
LEMMA EventSpoke ==
  ASSUME NEW w, ContextInv(w), TypeInv, NEW p \in DOMAIN w.tracees, NEW in \in InputRecords, w.own[p] = p,
         NEW a, Sound(a), a.status, w.th[p] = Collect(a), in.ev = a.at, Joined(w.tracees[p], a, w.view[p]),
         Voiced(w.tracees[p], a, w.view[p]), \A q \in Pids \ {p} : Sound(w.th[q]),
         NEW x \in TraceeProcessEvent(w, p, in)
  PROVE  Spoke(w, x, p)
<1> DEFINE f == FrameOf(w, p, in)
           g == Final(ProcessEvent(f, in))
<1>1. in.ev # "EV_EXEC" /\ Calm(a)
  BY DEF Sound, Calm, ThreadInv, SyscallStops
<1>2. f \in Frames /\ f.t = w.tracees[p] /\ f.k = w.th[p] /\ f.v = w.view[p] /\ f.ex = "none"
  BY <1>1, PlainFrame DEF TypeInv
<1>3. x = Concluded(w, p, in, g)
  BY DEF TraceeProcessEvent, Final
<1> HIDE DEF f
<1>4. Finished(g) /\ Spoken(f, g)
  BY <1>1, <1>2, EventFinished, EventSpoken
<1> HIDE DEF g
<1> QED
  BY <1>1, <1>2, <1>3, <1>4, ConcludedSpoke

\* The Tracee of a new child, whose thread waits in its first stop or has been killed.
Hatched(x, c) ==
    /\ c \in DOMAIN x.tracees /\ x.own[c] = c /\ Fresh(x.tracees[c], x.view[c])
    /\ Young(x.th[c]) /\ (x.th[c].run = "stop" => x.th[c].status = (c \notin DOMAIN x.unknown))

\* processEvent() for a first stop that was stored.
LEMMA StoredSpoke ==
  ASSUME NEW w, ContextInv(w), TypeInv, NEW c, Fledged(w, c), Hatched(w, c), c \in DOMAIN w.unknown,
         NEW in \in InputRecords, in.ev = "EV_STOP_TRAP", \A q \in Pids \ {c} : Sound(w.th[q]),
         NEW x \in TraceeProcessEvent(w, c, in)
  PROVE  Spoke(w, x, c)
<1> DEFINE f == FrameOf(w, c, in)
           g == Final(ProcessEvent(f, in))
<1>1. /\ c \in DOMAIN w.tracees /\ w.own[c] = c /\ Joined(w.tracees[c], w.th[c], w.view[c]) /\ Calm(w.th[c])
      /\ w.th[c].run # "run" /\ (Live(w.th[c]) => FirstStop(w.th[c]) /\ ~w.th[c].status)
  BY DEF Fledged, Bonded
<1>2. f \in Frames /\ f.t = w.tracees[c] /\ f.k = w.th[c] /\ f.v = w.view[c] /\ f.ex = "none"
  BY <1>1, PlainFrame DEF TypeInv
<1>3. x = Concluded(w, c, in, g)
  BY DEF TraceeProcessEvent, Final
<1>4. /\ Fresh(w.tracees[c], w.view[c]) /\ Young(w.th[c])
      /\ w.th[c].run = "stop" => ~w.th[c].status
  BY DEF Hatched
<1> HIDE DEF f
<1>5. f.k.status => f.k.at # "EV_CHILD"
  BY <1>1, <1>2, FledgedSilent
<1>6. Live(f.k) => f.k.at = "EV_STOP_TRAP" /\ ~f.k.status
  BY <1>1, <1>2 DEF FirstStop
<1>7. Finished(g)
  BY <1>1, <1>2, <1>5, <1>6, StoredFinished
<1>8. Spoken(f, g)
  BY <1>2, <1>4, StoredSpoken
<1> HIDE DEF g
<1> QED
  BY <1>1, <1>2, <1>3, <1>7, <1>8, ConcludedSpoke

\* The other Tracees still agree then.
LEMMA QuietHeard ==
  ASSUME NEW w, ContextInv(w), NEW x, NEW q \in Pids, Heard(w, q), SameFor(w, x, q), Quiet(w.th[q], x.th[q])
  PROVE  Heard(x, q)
<1>1. /\ Sound(w.th[q]) /\ Calm(w.th[q])
      /\ q \in DOMAIN w.tracees => /\ Voiced(w.tracees[q], w.th[q], w.view[q])
                                   /\ Joined(w.tracees[q], w.th[q], w.view[q])
                                   /\ w.tracees[q] \in Tracees
  BY ContextParts, MapFacts DEF Heard, Sound
<1>2. w.view[q] \in Views
  BY ContextParts
<1>3. /\ q \in DOMAIN x.tracees <=> q \in DOMAIN w.tracees
      /\ q \in DOMAIN w.tracees => x.tracees[q] = w.tracees[q]
      /\ x.view[q] = w.view[q]
  BY DEF SameFor
<1>4. Sound(x.th[q])
  BY <1>1 DEF Sound, Quiet, StepKeeps, Advances
<1>5. q \in DOMAIN w.tracees => /\ Voiced(w.tracees[q], x.th[q], w.view[q])
                                /\ Joined(w.tracees[q], x.th[q], w.view[q])
  BY <1>1, <1>2, QuietVoiced, AdvanceJoined DEF Quiet
<1> QED
  BY <1>3, <1>4, <1>5 DEF Heard

\* So the handling of an event of one Tracee does not concern the others.
LEMMA SpokeOthers ==
  ASSUME NEW w, ContextInv(w), NEW x, NEW p, Spoke(w, x, p), NEW q \in Pids \ {p}, Heard(w, q)
  PROVE  Heard(x, q) /\ (ChildStop(x.th[q]) => ChildStop(w.th[q]))
<1>1. SameFor(w, x, q) /\ x.th[q] \in {w.th[q], Kill(w.th[q])} /\ Quiet(w.th[q], x.th[q]) /\ Sound(w.th[q])
  BY DEF Spoke, Struck, Heard
<1> QED
  BY <1>1, QuietHeard, KillQuiet

\* Who is told of and waits in the first stop belongs to the process of the one who tells,
\* or to one of its own.
Tie(l, r, c) == l[c] = l[r] \/ (l[c] = c /\ \A q \in Pids : l[q] = c => q = c)

\* SIGKILL for some process strikes both or neither.
LEMMA StruckTogether ==
  ASSUME NEW T, NEW U, NEW p \in Pids, Struck(T, U, p), NEW r \in Pids \ {p}, NEW c \in Pids \ {p}, Tie(leader, r, c), ChildStop(U[r])
  PROVE  U[c] = T[c]
<1>1. CASE \A q \in Pids \ {p} : U[q] = T[q]
  BY <1>1
<1>2. CASE \A q \in Pids \ {p} : IF q \in Group(p) THEN ~ChildStop(U[q]) ELSE U[q] = T[q]
  <2>1. r \notin Group(p)
    BY <1>2
  <2>2. c \notin Group(p)
    BY <2>1 DEF Group, Tie
  <2> QED BY <1>2, <2>2
<1> QED
  BY <1>1, <1>2 DEF Struck

\* A young thread that is sent SIGKILL.
LEMMA KillYoung == ASSUME NEW k, Young(k) PROVE Young(Kill(k)) /\ Kill(k).run # "stop"
<1>1. Sound(k) /\ k.traced /\ k \in Thread /\ (FirstStop(k) \/ (k.run = "dying" /\ k.fatal))
  BY DEF Young, Sound, Calm
<1>2. Sound(Kill(k))
  BY <1>1, KillQuiet DEF Sound, Quiet, StepKeeps, Advances
<1>3. Kill(k).traced /\ Kill(k).run = "dying" /\ Kill(k).fatal
  BY <1>1 DEF Kill, FirstStop, Thread
<1> QED
  BY <1>1, <1>2, <1>3 DEF Young

\* handleAutoAttach(): the Tracee of a new child.
LEMMA NewChildHatched ==
  ASSUME NEW w, ContextInv(w), NEW l, NEW c \in Pids, Fit(w, l, c), c \notin Known(w.announced), l[c] # NoPid,
         Sound(w.th[c]), FirstStop(w.th[c]), w.view[c] = NewView,
         NEW b \in NewChildProcess(AutoAttach(w, c), c)
  PROVE  Hatched(b, c)
<1> DEFINE k == w.th[c]
<1>1. /\ Fledged(b, c) /\ b.th = w.th /\ b.unknown = w.unknown /\ Fresh(b.tracees[c], b.view[c])
  BY NewChildFledged
<1>2. c \in DOMAIN b.tracees /\ b.own[c] = c
  BY <1>1 DEF Fledged, Bonded
<1>3. /\ k.traced /\ k \in Thread
      /\ k.run = "stop" /\ ~k.status => c \in DOMAIN w.unknown \/ k.at = "EV_EXIT"
      /\ c \in DOMAIN w.unknown => (Live(k) => ~k.status)
  BY DEF Fit, UnheardFit, Calm
<1>4. Young(k)
  BY <1>3 DEF Young
<1>5. Live(k) /\ k.at # "EV_EXIT" /\ k.status \in BOOLEAN
  BY <1>3 DEF Live, FirstStop, PtraceStops, EventStops, Thread
<1> HIDE DEF k
<1>6. k.run = "stop" => k.status = (c \notin DOMAIN b.unknown)
  BY <1>1, <1>3, <1>5
<1> QED
  BY <1>1, <1>2, <1>4, <1>6 DEF Hatched, k

\* SIGKILL does not change that.
LEMMA HatchedStays ==
  ASSUME NEW w, NEW x, NEW p, Spoke(w, x, p), NEW c \in Pids \ {p}, Hatched(w, c) PROVE Hatched(x, c)
<1>1. SameFor(w, x, c) /\ x.th[c] \in {w.th[c], Kill(w.th[c])}
  BY DEF Spoke
<1>2. Young(x.th[c]) /\ (x.th[c].run = "stop" => x.th[c] = w.th[c])
  BY <1>1, KillYoung DEF Hatched
<1> QED
  BY <1>1, <1>2 DEF Hatched, SameFor

\* checkUnknownEvents(): the consumer is told of the first stop if it was stored.
LEMMA CheckUnknownEventsSpoke ==
  ASSUME NEW w, ContextInv(w), TypeInv, NEW c \in Pids, w.born = c, w.ex = "none", Fledged(w, c), Hatched(w, c),
         \A q \in Pids \ {c} : Sound(w.th[q]), NEW x \in CheckUnknownEvents(w)
  PROVE  Spoke(w, x, c) /\ x.announced = w.announced
<1>1. CASE c \notin DOMAIN w.unknown
  <2>1. x = w
    BY <1>1 DEF CheckUnknownEvents
  <2>2. Struck(w.th, w.th, c)
    BY IdleStruck
  <2>3. /\ Fresh(w.tracees[c], w.view[c]) /\ Young(w.th[c]) /\ c \in DOMAIN w.tracees
        /\ w.th[c].run = "stop" => w.th[c].status
    BY <1>1 DEF Hatched
  <2>4. Heard(w, c)
    BY <2>3, FreshVoiced DEF Heard, Young
  <2>5. Tells(w.view[c], w.view[c]) /\ \A q \in Pids : SameFor(w, w, q)
    BY DEF Tells, SameFor
  <2> QED BY <2>1, <2>2, <2>3, <2>4, <2>5 DEF Spoke
<1>2. CASE c \in DOMAIN w.unknown
  <2> DEFINE e == w.unknown[c]
  <2>1. PICK y \in UNION {TraceeProcessEvent(w, c, in) : in \in Inputs(e)} :
               x = [y EXCEPT !.unknown = Without(y.unknown, c)]
    BY <1>2 DEF CheckUnknownEvents
  <2>2. PICK in \in Inputs(e) : y \in TraceeProcessEvent(w, c, in)
    BY <2>1
  <2>3. e = "EV_STOP_TRAP"
    BY <1>2 DEF Fledged
  <2>4. in \in InputRecords /\ in.ev = "EV_STOP_TRAP"
    <3>1. killing \in BOOLEAN /\ "EV_STOP_TRAP" \in Statuses \cup {"none"}
      BY DEF TypeInv, Statuses, PtraceStops, EventStops
    <3>2. in.ev = e
      BY <2>2 DEF Inputs
    <3> QED BY <2>2, <2>3, <3>1, <3>2, InputsType
  <2>5. Spoke(w, y, c)
    BY <1>2, <2>2, <2>4, StoredSpoke
  <2>6. y \in Contexts /\ y.announced = w.announced
    <3>1. c \in DOMAIN w.tracees
      BY DEF Fledged
    <3> QED BY <2>2, <2>4, <3>1, TraceeProcessEventInv DEF ContextInv
  <2> DEFINE u == Without(y.unknown, c)
  <2>7. DOMAIN u = DOMAIN y.unknown \ {c} /\ \A q \in DOMAIN u : u[q] = y.unknown[q]
    BY DEF Without, Restrict
  <2> HIDE DEF u, e
  <2>8. x = [y EXCEPT !.unknown = u]
    BY <2>1 DEF u
  <2>9. /\ x.th = y.th /\ x.tracees = y.tracees /\ x.own = y.own /\ x.view = y.view
        /\ x.announced = y.announced /\ x.ex = y.ex /\ x.unknown = u
    BY <2>6, <2>8 DEF Contexts
  <2>10. \A q \in Pids \ {c} : SameFor(w, x, q)
    <3> SUFFICES ASSUME NEW q \in Pids \ {c} PROVE SameFor(w, x, q)
      OBVIOUS
    <3>1. SameFor(w, y, q)
      BY <2>5 DEF Spoke
    <3> QED BY <2>7, <2>9, <3>1 DEF SameFor
  <2>11. Heard(x, c)
    BY <2>5, <2>9 DEF Spoke, Heard
  <2> QED BY <2>5, <2>6, <2>9, <2>10, <2>11 DEF Spoke
<1> QED
  BY <1>1, <1>2

\* The consumer is told of q what the contract allows, and its Tracee is gone only if the
\* consumer knows; or nothing happens to q.
Uttered(w, x, q) ==
    \/ /\ x.view[q] = w.view[q]
       /\ q \in DOMAIN x.tracees <=> q \in DOMAIN w.tracees
       /\ q \in Known(x.announced) <=> q \in Known(w.announced)
    \/ /\ q \in DOMAIN w.tracees \/ q \notin Known(w.announced)
       /\ Tells(w.view[q], x.view[q])
       /\ q \in DOMAIN x.tracees \/ q \notin Known(x.announced) \/ x.view[q].asked \/ x.view[q].ends = 1

\* A child that wait() is about to tell of waits in its first stop.
NewbornInv == \A p \in Pids : ChildStop(th[p]) => FirstStop(th[msg[p]]) /\ Tie(leader, p, msg[p])

VoiceInv ==
    /\ \A q \in Pids : Sound(th[q])
    /\ \A q \in Pids \ Known(announced) : view[q] = NewView
    /\ NewbornInv
    /\ over # "exception"
    /\ over = "no" => \A q \in Pids : Heard(Context, q)

\* What the Engine makes of an event.
Reports(x) ==
    /\ x.ex = "none"
    /\ \A q \in Pids : Heard(x, q) /\ Uttered(Context, x, q) /\ (q \notin Known(x.announced) => x.view[q] = NewView)
    /\ \A r \in Pids : ChildStop(x.th[r]) => ChildStop(th[r]) /\ FirstStop(x.th[msg[r]])

\* What the Engine starts from when wait() has returned a status of p.
LEMMA CollectedHeard ==
  ASSUME Inv, StepInv, VoiceInv, over = "no", NEW p \in Pids
  PROVE  LET w == [Context EXCEPT !.th[p] = Collect(@)]
         IN  \A q \in Pids \ {p} : Heard(w, q) /\ Sound(w.th[q]) /\ w.th[q] = th[q]
<1> DEFINE w == [Context EXCEPT !.th[p] = Collect(@)]
<1>1. /\ w.tracees = tracees /\ w.view = view /\ \A q \in Pids \ {p} : w.th[q] = th[q]
  BY CollectedContext, Collected
<1> HIDE DEF w
<1>2. \A q \in Pids \ {p} : Heard(w, q)
  BY <1>1, ThisContext DEF VoiceInv, Heard
<1> QED
  BY <1>1, <1>2 DEF Heard, w

\* handleEvent() of the Engine for a Tracee in m_tracees.
LEMMA HandleKnownReports ==
  ASSUME Inv, StepInv, VoiceInv, over = "no", NEW p \in DOMAIN tracees, th[p].status,
         NEW x \in HandleKnown([Context EXCEPT !.th[p] = Collect(@)], p)
  PROVE  Reports(x)
<1> DEFINE w == [Context EXCEPT !.th[p] = Collect(@)]
           c == msg[p]
           born(in) == /\ in.ev = "EV_CHILD" /\ ~HandlerCutShort(w.tracees[p], in)
                       /\ w.tracees[p].cur # "none"
           before(in) == IF born(in) THEN NewChildProcess(AutoAttach(w, c), c) ELSE {w}
<1>1. TypeInv /\ p \in Pids /\ c \in Pids /\ NoPid \notin Pids /\ p \in Known(announced) /\ msg \in [Pids -> Pids]
  BY MapFacts, PidsAssumption DEF Inv, TypeInv, PidsInv
<1>2. PICK in \in Inputs(th[p].at) :
           \E b \in before(in) : \E y \in TraceeProcessEvent(b, p, in) : x \in CheckUnknownEvents(y)
  BY HandleKnownParts
<1>3. PICK b \in before(in) : \E y \in TraceeProcessEvent(b, p, in) : x \in CheckUnknownEvents(y)
  BY <1>2
<1>4. PICK y \in TraceeProcessEvent(b, p, in) : x \in CheckUnknownEvents(y)
  BY <1>3
<1>5. in \in InputRecords /\ in.ev = th[p].at
  <2>1. killing \in BOOLEAN /\ th[p].at \in Statuses \cup {"none"}
    BY <1>1 DEF TypeInv, Thread
  <2>2. in.ev = th[p].at
    BY <1>2 DEF Inputs
  <2> QED BY <1>2, <2>1, <2>2, InputsType
<1>6. /\ ContextInv(w) /\ w.tracees = tracees /\ w.own = own /\ w.unknown = unknown /\ w.view = view
      /\ w.announced = announced /\ w.born = NoPid /\ w.ex = "none"
  BY <1>1, CollectedContext
<1>7. /\ w.th[p] = Collect(th[p]) /\ Fit(Context, leader, p) /\ Calm(th[p])
      /\ \A q \in Pids \ {p} : Fit(w, leader, q) /\ w.th[q] = th[q] /\ Calm(th[q])
  BY <1>1, Collected
<1>8. own[p] = p /\ Joined(tracees[p], th[p], view[p]) /\ p \notin DOMAIN unknown
  BY <1>1, <1>7 DEF Fit, KnownFit, Bonded, Context
<1>9. /\ Sound(th[p]) /\ Voiced(tracees[p], th[p], view[p])
      /\ \A q \in Pids \ {p} : Heard(w, q) /\ Sound(w.th[q])
      /\ \A q \in Pids \ Known(announced) : view[q] = NewView
  BY <1>1, CollectedHeard, ThisContext DEF VoiceInv, Heard
<1>10. \A r \in Pids : ChildStop(x.th[r]) => ChildStop(th[r]) /\ r # p
  BY HandleKnownOutcome DEF Outcome
<1>11. \A r \in Pids : ChildStop(th[r]) => /\ FirstStop(th[msg[r]]) /\ Tie(leader, r, msg[r]) /\ msg[r] \in Pids \ {p}
                                           /\ msg[r] \notin Known(announced) /\ leader[msg[r]] # NoPid
                                           /\ \A q \in Pids \ {r} : ChildStop(th[q]) => msg[q] # msg[r]
  BY <1>1 DEF VoiceInv, NewbornInv, StepInv, ChildInv
<1>12. /\ Context.tracees = tracees /\ Context.view = view /\ Context.announced = announced
  BY ThisContext
<1> HIDE DEF w, c
<1>13. CASE ~born(in)
  <2>1. b = w
    BY <1>3, <1>4, <1>13
  <2> HIDE DEF born
  <2>2. y \in TraceeProcessEvent(w, p, in)
    BY <1>3, <1>4, <2>1
  <2> HIDE DEF before
  <2>3. Spoke(w, y, p)
    BY <1>1, <1>5, <1>6, <1>7, <1>8, <1>9, <2>2, EventSpoke
  <2>4. y.born = w.born /\ y.unknown = w.unknown /\ y.announced = w.announced
    BY <1>1, <1>5, <1>6, <2>2, TraceeProcessEventInv
  <2>5. y.born \notin DOMAIN y.unknown
    <3>1. unknown \in Maps(EventStops)
      BY <1>1 DEF TypeInv
    <3> QED BY <1>1, <1>6, <2>4, <3>1, MapFacts
  <2>6. x = y
    BY <1>3, <1>4, <2>5 DEF CheckUnknownEvents
  <2>7. ASSUME NEW q \in Pids \ {p}
        PROVE  Heard(y, q) /\ Uttered(Context, y, q) /\ (q \notin Known(y.announced) => y.view[q] = NewView)
    <3>1. Heard(y, q)
      BY <1>6, <1>9, <2>3, SpokeOthers
    <3>2. SameFor(w, y, q)
      BY <2>3 DEF Spoke
    <3> QED BY <1>6, <1>9, <1>12, <2>4, <3>1, <3>2 DEF SameFor, Uttered
  <2>8. Heard(y, p) /\ Uttered(Context, y, p) /\ p \in Known(y.announced) /\ y.ex = "none" /\ Struck(w.th, y.th, p)
    BY <1>1, <1>6, <1>12, <2>3, <2>4 DEF Spoke, Uttered
  <2>9. ASSUME NEW r \in Pids, ChildStop(x.th[r]) PROVE ChildStop(th[r]) /\ FirstStop(x.th[msg[r]])
    <3>1. ChildStop(th[r]) /\ r # p
      BY <1>10, <2>9
    <3>2. FirstStop(th[msg[r]]) /\ Tie(leader, r, msg[r]) /\ msg[r] \in Pids \ {p}
      BY <1>11, <3>1
    <3>3. y.th[msg[r]] = w.th[msg[r]]
      BY <1>1, <2>6, <2>8, <2>9, <3>1, <3>2, StruckTogether
    <3> QED BY <1>7, <2>6, <3>1, <3>2, <3>3
  <2> QED BY <2>6, <2>7, <2>8, <2>9 DEF Reports
<1>14. CASE born(in)
  <2>1. b \in NewChildProcess(AutoAttach(w, c), c) /\ in.ev = "EV_CHILD" /\ tracees[p].cur # "none"
    BY <1>3, <1>4, <1>6, <1>14
  <2>2. y \in TraceeProcessEvent(b, p, in)
    BY <1>3, <1>4
  <2> HIDE DEF born, before
  <2>3. ChildStop(th[p])
    BY <1>5, <1>7, <2>1 DEF ChildStop, Calm, ThreadInv
  <2>4. c \notin Known(announced) /\ leader[c] # NoPid /\ c \in Pids \ {p} /\ FirstStop(th[c])
    BY <1>1, <1>11, <2>3 DEF c
  <2>5. /\ Fledged(b, c) /\ b.th = w.th /\ b.born = c /\ b.ex = w.ex /\ b.unknown = w.unknown
        /\ b.announced = w.announced \cup {c}
        /\ \A q \in Pids \ {c} : SameFor(w, b, q)
    BY <1>1, <1>6, <1>7, <2>1, <2>4, NewChildFledged
  <2>6. ContextInv(b)
    BY <1>1, <1>6, <1>7, <2>1, <2>4, NewChildFledged
  <2>7. Hatched(b, c)
    BY <1>6, <1>7, <1>9, <2>1, <2>4, NewChildHatched
  <2>8. p \in DOMAIN b.tracees /\ b.tracees[p] = tracees[p] /\ b.own[p] = p /\ b.view[p] = view[p]
        /\ b.th[p] = Collect(th[p])
    <3>1. SameFor(w, b, p)
      BY <1>1, <2>4, <2>5
    <3> QED BY <1>6, <1>7, <1>8, <2>5, <3>1 DEF SameFor
  <2>9. \A q \in Pids \ {p} : Sound(b.th[q]) /\ Calm(b.th[q])
    BY <1>9, <2>5 DEF Sound
  <2>10. Spoke(b, y, p)
    <3>1. Joined(b.tracees[p], th[p], b.view[p]) /\ Voiced(b.tracees[p], th[p], b.view[p])
      BY <1>8, <1>9, <2>8
    <3> QED BY <1>1, <1>5, <1>9, <2>2, <2>6, <2>8, <2>9, <3>1, EventSpoke
  <2>11. ContextInv(y) /\ y.born = b.born /\ y.unknown = b.unknown /\ y.announced = b.announced
    BY <1>1, <1>5, <2>2, <2>6, <2>8, TraceeProcessEventInv
  <2>12. Fledged(y, c) /\ Hatched(y, c)
    <3>1. SameFor(b, y, c) /\ Advances(b.th[c], y.th[c])
      BY <2>4, <2>10 DEF Spoke, Struck, Quiet
    <3> QED BY <2>4, <2>5, <2>6, <2>7, <2>10, <3>1, FledgedStays, HatchedStays
  <2>13. ASSUME NEW q \in Pids \ {p, c} PROVE Heard(y, q)
    <3>1. SameFor(w, b, q) /\ Quiet(w.th[q], b.th[q])
      BY <1>9, <2>5, IdleQuiet
    <3>2. Heard(b, q)
      BY <1>6, <1>9, <3>1, QuietHeard
    <3> QED BY <2>6, <2>10, <3>2, SpokeOthers
  <2>14. \A q \in Pids \ {c} : Heard(y, q) /\ Sound(y.th[q])
    BY <2>10, <2>13 DEF Spoke, Heard
  <2>15. Spoke(y, x, c) /\ x.announced = y.announced
    <3>1. y.ex = "none"
      BY <2>10 DEF Spoke
    <3> QED BY <1>1, <1>3, <1>4, <2>4, <2>5, <2>11, <2>12, <2>14, <3>1, CheckUnknownEventsSpoke
  <2>16. ASSUME NEW q \in Pids PROVE Heard(x, q)
    <3>1. CASE q = c
      BY <2>15, <3>1 DEF Spoke
    <3>2. CASE q # c
      BY <2>11, <2>14, <2>15, <3>2, SpokeOthers
    <3> QED BY <3>1, <3>2
  <2>17. ASSUME NEW q \in Pids \ {p, c} PROVE Uttered(Context, x, q) /\ (q \notin Known(x.announced) => x.view[q] = NewView)
    <3>1. SameFor(w, b, q) /\ SameFor(b, y, q) /\ SameFor(y, x, q)
      BY <2>5, <2>10, <2>15 DEF Spoke
    <3> QED BY <1>6, <1>9, <1>12, <3>1 DEF SameFor, Uttered
  <2>18. Uttered(Context, x, p) /\ p \in Known(x.announced)
    <3>1. /\ Tells(view[p], y.view[p])
          /\ p \notin DOMAIN y.tracees => y.view[p].asked \/ y.view[p].ends = 1
      BY <2>8, <2>10 DEF Spoke
    <3>2. SameFor(y, x, p)
      BY <1>1, <2>4, <2>15 DEF Spoke
    <3>3. p \in Known(x.announced)
      BY <1>1, <1>6, <2>5, <2>11, <2>15 DEF Known
    <3> QED BY <1>12, <3>1, <3>2, <3>3 DEF SameFor, Uttered
  <2>19. Uttered(Context, x, c) /\ c \in Known(x.announced)
    <3>1. /\ Tells(y.view[c], x.view[c])
          /\ c \notin DOMAIN x.tracees => x.view[c].asked \/ x.view[c].ends = 1
      BY <2>15 DEF Spoke
    <3>2. Fresh(y.tracees[c], y.view[c]) /\ view[c] = NewView
      BY <1>9, <2>4, <2>12 DEF Hatched
    <3>3. Tells(view[c], x.view[c])
      BY <3>1, <3>2, FreshTells
    <3>4. c \in Known(x.announced)
      BY <2>5, <2>11, <2>15 DEF Known
    <3> QED BY <1>12, <2>4, <3>1, <3>3, <3>4 DEF Uttered
  <2>20. ASSUME NEW r \in Pids, ChildStop(x.th[r]) PROVE ChildStop(th[r]) /\ FirstStop(x.th[msg[r]])
    <3>1. ChildStop(th[r]) /\ r # p
      BY <1>10, <2>20
    <3>2. FirstStop(th[msg[r]]) /\ Tie(leader, r, msg[r]) /\ msg[r] \in Pids \ {p, c} /\ r # c
      BY <1>1, <1>11, <2>3, <2>4, <3>1 DEF c, FirstStop, ChildStop
    <3>3. ChildStop(y.th[r])
      BY <2>11, <2>14, <2>15, <2>20, <3>2, SpokeOthers
    <3>4. y.th[msg[r]] = b.th[msg[r]]
      BY <1>1, <2>10, <3>1, <3>2, <3>3, StruckTogether DEF Spoke
    <3>5. x.th[msg[r]] = y.th[msg[r]]
      BY <2>4, <2>15, <2>20, <3>2, StruckTogether DEF Spoke
    <3> QED BY <1>7, <2>5, <3>1, <3>2, <3>4, <3>5
  <2> QED BY <2>15, <2>16, <2>17, <2>18, <2>19, <2>20 DEF Reports, Spoke
<1> QED
  BY <1>13, <1>14

\* handleEvent() for a PID that is not in m_tracees: the consumer is told nothing.
LEMMA CheckUnknownReports ==
  ASSUME Inv, StepInv, VoiceInv, over = "no", NEW p \in Pids, p \notin DOMAIN tracees, th[p].status,
         NEW x \in CheckUnknownTraceeEvent([Context EXCEPT !.th[p] = Collect(@)], p)
  PROVE  Reports(x)
<1> DEFINE w == [Context EXCEPT !.th[p] = Collect(@)]
           a == th[p]
           k == Collect(a)
           un == IF p \in DOMAIN w.unknown THEN w.unknown ELSE With(w.unknown, p, a.at)
           s == [w EXCEPT !.unknown = un]
<1>1. /\ ContextInv(w) /\ w.tracees = tracees /\ w.view = view /\ w.announced = announced /\ w.ex = "none"
  BY CollectedContext
<1>2. w.th[p] = k
  BY Collected
<1>3. Sound(a) /\ Calm(a) /\ a \in Thread /\ a.at # "EV_EXEC"
  BY DEF VoiceInv, Sound, Calm, ThreadInv, SyscallStops
<1>4. Sound(k) /\ ~ChildStop(k)
  <2>1. Calm(k) /\ ~k.status
    BY <1>3, CollectCalm
  <2>2. KernelInv(k, Shared)
    BY <1>3, CollectFields DEF Sound
  <2> QED BY <2>1, <2>2 DEF Sound, ChildStop
<1>5. FirstStop(a) => FirstStop(k)
  BY <1>3 DEF FirstStop, Collect, Thread
<1>6. x \in {w, s}
  BY <1>3 DEF CheckUnknownTraceeEvent
<1>7. \A q \in Pids \ {p} : Heard(w, q) /\ w.th[q] = th[q]
  BY CollectedHeard
<1> HIDE DEF w, un, a, k
<1>8. /\ x.th = w.th /\ x.tracees = w.tracees /\ x.view = w.view /\ x.announced = w.announced /\ x.ex = "none"
  BY <1>1, <1>6 DEF ContextInv, Contexts
<1>9. \A q \in Pids : Heard(x, q)
  BY <1>1, <1>2, <1>4, <1>7, <1>8 DEF Heard
<1>10. \A q \in Pids : Uttered(Context, x, q) /\ (q \notin Known(x.announced) => x.view[q] = NewView)
  BY <1>1, <1>8, ThisContext DEF Uttered, VoiceInv
<1>11. ASSUME NEW r \in Pids, ChildStop(x.th[r]) PROVE ChildStop(th[r]) /\ FirstStop(x.th[msg[r]])
  <2>1. r # p /\ ChildStop(th[r])
    BY <1>2, <1>4, <1>7, <1>8, <1>11
  <2>2. FirstStop(th[msg[r]]) /\ msg[r] \in Pids
    BY <2>1 DEF VoiceInv, NewbornInv, Inv, TypeInv
  <2> QED BY <1>2, <1>5, <1>7, <1>8, <2>1, <2>2 DEF a
<1> QED
  BY <1>8, <1>9, <1>10, <1>11 DEF Reports

\* What a step tells the consumer of all tracees.
Utters == \A q \in Pids : Uttered(Context, Context', q)

\* wait() has returned the status of a thread.
LEMMA EngineHandleEventVoice ==
  ASSUME Inv, StepInv, VoiceInv, NEW p \in Pids, EngineHandleEvent(p) PROVE VoiceInv' /\ Utters
<1> DEFINE w == [Context EXCEPT !.th[p] = Collect(@)]
           c == Context'
<1>1. PICK x \in Handled(w, p) :
        /\ th' = x.th /\ tracees' = x.tracees /\ own' = x.own
        /\ unknown' = x.unknown /\ view' = x.view /\ announced' = x.announced
        /\ over' = IF x.ex = "none" THEN "no" ELSE "exception"
        /\ UNCHANGED threadVars
  BY DEF EngineHandleEvent
<1>2. over = "no" /\ th[p].status
  BY DEF EngineHandleEvent, EventPending, Reportable
<1>3. Reports(x)
  BY <1>1, <1>2, HandleKnownReports, CheckUnknownReports DEF Handled
<1>4. leader' = leader /\ msg' = msg
  BY <1>1 DEF threadVars
<1>5. c.th = x.th /\ c.tracees = x.tracees /\ c.view = x.view /\ c.announced = x.announced
  BY <1>1, NextContext
<1> HIDE DEF w, c
<1>6. \A q \in Pids : Heard(c, q) /\ Uttered(Context, c, q) /\ Sound(th'[q])
  BY <1>1, <1>3, <1>5 DEF Reports, Heard, Uttered
<1>7. NewbornInv'
  BY <1>1, <1>3, <1>4 DEF Reports, VoiceInv, NewbornInv, Tie
<1> QED
  BY <1>1, <1>3, <1>6, <1>7 DEF VoiceInv, Utters, Reports, c

\* The threads take steps of themselves, of which the Engine is not told.
LEMMA StruckVoice ==
  ASSUME Inv, StepInv, VoiceInv, UNCHANGED threadVars, UNCHANGED engineVars, NEW p \in Pids, Struck(th, th', p),
         Quiet(th[p], th'[p]), ~ChildStop(th'[p]), p \in Known(announced) \/ ~FirstStop(th[p])
  PROVE  VoiceInv' /\ Utters
<1> DEFINE b == Context
           c == Context'
<1>1. /\ leader' = leader /\ msg' = msg /\ tracees' = tracees /\ view' = view /\ announced' = announced /\ over' = over
      /\ unknown' = unknown /\ own' = own
  BY DEF threadVars, engineVars
<1>2. /\ c.th = th' /\ c.tracees = tracees /\ c.own = own /\ c.unknown = unknown /\ c.view = view
      /\ c.announced = announced
  BY <1>1, NextContext
<1>3. /\ b.th = th /\ b.tracees = tracees /\ b.own = own /\ b.unknown = unknown /\ b.view = view
      /\ b.announced = announced
  BY ThisContext
<1>4. \A q \in Pids : Quiet(th[q], th'[q]) /\ Sound(th[q])
  BY DEF Struck, VoiceInv
<1>5. \A q \in Pids : Sound(th'[q])
  BY <1>4 DEF Sound, Quiet, StepKeeps, Advances
<1>6. over = "no" => \A q \in Pids : Heard(b, q)
  BY DEF VoiceInv
<1> HIDE DEF b, c
<1>7. ASSUME over = "no", NEW q \in Pids PROVE Heard(c, q)
  <2>1. q \in DOMAIN tracees => /\ Voiced(tracees[q], th[q], view[q]) /\ Joined(tracees[q], th[q], view[q])
                                /\ tracees[q] \in Tracees
    BY <1>3, <1>6, <1>7, MapFacts DEF Heard, Inv, TypeInv
  <2>2. view[q] \in Views /\ Calm(th[q])
    BY <1>4 DEF Inv, TypeInv, Sound
  <2>3. q \in DOMAIN tracees => Voiced(tracees[q], th'[q], view[q]) /\ Joined(tracees[q], th'[q], view[q])
    BY <1>4, <2>1, <2>2, QuietVoiced, AdvanceJoined DEF Quiet
  <2> QED BY <1>2, <1>5, <2>3 DEF Heard
<1>8. NewbornInv'
  <2> SUFFICES ASSUME NEW r \in Pids, ChildStop(th'[r]) PROVE FirstStop(th'[msg[r]]) /\ Tie(leader, r, msg[r])
    BY <1>1 DEF NewbornInv
  <2>1. r # p /\ ChildStop(th[r])
    BY DEF Struck
  <2>2. FirstStop(th[msg[r]]) /\ Tie(leader, r, msg[r]) /\ msg[r] \in Pids /\ msg[r] \notin Known(announced)
    BY <2>1 DEF VoiceInv, NewbornInv, Inv, TypeInv, StepInv, ChildInv
  <2>3. th'[msg[r]] = th[msg[r]]
    BY <2>1, <2>2, StruckTogether
  <2> QED BY <2>2, <2>3
<1>9. \A q \in Pids : Uttered(b, c, q)
  BY <1>2, <1>3 DEF Uttered
<1> QED
  BY <1>1, <1>5, <1>7, <1>8, <1>9 DEF VoiceInv, Utters, b, c

\* One of a single thread.
LEMMA ThreadStepVoice ==
  ASSUME Inv, StepInv, VoiceInv, NEW p \in Pids, NEW k, Quiet(th[p], k), ~ChildStop(k), ThreadStep(p, k),
         th[p].run # "stop"
  PROVE  VoiceInv' /\ Utters
<1>1. th' = [th EXCEPT ![p] = k] /\ UNCHANGED threadVars /\ UNCHANGED engineVars
  BY DEF ThreadStep
<1>2. th \in [Pids -> Thread] /\ \A q \in Pids : Sound(th[q])
  BY DEF Inv, TypeInv, VoiceInv
<1>3. th'[p] = k /\ \A q \in Pids \ {p} : th'[q] = th[q]
  BY <1>1, <1>2
<1>4. Struck(th, th', p)
  BY <1>2, <1>3, IdleStruck
<1> QED
  BY <1>1, <1>3, <1>4, StruckVoice DEF FirstStop

\* SIGKILL at any other time is sent to the process that was traced first: its main
\* thread is known.
FirstOnly == Killable \subseteq {Main}

\* What the threads do of themselves.
LEMMA ThreadStepsVoice ==
  ASSUME Inv, StepInv, VoiceInv, NoExec, FirstOnly, NEW p \in Pids,
         \/ EnterSyscall(p) \/ LeaveSyscall(p) \/ InterruptStop(p) \/ ThreadEnds(p) \/ CallExit(p) \/ KillProcess(p)
  PROVE  VoiceInv' /\ Utters
<1>1. th \in [Pids -> Thread] /\ \A q \in Pids : Sound(th[q])
  BY DEF Inv, TypeInv, VoiceInv
<1>2. CASE EnterSyscall(p)
  <2>1. PICK c \in ThreadCalls : ThreadStep(p, EnterCall(th[p], c))
    BY <1>2 DEF EnterSyscall
  <2>2. CanEnterCall(th[p]) /\ c \in Calls \ {"execve"}
    BY <1>2, InputAssumption DEF EnterSyscall, NoExec
  <2> QED BY <1>1, <2>1, <2>2, OwnQuiet, ThreadStepVoice DEF CanEnterCall
<1>3. "read" \in Calls \ {"execve"}
  BY DEF Calls
<1>4. CASE LeaveSyscall(p)
  BY <1>1, <1>3, <1>4, OwnQuiet, ThreadStepVoice DEF LeaveSyscall, CanLeaveCall
<1>5. CASE InterruptStop(p)
  BY <1>1, <1>3, <1>5, OwnQuiet, ThreadStepVoice DEF InterruptStop, CanTrap
<1>6. CASE ReportExit(p)
  BY <1>1, <1>3, <1>6, OwnQuiet, ThreadStepVoice DEF ReportExit
<1>7. CASE ThreadDies(p)
  <2>1. CASE th[p].traced
    BY <1>1, <1>3, <1>7, <2>1, OwnQuiet, ThreadStepVoice DEF ThreadDies
  <2>2. CASE ~th[p].traced
    BY <1>1, <1>3, <1>7, <2>2, OwnQuiet, ThreadStepVoice DEF ThreadDies
  <2> QED BY <2>1, <2>2
<1>8. CASE CallExit(p)
  <2>1. /\ th' = [Zap(th, p) EXCEPT ![p] = Exit(@)] /\ CanExit(th[p])
        /\ UNCHANGED threadVars /\ UNCHANGED engineVars
    BY <1>8 DEF CallExit
  <2>2. th'[p] = Exit(th[p])
    BY <2>1 DEF Zap
  <2>3. \A q \in Pids \ {p} : th'[q] = IF q \in Group(p) THEN [Kill(th[q]) EXCEPT !.fatal = th[q].fatal] ELSE th[q]
    BY <2>1 DEF Zap
  <2>4. Struck(th, th', p)
    BY <1>1, <2>3, ZapStruck
  <2>5. Quiet(th[p], th'[p]) /\ ~ChildStop(th'[p]) /\ ~FirstStop(th[p])
    BY <1>1, <1>3, <2>1, <2>2, OwnQuiet DEF CanExit, FirstStop
  <2> QED BY <2>1, <2>4, <2>5, StruckVoice
<1>9. CASE KillProcess(p)
  <2>1. th' = KillGroup(th, p) /\ leader[p] = p /\ p = Main /\ UNCHANGED threadVars /\ UNCHANGED engineVars
    BY <1>9 DEF KillProcess, FirstOnly
  <2>2. \A q \in Pids : th'[q] = IF q \in Group(p) THEN Kill(th[q]) ELSE th[q]
    BY <2>1 DEF KillGroup
  <2>3. p \in Group(p) /\ p \in Known(announced)
    BY <2>1, PidsAssumption DEF Group, Known
  <2>4. Struck(th, th', p)
    BY <1>1, <2>2, KillStruck
  <2>5. Quiet(th[p], th'[p]) /\ ~ChildStop(th'[p])
    BY <1>1, <2>2, <2>3, KillQuiet
  <2> QED BY <2>1, <2>3, <2>4, <2>5, StruckVoice
<1> QED
  BY <1>2, <1>4, <1>5, <1>6, <1>7, <1>8, <1>9 DEF ThreadEnds

\* clone() and fork(): the child waits in its first stop, and is tied to its parent.
LEMMA CloneVoice ==
  ASSUME Inv, StepInv, VoiceInv, NEW p \in Pids, NEW c \in Pids, Clone(p, c) PROVE VoiceInv' /\ Utters
<1> DEFINE b == Context
           x == Context'
           k == [StopAt(th[p], "EV_CHILD") EXCEPT !.nr = "read"]
           n == TakeTrap([NewThread EXCEPT !.traced = TRUE])
<1>1. PICK g \in {leader[p], c} : leader' = [leader EXCEPT ![c] = g]
  BY DEF Clone
<1>2. /\ th' = [th EXCEPT ![p] = k, ![c] = n] /\ msg' = [msg EXCEPT ![p] = c] /\ UNCHANGED engineVars
      /\ CanReport(th[p], "EV_CHILD") /\ th[p].run = "run" /\ leader[c] = NoPid
  BY DEF Clone, CanReport
<1>3. /\ th \in [Pids -> Thread] /\ leader \in [Pids -> Pids \cup {NoPid}] /\ msg \in [Pids -> Pids]
      /\ LeadInv /\ NoPid \notin Pids /\ view \in [Pids -> Views]
      /\ \A q \in DOMAIN tracees : tracees[q] \in Tracees
  BY PidsAssumption, MapFacts DEF Inv, TypeInv
<1>4. /\ tracees' = tracees /\ own' = own /\ unknown' = unknown /\ view' = view
      /\ announced' = announced /\ over' = over
  BY <1>2 DEF engineVars
<1>5. /\ x.th = th' /\ x.tracees = tracees /\ x.view = view /\ x.announced = announced
  BY <1>4, NextContext
<1>6. /\ b.th = th /\ b.tracees = tracees /\ b.view = view /\ b.announced = announced
  BY ThisContext
<1>7. /\ \A q \in Pids : Sound(th[q])
      /\ over = "no" => \A q \in Pids : Heard(b, q)
      /\ ChildInv /\ PresentInv
  BY DEF StepInv, VoiceInv
<1>8. leader[p] # NoPid /\ c # p /\ leader[p] \in Pids /\ c \notin Known(announced) /\ th[c].run = "gone"
  BY <1>2, <1>3, <1>7 DEF LeadInv, PresentInv
<1>9. Quiet(th[p], k)
  BY <1>2, <1>7, ChildQuiet
<1>10. Sound(n) /\ FirstStop(n)
  <2>1. Calm(n) /\ FirstStop(n) /\ n.traced
    BY NewThreadStops
  <2>2. ~n.fatal
    BY DEF TakeTrap, StopAt, NewThread
  <2>3. KernelInv(n, Shared)
    BY <2>1, <2>2 DEF KernelInv, FirstStop, Shared
  <2> QED BY <2>1, <2>3 DEF Sound, FirstStop, ChildStop
<1>11. k \in Thread /\ n \in Thread
  BY <1>9, <1>10 DEF Quiet, Advances, Sound, Calm
<1> HIDE DEF b, x, k, n
<1>12. th'[p] = k /\ th'[c] = n /\ \A q \in Pids \ {p, c} : th'[q] = th[q]
  BY <1>2, <1>3, <1>8, <1>11
<1>13. /\ leader'[c] = g /\ \A q \in Pids \ {c} : leader'[q] = leader[q]
       /\ msg'[p] = c /\ \A q \in Pids \ {p} : msg'[q] = msg[q]
  BY <1>1, <1>2, <1>3, <1>8
<1>14. c \notin DOMAIN tracees
  BY <1>8 DEF Inv, PidsInv
<1>15. ASSUME NEW q \in Pids, q # c PROVE Quiet(th[q], th'[q]) /\ Sound(th[q]) /\ Calm(th[q])
  BY <1>7, <1>9, <1>12, <1>15, IdleQuiet DEF Sound
<1>16. \A q \in Pids : Sound(th'[q])
  <2> TAKE q \in Pids
  <2>1. CASE q = c
    BY <1>10, <1>12, <2>1
  <2>2. CASE q # c
    BY <1>15, <2>2 DEF Sound, Quiet, StepKeeps, Advances
  <2> QED BY <2>1, <2>2
<1>17. ASSUME over = "no", NEW q \in Pids PROVE Heard(x, q)
  <2>1. q \in DOMAIN tracees => /\ Voiced(tracees[q], th[q], view[q]) /\ Joined(tracees[q], th[q], view[q])
                                /\ tracees[q] \in Tracees /\ q # c /\ view[q] \in Views
    BY <1>3, <1>6, <1>7, <1>14, <1>17 DEF Heard
  <2>2. q \in DOMAIN tracees => Voiced(tracees[q], th'[q], view[q]) /\ Joined(tracees[q], th'[q], view[q])
    BY <1>15, <2>1, QuietVoiced, AdvanceJoined DEF Quiet
  <2> QED BY <1>5, <1>16, <2>2 DEF Heard
<1>18. ASSUME NEW r \in Pids, ChildStop(th'[r]) PROVE FirstStop(th'[msg'[r]]) /\ Tie(leader', r, msg'[r])
  <2>1. CASE r = p
    <3>1. leader'[c] = leader'[p] \/ (leader'[c] = c /\ \A q \in Pids : leader'[q] = c => q = c)
      <4>1. CASE g = leader[p]
        BY <1>8, <1>13, <4>1
      <4>2. CASE g = c
        <5>1. \A q \in Pids : leader[q] # c
          BY <1>2, <1>3, <1>8 DEF LeadInv
        <5> QED BY <1>13, <4>2, <5>1
      <4> QED BY <4>1, <4>2
    <3> QED BY <1>10, <1>12, <1>13, <2>1, <3>1 DEF Tie
  <2>2. CASE r # p
    <3>1. r # c /\ ChildStop(th[r])
      BY <1>10, <1>12, <1>18, <2>2 DEF FirstStop, ChildStop
    <3>2. /\ FirstStop(th[msg[r]]) /\ Tie(leader, r, msg[r]) /\ msg[r] \in Pids /\ msg'[r] = msg[r]
      BY <1>3, <1>13, <2>2, <3>1 DEF VoiceInv, NewbornInv
    <3> DEFINE m == msg[r]
    <3>3. m # p /\ m # c
      BY <1>2, <1>8, <3>2 DEF FirstStop
    <3>4. leader'[m] = leader[m] /\ leader'[r] = leader[r]
      BY <1>13, <3>1, <3>2, <3>3
    <3>5. Tie(leader', r, m)
      <4>1. CASE leader[m] = leader[r]
        BY <3>4, <4>1 DEF Tie
      <4>2. CASE leader[m] = m /\ \A q \in Pids : leader[q] = m => q = m
        <5>1. g # m
          BY <1>1, <3>3, <4>2
        <5>2. \A q \in Pids : leader'[q] = m => q = m
          BY <1>13, <4>2, <5>1
        <5> QED BY <3>4, <4>2, <5>2 DEF Tie
      <4> QED BY <3>2, <4>1, <4>2 DEF Tie
    <3> QED BY <1>12, <3>2, <3>3, <3>5
  <2> QED BY <2>1, <2>2
<1>19. NewbornInv'
  BY <1>18 DEF NewbornInv
<1>20. \A q \in Pids : Uttered(b, x, q)
  BY <1>5, <1>6 DEF Uttered
<1> QED
  BY <1>4, <1>16, <1>17, <1>19, <1>20 DEF VoiceInv, Utters, b, x

\* A step of the Engine or the consumer between two events.
LEMMA BetweenEventsVoice ==
  ASSUME Inv, StepInv, VoiceInv, UNCHANGED threadVars, announced' = announced, over' # "exception",
         \A q \in Pids \ DOMAIN tracees : th'[q] = th[q] /\ view'[q] = view[q] /\ q \notin DOMAIN tracees',
         \A q \in DOMAIN tracees : /\ Sound(th'[q]) /\ (ChildStop(th'[q]) => ChildStop(th[q]))
                                   /\ Uttered(Context, Context', q)
                                   /\ over' = "no" => Heard(Context', q)
  PROVE  VoiceInv' /\ Utters
<1> DEFINE b == Context
           x == Context'
<1>1. leader' = leader /\ msg' = msg
  BY DEF threadVars
<1>2. /\ x.th = th' /\ x.tracees = tracees' /\ x.view = view' /\ x.announced = announced
  BY NextContext
<1>3. /\ b.th = th /\ b.tracees = tracees /\ b.view = view /\ b.announced = announced
  BY ThisContext
<1>4. \A q \in DOMAIN tracees : Uttered(b, x, q) /\ (over' = "no" => Heard(x, q))
  OBVIOUS
<1> HIDE DEF b, x
<1>5. DOMAIN tracees \subseteq Pids /\ \A q \in DOMAIN tracees : q \in Known(announced)
  BY MapFacts DEF Inv, TypeInv, PidsInv
<1>6. \A q \in Pids : Sound(th'[q]) /\ (ChildStop(th'[q]) => ChildStop(th[q]))
  BY DEF VoiceInv
<1>7. \A q \in Pids : Uttered(b, x, q) /\ (over' = "no" => Heard(x, q))
  <2> TAKE q \in Pids
  <2>1. CASE q \in DOMAIN tracees
    BY <1>4, <2>1
  <2>2. CASE q \notin DOMAIN tracees
    BY <1>2, <1>3, <1>6, <2>2 DEF Uttered, Heard
  <2> QED BY <2>1, <2>2
<1>8. \A q \in Pids \ Known(announced) : view'[q] = NewView
  BY <1>5 DEF VoiceInv
<1>9. NewbornInv'
  <2> SUFFICES ASSUME NEW r \in Pids, ChildStop(th'[r]) PROVE FirstStop(th'[msg[r]]) /\ Tie(leader, r, msg[r])
    BY <1>1 DEF NewbornInv
  <2>1. ChildStop(th[r])
    BY <1>6
  <2>2. FirstStop(th[msg[r]]) /\ Tie(leader, r, msg[r]) /\ msg[r] \in Pids /\ msg[r] \notin Known(announced)
    BY <2>1 DEF VoiceInv, NewbornInv, Inv, TypeInv, StepInv, ChildInv
  <2>3. th'[msg[r]] = th[msg[r]]
    BY <1>5, <2>2
  <2> QED BY <2>2, <2>3
<1> QED
  BY <1>6, <1>7, <1>8, <1>9 DEF VoiceInv, Utters, b, x

\* What detach() makes of the thread.
LEMMA DetachTraceeThread ==
  ASSUME NEW f \in Frames, Calm(f.k)
  PROVE  LET d == DetachTracee(f)
         IN  \/ d.k = f.k \/ d.k = [f.k EXCEPT !.trap = TRUE]
             \/ ~d.k.traced /\ d.k.run \in {"run", "zombie"}
<1> DEFINE a == [f EXCEPT !.v.asked = TRUE]
           w == [a EXCEPT !.t.flags = @ \cup {"DETACH_AT_NEXT_STOP"}]
           i == [w EXCEPT !.k = Interrupt(@)]
           g == DoDetach(a)
<1>1. f.t \in Tracees /\ f.v \in Views /\ f.k \in Thread
  BY FrameParts
<1>2. a \in Frames /\ a.t = f.t /\ a.k = f.k
  BY <1>1 DEF Frames, Views
<1>3. w \in Frames /\ w.k = f.k
  <2> DEFINE x == [f.t EXCEPT !.flags = f.t.flags \cup {"DETACH_AT_NEXT_STOP"}]
  <2>1. f.t.flags \cup {"DETACH_AT_NEXT_STOP"} \in SUBSET Flags
    BY <1>1 DEF Tracees, Flags
  <2>2. x \in Tracees
    BY <1>1, <2>1 DEF Tracees
  <2>3. w = [a EXCEPT !.t = x]
    BY <1>2 DEF Frames
  <2> HIDE DEF a, w, x
  <2> QED BY <1>2, <2>2, <2>3, FrameParts
<1>4. DetachTracee(f) \in {a, g, w, ToState(w, "DEAD"), i}
  BY DEF DetachTracee
<1> HIDE DEF a, w
<1>8. i.k = Interrupt(f.k) /\ ToState(w, "DEAD").k = f.k
  BY <1>3, ToStateDead DEF Frames
<1> HIDE DEF i
<1>5. g.k = IF Reachable(a) THEN Detach(f.k, f.t.child) ELSE f.k
  BY <1>2, DoDetachParts
<1>6. Reachable(a) => ~g.k.traced /\ g.k.run \in {"run", "zombie"}
  BY <1>1, <1>2, <1>5, DetachCalm DEF Reachable, Tracees
<1>7. Interrupt(f.k) = [f.k EXCEPT !.trap = TRUE]
  BY DEF Interrupt, Calm
<1> HIDE DEF g
<1> QED
  BY <1>2, <1>3, <1>4, <1>5, <1>6, <1>7, <1>8

\* What detach() makes of a Tracee in m_tracees, and what the consumer knows then.
LEMMA DetachedVoiced ==
  ASSUME Inv, StepInv, VoiceInv, over = "no", NEW p \in DOMAIN tracees
  PROVE  LET d == DetachTracee([t |-> tracees[p], k |-> th[own[p]], v |-> view[p], ex |-> "none"])
         IN  /\ own[p] = p /\ p \in Pids /\ Sound(d.k) /\ (ChildStop(d.k) => ChildStop(th[p]))
             /\ Voiced(d.t, d.k, d.v) /\ Joined(d.t, d.k, d.v) /\ Tells(view[p], d.v) /\ d.v.asked
<1> DEFINE f == [t |-> tracees[p], k |-> th[p], v |-> view[p], ex |-> "none"]
           d == DetachTracee([t |-> tracees[p], k |-> th[own[p]], v |-> view[p], ex |-> "none"])
           k == th[p]
<1>1. /\ p \in Pids /\ own[p] = p /\ Calm(d.k) /\ Joined(d.t, d.k, d.v) /\ d.v.asked /\ d.t \in Tracees
      /\ Joined(tracees[p], th[p], view[p])
      /\ d.k.run = "stop" => th[p].run = "stop" /\ d.k.at = th[p].at /\ d.k.status = th[p].status
  BY DetachedBonded
<1>2. /\ tracees[p] \in Tracees /\ th[p] \in Thread /\ view[p] \in Views
  BY <1>1, MapFacts DEF Inv, TypeInv
<1>3. f \in Frames /\ f.t = tracees[p] /\ f.k = k /\ f.v = view[p]
  BY <1>2 DEF Frames
<1>4. d = DetachTracee(f)
  BY <1>1
<1>5. Sound(k) /\ Voiced(f.t, k, f.v)
  BY <1>1, <1>3, ThisContext DEF VoiceInv, Heard
<1>6. Joined(f.t, k, f.v)
  BY <1>1, <1>3
<1> HIDE DEF f, d, k
<1>7. /\ k \in Thread /\ Calm(k) /\ ThreadInv(k) /\ KernelInv(k, Shared) /\ (ChildStop(k) => k.insys)
      /\ Core(f.t, k, f.v, Shared) /\ RestInv(f.t, k, f.v, Shared) /\ f.t.child = FALSE
      /\ "INJECTED_SIGSTOP" \notin f.t.flags /\ (f.t.mode = "CONT" /\ Live(k) => FirstStop(k))
      /\ (Live(k) => Synced(f.t, k))
  BY <1>5, <1>6 DEF Sound, Calm, Voiced, Joined
<1>8. /\ KernelInv(d.k, Shared) /\ Core(d.t, d.k, d.v, Shared) /\ RestInv(d.t, d.k, d.v, Shared) /\ Tells(f.v, d.v)
      /\ d.t.child = f.t.child
  BY <1>3, <1>4, <1>7, DetachTraceeCore
<1>9. Tuned(f.t, d.t)
  BY <1>3, <1>4, DetachTraceeStays DEF Stays
<1>10. d.k = k \/ d.k = [k EXCEPT !.trap = TRUE] \/ (~d.k.traced /\ d.k.run \in {"run", "zombie"})
  BY <1>3, <1>4, <1>7, DetachTraceeThread
<1>11. /\ d.k.run = "stop" => d.k.insys = k.insys
       /\ Live(d.k) => Live(k) /\ (FirstStop(k) => FirstStop(d.k))
  BY <1>7, <1>10 DEF Live, FirstStop, Thread
<1>12. Sound(d.k) /\ (ChildStop(d.k) => ChildStop(k))
  BY <1>1, <1>7, <1>8, <1>11 DEF Sound, ChildStop, k
<1>13. Voiced(d.t, d.k, d.v)
  BY <1>1, <1>7, <1>8, <1>9, <1>11 DEF Voiced, Tuned
<1> QED
  BY <1>1, <1>3, <1>8, <1>12, <1>13 DEF d, k

\* detach() by the consumer.
LEMMA ConsumerDetachVoice ==
  ASSUME Inv, StepInv, VoiceInv, NEW p \in Pids, ConsumerDetach(p) PROVE VoiceInv' /\ Utters
<1> DEFINE d == DetachTracee([t |-> tracees[p], k |-> th[own[p]], v |-> view[p], ex |-> "none"])
           b == Context
           c == Context'
<1>1. /\ p \in DOMAIN tracees /\ over = "no"
      /\ tracees' = [tracees EXCEPT ![p] = d.t] /\ th' = [th EXCEPT ![own[p]] = d.k] /\ view' = [view EXCEPT ![p] = d.v]
      /\ own' = own /\ unknown' = unknown /\ announced' = announced /\ over' = over
      /\ UNCHANGED threadVars
  BY DEF ConsumerDetach
<1>2. /\ own[p] = p /\ Sound(d.k) /\ (ChildStop(d.k) => ChildStop(th[p]))
      /\ Voiced(d.t, d.k, d.v) /\ Joined(d.t, d.k, d.v) /\ Tells(view[p], d.v)
  BY <1>1, DetachedVoiced
<1> HIDE DEF d
<1>3. /\ th \in [Pids -> Thread] /\ view \in [Pids -> Views] /\ DOMAIN tracees \subseteq Pids
  BY MapFacts DEF Inv, TypeInv
<1>4. /\ DOMAIN tracees' = DOMAIN tracees /\ tracees'[p] = d.t /\ th'[p] = d.k /\ view'[p] = d.v
      /\ \A q \in Pids \ {p} : th'[q] = th[q] /\ view'[q] = view[q]
      /\ \A q \in DOMAIN tracees \ {p} : tracees'[q] = tracees[q]
  BY <1>1, <1>2, <1>3
<1>5. /\ c.th = th' /\ c.tracees = tracees' /\ c.view = view' /\ c.announced = announced
  BY <1>1, NextContext
<1>6. /\ b.th = th /\ b.tracees = tracees /\ b.view = view /\ b.announced = announced
  BY ThisContext
<1>7. \A q \in Pids : Heard(b, q) /\ Sound(th[q])
  BY <1>1 DEF VoiceInv
<1> HIDE DEF b, c
<1>8. ASSUME NEW q \in DOMAIN tracees
      PROVE  Sound(th'[q]) /\ (ChildStop(th'[q]) => ChildStop(th[q])) /\ Uttered(b, c, q) /\ Heard(c, q)
  <2>1. CASE q = p
    BY <1>1, <1>2, <1>4, <1>5, <1>6, <2>1 DEF Uttered, Heard
  <2>2. CASE q # p
    <3>1. q \in Pids /\ th'[q] = th[q] /\ view'[q] = view[q] /\ tracees'[q] = tracees[q]
      BY <1>3, <1>4, <2>2
    <3> QED BY <1>4, <1>5, <1>6, <1>7, <3>1 DEF Uttered, Heard
  <2> QED BY <2>1, <2>2
<1>9. \A q \in Pids \ DOMAIN tracees : th'[q] = th[q] /\ view'[q] = view[q] /\ q \notin DOMAIN tracees'
  BY <1>1, <1>4
<1> QED
  BY <1>1, <1>8, <1>9, BetweenEventsVoice DEF b, c

\* stop(): the consumer, which has asked for it, is not told any more of the objects
\* that are dropped.
LEMMA StopVoice ==
  ASSUME Inv, StepInv, VoiceInv, Stop PROVE VoiceInv' /\ Utters
<1> DEFINE done(p) == DetachTracee([t |-> tracees[p], k |-> th[own[p]], v |-> view[p], ex |-> "none"])
           d == [p \in DOMAIN tracees |-> done(p)]
           left == {p \in DOMAIN tracees : d[p].t.valid}
           at(q) == CHOOSE p \in DOMAIN tracees : own[p] = q
           k(q) == IF \E p \in DOMAIN tracees : own[p] = q THEN d[at(q)].k ELSE th[q]
           b == Context
           c == Context'
<1>1. /\ tracees' = [p \in left |-> d[p].t]
      /\ th' = [q \in Pids |-> k(q)]
      /\ view' = [q \in Pids |-> IF q \in DOMAIN tracees THEN d[q].v ELSE view[q]]
      /\ UNCHANGED threadVars /\ announced' = announced /\ over' = over /\ over = "no"
  BY DEF Stop
<1>2. \A p \in DOMAIN tracees : d[p] = done(p)
  OBVIOUS
<1>3. \A p \in DOMAIN tracees :
        /\ p \in Pids /\ own[p] = p /\ Sound(done(p).k) /\ (ChildStop(done(p).k) => ChildStop(th[p]))
        /\ Voiced(done(p).t, done(p).k, done(p).v) /\ Joined(done(p).t, done(p).k, done(p).v)
        /\ Tells(view[p], done(p).v) /\ done(p).v.asked
  BY <1>1, DetachedVoiced
<1> HIDE DEF done, d
<1>4. ASSUME NEW q \in DOMAIN tracees PROVE th'[q] = d[q].k /\ view'[q] = d[q].v
  <2>1. at(q) = q /\ \E p \in DOMAIN tracees : own[p] = q
    BY <1>3
  <2> QED BY <1>1, <1>3, <2>1
<1>5. ASSUME NEW q \in Pids \ DOMAIN tracees PROVE th'[q] = th[q] /\ view'[q] = view[q] /\ q \notin DOMAIN tracees'
  <2>1. ~ \E p \in DOMAIN tracees : own[p] = q
    BY <1>3
  <2> QED BY <1>1, <2>1
<1>6. DOMAIN tracees' = left /\ \A q \in left : tracees'[q] = d[q].t
  BY <1>1
<1>7. c.th = th' /\ c.tracees = tracees' /\ c.view = view' /\ c.announced = announced
  BY <1>1, NextContext
<1>8. b.tracees = tracees /\ b.view = view
  BY ThisContext
<1> HIDE DEF b, c, at, k
<1>9. ASSUME NEW q \in DOMAIN tracees
      PROVE  Sound(th'[q]) /\ (ChildStop(th'[q]) => ChildStop(th[q])) /\ Uttered(b, c, q) /\ Heard(c, q)
  <2>1. /\ Sound(d[q].k) /\ (ChildStop(d[q].k) => ChildStop(th[q]))
        /\ Voiced(d[q].t, d[q].k, d[q].v) /\ Joined(d[q].t, d[q].k, d[q].v)
        /\ Tells(view[q], d[q].v) /\ d[q].v.asked
    BY <1>2, <1>3
  <2> HIDE DEF left
  <2>2. Uttered(b, c, q)
    BY <1>4, <1>7, <1>8, <2>1 DEF Uttered
  <2>3. Heard(c, q)
    BY <1>4, <1>6, <1>7, <2>1 DEF Heard
  <2> QED BY <1>4, <2>1, <2>2, <2>3
<1> QED
  BY <1>1, <1>5, <1>9, BetweenEventsVoice DEF b, c

\* wait() finds no thread any more: the consumer has asked to let go of the tracees that
\* are left.
LEMMA HandleNoChildrenVoice ==
  ASSUME Inv, StepInv, VoiceInv, HandleNoChildren PROVE VoiceInv' /\ Utters
<1> DEFINE done(p) == DetachTracee([t |-> tracees[p], k |-> th[own[p]], v |-> view[p], ex |-> "none"])
           left == {p \in DOMAIN tracees : ~Removed(done(p).t)}
           b == Context
           c == Context'
<1>1. /\ th' = th /\ UNCHANGED threadVars /\ view' = view /\ announced' = announced /\ over = "no"
      /\ \A p \in Pids : th[p].traced => th[p].run = "gone"
      /\ over' \notin {"no", "exception"}
      /\ DOMAIN tracees' \subseteq DOMAIN tracees
  BY DEF HandleNoChildren
<1>2. DOMAIN tracees \subseteq Pids
  BY MapFacts DEF Inv, TypeInv
<1>3. \A q \in Pids : Heard(b, q) /\ Sound(th[q])
  BY <1>1 DEF VoiceInv
<1>4. c.view = view /\ b.view = view /\ b.tracees = tracees /\ b.th = th
  BY <1>1, NextContext, ThisContext
<1> HIDE DEF b, c
<1>5. ASSUME NEW q \in DOMAIN tracees PROVE Uttered(b, c, q)
  <2>1. Voiced(tracees[q], th[q], view[q]) /\ (th[q].traced => th[q].run = "gone")
    BY <1>1, <1>2, <1>3, <1>4 DEF Heard
  <2>2. view[q].asked
    BY <2>1 DEF Voiced, Core, HeldInv
  <2> QED BY <1>4, <2>2 DEF Uttered, Tells
<1> QED
  BY <1>1, <1>2, <1>3, <1>5, BetweenEventsVoice DEF b, c

\* Nothing has been told in the beginning.
LEMMA InitVoice == ASSUME Init PROVE VoiceInv
<1>1. PICK traced \in TracedSets : InitTracing(traced)
  BY DEF Init
<1> DEFINE all == {Main} \cup Others
           t0 == [NewTracee(FALSE) EXCEPT !.state = "RUNNING", !.prev = "EVENT_STOP", !.mode = "SYSCALL"]
           R(b) == [NewThread EXCEPT !.run = "run", !.traced = b, !.sysgood = b]
           V(b) == [NewView EXCEPT !.attached = b]
<1>2. announced = {} /\ over = "no"
  BY DEF Init
<1>3. traced \subseteq all /\ all \subseteq Pids /\ Known(announced) = all
  BY <1>2, PidsAssumption DEF Known
<1>4. /\ th = [p \in Pids |-> IF p \in all THEN R(p \in traced) ELSE NewThread]
      /\ tracees = [p \in traced |-> t0]
      /\ view = [p \in Pids |-> V(p \in traced)]
  BY <1>1 DEF InitTracing
<1>5. StepInv
  BY InitStep
<1>6. ASSUME NEW b \in BOOLEAN
      PROVE  /\ R(b).run = "run" /\ ~R(b).fatal /\ R(b).traced = b /\ ~R(b).trap /\ ~R(b).notify
             /\ V(b).attached = b /\ ~V(b).asked /\ ~V(b).insys /\ ~V(b).stopped /\ V(b).intr = "none" /\ V(b).ends = 0
             /\ ~V(b).wrong /\ ~V(b).lost
  BY DEF NewThread, NewView
<1>7. /\ NewThread.run = "gone" /\ ~NewThread.traced /\ ~NewThread.trap /\ ~NewThread.notify
  BY DEF NewThread
<1>8. ASSUME NEW b \in BOOLEAN, ~b PROVE V(b) = NewView
  <2>1. \A v \in Views : v.attached = b => [v EXCEPT !.attached = b] = v
    BY DEF Views
  <2>2. NewView \in Views
    BY DEF NewView, Views, MaybeCall
  <2>3. NewView.attached = FALSE /\ b = FALSE
    BY <1>8 DEF NewView
  <2> QED BY <2>1, <2>2, <2>3
<1>9. /\ t0.mode = "SYSCALL" /\ t0.valid /\ t0.state = "RUNNING" /\ t0.prev = "EVENT_STOP" /\ t0.flags = {}
      /\ ~t0.blocked /\ t0.child = FALSE /\ t0.intr = "none"
  BY DEF NewTracee
<1> HIDE DEF t0, R, V
<1>10. ASSUME NEW q \in Pids PROVE Sound(th[q]) /\ th[q].run # "stop"
  <2> DEFINE b == q \in traced
             k == th[q]
  <2>1. b \in BOOLEAN /\ k \in {R(b), NewThread}
    BY <1>4
  <2> HIDE DEF b
  <2>2. k.run \in {"run", "gone"} /\ (k.run = "run" => ~k.fatal) /\ (~k.traced => ~k.trap /\ ~k.notify)
    BY <1>6, <1>7, <2>1
  <2>3. Calm(k)
    BY <1>5, ThisContext DEF StepInv, Fit
  <2> HIDE DEF k
  <2>4. KernelInv(k, Shared)
    BY <2>2 DEF KernelInv, Shared
  <2>5. Sound(k)
    BY <2>2, <2>3, <2>4 DEF Sound, ChildStop
  <2> QED BY <2>2, <2>5 DEF k
<1>11. ASSUME NEW q \in traced PROVE Voiced(t0, R(TRUE), V(TRUE)) /\ Joined(t0, R(TRUE), V(TRUE))
  <2> DEFINE k == R(TRUE)
             v == V(TRUE)
  <2>1. q \in Pids /\ q \in Known(announced) /\ q \in DOMAIN tracees /\ tracees[q] = t0 /\ th[q] = k /\ view[q] = v
    BY <1>3, <1>4
  <2>2. Joined(t0, k, v)
    BY <1>5, <2>1, ThisContext DEF StepInv, Fit, KnownFit, Bonded
  <2>3. /\ k.run = "run" /\ k.traced /\ v.attached /\ ~v.asked /\ ~v.insys /\ ~v.stopped /\ v.intr = "none" /\ v.ends = 0
        /\ ~v.wrong /\ ~v.lost
    BY <1>6
  <2> HIDE DEF k, v
  <2>4. Core(t0, k, v, Shared) /\ RestInv(t0, k, v, Shared)
    <3>1. HeldInv(t0, k, v, Shared) /\ RestInv(t0, k, v, Shared)
      BY <1>9, <2>3 DEF HeldInv, RestInv, Shared, InStop, Exiting
    <3>2. ToldInv(t0, k, v) /\ ListenInv(t0, k, v)
      BY <1>9, <2>3 DEF ToldInv, ListenInv
    <3> QED BY <3>1, <3>2 DEF Core
  <2>5. Voiced(t0, k, v)
    BY <1>9, <2>3, <2>4 DEF Voiced
  <2> QED BY <2>2, <2>5 DEF k, v
<1>12. ASSUME NEW q \in Pids PROVE Heard(Context, q)
  <2>1. CASE q \in traced
    <3>1. th[q] = R(TRUE) /\ view[q] = V(TRUE) /\ tracees[q] = t0
      BY <1>3, <1>4, <2>1
    <3> QED BY <1>10, <1>11, <2>1, <3>1, ThisContext DEF Heard
  <2>2. CASE q \notin traced
    BY <1>4, <1>10, <2>2, ThisContext DEF Heard
  <2> QED BY <2>1, <2>2
<1>13. \A q \in Pids \ Known(announced) : view[q] = NewView
  <2> SUFFICES ASSUME NEW q \in Pids, q \notin all PROVE view[q] = NewView
    BY <1>3
  <2> DEFINE b == q \in traced
  <2>1. b \in BOOLEAN /\ ~b /\ view[q] = V(b)
    BY <1>3, <1>4
  <2> QED BY <1>8, <2>1
<1>14. NewbornInv
  BY <1>10 DEF NewbornInv, ChildStop
<1> QED
  BY <1>2, <1>10, <1>12, <1>13, <1>14 DEF VoiceInv

(* The theorems. *)

\* Every step keeps the invariant and tells the consumer what the contract allows.
LEMMA NextVoice ==
  ASSUME NoExec, FirstOnly, Inv, StepInv, VoiceInv, [Next]_vars PROVE VoiceInv' /\ Utters
<1>1. CASE UNCHANGED vars
  <2>1. /\ th' = th /\ UNCHANGED threadVars /\ tracees' = tracees /\ view' = view /\ announced' = announced
        /\ over' = over /\ leader' = leader /\ msg' = msg
    BY <1>1 DEF vars, threadVars, engineVars
  <2> DEFINE b == Context
             c == Context'
  <2>2. /\ c.th = th /\ c.tracees = tracees /\ c.view = view /\ c.announced = announced
        /\ b.th = th /\ b.tracees = tracees /\ b.view = view /\ b.announced = announced
    BY <2>1, NextContext, ThisContext
  <2>3. /\ \A q \in Pids : Sound(th[q])
        /\ \A q \in Pids \ Known(announced) : view[q] = NewView
        /\ NewbornInv /\ over # "exception"
        /\ over = "no" => \A q \in Pids : Heard(b, q)
    BY DEF VoiceInv
  <2> HIDE DEF b, c
  <2>4. \A q \in Pids : Uttered(b, c, q) /\ (Heard(b, q) => Heard(c, q))
    BY <2>2 DEF Uttered, Heard
  <2>5. NewbornInv'
    BY <2>1, <2>3 DEF NewbornInv, Tie
  <2> QED BY <2>1, <2>3, <2>4, <2>5 DEF VoiceInv, Utters, b, c
<1>2. ASSUME NEW p \in Pids, ThreadNext(p) PROVE VoiceInv' /\ Utters
  <2>1. ~ExecBegins(p)
    <3>1. Calm(th[p])
      BY ThisContext DEF StepInv, Fit
    <3> QED BY <3>1 DEF ExecBegins, Calm
  <2>2. ~ExecDone(p)
    BY DEF StepInv, ExecDone
  <2> QED BY <1>2, <2>1, <2>2, ThreadStepsVoice, CloneVoice DEF ThreadNext
<1>3. ASSUME NEW p \in Pids, KillProcess(p) \/ EngineHandleEvent(p) \/ ConsumerDetach(p) PROVE VoiceInv' /\ Utters
  BY <1>3, ThreadStepsVoice, EngineHandleEventVoice, ConsumerDetachVoice
<1>4. CASE TraceReturns
  <2>1. /\ DOMAIN tracees = {} /\ over' = "returned" /\ th' = th /\ UNCHANGED threadVars /\ tracees' = tracees
        /\ view' = view /\ announced' = announced
    BY <1>4 DEF TraceReturns
  <2> QED BY <2>1, BetweenEventsVoice
<1> QED
  BY <1>1, <1>2, <1>3, <1>4, HandleNoChildrenVoice, StopVoice DEF Next

\* A tracee that is done with, or that the consumer has not been told of, is as the
\* contract has it.
LEMMA ContractStep ==
  ASSUME Inv, Inv', VoiceInv, VoiceInv', Utters, NEW p \in Pids
  PROVE  Contract(p)!Next \/ UNCHANGED Contract(p)!vars
<1>1. Uttered(Context, Context', p)
  BY DEF Utters
<1>2. /\ Context.view = view /\ Context.tracees = tracees /\ Context.announced = announced
      /\ Context'.view = view' /\ Context'.tracees = tracees' /\ Context'.announced = announced'
  BY ThisContext, NextContext
<1>3. view[p] \in Views /\ view'[p] \in Views
  BY DEF Inv, TypeInv
<1>4. /\ ObjectOf(p) = IF p \in DOMAIN tracees \/ p \notin Known(announced) THEN "registered" ELSE "erased"
      /\ ObjectOf(p)' = IF p \in DOMAIN tracees' \/ p \notin Known(announced') THEN "registered" ELSE "erased"
  BY DEF VoiceInv, ObjectOf, Known
<1>5. CASE view'[p] = view[p] /\ ObjectOf(p)' = ObjectOf(p)
  BY <1>5 DEF Contract!vars
<1>6. CASE /\ ObjectOf(p) = "registered" /\ Tells(view[p], view'[p])
           /\ ObjectOf(p)' \in {"registered", "erased"}
           /\ ObjectOf(p)' = "erased" => view'[p].asked \/ view'[p].ends = 1
  <2>1. Contract(p)!Callback
    BY <1>3, <1>6 DEF Tells, Views, Contract!Callback, Contract!DetachOrNot, Contract!DropOrNot
  <2>2. Contract(p)!Attached \/ Contract(p)!SyscallEntry \/ Contract(p)!SyscallExit \/ Contract(p)!End \/ Contract(p)!Other
    BY <1>3, <1>6, <2>1 DEF Tells, Views, Contract!Attached, Contract!SyscallEntry, Contract!SyscallExit,
                            Contract!End, Contract!Other
  <2> QED BY <2>2 DEF Contract!Next
<1> QED
  BY <1>1, <1>2, <1>4, <1>5, <1>6 DEF Uttered

\* As long as no thread calls execve() and only the process that was traced first is
\* killed, VoiceInv holds from the beginning on.
THEOREM VoiceInvariance == NoExec /\ FirstOnly => (Spec => []VoiceInv)
<1> SUFFICES ASSUME NoExec, FirstOnly PROVE Spec => []VoiceInv
  OBVIOUS
<1>1. Init => VoiceInv
  BY InitVoice
<1>2. Inv /\ StepInv /\ VoiceInv /\ [Next]_vars => VoiceInv'
  BY NextVoice
<1> QED
  BY <1>1, <1>2, Invariance, StepInvariance, PTL DEF Spec

\* The Engine keeps the contract of the EventConsumer for each of any number of tracees,
\* whose events interleave, which create others, and which SIGKILL, detach() and stop()
\* may strike, as long as none calls execve() and SIGKILL from outside is for the process
\* that was traced first.
THEOREM EachTraceeKeepsContract == NoExec /\ FirstOnly => (Spec => EachKeepsContract)
<1> SUFFICES ASSUME NoExec, FirstOnly PROVE Spec => EachKeepsContract
  OBVIOUS
<1>1. Inv /\ Inv' /\ StepInv /\ VoiceInv /\ [Next]_vars => \A p \in Pids : Contract(p)!Next \/ UNCHANGED Contract(p)!vars
  BY NextVoice, ContractStep
<1>2. Inv /\ Inv' /\ StepInv /\ VoiceInv /\ [Next]_vars
        => [\A p \in Pids : Contract(p)!Next \/ UNCHANGED Contract(p)!vars]_vars
  BY <1>1
<1> QED
  BY <1>2, Invariance, StepInvariance, VoiceInvariance, PTL DEF Spec, EachKeepsContract

\* No exception leaves trace() then: the only ones that could come from the request for
\* the former PID of a thread that has called execve().
THEOREM NoExceptionLeaves == NoExec /\ FirstOnly => (Spec => []NoException)
<1> SUFFICES ASSUME NoExec, FirstOnly PROVE Spec => []NoException
  OBVIOUS
<1>1. VoiceInv => NoException
  BY DEF VoiceInv, NoException
<1> QED
  BY <1>1, VoiceInvariance, PTL
=============================================================================
