---------------------------- MODULE EngineProofs ----------------------------
(***************************************************************************)
(* What holds for any number of tracees and threads: the Engine's maps     *)
(* keep to their types, and the EventConsumer hears of a new thread or     *)
(* process by newChildProcess() before anything else of it.                *)
(***************************************************************************)
EXTENDS Engine, TraceeObjectProofs

(* What the handling of an event does to the thread it is about. *)

\* b is what may have become of the thread a when its event has been handled: it is
\* not put into a CLONE or EXEC stop, a running thread has no stop, and one that has
\* been reaped stays so.
Keeps(a, b) ==
    /\ b \in Thread
    /\ b.at \in {"EV_CHILD", "EV_EXEC"} => b.at = a.at
    /\ (a.run = "run" => a.at = "none") => (b.run = "run" => b.at = "none")
    /\ a.run = "gone" => b.run = "gone"

\* The thread is let go of, or comes to its end without anything else to report.
Spent(k) == ~k.traced \/ k.run \in {"dying", "zombie", "gone"} \/ (k.run = "stop" /\ k.at = "EV_EXIT")

\* A handler reaps no thread, and saves none from its end.
Serves(a, b) == Keeps(a, b) /\ (b.run = "gone" => a.run = "gone") /\ (Spent(a) => Spent(b))

\* Once it has been told to trace system calls an object does not go back to
\* PTRACE_CONT, and the handlers inject no SIGSTOP.
Tuned(t, x) == /\ x.mode = "CONT" => t.mode = "CONT"
               /\ "INJECTED_SIGSTOP" \in x.flags => "INJECTED_SIGSTOP" \in t.flags

\* The same for the frame of the handler.
Stays(f, g) == g \in Frames /\ Serves(f.k, g.k) /\ Tuned(f.t, g.t)

\* One step after another.
LEMMA StaysTrans ==
  ASSUME NEW f, NEW g, NEW h, Stays(f, g), Stays(g, h) PROVE Stays(f, h)
BY DEF Stays, Serves, Tuned, Keeps

\* The kernel's part in a request of the handler.
LEMMA RequestKeeps ==
  ASSUME NEW k \in Thread, NEW mode, NEW sig, NEW deadly, NEW child \in BOOLEAN
  PROVE  /\ Keeps(k, k) /\ Keeps(k, Kill(k)) /\ Keeps(k, Interrupt(k))
         /\ InStop(k) => /\ Keeps(k, Resume(k, mode, sig, deadly))
                         /\ Keeps(k, Listen(k)) /\ Keeps(k, Detach(k, child))
<1>1. Keeps(k, k)
  BY DEF Keeps
<1>2. Keeps(k, Kill(k))
  <2> DEFINE x == Kill(k)
  <2>1. \/ x.run = k.run /\ x.at = k.at
        \/ x.run = "zombie" /\ x.at = "ENDED" /\ k.run = "stop"
        \/ x.run = "dying" /\ x.at = "none" /\ k.run # "gone"
    BY DEF Kill, Thread
  <2>2. x \in Thread
    BY KillType
  <2> HIDE DEF x
  <2> QED BY <2>1, <2>2 DEF Keeps, x
<1>3. Keeps(k, Interrupt(k))
  <2> DEFINE x == Interrupt(k)
  <2>1. \/ x.run = k.run /\ x.at = k.at
        \/ x.run = "stop" /\ x.at \in {"EV_STOP_SIG", "EV_STOP_TRAP"} /\ k.run = "listen"
    BY DEF Interrupt, TakeTrap, StopAt, Thread
  <2>2. x \in Thread
    BY InterruptType
  <2> HIDE DEF x
  <2> QED BY <2>1, <2>2 DEF Keeps, x
<1>4. ASSUME InStop(k) PROVE Keeps(k, Listen(k))
  <2> DEFINE x == Listen(k)
  <2>1. \/ x.run = "listen" /\ x.at = "none"
        \/ x.run = "stop" /\ x.at \in {"EV_STOP_SIG", "EV_STOP_TRAP"}
    BY DEF Listen, TakeTrap, StopAt, Thread
  <2>2. x \in Thread /\ k.run = "stop"
    BY <1>4, ListenType DEF InStop
  <2> HIDE DEF x
  <2> QED BY <2>1, <2>2 DEF Keeps, x
<1>5. ASSUME InStop(k) PROVE Keeps(k, Detach(k, child))
  <2> DEFINE x == Detach(k, child)
  <2>1. \/ x.run = "zombie" /\ x.at = "ENDED"
        \/ x.run = "stop" /\ x.at = "STOPPED"
        \/ x.run = "run" /\ x.at = "none"
    BY DEF Detach, Thread
  <2>2. x \in Thread /\ k.run = "stop"
    BY <1>5, DetachType DEF InStop
  <2> HIDE DEF x
  <2> QED BY <2>1, <2>2 DEF Keeps, x
<1>6. ASSUME InStop(k) PROVE Keeps(k, Resume(k, mode, sig, deadly))
  <2> DEFINE r == [k EXCEPT !.sysgood = (mode = "SYSCALL")]
             s == [r EXCEPT !.gstop = TRUE]
             x == Resume(k, mode, sig, deadly)
  <2>1. r \in Thread /\ r.run = k.run /\ r.at = k.at /\ k.run = "stop"
    BY <1>6 DEF Thread, InStop
  <2>2. x \in Thread
    BY ResumeType
  <2>3. x \in {[r EXCEPT !.run = "zombie", !.at = "ENDED", !.status = TRUE], TakeTrap(s), Kill(r), Leave(r)}
    BY DEF Resume
  <2>4. s \in Thread
    <3> HIDE DEF r
    <3> QED BY <2>1 DEF Thread
  <2> HIDE DEF r, s, x
  <2>5. LET z == [r EXCEPT !.run = "zombie", !.at = "ENDED", !.status = TRUE]
        IN  z.run = "zombie" /\ z.at = "ENDED"
    BY <2>1 DEF Thread
  <2>6. TakeTrap(s).run = "stop" /\ TakeTrap(s).at \in {"EV_STOP_SIG", "EV_STOP_TRAP"}
    BY <2>4 DEF TakeTrap, StopAt, Thread
  <2>7. Keeps(k, Kill(r))
    <3>1. \/ Kill(r).run = "zombie" /\ Kill(r).at = "ENDED"
          \/ Kill(r).run = "dying" /\ Kill(r).at = "none"
      BY <2>1 DEF Kill, Thread
    <3>2. Kill(r) \in Thread
      BY <2>1, KillType
    <3> QED BY <2>1, <3>1, <3>2 DEF Keeps
  <2>8. \/ Leave(r).run = "stop" /\ Leave(r).at \in {"EV_STOP_SIG", "EV_STOP_TRAP"}
        \/ Leave(r).run = "run" /\ Leave(r).at = "none"
    BY <2>1 DEF Leave, TakeTrap, StopAt, Thread
  <2> QED
    BY <2>1, <2>2, <2>3, <2>5, <2>6, <2>7, <2>8 DEF Keeps, x
<1> QED
  BY <1>1, <1>2, <1>3, <1>4, <1>5, <1>6

\* None of them reaps the thread or saves it from its end.
LEMMA RequestServes ==
  ASSUME NEW k \in Thread, NEW mode, NEW sig, NEW deadly, NEW child \in BOOLEAN
  PROVE  /\ Serves(k, k) /\ Serves(k, Kill(k)) /\ Serves(k, Interrupt(k))
         /\ InStop(k) => Serves(k, Resume(k, mode, sig, deadly)) /\ Serves(k, Detach(k, child))
         /\ InStop(k) /\ k.at # "EV_EXIT" => Serves(k, Listen(k))
<1>1. LET x == Kill(k) IN (x.run = "gone" => k.run = "gone") /\ (Spent(k) => Spent(x))
  <2>1. LET x == Kill(k)
        IN  /\ x.traced = k.traced
            /\ (x.run = k.run /\ x.at = k.at) \/ x.run \in {"zombie", "dying"}
    BY DEF Kill, Thread
  <2> QED BY <2>1 DEF Spent
<1>2. LET x == Interrupt(k) IN (x.run = "gone" => k.run = "gone") /\ (Spent(k) => Spent(x))
  <2>1. LET x == Interrupt(k)
        IN  /\ x.traced = k.traced
            /\ (x.run = k.run /\ x.at = k.at) \/ (x.run = "stop" /\ k.run = "listen")
    BY DEF Interrupt, TakeTrap, StopAt, Thread
  <2> QED BY <2>1 DEF Spent
<1>3. ASSUME InStop(k) PROVE LET x == Detach(k, child) IN x.run # "gone" /\ Spent(x)
  <2>1. LET x == Detach(k, child) IN ~x.traced /\ x.run \in {"zombie", "stop", "run"}
    BY <1>3 DEF Detach, Thread, InStop
  <2> QED BY <2>1 DEF Spent
<1>4. ASSUME InStop(k), k.at # "EV_EXIT" PROVE LET x == Listen(k) IN x.run # "gone" /\ ~Spent(k)
  <2>1. Listen(k).run \in {"stop", "listen"}
    BY DEF Listen, TakeTrap, StopAt, Thread
  <2> QED BY <1>4, <2>1 DEF Spent, InStop
<1>5. ASSUME InStop(k) PROVE LET x == Resume(k, mode, sig, deadly) IN x.run # "gone" /\ (Spent(k) => Spent(x))
  <2> DEFINE r == [k EXCEPT !.sysgood = (mode = "SYSCALL")]
             s == [r EXCEPT !.gstop = TRUE]
             z == [r EXCEPT !.run = "zombie", !.at = "ENDED", !.status = TRUE]
             x == Resume(k, mode, sig, deadly)
  <2>1. r \in Thread /\ r.run = k.run /\ r.at = k.at /\ k.run = "stop" /\ r.traced /\ k.traced
    BY <1>5 DEF Thread, InStop
  <2>2. IF k.at = "EV_EXIT" THEN x = z ELSE x \in {TakeTrap(s), Kill(r), Leave(r)}
    BY DEF Resume
  <2>3. s \in Thread
    <3> HIDE DEF r
    <3> QED BY <2>1 DEF Thread
  <2> HIDE DEF r, s, x
  <2>4. z.run = "zombie"
    BY <2>1 DEF Thread
  <2>5. TakeTrap(s).run = "stop" /\ Kill(r).run \in {"zombie", "dying"} /\ Leave(r).run \in {"stop", "run"}
    BY <2>1, <2>3 DEF TakeTrap, StopAt, Kill, Leave, Thread
  <2> HIDE DEF z
  <2> QED BY <2>1, <2>2, <2>4, <2>5 DEF Spent, x
<1> QED
  BY <1>1, <1>2, <1>3, <1>4, <1>5, RequestKeeps DEF Serves

\* The parts of a frame that are replaced.
LEMMA StaysParts ==
  ASSUME NEW f \in Frames
  PROVE  /\ f.t \in Tracees /\ f.k \in Thread /\ f.v \in Views /\ Stays(f, f)
         /\ \A x \in Tracees : (Tuned(f.t, x) => Stays(f, [f EXCEPT !.t = x])) /\ [f EXCEPT !.t = x].t = x
         /\ \A x \in Thread : Serves(f.k, x) => Stays(f, [f EXCEPT !.k = x])
         /\ \A x \in Views : Stays(f, [f EXCEPT !.v = x])
<1>1. f.t \in Tracees /\ f.k \in Thread /\ f.v \in Views
  BY FrameUpdate
<1>2. Serves(f.k, f.k) /\ Tuned(f.t, f.t)
  BY <1>1 DEF Keeps, Serves, Tuned
<1>3. ASSUME NEW x \in Tracees
      PROVE  (Tuned(f.t, x) => Stays(f, [f EXCEPT !.t = x])) /\ [f EXCEPT !.t = x].t = x
  <2>1. [f EXCEPT !.t = x] \in Frames /\ [f EXCEPT !.t = x].k = f.k /\ [f EXCEPT !.t = x].t = x
    BY DEF Frames
  <2> QED BY <1>2, <2>1 DEF Stays
<1>4. ASSUME NEW x \in Views PROVE Stays(f, [f EXCEPT !.v = x])
  <2>1. [f EXCEPT !.v = x] \in Frames /\ [f EXCEPT !.v = x].k = f.k /\ [f EXCEPT !.v = x].t = f.t
    BY DEF Frames
  <2> QED BY <1>2, <2>1 DEF Stays
<1>5. ASSUME NEW x \in Thread, Serves(f.k, x) PROVE Stays(f, [f EXCEPT !.k = x])
  <2>1. [f EXCEPT !.k = x] \in Frames /\ [f EXCEPT !.k = x].k = x /\ [f EXCEPT !.k = x].t = f.t
    BY DEF Frames
  <2> QED BY <1>2, <1>5, <2>1 DEF Stays
<1> QED
  BY <1>1, <1>2, <1>3, <1>4, <1>5 DEF Stays

\* changeState(), SIGKILL, an exception.
LEMMA SmallStays ==
  ASSUME NEW f \in Frames, NEW in, NEW point
  PROVE  /\ \A s \in States : Stays(f, ToState(f, s))
         /\ Stays(f, KillAt(f, in, point))
         /\ \A e \in {"none", "ESRCH", "EIO", "mismatch", "null"} : Stays(f, Throw(f, e))
<1>1. f.k \in Thread /\ Stays(f, f)
  BY StaysParts
<1>2. ASSUME NEW s \in States PROVE Stays(f, ToState(f, s))
  <2>1. LET g == ToState(f, s)
        IN  /\ g \in Frames /\ g.k = f.k /\ g.t.flags = ChangedFlags(f.t, s)
            /\ g.t.mode = f.t.mode \/ g.t.mode \in {"SYSCALL", "LISTEN"}
    BY ToStateFields
  <2>2. "INJECTED_SIGSTOP" \in ChangedFlags(f.t, s) => "INJECTED_SIGSTOP" \in f.t.flags
    BY DEF ChangedFlags
  <2> QED BY <1>1, <2>1, <2>2 DEF Stays, Tuned
<1>3. Stays(f, KillAt(f, in, point))
  <2>1. Serves(f.k, Kill(f.k)) /\ Kill(f.k) \in Thread
    BY <1>1, RequestServes, KillType
  <2> QED BY <1>1, <2>1, StaysParts DEF KillAt
<1>4. ASSUME NEW e \in {"none", "ESRCH", "EIO", "mismatch", "null"} PROVE Stays(f, Throw(f, e))
  <2>1. Throw(f, e) \in Frames /\ Throw(f, e).k = f.k /\ Throw(f, e).t = f.t
    BY DEF Throw, Frames
  <2> QED BY <1>1, <2>1 DEF Stays
<1> QED
  BY <1>2, <1>3, <1>4

\* doDetach() gives the thread up, or finds that it is gone.
LEMMA DoDetachStays == ASSUME NEW f \in Frames PROVE Stays(f, DoDetach(f))
<1> DEFINE g == [f EXCEPT !.k = Detach(f.k, f.t.child)]
           r == f.v.refused \/ (f.t.valid /\ f.k.run = "listen")
           h == [f EXCEPT !.v = [f.v EXCEPT !.refused = r]]
           d == IF Reachable(f) THEN ToState(g, "DETACHED") ELSE ToState(h, "DEAD")
<1>1. f.t.child \in BOOLEAN /\ f.k \in Thread /\ "DETACHED" \in States /\ "DEAD" \in States
  BY StaysParts DEF Tracees, States
<1>2. ASSUME Reachable(f) PROVE Stays(f, g)
  <2>1. Serves(f.k, Detach(f.k, f.t.child)) /\ Detach(f.k, f.t.child) \in Thread
    BY <1>1, <1>2, RequestServes, DetachType DEF Reachable
  <2> QED BY <2>1, StaysParts
<1>3. Stays(f, h)
  <2>1. r \in BOOLEAN
    BY StaysParts DEF Views, Tracees
  <2> HIDE DEF r
  <2>2. [f.v EXCEPT !.refused = r] \in Views
    BY <2>1, StaysParts DEF Views
  <2> QED BY <2>2, StaysParts
<1>5. DoDetach(f) = [d EXCEPT !.t.valid = FALSE, !.t.flags = {}]
  BY DEF DoDetach, DetachFailed
<1> HIDE DEF g, h
<1>6. Stays(f, d)
  BY <1>1, <1>2, <1>3, SmallStays, StaysTrans DEF Stays
<1> HIDE DEF d
<1> DEFINE x == [d.t EXCEPT !.valid = FALSE, !.flags = {}]
<1>7. d \in Frames /\ d.t \in Tracees
  BY <1>6, StaysParts DEF Stays
<1>8. x \in Tracees /\ Tuned(d.t, x)
  BY <1>7 DEF Tracees, Tuned
<1>9. DoDetach(f) = [d EXCEPT !.t = x]
  BY <1>5, <1>7 DEF Frames, Tracees
<1> HIDE DEF x
<1> QED
  BY <1>6, <1>7, <1>8, <1>9, StaysParts, StaysTrans

\* detach(), which may have to interrupt the thread first.
LEMMA DetachTraceeStays == ASSUME NEW f \in Frames PROVE Stays(f, DetachTracee(f))
<1> DEFINE a == [f EXCEPT !.v.asked = TRUE]
           w == [a EXCEPT !.t.flags = @ \cup {"DETACH_AT_NEXT_STOP"}]
           i == [w EXCEPT !.k = Interrupt(w.k)]
<1>1. Stays(f, a)
  <2>1. [f.v EXCEPT !.asked = TRUE] \in Views /\ f.v \in Views
    BY StaysParts DEF Views
  <2>2. a = [f EXCEPT !.v = [f.v EXCEPT !.asked = TRUE]]
    OBVIOUS
  <2> QED BY <2>1, <2>2, StaysParts
<1>2. DetachTracee(f) \in {a, DoDetach(a), w, ToState(w, "DEAD"), i}
  BY DEF DetachTracee
<1> HIDE DEF a
<1>3. Stays(a, w)
  <2> DEFINE x == [a.t EXCEPT !.flags = a.t.flags \cup {"DETACH_AT_NEXT_STOP"}]
  <2>1. a \in Frames /\ a.t \in Tracees
    BY <1>1, StaysParts DEF Stays
  <2>2. a.t.flags \cup {"DETACH_AT_NEXT_STOP"} \in SUBSET Flags
    BY <2>1 DEF Tracees, Flags
  <2>3. x \in Tracees /\ Tuned(a.t, x)
    BY <2>1, <2>2 DEF Tracees, Tuned
  <2>4. w = [a EXCEPT !.t = x]
    OBVIOUS
  <2> HIDE DEF x
  <2> QED BY <2>1, <2>3, <2>4, StaysParts
<1> HIDE DEF w
<1>4. w \in Frames /\ a \in Frames /\ "DEAD" \in States
  BY <1>1, <1>3 DEF Stays, States
<1>5. Stays(w, i)
  <2>1. w.k \in Thread
    BY <1>4, StaysParts
  <2> QED BY <1>4, <2>1, RequestServes, InterruptType, StaysParts
<1>6. Stays(w, ToState(w, "DEAD"))
  BY <1>4, SmallStays
<1>7. Stays(a, DoDetach(a)) /\ Stays(a, a)
  BY <1>4, DoDetachStays, StaysParts
<1> HIDE DEF i
<1> QED
  BY <1>1, <1>2, <1>3, <1>5, <1>6, <1>7, StaysTrans

\* A callback.
LEMMA NotifyStays ==
  ASSUME NEW f \in Frames, NEW in, NEW cb, NEW call \in MaybeCall, NEW flag
  PROVE  Stays(f, Notify(f, in, cb, call, flag))
<1> DEFINE n == [f EXCEPT !.v = Told(f.v, cb, call, flag)]
<1>1. Stays(f, n)
  <2>1. f.v \in Views
    BY StaysParts
  <2>2. Told(f.v, cb, call, flag) \in Views
    BY <2>1, ToldType
  <2> QED BY <2>2, StaysParts
<1>2. Notify(f, in, cb, call, flag) \in {n, DetachTracee(n)}
  BY DEF Notify
<1> HIDE DEF n
<1>3. Stays(n, DetachTracee(n))
  BY <1>1, DetachTraceeStays DEF Stays
<1> QED
  BY <1>1, <1>2, <1>3, StaysTrans

\* The entry to a system call.
LEMMA HandleSystemCallEntryStays ==
  ASSUME NEW f \in Frames, NEW in \in InputRecords
  PROVE  Stays(f, HandleSystemCallEntry(f, in))
<1> DEFINE t == f.t
           c == f.k.nr
           restart == c = "restart_syscall"
           known == t.intr # "none"
           recover == restart /\ ~known /\ t.fresh /\ in.recovered # "none"
           afterSig == ~restart /\ known /\ "SEEN_SIGRETURN" \in t.flags
           cur == IF restart /\ known THEN t.intr ELSE IF recover THEN in.recovered ELSE c
           flag == IF (restart /\ known) \/ (afterSig /\ t.intr = c) THEN "RESUMED"
                   ELSE IF recover THEN "RECOVERED" ELSE "none"
           intr == IF restart \/ afterSig THEN "none" ELSE t.intr
           flags == IF afterSig THEN t.flags \ {"SEEN_SIGRETURN"} ELSE t.flags
           x == [t EXCEPT !.cur = cur, !.intr = intr, !.flags = flags]
           g0 == [f EXCEPT !.t = x]
           g == KillAt(g0, in, "decode")
           y == [g.t EXCEPT !.fresh = FALSE]
           h == [g EXCEPT !.t = y]
<1>1. f.t \in Tracees /\ f.k \in Thread
  BY StaysParts
<1>2. cur \in MaybeCall /\ intr \in MaybeCall /\ flags \in SUBSET Flags /\ flags \subseteq t.flags
  BY <1>1 DEF Tracees, Thread, InputRecords, MaybeCall, Calls, Flags
<1>3. HandleSystemCallEntry(f, in) =
        IF ~Reachable(g) THEN Throw(g, "ESRCH") ELSE Notify(h, in, "syscallEntry", cur, flag)
  <2> DEFINE r == [f EXCEPT !.t.cur = cur, !.t.intr = intr, !.t.flags = flags]
  <2>1. g0 = r
    <3> HIDE DEF cur, intr, flags
    <3> QED BY <1>1 DEF Frames, Tracees
  <2>2. HandleSystemCallEntry(f, in) =
          IF ~Reachable(KillAt(r, in, "decode")) THEN Throw(KillAt(r, in, "decode"), "ESRCH")
          ELSE Notify([KillAt(r, in, "decode") EXCEPT !.t.fresh = FALSE], in, "syscallEntry", cur, flag)
    BY Zenon DEF HandleSystemCallEntry
  <2> HIDE DEF r, g0, cur, flag
  <2> QED BY <2>1, <2>2
<1> HIDE DEF cur, intr, flags, flag
<1>4. x \in Tracees /\ Tuned(f.t, x)
  BY <1>1, <1>2 DEF Tracees, Tuned
<1> HIDE DEF x
<1>5. Stays(f, g0)
  BY <1>4, StaysParts
<1> HIDE DEF g0
<1>6. Stays(g0, g)
  BY <1>5, SmallStays DEF Stays
<1> HIDE DEF g
<1>7. g \in Frames /\ y \in Tracees /\ Tuned(g.t, y)
  <2>1. g \in Frames /\ g.t \in Tracees
    BY <1>6, StaysParts DEF Stays
  <2> QED BY <2>1 DEF Tracees, Tuned
<1> HIDE DEF y
<1>8. Stays(g, h) /\ Stays(g, Throw(g, "ESRCH"))
  BY <1>7, StaysParts, SmallStays
<1> HIDE DEF h
<1>9. Stays(h, Notify(h, in, "syscallEntry", cur, flag))
  BY <1>2, <1>8, NotifyStays DEF Stays
<1> QED
  BY <1>3, <1>5, <1>6, <1>8, <1>9, StaysTrans

\* The return from a system call.
LEMMA HandleSystemCallExitStays ==
  ASSUME NEW f \in Frames, NEW in \in InputRecords
  PROVE  Stays(f, HandleSystemCallExit(f, in))
<1> DEFINE g == KillAt(f, in, "decode")
           c == g.t.cur
           interrupted == in.res = "ERESTART"
           y == [g.t EXCEPT !.intr = IF interrupted THEN c ELSE g.t.intr]
           h == [g EXCEPT !.t = y]
           flag == IF interrupted THEN "INTERRUPTED" ELSE "none"
           n == Notify(h, in, "syscallExit", c, flag)
           sigreturn == c = "sigreturn" /\ n.t.intr # "none"
           intr == IF sigreturn /\ in.res = "EINTR" THEN "none" ELSE n.t.intr
           flags == IF sigreturn /\ in.res # "EINTR" THEN n.t.flags \cup {"SEEN_SIGRETURN"} ELSE n.t.flags
           z == [n.t EXCEPT !.intr = intr, !.flags = flags, !.cur = "none"]
           m == [n EXCEPT !.t = z]
<1>1. Stays(f, g)
  BY SmallStays
<1>2. HandleSystemCallExit(f, in) = IF ~Reachable(g) THEN Throw(g, "ESRCH")
        ELSE [n EXCEPT !.t.intr = intr, !.t.flags = flags, !.t.cur = "none"]
  BY DEF HandleSystemCallExit
<1> HIDE DEF g
<1>3. g \in Frames /\ g.t \in Tracees
  BY <1>1, StaysParts DEF Stays
<1>4. y \in Tracees /\ c \in MaybeCall /\ Tuned(g.t, y)
  BY <1>3 DEF Tracees, Tuned
<1> HIDE DEF y
<1>5. Stays(g, h) /\ Stays(g, Throw(g, "ESRCH"))
  BY <1>3, <1>4, StaysParts, SmallStays
<1> HIDE DEF h, c, flag
<1>6. Stays(h, n)
  BY <1>4, <1>5, NotifyStays DEF Stays
<1> HIDE DEF n
<1>7. n \in Frames /\ n.t \in Tracees
  BY <1>6, StaysParts DEF Stays
<1>8. intr \in MaybeCall /\ flags \in SUBSET Flags /\ flags \subseteq n.t.flags \cup {"SEEN_SIGRETURN"}
  BY <1>7 DEF Tracees, MaybeCall, Flags
<1> HIDE DEF intr, flags
<1>9. z \in Tracees /\ Tuned(n.t, z)
  BY <1>7, <1>8 DEF Tracees, MaybeCall, Tuned
<1>10. m = [n EXCEPT !.t.intr = intr, !.t.flags = flags, !.t.cur = "none"]
  BY <1>7 DEF Frames, Tracees
<1> HIDE DEF z
<1>11. Stays(n, m)
  BY <1>7, <1>9, StaysParts
<1> HIDE DEF m
<1> QED
  BY <1>1, <1>2, <1>5, <1>6, <1>10, <1>11, StaysTrans

\* A system call stop.
LEMMA HandleSystemCallStays ==
  ASSUME NEW f \in Frames, NEW in \in InputRecords
  PROVE  Stays(f, HandleSystemCall(f, in))
<1> DEFINE g == KillAt(f, in, "request")
           a == ToState(g, "SYSCALL_EXIT_STOP")
           b == ToState(g, "SYSCALL_ENTER_STOP")
<1>1. HandleSystemCall(f, in) \in {Throw(g, "ESRCH"), Throw(g, "mismatch"),
                                   HandleSystemCallExit(a, in), HandleSystemCallEntry(b, in)}
  BY DEF HandleSystemCall
<1>2. Stays(f, g)
  BY SmallStays
<1> HIDE DEF g
<1>3. Stays(g, a) /\ Stays(g, b) /\ Stays(g, Throw(g, "ESRCH")) /\ Stays(g, Throw(g, "mismatch"))
  BY <1>2, SmallStays DEF Stays, States
<1> HIDE DEF a, b
<1>4. Stays(a, HandleSystemCallExit(a, in)) /\ Stays(b, HandleSystemCallEntry(b, in))
  BY <1>3, HandleSystemCallEntryStays, HandleSystemCallExitStays DEF Stays
<1> QED
  BY <1>1, <1>2, <1>3, <1>4, StaysTrans

\* A signal-delivery-stop.
LEMMA HandleSignalStays ==
  ASSUME NEW f \in Frames, NEW in \in InputRecords PROVE Stays(f, HandleSignal(f, in))
<1> DEFINE s == ToState(f, "SIGNAL_DELIVERY_STOP")
           g == KillAt(s, in, "request")
           x == [g.t EXCEPT !.flags = g.t.flags \ {"INJECTED_SIGCONT"}]
           n == Notify(g, in, "signaled", "none", "none")
<1>1. Stays(f, s)
  BY SmallStays DEF States
<1>2. HandleSignal(f, in) \in {Throw(g, "ESRCH"), [g EXCEPT !.t.flags = @ \ {"INJECTED_SIGCONT"}], n}
  BY DEF HandleSignal
<1> HIDE DEF s
<1>3. Stays(s, g)
  BY <1>1, SmallStays DEF Stays
<1> HIDE DEF g
<1>4. g \in Frames /\ g.t \in Tracees
  BY <1>3, StaysParts DEF Stays
<1>5. x \in Tracees /\ "none" \in MaybeCall /\ Tuned(g.t, x)
  <2>1. g.t.flags \ {"INJECTED_SIGCONT"} \in SUBSET Flags
    BY <1>4 DEF Tracees
  <2> QED BY <1>4, <2>1 DEF Tracees, MaybeCall, Tuned
<1>6. Stays(g, [g EXCEPT !.t = x]) /\ Stays(g, Throw(g, "ESRCH")) /\ Stays(g, n)
  BY <1>4, <1>5, StaysParts, SmallStays, NotifyStays
<1>7. [g EXCEPT !.t = x] = [g EXCEPT !.t.flags = @ \ {"INJECTED_SIGCONT"}]
  OBVIOUS
<1> HIDE DEF n, x
<1> QED
  BY <1>1, <1>2, <1>3, <1>6, <1>7, StaysTrans

\* The attach-stop.
LEMMA HandleAttachedStays ==
  ASSUME NEW f \in Frames, NEW in \in InputRecords PROVE Stays(f, HandleAttached(f, in))
<1> DEFINE flags == f.t.flags \ {"WAIT_FOR_ATTACH_STOP"}
           mode == IF "INJECTED_SIGSTOP" \in f.t.flags THEN f.t.mode ELSE "SYSCALL"
           x == [f.t EXCEPT !.flags = flags, !.mode = mode]
           m == [f EXCEPT !.t = x]
           g == KillAt(m, in, "request")
<1>1. f.t \in Tracees
  BY StaysParts
<1>2. m = [f EXCEPT !.t.flags = @ \ {"WAIT_FOR_ATTACH_STOP"},
                    !.t.mode = IF "INJECTED_SIGSTOP" \in f.t.flags THEN @ ELSE "SYSCALL"]
  BY <1>1 DEF Frames, Tracees
<1>3. flags \in SUBSET Flags /\ mode \in RestartModes /\ flags \subseteq f.t.flags /\ mode \in {f.t.mode, "SYSCALL"}
  BY <1>1 DEF Tracees, RestartModes
<1>4. HandleAttached(f, in) \in {Throw(g, "ESRCH"), Notify(g, in, "attached", "none", "none")}
  <2> HIDE DEF m
  <2> QED BY <1>2 DEF HandleAttached
<1> HIDE DEF flags, mode
<1>5. x \in Tracees /\ Tuned(f.t, x)
  BY <1>1, <1>3 DEF Tracees, Tuned
<1> HIDE DEF x
<1>6. Stays(f, m)
  BY <1>5, StaysParts
<1> HIDE DEF m
<1>7. Stays(m, g)
  BY <1>6, SmallStays DEF Stays
<1> HIDE DEF g
<1>8. Stays(g, Throw(g, "ESRCH")) /\ Stays(g, Notify(g, in, "attached", "none", "none"))
  BY <1>7, SmallStays, NotifyStays DEF Stays, MaybeCall
<1> QED
  BY <1>4, <1>6, <1>7, <1>8, StaysTrans

\* A PTRACE_EVENT_STOP.
LEMMA HandleStopEventStays ==
  ASSUME NEW f \in Frames, NEW in \in InputRecords PROVE Stays(f, HandleStopEvent(f, in))
<1> DEFINE s == ToState(f, "GROUP_STOP")
           x == [s.t EXCEPT !.stopSig = TRUE]
           g == [s EXCEPT !.t = x]
           y == [f.t EXCEPT !.mode = "SYSCALL"]
<1>1. HandleStopEvent(f, in) \in {HandleAttached(f, in), Notify(g, in, "stopped", "none", "none"),
                                  [f EXCEPT !.t = y]}
  BY DEF HandleStopEvent
<1>2. Stays(f, s)
  BY SmallStays DEF States
<1> HIDE DEF s
<1>3. x \in Tracees /\ y \in Tracees /\ Tuned(s.t, x) /\ Tuned(f.t, y)
  <2>1. s.t \in Tracees /\ f.t \in Tracees
    BY <1>2, StaysParts DEF Stays
  <2> QED BY <2>1 DEF Tracees, RestartModes, Tuned
<1> HIDE DEF x, y
<1>4. Stays(s, g) /\ Stays(f, [f EXCEPT !.t = y])
  BY <1>2, <1>3, StaysParts DEF Stays
<1> HIDE DEF g
<1>5. Stays(g, Notify(g, in, "stopped", "none", "none"))
  BY <1>4, NotifyStays DEF Stays, MaybeCall
<1>6. Stays(f, HandleAttached(f, in))
  BY HandleAttachedStays
<1> QED
  BY <1>1, <1>2, <1>4, <1>5, <1>6, StaysTrans

\* The exit-stop.
LEMMA HandleExitEventStays ==
  ASSUME NEW f \in Frames, NEW in \in InputRecords PROVE Stays(f, HandleExitEvent(f, in))
<1> DEFINE g == KillAt(f, in, "request")
           lost == ~g.k.fatal /\ ~(g.t.prev = "SYSCALL_ENTER_STOP" /\ g.t.cur = "exit")
           flag == IF lost THEN "LOST_TO_MT_EXIT" ELSE "none"
           n == Notify(g, in, "exited", "none", flag)
           x == [n.t EXCEPT !.flags = n.t.flags \cup {"WAIT_FOR_EXITED"}]
<1>1. HandleExitEvent(f, in) \in {Throw(g, "ESRCH"), [n EXCEPT !.t = x]}
  BY DEF HandleExitEvent
<1>2. Stays(f, g)
  BY SmallStays
<1> HIDE DEF g, flag
<1>3. Stays(g, n) /\ Stays(g, Throw(g, "ESRCH"))
  BY <1>2, SmallStays, NotifyStays DEF Stays, MaybeCall
<1> HIDE DEF n
<1>4. n \in Frames /\ n.t \in Tracees
  BY <1>3, StaysParts DEF Stays
<1>5. x \in Tracees /\ Tuned(n.t, x)
  <2>1. n.t.flags \cup {"WAIT_FOR_EXITED"} \in SUBSET Flags
    BY <1>4 DEF Tracees, Flags
  <2> QED BY <1>4, <2>1 DEF Tracees, Tuned
<1> HIDE DEF x
<1>6. Stays(n, [n EXCEPT !.t = x])
  BY <1>4, <1>5, StaysParts
<1> QED
  BY <1>1, <1>2, <1>3, <1>6, StaysTrans

\* The events of execve(), of a new child and of the end of a vfork().
LEMMA HandleNewEventStays ==
  ASSUME NEW f \in Frames, NEW in \in InputRecords
  PROVE  Stays(f, HandleExecEvent(f, in)) /\ Stays(f, HandleNewChildEvent(f, in))
<1> DEFINE g == KillAt(f, in, "request")
           n(cb) == Notify(g, in, cb, "none", "none")
<1>1. HandleExecEvent(f, in) \in {Throw(g, "ESRCH"), n("newExecutionContext")}
  BY DEF HandleExecEvent
<1>2. HandleNewChildEvent(f, in) \in {Throw(g, "ESRCH"), Throw(g, "null"), n("vforkComplete"), n("newChildProcess")}
  BY DEF HandleNewChildEvent
<1>3. Stays(f, g)
  BY SmallStays
<1> HIDE DEF g
<1>4. Stays(g, Throw(g, "ESRCH")) /\ Stays(g, Throw(g, "null"))
  BY <1>3, SmallStays DEF Stays
<1>5. Stays(g, n("newExecutionContext")) /\ Stays(g, n("vforkComplete")) /\ Stays(g, n("newChildProcess"))
  BY <1>3, NotifyStays DEF Stays, MaybeCall
<1> HIDE DEF n
<1> QED
  BY <1>1, <1>2, <1>3, <1>4, <1>5, StaysTrans

\* handleEvent() of the Tracee.
LEMMA HandleEventStays ==
  ASSUME NEW f \in Frames, NEW in \in InputRecords PROVE Stays(f, HandleEvent(f, in))
<1> DEFINE g == ToState(f, "EVENT_STOP")
<1>1. HandleEvent(f, in) \in {HandleStopEvent(g, in), HandleExitEvent(g, in), HandleExecEvent(g, in),
                              HandleNewChildEvent(g, in)}
  BY DEF HandleEvent
<1>2. Stays(f, g)
  BY SmallStays DEF States
<1> HIDE DEF g
<1>3. /\ Stays(g, HandleStopEvent(g, in)) /\ Stays(g, HandleExitEvent(g, in))
      /\ Stays(g, HandleExecEvent(g, in)) /\ Stays(g, HandleNewChildEvent(g, in))
  BY <1>2, HandleStopEventStays, HandleExitEventStays, HandleNewEventStays DEF Stays
<1> QED
  BY <1>1, <1>2, <1>3, StaysTrans

\* restart(), with the signal to inject.
LEMMA RestartStays ==
  ASSUME NEW f \in Frames, NEW in \in InputRecords PROVE Stays(f, Restart(f, in))
<1> DEFINE r == KillAt(f, in, "late")
           u == Resume(r.k, r.t.mode, SignalOf(in.ev), in.deadly)
           y == [r.v EXCEPT !.refused = TRUE]
           e == [r EXCEPT !.v = y]
<1>1. Stays(f, r)
  BY SmallStays
<1>2. Restart(f, in) = IF ~Reachable(r) THEN Throw(r, "ESRCH")
                       ELSE IF r.t.mode # "LISTEN" THEN [r EXCEPT !.k = u]
                       ELSE IF ListenRefused(r.k) THEN Throw(e, "EIO") ELSE [r EXCEPT !.k = Listen(r.k)]
  BY DEF Restart
<1> HIDE DEF r
<1>3. r \in Frames /\ r.k \in Thread /\ r.v \in Views
  BY <1>1, StaysParts DEF Stays
<1>4. ASSUME InStop(r.k)
      PROVE  Stays(r, [r EXCEPT !.k = u]) /\ (~ListenRefused(r.k) => Stays(r, [r EXCEPT !.k = Listen(r.k)]))
  <2>1. ~ListenRefused(r.k) => r.k.at # "EV_EXIT"
    BY DEF ListenRefused
  <2> QED BY <1>3, <1>4, <2>1, RequestServes, ResumeType, ListenType, StaysParts
<1>5. Stays(r, e)
  <2>1. y \in Views
    BY <1>3 DEF Views
  <2> QED BY <1>3, <2>1, StaysParts
<1> HIDE DEF e, u
<1>6. Stays(e, Throw(e, "EIO")) /\ Stays(r, Throw(r, "ESRCH"))
  BY <1>3, <1>5, SmallStays DEF Stays
<1>7. Reachable(r) => InStop(r.k)
  BY DEF Reachable
<1> QED
  BY <1>1, <1>2, <1>4, <1>5, <1>6, <1>7, StaysTrans

\* The end of the handling of a stop.
LEMMA RestartTraceeStays ==
  ASSUME NEW f \in Frames, NEW in \in InputRecords PROVE Stays(f, RestartTracee(f, in))
<1> DEFINE r == Restart(f, in)
           s == ToState(r, "RUNNING")
           n == Notify(s, [in EXCEPT !.detach = FALSE], "resumed", "none", "none")
<1>1. RestartTracee(f, in) \in {f, r, n, s}
  BY DEF RestartTracee
<1>2. Stays(f, r) /\ Stays(f, f)
  BY RestartStays, StaysParts
<1> HIDE DEF r
<1>3. Stays(r, s)
  BY <1>2, SmallStays DEF Stays, States
<1> HIDE DEF s
<1>4. Stays(s, n)
  BY <1>3, NotifyStays DEF Stays, MaybeCall
<1> HIDE DEF n
<1> QED
  BY <1>1, <1>2, <1>3, <1>4, StaysTrans

\* The end of the thread.
LEMMA ProcessEndStays ==
  ASSUME NEW f \in Frames, NEW in \in InputRecords PROVE Stays(f, ProcessEnd(f, in))
<1> DEFINE d == ToState(f, "DEAD")
           n == Notify(d, in, "disappeared", "none", "none")
<1>1. ProcessEnd(f, in) \in {d, n}
  BY DEF ProcessEnd
<1>2. Stays(f, d)
  BY SmallStays DEF States
<1> HIDE DEF d
<1>3. Stays(d, n)
  BY <1>2, NotifyStays DEF Stays, MaybeCall
<1> HIDE DEF n
<1> QED
  BY <1>1, <1>2, <1>3, StaysTrans

\* A ptrace-stop of any kind.
LEMMA HandleTrapStays ==
  ASSUME NEW f \in Frames, NEW in \in InputRecords PROVE Stays(f, HandleTrap(f, in))
<1> DEFINE g == KillAt(f, in, "request")
           c == HandleSystemCall(f, in)
           e == HandleEvent(f, in)
           s == HandleSignal(f, in)
<1>1. HandleTrap(f, in) \in {DoDetach(g), RestartTracee(c, in), RestartTracee(e, in), RestartTracee(s, in)}
  BY DEF HandleTrap
<1>2. Stays(f, g) /\ Stays(f, c) /\ Stays(f, e) /\ Stays(f, s)
  BY SmallStays, HandleSystemCallStays, HandleEventStays, HandleSignalStays
<1> HIDE DEF g, c, e, s
<1>3. /\ Stays(g, DoDetach(g)) /\ Stays(c, RestartTracee(c, in))
      /\ Stays(e, RestartTracee(e, in)) /\ Stays(s, RestartTracee(s, in))
  BY <1>2, DoDetachStays, RestartTraceeStays DEF Stays
<1> QED
  BY <1>1, <1>2, <1>3, StaysTrans

\* processEvent()
LEMMA ProcessEventStays ==
  ASSUME NEW f \in Frames, NEW in \in InputRecords PROVE Stays(f, ProcessEvent(f, in))
<1> DEFINE s == ToState(f, "SIGNAL_DELIVERY_STOP")
<1>1. ProcessEvent(f, in) \in {ProcessEnd(f, in), Throw(s, "ESRCH"), HandleTrap(f, in)}
  BY DEF ProcessEvent
<1>2. Stays(f, s)
  BY SmallStays DEF States
<1> HIDE DEF s
<1>3. Stays(s, Throw(s, "ESRCH"))
  BY <1>2, SmallStays DEF Stays
<1> QED
  BY <1>1, <1>2, <1>3, ProcessEndStays, HandleTrapStays, StaysTrans

(* The invariant. *)

\* The functions on some of the PIDs.
Maps(S) == UNION {[D -> S] : D \in SUBSET Pids}

\* The PIDs that the consumer may have heard of.
Known(pids) == pids \cup {Main} \cup Others

\* TypeOK, and what the Engine keeps in maps are functions.
TypeInv == /\ th \in [Pids -> Thread] /\ leader \in [Pids -> Pids \cup {NoPid}]
           /\ msg \in [Pids -> Pids] /\ execing \subseteq Pids /\ killing \in BOOLEAN
           /\ tracees \in Maps(Tracees) /\ own \in Maps(Pids) /\ DOMAIN own = DOMAIN tracees
           /\ unknown \in Maps(EventStops) /\ view \in [Pids -> Views] /\ announced \subseteq Pids
           /\ over \in {"no", "returned", "exception", "iterator"}

\* There is no thread without a process, and a process has its main thread's PID.
LeadInv == \A p \in Pids : /\ leader[p] = NoPid => th[p].run = "gone"
                           /\ leader[p] # NoPid => leader[leader[p]] = leader[p]

\* A running thread is in no stop, and none is its own child.
ThreadsInv == \A p \in Pids : /\ th[p].run = "run" => th[p].at = "none"
                              /\ th[p].at = "EV_CHILD" => msg[p] # p

\* The PIDs of the tracees, those they make their requests for and those of the
\* processes that have several threads are known.
PidsInv == /\ \A p \in DOMAIN tracees : p \in Known(announced) /\ own[p] \in Known(announced)
           /\ \A p \in Pids : leader[p] \in Known(announced) \cup {p, NoPid}

\* A thread that has not been announced does not get past its first stop, and
\* nothing was told of it.
UnheardInv == \A p \in Pids \ Known(announced) :
                 /\ th[p].run # "run" /\ th[p].at # "EV_EXEC"
                 /\ ~view[p].attached /\ ~view[p].early

Inv == TypeInv /\ LeadInv /\ ThreadsInv /\ PidsInv /\ UnheardInv

\* The data that the Engine works on while it handles an event.
Contexts == [th : [Pids -> Thread], tracees : Maps(Tracees), own : Maps(Pids), unknown : Maps(EventStops),
             view : [Pids -> Views], announced : SUBSET Pids, born : Pids \cup {NoPid},
             ex : {"none", "ESRCH", "EIO", "mismatch", "null"}]

\* What holds of these data at any moment while it handles an event, th and
\* announced being as they were before.
ContextInv(w) ==
    /\ w \in Contexts
    /\ DOMAIN w.own = DOMAIN w.tracees
    /\ \A q \in Pids : Keeps(th[q], w.th[q])
    /\ announced \subseteq w.announced
    /\ \A q \in DOMAIN w.tracees : q \in Known(w.announced) /\ w.own[q] \in Known(w.announced)
    /\ \A q \in Pids \ Known(w.announced) :
           /\ w.th[q].run # "run" /\ w.th[q].at # "EV_EXEC"
           /\ ~w.view[q].attached /\ ~w.view[q].early

(* The maps. *)

\* What a map is, and how it is extended and restricted.
LEMMA MapFacts ==
  ASSUME NEW S, NEW m \in Maps(S)
  PROVE  /\ DOMAIN m \subseteq Pids /\ \A p \in DOMAIN m : m[p] \in S
         /\ m = [p \in DOMAIN m |-> m[p]]
         /\ \A p \in Pids, x \in S : With(m, p, x) \in Maps(S)
         /\ \A p : Without(m, p) \in Maps(S)
         /\ \A D \in SUBSET (DOMAIN m) : Restrict(m, D) \in Maps(S)
<1>1. PICK D0 \in SUBSET Pids : m \in [D0 -> S]
  BY DEF Maps
<1>2. DOMAIN m = D0 /\ \A p \in D0 : m[p] \in S
  BY <1>1
<1>3. ASSUME NEW p \in Pids, NEW x \in S PROVE With(m, p, x) \in Maps(S)
  <2> DEFINE E == D0 \cup {p}
  <2>1. E \in SUBSET Pids /\ With(m, p, x) \in [E -> S]
    BY <1>2 DEF With
  <2> QED BY <2>1 DEF Maps
<1>4. ASSUME NEW D \in SUBSET (DOMAIN m) PROVE Restrict(m, D) \in Maps(S)
  <2>1. D \in SUBSET Pids /\ Restrict(m, D) \in [D -> S]
    BY <1>2, <1>4 DEF Restrict
  <2> QED BY <2>1 DEF Maps
<1>5. ASSUME NEW p PROVE Without(m, p) \in Maps(S)
  <2>1. DOMAIN m \ {p} \in SUBSET (DOMAIN m)
    OBVIOUS
  <2> QED BY <1>4, <2>1 DEF Without
<1>6. m = [p \in DOMAIN m |-> m[p]]
  BY <1>1, <1>2
<1> QED
  BY <1>2, <1>3, <1>4, <1>5, <1>6

\* The input of an event handler is one of those the lemmas above are about.
LEMMA InputsType ==
  ASSUME killing \in BOOLEAN, NEW e \in Statuses \cup {"none"} PROVE Inputs(e) \subseteq InputRecords
<1>1. ASSUME NEW in \in Inputs(e) PROVE in \in InputRecords
  <2>1. in.kill \in {"no", "request", "decode", "late"} /\ in.detach \in BOOLEAN
    BY <1>1, InputAssumption DEF Inputs
  <2>2. in.ev = e /\ in.res = "ok" /\ in.recovered = "none" /\ in.deadly = FALSE
    BY <1>1 DEF Inputs
  <2>3. in = [ev |-> in.ev, kill |-> in.kill, detach |-> in.detach, res |-> in.res,
              recovered |-> in.recovered, deadly |-> in.deadly]
    BY <1>1 DEF Inputs
  <2> QED BY <2>1, <2>2, <2>3 DEF InputRecords, MaybeCall
<1> QED
  BY <1>1

\* SIGKILL for a whole group.
LEMMA GroupType ==
  ASSUME NEW T \in [Pids -> Thread], NEW p \in Pids
  PROVE  /\ KillGroup(T, p) \in [Pids -> Thread] /\ Zap(T, p) \in [Pids -> Thread]
         /\ \A q \in Pids : LET a == KillGroup(T, p)[q]  b == Zap(T, p)[q]
                            IN  /\ Keeps(T[q], a) /\ Keeps(T[q], b)
                                /\ a.run = "run" => T[q].run = "run"
                                /\ b.run = "run" => T[q].run = "run"
<1> DEFINE z(q) == [Kill(T[q]) EXCEPT !.fatal = T[q].fatal]
<1>1. ASSUME NEW q \in Pids
      PROVE  /\ Kill(T[q]) \in Thread /\ z(q) \in Thread /\ Keeps(T[q], T[q])
             /\ Keeps(T[q], Kill(T[q])) /\ Keeps(T[q], z(q))
             /\ z(q).run = Kill(T[q]).run
             /\ Kill(T[q]).run = "run" => T[q].run = "run"
  <2>1. T[q] \in Thread /\ Kill(T[q]) \in Thread
    BY KillType
  <2>2. Keeps(T[q], Kill(T[q])) /\ Keeps(T[q], T[q])
    BY <2>1, RequestKeeps
  <2>3. Kill(T[q]).run = "run" => T[q].run = "run"
    BY <2>1 DEF Kill, Thread
  <2> DEFINE k == Kill(T[q])
             y == [k EXCEPT !.fatal = T[q].fatal]
  <2>4. y \in Thread /\ y.run = k.run /\ y.at = k.at
    <3> HIDE DEF k
    <3> QED BY <2>1 DEF Thread, k
  <2>5. Keeps(T[q], y)
    <3> HIDE DEF y
    <3> QED BY <2>2, <2>4 DEF Keeps, k
  <2> QED BY <2>1, <2>2, <2>3, <2>4, <2>5
<1> DEFINE A == KillGroup(T, p)
           B == Zap(T, p)
<1>2. A = [q \in Pids |-> IF q \in Group(p) THEN Kill(T[q]) ELSE T[q]]
  BY DEF KillGroup
<1>3. B = [q \in Pids |-> IF q \in Group(p) \ {p} THEN z(q) ELSE T[q]]
  BY DEF Zap
<1> HIDE DEF z, A, B
<1>4. A \in [Pids -> Thread] /\ B \in [Pids -> Thread]
  BY <1>1, <1>2, <1>3
<1>5. \A q \in Pids : A[q] \in {T[q], Kill(T[q])} /\ B[q] \in {T[q], z(q)}
  BY <1>2, <1>3
<1> QED
  BY <1>1, <1>4, <1>5 DEF A, B

(* The handling of an event. *)

\* The parts of a context.
LEMMA ContextParts ==
  ASSUME NEW w, ContextInv(w)
  PROVE  /\ w.th \in [Pids -> Thread] /\ w.tracees \in Maps(Tracees) /\ w.own \in Maps(Pids)
         /\ w.unknown \in Maps(EventStops) /\ w.view \in [Pids -> Views] /\ w.announced \in SUBSET Pids
         /\ w.born \in Pids \cup {NoPid} /\ w.ex \in {"none", "ESRCH", "EIO", "mismatch", "null"}
         /\ DOMAIN w.own = DOMAIN w.tracees /\ DOMAIN w.tracees \subseteq Pids
         /\ w = [th |-> w.th, tracees |-> w.tracees, own |-> w.own, unknown |-> w.unknown,
                 view |-> w.view, announced |-> w.announced, born |-> w.born, ex |-> w.ex]
<1>1. w.tracees \in Maps(Tracees)
  BY DEF ContextInv, Contexts
<1>2. DOMAIN w.tracees \subseteq Pids
  BY <1>1, MapFacts
<1> QED
  BY <1>2 DEF ContextInv, Contexts

\* The frame of the handler, with the state that is taken over at an execve().
LEMMA FrameOfType ==
  ASSUME NEW w, ContextInv(w), NEW p \in DOMAIN w.tracees, NEW in, msg \in [Pids -> Pids]
  PROVE  /\ FrameOf(w, p, in) \in Frames
         /\ RequestPid(w, p, in) \in Pids /\ RequestPid(w, p, in) \in Known(w.announced)
         /\ FrameOf(w, p, in).k = w.th[RequestPid(w, p, in)]
<1> DEFINE subst == Substitutes(w, p, in)
           other == w.tracees[msg[p]]
           t == IF subst THEN SyncState(w.tracees[p], other) ELSE w.tracees[p]
           v == IF subst THEN w.view[msg[p]] ELSE w.view[p]
           pid == RequestPid(w, p, in)
<1>1. w.th \in [Pids -> Thread] /\ w.view \in [Pids -> Views] /\ p \in Pids /\ msg[p] \in Pids
  BY ContextParts
<1>2. \A q \in DOMAIN w.tracees : w.tracees[q] \in Tracees
  BY ContextParts, MapFacts
<1>3. \A q \in DOMAIN w.tracees : w.own[q] \in Pids
  BY ContextParts, MapFacts
<1>4. pid \in Pids /\ pid \in Known(w.announced)
  BY <1>1, <1>3 DEF RequestPid, ContextInv
<1>5. subst => msg[p] \in DOMAIN w.tracees
  BY DEF Substitutes
<1>6. FrameOf(w, p, in) = [t |-> t, k |-> w.th[pid], v |-> v, ex |-> "none"]
  BY DEF FrameOf
<1> HIDE DEF subst, pid
<1>7. t \in Tracees
  <2>1. ASSUME NEW x \in Tracees, NEW y \in Tracees PROVE SyncState(x, y) \in Tracees
    BY DEF SyncState, Tracees
  <2> QED BY <1>2, <1>5, <2>1
<1>8. v \in Views
  BY <1>1
<1> HIDE DEF t, v
<1> QED
  BY <1>1, <1>4, <1>6, <1>7, <1>8 DEF Frames, pid

\* What comes of the event.
LEMMA ConcludedInv ==
  ASSUME NEW w, ContextInv(w), NEW p \in DOMAIN w.tracees, NEW in, msg \in [Pids -> Pids],
         th \in [Pids -> Thread], NEW f, Stays(FrameOf(w, p, in), f)
  PROVE  LET x == Concluded(w, p, in, f)
         IN  /\ ContextInv(x) /\ x.born = w.born /\ x.unknown = w.unknown /\ x.announced = w.announced
             /\ in.ev # "EV_EXEC" => DOMAIN w.tracees \ {p} \subseteq DOMAIN x.tracees
<1> DEFINE pid == RequestPid(w, p, in)
           dropped == IF Substitutes(w, p, in) THEN {msg[p]} ELSE {}
           rest == DOMAIN w.tracees \ (dropped \cup (IF Removed(f.t) THEN {p} ELSE {}))
           threads == [w.th EXCEPT ![pid] = f.k]
           T == IF in.kill = "no" THEN threads ELSE KillGroup(threads, p)
           tr == [q \in rest |-> IF q = p THEN f.t ELSE w.tracees[q]]
           ow == [q \in rest |-> IF q = p THEN pid ELSE w.own[q]]
           vw == [q \in Pids |-> IF q = p THEN f.v ELSE IF q \in dropped THEN NewView ELSE w.view[q]]
           e == IF f.ex \in {"none", "ESRCH", "EIO"} THEN "none" ELSE f.ex
           x == [w EXCEPT !.th = T, !.tracees = tr, !.own = ow, !.view = vw, !.ex = e]
<1>1. Concluded(w, p, in, f) = x
  BY DEF Concluded
<1>2. /\ pid \in Pids /\ pid \in Known(w.announced) /\ FrameOf(w, p, in).k = w.th[pid] /\ p \in Pids
      /\ p \in Known(w.announced)
  BY FrameOfType, ContextParts DEF ContextInv
<1>3. f \in Frames /\ f.t \in Tracees /\ f.k \in Thread /\ f.v \in Views /\ Keeps(w.th[pid], f.k)
      /\ e \in {"none", "ESRCH", "EIO", "mismatch", "null"}
  <2>1. f \in Frames /\ Keeps(w.th[pid], f.k)
    BY <1>2 DEF Stays, Serves
  <2> QED BY <2>1, StaysParts DEF Frames
<1>4. /\ w.th \in [Pids -> Thread] /\ DOMAIN w.tracees \subseteq Pids /\ w.view \in [Pids -> Views]
      /\ \A q \in DOMAIN w.tracees : w.tracees[q] \in Tracees /\ w.own[q] \in Pids
  BY ContextParts, MapFacts
<1>5. in.ev # "EV_EXEC" => dropped = {}
  BY DEF Substitutes
<1>6. dropped \subseteq DOMAIN w.tracees
  BY DEF Substitutes
<1>7. rest \in SUBSET Pids /\ rest \subseteq DOMAIN w.tracees
      /\ (in.ev # "EV_EXEC" => DOMAIN w.tracees \ {p} \subseteq rest)
  BY <1>4, <1>5
<1> HIDE DEF pid, dropped, rest, e
<1>8. tr \in [rest -> Tracees] /\ ow \in [rest -> Pids] /\ \A q \in rest : ow[q] \in {pid, w.own[q]}
  BY <1>2, <1>3, <1>4, <1>7
<1>9. tr \in Maps(Tracees) /\ ow \in Maps(Pids) /\ DOMAIN tr = rest /\ DOMAIN ow = rest
  BY <1>7, <1>8 DEF Maps
<1>10. vw \in [Pids -> Views] /\ \A q \in Pids \ Known(w.announced) : vw[q] = w.view[q]
  <2>1. NewView \in Views
    BY DEF NewView, Views, MaybeCall
  <2>2. \A q \in dropped : q \in Known(w.announced)
    BY <1>6 DEF ContextInv
  <2> QED BY <1>2, <1>3, <1>4, <2>1, <2>2
<1>11. /\ threads \in [Pids -> Thread] /\ \A q \in Pids : Keeps(w.th[q], threads[q])
       /\ \A q \in Pids \ Known(w.announced) : threads[q] = w.th[q]
  <2>1. \A q \in Pids : Keeps(w.th[q], w.th[q])
    BY <1>4 DEF Keeps
  <2> QED BY <1>2, <1>3, <1>4, <2>1
<1> HIDE DEF threads
<1>12. /\ T \in [Pids -> Thread] /\ \A q \in Pids : Keeps(threads[q], T[q])
       /\ \A q \in Pids : T[q].run = "run" => threads[q].run = "run"
  <2>1. \A q \in Pids : Keeps(threads[q], threads[q])
    BY <1>11 DEF Keeps
  <2> QED BY <1>2, <1>11, <2>1, GroupType
<1> HIDE DEF T, tr, ow, vw
<1>13. /\ x.th = T /\ x.tracees = tr /\ x.own = ow /\ x.view = vw /\ x.ex = e
       /\ x.unknown = w.unknown /\ x.announced = w.announced /\ x.born = w.born
       /\ x \in Contexts
  <2>1. w \in Contexts
    BY DEF ContextInv
  <2> QED BY <1>3, <1>9, <1>10, <1>12, <2>1 DEF Contexts
<1> HIDE DEF x
<1>14. \A q \in Pids : Keeps(th[q], x.th[q])
  <2>1. \A q \in Pids : Keeps(th[q], w.th[q])
    BY DEF ContextInv
  <2> QED BY <1>11, <1>12, <1>13, <2>1 DEF Keeps
<1>15. \A q \in DOMAIN x.tracees : q \in Known(w.announced) /\ x.own[q] \in Known(w.announced)
  BY <1>2, <1>7, <1>8, <1>9, <1>13 DEF ContextInv
<1>16. \A q \in Pids \ Known(w.announced) : /\ x.th[q].run # "run" /\ x.th[q].at # "EV_EXEC"
                                            /\ ~x.view[q].attached /\ ~x.view[q].early
  <2> TAKE q \in Pids \ Known(w.announced)
  <2>1. w.th[q].run # "run" /\ w.th[q].at # "EV_EXEC" /\ ~w.view[q].attached /\ ~w.view[q].early
    BY DEF ContextInv
  <2>2. threads[q] = w.th[q] /\ Keeps(threads[q], T[q]) /\ (T[q].run = "run" => threads[q].run = "run")
        /\ vw[q] = w.view[q]
    BY <1>10, <1>11, <1>12
  <2>3. T[q].at # "EV_EXEC"
    BY <2>1, <2>2 DEF Keeps
  <2> QED BY <1>13, <2>1, <2>2, <2>3
<1>17. announced \subseteq w.announced
  BY DEF ContextInv
<1>18. ContextInv(x)
  BY <1>9, <1>13, <1>14, <1>15, <1>16, <1>17 DEF ContextInv
<1> QED
  BY <1>1, <1>7, <1>9, <1>13, <1>18

\* processEvent() and doDetach() of the Tracee that is found.
LEMMA TraceeProcessEventInv ==
  ASSUME NEW w, ContextInv(w), NEW p \in DOMAIN w.tracees, NEW in \in InputRecords, TypeInv,
         NEW x \in TraceeProcessEvent(w, p, in)
  PROVE  /\ ContextInv(x) /\ x.born = w.born /\ x.unknown = w.unknown /\ x.announced = w.announced
         /\ in.ev # "EV_EXEC" => DOMAIN w.tracees \ {p} \subseteq DOMAIN x.tracees
<1> DEFINE f0 == FrameOf(w, p, in)
           f == ProcessEvent(f0, in)
           g == IF f.t.state = "DEAD" THEN DoDetach(f) ELSE f
<1>1. msg \in [Pids -> Pids] /\ th \in [Pids -> Thread]
  BY DEF TypeInv
<1>2. x = Concluded(w, p, in, g)
  BY DEF TraceeProcessEvent
<1>3. f0 \in Frames
  BY <1>1, FrameOfType
<1> HIDE DEF f0
<1>4. Stays(f0, f)
  BY <1>3, ProcessEventStays
<1> HIDE DEF f
<1>5. Stays(f, DoDetach(f))
  BY <1>4, DoDetachStays DEF Stays
<1>6. Stays(f0, g)
  BY <1>4, <1>5, StaysTrans
<1> HIDE DEF g
<1> QED
  BY <1>1, <1>2, <1>6, ConcludedInv DEF f0

\* handleAutoAttach() makes the new PID a known one.
LEMMA AutoAttachInv ==
  ASSUME NEW w, ContextInv(w), NEW c \in Pids
  PROVE  LET x == AutoAttach(w, c)
         IN  /\ ContextInv(x) /\ x.born = c /\ x.th = w.th
             /\ DOMAIN x.tracees = DOMAIN w.tracees \cup {c}
<1> DEFINE n == [NewTracee(FALSE) EXCEPT !.flags = {"WAIT_FOR_ATTACH_STOP"}]
           tr == IF c \in DOMAIN w.tracees THEN w.tracees ELSE With(w.tracees, c, n)
           ow == With(w.own, c, c)
           an == w.announced \cup {c}
           x == [w EXCEPT !.tracees = tr, !.own = ow, !.announced = an, !.born = c]
<1>1. AutoAttach(w, c) = x
  BY DEF AutoAttach
<1>2. n \in Tracees
  BY DEF NewTracee, Tracees, States, Flags, RestartModes, MaybeCall
<1> HIDE DEF n
<1>3. /\ w.tracees \in Maps(Tracees) /\ w.own \in Maps(Pids) /\ w.announced \in SUBSET Pids
      /\ DOMAIN w.own = DOMAIN w.tracees
  BY ContextParts
<1>4. tr \in Maps(Tracees) /\ ow \in Maps(Pids) /\ an \in SUBSET Pids
  BY <1>2, <1>3, MapFacts
<1>5. /\ DOMAIN tr = DOMAIN w.tracees \cup {c} /\ DOMAIN ow = DOMAIN w.tracees \cup {c}
      /\ ow[c] = c /\ \A q \in DOMAIN w.tracees \ {c} : ow[q] = w.own[q]
  <2>1. DOMAIN With(w.tracees, c, n) = DOMAIN w.tracees \cup {c}
    BY DEF With
  <2>2. DOMAIN ow = DOMAIN w.own \cup {c} /\ ow[c] = c /\ \A q \in DOMAIN w.own \ {c} : ow[q] = w.own[q]
    BY DEF With
  <2>3. DOMAIN tr = DOMAIN w.tracees \cup {c}
    BY <2>1
  <2> QED BY <1>3, <2>2, <2>3
<1>6. Known(w.announced) \subseteq Known(an) /\ c \in Known(an) /\ w.announced \subseteq an
  BY DEF Known
<1> HIDE DEF tr, ow, an
<1>7. /\ x \in Contexts /\ x.tracees = tr /\ x.own = ow /\ x.announced = an /\ x.born = c
      /\ x.th = w.th /\ x.view = w.view
  <2>1. w \in Contexts
    BY DEF ContextInv
  <2> QED BY <1>4, <2>1 DEF Contexts
<1> HIDE DEF x
<1>8. \A q \in DOMAIN x.tracees : q \in Known(x.announced) /\ x.own[q] \in Known(x.announced)
  <2> TAKE q \in DOMAIN x.tracees
  <2>1. CASE q = c
    BY <1>5, <1>6, <1>7, <2>1
  <2>2. CASE q # c
    <3>1. q \in DOMAIN w.tracees /\ x.own[q] = w.own[q]
      BY <1>5, <1>7, <2>2
    <3>2. q \in Known(w.announced) /\ w.own[q] \in Known(w.announced)
      BY <3>1 DEF ContextInv
    <3> QED BY <1>6, <1>7, <3>1, <3>2
  <2> QED BY <2>1, <2>2
<1>9. ContextInv(x)
  <2>1. \A q \in Pids : Keeps(th[q], x.th[q])
    BY <1>7 DEF ContextInv
  <2>2. announced \subseteq x.announced
    BY <1>6, <1>7 DEF ContextInv
  <2>3. \A q \in Pids \ Known(x.announced) : /\ x.th[q].run # "run" /\ x.th[q].at # "EV_EXEC"
                                             /\ ~x.view[q].attached /\ ~x.view[q].early
    BY <1>6, <1>7 DEF ContextInv
  <2> QED BY <1>5, <1>7, <1>8, <2>1, <2>2, <2>3 DEF ContextInv
<1> QED
  BY <1>1, <1>5, <1>7, <1>9

\* What newChildProcess() does to the child: detach() changes its Tracee, its thread and
\* what the consumer knows of it, and nothing of the others.
LEMMA NewChildProcessInv ==
  ASSUME NEW w, ContextInv(w), NEW c \in DOMAIN w.tracees, NEW b \in NewChildProcess(w, c)
  PROVE  /\ ContextInv(b) /\ b.born = w.born /\ DOMAIN b.tracees = DOMAIN w.tracees
         /\ b.own = w.own /\ b.unknown = w.unknown /\ b.announced = w.announced /\ b.ex = w.ex
         /\ \A q \in Pids \ {c} : b.th[q] = w.th[q] /\ b.view[q] = w.view[q]
         /\ \A q \in DOMAIN w.tracees \ {c} : b.tracees[q] = w.tracees[q]
<1> DEFINE f == [t |-> w.tracees[c], k |-> w.th[c], v |-> w.view[c], ex |-> "none"]
           d == DetachTracee(f)
           tr == With(w.tracees, c, d.t)
           ths == [w.th EXCEPT ![c] = d.k]
           vw == [w.view EXCEPT ![c] = d.v]
           x == [w EXCEPT !.tracees = tr, !.th = ths, !.view = vw]
<1>1. /\ w.tracees \in Maps(Tracees) /\ w.th \in [Pids -> Thread] /\ w.view \in [Pids -> Views]
      /\ DOMAIN w.tracees \subseteq Pids /\ DOMAIN w.own = DOMAIN w.tracees
  BY ContextParts
<1>2. c \in Pids /\ w.tracees[c] \in Tracees
  BY <1>1, MapFacts
<1>3. b = w \/ b = x
  BY DEF NewChildProcess, ChildDetached
<1>4. f \in Frames /\ f.k = w.th[c]
  BY <1>1, <1>2 DEF Frames
<1> HIDE DEF f
<1>5. Stays(f, d)
  BY <1>4, DetachTraceeStays
<1> HIDE DEF d
<1>6. d.t \in Tracees /\ d.k \in Thread /\ d.v \in Views /\ Keeps(w.th[c], d.k)
  BY <1>4, <1>5, StaysParts DEF Stays, Serves
<1>7. /\ tr \in Maps(Tracees) /\ DOMAIN tr = DOMAIN w.tracees
      /\ \A q \in DOMAIN w.tracees \ {c} : tr[q] = w.tracees[q]
  <2>1. tr \in Maps(Tracees)
    BY <1>1, <1>2, <1>6, MapFacts
  <2> QED BY <2>1 DEF With
<1>8. /\ ths \in [Pids -> Thread] /\ ths[c] = d.k /\ \A q \in Pids \ {c} : ths[q] = w.th[q]
      /\ vw \in [Pids -> Views] /\ \A q \in Pids \ {c} : vw[q] = w.view[q]
  BY <1>1, <1>2, <1>6
<1> HIDE DEF tr, ths, vw
<1>9. /\ x \in Contexts /\ x.tracees = tr /\ x.th = ths /\ x.view = vw /\ x.own = w.own
      /\ x.unknown = w.unknown /\ x.announced = w.announced /\ x.born = w.born /\ x.ex = w.ex
  <2>1. w \in Contexts
    BY DEF ContextInv
  <2> QED BY <1>7, <1>8, <2>1 DEF Contexts
<1> HIDE DEF x
<1>10. \A q \in Pids : Keeps(th[q], x.th[q])
  <2> TAKE q \in Pids
  <2>1. Keeps(th[q], w.th[q])
    BY DEF ContextInv
  <2>2. CASE q = c
    BY <1>6, <1>8, <1>9, <2>1, <2>2 DEF Keeps
  <2>3. CASE q # c
    BY <1>8, <1>9, <2>1, <2>3
  <2> QED BY <2>2, <2>3
<1>11. c \in Known(w.announced)
  BY DEF ContextInv
<1>12. \A q \in Pids \ Known(x.announced) : /\ x.th[q].run # "run" /\ x.th[q].at # "EV_EXEC"
                                            /\ ~x.view[q].attached /\ ~x.view[q].early
  BY <1>8, <1>9, <1>11 DEF ContextInv
<1>13. ContextInv(x)
  BY <1>1, <1>7, <1>9, <1>10, <1>12 DEF ContextInv
<1> QED
  BY <1>3, <1>7, <1>8, <1>9, <1>13

\* checkUnknownEvents() handles the stored event of the new tracee, which is there.
LEMMA CheckUnknownEventsInv ==
  ASSUME NEW w, ContextInv(w), TypeInv, w.born \in Pids => w.born \in DOMAIN w.tracees,
         NEW x \in CheckUnknownEvents(w)
  PROVE  ContextInv(x)
<1>1. CASE w.ex # "none" \/ w.born \notin DOMAIN w.unknown
  BY <1>1 DEF CheckUnknownEvents
<1>2. CASE ~(w.ex # "none" \/ w.born \notin DOMAIN w.unknown)
  <2> DEFINE b == w.born
             e == w.unknown[b]
  <2>1. PICK y \in UNION {TraceeProcessEvent(w, b, in) : in \in Inputs(e)} :
               x = [y EXCEPT !.unknown = Without(y.unknown, w.born)]
    BY <1>2 DEF CheckUnknownEvents
  <2>2. PICK in \in Inputs(e) : y \in TraceeProcessEvent(w, b, in)
    BY <2>1
  <2>3. w.unknown \in Maps(EventStops) /\ b \in DOMAIN w.unknown
    BY <1>2, ContextParts
  <2>4. e \in EventStops /\ b \in Pids
    BY <2>3, MapFacts
  <2>5. in \in InputRecords /\ b \in DOMAIN w.tracees
    <3>1. killing \in BOOLEAN /\ e \in Statuses \cup {"none"}
      BY <2>4 DEF TypeInv, Statuses, PtraceStops
    <3> QED BY <2>2, <2>4, <3>1, InputsType
  <2>6. ContextInv(y)
    BY <2>2, <2>5, TraceeProcessEventInv
  <2> DEFINE u == Without(y.unknown, b)
  <2>7. u \in Maps(EventStops)
    BY <2>6, ContextParts, MapFacts
  <2>8. x = [y EXCEPT !.unknown = u]
    BY <2>1
  <2> HIDE DEF u, b, e
  <2>9. /\ x \in Contexts /\ x.th = y.th /\ x.tracees = y.tracees /\ x.own = y.own
        /\ x.view = y.view /\ x.announced = y.announced
    <3>1. y \in Contexts
      BY <2>6 DEF ContextInv
    <3> QED BY <2>7, <2>8, <3>1 DEF Contexts
  <2> QED BY <2>6, <2>9 DEF ContextInv
<1> QED
  BY <1>1, <1>2

\* What handleEvent() does: the new child first, then the event, then what is stored.
LEMMA HandleKnownParts ==
  ASSUME NEW w, NEW p, NEW x \in HandleKnown(w, p)
  PROVE  \E in \in Inputs(th[p].at) :
             \E b \in IF in.ev = "EV_CHILD" /\ ~HandlerCutShort(w.tracees[p], in) /\ w.tracees[p].cur # "none"
                      THEN NewChildProcess(AutoAttach(w, msg[p]), msg[p]) ELSE {w} :
                 \E y \in TraceeProcessEvent(b, p, in) : x \in CheckUnknownEvents(y)
BY DEF HandleKnown

\* handleEvent() of the Engine for a Tracee that is known, the new child's included.
LEMMA HandleKnownInv ==
  ASSUME Inv, NEW w, ContextInv(w), w.born = NoPid, NEW p \in DOMAIN w.tracees, NEW x \in HandleKnown(w, p)
  PROVE  ContextInv(x)
<1> DEFINE born(in) == /\ in.ev = "EV_CHILD" /\ ~HandlerCutShort(w.tracees[p], in)
                       /\ w.tracees[p].cur # "none"
           before(in) == IF born(in) THEN NewChildProcess(AutoAttach(w, msg[p]), msg[p]) ELSE {w}
<1>1. TypeInv /\ p \in Pids /\ msg[p] \in Pids /\ NoPid \notin Pids
  BY ContextParts, PidsAssumption DEF Inv, TypeInv
<1>2. PICK in \in Inputs(th[p].at) :
           \E b \in before(in) : \E y \in TraceeProcessEvent(b, p, in) : x \in CheckUnknownEvents(y)
  BY HandleKnownParts
<1>3. PICK b \in before(in) : \E y \in TraceeProcessEvent(b, p, in) : x \in CheckUnknownEvents(y)
  BY <1>2
<1>4. PICK y \in TraceeProcessEvent(b, p, in) : x \in CheckUnknownEvents(y)
  BY <1>3
<1>5. in \in InputRecords /\ in.ev = th[p].at
  <2>1. killing \in BOOLEAN /\ th[p].at \in Statuses \cup {"none"}
    BY <1>1 DEF TypeInv, Thread
  <2>2. in.ev = th[p].at
    BY <1>2 DEF Inputs
  <2> QED BY <1>2, <2>1, <2>2, InputsType
<1>6. CASE born(in)
  <2> DEFINE a == AutoAttach(w, msg[p])
  <2>1. b \in NewChildProcess(a, msg[p]) /\ in.ev = "EV_CHILD"
    BY <1>3, <1>6
  <2>2. ContextInv(a) /\ a.born = msg[p] /\ DOMAIN a.tracees = DOMAIN w.tracees \cup {msg[p]}
    BY <1>1, AutoAttachInv
  <2>3. msg[p] # p
    BY <1>1, <1>5, <2>1 DEF Inv, ThreadsInv
  <2> HIDE DEF a, born, before
  <2>4. ContextInv(b) /\ b.born = msg[p] /\ DOMAIN b.tracees = DOMAIN w.tracees \cup {msg[p]}
    BY <2>1, <2>2, NewChildProcessInv
  <2>5. /\ ContextInv(y) /\ y.born = b.born
        /\ DOMAIN b.tracees \ {p} \subseteq DOMAIN y.tracees
    BY <1>1, <1>4, <1>5, <2>1, <2>4, TraceeProcessEventInv
  <2>6. y.born \in DOMAIN y.tracees
    BY <2>4, <2>3, <2>5
  <2> QED BY <1>1, <1>4, <2>5, <2>6, CheckUnknownEventsInv
<1>7. CASE ~born(in)
  <2>1. b = w
    BY <1>3, <1>7
  <2> HIDE DEF born, before
  <2>2. ContextInv(y) /\ y.born = NoPid
    BY <1>1, <1>4, <1>5, <2>1, TraceeProcessEventInv
  <2> QED BY <1>1, <1>4, <2>2, CheckUnknownEventsInv
<1> QED
  BY <1>6, <1>7

\* tryUpdateTraceePID() files the Tracee under a PID that is known, too.
LEMMA TryUpdateTraceePIDInv ==
  ASSUME NEW w, ContextInv(w), NEW old \in DOMAIN w.tracees, NEW new \in Pids, new \in Known(w.announced)
  PROVE  LET x == TryUpdateTraceePID(w, old, new)
         IN  ContextInv(x) /\ x.born = w.born /\ new \in DOMAIN x.tracees
<1> DEFINE tr == With(Without(w.tracees, old), new, w.tracees[old])
           ow == With(Without(w.own, old), new, w.own[old])
           vw == [[w.view EXCEPT ![new] = w.view[old]] EXCEPT ![old] = NewView]
           x == [w EXCEPT !.tracees = tr, !.own = ow, !.view = vw]
<1>1. TryUpdateTraceePID(w, old, new) = x
  BY DEF TryUpdateTraceePID
<1>2. /\ w.tracees \in Maps(Tracees) /\ w.own \in Maps(Pids) /\ w.view \in [Pids -> Views]
      /\ DOMAIN w.own = DOMAIN w.tracees /\ old \in Pids
  BY ContextParts
<1>3. w.tracees[old] \in Tracees /\ w.own[old] \in Pids
  BY <1>2, MapFacts
<1>4. Without(w.tracees, old) \in Maps(Tracees) /\ Without(w.own, old) \in Maps(Pids)
  BY <1>2, MapFacts
<1>5. tr \in Maps(Tracees) /\ ow \in Maps(Pids)
  BY <1>3, <1>4, MapFacts
<1>6. DOMAIN tr = (DOMAIN w.tracees \ {old}) \cup {new} /\ DOMAIN ow = (DOMAIN w.own \ {old}) \cup {new}
  BY DEF With, Without, Restrict
<1>7. \A q \in DOMAIN ow : ow[q] \in {w.own[old], w.own[q]} /\ (q # new => ow[q] = w.own[q])
  BY DEF With, Without, Restrict
<1>8. vw \in [Pids -> Views] /\ \A q \in Pids \ Known(w.announced) : vw[q] = w.view[q]
  <2>1. NewView \in Views
    BY DEF NewView, Views, MaybeCall
  <2>2. old \in Known(w.announced)
    BY DEF ContextInv
  <2> QED BY <1>2, <2>1, <2>2
<1>9. w.own[old] \in Known(w.announced)
  BY DEF ContextInv
<1>10. ow[new] = w.own[old]
  BY DEF With
<1> HIDE DEF tr, ow, vw
<1>11. /\ x \in Contexts /\ x.tracees = tr /\ x.own = ow /\ x.view = vw /\ x.th = w.th
       /\ x.announced = w.announced /\ x.born = w.born
  <2>1. w \in Contexts
    BY DEF ContextInv
  <2> QED BY <1>5, <1>8, <2>1 DEF Contexts
<1> HIDE DEF x
<1>12. \A q \in DOMAIN x.tracees : q \in Known(w.announced) /\ x.own[q] \in Known(w.announced)
  <2> TAKE q \in DOMAIN x.tracees
  <2>1. CASE q = new
    BY <1>9, <1>10, <1>11, <2>1
  <2>2. CASE q # new
    <3>1. q \in DOMAIN w.tracees /\ q \in DOMAIN ow
      BY <1>2, <1>6, <1>11, <2>2
    <3> QED BY <1>7, <1>11, <2>2, <3>1 DEF ContextInv
  <2> QED BY <2>1, <2>2
<1>13. ContextInv(x)
  BY <1>2, <1>6, <1>8, <1>11, <1>12 DEF ContextInv
<1> QED
  BY <1>1, <1>6, <1>11, <1>13

\* The execve() of a thread whose PID is not in m_tracees, which SIGKILL may forestall.
LEMMA HandleUnknownExecInv ==
  ASSUME Inv, NEW w, ContextInv(w), w.born = NoPid, NEW p \in Pids, th[p].at = "EV_EXEC",
         NEW x \in HandleUnknownExec(w, p)
  PROVE  ContextInv(x)
<1> DEFINE T == KillGroup(w.th, p)
           k == [w EXCEPT !.th = T, !.ex = "ESRCH"]
           u == TryUpdateTraceePID(w, msg[p], p)
<1>1. p \in Known(w.announced)
  <2>1. p \in Known(announced)
    BY DEF Inv, UnheardInv
  <2>2. announced \subseteq w.announced
    BY DEF ContextInv
  <2> QED BY <2>1, <2>2 DEF Known
<1>2. \/ x = k
      \/ msg[p] \in DOMAIN w.tracees /\ x \in HandleKnown(u, p)
      \/ x = w
  BY DEF HandleUnknownExec
<1>3. ContextInv(k)
  <2>1. w \in Contexts /\ w.th \in [Pids -> Thread]
    BY ContextParts DEF ContextInv
  <2>2. /\ T \in [Pids -> Thread] /\ \A q \in Pids : Keeps(w.th[q], T[q])
        /\ \A q \in Pids : T[q].run = "run" => w.th[q].run = "run"
    BY <2>1, GroupType
  <2> HIDE DEF T
  <2>3. /\ k \in Contexts /\ k.th = T /\ k.tracees = w.tracees /\ k.own = w.own /\ k.view = w.view
        /\ k.announced = w.announced
    BY <2>1, <2>2 DEF Contexts
  <2> HIDE DEF k
  <2>4. \A q \in Pids : Keeps(th[q], k.th[q])
    <3>1. \A q \in Pids : Keeps(th[q], w.th[q])
      BY DEF ContextInv
    <3> QED BY <2>2, <2>3, <3>1 DEF Keeps
  <2>5. \A q \in Pids \ Known(k.announced) : /\ k.th[q].run # "run" /\ k.th[q].at # "EV_EXEC"
                                             /\ ~k.view[q].attached /\ ~k.view[q].early
    <3> TAKE q \in Pids \ Known(k.announced)
    <3>1. w.th[q].run # "run" /\ w.th[q].at # "EV_EXEC" /\ ~w.view[q].attached /\ ~w.view[q].early
      BY <2>3 DEF ContextInv
    <3>2. Keeps(w.th[q], T[q]) /\ (T[q].run = "run" => w.th[q].run = "run")
      BY <2>2
    <3>3. T[q].at # "EV_EXEC"
      BY <3>1, <3>2 DEF Keeps
    <3> QED BY <2>3, <3>1, <3>2, <3>3
  <2> QED BY <2>3, <2>4, <2>5 DEF ContextInv
<1>4. ASSUME msg[p] \in DOMAIN w.tracees, x \in HandleKnown(u, p) PROVE ContextInv(x)
  <2>1. ContextInv(u) /\ u.born = NoPid /\ p \in DOMAIN u.tracees
    BY <1>1, <1>4, TryUpdateTraceePIDInv
  <2> HIDE DEF u
  <2> QED BY <1>4, <2>1, HandleKnownInv
<1> QED
  BY <1>2, <1>3, <1>4

\* handleEvent() of the Engine, also for an unknown PID.
LEMMA HandledInv ==
  ASSUME Inv, NEW w, ContextInv(w), w.born = NoPid, DOMAIN w.tracees = DOMAIN tracees, NEW p \in Pids,
         NEW x \in Handled(w, p)
  PROVE  ContextInv(x)
<1> DEFINE un == IF p \in DOMAIN w.unknown THEN w.unknown ELSE With(w.unknown, p, th[p].at)
           s == [w EXCEPT !.unknown = un]
<1>1. CASE p \in DOMAIN tracees
  BY <1>1, HandleKnownInv DEF Handled
<1>2. CASE p \notin DOMAIN tracees
  <2>1. \/ th[p].at = "EV_EXEC" /\ x \in HandleUnknownExec(w, p)
        \/ th[p].at \in {"EV_STOP_SIG", "EV_STOP_TRAP"} /\ x = s
        \/ x = w
    BY <1>2 DEF Handled, CheckUnknownTraceeEvent
  <2>2. ASSUME th[p].at \in {"EV_STOP_SIG", "EV_STOP_TRAP"} PROVE ContextInv(s)
    <3>1. un \in Maps(EventStops)
      BY <2>2, ContextParts, MapFacts DEF EventStops
    <3> HIDE DEF un
    <3>2. /\ s \in Contexts /\ s.th = w.th /\ s.tracees = w.tracees /\ s.own = w.own
          /\ s.view = w.view /\ s.announced = w.announced
      <4>1. w \in Contexts
        BY DEF ContextInv
      <4> QED BY <3>1, <4>1 DEF Contexts
    <3> HIDE DEF s
    <3> QED BY <3>2 DEF ContextInv
  <2> QED BY <2>1, <2>2, HandleUnknownExecInv
<1> QED
  BY <1>1, <1>2

(* The steps. *)

\* What the Engine works on when wait() has returned the status of the thread.
LEMMA CollectedContext ==
  ASSUME Inv, NEW p \in Pids
  PROVE  LET w == [Context EXCEPT !.th[p] = Collect(@)]
         IN  /\ ContextInv(w) /\ w.th = [th EXCEPT ![p] = Collect(th[p])]
             /\ w.tracees = tracees /\ w.own = own /\ w.unknown = unknown /\ w.view = view
             /\ w.announced = announced /\ w.born = NoPid /\ w.ex = "none"
<1> DEFINE T == [th EXCEPT ![p] = Collect(th[p])]
           w0 == [Context EXCEPT !.th[p] = Collect(@)]
           c0 == [th |-> T, tracees |-> tracees, own |-> own, unknown |-> unknown,
                  view |-> view, announced |-> announced, born |-> NoPid, ex |-> "none"]
<1>1. TypeInv
  BY DEF Inv
<1>2. T \in [Pids -> Thread] /\ \A q \in Pids : Keeps(th[q], T[q]) /\ (T[q].run = "run" => th[q].run = "run")
  <2>1. \A q \in Pids : th[q] \in Thread /\ Keeps(th[q], th[q])
    BY <1>1 DEF TypeInv, Keeps
  <2> DEFINE k == Collect(th[p])
  <2>2. k \in Thread
    BY <2>1, CollectType
  <2>3. (k.run = "gone" /\ k.at = "none") \/ (k.run = th[p].run /\ k.at = th[p].at)
    BY <2>1 DEF Collect, Thread
  <2>4. Keeps(th[p], k) /\ (k.run = "run" => th[p].run = "run")
    <3> HIDE DEF k
    <3> QED BY <2>2, <2>3 DEF Keeps
  <2> HIDE DEF k
  <2>5. T = [th EXCEPT ![p] = k]
    BY DEF k
  <2> HIDE DEF T
  <2> QED BY <1>1, <2>1, <2>2, <2>4, <2>5 DEF TypeInv
<1>3. w0 = c0
  BY DEF Context
<1> HIDE DEF T, w0
<1>4. ContextInv(c0)
  <2>1. c0 \in Contexts
    BY <1>1, <1>2 DEF TypeInv, Contexts
  <2>2. \A q \in Pids \ Known(announced) : T[q].run # "run" /\ T[q].at # "EV_EXEC"
    BY <1>2 DEF Inv, UnheardInv, Keeps
  <2> QED BY <1>1, <1>2, <2>1, <2>2 DEF ContextInv, Inv, TypeInv, PidsInv, UnheardInv
<1> QED
  BY <1>3, <1>4 DEF T, w0

\* wait() has returned the status of the thread.
LEMMA EngineHandleEventInv ==
  ASSUME Inv, NEW p \in Pids, EngineHandleEvent(p) PROVE Inv'
<1> DEFINE c0 == [Context EXCEPT !.th[p] = Collect(@)]
<1>1. TypeInv
  BY DEF Inv
<1>2. ContextInv(c0) /\ c0.born = NoPid /\ DOMAIN c0.tracees = DOMAIN tracees
  BY CollectedContext
<1>3. PICK w \in Handled(c0, p) :
        /\ th' = w.th /\ tracees' = w.tracees /\ own' = w.own
        /\ unknown' = w.unknown /\ view' = w.view /\ announced' = w.announced
        /\ over' = IF w.ex = "none" THEN "no" ELSE "exception"
        /\ UNCHANGED threadVars
  BY DEF EngineHandleEvent
<1> HIDE DEF c0
<1>4. ContextInv(w)
  BY <1>2, <1>3, HandledInv
<1>5. /\ leader' = leader /\ msg' = msg /\ execing' = execing /\ killing' = killing
      /\ over' \in {"no", "returned", "exception", "iterator"}
  BY <1>3 DEF threadVars
<1>6. TypeInv'
  <2>1. /\ w.th \in [Pids -> Thread] /\ w.tracees \in Maps(Tracees) /\ w.own \in Maps(Pids)
        /\ w.unknown \in Maps(EventStops) /\ w.view \in [Pids -> Views] /\ w.announced \in SUBSET Pids
        /\ DOMAIN w.own = DOMAIN w.tracees
    BY <1>4, ContextParts
  <2> QED BY <1>1, <1>3, <1>5, <2>1 DEF TypeInv, Maps
<1>7. \A q \in Pids : Keeps(th[q], th'[q])
  BY <1>3, <1>4 DEF ContextInv
<1>8. LeadInv' /\ ThreadsInv'
  BY <1>5, <1>7 DEF Inv, LeadInv, ThreadsInv, Keeps
<1>9. announced \subseteq announced'
  BY <1>3, <1>4 DEF ContextInv
<1>10. PidsInv'
  <2>1. \A q \in DOMAIN tracees' : q \in Known(announced') /\ own'[q] \in Known(announced')
    BY <1>3, <1>4 DEF ContextInv
  <2>2. \A q \in Pids : leader'[q] \in Known(announced') \cup {q, NoPid}
    BY <1>5, <1>9 DEF Inv, PidsInv, Known
  <2> QED BY <2>1, <2>2 DEF PidsInv, Known
<1>11. UnheardInv'
  BY <1>3, <1>4 DEF ContextInv, UnheardInv, Known
<1> QED
  BY <1>6, <1>8, <1>10, <1>11 DEF Inv

\* Steps in which threads end or go on by themselves, without a new one.
Moves(a, b) == Keeps(a, b) /\ (b.run = "run" => a.run = "run")

\* A step that only lets threads end or go on keeps the invariant, as long as
\* the engine and the leaders stay and killing only grows.
LEMMA ThreadsInvStep ==
  ASSUME Inv, th' \in [Pids -> Thread], \A q \in Pids : Moves(th[q], th'[q]),
         leader' = leader, msg' = msg, killing' = killing, execing' \subseteq Pids, UNCHANGED engineVars
  PROVE  Inv'
<1>1. /\ tracees' = tracees /\ own' = own /\ unknown' = unknown /\ view' = view
      /\ announced' = announced /\ over' = over
  BY DEF engineVars
<1>2. TypeInv'
  BY <1>1 DEF Inv, TypeInv, Maps
<1>3. LeadInv' /\ ThreadsInv'
  BY DEF Inv, LeadInv, ThreadsInv, Moves, Keeps
<1>4. PidsInv'
  BY <1>1 DEF Inv, PidsInv, Known
<1>5. UnheardInv'
  BY <1>1 DEF Inv, UnheardInv, Known, Moves, Keeps
<1> QED
  BY <1>2, <1>3, <1>4, <1>5 DEF Inv

\* A single thread makes such a step.
LEMMA ThreadStepInv ==
  ASSUME Inv, NEW p \in Pids, NEW k \in Thread, Moves(th[p], k), ThreadStep(p, k) PROVE Inv'
<1>1. th' = [th EXCEPT ![p] = k] /\ UNCHANGED threadVars /\ UNCHANGED engineVars
  BY DEF ThreadStep
<1>2. th \in [Pids -> Thread] /\ execing \subseteq Pids
  BY DEF Inv, TypeInv
<1>3. \A q \in Pids : Moves(th[q], th[q])
  BY <1>2 DEF Moves, Keeps
<1>4. th' \in [Pids -> Thread] /\ \A q \in Pids : Moves(th[q], th'[q])
  BY <1>1, <1>2, <1>3
<1> QED
  BY <1>1, <1>2, <1>4, ThreadsInvStep DEF threadVars

\* What a thread does of itself is such a step.
LEMMA OwnMoves ==
  ASSUME NEW k \in Thread, NEW c \in Calls
  PROVE  /\ CanEnterCall(k) => Moves(k, EnterCall(k, c))
         /\ CanLeaveCall(k) => Moves(k, LeaveCall(k))
         /\ CanTrap(k) => Moves(k, TakeTrap(k))
         /\ k.run = "dying" => Moves(k, ExitStop(k)) /\ Moves(k, Die(k, FALSE)) /\ Moves(k, [k EXCEPT !.run = "gone"])
         /\ CanExit(k) => Moves(k, Exit(k))
<1>1. ASSUME NEW x \in Thread, k.run # "gone", x.at \notin {"EV_CHILD", "EV_EXEC"} \/ x.at = k.at,
             x.run = "run" => k.run = "run" /\ x.at \in {"none", k.at}
      PROVE  Moves(k, x)
  BY <1>1 DEF Moves, Keeps
<1>2. ASSUME CanEnterCall(k) PROVE Moves(k, EnterCall(k, c))
  <2> DEFINE x == EnterCall(k, c)
  <2>1. x \in Thread /\ k.run = "run"
    BY <1>2, EnterCallType DEF CanEnterCall
  <2>2. (x.run = "stop" /\ x.at = "SYS_ENTRY") \/ (x.run = k.run /\ x.at = k.at)
    BY DEF EnterCall, StopAt, Thread
  <2> HIDE DEF x
  <2> QED BY <1>1, <2>1, <2>2 DEF x
<1>3. ASSUME CanLeaveCall(k) PROVE Moves(k, LeaveCall(k))
  <2> DEFINE x == LeaveCall(k)
  <2>1. x \in Thread /\ k.run = "run"
    BY <1>3, LeaveCallType DEF CanLeaveCall
  <2>2. \/ x.run = "stop" /\ x.at \in {"SYS_EXIT", "EV_STOP_SIG", "EV_STOP_TRAP"}
        \/ x.run = "run" /\ x.at = "none"
    BY DEF LeaveCall, Leave, TakeTrap, StopAt, Thread
  <2> HIDE DEF x
  <2> QED BY <1>1, <2>1, <2>2 DEF x
<1>4. ASSUME CanTrap(k) PROVE Moves(k, TakeTrap(k))
  <2> DEFINE x == TakeTrap(k)
  <2>1. x \in Thread /\ k.run = "run"
    BY <1>4, TakeTrapType DEF CanTrap
  <2>2. x.run = "stop" /\ x.at \in {"EV_STOP_SIG", "EV_STOP_TRAP"}
    BY DEF TakeTrap, StopAt, Thread
  <2> HIDE DEF x
  <2> QED BY <1>1, <2>1, <2>2 DEF x
<1>5. ASSUME k.run = "dying"
      PROVE  Moves(k, ExitStop(k)) /\ Moves(k, Die(k, FALSE)) /\ Moves(k, [k EXCEPT !.run = "gone"])
  <2> DEFINE x == ExitStop(k)
             y == Die(k, FALSE)
             z == [k EXCEPT !.run = "gone"]
  <2>1. x \in Thread /\ y \in Thread /\ z \in Thread
    BY EndType DEF Thread
  <2>2. x.run = "stop" /\ x.at = "EV_EXIT"
    BY DEF ExitStop, StopAt, Thread
  <2>3. y.run = "zombie" /\ y.at = "ENDED"
    BY DEF Die, Thread
  <2>4. z.run = "gone" /\ z.at = k.at
    BY DEF Thread
  <2> HIDE DEF x, y, z
  <2> QED BY <1>1, <1>5, <2>1, <2>2, <2>3, <2>4 DEF x, y, z
<1>6. ASSUME CanExit(k) PROVE Moves(k, Exit(k))
  <2> DEFINE x == Exit(k)
  <2>1. x \in Thread /\ k.run = "run"
    BY <1>6, EndType DEF CanExit
  <2>2. x.run = "dying" /\ x.at = k.at
    BY DEF Exit, Thread
  <2> HIDE DEF x
  <2> QED BY <1>1, <2>1, <2>2 DEF x
<1> QED
  BY <1>2, <1>3, <1>4, <1>5, <1>6

\* The steps of one thread, of a process that ends and of the beginning of an execve().
LEMMA ThreadStepsInv ==
  ASSUME Inv, NEW p \in Pids,
         \/ EnterSyscall(p) \/ LeaveSyscall(p) \/ InterruptStop(p) \/ ThreadEnds(p)
         \/ CallExit(p) \/ ExecBegins(p) \/ KillProcess(p)
  PROVE  Inv'
<1>1. th \in [Pids -> Thread] /\ th[p] \in Thread /\ execing \subseteq Pids
  BY DEF Inv, TypeInv
<1>2. \A q \in Pids : Moves(th[q], th[q])
  BY <1>1 DEF Moves, Keeps
<1>3. CASE EnterSyscall(p)
  <2>1. PICK c \in ThreadCalls : ThreadStep(p, EnterCall(th[p], c))
    BY <1>3 DEF EnterSyscall
  <2>2. c \in Calls
    BY InputAssumption
  <2>3. EnterCall(th[p], c) \in Thread /\ Moves(th[p], EnterCall(th[p], c))
    BY <1>1, <1>3, <2>2, EnterCallType, OwnMoves DEF EnterSyscall
  <2> QED BY <2>1, <2>3, ThreadStepInv
<1>4. "read" \in Calls
  BY DEF Calls
<1>5. CASE LeaveSyscall(p)
  <2>1. LeaveCall(th[p]) \in Thread /\ Moves(th[p], LeaveCall(th[p]))
    BY <1>1, <1>4, <1>5, LeaveCallType, OwnMoves DEF LeaveSyscall
  <2> QED BY <1>5, <2>1, ThreadStepInv DEF LeaveSyscall
<1>6. CASE InterruptStop(p)
  <2>1. TakeTrap(th[p]) \in Thread /\ Moves(th[p], TakeTrap(th[p]))
    BY <1>1, <1>4, <1>6, TakeTrapType, OwnMoves DEF InterruptStop
  <2> QED BY <1>6, <2>1, ThreadStepInv DEF InterruptStop
<1>7. CASE ThreadEnds(p)
  <2>1. th[p].run = "dying"
    BY <1>7 DEF ThreadEnds, ReportExit, ThreadDies
  <2>2. /\ Moves(th[p], ExitStop(th[p])) /\ Moves(th[p], Die(th[p], FALSE))
        /\ Moves(th[p], [th[p] EXCEPT !.run = "gone"])
    BY <1>1, <1>4, <2>1, OwnMoves
  <2>3. ExitStop(th[p]) \in Thread /\ Die(th[p], FALSE) \in Thread /\ [th[p] EXCEPT !.run = "gone"] \in Thread
    BY <2>2 DEF Moves, Keeps
  <2>4. \/ ThreadStep(p, ExitStop(th[p])) \/ ThreadStep(p, Die(th[p], FALSE))
        \/ ThreadStep(p, [th[p] EXCEPT !.run = "gone"])
    BY <1>7 DEF ThreadEnds, ReportExit, ThreadDies
  <2> QED BY <2>2, <2>3, <2>4, ThreadStepInv
<1> DEFINE A == KillGroup(th, p)
           B == Zap(th, p)
<1>8. /\ A \in [Pids -> Thread] /\ B \in [Pids -> Thread]
      /\ \A q \in Pids : Moves(th[q], A[q]) /\ Moves(th[q], B[q])
  BY <1>1, GroupType DEF Moves
<1>9. CASE CallExit(p)
  <2> DEFINE k == Exit(B[p])
  <2>1. B[p] = th[p]
    BY DEF Zap
  <2>2. th' = [B EXCEPT ![p] = k] /\ UNCHANGED threadVars /\ UNCHANGED engineVars
    BY <1>9 DEF CallExit
  <2>3. k \in Thread /\ Moves(th[p], k)
    BY <1>1, <1>4, <1>9, <2>1, EndType, OwnMoves DEF CallExit
  <2> HIDE DEF B, k
  <2>4. th' \in [Pids -> Thread] /\ \A q \in Pids : Moves(th[q], th'[q])
    BY <1>8, <2>2, <2>3
  <2> QED BY <1>1, <2>2, <2>4, ThreadsInvStep DEF threadVars
<1>10. CASE ExecBegins(p)
  <2>1. /\ th' = B /\ leader' = leader /\ msg' = msg /\ killing' = killing /\ UNCHANGED engineVars
        /\ execing' = execing \cup {p}
    BY <1>10 DEF ExecBegins
  <2> HIDE DEF B
  <2> QED BY <1>1, <1>8, <2>1, ThreadsInvStep
<1>11. CASE KillProcess(p)
  <2>1. th' = A /\ UNCHANGED threadVars /\ UNCHANGED engineVars
    BY <1>11 DEF KillProcess
  <2> HIDE DEF A
  <2> QED BY <1>1, <1>8, <2>1, ThreadsInvStep DEF threadVars
<1> QED
  BY <1>3, <1>5, <1>6, <1>7, <1>9, <1>10, <1>11

\* A new thread or process is not announced yet, and stops before it does anything.
LEMMA CloneInv == ASSUME Inv, NEW p \in Pids, NEW c \in Pids, Clone(p, c) PROVE Inv'
<1> DEFINE k == [StopAt(th[p], "EV_CHILD") EXCEPT !.nr = "read"]
           n == TakeTrap([NewThread EXCEPT !.traced = TRUE])
<1>1. PICK g \in {leader[p], c} : leader' = [leader EXCEPT ![c] = g]
  BY DEF Clone
<1>2. /\ th' = [th EXCEPT ![p] = k, ![c] = n] /\ msg' = [msg EXCEPT ![p] = c]
      /\ execing' = execing /\ killing' = killing /\ UNCHANGED engineVars
      /\ th[p].run = "run" /\ leader[c] = NoPid
  BY DEF Clone, CanReport
<1>3. /\ th \in [Pids -> Thread] /\ leader \in [Pids -> Pids \cup {NoPid}] /\ msg \in [Pids -> Pids]
      /\ TypeInv /\ LeadInv /\ ThreadsInv /\ PidsInv /\ UnheardInv /\ NoPid \notin Pids
  BY PidsAssumption DEF Inv, TypeInv
<1>4. leader[p] # NoPid /\ c # p /\ leader[leader[p]] = leader[p] /\ leader[p] \in Pids
  BY <1>2, <1>3 DEF LeadInv
<1>5. k \in Thread /\ k.run = "stop" /\ k.at = "EV_CHILD"
  <2> DEFINE s == StopAt(th[p], "EV_CHILD")
  <2>1. s \in Thread /\ s.run = "stop" /\ s.at = "EV_CHILD"
    <3>1. s \in Thread
      BY <1>3, StopAtType DEF Statuses, PtraceStops, EventStops
    <3>2. s.run = "stop" /\ s.at = "EV_CHILD"
      BY <1>3 DEF StopAt, Thread
    <3> QED BY <3>1, <3>2
  <2> HIDE DEF s
  <2>2. [s EXCEPT !.nr = "read"] \in Thread /\ [s EXCEPT !.nr = "read"].run = s.run
        /\ [s EXCEPT !.nr = "read"].at = s.at
    BY <2>1 DEF Thread, Calls
  <2> QED BY <2>1, <2>2 DEF s
<1>6. n \in Thread /\ n.run = "stop" /\ n.at \in {"EV_STOP_SIG", "EV_STOP_TRAP"}
  <2> DEFINE s == [NewThread EXCEPT !.traced = TRUE]
  <2>1. s \in Thread
    BY DEF NewThread, Thread, Calls
  <2> HIDE DEF s
  <2>2. TakeTrap(s) \in Thread /\ TakeTrap(s).run = "stop" /\ TakeTrap(s).at \in {"EV_STOP_SIG", "EV_STOP_TRAP"}
    <3>1. TakeTrap(s) \in Thread
      BY <2>1, TakeTrapType
    <3>2. TakeTrap(s).run = "stop" /\ TakeTrap(s).at \in {"EV_STOP_SIG", "EV_STOP_TRAP"}
      BY <2>1 DEF TakeTrap, StopAt, Thread
    <3> QED BY <3>1, <3>2
  <2> QED BY <2>2 DEF s
<1> HIDE DEF k, n
<1>7. /\ th' \in [Pids -> Thread] /\ th'[p] = k /\ th'[c] = n
      /\ \A q \in Pids \ {p, c} : th'[q] = th[q]
  BY <1>2, <1>3, <1>4, <1>5, <1>6
<1>8. /\ leader' \in [Pids -> Pids \cup {NoPid}] /\ leader'[c] = g /\ g \in Pids
      /\ \A q \in Pids \ {c} : leader'[q] = leader[q]
  BY <1>1, <1>3, <1>4
<1>9. /\ tracees' = tracees /\ own' = own /\ unknown' = unknown /\ view' = view
      /\ announced' = announced /\ over' = over
  BY <1>2 DEF engineVars
<1>10. TypeInv'
  BY <1>2, <1>3, <1>7, <1>8, <1>9 DEF TypeInv, Maps
<1>11. LeadInv'
  <2>1. \A q \in Pids : leader'[q] = NoPid => th'[q].run = "gone"
    BY <1>2, <1>3, <1>4, <1>7, <1>8 DEF LeadInv
  <2>2. ASSUME NEW q \in Pids, leader'[q] # NoPid PROVE leader'[leader'[q]] = leader'[q]
    <3>1. CASE q = c /\ g = c
      BY <1>8, <3>1
    <3>2. CASE q = c /\ g # c
      BY <1>1, <1>4, <1>8, <3>2
    <3>3. CASE q # c
      <4>1. leader'[q] = leader[q] /\ leader[leader[q]] = leader[q] /\ leader[q] \in Pids
        BY <1>3, <1>8, <2>2, <3>3 DEF LeadInv
      <4>2. leader[q] # c
        BY <1>2, <1>3, <4>1
      <4> QED BY <1>8, <4>1, <4>2
    <3> QED BY <3>1, <3>2, <3>3
  <2> QED BY <2>1, <2>2 DEF LeadInv
<1>12. ThreadsInv'
  <2>1. msg' \in [Pids -> Pids] /\ msg'[p] = c /\ \A q \in Pids \ {p} : msg'[q] = msg[q]
    BY <1>2, <1>3
  <2> QED BY <1>3, <1>4, <1>5, <1>6, <1>7, <2>1 DEF ThreadsInv
<1>13. p \in Known(announced)
  BY <1>2, <1>3 DEF UnheardInv
<1>14. PidsInv'
  <2>1. leader[p] \in Known(announced)
    BY <1>3, <1>4, <1>13 DEF PidsInv
  <2>2. \A q \in Pids : leader'[q] \in Known(announced) \cup {q, NoPid}
    BY <1>1, <1>3, <1>8, <2>1 DEF PidsInv
  <2> QED BY <1>3, <1>9, <2>2 DEF PidsInv, Known
<1>15. UnheardInv'
  BY <1>3, <1>5, <1>6, <1>7, <1>9, <1>13 DEF UnheardInv, Known
<1> QED
  BY <1>10, <1>11, <1>12, <1>14, <1>15 DEF Inv

\* A thread that runs is known, and then so is its process, whose PID it takes over.
LEMMA ExecDoneInv == ASSUME Inv, NEW p \in Pids, ExecDone(p) PROVE Inv'
<1> DEFINE m == leader[p]
           new == [IF th[p].traced THEN StopAt(th[p], "EV_EXEC") ELSE th[p] EXCEPT !.nr = "read"]
<1>1. /\ th[p].run = "run"
      /\ \A q \in Group(p) \ {p} : IF q = m THEN Ended(q) ELSE th[q].run = "gone"
      /\ execing' = execing \ {p} /\ killing' = killing /\ UNCHANGED engineVars
      /\ th' = [[th EXCEPT ![p] = NewThread] EXCEPT ![m] = new]
      /\ leader' = [q \in Pids |-> IF leader[q] = m /\ q # m THEN NoPid ELSE leader[q]]
      /\ msg' = [msg EXCEPT ![m] = p]
  BY DEF ExecDone
<1>2. /\ th \in [Pids -> Thread] /\ leader \in [Pids -> Pids \cup {NoPid}] /\ msg \in [Pids -> Pids]
      /\ TypeInv /\ LeadInv /\ ThreadsInv /\ PidsInv /\ UnheardInv /\ NoPid \notin Pids
  BY PidsAssumption DEF Inv, TypeInv
<1>3. m # NoPid /\ m \in Pids /\ leader[m] = m /\ th[p].at = "none"
  BY <1>1, <1>2 DEF LeadInv, ThreadsInv
<1>4. m \in Known(announced) /\ p \in Known(announced)
  <2>1. p \in Known(announced)
    BY <1>1, <1>2 DEF UnheardInv
  <2> QED BY <1>2, <1>3, <2>1 DEF PidsInv
<1>5. new \in Thread /\ (new.run = "run" => new.at = "none") /\ new.at # "EV_CHILD"
  <2> DEFINE s == IF th[p].traced THEN StopAt(th[p], "EV_EXEC") ELSE th[p]
  <2>1. s \in Thread
    BY <1>2, StopAtType DEF Statuses, PtraceStops, EventStops
  <2>2. (s.run = "stop" /\ s.at = "EV_EXEC") \/ (s.run = "run" /\ s.at = "none")
    BY <1>1, <1>2, <1>3 DEF StopAt, Thread
  <2> HIDE DEF s
  <2>3. LET x == [s EXCEPT !.nr = "read"] IN x \in Thread /\ x.run = s.run /\ x.at = s.at
    BY <2>1 DEF Thread, Calls
  <2>4. new = [s EXCEPT !.nr = "read"]
    BY DEF s
  <2> HIDE DEF new
  <2> QED BY <2>2, <2>3, <2>4
<1>6. NewThread \in Thread /\ NewThread.run = "gone" /\ NewThread.at = "none"
  BY DEF NewThread, Thread, Calls
<1> HIDE DEF new
<1>7. /\ th' \in [Pids -> Thread] /\ th'[m] = new
      /\ \A q \in Pids \ {m} : th'[q] = IF q = p THEN NewThread ELSE th[q]
  <2> HIDE DEF m
  <2> QED BY <1>1, <1>2, <1>3, <1>5, <1>6
<1>8. /\ leader' \in [Pids -> Pids \cup {NoPid}] /\ leader'[m] = m
      /\ \A q \in Pids : leader'[q] \in {leader[q], NoPid}
      /\ \A q \in Pids : leader'[q] = NoPid => leader[q] = NoPid \/ (leader[q] = m /\ q # m)
      /\ \A q \in Pids : leader[q] = m /\ q # m => leader'[q] = NoPid
  BY <1>1, <1>2, <1>3
<1>9. msg' \in [Pids -> Pids] /\ \A q \in Pids \ {m} : msg'[q] = msg[q]
  <2> HIDE DEF m
  <2> QED BY <1>1, <1>2, <1>3
<1>10. \A q \in Pids \ {m, p} : leader[q] = m => th[q].run = "gone"
  BY <1>1, <1>3 DEF Group
<1>11. /\ tracees' = tracees /\ own' = own /\ unknown' = unknown /\ view' = view
       /\ announced' = announced /\ over' = over
  BY <1>1 DEF engineVars
<1> HIDE DEF m
<1>12. TypeInv'
  BY <1>1, <1>2, <1>7, <1>8, <1>9, <1>11 DEF TypeInv, Maps
<1>13. LeadInv'
  <2>1. ASSUME NEW q \in Pids, leader'[q] = NoPid PROVE th'[q].run = "gone"
    <3>1. q # m
      BY <1>3, <1>8, <2>1
    <3>2. CASE q = p
      BY <1>6, <1>7, <3>1, <3>2
    <3>3. CASE q # p
      BY <1>2, <1>7, <1>8, <1>10, <2>1, <3>1, <3>3 DEF LeadInv
    <3> QED BY <3>2, <3>3
  <2>2. ASSUME NEW q \in Pids, leader'[q] # NoPid PROVE leader'[leader'[q]] = leader'[q]
    <3>1. leader'[q] = leader[q] /\ leader[q] \in Pids /\ leader[leader[q]] = leader[q]
      BY <1>2, <1>8, <2>2 DEF LeadInv
    <3>2. leader'[leader[q]] = leader[q]
      BY <1>8, <2>2, <3>1
    <3> QED BY <3>1, <3>2
  <2> QED BY <2>1, <2>2 DEF LeadInv
<1>14. ThreadsInv'
  BY <1>2, <1>5, <1>6, <1>7, <1>9 DEF ThreadsInv
<1>15. PidsInv'
  BY <1>2, <1>8, <1>11 DEF PidsInv, Known
<1>16. UnheardInv'
  BY <1>2, <1>4, <1>7, <1>11 DEF UnheardInv, Known
<1> QED
  BY <1>12, <1>13, <1>14, <1>15, <1>16 DEF Inv

\* What detach() makes of a Tracee, outside of its callbacks.
LEMMA DetachedFrame ==
  ASSUME Inv, NEW p \in DOMAIN tracees
  PROVE  LET d == DetachTracee([t |-> tracees[p], k |-> th[own[p]], v |-> view[p], ex |-> "none"])
         IN  /\ d.t \in Tracees /\ d.k \in Thread /\ d.v \in Views
             /\ Keeps(th[own[p]], d.k) /\ own[p] \in Pids
             /\ p \in Pids /\ p \in Known(announced) /\ own[p] \in Known(announced)
<1> DEFINE f == [t |-> tracees[p], k |-> th[own[p]], v |-> view[p], ex |-> "none"]
<1>1. /\ tracees \in Maps(Tracees) /\ own \in Maps(Pids) /\ DOMAIN own = DOMAIN tracees
      /\ th \in [Pids -> Thread] /\ view \in [Pids -> Views]
  BY DEF Inv, TypeInv
<1>2. p \in Pids /\ tracees[p] \in Tracees /\ own[p] \in Pids
  BY <1>1, MapFacts
<1>3. f \in Frames /\ f.k = th[own[p]]
  BY <1>1, <1>2 DEF Frames
<1> HIDE DEF f
<1>4. Stays(f, DetachTracee(f)) /\ DetachTracee(f) \in Frames
  BY <1>3, DetachTraceeStays DEF Stays
<1> DEFINE d == DetachTracee(f)
<1> HIDE DEF d
<1>5. d.t \in Tracees /\ d.k \in Thread /\ d.v \in Views /\ Keeps(th[own[p]], d.k)
  BY <1>3, <1>4, StaysParts DEF Stays, Serves, d
<1>6. p \in Known(announced) /\ own[p] \in Known(announced)
  BY DEF Inv, PidsInv
<1> QED
  BY <1>2, <1>5, <1>6 DEF d, f

\* The steps of the Engine and the consumer between two events: they change known
\* threads only, and what the consumer knows of known PIDs.
LEMMA BetweenEventsInv ==
  ASSUME Inv, th' \in [Pids -> Thread], \A q \in Pids : Keeps(th[q], th'[q]),
         \A q \in Pids \ Known(announced) : th'[q] = th[q] /\ view'[q] = view[q],
         tracees' \in Maps(Tracees), own' \in Maps(Pids), DOMAIN own' = DOMAIN tracees',
         DOMAIN tracees' \subseteq DOMAIN tracees, \A q \in DOMAIN tracees' : own'[q] = own[q],
         view' \in [Pids -> Views], UNCHANGED threadVars, unknown' = unknown, announced' = announced,
         over' \in {"no", "returned", "exception", "iterator"}
  PROVE  Inv'
<1>1. leader' = leader /\ msg' = msg /\ execing' = execing /\ killing' = killing
  BY DEF threadVars
<1>2. TypeInv'
  BY <1>1 DEF Inv, TypeInv, Maps
<1>3. LeadInv' /\ ThreadsInv'
  BY <1>1 DEF Inv, LeadInv, ThreadsInv, Keeps
<1>4. PidsInv'
  BY <1>1 DEF Inv, PidsInv, Known
<1>5. UnheardInv'
  BY DEF Inv, UnheardInv, Known
<1> QED
  BY <1>2, <1>3, <1>4, <1>5 DEF Inv

\* detach() by the consumer, stop(), and the two ways in which trace() ends.
LEMMA CallsInv ==
  ASSUME Inv, HandleNoChildren \/ Stop \/ TraceReturns \/ \E p \in Pids : ConsumerDetach(p) PROVE Inv'
<1> DEFINE done(p) == DetachTracee([t |-> tracees[p], k |-> th[own[p]], v |-> view[p], ex |-> "none"])
<1>1. /\ tracees \in Maps(Tracees) /\ own \in Maps(Pids) /\ DOMAIN own = DOMAIN tracees
      /\ th \in [Pids -> Thread] /\ view \in [Pids -> Views] /\ TypeInv
  BY DEF Inv, TypeInv
<1>2. DOMAIN tracees \subseteq Pids /\ \A q \in DOMAIN tracees : tracees[q] \in Tracees
  BY <1>1, MapFacts
<1>3. \A p \in DOMAIN tracees :
        /\ done(p).t \in Tracees /\ done(p).k \in Thread /\ done(p).v \in Views
        /\ Keeps(th[own[p]], done(p).k) /\ own[p] \in Pids
        /\ p \in Pids /\ p \in Known(announced) /\ own[p] \in Known(announced)
  BY DetachedFrame
<1>4. \A q \in Pids : Keeps(th[q], th[q])
  BY <1>1 DEF Keeps
<1>5. CASE HandleNoChildren
  <2> DEFINE left == {p \in DOMAIN tracees : ~Removed(done(p).t)}
  <2>1. /\ UNCHANGED <<th, threadVars, unknown, view, announced>>
        /\ \/ tracees' = [p \in left |-> done(p).t] /\ own' = Restrict(own, left) /\ over' = "returned"
           \/ over' = "iterator" /\ tracees' = tracees /\ own' = own
    BY <1>5 DEF HandleNoChildren
  <2>2. left \in SUBSET Pids /\ left \subseteq DOMAIN tracees
    BY <1>2
  <2> HIDE DEF left, done
  <2>3. CASE tracees' = [p \in left |-> done(p).t] /\ own' = Restrict(own, left) /\ over' = "returned"
    <3>1. tracees' \in [left -> Tracees]
      BY <1>3, <2>2, <2>3
    <3>2. tracees' \in Maps(Tracees)
      BY <2>2, <3>1 DEF Maps
    <3>3. own' \in Maps(Pids)
      BY <1>1, <2>2, <2>3, MapFacts
    <3>4. DOMAIN tracees' = left /\ DOMAIN own' = left /\ \A q \in left : own'[q] = own[q]
      BY <2>3 DEF Restrict
    <3> QED BY <1>1, <1>4, <2>1, <2>2, <2>3, <3>2, <3>3, <3>4, BetweenEventsInv
  <2>4. CASE over' = "iterator" /\ tracees' = tracees /\ own' = own
    BY <1>1, <1>4, <2>1, <2>4, BetweenEventsInv
  <2> QED BY <2>1, <2>3, <2>4
<1>6. CASE Stop
  <2> DEFINE d == [p \in DOMAIN tracees |-> done(p)]
             left == {p \in DOMAIN tracees : d[p].t.valid}
             at(q) == CHOOSE p \in DOMAIN tracees : own[p] = q
             k(q) == IF \E p \in DOMAIN tracees : own[p] = q THEN d[at(q)].k ELSE th[q]
  <2>1. /\ tracees' = [p \in left |-> d[p].t] /\ own' = Restrict(own, left)
        /\ th' = [q \in Pids |-> k(q)]
        /\ view' = [q \in Pids |-> IF q \in DOMAIN tracees THEN d[q].v ELSE view[q]]
        /\ UNCHANGED <<threadVars, unknown, announced, over>>
    BY <1>6 DEF Stop
  <2>2. left \in SUBSET Pids /\ left \subseteq DOMAIN tracees
    BY <1>2
  <2>3. \A p \in DOMAIN tracees : d[p] = done(p)
    OBVIOUS
  <2> HIDE DEF d, left, done
  <2>4. \A q \in Pids : /\ k(q) \in Thread /\ Keeps(th[q], k(q))
                        /\ q \notin Known(announced) => k(q) = th[q]
    <3> TAKE q \in Pids
    <3>1. CASE \E p \in DOMAIN tracees : own[p] = q
      <4>1. at(q) \in DOMAIN tracees /\ own[at(q)] = q
        BY <3>1
      <4> HIDE DEF at
      <4> QED BY <1>3, <2>3, <3>1, <4>1
    <3>2. CASE ~ \E p \in DOMAIN tracees : own[p] = q
      BY <1>1, <1>4, <3>2
    <3> QED BY <3>1, <3>2
  <2> HIDE DEF k
  <2>5. /\ th' \in [Pids -> Thread] /\ \A q \in Pids : Keeps(th[q], th'[q])
        /\ \A q \in Pids \ Known(announced) : th'[q] = th[q]
    BY <2>1, <2>4
  <2>6. view' \in [Pids -> Views] /\ \A q \in Pids \ Known(announced) : view'[q] = view[q]
    BY <1>1, <1>3, <2>1, <2>3
  <2>7. tracees' \in [left -> Tracees]
    BY <1>3, <2>1, <2>2, <2>3
  <2>8. tracees' \in Maps(Tracees)
    BY <2>2, <2>7 DEF Maps
  <2>9. own' \in Maps(Pids)
    BY <1>1, <2>1, <2>2, MapFacts
  <2>10. DOMAIN tracees' = left /\ DOMAIN own' = left /\ \A q \in left : own'[q] = own[q]
    BY <2>1 DEF Restrict
  <2>11. over' \in {"no", "returned", "exception", "iterator"}
    BY <1>1, <2>1 DEF TypeInv
  <2> QED BY <2>1, <2>2, <2>5, <2>6, <2>8, <2>9, <2>10, <2>11, BetweenEventsInv
<1>7. CASE TraceReturns
  <2>1. UNCHANGED <<th, threadVars, tracees, own, unknown, view, announced>> /\ over' = "returned"
    BY <1>7 DEF TraceReturns
  <2> QED BY <1>1, <1>4, <2>1, BetweenEventsInv
<1>8. ASSUME NEW p \in Pids, ConsumerDetach(p) PROVE Inv'
  <2> DEFINE d == done(p)
  <2>1. /\ p \in DOMAIN tracees
        /\ tracees' = [tracees EXCEPT ![p] = d.t]
        /\ th' = [th EXCEPT ![own[p]] = d.k]
        /\ view' = [view EXCEPT ![p] = d.v]
        /\ UNCHANGED <<threadVars, own, unknown, announced, over>>
    BY <1>8 DEF ConsumerDetach
  <2>2. /\ d.t \in Tracees /\ d.k \in Thread /\ d.v \in Views /\ Keeps(th[own[p]], d.k)
        /\ own[p] \in Pids /\ p \in Known(announced) /\ own[p] \in Known(announced)
    BY <1>3, <2>1
  <2> HIDE DEF d, done
  <2>3. /\ th' \in [Pids -> Thread] /\ \A q \in Pids : Keeps(th[q], th'[q])
        /\ \A q \in Pids \ Known(announced) : th'[q] = th[q]
    BY <1>1, <1>4, <2>1, <2>2
  <2>4. view' \in [Pids -> Views] /\ \A q \in Pids \ Known(announced) : view'[q] = view[q]
    BY <1>1, <2>1, <2>2
  <2>5. tracees \in [DOMAIN tracees -> Tracees]
    BY <1>1, <1>2, MapFacts
  <2>6. tracees' \in [DOMAIN tracees -> Tracees]
    BY <2>1, <2>2, <2>5
  <2>7. tracees' \in Maps(Tracees) /\ DOMAIN tracees' = DOMAIN tracees
    BY <1>2, <2>6 DEF Maps
  <2>8. own' \in Maps(Pids) /\ DOMAIN own' = DOMAIN tracees' /\ own' = own
        /\ over' \in {"no", "returned", "exception", "iterator"}
    BY <1>1, <2>1, <2>7 DEF TypeInv
  <2> QED BY <2>1, <2>3, <2>4, <2>7, <2>8, BetweenEventsInv
<1> QED
  BY <1>5, <1>6, <1>7, <1>8

\* In the beginning only the threads of the traced process exist.
LEMMA InitInv == ASSUME Init PROVE Inv
<1>1. PICK traced \in TracedSets : InitTracing(traced) /\ killing = (traced \in KilledSets)
  BY DEF Init
<1> DEFINE run == [NewThread EXCEPT !.run = "run", !.traced = TRUE, !.sysgood = TRUE]
           all == {Main} \cup Others
           t0 == [NewTracee(FALSE) EXCEPT !.state = "RUNNING", !.prev = "EVENT_STOP", !.mode = "SYSCALL"]
<1>2. /\ leader = [p \in Pids |-> IF p \in all THEN Main ELSE NoPid]
      /\ msg = [p \in Pids |-> p] /\ execing = {} /\ unknown = [p \in {} |-> "none"]
      /\ announced = {} /\ over = "no"
  BY DEF Init
<1>3. traced \subseteq all /\ all \subseteq Pids /\ Main \in Pids /\ NoPid \notin Pids
  BY PidsAssumption
<1>4. /\ th = [p \in Pids |-> IF p \in all
                              THEN [NewThread EXCEPT !.run = "run", !.traced = p \in traced,
                                                     !.sysgood = p \in traced]
                              ELSE NewThread]
      /\ tracees = [p \in traced |-> t0] /\ own = [p \in traced |-> p]
      /\ view = [p \in Pids |-> [NewView EXCEPT !.attached = p \in traced]]
  BY <1>1 DEF InitTracing
<1>5. ASSUME NEW p \in Pids
      PROVE  LET x == [NewThread EXCEPT !.run = "run", !.traced = p \in traced, !.sysgood = p \in traced]
             IN  x \in Thread /\ x.run = "run" /\ x.at = "none"
  <2>1. (p \in traced) \in BOOLEAN
    OBVIOUS
  <2> DEFINE b == p \in traced
  <2>2. b \in BOOLEAN
    BY <2>1
  <2> HIDE DEF b
  <2>3. LET x == [NewThread EXCEPT !.run = "run", !.traced = b, !.sysgood = b]
        IN  x \in Thread /\ x.run = "run" /\ x.at = "none"
    BY <2>2 DEF NewThread, Thread, Calls
  <2> QED BY <2>3 DEF b
<1>6. NewThread \in Thread /\ NewThread.run = "gone" /\ NewThread.at = "none"
  BY DEF NewThread, Thread, Calls
<1>7. t0 \in Tracees
  BY DEF NewTracee, Tracees, States, RestartModes, MaybeCall
<1>8. ASSUME NEW p \in Pids
      PROVE  LET v == [NewView EXCEPT !.attached = p \in traced]
             IN  v \in Views /\ v.attached = (p \in traced) /\ ~v.early
  <2> DEFINE b == p \in traced
  <2>1. b \in BOOLEAN
    OBVIOUS
  <2> HIDE DEF b
  <2>2. NewView \in Views /\ NewView.early = FALSE
    BY DEF NewView, Views, MaybeCall
  <2>3. LET v == [NewView EXCEPT !.attached = b] IN v \in Views /\ v.attached = b /\ v.early = FALSE
    BY <2>1, <2>2 DEF Views
  <2> QED BY <2>3 DEF b
<1> HIDE DEF t0, all
<1>9. /\ th \in [Pids -> Thread]
      /\ \A p \in Pids : th[p].at = "none" /\ (p \notin all => th[p].run = "gone")
  <2>1. \A p \in Pids : /\ th[p] \in Thread /\ th[p].at = "none"
                        /\ p \notin all => th[p].run = "gone"
    BY <1>4, <1>5, <1>6
  <2>2. th = [p \in Pids |-> th[p]]
    BY <1>4
  <2> QED BY <2>1, <2>2
<1>10. view \in [Pids -> Views] /\ \A p \in Pids : view[p].attached = (p \in traced) /\ ~view[p].early
  <2>1. \A p \in Pids : /\ view[p] \in Views /\ view[p].attached = (p \in traced) /\ ~view[p].early
    BY <1>4, <1>8
  <2>2. view = [p \in Pids |-> view[p]]
    BY <1>4
  <2> QED BY <2>1, <2>2
<1>11. tracees \in Maps(Tracees) /\ own \in Maps(Pids) /\ DOMAIN own = DOMAIN tracees /\ unknown \in Maps(EventStops)
  <2>1. traced \in SUBSET Pids /\ {} \in SUBSET Pids
    BY <1>3
  <2>2. tracees \in [traced -> Tracees] /\ own \in [traced -> Pids]
    BY <1>4, <1>7, <2>1
  <2>3. unknown \in [{} -> EventStops]
    BY <1>2
  <2> QED BY <1>4, <2>1, <2>2, <2>3 DEF Maps
<1>12. TypeInv
  BY <1>1, <1>2, <1>3, <1>9, <1>10, <1>11 DEF TypeInv
<1>13. LeadInv
  BY <1>2, <1>3, <1>9 DEF LeadInv, all
<1>14. ThreadsInv
  BY <1>9 DEF ThreadsInv
<1>15. Known(announced) = all
  BY <1>2 DEF Known, all
<1>16. PidsInv
  BY <1>2, <1>3, <1>4, <1>15 DEF PidsInv, all
<1>17. UnheardInv
  BY <1>3, <1>9, <1>10, <1>15 DEF UnheardInv
<1> QED
  BY <1>12, <1>13, <1>14, <1>16, <1>17 DEF Inv

(* The theorems. *)

\* Every step of the specification keeps the invariant.
THEOREM Invariance == Spec => []Inv
<1>1. Init => Inv
  BY InitInv
<1>2. Inv /\ [Next]_vars => Inv'
  <2> SUFFICES ASSUME Inv, [Next]_vars PROVE Inv'
    OBVIOUS
  <2>1. CASE UNCHANGED vars
    BY <2>1 DEF vars, threadVars, engineVars, Inv, TypeInv, LeadInv, ThreadsInv, PidsInv, UnheardInv, Known, Maps
  <2>2. CASE \E p \in Pids : ThreadNext(p)
    BY <2>2, ThreadStepsInv, CloneInv, ExecDoneInv DEF ThreadNext
  <2>3. CASE \E p \in Pids : KillProcess(p)
    BY <2>3, ThreadStepsInv
  <2>4. CASE \E p \in Pids : EngineHandleEvent(p)
    BY <2>4, EngineHandleEventInv
  <2>5. CASE HandleNoChildren \/ Stop \/ TraceReturns \/ \E p \in Pids : ConsumerDetach(p)
    BY <2>5, CallsInv
  <2> QED
    BY <2>1, <2>2, <2>3, <2>4, <2>5 DEF Next
<1> QED
  BY <1>1, <1>2, PTL DEF Spec

\* The Engine's maps and the threads keep to their types, for every number of threads,
\* whatever order wait() reports them in, and wherever SIGKILL and detach() strike.
THEOREM TypeCorrect == Spec => []TypeOK
<1>1. Inv => TypeOK
  <2> SUFFICES ASSUME Inv PROVE TypeOK
    OBVIOUS
  <2>1. TypeInv
    BY DEF Inv
  <2>2. DOMAIN tracees \subseteq Pids /\ \A p \in DOMAIN tracees : tracees[p] \in Tracees
    BY <2>1, MapFacts DEF TypeInv
  <2>3. \A p \in DOMAIN own : own[p] \in Pids
    BY <2>1, MapFacts DEF TypeInv
  <2>4. DOMAIN unknown \subseteq Pids /\ \A p \in DOMAIN unknown : unknown[p] \in EventStops
    BY <2>1, MapFacts DEF TypeInv
  <2> QED BY <2>1, <2>2, <2>3, <2>4 DEF TypeInv, TypeOK
<1> QED
  BY <1>1, Invariance, PTL

\* Nothing is told of a thread or process before newChildProcess() has announced it,
\* although wait() may report its first stop before its parent's CLONE event, and
\* although execve() moves a Tracee to another PID.
THEOREM HeardOfFirst == Spec => []AnnouncedFirst
<1>1. Inv => AnnouncedFirst
  BY DEF Inv, UnheardInv, AnnouncedFirst, Known
<1> QED
  BY <1>1, Invariance, PTL
=============================================================================
