--------------------------- MODULE EngineExecProofs --------------------------
(***************************************************************************)
(* What execve() in a process with any number of threads leaves: a single  *)
(* Tracee, under the PID of the main thread.  The threads are those the    *)
(* process has in the beginning, any of them traced; each of them may call *)
(* execve(), and SIGKILL may strike between wait() and any request that    *)
(* follows.                                                                *)
(***************************************************************************)
EXTENDS EngineProofs

(* What the handling of an event leaves of a thread. *)

\* The thread is on its way out, or has ended.
Down(k) == k.run \in {"dying", "zombie", "gone"}

\* Nothing but its end is to come.
Doomed(k) == Down(k) \/ (k.run = "stop" /\ k.at = "EV_EXIT")

\* wait() has an execve() to tell of.
Announces(k) == k.at = "EV_EXEC" /\ k.status

\* b is what may have become of the thread a while its event was handled, unless the
\* consumer let go of it: what is doomed stays so, what ends by a signal does, and none
\* does unless SIGKILL was sent.
Tends(in, a, b) ==
    /\ b.nr = a.nr
    /\ b.run = "gone" => a.run = "gone"
    /\ (a.run = "zombie" => a.at = "ENDED") => (b.run = "zombie" => b.at = "ENDED")
    /\ b.at = "EV_EXEC" => a.at = "EV_EXEC" /\ b.run = a.run
    /\ Doomed(a) => Doomed(b)
    /\ a.fatal => b.fatal
    /\ b.fatal => a.fatal \/ in.kill # "no"

\* What the consumer and the environment do meanwhile, if there is no detach().
QuietInputs == {in \in InputRecords : ~in.detach /\ ~in.deadly}

\* Up to the restart, the handler of an event changes nothing of the thread but that
\* SIGKILL may strike, and it does not plan to detach.
Goes(in, f, g) ==
    /\ g \in Frames
    /\ g.k = f.k \/ (in.kill # "no" /\ g.k = Kill(f.k))
    /\ "DETACH_AT_NEXT_STOP" \in g.t.flags => "DETACH_AT_NEXT_STOP" \in f.t.flags

\* SIGKILL leaves nothing that lives, and there is nothing it could do twice.
LEMMA KillFacts ==
  ASSUME NEW k \in Thread
  PROVE  LET b == Kill(k)
         IN  /\ b \in Thread /\ Down(b) /\ Kill(b) = b
             /\ b.nr = k.nr /\ b.traced = k.traced
             /\ b.run = "gone" => k.run = "gone"
             /\ (k.run = "zombie" => k.at = "ENDED") => (b.run = "zombie" => b.at = "ENDED")
             /\ b.at \in {"EV_EXEC", "EV_CHILD"} => b = k
             /\ k.fatal => b.fatal
             /\ k.run = "stop" /\ k.at = "EV_EXEC" => b.fatal
<1> DEFINE z == [k EXCEPT !.run = "zombie", !.at = "ENDED", !.status = TRUE]
           d == [k EXCEPT !.run = "dying", !.at = "none", !.status = FALSE, !.fatal = TRUE]
<1>1. /\ z.run = "zombie" /\ z.at = "ENDED" /\ z.nr = k.nr /\ z.traced = k.traced /\ z.fatal = k.fatal
      /\ d.run = "dying" /\ d.at = "none" /\ d.nr = k.nr /\ d.traced = k.traced /\ d.fatal = TRUE
  BY DEF Thread
<1>2. Kill(k) = IF k.run = "stop" /\ k.at = "EV_EXIT" THEN z ELSE IF k.run \in {"run", "stop", "listen"} THEN d ELSE k
  BY DEF Kill
<1>3. k.run \in {"run", "stop", "listen", "dying", "zombie", "gone"}
  BY DEF Thread
<1> HIDE DEF z, d
<1>4. Kill(z) = z /\ Kill(d) = d /\ (k.run \notin {"run", "stop", "listen"} => Kill(k) = k)
  BY <1>1 DEF Kill
<1>5. Kill(k) \in Thread
  BY KillType
<1> QED
  BY <1>1, <1>2, <1>3, <1>4, <1>5 DEF Down

\* One step after another.
LEMMA GoesTrans ==
  ASSUME NEW in, NEW f \in Frames, NEW g, NEW h, Goes(in, f, g), Goes(in, g, h) PROVE Goes(in, f, h)
<1>1. f.k \in Thread
  BY StaysParts
<1> QED
  BY <1>1, KillFacts DEF Goes

\* Object and view are replaced.
LEMMA GoesParts ==
  ASSUME NEW in, NEW f \in Frames
  PROVE  /\ f.t \in Tracees /\ f.k \in Thread /\ f.v \in Views /\ Goes(in, f, f)
         /\ \A x \in Tracees : ("DETACH_AT_NEXT_STOP" \in x.flags => "DETACH_AT_NEXT_STOP" \in f.t.flags)
                                  => Goes(in, f, [f EXCEPT !.t = x])
         /\ \A x \in Views : Goes(in, f, [f EXCEPT !.v = x])
<1>1. f.t \in Tracees /\ f.k \in Thread /\ f.v \in Views
  BY StaysParts
<1>2. ASSUME NEW x \in Tracees PROVE LET g == [f EXCEPT !.t = x] IN g \in Frames /\ g.k = f.k /\ g.t = x
  BY DEF Frames
<1>3. ASSUME NEW x \in Views PROVE LET g == [f EXCEPT !.v = x] IN g \in Frames /\ g.k = f.k /\ g.t = f.t
  BY DEF Frames
<1> QED
  BY <1>1, <1>2, <1>3 DEF Goes

\* changeState(), SIGKILL, an exception.
LEMMA SmallGoes ==
  ASSUME NEW in, NEW f \in Frames
  PROVE  /\ \A s \in States : Goes(in, f, ToState(f, s))
         /\ \A point \in {"request", "decode", "late"} : Goes(in, f, KillAt(f, in, point))
         /\ \A e \in {"none", "ESRCH", "EIO", "mismatch", "null"} : Goes(in, f, Throw(f, e))
<1>1. f.k \in Thread /\ f.t \in Tracees
  BY GoesParts
<1>2. ASSUME NEW s \in States PROVE Goes(in, f, ToState(f, s))
  <2>1. /\ ToState(f, s) \in Frames /\ ToState(f, s).k = f.k
        /\ "DETACH_AT_NEXT_STOP" \in ToState(f, s).t.flags => "DETACH_AT_NEXT_STOP" \in f.t.flags
    <3>1. ToState(f, s).t.flags = ChangedFlags(f.t, s) /\ ToState(f, s) \in Frames /\ ToState(f, s).k = f.k
      BY ToStateFields
    <3>2. ChangedFlags(f.t, s) \subseteq f.t.flags \cup {"SYSCALL_ENTERED"}
      BY <1>1, Zenon DEF ChangedFlags
    <3> QED BY <3>1, <3>2
  <2> QED BY <2>1 DEF Goes
<1>3. ASSUME NEW point \in {"request", "decode", "late"} PROVE Goes(in, f, KillAt(f, in, point))
  <2> DEFINE g == [f EXCEPT !.k = Kill(f.k)]
  <2>1. g \in Frames /\ g.k = Kill(f.k) /\ g.t = f.t
    BY <1>1, KillType DEF Frames
  <2>2. KillAt(f, in, point) = IF in.kill = point THEN g ELSE f
    BY DEF KillAt
  <2> HIDE DEF g
  <2> QED BY <2>1, <2>2 DEF Goes
<1>4. ASSUME NEW e \in {"none", "ESRCH", "EIO", "mismatch", "null"} PROVE Goes(in, f, Throw(f, e))
  <2>1. Throw(f, e) \in Frames /\ Throw(f, e).k = f.k /\ Throw(f, e).t = f.t
    BY DEF Throw, Frames
  <2> QED BY <2>1 DEF Goes
<1> QED
  BY <1>2, <1>3, <1>4

\* A callback, if the consumer does not detach in it.
LEMMA NotifyGoes ==
  ASSUME NEW i, NEW f \in Frames, NEW in, ~in.detach, NEW cb, NEW call \in MaybeCall, NEW flag
  PROVE  LET g == Notify(f, in, cb, call, flag) IN Goes(i, f, g) /\ g.k = f.k /\ g.t = f.t
<1> DEFINE x == Told(f.v, cb, call, flag)
<1>1. f.v \in Views
  BY GoesParts
<1>2. x \in Views
  BY <1>1, ToldType
<1>3. Notify(f, in, cb, call, flag) = [f EXCEPT !.v = x]
  BY DEF Notify
<1> HIDE DEF x
<1>4. [f EXCEPT !.v = x].k = f.k /\ [f EXCEPT !.v = x].t = f.t
  BY DEF Frames
<1>5. Goes(i, f, [f EXCEPT !.v = x])
  BY <1>2, GoesParts
<1> QED
  BY <1>3, <1>4, <1>5

(* The handlers *)

\* The entry to a system call.
LEMMA HandleSystemCallEntryGoes ==
  ASSUME NEW f \in Frames, NEW in \in QuietInputs PROVE Goes(in, f, HandleSystemCallEntry(f, in))
<1> DEFINE t == f.t
           c == f.k.nr
           restart == c = "restart_syscall"
           known == t.intr # "none"
           recover == restart /\ ~known /\ t.fresh /\ in.recovered # "none"
           afterSig == ~restart /\ known /\ "SEEN_SIGRETURN" \in t.flags
           cur == IF restart /\ known THEN t.intr ELSE IF recover THEN in.recovered ELSE c
           flag == IF (restart /\ known) \/ (afterSig /\ t.intr = c) THEN "RESUMED"
                   ELSE IF recover THEN "RECOVERED" ELSE "none"
           intr == IF restart \/ afterSig THEN "none" ELSE t.intr
           flags == IF afterSig THEN t.flags \ {"SEEN_SIGRETURN"} ELSE t.flags
           x == [t EXCEPT !.cur = cur, !.intr = intr, !.flags = flags]
           g0 == [f EXCEPT !.t = x]
           g == KillAt(g0, in, "decode")
           y == [g.t EXCEPT !.fresh = FALSE]
           h == [g EXCEPT !.t = y]
<1>1. f.t \in Tracees /\ f.k \in Thread /\ in \in InputRecords /\ ~in.detach
  BY GoesParts DEF QuietInputs
<1>2. cur \in MaybeCall /\ intr \in MaybeCall /\ flags \in SUBSET Flags /\ flags \subseteq f.t.flags
  BY <1>1 DEF Tracees, Thread, InputRecords, MaybeCall, Calls, Flags
<1>3. HandleSystemCallEntry(f, in) =
        IF ~Reachable(g) THEN Throw(g, "ESRCH") ELSE Notify(h, in, "syscallEntry", cur, flag)
  <2> DEFINE r == [f EXCEPT !.t.cur = cur, !.t.intr = intr, !.t.flags = flags]
  <2>1. g0 = r
    <3> HIDE DEF cur, intr, flags
    <3> QED BY <1>1 DEF Frames, Tracees
  <2>2. HandleSystemCallEntry(f, in) =
          IF ~Reachable(KillAt(r, in, "decode")) THEN Throw(KillAt(r, in, "decode"), "ESRCH")
          ELSE Notify([KillAt(r, in, "decode") EXCEPT !.t.fresh = FALSE], in, "syscallEntry", cur, flag)
    BY Zenon DEF HandleSystemCallEntry
  <2> HIDE DEF r, g0, cur, flag
  <2> QED BY <2>1, <2>2
<1> HIDE DEF cur, intr, flags, flag
<1>4. x \in Tracees /\ x.flags = flags
  BY <1>1, <1>2 DEF Tracees
<1> HIDE DEF x
<1>5. Goes(in, f, g0)
  BY <1>2, <1>4, GoesParts
<1> HIDE DEF g0
<1>6. Goes(in, g0, g)
  BY <1>5, SmallGoes DEF Goes
<1> HIDE DEF g
<1>7. g \in Frames /\ y \in Tracees /\ y.flags = g.t.flags
  <2>1. g \in Frames /\ g.t \in Tracees
    BY <1>6, StaysParts DEF Goes
  <2> QED BY <2>1 DEF Tracees
<1> HIDE DEF y
<1>8. Goes(in, g, h) /\ Goes(in, g, Throw(g, "ESRCH"))
  BY <1>7, GoesParts, SmallGoes
<1> HIDE DEF h
<1>9. Goes(in, h, Notify(h, in, "syscallEntry", cur, flag))
  BY <1>1, <1>2, <1>8, NotifyGoes DEF Goes
<1>10. Goes(in, f, g) /\ g0 \in Frames /\ h \in Frames
  BY <1>5, <1>6, <1>8, GoesTrans DEF Goes
<1> QED
  BY <1>3, <1>7, <1>8, <1>9, <1>10, GoesTrans

\* The return from a system call.
LEMMA HandleSystemCallExitGoes ==
  ASSUME NEW f \in Frames, NEW in \in QuietInputs PROVE Goes(in, f, HandleSystemCallExit(f, in))
<1> DEFINE g == KillAt(f, in, "decode")
           c == g.t.cur
           interrupted == in.res = "ERESTART"
           y == [g.t EXCEPT !.intr = IF interrupted THEN c ELSE g.t.intr]
           h == [g EXCEPT !.t = y]
           flag == IF interrupted THEN "INTERRUPTED" ELSE "none"
           n == Notify(h, in, "syscallExit", c, flag)
           sigreturn == c = "sigreturn" /\ n.t.intr # "none"
           intr == IF sigreturn /\ in.res = "EINTR" THEN "none" ELSE n.t.intr
           flags == IF sigreturn /\ in.res # "EINTR" THEN n.t.flags \cup {"SEEN_SIGRETURN"} ELSE n.t.flags
           z == [n.t EXCEPT !.intr = intr, !.flags = flags, !.cur = "none"]
           m == [n EXCEPT !.t = z]
<1>1. Goes(in, f, g) /\ ~in.detach
  BY SmallGoes DEF QuietInputs
<1>2. HandleSystemCallExit(f, in) = IF ~Reachable(g) THEN Throw(g, "ESRCH")
        ELSE [n EXCEPT !.t.intr = intr, !.t.flags = flags, !.t.cur = "none"]
  BY DEF HandleSystemCallExit
<1> HIDE DEF g
<1>3. g \in Frames /\ g.t \in Tracees
  BY <1>1, StaysParts DEF Goes
<1>4. y \in Tracees /\ c \in MaybeCall /\ y.flags = g.t.flags
  BY <1>3 DEF Tracees
<1> HIDE DEF y
<1>5. Goes(in, g, h) /\ Goes(in, g, Throw(g, "ESRCH"))
  BY <1>3, <1>4, GoesParts, SmallGoes
<1> HIDE DEF h, c, flag
<1>6. Goes(in, h, n)
  BY <1>1, <1>4, <1>5, NotifyGoes DEF Goes
<1> HIDE DEF n
<1>7. n \in Frames /\ n.t \in Tracees
  BY <1>6, StaysParts DEF Goes
<1>8. intr \in MaybeCall /\ flags \in SUBSET Flags /\ flags \subseteq n.t.flags \cup {"SEEN_SIGRETURN"}
  BY <1>7 DEF Tracees, MaybeCall, Flags
<1> HIDE DEF intr, flags
<1>9. z \in Tracees /\ z.flags = flags
  BY <1>7, <1>8 DEF Tracees, MaybeCall
<1>10. m = [n EXCEPT !.t.intr = intr, !.t.flags = flags, !.t.cur = "none"]
  BY <1>7 DEF Frames, Tracees
<1> HIDE DEF z
<1>11. Goes(in, n, m)
  BY <1>7, <1>8, <1>9, GoesParts
<1> HIDE DEF m
<1>12. h \in Frames /\ Goes(in, g, n)
  BY <1>3, <1>5, <1>6, GoesTrans DEF Goes
<1> QED
  BY <1>1, <1>2, <1>3, <1>5, <1>7, <1>10, <1>11, <1>12, GoesTrans

\* A system call stop.
LEMMA HandleSystemCallGoes ==
  ASSUME NEW f \in Frames, NEW in \in QuietInputs PROVE Goes(in, f, HandleSystemCall(f, in))
<1> DEFINE g == KillAt(f, in, "request")
           a == ToState(g, "SYSCALL_EXIT_STOP")
           b == ToState(g, "SYSCALL_ENTER_STOP")
<1>1. HandleSystemCall(f, in) \in {Throw(g, "ESRCH"), Throw(g, "mismatch"),
                                   HandleSystemCallExit(a, in), HandleSystemCallEntry(b, in)}
  BY DEF HandleSystemCall
<1>2. Goes(in, f, g)
  BY SmallGoes
<1> HIDE DEF g
<1>3. Goes(in, g, a) /\ Goes(in, g, b) /\ Goes(in, g, Throw(g, "ESRCH")) /\ Goes(in, g, Throw(g, "mismatch"))
  BY <1>2, SmallGoes DEF Goes, States
<1> HIDE DEF a, b
<1>4. Goes(in, a, HandleSystemCallExit(a, in)) /\ Goes(in, b, HandleSystemCallEntry(b, in))
  BY <1>3, HandleSystemCallEntryGoes, HandleSystemCallExitGoes DEF Goes
<1>5. g \in Frames /\ a \in Frames /\ b \in Frames
  BY <1>2, <1>3 DEF Goes
<1> QED
  BY <1>1, <1>2, <1>3, <1>4, <1>5, GoesTrans

\* A signal-delivery-stop.
LEMMA HandleSignalGoes ==
  ASSUME NEW f \in Frames, NEW in \in QuietInputs PROVE Goes(in, f, HandleSignal(f, in))
<1> DEFINE s == ToState(f, "SIGNAL_DELIVERY_STOP")
           g == KillAt(s, in, "request")
           x == [g.t EXCEPT !.flags = g.t.flags \ {"INJECTED_SIGCONT"}]
           n == Notify(g, in, "signaled", "none", "none")
<1>1. Goes(in, f, s) /\ ~in.detach
  BY SmallGoes DEF States, QuietInputs
<1>2. HandleSignal(f, in) \in {Throw(g, "ESRCH"), [g EXCEPT !.t.flags = @ \ {"INJECTED_SIGCONT"}], n}
  BY DEF HandleSignal
<1> HIDE DEF s
<1>3. Goes(in, s, g)
  BY <1>1, SmallGoes DEF Goes
<1> HIDE DEF g
<1>4. g \in Frames /\ g.t \in Tracees
  BY <1>3, StaysParts DEF Goes
<1>5. x \in Tracees /\ "none" \in MaybeCall /\ x.flags \subseteq g.t.flags
  <2>1. g.t.flags \ {"INJECTED_SIGCONT"} \in SUBSET Flags
    BY <1>4 DEF Tracees
  <2> QED BY <1>4, <2>1 DEF Tracees, MaybeCall
<1>6. Goes(in, g, [g EXCEPT !.t = x]) /\ Goes(in, g, Throw(g, "ESRCH")) /\ Goes(in, g, n)
  BY <1>1, <1>4, <1>5, GoesParts, SmallGoes, NotifyGoes
<1>7. [g EXCEPT !.t = x] = [g EXCEPT !.t.flags = @ \ {"INJECTED_SIGCONT"}]
  OBVIOUS
<1> HIDE DEF n, x
<1>8. s \in Frames
  BY <1>1 DEF Goes
<1> QED
  BY <1>1, <1>2, <1>3, <1>4, <1>6, <1>7, <1>8, GoesTrans

\* The attach-stop.
LEMMA HandleAttachedGoes ==
  ASSUME NEW f \in Frames, NEW in \in QuietInputs PROVE Goes(in, f, HandleAttached(f, in))
<1> DEFINE flags == f.t.flags \ {"WAIT_FOR_ATTACH_STOP"}
           mode == IF "INJECTED_SIGSTOP" \in f.t.flags THEN f.t.mode ELSE "SYSCALL"
           x == [f.t EXCEPT !.flags = flags, !.mode = mode]
           m == [f EXCEPT !.t = x]
           g == KillAt(m, in, "request")
<1>1. f.t \in Tracees /\ ~in.detach
  BY GoesParts DEF QuietInputs
<1>2. m = [f EXCEPT !.t.flags = @ \ {"WAIT_FOR_ATTACH_STOP"},
                    !.t.mode = IF "INJECTED_SIGSTOP" \in f.t.flags THEN @ ELSE "SYSCALL"]
  BY <1>1 DEF Frames, Tracees
<1>3. flags \in SUBSET Flags /\ mode \in RestartModes /\ flags \subseteq f.t.flags
  BY <1>1 DEF Tracees, RestartModes
<1>4. HandleAttached(f, in) \in {Throw(g, "ESRCH"), Notify(g, in, "attached", "none", "none")}
  <2> HIDE DEF m
  <2> QED BY <1>2 DEF HandleAttached
<1> HIDE DEF flags, mode
<1>5. x \in Tracees /\ x.flags = flags
  BY <1>1, <1>3 DEF Tracees
<1> HIDE DEF x
<1>6. Goes(in, f, m)
  BY <1>3, <1>5, GoesParts
<1> HIDE DEF m
<1>7. Goes(in, m, g)
  BY <1>6, SmallGoes DEF Goes
<1> HIDE DEF g
<1>8. m \in Frames /\ g \in Frames
  BY <1>6, <1>7 DEF Goes
<1>9. Goes(in, g, Throw(g, "ESRCH")) /\ Goes(in, g, Notify(g, in, "attached", "none", "none"))
  BY <1>1, <1>8, SmallGoes, NotifyGoes DEF MaybeCall
<1> QED
  BY <1>4, <1>6, <1>7, <1>8, <1>9, GoesTrans

\* A PTRACE_EVENT_STOP.
LEMMA HandleStopEventGoes ==
  ASSUME NEW f \in Frames, NEW in \in QuietInputs PROVE Goes(in, f, HandleStopEvent(f, in))
<1> DEFINE s == ToState(f, "GROUP_STOP")
           x == [s.t EXCEPT !.stopSig = TRUE]
           g == [s EXCEPT !.t = x]
           y == [f.t EXCEPT !.mode = "SYSCALL"]
<1>1. HandleStopEvent(f, in) \in {HandleAttached(f, in), Notify(g, in, "stopped", "none", "none"),
                                  [f EXCEPT !.t = y]}
  BY DEF HandleStopEvent
<1>2. Goes(in, f, s) /\ ~in.detach
  BY SmallGoes DEF States, QuietInputs
<1> HIDE DEF s
<1>3. x \in Tracees /\ y \in Tracees /\ x.flags = s.t.flags /\ y.flags = f.t.flags /\ s \in Frames
  <2>1. s \in Frames /\ s.t \in Tracees /\ f.t \in Tracees
    BY <1>2, StaysParts DEF Goes
  <2> QED BY <2>1 DEF Tracees, RestartModes
<1> HIDE DEF x, y
<1>4. Goes(in, s, g) /\ Goes(in, f, [f EXCEPT !.t = y])
  BY <1>3, GoesParts
<1> HIDE DEF g
<1>5. g \in Frames
  BY <1>4 DEF Goes
<1>6. Goes(in, g, Notify(g, in, "stopped", "none", "none"))
  BY <1>2, <1>5, NotifyGoes DEF MaybeCall
<1>7. Goes(in, f, HandleAttached(f, in))
  BY HandleAttachedGoes
<1> QED
  BY <1>1, <1>2, <1>3, <1>4, <1>5, <1>6, <1>7, GoesTrans

\* The exit-stop.
LEMMA HandleExitEventGoes ==
  ASSUME NEW f \in Frames, NEW in \in QuietInputs PROVE Goes(in, f, HandleExitEvent(f, in))
<1> DEFINE g == KillAt(f, in, "request")
           lost == ~g.k.fatal /\ ~(g.t.prev = "SYSCALL_ENTER_STOP" /\ g.t.cur = "exit")
           flag == IF lost THEN "LOST_TO_MT_EXIT" ELSE "none"
           n == Notify(g, in, "exited", "none", flag)
           x == [n.t EXCEPT !.flags = n.t.flags \cup {"WAIT_FOR_EXITED"}]
<1>1. HandleExitEvent(f, in) \in {Throw(g, "ESRCH"), [n EXCEPT !.t = x]}
  BY DEF HandleExitEvent
<1>2. Goes(in, f, g) /\ ~in.detach
  BY SmallGoes DEF QuietInputs
<1> HIDE DEF g, flag
<1>3. g \in Frames
  BY <1>2 DEF Goes
<1>4. Goes(in, g, n) /\ Goes(in, g, Throw(g, "ESRCH"))
  BY <1>2, <1>3, SmallGoes, NotifyGoes DEF MaybeCall
<1> HIDE DEF n
<1>5. n \in Frames /\ n.t \in Tracees
  BY <1>4, StaysParts DEF Goes
<1>6. x \in Tracees /\ x.flags = n.t.flags \cup {"WAIT_FOR_EXITED"}
  <2>1. n.t.flags \cup {"WAIT_FOR_EXITED"} \in SUBSET Flags
    BY <1>5 DEF Tracees, Flags
  <2> QED BY <1>5, <2>1 DEF Tracees
<1> HIDE DEF x
<1>7. Goes(in, n, [n EXCEPT !.t = x])
  BY <1>5, <1>6, GoesParts
<1> QED
  BY <1>1, <1>2, <1>3, <1>4, <1>5, <1>7, GoesTrans

\* The events of execve(), of a new child and of the end of a vfork().
LEMMA HandleNewEventGoes ==
  ASSUME NEW f \in Frames, NEW in \in QuietInputs
  PROVE  Goes(in, f, HandleExecEvent(f, in)) /\ Goes(in, f, HandleNewChildEvent(f, in))
<1> DEFINE g == KillAt(f, in, "request")
           n(cb) == Notify(g, in, cb, "none", "none")
<1>1. HandleExecEvent(f, in) \in {Throw(g, "ESRCH"), n("newExecutionContext")}
  BY DEF HandleExecEvent
<1>2. HandleNewChildEvent(f, in) \in {Throw(g, "ESRCH"), Throw(g, "null"), n("vforkComplete"), n("newChildProcess")}
  BY DEF HandleNewChildEvent
<1>3. Goes(in, f, g) /\ ~in.detach
  BY SmallGoes DEF QuietInputs
<1> HIDE DEF g
<1>4. g \in Frames
  BY <1>3 DEF Goes
<1>5. Goes(in, g, Throw(g, "ESRCH")) /\ Goes(in, g, Throw(g, "null"))
  BY <1>4, SmallGoes
<1>6. Goes(in, g, n("newExecutionContext")) /\ Goes(in, g, n("vforkComplete")) /\ Goes(in, g, n("newChildProcess"))
  BY <1>3, <1>4, NotifyGoes DEF MaybeCall
<1> HIDE DEF n
<1> QED
  BY <1>1, <1>2, <1>3, <1>4, <1>5, <1>6, GoesTrans

\* handleEvent() of the Tracee.
LEMMA HandleEventGoes ==
  ASSUME NEW f \in Frames, NEW in \in QuietInputs PROVE Goes(in, f, HandleEvent(f, in))
<1> DEFINE g == ToState(f, "EVENT_STOP")
<1>1. HandleEvent(f, in) \in {HandleStopEvent(g, in), HandleExitEvent(g, in), HandleExecEvent(g, in),
                              HandleNewChildEvent(g, in)}
  BY DEF HandleEvent
<1>2. Goes(in, f, g)
  BY SmallGoes DEF States
<1> HIDE DEF g
<1>3. /\ g \in Frames /\ Goes(in, g, HandleStopEvent(g, in)) /\ Goes(in, g, HandleExitEvent(g, in))
      /\ Goes(in, g, HandleExecEvent(g, in)) /\ Goes(in, g, HandleNewChildEvent(g, in))
  BY <1>2, HandleStopEventGoes, HandleExitEventGoes, HandleNewEventGoes DEF Goes
<1> QED
  BY <1>1, <1>2, <1>3, GoesTrans

(* The end of processEvent() *)

\* One step after another.
LEMMA TendsTrans ==
  ASSUME NEW in, NEW a, NEW b, NEW c, Tends(in, a, b), Tends(in, b, c) PROVE Tends(in, a, c)
BY DEF Tends

\* What a handler does to the thread.
LEMMA GoesTends ==
  ASSUME NEW in, NEW f \in Frames, NEW g, Goes(in, f, g)
  PROVE  Tends(in, f.k, g.k) /\ g.k.traced = f.k.traced
<1>1. f.k \in Thread
  BY StaysParts
<1>2. Tends(in, f.k, f.k)
  BY DEF Tends
<1>3. in.kill # "no" => Tends(in, f.k, Kill(f.k)) /\ Kill(f.k).traced = f.k.traced
  BY <1>1, KillFacts DEF Tends, Doomed
<1> QED
  BY <1>2, <1>3 DEF Goes

\* The requests that let a thread go on.
LEMMA RequestTends ==
  ASSUME NEW in, NEW k \in Thread, InStop(k), NEW mode, NEW sig, NEW child \in BOOLEAN
  PROVE  /\ LET b == Resume(k, mode, sig, FALSE) IN Tends(in, k, b) /\ b.traced = k.traced
         /\ ~ListenRefused(k) => LET b == Listen(k) IN Tends(in, k, b) /\ b.traced = k.traced
         /\ Tends(in, k, Detach(k, child))
<1>1. k.run = "stop" /\ ~Down(k)
  BY DEF InStop, Down
<1> DEFINE r == [k EXCEPT !.sysgood = (mode = "SYSCALL")]
           s == [r EXCEPT !.gstop = TRUE]
           z == [r EXCEPT !.run = "zombie", !.at = "ENDED", !.status = TRUE]
           Like(b) == b.nr = k.nr /\ b.traced = k.traced /\ b.fatal = k.fatal
           Halts(b) == b.run = "stop" /\ b.at \in {"EV_STOP_SIG", "EV_STOP_TRAP"}
           Leaves(b) == IF k.at = "EV_EXIT" THEN b.run = "zombie" /\ b.at = "ENDED"
                        ELSE Halts(b) \/ (b.run \in {"run", "listen"} /\ b.at = "none")
<1>2. r \in Thread /\ r.run = "stop" /\ r.at = k.at /\ Like(r)
  BY <1>1 DEF Thread
<1>3. s \in Thread /\ Like(s) /\ z.run = "zombie" /\ z.at = "ENDED" /\ Like(z)
  <2> HIDE DEF r
  <2> QED BY <1>2 DEF Thread
<1>4. ASSUME NEW x \in Thread, Like(x) PROVE Like(TakeTrap(x)) /\ Halts(TakeTrap(x))
  <2> DEFINE e == IF x.gstop THEN "EV_STOP_SIG" ELSE "EV_STOP_TRAP"
             y == [x EXCEPT !.run = "stop", !.at = e, !.status = TRUE, !.trap = FALSE]
  <2>1. TakeTrap(x) = [y EXCEPT !.notify = FALSE]
    BY DEF TakeTrap, StopAt
  <2> HIDE DEF e
  <2>2. Like([y EXCEPT !.notify = FALSE]) /\ [y EXCEPT !.notify = FALSE].run = "stop"
        /\ [y EXCEPT !.notify = FALSE].at = e
    BY <1>4 DEF Thread
  <2> QED BY <2>1, <2>2 DEF e
<1>5. ASSUME NEW x \in Thread, Like(x)
      PROVE  Like(Leave(x)) /\ (Halts(Leave(x)) \/ (Leave(x).run = "run" /\ Leave(x).at = "none"))
  <2> DEFINE y == [x EXCEPT !.run = "run", !.at = "none", !.status = FALSE]
  <2>1. Like(y) /\ y.run = "run" /\ y.at = "none"
    BY <1>5 DEF Thread
  <2>2. Leave(x) \in {TakeTrap(x), y}
    BY DEF Leave
  <2> QED BY <1>4, <1>5, <2>1, <2>2
<1>6. k.at = "EV_EXIT" \/ ~Doomed(k)
  BY <1>1 DEF Doomed
<1>7. ASSUME NEW b, Like(b), Leaves(b) PROVE Tends(in, k, b)
  BY <1>1, <1>6, <1>7 DEF Tends, Doomed, Down
<1>8. LET b == Resume(k, mode, sig, FALSE) IN Tends(in, k, b) /\ b.traced = k.traced
  <2> DEFINE b == Resume(k, mode, sig, FALSE)
  <2>1. \/ k.at = "EV_EXIT" /\ b = z
        \/ k.at # "EV_EXIT" /\ (b = TakeTrap(s) \/ b = Leave(r))
    BY DEF Resume
  <2> HIDE DEF r, s, z, b
  <2>2. Like(b) /\ Leaves(b)
    BY <1>2, <1>3, <1>4, <1>5, <2>1
  <2> QED BY <1>7, <2>2 DEF b
<1>9. ASSUME ~ListenRefused(k) PROVE LET b == Listen(k) IN Tends(in, k, b) /\ b.traced = k.traced
  <2> DEFINE y == [k EXCEPT !.run = "listen", !.at = "none", !.status = FALSE]
  <2>1. k.at # "EV_EXIT" /\ Like(k)
    BY <1>9 DEF ListenRefused
  <2>2. Like(y) /\ y.run = "listen" /\ y.at = "none"
    BY DEF Thread
  <2>3. Listen(k) \in {TakeTrap(k), y}
    BY DEF Listen
  <2> HIDE DEF y
  <2>4. Like(Listen(k)) /\ (Halts(Listen(k)) \/ (Listen(k).run = "listen" /\ Listen(k).at = "none"))
    BY <1>4, <2>1, <2>2, <2>3
  <2> QED BY <1>7, <2>1, <2>4
<1>10. Tends(in, k, Detach(k, child))
  <2> DEFINE d == [k EXCEPT !.traced = FALSE, !.sysgood = FALSE, !.trap = FALSE, !.notify = FALSE]
             b == Detach(k, child)
             Alike(x) == x.nr = k.nr /\ x.fatal = k.fatal
  <2>1. d \in Thread /\ Alike(d)
    BY DEF Thread
  <2>2. b = CASE k.at = "EV_EXIT" -> [d EXCEPT !.run = "zombie", !.at = "ENDED", !.status = child]
              [] k.at # "EV_EXIT" /\ k.gstop -> [d EXCEPT !.run = "stop", !.at = "STOPPED", !.status = child]
              [] OTHER -> [d EXCEPT !.run = "run", !.at = "none", !.status = FALSE]
    BY DEF Detach
  <2> HIDE DEF d
  <2>3. Alike(b) /\ (\/ b.run = "zombie" /\ b.at = "ENDED"
                     \/ k.at # "EV_EXIT" /\ b.run = "stop" /\ b.at = "STOPPED"
                     \/ k.at # "EV_EXIT" /\ b.run = "run" /\ b.at = "none")
    <3> HIDE DEF b
    <3>1. CASE k.at = "EV_EXIT"
      BY <2>1, <2>2, <3>1 DEF Thread
    <3>2. CASE k.at # "EV_EXIT" /\ k.gstop
      BY <2>1, <2>2, <3>2 DEF Thread
    <3>3. CASE k.at # "EV_EXIT" /\ ~k.gstop
      BY <2>1, <2>2, <3>3 DEF Thread
    <3> QED BY <3>1, <3>2, <3>3
  <2> HIDE DEF b
  <2> QED BY <1>1, <1>6, <2>3 DEF Tends, Doomed, Down, b
<1> QED
  BY <1>8, <1>9, <1>10

\* restart(), with the signal to inject.
LEMMA RestartTends ==
  ASSUME NEW f \in Frames, NEW in \in QuietInputs
  PROVE  LET g == Restart(f, in)
         IN  /\ g \in Frames /\ Tends(in, f.k, g.k) /\ g.k.traced = f.k.traced
             /\ "DETACH_AT_NEXT_STOP" \in g.t.flags => "DETACH_AT_NEXT_STOP" \in f.t.flags
<1> DEFINE r == KillAt(f, in, "late")
           u == Resume(r.k, r.t.mode, SignalOf(in.ev), FALSE)
           l == Listen(r.k)
           y == [r.v EXCEPT !.refused = TRUE]
           e == [r EXCEPT !.v = y]
           g == Restart(f, in)
<1>1. Goes(in, f, r) /\ in.deadly = FALSE /\ in \in InputRecords
  BY SmallGoes DEF QuietInputs, InputRecords
<1>2. g = IF ~Reachable(r) THEN Throw(r, "ESRCH")
          ELSE IF r.t.mode # "LISTEN" THEN [r EXCEPT !.k = u]
          ELSE IF ListenRefused(r.k) THEN Throw(e, "EIO") ELSE [r EXCEPT !.k = l]
  BY <1>1 DEF Restart
<1>3. g \in Frames
  BY <1>1, RestartStays DEF Stays
<1> HIDE DEF r
<1>4. r \in Frames /\ r.k \in Thread /\ r.v \in Views /\ Tends(in, f.k, r.k) /\ r.k.traced = f.k.traced
      /\ ("DETACH_AT_NEXT_STOP" \in r.t.flags => "DETACH_AT_NEXT_STOP" \in f.t.flags)
  BY <1>1, GoesTends, StaysParts DEF Goes
<1>5. ASSUME Reachable(r)
      PROVE  /\ Tends(in, r.k, u) /\ u.traced = r.k.traced
             /\ ~ListenRefused(r.k) => Tends(in, r.k, l) /\ l.traced = r.k.traced
  <2>1. InStop(r.k)
    BY <1>5 DEF Reachable
  <2> QED BY <1>4, <2>1, RequestTends
<1> HIDE DEF u, l, y
<1>6. /\ [r EXCEPT !.k = u].k = u /\ [r EXCEPT !.k = u].t = r.t
      /\ [r EXCEPT !.k = l].k = l /\ [r EXCEPT !.k = l].t = r.t
      /\ Throw(r, "ESRCH").k = r.k /\ Throw(r, "ESRCH").t = r.t
      /\ Throw(e, "EIO").k = r.k /\ Throw(e, "EIO").t = r.t
  BY <1>4 DEF Frames, Throw
<1>7. g.t = r.t /\ (g.k = r.k \/ (Reachable(r) /\ g.k = u) \/ (Reachable(r) /\ ~ListenRefused(r.k) /\ g.k = l))
  <2> HIDE DEF e, g
  <2>1. CASE ~Reachable(r)
    BY <1>2, <1>6, <2>1
  <2>2. CASE Reachable(r) /\ r.t.mode # "LISTEN"
    BY <1>2, <1>6, <2>2
  <2>3. CASE Reachable(r) /\ r.t.mode = "LISTEN" /\ ListenRefused(r.k)
    BY <1>2, <1>6, <2>3 DEF e
  <2>4. CASE Reachable(r) /\ r.t.mode = "LISTEN" /\ ~ListenRefused(r.k)
    BY <1>2, <1>6, <2>4
  <2> QED BY <2>1, <2>2, <2>3, <2>4
<1> HIDE DEF g, e
<1>8. Tends(in, f.k, g.k) /\ g.k.traced = f.k.traced
  BY <1>4, <1>5, <1>7, TendsTrans
<1> QED
  BY <1>3, <1>4, <1>7, <1>8 DEF g

\* processEvent() of a Tracee that is not to be detached from.
LEMMA ProcessEventTends ==
  ASSUME NEW f \in Frames, NEW in \in QuietInputs, "DETACH_AT_NEXT_STOP" \notin f.t.flags
  PROVE  LET g == ProcessEvent(f, in)
         IN  /\ g \in Frames /\ Tends(in, f.k, g.k) /\ g.k.traced = f.k.traced
             /\ "DETACH_AT_NEXT_STOP" \notin g.t.flags
             /\ in.ev = "ENDED" => g.t.state = "DEAD"
<1> DEFINE Good(g) == /\ g \in Frames /\ Tends(in, f.k, g.k) /\ g.k.traced = f.k.traced
                      /\ "DETACH_AT_NEXT_STOP" \notin g.t.flags
<1>1. ASSUME NEW g, Goes(in, f, g) PROVE Good(g)
  BY <1>1, GoesTends DEF Goes
<1>2. ASSUME NEW g, Good(g), NEW h, Goes(in, g, h) PROVE Good(h)
  <2>1. Tends(in, g.k, h.k) /\ h.k.traced = g.k.traced
    BY <1>2, GoesTends
  <2> QED BY <1>2, <2>1, TendsTrans DEF Goes
<1>3. ASSUME NEW g, Good(g) PROVE Good(RestartTracee(g, in))
  <2> DEFINE r == Restart(g, in)
             s == ToState(r, "RUNNING")
             i == [in EXCEPT !.detach = FALSE]
             n == Notify(s, i, "resumed", "none", "none")
  <2>1. RestartTracee(g, in) \in {g, r, n, s}
    BY DEF RestartTracee
  <2>2. Good(r)
    <3>1. /\ r \in Frames /\ Tends(in, g.k, r.k) /\ r.k.traced = g.k.traced
          /\ "DETACH_AT_NEXT_STOP" \in r.t.flags => "DETACH_AT_NEXT_STOP" \in g.t.flags
      BY <1>3, RestartTends
    <3> HIDE DEF r
    <3> QED BY <1>3, <3>1, TendsTrans
  <2> HIDE DEF r
  <2>3. Good(s)
    <3>1. Goes(in, r, s)
      BY <2>2, SmallGoes DEF States
    <3> QED BY <1>2, <2>2, <3>1
  <2> HIDE DEF s
  <2>4. Good(n)
    <3>1. ~i.detach /\ "none" \in MaybeCall
      BY DEF QuietInputs, InputRecords, MaybeCall
    <3> HIDE DEF i
    <3>2. Goes(in, s, n)
      BY <2>3, <3>1, NotifyGoes
    <3> QED BY <1>2, <2>3, <3>2
  <2> HIDE DEF n, Good
  <2> QED BY <1>3, <2>1, <2>2, <2>3, <2>4
<1>4. in \in InputRecords /\ ~in.detach
  BY DEF QuietInputs
<1>5. CASE in.ev = "ENDED"
  <2> DEFINE d == ToState(f, "DEAD")
             n == Notify(d, in, "disappeared", "none", "none")
  <2>1. ProcessEvent(f, in) \in {d, n}
    BY <1>5 DEF ProcessEvent, ProcessEnd
  <2>2. Goes(in, f, d) /\ d.t.state = "DEAD"
    BY SmallGoes, ToStateFields DEF States
  <2> HIDE DEF d
  <2>3. Goes(in, d, n) /\ n.t = d.t
    BY <1>4, <2>2, NotifyGoes DEF Goes, MaybeCall
  <2> HIDE DEF n
  <2>4. Good(d)
    BY <1>1, <2>2
  <2>5. Good(n)
    BY <1>2, <2>3, <2>4
  <2> QED BY <2>1, <2>2, <2>3, <2>4, <2>5
<1>6. CASE in.ev = "STOPPED"
  <2> DEFINE s == ToState(f, "SIGNAL_DELIVERY_STOP")
  <2>1. ProcessEvent(f, in) = Throw(s, "ESRCH")
    BY <1>6 DEF ProcessEvent
  <2>2. Goes(in, f, s)
    BY SmallGoes DEF States
  <2> HIDE DEF s
  <2>3. Goes(in, s, Throw(s, "ESRCH"))
    BY <2>2, SmallGoes DEF Goes
  <2>4. Good(Throw(s, "ESRCH"))
    BY <1>1, <1>2, <2>2, <2>3
  <2> QED BY <1>6, <2>1, <2>4
<1>7. CASE in.ev \notin {"ENDED", "STOPPED"}
  <2> DEFINE c == HandleSystemCall(f, in)
             e == HandleEvent(f, in)
             s == HandleSignal(f, in)
  <2>1. ProcessEvent(f, in) \in {RestartTracee(c, in), RestartTracee(e, in), RestartTracee(s, in)}
    BY <1>7 DEF ProcessEvent, HandleTrap
  <2>2. Good(c) /\ Good(e) /\ Good(s)
    BY <1>1, HandleSystemCallGoes, HandleEventGoes, HandleSignalGoes
  <2> HIDE DEF c, e, s
  <2>3. Good(RestartTracee(c, in)) /\ Good(RestartTracee(e, in)) /\ Good(RestartTracee(s, in))
    BY <1>3, <2>2
  <2> QED BY <1>7, <2>1, <2>3
<1> QED
  BY <1>5, <1>6, <1>7

\* What TraceeProcessEvent makes of f: a Tracee that is dead lets go.
Final(f) == IF f.t.state = "DEAD" THEN DoDetach(f) ELSE f

\* A Tracee stays in m_tracees only as one that is attached to its thread, and goes
\* when its thread has ended.
LEMMA FinalTends ==
  ASSUME NEW f \in Frames, NEW in \in QuietInputs, "DETACH_AT_NEXT_STOP" \notin f.t.flags
  PROVE  LET g == Final(ProcessEvent(f, in))
         IN  /\ Stays(f, g) /\ Tends(in, f.k, g.k)
             /\ ~Removed(g.t) => /\ g.k.traced = f.k.traced
                                 /\ "DETACH_AT_NEXT_STOP" \notin g.t.flags
             /\ in.ev = "ENDED" => Removed(g.t)
             /\ ProcessEvent(f, in).k.fatal => g.k.fatal
<1> DEFINE h == ProcessEvent(f, in)
           d == DoDetach(h)
<1>1. in \in InputRecords
  BY DEF QuietInputs
<1>2. /\ h \in Frames /\ Stays(f, h) /\ Tends(in, f.k, h.k) /\ h.k.traced = f.k.traced
      /\ "DETACH_AT_NEXT_STOP" \notin h.t.flags /\ (in.ev = "ENDED" => h.t.state = "DEAD")
  BY <1>1, ProcessEventStays, ProcessEventTends
<1> HIDE DEF h
<1>3. Stays(f, d)
  BY <1>2, DoDetachStays, StaysTrans
<1>4. Tends(in, h.k, d.k) /\ d.t.state \in {"DEAD", "DETACHED"}
  <2> DEFINE x == [h EXCEPT !.k = Detach(h.k, h.t.child)]
             r == h.v.refused \/ (h.t.valid /\ h.k.run = "listen")
             w == [h EXCEPT !.v = [h.v EXCEPT !.refused = r]]
             y == IF Reachable(h) THEN ToState(x, "DETACHED") ELSE ToState(w, "DEAD")
  <2>1. d = [y EXCEPT !.t.valid = FALSE, !.t.flags = {}]
    BY DEF DoDetach, DetachFailed
  <2>2. h.k \in Thread /\ h.t \in Tracees /\ h.v \in Views /\ h.t.child \in BOOLEAN /\ r \in BOOLEAN
    BY <1>2, StaysParts DEF Tracees, Views
  <2> HIDE DEF r
  <2>3. x \in Frames /\ x.k = Detach(h.k, h.t.child) /\ w \in Frames /\ w.k = h.k
    <3>1. Detach(h.k, h.t.child) \in Thread /\ [h.v EXCEPT !.refused = r] \in Views
      BY <2>2, DetachType DEF Views
    <3> QED BY <1>2, <3>1 DEF Frames
  <2> HIDE DEF x, w
  <2>4. /\ y \in Frames /\ y.t.state \in {"DEAD", "DETACHED"}
        /\ y.k = IF Reachable(h) THEN Detach(h.k, h.t.child) ELSE h.k
    BY <2>3, ToStateFields DEF States
  <2> HIDE DEF y
  <2>5. d.k = y.k /\ d.t.state = y.t.state
    <3>1. y.t \in Tracees
      BY <2>4, StaysParts
    <3>2. d.k = y.k /\ d.t = [y.t EXCEPT !.valid = FALSE, !.flags = {}]
      BY <2>1, <2>4 DEF Frames
    <3> HIDE DEF d
    <3> QED BY <3>1, <3>2 DEF Tracees
  <2>6. Reachable(h) => Tends(in, h.k, Detach(h.k, h.t.child))
    BY <2>2, RequestTends DEF Reachable
  <2>7. Tends(in, h.k, h.k)
    BY DEF Tends
  <2> QED BY <2>4, <2>5, <2>6, <2>7
<1> HIDE DEF d
<1>5. Tends(in, f.k, d.k) /\ (h.k.fatal => d.k.fatal)
  <2>1. h.k.fatal => d.k.fatal
    BY <1>4 DEF Tends
  <2> QED BY <1>2, <1>4, <2>1, TendsTrans
<1> QED
  BY <1>2, <1>3, <1>4, <1>5 DEF Final, Removed, h, d


(* The invariant. *)

\* The PIDs stay those of the beginning, and no Tracee is to be detached from.
PidsKept == ~MayDetach /\ "clone" \notin ThreadCalls

\* No thread has made another one, and a signal that ends one thread ends its process.
ThreadsFit(T) ==
    \A p \in Pids : /\ T[p].nr # "clone" /\ T[p].at # "EV_CHILD"
                    /\ T[p].run = "zombie" => T[p].at = "ENDED"
                    /\ T[p].fatal /\ leader[p] # NoPid => \A q \in Group(p) : Doomed(T[q])

\* An execve() is reported by the only thread of its process, and the PID it had
\* before does not exist any more.
ExecFit(T) ==
    \A p \in Pids : T[p].at = "EV_EXEC" =>
        /\ T[p].run = "stop" /\ leader[p] = p /\ Group(p) = {p}
        /\ msg[p] = p \/ leader[msg[p]] = NoPid

\* A Tracee makes its requests for the PID it is found under, or for one that is gone.
OwnFit(o) == \A p \in DOMAIN o : o[p] = p \/ leader[o[p]] = NoPid

\* The Tracee of a thread that is no main thread stays until its end is reported.
TracedFit(T, known) ==
    \A p \in known : leader[p] \notin {p, NoPid} => T[p].traced /\ T[p].run # "gone"

FlagsFit(t) == \A p \in DOMAIN t : "DETACH_AT_NEXT_STOP" \notin t[p].flags

\* m tells, or would if it had not been killed, that execve() has done away with p.
\* handling is the thread whose execve() is being handled, if there is one.
Tells(T, m, p, handling) ==
    /\ msg[m] = p /\ leader[m] = m
    /\ Announces(T[m]) \/ T[m].fatal \/ m \in handling

\* Of every Tracee whose PID is gone the Engine is yet to hear.
LostFit(T, known, handling) ==
    \A p \in known : leader[p] = NoPid => \E m \in Pids \ {p} : Tells(T, m, p, handling)

ExecInv == /\ ThreadsFit(th) /\ ExecFit(th) /\ OwnFit(own) /\ TracedFit(th, DOMAIN tracees)
           /\ over = "no" => FlagsFit(tracees)
           /\ LostFit(th, DOMAIN tracees, {})

\* The same for the data that the Engine works on.
Fits(w) == /\ ThreadsFit(w.th) /\ ExecFit(w.th) /\ OwnFit(w.own) /\ TracedFit(w.th, DOMAIN w.tracees)
           /\ FlagsFit(w.tracees) /\ LostFit(w.th, DOMAIN w.tracees, {})

\* And while the event e of p is handled: nothing of it is left to be reported.
FitsBut(w, p, e) ==
    /\ ThreadsFit(w.th) /\ ExecFit(w.th) /\ OwnFit(w.own) /\ FlagsFit(w.tracees)
    /\ TracedFit(w.th, DOMAIN w.tracees \ (IF e = "ENDED" THEN {p} ELSE {}))
    /\ LostFit(w.th, DOMAIN w.tracees, IF e = "EV_EXEC" THEN {p} ELSE {})
    /\ e = "EV_EXEC" <=> w.th[p].at = "EV_EXEC"

(* The handling of an event. *)

\* What SIGKILL and the handling of an event do to the threads: nothing worse than
\* what the invariant allows, if the process that is hit ends as a whole.
LEMMA ThreadsTend ==
  ASSUME NEW in, NEW p \in Pids, NEW T, NEW U, ThreadsFit(T), ExecFit(T),
         \A q \in Pids : Tends(in, T[q], U[q]) /\ U[q].at # "EV_CHILD",
         \A q \in Pids : U[q].fatal /\ leader[q] # NoPid => T[q].fatal \/ (q \in Group(p) /\ in.kill # "no"),
         in.kill # "no" => \A q \in Group(p) : Down(U[q])
  PROVE  ThreadsFit(U) /\ ExecFit(U)
<1>1. ASSUME NEW q \in Pids
      PROVE  U[q].nr # "clone" /\ U[q].at # "EV_CHILD" /\ (U[q].run = "zombie" => U[q].at = "ENDED")
  BY DEF ThreadsFit, Tends
<1>2. ASSUME NEW q \in Pids, U[q].fatal, leader[q] # NoPid, NEW r \in Group(q) PROVE Doomed(U[r])
  <2>1. r \in Pids /\ leader[r] = leader[q]
    BY DEF Group
  <2>2. CASE T[q].fatal
    <3>1. Doomed(T[r])
      BY <1>2, <2>2 DEF ThreadsFit
    <3> QED BY <2>1, <3>1 DEF Tends
  <2>3. CASE q \in Group(p) /\ in.kill # "no"
    <3>1. r \in Group(p)
      BY <2>1, <2>3 DEF Group
    <3> QED BY <2>3, <3>1 DEF Doomed
  <2> QED BY <1>2, <2>2, <2>3
<1>3. ASSUME NEW q \in Pids, U[q].at = "EV_EXEC"
      PROVE  T[q].at = "EV_EXEC" /\ U[q].run = T[q].run
  BY <1>3 DEF Tends
<1>4. ThreadsFit(U)
  BY <1>1, <1>2 DEF ThreadsFit
<1> QED
  BY <1>3, <1>4 DEF ExecFit

\* The former PID cannot be asked for if SIGKILL comes first, but the thread ends.
LEMMA KilledInExec ==
  ASSUME NEW f \in Frames, NEW in \in QuietInputs, "DETACH_AT_NEXT_STOP" \notin f.t.flags,
         in.ev = "EV_EXEC", in.kill = "request", f.k.run = "stop", f.k.at = "EV_EXEC"
  PROVE  ProcessEvent(f, in).k.fatal
<1> DEFINE g == ToState(f, "EVENT_STOP")
           h == KillAt(g, in, "request")
<1>1. f.k \in Thread /\ g.k = f.k /\ g \in Frames
  BY StaysParts, ToStateFields DEF States
<1> HIDE DEF g
<1>2. h.k = Kill(f.k)
  BY <1>1 DEF KillAt, Frames
<1>3. Down(h.k) /\ h.k.fatal
  BY <1>1, <1>2, KillFacts
<1> HIDE DEF h
<1>4. HandleEvent(f, in) = HandleExecEvent(g, in)
  BY DEF HandleEvent, g
<1>5. HandleExecEvent(g, in) = Throw(h, "ESRCH")
  BY <1>3 DEF HandleExecEvent, InStop, Down, h
<1>6. Throw(h, "ESRCH").k = h.k /\ Throw(h, "ESRCH").ex = "ESRCH"
  <2>1. h \in Frames
    BY <1>1, SmallGoes DEF Goes, h
  <2> QED BY <2>1 DEF Throw, Frames
<1>7. ProcessEvent(f, in) = RestartTracee(HandleEvent(f, in), in)
  BY DEF ProcessEvent, HandleTrap, EventStops, SyscallStops
<1> DEFINE e == Throw(h, "ESRCH")
<1>8. RestartTracee(e, in) = e
  <2>1. e.ex # "none"
    BY <1>6
  <2> HIDE DEF e
  <2> QED BY <2>1 DEF RestartTracee
<1> QED
  BY <1>3, <1>4, <1>5, <1>6, <1>7, <1>8


\* The Tracees that are left when an event has been handled, and the threads if they
\* are not killed.
Left(w, p, in, f) ==
    DOMAIN w.tracees \ ((IF Substitutes(w, p, in) THEN {msg[p]} ELSE {}) \cup (IF Removed(f.t) THEN {p} ELSE {}))
Threads(w, p, in, f) == [w.th EXCEPT ![RequestPid(w, p, in)] = f.k]

\* What comes of an event, thread by thread and Tracee by Tracee.
LEMMA ConcludedParts ==
  ASSUME NEW w, ContextInv(w), NEW p \in DOMAIN w.tracees, NEW in, NEW f
  PROVE  LET x == Concluded(w, p, in, f)
         IN  /\ DOMAIN x.tracees = Left(w, p, in, f) /\ DOMAIN x.own = Left(w, p, in, f)
             /\ \A q \in Left(w, p, in, f) :
                   /\ x.tracees[q] = IF q = p THEN f.t ELSE w.tracees[q]
                   /\ x.own[q] = IF q = p THEN RequestPid(w, p, in) ELSE w.own[q]
             /\ x.th = IF in.kill = "no" THEN Threads(w, p, in, f) ELSE KillGroup(Threads(w, p, in, f), p)
<1> DEFINE pid == RequestPid(w, p, in)
           dropped == IF Substitutes(w, p, in) THEN {msg[p]} ELSE {}
           rest == DOMAIN w.tracees \ (dropped \cup (IF Removed(f.t) THEN {p} ELSE {}))
           threads == [w.th EXCEPT ![pid] = f.k]
           T == IF in.kill = "no" THEN threads ELSE KillGroup(threads, p)
           tr == [q \in rest |-> IF q = p THEN f.t ELSE w.tracees[q]]
           ow == [q \in rest |-> IF q = p THEN pid ELSE w.own[q]]
           vw == [q \in Pids |-> IF q = p THEN f.v ELSE IF q \in dropped THEN NewView ELSE w.view[q]]
           e == IF f.ex \in {"none", "ESRCH", "EIO"} THEN "none" ELSE f.ex
           x == [w EXCEPT !.th = T, !.tracees = tr, !.own = ow, !.view = vw, !.ex = e]
<1>1. Concluded(w, p, in, f) = x
  BY DEF Concluded
<1>2. w \in Contexts
  BY DEF ContextInv
<1>3. rest = Left(w, p, in, f) /\ threads = Threads(w, p, in, f)
  BY DEF Left, Threads
<1> HIDE DEF pid, dropped, threads, T, tr, ow, vw, e
<1>4. x.th = T /\ x.tracees = tr /\ x.own = ow
  BY <1>2 DEF Contexts
<1> HIDE DEF x, rest
<1>5. /\ DOMAIN tr = rest /\ DOMAIN ow = rest
      /\ \A q \in rest : tr[q] = (IF q = p THEN f.t ELSE w.tracees[q]) /\ ow[q] = IF q = p THEN pid ELSE w.own[q]
  BY DEF tr, ow
<1> QED
  BY <1>1, <1>3, <1>4, <1>5 DEF T, pid

\* The frame of the handler has the object's flags, and its thread is that of the PID
\* itself or one that is gone.
LEMMA FrameFits ==
  ASSUME NEW w, ContextInv(w), NEW p \in DOMAIN w.tracees, NEW in, FlagsFit(w.tracees), OwnFit(w.own)
  PROVE  /\ "DETACH_AT_NEXT_STOP" \notin FrameOf(w, p, in).t.flags
         /\ RequestPid(w, p, in) = p \/ leader[RequestPid(w, p, in)] = NoPid
         /\ RequestPid(w, p, in) = p \/ RequestPid(w, p, in) = w.own[p]
         /\ HandlerCutShort(w.tracees[p], in) <=> in.kill = "request"
<1>1. /\ "DETACH_AT_NEXT_STOP" \notin w.tracees[p].flags /\ w.tracees[p] \in Tracees
      /\ w.own[p] = p \/ leader[w.own[p]] = NoPid
  BY ContextParts, MapFacts DEF FlagsFit, OwnFit
<1> DEFINE s == SyncState(w.tracees[p], w.tracees[msg[p]])
<1>2. s.flags = w.tracees[p].flags
  BY <1>1 DEF SyncState, Tracees
<1>3. FrameOf(w, p, in).t \in {s, w.tracees[p]}
  BY DEF FrameOf
<1> HIDE DEF s
<1> QED
  BY <1>1, <1>2, <1>3 DEF RequestPid, HandlerCutShort

\* SIGKILL at some moment of the handling, or none.
LEMMA KillTends ==
  ASSUME NEW in, NEW k \in Thread
  PROVE  Tends(in, k, k) /\ (in.kill # "no" => Tends(in, k, Kill(k)))
BY KillFacts DEF Tends, Doomed


\* processEvent() of the Tracee that is found, and what the Engine makes of it.
LEMMA TraceeProcessEventFits ==
  ASSUME TypeInv, \A q \in Pids : th[q].at # "EV_CHILD",
         NEW w, ContextInv(w), NEW p \in DOMAIN w.tracees, NEW e, FitsBut(w, p, e),
         NEW in \in QuietInputs, in.ev = e, NEW x \in TraceeProcessEvent(w, p, in)
  PROVE  Fits(x)
<1> DEFINE F == FrameOf(w, p, in)
           pid == RequestPid(w, p, in)
           f == Final(ProcessEvent(F, in))
           U == Threads(w, p, in, f)
           rest == Left(w, p, in, f)
           handling == IF e = "EV_EXEC" THEN {p} ELSE {}
<1>1. in \in InputRecords /\ msg \in [Pids -> Pids] /\ p \in Pids /\ w.th \in [Pids -> Thread]
      /\ DOMAIN w.tracees \subseteq Pids /\ DOMAIN w.own = DOMAIN w.tracees
  BY ContextParts DEF QuietInputs, TypeInv
<1>2. /\ ThreadsFit(w.th) /\ ExecFit(w.th) /\ OwnFit(w.own) /\ FlagsFit(w.tracees)
      /\ TracedFit(w.th, DOMAIN w.tracees \ (IF e = "ENDED" THEN {p} ELSE {}))
      /\ LostFit(w.th, DOMAIN w.tracees, handling)
      /\ e = "EV_EXEC" <=> w.th[p].at = "EV_EXEC"
  BY DEF FitsBut
<1>3. F \in Frames /\ pid \in Pids /\ F.k = w.th[pid]
  BY <1>1, FrameOfType
<1>4. /\ "DETACH_AT_NEXT_STOP" \notin F.t.flags /\ (pid = p \/ leader[pid] = NoPid)
      /\ pid = p \/ pid = w.own[p]
      /\ HandlerCutShort(w.tracees[p], in) <=> in.kill = "request"
  BY <1>2, FrameFits
<1>5. x = Concluded(w, p, in, f)
  BY DEF TraceeProcessEvent, Final
<1>6. /\ DOMAIN x.tracees = rest /\ DOMAIN x.own = rest
      /\ \A q \in rest : /\ x.tracees[q] = IF q = p THEN f.t ELSE w.tracees[q]
                         /\ x.own[q] = IF q = p THEN pid ELSE w.own[q]
      /\ x.th = IF in.kill = "no" THEN U ELSE KillGroup(U, p)
  <2> HIDE DEF f
  <2> QED BY <1>5, ConcludedParts
<1>7. ContextInv(x)
  BY <1>1, TraceeProcessEventInv
<1>8. \A q \in Pids : x.th[q].at # "EV_CHILD"
  BY <1>7 DEF ContextInv, Keeps
<1> HIDE DEF F, pid
<1>9. /\ Stays(F, f) /\ Tends(in, F.k, f.k)
      /\ ~Removed(f.t) => f.k.traced = F.k.traced /\ "DETACH_AT_NEXT_STOP" \notin f.t.flags
      /\ in.ev = "ENDED" => Removed(f.t)
  BY <1>3, <1>4, FinalTends
<1>10. f.k \in Thread
  BY <1>9, StaysParts DEF Stays
<1> HIDE DEF f
<1>11. /\ U \in [Pids -> Thread] /\ U[pid] = f.k /\ \A q \in Pids \ {pid} : U[q] = w.th[q]
       /\ \A q \in Pids : Tends(in, w.th[q], U[q])
  <2>1. U \in [Pids -> Thread] /\ U[pid] = f.k /\ \A q \in Pids \ {pid} : U[q] = w.th[q]
    BY <1>1, <1>3, <1>10 DEF Threads, pid
  <2> HIDE DEF U
  <2> QED BY <1>1, <1>3, <1>9, <2>1, KillTends
<1> HIDE DEF U
<1>12. \A q \in Pids : x.th[q] = IF in.kill # "no" /\ q \in Group(p) THEN Kill(U[q]) ELSE U[q]
  BY <1>6 DEF KillGroup
<1>13. \A q \in Pids : Tends(in, w.th[q], x.th[q])
  <2> TAKE q \in Pids
  <2>1. in.kill # "no" => Tends(in, U[q], Kill(U[q]))
    BY <1>11, KillTends
  <2> QED BY <1>11, <1>12, <2>1, TendsTrans
<1>14. \A q \in Pids : Kill(U[q]).traced = U[q].traced /\ Down(Kill(U[q]))
                       /\ (U[q].fatal => Kill(U[q]).fatal)
  BY <1>11, KillFacts
<1>15. ThreadsFit(x.th) /\ ExecFit(x.th)
  <2>1. ASSUME in.kill # "no", NEW q \in Group(p) PROVE Down(x.th[q])
    BY <1>12, <1>14, <2>1 DEF Group
  <2>2. ASSUME NEW q \in Pids, x.th[q].fatal, leader[q] # NoPid
        PROVE  w.th[q].fatal \/ (q \in Group(p) /\ in.kill # "no")
    <3>1. w.th[q].fatal \/ in.kill # "no"
      BY <1>13, <2>2 DEF Tends
    <3>2. CASE q = p
      BY <2>2, <3>1, <3>2 DEF Group
    <3>3. CASE q # p /\ q \notin Group(p)
      <4>1. q # pid
        BY <1>4, <2>2, <3>3
      <4> QED BY <1>11, <1>12, <2>2, <3>3, <4>1
    <3> QED BY <3>1, <3>2, <3>3
  <2> QED BY <1>1, <1>2, <1>8, <1>13, <2>1, <2>2, ThreadsTend
<1>16. OwnFit(x.own)
  <2>1. ASSUME NEW q \in rest PROVE x.own[q] = q \/ leader[x.own[q]] = NoPid
    BY <1>1, <1>2, <1>4, <1>6, <2>1 DEF OwnFit, Left
  <2> QED BY <1>6, <2>1 DEF OwnFit
<1>17. FlagsFit(x.tracees)
  <2>1. ASSUME NEW q \in rest PROVE "DETACH_AT_NEXT_STOP" \notin x.tracees[q].flags
    BY <1>2, <1>6, <1>9, <2>1 DEF FlagsFit, Left
  <2> QED BY <1>6, <2>1 DEF FlagsFit
<1>18. TracedFit(x.th, rest)
  <2> SUFFICES ASSUME NEW q \in rest, leader[q] \notin {q, NoPid} PROVE x.th[q].traced /\ x.th[q].run # "gone"
    BY DEF TracedFit
  <2>1. q \in DOMAIN w.tracees /\ q \in Pids /\ (q = p => ~Removed(f.t) /\ in.ev # "ENDED")
    BY <1>1, <1>9 DEF Left
  <2>2. w.th[q].traced /\ w.th[q].run # "gone"
    BY <1>2, <2>1 DEF TracedFit
  <2>3. x.th[q].run # "gone"
    BY <1>13, <2>1, <2>2 DEF Tends
  <2>4. U[q].traced
    <3>1. CASE q = pid
      BY <1>3, <1>4, <1>9, <1>11, <2>1, <2>2, <3>1
    <3>2. CASE q # pid
      BY <1>11, <2>1, <2>2, <3>2
    <3> QED BY <3>1, <3>2
  <2> QED BY <1>12, <1>14, <2>1, <2>3, <2>4
<1>19. LostFit(x.th, rest, {})
  <2> SUFFICES ASSUME NEW q \in rest, leader[q] = NoPid PROVE \E m \in Pids \ {q} : Tells(x.th, m, q, {})
    BY DEF LostFit
  <2>1. PICK m \in Pids \ {q} : Tells(w.th, m, q, handling)
    BY <1>2 DEF LostFit, Left
  <2>2. msg[m] = q /\ leader[m] = m /\ (Announces(w.th[m]) \/ w.th[m].fatal \/ m \in handling)
    BY <2>1 DEF Tells
  <2>3. CASE w.th[m].fatal
    <3>1. x.th[m].fatal
      BY <1>13, <2>3 DEF Tends
    <3> QED BY <2>2, <3>1 DEF Tells
  <2>4. CASE m # p /\ Announces(w.th[m])
    <3>1. Group(m) = {m} /\ NoPid \notin Pids
      BY <1>2, <2>4, PidsAssumption DEF ExecFit, Announces
    <3>2. m \notin Group(p)
      BY <1>1, <2>2, <2>4, <3>1 DEF Group
    <3>3. m # pid
      BY <1>4, <2>2, <2>4, <3>1
    <3>4. x.th[m] = w.th[m]
      BY <1>11, <1>12, <3>2, <3>3
    <3> QED BY <2>2, <2>4, <3>4 DEF Tells
  <2>5. CASE m = p /\ (Announces(w.th[m]) \/ m \in handling)
    <3>1. e = "EV_EXEC" /\ w.th[p].at = "EV_EXEC"
      BY <1>2, <2>5 DEF Announces
    <3>2. w.th[p].run = "stop" /\ leader[p] = p /\ p \in Group(p)
      BY <1>1, <1>2, <3>1 DEF ExecFit
    <3>3. in.kill = "request"
      <4>1. q \in DOMAIN w.tracees /\ msg[p] = q /\ q # p
        BY <2>2, <2>5 DEF Left
      <4>2. ~Substitutes(w, p, in)
        BY <4>1 DEF Left
      <4> QED BY <1>4, <3>1, <4>1, <4>2 DEF Substitutes
    <3>4. x.th[p] = Kill(U[p])
      BY <1>1, <1>12, <3>2, <3>3
    <3>5. CASE pid # p
      <4>1. U[p] = w.th[p]
        BY <1>1, <1>11, <3>5
      <4>2. x.th[p].fatal
        BY <1>1, <3>1, <3>2, <3>4, <4>1, KillFacts
      <4> QED BY <2>2, <2>5, <4>2 DEF Tells
    <3>6. CASE pid = p
      <4>1. F.k.run = "stop" /\ F.k.at = "EV_EXEC"
        BY <1>3, <3>1, <3>2, <3>6
      <4>2. ProcessEvent(F, in).k.fatal
        BY <1>3, <1>4, <3>1, <3>3, <4>1, KilledInExec
      <4>3. f.k.fatal
        BY <1>3, <1>4, <4>2, FinalTends DEF f
      <4>4. x.th[p].fatal
        BY <1>1, <1>11, <1>14, <3>4, <3>6, <4>3
      <4> QED BY <2>2, <2>5, <4>4 DEF Tells
    <3> QED BY <3>5, <3>6
  <2> QED BY <2>2, <2>3, <2>4, <2>5
<1> QED
  BY <1>6, <1>15, <1>16, <1>17, <1>18, <1>19 DEF Fits


\* handleEvent() of the Engine for a Tracee that is known.
LEMMA HandleKnownFits ==
  ASSUME Inv, ~MayDetach, \A q \in Pids : th[q].at # "EV_CHILD",
         NEW w, ContextInv(w), w.born = NoPid, NEW p \in DOMAIN w.tracees, FitsBut(w, p, th[p].at),
         NEW x \in HandleKnown(w, p)
  PROVE  Fits(x)
<1>1. TypeInv /\ p \in Pids /\ NoPid \notin Pids
  BY ContextParts, PidsAssumption DEF Inv, TypeInv
<1>2. PICK in \in Inputs(th[p].at) :
           \E b \in IF in.ev = "EV_CHILD" /\ ~HandlerCutShort(w.tracees[p], in) /\ w.tracees[p].cur # "none"
                    THEN NewChildProcess(AutoAttach(w, msg[p]), msg[p]) ELSE {w} :
               \E y \in TraceeProcessEvent(b, p, in) : x \in CheckUnknownEvents(y)
  BY HandleKnownParts
<1>3. in \in QuietInputs /\ in.ev = th[p].at
  <2>1. killing \in BOOLEAN /\ th[p].at \in Statuses \cup {"none"}
    BY <1>1 DEF TypeInv, Thread
  <2>2. in.ev = th[p].at /\ in.detach = FALSE /\ in.deadly = FALSE
    BY <1>2 DEF Inputs
  <2> QED BY <1>2, <2>1, <2>2, InputsType DEF QuietInputs
<1>4. in.ev # "EV_CHILD"
  BY <1>1, <1>3
<1>5. PICK y \in TraceeProcessEvent(w, p, in) : x \in CheckUnknownEvents(y)
  BY <1>2, <1>4
<1>6. ContextInv(y) /\ y.born = NoPid
  BY <1>1, <1>3, <1>5, TraceeProcessEventInv DEF QuietInputs
<1>7. Fits(y)
  BY <1>1, <1>3, <1>5, TraceeProcessEventFits
<1>8. x = y
  <2>1. DOMAIN y.unknown \subseteq Pids
    BY <1>6, ContextParts, MapFacts
  <2> QED BY <1>1, <1>5, <1>6, <2>1 DEF CheckUnknownEvents
<1> QED
  BY <1>7, <1>8

\* The Tracee of the thread that called execve() is filed under the main thread's PID.
LEMMA TryUpdateTraceePIDFits ==
  ASSUME NEW w, ContextInv(w), NEW p \in Pids, FitsBut(w, p, "EV_EXEC"), p \notin DOMAIN w.tracees,
         msg[p] \in DOMAIN w.tracees
  PROVE  FitsBut(TryUpdateTraceePID(w, msg[p], p), p, "EV_EXEC")
<1> DEFINE old == msg[p]
           u == TryUpdateTraceePID(w, old, p)
           D == DOMAIN w.tracees
           tr == With(Without(w.tracees, old), p, w.tracees[old])
           ow == With(Without(w.own, old), p, w.own[old])
<1>1. w \in Contexts /\ DOMAIN w.own = D
  BY ContextParts DEF ContextInv
<1>2. u.th = w.th /\ u.tracees = tr /\ u.own = ow
  <2> HIDE DEF tr, ow
  <2>1. [w EXCEPT !.tracees = tr, !.own = ow].th = w.th
    BY <1>1 DEF Contexts
  <2> QED BY <1>1 DEF TryUpdateTraceePID, Contexts, tr, ow
<1>3. /\ DOMAIN tr = (D \ {old}) \cup {p} /\ DOMAIN ow = (D \ {old}) \cup {p}
      /\ tr[p] = w.tracees[old] /\ ow[p] = w.own[old]
      /\ \A q \in D \ {old, p} : tr[q] = w.tracees[q] /\ ow[q] = w.own[q]
  BY <1>1 DEF With, Without, Restrict
<1>4. /\ ThreadsFit(w.th) /\ ExecFit(w.th) /\ OwnFit(w.own) /\ FlagsFit(w.tracees)
      /\ TracedFit(w.th, D) /\ LostFit(w.th, D, {p}) /\ w.th[p].at = "EV_EXEC"
  BY DEF FitsBut
<1> HIDE DEF u, tr, ow, D
<1>5. leader[p] = p /\ old # p /\ leader[old] = NoPid /\ old \in D
  BY <1>4 DEF ExecFit, D
<1> HIDE DEF old
<1>6. OwnFit(ow)
  BY <1>1, <1>3, <1>4, <1>5 DEF OwnFit
<1>7. FlagsFit(tr)
  BY <1>3, <1>4, <1>5 DEF FlagsFit, D
<1>8. TracedFit(w.th, DOMAIN tr)
  BY <1>3, <1>4, <1>5 DEF TracedFit
<1>9. LostFit(w.th, DOMAIN tr, {p})
  <2>1. leader[p] # NoPid
    BY <1>5, PidsAssumption
  <2> QED BY <1>3, <1>4, <2>1 DEF LostFit
<1> QED
  BY <1>2, <1>4, <1>6, <1>7, <1>8, <1>9 DEF FitsBut, old, u

\* The execve() of a thread whose PID is not in m_tracees.
LEMMA HandleUnknownExecFits ==
  ASSUME Inv, ~MayDetach, \A q \in Pids : th[q].at # "EV_CHILD",
         NEW w, ContextInv(w), w.born = NoPid, NEW p \in Pids, th[p].at = "EV_EXEC", FitsBut(w, p, "EV_EXEC"),
         p \notin DOMAIN w.tracees, NEW x \in HandleUnknownExec(w, p)
  PROVE  Fits(x)
<1> DEFINE T == KillGroup(w.th, p)
           k == [w EXCEPT !.th = T, !.ex = "ESRCH"]
           u == TryUpdateTraceePID(w, msg[p], p)
           D == DOMAIN w.tracees
           in == [kill |-> "request"]
<1>1. \/ x = k
      \/ msg[p] \in D /\ x \in HandleKnown(u, p)
      \/ msg[p] \notin D /\ x = w
  BY DEF HandleUnknownExec
<1>2. /\ ThreadsFit(w.th) /\ ExecFit(w.th) /\ OwnFit(w.own) /\ FlagsFit(w.tracees)
      /\ TracedFit(w.th, D) /\ LostFit(w.th, D, {p}) /\ w.th[p].at = "EV_EXEC"
  BY DEF FitsBut
<1>3. w.th \in [Pids -> Thread] /\ w \in Contexts /\ D \subseteq Pids /\ NoPid \notin Pids
  BY ContextParts, PidsAssumption DEF ContextInv
<1>4. w.th[p].run = "stop" /\ leader[p] = p /\ Group(p) = {p} /\ (msg[p] = p \/ leader[msg[p]] = NoPid)
  BY <1>2 DEF ExecFit
<1>5. /\ T[p] = Kill(w.th[p]) /\ \A q \in Pids \ {p} : T[q] = w.th[q]
      /\ k.th = T /\ k.tracees = w.tracees /\ k.own = w.own
  <2>1. /\ T[p] = Kill(w.th[p]) /\ \A q \in Pids \ {p} : T[q] = w.th[q]
    BY <1>4 DEF KillGroup
  <2> HIDE DEF T
  <2> QED BY <1>3, <2>1 DEF Contexts
<1> HIDE DEF T, k
<1>6. /\ Down(T[p]) /\ T[p].fatal /\ T[p].traced = w.th[p].traced /\ T[p].at # "EV_CHILD"
      /\ Tends(in, w.th[p], T[p]) /\ \A q \in Pids : Tends(in, w.th[q], w.th[q])
  <2>1. /\ Tends(in, w.th[p], Kill(w.th[p])) /\ \A q \in Pids : Tends(in, w.th[q], w.th[q])
    BY <1>3, KillTends
  <2>2. Kill(w.th[p]).at # "EV_CHILD"
    BY <1>2, <1>3, KillFacts
  <2> QED BY <1>2, <1>3, <1>4, <1>5, <2>1, <2>2, KillFacts
<1>7. Fits(k)
  <2>1. ThreadsFit(T) /\ ExecFit(T)
    <3>1. \A q \in Pids : Tends(in, w.th[q], T[q]) /\ T[q].at # "EV_CHILD"
      BY <1>2, <1>5, <1>6 DEF ThreadsFit
    <3>2. \A q \in Pids : T[q].fatal => w.th[q].fatal \/ q \in Group(p)
      BY <1>4, <1>5
    <3>3. \A q \in Group(p) : Down(T[q])
      BY <1>4, <1>6
    <3>4. in.kill # "no"
      OBVIOUS
    <3> HIDE DEF in
    <3> QED BY <1>2, <3>1, <3>2, <3>3, <3>4, ThreadsTend
  <2>2. TracedFit(T, D)
    BY <1>2, <1>3, <1>4, <1>5 DEF TracedFit
  <2>3. LostFit(T, D, {})
    <3> SUFFICES ASSUME NEW q \in D, leader[q] = NoPid PROVE \E m \in Pids \ {q} : Tells(T, m, q, {})
      BY DEF LostFit
    <3>1. PICK m \in Pids \ {q} : Tells(w.th, m, q, {p})
      BY <1>2 DEF LostFit
    <3>2. Tells(T, m, q, {})
      BY <1>5, <1>6, <3>1 DEF Tells
    <3> QED BY <3>2
  <2> QED BY <1>2, <1>5, <2>1, <2>2, <2>3 DEF Fits
<1>8. ASSUME msg[p] \in D, x \in HandleKnown(u, p) PROVE Fits(x)
  <2>1. p \in Known(w.announced)
    <3>1. p \in Known(announced)
      BY DEF Inv, UnheardInv
    <3>2. announced \subseteq w.announced
      BY DEF ContextInv
    <3> QED BY <3>1, <3>2 DEF Known
  <2>2. ContextInv(u) /\ u.born = NoPid /\ p \in DOMAIN u.tracees
    BY <1>8, <2>1, TryUpdateTraceePIDInv
  <2>3. FitsBut(u, p, "EV_EXEC")
    BY <1>8, TryUpdateTraceePIDFits
  <2> HIDE DEF u
  <2> QED BY <1>8, <2>2, <2>3, HandleKnownFits
<1>9. ASSUME msg[p] \notin D PROVE Fits(w)
  <2>1. ASSUME NEW q \in D, NEW m \in Pids \ {q}, Tells(w.th, m, q, {p}) PROVE Tells(w.th, m, q, {})
    BY <1>9, <2>1 DEF Tells
  <2>2. LostFit(w.th, D, {})
    BY <1>2, <2>1 DEF LostFit
  <2> QED BY <1>2, <2>2 DEF Fits
<1> QED
  BY <1>1, <1>7, <1>8, <1>9


\* handleEvent() of the Engine, also for an unknown PID.
LEMMA HandledFits ==
  ASSUME Inv, ~MayDetach, \A q \in Pids : th[q].at # "EV_CHILD",
         NEW w, ContextInv(w), w.born = NoPid, DOMAIN w.tracees = DOMAIN tracees,
         NEW p \in Pids, FitsBut(w, p, th[p].at), NEW x \in Handled(w, p)
  PROVE  Fits(x)
<1> DEFINE un == IF p \in DOMAIN w.unknown THEN w.unknown ELSE With(w.unknown, p, th[p].at)
           s == [w EXCEPT !.unknown = un]
<1>1. CASE p \in DOMAIN tracees
  BY <1>1, HandleKnownFits DEF Handled
<1>2. CASE p \notin DOMAIN tracees
  <2>1. \/ th[p].at = "EV_EXEC" /\ x \in HandleUnknownExec(w, p)
        \/ th[p].at # "EV_EXEC" /\ x \in {s, w}
    BY <1>2 DEF Handled, CheckUnknownTraceeEvent
  <2>2. s.th = w.th /\ s.tracees = w.tracees /\ s.own = w.own
    <3> HIDE DEF un
    <3> QED BY DEF ContextInv, Contexts
  <2> HIDE DEF s
  <2>3. ASSUME th[p].at # "EV_EXEC" PROVE Fits(w)
    <3>1. /\ ThreadsFit(w.th) /\ ExecFit(w.th) /\ OwnFit(w.own) /\ FlagsFit(w.tracees)
          /\ LostFit(w.th, DOMAIN w.tracees, {})
      BY <2>3 DEF FitsBut
    <3>2. TracedFit(w.th, DOMAIN w.tracees)
      <4>1. DOMAIN w.tracees \ (IF th[p].at = "ENDED" THEN {p} ELSE {}) = DOMAIN w.tracees
        BY <1>2
      <4> QED BY <4>1 DEF FitsBut
    <3> QED BY <3>1, <3>2 DEF Fits
  <2>4. Fits(w) => Fits(s)
    BY <2>2 DEF Fits
  <2>5. CASE th[p].at = "EV_EXEC"
    BY <1>2, <2>1, <2>5, HandleUnknownExecFits
  <2> QED BY <2>1, <2>3, <2>4, <2>5
<1> QED
  BY <1>1, <1>2

\* wait() has returned the status of the thread.
LEMMA EngineHandleEventFits ==
  ASSUME Inv, PidsKept, ExecInv, NEW p \in Pids, EngineHandleEvent(p) PROVE ExecInv'
<1> DEFINE w == [Context EXCEPT !.th[p] = Collect(@)]
           c == Collect(th[p])
           D == DOMAIN tracees
           e == th[p].at
<1>1. /\ over = "no" /\ th[p].status
      /\ \E x \in Handled(w, p) : th' = x.th /\ tracees' = x.tracees /\ own' = x.own
      /\ leader' = leader /\ msg' = msg
  BY DEF EngineHandleEvent, EventPending, Reportable, threadVars
<1>2. /\ ContextInv(w) /\ w.th = [th EXCEPT ![p] = Collect(th[p])]
      /\ w.tracees = tracees /\ w.own = own /\ w.born = NoPid
  BY CollectedContext
<1>3. /\ th \in [Pids -> Thread] /\ D \subseteq Pids
  BY MapFacts DEF Inv, TypeInv
<1>4. /\ ThreadsFit(th) /\ ExecFit(th) /\ OwnFit(own) /\ TracedFit(th, D) /\ FlagsFit(tracees) /\ LostFit(th, D, {})
  BY <1>1 DEF ExecInv
<1>5. th[p].at # "EV_CHILD" /\ (th[p].run = "zombie" => e = "ENDED")
  BY <1>4 DEF ThreadsFit
<1> HIDE DEF w
<1>6. /\ c.nr = th[p].nr /\ c.traced = th[p].traced /\ c.fatal = th[p].fatal
      /\ IF th[p].run = "zombie" THEN c.run = "gone" /\ c.at = "none" ELSE c.run = th[p].run /\ c.at = th[p].at
  BY <1>3 DEF Collect, Thread
<1> HIDE DEF c
<1>7. w.th[p] = c /\ \A q \in Pids \ {p} : w.th[q] = th[q]
  BY <1>2, <1>3 DEF c
<1>8. \A q \in Pids : Doomed(th[q]) => Doomed(w.th[q])
  BY <1>6, <1>7 DEF Doomed, Down
<1>9. ThreadsFit(w.th)
  <2>1. ASSUME NEW q \in Pids
        PROVE  /\ w.th[q].nr # "clone" /\ w.th[q].at # "EV_CHILD"
               /\ w.th[q].run = "zombie" => w.th[q].at = "ENDED"
               /\ w.th[q].fatal => th[q].fatal
    BY <1>4, <1>6, <1>7 DEF ThreadsFit
  <2>2. ASSUME NEW q \in Pids, w.th[q].fatal, leader[q] # NoPid, NEW r \in Group(q) PROVE Doomed(w.th[r])
    <3>1. Doomed(th[r]) /\ r \in Pids
      BY <1>4, <2>1, <2>2 DEF ThreadsFit, Group
    <3> QED BY <1>8, <3>1
  <2> QED BY <2>1, <2>2 DEF ThreadsFit
<1>10. ExecFit(w.th) /\ (w.th[p].at = "EV_EXEC" <=> e = "EV_EXEC")
  <2>1. \A q \in Pids : w.th[q].at = "EV_EXEC" => th[q].at = "EV_EXEC" /\ w.th[q].run = th[q].run
    BY <1>6, <1>7
  <2>2. e = "EV_EXEC" => th[p].run # "zombie"
    BY <1>5
  <2> QED BY <1>4, <1>6, <1>7, <2>1, <2>2 DEF ExecFit
<1>11. TracedFit(w.th, D \ (IF e = "ENDED" THEN {p} ELSE {}))
  <2>1. e # "ENDED" => c.run = th[p].run
    BY <1>5, <1>6
  <2> QED BY <1>3, <1>4, <1>6, <1>7, <2>1 DEF TracedFit
<1>12. LostFit(w.th, D, IF e = "EV_EXEC" THEN {p} ELSE {})
  <2> DEFINE S == IF e = "EV_EXEC" THEN {p} ELSE {}
  <2>1. ASSUME NEW q \in D, NEW m \in Pids \ {q}, Tells(th, m, q, {}) PROVE Tells(w.th, m, q, S)
    <3>1. m = p /\ Announces(th[m]) => m \in S
      BY DEF Announces
    <3> HIDE DEF S
    <3> QED BY <1>6, <1>7, <2>1, <3>1 DEF Tells
  <2> HIDE DEF S
  <2>2. LostFit(w.th, D, S)
    BY <1>4, <2>1 DEF LostFit
  <2> QED BY <2>2 DEF S
<1>13. FitsBut(w, p, e)
  BY <1>2, <1>4, <1>9, <1>10, <1>11, <1>12 DEF FitsBut
<1>14. PICK x \in Handled(w, p) : th' = x.th /\ tracees' = x.tracees /\ own' = x.own
  BY <1>1
<1>15. Fits(x)
  <2>1. \A q \in Pids : th[q].at # "EV_CHILD"
    BY <1>4 DEF ThreadsFit
  <2> QED BY <1>2, <1>13, <2>1, HandledFits DEF PidsKept
<1> QED
  BY <1>1, <1>14, <1>15 DEF Fits, ExecInv, ThreadsFit, ExecFit, OwnFit, TracedFit, FlagsFit, LostFit, Tells, Group


(* The steps of the threads. *)

\* What a thread does of itself, or suffers when its process ends, but for execve():
\* it makes no other thread, and what is doomed stays so.
Lives(a, b) ==
    /\ b.nr # "clone" /\ b.at # "EV_CHILD" /\ (b.run = "zombie" => b.at = "ENDED")
    /\ b.at = "EV_EXEC" => a.at = "EV_EXEC" /\ b.run = a.run
    /\ a.traced /\ a.run # "gone" => b.traced /\ b.run # "gone"
    /\ Doomed(a) => Doomed(b)
    /\ a.fatal => b.fatal
    /\ Announces(a) => Announces(b) \/ b.fatal

\* Such steps keep the invariant if a signal ends whole processes only.
LEMMA LivesStep ==
  ASSUME ExecInv, \A q \in Pids : Lives(th[q], th'[q]),
         \A q \in Pids : th'[q].fatal /\ ~th[q].fatal => \A r \in Group(q) : Doomed(th'[r]),
         leader' = leader, msg' = msg, UNCHANGED engineVars, DOMAIN tracees \subseteq Pids
  PROVE  ExecInv'
<1> DEFINE D == DOMAIN tracees
<1>1. /\ ThreadsFit(th) /\ ExecFit(th) /\ OwnFit(own) /\ TracedFit(th, D)
      /\ over = "no" => FlagsFit(tracees)
      /\ LostFit(th, D, {})
  BY DEF ExecInv
<1>2. \A q \in Pids : Group(q)' = Group(q)
  BY DEF Group
<1>3. ThreadsFit(th)'
  <2>1. ASSUME NEW q \in Pids, th'[q].fatal, leader[q] # NoPid, NEW r \in Group(q) PROVE Doomed(th'[r])
    <3>1. CASE th[q].fatal
      <4>1. Doomed(th[r]) /\ r \in Pids
        BY <1>1, <2>1, <3>1 DEF ThreadsFit, Group
      <4> QED BY <4>1 DEF Lives
    <3> QED BY <2>1, <3>1
  <2>2. \A q \in Pids : /\ th'[q].nr # "clone" /\ th'[q].at # "EV_CHILD"
                        /\ th'[q].run = "zombie" => th'[q].at = "ENDED"
    BY DEF Lives
  <2> QED BY <1>2, <2>1, <2>2 DEF ThreadsFit, Doomed, Down
<1>4. ExecFit(th)'
  <2>1. \A q \in Pids : th'[q].at = "EV_EXEC" => th[q].at = "EV_EXEC" /\ th'[q].run = th[q].run
    BY DEF Lives
  <2> QED BY <1>1, <1>2, <2>1 DEF ExecFit
<1>5. TracedFit(th, D)'
  <2>1. \A q \in Pids : th[q].traced /\ th[q].run # "gone" => th'[q].traced /\ th'[q].run # "gone"
    BY DEF Lives
  <2> QED BY <1>1, <2>1 DEF TracedFit, engineVars
<1>6. LostFit(th, D, {})'
  <2>1. ASSUME NEW q, NEW m \in Pids \ {q}, Tells(th, m, q, {}) PROVE Tells(th, m, q, {})'
    <3>1. /\ th[m].fatal => th'[m].fatal
          /\ Announces(th[m]) => Announces(th'[m]) \/ th'[m].fatal
      BY DEF Lives
    <3>2. msg'[m] = q /\ leader'[m] = m /\ (Announces(th'[m]) \/ th'[m].fatal)
      BY <2>1, <3>1 DEF Tells
    <3> QED BY <3>2 DEF Tells, Announces
  <2> QED BY <1>1, <2>1 DEF LostFit, engineVars
<1>7. OwnFit(own)' /\ (over' = "no" => FlagsFit(tracees)')
  BY <1>1 DEF OwnFit, FlagsFit, engineVars
<1> QED
  BY <1>3, <1>4, <1>5, <1>6, <1>7 DEF ExecInv

\* What a thread does of itself is such a step.
LEMMA OwnLives ==
  ASSUME NEW k \in Thread, k.nr # "clone", k.at # "EV_CHILD", k.run = "zombie" => k.at = "ENDED",
         k.at = "EV_EXEC" => k.run = "stop"
  PROVE  /\ Lives(k, k)
         /\ \A c \in Calls \ {"clone"} : CanEnterCall(k) => LET b == EnterCall(k, c) IN Lives(k, b) /\ b.fatal = k.fatal
         /\ CanLeaveCall(k) => LET b == LeaveCall(k) IN Lives(k, b) /\ b.fatal = k.fatal
         /\ CanTrap(k) => LET b == TakeTrap(k) IN Lives(k, b) /\ b.fatal = k.fatal
         /\ k.run = "dying" => LET b == ExitStop(k) IN Lives(k, b) /\ b.fatal = k.fatal
         /\ k.run = "dying" /\ k.traced => LET b == Die(k, FALSE) IN Lives(k, b) /\ b.fatal = k.fatal
         /\ k.run = "dying" /\ ~k.traced => LET b == [k EXCEPT !.run = "gone"] IN Lives(k, b) /\ b.fatal = k.fatal
         /\ CanExit(k) => LET b == Exit(k) IN Lives(k, b) /\ b.fatal = k.fatal /\ Doomed(b)
         /\ Lives(k, Kill(k))
         /\ k.at # "EV_EXEC" => LET b == [Kill(k) EXCEPT !.fatal = k.fatal] IN Lives(k, b) /\ b.fatal = k.fatal
<1>1. k.run # "stop" => k.at # "EV_EXEC"
  OBVIOUS
<1>2. Lives(k, k)
  BY DEF Lives
<1> DEFINE Halts(b) == /\ b.run = "stop" /\ b.at \in {"SYS_ENTRY", "SYS_EXIT", "EV_STOP_SIG", "EV_STOP_TRAP"}
                       /\ b.nr # "clone" /\ b.traced = k.traced /\ b.fatal = k.fatal
           Runs(b) == /\ b.run = "run" /\ b.at \notin {"EV_EXEC", "EV_CHILD"}
                      /\ b.nr # "clone" /\ b.traced = k.traced /\ b.fatal = k.fatal
<1>3. ASSUME k.run = "run", NEW b, Halts(b) \/ Runs(b) PROVE Lives(k, b) /\ b.fatal = k.fatal
  BY <1>1, <1>3 DEF Lives, Doomed, Down, Announces
<1>4. ASSUME NEW x \in Thread, x.nr # "clone", x.traced = k.traced, x.fatal = k.fatal PROVE Halts(TakeTrap(x))
  <2>1. /\ TakeTrap(x).run = "stop" /\ TakeTrap(x).at \in {"EV_STOP_SIG", "EV_STOP_TRAP"}
        /\ TakeTrap(x).nr = x.nr /\ TakeTrap(x).traced = x.traced /\ TakeTrap(x).fatal = x.fatal
    BY DEF TakeTrap, StopAt, Thread
  <2> QED BY <1>4, <2>1
<1>5. ASSUME NEW c \in Calls \ {"clone"}, CanEnterCall(k)
      PROVE  LET b == EnterCall(k, c) IN Lives(k, b) /\ b.fatal = k.fatal
  <2> DEFINE e == [k EXCEPT !.insys = TRUE, !.nr = c]
             h == StopAt(e, "SYS_ENTRY")
  <2>1. /\ e \in Thread /\ e.run = k.run /\ e.at = k.at /\ e.nr = c /\ e.traced = k.traced /\ e.fatal = k.fatal
    BY DEF Thread
  <2>2. EnterCall(k, c) \in {e, h}
    BY DEF EnterCall
  <2> HIDE DEF e
  <2>3. Halts(h)
    BY <2>1 DEF StopAt, Thread
  <2>4. k.run = "run"
    BY <1>5 DEF CanEnterCall
  <2>5. Runs(e)
    BY <1>1, <2>1, <2>4
  <2> HIDE DEF h, Halts, Runs
  <2> QED BY <1>3, <2>2, <2>3, <2>4, <2>5
<1>6. ASSUME CanLeaveCall(k) PROVE LET b == LeaveCall(k) IN Lives(k, b) /\ b.fatal = k.fatal
  <2> DEFINE e == [k EXCEPT !.insys = FALSE]
             h == StopAt(e, "SYS_EXIT")
             r == [e EXCEPT !.run = "run", !.at = "none", !.status = FALSE]
  <2>1. /\ e \in Thread /\ e.nr = k.nr /\ e.traced = k.traced /\ e.fatal = k.fatal
    BY DEF Thread
  <2>2. LeaveCall(k) \in {h, TakeTrap(e), r}
    BY DEF LeaveCall, Leave
  <2> HIDE DEF e
  <2>3. Halts(h)
    BY <2>1 DEF StopAt, Thread
  <2>4. Runs(r)
    BY <2>1 DEF Thread
  <2>5. Halts(TakeTrap(e))
    BY <1>4, <2>1
  <2>6. k.run = "run"
    BY <1>6 DEF CanLeaveCall
  <2> HIDE DEF h, r, Halts, Runs
  <2> QED BY <1>3, <2>2, <2>3, <2>4, <2>5, <2>6
<1>7. ASSUME CanTrap(k) PROVE LET b == TakeTrap(k) IN Lives(k, b) /\ b.fatal = k.fatal
  <2>1. Halts(TakeTrap(k))
    BY <1>4
  <2>2. k.run = "run"
    BY <1>7 DEF CanTrap
  <2> HIDE DEF Halts, Runs
  <2> QED BY <1>3, <2>1, <2>2
<1>8. ASSUME k.run = "dying" PROVE LET b == ExitStop(k) IN Lives(k, b) /\ b.fatal = k.fatal
  <2>1. LET b == ExitStop(k) IN /\ b.run = "stop" /\ b.at = "EV_EXIT" /\ b.nr = k.nr /\ b.traced = k.traced
                                /\ b.fatal = k.fatal
    BY DEF ExitStop, StopAt, Thread
  <2> QED BY <1>1, <1>8, <2>1 DEF Lives, Doomed, Down, Announces
<1>9. ASSUME k.run = "dying", k.traced PROVE LET b == Die(k, FALSE) IN Lives(k, b) /\ b.fatal = k.fatal
  <2>1. LET b == Die(k, FALSE) IN /\ b.run = "zombie" /\ b.at = "ENDED" /\ b.nr = k.nr /\ b.traced = k.traced
                                  /\ b.fatal = k.fatal
    BY DEF Die, Thread
  <2> QED BY <1>1, <1>9, <2>1 DEF Lives, Doomed, Down, Announces
<1>10. ASSUME k.run = "dying", ~k.traced
       PROVE  LET b == [k EXCEPT !.run = "gone"] IN Lives(k, b) /\ b.fatal = k.fatal
  <2>1. LET b == [k EXCEPT !.run = "gone"] IN /\ b.run = "gone" /\ b.at = k.at /\ b.nr = k.nr /\ b.traced = k.traced
                                              /\ b.fatal = k.fatal
    BY DEF Thread
  <2> QED BY <1>1, <1>10, <2>1 DEF Lives, Doomed, Down, Announces
<1>11. ASSUME CanExit(k) PROVE LET b == Exit(k) IN Lives(k, b) /\ b.fatal = k.fatal /\ Doomed(b)
  <2>1. LET b == Exit(k) IN /\ b.run = "dying" /\ b.at = k.at /\ b.nr = k.nr /\ b.traced = k.traced
                            /\ b.fatal = k.fatal
    BY DEF Exit, Thread
  <2>2. k.run = "run"
    BY <1>11 DEF CanExit
  <2> QED BY <1>1, <2>1, <2>2 DEF Lives, Doomed, Down, Announces
<1> DEFINE d == Kill(k)
           x == [d EXCEPT !.fatal = k.fatal]
<1>12. /\ d \in Thread /\ Down(d) /\ d.nr = k.nr /\ d.traced = k.traced
       /\ d.run = "gone" => k.run = "gone"
       /\ d.run = "zombie" => d.at = "ENDED"
       /\ d.at \in {"EV_EXEC", "EV_CHILD"} => d = k
       /\ k.fatal => d.fatal
       /\ k.run = "stop" /\ k.at = "EV_EXEC" => d.fatal
  BY KillFacts
<1> HIDE DEF d
<1>13. Lives(k, d)
  BY <1>12 DEF Lives, Doomed, Announces
<1>14. /\ x.run = d.run /\ x.at = d.at /\ x.nr = d.nr /\ x.traced = d.traced /\ x.fatal = k.fatal
  BY <1>12 DEF Thread
<1> HIDE DEF x
<1>15. k.at # "EV_EXEC" => Lives(k, x)
  BY <1>12, <1>14 DEF Lives, Doomed, Down, Announces
<1> QED
  BY <1>2, <1>5, <1>6, <1>7, <1>8, <1>9, <1>10, <1>11, <1>13, <1>14, <1>15 DEF d, x


\* The steps of one thread, of a process that ends and of the beginning of an execve().
LEMMA ThreadStepsExec ==
  ASSUME Inv, PidsKept, ExecInv, NEW p \in Pids,
         \/ EnterSyscall(p) \/ LeaveSyscall(p) \/ InterruptStop(p) \/ ThreadEnds(p)
         \/ CallExit(p) \/ ExecBegins(p) \/ KillProcess(p)
  PROVE  ExecInv'
<1>1. th \in [Pids -> Thread] /\ th[p] \in Thread /\ DOMAIN tracees \subseteq Pids
  BY MapFacts DEF Inv, TypeInv
<1>2. ThreadsFit(th) /\ ExecFit(th)
  BY DEF ExecInv
<1>3. \A q \in Pids : /\ th[q] \in Thread /\ th[q].nr # "clone" /\ th[q].at # "EV_CHILD"
                      /\ th[q].run = "zombie" => th[q].at = "ENDED"
                      /\ th[q].at = "EV_EXEC" => th[q].run = "stop"
  BY <1>1, <1>2 DEF ThreadsFit, ExecFit
<1>4. \A q \in Pids : Lives(th[q], th[q])
  BY <1>3, OwnLives
<1>5. ASSUME NEW k, ThreadStep(p, k), Lives(th[p], k), k.fatal = th[p].fatal PROVE ExecInv'
  <2>1. th' = [th EXCEPT ![p] = k] /\ leader' = leader /\ msg' = msg /\ UNCHANGED engineVars
    BY <1>5 DEF ThreadStep, threadVars
  <2>2. \A q \in Pids : Lives(th[q], th'[q]) /\ th'[q].fatal = th[q].fatal
    BY <1>1, <1>4, <1>5, <2>1
  <2> QED BY <1>1, <2>1, <2>2, LivesStep
<1>6. CASE EnterSyscall(p)
  <2>1. PICK c \in ThreadCalls : ThreadStep(p, EnterCall(th[p], c))
    BY <1>6 DEF EnterSyscall
  <2>2. c \in Calls \ {"clone"} /\ CanEnterCall(th[p])
    BY <1>6, InputAssumption DEF PidsKept, EnterSyscall
  <2> QED BY <1>3, <1>5, <2>1, <2>2, OwnLives
<1>7. CASE LeaveSyscall(p)
  BY <1>3, <1>5, <1>7, OwnLives DEF LeaveSyscall
<1>8. CASE InterruptStop(p)
  BY <1>3, <1>5, <1>8, OwnLives DEF InterruptStop
<1>9. CASE ThreadEnds(p)
  <2>1. th[p].run = "dying"
    BY <1>9 DEF ThreadEnds, ReportExit, ThreadDies
  <2>2. \/ ThreadStep(p, ExitStop(th[p]))
        \/ th[p].traced /\ ThreadStep(p, Die(th[p], FALSE))
        \/ ~th[p].traced /\ ThreadStep(p, [th[p] EXCEPT !.run = "gone"])
    BY <1>9 DEF ThreadEnds, ReportExit, ThreadDies
  <2> QED BY <1>3, <1>5, <2>1, <2>2, OwnLives
<1> DEFINE B == Zap(th, p)
<1>10. /\ B \in [Pids -> Thread] /\ B[p] = th[p]
       /\ \A q \in Pids : Lives(th[q], B[q]) /\ B[q].fatal = th[q].fatal
  <2>1. B \in [Pids -> Thread]
    BY <1>1, GroupType
  <2>2. \A q \in Pids : B[q] = IF q \in Group(p) \ {p} THEN [Kill(th[q]) EXCEPT !.fatal = th[q].fatal] ELSE th[q]
    BY DEF Zap
  <2>3. ASSUME NEW q \in Group(p) \ {p} PROVE th[q].at # "EV_EXEC" /\ q \in Pids
    <3>1. q \in Pids /\ p \in Group(q)
      BY <2>3 DEF Group
    <3> QED BY <1>2, <2>3, <3>1 DEF ExecFit
  <2> HIDE DEF B
  <2>4. p \notin Group(p) \ {p}
    OBVIOUS
  <2>5. ASSUME NEW q \in Group(p) \ {p} PROVE Lives(th[q], B[q]) /\ B[q].fatal = th[q].fatal
    <3> DEFINE b == [Kill(th[q]) EXCEPT !.fatal = th[q].fatal]
    <3>1. Lives(th[q], b) /\ b.fatal = th[q].fatal
      BY <1>3, <2>3, <2>5, OwnLives
    <3>2. B[q] = b
      BY <2>2, <2>3, <2>5
    <3> QED BY <3>1, <3>2
  <2>6. ASSUME NEW q \in Pids, q \notin Group(p) \ {p} PROVE Lives(th[q], B[q]) /\ B[q].fatal = th[q].fatal
    BY <1>4, <2>2, <2>6
  <2> QED BY <2>1, <2>2, <2>4, <2>5, <2>6
<1>11. CASE CallExit(p)
  <2> DEFINE k == Exit(B[p])
  <2>1. th' = [B EXCEPT ![p] = k] /\ leader' = leader /\ msg' = msg /\ UNCHANGED engineVars
    BY <1>11 DEF CallExit, threadVars
  <2>2. Lives(th[p], k) /\ k.fatal = th[p].fatal
    <3> HIDE DEF B
    <3> QED BY <1>3, <1>10, <1>11, OwnLives DEF CallExit
  <2> HIDE DEF B, k
  <2>3. \A q \in Pids : Lives(th[q], th'[q]) /\ th'[q].fatal = th[q].fatal
    BY <1>10, <2>1, <2>2
  <2> QED BY <1>1, <2>1, <2>3, LivesStep
<1>12. CASE ExecBegins(p)
  <2>1. th' = B /\ leader' = leader /\ msg' = msg /\ UNCHANGED engineVars
    BY <1>12 DEF ExecBegins
  <2> HIDE DEF B
  <2> QED BY <1>1, <1>10, <2>1, LivesStep
<1>13. CASE KillProcess(p)
  <2>1. th' = KillGroup(th, p) /\ leader' = leader /\ msg' = msg /\ UNCHANGED engineVars
    BY <1>13 DEF KillProcess, threadVars
  <2>2. \A q \in Pids : th'[q] = IF q \in Group(p) THEN Kill(th[q]) ELSE th[q]
    BY <2>1 DEF KillGroup
  <2>3. \A q \in Pids : Lives(th[q], th'[q])
    BY <1>3, <1>4, <2>2, OwnLives
  <2>4. ASSUME NEW q \in Group(p) PROVE Doomed(th'[q])
    <3>1. q \in Pids
      BY <2>4 DEF Group
    <3> QED BY <1>3, <2>2, <2>4, <3>1, KillFacts DEF Doomed
  <2>5. ASSUME NEW q \in Pids, th'[q].fatal, ~th[q].fatal, NEW r \in Group(q) PROVE Doomed(th'[r])
    <3>1. q \in Group(p)
      BY <2>2, <2>5
    <3>2. r \in Group(p)
      BY <2>5, <3>1 DEF Group
    <3> QED BY <2>4, <3>2
  <2> QED BY <1>1, <2>1, <2>3, <2>5, LivesStep
<1> QED
  BY <1>6, <1>7, <1>8, <1>9, <1>11, <1>12, <1>13

\* The thread that called execve() is the main thread from now on.  If it was not,
\* its Tracee is the one that is to be found under the PID that is gone.
LEMMA ExecDoneExec ==
  ASSUME Inv, ExecInv, NEW p \in Pids, ExecDone(p) PROVE ExecInv'
<1> DEFINE m == leader[p]
           new == [IF th[p].traced THEN StopAt(th[p], "EV_EXEC") ELSE th[p] EXCEPT !.nr = "read"]
           D == DOMAIN tracees
<1>1. /\ th[p].run = "run"
      /\ \A q \in Group(p) \ {p} : IF q = m THEN Ended(q) ELSE th[q].run = "gone"
      /\ UNCHANGED engineVars
      /\ th' = [[th EXCEPT ![p] = NewThread] EXCEPT ![m] = new]
      /\ leader' = [q \in Pids |-> IF leader[q] = m /\ q # m THEN NoPid ELSE leader[q]]
      /\ msg' = [msg EXCEPT ![m] = p]
  BY DEF ExecDone
<1>2. /\ th \in [Pids -> Thread] /\ leader \in [Pids -> Pids \cup {NoPid}] /\ msg \in [Pids -> Pids]
      /\ LeadInv /\ ThreadsInv /\ NoPid \notin Pids /\ D \subseteq Pids
  BY PidsAssumption, MapFacts DEF Inv, TypeInv
<1>3. m # NoPid /\ m \in Pids /\ leader[m] = m /\ th[p].at = "none"
  BY <1>1, <1>2 DEF LeadInv, ThreadsInv
<1>4. /\ ThreadsFit(th) /\ ExecFit(th) /\ OwnFit(own) /\ TracedFit(th, D)
      /\ over = "no" => FlagsFit(tracees)
      /\ LostFit(th, D, {})
  BY DEF ExecInv
<1>5. /\ new.nr = "read" /\ new.traced = th[p].traced /\ new.fatal = th[p].fatal
      /\ IF th[p].traced THEN new.run = "stop" /\ new.at = "EV_EXEC" /\ new.status ELSE new.run = "run" /\ new.at = "none"
  <2> DEFINE s == StopAt(th[p], "EV_EXEC")
             a == [s EXCEPT !.nr = "read"]
             b == [th[p] EXCEPT !.nr = "read"]
  <2>1. /\ a.nr = "read" /\ a.traced = th[p].traced /\ a.fatal = th[p].fatal
        /\ a.run = "stop" /\ a.at = "EV_EXEC" /\ a.status
    BY <1>2 DEF StopAt, Thread
  <2>2. /\ b.nr = "read" /\ b.traced = th[p].traced /\ b.fatal = th[p].fatal
        /\ b.run = "run" /\ b.at = "none"
    BY <1>1, <1>2, <1>3 DEF Thread
  <2>3. new = IF th[p].traced THEN a ELSE b
    OBVIOUS
  <2> HIDE DEF new, a, b
  <2> QED BY <2>1, <2>2, <2>3
<1>6. /\ NewThread.run = "gone" /\ NewThread.at = "none" /\ NewThread.nr = "read" /\ ~NewThread.fatal
  BY DEF NewThread
<1> HIDE DEF new
<1>7. /\ th'[m] = new
      /\ \A q \in Pids \ {m} : th'[q] = IF q = p THEN NewThread ELSE th[q]
  <2> HIDE DEF m
  <2> QED BY <1>1, <1>2, <1>3
<1>8. /\ leader'[m] = m
      /\ \A q \in Pids \ {m} : leader'[q] = IF leader[q] = m THEN NoPid ELSE leader[q]
  BY <1>1, <1>2, <1>3
<1>9. msg'[m] = p /\ \A q \in Pids \ {m} : msg'[q] = msg[q]
  <2> HIDE DEF m
  <2> QED BY <1>1, <1>2, <1>3
<1>10. p \in Group(p) /\ m \in Group(p) /\ \A q \in Pids \ {m, p} : leader[q] = m => th[q].run = "gone"
  BY <1>1, <1>3 DEF Group
<1>11. \A q \in Group(p) : leader[q] = m /\ ~th[q].fatal /\ p \in Group(q)
  <2> TAKE q \in Group(p)
  <2>1. q \in Pids /\ leader[q] = m /\ p \in Group(q)
    BY <1>3 DEF Group
  <2>2. ~Doomed(th[p])
    BY <1>1 DEF Doomed, Down
  <2> QED BY <1>3, <1>4, <2>1, <2>2 DEF ThreadsFit
<1>12. tracees' = tracees /\ own' = own /\ over' = over
  BY <1>1 DEF engineVars
<1> HIDE DEF m
<1>13. ThreadsFit(th)'
  <2>1. ASSUME NEW q \in Pids
        PROVE  /\ th'[q].nr # "clone" /\ th'[q].at # "EV_CHILD"
               /\ th'[q].run = "zombie" => th'[q].at = "ENDED"
    BY <1>4, <1>5, <1>6, <1>7 DEF ThreadsFit
  <2>2. ASSUME NEW q \in Pids, th'[q].fatal, leader'[q] # NoPid, NEW r \in Group(q)' PROVE Doomed(th'[r])
    <3>1. q # m
      BY <1>5, <1>7, <1>10, <1>11, <2>2
    <3>2. leader[q] # m /\ leader[q] # NoPid /\ leader'[q] = leader[q]
      BY <1>8, <2>2, <3>1
    <3>3. r \in Pids /\ leader'[r] = leader[q]
      BY <2>2, <3>2 DEF Group
    <3>4. r # m /\ leader[r] = leader[q]
      BY <1>8, <3>2, <3>3
    <3>5. q # p /\ r # p
      BY <1>10, <1>11, <3>2, <3>4
    <3>6. r \in Group(q) /\ th[q].fatal
      BY <1>7, <2>2, <3>1, <3>2, <3>3, <3>4, <3>5 DEF Group
    <3>7. Doomed(th[r])
      BY <1>4, <3>2, <3>6 DEF ThreadsFit
    <3> QED BY <1>7, <3>3, <3>4, <3>5, <3>7
  <2> QED BY <2>1, <2>2 DEF ThreadsFit, Doomed, Down
<1>14. ExecFit(th)'
  <2>1. ASSUME NEW q \in Pids, th'[q].at = "EV_EXEC"
        PROVE  /\ th'[q].run = "stop" /\ leader'[q] = q /\ Group(q)' = {q}
               /\ msg'[q] = q \/ leader'[msg'[q]] = NoPid
    <3>1. CASE q = m
      <4>1. \A r \in Pids : leader'[r] = leader'[q] => r = q
        BY <1>2, <1>3, <1>8, <3>1
      <4>2. Group(q)' = {q}
        BY <1>2, <1>3, <1>8, <3>1, <4>1 DEF Group
      <4>3. p = m \/ leader'[p] = NoPid
        BY <1>8, <1>10, <1>11
      <4> QED BY <1>5, <1>7, <1>8, <1>9, <2>1, <3>1, <4>2, <4>3
    <3>2. CASE q # m
      <4>1. q # p /\ th'[q] = th[q]
        BY <1>6, <1>7, <2>1, <3>2
      <4>2. /\ th[q].run = "stop" /\ leader[q] = q /\ Group(q) = {q}
            /\ msg[q] = q \/ leader[msg[q]] = NoPid
        BY <1>4, <2>1, <4>1 DEF ExecFit
      <4>3. leader'[q] = q
        BY <1>8, <3>2, <4>2
      <4>4. ASSUME NEW r \in Pids, leader'[r] = q PROVE r = q
        <5>1. r # m /\ leader[r] = q
          BY <1>2, <1>8, <3>2, <4>4
        <5>2. r \in Group(q)
          BY <1>2, <4>2, <5>1 DEF Group
        <5> QED BY <4>2, <5>2
      <4>5. Group(q)' = {q}
        BY <1>2, <4>3, <4>4 DEF Group
      <4>6. msg'[q] = msg[q] /\ (leader[msg[q]] = NoPid => leader'[msg[q]] = NoPid)
        BY <1>2, <1>3, <1>8, <1>9, <3>2
      <4> QED BY <4>1, <4>2, <4>3, <4>5, <4>6
    <3> QED BY <3>1, <3>2
  <2> QED BY <2>1 DEF ExecFit
<1>15. OwnFit(own)'
  <2>1. \A q \in Pids : leader[q] = NoPid => leader'[q] = NoPid
    BY <1>3, <1>8
  <2>2. \A q \in DOMAIN own : own[q] \in Pids
    BY MapFacts DEF Inv, TypeInv
  <2> QED BY <1>4, <1>12, <2>1, <2>2 DEF OwnFit
<1>16. TracedFit(th, D)'
  <2>1. ASSUME NEW q \in D, leader'[q] \notin {q, NoPid} PROVE th'[q].traced /\ th'[q].run # "gone"
    <3>1. q \in Pids /\ q # m /\ leader[q] # m /\ leader[q] \notin {q, NoPid}
      BY <1>2, <1>8, <2>1
    <3>2. q # p
      BY <1>10, <1>11, <3>1
    <3> QED BY <1>4, <1>7, <2>1, <3>1, <3>2 DEF TracedFit
  <2> QED BY <1>12, <2>1 DEF TracedFit
<1>17. LostFit(th, D, {})'
  <2>1. ASSUME NEW q \in D, leader'[q] = NoPid PROVE \E n \in Pids \ {q} : Tells(th, n, q, {})'
    <3>1. CASE leader[q] = NoPid
      <4>1. PICK n \in Pids \ {q} : Tells(th, n, q, {})
        BY <1>4, <3>1 DEF LostFit
      <4>2. msg[n] = q /\ leader[n] = n /\ (Announces(th[n]) \/ th[n].fatal)
        BY <4>1 DEF Tells
      <4>3. n \notin Group(p)
        <5>1. ASSUME n \in Group(p) PROVE FALSE
          <6>1. ~th[n].fatal /\ p \in Group(n)
            BY <1>11, <5>1
          <6>2. th[n].at = "EV_EXEC" /\ th[n].run = "stop" /\ Group(n) = {n}
            BY <1>4, <4>2, <6>1 DEF Announces, ExecFit
          <6> QED BY <1>1, <6>1, <6>2
        <5> QED BY <5>1
      <4>4. n # p /\ n # m
        BY <1>10, <4>3
      <4>5. msg'[n] = q /\ leader'[n] = n /\ th'[n] = th[n]
        BY <1>7, <1>8, <1>9, <4>2, <4>4
      <4> QED BY <4>2, <4>5 DEF Tells, Announces
    <3>2. CASE leader[q] # NoPid
      <4>1. q \in Pids /\ q # m /\ leader[q] = m
        BY <1>2, <1>3, <1>8, <2>1, <3>2
      <4>2. th[q].traced /\ th[q].run # "gone"
        BY <1>3, <1>4, <4>1 DEF TracedFit
      <4>3. q = p
        BY <1>10, <4>1, <4>2
      <4>4. th'[m].at = "EV_EXEC" /\ th'[m].status
        BY <1>5, <1>7, <4>2, <4>3
      <4>5. msg'[m] = q /\ leader'[m] = m /\ m \in Pids \ {q}
        BY <1>3, <1>8, <1>9, <4>1, <4>3
      <4> QED BY <4>4, <4>5 DEF Tells, Announces
    <3> QED BY <3>1, <3>2
  <2> QED BY <1>12, <2>1 DEF LostFit
<1>18. over' = "no" => FlagsFit(tracees)'
  BY <1>4, <1>12 DEF FlagsFit
<1> QED
  BY <1>13, <1>14, <1>15, <1>16, <1>17, <1>18 DEF ExecInv

\* There is nothing that clone() is needed for, and no detach(); at the end Tracees go.
LEMMA OtherStepsExec ==
  ASSUME Inv, PidsKept, ExecInv,
         \/ HandleNoChildren \/ Stop \/ TraceReturns
         \/ \E p \in Pids : ConsumerDetach(p) \/ \E c \in Pids : Clone(p, c)
  PROVE  ExecInv'
<1>1. ThreadsFit(th) /\ ExecFit(th) /\ OwnFit(own) /\ TracedFit(th, DOMAIN tracees) /\ LostFit(th, DOMAIN tracees, {})
  BY DEF ExecInv
<1>2. ~Stop /\ \A p \in Pids : ~ConsumerDetach(p) /\ \A c \in Pids : ~Clone(p, c)
  <2>1. ASSUME NEW p \in Pids, NEW c \in Pids, Clone(p, c) PROVE FALSE
    <3>1. "EV_CHILD" \in CallEvents(th[p])
      BY <2>1 DEF Clone, CanReport
    <3>2. th[p].nr = "clone"
      BY <3>1 DEF CallEvents
    <3> QED BY <1>1, <3>2 DEF ThreadsFit
  <2> QED BY <2>1 DEF PidsKept, Stop, ConsumerDetach
<1>3. ASSUME NEW D \in SUBSET (DOMAIN tracees), DOMAIN tracees' = D, own' = Restrict(own, D), over' # "no",
             th' = th, leader' = leader, msg' = msg
      PROVE  ExecInv'
  <2>1. DOMAIN own = DOMAIN tracees
    BY DEF Inv, TypeInv
  <2>2. DOMAIN own' = D /\ \A q \in D : own'[q] = own[q]
    BY <1>3, <2>1 DEF Restrict
  <2>3. ThreadsFit(th)' /\ ExecFit(th)'
    BY <1>1, <1>3 DEF ThreadsFit, ExecFit, Group
  <2>4. OwnFit(own)'
    BY <1>1, <1>3, <2>1, <2>2 DEF OwnFit
  <2>5. TracedFit(th, DOMAIN tracees)' /\ LostFit(th, DOMAIN tracees, {})'
    BY <1>1, <1>3 DEF TracedFit, LostFit, Tells
  <2> QED BY <1>3, <2>3, <2>4, <2>5 DEF ExecInv
<1>4. Restrict(own, DOMAIN tracees) = own
  <2>1. own \in Maps(Pids) /\ DOMAIN own = DOMAIN tracees
    BY DEF Inv, TypeInv
  <2>2. own = [q \in DOMAIN own |-> own[q]]
    BY <2>1, MapFacts
  <2> QED BY <2>1, <2>2 DEF Restrict
<1>5. CASE HandleNoChildren
  <2> DEFINE left == {p \in DOMAIN tracees : ~Removed(DetachTracee([t |-> tracees[p], k |-> th[own[p]],
                                                                   v |-> view[p], ex |-> "none"]).t)}
  <2>1. /\ th' = th /\ leader' = leader /\ msg' = msg /\ over' # "no"
        /\ \/ DOMAIN tracees' = left /\ own' = Restrict(own, left)
           \/ tracees' = tracees /\ own' = own
    BY <1>5 DEF HandleNoChildren, threadVars
  <2>2. left \in SUBSET (DOMAIN tracees)
    OBVIOUS
  <2> HIDE DEF left
  <2> QED BY <1>3, <1>4, <2>1, <2>2
<1>6. CASE TraceReturns
  <2>1. /\ th' = th /\ leader' = leader /\ msg' = msg /\ over' # "no" /\ tracees' = tracees /\ own' = own
    BY <1>6 DEF TraceReturns, threadVars
  <2> QED BY <1>3, <1>4, <2>1
<1> QED
  BY <1>2, <1>5, <1>6

\* In the beginning every PID in m_tracees is that of a thread that runs.
LEMMA InitExec == ASSUME Init PROVE ExecInv
<1>1. PICK traced \in TracedSets : InitTracing(traced)
  BY DEF Init
<1>2. /\ leader = [p \in Pids |-> IF p \in {Main} \cup Others THEN Main ELSE NoPid]
      /\ msg = [p \in Pids |-> p]
  BY DEF Init
<1>3. /\ Main \in Pids /\ NoPid \notin Pids /\ traced \subseteq {Main} \cup Others /\ {Main} \cup Others \subseteq Pids
  BY PidsAssumption
<1>4. ASSUME NEW p \in Pids
      PROVE  /\ th[p].nr = "read" /\ th[p].at = "none" /\ ~th[p].fatal /\ th[p].run # "zombie"
             /\ p \in traced => th[p].traced /\ th[p].run = "run"
  <2> DEFINE a == [NewThread EXCEPT !.run = "run", !.traced = p \in traced, !.sysgood = p \in traced]
  <2>1. th[p] = IF p \in {Main} \cup Others THEN a ELSE NewThread
    BY <1>1 DEF InitTracing
  <2>2. /\ a.nr = "read" /\ a.at = "none" /\ ~a.fatal /\ a.run = "run" /\ a.traced = (p \in traced)
    BY DEF NewThread
  <2>3. /\ NewThread.nr = "read" /\ NewThread.at = "none" /\ ~NewThread.fatal /\ NewThread.run = "gone"
    BY DEF NewThread
  <2> HIDE DEF a
  <2> QED BY <1>3, <2>1, <2>2, <2>3
<1>5. ThreadsFit(th) /\ ExecFit(th)
  BY <1>4 DEF ThreadsFit, ExecFit
<1>6. DOMAIN tracees = traced /\ OwnFit(own)
  BY <1>1 DEF InitTracing, OwnFit
<1>7. FlagsFit(tracees)
  <2> DEFINE a == [NewTracee(FALSE) EXCEPT !.state = "RUNNING", !.prev = "EVENT_STOP", !.mode = "SYSCALL"]
  <2>1. a.flags = {}
    BY DEF NewTracee
  <2>2. tracees = [p \in traced |-> a]
    BY <1>1 DEF InitTracing
  <2> HIDE DEF a
  <2> QED BY <2>1, <2>2 DEF FlagsFit
<1>8. TracedFit(th, DOMAIN tracees)
  BY <1>3, <1>4, <1>6 DEF TracedFit
<1>9. LostFit(th, DOMAIN tracees, {})
  BY <1>2, <1>3, <1>6 DEF LostFit
<1> QED
  BY <1>5, <1>6, <1>7, <1>8, <1>9 DEF ExecInv

(* The theorem. *)

\* After execve() in a process with any number of threads no Tracee is left under a
\* PID that does not exist any more, unless the event that tells so is still to come or
\* the process was killed: handleSubstitution() and tryUpdateTraceePID() deal with
\* traced and untraced callers, and with SIGKILL before each of their requests.
THEOREM OneTraceeLeft == PidsKept => (Spec => []OneTraceeAfterExec)
<1> SUFFICES ASSUME PidsKept PROVE Spec => []OneTraceeAfterExec
  OBVIOUS
<1>1. Init => ExecInv
  BY InitExec
<1>2. Inv /\ ExecInv /\ [Next]_vars => ExecInv'
  <2> SUFFICES ASSUME Inv, ExecInv, [Next]_vars PROVE ExecInv'
    OBVIOUS
  <2>1. CASE UNCHANGED vars
    <3>1. th' = th /\ leader' = leader /\ msg' = msg /\ tracees' = tracees /\ own' = own /\ over' = over
      BY <2>1 DEF vars, threadVars, engineVars
    <3> QED BY <3>1 DEF ExecInv, ThreadsFit, ExecFit, OwnFit, TracedFit, FlagsFit, LostFit, Tells, Group
  <2>2. ASSUME NEW p \in Pids, ThreadNext(p) PROVE ExecInv'
    BY <2>2, ThreadStepsExec, ExecDoneExec, OtherStepsExec DEF ThreadNext
  <2>3. ASSUME NEW p \in Pids, KillProcess(p) PROVE ExecInv'
    BY <2>3, ThreadStepsExec
  <2>4. ASSUME NEW p \in Pids, EngineHandleEvent(p) PROVE ExecInv'
    BY <2>4, EngineHandleEventFits
  <2> QED BY <2>1, <2>2, <2>3, <2>4, OtherStepsExec DEF Next
<1>3. Inv /\ ExecInv => OneTraceeAfterExec
  <2> SUFFICES ASSUME ExecInv, NEW p \in DOMAIN tracees, leader[p] = NoPid
               PROVE  \E m \in Pids \ {p} : msg[m] = p /\ ((th[m].status /\ th[m].at = "EV_EXEC") \/ th[m].fatal)
    BY DEF OneTraceeAfterExec
  <2>1. PICK m \in Pids \ {p} : Tells(th, m, p, {})
    BY DEF ExecInv, LostFit
  <2> QED BY <2>1 DEF Tells, Announces
<1> QED
  BY <1>1, <1>2, <1>3, Invariance, PTL DEF Spec
=============================================================================
