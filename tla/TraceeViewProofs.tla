-------------------------- MODULE TraceeViewProofs --------------------------
(***************************************************************************)
(* What the operators of TraceeObject do to the object, to its thread and  *)
(* to what the consumer has been told, taken together.  TraceeObjectProofs *)
(* shows that the object stays in step with a living thread; here it is    *)
(* shown that the callbacks keep their order, that no stop is forgotten    *)
(* and that nothing is left traced, also when the thread is killed in the  *)
(* middle of a handler or the consumer detaches in a callback.             *)
(***************************************************************************)
EXTENDS TraceeObjectProofs

(* The thread *)

\* More of what the kernel guarantees of a thread: only an untraced one is in a job
\* control stop, a fatal signal leads to the end, and a thread that ends without
\* one is in exit(), unless (~alone) it is another thread that calls exit() or execve().
KernelInv(k, alone) ==
    /\ k.run = "listen" => k.traced
    /\ k.run = "stop" => (k.traced <=> k.at # "STOPPED")
    /\ ~k.traced => ~k.trap /\ ~k.notify
    /\ k.fatal => k.run \in {"dying", "zombie", "gone"} \/ (k.run = "stop" /\ k.at = "EV_EXIT")
    /\ k.run = "stop" /\ k.at = "EV_STOP_SIG" => k.gstop \/ k.notify
    /\ alone /\ ~k.fatal /\ (k.run = "dying" \/ (k.run = "stop" /\ k.at = "EV_EXIT")) => k.insys /\ k.nr = "exit"
    /\ k.run = "stop" /\ k.at = "SYS_EXIT" => ~k.insys
    /\ k.run = "stop" /\ k.at \in {"EV_CHILD", "EV_VFORK_DONE", "EV_EXEC"} => k.nr # "exit"

\* The thread has come to its end, or waits for that in an exit-stop that wait()
\* has returned.
Over(k) == k.run \in {"zombie", "gone"} \/ (k.run = "stop" /\ k.at = "EV_EXIT" /\ ~k.status)

\* Nobody has to let go of the thread any more.
Released(k) == ~k.traced \/ k.fatal \/ k.run \in {"zombie", "gone"}

\* The thread is in exit(), or on its way out of it.
Exiting(k) ==
    /\ k.traced /\ ~k.fatal /\ k.insys /\ k.nr = "exit"
    /\ k.run \in {"run", "dying"} \/ (k.run = "stop" /\ k.at = "EV_EXIT" /\ k.status)

InTrapStop(k) == k.run = "listen" \/ (k.run = "stop" /\ k.at \in {"EV_STOP_SIG", "EV_STOP_TRAP"})

(* Object, thread and view *)

\* An object that is done with its thread has been asked to let go of it, and has
\* done so.
HeldInv(t, k, v, alone) ==
    /\ t.blocked => ~t.valid
    /\ t.valid => k.traced
    /\ t.state \in {"DEAD", "DETACHED"} => ~t.valid \/ k.run = "gone"
    /\ ~t.valid \/ t.state \in {"DEAD", "DETACHED"} => v.asked
    /\ alone /\ ~t.valid => Released(k) \/ v.refused
    /\ "DETACH_AT_NEXT_STOP" \in t.flags => v.asked /\ t.valid

\* What the consumer has been told follows from what the object remembers.
ToldInv(t, k, v) ==
    /\ ~v.wrong
    /\ v.ends > 0 \/ v.lost => Over(k)
    /\ v.ends = 2 => v.asked /\ k.run = "gone"
    /\ ~v.asked => v.ends = IF "WAIT_FOR_EXITED" \in t.flags THEN 1 ELSE 0
    /\ "WAIT_FOR_ATTACH_STOP" \in t.flags => ~v.attached /\ t.mode = "CONT"
    /\ Live(k) => (v.insys <=> "SYSCALL_ENTERED" \in t.flags)
    /\ t.intr # "none" => v.intr = t.intr
    /\ t.child /\ t.mode # "CONT" => ~v.lost

\* PTRACE_LISTEN is for a group-stop that both the object and the consumer know of.
ListenInv(t, k, v) ==
    /\ t.mode = "LISTEN" /\ Live(k) => InTrapStop(k)
    /\ t.mode = "LISTEN" /\ Live(k) /\ ~v.refused => t.state = "GROUP_STOP" /\ t.stopSig /\ v.stopped
    /\ k.run = "listen" /\ ~v.refused => t.mode = "LISTEN" /\ k.gstop

\* Between two events no stop is forgotten, and the object knows of a running thread
\* and of a direct child that is in exit().
RestInv(t, k, v, alone) ==
    /\ t.valid /\ InStop(k) => k.status \/ v.refused
    /\ k.traced /\ (k.run = "run" \/ (alone /\ k.run = "dying" /\ ~k.fatal)) => t.state \in {"RUNNING", "UNKNOWN"}
    /\ t.child /\ Exiting(k) /\ t.mode # "CONT"
          => t.state = "RUNNING" /\ t.prev = "SYSCALL_ENTER_STOP" /\ t.cur = "exit"

Core(t, k, v, alone) == HeldInv(t, k, v, alone) /\ ToldInv(t, k, v) /\ ListenInv(t, k, v)

\* The step of TraceeContract that takes the view from v to w.
Tells(v, w) ==
    /\ v.asked => w.asked
    /\ \/ w.attached = v.attached /\ w.insys = v.insys /\ w.intr = v.intr /\ w.ends = v.ends
       \/ /\ ~v.attached /\ v.ends = 0 /\ w.attached
          /\ w.insys = v.insys /\ w.intr = v.intr /\ w.ends = v.ends
       \/ /\ ~v.insys /\ v.ends = 0 /\ w.insys /\ w.intr \in {v.intr, "none"}
          /\ w.attached = v.attached /\ w.ends = v.ends
       \/ /\ v.insys /\ v.ends = 0 /\ ~w.insys /\ w.intr \in Calls \cup {v.intr}
          /\ w.attached = v.attached /\ w.ends = v.ends
       \/ /\ v.ends = 0 \/ (v.asked /\ v.ends = 1)
          /\ w.ends = v.ends + 1
          /\ w.attached = v.attached /\ w.insys = v.insys /\ w.intr = v.intr

(* What the thread's steps mean for its object. *)

\* A step from thread a to thread b that no object has to take notice of.
StepKeeps(a, b, alone) ==
    /\ KernelInv(b, alone)
    /\ b.traced = a.traced
    /\ Over(a) => Over(b)
    /\ a.run = "gone" => b.run = "gone"
    /\ Released(a) => Released(b)
    /\ Live(b) => Live(a)
    /\ Live(b) /\ InTrapStop(a) => InTrapStop(b)
    /\ b.run = "listen" => a.run = "listen" /\ b.gstop = a.gstop
    /\ InStop(b) => b.status \/ (InStop(a) /\ ~a.status)
    /\ b.run = "run" \/ (alone /\ b.run = "dying" /\ ~b.fatal)
          => ~a.traced \/ a.run = "run" \/ (alone /\ a.run = "dying" /\ ~a.fatal)
    /\ alone /\ Exiting(b) => Exiting(a) \/ (a.traced /\ a.run = "run" /\ ~a.sysgood)

\* The entry to a system call is such a step.
LEMMA EnterCallStep ==
  ASSUME NEW a \in Thread, NEW alone, ThreadInv(a), KernelInv(a, alone), CanEnterCall(a), NEW c \in Calls
  PROVE  StepKeeps(a, EnterCall(a, c), alone)
<1> DEFINE b == EnterCall(a, c)
<1>1. /\ b.traced = a.traced /\ b.insys /\ b.fatal = a.fatal /\ b.gstop = a.gstop /\ b.notify = a.notify
      /\ b.trap => a.trap
      /\ IF a.traced /\ a.sysgood THEN b.run = "stop" /\ b.at = "SYS_ENTRY" /\ b.status
         ELSE b.run = "run" /\ b.status = a.status
  BY DEF EnterCall, StopAt, Thread, CanEnterCall
<1>2. a.run = "run"
  BY DEF CanEnterCall
<1> HIDE DEF b
<1> QED
  BY <1>1, <1>2 DEF StepKeeps, KernelInv, Over, Released, Live, InTrapStop, InStop, Exiting, Thread, b

\* So is the return from one.
LEMMA LeaveCallStep ==
  ASSUME NEW a \in Thread, NEW alone, ThreadInv(a), KernelInv(a, alone), CanLeaveCall(a) PROVE StepKeeps(a, LeaveCall(a), alone)
<1> DEFINE b == LeaveCall(a)
<1>1. /\ b.traced = a.traced /\ ~b.insys /\ b.fatal = a.fatal /\ b.gstop = a.gstop
      /\ (b.trap => a.trap) /\ (b.notify => a.notify)
      /\ IF a.traced /\ a.sysgood THEN b.run = "stop" /\ b.at = "SYS_EXIT" /\ b.status
         ELSE \/ b.run = "run" /\ b.at = "none" /\ ~b.status
              \/ /\ b.run = "stop" /\ b.at = (IF a.gstop THEN "EV_STOP_SIG" ELSE "EV_STOP_TRAP") /\ b.status
                 /\ a.trap \/ a.notify
  BY DEF LeaveCall, Leave, TakeTrap, StopAt, Thread, CanLeaveCall, Due
<1>2. a.run = "run"
  BY DEF CanLeaveCall
<1> HIDE DEF b
<1> QED
  BY <1>1, <1>2 DEF StepKeeps, KernelInv, Over, Released, Live, InTrapStop, InStop, Exiting, Thread, b

\* An event that is reported from inside of a system call.
LEMMA ReportStep ==
  ASSUME NEW a \in Thread, NEW alone, ThreadInv(a), KernelInv(a, alone), NEW e \in EventStops, CanReport(a, e)
  PROVE  StepKeeps(a, StopAt(a, e), alone)
<1> DEFINE b == StopAt(a, e)
<1>1. /\ b.traced = a.traced /\ b.insys = a.insys /\ b.fatal = a.fatal /\ b.gstop = a.gstop /\ b.notify = a.notify
      /\ b.run = "stop" /\ b.at = e /\ b.status /\ b.nr = a.nr /\ ~b.trap
  BY DEF StopAt, Thread
<1>2. /\ a.run = "run" /\ a.traced /\ a.nr # "exit"
      /\ e \in {"EV_CHILD", "EV_VFORK_DONE", "EV_EXEC"}
  BY DEF CanReport, CallEvents
<1> HIDE DEF b
<1> QED
  BY <1>1, <1>2 DEF StepKeeps, KernelInv, Over, Released, Live, InTrapStop, InStop, Exiting, Thread, b

\* The PTRACE_EVENT_STOP that is due.
LEMMA TakeTrapFields ==
  ASSUME NEW a \in Thread
  PROVE  LET b == TakeTrap(a)
         IN  /\ b.traced = a.traced /\ b.insys = a.insys /\ b.fatal = a.fatal /\ b.gstop = a.gstop /\ ~b.notify
             /\ b.run = "stop" /\ b.at = (IF a.gstop THEN "EV_STOP_SIG" ELSE "EV_STOP_TRAP") /\ b.status
             /\ b.nr = a.nr /\ ~b.trap /\ b.sysgood = a.sysgood
BY DEF TakeTrap, StopAt, Thread

\* The thread takes it.
LEMMA TrapStep == ASSUME NEW a \in Thread, NEW alone, ThreadInv(a), KernelInv(a, alone), CanTrap(a) PROVE StepKeeps(a, TakeTrap(a), alone)
<1> DEFINE b == TakeTrap(a)
<1>1. /\ b.traced = a.traced /\ b.insys = a.insys /\ b.fatal = a.fatal /\ b.gstop = a.gstop /\ ~b.notify
      /\ b.run = "stop" /\ b.at = (IF a.gstop THEN "EV_STOP_SIG" ELSE "EV_STOP_TRAP") /\ b.status
  BY TakeTrapFields
<1>2. a.run = "run" /\ a.traced /\ ~a.insys
  BY DEF CanTrap
<1> HIDE DEF b
<1> QED
  BY <1>1, <1>2 DEF StepKeeps, KernelInv, Over, Released, Live, InTrapStop, InStop, Exiting, Thread, b

\* The delivery of a signal.
LEMMA DeliverStep ==
  ASSUME NEW a \in Thread, NEW alone, ThreadInv(a), KernelInv(a, alone), NEW s \in Signals, CanDeliver(a, s), NEW child \in BOOLEAN
  PROVE  StepKeeps(a, Deliver(a, s, child), alone)
<1> DEFINE b == Deliver(a, s, child)
           d == [a EXCEPT !.pend = @ \ {s}]
<1>1. a.run = "run" /\ ~a.insys
  BY DEF CanDeliver
<1>2. d \in Thread
  <2>1. a.pend \ {s} \in SUBSET Signals
    BY DEF Thread
  <2> QED BY <2>1 DEF Thread
<1>3. /\ d.traced = a.traced /\ d.sysgood = a.sysgood /\ d.insys = a.insys /\ d.run = a.run /\ d.at = a.at
      /\ d.status = a.status /\ d.fatal = a.fatal /\ d.gstop = a.gstop /\ d.notify = a.notify /\ d.trap = a.trap
  BY DEF Thread
<1>4. b = IF a.traced THEN StopAt(d, SignalStop(s))
          ELSE IF s = "STOP" THEN [d EXCEPT !.gstop = TRUE, !.run = "stop", !.at = "STOPPED", !.status = child]
          ELSE d
  BY DEF Deliver
<1> HIDE DEF b, d
<1>5. /\ b.traced = a.traced /\ b.insys = a.insys /\ b.fatal = a.fatal /\ b.notify = a.notify /\ (b.trap => a.trap)
      /\ IF a.traced THEN b.run = "stop" /\ b.at = SignalStop(s) /\ b.status
         ELSE (b.run = "stop" /\ b.at = "STOPPED") \/ b.run = "run"
  <2> DEFINE z == [d EXCEPT !.gstop = TRUE, !.run = "stop", !.at = "STOPPED", !.status = child]
             y == StopAt(d, SignalStop(s))
  <2>1. /\ z.traced = d.traced /\ z.insys = d.insys /\ z.fatal = d.fatal /\ z.notify = d.notify /\ z.trap = d.trap
        /\ z.run = "stop" /\ z.at = "STOPPED"
    BY <1>2 DEF Thread
  <2>2. /\ y.traced = d.traced /\ y.insys = d.insys /\ y.fatal = d.fatal /\ y.notify = d.notify /\ ~y.trap
        /\ y.run = "stop" /\ y.at = SignalStop(s) /\ y.status
    BY <1>2 DEF StopAt, Thread
  <2>3. b = IF a.traced THEN y ELSE IF s = "STOP" THEN z ELSE d
    BY <1>4
  <2> HIDE DEF y, z
  <2> QED BY <1>1, <1>3, <2>1, <2>2, <2>3
<1>6. SignalStop(s) \in SignalStops
  BY DEF SignalStop, SignalStops
<1> QED
  BY <1>1, <1>5, <1>6 DEF StepKeeps, KernelInv, Over, Released, Live, InTrapStop, InStop, Exiting, Thread, b,
     SignalStops

\* SIGKILL.
LEMMA KillFields ==
  ASSUME NEW a \in Thread
  PROVE  LET b == Kill(a)
         IN  /\ b.traced = a.traced /\ b.insys = a.insys /\ b.gstop = a.gstop /\ b.notify = a.notify
             /\ b.trap = a.trap /\ b.nr = a.nr /\ b.sysgood = a.sysgood
             /\ IF a.run = "stop" /\ a.at = "EV_EXIT"
                THEN b.run = "zombie" /\ b.at = "ENDED" /\ b.status /\ b.fatal = a.fatal
                ELSE IF a.run \in {"run", "stop", "listen"}
                THEN b.run = "dying" /\ b.at = "none" /\ ~b.status /\ b.fatal
                ELSE b = a
BY DEF Kill, Thread

\* It is such a step, too.
LEMMA KillStep == ASSUME NEW a \in Thread, NEW alone, ThreadInv(a), KernelInv(a, alone) PROVE StepKeeps(a, Kill(a), alone)
<1> DEFINE b == Kill(a)
<1>1. /\ b.traced = a.traced /\ b.insys = a.insys /\ b.gstop = a.gstop /\ b.notify = a.notify
      /\ b.trap = a.trap /\ b.nr = a.nr /\ b.sysgood = a.sysgood
      /\ IF a.run = "stop" /\ a.at = "EV_EXIT"
         THEN b.run = "zombie" /\ b.at = "ENDED" /\ b.status /\ b.fatal = a.fatal
         ELSE IF a.run \in {"run", "stop", "listen"}
         THEN b.run = "dying" /\ b.at = "none" /\ ~b.status /\ b.fatal
         ELSE b = a
  BY KillFields
<1>2. ~Live(b)
  BY KillNotLive
<1> HIDE DEF b
<1>3. KernelInv(b, alone)
  BY <1>1 DEF KernelInv, Thread
<1> QED
  BY <1>1, <1>2, <1>3 DEF StepKeeps, KernelInv, Over, Released, InStop, Exiting, Thread, b

\* The end of the thread.
LEMMA EndStep ==
  ASSUME NEW a \in Thread, NEW alone, ThreadInv(a), KernelInv(a, alone), NEW child \in BOOLEAN
  PROVE  /\ CanExit(a) => StepKeeps(a, Exit(a), alone)
         /\ a.run = "dying" /\ a.traced => StepKeeps(a, ExitStop(a), alone)
         /\ a.run = "dying" => StepKeeps(a, Die(a, child), alone)
<1>1. ASSUME CanExit(a) PROVE StepKeeps(a, Exit(a), alone)
  <2> DEFINE b == Exit(a)
  <2>1. /\ b.traced = a.traced /\ b.insys = a.insys /\ b.gstop = a.gstop /\ b.notify = a.notify
        /\ b.trap = a.trap /\ b.nr = a.nr /\ b.fatal = a.fatal /\ b.run = "dying"
    BY DEF Exit, Thread
  <2>2. a.run = "run" /\ a.insys /\ a.nr = "exit"
    BY <1>1 DEF CanExit
  <2> HIDE DEF b
  <2> QED
    BY <2>1, <2>2 DEF StepKeeps, KernelInv, Over, Released, Live, InTrapStop, InStop, Exiting, Thread, b
<1>2. ASSUME a.run = "dying", a.traced PROVE StepKeeps(a, ExitStop(a), alone)
  <2> DEFINE b == ExitStop(a)
  <2>1. /\ b.traced = a.traced /\ b.insys = a.insys /\ b.gstop = a.gstop /\ b.notify = a.notify
        /\ ~b.trap /\ b.nr = a.nr /\ b.fatal = a.fatal /\ b.run = "stop" /\ b.at = "EV_EXIT" /\ b.status
    BY DEF ExitStop, StopAt, Thread
  <2> HIDE DEF b
  <2> QED
    BY <1>2, <2>1 DEF StepKeeps, KernelInv, Over, Released, Live, InTrapStop, InStop, Exiting, Thread, b
<1>3. ASSUME a.run = "dying" PROVE StepKeeps(a, Die(a, child), alone)
  <2> DEFINE b == Die(a, child)
  <2>1. /\ b.traced = a.traced /\ b.insys = a.insys /\ b.gstop = a.gstop /\ b.notify = a.notify
        /\ b.trap = a.trap /\ b.nr = a.nr /\ b.fatal = a.fatal /\ b.run = "zombie" /\ b.at = "ENDED"
    BY DEF Die, Thread
  <2> HIDE DEF b
  <2> QED
    BY <1>3, <2>1 DEF StepKeeps, KernelInv, Over, Released, Live, InTrapStop, InStop, Exiting, Thread, b
<1> QED
  BY <1>1, <1>2, <1>3

\* What kill(2) does to the rest of a thread.
LEMMA SendMore ==
  ASSUME NEW k \in Thread, NEW s \in Signals
  PROVE  LET r == Send(k, s)
         IN  /\ r.traced = k.traced /\ r.insys = k.insys /\ r.nr = k.nr /\ r.fatal = k.fatal /\ r.sysgood = k.sysgood
             /\ \/ /\ r.run = k.run /\ r.at = k.at /\ r.status = k.status
                   /\ r.trap = k.trap /\ (~k.traced => r.notify = k.notify)
                   /\ \/ r.gstop = k.gstop /\ r.notify = k.notify
                      \/ ~r.gstop /\ k.run # "listen" /\ (k.traced => r.notify)
                      \/ ~k.traced
                \/ /\ ~k.traced /\ k.run = "stop" /\ r.run = "run" /\ r.at = "none" /\ r.status = FALSE
                   /\ r.trap = k.trap /\ r.notify = k.notify
                \/ /\ k.traced /\ k.run = "listen" /\ r.run = "stop" /\ r.at = "EV_STOP_TRAP" /\ r.status
                   /\ ~r.trap /\ ~r.notify
<1> DEFINE pd == (IF s = "CONT" THEN k.pend \ {"STOP"}
                  ELSE IF s = "STOP" THEN k.pend \ {"CONT"} ELSE k.pend) \cup {s}
           p == [k EXCEPT !.pend = pd]
           c == [p EXCEPT !.gstop = FALSE]
           z == [c EXCEPT !.run = "run", !.at = "none", !.status = FALSE]
           n == [c EXCEPT !.notify = TRUE]
<1>1. Send(k, s) = IF s # "CONT" THEN p
                   ELSE IF ~c.traced
                        THEN IF c.run = "stop" THEN z ELSE c
                   ELSE IF c.run = "listen" THEN TakeTrap(c)
                   ELSE n
  BY DEF Send
<1>2. pd \in SUBSET Signals
  <2>1. k.pend \subseteq Signals
    BY DEF Thread
  <2> QED BY <2>1
<1> HIDE DEF pd
<1>3. /\ p \in Thread /\ p.traced = k.traced /\ p.sysgood = k.sysgood /\ p.insys = k.insys
      /\ p.run = k.run /\ p.at = k.at /\ p.status = k.status /\ p.nr = k.nr /\ p.fatal = k.fatal
      /\ p.trap = k.trap /\ p.notify = k.notify /\ p.gstop = k.gstop
  BY <1>2 DEF Thread
<1> HIDE DEF p
<1>4. /\ c \in Thread /\ c.traced = k.traced /\ c.sysgood = k.sysgood /\ c.insys = k.insys
      /\ c.run = k.run /\ c.at = k.at /\ c.status = k.status /\ c.nr = k.nr /\ c.fatal = k.fatal
      /\ c.trap = k.trap /\ c.notify = k.notify /\ ~c.gstop
  BY <1>3 DEF Thread
<1> HIDE DEF c
<1>5. /\ z.traced = k.traced /\ z.insys = k.insys /\ z.run = "run" /\ z.at = "none" /\ z.status = FALSE
      /\ z.nr = k.nr /\ z.fatal = k.fatal /\ z.trap = k.trap /\ z.notify = k.notify /\ z.sysgood = k.sysgood
  BY <1>4 DEF Thread
<1>6. /\ n.traced = k.traced /\ n.insys = k.insys /\ n.run = k.run /\ n.at = k.at /\ n.status = k.status
      /\ n.nr = k.nr /\ n.fatal = k.fatal /\ n.trap = k.trap /\ n.notify /\ ~n.gstop /\ n.sysgood = k.sysgood
  BY <1>4 DEF Thread
<1>7. LET r == TakeTrap(c)
      IN  /\ r.traced = k.traced /\ r.insys = k.insys /\ r.fatal = k.fatal /\ ~r.notify /\ ~r.trap
          /\ r.run = "stop" /\ r.at = "EV_STOP_TRAP" /\ r.status /\ r.nr = k.nr /\ r.sysgood = k.sysgood
  BY <1>4, TakeTrapFields
<1> HIDE DEF z, n
<1>8. CASE s # "CONT"
  BY <1>1, <1>3, <1>8
<1>9. CASE s = "CONT" /\ ~k.traced
  BY <1>1, <1>4, <1>5, <1>9
<1>10. CASE s = "CONT" /\ k.traced
  BY <1>1, <1>4, <1>6, <1>7, <1>10
<1>11. k.traced \in BOOLEAN
  BY DEF Thread
<1> QED
  BY <1>8, <1>9, <1>10, <1>11

\* A signal from elsewhere is no concern of the object.
LEMMA SendStep ==
  ASSUME NEW a \in Thread, NEW alone, ThreadInv(a), KernelInv(a, alone), NEW s \in Signals PROVE StepKeeps(a, Send(a, s), alone)
<1> DEFINE b == Send(a, s)
<1>1. /\ b.traced = a.traced /\ b.insys = a.insys /\ b.nr = a.nr /\ b.fatal = a.fatal
      /\ \/ /\ b.run = a.run /\ b.at = a.at /\ b.status = a.status
            /\ b.trap = a.trap /\ (~a.traced => b.notify = a.notify)
            /\ \/ b.gstop = a.gstop /\ b.notify = a.notify
               \/ ~b.gstop /\ a.run # "listen" /\ (a.traced => b.notify)
               \/ ~a.traced
         \/ /\ ~a.traced /\ a.run = "stop" /\ b.run = "run" /\ b.at = "none" /\ b.status = FALSE
            /\ b.trap = a.trap /\ b.notify = a.notify
         \/ /\ a.traced /\ a.run = "listen" /\ b.run = "stop" /\ b.at = "EV_STOP_TRAP" /\ b.status
            /\ ~b.trap /\ ~b.notify
  BY SendMore
<1> HIDE DEF b
<1> QED
  BY <1>1 DEF StepKeeps, KernelInv, Over, Released, Live, InTrapStop, InStop, Exiting, Thread, b

\* What an object is told by such a step: nothing.
LEMMA StepCore ==
  ASSUME NEW alone, NEW t \in Tracees, NEW a \in Thread, NEW b \in Thread, NEW v \in Views, KernelInv(a, alone), ThreadInv(a),
         StepKeeps(a, b, alone), Core(t, a, v, alone), RestInv(t, a, v, alone), Live(a) => Synced(t, a), t.child => alone
  PROVE  Core(t, b, v, alone) /\ RestInv(t, b, v, alone)
<1>1. HeldInv(t, b, v, alone)
  BY DEF StepKeeps, Core, HeldInv
<1>2. ToldInv(t, b, v)
  BY DEF StepKeeps, Core, ToldInv
<1>3. ListenInv(t, b, v)
  BY DEF StepKeeps, Core, ListenInv
<1>4. t.valid /\ InStop(b) => b.status \/ v.refused
  BY DEF StepKeeps, RestInv
<1>5. b.traced /\ (b.run = "run" \/ (alone /\ b.run = "dying" /\ ~b.fatal)) => t.state \in {"RUNNING", "UNKNOWN"}
  BY DEF StepKeeps, RestInv
<1>6. ASSUME t.child, Exiting(b), t.mode # "CONT"
      PROVE  t.state = "RUNNING" /\ t.prev = "SYSCALL_ENTER_STOP" /\ t.cur = "exit"
  <2>1. CASE Exiting(a)
    BY <1>6, <2>1 DEF RestInv
  <2>2. CASE a.traced /\ a.run = "run" /\ ~a.sysgood
    <3>1. Live(a) /\ t.mode \in {"SYSCALL", "LISTEN"}
      BY <1>6, <2>2 DEF Live, Tracees, RestartModes
    <3>2. FALSE
      BY <2>2, <3>1 DEF Synced, Core, ListenInv, InTrapStop
    <3> QED BY <3>2
  <2> QED BY <1>6, <2>1, <2>2 DEF StepKeeps
<1> QED
  BY <1>1, <1>2, <1>3, <1>4, <1>5, <1>6 DEF Core, RestInv

(* The operators of the object *)

\* What a frame is made of, when one of its parts is replaced.
LEMMA FrameParts ==
  ASSUME NEW f \in Frames
  PROVE  /\ f.t \in Tracees /\ f.k \in Thread /\ f.v \in Views
         /\ \A x \in Tracees : LET g == [f EXCEPT !.t = x]
                               IN  g \in Frames /\ g.t = x /\ g.k = f.k /\ g.v = f.v /\ g.ex = f.ex
         /\ \A x \in Thread : LET g == [f EXCEPT !.k = x]
                              IN  g \in Frames /\ g.t = f.t /\ g.k = x /\ g.v = f.v /\ g.ex = f.ex
         /\ \A x \in Views : LET g == [f EXCEPT !.v = x]
                             IN  g \in Frames /\ g.t = f.t /\ g.k = f.k /\ g.v = x /\ g.ex = f.ex
BY DEF Frames

\* Everything that changeState() does, but for an end that has to be waited for.
LEMMA ToStateParts ==
  ASSUME NEW f \in Frames, NEW s \in States, s = "DEAD" => f.k.run = "gone" \/ ~f.t.child
  PROVE  LET g == ToState(f, s)
         IN  /\ g \in Frames /\ g.k = f.k /\ g.v = f.v /\ g.ex = f.ex
             /\ g.t.child = f.t.child /\ g.t.state = s /\ g.t.flags = ChangedFlags(f.t, s)
             /\ g.t.prev = IF f.t.state # "RUNNING" THEN f.t.state ELSE f.t.prev
             /\ s # "GROUP_STOP" => g.t.mode = f.t.mode
             /\ s = "GROUP_STOP" => g.t.mode = IF "INJECTED_SIGSTOP" \in f.t.flags THEN "SYSCALL" ELSE "LISTEN"
             /\ g.t.valid = f.t.valid /\ g.t.cur = f.t.cur /\ g.t.intr = f.t.intr
             /\ g.t.fresh = f.t.fresh /\ g.t.blocked = f.t.blocked
<1> DEFINE c == ChangeState(f.t, s)
           g == [f EXCEPT !.t = c]
<1>1. c \in Tracees /\ f.t \in Tracees
  BY FrameUpdate, ChangeStateType
<1>2. /\ c.cur = f.t.cur /\ c.valid = f.t.valid /\ c.state = s /\ c.blocked = f.t.blocked
      /\ c.flags = ChangedFlags(f.t, s) /\ c.child = f.t.child /\ c.intr = f.t.intr /\ c.fresh = f.t.fresh
      /\ c.prev = IF f.t.state # "RUNNING" THEN f.t.state ELSE f.t.prev
      /\ s # "GROUP_STOP" => c.mode = f.t.mode
      /\ s = "GROUP_STOP" => c.mode = IF "INJECTED_SIGSTOP" \in f.t.flags THEN "SYSCALL" ELSE "LISTEN"
  BY <1>1 DEF ChangeState, Tracees
<1> HIDE DEF c
<1>3. g \in Frames /\ g.t = c /\ g.k = f.k /\ g.v = f.v /\ g.ex = f.ex
  BY <1>1, FrameParts
<1>4. ToState(f, s) = g
  <2>1. ToState(f, s) = IF s = "DEAD" THEN CleanupChild(g) ELSE g
    BY DEF ToState, c
  <2> HIDE DEF g
  <2>2. s = "DEAD" => CleanupChild(g) = g
    BY <1>2, <1>3 DEF CleanupChild
  <2> QED BY <2>1, <2>2
<1> HIDE DEF g
<1> QED
  BY <1>2, <1>3, <1>4

\* changeState(DEAD), with the wait() of cleanupChild() begun or not.
LEMMA ToStateDead ==
  ASSUME NEW f \in Frames
  PROVE  LET g == ToState(f, "DEAD")
         IN  /\ g \in Frames /\ g.k = f.k /\ g.v = f.v /\ g.ex = f.ex
             /\ g.t.child = f.t.child /\ g.t.state = "DEAD" /\ g.t.mode = f.t.mode
             /\ g.t.cur = f.t.cur /\ g.t.intr = f.t.intr /\ g.t.valid = f.t.valid /\ g.t.flags = f.t.flags
<1> DEFINE c == ChangeState(f.t, "DEAD")
           b == [c EXCEPT !.blocked = TRUE]
           g == [f EXCEPT !.t = c]
<1>1. c \in Tracees /\ f.t \in Tracees
  BY FrameUpdate, ChangeStateType DEF States
<1>2. /\ c.cur = f.t.cur /\ c.state = "DEAD" /\ c.child = f.t.child /\ c.intr = f.t.intr /\ c.mode = f.t.mode
      /\ c.valid = f.t.valid /\ c.flags = f.t.flags
  BY <1>1 DEF ChangeState, ChangedFlags, Tracees
<1> HIDE DEF c
<1>3. /\ b \in Tracees /\ b.cur = c.cur /\ b.state = c.state /\ b.child = c.child /\ b.intr = c.intr
      /\ b.mode = c.mode /\ b.valid = c.valid /\ b.flags = c.flags
  BY <1>1 DEF Tracees
<1> HIDE DEF b
<1>4. /\ g \in Frames /\ g.t = c /\ g.k = f.k /\ g.v = f.v /\ g.ex = f.ex
  BY <1>1, FrameParts
<1>5. LET h == [g EXCEPT !.t = b] IN h \in Frames /\ h.t = b /\ h.k = f.k /\ h.v = f.v /\ h.ex = f.ex
  <2> HIDE DEF g
  <2> QED BY <1>3, <1>4, FrameParts
<1>6. ToState(f, "DEAD") \in {g, [g EXCEPT !.t = b]}
  <2>1. ToState(f, "DEAD") = CleanupChild(g)
    BY DEF ToState, c
  <2> HIDE DEF g
  <2>2. CleanupChild(g) = g \/ CleanupChild(g) = [g EXCEPT !.t.blocked = TRUE]
    BY DEF CleanupChild
  <2>3. [g EXCEPT !.t.blocked = TRUE] = [g EXCEPT !.t = b]
    BY <1>4 DEF b
  <2> QED BY <2>1, <2>2, <2>3
<1> HIDE DEF g
<1> QED
  BY <1>2, <1>3, <1>4, <1>5, <1>6

\* The object has let go of its thread, which it knows nothing about any more.
LetGo(t, x) ==
    /\ ~x.valid /\ x.flags = {} /\ x.child = t.child /\ x.mode = t.mode /\ x.cur = t.cur /\ x.intr = t.intr
    /\ x.state \in {"DETACHED", "DEAD"}

\* The consumer has been told the same.
SameTold(v, w) ==
    /\ w.early = v.early /\ w.attached = v.attached /\ w.insys = v.insys /\ w.stopped = v.stopped
    /\ w.intr = v.intr /\ w.ends = v.ends /\ w.lost = v.lost /\ w.wrong = v.wrong

\* Everything that doDetach() does.
LEMMA DoDetachParts ==
  ASSUME NEW f \in Frames
  PROVE  LET r == DoDetach(f)
         IN  /\ r \in Frames /\ r.ex = f.ex /\ LetGo(f.t, r.t)
             /\ r.k = IF Reachable(f) THEN Detach(f.k, f.t.child) ELSE f.k
             /\ r.t.state = IF Reachable(f) THEN "DETACHED" ELSE "DEAD"
             /\ SameTold(f.v, r.v) /\ r.v.asked = f.v.asked
             /\ r.v.refused <=> f.v.refused \/ (f.t.valid /\ f.k.run = "listen")
<1>1. f \in Frames /\ f.k \in Thread /\ f.t \in Tracees /\ f.v \in Views
  BY FrameUpdate
<1> DEFINE kd == Detach(f.k, f.t.child)
           g == [f EXCEPT !.k = kd]
           r == f.v.refused \/ (f.t.valid /\ f.k.run = "listen")
           w == [f.v EXCEPT !.refused = r]
           h == [f EXCEPT !.v = w]
           d == IF Reachable(f) THEN ToState(g, "DETACHED") ELSE ToState(h, "DEAD")
           x == [d.t EXCEPT !.valid = FALSE, !.flags = {}]
           e == [d EXCEPT !.t = x]
<1>2. g \in Frames /\ g.k = kd /\ g.ex = f.ex /\ g.t = f.t /\ g.v = f.v
  <2>1. kd \in Thread
    BY <1>1, DetachType DEF Tracees
  <2> HIDE DEF kd
  <2> QED BY <2>1, FrameParts
<1>3. w \in Views /\ SameTold(f.v, w) /\ w.asked = f.v.asked /\ (w.refused <=> r)
  <2>1. r \in BOOLEAN
    BY <1>1 DEF Views, Tracees
  <2> HIDE DEF r
  <2> QED BY <2>1, <1>1 DEF Views, SameTold
<1>4. h \in Frames /\ h.k = f.k /\ h.t = f.t /\ h.ex = f.ex /\ h.v = w
  <2> HIDE DEF w
  <2> QED BY <1>3, FrameParts
<1>5. DoDetach(f) = [d EXCEPT !.t.valid = FALSE, !.t.flags = {}]
  BY DEF DoDetach, DetachFailed
<1> HIDE DEF g, h, kd, w
<1>6. "DETACHED" \in States /\ "DEAD" \in States
  BY DEF States
<1>7. CASE Reachable(f)
  <2>1. d = ToState(g, "DETACHED")
    BY <1>7
  <2>2. /\ d \in Frames /\ d.k = kd /\ d.v = f.v /\ d.ex = f.ex /\ d.t.state = "DETACHED"
        /\ d.t.child = f.t.child /\ d.t.mode = f.t.mode /\ d.t.cur = f.t.cur /\ d.t.intr = f.t.intr
    BY <1>2, <1>6, <2>1, ToStateParts
  <2>3. ~r \/ f.v.refused
    BY <1>7 DEF Reachable, InStop
  <2> HIDE DEF d
  <2>4. d.t \in Tracees
    BY <2>2, FrameParts
  <2>5. /\ x \in Tracees /\ ~x.valid /\ x.flags = {} /\ x.child = d.t.child /\ x.mode = d.t.mode /\ x.cur = d.t.cur
        /\ x.intr = d.t.intr /\ x.state = d.t.state
    BY <2>4 DEF Tracees
  <2>6. DoDetach(f) = e
    BY <1>5, <2>2, <2>4 DEF Frames, Tracees
  <2> HIDE DEF x
  <2>7. e \in Frames /\ e.t = x /\ e.k = kd /\ e.v = f.v /\ e.ex = f.ex
    BY <2>2, <2>5, FrameParts
  <2> QED BY <1>7, <2>2, <2>3, <2>5, <2>6, <2>7 DEF LetGo, SameTold, kd
<1>8. CASE ~Reachable(f)
  <2>1. d = ToState(h, "DEAD")
    BY <1>8
  <2>2. /\ d \in Frames /\ d.k = f.k /\ d.v = w /\ d.ex = f.ex /\ d.t.state = "DEAD"
        /\ d.t.child = f.t.child /\ d.t.mode = f.t.mode /\ d.t.cur = f.t.cur /\ d.t.intr = f.t.intr
    BY <1>4, <1>6, <2>1, ToStateDead
  <2> HIDE DEF d
  <2>4. d.t \in Tracees
    BY <2>2, FrameParts
  <2>5. /\ x \in Tracees /\ ~x.valid /\ x.flags = {} /\ x.child = d.t.child /\ x.mode = d.t.mode /\ x.cur = d.t.cur
        /\ x.intr = d.t.intr /\ x.state = d.t.state
    BY <2>4 DEF Tracees
  <2>6. DoDetach(f) = e
    BY <1>5, <2>2, <2>4 DEF Frames, Tracees
  <2> HIDE DEF x
  <2>7. e \in Frames /\ e.t = x /\ e.k = f.k /\ e.v = w /\ e.ex = f.ex
    BY <2>2, <2>5, FrameParts
  <2> QED BY <1>3, <1>8, <2>2, <2>5, <2>6, <2>7 DEF LetGo
<1> QED
  BY <1>7, <1>8

\* What a callback leaves in the view.
LEMMA ToldParts ==
  ASSUME NEW v \in Views, NEW cb, NEW call \in MaybeCall, NEW flag
  PROVE  LET w == Told(v, cb, call, flag)
         IN  /\ w \in Views /\ w.asked = v.asked /\ w.refused = v.refused
             /\ w.attached <=> (v.attached \/ cb = "attached")
             /\ w.insys <=> ((v.insys \/ cb = "syscallEntry") /\ cb # "syscallExit")
             /\ w.stopped <=> ((v.stopped \/ cb = "stopped") /\ cb # "resumed")
             /\ w.intr = IF flag = "INTERRUPTED" THEN call ELSE IF flag = "RESUMED" THEN "none" ELSE v.intr
             /\ w.ends = IF cb \in {"exited", "disappeared"} /\ v.ends < 2 THEN v.ends + 1 ELSE v.ends
             /\ w.lost <=> (v.lost \/ flag = "LOST_TO_MT_EXIT")
             /\ w.wrong <=> \/ v.wrong
                            \/ cb = "attached" /\ v.attached
                            \/ cb = "syscallEntry" /\ v.insys
                            \/ cb = "syscallExit" /\ ~v.insys
                            \/ flag = "RESUMED" /\ v.intr # call
                            \/ cb \notin {"exited", "disappeared"} /\ v.ends > 0
<1>1. Told(v, cb, call, flag) \in Views
  BY ToldType
<1> DEFINE at == v.attached \/ cb = "attached"
           is == (v.insys \/ cb = "syscallEntry") /\ cb # "syscallExit"
           st == (v.stopped \/ cb = "stopped") /\ cb # "resumed"
           lo == v.lost \/ flag = "LOST_TO_MT_EXIT"
           wr == \/ v.wrong
                 \/ cb = "attached" /\ v.attached
                 \/ cb = "syscallEntry" /\ v.insys
                 \/ cb = "syscallExit" /\ ~v.insys
                 \/ flag = "RESUMED" /\ v.intr # call
                 \/ cb \notin {"exited", "disappeared"} /\ v.ends > 0
<1>2. LET w == Told(v, cb, call, flag)
      IN  /\ w.asked = v.asked /\ w.refused = v.refused /\ w.attached = at /\ w.insys = is /\ w.stopped = st
          /\ w.intr = IF flag = "INTERRUPTED" THEN call ELSE IF flag = "RESUMED" THEN "none" ELSE v.intr
          /\ w.ends = IF cb \in {"exited", "disappeared"} /\ v.ends < 2 THEN v.ends + 1 ELSE v.ends
          /\ w.lost = lo /\ w.wrong = wr
  BY DEF Told, Views
<1> QED
  BY <1>1, <1>2

\* detach() in a callback: the tracee is in a stop, or it is done with already.
LEMMA DetachInCallback ==
  ASSUME NEW f \in Frames, f.t.state \notin {"RUNNING", "UNKNOWN"},
         f.t.valid /\ f.t.state \notin {"DEAD", "DETACHED"} => InStop(f.k)
  PROVE  LET r == DetachTracee(f)
         IN  /\ r \in Frames /\ r.ex = f.ex /\ SameTold(f.v, r.v) /\ r.v.asked /\ r.v.refused = f.v.refused
             /\ \/ r.t = f.t /\ r.k = f.k /\ (~f.t.valid \/ f.t.state \in {"DEAD", "DETACHED"})
                \/ /\ Reachable(f) /\ LetGo(f.t, r.t) /\ r.t.state = "DETACHED"
                   /\ r.k = Detach(f.k, f.t.child)
<1> DEFINE w == [f.v EXCEPT !.asked = TRUE]
           a == [f EXCEPT !.v = w]
<1>1. f.t \in Tracees /\ f.v \in Views
  BY FrameParts
<1>2. w \in Views /\ SameTold(f.v, w) /\ w.asked /\ w.refused = f.v.refused
  BY <1>1 DEF Views, SameTold
<1> HIDE DEF w
<1>3. a \in Frames /\ a.t = f.t /\ a.k = f.k /\ a.ex = f.ex /\ a.v = w
  BY <1>2, FrameParts
<1>4. DetachTracee(f) = IF ~a.t.valid \/ a.t.state \in {"DEAD", "DETACHED"} THEN a ELSE DoDetach(a)
  <2>1. a = [f EXCEPT !.v.asked = TRUE]
    BY DEF w
  <2>2. a.t.state \notin {"RUNNING", "UNKNOWN"}
    BY <1>3
  <2> HIDE DEF a
  <2> QED BY <2>1, <2>2 DEF DetachTracee
<1> HIDE DEF a
<1>5. CASE ~a.t.valid \/ a.t.state \in {"DEAD", "DETACHED"}
  BY <1>2, <1>3, <1>4, <1>5
<1>6. CASE ~(~a.t.valid \/ a.t.state \in {"DEAD", "DETACHED"})
  <2> DEFINE r == DoDetach(a)
  <2>1. Reachable(a) /\ Reachable(f)
    BY <1>3, <1>6 DEF Reachable
  <2>2. /\ r \in Frames /\ r.ex = a.ex /\ LetGo(a.t, r.t)
        /\ r.k = IF Reachable(a) THEN Detach(a.k, a.t.child) ELSE a.k
        /\ r.t.state = IF Reachable(a) THEN "DETACHED" ELSE "DEAD"
        /\ SameTold(a.v, r.v) /\ r.v.asked = a.v.asked
        /\ r.v.refused <=> a.v.refused \/ (a.t.valid /\ a.k.run = "listen")
    BY <1>3, DoDetachParts
  <2>3. r.v.refused = a.v.refused
    <3>1. r.v \in Views /\ a.v \in Views
      BY <1>2, <1>3, <2>2, FrameParts
    <3>2. a.k.run # "listen"
      BY <2>1 DEF Reachable, InStop
    <3> QED BY <2>2, <3>1, <3>2 DEF Views
  <2>4. DetachTracee(f) = r
    BY <1>4, <1>6
  <2> HIDE DEF r
  <2>5. SameTold(f.v, r.v) /\ r.v.asked
    BY <1>2, <1>3, <2>2 DEF SameTold
  <2> QED BY <1>2, <1>3, <2>1, <2>2, <2>3, <2>4, <2>5
<1> QED
  BY <1>5, <1>6

\* A callback, and what it leaves of the frame.
LEMMA NotifyParts ==
  ASSUME NEW f \in Frames, NEW in, NEW cb, NEW call \in MaybeCall, NEW flag,
         f.t.state \notin {"RUNNING", "UNKNOWN"},
         f.t.valid /\ f.t.state \notin {"DEAD", "DETACHED"} => InStop(f.k)
  PROVE  LET r == Notify(f, in, cb, call, flag)
             w == Told(f.v, cb, call, flag)
         IN  /\ r \in Frames /\ r.ex = f.ex /\ SameTold(w, r.v) /\ r.v.refused = f.v.refused
             /\ \/ r.t = f.t /\ r.k = f.k /\ r.v.asked = f.v.asked
                \/ r.t = f.t /\ r.k = f.k /\ r.v.asked /\ (~f.t.valid \/ f.t.state \in {"DEAD", "DETACHED"})
                \/ /\ Reachable(f) /\ LetGo(f.t, r.t) /\ r.t.state = "DETACHED" /\ r.v.asked
                   /\ r.k = Detach(f.k, f.t.child)
<1> DEFINE w == Told(f.v, cb, call, flag)
           n == [f EXCEPT !.v = w]
           r == DetachTracee(n)
<1>1. w \in Views /\ w.asked = f.v.asked /\ w.refused = f.v.refused
  BY FrameParts, ToldParts
<1>2. Notify(f, in, cb, call, flag) = IF in.detach THEN r ELSE n
  BY DEF Notify
<1> HIDE DEF w
<1>3. n \in Frames /\ n.t = f.t /\ n.k = f.k /\ n.ex = f.ex /\ n.v = w
  BY <1>1, FrameParts
<1> HIDE DEF n
<1>4. /\ r \in Frames /\ r.ex = n.ex /\ SameTold(n.v, r.v) /\ r.v.asked /\ r.v.refused = n.v.refused
      /\ \/ r.t = n.t /\ r.k = n.k /\ (~n.t.valid \/ n.t.state \in {"DEAD", "DETACHED"})
         \/ /\ Reachable(n) /\ LetGo(n.t, r.t) /\ r.t.state = "DETACHED"
            /\ r.k = Detach(n.k, n.t.child)
  BY <1>3, DetachInCallback
<1>5. Reachable(n) <=> Reachable(f)
  BY <1>3 DEF Reachable
<1> HIDE DEF r
<1>6. SameTold(w, w)
  BY DEF SameTold
<1> QED
  BY <1>1, <1>2, <1>3, <1>4, <1>5, <1>6 DEF w

\* PTRACE_DETACH, as far as it matters here.
LEMMA DetachFields ==
  ASSUME NEW a \in Thread, NEW alone, NEW child \in BOOLEAN, ThreadInv(a), KernelInv(a, alone), InStop(a)
  PROVE  LET b == Detach(a, child)
         IN  /\ b \in Thread /\ ~b.traced /\ ThreadInv(b) /\ KernelInv(b, alone)
             /\ a.at = "EV_EXIT" => b.run = "zombie"
             /\ b.run # "listen"
<1> DEFINE b == Detach(a, child)
<1>1. b \in Thread
  BY DetachType
<1>2. /\ ~b.traced /\ ~b.trap /\ ~b.notify /\ b.fatal = a.fatal
      /\ IF a.at = "EV_EXIT" THEN b.run = "zombie" ELSE b.run = "run" \/ (b.run = "stop" /\ b.at = "STOPPED")
  BY DEF Detach, Thread
<1>3. ThreadInv(b)
  BY DetachNotLive
<1> HIDE DEF b
<1>4. KernelInv(b, alone)
  BY <1>1, <1>2 DEF KernelInv, InStop
<1> QED
  BY <1>1, <1>2, <1>3, <1>4 DEF b

(* The handlers *)

\* wait() has returned a ptrace-stop, and processEvent() is about to handle it.
Reported(f, alone) ==
    /\ f \in Frames /\ f.ex = "none" /\ ThreadInv(f.k) /\ KernelInv(f.k, alone) /\ InStop(f.k) /\ ~f.k.status
    /\ Core(f.t, f.k, f.v, alone) /\ f.v.ends = 0 /\ ~f.v.lost
    /\ f.t.valid \/ f.k.at \in {"EV_STOP_SIG", "EV_STOP_TRAP", "EV_EXIT"}
    /\ f.k.at \in SyscallStops => /\ "SYSCALL_ENTERED" \in f.t.flags <=> f.k.at = "SYS_EXIT"
                                  /\ f.k.at = "SYS_EXIT" => f.t.cur # "none"
    /\ f.t.child /\ f.k.at = "EV_EXIT" /\ ~f.k.fatal /\ f.t.mode # "CONT"
          => f.t.state = "RUNNING" /\ f.t.prev = "SYSCALL_ENTER_STOP" /\ f.t.cur = "exit"

\* The object is to be restarted by the end of processEvent().
Restartable(f, r, alone) ==
    /\ r.ex = "none" /\ r.k = f.k /\ Core(r.t, r.k, r.v, alone)
    /\ r.t.state \notin {"RUNNING", "UNKNOWN", "DEAD", "DETACHED"}
    /\ r.k.at = "EV_EXIT" => r.t.state # "GROUP_STOP"
    /\ r.k.at = "EV_STOP_TRAP" => r.t.mode # "LISTEN"
    /\ r.k.at # "EV_EXIT" /\ r.k.insys /\ r.k.nr = "exit" => r.t.state = "SYSCALL_ENTER_STOP" /\ r.t.cur = "exit"

\* The exception leaves trace().
Aborts(f, r) == r.ex \in {"mismatch", "null"} /\ r.t.valid /\ r.v = f.v /\ r.k = f.k

\* What a handler makes of f: besides, it may find the thread dead (ESRCH), or the
\* consumer detaches.
Mid(f, r, alone) ==
    /\ r \in Frames /\ ThreadInv(r.k) /\ KernelInv(r.k, alone) /\ Tells(f.v, r.v)
    /\ r.t.child = f.t.child
    /\ \/ Restartable(f, r, alone)
       \/ Aborts(f, r)
       \/ /\ r.ex = "ESRCH" \/ (r.ex = "none" /\ r.t.state = "DETACHED")
          /\ Core(r.t, r.k, r.v, alone) /\ RestInv(r.t, r.k, r.v, alone)

\* An object that differs only in what a handler may change before it fails.
Alike(t, x) ==
    /\ x.valid = t.valid /\ x.blocked = t.blocked /\ x.child = t.child
    /\ x.state \notin {"DEAD", "DETACHED"} \/ x.state = t.state
    /\ "DETACH_AT_NEXT_STOP" \in x.flags => "DETACH_AT_NEXT_STOP" \in t.flags
    /\ "WAIT_FOR_EXITED" \in x.flags <=> "WAIT_FOR_EXITED" \in t.flags
    /\ "WAIT_FOR_ATTACH_STOP" \in x.flags => "WAIT_FOR_ATTACH_STOP" \in t.flags /\ x.mode = t.mode
    /\ x.intr \in {t.intr, "none"}

\* A view from which nothing has changed.
LEMMA TellsNothing == ASSUME NEW v, NEW w, SameTold(v, w), v.asked => w.asked PROVE Tells(v, w)
BY DEF SameTold, Tells

\* The end has been told.
LEMMA TellsEnd ==
  ASSUME NEW v \in Views, NEW w, NEW z \in Views, v.ends = 0, w.ends = 1, w.intr = v.intr, w.attached <=> v.attached,
         w.insys <=> v.insys, w \in Views, SameTold(w, z), v.asked => z.asked
  PROVE  Tells(v, z)
<1>1. z.ends = v.ends + 1 /\ z.attached = v.attached /\ z.insys = v.insys /\ z.intr = v.intr
  BY DEF SameTold, Views
<1> QED
  BY <1>1 DEF Tells

\* The thread is found to be killed, at any point of a handler.
LEMMA ThrownKilled ==
  ASSUME NEW alone, NEW f, Reported(f, alone), NEW g \in Frames, Alike(f.t, g.t), g.k = Kill(f.k), g.v = f.v
  PROVE  Mid(f, Throw(g, "ESRCH"), alone)
<1> DEFINE r == Throw(g, "ESRCH")
<1>1. r \in Frames /\ r.t = g.t /\ r.k = g.k /\ r.v = g.v /\ r.ex = "ESRCH"
  BY DEF Throw, Frames
<1> HIDE DEF r
<1>2. f \in Frames /\ f.k \in Thread /\ f.t \in Tracees /\ f.v \in Views /\ g.t \in Tracees
  BY FrameParts DEF Reported
<1>3. /\ g.k.traced = f.k.traced
      /\ \/ g.k.run = "zombie" /\ g.k.at = "ENDED"
         \/ g.k.run = "dying" /\ g.k.fatal
  BY <1>2, KillFields DEF Reported, InStop
<1>4. ~Live(g.k) /\ ThreadInv(g.k) /\ KernelInv(g.k, alone)
  BY <1>2, KillNotLive, KillStep DEF Reported, StepKeeps
<1>5. Core(f.t, f.k, f.v, alone) /\ f.v.ends = 0 /\ ~f.v.lost /\ f.k.traced /\ f.k.run = "stop"
  BY DEF Reported, InStop
<1>6. HeldInv(g.t, g.k, g.v, alone)
  BY <1>3, <1>5 DEF Core, HeldInv, Alike, Released
<1>7. ToldInv(g.t, g.k, g.v)
  BY <1>2, <1>4, <1>5 DEF Core, ToldInv, Alike
<1>8. ListenInv(g.t, g.k, g.v)
  BY <1>3, <1>4, <1>5 DEF ListenInv
<1>9. RestInv(g.t, g.k, g.v, alone)
  BY <1>3 DEF RestInv, InStop, Exiting
<1>10. Tells(f.v, g.v)
  BY DEF Tells
<1> QED
  BY <1>1, <1>4, <1>6, <1>7, <1>8, <1>9, <1>10 DEF Mid, Core, Alike, r

\* The object has let go of the thread before, and so cannot reach it.
LEMMA ThrownInvalid ==
  ASSUME NEW alone, NEW f, Reported(f, alone), ~f.t.valid, NEW g \in Frames, Alike(f.t, g.t), g.k = f.k, g.v = f.v,
         g.t.mode # "LISTEN" \/ f.k.at = "EV_EXIT",
         "SYSCALL_ENTERED" \in g.t.flags <=> "SYSCALL_ENTERED" \in f.t.flags
  PROVE  Mid(f, Throw(g, "ESRCH"), alone)
<1> DEFINE r == Throw(g, "ESRCH")
<1>1. r \in Frames /\ r.t = g.t /\ r.k = g.k /\ r.v = g.v /\ r.ex = "ESRCH"
  BY DEF Throw, Frames
<1> HIDE DEF r
<1>2. f \in Frames /\ f.k \in Thread /\ f.t \in Tracees /\ f.v \in Views /\ g.t \in Tracees
  BY FrameParts DEF Reported
<1>5. Core(f.t, f.k, f.v, alone) /\ f.v.ends = 0 /\ ~f.v.lost /\ InStop(f.k) /\ f.k.traced /\ f.k.run = "stop" /\ ~f.k.status
  BY DEF Reported, InStop
<1>6. HeldInv(g.t, g.k, g.v, alone)
  BY <1>5 DEF Core, HeldInv, Alike
<1>7. ToldInv(g.t, g.k, g.v)
  BY <1>2, <1>5 DEF Core, ToldInv, Alike
<1>8. ListenInv(g.t, g.k, g.v)
  BY <1>5 DEF ListenInv, Live
<1>9. RestInv(g.t, g.k, g.v, alone)
  BY <1>5 DEF RestInv, InStop, Exiting, Alike
<1>10. Tells(f.v, g.v)
  BY DEF Tells
<1> QED
  BY <1>1, <1>6, <1>7, <1>8, <1>9, <1>10 DEF Mid, Core, Reported, Alike, r

\* The consumer has detached in a callback.
LEMMA LetGoMid ==
  ASSUME NEW alone, NEW f, Reported(f, alone), NEW r \in Frames, r.ex = "none", r.k = Detach(f.k, f.t.child),
         ~r.t.valid, r.t.state = "DETACHED", r.t.flags \subseteq {"WAIT_FOR_EXITED", "SEEN_SIGRETURN"},
         r.v.asked, ~r.v.wrong, r.v.ends \in {0, 1}, r.v.ends = 1 \/ r.v.lost => f.k.at = "EV_EXIT",
         r.t.child /\ r.t.mode # "CONT" => ~r.v.lost,
         r.t.intr # "none" => r.v.intr = r.t.intr, Tells(f.v, r.v), r.t.child = f.t.child
  PROVE  Mid(f, r, alone)
<1>1. f \in Frames /\ f.k \in Thread /\ f.t \in Tracees /\ f.v \in Views /\ r.v \in Views /\ f.t.child \in BOOLEAN
  BY FrameParts DEF Reported, Tracees
<1>2. /\ r.k \in Thread /\ ~r.k.traced /\ ThreadInv(r.k) /\ KernelInv(r.k, alone) /\ r.k.run # "listen"
      /\ f.k.at = "EV_EXIT" => r.k.run = "zombie"
  BY <1>1, DetachFields DEF Reported
<1>3. ~Live(r.k)
  BY <1>2 DEF Live
<1>4. HeldInv(r.t, r.k, r.v, alone)
  BY <1>2 DEF HeldInv, Released
<1>5. ToldInv(r.t, r.k, r.v)
  BY <1>1, <1>2, <1>3 DEF ToldInv, Over
<1>6. ListenInv(r.t, r.k, r.v) /\ RestInv(r.t, r.k, r.v, alone)
  BY <1>2, <1>3 DEF ListenInv, RestInv, InStop, Exiting
<1> QED
  BY <1>2, <1>4, <1>5, <1>6 DEF Mid, Core

\* A handler ends with a callback, and leaves the object g.t.
LEMMA NotifyMid ==
  ASSUME NEW alone, NEW f, Reported(f, alone), NEW g \in Frames, g.k = f.k, g.v = f.v, g.ex = "none", g.t.child = f.t.child,
         g.t.state \notin {"RUNNING", "UNKNOWN", "DEAD", "DETACHED"},
         NEW in, NEW cb, NEW call \in MaybeCall, NEW flag,
         LET w == Told(f.v, cb, call, flag) IN Core(g.t, f.k, w, alone) /\ w.ends = 0 /\ Tells(f.v, w),
         f.k.at # "EV_EXIT", f.k.at = "EV_STOP_TRAP" => g.t.mode # "LISTEN",
         f.k.insys /\ f.k.nr = "exit" => g.t.state = "SYSCALL_ENTER_STOP" /\ g.t.cur = "exit"
  PROVE  Mid(f, Notify(g, in, cb, call, flag), alone)
<1> DEFINE r == Notify(g, in, cb, call, flag)
           w == Told(f.v, cb, call, flag)
<1>1. f \in Frames /\ f.k \in Thread /\ f.t \in Tracees /\ f.v \in Views /\ g.t \in Tracees
  BY FrameParts DEF Reported
<1>2. w \in Views /\ w.asked = f.v.asked /\ w.refused = f.v.refused
  BY <1>1, ToldParts
<1>3. ThreadInv(f.k) /\ KernelInv(f.k, alone) /\ InStop(f.k)
  BY DEF Reported
<1>4. /\ r \in Frames /\ r.ex = "none" /\ SameTold(w, r.v) /\ r.v.refused = f.v.refused
      /\ \/ r.t = g.t /\ r.k = f.k /\ r.v.asked = f.v.asked
         \/ r.t = g.t /\ r.k = f.k /\ r.v.asked /\ ~g.t.valid
         \/ /\ LetGo(g.t, r.t) /\ r.t.state = "DETACHED" /\ r.v.asked
            /\ r.k = Detach(f.k, g.t.child)
  BY <1>3, NotifyParts
<1>5. Core(g.t, f.k, w, alone) /\ w.ends = 0 /\ Tells(f.v, w)
  OBVIOUS
<1> HIDE DEF r, w
<1>6. r.v \in Views
  BY <1>4, FrameParts
<1>7. Tells(f.v, r.v)
  BY <1>2, <1>4, <1>5 DEF SameTold, Tells
<1>8. CASE r.t = g.t /\ r.k = f.k /\ (r.v.asked = f.v.asked \/ (r.v.asked /\ ~g.t.valid))
  <2>1. r.v.asked = w.asked
    BY <1>2, <1>5, <1>6, <1>8 DEF Core, HeldInv, Views
  <2>2. Core(r.t, r.k, r.v, alone)
    BY <1>2, <1>4, <1>5, <1>8, <2>1 DEF SameTold, Core, HeldInv, ToldInv, ListenInv
  <2> QED BY <1>3, <1>4, <1>7, <1>8, <2>2 DEF Mid, Restartable, r
<1>9. CASE /\ LetGo(g.t, r.t) /\ r.t.state = "DETACHED" /\ r.v.asked
           /\ r.k = Detach(f.k, g.t.child)
  <2>1. /\ ~r.v.wrong /\ r.v.ends = 0 /\ ~r.v.lost /\ (r.t.intr # "none" => r.v.intr = r.t.intr)
        /\ ~r.t.valid /\ r.t.flags = {} /\ r.t.child = f.t.child
    <3>1. ~w.lost
      BY <1>3, <1>5 DEF Core, ToldInv, Over, InStop
    <3> QED BY <1>4, <1>5, <1>9, <3>1 DEF SameTold, LetGo, Core, ToldInv
  <2> QED BY <1>4, <1>7, <1>9, <2>1, LetGoMid DEF r
<1> QED
  BY <1>4, <1>8, <1>9

\* SIGKILL at a point of a handler: either it does not come there, or the thread
\* does not answer any more.
LEMMA KillAtParts ==
  ASSUME NEW f \in Frames, NEW in, NEW p
  PROVE  LET g == KillAt(f, in, p)
         IN  /\ g \in Frames /\ g.t = f.t /\ g.v = f.v /\ g.ex = f.ex
             /\ g = f \/ (g.k = Kill(f.k) /\ ~InStop(g.k))
<1> DEFINE c == Kill(f.k)
           h == [f EXCEPT !.k = c]
<1>1. c \in Thread /\ f.k \in Thread
  BY FrameParts, KillType
<1>2. ~InStop(c)
  BY <1>1, KillFields DEF InStop
<1> HIDE DEF c
<1>3. h \in Frames /\ h.t = f.t /\ h.v = f.v /\ h.ex = f.ex /\ h.k = c
  BY <1>1, FrameParts
<1>4. KillAt(f, in, p) = IF in.kill = p THEN h ELSE f
  BY DEF KillAt, c
<1> HIDE DEF h
<1> QED
  BY <1>2, <1>3, <1>4 DEF c

\* A request to the thread either goes through or ends the handler.
LEMMA RequestMid ==
  ASSUME NEW alone, NEW f, Reported(f, alone), NEW g \in Frames, Alike(f.t, g.t), g.k = f.k, g.v = f.v, NEW in, NEW p,
         f.t.valid \/ /\ g.t.mode # "LISTEN" \/ f.k.at = "EV_EXIT"
                      /\ "SYSCALL_ENTERED" \in g.t.flags <=> "SYSCALL_ENTERED" \in f.t.flags
  PROVE  LET h == KillAt(g, in, p)
         IN  IF Reachable(h) THEN h = g /\ g.t.valid ELSE Mid(f, Throw(h, "ESRCH"), alone)
<1> DEFINE h == KillAt(g, in, p)
<1>1. h \in Frames /\ h.t = g.t /\ h.v = f.v /\ (h = g \/ (h.k = Kill(f.k) /\ ~InStop(h.k)))
  BY KillAtParts
<1> HIDE DEF h
<1>2. CASE h = g
  <2>1. CASE g.t.valid
    BY <1>2, <2>1 DEF Reachable, Reported, h
  <2>2. CASE ~g.t.valid
    <3>1. ~f.t.valid /\ ~Reachable(h)
      BY <1>2, <2>2 DEF Alike, Reachable
    <3>2. Mid(f, Throw(g, "ESRCH"), alone)
      BY <3>1, ThrownInvalid
    <3> QED BY <1>2, <3>1, <3>2 DEF h
  <2> QED BY <2>1, <2>2
<1>3. CASE h.k = Kill(f.k) /\ ~InStop(h.k)
  <2>1. Mid(f, Throw(h, "ESRCH"), alone)
    BY <1>1, <1>3, ThrownKilled
  <2> QED BY <1>3, <2>1 DEF Reachable, h
<1> QED
  BY <1>1, <1>2, <1>3

\* The object enters a stop that is neither a system call stop nor a group-stop.
LEMMA ToStopParts ==
  ASSUME NEW alone, NEW f, Reported(f, alone), NEW s \in {"EVENT_STOP", "SIGNAL_DELIVERY_STOP"}
  PROVE  LET g == ToState(f, s)
         IN  /\ g \in Frames /\ g.k = f.k /\ g.v = f.v /\ g.ex = "none" /\ Alike(f.t, g.t)
             /\ g.t.child = f.t.child /\ g.t.state = s /\ g.t.flags = f.t.flags /\ g.t.mode = f.t.mode
             /\ g.t.prev = IF f.t.state # "RUNNING" THEN f.t.state ELSE f.t.prev
             /\ g.t.valid = f.t.valid /\ g.t.cur = f.t.cur /\ g.t.intr = f.t.intr /\ g.t.blocked = f.t.blocked
<1> DEFINE g == ToState(f, s)
<1>1. f \in Frames /\ f.ex = "none" /\ s \in States
  BY DEF Reported, States
<1>2. /\ g \in Frames /\ g.k = f.k /\ g.v = f.v /\ g.ex = "none"
      /\ g.t.child = f.t.child /\ g.t.state = s /\ g.t.flags = ChangedFlags(f.t, s) /\ g.t.mode = f.t.mode
      /\ g.t.prev = IF f.t.state # "RUNNING" THEN f.t.state ELSE f.t.prev
      /\ g.t.valid = f.t.valid /\ g.t.cur = f.t.cur /\ g.t.intr = f.t.intr /\ g.t.blocked = f.t.blocked
  BY <1>1, ToStateParts
<1>3. ChangedFlags(f.t, s) = f.t.flags
  BY DEF ChangedFlags
<1> HIDE DEF g
<1>4. Alike(f.t, g.t)
  BY <1>2, <1>3 DEF Alike
<1> QED
  BY <1>2, <1>3, <1>4 DEF g

\* Only an exit-stop, and the entry to exit(), lie in exit().
LEMMA NotInExit ==
  ASSUME NEW alone, NEW f, Reported(f, alone), f.k.at \notin {"EV_EXIT", "SYS_ENTRY"} PROVE ~(f.k.insys /\ f.k.nr = "exit")
<1>1. f.k.run = "stop" /\ f.k.at # "STOPPED" /\ ThreadInv(f.k) /\ KernelInv(f.k, alone)
  BY DEF Reported, InStop
<1> QED
  BY <1>1 DEF ThreadInv, KernelInv, PtraceStops, SyscallStops, SignalStops, EventStops

\* An object that has only entered another stop still fits.
LEMMA StopCore ==
  ASSUME NEW alone, NEW f, Reported(f, alone), NEW x, Alike(f.t, x), f.k.at \notin {"EV_STOP_SIG", "EV_STOP_TRAP"},
         x.mode = f.t.mode, x.intr = f.t.intr, "SYSCALL_ENTERED" \in x.flags <=> "SYSCALL_ENTERED" \in f.t.flags,
         x.state \notin {"DEAD", "DETACHED"}
  PROVE  Core(x, f.k, f.v, alone)
<1>1. Core(f.t, f.k, f.v, alone) /\ f.k.run = "stop"
  BY DEF Reported, InStop
<1>2. HeldInv(x, f.k, f.v, alone)
  BY <1>1 DEF Core, HeldInv, Alike
<1>3. ToldInv(x, f.k, f.v)
  BY <1>1 DEF Core, ToldInv, Alike
<1>4. ListenInv(x, f.k, f.v)
  BY <1>1 DEF Core, ListenInv, InTrapStop
<1> QED
  BY <1>2, <1>3, <1>4 DEF Core

\* A handler that tells the consumer nothing.
LEMMA Unchanged ==
  ASSUME NEW alone, NEW f, Reported(f, alone), f.k.at \notin {"EV_EXIT", "SYS_ENTRY"}, NEW r \in Frames, r.k = f.k, r.v = f.v,
         f.k.at = "EV_STOP_TRAP" => r.t.mode # "LISTEN", r.ex = "none",
         r.t.state \notin {"RUNNING", "UNKNOWN", "DEAD", "DETACHED"}, Core(r.t, f.k, f.v, alone),
         r.t.child = f.t.child
  PROVE  Mid(f, r, alone)
<1>1. ~(f.k.insys /\ f.k.nr = "exit") /\ Tells(f.v, r.v)
  BY NotInExit DEF Tells
<1> QED
  BY <1>1 DEF Mid, Restartable, Reported

\* A callback that tells about neither a system call nor a stop nor the end.
LEMMA PlainCallback ==
  ASSUME NEW alone, NEW f, Reported(f, alone), f.k.at \notin {"EV_EXIT", "SYS_ENTRY", "EV_STOP_TRAP"}, NEW g \in Frames,
         g.k = f.k, g.v = f.v, g.ex = "none", g.t.child = f.t.child,
         g.t.state \notin {"RUNNING", "UNKNOWN", "DEAD", "DETACHED"},
         Core(g.t, f.k, f.v, alone), NEW in,
         NEW cb \in {"signaled", "newExecutionContext", "newChildProcess", "vforkComplete"}
  PROVE  Mid(f, Notify(g, in, cb, "none", "none"), alone)
<1> DEFINE w == Told(f.v, cb, "none", "none")
<1>1. f.v \in Views /\ "none" \in MaybeCall
  BY FrameParts DEF Reported, MaybeCall
<1>2. /\ w.asked = f.v.asked /\ w.refused = f.v.refused /\ w.attached = f.v.attached /\ w.insys = f.v.insys
      /\ w.stopped = f.v.stopped /\ w.intr = f.v.intr /\ w.ends = 0 /\ w.lost = f.v.lost /\ ~w.wrong
  <2>1. f.v.ends = 0 /\ ~f.v.wrong
    BY DEF Reported, Core, ToldInv
  <2>2. /\ w \in Views /\ w.asked = f.v.asked /\ w.refused = f.v.refused /\ (w.attached <=> f.v.attached)
        /\ (w.insys <=> f.v.insys) /\ (w.stopped <=> f.v.stopped) /\ w.intr = f.v.intr /\ w.ends = f.v.ends
        /\ (w.lost <=> f.v.lost) /\ (w.wrong <=> f.v.wrong \/ f.v.ends > 0)
    BY <1>1, ToldParts
  <2> HIDE DEF w
  <2> QED BY <1>1, <2>1, <2>2 DEF Views
<1> HIDE DEF w
<1>3. Core(g.t, f.k, w, alone)
  BY <1>2 DEF Reported, Core, HeldInv, ToldInv, ListenInv
<1>4. Tells(f.v, w)
  BY <1>2 DEF Tells, Reported
<1>5. ~(f.k.insys /\ f.k.nr = "exit")
  BY NotInExit
<1> QED
  BY <1>1, <1>2, <1>3, <1>4, <1>5, NotifyMid DEF w

\* handleSignal()
LEMMA HandleSignalMid ==
  ASSUME NEW alone, NEW f, Reported(f, alone), f.k.at \in SignalStops, NEW in PROVE Mid(f, HandleSignal(f, in), alone)
<1> DEFINE g0 == ToState(f, "SIGNAL_DELIVERY_STOP")
           g == KillAt(g0, in, "request")
           x == [g0.t EXCEPT !.flags = g0.t.flags \ {"INJECTED_SIGCONT"}]
           h == [g0 EXCEPT !.t = x]
<1>1. /\ g0 \in Frames /\ g0.k = f.k /\ g0.v = f.v /\ g0.ex = "none" /\ Alike(f.t, g0.t)
      /\ g0.t.child = f.t.child /\ g0.t.state = "SIGNAL_DELIVERY_STOP" /\ g0.t.flags = f.t.flags
      /\ g0.t.mode = f.t.mode /\ g0.t.valid = f.t.valid /\ g0.t.intr = f.t.intr /\ g0.t.blocked = f.t.blocked
  BY ToStopParts
<1>2. f.t.valid /\ f.k.at \notin {"EV_EXIT", "SYS_ENTRY", "EV_STOP_SIG", "EV_STOP_TRAP"}
  BY DEF Reported, SignalStops
<1>3. HandleSignal(f, in) = IF ~Reachable(g) THEN Throw(g, "ESRCH")
                            ELSE IF "INJECTED_SIGCONT" \in g.t.flags /\ in.ev = "SIG_CONT"
                            THEN [g EXCEPT !.t.flags = @ \ {"INJECTED_SIGCONT"}]
                            ELSE Notify(g, in, "signaled", "none", "none")
  BY DEF HandleSignal
<1> HIDE DEF g0
<1>4. IF Reachable(g) THEN g = g0 ELSE Mid(f, Throw(g, "ESRCH"), alone)
  BY <1>1, <1>2, RequestMid
<1> HIDE DEF g
<1>5. Core(g0.t, f.k, f.v, alone)
  BY <1>1, <1>2, StopCore
<1>6. CASE ~Reachable(g)
  BY <1>3, <1>4, <1>6
<1>7. CASE Reachable(g) /\ ~("INJECTED_SIGCONT" \in g.t.flags /\ in.ev = "SIG_CONT")
  BY <1>1, <1>2, <1>3, <1>4, <1>5, <1>7, PlainCallback
<1>8. CASE Reachable(g) /\ "INJECTED_SIGCONT" \in g.t.flags /\ in.ev = "SIG_CONT"
  <2>1. HandleSignal(f, in) = [g0 EXCEPT !.t.flags = g0.t.flags \ {"INJECTED_SIGCONT"}]
    BY <1>3, <1>4, <1>8
  <2>2. HandleSignal(f, in) = h /\ g0.t \in Tracees
    BY <1>1, <2>1 DEF Frames
  <2>3. g0.t.flags \ {"INJECTED_SIGCONT"} \in SUBSET Flags
    BY <2>2 DEF Tracees
  <2>4. /\ x \in Tracees /\ x.child = g0.t.child /\ x.state = g0.t.state /\ x.mode = g0.t.mode /\ x.valid = g0.t.valid
        /\ x.intr = g0.t.intr /\ x.blocked = g0.t.blocked /\ x.flags = g0.t.flags \ {"INJECTED_SIGCONT"}
    BY <2>2, <2>3 DEF Tracees
  <2> HIDE DEF x
  <2>5. h \in Frames /\ h.t = x /\ h.k = f.k /\ h.v = f.v /\ h.ex = "none"
    BY <1>1, <2>4, FrameParts
  <2> HIDE DEF h
  <2>6. Alike(f.t, x)
    BY <1>1, <2>4 DEF Alike
  <2>7. Core(x, f.k, f.v, alone)
    BY <1>1, <1>2, <2>4, <2>6, StopCore
  <2> QED BY <1>1, <1>2, <2>2, <2>4, <2>5, <2>7, Unchanged
<1> QED
  BY <1>6, <1>7, <1>8

\* handleExecEvent(), for a thread that is the only one of its process.
LEMMA HandleExecEventMid ==
  ASSUME NEW alone, NEW f, Reported(f, alone), f.k.at = "EV_EXEC", NEW in
  PROVE  Mid(f, HandleExecEvent(ToState(f, "EVENT_STOP"), in), alone)
<1> DEFINE g0 == ToState(f, "EVENT_STOP")
           g == KillAt(g0, in, "request")
<1>1. /\ g0 \in Frames /\ g0.k = f.k /\ g0.v = f.v /\ g0.ex = "none" /\ Alike(f.t, g0.t)
      /\ g0.t.child = f.t.child /\ g0.t.state = "EVENT_STOP" /\ g0.t.flags = f.t.flags
      /\ g0.t.mode = f.t.mode /\ g0.t.intr = f.t.intr
  BY ToStopParts
<1>2. f.t.valid /\ g0.t.valid
  BY <1>1 DEF Reported, Alike
<1>3. HandleExecEvent(g0, in) = IF ~InStop(g.k) THEN Throw(g, "ESRCH")
                                ELSE Notify(g, in, "newExecutionContext", "none", "none")
  BY DEF HandleExecEvent
<1> HIDE DEF g0
<1>4. IF Reachable(g) THEN g = g0 ELSE Mid(f, Throw(g, "ESRCH"), alone)
  BY <1>1, <1>2, RequestMid
<1>5. g.t = g0.t
  BY <1>1, KillAtParts
<1> HIDE DEF g
<1>6. Core(g0.t, f.k, f.v, alone)
  BY <1>1, StopCore
<1>7. Reachable(g) <=> InStop(g.k)
  BY <1>2, <1>5 DEF Reachable
<1>8. CASE ~InStop(g.k)
  BY <1>3, <1>4, <1>7, <1>8 DEF g0
<1>9. CASE InStop(g.k)
  BY <1>1, <1>3, <1>4, <1>6, <1>7, <1>9, PlainCallback DEF g0
<1> QED
  BY <1>8, <1>9

\* handleNewChildEvent(); it may find no system call to take the flags from.
LEMMA HandleNewChildEventMid ==
  ASSUME NEW alone, NEW f, Reported(f, alone), f.k.at \in {"EV_CHILD", "EV_VFORK_DONE"}, NEW in
  PROVE  Mid(f, HandleNewChildEvent(ToState(f, "EVENT_STOP"), in), alone)
<1> DEFINE g0 == ToState(f, "EVENT_STOP")
           g == KillAt(g0, in, "request")
<1>1. /\ g0 \in Frames /\ g0.k = f.k /\ g0.v = f.v /\ g0.ex = "none" /\ Alike(f.t, g0.t)
      /\ g0.t.child = f.t.child /\ g0.t.state = "EVENT_STOP" /\ g0.t.flags = f.t.flags
      /\ g0.t.mode = f.t.mode /\ g0.t.intr = f.t.intr
  BY ToStopParts
<1>2. f.t.valid /\ g0.t.valid
  BY <1>1 DEF Reported, Alike
<1>3. HandleNewChildEvent(g0, in) =
        IF ~Reachable(g) THEN Throw(g, "ESRCH")
        ELSE IF in.ev = "EV_VFORK_DONE" THEN Notify(g, in, "vforkComplete", "none", "none")
        ELSE IF g.t.cur = "none" THEN Throw(g, "null")
        ELSE Notify(g, in, "newChildProcess", "none", "none")
  BY DEF HandleNewChildEvent
<1> HIDE DEF g0
<1>4. IF Reachable(g) THEN g = g0 ELSE Mid(f, Throw(g, "ESRCH"), alone)
  BY <1>1, <1>2, RequestMid
<1> HIDE DEF g
<1>5. Core(g0.t, f.k, f.v, alone)
  BY <1>1, StopCore
<1>6. Mid(f, Throw(g0, "null"), alone)
  <2> DEFINE r == Throw(g0, "null")
  <2>1. r \in Frames /\ r.ex = "null" /\ r.t = g0.t /\ r.k = f.k /\ r.v = f.v
    BY <1>1 DEF Throw, Frames
  <2> HIDE DEF r
  <2>2. Tells(f.v, r.v)
    BY <2>1 DEF Tells
  <2> QED BY <1>1, <1>2, <2>1, <2>2 DEF Mid, Aborts, Reported, r
<1>7. CASE ~Reachable(g)
  BY <1>3, <1>4, <1>7 DEF g0
<1>8. CASE Reachable(g)
  <2>1. /\ Mid(f, Notify(g0, in, "vforkComplete", "none", "none"), alone)
        /\ Mid(f, Notify(g0, in, "newChildProcess", "none", "none"), alone)
    BY <1>1, <1>5, PlainCallback
  <2> QED BY <1>3, <1>4, <1>6, <1>8, <2>1 DEF g0
<1> QED
  BY <1>7, <1>8

\* The attach-stop, in handleAttached().
LEMMA HandleAttachedMid ==
  ASSUME NEW alone, NEW f, Reported(f, alone), f.k.at \in {"EV_STOP_SIG", "EV_STOP_TRAP"}, NEW in,
         "WAIT_FOR_ATTACH_STOP" \in f.t.flags
  PROVE  Mid(f, HandleAttached(ToState(f, "EVENT_STOP"), in), alone)
<1> DEFINE g0 == ToState(f, "EVENT_STOP")
           mo == IF "INJECTED_SIGSTOP" \in g0.t.flags THEN g0.t.mode ELSE "SYSCALL"
           x == [g0.t EXCEPT !.flags = g0.t.flags \ {"WAIT_FOR_ATTACH_STOP"}, !.mode = mo]
           m == [g0 EXCEPT !.t = x]
           g == KillAt(m, in, "request")
<1>1. /\ g0 \in Frames /\ g0.k = f.k /\ g0.v = f.v /\ g0.ex = "none" /\ Alike(f.t, g0.t)
      /\ g0.t.child = f.t.child /\ g0.t.state = "EVENT_STOP" /\ g0.t.flags = f.t.flags
      /\ g0.t.mode = f.t.mode /\ g0.t.intr = f.t.intr /\ g0.t.valid = f.t.valid /\ g0.t.blocked = f.t.blocked
  BY ToStopParts
<1>2. HandleAttached(g0, in) = IF ~Reachable(g) THEN Throw(g, "ESRCH")
                               ELSE Notify(g, in, "attached", "none", "none")
  <2> HIDE DEF g0
  <2>1. m = [g0 EXCEPT !.t.flags = @ \ {"WAIT_FOR_ATTACH_STOP"},
                       !.t.mode = IF "INJECTED_SIGSTOP" \in g0.t.flags THEN @ ELSE "SYSCALL"]
    BY <1>1 DEF Frames, Tracees
  <2> HIDE DEF m
  <2> QED BY <2>1 DEF HandleAttached
<1> HIDE DEF g0
<1>3. Core(f.t, f.k, f.v, alone) /\ ~f.v.attached /\ f.t.mode = "CONT" /\ f.v.ends = 0 /\ ~f.v.lost /\ ~f.v.wrong
      /\ f.k.run = "stop" /\ f.v \in Views
  BY FrameParts DEF Reported, Core, ToldInv, InStop
<1>4. /\ x \in Tracees /\ x.child = f.t.child /\ x.state = "EVENT_STOP" /\ x.mode \in {"CONT", "SYSCALL"}
      /\ x.valid = f.t.valid /\ x.intr = f.t.intr /\ x.blocked = f.t.blocked
      /\ x.flags = f.t.flags \ {"WAIT_FOR_ATTACH_STOP"}
  <2>1. g0.t \in Tracees /\ mo \in {"CONT", "SYSCALL"}
    BY <1>1, <1>3, FrameParts
  <2>2. g0.t.flags \ {"WAIT_FOR_ATTACH_STOP"} \in SUBSET Flags
    BY <2>1 DEF Tracees
  <2> HIDE DEF mo
  <2> QED BY <1>1, <2>1, <2>2 DEF Tracees, RestartModes
<1> HIDE DEF x
<1>5. m \in Frames /\ m.t = x /\ m.k = f.k /\ m.v = f.v /\ m.ex = "none"
  BY <1>1, <1>4, FrameParts
<1> HIDE DEF m
<1>6. Alike(f.t, x)
  BY <1>4 DEF Alike
<1>7. IF Reachable(g) THEN g = m ELSE Mid(f, Throw(g, "ESRCH"), alone)
  BY <1>4, <1>5, <1>6, RequestMid
<1> HIDE DEF g
<1>8. CASE ~Reachable(g)
  BY <1>2, <1>7, <1>8 DEF g0
<1>9. CASE Reachable(g)
  <2> DEFINE w == Told(f.v, "attached", "none", "none")
  <2>1. "none" \in MaybeCall
    BY DEF MaybeCall
  <2>2. /\ w \in Views /\ w.asked = f.v.asked /\ w.refused = f.v.refused /\ w.attached
        /\ (w.insys <=> f.v.insys) /\ (w.stopped <=> f.v.stopped) /\ w.intr = f.v.intr /\ w.ends = 0
        /\ ~w.lost /\ ~w.wrong
    BY <1>3, <2>1, ToldParts
  <2> HIDE DEF w
  <2>3. HeldInv(x, f.k, w, alone)
    BY <1>3, <1>4, <2>2 DEF Core, HeldInv
  <2>4. ToldInv(x, f.k, w)
    BY <1>3, <1>4, <2>2 DEF Core, ToldInv
  <2>5. ListenInv(x, f.k, w)
    BY <1>3, <1>4 DEF ListenInv
  <2>6. Tells(f.v, w)
    BY <1>3, <2>2 DEF Tells, Views
  <2>7. ~(f.k.insys /\ f.k.nr = "exit")
    BY NotInExit
  <2>8. Mid(f, Notify(m, in, "attached", "none", "none"), alone)
    BY <1>4, <1>5, <2>1, <2>2, <2>3, <2>4, <2>5, <2>6, <2>7, NotifyMid DEF Core, w
  <2> QED BY <1>2, <1>7, <1>9, <2>8 DEF g0
<1> QED
  BY <1>8, <1>9

\* handleStopEvent(): the attach-stop, a group-stop, or the end of one.
LEMMA HandleStopEventMid ==
  ASSUME NEW alone, NEW f, Reported(f, alone), f.k.at \in {"EV_STOP_SIG", "EV_STOP_TRAP"}, NEW in, in.ev = f.k.at
  PROVE  Mid(f, HandleStopEvent(ToState(f, "EVENT_STOP"), in), alone)
<1> DEFINE g0 == ToState(f, "EVENT_STOP")
<1>1. /\ g0 \in Frames /\ g0.k = f.k /\ g0.v = f.v /\ g0.ex = "none"
      /\ g0.t.child = f.t.child /\ g0.t.state = "EVENT_STOP" /\ g0.t.flags = f.t.flags
      /\ g0.t.mode = f.t.mode /\ g0.t.intr = f.t.intr /\ g0.t.valid = f.t.valid /\ g0.t.blocked = f.t.blocked
  BY ToStopParts
<1>2. /\ Core(f.t, f.k, f.v, alone) /\ f.v.ends = 0 /\ ~f.v.lost /\ ~f.v.wrong /\ f.k.run = "stop"
      /\ f.v \in Views /\ g0.t \in Tracees
  BY <1>1, FrameParts DEF Reported, Core, ToldInv, InStop
<1>3. ~(f.k.insys /\ f.k.nr = "exit")
  BY NotInExit
<1>4. CASE "WAIT_FOR_ATTACH_STOP" \in f.t.flags
  <2>1. HandleStopEvent(g0, in) = HandleAttached(g0, in)
    BY <1>1, <1>4 DEF HandleStopEvent
  <2> QED BY <1>4, <2>1, HandleAttachedMid
<1>5. CASE "WAIT_FOR_ATTACH_STOP" \notin f.t.flags /\ in.ev = "EV_STOP_SIG"
  <2> DEFINE y == ToState(g0, "GROUP_STOP")
             x == [y.t EXCEPT !.stopSig = TRUE]
             g == [y EXCEPT !.t = x]
             w == Told(f.v, "stopped", "none", "none")
  <2>1. /\ y \in Frames /\ y.k = f.k /\ y.v = f.v /\ y.ex = "none" /\ y.t.child = f.t.child
        /\ y.t.state = "GROUP_STOP" /\ y.t.flags = ChangedFlags(g0.t, "GROUP_STOP")
        /\ y.t.mode \in {"SYSCALL", "LISTEN"}
        /\ y.t.valid = f.t.valid /\ y.t.intr = f.t.intr /\ y.t.blocked = f.t.blocked
    <3>1. "GROUP_STOP" \in States
      BY DEF States
    <3> HIDE DEF g0
    <3> QED BY <1>1, <3>1, ToStateParts
  <2>2. HandleStopEvent(g0, in) = Notify(g, in, "stopped", "none", "none")
    <3> HIDE DEF g0
    <3>1. g = [y EXCEPT !.t.stopSig = TRUE]
      BY <2>1 DEF Frames
    <3> HIDE DEF g
    <3> QED BY <1>1, <1>5, <3>1 DEF HandleStopEvent
  <2>3. ChangedFlags(g0.t, "GROUP_STOP") = f.t.flags \ {"INJECTED_SIGSTOP"}
    BY <1>1 DEF ChangedFlags
  <2> HIDE DEF y, g0
  <2>4. /\ x \in Tracees /\ x.child = f.t.child /\ x.state = "GROUP_STOP" /\ x.mode \in {"SYSCALL", "LISTEN"}
        /\ x.valid = f.t.valid /\ x.intr = f.t.intr /\ x.blocked = f.t.blocked /\ x.stopSig
        /\ x.flags = f.t.flags \ {"INJECTED_SIGSTOP"}
    <3>1. y.t \in Tracees
      BY <2>1, FrameParts
    <3> QED BY <2>1, <2>3, <3>1 DEF Tracees
  <2> HIDE DEF x
  <2>5. g \in Frames /\ g.t = x /\ g.k = f.k /\ g.v = f.v /\ g.ex = "none"
    BY <2>1, <2>4, FrameParts
  <2>6. "none" \in MaybeCall
    BY DEF MaybeCall
  <2>7. /\ w \in Views /\ w.asked = f.v.asked /\ w.refused = f.v.refused /\ (w.attached <=> f.v.attached)
        /\ (w.insys <=> f.v.insys) /\ w.stopped /\ w.intr = f.v.intr /\ w.ends = 0
        /\ ~w.lost /\ ~w.wrong
    BY <1>2, <2>6, ToldParts
  <2> HIDE DEF g, w
  <2>8. HeldInv(x, f.k, w, alone)
    BY <1>2, <2>4, <2>7 DEF Core, HeldInv
  <2>9. ToldInv(x, f.k, w)
    BY <1>2, <1>5, <2>4, <2>7 DEF Core, ToldInv
  <2>10. ListenInv(x, f.k, w)
    BY <1>2, <2>4, <2>7 DEF ListenInv, InTrapStop
  <2>11. Tells(f.v, w)
    BY <1>2, <2>7 DEF Tells, Views
  <2>12. Mid(f, Notify(g, in, "stopped", "none", "none"), alone)
    BY <1>3, <1>5, <2>4, <2>5, <2>6, <2>7, <2>8, <2>9, <2>10, <2>11, NotifyMid DEF Core, w
  <2> QED BY <2>2, <2>12 DEF g0
<1>6. CASE "WAIT_FOR_ATTACH_STOP" \notin f.t.flags /\ in.ev # "EV_STOP_SIG"
  <2> DEFINE x == [g0.t EXCEPT !.mode = "SYSCALL"]
             g == [g0 EXCEPT !.t = x]
  <2>1. HandleStopEvent(g0, in) = g
    <3> HIDE DEF g0
    <3>1. g = [g0 EXCEPT !.t.mode = "SYSCALL"]
      BY <1>1 DEF Frames
    <3> HIDE DEF g
    <3> QED BY <1>1, <1>6, <3>1 DEF HandleStopEvent
  <2> HIDE DEF g0
  <2>2. /\ x \in Tracees /\ x.child = f.t.child /\ x.state = "EVENT_STOP" /\ x.mode = "SYSCALL"
        /\ x.valid = f.t.valid /\ x.intr = f.t.intr /\ x.blocked = f.t.blocked /\ x.flags = f.t.flags
    BY <1>1, <1>2 DEF Tracees, RestartModes
  <2> HIDE DEF x
  <2>3. g \in Frames /\ g.t = x /\ g.k = f.k /\ g.v = f.v /\ g.ex = "none"
    BY <1>1, <2>2, FrameParts
  <2> HIDE DEF g
  <2>4. HeldInv(x, f.k, f.v, alone)
    BY <1>2, <2>2 DEF Core, HeldInv
  <2>5. ToldInv(x, f.k, f.v)
    BY <1>2, <1>6, <2>2 DEF Core, ToldInv
  <2>6. ListenInv(x, f.k, f.v)
    BY <1>2, <2>2 DEF ListenInv
  <2> QED BY <2>1, <2>2, <2>3, <2>4, <2>5, <2>6, Unchanged DEF Core, g0
<1> QED
  BY <1>4, <1>5, <1>6

\* handleExitEvent(): exited() is called for a thread that is at its end, and says
\* LOST_TO_MT_EXIT only for one that the object has not seen enter exit().
LEMMA HandleExitEventMid ==
  ASSUME NEW alone, NEW f, Reported(f, alone), f.k.at = "EV_EXIT", NEW in
  PROVE  Mid(f, HandleExitEvent(ToState(f, "EVENT_STOP"), in), alone)
<1> DEFINE g0 == ToState(f, "EVENT_STOP")
           g == KillAt(g0, in, "request")
           flag == IF ~g.k.fatal /\ ~(g.t.prev = "SYSCALL_ENTER_STOP" /\ g.t.cur = "exit")
                   THEN "LOST_TO_MT_EXIT" ELSE "none"
           n == Notify(g, in, "exited", "none", flag)
           w == Told(f.v, "exited", "none", flag)
           x == [n.t EXCEPT !.flags = n.t.flags \cup {"WAIT_FOR_EXITED"}]
           r == [n EXCEPT !.t = x]
<1>1. /\ g0 \in Frames /\ g0.k = f.k /\ g0.v = f.v /\ g0.ex = "none" /\ Alike(f.t, g0.t)
      /\ g0.t.child = f.t.child /\ g0.t.state = "EVENT_STOP" /\ g0.t.flags = f.t.flags
      /\ g0.t.prev = (IF f.t.state # "RUNNING" THEN f.t.state ELSE f.t.prev) /\ g0.t.cur = f.t.cur
      /\ g0.t.mode = f.t.mode /\ g0.t.intr = f.t.intr /\ g0.t.valid = f.t.valid /\ g0.t.blocked = f.t.blocked
  BY ToStopParts
<1>2. /\ Core(f.t, f.k, f.v, alone) /\ f.v.ends = 0 /\ ~f.v.lost /\ ~f.v.wrong /\ f.k.run = "stop" /\ ~f.k.status
      /\ f.v \in Views /\ ThreadInv(f.k) /\ KernelInv(f.k, alone) /\ InStop(f.k) /\ ~Live(f.k)
  BY FrameParts DEF Reported, Core, ToldInv, InStop, Live
<1>3. HandleExitEvent(g0, in) = IF ~Reachable(g) THEN Throw(g, "ESRCH")
                                ELSE [n EXCEPT !.t.flags = @ \cup {"WAIT_FOR_EXITED"}]
  BY Zenon DEF HandleExitEvent
<1> HIDE DEF g0
<1>4. IF Reachable(g) THEN g = g0 /\ g0.t.valid ELSE Mid(f, Throw(g, "ESRCH"), alone)
  BY <1>1, RequestMid
<1> HIDE DEF g
<1>5. CASE ~Reachable(g)
  BY <1>3, <1>4, <1>5 DEF g0
<1>6. CASE Reachable(g)
  <2>1. g = g0 /\ g0.t.valid /\ f.t.valid
    BY <1>1, <1>4, <1>6
  <2>2. "none" \in MaybeCall
    BY DEF MaybeCall
  <2>3. flag = "LOST_TO_MT_EXIT" => ~(f.t.mode # "CONT" /\ f.t.child)
    BY <1>1, <2>1 DEF Reported
  <2>4. flag \notin {"INTERRUPTED", "RESUMED"}
    OBVIOUS
  <2> HIDE DEF flag
  <2>5. /\ w \in Views /\ w.asked = f.v.asked /\ w.refused = f.v.refused /\ (w.attached <=> f.v.attached)
        /\ (w.insys <=> f.v.insys) /\ w.intr = f.v.intr /\ w.ends = 1
        /\ ~w.wrong /\ (w.lost => flag = "LOST_TO_MT_EXIT")
    BY <1>2, <2>2, <2>4, ToldParts
  <2>6. /\ n \in Frames /\ n.ex = "none" /\ SameTold(w, n.v) /\ n.v.refused = f.v.refused
        /\ \/ n.t = g0.t /\ n.k = f.k /\ n.v.asked = f.v.asked
           \/ /\ LetGo(g0.t, n.t) /\ n.t.state = "DETACHED" /\ n.v.asked
              /\ n.k = Detach(f.k, f.t.child)
    BY <1>1, <1>2, <2>1, <2>2, NotifyParts
  <2> HIDE DEF w, n
  <2>7. n.t \in Tracees /\ n.v \in Views
    BY <2>6, FrameParts
  <2>8. HandleExitEvent(g0, in) = r
    BY <1>3, <1>6, <2>6, <2>7 DEF Frames, Tracees
  <2>9. n.t.flags \cup {"WAIT_FOR_EXITED"} \in SUBSET Flags
    BY <2>7 DEF Tracees, Flags
  <2>10. /\ x \in Tracees /\ x.child = n.t.child /\ x.state = n.t.state /\ x.mode = n.t.mode
         /\ x.valid = n.t.valid /\ x.intr = n.t.intr /\ x.blocked = n.t.blocked
         /\ x.flags = n.t.flags \cup {"WAIT_FOR_EXITED"}
    BY <2>7, <2>9 DEF Tracees
  <2> HIDE DEF x
  <2>11. r \in Frames /\ r.t = x /\ r.k = n.k /\ r.v = n.v /\ r.ex = "none"
    BY <2>6, <2>10, FrameParts
  <2> HIDE DEF r
  <2>12. Tells(f.v, r.v)
    <3>1. f.v.asked => n.v.asked
      BY <2>6
    <3> QED BY <1>2, <2>5, <2>6, <2>7, <2>11, <3>1, TellsEnd
  <2>13. CASE n.t = g0.t /\ n.k = f.k /\ n.v.asked = f.v.asked
    <3>1. HeldInv(x, f.k, n.v, alone)
      BY <1>1, <1>2, <2>1, <2>6, <2>10, <2>13 DEF Core, HeldInv
    <3>2. ToldInv(x, f.k, n.v)
      BY <1>1, <1>2, <2>1, <2>3, <2>5, <2>6, <2>10, <2>13 DEF Core, ToldInv, SameTold, Over
    <3>3. ListenInv(x, f.k, n.v)
      BY <1>2 DEF ListenInv
    <3>4. Restartable(f, r, alone)
      BY <1>1, <2>10, <2>11, <2>13, <3>1, <3>2, <3>3 DEF Restartable, Core
    <3> QED BY <1>1, <1>2, <2>8, <2>10, <2>11, <2>12, <2>13, <3>4 DEF Mid, g0
  <2>14. CASE /\ LetGo(g0.t, n.t) /\ n.t.state = "DETACHED" /\ n.v.asked
              /\ n.k = Detach(f.k, f.t.child)
    <3>1. /\ ~x.valid /\ x.flags = {"WAIT_FOR_EXITED"} /\ x.child = f.t.child /\ x.mode = f.t.mode
          /\ x.intr = f.t.intr /\ x.state = "DETACHED"
      BY <1>1, <2>10, <2>14 DEF LetGo
    <3>2. ~r.v.wrong /\ r.v.ends = 1 /\ (r.t.child /\ r.t.mode # "CONT" => ~r.v.lost)
          /\ (r.t.intr # "none" => r.v.intr = r.t.intr)
      BY <1>2, <2>3, <2>5, <2>6, <2>11, <3>1 DEF SameTold, Core, ToldInv
    <3>3. Mid(f, r, alone)
      BY <2>11, <2>12, <2>14, <3>1, <3>2, LetGoMid
    <3> QED BY <2>8, <3>3 DEF g0
  <2> QED BY <2>6, <2>13, <2>14
<1> QED
  BY <1>5, <1>6

\* handleEvent()
LEMMA HandleEventMid ==
  ASSUME NEW alone, NEW f, Reported(f, alone), f.k.at \in EventStops, NEW in, in.ev = f.k.at PROVE Mid(f, HandleEvent(f, in), alone)
<1> DEFINE g == ToState(f, "EVENT_STOP")
<1>1. HandleEvent(f, in) = CASE in.ev \in {"EV_STOP_SIG", "EV_STOP_TRAP"} -> HandleStopEvent(g, in)
                             [] in.ev = "EV_EXIT" -> HandleExitEvent(g, in)
                             [] in.ev = "EV_EXEC" -> HandleExecEvent(g, in)
                             [] OTHER -> HandleNewChildEvent(g, in)
  BY DEF HandleEvent
<1>2. CASE in.ev \in {"EV_STOP_SIG", "EV_STOP_TRAP"}
  BY <1>1, <1>2, HandleStopEventMid
<1>3. CASE in.ev = "EV_EXIT"
  BY <1>1, <1>3, HandleExitEventMid
<1>4. CASE in.ev = "EV_EXEC"
  BY <1>1, <1>4, HandleExecEventMid
<1>5. CASE in.ev \in {"EV_CHILD", "EV_VFORK_DONE"}
  BY <1>1, <1>5, HandleNewChildEventMid
<1> QED
  BY <1>2, <1>3, <1>4, <1>5 DEF EventStops

\* handleSystemCallEntry(): RESUMED names the call that was INTERRUPTED.
LEMMA HandleSystemCallEntryMid ==
  ASSUME NEW alone, NEW f, Reported(f, alone), f.k.at = "SYS_ENTRY", NEW in \in InputRecords
  PROVE  Mid(f, HandleSystemCallEntry(ToState(f, "SYSCALL_ENTER_STOP"), in), alone)
<1> DEFINE e == ToState(f, "SYSCALL_ENTER_STOP")
           c == f.k.nr
           restart == c = "restart_syscall"
           known == f.t.intr # "none"
           recover == restart /\ ~known /\ e.t.fresh /\ in.recovered # "none"
           afterSig == ~restart /\ known /\ "SEEN_SIGRETURN" \in e.t.flags
           cur == IF restart /\ known THEN f.t.intr ELSE IF recover THEN in.recovered ELSE c
           flag == IF (restart /\ known) \/ (afterSig /\ f.t.intr = c) THEN "RESUMED"
                   ELSE IF recover THEN "RECOVERED" ELSE "none"
           it == IF restart \/ afterSig THEN "none" ELSE f.t.intr
           fl == IF afterSig THEN e.t.flags \ {"SEEN_SIGRETURN"} ELSE e.t.flags
           x == [e.t EXCEPT !.cur = cur, !.intr = it, !.flags = fl]
           m == [e EXCEPT !.t = x]
           g == KillAt(m, in, "decode")
           y == [x EXCEPT !.fresh = FALSE]
           h == [m EXCEPT !.t = y]
           w == Told(f.v, "syscallEntry", cur, flag)
<1>1. /\ e \in Frames /\ e.k = f.k /\ e.v = f.v /\ e.ex = "none" /\ e.t.child = f.t.child
      /\ e.t.state = "SYSCALL_ENTER_STOP" /\ e.t.flags = f.t.flags \cup {"SYSCALL_ENTERED"}
      /\ e.t.mode = f.t.mode /\ e.t.valid = f.t.valid /\ e.t.cur = f.t.cur /\ e.t.intr = f.t.intr
      /\ e.t.blocked = f.t.blocked
  <2>1. "SYSCALL_ENTER_STOP" \in States
    BY DEF States
  <2>2. ChangedFlags(f.t, "SYSCALL_ENTER_STOP") = f.t.flags \cup {"SYSCALL_ENTERED"}
    BY DEF ChangedFlags
  <2> QED BY <2>1, <2>2, ToStateParts DEF Reported
<1>2. HandleSystemCallEntry(e, in) = IF ~Reachable(g) THEN Throw(g, "ESRCH")
                                     ELSE Notify([g EXCEPT !.t.fresh = FALSE], in, "syscallEntry", cur, flag)
  <2> HIDE DEF e
  <2>1. m = [e EXCEPT !.t.cur = cur, !.t.intr = it, !.t.flags = fl]
    <3> HIDE DEF cur, it, fl
    <3> QED BY <1>1 DEF Frames, Tracees
  <2> HIDE DEF m
  <2> QED BY <1>1, <2>1 DEF HandleSystemCallEntry
<1> HIDE DEF e
<1>3. /\ f.t \in Tracees /\ f.k \in Thread /\ f.v \in Views /\ e.t \in Tracees /\ Core(f.t, f.k, f.v, alone) /\ f.t.valid
      /\ f.v.ends = 0 /\ ~f.v.lost /\ ~f.v.wrong /\ f.k.run = "stop" /\ Live(f.k)
      /\ "SYSCALL_ENTERED" \notin f.t.flags
  BY <1>1, FrameParts DEF Reported, Core, ToldInv, InStop, Live, PtraceStops, SyscallStops
<1>4. ~f.v.insys /\ f.t.mode # "LISTEN" /\ (known => f.v.intr = f.t.intr)
  BY <1>3 DEF Core, ToldInv, ListenInv, InTrapStop
<1>5. /\ cur \in MaybeCall /\ it \in {f.t.intr, "none"} /\ it \in MaybeCall /\ (c = "exit" => cur = "exit")
      /\ flag \notin {"INTERRUPTED", "LOST_TO_MT_EXIT"}
      /\ flag = "RESUMED" => cur = f.t.intr /\ known /\ it = "none"
  BY <1>3 DEF Thread, Tracees, InputRecords, MaybeCall
<1>6. fl \in SUBSET Flags /\ fl \subseteq f.t.flags \cup {"SYSCALL_ENTERED"} /\ "SYSCALL_ENTERED" \in fl
      /\ ("WAIT_FOR_EXITED" \in fl <=> "WAIT_FOR_EXITED" \in f.t.flags)
  BY <1>1, <1>3 DEF Tracees
<1> HIDE DEF cur, flag, it, fl
<1>7. /\ x \in Tracees /\ x.cur = cur /\ x.intr = it /\ x.flags = fl /\ x.child = f.t.child /\ x.mode = f.t.mode
      /\ x.state = "SYSCALL_ENTER_STOP" /\ x.valid = f.t.valid /\ x.blocked = f.t.blocked
  BY <1>1, <1>3, <1>5, <1>6 DEF Tracees
<1> HIDE DEF x
<1>8. m \in Frames /\ m.t = x /\ m.k = f.k /\ m.v = f.v /\ m.ex = "none"
  BY <1>1, <1>7, FrameParts
<1>9. /\ y \in Tracees /\ y.cur = cur /\ y.intr = it /\ y.flags = fl /\ y.child = f.t.child /\ y.mode = f.t.mode
      /\ y.state = "SYSCALL_ENTER_STOP" /\ y.valid = f.t.valid /\ y.blocked = f.t.blocked
  BY <1>7 DEF Tracees
<1> HIDE DEF y, m
<1>10. h \in Frames /\ h.t = y /\ h.k = f.k /\ h.v = f.v /\ h.ex = "none"
  BY <1>8, <1>9, FrameParts
<1>11. Alike(f.t, x)
  BY <1>5, <1>6, <1>7 DEF Alike
<1>12. IF Reachable(g) THEN g = m ELSE Mid(f, Throw(g, "ESRCH"), alone)
  BY <1>3, <1>7, <1>8, <1>11, RequestMid
<1> HIDE DEF g
<1>13. CASE ~Reachable(g)
  BY <1>2, <1>12, <1>13 DEF e
<1>14. CASE Reachable(g)
  <2>1. [g EXCEPT !.t.fresh = FALSE] = h
    BY <1>8, <1>12, <1>14 DEF Frames, y
  <2>2. /\ w \in Views /\ w.asked = f.v.asked /\ w.refused = f.v.refused /\ (w.attached <=> f.v.attached) /\ w.insys
        /\ w.intr = (IF flag = "RESUMED" THEN "none" ELSE f.v.intr) /\ w.ends = 0 /\ ~w.lost /\ ~w.wrong
    BY <1>3, <1>4, <1>5, ToldParts
  <2> HIDE DEF h, w
  <2>3. HeldInv(y, f.k, w, alone)
    BY <1>3, <1>6, <1>9, <2>2 DEF Core, HeldInv
  <2>4. ToldInv(y, f.k, w)
    BY <1>3, <1>4, <1>5, <1>6, <1>9, <2>2 DEF Core, ToldInv
  <2>5. ListenInv(y, f.k, w)
    BY <1>3, <1>4, <1>9 DEF ListenInv
  <2>6. Tells(f.v, w)
    BY <1>3, <1>4, <2>2 DEF Tells, Views
  <2>7. Mid(f, Notify(h, in, "syscallEntry", cur, flag), alone)
    BY <1>5, <1>9, <1>10, <2>2, <2>3, <2>4, <2>5, <2>6, NotifyMid DEF Core, w
  <2> QED BY <1>2, <1>14, <2>1, <2>7 DEF e
<1> QED
  BY <1>13, <1>14

\* What handleSystemCallExit() does after its callback changes nothing of that.
LEMMA AfterCallback ==
  ASSUME NEW alone, NEW f, Reported(f, alone), f.k.at = "SYS_EXIT", NEW n, Mid(f, n, alone), n.ex = "none", ~Exiting(n.k), NEW z \in Tracees,
         z.child = n.t.child, z.state = n.t.state, z.mode = n.t.mode, z.valid = n.t.valid, z.stopSig = n.t.stopSig,
         z.blocked = n.t.blocked, z.intr \in {n.t.intr, "none"},
         z.flags = n.t.flags \/ z.flags = n.t.flags \cup {"SEEN_SIGRETURN"}
  PROVE  Mid(f, [n EXCEPT !.t = z], alone)
<1> DEFINE r == [n EXCEPT !.t = z]
<1>1. n \in Frames
  BY DEF Mid
<1>2. r \in Frames /\ r.t = z /\ r.k = n.k /\ r.v = n.v /\ r.ex = "none"
  BY <1>1, FrameParts
<1> HIDE DEF r
<1>3. \A s \in Flags \ {"SEEN_SIGRETURN"} : s \in z.flags <=> s \in n.t.flags
  OBVIOUS
<1>4. /\ "WAIT_FOR_EXITED" \in Flags \ {"SEEN_SIGRETURN"} /\ "WAIT_FOR_ATTACH_STOP" \in Flags \ {"SEEN_SIGRETURN"}
      /\ "SYSCALL_ENTERED" \in Flags \ {"SEEN_SIGRETURN"} /\ "DETACH_AT_NEXT_STOP" \in Flags \ {"SEEN_SIGRETURN"}
  BY DEF Flags
<1>5. ASSUME Core(n.t, n.k, n.v, alone) PROVE Core(z, n.k, n.v, alone)
  <2>1. HeldInv(z, n.k, n.v, alone)
    BY <1>3, <1>4, <1>5 DEF Core, HeldInv
  <2>2. ToldInv(z, n.k, n.v)
    BY <1>3, <1>4, <1>5 DEF Core, ToldInv
  <2>3. ListenInv(z, n.k, n.v)
    BY <1>5 DEF Core, ListenInv
  <2> QED BY <2>1, <2>2, <2>3 DEF Core
<1>6. ASSUME RestInv(n.t, n.k, n.v, alone) PROVE RestInv(z, n.k, n.v, alone)
  BY <1>6 DEF RestInv
<1>7. ~(f.k.insys /\ f.k.nr = "exit")
  BY NotInExit
<1> QED
  BY <1>2, <1>5, <1>6, <1>7 DEF Mid, Restartable, Aborts, r

\* handleSystemCallExit()
LEMMA HandleSystemCallExitMid ==
  ASSUME NEW alone, NEW f, Reported(f, alone), f.k.at = "SYS_EXIT", NEW in
  PROVE  Mid(f, HandleSystemCallExit(ToState(f, "SYSCALL_EXIT_STOP"), in), alone)
<1> DEFINE e == ToState(f, "SYSCALL_EXIT_STOP")
           g == KillAt(e, in, "decode")
           interrupted == in.res = "ERESTART"
           it == IF interrupted THEN f.t.cur ELSE f.t.intr
           x == [e.t EXCEPT !.intr = it]
           m == [e EXCEPT !.t = x]
           flag == IF interrupted THEN "INTERRUPTED" ELSE "none"
           n == Notify(m, in, "syscallExit", f.t.cur, flag)
           w == Told(f.v, "syscallExit", f.t.cur, flag)
           sig == f.t.cur = "sigreturn" /\ n.t.intr # "none"
           jt == IF sig /\ in.res = "EINTR" THEN "none" ELSE n.t.intr
           fl == IF sig /\ in.res # "EINTR" THEN n.t.flags \cup {"SEEN_SIGRETURN"} ELSE n.t.flags
           z == [n.t EXCEPT !.intr = jt, !.flags = fl, !.cur = "none"]
<1>1. /\ e \in Frames /\ e.k = f.k /\ e.v = f.v /\ e.ex = "none" /\ e.t.child = f.t.child
      /\ e.t.state = "SYSCALL_EXIT_STOP" /\ e.t.flags = f.t.flags \ {"SYSCALL_ENTERED"}
      /\ e.t.mode = f.t.mode /\ e.t.valid = f.t.valid /\ e.t.cur = f.t.cur /\ e.t.intr = f.t.intr
      /\ e.t.blocked = f.t.blocked
  <2>1. "SYSCALL_EXIT_STOP" \in States
    BY DEF States
  <2>2. ChangedFlags(f.t, "SYSCALL_EXIT_STOP") = f.t.flags \ {"SYSCALL_ENTERED"}
    BY DEF ChangedFlags
  <2> QED BY <2>1, <2>2, ToStateParts DEF Reported
<1> HIDE DEF e
<1>2. /\ f.t \in Tracees /\ f.k \in Thread /\ f.v \in Views /\ e.t \in Tracees /\ Core(f.t, f.k, f.v, alone) /\ f.t.valid
      /\ f.v.ends = 0 /\ ~f.v.lost /\ ~f.v.wrong /\ f.k.run = "stop" /\ Live(f.k) /\ f.k.traced
      /\ "SYSCALL_ENTERED" \in f.t.flags /\ f.t.cur # "none"
  BY <1>1, FrameParts DEF Reported, Core, ToldInv, InStop, Live, PtraceStops, SyscallStops
<1>3. f.v.insys /\ f.t.mode # "LISTEN" /\ (f.t.intr # "none" => f.v.intr = f.t.intr)
  BY <1>2 DEF Core, ToldInv, ListenInv, InTrapStop
<1>4. Alike(f.t, e.t)
  BY <1>1 DEF Alike
<1>5. IF Reachable(g) THEN g = e ELSE Mid(f, Throw(g, "ESRCH"), alone)
  BY <1>1, <1>2, <1>4, RequestMid
<1>6. CASE ~Reachable(g)
  <2>1. HandleSystemCallExit(e, in) = Throw(g, "ESRCH")
    BY <1>6 DEF HandleSystemCallExit
  <2> QED BY <1>5, <1>6, <2>1 DEF e
<1>7. CASE Reachable(g)
  <2>1. it \in MaybeCall /\ f.t.cur \in MaybeCall /\ f.t.cur \in Calls /\ f.v.intr \in MaybeCall
    BY <1>2 DEF Tracees, Views, MaybeCall
  <2>2. /\ x \in Tracees /\ x.cur = f.t.cur /\ x.intr = it /\ x.flags = f.t.flags \ {"SYSCALL_ENTERED"}
        /\ x.child = f.t.child /\ x.mode = f.t.mode
        /\ x.state = "SYSCALL_EXIT_STOP" /\ x.valid = f.t.valid /\ x.blocked = f.t.blocked
    <3> HIDE DEF it
    <3> QED BY <1>1, <1>2, <2>1 DEF Tracees
  <2>3. HandleSystemCallExit(e, in) = [n EXCEPT !.t.intr = jt, !.t.flags = fl, !.t.cur = "none"]
    <3> DEFINE q == Notify([g EXCEPT !.t.intr = IF interrupted THEN g.t.cur ELSE @], in, "syscallExit", g.t.cur, flag)
               sq == g.t.cur = "sigreturn" /\ q.t.intr # "none"
    <3>1. HandleSystemCallExit(e, in) =
            [q EXCEPT !.t.intr = IF sq /\ in.res = "EINTR" THEN "none" ELSE q.t.intr,
                      !.t.flags = IF sq /\ in.res # "EINTR" THEN q.t.flags \cup {"SEEN_SIGRETURN"} ELSE q.t.flags,
                      !.t.cur = "none"]
      BY <1>7 DEF HandleSystemCallExit
    <3>2. g = e /\ g.t.cur = f.t.cur
      BY <1>1, <1>5, <1>7
    <3>3. [e EXCEPT !.t.intr = IF interrupted THEN e.t.cur ELSE @] = m
      BY <1>1 DEF Frames
    <3>4. q = n
      <4> HIDE DEF m
      <4> QED BY <3>2, <3>3
    <3> HIDE DEF q, n
    <3> QED BY <3>1, <3>2, <3>4
  <2> HIDE DEF x
  <2>4. m \in Frames /\ m.t = x /\ m.k = f.k /\ m.v = f.v /\ m.ex = "none"
    BY <1>1, <2>2, FrameParts
  <2> HIDE DEF m
  <2>5. /\ w \in Views /\ w.asked = f.v.asked /\ w.refused = f.v.refused /\ (w.attached <=> f.v.attached) /\ ~w.insys
        /\ w.intr = (IF interrupted THEN f.t.cur ELSE f.v.intr) /\ w.ends = 0 /\ ~w.lost /\ ~w.wrong
    <3>1. flag \notin {"RESUMED", "LOST_TO_MT_EXIT"} /\ (flag = "INTERRUPTED" <=> interrupted)
      OBVIOUS
    <3> HIDE DEF flag
    <3> QED BY <1>2, <1>3, <2>1, <3>1, ToldParts
  <2> HIDE DEF w
  <2>6. HeldInv(x, f.k, w, alone)
    BY <1>2, <2>2, <2>5 DEF Core, HeldInv
  <2>7. ToldInv(x, f.k, w)
    BY <1>2, <1>3, <2>2, <2>5 DEF Core, ToldInv
  <2>8. ListenInv(x, f.k, w)
    BY <1>2, <1>3, <2>2 DEF ListenInv
  <2>9. Tells(f.v, w)
    BY <1>2, <1>3, <2>1, <2>5 DEF Tells, Views
  <2>10. ~(f.k.insys /\ f.k.nr = "exit")
    BY NotInExit
  <2>11. Mid(f, n, alone)
    BY <2>1, <2>2, <2>4, <2>5, <2>6, <2>7, <2>8, <2>9, <2>10, NotifyMid DEF Core, w
  <2>12. /\ n \in Frames /\ n.ex = "none"
         /\ n.k = f.k \/ n.k = Detach(f.k, f.t.child)
    BY <2>1, <2>2, <2>4, NotifyParts DEF Reported
  <2> HIDE DEF n
  <2>13. ~Exiting(n.k)
    <3>1. f.t.child \in BOOLEAN
      BY <1>2 DEF Tracees
    <3> QED BY <1>2, <2>12, <3>1, DetachFields DEF Exiting, Reported
  <2>14. n.t \in Tracees
    BY <2>12, FrameParts
  <2>15. /\ jt \in {n.t.intr, "none"} /\ jt \in MaybeCall /\ fl \in SUBSET Flags
         /\ fl = n.t.flags \/ fl = n.t.flags \cup {"SEEN_SIGRETURN"}
    BY <2>14 DEF Tracees, MaybeCall, Flags
  <2> HIDE DEF jt, fl
  <2>16. HandleSystemCallExit(e, in) = [n EXCEPT !.t = z]
    BY <2>3, <2>12, <2>14 DEF Frames, Tracees
  <2>17. /\ z \in Tracees /\ z.child = n.t.child /\ z.state = n.t.state /\ z.mode = n.t.mode /\ z.valid = n.t.valid
         /\ z.stopSig = n.t.stopSig /\ z.blocked = n.t.blocked /\ z.intr = jt /\ z.flags = fl
    <3>1. "none" \in MaybeCall
      BY DEF MaybeCall
    <3> QED BY <2>14, <2>15, <3>1 DEF Tracees
  <2> HIDE DEF z
  <2>18. Mid(f, [n EXCEPT !.t = z], alone)
    BY <2>11, <2>12, <2>13, <2>15, <2>17, AfterCallback
  <2> QED BY <2>16, <2>18 DEF e
<1> QED
  BY <1>6, <1>7

\* handleSystemCall()
LEMMA HandleSystemCallMid ==
  ASSUME NEW alone, NEW f, Reported(f, alone), f.k.at \in SyscallStops, NEW in \in InputRecords PROVE Mid(f, HandleSystemCall(f, in), alone)
<1> DEFINE g == KillAt(f, in, "request")
<1>1. f \in Frames /\ f.t.valid /\ ("SYSCALL_ENTERED" \in f.t.flags <=> f.k.at = "SYS_EXIT") /\ Alike(f.t, f.t)
  BY DEF Reported, SyscallStops, Alike
<1>2. IF Reachable(g) THEN g = f ELSE Mid(f, Throw(g, "ESRCH"), alone)
  BY <1>1, RequestMid
<1> HIDE DEF g
<1>3. HandleSystemCall(f, in) =
        IF ~Reachable(g) THEN Throw(g, "ESRCH")
        ELSE IF "SYSCALL_ENTERED" \in g.t.flags
             THEN IF g.k.at # "SYS_EXIT" THEN Throw(g, "mismatch")
                  ELSE HandleSystemCallExit(ToState(g, "SYSCALL_EXIT_STOP"), in)
             ELSE IF g.k.at # "SYS_ENTRY" THEN Throw(g, "mismatch")
                  ELSE HandleSystemCallEntry(ToState(g, "SYSCALL_ENTER_STOP"), in)
  BY DEF HandleSystemCall, g
<1>4. CASE ~Reachable(g)
  BY <1>2, <1>3, <1>4
<1>5. CASE Reachable(g) /\ f.k.at = "SYS_EXIT"
  BY <1>1, <1>2, <1>3, <1>5, HandleSystemCallExitMid
<1>6. CASE Reachable(g) /\ f.k.at = "SYS_ENTRY"
  BY <1>1, <1>2, <1>3, <1>6, HandleSystemCallEntryMid
<1> QED
  BY <1>4, <1>5, <1>6 DEF SyscallStops

(* The end of processEvent() *)

\* A restart with PTRACE_CONT or PTRACE_SYSCALL: the thread ends, is killed by the
\* signal, stops again at once, or runs.
LEMMA ResumeFields ==
  ASSUME NEW a \in Thread, NEW alone, NEW mode, NEW sig, NEW deadly, ThreadInv(a), KernelInv(a, alone), InStop(a)
  PROVE  LET b == Resume(a, mode, sig, deadly)
         IN  /\ b \in Thread /\ KernelInv(b, alone) /\ b.traced /\ b.insys = a.insys /\ b.nr = a.nr
             /\ \/ a.at = "EV_EXIT" /\ b.run = "zombie"
                \/ a.at # "EV_EXIT" /\ b.run = "dying" /\ b.fatal
                \/ /\ a.at # "EV_EXIT" /\ b.run = "stop" /\ b.status
                   /\ b.at = (IF b.gstop THEN "EV_STOP_SIG" ELSE "EV_STOP_TRAP")
                \/ a.at # "EV_EXIT" /\ b.run = "run"
<1> DEFINE b == Resume(a, mode, sig, deadly)
           sg == mode = "SYSCALL"
           r == [a EXCEPT !.sysgood = sg]
           e == [r EXCEPT !.run = "zombie", !.at = "ENDED", !.status = TRUE]
           g == [r EXCEPT !.gstop = TRUE]
           l == [r EXCEPT !.run = "run", !.at = "none", !.status = FALSE]
<1>1. b = CASE a.at = "EV_EXIT" -> e
            [] a.at # "EV_EXIT" /\ sig = "STOP" /\ ~a.notify -> TakeTrap(g)
            [] a.at # "EV_EXIT" /\ sig = "TERM" /\ deadly -> Kill(r)
            [] OTHER -> IF Due(r) /\ ~r.insys THEN TakeTrap(r) ELSE l
  BY DEF Resume, Leave
<1>2. b \in Thread
  BY ResumeType
<1>3. a.run = "stop" /\ a.traced /\ a.at # "STOPPED" /\ (a.fatal => a.at = "EV_EXIT")
  BY DEF InStop, KernelInv
<1>4. /\ r \in Thread /\ r.run = "stop" /\ r.at = a.at /\ r.traced /\ r.insys = a.insys /\ r.nr = a.nr
      /\ r.fatal = a.fatal /\ r.gstop = a.gstop
  <2>1. sg \in BOOLEAN
    OBVIOUS
  <2> HIDE DEF sg
  <2> QED BY <1>3, <2>1 DEF Thread
<1> HIDE DEF r, b
<1>5. /\ e.run = "zombie" /\ e.traced /\ e.insys = a.insys /\ e.nr = a.nr /\ e.fatal = a.fatal
  BY <1>4 DEF Thread
<1>6. /\ l.run = "run" /\ l.traced /\ l.insys = a.insys /\ l.nr = a.nr /\ l.fatal = a.fatal
  BY <1>4 DEF Thread
<1>7. /\ g \in Thread /\ g.traced /\ g.insys = a.insys /\ g.nr = a.nr /\ g.fatal = a.fatal /\ g.gstop
  BY <1>4 DEF Thread
<1> HIDE DEF e, l, g
<1>8. \A x \in {g, r} : LET y == TakeTrap(x)
                        IN  /\ y.traced /\ y.insys = a.insys /\ y.fatal = a.fatal /\ y.gstop = x.gstop /\ ~y.notify
                            /\ y.run = "stop" /\ y.at = (IF y.gstop THEN "EV_STOP_SIG" ELSE "EV_STOP_TRAP") /\ y.status
                            /\ y.nr = a.nr
  BY <1>4, <1>7, TakeTrapFields
<1>9. a.at # "EV_EXIT" => LET y == Kill(r)
                          IN  /\ y.traced /\ y.insys = a.insys /\ y.nr = a.nr /\ y.run = "dying" /\ y.fatal
  BY <1>4, KillFields
<1>10. CASE a.at = "EV_EXIT"
  <2>1. b = e
    BY <1>1, <1>10
  <2>2. KernelInv(b, alone)
    BY <1>5, <2>1 DEF KernelInv
  <2> QED BY <1>2, <1>5, <1>10, <2>1, <2>2 DEF b
<1>11. CASE a.at # "EV_EXIT"
  <2>1. b \in {TakeTrap(g), TakeTrap(r), Kill(r), l}
    BY <1>1, <1>11
  <2>2. /\ b.traced /\ b.insys = a.insys /\ b.nr = a.nr
        /\ \/ b.run = "dying" /\ b.fatal
           \/ /\ b.run = "stop" /\ b.status /\ b.at = (IF b.gstop THEN "EV_STOP_SIG" ELSE "EV_STOP_TRAP") /\ ~b.fatal
           \/ b.run = "run" /\ ~b.fatal
    BY <1>3, <1>6, <1>8, <1>9, <1>11, <2>1
  <2>3. KernelInv(b, alone)
    BY <2>2 DEF KernelInv
  <2> QED BY <1>2, <1>11, <2>2, <2>3 DEF b
<1> QED
  BY <1>10, <1>11

\* PTRACE_LISTEN in a group-stop.
LEMMA ListenFields ==
  ASSUME NEW a \in Thread, NEW alone, ThreadInv(a), KernelInv(a, alone), InStop(a), a.at \in {"EV_STOP_SIG", "EV_STOP_TRAP"}
  PROVE  LET b == Listen(a)
         IN  /\ b \in Thread /\ KernelInv(b, alone) /\ b.traced /\ b.gstop = a.gstop
             /\ \/ b.run = "listen" /\ ~a.notify
                \/ b.run = "stop" /\ b.status /\ b.at \in {"EV_STOP_SIG", "EV_STOP_TRAP"}
<1> DEFINE b == Listen(a)
<1>1. b \in Thread
  BY ListenType
<1>2. a.run = "stop" /\ a.traced /\ ~a.fatal /\ (a.at = "EV_STOP_SIG" => a.gstop \/ a.notify)
  BY DEF InStop, KernelInv
<1>3. LET c == TakeTrap(a)
      IN  /\ c.traced = a.traced /\ c.fatal = a.fatal /\ c.gstop = a.gstop
          /\ c.run = "stop" /\ c.at = (IF a.gstop THEN "EV_STOP_SIG" ELSE "EV_STOP_TRAP") /\ c.status
  BY TakeTrapFields
<1>4. /\ b.traced /\ b.fatal = a.fatal /\ b.gstop = a.gstop
      /\ \/ b.run = "listen" /\ ~a.notify
         \/ b.run = "stop" /\ b.status /\ b.at = (IF b.gstop THEN "EV_STOP_SIG" ELSE "EV_STOP_TRAP")
  <2>1. CASE a.notify
    BY <1>2, <1>3, <2>1 DEF Listen
  <2>2. CASE ~a.notify
    BY <1>2, <2>2 DEF Listen, Thread
  <2> QED BY <2>1, <2>2
<1> HIDE DEF b
<1>5. KernelInv(b, alone)
  BY <1>2, <1>4 DEF KernelInv
<1> QED
  BY <1>1, <1>4, <1>5 DEF b

\* What processEvent() makes of f.
HandledTo(f, s, alone) ==
    /\ s \in Frames /\ KernelInv(s.k, alone) /\ Tells(f.v, s.v) /\ s.t.child = f.t.child
    /\ \/ Aborts(f, s)
       \/ /\ s.ex \in {"none", "ESRCH", "EIO"}
          /\ Core(s.t, s.k, s.v, alone) /\ RestInv(s.t, s.k, s.v, alone)

\* The thread is killed right before it is restarted, or the object has let go of it.
LEMMA RestartFails ==
  ASSUME NEW alone, NEW f, Reported(f, alone), NEW r, Mid(f, r, alone), Restartable(f, r, alone), NEW in,
         LET q == KillAt(r, in, "late") IN ~Reachable(q)
  PROVE  HandledTo(f, Throw(KillAt(r, in, "late"), "ESRCH"), alone)
<1> DEFINE q == KillAt(r, in, "late")
           s == Throw(q, "ESRCH")
<1>1. /\ r \in Frames /\ Tells(f.v, r.v) /\ r.k = f.k /\ r.ex = "none" /\ Core(r.t, f.k, r.v, alone) /\ r.t.child = f.t.child
      /\ f.k \in Thread /\ r.v \in Views /\ KernelInv(f.k, alone) /\ ThreadInv(f.k) /\ InStop(f.k) /\ ~f.k.status
      /\ r.t.state \notin {"RUNNING", "UNKNOWN", "DEAD", "DETACHED"}
  BY FrameParts DEF Mid, Restartable, Reported
<1>2. q \in Frames /\ q.t = r.t /\ q.v = r.v /\ (q = r \/ q.k = Kill(f.k))
  BY <1>1, KillAtParts
<1> HIDE DEF q
<1>3. s \in Frames /\ s.t = r.t /\ s.v = r.v /\ s.k = q.k /\ s.ex = "ESRCH"
  BY <1>2 DEF Throw, Frames
<1> HIDE DEF s
<1>4. f.k.run = "stop" /\ f.k.traced
  BY <1>1 DEF InStop
<1>5. CASE q = r
  <2>1. ~r.t.valid
    BY <1>1, <1>5 DEF Reachable, q
  <2>2. RestInv(r.t, f.k, r.v, alone)
    BY <1>1, <1>4, <2>1 DEF RestInv, Exiting
  <2> QED BY <1>1, <1>3, <1>5, <2>2 DEF HandledTo, s, q
<1>6. CASE q.k = Kill(f.k)
  <2>1. StepKeeps(f.k, q.k, alone) /\ KernelInv(q.k, alone)
    BY <1>1, <1>6, KillStep DEF StepKeeps
  <2>2. ~Live(q.k) /\ q.k.run \in {"zombie", "dying"} /\ (q.k.run = "dying" => q.k.fatal) /\ q.k.traced
    BY <1>1, <1>4, <1>6, KillFields, KillNotLive
  <2>3. HeldInv(r.t, q.k, r.v, alone)
    BY <1>1, <2>2 DEF Core, HeldInv, Released
  <2>4. ToldInv(r.t, q.k, r.v)
    BY <1>1, <1>4, <2>1, <2>2 DEF Core, ToldInv, StepKeeps
  <2>5. ListenInv(r.t, q.k, r.v) /\ RestInv(r.t, q.k, r.v, alone)
    BY <2>2 DEF ListenInv, RestInv, InStop, Exiting
  <2> QED BY <1>1, <1>3, <2>1, <2>3, <2>4, <2>5 DEF HandledTo, Core, s, q
<1> QED
  BY <1>2, <1>5, <1>6

\* resumed() is told with the tracee running.
LEMMA ResumedNotify ==
  ASSUME NEW s, NEW in \in InputRecords
  PROVE  Notify(s, [in EXCEPT !.detach = FALSE], "resumed", "none", "none")
           = [s EXCEPT !.v = Told(s.v, "resumed", "none", "none")]
<1>1. [in EXCEPT !.detach = FALSE].detach = FALSE
  BY DEF InputRecords
<1> QED
  BY <1>1, Zenon DEF Notify

\* The thread is restarted.
LEMMA RestartRuns ==
  ASSUME NEW alone, NEW f, Reported(f, alone), NEW r, Mid(f, r, alone), Restartable(f, r, alone), NEW in \in InputRecords, Reachable(r),
         r.t.mode # "LISTEN", NEW sig, NEW deadly
  PROVE  LET q == [r EXCEPT !.k = Resume(f.k, r.t.mode, sig, deadly)]
             s == ToState(q, "RUNNING")
         IN  /\ q.t = r.t /\ q.ex = "none"
             /\ IF r.t.state = "GROUP_STOP"
                THEN HandledTo(f, Notify(s, [in EXCEPT !.detach = FALSE], "resumed", "none", "none"), alone)
                ELSE HandledTo(f, s, alone)
<1> DEFINE b == Resume(f.k, r.t.mode, sig, deadly)
           q == [r EXCEPT !.k = b]
           s == ToState(q, "RUNNING")
           w == Told(r.v, "resumed", "none", "none")
           n == [s EXCEPT !.v = w]
<1>1. /\ r \in Frames /\ Tells(f.v, r.v) /\ r.k = f.k /\ r.ex = "none" /\ Core(r.t, f.k, r.v, alone) /\ r.t.child = f.t.child
      /\ f.k \in Thread /\ r.v \in Views /\ KernelInv(f.k, alone) /\ ThreadInv(f.k) /\ InStop(f.k) /\ ~f.k.status
      /\ r.t.state \notin {"RUNNING", "UNKNOWN", "DEAD", "DETACHED"} /\ r.t.valid
      /\ f.k.at = "EV_EXIT" => r.t.state # "GROUP_STOP"
      /\ f.k.at # "EV_EXIT" /\ f.k.insys /\ f.k.nr = "exit" => r.t.state = "SYSCALL_ENTER_STOP" /\ r.t.cur = "exit"
  BY FrameParts DEF Mid, Restartable, Reported, Reachable
<1>2. /\ b \in Thread /\ KernelInv(b, alone) /\ b.traced /\ b.insys = f.k.insys /\ b.nr = f.k.nr
      /\ \/ f.k.at = "EV_EXIT" /\ b.run = "zombie"
         \/ f.k.at # "EV_EXIT" /\ b.run = "dying" /\ b.fatal
         \/ /\ f.k.at # "EV_EXIT" /\ b.run = "stop" /\ b.status
            /\ b.at = (IF b.gstop THEN "EV_STOP_SIG" ELSE "EV_STOP_TRAP")
         \/ f.k.at # "EV_EXIT" /\ b.run = "run"
  BY <1>1, ResumeFields
<1> HIDE DEF b
<1>3. q \in Frames /\ q.t = r.t /\ q.k = b /\ q.v = r.v /\ q.ex = "none"
  BY <1>1, <1>2, FrameParts
<1> HIDE DEF q
<1>4. /\ s \in Frames /\ s.k = b /\ s.v = r.v /\ s.ex = "none" /\ s.t.child = r.t.child /\ s.t.state = "RUNNING"
      /\ s.t.flags = r.t.flags /\ s.t.prev = r.t.state /\ s.t.mode = r.t.mode /\ s.t.valid = r.t.valid
      /\ s.t.cur = r.t.cur /\ s.t.intr = r.t.intr /\ s.t.blocked = r.t.blocked
  <2>1. "RUNNING" \in States /\ ChangedFlags(q.t, "RUNNING") = r.t.flags
    BY <1>3 DEF States, ChangedFlags
  <2>2. /\ s \in Frames /\ s.k = q.k /\ s.v = q.v /\ s.ex = q.ex /\ s.t.child = q.t.child /\ s.t.state = "RUNNING"
        /\ s.t.flags = ChangedFlags(q.t, "RUNNING") /\ s.t.mode = q.t.mode /\ s.t.valid = q.t.valid
        /\ s.t.prev = (IF q.t.state # "RUNNING" THEN q.t.state ELSE q.t.prev)
        /\ s.t.cur = q.t.cur /\ s.t.intr = q.t.intr /\ s.t.blocked = q.t.blocked
    BY <1>3, <2>1, ToStateParts
  <2> HIDE DEF s
  <2> QED BY <1>1, <1>3, <2>1, <2>2
<1> HIDE DEF s
<1>5. f.k.run = "stop" /\ f.k.traced /\ f.k.at # "STOPPED" /\ (Live(b) => Live(f.k))
      /\ (f.k.at # "EV_EXIT" => r.v.ends = 0 /\ ~r.v.lost) /\ r.v.ends # 2
  <2>1. f.k.run = "stop" /\ f.k.traced /\ f.k.at # "STOPPED"
    BY <1>1 DEF InStop
  <2>2. r.v.ends > 0 \/ r.v.lost => f.k.at = "EV_EXIT"
    BY <1>1, <2>1 DEF Core, ToldInv, Over
  <2>3. Live(b) => Live(f.k)
    BY <1>1, <1>2, <2>1 DEF Live, ThreadInv
  <2> QED BY <1>1, <2>1, <2>2, <2>3 DEF Core, ToldInv, Views
<1>6. HeldInv(s.t, b, r.v, alone)
  BY <1>1, <1>2, <1>4 DEF Core, HeldInv
<1>7. ToldInv(s.t, b, r.v)
  BY <1>1, <1>2, <1>4, <1>5 DEF Core, ToldInv, Over
<1>8. ListenInv(s.t, b, r.v)
  BY <1>2, <1>4 DEF ListenInv
<1>9. RestInv(s.t, b, r.v, alone)
  BY <1>1, <1>2, <1>4 DEF RestInv, InStop, Exiting
<1>10. CASE r.t.state # "GROUP_STOP"
  BY <1>1, <1>2, <1>3, <1>4, <1>6, <1>7, <1>8, <1>9, <1>10 DEF HandledTo, Core, s, q, b
<1>11. CASE r.t.state = "GROUP_STOP"
  <2>1. r.v.ends = 0 /\ "none" \in MaybeCall
    BY <1>1, <1>5, <1>11 DEF MaybeCall
  <2>2. /\ w \in Views /\ w.asked = r.v.asked /\ w.refused = r.v.refused /\ (w.attached <=> r.v.attached)
        /\ (w.insys <=> r.v.insys) /\ w.intr = r.v.intr /\ w.ends = r.v.ends
        /\ (w.lost <=> r.v.lost) /\ (w.wrong <=> r.v.wrong)
    BY <1>1, <2>1, ToldParts
  <2> HIDE DEF w
  <2>3. n \in Frames /\ n.t = s.t /\ n.k = b /\ n.v = w /\ n.ex = "none"
    BY <1>4, <2>2, FrameParts
  <2>4. Notify(s, [in EXCEPT !.detach = FALSE], "resumed", "none", "none") = n
    BY <1>4, ResumedNotify DEF w
  <2> HIDE DEF n
  <2>5. Core(s.t, b, w, alone) /\ RestInv(s.t, b, w, alone)
    <3>1. HeldInv(s.t, b, w, alone)
      BY <1>6, <2>2 DEF HeldInv
    <3>2. ToldInv(s.t, b, w)
      BY <1>7, <2>2 DEF ToldInv
    <3>3. ListenInv(s.t, b, w)
      BY <1>2, <1>4 DEF ListenInv
    <3>4. RestInv(s.t, b, w, alone)
      BY <1>9, <2>2 DEF RestInv
    <3> QED BY <3>1, <3>2, <3>3, <3>4 DEF Core
  <2>6. Tells(f.v, w)
    <3>1. w.attached = r.v.attached /\ w.insys = r.v.insys
      BY <1>1, <2>2 DEF Views
    <3> QED BY <1>1, <2>2, <3>1 DEF Tells
  <2>7. HandledTo(f, n, alone)
    BY <1>1, <1>2, <1>4, <2>3, <2>5, <2>6 DEF HandledTo
  <2> QED BY <1>3, <1>11, <2>4, <2>7 DEF s, q, b
<1> QED
  BY <1>10, <1>11

\* The thread is to stay in its group-stop.
LEMMA RestartListens ==
  ASSUME NEW alone, NEW f, Reported(f, alone), NEW r, Mid(f, r, alone), Restartable(f, r, alone), Reachable(r), r.t.mode = "LISTEN"
  PROVE  IF ListenRefused(f.k) THEN HandledTo(f, Throw([r EXCEPT !.v.refused = TRUE], "EIO"), alone)
         ELSE HandledTo(f, [r EXCEPT !.k = Listen(f.k)], alone)
<1> DEFINE b == Listen(f.k)
           q == [r EXCEPT !.k = b]
           w == [r.v EXCEPT !.refused = TRUE]
           u == [r EXCEPT !.v = w]
           e == Throw(u, "EIO")
<1>1. /\ r \in Frames /\ Tells(f.v, r.v) /\ r.k = f.k /\ r.ex = "none" /\ Core(r.t, f.k, r.v, alone) /\ r.t.child = f.t.child
      /\ f.k \in Thread /\ r.v \in Views /\ KernelInv(f.k, alone) /\ ThreadInv(f.k) /\ InStop(f.k) /\ ~f.k.status
      /\ r.t.state \notin {"RUNNING", "UNKNOWN", "DEAD", "DETACHED"} /\ r.t.valid /\ f.k.at # "EV_STOP_TRAP"
      /\ f.k.run = "stop" /\ f.k.traced
  BY FrameParts DEF Mid, Restartable, Reported, Reachable, InStop
<1>2. CASE ListenRefused(f.k)
  <2>1. w \in Views /\ SameTold(r.v, w) /\ w.asked = r.v.asked /\ w.refused
    BY <1>1 DEF Views, SameTold
  <2>2. u = [r EXCEPT !.v.refused = TRUE]
    BY <1>1 DEF Frames
  <2> HIDE DEF w
  <2>3. u \in Frames /\ u.t = r.t /\ u.k = f.k /\ u.v = w
    BY <1>1, <2>1, FrameParts
  <2> HIDE DEF u
  <2>4. e \in Frames /\ e.t = r.t /\ e.k = f.k /\ e.v = w /\ e.ex = "EIO"
    BY <2>3 DEF Throw, Frames
  <2> HIDE DEF e
  <2>5. HeldInv(r.t, f.k, w, alone)
    BY <1>1, <2>1 DEF Core, HeldInv
  <2>6. ToldInv(r.t, f.k, w)
    BY <1>1, <2>1 DEF Core, ToldInv, SameTold
  <2>7. ListenInv(r.t, f.k, w)
    BY <1>1, <2>1 DEF Core, ListenInv
  <2>8. RestInv(r.t, f.k, w, alone)
    BY <1>1, <2>1 DEF RestInv, Exiting
  <2>9. Tells(f.v, w)
    BY <1>1, <2>1 DEF Tells, SameTold
  <2>10. HandledTo(f, e, alone)
    BY <1>1, <2>4, <2>5, <2>6, <2>7, <2>8, <2>9 DEF HandledTo, Core
  <2> QED BY <1>2, <2>2, <2>10 DEF e
<1>3. CASE ~ListenRefused(f.k)
  <2>1. f.k.at = "EV_STOP_SIG" /\ Live(f.k)
    BY <1>1, <1>3 DEF ListenRefused, Live, PtraceStops, EventStops
  <2>2. /\ b \in Thread /\ KernelInv(b, alone) /\ b.traced /\ b.gstop = f.k.gstop
        /\ \/ b.run = "listen" /\ ~f.k.notify
           \/ b.run = "stop" /\ b.status /\ b.at \in {"EV_STOP_SIG", "EV_STOP_TRAP"}
    BY <1>1, <2>1, ListenFields
  <2>3. b.run = "listen" => b.gstop
    BY <1>1, <2>1, <2>2 DEF KernelInv
  <2> HIDE DEF b
  <2>4. q \in Frames /\ q.t = r.t /\ q.k = b /\ q.v = r.v /\ q.ex = "none"
    BY <1>1, <2>2, FrameParts
  <2> HIDE DEF q
  <2>5. HeldInv(r.t, b, r.v, alone)
    BY <1>1, <2>2 DEF Core, HeldInv
  <2>6. ToldInv(r.t, b, r.v)
    BY <1>1, <2>1, <2>2 DEF Core, ToldInv, Over
  <2>7. ListenInv(r.t, b, r.v)
    BY <1>1, <2>1, <2>2, <2>3 DEF Core, ListenInv, InTrapStop
  <2>8. RestInv(r.t, b, r.v, alone)
    BY <2>2 DEF RestInv, InStop, Exiting
  <2>9. HandledTo(f, q, alone)
    BY <1>1, <2>2, <2>4, <2>5, <2>6, <2>7, <2>8 DEF HandledTo, Core
  <2> QED BY <1>3, <2>9 DEF q, b
<1> QED
  BY <1>2, <1>3

\* The end of processEvent(), after any handler.
LEMMA RestartTraceeHandled ==
  ASSUME NEW alone, NEW f, Reported(f, alone), NEW r, Mid(f, r, alone), NEW in \in InputRecords PROVE HandledTo(f, RestartTracee(r, in), alone)
<1> DEFINE q == KillAt(r, in, "late")
           R == Restart(r, in)
           s == ToState(R, "RUNNING")
           n == Notify(s, [in EXCEPT !.detach = FALSE], "resumed", "none", "none")
<1>1. RestartTracee(r, in) = IF r.ex # "none" \/ r.t.state \in {"DEAD", "DETACHED"} THEN r
                             ELSE IF R.ex # "none" \/ R.t.mode = "LISTEN" THEN R
                             ELSE IF R.t.state = "GROUP_STOP" THEN n ELSE s
  BY DEF RestartTracee
<1>2. R = IF ~Reachable(q) THEN Throw(q, "ESRCH")
          ELSE IF q.t.mode # "LISTEN"
               THEN [q EXCEPT !.k = Resume(q.k, q.t.mode, SignalOf(in.ev), in.deadly)]
          ELSE IF ListenRefused(q.k) THEN Throw([q EXCEPT !.v.refused = TRUE], "EIO")
          ELSE [q EXCEPT !.k = Listen(q.k)]
  BY DEF Restart
<1>3. r \in Frames
  BY DEF Mid
<1>4. CASE ~Restartable(f, r, alone)
  <2>1. HandledTo(f, r, alone) /\ (r.ex # "none" \/ r.t.state \in {"DEAD", "DETACHED"})
    BY <1>4 DEF Mid, HandledTo, Aborts
  <2> QED BY <1>1, <2>1
<1>5. CASE Restartable(f, r, alone) /\ ~Reachable(q)
  <2>1. R = Throw(q, "ESRCH") /\ q \in Frames
    BY <1>2, <1>3, <1>5, KillAtParts
  <2>2. R.ex = "ESRCH"
    <3> HIDE DEF q, R
    <3> QED BY <2>1 DEF Throw, Frames
  <2>3. HandledTo(f, R, alone)
    BY <1>5, <2>1, RestartFails
  <2> HIDE DEF R, q
  <2>4. RestartTracee(r, in) = R
    BY <1>1, <1>5, <2>2 DEF Restartable
  <2> QED BY <2>3, <2>4
<1>6. CASE Restartable(f, r, alone) /\ Reachable(q)
  <2>1. q = r /\ r.k = f.k
    BY <1>3, <1>6, KillAtParts DEF Reachable, Restartable
  <2>2. r.ex = "none" /\ r.t.state \notin {"DEAD", "DETACHED"} /\ Reachable(r)
    BY <1>6, <2>1 DEF Restartable
  <2> HIDE DEF q
  <2>3. CASE r.t.mode # "LISTEN"
    <3>1. R = [r EXCEPT !.k = Resume(f.k, r.t.mode, SignalOf(in.ev), in.deadly)]
      BY <1>2, <1>6, <2>1, <2>3
    <3> HIDE DEF R
    <3>2. R.t = r.t /\ R.ex = "none" /\ (IF r.t.state = "GROUP_STOP" THEN HandledTo(f, n, alone) ELSE HandledTo(f, s, alone))
      BY <1>6, <2>2, <2>3, <3>1, RestartRuns
    <3> HIDE DEF n, s
    <3> QED BY <1>1, <2>2, <2>3, <3>2
  <2>4. CASE r.t.mode = "LISTEN"
    <3>1. R = IF ListenRefused(f.k) THEN Throw([r EXCEPT !.v.refused = TRUE], "EIO")
              ELSE [r EXCEPT !.k = Listen(f.k)]
      BY <1>2, <1>6, <2>1, <2>4
    <3>2. R.t = r.t
      <4> HIDE DEF R
      <4> QED BY <1>3, <3>1 DEF Frames, Throw
    <3> HIDE DEF R
    <3>3. HandledTo(f, R, alone)
      BY <1>6, <2>2, <2>4, <3>1, RestartListens
    <3>4. RestartTracee(r, in) = R
      BY <1>1, <2>2, <2>4, <3>2
    <3> QED BY <3>3, <3>4
  <2> QED BY <2>3, <2>4
<1> QED
  BY <1>4, <1>5, <1>6

\* A tracee that is to be detached from at its next stop, in processEvent().
LEMMA DetachAtStop ==
  ASSUME NEW alone, NEW f, Reported(f, alone), "DETACH_AT_NEXT_STOP" \in f.t.flags, NEW in
  PROVE  HandledTo(f, DoDetach(KillAt(f, in, "request")), alone)
<1> DEFINE g == KillAt(f, in, "request")
           r == DoDetach(g)
<1>1. /\ f \in Frames /\ f.ex = "none" /\ ThreadInv(f.k) /\ KernelInv(f.k, alone) /\ InStop(f.k) /\ f.k \in Thread
      /\ f.v \in Views /\ Core(f.t, f.k, f.v, alone) /\ f.v.ends = 0 /\ ~f.v.lost /\ f.t.valid /\ f.v.asked /\ ~f.v.wrong
      /\ f.k.traced /\ f.k.run = "stop"
  BY FrameParts DEF Reported, Core, HeldInv, ToldInv, InStop
<1>2. g \in Frames /\ g.t = f.t /\ g.v = f.v /\ g.ex = f.ex /\ (g = f \/ (g.k = Kill(f.k) /\ ~InStop(g.k)))
  BY <1>1, KillAtParts
<1> HIDE DEF g
<1>3. /\ r \in Frames /\ r.ex = g.ex /\ LetGo(g.t, r.t)
      /\ r.k = (IF Reachable(g) THEN Detach(g.k, g.t.child) ELSE g.k)
      /\ r.t.state = (IF Reachable(g) THEN "DETACHED" ELSE "DEAD")
      /\ SameTold(g.v, r.v) /\ r.v.asked = g.v.asked
  BY <1>2, DoDetachParts
<1> HIDE DEF r
<1>4. /\ r.v.asked /\ ~r.v.wrong /\ r.v.ends = 0 /\ ~r.v.lost /\ ~r.t.valid /\ r.t.flags = {} /\ Tells(f.v, r.v)
      /\ r.t.intr # "none" => r.v.intr = r.t.intr
      /\ r.t.child = f.t.child
  BY <1>1, <1>2, <1>3, TellsNothing DEF LetGo, SameTold, Core, ToldInv
<1>5. CASE g = f
  <2>1. Reachable(g)
    BY <1>1, <1>5 DEF Reachable
  <2>2. Mid(f, r, alone)
    BY <1>1, <1>3, <1>4, <1>5, <2>1, LetGoMid
  <2>3. HandledTo(f, r, alone)
    BY <1>1, <1>3, <1>5, <2>1, <2>2 DEF Mid, HandledTo, Restartable
  <2> QED BY <2>3 DEF r, g
<1>6. CASE g.k = Kill(f.k) /\ ~InStop(g.k)
  <2>1. r.k = g.k /\ r.t.state = "DEAD"
    BY <1>3, <1>6 DEF Reachable
  <2>2. ~Live(g.k) /\ g.k.run \in {"zombie", "dying"} /\ (g.k.run = "dying" => g.k.fatal) /\ KernelInv(g.k, alone)
    BY <1>1, <1>6, KillFields, KillNotLive, KillStep DEF StepKeeps
  <2>3. HeldInv(r.t, r.k, r.v, alone)
    BY <1>4, <2>1, <2>2 DEF HeldInv, Released
  <2>4. ToldInv(r.t, r.k, r.v)
    BY <1>4, <2>1, <2>2 DEF ToldInv
  <2>5. ListenInv(r.t, r.k, r.v) /\ RestInv(r.t, r.k, r.v, alone)
    BY <2>1, <2>2 DEF ListenInv, RestInv, InStop, Exiting
  <2> QED BY <1>1, <1>2, <1>3, <1>4, <2>1, <2>2, <2>3, <2>4, <2>5 DEF HandledTo, Core, r, g
<1> QED
  BY <1>2, <1>5, <1>6

\* Any ptrace-stop.
LEMMA HandleTrapHandled ==
  ASSUME NEW alone, NEW f, Reported(f, alone), NEW in \in InputRecords, in.ev = f.k.at PROVE HandledTo(f, HandleTrap(f, in), alone)
<1> DEFINE h == CASE in.ev \in SyscallStops -> HandleSystemCall(f, in)
                  [] in.ev \in EventStops -> HandleEvent(f, in)
                  [] OTHER -> HandleSignal(f, in)
<1>1. HandleTrap(f, in) = IF "DETACH_AT_NEXT_STOP" \in f.t.flags THEN DoDetach(KillAt(f, in, "request"))
                          ELSE RestartTracee(h, in)
  BY DEF HandleTrap
<1>2. CASE "DETACH_AT_NEXT_STOP" \in f.t.flags
  BY <1>1, <1>2, DetachAtStop
<1>3. CASE "DETACH_AT_NEXT_STOP" \notin f.t.flags
  <2>1. f.k.at \in SyscallStops \cup EventStops \cup SignalStops
    BY DEF Reported, InStop, ThreadInv, PtraceStops
  <2>2. CASE f.k.at \in SyscallStops
    <3>1. h = HandleSystemCall(f, in)
      BY <2>2 DEF SyscallStops, EventStops
    <3> QED BY <1>1, <1>3, <2>2, <3>1, HandleSystemCallMid, RestartTraceeHandled
  <2>3. CASE f.k.at \in EventStops
    <3>1. h = HandleEvent(f, in)
      BY <2>3 DEF SyscallStops, EventStops
    <3> QED BY <1>1, <1>3, <2>3, <3>1, HandleEventMid, RestartTraceeHandled
  <2>4. CASE f.k.at \in SignalStops
    <3>1. h = HandleSignal(f, in)
      BY <2>4 DEF SyscallStops, EventStops, SignalStops
    <3> QED BY <1>1, <1>3, <2>4, <3>1, HandleSignalMid, RestartTraceeHandled
  <2> QED BY <2>1, <2>2, <2>3, <2>4
<1> QED
  BY <1>2, <1>3

\* wait() collects a status.
LEMMA CollectFields ==
  ASSUME NEW a \in Thread, NEW alone
  PROVE  LET b == Collect(a)
         IN  /\ b \in Thread /\ b.traced = a.traced /\ b.insys = a.insys /\ b.nr = a.nr /\ b.fatal = a.fatal
             /\ b.gstop = a.gstop /\ b.notify = a.notify /\ b.trap = a.trap /\ ~b.status
             /\ IF a.run = "zombie" THEN b.run = "gone" ELSE b.run = a.run /\ b.at = a.at
             /\ KernelInv(a, alone) => KernelInv(b, alone)
<1> DEFINE b == Collect(a)
<1>1. /\ b \in Thread /\ b.traced = a.traced /\ b.insys = a.insys /\ b.nr = a.nr /\ b.fatal = a.fatal
      /\ b.gstop = a.gstop /\ b.notify = a.notify /\ b.trap = a.trap /\ ~b.status
      /\ IF a.run = "zombie" THEN b.run = "gone" ELSE b.run = a.run /\ b.at = a.at
  BY CollectType, ZenonT(40) DEF Collect, Thread
<1> HIDE DEF b
<1>2. KernelInv(a, alone) => KernelInv(b, alone)
  BY <1>1 DEF KernelInv
<1> QED
  BY <1>1, <1>2 DEF b

\* The stop that wait() returns is as the handlers expect it.
LEMMA StopReported ==
  ASSUME NEW alone, NEW f \in Frames, NEW a \in Thread, f.k = Collect(a), f.ex = "none", a.status, ThreadInv(a), KernelInv(a, alone),
         InStop(a), Core(f.t, a, f.v, alone), RestInv(f.t, a, f.v, alone), Live(a) => Synced(f.t, a), f.t.child => alone
  PROVE  Reported(f, alone)
<1>1. /\ f.k \in Thread /\ f.k.traced = a.traced /\ f.k.insys = a.insys /\ f.k.nr = a.nr /\ f.k.fatal = a.fatal
      /\ f.k.gstop = a.gstop /\ f.k.notify = a.notify /\ f.k.trap = a.trap /\ ~f.k.status
      /\ f.k.run = a.run /\ f.k.at = a.at /\ KernelInv(f.k, alone)
  <2> DEFINE b == Collect(a)
  <2>1. /\ b \in Thread /\ b.traced = a.traced /\ b.insys = a.insys /\ b.nr = a.nr /\ b.fatal = a.fatal
        /\ b.gstop = a.gstop /\ b.notify = a.notify /\ b.trap = a.trap /\ ~b.status
        /\ IF a.run = "zombie" THEN b.run = "gone" ELSE b.run = a.run /\ b.at = a.at
        /\ KernelInv(b, alone)
    BY CollectFields
  <2> HIDE DEF b
  <2>2. a.run # "zombie"
    BY DEF InStop
  <2>3. f.k = b
    BY DEF b
  <2> QED BY <2>1, <2>2, <2>3
<1>2. a.run = "stop" /\ a.traced /\ a.at # "STOPPED" /\ f.v \in Views /\ f.t \in Tracees
  BY FrameParts DEF InStop
<1>3. InStop(f.k) /\ ThreadInv(f.k) /\ (Live(f.k) <=> Live(a))
  BY <1>1, <1>2 DEF InStop, ThreadInv, Live
<1>4. f.v.ends = 0 /\ ~f.v.lost
  BY <1>2 DEF Core, ToldInv, Over, Views
<1>5. HeldInv(f.t, f.k, f.v, alone)
  BY <1>1 DEF Core, HeldInv, Released
<1>6. ToldInv(f.t, f.k, f.v)
  BY <1>3, <1>4 DEF Core, ToldInv
<1>7. ListenInv(f.t, f.k, f.v)
  BY <1>1, <1>3 DEF Core, ListenInv, InTrapStop
<1>8. Live(a) \/ a.at = "EV_EXIT"
  BY <1>2 DEF Live, ThreadInv
<1>9. f.t.valid \/ f.k.at \in {"EV_STOP_SIG", "EV_STOP_TRAP", "EV_EXIT"}
  BY <1>1, <1>2, <1>8 DEF Synced
<1>10. a.at \in SyscallStops => /\ "SYSCALL_ENTERED" \in f.t.flags <=> a.at = "SYS_EXIT"
                                /\ a.at = "SYS_EXIT" => f.t.cur # "none"
  BY <1>2, <1>8 DEF Synced, SyscallStopPending, SyscallStops
<1>11. f.t.child /\ a.at = "EV_EXIT" /\ ~a.fatal /\ f.t.mode # "CONT"
          => f.t.state = "RUNNING" /\ f.t.prev = "SYSCALL_ENTER_STOP" /\ f.t.cur = "exit"
  BY <1>2 DEF KernelInv, Exiting, RestInv
<1> QED
  BY <1>1, <1>3, <1>4, <1>5, <1>6, <1>7, <1>9, <1>10, <1>11 DEF Reported, Core

\* The end of the thread, as wait() returns it: the object is dead, and its end has
\* been told once.
EndedTo(f, s) ==
    /\ s \in Frames /\ s.ex = "none" /\ s.k = f.k /\ s.t.state = "DEAD" /\ Tells(f.v, s.v)
    /\ s.t.child = f.t.child
    /\ ~s.v.wrong /\ (s.v.ends = 2 => s.v.asked) /\ (~s.v.asked => s.v.ends = 1)
    /\ s.t.child /\ s.t.mode # "CONT" => ~s.v.lost

\* processEvent() for it.
LEMMA ProcessEndEnded ==
  ASSUME NEW f \in Frames, f.ex = "none", f.k.run = "gone", NEW in, ~f.v.wrong, f.v.ends # 2,
         ~f.v.asked => f.v.ends = IF "WAIT_FOR_EXITED" \in f.t.flags THEN 1 ELSE 0,
         f.t.child /\ f.t.mode # "CONT" => ~f.v.lost
  PROVE  EndedTo(f, ProcessEnd(f, in))
<1> DEFINE d == ToState(f, "DEAD")
           n == Notify(d, in, "disappeared", "none", "none")
           w == Told(f.v, "disappeared", "none", "none")
<1>1. /\ d \in Frames /\ d.k = f.k /\ d.v = f.v /\ d.ex = "none" /\ d.t.child = f.t.child /\ d.t.state = "DEAD"
      /\ d.t.mode = f.t.mode /\ d.t.flags = f.t.flags
  BY ToStateDead
<1>2. ProcessEnd(f, in) = IF "WAIT_FOR_EXITED" \in d.t.flags THEN d ELSE n
  BY DEF ProcessEnd
<1>3. f.v \in Views /\ "none" \in MaybeCall
  BY FrameParts DEF MaybeCall
<1> HIDE DEF d
<1>4. CASE "WAIT_FOR_EXITED" \in d.t.flags
  <2>1. EndedTo(f, d)
    BY <1>1, <1>4 DEF EndedTo, Tells
  <2> QED BY <1>2, <1>4, <2>1
<1>5. CASE "WAIT_FOR_EXITED" \notin d.t.flags
  <2>1. /\ w \in Views /\ w.asked = f.v.asked /\ (w.attached <=> f.v.attached)
        /\ (w.insys <=> f.v.insys) /\ w.intr = f.v.intr /\ w.ends = f.v.ends + 1
        /\ (w.lost <=> f.v.lost) /\ ~w.wrong
    <3>1. f.v.ends < 2
      BY <1>3 DEF Views
    <3> QED BY <1>3, <3>1, ToldParts
  <2>2. /\ n \in Frames /\ n.ex = "none" /\ SameTold(w, n.v) /\ n.t = d.t /\ n.k = f.k
        /\ n.v.asked = f.v.asked \/ n.v.asked
    BY <1>1, <1>3, NotifyParts DEF Reachable, InStop
  <2> HIDE DEF w, n
  <2>3. n.v \in Views
    BY <2>2, FrameParts
  <2>4. n.v.ends = f.v.ends + 1 /\ n.v.attached = f.v.attached /\ n.v.insys = f.v.insys /\ n.v.intr = f.v.intr
    BY <1>3, <2>1, <2>2, <2>3 DEF SameTold, Views
  <2>5. f.v.ends = 0 \/ (f.v.asked /\ f.v.ends = 1)
    BY <1>1, <1>3, <1>5 DEF Views
  <2>6. Tells(f.v, n.v)
    BY <2>2, <2>4, <2>5 DEF Tells
  <2>7. EndedTo(f, n)
    BY <1>1, <2>1, <2>2, <2>4, <2>5, <2>6 DEF EndedTo, SameTold
  <2> QED BY <1>2, <1>5, <2>7
<1> QED
  BY <1>4, <1>5

\* A child that was let go of is stopped by job control.
LEMMA StoppedHandled ==
  ASSUME NEW alone, NEW f \in Frames, NEW a \in Thread, f.k = Collect(a), ThreadInv(a), KernelInv(a, alone),
         a.run = "stop", a.at = "STOPPED", Core(f.t, a, f.v, alone)
  PROVE  HandledTo(f, Throw(ToState(f, "SIGNAL_DELIVERY_STOP"), "ESRCH"), alone)
<1> DEFINE g == ToState(f, "SIGNAL_DELIVERY_STOP")
           s == Throw(g, "ESRCH")
<1>1. f.k.run = "stop" /\ f.k.at = "STOPPED" /\ ~f.k.traced /\ ~f.k.status /\ KernelInv(f.k, alone)
  BY CollectFields DEF KernelInv
<1>2. /\ g \in Frames /\ g.k = f.k /\ g.v = f.v /\ g.t.child = f.t.child /\ g.t.state = "SIGNAL_DELIVERY_STOP"
      /\ g.t.flags = f.t.flags /\ g.t.mode = f.t.mode /\ g.t.valid = f.t.valid /\ g.t.intr = f.t.intr
      /\ g.t.blocked = f.t.blocked
  <2>1. "SIGNAL_DELIVERY_STOP" \in States /\ ChangedFlags(f.t, "SIGNAL_DELIVERY_STOP") = f.t.flags
    BY DEF States, ChangedFlags
  <2> QED BY <2>1, ToStateParts
<1> HIDE DEF g
<1>3. s \in Frames /\ s.t = g.t /\ s.k = f.k /\ s.v = f.v /\ s.ex = "ESRCH"
  BY <1>2 DEF Throw, Frames
<1> HIDE DEF s
<1>4. HeldInv(g.t, f.k, f.v, alone)
  <2>1. ~a.traced
    BY DEF KernelInv
  <2> QED BY <1>1, <1>2, <2>1 DEF Core, HeldInv, Released
<1>5. ToldInv(g.t, f.k, f.v)
  BY <1>1, <1>2 DEF Core, ToldInv, Over, Live
<1>6. ListenInv(g.t, f.k, f.v) /\ RestInv(g.t, f.k, f.v, alone)
  BY <1>1 DEF ListenInv, RestInv, Live, InStop, Exiting
<1>7. Tells(f.v, f.v)
  BY DEF Tells
<1> QED
  BY <1>1, <1>2, <1>3, <1>4, <1>5, <1>6, <1>7 DEF HandledTo, Core, s, g

\* processEvent(), for every status that wait() can return.
LEMMA ProcessEventHandled ==
  ASSUME NEW alone, NEW f \in Frames, NEW a \in Thread, f.k = Collect(a), f.ex = "none", a.status, ThreadInv(a), KernelInv(a, alone),
         Core(f.t, a, f.v, alone), RestInv(f.t, a, f.v, alone), Live(a) => Synced(f.t, a), f.t.child => alone,
         NEW in \in InputRecords, in.ev = a.at
  PROVE  LET s == ProcessEvent(f, in)
         IN  IF a.run = "zombie" THEN EndedTo(f, s)
             ELSE HandledTo(f, s, alone) /\ f.v.ends = 0 /\ ~f.v.lost /\ f.k.run = "stop"
<1>1. a.run \in {"stop", "zombie"} /\ f.v \in Views
  BY FrameParts DEF ThreadInv
<1>2. CASE a.run = "zombie"
  <2>1. in.ev = "ENDED" /\ f.k.run = "gone"
    BY <1>2, CollectFields DEF ThreadInv
  <2>2. ProcessEvent(f, in) = ProcessEnd(f, in)
    BY <2>1 DEF ProcessEvent
  <2>3. /\ ~f.v.wrong /\ f.v.ends # 2 /\ (f.t.child /\ f.t.mode # "CONT" => ~f.v.lost)
        /\ ~f.v.asked => f.v.ends = IF "WAIT_FOR_EXITED" \in f.t.flags THEN 1 ELSE 0
    BY <1>2 DEF Core, ToldInv
  <2>4. EndedTo(f, ProcessEnd(f, in))
    BY <2>1, <2>3, ProcessEndEnded
  <2> QED BY <1>2, <2>2, <2>4
<1>3. CASE a.run = "stop"
  <2>1. f.v.ends = 0 /\ ~f.v.lost
    BY <1>1, <1>3 DEF Core, ToldInv, Over, Views
  <2>2. f.k.run = "stop" /\ f.k.at = a.at /\ a.at # "ENDED"
    BY <1>3, CollectFields DEF ThreadInv, PtraceStops, SyscallStops, SignalStops, EventStops
  <2>3. CASE a.at = "STOPPED"
    <3>1. ProcessEvent(f, in) = Throw(ToState(f, "SIGNAL_DELIVERY_STOP"), "ESRCH")
      BY <2>3 DEF ProcessEvent
    <3> QED BY <1>3, <2>1, <2>2, <2>3, <3>1, StoppedHandled
  <2>4. CASE a.at # "STOPPED"
    <3>1. ProcessEvent(f, in) = HandleTrap(f, in)
      BY <2>2, <2>4 DEF ProcessEvent
    <3>2. InStop(a)
      BY <1>3, <2>4 DEF InStop, KernelInv
    <3>3. Reported(f, alone)
      BY <3>2, StopReported
    <3> QED BY <1>3, <2>1, <2>2, <3>1, <3>3, HandleTrapHandled
  <2> QED BY <2>3, <2>4
<1> QED
  BY <1>1, <1>2, <1>3

(* attach() and detach() outside of processEvent() *)

\* PTRACE_INTERRUPT is no concern of the object either.
LEMMA InterruptStep ==
  ASSUME NEW a \in Thread, NEW alone, ThreadInv(a), KernelInv(a, alone), a.traced PROVE StepKeeps(a, Interrupt(a), alone)
<1> DEFINE b == Interrupt(a)
<1>1. /\ b.traced = a.traced /\ b.insys = a.insys /\ b.nr = a.nr /\ b.fatal = a.fatal /\ b.gstop = a.gstop
      /\ \/ /\ b.run = a.run /\ b.at = a.at /\ b.status = a.status /\ b.notify = a.notify /\ a.run # "listen"
         \/ /\ a.run = "listen" /\ b.run = "stop" /\ b.status
            /\ b.at = (IF b.gstop THEN "EV_STOP_SIG" ELSE "EV_STOP_TRAP")
  <2>1. CASE a.run = "listen"
    BY <2>1, TakeTrapFields DEF Interrupt
  <2>2. CASE a.run # "listen"
    BY <2>2 DEF Interrupt, Thread
  <2> QED BY <2>1, <2>2
<1> HIDE DEF b
<1> QED
  BY <1>1 DEF StepKeeps, KernelInv, Over, Released, Live, InTrapStop, InStop, Exiting, Thread, b

\* The consumer asks for the object to let go.
LEMMA AskedCore ==
  ASSUME NEW alone, NEW t, NEW x, NEW k, NEW v \in Views, Core(t, k, v, alone), RestInv(t, k, v, alone),
         x = t \/ /\ x.child = t.child /\ x.mode = t.mode /\ x.valid = t.valid /\ x.blocked = t.blocked /\ x.valid
                  /\ x.intr = t.intr /\ x.state = t.state /\ x.cur = t.cur /\ x.prev = t.prev /\ x.stopSig = t.stopSig
                  /\ x.flags = t.flags \cup {"DETACH_AT_NEXT_STOP"}
  PROVE  LET w == [v EXCEPT !.asked = TRUE]
         IN  w \in Views /\ SameTold(v, w) /\ w.asked /\ w.refused = v.refused /\ Core(x, k, w, alone) /\ RestInv(x, k, w, alone)
<1> DEFINE w == [v EXCEPT !.asked = TRUE]
<1>1. w \in Views /\ SameTold(v, w) /\ w.asked /\ w.refused = v.refused
  BY DEF Views, SameTold
<1> HIDE DEF w
<1>2. HeldInv(x, k, w, alone)
  BY <1>1 DEF Core, HeldInv
<1>3. ToldInv(x, k, w)
  BY <1>1 DEF Core, ToldInv, SameTold
<1>4. ListenInv(x, k, w) /\ RestInv(x, k, w, alone)
  BY <1>1 DEF Core, ListenInv, RestInv, SameTold
<1> QED
  BY <1>1, <1>2, <1>3, <1>4 DEF Core, w

\* detach() of a tracee that is not running: it is in a stop, or it listens, or it
\* has been killed.
LEMMA DoDetachCore ==
  ASSUME NEW alone, NEW f \in Frames, ThreadInv(f.k), KernelInv(f.k, alone), Core(f.t, f.k, f.v, alone), RestInv(f.t, f.k, f.v, alone),
         Live(f.k) => Synced(f.t, f.k), f.t.child => alone, f.v.asked, f.t.valid, f.t.state \notin {"RUNNING", "UNKNOWN"}
  PROVE  LET r == DoDetach(f)
         IN  r \in Frames /\ KernelInv(r.k, alone) /\ Core(r.t, r.k, r.v, alone) /\ RestInv(r.t, r.k, r.v, alone)
             /\ SameTold(f.v, r.v) /\ r.v.asked /\ r.t.child = f.t.child
<1> DEFINE r == DoDetach(f)
<1>1. /\ r \in Frames /\ LetGo(f.t, r.t) /\ SameTold(f.v, r.v) /\ r.v.asked
      /\ r.k = (IF Reachable(f) THEN Detach(f.k, f.t.child) ELSE f.k)
      /\ r.v.refused <=> f.v.refused \/ (f.t.valid /\ f.k.run = "listen")
  BY DoDetachParts
<1> HIDE DEF r
<1>2. f.k \in Thread /\ f.t \in Tracees /\ f.v \in Views /\ f.t.child \in BOOLEAN /\ r.t.child = f.t.child
  BY <1>1, FrameParts DEF Tracees, LetGo
<1>3. f.k.traced
  BY DEF Core, HeldInv
<1>4. CASE Reachable(f)
  <2>1. /\ ~r.k.traced /\ KernelInv(r.k, alone) /\ r.k.run # "listen"
        /\ f.k.at = "EV_EXIT" => r.k.run = "zombie"
    BY <1>1, <1>2, <1>4, DetachFields DEF Reachable
  <2>2. f.k.run = "stop"
    BY <1>4 DEF Reachable, InStop
  <2>3. ~Live(r.k) /\ HeldInv(r.t, r.k, r.v, alone)
    BY <1>1, <2>1 DEF Live, HeldInv, Released, LetGo
  <2>4. ToldInv(r.t, r.k, r.v)
    BY <1>1, <2>1, <2>2, <2>3 DEF Core, ToldInv, Over, SameTold, LetGo
  <2>5. ListenInv(r.t, r.k, r.v) /\ RestInv(r.t, r.k, r.v, alone)
    BY <2>1, <2>3 DEF ListenInv, RestInv, InStop, Exiting
  <2> QED BY <1>1, <1>2, <2>1, <2>3, <2>4, <2>5 DEF Core, r
<1>5. CASE ~Reachable(f)
  <2>1. r.k = f.k /\ f.k.run # "stop"
    BY <1>1, <1>3, <1>5 DEF Reachable, InStop, KernelInv
  <2>2. f.k.run = "listen" \/ (f.k.run = "dying" /\ (alone => f.k.fatal)) \/ f.k.run \in {"zombie", "gone"}
    BY <1>2, <1>3, <2>1 DEF RestInv, Thread
  <2>3. HeldInv(r.t, r.k, r.v, alone)
    BY <1>1, <2>1, <2>2 DEF HeldInv, Released, LetGo
  <2>4. Live(f.k) => ~f.v.insys
    BY <2>2 DEF Live, ThreadInv, Synced, SyscallStopPending, Core, ToldInv
  <2>5. ToldInv(r.t, r.k, r.v)
    BY <1>1, <2>1, <2>4 DEF Core, ToldInv, SameTold, LetGo
  <2>6. ListenInv(r.t, r.k, r.v)
    BY <1>1, <2>1, <2>2 DEF Core, ListenInv, Live, LetGo, InTrapStop
  <2>7. RestInv(r.t, r.k, r.v, alone)
    BY <1>1, <2>1, <2>2 DEF RestInv, LetGo, Exiting
  <2> QED BY <1>1, <1>2, <2>1, <2>3, <2>5, <2>6, <2>7 DEF Core, r
<1> QED
  BY <1>4, <1>5

\* detach() from outside of a callback.
LEMMA DetachTraceeCore ==
  ASSUME NEW alone, NEW f \in Frames, ThreadInv(f.k), KernelInv(f.k, alone), Core(f.t, f.k, f.v, alone), RestInv(f.t, f.k, f.v, alone),
         Live(f.k) => Synced(f.t, f.k), f.t.child => alone
  PROVE  LET r == DetachTracee(f)
         IN  r \in Frames /\ KernelInv(r.k, alone) /\ Core(r.t, r.k, r.v, alone) /\ RestInv(r.t, r.k, r.v, alone) /\ Tells(f.v, r.v)
             /\ r.t.child = f.t.child
<1> DEFINE u == [f.v EXCEPT !.asked = TRUE]
           a == [f EXCEPT !.v = u]
           x == [f.t EXCEPT !.flags = f.t.flags \cup {"DETACH_AT_NEXT_STOP"}]
           w == [a EXCEPT !.t = x]
           b == Interrupt(f.k)
           i == [w EXCEPT !.k = b]
<1>1. f.t \in Tracees /\ f.v \in Views /\ f.k \in Thread
  BY FrameParts
<1>2. u \in Views /\ SameTold(f.v, u) /\ u.asked /\ Core(f.t, f.k, u, alone) /\ RestInv(f.t, f.k, u, alone)
  BY <1>1, AskedCore
<1>3. /\ x \in Tracees /\ x.child = f.t.child /\ x.mode = f.t.mode /\ x.valid = f.t.valid /\ x.blocked = f.t.blocked
      /\ x.intr = f.t.intr /\ x.state = f.t.state /\ x.cur = f.t.cur /\ x.prev = f.t.prev /\ x.stopSig = f.t.stopSig
      /\ x.flags = f.t.flags \cup {"DETACH_AT_NEXT_STOP"}
  <2>1. f.t.flags \cup {"DETACH_AT_NEXT_STOP"} \in SUBSET Flags
    BY <1>1 DEF Tracees, Flags
  <2> QED BY <1>1, <2>1 DEF Tracees
<1>4. f.t.valid => Core(x, f.k, u, alone) /\ RestInv(x, f.k, u, alone)
  <2> HIDE DEF x
  <2> QED BY <1>1, <1>3, AskedCore
<1>5. a = [f EXCEPT !.v.asked = TRUE]
  BY DEF Frames
<1> HIDE DEF u
<1>6. a \in Frames /\ a.t = f.t /\ a.k = f.k /\ a.v = u /\ a.ex = f.ex
  BY <1>2, FrameParts
<1>7. w = [a EXCEPT !.t.flags = @ \cup {"DETACH_AT_NEXT_STOP"}]
  BY <1>6 DEF Frames
<1> HIDE DEF a, x
<1>8. w \in Frames /\ w.t = x /\ w.k = f.k /\ w.v = u /\ w.ex = f.ex
  BY <1>3, <1>6, FrameParts
<1> HIDE DEF w
<1>9. DetachTracee(f) = IF ~a.t.valid \/ a.t.state \in {"DEAD", "DETACHED"} THEN a
                        ELSE IF a.t.state \notin {"RUNNING", "UNKNOWN"} THEN DoDetach(a)
                        ELSE IF "WAIT_FOR_ATTACH_STOP" \in w.t.flags THEN w
                        ELSE IF w.k.run = "gone" THEN ToState(w, "DEAD")
                        ELSE i
  BY <1>5, <1>7, <1>8 DEF DetachTracee
<1>10. Tells(f.v, u)
  BY <1>2, TellsNothing
<1>11. CASE ~a.t.valid \/ a.t.state \in {"DEAD", "DETACHED"}
  BY <1>2, <1>6, <1>9, <1>10, <1>11
<1>12. CASE a.t.valid /\ a.t.state \notin {"RUNNING", "UNKNOWN", "DEAD", "DETACHED"}
  <2> DEFINE r == DoDetach(a)
  <2>1. /\ r \in Frames /\ KernelInv(r.k, alone) /\ Core(r.t, r.k, r.v, alone) /\ RestInv(r.t, r.k, r.v, alone) /\ SameTold(a.v, r.v)
        /\ r.v.asked /\ r.t.child = a.t.child
    BY <1>2, <1>6, <1>12, DoDetachCore
  <2>2. DetachTracee(f) = r
    BY <1>9, <1>12
  <2> HIDE DEF r
  <2>3. Tells(f.v, r.v)
    BY <1>2, <1>6, <2>1, TellsNothing DEF SameTold
  <2> QED BY <1>6, <2>1, <2>2, <2>3
<1>13. CASE a.t.valid /\ a.t.state \in {"RUNNING", "UNKNOWN"} /\ "WAIT_FOR_ATTACH_STOP" \in w.t.flags
  BY <1>3, <1>4, <1>6, <1>8, <1>9, <1>10, <1>13
<1>14. CASE /\ a.t.valid /\ a.t.state \in {"RUNNING", "UNKNOWN"} /\ "WAIT_FOR_ATTACH_STOP" \notin w.t.flags
            /\ w.k.run = "gone"
  <2> DEFINE r == ToState(w, "DEAD")
  <2>1. /\ r \in Frames /\ r.k = f.k /\ r.v = u /\ r.t.child = x.child /\ r.t.state = "DEAD" /\ r.t.mode = x.mode
        /\ r.t.valid = x.valid /\ r.t.intr = x.intr /\ r.t.blocked = x.blocked /\ r.t.flags = x.flags
    <3>1. "DEAD" \in States /\ ChangedFlags(x, "DEAD") = x.flags
      BY DEF States, ChangedFlags
    <3> QED BY <1>8, <1>14, <3>1, ToStateParts
  <2>2. DetachTracee(f) = r
    BY <1>9, <1>14
  <2> HIDE DEF r
  <2>3. f.k.run = "gone" /\ Core(x, f.k, u, alone)
    BY <1>4, <1>6, <1>8, <1>14
  <2>4. HeldInv(r.t, r.k, r.v, alone)
    BY <1>2, <2>1, <2>3 DEF Core, HeldInv, Released
  <2>5. ToldInv(r.t, r.k, r.v)
    BY <2>1, <2>3 DEF Core, ToldInv
  <2>6. ListenInv(r.t, r.k, r.v) /\ RestInv(r.t, r.k, r.v, alone)
    BY <2>1, <2>3 DEF ListenInv, RestInv, Live, InStop, Exiting
  <2> QED BY <1>3, <1>10, <2>1, <2>2, <2>4, <2>5, <2>6 DEF Core
<1>15. CASE /\ a.t.valid /\ a.t.state \in {"RUNNING", "UNKNOWN"} /\ "WAIT_FOR_ATTACH_STOP" \notin w.t.flags
            /\ w.k.run # "gone"
  <2>1. f.k.traced /\ x.valid /\ Core(x, f.k, u, alone) /\ RestInv(x, f.k, u, alone)
    BY <1>3, <1>4, <1>6, <1>15 DEF Core, HeldInv
  <2>2. b \in Thread /\ StepKeeps(f.k, b, alone) /\ KernelInv(b, alone)
    <3>1. b \in Thread /\ StepKeeps(f.k, b, alone)
      BY <1>1, <2>1, InterruptType, InterruptStep
    <3> QED BY <3>1 DEF StepKeeps
  <2>3. Live(f.k) => Synced(x, f.k)
    BY <1>3 DEF Synced
  <2> HIDE DEF b
  <2>4. Core(x, b, u, alone) /\ RestInv(x, b, u, alone)
    BY <1>1, <1>2, <1>3, <2>1, <2>2, <2>3, StepCore
  <2>5. i \in Frames /\ i.t = x /\ i.k = b /\ i.v = u
    BY <1>8, <2>2, FrameParts
  <2>6. DetachTracee(f) = i
    BY <1>9, <1>15
  <2> HIDE DEF i
  <2> QED BY <1>3, <1>10, <2>2, <2>4, <2>5, <2>6
<1> QED
  BY <1>11, <1>12, <1>13, <1>14, <1>15

\* PTRACE_SEIZE and PTRACE_INTERRUPT of a thread that is not traced yet.
LEMMA SeizeFields ==
  ASSUME NEW a \in Thread, NEW alone, ~a.traced, ThreadInv(a), KernelInv(a, alone), a.run \in {"run", "stop"}
  PROVE  LET b == Interrupt(Seize(a))
         IN  /\ b \in Thread /\ b.traced /\ KernelInv(b, alone)
             /\ b.run = "run" \/ (b.run = "stop" /\ b.status /\ b.at \in {"EV_STOP_SIG", "EV_STOP_TRAP"})
<1> DEFINE s == [a EXCEPT !.traced = TRUE, !.sysgood = FALSE]
           z == Seize(a)
           b == Interrupt(z)
<1>1. /\ s \in Thread /\ s.traced /\ s.run = a.run /\ s.fatal = a.fatal /\ s.gstop = a.gstop
  BY DEF Thread
<1>2. z = IF s.run = "stop" THEN TakeTrap(s) ELSE s
  BY DEF Seize
<1> HIDE DEF s
<1>3. /\ z \in Thread /\ z.traced /\ ~z.fatal
      /\ \/ z.run = "run"
         \/ z.run = "stop" /\ z.at = (IF z.gstop THEN "EV_STOP_SIG" ELSE "EV_STOP_TRAP") /\ z.status
  <2>1. ~a.fatal
    BY DEF KernelInv
  <2>2. CASE s.run = "stop"
    BY <1>1, <1>2, <2>1, <2>2, TakeTrapFields, TakeTrapType
  <2>3. CASE s.run # "stop"
    BY <1>1, <1>2, <2>1, <2>3
  <2> QED BY <2>2, <2>3
<1> HIDE DEF z
<1>4. /\ b \in Thread /\ b.traced /\ ~b.fatal /\ b.run = z.run /\ b.at = z.at /\ b.status = z.status
      /\ b.gstop = z.gstop
  BY <1>3 DEF Interrupt, Thread
<1> HIDE DEF b
<1>5. KernelInv(b, alone)
  BY <1>3, <1>4 DEF KernelInv
<1> QED
  BY <1>3, <1>4, <1>5 DEF b, z

\* attach() in addTracee().
LEMMA AttachCore ==
  ASSUME NEW alone, NEW f \in Frames, f.ex = "none", ThreadInv(f.k), KernelInv(f.k, alone), ~f.k.traced,
         f.t.flags \subseteq {"INJECTED_SIGSTOP"}, f.t.mode = "CONT", f.t.valid, ~f.t.blocked,
         f.t.state = "UNKNOWN", f.t.intr = "none", f.v = NewView
  PROVE  LET g == Attach(f)
         IN  /\ g \in Frames /\ KernelInv(g.k, alone) /\ g.v = f.v
             /\ IF g.ex = "none" THEN Core(g.t, g.k, g.v, alone) /\ RestInv(g.t, g.k, g.v, alone)
                ELSE g.k = f.k /\ g.t.mode = "CONT"
<1>1. f.t \in Tracees /\ f.k \in Thread
  BY FrameParts
<1>2. CASE f.k.run \in {"run", "stop"}
  <2> DEFINE b == Interrupt(Seize(f.k))
             s == Seize(f.k)
             fl == f.t.flags \cup {"WAIT_FOR_ATTACH_STOP"}
             x == [f.t EXCEPT !.flags = fl]
             c == Send(b, "CONT")
             fc == fl \cup {"INJECTED_SIGCONT"}
             y == [f.t EXCEPT !.flags = fc]
             i == [f EXCEPT !.k = b, !.t = x]
             j == [f EXCEPT !.k = c, !.t = y]
  <2>1. /\ b \in Thread /\ b.traced /\ KernelInv(b, alone)
        /\ b.run = "run" \/ (b.run = "stop" /\ b.status /\ b.at \in {"EV_STOP_SIG", "EV_STOP_TRAP"})
    BY <1>1, <1>2, SeizeFields
  <2>2. /\ c \in Thread /\ c.traced /\ KernelInv(c, alone)
        /\ c.run = "run" \/ (c.run = "stop" /\ c.status /\ c.at \in {"EV_STOP_SIG", "EV_STOP_TRAP"})
    <3> HIDE DEF b
    <3>1. "CONT" \in Signals
      BY DEF Signals
    <3>2. c \in Thread
      BY <2>1, <3>1, SendType
    <3>3. /\ c.traced = b.traced /\ c.fatal = b.fatal /\ c.insys = b.insys /\ c.nr = b.nr
          /\ c.run = b.run /\ c.at = b.at /\ c.status = b.status
          /\ \/ c.gstop = b.gstop /\ c.notify = b.notify
             \/ ~c.gstop /\ c.notify
      <4>1. /\ c.traced = b.traced /\ c.insys = b.insys /\ c.nr = b.nr /\ c.fatal = b.fatal /\ c.sysgood = b.sysgood
            /\ \/ /\ c.run = b.run /\ c.at = b.at /\ c.status = b.status
                  /\ c.trap = b.trap /\ (~b.traced => c.notify = b.notify)
                  /\ \/ c.gstop = b.gstop /\ c.notify = b.notify
                     \/ ~c.gstop /\ b.run # "listen" /\ (b.traced => c.notify)
                     \/ ~b.traced
               \/ /\ ~b.traced /\ b.run = "stop" /\ c.run = "run" /\ c.at = "none" /\ c.status = FALSE
                  /\ c.trap = b.trap /\ c.notify = b.notify
               \/ /\ b.traced /\ b.run = "listen" /\ c.run = "stop" /\ c.at = "EV_STOP_TRAP" /\ c.status
                  /\ ~c.trap /\ ~c.notify
        BY Zenon, <2>1, <3>1, SendMore
      <4> HIDE DEF c
      <4> QED BY <2>1, <4>1
    <3>4. KernelInv(c, alone)
      <4> HIDE DEF c
      <4> QED BY <2>1, <3>3 DEF KernelInv
    <3> QED BY <2>1, <3>2, <3>3, <3>4
  <2>3. Attach(f) = IF "INJECTED_SIGSTOP" \in f.t.flags THEN j ELSE i
    <3> DEFINE h == [f EXCEPT !.k = s]
    <3>1. h \in Frames /\ h.t = f.t /\ h.k = s /\ h.v = f.v /\ h.ex = f.ex
      BY <1>1, SeizeType, FrameParts
    <3>2. Attach(f) = Attached(h)
      BY <1>2 DEF Attach
    <3>3. b = Interrupt(s)
      OBVIOUS
    <3> HIDE DEF s, b, c
    <3> DEFINE u == [h EXCEPT !.k = Interrupt(h.k), !.t.flags = h.t.flags \cup {"WAIT_FOR_ATTACH_STOP"}]
               o == [u EXCEPT !.k = Send(u.k, "CONT"), !.t.flags = u.t.flags \cup {"INJECTED_SIGCONT"}]
    <3>4. Attached(h) = IF "INJECTED_SIGSTOP" \in f.t.flags THEN o ELSE u
      <4> HIDE DEF h
      <4> QED BY <3>1 DEF Attached
    <3> HIDE DEF h
    <3>5. u = i
      <4>1. u = [h EXCEPT !.k = b, !.t.flags = fl]
        BY <3>1, <3>3
      <4> HIDE DEF fl, u
      <4> QED BY <1>1, <3>1, <4>1 DEF Frames, Tracees, h
    <3>6. i.k = b /\ i.t.flags = fl /\ i.t = x
      <4> HIDE DEF fl
      <4> QED BY <1>1 DEF Frames, Tracees
    <3> HIDE DEF i
    <3>7. o = [i EXCEPT !.k = c, !.t.flags = fc]
      <4> HIDE DEF u
      <4> QED BY <3>5, <3>6 DEF c
    <3>8. o = j
      <4> HIDE DEF fc, fl, o
      <4> QED BY <1>1, <3>7 DEF Frames, Tracees, i
    <3> HIDE DEF o, u, j
    <3> QED BY <3>2, <3>4, <3>5, <3>8
  <2>4. fl \in SUBSET Flags /\ fc \in SUBSET Flags
    BY DEF Flags
  <2> HIDE DEF b, c
  <2>5. \A z \in {x, y} : /\ z \in Tracees /\ z.child = f.t.child /\ z.mode = "CONT" /\ z.valid /\ ~z.blocked
                          /\ z.intr = "none" /\ z.state = "UNKNOWN"
                          /\ z.flags \subseteq {"INJECTED_SIGSTOP", "WAIT_FOR_ATTACH_STOP", "INJECTED_SIGCONT"}
    <3>1. /\ x \in Tracees /\ x.child = f.t.child /\ x.mode = "CONT" /\ x.valid /\ ~x.blocked
          /\ x.intr = "none" /\ x.state = "UNKNOWN" /\ x.flags = fl
      <4> HIDE DEF fl, fc
      <4> QED BY <1>1, <2>4 DEF Tracees
    <3>2. /\ y \in Tracees /\ y.child = f.t.child /\ y.mode = "CONT" /\ y.valid /\ ~y.blocked
          /\ y.intr = "none" /\ y.state = "UNKNOWN" /\ y.flags = fc
      <4> HIDE DEF fl, fc
      <4> QED BY <1>1, <2>4 DEF Tracees
    <3> HIDE DEF x, y
    <3> QED BY <3>1, <3>2
  <2> HIDE DEF x, y
  <2>6. \A z \in {x, y} : \A d \in {b, c} : Core(z, d, f.v, alone) /\ RestInv(z, d, f.v, alone)
    <3> SUFFICES ASSUME NEW z \in {x, y}, NEW d \in {b, c} PROVE Core(z, d, f.v, alone) /\ RestInv(z, d, f.v, alone)
      OBVIOUS
    <3>1. /\ z.mode = "CONT" /\ z.valid /\ ~z.blocked /\ z.intr = "none" /\ z.state = "UNKNOWN"
          /\ z.flags \subseteq {"INJECTED_SIGSTOP", "WAIT_FOR_ATTACH_STOP", "INJECTED_SIGCONT"}
      BY <2>5
    <3>2. d.traced /\ (d.run = "run" \/ (d.run = "stop" /\ d.status /\ d.at \in {"EV_STOP_SIG", "EV_STOP_TRAP"}))
      BY <2>1, <2>2
    <3>3. /\ ~f.v.wrong /\ f.v.ends = 0 /\ ~f.v.lost /\ ~f.v.attached /\ ~f.v.insys /\ ~f.v.asked
      BY DEF NewView
    <3>4. HeldInv(z, d, f.v, alone)
      BY <3>1, <3>2 DEF HeldInv
    <3>5. ToldInv(z, d, f.v)
      BY <3>1, <3>3 DEF ToldInv
    <3>6. ListenInv(z, d, f.v) /\ RestInv(z, d, f.v, alone)
      BY <3>1, <3>2 DEF ListenInv, RestInv, InStop
    <3> QED BY <3>4, <3>5, <3>6 DEF Core
  <2>7. /\ i \in Frames /\ i.t = x /\ i.k = b /\ i.v = f.v /\ i.ex = "none"
        /\ j \in Frames /\ j.t = y /\ j.k = c /\ j.v = f.v /\ j.ex = "none"
    BY <2>1, <2>2, <2>5 DEF Frames
  <2> HIDE DEF i, j
  <2> QED BY <2>1, <2>2, <2>3, <2>6, <2>7
<1>3. CASE f.k.run \notin {"run", "stop"}
  <2> DEFINE d == IF f.t.child THEN f ELSE ToState(f, "DEAD")
             g == Throw(d, "ESRCH")
  <2>1. d \in Frames /\ d.k = f.k /\ d.v = f.v /\ d.t.mode = "CONT"
    BY ToStateDead
  <2>2. Attach(f) = g
    BY <1>3 DEF Attach
  <2> HIDE DEF d
  <2>3. g \in Frames /\ g.k = f.k /\ g.v = f.v /\ g.t.mode = "CONT" /\ g.ex = "ESRCH"
    BY <2>1 DEF Throw, Frames
  <2> HIDE DEF g
  <2> QED BY <2>2, <2>3
<1> QED
  BY <1>2, <1>3
=============================================================================
