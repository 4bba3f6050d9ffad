---------------------------- MODULE TraceeObject ----------------------------
(***************************************************************************)
(* class Tracee of src/src/Tracee.cxx: one operator per member function    *)
(* that changes state.  The functions work on a frame, that is the object, *)
(* the thread it stands for, what the EventConsumer has been told so far,  *)
(* and the exception in flight:                                            *)
(*                                                                         *)
(*    f.t   the Tracee object          f.v   the consumer's view           *)
(*    f.k   the thread (PtraceKernel)  f.ex  "none", "ESRCH", "EIO",       *)
(*                                           "mismatch" or "null"          *)
(*                                                                         *)
(* An event is processed with an input record in: in.ev is the status that *)
(* wait() returned, the rest is what the environment does meanwhile.       *)
(* in.kill is the point where SIGKILL hits the thread, in.detach tells     *)
(* whether the consumer calls detach() in its callback, in.res is the      *)
(* outcome of a system call, in.recovered the system call that the         *)
(* registers read at the attach-stop tell of, in.deadly whether the signal *)
(* that is injected ends the process.                                      *)
(***************************************************************************)
EXTENDS PtraceKernel, Integers

States == {"UNKNOWN", "RUNNING", "SYSCALL_ENTER_STOP", "SYSCALL_EXIT_STOP",
           "SIGNAL_DELIVERY_STOP", "GROUP_STOP", "EVENT_STOP", "DEAD", "DETACHED"}

Flags == {"WAIT_FOR_ATTACH_STOP", "DETACH_AT_NEXT_STOP", "INJECTED_SIGSTOP",
          "INJECTED_SIGCONT", "SYSCALL_ENTERED", "WAIT_FOR_EXITED", "SEEN_SIGRETURN"}

RestartModes == {"CONT", "SYSCALL", "LISTEN"}

MaybeCall == Calls \cup {"none"}

\* child: isChildProcess().  valid: m_ptrace refers to a process, alive().
\* cur, intr: m_current_syscall, m_interrupted_syscall.  fresh: m_syscall_ctr = 0.
\* blocked: cleanupChild() waits for the child's end inside of changeState(DEAD).
Tracees == [child : BOOLEAN, state : States, prev : States, flags : SUBSET Flags,
            mode : RestartModes, valid : BOOLEAN, stopSig : BOOLEAN,
            cur : MaybeCall, intr : MaybeCall, fresh : BOOLEAN, blocked : BOOLEAN]

NewTracee(child) ==
    [child |-> child, state |-> "UNKNOWN", prev |-> "UNKNOWN", flags |-> {},
     mode |-> "CONT", valid |-> TRUE, stopSig |-> FALSE,
     cur |-> "none", intr |-> "none", fresh |-> TRUE, blocked |-> FALSE]

(* The consumer: what the callbacks have told it about this tracee. *)

Callbacks == {"attached", "syscallEntry", "syscallExit", "signaled", "stopped",
              "resumed", "exited", "disappeared", "newExecutionContext",
              "newChildProcess", "vforkComplete"}

\* early: a callback other than the end came before attached().  insys: syscallEntry() not yet followed by
\* syscallExit().  intr: the system call last reported as INTERRUPTED and not as
\* RESUMED.  ends: how often the end was reported (2: more than once).
\* lost: the end was reported as LOST_TO_MT_EXIT.
\* asked: detach() has been called.  wrong: a callback contradicts earlier ones.
\* refused: not told to the consumer; the kernel refused a request although the
\* thread had not been killed.
Views == [early : BOOLEAN, attached : BOOLEAN, insys : BOOLEAN,
          stopped : BOOLEAN, intr : MaybeCall, ends : 0..2, lost : BOOLEAN,
          asked : BOOLEAN, wrong : BOOLEAN, refused : BOOLEAN]

NewView == [early |-> FALSE, attached |-> FALSE, insys |-> FALSE, stopped |-> FALSE,
            intr |-> "none", ends |-> 0, lost |-> FALSE, asked |-> FALSE, wrong |-> FALSE,
            refused |-> FALSE]

\* call is the system call a callback is about and flag the StatusFlag it gets.
Told(v, cb, call, flag) ==
    [v EXCEPT !.early = @ \/ (cb \notin {"attached", "exited", "disappeared"} /\ ~v.attached),
              !.attached = @ \/ cb = "attached",
              !.insys = (@ \/ cb = "syscallEntry") /\ cb # "syscallExit",
              !.stopped = (@ \/ cb = "stopped") /\ cb # "resumed",
              !.intr = IF flag = "INTERRUPTED" THEN call ELSE IF flag = "RESUMED" THEN "none" ELSE @,
              !.ends = IF cb \in {"exited", "disappeared"} /\ @ < 2 THEN @ + 1 ELSE @,
              !.lost = @ \/ flag = "LOST_TO_MT_EXIT",
              !.wrong = \/ @
                        \/ cb = "attached" /\ v.attached
                        \/ cb = "syscallEntry" /\ v.insys
                        \/ cb = "syscallExit" /\ ~v.insys
                        \/ flag = "RESUMED" /\ v.intr # call
                        \/ cb \notin {"exited", "disappeared"} /\ v.ends > 0]

(* Exceptions and the moment of SIGKILL. *)

Throw(f, e) == [f EXCEPT !.ex = e]

\* The thread answers to the requests made by m_ptrace.
Reachable(f) == f.t.valid /\ InStop(f.k)

KillAt(f, in, point) == IF in.kill = point THEN [f EXCEPT !.k = Kill(@)] ELSE f

(* cleanupChild(): the end of the child has to be collected. *)
CleanupChild(f) == IF f.t.child /\ f.k.run # "gone" THEN [f EXCEPT !.t.blocked = TRUE] ELSE f

\* Variant: the exit-stop leaves SYSCALL_ENTERED set.
ChangedFlagsKeepEntered(t, s) ==
    CASE s = "SYSCALL_ENTER_STOP" -> t.flags \cup {"SYSCALL_ENTERED"}
      [] s = "GROUP_STOP" -> t.flags \ {"INJECTED_SIGSTOP"}
      [] s = "DETACHED" -> t.flags \ {"DETACH_AT_NEXT_STOP"}
      [] OTHER -> t.flags

ChangedFlags(t, s) == CASE s = "SYSCALL_ENTER_STOP" -> t.flags \cup {"SYSCALL_ENTERED"}
                        [] s = "SYSCALL_EXIT_STOP" -> t.flags \ {"SYSCALL_ENTERED"}
                        [] s = "GROUP_STOP" -> t.flags \ {"INJECTED_SIGSTOP"}
                        [] s = "DETACHED" -> t.flags \ {"DETACH_AT_NEXT_STOP"}
                        [] OTHER -> t.flags

\* Variant: RUNNING is recorded as a previous state, too.
ChangeStatePrevRunning(t, s) ==
    [t EXCEPT !.flags = ChangedFlags(t, s),
              !.mode = IF s # "GROUP_STOP" THEN @
                       ELSE IF "INJECTED_SIGSTOP" \in t.flags THEN "SYSCALL" ELSE "LISTEN",
              !.prev = t.state,
              !.stopSig = @ /\ ~(t.state = "GROUP_STOP" /\ s # "GROUP_STOP"),
              !.state = s]

\* What Tracee::changeState() does to the object itself.
ChangeState(t, s) ==
    LET prev == IF t.state # "RUNNING" THEN t.state ELSE t.prev
    IN  [t EXCEPT !.flags = ChangedFlags(t, s),
                  !.mode = IF s # "GROUP_STOP" THEN @
                           ELSE IF "INJECTED_SIGSTOP" \in t.flags THEN "SYSCALL" ELSE "LISTEN",
                  !.prev = prev,
                  !.stopSig = @ /\ ~(prev = "GROUP_STOP" /\ t.state # "GROUP_STOP"),
                  !.state = s]

ToState(f, s) ==
    LET g == [f EXCEPT !.t = ChangeState(@, s)]
    IN  IF s = "DEAD" THEN CleanupChild(g) ELSE g

(* detach() *)

\* handleError() takes ESRCH for the death of the thread.
DetachFailed(f) ==
    ToState([f EXCEPT !.v.refused = @ \/ (f.t.valid /\ f.k.run = "listen")], "DEAD")

DoDetach(f) ==
    LET d == IF Reachable(f)
             THEN ToState([f EXCEPT !.k = Detach(@, f.t.child)], "DETACHED")
             ELSE DetachFailed(f)
    IN  [d EXCEPT !.t.valid = FALSE, !.t.flags = {}]

\* Variant: a running tracee is detached from right away.
DetachTraceeAtOnce(f) ==
    LET a == [f EXCEPT !.v.asked = TRUE]
    IN  IF ~a.t.valid \/ a.t.state \in {"DEAD", "DETACHED"} THEN a ELSE DoDetach(a)

\* Variant: a running tracee is not interrupted.
DetachTraceeNoInterrupt(f) ==
    LET a == [f EXCEPT !.v.asked = TRUE]
    IN  IF ~a.t.valid \/ a.t.state \in {"DEAD", "DETACHED"} THEN a
        ELSE IF a.t.state \notin {"RUNNING", "UNKNOWN"} THEN DoDetach(a)
        ELSE [a EXCEPT !.t.flags = @ \cup {"DETACH_AT_NEXT_STOP"}]

\* PTRACE_INTERRUPT fails for a thread that is no longer there.
DetachTracee(f) ==
    LET a == [f EXCEPT !.v.asked = TRUE]
        w == [a EXCEPT !.t.flags = @ \cup {"DETACH_AT_NEXT_STOP"}]
    IN  IF ~a.t.valid \/ a.t.state \in {"DEAD", "DETACHED"} THEN a
        ELSE IF a.t.state \notin {"RUNNING", "UNKNOWN"} THEN DoDetach(a)
        ELSE IF "WAIT_FOR_ATTACH_STOP" \in w.t.flags THEN w
        ELSE IF w.k.run = "gone" THEN ToState(w, "DEAD")
        ELSE [w EXCEPT !.k = Interrupt(@)]

\* A callback, with the detach() the consumer may call from inside of it.
Notify(f, in, cb, call, flag) ==
    LET n == [f EXCEPT !.v = Told(@, cb, call, flag)]
    IN  IF in.detach THEN DetachTracee(n) ELSE n

(* System calls *)

Results(c) == IF c = "sigreturn" THEN {"ok", "EINTR"} ELSE {"ok", "EINTR", "ERESTART"}

\* Variant: m_interrupted_syscall is not cleared when it is resumed.
HandleSystemCallEntryKeepsInterrupted(f, in) ==
    LET c == f.k.nr
        resumed == f.t.intr # "none" /\ (c = "restart_syscall" \/ (f.t.intr = c /\ "SEEN_SIGRETURN" \in f.t.flags))
        cur == IF resumed THEN f.t.intr ELSE c
        g == KillAt([f EXCEPT !.t.cur = cur], in, "decode")
    IN  IF ~Reachable(g) THEN Throw(g, "ESRCH")
        ELSE Notify([g EXCEPT !.t.fresh = FALSE], in, "syscallEntry", cur,
                    IF resumed THEN "RESUMED" ELSE "none")

\* Variant: the wait status is taken for the system call.
HandleSystemCallEntryWrongCall(f, in) ==
    Notify([f EXCEPT !.t.cur = in.ev, !.t.fresh = FALSE], in, "syscallEntry", f.k.nr, "none")

\* setEntryInfo() reads the parameters from the tracee's memory.
\* RECOVERED is the RESUMED of a system call that was interrupted before the tracee
\* was attached to (tryRecoverRestartedSystemCall()).
HandleSystemCallEntry(f, in) ==
    LET t == f.t
        c == f.k.nr
        restart == c = "restart_syscall"
        known == t.intr # "none"
        recover == restart /\ ~known /\ t.fresh /\ in.recovered # "none"
        afterSig == ~restart /\ known /\ "SEEN_SIGRETURN" \in t.flags
        cur == IF restart /\ known THEN t.intr ELSE IF recover THEN in.recovered ELSE c
        flag == IF (restart /\ known) \/ (afterSig /\ t.intr = c) THEN "RESUMED"
                ELSE IF recover THEN "RECOVERED" ELSE "none"
        g == KillAt([f EXCEPT !.t.cur = cur,
                              !.t.intr = IF restart \/ afterSig THEN "none" ELSE t.intr,
                              !.t.flags = IF afterSig THEN t.flags \ {"SEEN_SIGRETURN"} ELSE t.flags],
                    in, "decode")
    IN  IF ~Reachable(g) THEN Throw(g, "ESRCH")
        ELSE Notify([g EXCEPT !.t.fresh = FALSE], in, "syscallEntry", cur, flag)

\* setExitInfo() reads the out parameters from the tracee's memory.
HandleSystemCallExit(f, in) ==
    LET g == KillAt(f, in, "decode")
        c == g.t.cur
        interrupted == in.res = "ERESTART"
        n == Notify([g EXCEPT !.t.intr = IF interrupted THEN c ELSE @], in, "syscallExit", c,
                    IF interrupted THEN "INTERRUPTED" ELSE "none")
        sigreturn == c = "sigreturn" /\ n.t.intr # "none"
    IN  IF ~Reachable(g) THEN Throw(g, "ESRCH")
        ELSE [n EXCEPT !.t.intr = IF sigreturn /\ in.res = "EINTR" THEN "none" ELSE n.t.intr,
                       !.t.flags = IF sigreturn /\ in.res # "EINTR" THEN n.t.flags \cup {"SEEN_SIGRETURN"}
                                   ELSE n.t.flags,
                       !.t.cur = "none"]

HandleSystemCall(f, in) ==
    LET g == KillAt(f, in, "request")
    IN  IF ~Reachable(g) THEN Throw(g, "ESRCH")
        ELSE IF "SYSCALL_ENTERED" \in g.t.flags
             THEN IF g.k.at # "SYS_EXIT" THEN Throw(g, "mismatch")
                  ELSE HandleSystemCallExit(ToState(g, "SYSCALL_EXIT_STOP"), in)
             ELSE IF g.k.at # "SYS_ENTRY" THEN Throw(g, "mismatch")
                  ELSE HandleSystemCallEntry(ToState(g, "SYSCALL_ENTER_STOP"), in)

(* Signals and ptrace events *)

SignalOf(e) == CASE e = "SIG_CONT" -> "CONT" [] e = "SIG_STOP" -> "STOP" [] e = "SIG_TERM" -> "TERM"
                 [] OTHER -> "none"

HandleSignal(f, in) ==
    LET g == KillAt(ToState(f, "SIGNAL_DELIVERY_STOP"), in, "request")
    IN  IF ~Reachable(g) THEN Throw(g, "ESRCH")
        ELSE IF "INJECTED_SIGCONT" \in g.t.flags /\ in.ev = "SIG_CONT"
             THEN [g EXCEPT !.t.flags = @ \ {"INJECTED_SIGCONT"}]
             ELSE Notify(g, in, "signaled", "none", "none")

HandleAttached(f, in) ==
    LET m == [f EXCEPT !.t.flags = @ \ {"WAIT_FOR_ATTACH_STOP"},
                       !.t.mode = IF "INJECTED_SIGSTOP" \in f.t.flags THEN @ ELSE "SYSCALL"]
        g == KillAt(m, in, "request")
    IN  IF ~Reachable(g) THEN Throw(g, "ESRCH") ELSE Notify(g, in, "attached", "none", "none")

\* Variant: the stopping signal is not remembered.
HandleStopEventNoSignal(f, in) ==
    IF "WAIT_FOR_ATTACH_STOP" \in f.t.flags THEN HandleAttached(f, in)
    ELSE IF in.ev = "EV_STOP_SIG"
         THEN Notify(ToState(f, "GROUP_STOP"), in, "stopped", "none", "none")
         ELSE [f EXCEPT !.t.mode = "SYSCALL"]

HandleStopEvent(f, in) ==
    IF "WAIT_FOR_ATTACH_STOP" \in f.t.flags THEN HandleAttached(f, in)
    ELSE IF in.ev = "EV_STOP_SIG"
         THEN Notify([ToState(f, "GROUP_STOP") EXCEPT !.t.stopSig = TRUE], in, "stopped", "none", "none")
         ELSE [f EXCEPT !.t.mode = "SYSCALL"]

HandleExitEvent(f, in) ==
    LET g == KillAt(f, in, "request")
        lost == ~g.k.fatal /\ ~(g.t.prev = "SYSCALL_ENTER_STOP" /\ g.t.cur = "exit")
        n == Notify(g, in, "exited", "none", IF lost THEN "LOST_TO_MT_EXIT" ELSE "none")
    IN  IF ~Reachable(g) THEN Throw(g, "ESRCH")
        ELSE [n EXCEPT !.t.flags = @ \cup {"WAIT_FOR_EXITED"}]

\* The exec of a process with a single thread: the PID stays the same.  The request
\* here is not made by m_ptrace.
HandleExecEvent(f, in) ==
    LET g == KillAt(f, in, "request")
    IN  IF ~InStop(g.k) THEN Throw(g, "ESRCH")
        ELSE Notify(g, in, "newExecutionContext", "none", "none")

\* The handler binds *m_current_syscall, and reads it for a new child.
HandleNewChildEvent(f, in) ==
    LET g == KillAt(f, in, "request")
    IN  IF ~Reachable(g) THEN Throw(g, "ESRCH")
        ELSE IF in.ev = "EV_VFORK_DONE" THEN Notify(g, in, "vforkComplete", "none", "none")
        ELSE IF g.t.cur = "none" THEN Throw(g, "null")
        ELSE Notify(g, in, "newChildProcess", "none", "none")

HandleEvent(f, in) ==
    LET g == ToState(f, "EVENT_STOP")
        e == in.ev
    IN  CASE e \in {"EV_STOP_SIG", "EV_STOP_TRAP"} -> HandleStopEvent(g, in)
          [] e = "EV_EXIT" -> HandleExitEvent(g, in)
          [] e = "EV_EXEC" -> HandleExecEvent(g, in)
          [] OTHER -> HandleNewChildEvent(g, in)

(* processEvent() *)

\* restart(): the request for m_restart_mode, with the signal to inject.
Restart(f, in) ==
    LET r == KillAt(f, in, "late")
    IN  IF ~Reachable(r) THEN Throw(r, "ESRCH")
        ELSE IF r.t.mode # "LISTEN"
             THEN [r EXCEPT !.k = Resume(@, r.t.mode, SignalOf(in.ev), in.deadly)]
        ELSE IF ListenRefused(r.k) THEN Throw([r EXCEPT !.v.refused = TRUE], "EIO")
        ELSE [r EXCEPT !.k = Listen(@)]

\* Variant: a group-stopped tracee is not put into LISTEN.
RestartTraceeNotStopped(f, in) ==
    LET r == Restart(f, in)
    IN  IF f.ex # "none" \/ f.t.state \in {"DEAD", "DETACHED", "GROUP_STOP"} THEN f
        ELSE IF r.ex # "none" THEN r ELSE ToState(r, "RUNNING")

\* The end of processEvent(), common to all stops.  A detach() from resumed(),
\* with the tracee RUNNING, is like one that comes right after the event.
RestartTracee(f, in) ==
    LET r == Restart(f, in)
        s == ToState(r, "RUNNING")
    IN  IF f.ex # "none" \/ f.t.state \in {"DEAD", "DETACHED"} THEN f
        ELSE IF r.ex # "none" \/ r.t.mode = "LISTEN" THEN r
        ELSE IF r.t.state = "GROUP_STOP"
             THEN Notify(s, [in EXCEPT !.detach = FALSE], "resumed", "none", "none")
             ELSE s

\* Variant: the end is reported again after exited().
ProcessEndTwice(f, in) == Notify(ToState(f, "DEAD"), in, "disappeared", "none", "none")

\* Variant: the end is not reported at all.
ProcessEndSilent(f, in) == ToState(f, "DEAD")

\* Variant: the end is reported only if there was an attach-stop.
ProcessEndOfAttached(f, in) ==
    LET d == ToState(f, "DEAD")
    IN  IF {"WAIT_FOR_EXITED", "WAIT_FOR_ATTACH_STOP"} \cap d.t.flags # {} THEN d
        ELSE Notify(d, in, "disappeared", "none", "none")

\* The thread is no more.
ProcessEnd(f, in) ==
    LET d == ToState(f, "DEAD")
    IN  IF "WAIT_FOR_EXITED" \in d.t.flags THEN d
        ELSE Notify(d, in, "disappeared", "none", "none")

HandleTrap(f, in) ==
    IF "DETACH_AT_NEXT_STOP" \in f.t.flags THEN DoDetach(KillAt(f, in, "request"))
    ELSE RestartTracee(CASE in.ev \in SyscallStops -> HandleSystemCall(f, in)
                         [] in.ev \in EventStops -> HandleEvent(f, in)
                         [] OTHER -> HandleSignal(f, in), in)

\* A child that was detached from is reported when job control stops it: here
\* data.signaled() holds, and PTRACE_GETSIGINFO fails.
ProcessEvent(f, in) ==
    CASE in.ev = "ENDED" -> ProcessEnd(f, in)
      [] in.ev = "STOPPED" -> Throw(ToState(f, "SIGNAL_DELIVERY_STOP"), "ESRCH")
      [] OTHER -> HandleTrap(f, in)

(* attach() after the thread was seized. *)
Attached(f) ==
    LET i == [f EXCEPT !.k = Interrupt(@), !.t.flags = @ \cup {"WAIT_FOR_ATTACH_STOP"}]
    IN  IF "INJECTED_SIGSTOP" \in f.t.flags
        THEN [i EXCEPT !.k = Send(@, "CONT"), !.t.flags = @ \cup {"INJECTED_SIGCONT"}]
        ELSE i

Attach(f) ==
    IF f.k.run \in {"run", "stop"} THEN Attached([f EXCEPT !.k = Seize(@)])
    ELSE Throw(IF f.t.child THEN f ELSE ToState(f, "DEAD"), "ESRCH")

-----------------------------------------------------------------------------
(* How an object that is in m_tracees and its thread hang together. *)

\* The thread has not been killed: it still takes part in system calls.
Live(k) == k.traced /\ \/ k.run \in {"run", "listen"}
                       \/ k.run = "stop" /\ k.at \in PtraceStops \ {"EV_EXIT"}

SyscallStopPending(k) == k.run = "stop" /\ k.status /\ k.at \in SyscallStops

\* Outside of a system call stop: SYSCALL_ENTERED tells whether a thread that is
\* under PTRACE_SYSCALL is in a system call, and the first restart by
\* PTRACE_SYSCALL happens in user space.  In such a stop, which wait() has not
\* returned yet, the thread is one step ahead.
Synced(t, k) ==
    /\ IF SyscallStopPending(k)
       THEN /\ k.sysgood /\ (k.insys <=> k.at = "SYS_ENTRY")
            /\ "SYSCALL_ENTERED" \in t.flags <=> ~k.insys
            /\ k.at = "SYS_EXIT" => t.cur # "none"
       ELSE /\ "SYSCALL_ENTERED" \in t.flags => k.sysgood /\ k.insys /\ t.cur # "none"
            /\ k.sysgood /\ k.insys => "SYSCALL_ENTERED" \in t.flags
    /\ k.sysgood => t.mode # "CONT"
    /\ t.mode = "SYSCALL" /\ ~k.sysgood => ~k.insys /\ k.run = "stop"
    /\ t.valid \/ k.run = "listen" \/ (k.run = "stop" /\ k.at \in {"EV_STOP_SIG", "EV_STOP_TRAP"})
    /\ k.run = "run" => t.state \in {"RUNNING", "UNKNOWN"}
    /\ t.blocked => ~t.valid

\* What the kernel guarantees of a thread.
ThreadInv(k) ==
    /\ k.status => k.run \in {"stop", "zombie"}
    /\ k.run = "stop" => k.at \in PtraceStops \cup {"STOPPED"}
    /\ k.run = "zombie" => k.at = "ENDED"
    /\ k.run = "listen" \/ (k.run = "stop" /\ k.at \in SignalStops \cup {"EV_STOP_SIG", "EV_STOP_TRAP"}) => ~k.insys
=============================================================================
