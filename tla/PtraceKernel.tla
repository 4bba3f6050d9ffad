---------------------------- MODULE PtraceKernel ----------------------------
(***************************************************************************)
(* The kernel's side of ptrace(2) for one thread, as far as the tracer in  *)
(* src/ can tell.  It is external to the repository: it is modelled from   *)
(* the requests clues makes (PTRACE_SEIZE, PTRACE_INTERRUPT, the restart   *)
(* requests CONT, SYSCALL and LISTEN, PTRACE_DETACH) and from the wait(2)  *)
(* statuses it decodes.  Operators only; the specifications that use them  *)
(* decide when a thread takes a step.                                      *)
(***************************************************************************)

\* Signals that are told apart: TERM stands for every signal with a handler or
\* a deadly default action, STOP for the STOPPING_SIGNALS.
Signals == {"CONT", "STOP", "TERM"}

\* The system calls the tracer's control flow tells apart; "read" is any other.
Calls == {"clone", "execve", "exit", "read", "restart_syscall", "sigreturn"}

\* The ptrace-stops.  EV_STOP_SIG and EV_STOP_TRAP are PTRACE_EVENT_STOP with
\* a stopping signal and with SIGTRAP.  EV_CHILD is PTRACE_EVENT_CLONE, FORK or
\* VFORK, EV_VFORK_DONE the event that ends a vfork().
SyscallStops == {"SYS_ENTRY", "SYS_EXIT"}
SignalStops == {"SIG_CONT", "SIG_STOP", "SIG_TERM"}
EventStops == {"EV_STOP_SIG", "EV_STOP_TRAP", "EV_EXIT", "EV_EXEC", "EV_CHILD",
               "EV_VFORK_DONE"}
PtraceStops == SyscallStops \cup SignalStops \cup EventStops

\* What wait() can report: a ptrace-stop, the job control stop of a child that
\* is not traced (any more), or the end of the thread.
Statuses == PtraceStops \cup {"STOPPED", "ENDED"}

SignalStop(s) == CASE s = "CONT" -> "SIG_CONT"
                   [] s = "STOP" -> "SIG_STOP"
                   [] OTHER -> "SIG_TERM"

\* run: "run" (scheduled), "stop" (in a stop, which one is in at), "listen" (in
\*   group-stop after PTRACE_LISTEN), "dying" (a fatal signal or exit() is being
\*   acted upon), "zombie", "gone" (reaped).
\* status: wait() has something to report about this thread, namely at.
\* insys: between the entry to and the exit from the system call nr.
\* sysgood: last restarted by PTRACE_SYSCALL, so that system calls stop.
\* trap: a PTRACE_EVENT_STOP is due after PTRACE_INTERRUPT; any other ptrace-stop
\*   that happens before it replaces it, see PTRACE_INTERRUPT in ptrace(2).
\* notify: a PTRACE_EVENT_STOP is due after SIGCONT; this one is never lost.
\* gstop: the thread's process is group-stopped.
\* pend: the signals to be delivered.  fatal: it ends by a signal, not by exit().
Thread == [run : {"run", "stop", "listen", "dying", "zombie", "gone"},
           at : Statuses \cup {"none"}, status : BOOLEAN, traced : BOOLEAN,
           sysgood : BOOLEAN, trap : BOOLEAN, notify : BOOLEAN,
           gstop : BOOLEAN, insys : BOOLEAN, nr : Calls, pend : SUBSET Signals,
           fatal : BOOLEAN]

StopAt(k, e) == [k EXCEPT !.run = "stop", !.at = e, !.status = TRUE, !.trap = FALSE]

\* The PTRACE_EVENT_STOP that is due.
TakeTrap(k) ==
    [StopAt(k, IF k.gstop THEN "EV_STOP_SIG" ELSE "EV_STOP_TRAP") EXCEPT !.notify = FALSE]

Due(k) == k.trap \/ k.notify

\* Only a thread in a ptrace-stop answers to ptrace requests; in every other
\* state, LISTEN included, the kernel fails them with ESRCH.
InStop(k) == k.traced /\ k.run = "stop" /\ k.at # "STOPPED"

\* SIGKILL (or the exit of the whole process): it ends any stop and the status
\* that has not been collected yet is lost.
Kill(k) == IF k.run = "stop" /\ k.at = "EV_EXIT"
           THEN [k EXCEPT !.run = "zombie", !.at = "ENDED", !.status = TRUE]
           ELSE IF k.run \in {"run", "stop", "listen"}
           THEN [k EXCEPT !.run = "dying", !.at = "none", !.status = FALSE, !.fatal = TRUE]
           ELSE k

\* PTRACE_SEIZE; a thread in a job control stop re-enters it as a ptrace-stop.
Seize(k) ==
    LET s == [k EXCEPT !.traced = TRUE, !.sysgood = FALSE]
    IN  IF s.run = "stop" THEN TakeTrap(s) ELSE s

\* PTRACE_INTERRUPT.  It wakes up a listening thread.
Interrupt(k) == IF k.run = "listen" THEN TakeTrap(k) ELSE [k EXCEPT !.trap = TRUE]

\* kill(2) with SIGSTOP, SIGCONT or another signal.  SIGCONT ends a group-stop
\* at once, and a seized thread is told by a PTRACE_EVENT_STOP.
Send(k, s) ==
    LET p == [k EXCEPT !.pend = (IF s = "CONT" THEN @ \ {"STOP"}
                                 ELSE IF s = "STOP" THEN @ \ {"CONT"} ELSE @) \cup {s}]
        c == [p EXCEPT !.gstop = FALSE]
    IN  IF s # "CONT" THEN p
        ELSE IF ~c.traced
             THEN IF c.run = "stop"
                  THEN [c EXCEPT !.run = "run", !.at = "none", !.status = FALSE]
                  ELSE c
        ELSE IF c.run = "listen" THEN TakeTrap(c)
        ELSE [c EXCEPT !.notify = TRUE]

\* A thread that leaves a stop: it runs on, unless a PTRACE_EVENT_STOP is due
\* and no system call has to be finished first.
Leave(k) == IF Due(k) /\ ~k.insys THEN TakeTrap(k)
            ELSE [k EXCEPT !.run = "run", !.at = "none", !.status = FALSE]

\* A restart with PTRACE_CONT or PTRACE_SYSCALL, sig being the injected signal
\* ("none" if there is none).  An injected SIGSTOP stops the process (unless a
\* SIGCONT came in since), SIGTERM kills it if it is deadly.
Resume(k, mode, sig, deadly) ==
    LET r == [k EXCEPT !.sysgood = (mode = "SYSCALL")]
    IN  CASE k.at = "EV_EXIT" -> [r EXCEPT !.run = "zombie", !.at = "ENDED", !.status = TRUE]
          [] k.at # "EV_EXIT" /\ sig = "STOP" /\ ~k.notify -> TakeTrap([r EXCEPT !.gstop = TRUE])
          [] k.at # "EV_EXIT" /\ sig = "TERM" /\ deadly -> Kill(r)
          [] OTHER -> Leave(r)

\* PTRACE_LISTEN is refused (EIO) anywhere but in a PTRACE_EVENT_STOP, and a
\* SIGCONT that came in by then is reported at once.
ListenRefused(k) == k.at \notin {"EV_STOP_SIG", "EV_STOP_TRAP"}

Listen(k) == IF k.notify THEN TakeTrap(k)
             ELSE [k EXCEPT !.run = "listen", !.at = "none", !.status = FALSE]

\* PTRACE_DETACH: a group-stopped thread stops again, as an untraced one; child
\* tells whether its parent, the tracer, is told about that.
Detach(k, child) ==
    LET d == [k EXCEPT !.traced = FALSE, !.sysgood = FALSE, !.trap = FALSE, !.notify = FALSE]
    IN  CASE k.at = "EV_EXIT" -> [d EXCEPT !.run = "zombie", !.at = "ENDED", !.status = child]
          [] k.at # "EV_EXIT" /\ k.gstop -> [d EXCEPT !.run = "stop", !.at = "STOPPED", !.status = child]
          [] OTHER -> [d EXCEPT !.run = "run", !.at = "none", !.status = FALSE]

\* wait() collects the status.
Collect(k) == IF k.run = "zombie" THEN [k EXCEPT !.run = "gone", !.at = "none", !.status = FALSE]
              ELSE [k EXCEPT !.status = FALSE]

(* What a thread does of itself. *)

CanEnterCall(k) == k.run = "run" /\ ~k.insys
EnterCall(k, c) ==
    LET e == [k EXCEPT !.insys = TRUE, !.nr = c]
    IN  IF k.traced /\ k.sysgood THEN StopAt(e, "SYS_ENTRY") ELSE e

CanLeaveCall(k) == k.run = "run" /\ k.insys /\ k.nr # "exit"
LeaveCall(k) ==
    LET e == [k EXCEPT !.insys = FALSE]
    IN  IF k.traced /\ k.sysgood THEN StopAt(e, "SYS_EXIT") ELSE Leave(e)

\* The events that are reported from inside a system call.
CallEvents(k) == CASE k.nr = "clone" -> {"EV_CHILD", "EV_VFORK_DONE"}
                   [] k.nr = "execve" -> {"EV_EXEC"}
                   [] OTHER -> {}
CanReport(k, e) == k.traced /\ k.run = "run" /\ k.insys /\ e \in CallEvents(k)

CanTrap(k) == k.traced /\ k.run = "run" /\ Due(k) /\ ~k.insys

CanDeliver(k, s) == k.run = "run" /\ ~k.insys /\ ~Due(k) /\ s \in k.pend
\* What happens to an untraced thread is left out but for the stop of a child.
Deliver(k, s, child) ==
    LET d == [k EXCEPT !.pend = @ \ {s}]
    IN  IF k.traced THEN StopAt(d, SignalStop(s))
        ELSE IF s = "STOP" THEN [d EXCEPT !.gstop = TRUE, !.run = "stop", !.at = "STOPPED", !.status = child]
        ELSE d

CanExit(k) == k.run = "run" /\ k.insys /\ k.nr = "exit"
Exit(k) == [k EXCEPT !.run = "dying"]

\* A dying thread stops in PTRACE_EVENT_EXIT, unless SIGKILL rushes it past.
ExitStop(k) == StopAt(k, "EV_EXIT")
Die(k, child) == [k EXCEPT !.run = "zombie", !.at = "ENDED", !.status = (k.traced \/ child)]
=============================================================================
