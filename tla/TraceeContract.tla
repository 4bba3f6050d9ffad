--------------------------- MODULE TraceeContract ---------------------------
(***************************************************************************)
(* What the Engine promises to an EventConsumer about one tracee, as a     *)
(* specification without ptrace, wait status or signals: the order of the  *)
(* callbacks from addTracee() to the removal of the Tracee (comments of    *)
(* EventConsumer.hxx and Engine.hxx).                                      *)
(***************************************************************************)
EXTENDS Naturals

CONSTANT Calls          \* the system calls that may be reported

VARIABLES obj,          \* created, registered, erased, or aborted with trace()
          attached,     \* attached() has been called
          insys,        \* syscallEntry() has been called, syscallExit() has not
          intr,         \* the call reported as INTERRUPTED and not as RESUMED, or none
          ends,         \* calls of exited() and disappeared()
          asked         \* detach() has been called

vars == <<obj, attached, insys, intr, ends, asked>>

Init ==
    /\ obj \in {"created", "registered"}
    /\ attached = FALSE
    /\ insys = FALSE
    /\ intr = "none"
    /\ ends = 0
    /\ asked = FALSE

\* addTracee() keeps the Tracee, or throws and destroys it.
AddTracee ==
    /\ obj = "created"
    /\ obj' \in {"registered", "erased"}
    /\ UNCHANGED <<attached, insys, intr, ends, asked>>

\* During any callback the consumer may call detach(), and a Tracee that it asked
\* to let go of, or whose end it has been told, may be dropped.
DetachOrNot == asked' \in BOOLEAN /\ (asked => asked')

DropOrNot == obj' = "registered" \/ (obj' = "erased" /\ (asked' \/ ends' = 1))

Callback == obj = "registered" /\ DetachOrNot /\ DropOrNot

Attached ==
    /\ ~attached /\ ends = 0
    /\ attached' = TRUE
    /\ UNCHANGED <<insys, intr, ends>>
    /\ Callback

SyscallEntry ==
    /\ ~insys /\ ends = 0
    /\ insys' = TRUE
    /\ intr' \in {intr, "none"}
    /\ UNCHANGED <<attached, ends>>
    /\ Callback

SyscallExit ==
    /\ insys /\ ends = 0
    /\ insys' = FALSE
    /\ intr' \in Calls \cup {intr}
    /\ UNCHANGED <<attached, ends>>
    /\ Callback

\* exited(), disappeared(): once, unless the consumer has detached.
End ==
    /\ ends = 0 \/ (asked /\ ends = 1)
    /\ ends' = ends + 1
    /\ UNCHANGED <<attached, insys, intr>>
    /\ Callback

\* signaled(), stopped(), ..., a detach() from outside of a callback, or the removal
\* of the Tracee after the last one.
Other ==
    /\ UNCHANGED <<attached, insys, intr, ends>>
    /\ Callback

\* An exception leaves trace().
Abort ==
    /\ obj = "registered"
    /\ obj' = "aborted"
    /\ UNCHANGED <<attached, insys, intr, ends, asked>>

Next == AddTracee \/ Attached \/ SyscallEntry \/ SyscallExit \/ End \/ Other \/ Abort

Spec == Init /\ [][Next]_vars

=============================================================================
