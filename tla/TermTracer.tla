----------------------------- MODULE TermTracer -----------------------------
(***************************************************************************)
(* The command line tracer, src/src/termtracer/TermTracer.cxx: the         *)
(* EventConsumer that prints every system call on a line of its own.  A    *)
(* line is begun at the entry of the call and completed at its exit; when  *)
(* another event has to be printed in between, the call is noted as        *)
(* unfinished and taken up again later.                                    *)
(*                                                                         *)
(* The environment is the Engine: the callbacks for several tracees, in    *)
(* any order that TraceeContract allows, new threads and processes, and    *)
(* execve() by any thread of a process.  Of what is printed the terminal's *)
(* last line is modelled: whose system call is on it, if it is not ended.  *)
(***************************************************************************)
EXTENDS Integers, FiniteSets

CONSTANTS Pids, NoPid,
          Main,             \* m_main_tracee_pid
          Initial,          \* its other threads, attached to with it
          Created,          \* was the process created, rather than attached to?
          Calls,            \* system calls: execve and clone among others
          Filter,           \* m_syscall_filter
          FollowChildren,   \* m_follow_children
          FollowExec,       \* m_follow_exec
          Hurried,          \* ends that are not told: before the attach-stop, before execve()
          SizeRange         \* the number of values of a size_t

ASSUME PidAssumption == /\ NoPid \notin Pids /\ Main \in Pids /\ Initial \subseteq Pids \ {Main}
                        /\ Created => Initial = {}

\* What call holds besides is not the name of a system call.
ASSUME CallAssumption == "none" \notin Calls /\ "execve_done" \notin Calls

ASSUME ModeAssumption == /\ FollowChildren \in {"YES", "THREADS", "ASK"}
                         /\ FollowExec \in {"YES", "NO", "ASK", "CHECK"}

\* A size_t can count all processes of the system.
ASSUME SizeAssumption == SizeRange \in Nat /\ IsFiniteSet(Pids) /\ Cardinality(Pids) < SizeRange

\* tt: the TermTracer.  st: the tracees, "untraced" before addTracee(), "new" before attached(), "declined" if
\* detached before it, "attached", "working" after the first system call, "exiting"
\* after exited(), "left" for a child detached from later.  call: the system call a
\* tracee is in.  entered: those whose last stop was the entry of a call.
\* leader: the main thread of the tracee's process.
VARIABLES tt, st, call, entered, leader

vars == <<tt, st, call, entered, leader>>

NoCalls == [p \in {} |-> "none"]

\* Variant: m_num_tracees is not initialised.
NewTermTracerUncounted ==
    [active |-> << >>, unfinished |-> NoCalls, num |-> SizeRange, fresh |-> {}, dropped |-> FALSE,
     seen |-> ~Created, line |-> NoPid, said |-> NoPid, mixed |-> FALSE, failed |-> FALSE]

\* active: m_active_syscall; unfinished: m_unfinished_syscalls; num: m_num_tracees;
\* fresh: m_new_tracees; dropped, seen: the flags DROPPED_TO_LAST_TRACEE and
\* SEEN_INITIAL_EXEC.  line: whose call is on the unended last line; said: the
\* tracee that was called the only one remaining; mixed: something else was printed
\* on an unended line; failed: the assertion in checkResumedSyscall().
NewTermTracer ==
    [active |-> << >>, unfinished |-> NoCalls, num |-> 0, fresh |-> {}, dropped |-> FALSE,
     seen |-> ~Created, line |-> NoPid, said |-> NoPid, mixed |-> FALSE, failed |-> FALSE]

----------------------------------------------------------------------------
(* Bookkeeping *)

IsEnabled(c) == Filter = {} \/ c \in Filter

HasActive(s, p) == s.active # << >> /\ s.active[1] = p

Put(f, p, x) == [q \in DOMAIN f \cup {p} |-> IF q = p THEN x ELSE f[q]]
Drop(f, p) == [q \in DOMAIN f \ {p} |-> f[q]]

\* currentSyscall(), as a set of at most one
CurrentSyscall(s, p) ==
    IF HasActive(s, p) THEN {s.active[2]}
    ELSE IF p \in DOMAIN s.unfinished THEN {s.unfinished[p]} ELSE {}

CurrentEnabled(s, p) == \E c \in CurrentSyscall(s, p) : IsEnabled(c)

StoreUnfinishedSyscallCtx(s) ==
    IF s.active = << >> THEN s
    ELSE [s EXCEPT !.unfinished = Put(@, s.active[1], s.active[2]),
                   !.active = << >>,
                   !.line = IF IsEnabled(s.active[2]) THEN NoPid ELSE @]

\* Variant: the unended line of another tracee is not looked for.
StartNewLineAtOnce(s, p) ==
    [s EXCEPT !.mixed = @ \/ s.line # NoPid,
              !.said = IF s.num <= 1 /\ s.dropped THEN p ELSE @,
              !.dropped = @ /\ s.num > 1]

\* A whole line about p is printed, or the beginning of one.
StartNewLine(s, p) ==
    LET u == StoreUnfinishedSyscallCtx(s)
    IN  [u EXCEPT !.mixed = @ \/ u.line # NoPid,
                  !.said = IF u.num <= 1 /\ u.dropped THEN p ELSE @,
                  !.dropped = @ /\ u.num > 1]

\* The line of p is continued, and ended.
EndLine(s, p) == [s EXCEPT !.mixed = @ \/ s.line # p, !.line = NoPid]

\* Variant: the call stays in m_unfinished_syscalls.
CheckResumedSyscallKeeps(s, p) ==
    IF HasActive(s, p) THEN s
    ELSE IF p \notin DOMAIN s.unfinished THEN [s EXCEPT !.failed = TRUE]
    ELSE [StartNewLine(s, p) EXCEPT !.line = p]

CheckResumedSyscall(s, p) ==
    IF HasActive(s, p) THEN s
    ELSE IF p \notin DOMAIN s.unfinished THEN [s EXCEPT !.failed = TRUE]
    ELSE [StartNewLine([s EXCEPT !.unfinished = Drop(@, p)], p) EXCEPT !.line = p]

AbortSyscall(s, p) ==
    LET a == IF HasActive(s, p) THEN [s EXCEPT !.active = << >>]
             ELSE IF CurrentEnabled(s, p) THEN CheckResumedSyscall(s, p) ELSE s
    IN  IF CurrentEnabled(s, p) THEN EndLine(a, p) ELSE a

\* The next and the previous value of a size_t.
Increment(n) == IF n = SizeRange - 1 THEN 0 ELSE n + 1
Decrement(n) == IF n = 0 THEN SizeRange - 1 ELSE n - 1

\* Variant: the tracee is not counted down.
CleanupTraceeUncounted(s, p) ==
    [s EXCEPT !.active = IF HasActive(s, p) THEN << >> ELSE @,
              !.unfinished = Drop(@, p), !.fresh = @ \ {p}]

CleanupTracee(s, p) ==
    LET n == Decrement(s.num)
    IN  [s EXCEPT !.active = IF HasActive(s, p) THEN << >> ELSE @,
                  !.unfinished = IF HasActive(s, p) THEN @ ELSE Drop(@, p),
                  !.fresh = @ \ {p},
                  !.num = n,
                  !.dropped = @ \/ n = 1]

\* The tracee known as old now has the PID p, and the line is still its line.
UpdateTracee(s, p, old) ==
    [s EXCEPT !.active = IF HasActive(s, old) THEN <<p, s.active[2]>> ELSE @,
              !.unfinished = IF ~HasActive(s, old) /\ old \in DOMAIN @
                             THEN Drop(Put(@, p, @[old]), old) ELSE @,
              !.fresh = IF old \in @ THEN (@ \ {old}) \cup {p} ELSE @ \ {p},
              !.line = IF @ = old THEN p ELSE @]

----------------------------------------------------------------------------
(* EventConsumer.  checkABI() may print a line before the one of the call; *)
(* m_last_abi has no other use.                                            *)

SyscallEntry(s, p, c) ==
    IF ~IsEnabled(c) THEN s
    ELSE [StartNewLine(s, p) EXCEPT !.line = p, !.active = <<p, c>>]

SyscallExit(s, p, c, ok) ==
    LET r == CheckResumedSyscall(s, p)
        n == IF r.active # << >> /\ ~HasActive(r, p) THEN StartNewLine(r, p) ELSE r
    IN  IF (c = "execve" /\ ok) \/ ~IsEnabled(c) THEN s
        ELSE IF r.failed THEN r
        ELSE [EndLine(n, p) EXCEPT !.active = << >>]

Signaled(s, p) == StartNewLine(s, p)

Stopped(s, p, counter) == IF counter = 0 THEN StartNewLine(s, p) ELSE s

\* The line about a tracee that nobody announced is not ended.
Attached(s, p) ==
    LET a == [s EXCEPT !.num = Increment(@)]
    IN  IF s.num = 0 THEN a
        ELSE [StartNewLine(a, p) EXCEPT
                !.line = IF p \in Initial \cup s.fresh THEN NoPid ELSE p,
                !.fresh = IF p \in Initial THEN @ ELSE @ \ {p}]

\* Variant: the tracee is forgotten before the last line about its end is printed.
ExitedCleanedFirst(s, p, inEntry) ==
    LET a == IF inEntry THEN AbortSyscall(s, p) ELSE s
    IN  IF a.failed THEN a ELSE StartNewLine(CleanupTracee(StartNewLine(a, p), p), p)

\* One or more lines about the end.
Exited(s, p, inEntry) ==
    LET a == IF inEntry THEN AbortSyscall(s, p) ELSE s
    IN  IF a.failed THEN a ELSE CleanupTracee(StartNewLine(a, p), p)

Disappeared(s, p) == Exited(s, p, TRUE)

\* old is p unless the PID has changed.
NewExecutionContext(s, p, old) ==
    LET u == IF old # p THEN UpdateTracee(s, p, old) ELSE s
        r == IF CurrentEnabled(u, p) THEN EndLine(CheckResumedSyscall(u, p), p) ELSE u
    IN  [StartNewLine([r EXCEPT !.active = << >>], p) EXCEPT !.seen = TRUE]

FollowExecutionContext ==
    CASE FollowExec = "YES" -> {TRUE} [] FollowExec = "NO" -> {FALSE} [] OTHER -> BOOLEAN

\* Whether the answer is to follow
FollowNewChild(thread) ==
    CASE FollowChildren = "YES" -> {TRUE} [] FollowChildren = "THREADS" -> {thread} [] OTHER -> BOOLEAN

NewChildProcess(s, p, c, follow) ==
    LET a == IF FollowChildren = "ASK" THEN StartNewLine(s, p) ELSE s
    IN  IF follow THEN [a EXCEPT !.fresh = @ \cup {c}] ELSE a

----------------------------------------------------------------------------
(* The callbacks that the Engine makes.                                    *)

Traced(p) == st[p] \in {"attached", "working"}

Group(p) == {q \in Pids : st[q] # "none" /\ leader[q] = leader[p]}

\* One callback for p; said is about this one.
Callback(p, s, state, c, enter) ==
    /\ tt' = s
    /\ st' = [st EXCEPT ![p] = state]
    /\ call' = [call EXCEPT ![p] = c]
    /\ entered' = IF enter THEN entered \cup {p} ELSE entered \ {p}

Now == [tt EXCEPT !.said = NoPid]

\* The other threads of a process are attached to when its main thread is.
TraceeAttached(p) ==
    /\ st[p] = "new"
    /\ tt' = Attached(Now, p)
    /\ st' = [q \in Pids |-> IF q = p THEN "attached" ELSE IF st[q] = "untraced" THEN "new" ELSE st[q]]
    /\ UNCHANGED <<call, entered, leader>>

TraceeEntry(p) ==
    /\ Traced(p) /\ call[p] = "none"
    /\ \E c \in Calls : Callback(p, SyscallEntry(Now, p, c), "working", c, TRUE)
    /\ UNCHANGED leader

\* After the EXEC event the call is execve_done: it can only succeed.
TraceeExit(p) ==
    /\ Traced(p) /\ call[p] # "none"
    /\ LET s == IF call[p] = "execve_done" THEN SyscallExit(Now, p, "execve", TRUE)
                ELSE SyscallExit(Now, p, call[p], FALSE)
       IN  Callback(p, s, "working", "none", FALSE)
    /\ UNCHANGED leader

TraceeSignaled(p) ==
    /\ Traced(p)
    /\ Callback(p, Signaled(Now, p), st[p], call[p], FALSE)
    /\ UNCHANGED leader

TraceeStopped(p) ==
    /\ Traced(p)
    /\ Callback(p, Stopped(Now, p, IF st[p] = "attached" THEN 0 ELSE 1), st[p], call[p], FALSE)
    /\ UNCHANGED leader

TraceeExited(p) ==
    /\ Traced(p)
    /\ Callback(p, Exited(Now, p, p \in entered), "exiting", "none", FALSE)
    /\ UNCHANGED leader

\* The end of a tracee after exited(), or that of one that is not told any more.
TraceeCollected(p) ==
    /\ st[p] \in {"exiting", "declined"}
    /\ Callback(p, Now, "none", "none", FALSE)
    /\ UNCHANGED leader

TraceeDisappeared(p) ==
    /\ Traced(p) \/ st[p] = "left" \/ (st[p] \in {"new", "declined"} /\ "attach" \in Hurried)
    /\ Callback(p, Disappeared(Now, p), "none", "none", FALSE)
    /\ UNCHANGED leader

\* newChildProcess(); the child may be detached from at once.  The PID of a main
\* thread is not free while its process lives.
NewTracee(p, c) ==
    /\ Traced(p) /\ call[p] = "clone"
    /\ st[c] = "none" /\ \A q \in Pids : st[q] # "none" => leader[q] # c
    /\ \E thread \in BOOLEAN : \E follow \in FollowNewChild(thread) :
          /\ tt' = NewChildProcess(Now, p, c, follow)
          /\ st' = [st EXCEPT ![c] = IF follow THEN "new" ELSE "declined"]
          /\ leader' = [leader EXCEPT ![c] = IF thread THEN leader[p] ELSE c]
    /\ entered' = entered \ {p}
    /\ UNCHANGED call

\* execve() by p, which continues under the PID of the main thread.
TraceeExec(p) ==
    LET m == leader[p]
        told == {"none", "exiting"} \cup (IF "exec" \in Hurried THEN {"attached", "working"} ELSE {})
    IN  /\ Traced(p) /\ call[p] = "execve"
        /\ \A q \in Group(p) \ {p} : q = m /\ st[q] \in told
        /\ \E follow \in IF tt.seen THEN FollowExecutionContext ELSE {TRUE} :
              LET left == IF Created /\ m = Main THEN "left" ELSE "none"
              IN  st' = [[st EXCEPT ![p] = "none"] EXCEPT ![m] = IF follow THEN "working" ELSE left]
        /\ tt' = NewExecutionContext(Now, m, p)
        /\ call' = [[call EXCEPT ![p] = "none"] EXCEPT ![m] = IF st'[m] = "working" THEN "execve_done" ELSE "none"]
        /\ entered' = entered \ {p, m}
        /\ UNCHANGED leader

Init ==
    /\ tt = NewTermTracer
    /\ st = [p \in Pids |-> IF p = Main THEN "new" ELSE IF p \in Initial THEN "untraced" ELSE "none"]
    /\ call = [p \in Pids |-> "none"]
    /\ entered = {}
    /\ leader = [p \in Pids |-> Main]

Next ==
    /\ ~tt.failed
    /\ \E p \in Pids :
          \/ TraceeAttached(p) \/ TraceeEntry(p) \/ TraceeExit(p) \/ TraceeSignaled(p)
          \/ TraceeStopped(p) \/ TraceeExited(p) \/ TraceeCollected(p) \/ TraceeDisappeared(p)
          \/ TraceeExec(p) \/ \E c \in Pids : NewTracee(p, c)

Spec == Init /\ [][Next]_vars

----------------------------------------------------------------------------
\* Types of the TermTracer and of the tracees it hears of; m_num_tracees is a size_t.
TypeOK ==
    /\ st \in [Pids -> {"none", "untraced", "new", "declined", "attached", "working", "exiting", "left"}]
    /\ call \in [Pids -> Calls \cup {"none", "execve_done"}]
    /\ entered \subseteq Pids /\ leader \in [Pids -> Pids]
    /\ tt.active = << >> \/ tt.active \in Pids \X Calls
    /\ DOMAIN tt.unfinished \subseteq Pids /\ \A p \in DOMAIN tt.unfinished : tt.unfinished[p] \in Calls
    /\ tt.num \in 0 .. SizeRange - 1 /\ tt.fresh \subseteq Pids
    /\ {tt.line, tt.said} \subseteq Pids \cup {NoPid}
    /\ {tt.dropped, tt.seen, tt.mixed, tt.failed} \subseteq BOOLEAN

Pending(p) == HasActive(tt, p) \/ p \in DOMAIN tt.unfinished

\* m_active_syscall and m_unfinished_syscalls together hold exactly the calls that
\* the tracees are in and that are to be printed, whatever events of other tracees
\* came in between: raw pointers to SystemCall objects are neither lost nor kept too
\* long.
PendingInStep ==
    \A p \in Pids :
        /\ ~(HasActive(tt, p) /\ p \in DOMAIN tt.unfinished)
        /\ CurrentSyscall(tt, p) = (IF Traced(p) THEN {call[p]} \cap {c \in Calls : IsEnabled(c)} ELSE {})

\* What is printed about a tracee never ends up on the line that was begun for a
\* system call of another one, and a line that is continued is that of the call.
LinesIntact == ~tt.mixed /\ (tt.line # NoPid => HasActive(tt, tt.line))

\* checkResumedSyscall(): "when there's no active system call then we expect one to
\* be stored as unfinished, otherwise something is off".
AssertionHolds == ~tt.failed

\* TermTracer.hxx says of m_num_tracees: "The number of tracees we're currently
\* dealing with."
CountInStep == tt.num = Cardinality({p \in Pids : Traced(p)})

\* "only PID ... is remaining" names the one tracee that is left.
RemainingTrue == tt.said # NoPid => {p \in Pids : Traced(p)} \subseteq {tt.said}
=============================================================================
