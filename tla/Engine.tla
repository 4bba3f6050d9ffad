------------------------------- MODULE Engine -------------------------------
(***************************************************************************)
(* class Engine of src/src/Engine.cxx with several tracees: wait() reports *)
(* the threads in any order, new threads and processes are auto-attached   *)
(* (their first stop may come before the event that announces them), a     *)
(* thread that calls execve() takes over the PID of the main thread while  *)
(* all other threads vanish, and whole processes are killed at any moment. *)
(* The tracees are those of TraceeObject, the threads of PtraceKernel.     *)
(***************************************************************************)
EXTENDS TraceeObject, Functions

CONSTANTS Pids,         \* all thread ids
          NoPid,        \* none of them
          Main,         \* the main thread of the process that exists initially
          Others,       \* its other threads
          TracedSets,   \* which of its threads may be traced initially
          KilledSets,   \* for which of these sets SIGKILL is sent at all
          ThreadCalls,  \* the system calls the threads make
          KillPoints,   \* when, inside of an event handler, SIGKILL may strike
          Killable,     \* the main threads whose process is sent SIGKILL at any other time
          MayDetach     \* whether the consumer calls detach() in callbacks

ASSUME PidsAssumption == /\ NoPid \notin Pids /\ Main \in Pids /\ Others \subseteq Pids \ {Main}
                         /\ TracedSets \subseteq SUBSET ({Main} \cup Others) /\ KilledSets \subseteq TracedSets
ASSUME InputAssumption == /\ ThreadCalls \subseteq Calls /\ MayDetach \in BOOLEAN /\ Killable \subseteq Pids
                          /\ KillPoints \subseteq {"no", "request", "decode", "late"}

\* th: the threads; leader: the main thread of their process, NoPid if there is
\* no such thread; msg: the message of a thread's latest event (PTRACE_GETEVENTMSG);
\* execing: the threads that wait in execve() for all others to end; killing:
\* whether SIGKILL may be sent, chosen in the beginning.
\* tracees: m_tracees, and unknown: m_unknown_events, as functions on the PIDs
\* they hold.  own: the PID that the Tracee itself makes its requests for.
\* view: what the consumer knows of the tracee of each PID.  announced: the PIDs
\* newChildProcess() was called for.  over: "no" while in trace(), "returned",
\* "exception" if one left trace(), "iterator" if an invalid iterator crashed it.
VARIABLES th, leader, msg, execing, killing, tracees, own, unknown, view, announced, over

threadVars == <<leader, msg, execing, killing>>
engineVars == <<tracees, own, unknown, view, announced, over>>
vars == <<th, threadVars, engineVars>>

(* Threads *)

NewThread == [run |-> "gone", at |-> "none", status |-> FALSE, traced |-> FALSE,
              sysgood |-> FALSE, trap |-> FALSE, notify |-> FALSE, gstop |-> FALSE,
              insys |-> FALSE, nr |-> "read", pend |-> {}, fatal |-> FALSE]

Group(p) == {q \in Pids : leader[q] = leader[p] /\ leader[p] # NoPid}
Ended(q) == th[q].run \in {"zombie", "gone"}

\* The end of a main thread is reported when no other thread is left.
Reportable(p) == /\ th[p].status
                 /\ th[p].run = "zombie" /\ leader[p] = p
                        => \A q \in Group(p) \ {p} : th[q].run = "gone"

\* All threads but p itself are ended, by a signal or (zap) by exit or execve().
KillGroup(threads, p) == [q \in Pids |-> IF q \in Group(p) THEN Kill(threads[q]) ELSE threads[q]]
Zap(threads, p) == [q \in Pids |-> IF q \in Group(p) \ {p}
                                   THEN [Kill(threads[q]) EXCEPT !.fatal = threads[q].fatal]
                                   ELSE threads[q]]

ThreadStep(p, k2) == th' = [th EXCEPT ![p] = k2] /\ UNCHANGED <<threadVars, engineVars>>

EnterSyscall(p) == CanEnterCall(th[p]) /\ \E c \in ThreadCalls : ThreadStep(p, EnterCall(th[p], c))
LeaveSyscall(p) == CanLeaveCall(th[p]) /\ p \notin execing /\ ThreadStep(p, LeaveCall(th[p]))
InterruptStop(p) == CanTrap(th[p]) /\ ThreadStep(p, TakeTrap(th[p]))
ReportExit(p) == th[p].run = "dying" /\ th[p].traced /\ ThreadStep(p, ExitStop(th[p]))

\* An untraced thread is of no further interest.
ThreadDies(p) == th[p].run = "dying"
                 /\ ThreadStep(p, IF th[p].traced THEN Die(th[p], FALSE) ELSE [th[p] EXCEPT !.run = "gone"])

\* exit_group(): all threads of the process end.
CallExit(p) ==
    /\ CanExit(th[p])
    /\ th' = [Zap(th, p) EXCEPT ![p] = Exit(@)]
    /\ UNCHANGED <<threadVars, engineVars>>

\* clone() creates a thread (or fork() a process), which the kernel seizes and
\* puts into its first stop, and the parent stops to tell of it.
Clone(p, c) ==
    /\ CanReport(th[p], "EV_CHILD") /\ leader[c] = NoPid
    /\ \E g \in {leader[p], c} : leader' = [leader EXCEPT ![c] = g]
    /\ th' = [th EXCEPT ![p] = [StopAt(@, "EV_CHILD") EXCEPT !.nr = "read"],
                        ![c] = TakeTrap([NewThread EXCEPT !.traced = TRUE])]
    /\ msg' = [msg EXCEPT ![p] = c]
    /\ UNCHANGED <<execing, killing, engineVars>>

\* execve() ends all other threads of the process first.
ExecBegins(p) ==
    /\ th[p].run = "run" /\ th[p].insys /\ th[p].nr = "execve"
    /\ Group(p) \cap execing = {}
    /\ execing' = execing \cup {p}
    /\ th' = Zap(th, p)
    /\ UNCHANGED <<leader, msg, killing, engineVars>>

\* Then the thread continues under the PID of the main thread, whose end is not
\* reported; its own PID is gone without a notice.
ExecDone(p) ==
    LET m == leader[p]
        new == [IF th[p].traced THEN StopAt(th[p], "EV_EXEC") ELSE th[p] EXCEPT !.nr = "read"]
    IN  /\ p \in execing /\ th[p].run = "run"
        /\ \A q \in Group(p) \ {p} : IF q = m THEN Ended(q) ELSE th[q].run = "gone"
        /\ execing' = execing \ {p}
        /\ th' = [[th EXCEPT ![p] = NewThread] EXCEPT ![m] = new]
        /\ leader' = [q \in Pids |-> IF leader[q] = m /\ q # m THEN NoPid ELSE leader[q]]
        /\ msg' = [msg EXCEPT ![m] = p]
        /\ UNCHANGED <<killing, engineVars>>

\* SIGKILL for a whole process.
KillProcess(p) ==
    /\ killing /\ p \in Killable /\ leader[p] = p
    /\ \E q \in Group(p) : th[q].run \in {"run", "stop", "listen"}
    /\ th' = KillGroup(th, p)
    /\ UNCHANGED <<threadVars, engineVars>>

(* Engine *)

\* What the Engine works on while it handles an event; born: m_newly_attached_pid.
Context == [th |-> th, tracees |-> tracees, own |-> own, unknown |-> unknown,
            view |-> view, announced |-> announced, born |-> NoPid, ex |-> "none"]

Inputs(e) == [ev : {e}, kill : IF killing THEN KillPoints ELSE {"no"}, detach : IF MayDetach THEN BOOLEAN ELSE {FALSE},
              res : {"ok"}, recovered : {"none"}, deadly : {FALSE}]

Without(map, p) == Restrict(map, DOMAIN map \ {p})
With(map, p, x) == [q \in DOMAIN map \cup {p} |-> IF q = p THEN x ELSE map[q]]

\* checkCleanupTracee()
Removed(t) == t.state \in {"DEAD", "DETACHED"}

\* syncState(): what the Tracee of the main thread takes over from that of the
\* thread which called execve().
SyncState(t, other) == [t EXCEPT !.cur = other.cur, !.intr = other.intr, !.fresh = other.fresh]

\* The Tracee is told to detach at this stop, or the request that comes first in
\* the handler fails because the thread has been killed.
HandlerCutShort(t, in) == in.kill = "request" \/ "DETACH_AT_NEXT_STOP" \in t.flags

\* Variant: the Tracee of the thread that called execve() is not looked up.
SubstitutesNever(w, p, in) == FALSE

\* handleSubstitution() finds the Tracee of the thread that called execve() and now
\* continues under the PID of the main thread.
Substitutes(w, p, in) ==
    /\ in.ev = "EV_EXEC" /\ ~HandlerCutShort(w.tracees[p], in)
    /\ msg[p] # p /\ msg[p] \in DOMAIN w.tracees

\* The PID that the requests of this event are made for: handleExecEvent() uses the
\* one that the event came under.
RequestPid(w, p, in) ==
    IF in.ev = "EV_EXEC" /\ ~HandlerCutShort(w.tracees[p], in) THEN p ELSE w.own[p]

\* The Tracee as it processes the event, after handleSubstitution() and syncState().
FrameOf(w, p, in) ==
    LET subst == Substitutes(w, p, in)
    IN  [t |-> IF subst THEN SyncState(w.tracees[p], w.tracees[msg[p]]) ELSE w.tracees[p],
         k |-> w.th[RequestPid(w, p, in)],
         v |-> IF subst THEN w.view[msg[p]] ELSE w.view[p],
         ex |-> "none"]

\* f is what comes of it: checkCleanupTracee() takes the Tracee from m_tracees if it
\* is done, handleSubstitution() that of the thread which called execve().
Concluded(w, p, in, f) ==
    LET pid == RequestPid(w, p, in)
        dropped == IF Substitutes(w, p, in) THEN {msg[p]} ELSE {}
        rest == DOMAIN w.tracees \ (dropped \cup (IF Removed(f.t) THEN {p} ELSE {}))
        threads == [w.th EXCEPT ![pid] = f.k]
    IN  [w EXCEPT !.th = IF in.kill = "no" THEN threads ELSE KillGroup(threads, p),
                  !.tracees = [q \in rest |-> IF q = p THEN f.t ELSE w.tracees[q]],
                  !.own = [q \in rest |-> IF q = p THEN pid ELSE w.own[q]],
                  !.view = [q \in Pids |-> IF q = p THEN f.v
                                           ELSE IF q \in dropped THEN NewView ELSE w.view[q]],
                  !.ex = IF f.ex \in {"none", "ESRCH", "EIO"} THEN "none" ELSE f.ex]

\* The Tracee found for p processes the event.  The result, a single context, is
\* given as a set, as those of all operators below.
TraceeProcessEvent(w, p, in) ==
    {Concluded(w, p, in, IF f.t.state = "DEAD" THEN DoDetach(f) ELSE f) :
        f \in {ProcessEvent(FrameOf(w, p, in), in)}}

\* Variant: the new Tracee is not given its PID.
AutoAttachNoPid(w, c) ==
    [w EXCEPT !.tracees = With(@, c, [NewTracee(FALSE) EXCEPT !.flags = {"WAIT_FOR_ATTACH_STOP"}]),
              !.own = With(@, c, NoPid),
              !.announced = @ \cup {c},
              !.born = c]

\* handleAutoAttach(): the new Tracee is registered before the consumer is told.
AutoAttach(w, c) ==
    [w EXCEPT !.tracees = IF c \in DOMAIN @ THEN @
                          ELSE With(@, c, [NewTracee(FALSE) EXCEPT !.flags = {"WAIT_FOR_ATTACH_STOP"}]),
              !.own = With(@, c, c),
              !.announced = @ \cup {c},
              !.born = c]

\* newChildProcess(): the consumer may call detach() for the child right away, which
\* its first stop, even one that has come already, will then find out; the new
\* Tracee stays in m_tracees until then.
ChildDetached(w, c) ==
    LET d == DetachTracee([t |-> w.tracees[c], k |-> w.th[c], v |-> w.view[c], ex |-> "none"])
    IN  [w EXCEPT !.tracees = With(@, c, d.t), !.th[c] = d.k, !.view[c] = d.v]

NewChildProcess(w, c) == {w} \cup (IF MayDetach THEN {ChildDetached(w, c)} ELSE {})

\* Variant: the event stays in the map.
CheckUnknownEventsKeeps(w) ==
    IF w.ex # "none" \/ w.born \notin DOMAIN w.unknown THEN {w}
    ELSE UNION {TraceeProcessEvent(w, w.born, in) : in \in Inputs(w.unknown[w.born])}

\* Variant: the event is dropped.
CheckUnknownEventsDrops(w) == {[w EXCEPT !.unknown = Without(@, w.born)]}

\* checkUnknownEvents(): the event that came before the Tracee was there.
CheckUnknownEvents(w) ==
    IF w.ex # "none" \/ w.born \notin DOMAIN w.unknown THEN {w}
    ELSE {[x EXCEPT !.unknown = Without(@, w.born)] :
            x \in UNION {TraceeProcessEvent(w, w.born, in) : in \in Inputs(w.unknown[w.born])}}

\* handleEvent() for a PID in m_tracees.
HandleKnown(w, p) ==
    LET born(in) == /\ in.ev = "EV_CHILD" /\ ~HandlerCutShort(w.tracees[p], in)
                    /\ w.tracees[p].cur # "none"
        before(in) == IF born(in) THEN NewChildProcess(AutoAttach(w, msg[p]), msg[p]) ELSE {w}
    IN  UNION {UNION {UNION {CheckUnknownEvents(x) : x \in TraceeProcessEvent(b, p, in)} :
                      b \in before(in)} :
               in \in Inputs(th[p].at)}

\* tryUpdateTraceePID()
TryUpdateTraceePID(w, old, new) ==
    [w EXCEPT !.tracees = With(Without(@, old), new, w.tracees[old]),
              !.own = With(Without(@, old), new, w.own[old]),
              !.view = [[@ EXCEPT ![new] = w.view[old]] EXCEPT ![old] = NewView]]

\* Variant: such an event is dropped.
HandleUnknownExecDrops(w, p) == {w}

\* An execve() reported for a PID that is not in m_tracees: the request for its
\* former PID is outside of the try block of handleEvent().
HandleUnknownExec(w, p) ==
    (IF killing /\ "request" \in KillPoints THEN {[w EXCEPT !.th = KillGroup(@, p), !.ex = "ESRCH"]} ELSE {})
        \cup (IF msg[p] \in DOMAIN w.tracees THEN HandleKnown(TryUpdateTraceePID(w, msg[p], p), p) ELSE {w})

\* Variant: the first stop of an unknown thread is handled at once.
CheckUnknownTraceeEventAttaches(w, p) ==
    IF th[p].at = "EV_STOP_TRAP" THEN HandleKnown([AutoAttach(w, p) EXCEPT !.announced = w.announced], p)
    ELSE IF th[p].at = "EV_EXEC" THEN HandleUnknownExec(w, p) ELSE {w}

\* checkUnknownTraceeEvent() and what trace() makes of its decision.
CheckUnknownTraceeEvent(w, p) ==
    CASE th[p].at = "EV_EXEC" -> HandleUnknownExec(w, p)
      [] th[p].at \in {"EV_STOP_SIG", "EV_STOP_TRAP"} ->
            {[w EXCEPT !.unknown = IF p \in DOMAIN @ THEN @ ELSE With(@, p, th[p].at)]}
      [] OTHER -> {w}

Handled(w, p) == IF p \in DOMAIN tracees THEN HandleKnown(w, p) ELSE CheckUnknownTraceeEvent(w, p)

EventPending(p) == over = "no" /\ DOMAIN tracees # {} /\ Reportable(p)

EngineHandleEvent(p) ==
    /\ EventPending(p)
    /\ \E w \in Handled([Context EXCEPT !.th[p] = Collect(@)], p) :
        /\ th' = w.th /\ tracees' = w.tracees /\ own' = w.own
        /\ unknown' = w.unknown /\ view' = w.view /\ announced' = w.announced
        /\ over' = IF w.ex = "none" THEN "no" ELSE "exception"
        /\ UNCHANGED threadVars

\* wait() fails with ECHILD.  The loop advances an iterator that has been erased:
\* it may go on as intended, or crash.
HandleNoChildren ==
    LET done(p) == DetachTracee([t |-> tracees[p], k |-> th[own[p]], v |-> view[p], ex |-> "none"])
        left == {p \in DOMAIN tracees : ~Removed(done(p).t)}
    IN  /\ over = "no" /\ DOMAIN tracees # {}
        /\ \A p \in Pids : th[p].traced => th[p].run = "gone"
        /\ \/ /\ tracees' = [p \in left |-> done(p).t]
              /\ own' = Restrict(own, left)
              /\ over' = "returned"
           \/ /\ left # DOMAIN tracees
              /\ over' = "iterator"
              /\ UNCHANGED <<tracees, own>>
        /\ UNCHANGED <<th, threadVars, unknown, view, announced>>

\* Variant: the loop looks at m_tracees only when wait() has returned once more.
TraceReturnsAfterEvent ==
    /\ over = "no" /\ DOMAIN tracees = {} /\ \E p \in Pids : th[p].status
    /\ over' = "returned"
    /\ UNCHANGED <<th, threadVars, tracees, own, unknown, view, announced>>

TraceReturns ==
    /\ over = "no" /\ DOMAIN tracees = {}
    /\ over' = "returned"
    /\ UNCHANGED <<th, threadVars, tracees, own, unknown, view, announced>>

\* detach() from outside of the tracee's callbacks.
ConsumerDetach(p) ==
    LET d == DetachTracee([t |-> tracees[p], k |-> th[own[p]], v |-> view[p], ex |-> "none"])
    IN  /\ over = "no" /\ MayDetach /\ p \in DOMAIN tracees /\ ~view[p].asked
        /\ tracees' = [tracees EXCEPT ![p] = d.t]
        /\ th' = [th EXCEPT ![own[p]] = d.k]
        /\ view' = [view EXCEPT ![p] = d.v]
        /\ UNCHANGED <<threadVars, own, unknown, announced, over>>

\* stop() between two events: no tracee here is a direct child that would be sent
\* the signal.
Stop ==
    LET d == [p \in DOMAIN tracees |->
                DetachTracee([t |-> tracees[p], k |-> th[own[p]], v |-> view[p], ex |-> "none"])]
        left == {p \in DOMAIN tracees : d[p].t.valid}
    IN  /\ over = "no" /\ MayDetach /\ \E p \in DOMAIN tracees : ~view[p].asked
        /\ tracees' = [p \in left |-> d[p].t]
        /\ own' = Restrict(own, left)
        /\ th' = [q \in Pids |-> IF \E p \in DOMAIN tracees : own[p] = q
                                 THEN d[CHOOSE p \in DOMAIN tracees : own[p] = q].k ELSE th[q]]
        /\ view' = [q \in Pids |-> IF q \in DOMAIN tracees THEN d[q].v ELSE view[q]]
        /\ UNCHANGED <<threadVars, unknown, announced, over>>

(* Specification *)

ThreadEnds(p) == ReportExit(p) \/ ThreadDies(p)

ThreadNext(p) == \/ EnterSyscall(p) \/ LeaveSyscall(p) \/ InterruptStop(p) \/ ThreadEnds(p)
                 \/ CallExit(p) \/ ExecBegins(p) \/ ExecDone(p) \/ \E c \in Pids : Clone(p, c)

Next == \/ \E p \in Pids : ThreadNext(p) \/ KillProcess(p) \/ EngineHandleEvent(p) \/ ConsumerDetach(p)
        \/ HandleNoChildren \/ Stop \/ TraceReturns

\* The first tracees, those of the set traced, have been attached to, and run.
InitTracing(traced) ==
    /\ th = [p \in Pids |-> IF p \in {Main} \cup Others
                            THEN [NewThread EXCEPT !.run = "run", !.traced = p \in traced,
                                                   !.sysgood = p \in traced]
                            ELSE NewThread]
    /\ tracees = [p \in traced |-> [NewTracee(FALSE) EXCEPT !.state = "RUNNING", !.prev = "EVENT_STOP",
                                                            !.mode = "SYSCALL"]]
    /\ own = [p \in traced |-> p]
    /\ view = [p \in Pids |-> [NewView EXCEPT !.attached = p \in traced]]

Init == /\ \E traced \in TracedSets : InitTracing(traced) /\ killing = (traced \in KilledSets)
        /\ leader = [p \in Pids |-> IF p \in {Main} \cup Others THEN Main ELSE NoPid]
        /\ msg = [p \in Pids |-> p]
        /\ execing = {}
        /\ unknown = [p \in {} |-> "none"]
        /\ announced = {}
        /\ over = "no"

\* trace() runs and wait() reports every thread in the end; a thread takes the
\* stops that are due and ends when it has to.
ThreadMust(p) == InterruptStop(p) \/ ThreadEnds(p) \/ CallExit(p) \/ ExecDone(p)

\* The first conjunct is the weak fairness of EngineHandleEvent(p), which is enabled
\* whenever EventPending(p) holds.
Fairness == /\ \A p \in Pids : []<>~EventPending(p) \/ []<><<EngineHandleEvent(p)>>_vars
            /\ \A p \in Pids : WF_vars(ThreadMust(p))
            /\ WF_vars(HandleNoChildren \/ TraceReturns)

Spec == Init /\ [][Next]_vars
FairSpec == Spec /\ Fairness

-----------------------------------------------------------------------------
\* Type correctness of the threads and of the Engine's maps.
TypeOK == /\ th \in [Pids -> Thread] /\ leader \in [Pids -> Pids \cup {NoPid}]
          /\ msg \in [Pids -> Pids] /\ execing \subseteq Pids /\ killing \in BOOLEAN
          /\ DOMAIN tracees \subseteq Pids /\ \A p \in DOMAIN tracees : tracees[p] \in Tracees
          /\ DOMAIN own = DOMAIN tracees /\ \A p \in DOMAIN own : own[p] \in Pids
          /\ DOMAIN unknown \subseteq Pids /\ \A p \in DOMAIN unknown : unknown[p] \in EventStops
          /\ view \in [Pids -> Views] /\ announced \subseteq Pids
          /\ over \in {"no", "returned", "exception", "iterator"}

\* The consumer hears of a new thread or process by newChildProcess() before
\* anything else of it, although its first stop may come before the CLONE event
\* of its parent.
AnnouncedFirst == \A p \in Pids \ ({Main} \cup Others) : view[p].attached \/ view[p].early => p \in announced

\* What is stored for later is the first stop of a thread the Engine does not
\* know yet and which still waits there, unless its process ends.
StoredIsPending ==
    \A p \in DOMAIN unknown : /\ p \notin DOMAIN tracees
                              /\ \/ th[p].run = "stop" /\ th[p].at \in {unknown[p], "EV_EXIT"}
                                 \/ th[p].run \in {"dying", "zombie", "gone"}

\* No thread is left in a ptrace-stop that wait() has returned, be its Tracee known
\* or not, but for those whose event is stored, and for the exit-stop of a thread
\* that has never been attached to (see TraceEnds) or that detach() gave up
\* because it had been killed.
NoForgottenStop ==
    over = "no" => \A p \in Pids : InStop(th[p]) /\ ~th[p].status
        => p \in DOMAIN unknown \/ (th[p].at = "EV_EXIT" /\ (view[p].attached => view[p].asked))

\* After execve() in a process with several threads a single Tracee is left, under
\* the PID of the main thread: there is none for a PID that no longer exists,
\* unless the event that tells so is still to come or the process was killed.
OneTraceeAfterExec ==
    \A p \in DOMAIN tracees :
        leader[p] = NoPid => \E m \in Pids \ {p} : msg[m] = p /\ ((th[m].status /\ th[m].at = "EV_EXEC") \/ th[m].fatal)

\* What a Tracee believes about its thread being in a system call agrees with the
\* stop that is reported next, also for new threads and processes, and wherever
\* detach(), stop() and SIGKILL cut a handler short. Across execve() of a process with
\* several threads it does not hold (see NoException).
SyscallInStep ==
    \A p \in DOMAIN tracees : th[p].traced /\ th[p].status /\ th[p].at \in SyscallStops
        => /\ ("SYSCALL_ENTERED" \in tracees[p].flags) <=> (th[p].at = "SYS_EXIT")
           /\ th[p].at = "SYS_EXIT" => tracees[p].cur # "none"

\* A stop that was stored is handled once the parent has reported its child, and
\* then the new tracee runs.
StoredIsHandled == \A p \in Pids : p \in DOMAIN unknown ~> p \notin DOMAIN unknown /\ th[p].run # "stop"

\* When all traced threads have come to their end, trace() does not wait for ever: it
\* ends in some way, be it that it returns, that an exception leaves it (see
\* NoException) or that handleNoChildren() crashes.
TraceEnds ==
    (\A p \in Pids : th[p].traced => th[p].run \in {"dying", "zombie", "gone"}) ~> over # "no"

\* A PID that newChildProcess() has not been called for is not an issue yet.
ObjectOf(p) == IF over = "exception" THEN "aborted"
               ELSE IF p \in DOMAIN tracees \/ p \notin announced \cup {Main} \cup Others
               THEN "registered" ELSE "erased"

Contract(p) == INSTANCE TraceeContract
                   WITH obj <- ObjectOf(p), attached <- view[p].attached, insys <- view[p].insys,
                        intr <- view[p].intr, ends <- view[p].ends, asked <- view[p].asked

\* With several tracees whose events interleave, the Engine keeps the contract of
\* the EventConsumer for each of them, also for one that is auto-attached and whose
\* first stop is handled late.
EachKeepsContract ==
    [][\A p \in Pids : Contract(p)!Next \/ UNCHANGED Contract(p)!vars]_vars

\* handleSubstitution() says "We already deal successfully with all the
\* constellations that can occur": no exception ends trace().
NoException == over # "exception"
=============================================================================
