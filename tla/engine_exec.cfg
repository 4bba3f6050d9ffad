SPECIFICATION FairSpec
CONSTANTS
    Pids = {1, 2}
    NoPid = 0
    Main = 1
    Others = {2}
    TracedSets = {{1}, {2}, {1, 2}}
    KilledSets = {{1}, {1, 2}}
    ThreadCalls = {"read", "execve", "exit"}
    KillPoints = {"no", "request", "decode", "late"}
    Killable = {1}
    MayDetach = FALSE
INVARIANTS
    NoForgottenStop
    OneTraceeAfterExec
PROPERTIES
    TraceEnds
\* trace() ends.
CHECK_DEADLOCK FALSE
