SPECIFICATION Spec
CONSTANTS
    Pids = {1, 2}
    NoPid = 0
    Main = 1
    Others = {2}
    TracedSets = {{1, 2}}
    KilledSets = {}
    ThreadCalls = {"read", "execve", "exit"}
    KillPoints = {"no"}
    Killable = {}
    MayDetach = FALSE
INVARIANTS
    NoException
\* trace() ends.
CHECK_DEADLOCK FALSE
