SPECIFICATION Spec
CONSTANTS
    Pids = {1, 2}
    NoPid = 0
    Main = 1
    Others = {}
    TracedSets = {{1}}
    KilledSets = {{1}}
    ThreadCalls = {"clone", "exit", "read"}
    KillPoints = {"no", "request", "decode", "late"}
    Killable = {1}
    MayDetach = TRUE
INVARIANTS
    StoredIsPending
    NoForgottenStop
    SyscallInStep
PROPERTIES
    EachKeepsContract
\* trace() ends.
CHECK_DEADLOCK FALSE
