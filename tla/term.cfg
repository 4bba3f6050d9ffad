SPECIFICATION Spec
CONSTANTS
    Pids = {1, 2, 3}
    NoPid = 0
    Main = 1
    Initial = {2}
    Created = FALSE
    Calls = {"execve", "clone", "read"}
    Filter = {"execve", "read"}
    FollowChildren = "ASK"
    FollowExec = "YES"
    Hurried = {}
    SizeRange = 8
CHECK_DEADLOCK FALSE
INVARIANTS
    TypeOK
    LinesIntact
    PendingInStep
    CountInStep
    RemainingTrue
