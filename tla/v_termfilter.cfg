SPECIFICATION Spec
CONSTANTS
    Pids = {1, 2}
    NoPid = 0
    Main = 1
    Initial = {}
    Created = TRUE
    Calls = {"execve", "clone", "read"}
    Filter = {"read"}
    FollowChildren = "YES"
    FollowExec = "YES"
    Hurried = {}
    SizeRange = 8
CHECK_DEADLOCK FALSE
INVARIANTS
    AssertionHolds
