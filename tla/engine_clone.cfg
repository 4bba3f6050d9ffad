SPECIFICATION FairSpec
CONSTANTS
    Pids = {1, 2, 3}
    NoPid = 0
    Main = 1
    Others = {}
    TracedSets = {{1}}
    KilledSets = {}
    ThreadCalls = {"clone", "read"}
    KillPoints = {"no"}
    Killable = {}
    MayDetach = FALSE
INVARIANTS
    TypeOK
    AnnouncedFirst
PROPERTIES
    StoredIsHandled
\* trace() ends.
CHECK_DEADLOCK FALSE
