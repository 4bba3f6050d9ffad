SPECIFICATION Spec
CONSTANTS
    Threads = {t1, t2}
    Root = t1
    FDs = {0, 1}
    Programs <- MCPrograms
INVARIANTS
    TypeOK
    MapInStep
    SharedAlike
    NoNeedlessWarning
VIEW View
\* All threads may end.
CHECK_DEADLOCK FALSE
