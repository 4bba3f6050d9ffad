SPECIFICATION Spec
CONSTANTS
    Threads = {t1}
    Root = t1
    FDs = {0, 1}
    Programs <- MCExec
INVARIANTS
    ExecSynced
VIEW View
\* All threads may end.
CHECK_DEADLOCK FALSE
