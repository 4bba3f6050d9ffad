SPECIFICATION Spec
CONSTANT CallNames <- MCCallNames
\* an exception that leaves trace() ends everything
CHECK_DEADLOCK FALSE
INVARIANT TypeOK
INVARIANT HistoryFree
INVARIANT NoDangling
INVARIANT SiblingsReady
INVARIANT NothingStale
INVARIANT ResultsFresh
INVARIANT ArgsInPosition
INVARIANT UsableCallHandled
