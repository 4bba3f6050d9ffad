CONSTANTS
    Kinds = {"child", "foreign", "auto"}
    ThreadCalls = {"read", "exit"}
    ThreadSignals = {"CONT", "STOP", "TERM"}
SPECIFICATION FairSpec
INVARIANTS TypeOK InStepInv EndReportedOnce NoForgottenStop ListenMeansStopped NothingLeftTraced
PROPERTIES ImplementsContract DetachCompletes EndNoticed
CHECK_DEADLOCK FALSE
