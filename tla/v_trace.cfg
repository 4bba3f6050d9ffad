CONSTANTS
    Kinds = {"foreign"}
    ThreadCalls = {"read"}
    ThreadSignals = {"CONT", "STOP"}
SPECIFICATION FairSpec
PROPERTIES TraceReturns
CHECK_DEADLOCK FALSE
