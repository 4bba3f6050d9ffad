CONSTANTS
    Kinds = {"child", "auto"}
    ThreadCalls = {"clone", "execve", "exit", "read", "restart_syscall", "sigreturn"}
    ThreadSignals = {"TERM"}
SPECIFICATION Spec
INVARIANTS SyscallInStep CallbacksInOrder NeverLostToOthers
PROPERTIES ImplementsContract
CHECK_DEADLOCK FALSE
