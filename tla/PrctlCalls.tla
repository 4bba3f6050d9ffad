----------------------------- MODULE PrctlCalls -----------------------------
(***************************************************************************)
(* arch_prctl() and prctl(): syscalls/prctl.  The operation decides about  *)
(* the class of a prctl() object, which is created anew for every call;    *)
(* the object for arch_prctl() is kept.                                    *)
(***************************************************************************)
EXTENDS CallObject

ArchPrctlCall == [arch_prctl |-> ReturnNew(NewObject(NoItem, <<ArchOpParameter("op")>>),
                                           SuccessResult("result"))]

ArchPrctlPrepare(o) ==
    ReturnNew(Reset(DropParameters(o, 1), {"on_off", "set_addr", "get_addr", "on_off_ret"}),
              SuccessResult("result"))

ArchPrctlCheck2ndPass(o, op) ==
    CASE op = "SET_CPUID" -> AddNew(o, <<IntValue("on_off")>>)
      [] op = "GET_CPUID" -> ReturnNew(Reset(o, {"result"}), ReturnValue("on_off_ret"))
      [] op = "SET_FS"    -> AddNew(o, <<GenericPointerValue("set_addr")>>)
      [] op = "GET_FS"    -> AddNew(o, <<PointerToScalar("get_addr", "out")>>)
      [] OTHER            -> o

ArchPrctlOps == {"SET_CPUID", "GET_CPUID", "SET_FS", "GET_FS", "unknown"}

----------------------------------------------------------------------------
(* What the constructors leave.                                            *)

PrCtlSystemCall(pars) == NewObject(NoItem, <<ProcessOp("op")>> \o pars)

SetBoolReturn(o) == ReturnNew(o, ReturnValue("bool_res"))

SetSuccessReturn(o) == ReturnNew(o, SuccessResult("res"))

Prctl(pars) == SetSuccessReturn(PrCtlSystemCall(pars))

Returning(i, pars) == SetReturnItem(PrCtlSystemCall(pars), [i EXCEPT !.d = "ret"])

UnknownPrCtlSystemCall == Prctl(<<Placeholder("unknown")>>)

PrctlMemoryMapCalls ==
    [SET_MM       |-> Prctl(<<PrctlSubOp("mm_op")>>),
     MCE_KILL     |-> Prctl(<<PrctlSubOp("mce_kill_op")>>),
     MCE_KILL_GET |-> Returning(PrctlSubOp("policy_res"), << >>)]

PrctlCapCalls ==
    [CAP_AMBIENT         |-> PrCtlSystemCall(<<PrctlSubOp("ambient_op")>>),
     CAPBSET_READ        |-> PrCtlSystemCall(<<Capability("cap")>>),
     CAPBSET_DROP        |-> PrCtlSystemCall(<<Capability("cap")>>),
     GET_CHILD_SUBREAPER |-> Prctl(<<PointerToScalar("is_subreaper", "out")>>)]

PrctlNameCalls ==
    [SET_VMA       |-> Prctl(<<PrctlAttr("attr"), GenericPointerValue("addr"), IntValue("size"),
                               StringData("name", "in")>>),
     GET_NAME      |-> Prctl(<< >>),
     SET_NAME      |-> Prctl(<< >>),
     SET_PDEATHSIG |-> Prctl(<< >>),
     GET_PDEATHSIG |-> Prctl(<< >>),
     SET_PTRACER   |-> Prctl(<<PrctlAttr("pid")>>),
     SET_SECCOMP   |-> Prctl(<<SecCompMode("mode")>>)]

PrctlBitCalls ==
    [GET_SECUREBITS            |-> Returning(SecureBits("bits"), << >>),
     SET_SECUREBITS            |-> Prctl(<<SecureBits("bits")>>),
     GET_SPECULATION_CTRL      |-> Returning(PrctlSetting("setting"), <<PrctlAttr("misfeature")>>),
     SET_SPECULATION_CTRL      |-> Prctl(<<PrctlAttr("misfeature"), PrctlSetting("setting")>>),
     SET_SYSCALL_USER_DISPATCH |-> Prctl(<<PrctlSetting("mode")>>)]

PrctlControlCalls ==
    [GET_TAGGED_ADDR_CTRL |-> Returning(PrctlControl("mode"), << >>),
     SET_TAGGED_ADDR_CTRL |-> Prctl(<<PrctlControl("mode")>>),
     GET_THP_DISABLE      |-> Returning(PrctlControl("config"), << >>),
     SET_THP_DISABLE      |-> Prctl(<<BoolValue("thp_disable")>>),
     GET_TID_ADDRESS      |-> Prctl(<<PointerToScalar("addr", "out")>>),
     SET_TIMERSLACK       |-> Prctl(<<IntValue("slack")>>)]

PrctlModeCalls ==
    [SET_TIMING |-> Prctl(<<PrctlMode("mode")>>),
     GET_TIMING |-> Returning(PrctlMode("mode"), << >>),
     SET_TSC    |-> Prctl(<<PrctlMode("access")>>),
     GET_TSC    |-> Prctl(<<TSCAccessPtr("access")>>),
     GET_MDWE   |-> Returning(MemDenyWriteExecProtectionMask("mask"), << >>),
     SET_MDWE   |-> Prctl(<<MemDenyWriteExecProtectionMask("mask")>>),
     GET_AUXV   |-> Returning(IntValue("filled_size"),
                        <<AuxVectorBuffer("aux_vector", "size"), IntValue("size")>>)]

SpecialPrctls ==
    PrctlMemoryMapCalls @@ PrctlCapCalls @@ PrctlNameCalls @@ PrctlBitCalls @@ PrctlControlCalls
    @@ PrctlModeCalls

PlainPrctls == {"GET_TIMERSLACK", "GET_DUMPABLE", "SET_DUMPABLE", "TASK_PERF_EVENTS_ENABLE"}

CreatePrctl(op) ==
    CASE op \in DOMAIN SpecialPrctls -> SpecialPrctls[op]
      [] op \in PlainPrctls          -> PrCtlSystemCall(<< >>)
      [] OTHER                       -> UnknownPrCtlSystemCall

PrctlOps == DOMAIN SpecialPrctls \cup PlainPrctls \cup {"unknown"}

----------------------------------------------------------------------------
(* The calls whose sub-operation or mode adds parameters.  v names the     *)
(* one that is passed.                                                     *)

PlainCheck2ndPass(o, op) ==
    CASE op = "GET_DUMPABLE"   -> SetBoolReturn(o)
      [] op = "SET_DUMPABLE"   -> SetSuccessReturn(AddNew(o, <<BoolValue("bool_setting")>>))
      [] op = "GET_TIMERSLACK" -> ReturnNew(o, ReturnValue("int_res"))
      [] OTHER                 -> SetSuccessReturn(o)

MemoryMapCheck2ndPass(o, v) ==
    CASE "START_CODE" \in v -> AddNew(o, <<GenericPointerValue("addr")>>)
      [] "MAP_SIZE" \in v   -> AddNew(o, <<PointerToScalar("reported_size", "out")>>)
      [] "EXE_FILE" \in v   -> AddNew(o, <<FileDescriptor("exe_fd")>>)
      [] "MAP" \in v        -> AddNew(o, <<MemoryMapStruct("mm_struct", "mm_struct_size"),
                                           IntValue("mm_struct_size")>>)
      [] OTHER              -> o

MachineCheckKillCheck2ndPass(o, v) ==
    IF "SET" \in v THEN AddNew(o, <<PrctlSubOp("policy")>>) ELSE o

CapAmbientCheck2ndPass(o, v) ==
    LET p == IF "CLEAR_ALL" \in v THEN o ELSE AddNew(o, <<Capability("cap")>>)
    IN  IF "IS_SET" \in v THEN SetBoolReturn(p) ELSE SetSuccessReturn(p)

CapBSetCheck2ndPass(o, op) == IF op = "CAPBSET_READ" THEN SetBoolReturn(o) ELSE SetSuccessReturn(o)

NameCheck2ndPass(o, op) ==
    AddNew(o, <<StringData("name", IF op = "GET_NAME" THEN "out" ELSE "in")>>)

ParentDeathSignalCheck2ndPass(o, op) ==
    AddNew(o, IF op = "GET_PDEATHSIG" THEN <<PointerToScalar("cur_signal", "out")>>
                                      ELSE <<SignalNumber("new_signal")>>)

SetSecCompCheck2ndPass(o, abi, v) ==
    IF "FILTER" \in v THEN AddNew(o, <<FilterProg("filter", Emulated(abi))>>) ELSE o

SetSyscallUserDispatchCheck2ndPass(o, v) ==
    IF "DISPATCH_ON" \in v
    THEN AddNew(o, <<GenericPointerValue("offset"), IntValue("size"),
                     GenericPointerValue("on_off_switch")>>)
    ELSE o

SetTHPDisableCheck2ndPass(o, v) ==
    IF "disable" \in v THEN AddNew(o, <<PrctlControl("flags")>>) ELSE o

PrctlCheck2ndPass(o, op, abi, v) ==
    CASE op \in PlainPrctls -> PlainCheck2ndPass(o, op)
      [] op = "SET_MM"      -> MemoryMapCheck2ndPass(o, v)
      [] op = "MCE_KILL"    -> MachineCheckKillCheck2ndPass(o, v)
      [] op = "CAP_AMBIENT" -> CapAmbientCheck2ndPass(o, v)
      [] op \in {"CAPBSET_READ", "CAPBSET_DROP"}   -> CapBSetCheck2ndPass(o, op)
      [] op \in {"GET_NAME", "SET_NAME"}           -> NameCheck2ndPass(o, op)
      [] op \in {"GET_PDEATHSIG", "SET_PDEATHSIG"} -> ParentDeathSignalCheck2ndPass(o, op)
      [] op = "SET_SECCOMP" -> SetSecCompCheck2ndPass(o, abi, v)
      [] op = "SET_SYSCALL_USER_DISPATCH" -> SetSyscallUserDispatchCheck2ndPass(o, v)
      [] op = "SET_THP_DISABLE" -> SetTHPDisableCheck2ndPass(o, v)
      [] OTHER              -> o

(* The options that the second argument may select.                        *)
PrctlVariants(op) ==
    CASE op = "SET_MM"      -> {"START_CODE", "MAP_SIZE", "EXE_FILE", "MAP", "other"}
      [] op = "MCE_KILL"    -> {"SET", "CLEAR"}
      [] op = "CAP_AMBIENT" -> {"RAISE", "IS_SET", "CLEAR_ALL"}
      [] op = "SET_SECCOMP" -> {"FILTER", "STRICT"}
      [] op = "SET_SYSCALL_USER_DISPATCH" -> {"DISPATCH_ON", "DISPATCH_OFF"}
      [] op = "SET_THP_DISABLE" -> {"disable", "enable"}
      [] OTHER              -> {"any"}

=============================================================================
