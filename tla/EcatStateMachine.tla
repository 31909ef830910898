-------------------------- MODULE EcatStateMachine --------------------------
(***************************************************************************)
(* The EtherCAT state machine of the slave stack (ecatslv.c) as it runs on *)
(* Core 0: the main task loops through MainLoop, the PDI task preempts it  *)
(* between any two of its accesses to shared flags, the EtherCAT master    *)
(* writes AL Control, reconfigures Sync Managers and sends process data.   *)
(*                                                                         *)
(* The device has outputs and inputs (nPdOutputSize > 0, nPdInputSize > 0, *)
(* the PDO assignment of its ESI file).  Of SAFEOP_2_OP, the only          *)
(* transition that can be pending in this application, both ends are       *)
(* modelled.                                                               *)
(***************************************************************************)
EXTENDS Integers, Sequences

CONSTANTS
    Modes,      \* synchronisation modes the master may configure
    MasterSm,   \* Sync Manager channels the master may break and repair
    ReqStates,  \* states the master may write to AL Control
    MaxEsm,     \* EsmTimeoutCounter at the start of a pending transition
                \* (8100 ticks in the code)
    PllTicks,   \* i16WaitForPllRunningTimeout (200 ticks in the code)
    Patient     \* the master leaves the Sync Managers alone until the slave
                \* has answered its last AL Control request

State    == {"INIT", "PREOP", "BOOT", "SAFEOP", "OP"}
Unknown  == "UNKNOWN"       \* state bits 5, 6 or 7: no state, and not the bit of OP
Channel  == 0 .. 3          \* MBX write, MBX read, PD out, PD in

ASSUME EsmAssumption ==
    /\ Modes \subseteq {"freerun", "sm", "dc"} /\ Modes # {}
    /\ MasterSm \subseteq Channel
    /\ ReqStates \subseteq State \cup {Unknown} /\ ReqStates # {}
    /\ MaxEsm \in Nat \ {0} /\ PllTicks \in Nat \ {0}
    /\ Patient \in BOOLEAN

VARIABLES
    \* nAlStatus, the registers 0x130/0x134, the pending transition
    alState, errInd, alReg, waitRes, applPending, esmTimer,
    \* what the handlers have started
    mbxRunning, bootMode, inputRun, outputRun, firstOutputs, escInt, wdOn,
    \* distributed clocks
    dcActive, dcRunning, seqValid, pllWait, pllCnt,
    \* the ESC: AL Control event, Sync Managers, SM2 event, PD watchdog
    alControl, badSm, changedSm, sm2Enabled, outEvent, wdExpired,
    outputs,        \* 0x7000..0x70F0: "reset" or the master's values ("live")
    \* the main task
    pc, todo, call, result, seen

esm     == <<alState, errInd, alReg, waitRes, applPending, esmTimer>>
runs    == <<mbxRunning, bootMode, inputRun, outputRun, escInt, wdOn>>
dc      == <<dcActive, dcRunning, seqValid, pllWait, pllCnt>>
escIn   == <<alControl, badSm, outEvent, wdExpired>>
main    == <<pc, todo, call, result, seen>>
vars    == <<esm, runs, firstOutputs, dc, escIn, changedSm, sm2Enabled, outputs,
             main>>

NoRequest == [state |-> "none", ack |-> FALSE]
NoCall    == [state |-> "INIT", ack |-> FALSE, code |-> "0", ret |-> "MainLoop"]
NotSeen   == [sm1 |-> TRUE, smChange |-> FALSE]
Request   == [state : ReqStates, ack : BOOLEAN]

-----------------------------------------------------------------------------
(* Tables.                                                                 *)

\* A mutant: the last Sync Manager, outputs, is not checked.
CheckedChannelsButLast(from, to) ==
    IF <<from, to>> \in {"INIT", "OP", "SAFEOP", "PREOP"} \X {"PREOP"}
    THEN <<0, 1>>
    ELSE IF <<from, to>> \in ({"PREOP", "SAFEOP", "OP"} \X {"SAFEOP"})
                             \cup ({"SAFEOP", "OP"} \X {"OP"})
         THEN <<0, 1, 3>>
         ELSE << >>

\* Sync Managers CheckSmSettings looks at on the way to state to, in order.
\* BOOT is not checked here: INIT_2_BOOT checks for itself, BOOT_2_BOOT never.
CheckedChannels(from, to) ==
    IF <<from, to>> \in {"INIT", "OP", "SAFEOP", "PREOP"} \X {"PREOP"}
    THEN <<0, 1>>
    ELSE IF <<from, to>> \in ({"PREOP", "SAFEOP", "OP"} \X {"SAFEOP"})
                             \cup ({"SAFEOP", "OP"} \X {"OP"})
         THEN <<0, 1, 3, 2>>
         ELSE << >>

CheckSmSettings(channels) ==
    LET bad == {i \in DOMAIN channels : channels[i] \in badSm}
    IN  IF bad = {} THEN "0"
        ELSE LET c == channels[CHOOSE i \in bad : \A j \in bad : i <= j]
             IN  CASE c \in {0, 1} -> "INVALIDMBXCFG"
                   [] c = 3        -> "INVALIDSMINCFG"
                   [] c = 2        -> "INVALIDSMOUTCFG"

\* Channels whose Activate byte a check has read, which acknowledges their
\* SM change event: all of them when the check succeeds.
ReadByCheck(channels) ==
    LET bad == {i \in DOMAIN channels : channels[i] \in badSm}
    IN  IF channels = << >> THEN {}
        ELSE IF bad = {} THEN Channel
        ELSE {channels[i] : i \in {k \in DOMAIN channels : \A j \in bad : k <= j}}

\* A mutant: the application does not reset its outputs.
StopOutputsOnly == <<"ClearFirstOutputs", "ClearOutputRun">>

StopOutputs == <<"APPL_StopOutputHandler", "ClearFirstOutputs", "ClearOutputRun">>

StopInputs  == <<"StopInputHandler">>
StopMailbox == <<"MBX_StopMailboxHandler">>
ApplCalled  == <<"ApplCalled">>     \* bApplEsmPending = FALSE

\* Local management services of a transition, in the order they are called.
Services(from, to) ==
    CASE from = to /\ from # "BOOT"    -> <<"EnableSm2">>
      [] <<from, to>> = <<"INIT", "PREOP">>   -> <<"MBX_StartMailboxHandler">>
      [] <<from, to>> = <<"INIT", "BOOT">>    -> <<"StartBoot">>
      [] <<from, to>> = <<"BOOT", "INIT">>    -> <<"StopBoot">>
      [] <<from, to>> = <<"PREOP", "SAFEOP">> -> <<"StartInputHandler">> \o ApplCalled \o <<"SetInputRun">>
      [] <<from, to>> = <<"SAFEOP", "OP">>    -> <<"StartOutputHandler">>
      [] <<from, to>> = <<"OP", "SAFEOP">>    -> StopOutputs \o ApplCalled
      [] <<from, to>> = <<"OP", "PREOP">>     -> StopOutputs \o StopInputs \o ApplCalled
      [] <<from, to>> = <<"SAFEOP", "PREOP">> -> StopInputs \o ApplCalled
      [] <<from, to>> = <<"OP", "INIT">>      -> StopOutputs \o StopInputs \o ApplCalled \o StopMailbox
      [] <<from, to>> = <<"SAFEOP", "INIT">>  -> StopInputs \o ApplCalled \o StopMailbox
      [] <<from, to>> = <<"PREOP", "INIT">>   -> StopMailbox
      [] OTHER -> << >>

\* A mutant: no fall through from OP to SAFEOP.
FallbackOutputsRunning(from) ==
    CASE from \in {"OP", "SAFEOP"} -> StopInputs \o <<"FallBack">>
      [] from = "PREOP"            -> <<"FallBack">>
      [] OTHER                     -> << >>

\* When the Sync Manager check failed the state falls back to PREOP or INIT.
Fallback(from) ==
    CASE from = "OP"     -> StopOutputs \o StopInputs \o <<"FallBack">>
      [] from = "SAFEOP" -> StopInputs \o <<"FallBack">>
      [] from = "PREOP"  -> <<"FallBack">>
      [] OTHER           -> << >>

\* The result of a transition that has no service.
Verdict(from, to) ==
    IF Services(from, to) # << >> THEN "0"
    ELSE IF to \in State /\ from # to THEN "INVALIDALCONTROL"
    ELSE "UNKNOWNALCONTROL"

-----------------------------------------------------------------------------
(* AL_ControlInd, one local management service per step: the PDI task can  *)
(* run between any two of them.                                            *)

\* A call of AL_ControlInd and where MainLoop goes on after it.
Call(request, code, ret) ==
    /\ call' = [state |-> request.state, ack |-> request.ack,
                code |-> code, ret |-> ret]
    /\ pc' = "AL_ControlInd"

\* The locals of the call are forgotten.
Return == pc' = call.ret /\ call' = NoCall

\* A mutant: asking for the current state acknowledges the error.
UnacknowledgedOther == errInd /\ ~call.ack /\ call.state \notin {"INIT", alState}

\* A state other than INIT is asked for without acknowledging the error.
Unacknowledged == errInd /\ ~call.ack /\ call.state # "INIT"

\* The request is ignored, or: error acknowledgement, Sync Manager check and
\* choice of the services.
AL_ControlInd ==
    /\ pc = "AL_ControlInd"
    /\ esmTimer' = -1
    /\ applPending' = TRUE
    /\ \/ /\ Unacknowledged
          /\ Return
          /\ UNCHANGED <<errInd, changedSm, todo, result>>
       \/ /\ ~Unacknowledged
          /\ errInd' = FALSE
          /\ LET checked == CheckedChannels(alState, call.state)
                 mapping == IF <<alState, call.state>> = <<"PREOP", "SAFEOP">>
                            THEN {"0", "INVALIDOUTPUTMAPPING"} ELSE {"0"}
             IN  \E generated \in mapping :
                   /\ result' = IF generated # "0" THEN generated
                                ELSE IF CheckSmSettings(checked) # "0"
                                THEN CheckSmSettings(checked)
                                ELSE Verdict(alState, call.state)
                   /\ changedSm' = IF generated # "0" THEN changedSm
                                   ELSE changedSm \ ReadByCheck(checked)
                   /\ todo' = IF generated = "0" /\ CheckSmSettings(checked) = "0"
                              THEN Services(alState, call.state)
                              ELSE Fallback(alState)
          /\ pc' = "services"
          /\ UNCHANGED call
    /\ UNCHANGED <<alState, alReg, waitRes, runs, firstOutputs, dc, alControl,
                   badSm, outEvent, wdExpired, sm2Enabled, outputs, seen>>

\* The main task executes the next service of its list.
Service(s) ==
    /\ pc \in {"services", "reject"}
    /\ todo # << >> /\ Head(todo) = s
    /\ UNCHANGED <<pc, call, seen, escIn, alReg, waitRes, errInd, esmTimer>>

APPL_StopOutputHandler ==
    /\ Service("APPL_StopOutputHandler")
    /\ outputs' = "reset"
    /\ todo' = Tail(todo)
    /\ UNCHANGED <<alState, applPending, runs, firstOutputs, dc, changedSm,
                   sm2Enabled, result>>

\* StopOutputHandler clears its two flags one after the other.
StopOutputHandler ==
    /\ \/ /\ Service("ClearFirstOutputs")
          /\ firstOutputs' = FALSE
          /\ UNCHANGED outputRun
       \/ /\ Service("ClearOutputRun")
          /\ outputRun' = FALSE
          /\ UNCHANGED firstOutputs
    /\ todo' = Tail(todo)
    /\ UNCHANGED <<alState, applPending, mbxRunning, bootMode, inputRun, escInt,
                   wdOn, dc, changedSm, sm2Enabled, outputs, result>>

StopInputHandler ==
    /\ Service("StopInputHandler")
    /\ sm2Enabled' = FALSE
    /\ firstOutputs' = FALSE /\ escInt' = FALSE /\ inputRun' = FALSE
    /\ dcActive' = FALSE /\ dcRunning' = FALSE /\ seqValid' = FALSE
    /\ pllWait' = FALSE
    /\ todo' = Tail(todo)
    /\ UNCHANGED <<alState, applPending, mbxRunning, bootMode, outputRun, wdOn,
                   pllCnt, changedSm, outputs, result>>

\* StartInputHandler selects the synchronisation mode the master configured,
\* or refuses the configuration before or after the mode flags are set.  It
\* reads Sync Managers 2 and 3 again, after their check.
StartInputHandler ==
    /\ Service("StartInputHandler")
    /\ firstOutputs' = FALSE
    /\ changedSm' = changedSm \ {2, 3}
    /\ \/ \E mode \in Modes, wd \in BOOLEAN :
             /\ escInt' = (mode # "freerun")
             /\ dcActive' = (mode = "dc")
             /\ wdOn' = wd
             /\ \/ /\ sm2Enabled' = TRUE
                   /\ dcRunning' = FALSE /\ seqValid' = FALSE /\ pllWait' = FALSE
                   /\ todo' = Tail(todo)
                   /\ UNCHANGED <<result, applPending>>
                \/ /\ result' = "INVALIDWDCFG"
                   /\ todo' = StopInputs
                   /\ UNCHANGED <<sm2Enabled, dcRunning, seqValid, pllWait, applPending>>
       \/ /\ result' = "DCINVALIDSYNCCFG"
          /\ todo' = StopInputs
          /\ UNCHANGED <<escInt, dcActive, wdOn, sm2Enabled, dcRunning, seqValid,
                         pllWait, applPending>>
    /\ UNCHANGED <<alState, mbxRunning, bootMode, inputRun, outputRun, pllCnt,
                   outputs>>

\* The flags AL_ControlInd sets itself, once the application's handler is called.
SetFlags ==
    /\ \/ Service("ApplCalled") /\ applPending' = FALSE /\ UNCHANGED inputRun
       \/ Service("SetInputRun") /\ inputRun' = TRUE /\ UNCHANGED applPending
    /\ todo' = Tail(todo)
    /\ UNCHANGED <<alState, mbxRunning, bootMode, outputRun, escInt, wdOn,
                   firstOutputs, dc, changedSm, sm2Enabled, outputs, result>>

\* A mutant: the output update runs before the transition is decided.
StartOutputHandlerEager ==
    /\ Service("StartOutputHandler")
    /\ sm2Enabled' = (call.ack \/ sm2Enabled)
    /\ outputRun' = TRUE
    /\ IF dcActive THEN pllWait' = TRUE /\ pllCnt' = 0 ELSE UNCHANGED <<pllWait, pllCnt>>
    /\ result' = "INWORK"
    /\ todo' = Tail(todo)
    /\ UNCHANGED <<alState, applPending, mbxRunning, bootMode, inputRun, escInt,
                   wdOn, firstOutputs, dcActive, dcRunning, seqValid, changedSm,
                   outputs>>

\* By default the transition is completed in AL_ControlRes.
StartOutputHandler ==
    /\ Service("StartOutputHandler")
    /\ sm2Enabled' = (call.ack \/ sm2Enabled)
    /\ IF dcActive THEN pllWait' = TRUE /\ pllCnt' = 0 ELSE UNCHANGED <<pllWait, pllCnt>>
    /\ result' = "INWORK"
    /\ todo' = Tail(todo)
    /\ UNCHANGED <<alState, applPending, runs, firstOutputs, dcActive, dcRunning,
                   seqValid, changedSm, outputs>>

EnableSm2 ==
    /\ Service("EnableSm2")
    /\ sm2Enabled' = (alState \in {"SAFEOP", "OP"} \/ sm2Enabled)
    /\ result' = "NOSTATECHANGE"
    /\ todo' = Tail(todo)
    /\ UNCHANGED <<alState, applPending, runs, firstOutputs, dc, changedSm, outputs>>

\* INIT_2_PREOP.  MBX_StartMailboxHandler reads Sync Managers 0 and 1 again.
MBX_StartMailboxHandler ==
    /\ Service("MBX_StartMailboxHandler")
    /\ \/ /\ result' = "EE_ERROR"
          /\ UNCHANGED <<applPending, mbxRunning, changedSm>>
       \/ /\ \E r \in {"0", "INVALIDMBXCFG"} :
                /\ result' = r
                /\ mbxRunning' = (r = "0")
                /\ applPending' = (r # "0")
          /\ changedSm' = changedSm \ {0, 1}
    /\ todo' = Tail(todo)
    /\ UNCHANGED <<alState, bootMode, inputRun, outputRun, escInt, wdOn,
                   firstOutputs, dc, sm2Enabled, outputs>>

\* INIT_2_BOOT checks the mailbox Sync Managers itself.
StartBoot ==
    /\ Service("StartBoot")
    /\ \/ /\ CheckSmSettings(<<0, 1>>) # "0"
          /\ result' = "INVALIDMBXCFGINBOOT"
          /\ changedSm' = changedSm \ ReadByCheck(<<0, 1>>)
          /\ UNCHANGED <<applPending, mbxRunning, bootMode>>
       \/ /\ CheckSmSettings(<<0, 1>>) = "0"
          /\ \E r \in {"0", "INVALIDMBXCFG"} :
                /\ result' = r
                /\ mbxRunning' = (r = "0")
                /\ bootMode' = (r = "0")
                /\ applPending' = (r # "0")
          /\ changedSm' = {}
    /\ todo' = Tail(todo)
    /\ UNCHANGED <<alState, inputRun, outputRun, escInt, wdOn, firstOutputs, dc,
                   sm2Enabled, outputs>>

\* PREOP_2_INIT and, unless BOOT was refused, BOOT_2_INIT.
MBX_StopMailboxHandler ==
    /\ \/ Service("MBX_StopMailboxHandler") /\ mbxRunning' = FALSE /\ UNCHANGED bootMode
       \/ /\ Service("StopBoot")
          /\ mbxRunning' = (mbxRunning /\ ~bootMode)
          /\ bootMode' = FALSE
    /\ todo' = Tail(todo)
    /\ UNCHANGED <<alState, applPending, inputRun, outputRun, escInt, wdOn,
                   firstOutputs, dc, changedSm, sm2Enabled, outputs, result>>

\* After a failed check: PREOP, or INIT when the mailbox is gone.
FallBack ==
    /\ Service("FallBack")
    /\ IF result = "INVALIDMBXCFG"
          THEN mbxRunning' = FALSE /\ alState' = "INIT"
          ELSE alState' = "PREOP" /\ UNCHANGED mbxRunning
    /\ todo' = Tail(todo)
    /\ UNCHANGED <<applPending, bootMode, inputRun, outputRun, escInt, wdOn,
                   firstOutputs, dc, changedSm, sm2Enabled, outputs, result>>

ServiceStep ==
    \/ APPL_StopOutputHandler \/ StopOutputHandler \/ StopInputHandler
    \/ StartInputHandler \/ SetFlags \/ StartOutputHandler \/ EnableSm2
    \/ MBX_StartMailboxHandler \/ StartBoot \/ MBX_StopMailboxHandler \/ FallBack

SetALStatus(state, err, code) ==
    /\ alState' = state
    /\ errInd' = err
    /\ alReg' = [state |-> state, err |-> err, code |-> code]

\* The last part of AL_ControlInd, when its services are done.
Concluding == pc = "services" /\ todo = << >>

\* A mutant: the ESM timeout is not started.
ConcludeInWorkUntimed ==
    /\ Concluding
    /\ result = "INWORK"
    /\ waitRes' = TRUE
    /\ pc' = call.ret
    /\ UNCHANGED <<alState, errInd, alReg, applPending, esmTimer, runs, firstOutputs,
                   dc, escIn, changedSm, sm2Enabled, outputs, todo, call, result, seen>>

\* The transition is in work: AL_ControlRes will finish it.
ConcludeInWork ==
    /\ Concluding
    /\ result = "INWORK"
    /\ waitRes' = TRUE
    /\ esmTimer' = MaxEsm
    /\ pc' = call.ret
    /\ UNCHANGED <<alState, errInd, alReg, applPending, runs, firstOutputs, dc,
                   escIn, changedSm, sm2Enabled, outputs, todo, call, result, seen>>

StateChanged == Concluding /\ result # "INWORK" /\ call.state # alState

\* OP is left, or was not reached, for another reason than the master's wish.
OpRefused ==
    /\ result # "0" \/ call.code # "0"
    /\ "OP" \in {call.state, alState}

\* The output handler still runs: stop it first.
ConcludeStopOutputs ==
    /\ StateChanged /\ OpRefused /\ outputRun
    /\ todo' = StopOutputs
    /\ UNCHANGED <<esm, runs, firstOutputs, dc, escIn, changedSm, sm2Enabled,
                   outputs, pc, call, result, seen>>

ConcludeChanged ==
    /\ StateChanged /\ ~(OpRefused /\ outputRun)
    /\ sm2Enabled' = (sm2Enabled /\ ~OpRefused)
    /\ IF result # "0"
          THEN SetALStatus(IF alState = "OP" THEN "SAFEOP" ELSE alState, TRUE, result)
          ELSE SetALStatus(call.state, call.code # "0", call.code)
    /\ waitRes' = FALSE
    /\ Return /\ result' = "0"
    /\ UNCHANGED <<applPending, esmTimer, runs, firstOutputs, dc, escIn, changedSm,
                   outputs, todo, seen>>

\* A mutant: the acknowledged error leaves its code behind.
ConcludeUnchangedKeepsCode ==
    /\ Concluding /\ result # "INWORK" /\ call.state = alState
    /\ SetALStatus(alState, errInd, alReg.code)
    /\ waitRes' = FALSE
    /\ Return /\ result' = "0"
    /\ UNCHANGED <<applPending, esmTimer, runs, firstOutputs, dc, escIn, changedSm,
                   sm2Enabled, outputs, todo, seen>>

\* Error acknowledgement without a state transition.
ConcludeUnchanged ==
    /\ Concluding /\ result # "INWORK" /\ call.state = alState
    /\ SetALStatus(alState, errInd, "0")
    /\ waitRes' = FALSE
    /\ Return /\ result' = "0"
    /\ UNCHANGED <<applPending, esmTimer, runs, firstOutputs, dc, escIn, changedSm,
                   sm2Enabled, outputs, todo, seen>>

Conclude ==
    \/ ConcludeInWork \/ ConcludeStopOutputs \/ ConcludeChanged \/ ConcludeUnchanged

-----------------------------------------------------------------------------
(* AL_ControlRes on a pending SAFEOP_2_OP.                                 *)

\* The outputs go live before the AL Status register says OP.
EnterOp ==
    /\ outputRun' = TRUE
    /\ pc' = "op"
    /\ UNCHANGED <<todo, result>>

\* The transition is rejected: the output handler is stopped first.
RejectOp(code) ==
    /\ result' = code
    /\ todo' = (IF applPending THEN << >> ELSE <<"APPL_StopOutputHandler">>)
               \o <<"ClearFirstOutputs", "ClearOutputRun">>
    /\ pc' = "reject"
    /\ UNCHANGED outputRun

\* What a transition that is out of time has been waiting for.
Missing ==
    IF ~dcActive THEN "SMWATCHDOG"
    ELSE IF ~dcRunning THEN "NOSYNCERROR"
    ELSE IF ~firstOutputs THEN "SMWATCHDOG"
    ELSE IF ~seqValid THEN "SYNCERROR"
    ELSE "0"

AL_ControlRes ==
    /\ pc = "AL_ControlRes"
    /\ \/ /\ waitRes /\ esmTimer = 0
          /\ IF Missing = "0" THEN EnterOp ELSE RejectOp(Missing)
          /\ UNCHANGED <<applPending, pllWait, pllCnt>>
       \/ /\ waitRes /\ esmTimer # 0 /\ applPending
          /\ IF dcActive THEN pllWait /\ pllCnt >= PllTicks ELSE firstOutputs
          /\ applPending' = FALSE
          /\ IF dcActive THEN pllWait' = FALSE /\ pllCnt' = 0
                         ELSE UNCHANGED <<pllWait, pllCnt>>
          /\ EnterOp
       \/ /\ \/ ~waitRes
             \/ /\ esmTimer # 0
                /\ \/ ~applPending
                   \/ IF dcActive THEN ~(pllWait /\ pllCnt >= PllTicks)
                                  ELSE ~firstOutputs
          /\ pc' = "sm1check"
          /\ UNCHANGED <<applPending, pllWait, pllCnt, outputRun, todo, result>>
    /\ UNCHANGED <<alState, errInd, alReg, waitRes, esmTimer, mbxRunning, bootMode,
                   inputRun, escInt, wdOn, firstOutputs, dcActive, dcRunning,
                   seqValid, escIn, changedSm, sm2Enabled, outputs,
                   call, seen>>

\* The pending transition is finished: AL Status is written.
FinishPending ==
    /\ \/ pc = "op" /\ SetALStatus("OP", FALSE, "0")
       \/ pc = "reject" /\ todo = << >> /\ SetALStatus("SAFEOP", TRUE, result)
    /\ waitRes' = FALSE
    /\ pc' = "sm1check" /\ call' = NoCall /\ result' = "0"
    /\ UNCHANGED <<applPending, esmTimer, runs, firstOutputs, dc, escIn, changedSm,
                   sm2Enabled, outputs, todo, seen>>

-----------------------------------------------------------------------------
(* MainLoop, in the order of its calls.                                    *)

\* The application runs in the main task in free run mode, and in synchronous
\* mode until the first SM2 event.  In free run the main task also polls SM2.
MainLoop ==
    /\ pc = "MainLoop"
    /\ IF (~escInt \/ ~firstOutputs) /\ ~dcActive
          THEN /\ pc' = "ECAT_Application"
               /\ IF ~escInt /\ outEvent
                     THEN /\ firstOutputs' = TRUE
                          /\ outputs' = IF outputRun THEN "live" ELSE outputs
                          /\ outEvent' = ~outputRun
                     ELSE UNCHANGED <<firstOutputs, outputs, outEvent>>
          ELSE pc' = "timer" /\ UNCHANGED <<firstOutputs, outputs, outEvent>>
    /\ UNCHANGED <<esm, runs, dc, alControl, badSm, wdExpired, changedSm,
                   sm2Enabled, todo, call, result, seen>>

\* The main task moves on without touching anything that is modelled here.
GoTo(from, to) ==
    /\ pc = from
    /\ pc' = to
    /\ UNCHANGED <<esm, runs, firstOutputs, dc, escIn, changedSm, sm2Enabled,
                   outputs, todo, call, result, seen>>

ECAT_Application == GoTo("ECAT_Application", "timer")

\* Less than a millisecond has passed.
NoTick == GoTo("timer", "sm1")

Min2(a, b) == IF a < b THEN a ELSE b

\* DC_CheckWatchdog: whether Sync0 and Sync1 came in time (running) and the
\* SM events keep their place between them (inSequence) is the environment's
\* choice.
DC_CheckWatchdog ==
    IF dcActive /\ inputRun
    THEN \E running \in BOOLEAN, inSequence \in BOOLEAN :
           /\ dcRunning' = running
           /\ seqValid' = (running /\ inSequence)
           /\ pllCnt' = IF ~pllWait \/ ~running THEN pllCnt
                        ELSE IF inSequence THEN Min2(pllCnt + 1, PllTicks)
                        ELSE IF seqValid THEN 0
                        ELSE pllCnt
           /\ UNCHANGED <<dcActive, pllWait>>
    ELSE UNCHANGED dc

\* A mutant: the ESM timeout counts without a pending transition.
ECAT_CheckTimerUnguarded ==
    /\ pc = "timer"
    /\ esmTimer' = esmTimer - 1
    /\ DC_CheckWatchdog
    /\ pc' = "sm1"
    /\ UNCHANGED <<alState, errInd, alReg, waitRes, applPending, runs,
                   firstOutputs, escIn, changedSm, sm2Enabled, outputs, todo,
                   call, result, seen>>

\* ECAT_CheckTimer, once every millisecond.
ECAT_CheckTimer ==
    /\ pc = "timer"
    /\ esmTimer' = IF waitRes /\ esmTimer > 0 THEN esmTimer - 1 ELSE esmTimer
    /\ DC_CheckWatchdog
    /\ pc' = "sm1"
    /\ UNCHANGED <<alState, errInd, alReg, waitRes, applPending, runs,
                   firstOutputs, escIn, changedSm, sm2Enabled, outputs, todo,
                   call, result, seen>>

\* ECAT_Main reads the Activate byte of SM1, which acknowledges its change.
ReadSm1 ==
    /\ pc = "sm1"
    /\ seen' = [seen EXCEPT !.sm1 = mbxRunning => 1 \notin badSm]
    /\ changedSm' = IF mbxRunning THEN changedSm \ {1} ELSE changedSm
    /\ pc' = "event"
    /\ UNCHANGED <<esm, runs, firstOutputs, dc, escIn, sm2Enabled, outputs,
                   todo, call, result>>

\* The AL Event register is read, and AL Control when its event is set and no
\* transition is pending; the SM change event then counts as handled.
ReadEvents ==
    /\ pc = "event"
    /\ IF alControl # NoRequest /\ ~waitRes
          THEN /\ Call(alControl, "0", "smcheck")
               /\ alControl' = NoRequest
               /\ seen' = [seen EXCEPT !.smChange = FALSE]
          ELSE /\ seen' = [seen EXCEPT !.smChange = (changedSm # {})]
               /\ pc' = "smcheck"
               /\ UNCHANGED <<call, alControl>>
    /\ UNCHANGED <<esm, runs, firstOutputs, dc, badSm, outEvent, wdExpired,
                   changedSm, sm2Enabled, outputs, todo, result>>

\* AL_ControlInd is called with the state the slave is in, or the main task
\* goes on.
CallWhen(condition, from, state, code, ret, else) ==
    /\ pc = from
    /\ IF condition THEN Call([state |-> state, ack |-> FALSE], code, ret)
                    ELSE pc' = else /\ UNCHANGED call
    /\ seen' = IF from = "smcheck" THEN [seen EXCEPT !.smChange = FALSE] ELSE NotSeen
    /\ UNCHANGED <<esm, runs, firstOutputs, dc, escIn, changedSm, sm2Enabled,
                   outputs, todo, result>>

SmChangeEvent ==
    CallWhen(seen.smChange /\ ~waitRes /\ ~errInd /\ alState # "INIT",
             "smcheck", alState, "0", "AL_ControlRes", "AL_ControlRes")

\* SM1 was found disabled by ReadSm1, whatever it is now.
Sm1Disabled ==
    CallWhen(mbxRunning /\ ~seen.sm1,
             "sm1check", alState, "0", "watchdog", "watchdog")

\* CheckIfEcatError: the state of the watchdog is read ...
ReadWatchdog ==
    GoTo("watchdog", IF wdOn /\ wdExpired THEN "expired" ELSE "sync")

\* A mutant: the expired watchdog is acted upon in SAFEOP, too.
WatchdogExpiredInSafeOp ==
    /\ pc = "expired"
    /\ IF inputRun
          THEN /\ Call([state |-> "SAFEOP", ack |-> FALSE], "SMWATCHDOG", "MainLoop")
               /\ UNCHANGED firstOutputs
          ELSE firstOutputs' = FALSE /\ pc' = "sync" /\ UNCHANGED call
    /\ UNCHANGED <<esm, runs, dc, escIn, changedSm, sm2Enabled, outputs, todo,
                   result, seen>>

\* A mutant: outputs have to be received anew in OP, too.
WatchdogExpiredRestarts ==
    /\ pc = "expired"
    /\ firstOutputs' = FALSE
    /\ pc' = "sync"
    /\ UNCHANGED <<esm, runs, dc, escIn, changedSm, sm2Enabled, outputs, todo,
                   call, result, seen>>

\* ... and acted upon: OP is left, or outputs have to be received anew.
WatchdogExpired ==
    /\ pc = "expired"
    /\ IF outputRun
          THEN /\ Call([state |-> "SAFEOP", ack |-> FALSE], "SMWATCHDOG", "MainLoop")
               /\ UNCHANGED firstOutputs
          ELSE firstOutputs' = FALSE /\ pc' = "sync" /\ UNCHANGED call
    /\ UNCHANGED <<esm, runs, dc, escIn, changedSm, sm2Enabled, outputs, todo,
                   result, seen>>

CheckSync ==
    CallWhen(dcActive /\ outputRun /\ ~(dcRunning /\ seqValid),
             "sync", "SAFEOP", IF dcRunning THEN "SYNCERROR" ELSE "FATALSYNCERROR",
             "MainLoop", "MainLoop")

MainStep ==
    \/ MainLoop \/ ECAT_Application \/ NoTick \/ ECAT_CheckTimer \/ ReadSm1
    \/ ReadEvents \/ SmChangeEvent \/ AL_ControlRes \/ FinishPending
    \/ Sm1Disabled \/ ReadWatchdog \/ WatchdogExpired \/ CheckSync
    \/ AL_ControlInd \/ ServiceStep \/ Conclude

-----------------------------------------------------------------------------
(* The PDI task, and the EtherCAT master through the ESC.                  *)

\* PDI_Isr on an SM2 event.
PDI_Isr ==
    /\ outEvent /\ escInt
    /\ firstOutputs' = TRUE
    /\ outputs' = IF outputRun THEN "live" ELSE outputs
    /\ outEvent' = FALSE
    /\ UNCHANGED <<esm, runs, dc, alControl, badSm, wdExpired, changedSm,
                   sm2Enabled, main>>

\* The master writes AL Control, over an earlier request if it was not read.
WriteAlControl(r) ==
    /\ alControl' = r
    /\ UNCHANGED <<esm, runs, firstOutputs, dc, badSm, outEvent, wdExpired,
                   changedSm, sm2Enabled, outputs, main>>

\* The slave has not answered the master's last request yet.
Unanswered ==
    \/ alControl # NoRequest
    \/ waitRes
    \/ pc \in {"AL_ControlInd", "services"} /\ call.ret = "smcheck"

\* The master breaks or repairs the settings of a Sync Manager.
WriteSm(c) ==
    /\ Patient => ~Unanswered
    /\ badSm' = IF c \in badSm THEN badSm \ {c} ELSE badSm \cup {c}
    /\ changedSm' = changedSm \cup {c}
    /\ UNCHANGED <<esm, runs, firstOutputs, dc, alControl, outEvent, wdExpired,
                   sm2Enabled, outputs, main>>

\* Output process data reach an enabled SM2 and trigger the watchdog.
ProcessData ==
    /\ sm2Enabled /\ 2 \notin badSm
    /\ outEvent' = TRUE
    /\ wdExpired' = FALSE
    /\ UNCHANGED <<esm, runs, firstOutputs, dc, alControl, badSm, changedSm,
                   sm2Enabled, outputs, main>>

WatchdogExpires ==
    /\ ~wdExpired
    /\ wdExpired' = TRUE
    /\ UNCHANGED <<esm, runs, firstOutputs, dc, alControl, badSm, outEvent,
                   changedSm, sm2Enabled, outputs, main>>

Environment ==
    \/ \E r \in Request : WriteAlControl(r)
    \/ \E c \in MasterSm : WriteSm(c)
    \/ ProcessData \/ WatchdogExpires

-----------------------------------------------------------------------------

\* After ECAT_Init, with the Sync Managers as the master has left them.
Init ==
    /\ alState = "INIT" /\ errInd = FALSE
    /\ alReg = [state |-> "INIT", err |-> FALSE, code |-> "0"]
    /\ waitRes = FALSE /\ applPending = FALSE /\ esmTimer = 0
    /\ mbxRunning = FALSE /\ bootMode = FALSE
    /\ inputRun = FALSE /\ outputRun = FALSE
    /\ firstOutputs = FALSE /\ escInt = FALSE /\ wdOn = FALSE
    /\ dcActive = FALSE /\ dcRunning = FALSE /\ seqValid = FALSE
    /\ pllWait = FALSE /\ pllCnt = 0
    /\ alControl = NoRequest
    /\ badSm \in SUBSET MasterSm /\ changedSm = {}
    /\ sm2Enabled = FALSE /\ outEvent = FALSE /\ wdExpired = FALSE
    /\ outputs = "reset"
    /\ pc = "MainLoop" /\ todo = << >> /\ result = "0"
    /\ call = NoCall /\ seen = NotSeen

Next == MainStep \/ PDI_Isr \/ Environment

Spec == Init /\ [][Next]_vars

\* The main task is never blocked for ever, and the millisecond timer it polls
\* runs on.  Nothing is assumed of the PDI task and of the master.
FairSpec == Spec /\ WF_vars(MainStep) /\ SF_vars(ECAT_CheckTimer)

-----------------------------------------------------------------------------
(* Properties.                                                             *)

ErrorCode == {"INVALIDMBXCFG", "INVALIDMBXCFGINBOOT", "INVALIDSMINCFG",
              "INVALIDSMOUTCFG", "INVALIDOUTPUTMAPPING", "INVALIDALCONTROL",
              "UNKNOWNALCONTROL", "EE_ERROR", "INVALIDWDCFG", "DCINVALIDSYNCCFG",
              "SMWATCHDOG", "NOSYNCERROR", "SYNCERROR", "FATALSYNCERROR"}

ServiceName == {"APPL_StopOutputHandler", "ClearFirstOutputs", "ClearOutputRun",
                "StopInputHandler", "MBX_StopMailboxHandler", "EnableSm2",
                "MBX_StartMailboxHandler", "StartBoot", "StopBoot",
                "StartInputHandler", "ApplCalled", "SetInputRun", "StartOutputHandler",
                "FallBack"}

TypeOK ==
    /\ alState \in State /\ errInd \in BOOLEAN
    /\ alReg \in [state : State, err : BOOLEAN, code : ErrorCode \cup {"0"}]
    /\ waitRes \in BOOLEAN /\ applPending \in BOOLEAN /\ esmTimer \in -1 .. MaxEsm
    /\ mbxRunning \in BOOLEAN /\ bootMode \in BOOLEAN
    /\ inputRun \in BOOLEAN /\ outputRun \in BOOLEAN
    /\ firstOutputs \in BOOLEAN /\ escInt \in BOOLEAN /\ wdOn \in BOOLEAN
    /\ dcActive \in BOOLEAN /\ dcRunning \in BOOLEAN /\ seqValid \in BOOLEAN
    /\ pllWait \in BOOLEAN /\ pllCnt \in 0 .. PllTicks
    /\ alControl \in Request \cup {NoRequest}
    /\ badSm \subseteq MasterSm /\ changedSm \subseteq MasterSm
    /\ sm2Enabled \in BOOLEAN /\ outEvent \in BOOLEAN /\ wdExpired \in BOOLEAN
    /\ outputs \in {"reset", "live"}
    /\ pc \in {"MainLoop", "ECAT_Application", "timer", "sm1", "event", "smcheck",
               "AL_ControlRes", "op", "reject", "sm1check", "watchdog", "expired",
               "sync", "AL_ControlInd", "services"}
    /\ todo \in Seq(ServiceName)
    /\ call \in [state : State \cup {Unknown}, ack : BOOLEAN,
                 code : ErrorCode \cup {"0"},
                 ret : {"smcheck", "AL_ControlRes", "watchdog", "MainLoop"}]
    /\ result \in ErrorCode \cup {"0", "INWORK", "NOSTATECHANGE"}
    /\ seen \in [sm1 : BOOLEAN, smChange : BOOLEAN]

\* Between two rounds of MainLoop the AL Status register tells the master
\* what state the slave is in and whether an error stands; the code says so
\* too, and there is never an error in OP.  Only an acknowledged error stays
\* in the register until the pending transition is decided.
StatusRegisterHonest ==
    pc = "MainLoop" =>
        /\ alReg.state = alState
        /\ alReg.err = errInd \/ (waitRes /\ alReg.err)
        /\ alReg.err = (alReg.code # "0")
        /\ errInd => alState # "OP"

\* Between two rounds of MainLoop the flags by which the PDI task decides what
\* to do agree with the state (ecatslv.h: bEcatOutputUpdateRunning "indicates
\* the OP state", bEcatInputUpdateRunning "the SAFEOP or OP state"), and
\* everything a higher state has started is stopped below it.
FlagsFollowState ==
    pc = "MainLoop" =>
        /\ outputRun = (alState = "OP")
        /\ inputRun = (alState \in {"SAFEOP", "OP"})
        /\ mbxRunning = (alState # "INIT")
        /\ bootMode = (alState = "BOOT")
        /\ escInt \/ dcActive => inputRun

\* AL_ControlRes decides by nEcatStateTrans, whatever the state is by then:
\* it is sound because nothing else ends a state in which SAFEOP_2_OP pends.
PendingMeansSafeOp ==
    waitRes /\ pc \in {"MainLoop", "AL_ControlRes"} =>
        alState = "SAFEOP" /\ ~errInd /\ ~outputRun /\ applPending /\ esmTimer >= 0

\* A pending transition ends in OP or with an error the master can see.  The
\* one exception: ECAT_Main read SM1 disabled before it took the request, the
\* Sync Manager was back when the request was checked, and the call for the
\* disabled SM1 asks for the current state, which cancels the transition.
PendingIsAnswered ==
    [][waitRes /\ ~waitRes' =>
         \/ alReg'.state = "OP" \/ alReg'.err
         \/ call.ret = "watchdog"]_vars

\* When no SM change event waits and no error stands, the Sync Managers the
\* state relies on are as they must be: a master that breaks one is noticed.
SmLossDetected ==
    pc = "MainLoop" /\ changedSm = {} /\ ~errInd /\ ~waitRes =>
        /\ alState \in {"PREOP", "SAFEOP", "OP"} => badSm \cap {0, 1} = {}
        /\ alState \in {"SAFEOP", "OP"} => badSm = {}

\* The slave goes up only to the state the master's last request named, and
\* clears an error only when that request acknowledged it, asked for INIT or
\* is the pending one, which was accepted with the acknowledgement.
Rank == [s \in State |-> CASE s = "INIT" -> 0 [] s = "PREOP" -> 1
                           [] s = "BOOT" -> 1 [] s = "SAFEOP" -> 2 [] s = "OP" -> 3]

UpOnlyOnRequest ==
    [][/\ Rank[alReg'.state] > Rank[alReg.state]
            => /\ call.ret = "smcheck" /\ call.state = alReg'.state
               /\ Rank[alReg'.state] = Rank[alReg.state] + 1
       /\ alReg.err /\ ~alReg'.err =>
            call.ack \/ call.state = "INIT" \/ waitRes]_vars

\* The outputs are reset when OP is left (ecatappl.c: "the outputs should be
\* reset to a safe state, when the state OP is left").
OutputsResetOutsideOp ==
    pc = "MainLoop" /\ outputs = "live" => alState = "OP"

\* Every AL Control request is taken up, even behind a transition that pends
\* on outputs or clocks that never come.
RequestTaken ==
    alControl # NoRequest ~> pc = "AL_ControlInd" /\ call.ret = "smcheck"

\* A watchdog that stays expired takes the slave out of OP.
WatchdogStopsOutputs ==
    outputRun /\ wdOn /\ wdExpired ~> ~outputRun \/ ~wdExpired
=============================================================================
