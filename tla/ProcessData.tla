---------------------------- MODULE ProcessData ----------------------------
(***************************************************************************)
(* The cyclic process data of Core 0: the main task, the PDI task and the  *)
(* two SYNC tasks call the same mapping functions on the same objects,     *)
(* buffers and Sync Manager locks (ecatappl.c, tiescappl.c, ethercat_app.c,*)
(* tieschw.c, tiescbsp.c, tiescutils.c).  All four share one processor     *)
(* under fixed priorities: a task runs only while every task of a higher   *)
(* priority waits.  DISABLE_ESC_INT and ENABLE_ESC_INT are empty macros    *)
(* (tieschw.h), so nothing else keeps the tasks apart.                     *)
(*                                                                         *)
(* The device has inputs and outputs, both PDOs are assigned.  The data    *)
(* are not kept: what happens to them shows in which task is where in      *)
(* which call, and in the buffers and locks it uses.  The supervision of   *)
(* the SYNC signals and of the order of SM2 and Sync0 events decides only  *)
(* whether OP is reached and kept: both may happen at any time.            *)
(***************************************************************************)
EXTENDS Integers, Sequences, Functions

CONSTANT DcSettings     \* DC registers and user settings the master may choose from

Task  == {"main", "pdi", "sync0", "sync1"}

Priority == [main |-> 4, pdi |-> 6, sync0 |-> 8, sync1 |-> 8]

ASSUME ProcessDataAssumption ==
    DcSettings \subseteq
         [unit : BOOLEAN, sync0 : BOOLEAN, sync1 : BOOLEAN, cycle : Nat, shift : Nat,
          user : {"none", "FREERUN", "SM"},     \* bSyncSetByUser and the type set
          mapped : BOOLEAN,     \* ESC_SYNC0_MAPPED_TO_ALEVENT, ESC_SYNC1_...
          ack : BOOLEAN]        \* pulse length 0: the signals are acknowledged

VARIABLES
    conf,       \* what the master configured, fixed
    esm,        \* the state as the main task steps through it
    escInt, dcActive, inRun, outRun, first,  \* bEscIntEnabled ...
    sync,       \* sync types, LatchInputSync0Value and its counter
    todo,       \* calls each task still has to make
    at,         \* the input buffer a task addresses
    event, al,  \* tasks with an interrupt to serve, SYNC bits of the AL event
    sm2, sm3,   \* Sync Managers: lock_state; event and newer frame; buffers
    sem, cmd    \* semcmdlow_object and the command in front of the firmware

flags == <<escInt, dcActive, inRun, outRun, first>>
esc   == <<event, al, sm2, sm3, sem, cmd>>
vars  == <<conf, esm, flags, sync, todo, at, esc>>

-----------------------------------------------------------------------------
(* Synchronisation settings, from the DC registers: StartInputHandler.     *)

Subordinated(c) == c.unit /\ c.sync0 /\ c.sync1 /\ c.shift > 0 /\ c.shift >= c.cycle

\* Configurations StartInputHandler refuses.
DcInvalid(c) == c.unit /\ ~c.sync0

OutputSync(c) == IF c.user # "none" THEN c.user
                 ELSE IF ~c.unit THEN "SM"
                 ELSE IF Subordinated(c) THEN "DC1" ELSE "DC0"

InputSync(c)  == IF c.user # "none" THEN IF c.user = "SM" THEN "SM2" ELSE c.user
                 ELSE IF ~c.unit THEN "SM2"
                 ELSE IF c.sync1 THEN "DC1" ELSE "DC0"

\* LatchInputSync0Value: the Sync0 event on which inputs are mapped.
LatchValue(c) ==
    IF Subordinated(c)
    THEN (c.shift + c.cycle) \div c.cycle
           + (IF (c.shift + c.cycle) % c.cycle > 0 THEN 1 ELSE 0)
    ELSE IF InputSync(c) # "DC1" THEN 1 ELSE 0

SyncOf(c) == [out |-> OutputSync(c), inp |-> InputSync(c),
              latch |-> LatchValue(c), latched |-> 0]

SyncOff(s) == [s EXCEPT !.latch = 0, !.latched = 0]

-----------------------------------------------------------------------------
(* The calls a task still has to make.  A step takes the first one off and *)
(* puts the calls it leads to in its place.                                *)

Op(name) == <<name, 0>>

PDO_OutputMapping == << Op("LockOutputs") >>
HW_EscReadIsr == << Op("CopyOutputs"), Op("CompleteOutputs") >>
\* Mutant: only the first byte is read.
TouchFirstByte == << Op("TouchFirst") >>
TouchOutputs == << Op("TouchFirst"), Op("TouchLast") >>
APPL_OutputMapping == << Op("Exchange") >>
fsoe_od_apply_tx_wire == << <<"ApplyReply", 1>>, <<"ApplyReply", 2>> >>
ECAT_Application == << <<"APPL_Application", 1>>, <<"APPL_Application", 2>> >>
APPL_InputMapping == << <<"Gather", 1>>, <<"Gather", 2>> >>
PDO_InputMapping == APPL_InputMapping \o << Op("LockInputs") >>
HW_EscWriteIsr == << Op("CopyInputs"), Op("CompleteInputs") >>
PDO_ResetOutputs == << <<"ResetTx", 1>>, <<"ResetTx", 2>> >>
StopOutputs == PDO_ResetOutputs \o << Op("ClearFirst"), Op("ClearOutRun") >>

Sync0Task == << Op("Sync0_Isr"), <<"SyncAck", 1>> >>
Sync1Task == << Op("Sync1_Isr"), <<"SyncAck", 2>> >>

TaskMain(t) == CASE t = "pdi"   -> << Op("PDI_Isr") >>
                 [] t = "sync0" -> Sync0Task
                 [] t = "sync1" -> Sync1Task

When(cond, calls) == IF cond THEN calls ELSE << >>

\* The task waits: for an event, for the semaphore, or for the firmware.
Waiting(t) ==
    IF todo[t] = << >> THEN t \in {"pdi", "sync0", "sync1"} \ event
    ELSE \/ Head(todo[t])[1] = "Command" /\ sem # "free"
         \/ Head(todo[t])[1] = "AwaitAck" /\ cmd # 0

CanRun(t) == \A u \in Task : Priority[u] > Priority[t] => Waiting(u)

Calls(t, op)   == todo[t] # << >> /\ Head(todo[t]) = op /\ CanRun(t)
Goes(t, calls) == todo' = [todo EXCEPT ![t] = calls \o Tail(@)]

-----------------------------------------------------------------------------
(* Outputs: from the buffer of Sync Manager 2 to the objects.              *)

\* bsp_get_process_data_address: a lock that some task holds is taken for the
\* caller's own; otherwise the buffer must be available.  If it stays locked
\* for all retries the address is 0: the access is skipped, and the outputs
\* are mapped from what aPdOutputData still holds.
LockOutputs(t) ==
    /\ Calls(t, Op("LockOutputs"))
    /\ IF sm2.lock # "finish"
       THEN /\ sm2' = [sm2 EXCEPT !.lock = "start"]
            /\ Goes(t, HW_EscReadIsr \o APPL_OutputMapping)
       ELSE UNCHANGED sm2 /\ Goes(t, APPL_OutputMapping)
    /\ UNCHANGED <<conf, esm, flags, sync, at, event, al, sm3, sem, cmd>>

\* bsp_process_data_access_complete, the access has reached the last byte.
CompleteOutputs(t) ==
    /\ Calls(t, Op("CompleteOutputs"))
    /\ sm2' = [sm2 EXCEPT !.lock = IF @ = "start" THEN "finish" ELSE @]
    /\ Goes(t, << >>)
    /\ UNCHANGED <<conf, esm, flags, sync, at, event, al, sm3, sem, cmd>>

\* Outputs do not run: the first and the last byte are read to acknowledge the
\* event.
TouchByte(t) ==
    /\ \E o \in {"TouchFirst", "TouchLast"} :
          /\ Calls(t, Op(o))
          /\ sm2' = [sm2 EXCEPT !.lock = IF @ = "finish" \/ o = "TouchLast"
                                         THEN "finish" ELSE "start"]
    /\ Goes(t, << >>)
    /\ UNCHANGED <<conf, esm, flags, sync, at, event, al, sm3, sem, cmd>>

\* manage_pdo_rx and manage_pdo_fsoe_rx; fsoe_ipc_master_exchange returns with
\* the answer or after a timeout.
Exchange(t) ==
    /\ Calls(t, Op("Exchange"))
    /\ \E calls \in {fsoe_od_apply_tx_wire, << >>} : Goes(t, calls)
    /\ UNCHANGED <<conf, esm, flags, sync, at, esc>>

\* Steps that only move data: the bytes of a buffer, the answer to 0x60F0 word
\* by word, the application from 0x7xxx to 0x6xxx object by object, 0x60F0 to
\* aPdInputData word by word.
Copies(t) ==
    /\ \E o \in Range(HW_EscReadIsr \o fsoe_od_apply_tx_wire \o ECAT_Application
                      \o APPL_InputMapping \o HW_EscWriteIsr \o PDO_ResetOutputs)
                \ {Op("CompleteOutputs"), Op("CompleteInputs")} : Calls(t, o)
    /\ Goes(t, << >>)
    /\ UNCHANGED <<conf, esm, flags, sync, at, esc>>

-----------------------------------------------------------------------------
(* Inputs: into the buffer of Sync Manager 3.                              *)

LockInputs(t) ==
    /\ Calls(t, Op("LockInputs"))
    /\ IF sm3 # "finish"
       THEN /\ sm3' = "start"
            /\ at' = [at EXCEPT ![t] = "host"]
            /\ Goes(t, HW_EscWriteIsr)
       ELSE UNCHANGED <<sm3, at>> /\ Goes(t, << >>)
    /\ UNCHANGED <<conf, esm, flags, sync, event, al, sm2, sem, cmd>>

CompleteInputs(t) ==
    /\ Calls(t, Op("CompleteInputs"))
    /\ sm3' = IF sm3 = "start" THEN "finish" ELSE sm3
    /\ at' = [at EXCEPT ![t] = "none"]
    /\ Goes(t, << >>)
    /\ UNCHANGED <<conf, esm, flags, sync, event, al, sm2, sem, cmd>>

-----------------------------------------------------------------------------
(* The interrupt handlers, called by their tasks; PDI_Isr also calls those *)
(* of Sync0 and Sync1 when the AL Event register shows them.               *)

\* A task wakes up for its event.
WakeUp(t) ==
    /\ t \in event /\ todo[t] = << >> /\ CanRun(t)
    /\ event' = event \ {t}
    /\ todo' = [todo EXCEPT ![t] = TaskMain(t)]
    /\ UNCHANGED <<conf, esm, flags, sync, at, al, sm2, sm3, sem, cmd>>

\* The command a read of bytes of the SYNC status registers (0x98E, 0x98F) leads
\* to: for the first of the two only, if it covers both.  3 is the command of
\* some other register.
bsp_pdi_post_read_indication(bytes) ==
    IF 0 \in bytes THEN 1 ELSE IF 1 \in bytes THEN 2 ELSE 3

\* Nobody changes what the conditions read while the handler runs: the main
\* task has to wait.  One read is to acknowledge both SYNC signals.
PDI_Isr(t) ==
    /\ Calls(t, Op("PDI_Isr"))
    /\ Goes(t, When("sync1" \in al, << Op("Sync1_Isr") >>)
               \o When(escInt /\ sm2.event,
                       << Op("OutputsReceived") >>
                       \o (IF outRun THEN PDO_OutputMapping ELSE TouchOutputs))
               \o When(escInt /\ sync.out = "SM", ECAT_Application)
               \o When(escInt /\ inRun /\ sync.inp \in {"SM", "SM2"}, PDO_InputMapping)
               \o When("sync0" \in al, << Op("Sync0_Isr") >>)
               \o When(al # {}, << <<"Command", bsp_pdi_post_read_indication({0, 1})>> >>))
    /\ UNCHANGED <<conf, esm, flags, sync, at, esc>>

OutputsReceived(t) ==
    /\ Calls(t, Op("OutputsReceived"))
    /\ first' = TRUE
    /\ Goes(t, << >>)
    /\ UNCHANGED <<conf, esm, escInt, dcActive, inRun, outRun, sync, at, esc>>

\* Mutant: the inputs are mapped on every Sync0 event, whoever else maps them.
Sync0AlwaysMaps(t) ==
    /\ Calls(t, Op("Sync0_Isr"))
    /\ Goes(t, When(dcActive, ECAT_Application)
               \o When(dcActive /\ inRun, PDO_InputMapping \o << Op("LatchDone") >>))
    /\ UNCHANGED <<conf, esm, flags, sync, at, esc>>

\* Mutant: the counter is not compared with its end.
Sync0Overcounts(t) ==
    /\ Calls(t, Op("Sync0_Isr"))
    /\ sync' = [sync EXCEPT !.latched = IF dcActive /\ inRun /\ sync.latch > 0
                                        THEN @ + 1 ELSE @]
    /\ Goes(t, When(dcActive, ECAT_Application)
               \o When(sync'.latched = sync.latch, PDO_InputMapping \o << Op("LatchDone") >>))
    /\ UNCHANGED <<conf, esm, flags, at, esc>>

\* Inputs are mapped on the Sync0 event LatchInputSync0Value names.
Sync0_Isr(t) ==
    /\ Calls(t, Op("Sync0_Isr"))
    /\ LET latching == dcActive /\ inRun /\ sync.latch > 0
           latched  == IF latching /\ sync.latch > sync.latched
                       THEN sync.latched + 1 ELSE sync.latched
       IN  /\ sync' = [sync EXCEPT !.latched = latched]
           /\ Goes(t, When(dcActive, ECAT_Application)
                      \o When(latching /\ latched = sync.latch,
                              PDO_InputMapping \o << Op("LatchDone") >>))
    /\ UNCHANGED <<conf, esm, flags, at, esc>>

LatchDone(t) ==
    /\ Calls(t, Op("LatchDone"))
    /\ sync' = IF sync.latch = 1 THEN [sync EXCEPT !.latched = 0] ELSE sync
    /\ Goes(t, << >>)
    /\ UNCHANGED <<conf, esm, flags, at, esc>>

Sync1_Isr(t) ==
    /\ Calls(t, Op("Sync1_Isr"))
    /\ Goes(t, When(inRun /\ sync.inp = "DC1" /\ sync.latch = 0, PDO_InputMapping)
               \o << Op("ClearLatch") >>)
    /\ UNCHANGED <<conf, esm, flags, sync, at, esc>>

ClearLatch(t) ==
    /\ Calls(t, Op("ClearLatch"))
    /\ sync' = [sync EXCEPT !.latched = 0]
    /\ Goes(t, << >>)
    /\ UNCHANGED <<conf, esm, flags, at, esc>>

\* Sync0task and Sync1task acknowledge a signal whose pulse has no length.
SyncAck(t) ==
    /\ \E n \in {1, 2} :
          /\ Calls(t, <<"SyncAck", n>>)
          /\ Goes(t, When(conf.ack, << <<"Command", bsp_pdi_post_read_indication({n - 1})>> >>))
    /\ UNCHANGED <<conf, esm, flags, sync, at, esc>>

\* bsp_send_command_to_firmware: semaphore, command, wait for the answer.
Command(t) ==
    /\ \E n \in {1, 2, 3} :
          /\ Calls(t, <<"Command", n>>)
          /\ sem = "free"
          /\ sem' = t /\ cmd' = n
    /\ Goes(t, << Op("AwaitAck") >>)
    /\ UNCHANGED <<conf, esm, flags, sync, at, event, al, sm2, sm3>>

AwaitAck(t) ==
    /\ Calls(t, Op("AwaitAck"))
    /\ cmd = 0
    /\ sem' = "free"
    /\ Goes(t, << >>)
    /\ UNCHANGED <<conf, esm, flags, sync, at, event, al, sm2, sm3, cmd>>

-----------------------------------------------------------------------------
(* The main task.                                                          *)

\* Mutant: the main task polls for outputs in every mode but DC.
MainLoopPolls ==
    /\ todo["main"] = << >> /\ CanRun("main")
    /\ todo' = [todo EXCEPT !["main"] =
         When(~dcActive, << Op("FreeRunOutputs") >> \o ECAT_Application
                           \o << Op("FreeRunInputs") >>) \o << Op("ECAT_Main") >>]
    /\ UNCHANGED <<conf, esm, flags, sync, at, esc>>

\* One round.  In SM synchronous mode the application is called from here as
\* long as no outputs were received.
MainLoop ==
    /\ todo["main"] = << >> /\ CanRun("main")
    /\ todo' = [todo EXCEPT !["main"] =
         When((~escInt \/ ~first) /\ ~dcActive,
              When(~escInt, << Op("FreeRunOutputs") >>) \o ECAT_Application
                \o << Op("FreeRunInputs") >>)
         \o << Op("ECAT_Main") >>]
    /\ UNCHANGED <<conf, esm, flags, sync, at, esc>>

FreeRunOutputs ==
    /\ Calls("main", Op("FreeRunOutputs"))
    /\ first' = (first \/ sm2.event)
    /\ Goes("main", When(sm2.event /\ outRun, PDO_OutputMapping))
    /\ UNCHANGED <<conf, esm, escInt, dcActive, inRun, outRun, sync, at, esc>>

FreeRunInputs ==
    /\ Calls("main", Op("FreeRunInputs"))
    /\ Goes("main", When(inRun, PDO_InputMapping))
    /\ UNCHANGED <<conf, esm, flags, sync, at, esc>>

\* The rest of a round: nothing for process data, or a register access that
\* needs the firmware.
ECAT_Main ==
    /\ Calls("main", Op("ECAT_Main"))
    /\ \E calls \in { << >>, << <<"Command", bsp_pdi_post_read_indication({})>> >> } : Goes("main", calls)
    /\ UNCHANGED <<conf, esm, flags, sync, at, esc>>

\* PREOP to SAFEOP.  The Sync Managers are enabled, the initial inputs are
\* mapped, then AL_ControlInd sets the event mask and bEcatInputUpdateRunning.
StartInputHandler ==
    /\ Calls("main", Op("ECAT_Main")) /\ esm = "PREOP"
    /\ ~DcInvalid(conf)
    /\ esm' = "SAFEOP"
    /\ first' = FALSE
    /\ escInt' = (OutputSync(conf) # "FREERUN" \/ InputSync(conf) # "FREERUN")
    /\ dcActive' = ({OutputSync(conf), InputSync(conf)} \cap {"DC0", "DC1"} # {})
    /\ sync' = SyncOf(conf)
    /\ Goes("main", PDO_InputMapping \o << Op("SetInputRun") >>)
    /\ UNCHANGED <<conf, inRun, outRun, at, esc>>

SetInputRun ==
    /\ Calls("main", Op("SetInputRun"))
    /\ inRun' = TRUE
    /\ event' \in {event, event \cup (IF escInt /\ sm2.event THEN {"pdi"} ELSE {})}
    /\ Goes("main", << >>)
    /\ UNCHANGED <<conf, esm, escInt, dcActive, outRun, first, sync, at, al, sm2, sm3,
                   sem, cmd>>

\* SAFEOP to OP begins; it ends in AL_ControlRes.
StartOutputHandler ==
    /\ Calls("main", Op("ECAT_Main")) /\ esm = "SAFEOP"
    /\ esm' = "WAIT"
    /\ Goes("main", << >>)
    /\ UNCHANGED <<conf, flags, sync, at, esc>>

\* Outputs were received (and with DC the clocks run): OP.  Otherwise the
\* transition is given up after a while.
AL_ControlRes ==
    /\ Calls("main", Op("ECAT_Main")) /\ esm = "WAIT"
    /\ \/ /\ first
          /\ esm' = "OP" /\ outRun' = TRUE
          /\ Goes("main", << >>)
       \/ /\ esm' = "SAFEOP" /\ UNCHANGED outRun
          /\ Goes("main", << Op("ClearFirst"), Op("ClearOutRun") >>)
    /\ UNCHANGED <<conf, escInt, dcActive, inRun, first, sync, at, esc>>

\* OP to SAFEOP, by the master or by an error that CheckIfEcatError found.
StopOutputHandler ==
    /\ Calls("main", Op("ECAT_Main")) /\ esm = "OP"
    /\ esm' = "SAFEOP"
    /\ Goes("main", StopOutputs)
    /\ UNCHANGED <<conf, flags, sync, at, esc>>

\* Also what CheckIfEcatError does outside OP when the watchdog has expired.
ClearFirst ==
    /\ \/ Calls("main", Op("ClearFirst")) /\ Goes("main", << >>)
       \/ Calls("main", Op("ECAT_Main")) /\ ~outRun /\ Goes("main", << >>)
    /\ first' = FALSE
    /\ UNCHANGED <<conf, esm, escInt, dcActive, inRun, outRun, sync, at, esc>>

ClearOutRun ==
    /\ Calls("main", Op("ClearOutRun"))
    /\ outRun' = FALSE
    /\ Goes("main", << >>)
    /\ UNCHANGED <<conf, esm, escInt, dcActive, inRun, first, sync, at, esc>>

\* SAFEOP to PREOP.
StopInputHandler ==
    /\ Calls("main", Op("ECAT_Main")) /\ esm = "SAFEOP"
    /\ esm' = "PREOP"
    /\ first' = FALSE /\ escInt' = FALSE /\ dcActive' = FALSE
    /\ inRun' = FALSE
    /\ sync' = SyncOff(sync)
    /\ sm2' = [sm2 EXCEPT !.event = FALSE]
    /\ Goes("main", << >>)
    /\ UNCHANGED <<conf, outRun, at, event, al, sm3, sem, cmd>>

-----------------------------------------------------------------------------
(* The firmware and the master.                                            *)

Enabled == esm # "PREOP"

\* A frame with outputs is complete: it is the next image the host sees.
MasterWrites ==
    /\ Enabled
    /\ sm2' = [sm2 EXCEPT !.event = TRUE, !.new = sm2.lock # "available"]
    /\ event' = IF escInt /\ inRun THEN event \cup {"pdi"} ELSE event
    /\ UNCHANGED <<conf, esm, flags, sync, todo, at, al, sm3, sem, cmd>>

\* The host has finished with the outputs; a newer frame takes their place.
OutputsReleased ==
    /\ sm2.lock = "finish"
    /\ sm2' = [lock |-> "available", new |-> FALSE, event |-> sm2.new]
    /\ UNCHANGED <<conf, esm, flags, sync, todo, at, event, al, sm3, sem, cmd>>

\* The inputs go to the master, the host gets another buffer.  A task that
\* still writes has the address of the old one.
InputsReleased ==
    /\ sm3 = "finish"
    /\ sm3' = "available"
    /\ at' = [t \in Task |-> CASE at[t] = "host" -> "master" [] at[t] = "master" -> "host"
                              [] OTHER -> "none"]
    /\ UNCHANGED <<conf, esm, flags, sync, todo, event, al, sm2, sem, cmd>>

FirmwareAnswers ==
    /\ cmd # 0
    /\ cmd' = 0
    /\ al' = al \ (CASE cmd = 1 -> {"sync0"} [] cmd = 2 -> {"sync1"} [] OTHER -> {})
    /\ UNCHANGED <<conf, esm, flags, sync, todo, at, event, sm2, sm3, sem>>

SyncPulse ==
    /\ Enabled /\ conf.unit
    /\ \E s \in (IF conf.sync0 THEN {"sync0"} ELSE {})
                  \cup (IF conf.sync1 THEN {"sync1"} ELSE {}) :
          /\ event' = event \cup {s}
                        \cup (IF conf.mapped /\ inRun THEN {"pdi"} ELSE {})
          /\ al' = IF conf.mapped THEN al \cup {s} ELSE al
    /\ UNCHANGED <<conf, esm, flags, sync, todo, at, sm2, sm3, sem, cmd>>

-----------------------------------------------------------------------------
Init ==
    /\ conf \in DcSettings
    /\ esm = "PREOP"
    /\ escInt = FALSE /\ dcActive = FALSE
    /\ inRun = FALSE /\ outRun = FALSE /\ first = FALSE
    /\ sync = SyncOff(SyncOf(conf))
    /\ todo = [t \in Task |-> << >>]
    /\ at = [t \in Task |-> "none"]
    /\ event = {} /\ al = {}
    /\ sm2 = [lock |-> "available", new |-> FALSE, event |-> FALSE]
    /\ sm3 = "available"
    /\ sem = "free" /\ cmd = 0

Mapping(t) ==
    \/ LockOutputs(t) \/ CompleteOutputs(t) \/ TouchByte(t) \/ Exchange(t)
    \/ Copies(t) \/ LockInputs(t) \/ CompleteInputs(t)

Handler(t) ==
    \/ WakeUp(t) \/ PDI_Isr(t) \/ OutputsReceived(t)
    \/ Sync0_Isr(t) \/ LatchDone(t) \/ Sync1_Isr(t) \/ ClearLatch(t)
    \/ SyncAck(t) \/ Command(t) \/ AwaitAck(t)

Main ==
    \/ MainLoop \/ FreeRunOutputs \/ FreeRunInputs \/ ECAT_Main
    \/ StartInputHandler \/ SetInputRun \/ StartOutputHandler \/ AL_ControlRes
    \/ StopOutputHandler \/ ClearFirst \/ ClearOutRun
    \/ StopInputHandler

Environment == MasterWrites \/ OutputsReleased \/ InputsReleased \/ FirmwareAnswers \/ SyncPulse

Next == (\E t \in Task : Mapping(t) \/ Handler(t)) \/ Main \/ Environment

Spec == Init /\ [][Next]_vars

-----------------------------------------------------------------------------
At(t, op)     == todo[t] # << >> /\ Head(todo[t]) = op
Has(t, names) == \E i \in DOMAIN todo[t] : todo[t][i][1] \in names

\* Core 1 serves one request at a time, and fsoe_ipc_master_exchange keeps its
\* sequence counter and its busy wait without any lock (fsoe_ipc_master.c): two
\* tasks are never in it at the same time, whatever the sync mode.
OneExchange ==
    \A t, u \in Task : At(t, Op("Exchange")) /\ At(u, Op("Exchange")) => t = u

\* The outputs a task is copying stay its own until it has the last byte, so
\* that they come from one frame: neither a newer frame nor another task that
\* took the same lock lets the firmware have the buffer back.
OutputsOwned ==
    \A t \in Task : Has(t, {"CompleteOutputs"}) /\ ~Has(t, {"LockOutputs"})
                      => sm2.lock = "start"

\* The same for the inputs, with two exceptions: PDI_Isr and the SYNC tasks
\* both handle SYNC signals that are mapped to the AL event, and in SM
\* synchronous mode the main task may still be mapping inputs when the PDI task
\* takes over with the first outputs.
InputsOwned ==
    conf.mapped \/ (escInt /\ ~dcActive /\ at["main"] # "none")
    \/ \A t \in Task : at[t] # "none" => at[t] = "host" /\ sm3 = "start"

\* No lock is left behind: with no task inside an access, the buffers are the
\* firmware's or free.
NoLockLeft ==
    /\ (\A t \in Task : ~Has(t, {"CompleteOutputs", "TouchLast"})) => sm2.lock # "start"
    /\ (\A t \in Task : ~Has(t, {"CompleteInputs"})) => sm3 # "start"

\* Outside DC mode the six words of 0x60F0 are never on their way to the master
\* while another task puts the words of a new answer in their place: the master
\* would receive an FSoE image made of two.
RepliesWhole ==
    \A t, u \in Task : ~dcActive => ~ (At(t, <<"Gather", 2>>) /\ At(u, <<"ApplyReply", 2>>))

\* ecatappl.c, MainLoop: ECAT_Application is called "with interrupts disabled,
\* because the SM-event could be generated while executing ECAT_Application".
ApplicationExclusive ==
    ~ (At("main", <<"APPL_Application", 2>>) /\ At("pdi", <<"APPL_Application", 2>>))
=============================================================================
