---------------------------- MODULE EepromProofs ----------------------------
(***************************************************************************)
(* Proofs about EepromEmulation: for every size of the image, every        *)
(* checksum and every number of commands, failures and power cuts, no      *)
(* write is lost between the cache and the flash.                          *)
(***************************************************************************)
EXTENDS EepromEmulation, TLAPS

\* Until the ESC registers are loaded nothing has been written: the cache is
\* what flash holds unless it is foreign, and LEDtask does not run.
StartsClean ==
    main.pc \in {"boot", "load"} => ~updated /\ led.pc = "sleep"
LoadedIsFlash ==
    main.pc = "load" => CrcOk(cache) /\ (env.foreign \/ cache = flash)

IInv == TypeOK /\ StartsClean /\ LoadedIsFlash /\ UnsavedIsMarked

\* The types of the steps, one lemma for the steps of each kind.
LEMMA CrcType == ASSUME NEW img \in Image PROVE CrcOk(img) \in BOOLEAN
  BY DEF CrcOk

LEMMA ZeroIsWord ==
    /\ NWords \in Nat /\ NWords >= 1 /\ 0 \in Words /\ Default[0] \in Vals
    /\ FlushAge \in Nat /\ MaxCmds \in Nat /\ MaxFails \in Nat
    /\ MaxCuts \in Nat /\ MaxStops \in Nat
  <1>1. NWords \in Nat /\ NWords >= 1 /\ 0 \in Words
    BY EepromAssumption DEF Words
  <1> QED BY <1>1, EepromAssumption DEF Image

\* Updates of two fields of a record.
LEMMA MainTwo ==
    ASSUME NEW m \in MainTask
    PROVE  /\ [m EXCEPT !.pc = "flush", !.ptr = 0] \in MainTask
           /\ [m EXCEPT !.pc = "idle", !.ptr = 0] \in MainTask
           /\ [m EXCEPT !.pc = "idle", !.reg = NoError] \in MainTask
  <1> DEFINE n(pc) == [m EXCEPT !.pc = pc]
  <1>1. n("flush") \in MainTask /\ n("idle") \in MainTask BY DEF MainTask
  <1>2. /\ [m EXCEPT !.pc = "flush", !.ptr = 0] = [n("flush") EXCEPT !.ptr = 0]
        /\ [m EXCEPT !.pc = "idle", !.ptr = 0] = [n("idle") EXCEPT !.ptr = 0]
        /\ [m EXCEPT !.pc = "idle", !.reg = NoError]
             = [n("idle") EXCEPT !.reg = NoError]
    BY DEF MainTask
  <1>3. NoError \in Control /\ 0 \in 0 .. NWords
    BY ZeroIsWord DEF NoError, Control, Cmds
  <1> HIDE DEF n
  <1> QED BY <1>1, <1>2, <1>3 DEF MainTask

LEMMA EnvTwo ==
    ASSUME NEW e \in Env, NEW b \in BOOLEAN, e.fails < MaxFails
    PROVE  /\ [e EXCEPT !.fails = @ + 1, !.torn = TRUE] \in Env
           /\ [e EXCEPT !.fails = @ + 1, !.foreign = b] \in Env
  <1> DEFINE n == [e EXCEPT !.fails = @ + 1]
  <1>1. n \in Env BY ZeroIsWord DEF Env
  <1>2. /\ [e EXCEPT !.fails = @ + 1, !.torn = TRUE] = [n EXCEPT !.torn = TRUE]
        /\ [e EXCEPT !.fails = @ + 1, !.foreign = b] = [n EXCEPT !.foreign = b]
    BY DEF Env
  <1> HIDE DEF n
  <1> QED BY <1>1, <1>2 DEF Env

LEMMA DoneType ==
    ASSUME NEW reg \in Control, NEW cmd \in Cmds, cmd # "unknown",
           cache \in Image
    PROVE  Done(reg, cmd) \in Control
  <1>1. CrcOk(cache) \in BOOLEAN BY CrcType
  <1>2. CASE cmd \in {"idle", "read"} BY <1>2 DEF Done, Control
  <1>3. CASE cmd = "write" BY <1>3 DEF Done, Control
  <1>4. CASE cmd = "reload" BY <1>1, <1>4 DEF Done, Control
  <1> QED BY <1>2, <1>3, <1>4 DEF Cmds

\* What is written to the cache or read from it lies inside it: the master's
\* addresses are words of the image or refused (Accepted).
LEMMA AcceptedInside ==
    ASSUME TypeOK, NEW cmd, cmd \in {"read", "write"}, Accepted(cmd)
    PROVE  regs.addr \in Words
  BY EepromAssumption DEF Accepted, TypeOK, Words, Regs

LEMMA InitIInv == Init => IInv
  <1> SUFFICES ASSUME Init PROVE IInv OBVIOUS
  <1> USE ZeroIsWord, EepromAssumption DEF Regs, MainTask, LedTask, Env
  <1>1. NoError \in Control BY DEF NoError, Control, Cmds
  <1>2. updated \in BOOLEAN BY DEF Init
  <1>3. TypeOK BY <1>1, <1>2 DEF Init, TypeOK, Image
  <1> QED BY <1>3 DEF Init, IInv, StartsClean, LoadedIsFlash, UnsavedIsMarked

\* The steps that start the device.
LEMMA StartStep ==
    ASSUME IInv,
           bsp_eeprom_emulation_init \/ bsp_eeprom_load_esc_registers \/ PowerCut
    PROVE  IInv'
  <1> USE ZeroIsWord, EepromAssumption DEF Regs, MainTask, LedTask, Env
  <1>0. NoError \in Control BY DEF NoError, Control, Cmds
  <1>1. CASE bsp_eeprom_emulation_init
    <2>0. cache' \in Image
      BY <1>1 DEF IInv, TypeOK, bsp_eeprom_emulation_init
    <2>1. TypeOK'
      <3>1. PICK readable \in IF env.fails < MaxFails THEN BOOLEAN ELSE {TRUE} :
              env' = [env EXCEPT !.fails = IF readable THEN @ ELSE @ + 1,
                                 !.foreign = ~(readable /\ Usable(flash))]
        BY <1>1 DEF bsp_eeprom_emulation_init
      <3>2. Usable(flash) \in BOOLEAN BY DEF Usable
      <3>3. CASE readable = TRUE
        BY <1>1, <2>0, <3>1, <3>2, <3>3
           DEF IInv, TypeOK, bsp_eeprom_emulation_init
      <3>4. CASE readable = FALSE /\ env.fails < MaxFails
        <4>1. env' = [env EXCEPT !.fails = @ + 1, !.foreign = TRUE]
          BY <3>1, <3>2, <3>4
        <4>2. env' \in Env BY <3>4, <4>1, EnvTwo DEF IInv, TypeOK
        <4> QED BY <1>1, <2>0, <4>2
                DEF IInv, TypeOK, bsp_eeprom_emulation_init
      <3> QED BY <3>1, <3>3, <3>4
    <2>2. CrcOk(cache)' /\ (env'.foreign \/ cache' = flash')
      BY <1>1 DEF IInv, TypeOK, bsp_eeprom_emulation_init, CrcOk, Usable
    <2> QED BY <1>1, <2>1, <2>2 DEF IInv, StartsClean, LoadedIsFlash,
              UnsavedIsMarked, bsp_eeprom_emulation_init, TypeOK
  <1>2. CASE bsp_eeprom_load_esc_registers
    <2>1. TypeOK'
      BY <1>2, CrcType DEF IInv, TypeOK, bsp_eeprom_load_esc_registers, Control
    <2>2. env.foreign \/ Unsaved' = {}
      BY <1>2 DEF IInv, LoadedIsFlash, bsp_eeprom_load_esc_registers, Unsaved
    <2> QED BY <1>2, <2>1, <2>2 DEF IInv, StartsClean, LoadedIsFlash,
              UnsavedIsMarked, bsp_eeprom_load_esc_registers, TypeOK
  <1>3. CASE PowerCut
    <2>0. updated' \in BOOLEAN BY <1>3 DEF PowerCut
    <2>1. env' \in Env /\ env'.torn = FALSE
      <3> DEFINE n == [env EXCEPT !.cuts = @ + 1]
      <3>1. n \in Env BY <1>3 DEF IInv, TypeOK, PowerCut
      <3>2. env' = [n EXCEPT !.torn = FALSE]
        BY <1>3 DEF IInv, TypeOK, PowerCut
      <3> HIDE DEF n
      <3> QED BY <3>1, <3>2
    <2>2. TypeOK' BY <1>0, <1>3, <2>0, <2>1 DEF IInv, TypeOK, PowerCut, Image
    <2> QED BY <1>3, <2>2 DEF IInv, StartsClean, LoadedIsFlash,
              UnsavedIsMarked, PowerCut
  <1> QED BY <1>1, <1>2, <1>3

\* The steps of a command.
LEMMA CommandStep ==
    ASSUME IInv, Command \/ EEPROM_CommandHandler \/ WriteControl
                         \/ SetUpdated \/ SetUpdatedTime \/ CommandAck
    PROVE  IInv'
  <1> USE ZeroIsWord, EepromAssumption DEF Regs, MainTask, LedTask, Env
  <1>0. NoError \in Control BY DEF NoError, Control, Cmds
  <1>1. CASE Command
    <2> SUFFICES ASSUME NEW cmd \in Cmds, NEW addr \in Words \cup {EscSize + 1},
                        NEW val \in Vals, NEW enable \in BOOLEAN,
                        MasterCommand(cmd, addr, val, enable)
                 PROVE  IInv'
      <3>1. regs.data \in Vals BY DEF IInv, TypeOK
      <3>2. {"read", "write"} \subseteq Cmds BY DEF Cmds
      <3> QED BY <1>1, <3>1, <3>2 DEF Command
    <2>1. TypeOK' BY DEF IInv, TypeOK, MasterCommand, Control
    <2>2. Unsaved' = Unsaved /\ LedPending' = LedPending
            /\ MainPending' = MainPending /\ AboutToMark' = AboutToMark
      BY DEF MasterCommand, Unsaved, LedPending, MainPending, AboutToMark
    <2> QED BY <2>1, <2>2 DEF IInv, TypeOK, StartsClean, LoadedIsFlash,
              UnsavedIsMarked, MasterCommand
  <1>2. CASE EEPROM_CommandHandler
    <2> DEFINE cmd == regs.ctrl.cmd
    <2>0. cmd \in Cmds /\ main.pc = "idle" BY <1>2 DEF IInv, TypeOK, Control, EEPROM_CommandHandler
    <2>1. main'.reg \in Control
      <3>1. CASE Accepted(cmd)
        BY <1>2, <2>0, <3>1, DoneType
           DEF IInv, TypeOK, EEPROM_CommandHandler, Accepted, Control
      <3>2. CASE ~Accepted(cmd)
        BY <1>2, <3>2 DEF IInv, TypeOK, EEPROM_CommandHandler, Failed, Control
      <3> QED BY <3>1, <3>2
    <2>2. cache' \in Image /\ regs' \in Regs
      BY <1>2, AcceptedInside
         DEF IInv, TypeOK, EEPROM_CommandHandler, Image
    <2>3. TypeOK' BY <1>2, <2>1, <2>2 DEF IInv, TypeOK, EEPROM_CommandHandler
    <2>4. CASE cmd = "write" /\ Accepted(cmd)
      <3>1. main'.pc = "control" /\ main'.reg = Done(regs.ctrl, "write")
        BY <1>2, <2>4 DEF EEPROM_CommandHandler, IInv, TypeOK
      <3>2. AboutToMark'
        BY <3>1, <2>4 DEF AboutToMark, Done, IInv, TypeOK, Control
      <3> QED BY <1>2, <2>3, <3>1, <3>2 DEF IInv, TypeOK, StartsClean,
                LoadedIsFlash, UnsavedIsMarked
    <2>5. CASE ~(cmd = "write" /\ Accepted(cmd))
      <3>1. cache' = cache /\ main'.pc = "control"
        BY <1>2, <2>5 DEF EEPROM_CommandHandler, IInv, TypeOK
      <3>2. Unsaved' = Unsaved /\ LedPending' = LedPending
              /\ MainPending' = {} /\ MainPending = {} /\ ~AboutToMark
        BY <1>2, <2>0, <3>1 DEF EEPROM_CommandHandler, Unsaved, LedPending,
             MainPending, AboutToMark
      <3> QED BY <1>2, <2>0, <2>3, <3>1, <3>2 DEF IInv, TypeOK, StartsClean,
                LoadedIsFlash, UnsavedIsMarked, EEPROM_CommandHandler
    <2> QED BY <2>4, <2>5
  <1>3. CASE WriteControl
    <2>1. TypeOK' BY <1>3 DEF IInv, TypeOK, WriteControl
    <2>2. Unsaved' = Unsaved /\ LedPending' = LedPending
            /\ MainPending' = {} /\ MainPending = {}
            /\ AboutToMark' = AboutToMark
      BY <1>3 DEF WriteControl, Unsaved, LedPending, MainPending, AboutToMark,
                  IInv, TypeOK
    <2> QED BY <1>3, <2>1, <2>2 DEF IInv, TypeOK, StartsClean, LoadedIsFlash,
              UnsavedIsMarked, WriteControl
  <1>4. CASE SetUpdated
    <2>1. TypeOK' BY <1>4 DEF IInv, TypeOK, SetUpdated
    <2> QED BY <1>4, <2>1 DEF IInv, TypeOK, StartsClean, LoadedIsFlash,
              UnsavedIsMarked, SetUpdated
  <1>5. CASE SetUpdatedTime \/ CommandAck
    <2>0. CommandAck => main' \in MainTask
      BY <1>0, MainTwo DEF IInv, TypeOK, CommandAck
    <2>1. TypeOK'
      <3>1. CASE SetUpdatedTime BY <3>1 DEF IInv, TypeOK, SetUpdatedTime
      <3>2. CASE CommandAck BY <2>0, <3>2 DEF IInv, TypeOK, CommandAck
      <3> QED BY <1>5, <3>1, <3>2
    <2>2. Unsaved' = Unsaved /\ LedPending' = LedPending
            /\ MainPending' = {} /\ MainPending = {} /\ ~AboutToMark
      BY <1>5 DEF SetUpdatedTime, CommandAck, Unsaved, LedPending, MainPending,
                  AboutToMark, IInv, TypeOK
    <2> QED BY <1>5, <2>1, <2>2 DEF IInv, TypeOK, StartsClean, LoadedIsFlash,
              UnsavedIsMarked, SetUpdatedTime, CommandAck
  <1> QED BY <1>1, <1>2, <1>3, <1>4, <1>5

\* A page that was written is no longer unsaved.
LEMMA PageSaved ==
    ASSUME TypeOK, NEW ptr \in 0 .. NWords - 1, WritePage(ptr, TRUE),
           cache' = cache
    PROVE  /\ Unsaved' = Unsaved \ {ptr}
           /\ flash' \in Image /\ env' = env
  BY DEF TypeOK, WritePage, Unsaved, Image, Words

\* The steps of the two flushes.
LEMMA FlushStep ==
    ASSUME IInv, StopInputHandler \/ StopClear \/ StopFlush
                 \/ LedCheck \/ LedClear \/ LedFlush
    PROVE  IInv'
  <1> USE ZeroIsWord, EepromAssumption DEF Regs, MainTask, LedTask, Env
  <1>1. CASE StopInputHandler
    <2>1. TypeOK' BY <1>1 DEF IInv, TypeOK, StopInputHandler
    <2>2. Unsaved' = Unsaved /\ LedPending' = LedPending
            /\ MainPending' = MainPending /\ ~AboutToMark
      BY <1>1 DEF StopInputHandler, Unsaved, LedPending, MainPending,
                  AboutToMark, IInv, TypeOK
    <2> QED BY <1>1, <2>1, <2>2 DEF IInv, TypeOK, StartsClean, LoadedIsFlash,
              UnsavedIsMarked, StopInputHandler
  <1>2. CASE StopClear
    <2>0. updated' \in BOOLEAN /\ main' \in MainTask
      <3>1. updated' \in BOOLEAN BY <1>2 DEF StopClear
      <3>2. main' \in MainTask BY <1>2, MainTwo DEF StopClear, IInv, TypeOK
      <3> QED BY <3>1, <3>2
    <2>1. TypeOK' BY <1>2, <2>0 DEF IInv, TypeOK, StopClear
    <2>2. Unsaved' \subseteq MainPending'
      BY <1>2 DEF StopClear, Unsaved, MainPending, IInv, TypeOK, Words
    <2> QED BY <1>2, <2>1, <2>2 DEF IInv, TypeOK, StartsClean, LoadedIsFlash,
              UnsavedIsMarked, StopClear
  <1>3. CASE StopFlush
    <2>0. main.pc = "flush" /\ UNCHANGED <<cache, updated, led, regs, age>>
          /\ ~AboutToMark
      BY <1>3 DEF StopFlush, AboutToMark
    <2>1. CASE main.ptr < NWords /\ main' = [main EXCEPT !.ptr = @ + 1]
               /\ WritePage(main.ptr, TRUE)
      <3>1. main.ptr \in 0 .. NWords - 1 BY <2>1 DEF IInv, TypeOK
      <3>2. /\ Unsaved' = Unsaved \ {main.ptr}
            /\ flash' \in Image /\ env' = env
        BY <2>0, <2>1, <3>1, PageSaved DEF IInv
      <3>3. TypeOK' BY <2>0, <2>1, <3>1, <3>2 DEF IInv, TypeOK
      <3>4. LedPending' = LedPending
            /\ MainPending' = MainPending \ {main.ptr}
        BY <2>0, <2>1, <3>1 DEF LedPending, MainPending, IInv, TypeOK
      <3> QED BY <2>0, <2>1, <3>2, <3>3, <3>4 DEF IInv, TypeOK, StartsClean,
                LoadedIsFlash, UnsavedIsMarked
    <2>2. CASE main' = [main EXCEPT !.ptr = NWords] /\ env.fails < MaxFails
               /\ WritePage(main.ptr, FALSE)
      <3>0. env' \in Env BY <2>2, EnvTwo DEF IInv, TypeOK, WritePage
      <3>1. TypeOK' BY <2>0, <2>2, <3>0 DEF IInv, TypeOK, WritePage
      <3> QED BY <2>0, <2>2, <3>1 DEF IInv, TypeOK, StartsClean,
                LoadedIsFlash, UnsavedIsMarked, WritePage
    <2>3. CASE main.ptr = NWords /\ UNCHANGED <<flash, env>>
               /\ main' = [main EXCEPT !.pc = "idle", !.ptr = 0]
      <3>0. main' \in MainTask BY <2>3, MainTwo DEF IInv, TypeOK
      <3>1. TypeOK' BY <2>0, <2>3, <3>0 DEF IInv, TypeOK
      <3>2. LedPending' = LedPending /\ MainPending = {} /\ Unsaved' = Unsaved
        BY <2>0, <2>3 DEF LedPending, MainPending, Unsaved
      <3> QED BY <2>0, <2>3, <3>1, <3>2 DEF IInv, TypeOK, StartsClean,
                LoadedIsFlash, UnsavedIsMarked
    <2> QED
      <3>1. ASSUME NEW ok \in Transfers, main.ptr < NWords,
                   WritePage(main.ptr, ok),
                   main' = [main EXCEPT !.ptr = IF ok THEN @ + 1 ELSE NWords]
            PROVE  IInv'
        <4>1. CASE ok = TRUE BY <2>1, <3>1, <4>1
        <4>2. CASE ok = FALSE BY <2>2, <3>1, <4>2 DEF Transfers
        <4> QED BY <3>1, <4>1, <4>2 DEF Transfers
      <3> QED BY <1>3, <2>3, <3>1 DEF StopFlush
  <1>4. CASE LedCheck
    <2>1. TypeOK' BY <1>4 DEF IInv, TypeOK, LedCheck
    <2> QED BY <1>4, <2>1 DEF IInv, TypeOK, StartsClean, LoadedIsFlash,
              UnsavedIsMarked, LedCheck
  <1>5. CASE LedClear
    <2>0. updated' \in BOOLEAN BY <1>5 DEF LedClear
    <2>1. TypeOK' BY <1>5, <2>0 DEF IInv, TypeOK, LedClear
    <2>2. Unsaved' \subseteq LedPending'
      BY <1>5 DEF LedClear, Unsaved, LedPending, IInv, TypeOK, Words
    <2> QED BY <1>5, <2>1, <2>2 DEF IInv, TypeOK, StartsClean, LoadedIsFlash,
              UnsavedIsMarked, LedClear
  <1>6. CASE LedFlush
    <2>0. led.pc = "flush" /\ UNCHANGED <<cache, updated, main, regs, age>>
          /\ main.pc \notin {"boot", "load"} /\ AboutToMark' = AboutToMark
      BY <1>6 DEF LedFlush, IInv, StartsClean, AboutToMark
    <2>1. CASE led.ptr < NWords /\ led' = [led EXCEPT !.ptr = @ + 1]
               /\ WritePage(led.ptr, TRUE)
      <3>1. led.ptr \in 0 .. NWords - 1 BY <2>1 DEF IInv, TypeOK
      <3>2. /\ Unsaved' = Unsaved \ {led.ptr}
            /\ flash' \in Image /\ env' = env
        BY <2>0, <2>1, <3>1, PageSaved DEF IInv
      <3>3. TypeOK' BY <2>0, <2>1, <3>1, <3>2 DEF IInv, TypeOK
      <3>4. MainPending' = MainPending
            /\ LedPending' = LedPending \ {led.ptr}
        BY <2>0, <2>1, <3>1 DEF LedPending, MainPending, IInv, TypeOK
      <3> QED BY <2>0, <2>1, <3>2, <3>3, <3>4 DEF IInv, TypeOK, StartsClean,
                LoadedIsFlash, UnsavedIsMarked
    <2>2. CASE led' = [led EXCEPT !.ptr = NWords] /\ env.fails < MaxFails
               /\ WritePage(led.ptr, FALSE)
      <3>0. env' \in Env BY <2>2, EnvTwo DEF IInv, TypeOK, WritePage
      <3>1. TypeOK' BY <2>0, <2>2, <3>0 DEF IInv, TypeOK, WritePage
      <3> QED BY <2>0, <2>2, <3>1 DEF IInv, TypeOK, StartsClean,
                LoadedIsFlash, UnsavedIsMarked, WritePage
    <2>3. CASE led.ptr = NWords /\ UNCHANGED <<flash, env>>
               /\ led' = [pc |-> "sleep", ptr |-> 0]
      <3>1. TypeOK' BY <2>0, <2>3 DEF IInv, TypeOK
      <3>2. MainPending' = MainPending /\ LedPending = {} /\ Unsaved' = Unsaved
        BY <2>0, <2>3 DEF LedPending, MainPending, Unsaved
      <3> QED BY <2>0, <2>3, <3>1, <3>2 DEF IInv, TypeOK, StartsClean,
                LoadedIsFlash, UnsavedIsMarked
    <2> QED
      <3>1. ASSUME NEW ok \in Transfers, led.ptr < NWords,
                   WritePage(led.ptr, ok),
                   led' = [led EXCEPT !.ptr = IF ok THEN @ + 1 ELSE NWords]
            PROVE  IInv'
        <4>1. CASE ok = TRUE BY <2>1, <3>1, <4>1
        <4>2. CASE ok = FALSE BY <2>2, <3>1, <4>2 DEF Transfers
        <4> QED BY <3>1, <4>1, <4>2 DEF Transfers
      <3> QED BY <1>6, <2>3, <3>1 DEF LedFlush
  <1> QED BY <1>1, <1>2, <1>3, <1>4, <1>5, <1>6

LEMMA StutterStep == ASSUME IInv, Tick \/ UNCHANGED vars PROVE IInv'
  <1>1. CASE Tick
    <2>1. TypeOK' BY <1>1, EepromAssumption DEF IInv, TypeOK, Tick
    <2>2. Unsaved' = Unsaved /\ LedPending' = LedPending
            /\ MainPending' = MainPending /\ AboutToMark' = AboutToMark
      BY <1>1 DEF Tick, Unsaved, LedPending, MainPending, AboutToMark
    <2> QED BY <1>1, <2>1, <2>2 DEF IInv, StartsClean, LoadedIsFlash,
              UnsavedIsMarked, Tick
  <1>2. CASE UNCHANGED vars
    BY <1>2 DEF vars, IInv, TypeOK, StartsClean, LoadedIsFlash, CrcOk,
        UnsavedIsMarked, Unsaved, LedPending, MainPending, AboutToMark
  <1> QED BY <1>1, <1>2

\* The inductive invariant holds in every reachable state.
THEOREM Invariance == Spec => []IInv
  <1>1. Init => IInv BY InitIInv
  <1>2. IInv /\ [Next]_vars => IInv'
    <2> SUFFICES ASSUME IInv, [Next]_vars PROVE IInv' OBVIOUS
    <2> QED BY StartStep, CommandStep, FlushStep, StutterStep
            DEF Next, Main, Led
  <1> QED BY <1>1, <1>2, PTL DEF Spec

\* Every variable keeps its type; in particular no accepted command touches
\* a word outside the cache, for the addresses the model lets a master use.
THEOREM TypeCorrect == Spec => []TypeOK
  <1>1. IInv => TypeOK BY DEF IInv
  <1> QED BY <1>1, Invariance, PTL

\* No write of the master is lost between the cache and the flash, whatever
\* the interleaving of the two flushes and of further writes.
THEOREM NoWriteLost == Spec => []UnsavedIsMarked
  <1>1. IInv => UnsavedIsMarked BY DEF IInv
  <1> QED BY <1>1, Invariance, PTL

\* The first load of the ESC registers succeeds, provided the default image
\* itself has a right checksum (EepromAssumption).
THEOREM FirstLoad == Spec => []FirstLoadSucceeds
  <1>1. IInv => FirstLoadSucceeds BY DEF IInv, LoadedIsFlash, FirstLoadSucceeds
  <1> QED BY <1>1, Invariance, PTL

-----------------------------------------------------------------------------
(* Answers.                                                                *)

\* What the control register says of a command that did not fail.
Honest(reg) ==
    ~reg.err =>
        /\ reg.cmd \in {"read", "write"} =>
             regs.addr <= EscSize /\ cache[regs.addr] = regs.data
        /\ reg.cmd = "reload" => (reg.crc <=> ~CrcOk(cache))

\* While a command is being answered the master waits, and what is about to be
\* written to the control register, or is there already, is true.
Answering ==
    main.pc \in {"control", "dirty", "stamp", "ack"} =>
        /\ regs.busy
        /\ main.pc # "control" => regs.ctrl = main.reg
        /\ Honest(main.reg)

\* A command handled now is answered truly.
LEMMA HandledHonest ==
    ASSUME TypeOK, EEPROM_CommandHandler
    PROVE  Answering'
  <1> DEFINE cmd == regs.ctrl.cmd
  <1>1. /\ regs \in Regs /\ regs.ctrl \in Control /\ main \in MainTask /\ cache \in Image
        /\ cmd \in Cmds /\ regs.busy /\ main'.pc = "control"
        /\ main'.reg = IF Accepted(cmd) THEN Done(regs.ctrl, cmd) ELSE Failed(regs.ctrl)
        /\ cache' = IF cmd = "write" /\ Accepted(cmd)
                    THEN [cache EXCEPT ![regs.addr] = regs.data] ELSE cache
        /\ regs' = IF cmd = "read" /\ Accepted(cmd)
                   THEN [regs EXCEPT !.data = cache[regs.addr]] ELSE regs
    BY DEF TypeOK, EEPROM_CommandHandler, Regs, Control, MainTask
  <1>2. regs'.busy BY <1>1 DEF Regs
  <1>3. CASE ~Accepted(cmd)
    <2>1. main'.reg.err BY <1>1, <1>3 DEF Failed, Control
    <2> QED BY <1>1, <1>2, <2>1 DEF Answering, Honest
  <1>4. CASE Accepted(cmd) /\ cmd = "write"
    <2>1. /\ regs.addr \in Words /\ regs.addr <= EscSize
      BY <1>4, AcceptedInside DEF Accepted
    <2>2. regs' = regs /\ cache'[regs.addr] = regs.data
      BY <1>1, <1>4, <2>1 DEF Image
    <2>3. main'.reg.cmd = "write" BY <1>1, <1>4 DEF Done, Control
    <2> QED BY <1>1, <1>2, <2>1, <2>2, <2>3 DEF Answering, Honest
  <1>5. CASE Accepted(cmd) /\ cmd = "read"
    <2>1. /\ regs.addr \in Words /\ regs.addr <= EscSize
      BY <1>5, AcceptedInside DEF Accepted
    <2>2. cache' = cache /\ regs'.addr = regs.addr /\ regs'.data = cache[regs.addr]
      BY <1>1, <1>5 DEF Regs
    <2>3. main'.reg.cmd = "read" BY <1>1, <1>5 DEF Done, Control
    <2> QED BY <1>1, <1>2, <2>1, <2>2, <2>3 DEF Answering, Honest
  <1>6. CASE Accepted(cmd) /\ cmd \notin {"read", "write"}
    <2>1. cache' = cache BY <1>1, <1>6
    <2>2. cmd \in {"idle", "reload"} BY <1>1, <1>6 DEF Cmds, Accepted
    <2>3. /\ main'.reg.cmd = cmd
          /\ cmd = "reload" => (main'.reg.crc <=> ~CrcOk(cache))
      <3>1. CrcOk(cache) \in BOOLEAN BY <1>1, CrcType
      <3> QED BY <1>1, <1>6, <2>2, <3>1 DEF Done, Control
    <2> QED BY <1>1, <1>2, <2>1, <2>2, <2>3 DEF Answering, Honest, CrcOk
  <1> QED BY <1>3, <1>4, <1>5, <1>6

\* Nothing else makes the answer untrue: a flush does not touch the cache, and
\* the master gives no command while it waits.
LEMMA AnsweringStep ==
    ASSUME TypeOK, Answering, [Next]_vars
    PROVE  Answering'
  <1> USE DEF Regs, MainTask
  <1>1. CASE EEPROM_CommandHandler BY <1>1, HandledHonest
  <1>2. CASE WriteControl
    BY <1>2 DEF WriteControl, Answering, Honest, TypeOK, CrcOk
  <1>3. CASE SetUpdated \/ SetUpdatedTime
    BY <1>3 DEF SetUpdated, SetUpdatedTime, Answering, Honest, TypeOK, CrcOk
  <1>4. main'.pc \notin {"control", "dirty", "stamp", "ack"} => Answering'
    BY DEF Answering
  <1>5. CASE bsp_eeprom_emulation_init \/ bsp_eeprom_load_esc_registers \/ CommandAck
             \/ StopClear \/ StopInputHandler \/ PowerCut
    <2>1. CASE bsp_eeprom_emulation_init
      BY <1>4, <2>1 DEF bsp_eeprom_emulation_init, TypeOK
    <2>2. CASE bsp_eeprom_load_esc_registers
      BY <1>4, <2>2 DEF bsp_eeprom_load_esc_registers, TypeOK
    <2>3. CASE CommandAck BY <1>4, <2>3 DEF CommandAck, TypeOK
    <2>4. CASE StopClear BY <1>4, <2>4 DEF StopClear, TypeOK
    <2>5. CASE StopInputHandler BY <1>4, <2>5 DEF StopInputHandler, TypeOK
    <2>6. CASE PowerCut BY <1>4, <2>6 DEF PowerCut, TypeOK
    <2> QED BY <1>5, <2>1, <2>2, <2>3, <2>4, <2>5, <2>6
  <1>6. CASE StopFlush BY <1>4, <1>6 DEF StopFlush, TypeOK
  <1>7. CASE Command
    <2>1. PICK cmd, addr, val, enable : MasterCommand(cmd, addr, val, enable)
      BY <1>7 DEF Command
    <2>2. ~regs.busy /\ main' = main BY <2>1 DEF MasterCommand
    <2> QED BY <1>4, <2>2 DEF Answering
  <1>8. CASE Led \/ Tick \/ UNCHANGED vars
    <2>1. cache' = cache /\ regs' = regs /\ main' = main
      BY <1>8 DEF Led, LedCheck, LedClear, LedFlush, Tick, vars
    <2> QED BY <2>1 DEF Answering, Honest, CrcOk
  <1> QED BY <1>1, <1>2, <1>3, <1>5, <1>6, <1>7, <1>8 DEF Next, Main

LEMMA AckStep ==
    ASSUME TypeOK, Answering, Next, regs.busy, ~regs'.busy, main'.pc # "boot"
    PROVE  main.pc = "ack"
  <1>1. CASE CommandAck BY <1>1 DEF CommandAck
  <1>2. CASE EEPROM_CommandHandler \/ WriteControl
    BY <1>2 DEF EEPROM_CommandHandler, WriteControl, TypeOK, Regs
  <1>3. CASE bsp_eeprom_load_esc_registers
    BY <1>3 DEF bsp_eeprom_load_esc_registers, TypeOK, Regs
  <1>4. CASE bsp_eeprom_emulation_init \/ SetUpdated \/ SetUpdatedTime
             \/ StopClear \/ StopFlush \/ StopInputHandler \/ Led \/ Tick
    BY <1>4 DEF bsp_eeprom_emulation_init, SetUpdated, SetUpdatedTime, StopClear,
         StopFlush, StopInputHandler, Led, LedCheck, LedClear, LedFlush, Tick
  <1>5. CASE PowerCut BY <1>5 DEF PowerCut
  <1>6. CASE Command
    <2>1. PICK cmd, addr, val, enable : MasterCommand(cmd, addr, val, enable)
      BY <1>6 DEF Command
    <2> QED BY <2>1 DEF MasterCommand
  <1> QED BY <1>1, <1>2, <1>3, <1>4, <1>5, <1>6 DEF Next, Main

\* The end of a command is never a lie: without an error bit the word is in the
\* cache, or was read from it, or the checksum bit is that of the cache
\* (EEPROM_CommandHandler), also when a flush or a stop came in between.
THEOREM Acknowledged == Spec => AckIsHonest
  <1> DEFINE A == regs.busy /\ ~regs'.busy /\ main'.pc # "boot" /\ ~regs.ctrl.err =>
         /\ regs.ctrl.cmd \in {"read", "write"} =>
              regs.addr <= EscSize /\ cache[regs.addr] = regs.data
         /\ regs.ctrl.cmd = "reload" => (regs.ctrl.crc <=> ~CrcOk(cache))
  <1>1. Init => Answering BY DEF Init, Answering
  <1>2. TypeOK /\ Answering /\ [Next]_vars => Answering' BY AnsweringStep
  <1>3. TypeOK /\ Answering /\ [Next]_vars => [A]_vars
    <2> SUFFICES ASSUME TypeOK, Answering, Next PROVE A OBVIOUS
    <2>1. SUFFICES ASSUME regs.busy, ~regs'.busy, main'.pc # "boot" PROVE A
      OBVIOUS
    <2>2. main.pc = "ack" BY <2>1, AckStep
    <2> QED BY <2>2 DEF Answering, Honest
  <1>4. AckIsHonest <=> [][A]_vars BY DEF AckIsHonest
  <1> HIDE DEF A
  <1> QED BY <1>1, <1>2, <1>3, <1>4, TypeCorrect, PTL DEF Spec

=============================================================================
