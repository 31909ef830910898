-------------------------- MODULE EepromEmulation --------------------------
(***************************************************************************)
(* The emulated SII EEPROM: the command handler of the stack (ecatappl.c), *)
(* the cache in RAM and its flush to the I2C EEPROM of the board           *)
(* (tiescbsp.c, board/tiescsoc.c), and the two tasks of equal priority     *)
(* that flush it: LEDtask (tiescutils.c), 100 ms after the last write, and *)
(* the main task when it leaves SAFEOP (APPL_StopInputHandler).            *)
(*                                                                         *)
(* A step is one access to what the tasks, the master and the flash share; *)
(* the power may fail between any two of them.  Of the image only words    *)
(* with different roles are told apart: the configuration area and its     *)
(* checksum, the product code and the rest.                                *)
(***************************************************************************)
EXTENDS Integers, FiniteSets

CONSTANTS
    NWords,         \* words of the image (TIESC_EEPROM_SIZE / 2)
    EscSize,        \* ESC_EEPROM_SIZE, compared with a word address
    CfgWord, CrcWord, ProdWord,
    Vals,           \* values of a word
    Crc,            \* the checksum of a configuration area
    Default,        \* default_tiesc_eeprom
    FlushAge,       \* 100 ms, in LED periods
    MaxCmds,        \* commands the master gives
    MaxFails,       \* I2C transfers that fail
    MaxCuts,        \* power cuts
    MaxStops        \* times the main task leaves SAFEOP

Words == 0 .. NWords - 1
Image == [Words -> Vals]

\* The checksum over the bytes 0 to 13 is byte 14.
CrcOk(img) == img[CrcWord] = Crc[img[CfgWord]]

ASSUME EepromAssumption ==
    /\ NWords \in Nat /\ EscSize \in Nat /\ EscSize >= NWords - 1
    /\ {CfgWord, CrcWord, ProdWord} \subseteq Words
    /\ Crc \in [Vals -> Vals]
    /\ Default \in Image /\ CrcOk(Default)
    /\ {FlushAge, MaxCmds, MaxFails, MaxCuts, MaxStops} \subseteq Nat

VARIABLES
    flash,      \* the I2C EEPROM
    cache,      \* eeprom_cache, which pEEPROM points to
    updated,    \* eeprom_updated
    age,        \* time since eeprom_updated_time, in LED periods
    regs,       \* the EEPROM registers of the ESC
    main,       \* the main task: where it is, and EEPROMReg of its command
    led,        \* LEDtask
    env         \* what has happened: commands, failures, power cuts, whether
                \* the cache started from the default image (foreign), and
                \* whether a flush stopped half way (torn)

vars == <<flash, cache, updated, age, regs, main, led, env>>

Cmds == {"idle", "read", "write", "reload", "unknown"}
Control == [cmd : Cmds, enable : BOOLEAN, err : BOOLEAN, crc : BOOLEAN]

Regs == [busy : BOOLEAN, ctrl : Control, addr : Words \cup {EscSize + 1},
         data : Vals]
MainTask == [pc : {"boot", "load", "idle", "control", "dirty", "stamp", "ack",
                   "clear", "flush"},
             reg : Control, ptr : 0 .. NWords]
LedTask == [pc : {"sleep", "clear", "flush"}, ptr : 0 .. NWords]
Env == [cmds : 0 .. MaxCmds, fails : 0 .. MaxFails, cuts : 0 .. MaxCuts,
        stops : 0 .. MaxStops, foreign : BOOLEAN, torn : BOOLEAN]

TypeOK ==
    /\ flash \in Image /\ cache \in Image
    /\ updated \in BOOLEAN /\ age \in 0 .. FlushAge
    /\ regs \in Regs /\ main \in MainTask /\ led \in LedTask /\ env \in Env

NoError == [cmd |-> "idle", enable |-> FALSE, err |-> FALSE, crc |-> FALSE]

Init ==
    /\ flash \in Image
    /\ cache = Default /\ updated = FALSE /\ age = 0
    /\ regs = [busy |-> FALSE, ctrl |-> NoError, addr |-> 0,
               data |-> Default[0]]
    /\ main = [pc |-> "boot", reg |-> NoError, ptr |-> 0]
    /\ led = [pc |-> "sleep", ptr |-> 0]
    /\ env = [cmds |-> 0, fails |-> 0, cuts |-> 0, stops |-> 0,
              foreign |-> FALSE, torn |-> FALSE]

-----------------------------------------------------------------------------
(* Start-up (HW_Init, bsp_init).                                           *)

\* Mutant: the checksum of the image read from flash is not looked at.
UsableAnyCrc(img) == img[ProdWord] = Default[ProdWord]

\* The image in flash is used when it could be read, its checksum is right
\* and it is for this product; else the default image, in the cache only.
Usable(img) == CrcOk(img) /\ img[ProdWord] = Default[ProdWord]

bsp_eeprom_emulation_init ==
    /\ main.pc = "boot"
    /\ \E readable \in IF env.fails < MaxFails THEN BOOLEAN ELSE {TRUE} :
         LET own == readable /\ Usable(flash) IN
         /\ cache' = IF own THEN flash ELSE Default
         /\ env' = [env EXCEPT !.fails = IF readable THEN @ ELSE @ + 1,
                               !.foreign = ~own]
    /\ main' = [main EXCEPT !.pc = "load"]
    /\ UNCHANGED <<flash, updated, age, regs, led>>

\* bsp_eeprom_load_esc_registers for the first time: a wrong checksum is
\* reported in the EEPROM control register.
bsp_eeprom_load_esc_registers ==
    /\ main.pc = "load"
    /\ regs' = [regs EXCEPT !.ctrl.crc = ~CrcOk(cache)]
    /\ main' = [main EXCEPT !.pc = "idle"]
    /\ UNCHANGED <<flash, cache, updated, age, led, env>>

-----------------------------------------------------------------------------
(* The master gives a command and waits until the ESC is no longer busy.   *)

MasterCommand(cmd, addr, val, enable) ==
    /\ main.pc \notin {"boot", "load"} /\ ~regs.busy
    /\ env.cmds < MaxCmds
    /\ regs' = [busy |-> TRUE, addr |-> addr, data |-> val,
                ctrl |-> [cmd |-> cmd, enable |-> enable,
                          err |-> regs.ctrl.err, crc |-> regs.ctrl.crc]]
    /\ env' = [env EXCEPT !.cmds = @ + 1]
    /\ UNCHANGED <<flash, cache, updated, age, main, led>>

-----------------------------------------------------------------------------
(* EEPROM_CommandHandler, called by ECAT_Main while the event is pending.  *)
(* The application installs no hooks (pAPPL_EEPROM_Read and the like).    *)

\* The errors a command leaves behind: read and idle clear all of them but
\* a wrong checksum, write clears all, reload only decides the checksum.
Done(reg, cmd) ==
    CASE cmd \in {"idle", "read"} -> [reg EXCEPT !.err = FALSE]
      [] cmd = "write"  -> [reg EXCEPT !.err = FALSE, !.crc = FALSE]
      [] cmd = "reload" -> [reg EXCEPT !.crc = ~CrcOk(cache)]

\* Mutant: a refused command does not set its error bit.
FailedSilently(reg) == reg

Failed(reg) == [reg EXCEPT !.err = TRUE]

Accepted(cmd) ==
    CASE cmd = "read"  -> regs.addr <= EscSize
      [] cmd = "write" -> regs.addr <= EscSize /\ regs.ctrl.enable
      [] cmd = "unknown" -> FALSE
      [] OTHER -> TRUE

EEPROM_CommandHandler ==
    LET cmd == regs.ctrl.cmd IN
    /\ main.pc = "idle" /\ regs.busy
    /\ main' = [main EXCEPT !.pc = "control",
                            !.reg = IF Accepted(cmd) THEN Done(regs.ctrl, cmd)
                                                     ELSE Failed(regs.ctrl)]
    /\ cache' = IF cmd = "write" /\ Accepted(cmd)
                THEN [cache EXCEPT ![regs.addr] = regs.data] ELSE cache
    /\ regs' = IF cmd = "read" /\ Accepted(cmd)
               THEN [regs EXCEPT !.data = cache[regs.addr]] ELSE regs
    /\ UNCHANGED <<flash, updated, age, led, env>>

\* Mutant: the change is marked for reads instead of writes.
WriteControlRead ==
    /\ main.pc = "control"
    /\ regs' = [regs EXCEPT !.ctrl = main.reg]
    /\ main' = [main EXCEPT !.pc = IF main.reg.cmd = "read" /\ ~main.reg.err
                                   THEN "dirty" ELSE "ack"]
    /\ UNCHANGED <<flash, cache, updated, age, led, env>>

\* Mutant: a command that failed is not acknowledged.
WriteControlNoAck ==
    /\ main.pc = "control"
    /\ regs' = [regs EXCEPT !.ctrl = main.reg]
    /\ main' = [main EXCEPT !.pc = IF main.reg.err THEN "idle" ELSE "ack"]
    /\ UNCHANGED <<flash, cache, updated, age, led, env>>

\* HW_EscWriteWord on the control register: the value, then in
\* bsp_pdi_write_indication, for a write without error, the mark and the
\* time of the change, then the command that lets the firmware clear busy.
WriteControl ==
    /\ main.pc = "control"
    /\ regs' = [regs EXCEPT !.ctrl = main.reg]
    /\ main' = [main EXCEPT !.pc = IF main.reg.cmd = "write" /\ ~main.reg.err
                                   THEN "dirty" ELSE "ack"]
    /\ UNCHANGED <<flash, cache, updated, age, led, env>>

SetUpdated ==
    /\ main.pc = "dirty"
    /\ updated' = TRUE
    /\ main' = [main EXCEPT !.pc = "stamp"]
    /\ UNCHANGED <<flash, cache, age, regs, led, env>>

\* Mutant: the time of the change is taken too late, elapsed time is negative.
SetUpdatedTimeLate ==
    /\ main.pc = "stamp"
    /\ age' = -1
    /\ main' = [main EXCEPT !.pc = "ack"]
    /\ UNCHANGED <<flash, cache, updated, regs, led, env>>

SetUpdatedTime ==
    /\ main.pc = "stamp"
    /\ age' = 0
    /\ main' = [main EXCEPT !.pc = "ack"]
    /\ UNCHANGED <<flash, cache, updated, regs, led, env>>

CommandAck ==
    /\ main.pc = "ack"
    /\ regs' = [regs EXCEPT !.busy = FALSE]
    /\ main' = [main EXCEPT !.pc = "idle", !.reg = NoError]
    /\ UNCHANGED <<flash, cache, updated, age, led, env>>

-----------------------------------------------------------------------------
(* Flushing: EEPROM_write sends the cache page by page.  Nobody looks at   *)
(* what it returns: after a failed transfer the rest stays as it was.      *)

\* One page of the flush that stands at ptr.
WritePage(ptr, ok) ==
    /\ flash' = IF ok THEN [flash EXCEPT ![ptr] = cache[ptr]] ELSE flash
    /\ env' = IF ok THEN env
              ELSE [env EXCEPT !.fails = @ + 1, !.torn = TRUE]

Transfers == IF env.fails < MaxFails THEN BOOLEAN ELSE {TRUE}

\* APPL_StopInputHandler: test, clear, flush.
StopInputHandler ==
    /\ main.pc = "idle" /\ env.stops < MaxStops
    /\ env' = [env EXCEPT !.stops = @ + 1]
    /\ main' = [main EXCEPT !.pc = IF updated THEN "clear" ELSE "idle"]
    /\ UNCHANGED <<flash, cache, updated, age, regs, led>>

StopClear ==
    /\ main.pc = "clear"
    /\ updated' = FALSE
    /\ main' = [main EXCEPT !.pc = "flush", !.ptr = 0]
    /\ UNCHANGED <<flash, cache, age, regs, led, env>>

StopFlush ==
    /\ main.pc = "flush"
    /\ \/ /\ main.ptr < NWords
          /\ \E ok \in Transfers :
               /\ WritePage(main.ptr, ok)
               /\ main' = [main EXCEPT !.ptr = IF ok THEN @ + 1 ELSE NWords]
       \/ /\ main.ptr = NWords
          /\ main' = [main EXCEPT !.pc = "idle", !.ptr = 0]
          /\ UNCHANGED <<flash, env>>
    /\ UNCHANGED <<cache, updated, age, regs, led>>

\* LEDtask, every 50 ms: the same, when the last write is old enough.
LedCheck ==
    /\ led.pc = "sleep"
    /\ updated /\ age >= FlushAge
    /\ led' = [led EXCEPT !.pc = "clear"]
    /\ UNCHANGED <<flash, cache, updated, age, regs, main, env>>

LedClear ==
    /\ led.pc = "clear"
    /\ updated' = FALSE
    /\ led' = [pc |-> "flush", ptr |-> 0]
    /\ UNCHANGED <<flash, cache, age, regs, main, env>>

\* Mutant: the mark is cleared after the flush instead of before it.
LedFlushThenClear ==
    /\ led.pc = "flush"
    /\ \/ /\ led.ptr < NWords
          /\ \E ok \in Transfers :
               /\ WritePage(led.ptr, ok)
               /\ led' = [led EXCEPT !.ptr = IF ok THEN @ + 1 ELSE NWords]
          /\ UNCHANGED updated
       \/ /\ led.ptr = NWords
          /\ led' = [pc |-> "sleep", ptr |-> 0] /\ updated' = FALSE
          /\ UNCHANGED <<flash, env>>
    /\ UNCHANGED <<cache, age, regs, main>>

LedFlush ==
    /\ led.pc = "flush"
    /\ \/ /\ led.ptr < NWords
          /\ \E ok \in Transfers :
               /\ WritePage(led.ptr, ok)
               /\ led' = [led EXCEPT !.ptr = IF ok THEN @ + 1 ELSE NWords]
       \/ /\ led.ptr = NWords
          /\ led' = [pc |-> "sleep", ptr |-> 0]
          /\ UNCHANGED <<flash, env>>
    /\ UNCHANGED <<cache, updated, age, regs, main>>

-----------------------------------------------------------------------------
Tick ==
    /\ age < FlushAge
    /\ age' = age + 1
    /\ UNCHANGED <<flash, cache, updated, regs, main, led, env>>

\* The supply fails: everything but the flash starts anew.
PowerCut ==
    /\ env.cuts < MaxCuts
    /\ updated' = FALSE /\ age' = 0 /\ cache' = Default
    /\ regs' = [busy |-> FALSE, ctrl |-> NoError, addr |-> 0,
                data |-> Default[0]]
    /\ main' = [pc |-> "boot", reg |-> NoError, ptr |-> 0]
    /\ led' = [pc |-> "sleep", ptr |-> 0]
    /\ env' = [env EXCEPT !.cuts = @ + 1, !.torn = FALSE]
    /\ UNCHANGED flash

Main == \/ bsp_eeprom_emulation_init \/ bsp_eeprom_load_esc_registers
        \/ EEPROM_CommandHandler \/ WriteControl \/ SetUpdated
        \/ SetUpdatedTime \/ CommandAck \/ StopClear \/ StopFlush
Led == LedCheck \/ LedClear \/ LedFlush
\* The data and the enable bit matter to a write only.
Command ==
    \/ \E addr \in Words \cup {EscSize + 1} :
         \/ MasterCommand("read", addr, regs.data, FALSE)
         \/ \E val \in Vals, enable \in BOOLEAN :
              MasterCommand("write", addr, val, enable)
    \/ \E cmd \in Cmds \ {"read", "write"} :
         MasterCommand(cmd, 0, regs.data, FALSE)

Next == Main \/ Led \/ Command \/ StopInputHandler \/ Tick \/ PowerCut

Spec == Init /\ [][Next]_vars

\* Both tasks are scheduled again and again, and time passes.
FairSpec == Spec /\ WF_vars(Main) /\ WF_vars(Led) /\ WF_vars(Tick)

-----------------------------------------------------------------------------
\* Words whose value in the cache is not in the flash.
Unsaved == {w \in Words : cache[w] # flash[w]}

\* Words a flush under way has still to write.
LedPending  == IF led.pc = "flush" THEN led.ptr .. NWords - 1 ELSE {}
MainPending == IF main.pc = "flush" THEN main.ptr .. NWords - 1 ELSE {}

\* The main task is between taking a word into the cache and marking it.
AboutToMark ==
    \/ main.pc = "dirty"
    \/ main.pc = "control" /\ main.reg.cmd = "write" /\ ~main.reg.err

\* No write is lost: while no transfer failed and the cache started from the
\* flash, a word that is not yet in the flash is about to be written by a
\* flush under way, or the mark that starts one is set or about to be
\* (LEDtask and APPL_StopInputHandler clear the mark before they flush).
UnsavedIsMarked ==
    main.pc \notin {"boot", "load"} /\ ~env.foreign /\ ~env.torn =>
        \/ updated \/ AboutToMark
        \/ Unsaved \subseteq LedPending \cup MainPending

\* The first load of the ESC registers never meets a wrong checksum: bsp_init
\* would have to send a command before it has constructed the semaphore of
\* the command interface.
FirstLoadSucceeds == main.pc = "load" => CrcOk(cache)

\* When the master sees the end of a command without an error, the command
\* has had its effect on the cache, or its data are those of the cache
\* (EEPROM_CommandHandler writes the control register last).
AckIsHonest ==
    [][regs.busy /\ ~regs'.busy /\ main'.pc # "boot" /\ ~regs.ctrl.err =>
         /\ regs.ctrl.cmd \in {"read", "write"} =>
              regs.addr <= EscSize /\ cache[regs.addr] = regs.data
         /\ regs.ctrl.cmd = "reload" => (regs.ctrl.crc <=> ~CrcOk(cache))]_vars

\* What the master wrote is in the flash some time after its last write, the
\* failures that nobody notices apart (LEDtask flushes without being asked).
EventuallySaved ==
    <>[](Unsaved = {} \/ env.foreign \/ env.torn)

\* Every command ends.
CommandEnds == regs.busy ~> ~regs.busy

=============================================================================
