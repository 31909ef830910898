------------------------------- MODULE Mailbox -------------------------------
(***************************************************************************)
(* The mailbox handler of the slave stack (mailbox.c) with the services it *)
(* calls as far as they own mailbox buffers: SDO responses and SDO         *)
(* Information lists (ecatcoe.c, sdoserv.c), FoE responses (ecatfoe.c) and *)
(* the Ethernet frames sent in fragments (ecateoe.c, eoeappl.c).           *)
(*                                                                         *)
(* All of it runs in the main task.  The other party is the EtherCAT       *)
(* master: it writes requests, reads responses, loses frames on the wire,  *)
(* asks for a repetition and stops and starts the handler through AL       *)
(* Control, between any two register accesses of ECAT_Main.                *)
(*                                                                         *)
(* The handler's variables are the fields of the record mbx, under their   *)
(* names in the code without prefix; 0 is the null pointer.  The state is  *)
(* INIT exactly when the handler does not run (EcatStateMachine).  Of      *)
(* psWriteMbx nothing is read that was not stored by the same call, so it  *)
(* is local here.  bNoMbxMemoryAvailable is FALSE: a request's buffer      *)
(* could be allocated when the handler was started.                        *)
(***************************************************************************)
EXTENDS Integers, Sequences, SequencesExt, FiniteSets

CONSTANTS
    Kinds,          \* requests the master may send, see Proto
    Buffers,        \* buffers malloc can return
    MaxQueue,       \* MAX_MBX_QUEUE_SIZE (10 in the code)
    MaxCounter,     \* largest counter of a mailbox header (7 in the code)
    ListFrags,      \* fragments of an object list after the first
    EoeFrags,       \* fragments of an Ethernet frame
    MaxReq,         \* requests the master sends
    MaxLosses,      \* reads that are lost
    MaxRetries,     \* writes whose confirmation is lost
    MaxFails,       \* allocations that fail
    MaxRestarts     \* times the handler is stopped and started again

\* The protocol of each kind of request: "bad" is refused by its service,
\* "long" has a length beyond MAX_MBX_SIZE, "foeEnd" ends a file transfer
\* without an answer, "eoe" is a frame the application answers with a frame,
\* "eoeStray" a fragment out of sequence.
Proto == [sdo |-> "coe", list |-> "coe", bad |-> "coe", long |-> "coe",
          foe |-> "foe", foeEnd |-> "foe", eoe |-> "eoe", eoeStray |-> "eoe"]

\* Requests that get a response.
Answered == {"sdo", "list", "bad", "long", "foe"}

ASSUME MailboxAssumption ==
    /\ Kinds \subseteq DOMAIN Proto
    /\ Buffers \subseteq Nat \ {0} /\ IsFiniteSet(Buffers)
    /\ MaxQueue \in Nat /\ MaxQueue >= 2
    /\ MaxCounter \in Nat /\ MaxCounter >= 2
    /\ ListFrags \in Nat \ {0} /\ EoeFrags \in Nat \ {0}
    /\ {MaxReq, MaxLosses, MaxRetries, MaxFails, MaxRestarts} \subseteq Nat

VARIABLES
    mbx,        \* the handler, and the two mailboxes of the ESC
    regs,       \* SM1's repeat bit (Activate) and its acknowledgement (PDI
                \* Control), SM0's write event, AL Control
    loop,       \* where ECAT_Main is, and what it has read from SM1
    master

vars == <<mbx, regs, loop, master>>

\* req and kind of a response are those of its request; err marks a mailbox
\* error, type 0, in place of the response.
Empty   == [req |-> 0, kind |-> "none", frag |-> 0, err |-> FALSE, cnt |-> 0]
Message == [req : 0 .. MaxReq, kind : Kinds \cup {"none"}, frag : Nat,
            err : BOOLEAN, cnt : 0 .. MaxCounter]
Pointer == Buffers \cup {0}

\* The handler with the mailboxes of the ESC, and the history.
Handler ==
    [running : BOOLEAN, sm0 : Message, sm1 : Message,
     rxq : Seq(Buffers), txq : Seq(Buffers),
     read : Pointer, repeat : Pointer, store : Pointer,
     full : BOOLEAN, toggle : BOOLEAN, locked : BOOLEAN,
     stored : SUBSET {"coe", "foe", "eoe"},
     wcnt : 0 .. MaxCounter, rcnt : 0 .. MaxCounter + 1,
     coeStored : Pointer, foeStored : Pointer, eoeStored : Pointer,
     fragsLeft : 0 .. ListFrags, nextFrag : Nat,
     listReq : 0 .. MaxReq,
     eoePending : BOOLEAN, eoeFrag : 0 .. EoeFrags - 1,
     eoeReq : 0 .. MaxReq,
     heap : SUBSET Buffers, buf : [Buffers -> Message],
     strays : 0 .. MaxReq, freedTwice : BOOLEAN,
     fails : 0 .. MaxFails,
     sent : Seq(Message), served : Seq(1 .. MaxReq)]

TypeOK ==
    /\ mbx \in Handler
    /\ regs \in [repeat : BOOLEAN, ack : BOOLEAN, written : BOOLEAN,
                 al : {"none", "init", "preop"}]
    /\ loop \in [pc : {"Serve", "Activate", "Status", "AlControl",
                       "Read", "Repeat", "Write"},
                 repeat : BOOLEAN, status : BOOLEAN]
    /\ master \in [up : BOOLEAN, n : 0 .. MaxReq, last : Message,
                   unsure : BOOLEAN, lost : BOOLEAN,
                   open : SUBSET {"coe", "foe"}, lastCnt : 0 .. MaxCounter,
                   got : Seq(Message), losses : 0 .. MaxLosses,
                   retries : 0 .. MaxRetries, restarts : 0 .. MaxRestarts]

-----------------------------------------------------------------------------
(* The heap.  sent, served, strays and freedTwice record history.          *)

CanAlloc(s, ok) == ok /\ s.heap # Buffers
Fresh(s) == CHOOSE b \in Buffers : b \notin s.heap

Alloc(s, b, msg) == [s EXCEPT !.heap = @ \cup {b}, !.buf[b] = msg]
AllocFailed(s)   == [s EXCEPT !.fails = IF @ < MaxFails THEN @ + 1 ELSE @]

\* One call of free after the other, for the buffers of a sequence.
FreeAll(s, q) ==
    [s EXCEPT !.heap = @ \ ToSet(q),
              !.buf  = [b \in Buffers |->
                          IF b \in ToSet(q) THEN Empty ELSE @[b]],
              !.freedTwice = @ \/ ~IsInjective(q) \/ ~(ToSet(q) \subseteq s.heap)]
Free(s, b) == FreeAll(s, <<b>>)

\* Whether an allocation may fail in this state.
Allocations == IF mbx.fails < MaxFails THEN BOOLEAN ELSE {TRUE}

-----------------------------------------------------------------------------
(* The queues: rings of MaxQueue entries, one of which stays empty.        *)

HasRoom(q) == Len(q) < MaxQueue - 1

PutInMbxQueue(b, q) == Append(q, b)

-----------------------------------------------------------------------------
(* The send mailbox.                                                       *)

CanCopy(s) == s.running /\ ~s.full

MBX_CopyToSendMailbox(s, b) ==
    IF CanCopy(s)
    THEN [s EXCEPT !.sm1 = s.buf[b], !.read = b, !.full = TRUE]
    ELSE s

\* MBX_MailboxSendReq returns 0.
SendOk(s) == s.running /\ (CanCopy(s) \/ HasRoom(s.txq))

\* Mutant: the counter wraps only after a start.
ReadCounterNoWrap(s) == IF s.rcnt = 0 THEN 1 ELSE s.rcnt

\* The counter a response gets: 1 after a start and after MaxCounter.
ReadCounter(s) == IF s.rcnt % (MaxCounter + 1) = 0 THEN 1 ELSE s.rcnt

\* services is {} or the service whose XXX_ContinueInd is to be called later,
\* follow the flag FRAGMENTS_FOLLOW.
MBX_MailboxSendReq(s, b, services, follow) ==
    LET c       == ReadCounter(s)
        stamped == [s EXCEPT !.buf[b].cnt = c,
                             !.rcnt = IF SendOk(s) THEN c + 1 ELSE c]
        placed  == IF CanCopy(s) THEN MBX_CopyToSendMailbox(stamped, b)
                   ELSE IF SendOk(s)
                        THEN [stamped EXCEPT !.txq = PutInMbxQueue(b, @)]
                        ELSE stamped
    IN  IF ~s.running THEN s
        ELSE [placed EXCEPT
                !.stored = IF follow \/ ~SendOk(s) THEN @ \cup services ELSE @,
                !.sent   = IF SendOk(s) THEN Append(@, stamped.buf[b]) ELSE @]

\* The request's buffer goes back with an error; the result is not looked at.
MailboxError(s, b) ==
    MBX_MailboxSendReq([s EXCEPT !.buf[b].err = TRUE], b, {}, FALSE)

-----------------------------------------------------------------------------
(* The services.                                                           *)

\* SdoRes: the response goes out in the buffer of the request.
SdoRes(s, b) ==
    LET t == MBX_MailboxSendReq(s, b, {"coe"}, FALSE)
    IN  IF SendOk(s) THEN t ELSE [t EXCEPT !.coeStored = b]

\* An object list; b holds the request, or its stored header when the next
\* fragment is due.
SDOS_SdoInfoInd(s, b) ==
    LET first == s.fragsLeft = 0
        frag  == IF first THEN 0 ELSE s.nextFrag
        left  == IF first THEN ListFrags ELSE s.fragsLeft - 1
        t     == [s EXCEPT !.listReq = s.buf[b].req, !.fragsLeft = left,
                           !.nextFrag = frag + 1, !.buf[b].frag = frag]
        u     == MBX_MailboxSendReq(t, b, {"coe"}, left > 0)
    IN  IF SendOk(t) THEN u ELSE [u EXCEPT !.coeStored = b]

COE_ContinueInd(s, ok) ==
    LET b      == Fresh(s)
        header == [Empty EXCEPT !.req = s.listReq, !.kind = "list"]
        t      == MBX_MailboxSendReq(s, s.coeStored, {"coe"}, FALSE)
    IN  IF s.coeStored # 0
        THEN IF SendOk(s) THEN [t EXCEPT !.coeStored = 0] ELSE t
        ELSE IF CanAlloc(s, ok) THEN SDOS_SdoInfoInd(Alloc(s, b, header), b)
        ELSE [AllocFailed(s) EXCEPT !.stored = @ \cup {"coe"}]

\* FOE_ServiceInd outside BOOT, for a service with an answer.
FoeRes(s, b) ==
    LET t == MBX_MailboxSendReq(s, b, {"foe"}, FALSE)
    IN  IF SendOk(s) THEN t ELSE [t EXCEPT !.foeStored = b]

FOE_ContinueInd(s) ==
    LET t == MBX_MailboxSendReq(s, s.foeStored, {"foe"}, FALSE)
    IN  IF s.foeStored = 0 THEN s
        ELSE IF SendOk(s) THEN [t EXCEPT !.foeStored = 0] ELSE t

SendFragment(s, ok) ==
    LET b    == Fresh(s)
        frag == [Empty EXCEPT !.req = s.eoeReq, !.kind = "eoe",
                              !.frag = s.eoeFrag]
        a    == Alloc(s, b, frag)
        t    == MBX_MailboxSendReq(a, b, {"eoe"}, FALSE)
        u    == IF SendOk(a) THEN t ELSE [t EXCEPT !.eoeStored = b]
    IN  IF ~CanAlloc(s, ok)
        THEN [AllocFailed(s) EXCEPT !.stored = @ \cup {"eoe"}]
        ELSE IF s.eoeFrag = EoeFrags - 1
        THEN [u EXCEPT !.eoePending = FALSE,
                       !.stored = IF SendOk(a) THEN @ \ {"eoe"}
                                  ELSE @ \cup {"eoe"}]
        ELSE [u EXCEPT !.eoeFrag = @ + 1, !.stored = @ \cup {"eoe"}]

EOE_ContinueInd(s, ok) ==
    LET t == MBX_MailboxSendReq(s, s.eoeStored, {"eoe"}, FALSE)
    IN  IF s.eoeStored # 0
        THEN IF SendOk(s) THEN [t EXCEPT !.eoeStored = 0] ELSE t
        ELSE IF s.eoePending THEN SendFragment(s, ok) ELSE s

\* The application refuses nothing: a frame it cannot send is dropped.
EOE_SendFrameRequest(s, req, ok) ==
    IF ~s.eoePending /\ s.running /\ s.eoeStored = 0
    THEN SendFragment([s EXCEPT !.eoePending = TRUE, !.eoeFrag = 0,
                                !.eoeReq = req], ok)
    ELSE s

\* A request from the queue; MBX_Main answers what a service refuses.
MailboxServiceInd(s, b, ok) ==
    LET kind == s.buf[b].kind
    IN  CASE kind = "sdo"      -> SdoRes(s, b)
          [] kind = "list"     -> SDOS_SdoInfoInd(s, b)
          [] kind = "foe"      -> FoeRes(s, b)
          [] kind = "foeEnd"   -> Free(s, b)
          [] kind = "eoe"      ->
                Free(EOE_SendFrameRequest(s, s.buf[b].req, ok), b)
          [] kind = "eoeStray" -> [s EXCEPT !.strays = @ + 1]
          [] OTHER             -> MailboxError(s, b)

-----------------------------------------------------------------------------
(* The handler.                                                            *)

\* Mutant: every request is taken for a new one.
MBX_MailboxWriteIndTwice(s, b) ==
    IF s.buf[b].kind = "long" THEN MailboxError(s, b)
    ELSE IF HasRoom(s.rxq)
         THEN [s EXCEPT !.rxq = PutInMbxQueue(b, @), !.wcnt = s.buf[b].cnt]
         ELSE MailboxError(s, b)

\* A request is new if its counter differs from the one before; counter 0,
\* of masters without repetition, is not modelled.
MBX_MailboxWriteInd(s, b) ==
    LET t == [s EXCEPT !.wcnt = s.buf[b].cnt]
    IN  IF s.buf[b].kind = "long" THEN MailboxError(s, b)
        ELSE IF s.buf[b].cnt = s.wcnt THEN Free(s, b)
        ELSE IF HasRoom(s.rxq) THEN [t EXCEPT !.rxq = PutInMbxQueue(b, @)]
        ELSE MailboxError(t, b)

\* Mutant: the request is left in the mailbox without a note to retry.
MBX_CheckAndCopyMailboxNoRetry(s, ok) ==
    IF s.full \/ s.stored # {} THEN s
    ELSE IF ~CanAlloc(s, ok) THEN AllocFailed(s)
    ELSE LET b == Fresh(s)
             t == [Alloc(s, b, s.sm0) EXCEPT !.locked = FALSE, !.sm0 = Empty]
         IN  MBX_MailboxWriteInd(t, b)

\* The receive mailbox stays full while a response waits to be read or sent.
MBX_CheckAndCopyMailbox(s, ok) ==
    IF s.full \/ s.stored # {} THEN [s EXCEPT !.locked = TRUE]
    ELSE IF ~CanAlloc(s, ok) THEN [AllocFailed(s) EXCEPT !.locked = TRUE]
    ELSE LET b == Fresh(s)
             t == [Alloc(s, b, s.sm0) EXCEPT !.locked = FALSE, !.sm0 = Empty]
         IN  MBX_MailboxWriteInd(t, b)

\* Mutant: the queue is served only if no response was stored for repetition.
MBX_MailboxReadIndOneOnly(s, ok) ==
    LET read == [s EXCEPT !.full = FALSE]
        kept == [(IF s.repeat # 0 /\ s.store = 0 /\ s.read # s.repeat
                  THEN Free(read, s.repeat) ELSE read)
                 EXCEPT !.repeat = s.read]
        next == IF s.store # 0
                THEN [MBX_CopyToSendMailbox(kept, s.store) EXCEPT !.store = 0]
                ELSE kept
    IN  IF "coe" \in s.stored
        THEN COE_ContinueInd([next EXCEPT !.stored = @ \ {"coe"}], ok)
        ELSE IF "foe" \in s.stored
        THEN FOE_ContinueInd([next EXCEPT !.stored = @ \ {"foe"}])
        ELSE next

\* The master has read the send mailbox: what it read is kept for a
\* repetition, the next response takes its place.
MBX_MailboxReadInd(s, ok) ==
    LET read == [s EXCEPT !.full = FALSE]
        kept == [(IF s.repeat # 0 /\ s.store = 0 /\ s.read # s.repeat
                  THEN Free(read, s.repeat) ELSE read)
                 EXCEPT !.repeat = s.read]
        next == IF s.store # 0
                THEN [MBX_CopyToSendMailbox(kept, s.store) EXCEPT !.store = 0]
                ELSE IF s.txq # <<>>
                THEN MBX_CopyToSendMailbox([kept EXCEPT !.txq = Tail(@)],
                                           Head(s.txq))
                ELSE kept
    IN  IF "coe" \in s.stored
        THEN COE_ContinueInd([next EXCEPT !.stored = @ \ {"coe"}], ok)
        ELSE IF "foe" \in s.stored
        THEN FOE_ContinueInd([next EXCEPT !.stored = @ \ {"foe"}])
        ELSE next

\* Mutant: the response that waits in the mailbox goes to the end of the queue.
MBX_MailboxRepeatReqQueued(s) ==
    LET t == IF s.full /\ s.store = 0
             THEN [s EXCEPT !.sm1 = Empty, !.txq = Append(@, s.read),
                            !.full = FALSE]
             ELSE s
        u == IF s.repeat = 0 THEN s
             ELSE [MBX_CopyToSendMailbox(t, s.repeat) EXCEPT !.repeat = 0]
    IN  [u EXCEPT !.toggle = ~@]

\* The response read before is sent again; one that waits in the mailbox is
\* taken out and stored.
MBX_MailboxRepeatReq(s) ==
    LET t == IF s.full /\ s.store = 0
             THEN [s EXCEPT !.sm1 = Empty, !.store = s.read, !.full = FALSE]
             ELSE s
        u == IF s.repeat = 0 THEN s
             ELSE [MBX_CopyToSendMailbox(t, s.repeat) EXCEPT !.repeat = 0]
    IN  [u EXCEPT !.toggle = ~@]

\* The buffer a pointer points to, if any.
Deref(p) == IF p = 0 THEN <<>> ELSE <<p>>

\* Mutant: aliases are not compared.
HeldBuffersUnchecked(s) ==
    Deref(s.repeat) \o Deref(s.store) \o Deref(s.read) \o Deref(s.eoeStored)

\* The aliases are compared so that no buffer is freed twice.
HeldBuffers(s) ==
    Deref(s.repeat)
    \o (IF s.store # s.repeat THEN Deref(s.store) ELSE <<>>)
    \o (IF s.read \notin {s.repeat, s.store} THEN Deref(s.read) ELSE <<>>)
    \o Deref(s.eoeStored)

\* COE_Init is not called: what the CoE services stored stays.
MBX_StopMailboxHandler(s) ==
    [FreeAll(s, HeldBuffers(s) \o s.rxq \o s.txq) EXCEPT
        !.running = FALSE, !.sm0 = Empty, !.sm1 = Empty,
        !.rxq = <<>>, !.txq = <<>>, !.read = 0, !.repeat = 0, !.store = 0,
        !.full = FALSE, !.toggle = FALSE, !.locked = FALSE, !.stored = {},
        !.wcnt = 0, !.rcnt = 0, !.foeStored = 0, !.eoeStored = 0,
        !.eoePending = FALSE]

\* The buffer allocated for a test is freed at once.
MBX_StartMailboxHandler(s) == [s EXCEPT !.running = TRUE, !.sent = <<>>]

-----------------------------------------------------------------------------
(* ECAT_Main: first MBX_Main, then the registers, then what they ask for.  *)

Goto(pc) == loop' = [loop EXCEPT !.pc = pc]

MBX_Main_Serve ==
    /\ loop.pc = "Serve" /\ mbx.rxq # <<>>
    /\ \E ok \in Allocations :
         LET b == Head(mbx.rxq)
             s == [mbx EXCEPT !.rxq = Tail(@),
                              !.served = Append(@, mbx.buf[b].req)]
         IN  mbx' = MailboxServiceInd(s, b, ok)
    /\ UNCHANGED <<regs, loop, master>>

\* The retry of a request left in its mailbox, then the pending EoE service.
MBX_Main_Tail ==
    /\ loop.pc = "Serve" /\ mbx.rxq = <<>>
    /\ \E ok \in Allocations :
         LET s == IF mbx.locked THEN MBX_CheckAndCopyMailbox(mbx, ok) ELSE mbx
         IN  mbx' = IF "eoe" \in s.stored
                    THEN EOE_ContinueInd([s EXCEPT !.stored = @ \ {"eoe"}], ok)
                    ELSE s
    /\ Goto(IF mbx.running THEN "Activate" ELSE "AlControl")
    /\ UNCHANGED <<regs, master>>

\* The Activate byte of SM1 is read before its status: a repetition is seen
\* only together with the read that it follows.
ReadActivate ==
    /\ loop.pc = "Activate"
    /\ loop' = [loop EXCEPT !.pc = "Status", !.repeat = regs.repeat]
    /\ UNCHANGED <<mbx, regs, master>>

ReadStatus ==
    /\ loop.pc = "Status"
    /\ loop' = [loop EXCEPT !.pc = "AlControl", !.status = mbx.sm1 # Empty]
    /\ UNCHANGED <<mbx, regs, master>>

\* AL_ControlInd as far as it starts and stops the handler.
AlControl ==
    /\ loop.pc = "AlControl"
    /\ mbx' = IF regs.al = "init" THEN MBX_StopMailboxHandler(mbx)
              ELSE IF regs.al = "preop" THEN MBX_StartMailboxHandler(mbx)
              ELSE mbx
    /\ regs' = [regs EXCEPT !.al  = "none",
                            !.ack = @ /\ regs.al # "init",
                            !.written = @ /\ regs.al # "init"]
    /\ loop' = [loop EXCEPT
                  !.pc = IF mbx'.running THEN "Read" ELSE "Serve",
                  !.repeat = @ /\ mbx.running, !.status = @ /\ mbx.running]
    /\ UNCHANGED master

HandleRead ==
    /\ loop.pc = "Read"
    /\ \E ok \in Allocations :
         mbx' = IF ~loop.status /\ mbx.full
                THEN MBX_MailboxReadInd(mbx, ok)
                ELSE mbx
    /\ loop' = [loop EXCEPT !.pc = "Repeat", !.status = FALSE]
    /\ UNCHANGED <<regs, master>>

HandleRepeat ==
    /\ loop.pc = "Repeat"
    /\ IF loop.repeat # mbx.toggle
       THEN /\ mbx'  = MBX_MailboxRepeatReq(mbx)
            /\ regs' = [regs EXCEPT !.ack = loop.repeat]
       ELSE UNCHANGED <<mbx, regs>>
    /\ loop' = [loop EXCEPT !.pc = "Write", !.repeat = FALSE]
    /\ UNCHANGED master

\* The AL Event register is read again; the event ends with the read of the
\* mailbox's first byte, also when the request is left in the mailbox.
HandleWrite ==
    /\ loop.pc = "Write"
    /\ \E ok \in Allocations :
         mbx' = IF regs.written THEN MBX_CheckAndCopyMailbox(mbx, ok) ELSE mbx
    /\ regs' = [regs EXCEPT !.written = FALSE]
    /\ Goto("Serve")
    /\ UNCHANGED master

ECAT_Main ==
    \/ MBX_Main_Serve \/ MBX_Main_Tail \/ ReadActivate \/ ReadStatus
    \/ AlControl \/ HandleRead \/ HandleRepeat \/ HandleWrite

-----------------------------------------------------------------------------
(* The master, with one open request per protocol and the mailbox's repeat *)
(* protocol: after a read whose answer did not arrive it toggles the       *)
(* repeat bit and reads again once the slave has acknowledged.             *)

MasterReady == master.up /\ ~master.lost /\ regs.repeat = regs.ack

NextCounter(c) == (c % MaxCounter) + 1

MasterWrite(kind, confirmed) ==
    /\ master.up /\ ~master.unsure /\ master.n < MaxReq /\ mbx.sm0 = Empty
    /\ Proto[kind] \notin master.open
    /\ confirmed \/ master.retries < MaxRetries
    /\ LET msg == [Empty EXCEPT !.req = master.n + 1, !.kind = kind,
                                !.cnt = NextCounter(master.last.cnt)]
       IN  /\ mbx' = [mbx EXCEPT !.sm0 = msg]
           /\ master' = [master EXCEPT
                !.n = @ + 1, !.last = msg, !.unsure = ~confirmed,
                !.retries = IF confirmed THEN @ ELSE @ + 1,
                !.open = IF kind \in Answered THEN @ \cup {Proto[kind]} ELSE @]
    /\ regs' = [regs EXCEPT !.written = TRUE]
    /\ UNCHANGED loop

\* The same request with the same counter.
MasterRewrite ==
    /\ master.up /\ master.unsure /\ mbx.sm0 = Empty
    /\ mbx' = [mbx EXCEPT !.sm0 = master.last]
    /\ master' = [master EXCEPT !.unsure = FALSE]
    /\ regs' = [regs EXCEPT !.written = TRUE]
    /\ UNCHANGED loop

Final(msg) ==
    /\ msg.kind \in Answered
    /\ msg.kind = "list" => msg.frag = ListFrags \/ msg.err

\* A response whose counter is that of the one before is a repetition.
MasterRead ==
    /\ MasterReady /\ mbx.sm1 # Empty
    /\ mbx' = [mbx EXCEPT !.sm1 = Empty]
    /\ master' = IF mbx.sm1.cnt = master.lastCnt THEN master
                 ELSE [master EXCEPT
                         !.got = Append(@, mbx.sm1), !.lastCnt = mbx.sm1.cnt,
                         !.open = IF Final(mbx.sm1)
                                  THEN @ \ {Proto[mbx.sm1.kind]} ELSE @]
    /\ UNCHANGED <<regs, loop>>

\* Lost on the way to the slave, or on the way back.
MasterReadLost(answered) ==
    /\ MasterReady /\ master.losses < MaxLosses
    /\ answered => mbx.sm1 # Empty
    /\ mbx' = IF answered THEN [mbx EXCEPT !.sm1 = Empty] ELSE mbx
    /\ master' = [master EXCEPT !.lost = TRUE, !.losses = @ + 1]
    /\ UNCHANGED <<regs, loop>>

MasterRepeat ==
    /\ master.up /\ master.lost
    /\ regs' = [regs EXCEPT !.repeat = ~@]
    /\ master' = [master EXCEPT !.lost = FALSE]
    /\ UNCHANGED <<mbx, loop>>

MasterInit ==
    /\ master.up /\ master.restarts < MaxRestarts
    /\ regs' = [regs EXCEPT !.al = "init"]
    /\ master' = [master EXCEPT !.up = FALSE, !.restarts = @ + 1,
                                !.last = Empty, !.unsure = FALSE,
                                !.lost = FALSE, !.open = {},
                                !.lastCnt = 0, !.got = <<>>]
    /\ UNCHANGED <<mbx, loop>>

\* The master configures SM0 and SM1 anew before it asks for PREOP.
MasterPreop ==
    /\ ~master.up /\ ~mbx.running /\ regs.al = "none"
    /\ regs' = [regs EXCEPT !.al = "preop", !.repeat = FALSE]
    /\ UNCHANGED <<mbx, loop, master>>

MasterUp ==
    /\ ~master.up /\ mbx.running /\ regs.al = "none"
    /\ master' = [master EXCEPT !.up = TRUE]
    /\ UNCHANGED <<mbx, regs, loop>>

\* The master reads what it can, repeats, retries and starts the handler again.
MasterKeepsUp ==
    MasterRead \/ MasterRepeat \/ MasterRewrite \/ MasterPreop \/ MasterUp

Master ==
    \/ \E kind \in Kinds, confirmed \in BOOLEAN : MasterWrite(kind, confirmed)
    \/ \E answered \in BOOLEAN : MasterReadLost(answered)
    \/ MasterInit \/ MasterKeepsUp

-----------------------------------------------------------------------------
\* MBX_Init, with COE_Init: after power-up the handler does not run.
Init ==
    /\ mbx = [running |-> FALSE, sm0 |-> Empty, sm1 |-> Empty,
              rxq |-> <<>>, txq |-> <<>>, read |-> 0, repeat |-> 0, store |-> 0,
              full |-> FALSE, toggle |-> FALSE, locked |-> FALSE, stored |-> {},
              wcnt |-> 0, rcnt |-> 0,
              coeStored |-> 0, foeStored |-> 0, eoeStored |-> 0,
              fragsLeft |-> 0, nextFrag |-> 0, listReq |-> 0,
              eoePending |-> FALSE, eoeFrag |-> 0, eoeReq |-> 0,
              heap |-> {}, buf |-> [b \in Buffers |-> Empty],
              strays |-> 0, freedTwice |-> FALSE, fails |-> 0,
              sent |-> <<>>, served |-> <<>>]
    /\ regs = [repeat |-> FALSE, ack |-> FALSE, written |-> FALSE,
               al |-> "none"]
    /\ loop = [pc |-> "Serve", repeat |-> FALSE, status |-> FALSE]
    /\ master = [up |-> FALSE, n |-> 0, last |-> Empty, unsure |-> FALSE,
                 lost |-> FALSE, open |-> {}, lastCnt |-> 0, got |-> <<>>,
                 losses |-> 0, retries |-> 0, restarts |-> 0]

Next == ECAT_Main \/ Master

Spec == Init /\ [][Next]_vars

\* The main task keeps looping, the master keeps up; it need not send anything.
Fairness == WF_vars(ECAT_Main) /\ WF_vars(MasterKeepsUp)

FairSpec == Spec /\ Fairness

-----------------------------------------------------------------------------
(* Properties.                                                             *)

\* Every place that keeps a buffer until somebody frees it.
Held ==
    (IF mbx.full THEN Deref(mbx.read) ELSE <<>>)
    \o Deref(mbx.repeat) \o Deref(mbx.store) \o Deref(mbx.coeStored)
    \o Deref(mbx.foeStored) \o Deref(mbx.eoeStored) \o mbx.rxq \o mbx.txq

\* A buffer has one owner at a time, is allocated as long as it has one, is
\* freed once and not forgotten, whatever is repeated, stored, queued, retried
\* or stopped on the way (MBX_MailboxReadInd, MBX_MailboxRepeatReq,
\* MBX_StopMailboxHandler).  The exception is EOE_ServiceInd, which forgets the
\* buffer of a fragment out of sequence.
BuffersAccounted ==
    /\ ~mbx.freedTwice
    /\ IsInjective(Held)
    /\ ToSet(Held) \subseteq mbx.heap
    /\ Cardinality(mbx.heap) = Len(Held) + mbx.strays

\* Nothing waits behind an empty send mailbox: no response is queued or stored
\* for repetition that only a further read by the master would bring out.
EmptyMailboxMeansNothingWaits ==
    ~mbx.full => mbx.txq = <<>> /\ mbx.store = 0 /\ mbx.read = mbx.repeat

\* Despite lost reads and repetitions the master gets the responses in the
\* order in which MBX_MailboxSendReq accepted them, each once.
ResponsesInOrder == IsPrefix(master.got, mbx.sent)

\* A request written again because its confirmation was lost is not served
\* again (u8MbxWriteCounter), and no request overtakes an older one on its way
\* through a locked mailbox and the receive queue.
ServedOnce ==
    \A i \in 1 .. Len(mbx.served) - 1 : mbx.served[i] < mbx.served[i + 1]

\* A list whose next fragment could not be allocated waits for the master to
\* read a mailbox that is empty; nothing but a restart ends that.
ListAbandoned ==
    "coe" \in mbx.stored /\ ~mbx.full /\ mbx.coeStored = 0

\* The handler comes to rest again and again: every request that gets an answer
\* has been answered in full and every accepted frame has been sent, whatever
\* was locked, queued, lost or repeated, unless a list was abandoned.
ComesToRest ==
    []<>(\/ /\ master.open = {} /\ mbx.sm0 = Empty
           /\ ~mbx.eoePending /\ ~mbx.locked
        \/ ListAbandoned)

\* sdoserv.c says of nSdoInfoFragmentsLeft that it is 0 for the first call: the
\* first response to a request for an object list starts with its first object.
ListStartsAtFirst ==
    \A i \in 1 .. Len(mbx.sent) :
        mbx.sent[i].kind = "list" /\ mbx.sent[i].frag # 0 =>
            \E j \in 1 .. i - 1 : mbx.sent[j].req = mbx.sent[i].req
=============================================================================
