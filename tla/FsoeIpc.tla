------------------------------- MODULE FsoeIpc -------------------------------
(***************************************************************************)
(* The shared-memory channel gIpcCh between Core 0 (the EtherCAT PDO path, *)
(* fsoe_ipc_master_exchange) and Core 1 (the FSoE worker loop).            *)
(*                                                                         *)
(* Every access one core makes to memory the other core uses is a step of  *)
(* its own: each word of a memcpy, each load and each store of req_seq and *)
(* resp_seq.  What only one core can see (the objects 0x70F0 and 0x60F0,   *)
(* stack copies, the worker's static) changes together with such a step.   *)
(***************************************************************************)
EXTENDS Naturals

CONSTANTS
    Word,           \* words of a PDO image that are modelled, of Word0..Word5
    Mask,           \* largest value of a word (0xFFFF in the code)
    Frame,          \* the RxPDO images the EtherCAT master sends
    SeqMod,         \* number of values of a sequence word (2^32 in the code)
    BootSeq,        \* the pairs <<req_seq, resp_seq>> the NOLOAD section may
                    \* hold when the cores come up
    MaxMissed,      \* bound on the exchanges that fail in a row while Core 1
                    \* boots or has a request in hand (2^32 - 2 in the code)
    StoresInOrder,  \* a core's stores reach the other core in program order
    WorkerPrompt    \* Core 1 answers every request it sees within
                    \* FSOE_IPC_REPLY_TIMEOUT_US

WordVal == 0 .. Mask
Image   == [Word -> WordVal]
SeqNo   == 0 .. SeqMod - 1

ASSUME WordAssumption  == /\ Word \subseteq 0 .. 5
                          /\ Word # {}
                          /\ Mask \in Nat \ {0}
                          /\ Frame \subseteq Image
                          /\ Frame # {}
ASSUME SeqAssumption   == /\ SeqMod \in Nat
                          /\ SeqMod > 2
                          /\ BootSeq \subseteq SeqNo \X SeqNo
                          /\ MaxMissed \in Nat \ {0}
                          /\ MaxMissed + 1 < SeqMod
ASSUME SwitchAssumption == /\ StoresInOrder \in BOOLEAN
                           /\ WorkerPrompt \in BOOLEAN

VARIABLES
    req_seq, resp_seq, req_buf, resp_buf,       \* gIpcCh, shared
    pc0, todo0, rx_wire, tx_wire, expected_seq, \* one exchange on Core 0
    od70F0, od60F0, status,                     \* its effect on the objects
    missed,         \* exchanges that failed since the last success (saturating)
    pc1, todo1, rx, tx, reply_seq,              \* the worker loop on Core 1
    sWorkerLastHandledReqSeq

channel  == <<req_seq, resp_seq, req_buf, resp_buf>>
core0    == <<pc0, todo0, rx_wire, tx_wire, expected_seq, od70F0, od60F0,
              status, missed>>
core1    == <<pc1, todo1, rx, tx, reply_seq, sWorkerLastHandledReqSeq>>
vars     == <<channel, core0, core1>>

Zero == [w \in Word |-> 0]

\* Mutant of NextSeq: the increment does not wrap.
NextSeqUnwrapped(s) == s + 1

\* uint32_t addition of one.
NextSeq(s) == IF s = SeqMod - 1 THEN 0 ELSE s + 1

\* fsoe_manager_process on one image, word by word.
FsoeManagerProcess(f) ==
    [w \in Word |-> IF w = 0 THEN 1
                    ELSE IF w \in {1, 2} THEN Mask - f[w]
                    ELSE f[w]]

-----------------------------------------------------------------------------
(* Core 0: manage_pdo_fsoe_rx and the exchange it makes.                   *)

\* Core 1 has seen, or is about to see, a request it has not answered.
WorkerOwesReply ==
    /\ pc1 # "boot"
    /\ pc1 = "poll" => req_seq # sWorkerLastHandledReqSeq

\* PDO_OutputMapping hands one RxPDO image to manage_pdo_fsoe_rx, which
\* copies it to 0x70F0 and starts to fill req_buf.  The second conjunct is
\* the bound: req_seq does not go once round while Core 1 boots or has one
\* request in hand.
ManagePdoFsoeRx(f) ==
    /\ pc0 = "idle"
    /\ pc1 = "boot" \/ WorkerOwesReply => missed < MaxMissed
    /\ pc0' = "fill"
    /\ todo0' = Word
    /\ rx_wire' = f
    /\ od70F0' = f
    /\ UNCHANGED <<channel, core1, tx_wire, expected_seq, od60F0, status, missed>>

\* A word of the request becomes visible to Core 1.
FillWord(w) ==
    /\ pc0 \in {"fill", "barrier"}
    /\ w \in todo0
    /\ todo0' = todo0 \ {w}
    /\ req_buf' = [req_buf EXCEPT ![w] = rx_wire[w]]
    /\ UNCHANGED <<req_seq, resp_seq, resp_buf, pc0, rx_wire, tx_wire,
                   expected_seq, od70F0, od60F0, status, missed, core1>>

\* Mutant of CommitRequest: the number goes out before the image.
CommitRequestFirst ==
    /\ pc0 = "fill"
    /\ req_seq' = NextSeq(req_seq)
    /\ expected_seq' = NextSeq(req_seq)
    /\ pc0' = "barrier"
    /\ UNCHANGED <<resp_seq, req_buf, resp_buf, todo0, rx_wire, tx_wire,
                   od70F0, od60F0, status, missed, core1>>

\* Mutant of CommitRequest: the number is remembered before it is counted up.
CommitRequestOldSeq ==
    /\ pc0 = "fill"
    /\ StoresInOrder => todo0 = {}
    /\ req_seq' = NextSeq(req_seq)
    /\ expected_seq' = req_seq
    /\ pc0' = "barrier"
    /\ UNCHANGED <<resp_seq, req_buf, resp_buf, todo0, rx_wire, tx_wire,
                   od70F0, od60F0, status, missed, core1>>

\* ipc_channel_master_commit_request up to the barrier: no barrier stands
\* between the stores to req_buf and this one.
CommitRequest ==
    /\ pc0 = "fill"
    /\ StoresInOrder => todo0 = {}
    /\ req_seq' = NextSeq(req_seq)
    /\ expected_seq' = NextSeq(req_seq)
    /\ pc0' = "barrier"
    /\ UNCHANGED <<resp_seq, req_buf, resp_buf, todo0, rx_wire, tx_wire,
                   od70F0, od60F0, status, missed, core1>>

\* IPC_DSB of the commit: every earlier store has become visible.
CommitBarrier ==
    /\ pc0 = "barrier"
    /\ todo0 = {}
    /\ pc0' = "wait"
    /\ UNCHANGED <<channel, todo0, rx_wire, tx_wire, expected_seq, od70F0,
                   od60F0, status, missed, core1>>

\* Mutant of PollReply: the clock is not read between two polls.
PollReplyForever ==
    /\ pc0 = "wait"
    /\ pc0' = IF resp_seq = expected_seq THEN "recheck" ELSE "wait"
    /\ UNCHANGED <<channel, todo0, rx_wire, tx_wire, expected_seq, od70F0,
                   od60F0, status, missed, core1>>

\* One poll of resp_seq in ipc_channel_master_wait_reply_usec.
PollReply ==
    /\ pc0 = "wait"
    /\ pc0' = IF resp_seq = expected_seq THEN "recheck" ELSE "clock"
    /\ UNCHANGED <<channel, todo0, rx_wire, tx_wire, expected_seq, od70F0,
                   od60F0, status, missed, core1>>

\* The exchange fails: 0x60F0 keeps what it held.
Fail ==
    /\ pc0' = "idle"
    /\ status' = "FAILURE"
    /\ missed' = IF missed < MaxMissed THEN missed + 1 ELSE missed
    /\ UNCHANGED <<channel, todo0, rx_wire, tx_wire, expected_seq, od70F0,
                   od60F0, core1>>

\* The clock is read after the poll: the deadline has passed, whatever has
\* arrived since the poll.
TimeOut ==
    /\ pc0 = "clock"
    /\ WorkerPrompt => ~WorkerOwesReply /\ resp_seq # expected_seq
    /\ Fail

\* The deadline has not passed: poll again.
PollAgain ==
    /\ pc0 = "clock"
    /\ pc0' = "wait"
    /\ UNCHANGED <<channel, todo0, rx_wire, tx_wire, expected_seq, od70F0,
                   od60F0, status, missed, core1>>

\* fsoe_ipc_master_exchange checks resp_seq a second time before it reads.
Recheck ==
    /\ pc0 = "recheck"
    /\ IF resp_seq = expected_seq
          THEN /\ pc0' = "read"
               /\ todo0' = Word
               /\ UNCHANGED <<channel, rx_wire, tx_wire, expected_seq, od70F0,
                              od60F0, status, missed, core1>>
          ELSE Fail

ReadWord(w) ==
    /\ pc0 = "read"
    /\ w \in todo0
    /\ todo0' = todo0 \ {w}
    /\ tx_wire' = [tx_wire EXCEPT ![w] = resp_buf[w]]
    /\ UNCHANGED <<channel, pc0, rx_wire, expected_seq, od70F0, od60F0,
                   status, missed, core1>>

\* The exchange returns SystemP_SUCCESS and the reply goes to 0x60F0.
ApplyReply ==
    /\ pc0 = "read"
    /\ todo0 = {}
    /\ od60F0' = tx_wire
    /\ status' = "SUCCESS"
    /\ missed' = 0
    /\ pc0' = "idle"
    /\ UNCHANGED <<channel, todo0, rx_wire, tx_wire, expected_seq, od70F0, core1>>

-----------------------------------------------------------------------------
(* Core 1: fsoe_worker_main.                                               *)

\* ipc_channel_worker_init takes whatever req_seq holds as handled.
WorkerInit ==
    /\ pc1 = "boot"
    /\ sWorkerLastHandledReqSeq' = req_seq
    /\ pc1' = "poll"
    /\ UNCHANGED <<channel, core0, todo1, rx, tx, reply_seq>>

\* ipc_channel_worker_wait_request; its result is discarded.
WaitRequest ==
    /\ pc1 = "poll"
    /\ req_seq # sWorkerLastHandledReqSeq
    /\ pc1' = "decode"
    /\ todo1' = Word
    /\ UNCHANGED <<channel, core0, rx, tx, reply_seq, sWorkerLastHandledReqSeq>>

DecodeWord(w) ==
    /\ pc1 = "decode"
    /\ w \in todo1
    /\ todo1' = todo1 \ {w}
    /\ rx' = [rx EXCEPT ![w] = req_buf[w]]
    /\ UNCHANGED <<channel, core0, pc1, tx, reply_seq, sWorkerLastHandledReqSeq>>

Process ==
    /\ pc1 = "decode"
    /\ todo1 = {}
    /\ tx' = FsoeManagerProcess(rx)
    /\ pc1' = "publish"
    /\ todo1' = Word
    /\ UNCHANGED <<channel, core0, rx, reply_seq, sWorkerLastHandledReqSeq>>

\* A word of the reply becomes visible to Core 0.
PublishWord(w) ==
    /\ pc1 \in {"publish", "reply", "latch"}
    /\ w \in todo1
    /\ todo1' = todo1 \ {w}
    /\ resp_buf' = [resp_buf EXCEPT ![w] = tx[w]]
    /\ UNCHANGED <<req_seq, resp_seq, req_buf, core0, pc1, rx, tx, reply_seq,
                   sWorkerLastHandledReqSeq>>

\* Mutant of LoadReplySeq: the number goes out before the whole reply.
LoadReplySeqEarly ==
    /\ pc1 = "publish"
    /\ reply_seq' = req_seq
    /\ pc1' = "reply"
    /\ UNCHANGED <<channel, core0, todo1, rx, tx, sWorkerLastHandledReqSeq>>

\* The argument of ipc_channel_worker_send_reply(gIpcCh.req_seq): req_seq is
\* read again, after the request was handled.
LoadReplySeq ==
    /\ pc1 = "publish"
    /\ StoresInOrder => todo1 = {}
    /\ reply_seq' = req_seq
    /\ pc1' = "reply"
    /\ UNCHANGED <<channel, core0, todo1, rx, tx, sWorkerLastHandledReqSeq>>

SendReply ==
    /\ pc1 = "reply"
    /\ resp_seq' = reply_seq
    /\ pc1' = "latch"
    /\ UNCHANGED <<req_seq, req_buf, resp_buf, core0, todo1, rx, tx, reply_seq,
                   sWorkerLastHandledReqSeq>>

\* Mutant of LatchHandled: the static counts requests instead of naming one.
LatchHandledCounts ==
    /\ pc1 = "latch"
    /\ todo1 = {}
    /\ sWorkerLastHandledReqSeq' = NextSeq(sWorkerLastHandledReqSeq)
    /\ pc1' = "poll"
    /\ UNCHANGED <<channel, core0, todo1, rx, tx, reply_seq>>

\* Mutant of LatchHandled: req_seq is read once more after the reply.
LatchHandledRereads ==
    /\ pc1 = "latch"
    /\ todo1 = {}
    /\ sWorkerLastHandledReqSeq' = req_seq
    /\ pc1' = "poll"
    /\ UNCHANGED <<channel, core0, todo1, rx, tx, reply_seq>>

\* IPC_DSB of the reply, then the static that remembers the request.
LatchHandled ==
    /\ pc1 = "latch"
    /\ todo1 = {}
    /\ sWorkerLastHandledReqSeq' = reply_seq
    /\ pc1' = "poll"
    /\ UNCHANGED <<channel, core0, todo1, rx, tx, reply_seq>>

-----------------------------------------------------------------------------

Init ==
    /\ \E b \in BootSeq : req_seq = b[1] /\ resp_seq = b[2]
    /\ req_buf \in Frame /\ resp_buf \in Frame
    /\ pc0 = "idle" /\ todo0 = {}
    /\ rx_wire = Zero /\ tx_wire = Zero /\ od70F0 = Zero /\ od60F0 = Zero
    /\ expected_seq = 0 /\ status = "none" /\ missed = 0
    /\ pc1 = "boot" /\ todo1 = {} /\ rx = Zero /\ tx = Zero
    /\ reply_seq = 0 /\ sWorkerLastHandledReqSeq = 0

Core0Step ==
    \/ \E w \in Word : FillWord(w) \/ ReadWord(w)
    \/ CommitRequest \/ CommitBarrier \/ PollReply \/ PollAgain \/ TimeOut
    \/ Recheck \/ ApplyReply

Core1Step ==
    \/ \E w \in Word : DecodeWord(w) \/ PublishWord(w)
    \/ WaitRequest \/ Process \/ LoadReplySeq \/ SendReply \/ LatchHandled

Next ==
    \/ \E f \in Frame : ManagePdoFsoeRx(f)
    \/ Core0Step
    \/ WorkerInit
    \/ Core1Step

Spec == Init /\ [][Next]_vars

\* Core 0 keeps running and its clock advances: a poll loop cannot go on for
\* ever without the deadline passing.  Nothing is assumed of Core 1.
MasterFairness == WF_vars(Core0Step) /\ SF_vars(TimeOut)

\* Core 1 keeps running too.
WorkerFairness == WF_vars(WorkerInit) /\ WF_vars(Core1Step)

MasterFairSpec == Spec /\ MasterFairness
FairSpec       == Spec /\ MasterFairness /\ WorkerFairness

-----------------------------------------------------------------------------
(* Properties.                                                             *)

TypeOK ==
    /\ req_seq \in SeqNo /\ resp_seq \in SeqNo
    /\ req_buf \in Image /\ resp_buf \in Image
    /\ pc0 \in {"idle", "fill", "barrier", "wait", "clock", "recheck", "read"}
    /\ todo0 \subseteq Word
    /\ rx_wire \in Image /\ tx_wire \in Image
    /\ od70F0 \in Image /\ od60F0 \in Image
    /\ expected_seq \in SeqNo
    /\ status \in {"none", "SUCCESS", "FAILURE"}
    /\ missed \in 0 .. MaxMissed
    /\ pc1 \in {"boot", "poll", "decode", "publish", "reply", "latch"}
    /\ todo1 \subseteq Word
    /\ rx \in Image /\ tx \in Image
    /\ reply_seq \in SeqNo /\ sWorkerLastHandledReqSeq \in SeqNo

\* When an exchange has returned SystemP_SUCCESS, 0x60F0 holds the answer to
\* the image that was sent (what fsoe_ipc_self_test_verify asserts).
SuccessMeansOwnReply ==
    pc0 = "idle" /\ status = "SUCCESS" => od60F0 = FsoeManagerProcess(od70F0)

\* A success that does not directly follow a failed exchange always brings
\* the answer to its own request: only a timeout can put a stale or torn
\* reply into 0x60F0, however late the worker is.
StaleOnlyAfterTimeout ==
    pc0 = "read" /\ todo0 = {} /\ missed = 0
        => tx_wire = FsoeManagerProcess(rx_wire)

\* Once Core 0 has seen its sequence number come back, Core 1 does not change
\* resp_seq again before the reply is read: the second check of resp_seq in
\* fsoe_ipc_master_exchange never fails.
RecheckNeverFails ==
    pc0 \in {"recheck", "read"} => resp_seq = expected_seq

\* In the same window Core 1 does not write resp_buf either: a reply is never
\* torn while Core 0 reads it, however late the worker was.
ReplyStableWhileRead ==
    pc0 \in {"recheck", "read"}
        => /\ pc1 \in {"boot", "poll", "latch"}
           /\ pc1 = "latch" => todo1 = {}

\* After a success nothing of an older request is left in the worker: it is
\* waiting for the next number (or about to), and req_seq and resp_seq agree.
\* A worker that was late is in step again after one matching reply.
QuiescentAfterSuccess ==
    pc0 = "idle" /\ status = "SUCCESS"
        => /\ resp_seq = req_seq
           /\ \/ pc1 = "poll" /\ sWorkerLastHandledReqSeq = req_seq
              \/ pc1 = "latch" /\ reply_seq = req_seq

\* Core 0 comes back from every exchange, even when Core 1 has died at any
\* point: the wait is bounded.
ExchangeReturns == pc0 # "idle" ~> pc0 = "idle"

\* When Core 1 is up before an exchange begins, the exchange succeeds.
ServedOnceUp == pc0 = "fill" /\ pc1 # "boot" ~> pc0 = "idle" /\ status = "SUCCESS"

\* With a worker that keeps its deadline the channel implements the exchange
\* fsoe_ipc_master.h describes.
Exchange == INSTANCE FsoeExchange WITH
                Frame   <- Frame,
                Reply   <- [f \in Frame |-> FsoeManagerProcess(f)],
                Blank   <- Zero,
                phase   <- IF pc0 = "idle" THEN "idle" ELSE "busy",
                request <- rx_wire,
                inputs  <- od60F0

ImplementsExchange == Exchange!FairSpec

=============================================================================
