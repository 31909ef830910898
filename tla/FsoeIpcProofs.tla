---------------------------- MODULE FsoeIpcProofs ----------------------------
(***************************************************************************)
(* Proofs about FsoeIpc, for every set of words and images, every width of *)
(* the sequence numbers and every bound.                                   *)
(***************************************************************************)
EXTENDS FsoeIpc, TLAPS

\* How many numbers b is ahead of a, going round the sequence space.
Ahead(a, b) == IF b >= a THEN b - a ELSE b + SeqMod - a

Lag       == Ahead(resp_seq, req_seq)
Committed == pc0 \in {"barrier", "wait", "clock"}
Handling  == pc1 \in {"decode", "publish", "reply"}
NotOwing  == pc1 = "poll" /\ sWorkerLastHandledReqSeq = req_seq
Stamped   == pc1 = "latch" /\ reply_seq = req_seq /\ resp_seq = req_seq
Quiet     == pc1 = "boot" \/ NotOwing \/ Stamped

\* The exchanges whose answer is known to be the worker's own.
Fresh == missed = 0 \/ WorkerPrompt

\* How far the two sequence numbers, and the worker's own copies of them, can
\* be apart: they never go once round, so equal numbers mean equal requests.
SeqInv ==
    /\ Committed \/ pc0 \in {"recheck", "read"} => expected_seq = req_seq
    /\ Lag <= MaxMissed + 1
    /\ pc0 \in {"idle", "fill"} /\ missed < MaxMissed => Lag <= missed
    /\ Committed /\ missed < MaxMissed => Lag <= missed + 1
    /\ pc0 = "fill" => Lag <= MaxMissed
    /\ pc0 = "fill" /\ missed = MaxMissed => NotOwing
    /\ pc1 = "boot" \/ NotOwing => Lag <= MaxMissed
    /\ pc1 = "poll" => Ahead(sWorkerLastHandledReqSeq, req_seq) <= Lag
    /\ pc1 = "reply" => Ahead(reply_seq, req_seq) < Lag
    /\ pc1 = "latch" => resp_seq = reply_seq
    /\ Handling => Lag >= 1
    /\ pc1 = "boot" /\ Committed => Lag >= 1

\* Who may be doing what: the worker is quiet while Core 0 reads, and quiet
\* between exchanges that did not fail.
PhaseInv ==
    /\ pc0 \in {"recheck", "read"} => resp_seq = req_seq /\ (NotOwing \/ Stamped)
    /\ pc0 \in {"idle", "fill"} /\ Fresh => Quiet
    /\ pc0 = "idle" /\ status = "SUCCESS"
         => missed = 0 /\ resp_seq = req_seq /\ (NotOwing \/ Stamped)
    /\ pc0 \in {"wait", "clock", "recheck", "idle"} => todo0 = {}
    /\ pc1 \in {"poll", "boot"} => todo1 = {}
    /\ StoresInOrder /\ pc0 = "barrier" => todo0 = {}
    /\ StoresInOrder /\ pc1 \in {"reply", "latch"} => todo1 = {}

\* Where the words of the request and of the reply are.
DataInv ==
    /\ od70F0 = rx_wire
    /\ pc0 # "idle" => rx_wire \in Frame
    /\ pc0 = "fill" => \A w \in Word \ todo0 : req_buf[w] = rx_wire[w]
    /\ Committed => req_buf = rx_wire
    /\ Fresh /\ Committed /\ pc1 = "decode" => \A w \in Word \ todo1 : rx[w] = rx_wire[w]
    /\ Fresh /\ Committed /\ pc1 \in {"publish", "reply"}
         => /\ tx = FsoeManagerProcess(rx_wire)
            /\ \A w \in Word \ todo1 : resp_buf[w] = tx[w]
    /\ Fresh /\ Committed /\ pc1 \in {"poll", "latch"} /\ resp_seq = req_seq
         => resp_buf = FsoeManagerProcess(rx_wire)
    /\ Fresh /\ pc0 \in {"recheck", "read"} => resp_buf = FsoeManagerProcess(rx_wire)
    /\ pc0 = "read" => \A w \in Word \ todo0 : tx_wire[w] = resp_buf[w]
    /\ WorkerPrompt /\ pc0 = "idle" /\ status = "SUCCESS"
         => od60F0 = FsoeManagerProcess(od70F0)

\* The first part holds whatever order the stores become visible in.
StepInv == TypeOK /\ SeqInv /\ PhaseInv

IInv == StepInv /\ DataInv

-----------------------------------------------------------------------------
(* The functions the model is built from.                                  *)

LEMMA ImageFacts ==
    /\ Zero \in Image
    /\ \A f \in Frame : f \in Image
    /\ \A f \in Image : FsoeManagerProcess(f) \in Image
BY WordAssumption DEF Image, WordVal, Zero, FsoeManagerProcess

LEMMA NextSeqFacts ==
    ASSUME NEW s \in SeqNo
    PROVE  NextSeq(s) \in SeqNo /\ NextSeq(s) # s
BY SeqAssumption DEF SeqNo, NextSeq

\* Counting forward moves the front one further ahead of everything behind it.
LEMMA AheadFacts ==
    ASSUME NEW a \in SeqNo, NEW b \in SeqNo
    PROVE  /\ Ahead(a, b) \in SeqNo
           /\ (Ahead(a, b) = 0) <=> (a = b)
           /\ Ahead(a, b) + 1 < SeqMod => Ahead(a, NextSeq(b)) = Ahead(a, b) + 1
           /\ Ahead(a, a) = 0
BY SeqAssumption DEF SeqNo, NextSeq, Ahead

-----------------------------------------------------------------------------
(* Types.                                                                  *)

LEMMA TypeInit == Init => TypeOK
BY WordAssumption, SeqAssumption, ImageFacts DEF Init, TypeOK, SeqNo

LEMMA TypeStep == TypeOK /\ [Next]_vars => TypeOK'
<1> USE DEF TypeOK
<1> SUFFICES ASSUME TypeOK, [Next]_vars PROVE TypeOK'
  OBVIOUS
<1>1. ASSUME NEW f \in Frame, ManagePdoFsoeRx(f) PROVE TypeOK'
  BY <1>1, ImageFacts DEF ManagePdoFsoeRx, channel, core1
<1>2. ASSUME NEW w \in Word, FillWord(w) PROVE TypeOK'
  BY <1>2 DEF FillWord, core1, Image
<1>3. ASSUME NEW w \in Word, ReadWord(w) PROVE TypeOK'
  BY <1>3 DEF ReadWord, channel, core1, Image
<1>4. CASE CommitRequest
  BY <1>4, NextSeqFacts DEF CommitRequest, core1
<1>5. CASE CommitBarrier
  BY <1>5 DEF CommitBarrier, channel, core1
<1>6. CASE PollReply
  BY <1>6 DEF PollReply, channel, core1
<1>7. CASE PollAgain
  BY <1>7 DEF PollAgain, channel, core1
<1>8. ASSUME Fail PROVE TypeOK'
  BY <1>8, SeqAssumption DEF Fail, channel, core1
<1>9. CASE TimeOut
  BY <1>9, <1>8 DEF TimeOut
<1>10. CASE Recheck
  BY <1>10, <1>8 DEF Recheck, channel, core1
<1>11. CASE ApplyReply
  BY <1>11, SeqAssumption DEF ApplyReply, channel, core1
<1>12. CASE WorkerInit
  BY <1>12 DEF WorkerInit, channel, core0
<1>13. CASE WaitRequest
  BY <1>13 DEF WaitRequest, channel, core0
<1>14. ASSUME NEW w \in Word, DecodeWord(w) PROVE TypeOK'
  BY <1>14 DEF DecodeWord, channel, core0, Image
<1>15. CASE Process
  BY <1>15, ImageFacts DEF Process, channel, core0
<1>16. ASSUME NEW w \in Word, PublishWord(w) PROVE TypeOK'
  BY <1>16 DEF PublishWord, core0, Image
<1>17. CASE LoadReplySeq
  BY <1>17 DEF LoadReplySeq, channel, core0
<1>18. CASE SendReply
  BY <1>18 DEF SendReply, core0
<1>19. CASE LatchHandled
  BY <1>19 DEF LatchHandled, channel, core0
<1>20. CASE UNCHANGED vars
  BY <1>20 DEF vars, channel, core0, core1
<1>21. QED
  BY <1>1, <1>2, <1>3, <1>4, <1>5, <1>6, <1>7, <1>9, <1>10, <1>11, <1>12, <1>13,
     <1>14, <1>15, <1>16, <1>17, <1>18, <1>19, <1>20 DEF Next, Core0Step, Core1Step

\* Every variable keeps its type: the sequence words stay within their width
\* and every image stays an image of 16-bit words.
THEOREM TypeCorrect == Spec => []TypeOK
<1>1. QED
  BY TypeInit, TypeStep, PTL DEF Spec

-----------------------------------------------------------------------------
(* The sequence numbers.                                                   *)

\* Every image a NOLOAD section may hold at boot has both words equal: no
\* exchange of an earlier run is left half-way.
ColdBoot == \A b \in BootSeq : b[1] = b[2]

LEMMA IInvInit == ColdBoot /\ Init => IInv
<1> SUFFICES ASSUME ColdBoot, Init PROVE IInv
  OBVIOUS
<1>1. req_seq \in SeqNo /\ resp_seq = req_seq
  BY SeqAssumption DEF ColdBoot, Init, SeqNo
<1>2. Lag = 0
  BY <1>1, AheadFacts DEF Lag
<1>3. TypeOK
  BY TypeInit
<1>4. SeqInv
  BY <1>2, SeqAssumption DEF Init, SeqInv, Committed, NotOwing, Handling
<1>5. PhaseInv
  BY DEF Init, PhaseInv, Quiet
<1>6. DataInv
  BY DEF Init, DataInv, Committed
<1>7. QED
  BY <1>3, <1>4, <1>5, <1>6 DEF IInv, StepInv

\* Steps that leave the four sequence words alone leave the distances alone.
LEMMA SameSeq ==
    ASSUME UNCHANGED <<req_seq, resp_seq, reply_seq, sWorkerLastHandledReqSeq>>
    PROVE  /\ Lag' = Lag
           /\ Ahead(reply_seq, req_seq)' = Ahead(reply_seq, req_seq)
           /\ Ahead(sWorkerLastHandledReqSeq, req_seq)'
                = Ahead(sWorkerLastHandledReqSeq, req_seq)
BY DEF Lag, Ahead

LEMMA SeqStep == StepInv /\ [Next]_vars => SeqInv'
<1> SUFFICES ASSUME TypeOK, SeqInv, PhaseInv, [Next]_vars
             PROVE  SeqInv'
  BY DEF StepInv
<1>a. /\ MaxMissed \in Nat \ {0} /\ MaxMissed + 1 < SeqMod /\ SeqMod \in Nat
      /\ missed \in 0 .. MaxMissed
      /\ req_seq \in SeqNo /\ resp_seq \in SeqNo /\ reply_seq \in SeqNo
      /\ sWorkerLastHandledReqSeq \in SeqNo
  BY SeqAssumption DEF TypeOK
<1>b. /\ Lag \in Nat /\ (Lag = 0 <=> resp_seq = req_seq)
      /\ Ahead(reply_seq, req_seq) \in Nat
      /\ Ahead(sWorkerLastHandledReqSeq, req_seq) \in Nat
  <2>1. \A a, b \in SeqNo : Ahead(a, b) \in Nat /\ (Ahead(a, b) = 0 <=> a = b)
    BY AheadFacts, SeqAssumption DEF SeqNo
  <2>2. QED
    BY <1>a, <2>1 DEF Lag
<1> USE DEF SeqInv, Committed, Handling, NotOwing, Stamped
<1>1. ASSUME NEW f \in Frame, ManagePdoFsoeRx(f) PROVE SeqInv'
  BY <1>1, <1>a, <1>b, SameSeq DEF ManagePdoFsoeRx, WorkerOwesReply, channel, core1
<1>2. ASSUME NEW w \in Word, FillWord(w) PROVE SeqInv'
  BY <1>2, SameSeq DEF FillWord, core1
<1>3. ASSUME NEW w \in Word, ReadWord(w) PROVE SeqInv'
  BY <1>3, SameSeq DEF ReadWord, channel, core1
<1>4. CASE CommitRequest
  <2>1. /\ Lag' = Lag + 1
        /\ req_seq' # req_seq /\ expected_seq' = req_seq'
    BY <1>4, <1>a, <1>b, AheadFacts, NextSeqFacts DEF CommitRequest, Lag
  <2>2. pc1 = "reply" => Ahead(reply_seq, req_seq)' = Ahead(reply_seq, req_seq) + 1
    BY <1>4, <1>a, <1>b, AheadFacts DEF CommitRequest, core1
  <2>3. pc1 = "poll" => Ahead(sWorkerLastHandledReqSeq, req_seq)'
                          = Ahead(sWorkerLastHandledReqSeq, req_seq) + 1
    BY <1>4, <1>a, <1>b, AheadFacts DEF CommitRequest, core1
  <2>4. pc1 = "poll" => sWorkerLastHandledReqSeq # req_seq'
    BY <2>3, <1>4, <1>a, <1>b, AheadFacts, NextSeqFacts DEF CommitRequest, core1
  <2>5. QED
    BY <2>1, <2>2, <2>3, <2>4, <1>4, <1>a, <1>b DEF CommitRequest, core1
<1>5. CASE CommitBarrier
  BY <1>5, SameSeq DEF CommitBarrier, channel, core1
<1>6. CASE PollReply
  BY <1>6, SameSeq DEF PollReply, channel, core1
<1>7. CASE PollAgain
  BY <1>7, SameSeq DEF PollAgain, channel, core1
<1>8. CASE TimeOut
  BY <1>8, <1>a, <1>b, SameSeq DEF TimeOut, Fail, channel, core1
<1>9. CASE Recheck
  BY <1>9, <1>a, <1>b, SameSeq DEF Recheck, PhaseInv, Fail, channel, core1
<1>10. CASE ApplyReply
  BY <1>10, <1>a, <1>b, SameSeq DEF ApplyReply, PhaseInv, channel, core1
<1>11. CASE WorkerInit
  <2>1. Lag' = Lag /\ Ahead(sWorkerLastHandledReqSeq, req_seq)' = 0
    BY <1>11, <1>a, AheadFacts DEF WorkerInit, channel, Lag
  <2>2. QED
    BY <2>1, <1>11, <1>a, <1>b DEF WorkerInit, channel, core0
<1>12. CASE WaitRequest
  <2>1. Lag >= 1
    BY <1>12, <1>a, <1>b, AheadFacts DEF WaitRequest, SeqNo
  <2>2. QED
    BY <2>1, <1>12, <1>a, <1>b, SameSeq DEF WaitRequest, channel, core0
<1>13. ASSUME NEW w \in Word, DecodeWord(w) PROVE SeqInv'
  BY <1>13, SameSeq DEF DecodeWord, channel, core0
<1>14. CASE Process
  BY <1>14, SameSeq DEF Process, channel, core0
<1>15. ASSUME NEW w \in Word, PublishWord(w) PROVE SeqInv'
  BY <1>15, SameSeq DEF PublishWord, core0
<1>16. CASE LoadReplySeq
  <2>1. Lag' = Lag /\ Ahead(reply_seq, req_seq)' = 0
    BY <1>16, <1>a, AheadFacts DEF LoadReplySeq, channel, Lag
  <2>2. QED
    BY <2>1, <1>16, <1>a, <1>b DEF LoadReplySeq, channel, core0
<1>17. CASE SendReply
  <2>1. Lag' = Ahead(reply_seq, req_seq)
    BY <1>17 DEF SendReply, Lag, Ahead
  <2>2. QED
    BY <2>1, <1>17, <1>a, <1>b DEF SendReply, core0, PhaseInv
<1>18. CASE LatchHandled
  <2>1. Lag' = Lag /\ Ahead(sWorkerLastHandledReqSeq, req_seq)' = Lag
    BY <1>18 DEF LatchHandled, channel, Lag, Ahead
  <2>2. QED
    BY <2>1, <1>18, <1>a, <1>b DEF LatchHandled, channel, core0, PhaseInv
<1>19. CASE UNCHANGED vars
  BY <1>19, SameSeq DEF vars, channel, core0, core1
<1>20. QED
  BY <1>1, <1>2, <1>3, <1>4, <1>5, <1>6, <1>7, <1>8, <1>9, <1>10, <1>11, <1>12,
     <1>13, <1>14, <1>15, <1>16, <1>17, <1>18, <1>19 DEF Next, Core0Step, Core1Step

-----------------------------------------------------------------------------
(* Who may be doing what.                                                  *)

LEMMA PhaseStep == StepInv /\ [Next]_vars => PhaseInv'
<1> SUFFICES ASSUME TypeOK, SeqInv, PhaseInv, [Next]_vars
             PROVE  PhaseInv'
  BY DEF StepInv
<1>a. /\ MaxMissed \in Nat \ {0} /\ missed \in 0 .. MaxMissed
      /\ req_seq \in SeqNo /\ resp_seq \in SeqNo /\ reply_seq \in SeqNo
      /\ sWorkerLastHandledReqSeq \in SeqNo
  BY SeqAssumption DEF TypeOK
<1>b. /\ Lag \in Nat /\ (Lag = 0 <=> resp_seq = req_seq)
  <2>1. \A a, b \in SeqNo : Ahead(a, b) \in Nat /\ (Ahead(a, b) = 0 <=> a = b)
    BY AheadFacts, SeqAssumption DEF SeqNo
  <2>2. QED
    BY <1>a, <2>1 DEF Lag
<1> USE DEF PhaseInv, Committed, Handling, NotOwing, Stamped, Quiet, Fresh
<1>1. ASSUME NEW f \in Frame, ManagePdoFsoeRx(f) PROVE PhaseInv'
  BY <1>1 DEF ManagePdoFsoeRx, channel, core1
<1>2. ASSUME NEW w \in Word, FillWord(w) PROVE PhaseInv'
  BY <1>2 DEF FillWord, core1
<1>3. ASSUME NEW w \in Word, ReadWord(w) PROVE PhaseInv'
  BY <1>3 DEF ReadWord, channel, core1
<1>4. CASE CommitRequest
  BY <1>4 DEF CommitRequest, core1
<1>5. CASE CommitBarrier
  BY <1>5 DEF CommitBarrier, channel, core1
<1>6. CASE PollReply
  <2>1. /\ expected_seq = req_seq
        /\ resp_seq = req_seq => pc1 \in {"poll", "latch"}
    BY <1>6, <1>b DEF PollReply, SeqInv, TypeOK
  <2>2. resp_seq = req_seq => NotOwing \/ Stamped
    <3>1. CASE pc1 = "poll" /\ resp_seq = req_seq
      <4>1. Ahead(sWorkerLastHandledReqSeq, req_seq) <= 0
        BY <3>1, <1>b DEF SeqInv
      <4>2. QED
        BY <3>1, <4>1, <1>a, AheadFacts, SeqAssumption DEF SeqNo
    <3>2. CASE pc1 = "latch" /\ resp_seq = req_seq
      BY <3>2 DEF SeqInv
    <3>3. QED
      BY <3>1, <3>2, <2>1
  <2>3. QED
    BY <2>1, <2>2, <1>6 DEF PollReply, channel, core1
<1>7. CASE PollAgain
  BY <1>7 DEF PollAgain, channel, core1
<1>8. CASE TimeOut
  BY <1>8, <1>a DEF TimeOut, Fail, WorkerOwesReply, channel, core1
<1>9. CASE Recheck
  BY <1>9, <1>a DEF Recheck, Fail, SeqInv, channel, core1
<1>10. CASE ApplyReply
  BY <1>10, <1>a DEF ApplyReply, channel, core1
<1>11. CASE WorkerInit
  BY <1>11 DEF WorkerInit, channel, core0
<1>12. CASE WaitRequest
  BY <1>12 DEF WaitRequest, channel, core0
<1>13. ASSUME NEW w \in Word, DecodeWord(w) PROVE PhaseInv'
  BY <1>13 DEF DecodeWord, channel, core0
<1>14. CASE Process
  BY <1>14 DEF Process, channel, core0
<1>15. ASSUME NEW w \in Word, PublishWord(w) PROVE PhaseInv'
  BY <1>15 DEF PublishWord, core0
<1>16. CASE LoadReplySeq
  BY <1>16 DEF LoadReplySeq, channel, core0
<1>17. CASE SendReply
  BY <1>17 DEF SendReply, core0
<1>18. CASE LatchHandled
  BY <1>18, <1>a DEF LatchHandled, channel, core0
<1>19. CASE UNCHANGED vars
  BY <1>19 DEF vars, channel, core0, core1
<1>20. QED
  BY <1>1, <1>2, <1>3, <1>4, <1>5, <1>6, <1>7, <1>8, <1>9, <1>10, <1>11, <1>12,
     <1>13, <1>14, <1>15, <1>16, <1>17, <1>18, <1>19 DEF Next, Core0Step, Core1Step

-----------------------------------------------------------------------------
(* Where the words are.                                                    *)

LEMMA DataStep == StoresInOrder /\ IInv /\ [Next]_vars => DataInv'
<1> SUFFICES ASSUME StoresInOrder, TypeOK, SeqInv, PhaseInv, DataInv, [Next]_vars
             PROVE  DataInv'
  BY DEF IInv, StepInv
<1>a. /\ MaxMissed \in Nat \ {0} /\ missed \in 0 .. MaxMissed
      /\ req_seq \in SeqNo /\ resp_seq \in SeqNo /\ reply_seq \in SeqNo
      /\ sWorkerLastHandledReqSeq \in SeqNo
      /\ req_buf \in Image /\ resp_buf \in Image /\ rx_wire \in Image
      /\ tx_wire \in Image /\ rx \in Image /\ tx \in Image
      /\ FsoeManagerProcess(rx_wire) \in Image
  BY SeqAssumption, ImageFacts DEF TypeOK
<1>b. /\ Lag \in Nat /\ (Lag = 0 <=> resp_seq = req_seq)
  <2>1. \A a, b \in SeqNo : Ahead(a, b) \in Nat /\ (Ahead(a, b) = 0 <=> a = b)
    BY AheadFacts, SeqAssumption DEF SeqNo
  <2>2. QED
    BY <1>a, <2>1 DEF Lag
<1> USE DEF DataInv, Committed, NotOwing, Stamped, Fresh
<1>1. ASSUME NEW f \in Frame, ManagePdoFsoeRx(f) PROVE DataInv'
  BY <1>1 DEF ManagePdoFsoeRx, channel, core1
<1>2. ASSUME NEW w \in Word, FillWord(w) PROVE DataInv'
  BY <1>2, <1>a DEF FillWord, core1, PhaseInv, Image
<1>3. ASSUME NEW w \in Word, ReadWord(w) PROVE DataInv'
  BY <1>3, <1>a DEF ReadWord, channel, core1, Image
<1>4. CASE CommitRequest
  <2>1. req_buf = rx_wire
    BY <1>4, <1>a DEF CommitRequest, Image
  <2>2. Fresh => pc1 \notin {"decode", "publish", "reply"}
    BY <1>4 DEF CommitRequest, PhaseInv, Quiet
  <2>3. req_seq' # resp_seq
    <3>1. Lag' = Lag + 1 /\ req_seq' \in SeqNo /\ resp_seq' = resp_seq
      <4>1. Lag + 1 < SeqMod
        BY <1>4, <1>b, SeqAssumption DEF CommitRequest, SeqInv
      <4>2. QED
        BY <4>1, <1>4, <1>a, AheadFacts, NextSeqFacts DEF CommitRequest, Lag
    <3>2. Ahead(resp_seq, req_seq') # 0
      BY <3>1, <1>b DEF Lag
    <3>3. QED
      BY <3>1, <3>2, <1>a, AheadFacts
  <2>4. QED
    BY <2>1, <2>2, <2>3, <1>4 DEF CommitRequest, core1
<1>5. CASE CommitBarrier
  BY <1>5 DEF CommitBarrier, channel, core1
<1>6. CASE PollReply
  BY <1>6, <1>b DEF PollReply, channel, core1, SeqInv, PhaseInv, Handling, TypeOK
<1>7. CASE PollAgain
  BY <1>7 DEF PollAgain, channel, core1
<1>8. CASE TimeOut
  BY <1>8, <1>a DEF TimeOut, Fail, channel, core1
<1>9. CASE Recheck
  BY <1>9, <1>a DEF Recheck, Fail, SeqInv, PhaseInv, channel, core1
<1>10. CASE ApplyReply
  <2>1. tx_wire = resp_buf
    BY <1>10, <1>a DEF ApplyReply, Image
  <2>2. QED
    BY <2>1, <1>10 DEF ApplyReply, channel, core1
<1>11. CASE WorkerInit
  BY <1>11, <1>b DEF WorkerInit, channel, core0, SeqInv, PhaseInv
<1>12. CASE WaitRequest
  BY <1>12 DEF WaitRequest, channel, core0, PhaseInv
<1>13. ASSUME NEW w \in Word, DecodeWord(w) PROVE DataInv'
  BY <1>13, <1>a DEF DecodeWord, channel, core0, Image
<1>14. CASE Process
  <2>1. Fresh /\ Committed => rx = rx_wire
    BY <1>14, <1>a DEF Process, Image
  <2>2. QED
    BY <2>1, <1>14 DEF Process, channel, core0
<1>15. ASSUME NEW w \in Word, PublishWord(w) PROVE DataInv'
  BY <1>15, <1>a DEF PublishWord, core0, PhaseInv, Image
<1>16. CASE LoadReplySeq
  BY <1>16 DEF LoadReplySeq, channel, core0
<1>17. CASE SendReply
  <2>1. Fresh /\ Committed => resp_buf = FsoeManagerProcess(rx_wire)
    BY <1>17, <1>a DEF SendReply, PhaseInv, Image
  <2>2. QED
    BY <2>1, <1>17 DEF SendReply, core0, PhaseInv
<1>18. CASE LatchHandled
  BY <1>18 DEF LatchHandled, channel, core0
<1>19. CASE UNCHANGED vars
  BY <1>19 DEF vars, channel, core0, core1
<1>20. QED
  BY <1>1, <1>2, <1>3, <1>4, <1>5, <1>6, <1>7, <1>8, <1>9, <1>10, <1>11, <1>12,
     <1>13, <1>14, <1>15, <1>16, <1>17, <1>18, <1>19 DEF Next, Core0Step, Core1Step

LEMMA StepInvStep == StepInv /\ [Next]_vars => StepInv'
<1>1. StepInv /\ [Next]_vars => TypeOK'
  BY TypeStep DEF StepInv
<1>2. QED
  BY <1>1, SeqStep, PhaseStep DEF StepInv

LEMMA StepInvAlways == ColdBoot /\ Spec => []StepInv
<1>1. ASSUME ColdBoot PROVE Spec => []StepInv
  <2>1. Init => StepInv
    BY <1>1, IInvInit DEF IInv
  <2>2. QED
    BY <2>1, StepInvStep, PTL DEF Spec
<1>2. QED
  BY <1>1

LEMMA IInvAlways == StoresInOrder /\ ColdBoot /\ Spec => []IInv
<1>1. ASSUME StoresInOrder, ColdBoot PROVE Spec => []IInv
  <2>1. Init => IInv
    BY <1>1, IInvInit
  <2>2. IInv /\ [Next]_vars => IInv'
    BY <1>1, StepInvStep, DataStep DEF IInv
  <2>3. QED
    BY <2>1, <2>2, PTL DEF Spec
<1>2. QED
  BY <1>1

-----------------------------------------------------------------------------
(* What the channel guarantees however late the worker is.                 *)

\* fsoe_ipc_master_exchange: a success that does not follow a failed exchange
\* carries the worker's answer to the image that was sent.
THEOREM NoStaleReplyWithoutTimeout ==
    StoresInOrder /\ ColdBoot /\ Spec => []StaleOnlyAfterTimeout
<1>1. IInv => StaleOnlyAfterTimeout
  <2> SUFFICES ASSUME IInv, pc0 = "read", todo0 = {}, missed = 0
               PROVE  tx_wire = FsoeManagerProcess(rx_wire)
    BY DEF StaleOnlyAfterTimeout
  <2>1. tx_wire \in Image /\ resp_buf \in Image
    BY DEF IInv, StepInv, TypeOK
  <2>2. tx_wire = resp_buf
    BY <2>1 DEF IInv, DataInv, Image
  <2>3. QED
    BY <2>2 DEF IInv, DataInv, Fresh
<1>2. QED
  BY <1>1, IInvAlways, PTL

\* The second check of resp_seq in fsoe_ipc_master_exchange never fails: Core 1
\* does not touch resp_seq between the poll that succeeds and the end of the
\* copy, in whatever order the stores of either core become visible.
THEOREM SecondCheckNeverFails ==
    ColdBoot /\ Spec => []RecheckNeverFails
<1>1. StepInv => RecheckNeverFails
  BY DEF StepInv, SeqInv, PhaseInv, RecheckNeverFails
<1>2. QED
  BY <1>1, StepInvAlways, PTL

\* fsoe_ipc_master_exchange reads resp_buf without a lock: the worker never
\* writes a word of it between the poll that succeeds and the end of the copy.
THEOREM NoTornReply ==
    StoresInOrder /\ ColdBoot /\ Spec => []ReplyStableWhileRead
<1>1. ASSUME StoresInOrder, ColdBoot PROVE Spec => []ReplyStableWhileRead
  <2>1. IInv => ReplyStableWhileRead
    BY <1>1 DEF IInv, StepInv, PhaseInv, NotOwing, Stamped, ReplyStableWhileRead
  <2>2. Spec => []IInv
    BY <1>1, IInvAlways
  <2>3. QED
    BY <2>1, <2>2, PTL
<1>2. QED
  BY <1>1

\* After a success Core 1 waits for the next number and the sequence words
\* agree: a late worker is back in step, whatever the order of the stores.
THEOREM BackInStep ==
    ColdBoot /\ Spec => []QuiescentAfterSuccess
<1>1. StepInv => QuiescentAfterSuccess
  BY DEF StepInv, PhaseInv, NotOwing, Stamped, QuiescentAfterSuccess
<1>2. QED
  BY <1>1, StepInvAlways, PTL

-----------------------------------------------------------------------------
(* What it guarantees when the worker keeps FSOE_IPC_REPLY_TIMEOUT_US.     *)

\* What fsoe_ipc_self_test_verify asserts: after SystemP_SUCCESS the object
\* 0x60F0 is the FSoE manager's answer to 0x70F0.
THEOREM OwnReply ==
    StoresInOrder /\ ColdBoot /\ WorkerPrompt /\ Spec => []SuccessMeansOwnReply
<1>1. ASSUME WorkerPrompt PROVE IInv => SuccessMeansOwnReply
  BY <1>1 DEF IInv, DataInv, SuccessMeansOwnReply
<1>2. ASSUME WorkerPrompt, StoresInOrder, ColdBoot PROVE Spec => []SuccessMeansOwnReply
  <2>1. IInv => SuccessMeansOwnReply
    BY <1>1, <1>2
  <2>2. Spec => []IInv
    BY <1>2, IInvAlways
  <2>3. QED
    BY <2>1, <2>2, PTL
<1>3. QED
  BY <1>2

\* Every step of the channel is a step of the atomic exchange or leaves it
\* alone: only the first and the last step of an exchange are visible.
LEMMA ExchangeStep ==
    ASSUME StoresInOrder, WorkerPrompt, IInv, [Next]_vars
    PROVE  [Exchange!Next]_(Exchange!vars)
<1> USE DEF Exchange!vars
<1>1. ASSUME NEW f \in Frame, ManagePdoFsoeRx(f) PROVE Exchange!Next
  BY <1>1 DEF ManagePdoFsoeRx, Exchange!Next, Exchange!Request
<1>2. ASSUME NEW w \in Word, FillWord(w) PROVE UNCHANGED Exchange!vars
  BY <1>2 DEF FillWord
<1>3. ASSUME NEW w \in Word, ReadWord(w) PROVE UNCHANGED Exchange!vars
  BY <1>3 DEF ReadWord
<1>4. CASE CommitRequest
  BY <1>4 DEF CommitRequest
<1>5. CASE CommitBarrier
  BY <1>5 DEF CommitBarrier
<1>6. CASE PollReply
  BY <1>6 DEF PollReply
<1>7. CASE PollAgain
  BY <1>7 DEF PollAgain
<1>8. ASSUME pc0 # "idle", Fail PROVE Exchange!Next
  BY <1>8 DEF Fail, Exchange!Next, Exchange!GiveUp
<1>9. CASE TimeOut
  BY <1>9, <1>8 DEF TimeOut
<1>10. CASE Recheck
  BY <1>10, <1>8 DEF Recheck
<1>11. CASE ApplyReply
  <2>1. tx_wire \in Image /\ resp_buf \in Image
    BY DEF IInv, StepInv, TypeOK
  <2>2. tx_wire = resp_buf
    BY <2>1, <1>11 DEF ApplyReply, IInv, DataInv, Image
  <2>3. tx_wire = FsoeManagerProcess(rx_wire) /\ rx_wire \in Frame
    BY <2>2, <1>11 DEF ApplyReply, IInv, DataInv, Fresh
  <2>4. QED
    BY <2>3, <1>11 DEF ApplyReply, Exchange!Next, Exchange!Answer
<1>12. CASE WorkerInit
  BY <1>12 DEF WorkerInit, core0
<1>13. CASE Core1Step
  BY <1>13 DEF Core1Step, DecodeWord, PublishWord, WaitRequest, Process,
               LoadReplySeq, SendReply, LatchHandled, core0
<1>14. CASE UNCHANGED vars
  BY <1>14 DEF vars, core0
<1>15. QED
  BY <1>1, <1>2, <1>3, <1>4, <1>5, <1>6, <1>7, <1>9, <1>10, <1>11, <1>12, <1>13,
     <1>14 DEF Next, Core0Step

\* The channel implements the exchange of fsoe_ipc_master.h: each success
\* brings the answer to the image just sent, each failure leaves the inputs.
THEOREM ChannelImplementsExchange ==
    StoresInOrder /\ ColdBoot /\ WorkerPrompt /\ Spec => Exchange!Spec
<1>1. ASSUME StoresInOrder, ColdBoot, WorkerPrompt PROVE Spec => Exchange!Spec
  <2>1. Init => Exchange!Init
    BY DEF Init, Exchange!Init
  <2>2. IInv /\ [Next]_vars => [Exchange!Next]_(Exchange!vars)
    BY <1>1, ExchangeStep
  <2>3. Spec => []IInv
    BY <1>1, IInvAlways
  <2>4. QED
    BY <2>1, <2>2, <2>3, PTL DEF Spec, Exchange!Spec
<1>2. QED
  BY <1>1

=============================================================================
