----------------------- MODULE EcatStateMachineProofs -----------------------
(***************************************************************************)
(* Proofs about EcatStateMachine, for every set of modes, channels and     *)
(* requests and every length of the two timeouts.                          *)
(*                                                                         *)
(* The inductive invariant follows a transition through its services: what *)
(* runs, what the result is and where the transition started and leads to, *)
(* for every list of services that may be left.                            *)
(***************************************************************************)
EXTENDS EcatStateMachine, SequenceTheorems, TLAPS

\* Places of the main task at which no transition is being made.
Settled == {"MainLoop", "ECAT_Application", "timer", "sm1", "event", "smcheck",
            "AL_ControlRes", "sm1check", "watchdog", "expired", "sync"}

\* The handlers that run are those of state s.
FlagsOf(s) ==
    /\ outputRun <=> (s = "OP")
    /\ inputRun <=> (s \in {"SAFEOP", "OP"})
    /\ mbxRunning <=> (s # "INIT")
    /\ bootMode <=> (s = "BOOT")
    /\ escInt \/ dcActive => inputRun

\* Lists of services that start with the stopping of the outputs.
FromAppl(rest)  == StopOutputs \o rest
FromFirst(rest) == StopOutputsOnly \o rest
FromRun(rest)   == <<"ClearOutputRun">> \o rest
Stops(rest)     == {FromAppl(rest), FromFirst(rest), FromRun(rest)}

\* What is left when the outputs are stopped, by the state that is asked for.
StopInputsList  == <<"StopInputHandler", "ApplCalled">>
StopAllList     == <<"StopInputHandler", "ApplCalled", "MBX_StopMailboxHandler">>
StopMailboxList == <<"ApplCalled", "MBX_StopMailboxHandler">>
FallBackList    == <<"StopInputHandler", "FallBack">>
StartInputsList == <<"StartInputHandler", "ApplCalled", "SetInputRun">>
SetInputsList   == <<"ApplCalled", "SetInputRun">>

Rest(s) == CASE s = "SAFEOP" -> <<"ApplCalled">>
             [] s = "PREOP"  -> StopInputsList
             [] s = "INIT"   -> StopAllList

-----------------------------------------------------------------------------
(* The stages of AL_ControlInd.                                            *)

\* The state asked for is the state the slave is in.
Staying ==
    /\ call.state = alState
    /\ FlagsOf(alState)
    /\ alState = "BOOT" => todo = << >>
    /\ \/ todo = <<"EnableSm2">> /\ result = "0"
       \/ /\ todo = << >> /\ result \notin {"INWORK", "0"}
          /\ alState # "BOOT" => result = "NOSTATECHANGE"

\* There is no such transition; out of OP the outputs are stopped.
Refused ==
    /\ call.state # alState
    /\ <<alState, call.state>> \notin {<<"INIT", "PREOP">>, <<"INIT", "BOOT">>}
    /\ call.ret = "smcheck"
    /\ result \in {"INVALIDALCONTROL", "UNKNOWNALCONTROL"}
    /\ inputRun <=> (alState \in {"SAFEOP", "OP"})
    /\ mbxRunning <=> (alState # "INIT")
    /\ bootMode <=> (alState = "BOOT")
    /\ escInt \/ dcActive => inputRun
    /\ outputRun => alState = "OP"
    /\ todo = << >> \/ (alState = "OP" /\ todo \in Stops(<< >>))

StartingMailbox ==
    /\ alState = "INIT" /\ call.state \in {"PREOP", "BOOT"} /\ call.ret = "smcheck"
    /\ ~outputRun /\ ~inputRun /\ ~escInt /\ ~dcActive
    /\ \/ /\ todo = <<IF call.state = "BOOT" THEN "StartBoot" ELSE "MBX_StartMailboxHandler">>
          /\ result = "0" /\ ~mbxRunning /\ ~bootMode
       \/ /\ todo = << >>
          /\ result \in {"0", "EE_ERROR", "INVALIDMBXCFG", "INVALIDMBXCFGINBOOT"}
          /\ mbxRunning <=> (result = "0")
          /\ bootMode <=> (result = "0" /\ call.state = "BOOT")

StoppingBoot ==
    /\ alState = "BOOT" /\ call.state = "INIT" /\ result = "0"
    /\ ~outputRun /\ ~inputRun /\ ~escInt /\ ~dcActive
    /\ \/ todo = <<"StopBoot">> /\ mbxRunning /\ bootMode
       \/ todo = << >> /\ ~mbxRunning /\ ~bootMode

StartingInputs ==
    /\ alState = "PREOP" /\ call.state = "SAFEOP" /\ call.ret = "smcheck"
    /\ ~outputRun /\ mbxRunning /\ ~bootMode
    /\ \/ todo = StartInputsList /\ result = "0" /\ ~inputRun /\ ~escInt /\ ~dcActive
       \/ todo \in {SetInputsList, <<"SetInputRun">>} /\ result = "0" /\ ~inputRun
       \/ todo = << >> /\ result = "0" /\ inputRun
       \/ todo = StopInputs /\ result \in {"INVALIDWDCFG", "DCINVALIDSYNCCFG"} /\ ~inputRun
       \/ /\ todo = << >> /\ result \in {"INVALIDWDCFG", "DCINVALIDSYNCCFG"}
          /\ ~inputRun /\ ~escInt /\ ~dcActive

StartingOutputs ==
    /\ alState = "SAFEOP" /\ call.state = "OP" /\ call.ret = "smcheck"
    /\ FlagsOf("SAFEOP") /\ applPending /\ ~waitRes
    /\ \/ todo = <<"StartOutputHandler">> /\ result = "0"
       \/ todo = << >> /\ result = "INWORK"

\* Down to PREOP or INIT the inputs are stopped as well, and the mailbox.
Stopping ==
    /\ <<alState, call.state>> \in ({"OP"} \X {"SAFEOP", "PREOP", "INIT"})
          \cup ({"SAFEOP"} \X {"PREOP", "INIT"}) \cup {<<"PREOP", "INIT">>}
    /\ result = "0" /\ ~bootMode
    /\ escInt \/ dcActive => inputRun
    /\ \/ alState = "OP" /\ todo \in Stops(Rest(call.state)) /\ outputRun /\ inputRun /\ mbxRunning
       \/ /\ alState # "PREOP" /\ todo = Rest(call.state) /\ ~outputRun /\ inputRun /\ mbxRunning
       \/ call.state = "SAFEOP" /\ todo = << >> /\ ~outputRun /\ inputRun /\ mbxRunning
       \/ /\ call.state = "PREOP" /\ todo \in {<<"ApplCalled">>, << >>}
          /\ ~outputRun /\ ~inputRun /\ mbxRunning
       \/ /\ call.state = "INIT" /\ todo \in {StopMailboxList, StopMailbox}
          /\ ~outputRun /\ ~inputRun /\ mbxRunning
       \/ call.state = "INIT" /\ todo = << >> /\ ~outputRun /\ ~inputRun /\ ~mbxRunning

\* A Sync Manager is wrong, or the mapping: two states at most are left.
CheckResult == {"INVALIDMBXCFG", "INVALIDSMINCFG", "INVALIDSMOUTCFG", "INVALIDOUTPUTMAPPING"}

FallingBack ==
    /\ call.state \in {"PREOP", "SAFEOP", "OP"}
    /\ result \in CheckResult
    /\ call.state = "PREOP" => result = "INVALIDMBXCFG"
    /\ ~bootMode
    /\ escInt \/ dcActive => inputRun
    /\ \/ /\ alState = "OP" /\ todo \in Stops(FallBackList)
          /\ outputRun /\ inputRun /\ mbxRunning
       \/ /\ alState \in {"OP", "SAFEOP"} /\ todo = FallBackList
          /\ ~outputRun /\ inputRun /\ mbxRunning
       \/ /\ alState \in {"OP", "SAFEOP", "PREOP"} /\ todo = <<"FallBack">>
          /\ ~outputRun /\ ~inputRun /\ mbxRunning
       \/ /\ alState = (IF result = "INVALIDMBXCFG" THEN "INIT" ELSE "PREOP")
          /\ todo = << >>
          /\ ~outputRun /\ ~inputRun /\ (mbxRunning <=> (alState = "PREOP"))

Stage ==
    \/ Staying \/ Refused \/ StartingMailbox \/ StoppingBoot \/ StartingInputs
    \/ StartingOutputs \/ Stopping \/ FallingBack

-----------------------------------------------------------------------------
(* Types: the flags, and the other variables.                              *)

Flags ==
    /\ errInd \in BOOLEAN /\ waitRes \in BOOLEAN /\ applPending \in BOOLEAN
    /\ mbxRunning \in BOOLEAN /\ bootMode \in BOOLEAN
    /\ inputRun \in BOOLEAN /\ outputRun \in BOOLEAN
    /\ firstOutputs \in BOOLEAN /\ escInt \in BOOLEAN /\ wdOn \in BOOLEAN
    /\ dcActive \in BOOLEAN /\ dcRunning \in BOOLEAN /\ seqValid \in BOOLEAN
    /\ pllWait \in BOOLEAN
    /\ sm2Enabled \in BOOLEAN /\ outEvent \in BOOLEAN /\ wdExpired \in BOOLEAN
    /\ seen \in [sm1 : BOOLEAN, smChange : BOOLEAN]

Scalars ==
    /\ alState \in State
    /\ esmTimer \in -1 .. MaxEsm /\ pllCnt \in 0 .. PllTicks
    /\ badSm \subseteq MasterSm /\ changedSm \subseteq MasterSm
    /\ outputs \in {"reset", "live"}
    /\ pc \in Settled \cup {"op", "reject", "AL_ControlInd", "services"}
    /\ todo \in Seq(ServiceName)
    /\ result \in ErrorCode \cup {"0", "INWORK", "NOSTATECHANGE"}

Records ==
    /\ alReg \in [state : State, err : BOOLEAN, code : ErrorCode \cup {"0"}]
    /\ alControl \in Request \cup {NoRequest}
    /\ call \in [state : State \cup {Unknown}, ack : BOOLEAN,
                 code : ErrorCode \cup {"0"},
                 ret : {"smcheck", "AL_ControlRes", "watchdog", "MainLoop"}]

Types == Flags /\ Scalars /\ Records

-----------------------------------------------------------------------------
(* The inductive invariant.                                                *)

\* The AL Status register: its state, its error indication and its code.
RegInv ==
    /\ alReg.err <=> (alReg.code # "0")
    /\ alReg.err => errInd \/ waitRes \/ pc = "services"
    /\ errInd => alReg.err /\ alState # "OP"
    /\ \/ alReg.state = alState
       \/ pc = "services" /\ FallingBack /\ todo = << >> /\ Rank[alReg.state] > Rank[alState]

\* A transition pends: the request for OP is the last call until another call
\* of AL_ControlInd ends the wait.
PendingInv ==
    /\ waitRes => alState = "SAFEOP" \/ (pc = "services" /\ FallingBack /\ todo = << >>)
    /\ waitRes => ~errInd
    /\ waitRes /\ pc \in Settled => applPending /\ esmTimer >= 0
    /\ waitRes /\ pc \in Settled \cup {"op", "reject"}
            => call.state = "OP" /\ call.ret = "smcheck"
    /\ waitRes /\ pc \in {"AL_ControlInd", "services"}
            => call.ret = "watchdog" /\ call.state = "SAFEOP"

\* Who called AL_ControlInd, and for what.
CallInv ==
    /\ call.code # "0" => call.state = "SAFEOP" /\ call.ret = "MainLoop"
    /\ pc = "AL_ControlInd" /\ call.ret # "smcheck" =>
          /\ call.state = alState \/ (alState = "OP" /\ call.state = "SAFEOP")
          /\ call.code # "0" => alState = "OP"
    /\ pc = "services" =>
          /\ ~errInd
          /\ alReg.err /\ ~waitRes => call.ack \/ call.state = "INIT"
          /\ call.ret # "smcheck" /\ call.state # alState => Rank[call.state] <= Rank[alReg.state]

\* What runs.
RunInv ==
    /\ pc \in Settled \cup {"AL_ControlInd"} => FlagsOf(alState)
    /\ pc = "services" => Stage
    /\ pc = "op" => alState = "SAFEOP" /\ waitRes /\ outputRun /\ inputRun
                      /\ mbxRunning /\ ~bootMode
    /\ pc = "reject" => /\ alState = "SAFEOP" /\ waitRes /\ FlagsOf("SAFEOP")
                        /\ todo \in Stops(<< >>) \cup {<< >>}
                        /\ result \in {"SMWATCHDOG", "NOSYNCERROR", "SYNCERROR"}

\* Sync Managers state s relies on.
Needed(s) == CASE s = "PREOP" -> {0, 1} [] s \in {"SAFEOP", "OP"} -> Channel
               [] OTHER -> {}

\* With a patient master a wrong Sync Manager the state relies on still has
\* its change event, or SM1 was just seen to be disabled; a transition that
\* goes on has met none, and the master waits for its end.
SmInv ==
    /\ pc \in Settled \cup {"op", "reject"} /\ ~errInd =>
          \A c \in badSm \cap Needed(alState) : c \in changedSm \/ (c = 1 /\ ~seen.sm1)
    /\ pc \in Settled \ {"event", "smcheck", "AL_ControlRes", "sm1check"} => seen.sm1
    /\ pc \in {"AL_ControlInd", "services"} /\ call.ret \in {"watchdog", "MainLoop"} => seen.sm1
    /\ pc = "services" /\ result \in {"0", "INWORK", "NOSTATECHANGE"} =>
          \A c \in badSm \cap Needed(call.state) : c \in changedSm /\ call.ret # "smcheck"

\* In free run the outputs are live only while they are updated, and nobody
\* updates them during a transition.
OutInv ==
    /\ ~escInt
    /\ outputs = "live" => outputRun
    /\ pc = "services" /\ todo # << >> /\ Head(todo) \in {"ClearFirstOutputs", "ClearOutputRun"}
          => outputs = "reset"

IInv ==
    /\ Types /\ RegInv /\ PendingInv /\ CallInv /\ RunInv
    /\ Patient => SmInv
    /\ Modes = {"freerun"} => OutInv

-----------------------------------------------------------------------------
(* Lists of services.                                                      *)

LEMMA Lists ==
    /\ \A a : Head(<<a>>) = a /\ Tail(<<a>>) = << >> /\ <<a>> # << >>
    /\ \A a, b : Head(<<a, b>>) = a /\ Tail(<<a, b>>) = <<b>> /\ <<a, b>> # << >>
    /\ \A a, b, c : Head(<<a, b, c>>) = a /\ Tail(<<a, b, c>>) = <<b, c>> /\ <<a, b, c>> # << >>
  OBVIOUS

LEMMA StopLists ==
    ASSUME NEW rest \in Seq(ServiceName)
    PROVE  /\ Head(FromAppl(rest)) = "APPL_StopOutputHandler" /\ Tail(FromAppl(rest)) = FromFirst(rest)
           /\ Head(FromFirst(rest)) = "ClearFirstOutputs" /\ Tail(FromFirst(rest)) = FromRun(rest)
           /\ Head(FromRun(rest)) = "ClearOutputRun" /\ Tail(FromRun(rest)) = rest
           /\ << >> \notin Stops(rest)
           /\ Stops(rest) \subseteq Seq(ServiceName)
  BY DEF FromAppl, FromFirst, FromRun, Stops, ServiceName, StopOutputs, StopOutputsOnly

LEMMA ListTypes ==
    /\ << >> \in Seq(ServiceName)
    /\ \A a \in ServiceName : <<a>> \in Seq(ServiceName)
    /\ StopInputsList \in Seq(ServiceName) /\ StopAllList \in Seq(ServiceName)
    /\ StopMailboxList \in Seq(ServiceName) /\ FallBackList \in Seq(ServiceName)
    /\ StartInputsList \in Seq(ServiceName) /\ SetInputsList \in Seq(ServiceName)
    /\ StopOutputs \in Seq(ServiceName)
  <1>1. \A a \in ServiceName : <<a>> \in Seq(ServiceName) OBVIOUS
  <1>2. \A a, b \in ServiceName : <<a, b>> \in Seq(ServiceName) OBVIOUS
  <1>3. \A a, b, c \in ServiceName : <<a, b, c>> \in Seq(ServiceName) OBVIOUS
  <1> QED BY <1>1, <1>2, <1>3
          DEF StopOutputs, StopInputsList, StopAllList, StopMailboxList,
              FallBackList, StartInputsList, SetInputsList, ServiceName

LEMMA Join11 ==
  ASSUME NEW S, NEW a \in S, NEW b \in S
  PROVE  <<a>> \o <<b>> = <<a, b>>
  <1> DEFINE s == <<a>> t == <<b>> u == <<a, b>>
  <1>1. /\ s \in Seq(S) /\ Len(s) = 1 /\ s[1] = a
        /\ t \in Seq(S) /\ Len(t) = 1 /\ t[1] = b
        /\ u \in Seq(S) /\ Len(u) = 2 /\ u[1] = a /\ u[2] = b
    OBVIOUS
  <1> HIDE DEF s, t, u
  <1>2. /\ s \o t \in Seq(S) /\ Len(s \o t) = 2
        /\ \A i \in 1 .. 2 : (s \o t)[i] = IF i <= 1 THEN s[i] ELSE t[i - 1]
    BY <1>1, ConcatProperties
  <1>3. \A i \in 1 .. 2 : (s \o t)[i] = u[i]
    BY <1>1, <1>2
  <1>4. s \o t = u BY <1>1, <1>2, <1>3, SeqEqual
  <1> QED BY <1>4 DEF s, t, u

LEMMA Join21 ==
  ASSUME NEW S, NEW a \in S, NEW b \in S, NEW c \in S
  PROVE  <<a, b>> \o <<c>> = <<a, b, c>>
  <1> DEFINE s == <<a, b>> t == <<c>> u == <<a, b, c>>
  <1>1. s \in Seq(S) /\ Len(s) = 2 /\ s[1] = a /\ s[2] = b
    OBVIOUS
  <1>2. t \in Seq(S) /\ Len(t) = 1 /\ t[1] = c
    OBVIOUS
  <1>3. u \in Seq(S) /\ Len(u) = 3 /\ u[1] = a /\ u[2] = b /\ u[3] = c
    OBVIOUS
  <1> HIDE DEF s, t, u
  <1>4. /\ s \o t \in Seq(S)
        /\ Len(s \o t) = Len(s) + Len(t)
        /\ \A i \in 1 .. Len(s) + Len(t) :
              (s \o t)[i] = IF i <= Len(s) THEN s[i] ELSE t[i - Len(s)]
    BY <1>1, <1>2, ConcatProperties
  <1>5. Len(s \o t) = 3 BY <1>1, <1>2, <1>4
  <1>6. \A i \in 1 .. 3 : (s \o t)[i] = u[i]
    BY <1>1, <1>2, <1>3, <1>4
  <1>7. s \o t = u BY <1>3, <1>4, <1>5, <1>6, SeqEqual
  <1> QED BY <1>7 DEF s, t, u

LEMMA Concatenations ==
    /\ StopInputs \o ApplCalled = StopInputsList
    /\ StopInputs \o ApplCalled \o StopMailbox = StopAllList
    /\ <<"StartInputHandler">> \o ApplCalled \o <<"SetInputRun">> = StartInputsList
    /\ StopInputs \o <<"FallBack">> = FallBackList
    /\ StopOutputs \o ApplCalled = FromAppl(ApplCalled)
    /\ StopOutputs \o StopInputs \o ApplCalled = FromAppl(StopInputsList)
    /\ StopOutputs \o StopInputs \o ApplCalled \o StopMailbox = FromAppl(StopAllList)
    /\ StopOutputs \o StopInputs \o <<"FallBack">> = FromAppl(FallBackList)
    /\ StopOutputs = FromAppl(<< >>)
  <1>a. {"StopInputHandler", "ApplCalled", "MBX_StopMailboxHandler", "StartInputHandler",
         "SetInputRun", "FallBack"} \subseteq ServiceName
    BY DEF ServiceName
  <1>0. /\ StopOutputs \in Seq(ServiceName) /\ StopInputs \in Seq(ServiceName)
        /\ ApplCalled \in Seq(ServiceName) /\ StopMailbox \in Seq(ServiceName)
        /\ StopInputsList \in Seq(ServiceName)
    BY <1>a, ListTypes DEF StopInputs, ApplCalled, StopMailbox
  <1>d. <<"FallBack">> \in Seq(ServiceName)
    BY <1>a
  <1>1. StopInputs \o ApplCalled = StopInputsList
    BY <1>a, Join11 DEF StopInputs, ApplCalled, StopInputsList
  <1>2. StopInputs \o ApplCalled \o StopMailbox = StopAllList
    <2>1. StopInputsList \o StopMailbox = StopAllList
      BY <1>a, Join21 DEF StopInputsList, StopMailbox, StopAllList
    <2> QED BY <1>1, <2>1
  <1>3. <<"StartInputHandler">> \o ApplCalled \o <<"SetInputRun">> = StartInputsList
    <2>1. <<"StartInputHandler">> \o ApplCalled = <<"StartInputHandler", "ApplCalled">>
      BY <1>a, Join11 DEF ApplCalled
    <2>2. <<"StartInputHandler", "ApplCalled">> \o <<"SetInputRun">> = StartInputsList
      BY <1>a, Join21 DEF StartInputsList
    <2> QED BY <2>1, <2>2
  <1>4. StopInputs \o <<"FallBack">> = FallBackList
    BY <1>a, Join11 DEF StopInputs, FallBackList
  <1>b. \A s, t, u \in Seq(ServiceName) : (s \o t) \o u = s \o (t \o u)
    BY ConcatAssociative
  <1>c. \A s \in Seq(ServiceName) : s \o << >> = s
    BY ConcatEmptySeq
  <1>5. StopOutputs \o StopInputs \o ApplCalled = FromAppl(StopInputsList)
    <2>1. (StopOutputs \o StopInputs) \o ApplCalled = StopOutputs \o (StopInputs \o ApplCalled)
      BY <1>0, <1>b
    <2> QED BY <2>1, <1>1 DEF FromAppl
  <1>6. StopOutputs \o StopInputs \o ApplCalled \o StopMailbox = FromAppl(StopAllList)
    <2>1. FromAppl(StopInputsList) \o StopMailbox = StopOutputs \o (StopInputsList \o StopMailbox)
      BY <1>0, <1>b DEF FromAppl
    <2>2. StopInputsList \o StopMailbox = StopAllList
      BY <1>1, <1>2
    <2> QED BY <2>1, <2>2, <1>5 DEF FromAppl
  <1>7. StopOutputs \o StopInputs \o <<"FallBack">> = FromAppl(FallBackList)
    <2>1. (StopOutputs \o StopInputs) \o <<"FallBack">> = StopOutputs \o (StopInputs \o <<"FallBack">>)
      BY <1>0, <1>d, <1>b
    <2> QED BY <2>1, <1>4 DEF FromAppl
  <1>8. StopOutputs = FromAppl(<< >>)
    BY <1>0, <1>c DEF FromAppl
  <1> QED BY <1>1, <1>2, <1>3, <1>4, <1>5, <1>6, <1>7, <1>8 DEF FromAppl

\* The lists of a transition are those the invariant knows.
LEMMA ServiceLists ==
    ASSUME NEW from \in State, NEW to \in State \cup {Unknown}
    PROVE  Services(from, to) =
             IF from = to /\ from # "BOOT" THEN <<"EnableSm2">>
             ELSE IF from = "INIT" /\ to = "PREOP" THEN <<"MBX_StartMailboxHandler">>
             ELSE IF from = "INIT" /\ to = "BOOT" THEN <<"StartBoot">>
             ELSE IF from = "BOOT" /\ to = "INIT" THEN <<"StopBoot">>
             ELSE IF from = "PREOP" /\ to = "SAFEOP" THEN StartInputsList
             ELSE IF from = "SAFEOP" /\ to = "OP" THEN <<"StartOutputHandler">>
             ELSE IF from = "PREOP" /\ to = "INIT" THEN StopMailbox
             ELSE IF from = "OP" /\ to \in {"SAFEOP", "PREOP", "INIT"} THEN FromAppl(Rest(to))
             ELSE IF from = "SAFEOP" /\ to \in {"PREOP", "INIT"} THEN Rest(to)
             ELSE << >>
  <1>1. CASE from = to BY <1>1 DEF Services, State, Unknown
  <1>2. CASE from = "INIT" /\ from # to BY <1>2 DEF Services, State, Unknown
  <1>3. CASE from = "BOOT" /\ from # to BY <1>3 DEF Services, State, Unknown
  <1>4. CASE from = "PREOP" /\ from # to
    BY <1>4, Concatenations DEF Services, State, Unknown
  <1>5. CASE from = "SAFEOP" /\ from # to
    BY <1>5, Concatenations DEF Services, State, Unknown, Rest
  <1>6. CASE from = "OP" /\ from # to
    BY <1>6, Concatenations DEF Services, State, Unknown, Rest, ApplCalled
  <1> QED BY <1>1, <1>2, <1>3, <1>4, <1>5, <1>6 DEF State

LEMMA FallbackLists ==
    ASSUME NEW from \in State
    PROVE  Fallback(from) = CASE from = "OP"     -> FromAppl(FallBackList)
                              [] from = "SAFEOP" -> FallBackList
                              [] from = "PREOP"  -> <<"FallBack">>
                              [] OTHER           -> << >>
  BY Concatenations DEF Fallback, State

LEMMA TailType == \A s \in Seq(ServiceName) : s # << >> => Tail(s) \in Seq(ServiceName)
  BY HeadTailProperties

-----------------------------------------------------------------------------
(* The Sync Manager check.                                                 *)

LEMMA CheckFacts ==
    ASSUME NEW from \in State, NEW to \in State \cup {Unknown}
    PROVE  LET verdict == CheckSmSettings(CheckedChannels(from, to))
           IN  /\ verdict \in {"0"} \cup CheckResult
               /\ verdict # "0" => /\ to \in {"PREOP", "SAFEOP", "OP"} /\ from # "BOOT"
                                   /\ to = "PREOP" => verdict = "INVALIDMBXCFG"
                                   /\ from = "INIT" => to = "PREOP"
               /\ verdict = "0" /\ Verdict(from, to) = "0" => badSm \cap Needed(to) = {}
  <1> DEFINE verdict == CheckSmSettings(CheckedChannels(from, to))
  <1>1. CASE from \in {"INIT", "OP", "SAFEOP", "PREOP"} /\ to = "PREOP"
    <2>1. CheckedChannels(from, to) = <<0, 1>>
      BY <1>1 DEF CheckedChannels
    <2>2. DOMAIN <<0, 1>> = {1, 2} /\ <<0, 1>>[1] = 0 /\ <<0, 1>>[2] = 1 OBVIOUS
    <2>3. verdict = "0" => badSm \cap {0, 1} = {}
      BY <2>1, <2>2 DEF CheckSmSettings
    <2>4. verdict \in {"0", "INVALIDMBXCFG"}
      BY <2>1, <2>2 DEF CheckSmSettings
    <2> QED BY <1>1, <2>3, <2>4 DEF CheckResult, Needed
  <1>2. CASE <<from, to>> \in ({"PREOP", "SAFEOP", "OP"} \X {"SAFEOP"}) \cup ({"SAFEOP", "OP"} \X {"OP"})
    <2>1. CheckedChannels(from, to) = <<0, 1, 3, 2>>
      BY <1>2 DEF CheckedChannels
    <2>2. /\ DOMAIN <<0, 1, 3, 2>> = {1, 2, 3, 4}
          /\ <<0, 1, 3, 2>>[1] = 0 /\ <<0, 1, 3, 2>>[2] = 1
          /\ <<0, 1, 3, 2>>[3] = 3 /\ <<0, 1, 3, 2>>[4] = 2
      OBVIOUS
    <2>3. verdict = "0" => badSm \cap Channel = {}
      BY <2>1, <2>2 DEF CheckSmSettings, Channel
    <2>4. verdict \in {"0", "INVALIDMBXCFG", "INVALIDSMINCFG", "INVALIDSMOUTCFG"}
      BY <2>1, <2>2 DEF CheckSmSettings
    <2> QED BY <1>2, <2>3, <2>4 DEF CheckResult, Needed
  <1>3. CASE ~ (from \in {"INIT", "OP", "SAFEOP", "PREOP"} /\ to = "PREOP")
             /\ <<from, to>> \notin ({"PREOP", "SAFEOP", "OP"} \X {"SAFEOP"})
                                    \cup ({"SAFEOP", "OP"} \X {"OP"})
    <2>1. CheckedChannels(from, to) = << >>
      BY <1>3 DEF CheckedChannels
    <2>2. DOMAIN << >> = {} OBVIOUS
    <2>3. verdict = "0" BY <2>1, <2>2 DEF CheckSmSettings
    <2>4. Verdict(from, to) = "0" => Needed(to) = {}
      BY <1>3, ServiceLists DEF Verdict, Needed, State, Unknown
    <2> QED BY <2>3, <2>4
  <1> QED BY <1>1, <1>2, <1>3

-----------------------------------------------------------------------------
(* Types.                                                                  *)

LEMMA TypeSplit == TypeOK <=> Types
  BY DEF TypeOK, Types, Flags, Scalars, Records, Settled

LEMMA Booleans == \A b : b \in BOOLEAN <=> (b = TRUE \/ b = FALSE)
  OBVIOUS

LEMMA InitIInv == Init => IInv
  <1> SUFFICES ASSUME Init PROVE IInv OBVIOUS
  <1>1. Types
    <2>1. Flags BY Zenon DEF Init, Flags, NotSeen
    <2>2. Scalars
      BY EsmAssumption, ListTypes DEF Init, Scalars, State, Settled
    <2>3. Records
      BY DEF Init, Records, State, NoCall
    <2> QED BY <2>1, <2>2, <2>3 DEF Types
  <1>2. RegInv /\ PendingInv /\ CallInv
    BY DEF Init, RegInv, PendingInv, CallInv, Settled, NoCall
  <1>3. RunInv
    BY DEF Init, RunInv, FlagsOf, Settled
  <1>4. Patient => SmInv
    BY DEF Init, SmInv, Needed, NotSeen, Settled
  <1>5. OutInv
    BY DEF Init, OutInv
  <1> QED BY <1>1, <1>2, <1>3, <1>4, <1>5 DEF IInv

\* Loops of the main task, the PDI task and the master.
LEMMA TypeLoop ==
    ASSUME Types,
           \/ MainLoop \/ ECAT_Application \/ NoTick \/ ECAT_CheckTimer \/ ReadSm1
           \/ ReadEvents \/ SmChangeEvent \/ Sm1Disabled \/ ReadWatchdog
           \/ WatchdogExpired \/ CheckSync \/ PDI_Isr \/ Environment
    PROVE  Types'
  <1> USE DEF esm, runs, dc, escIn, main
  <1>0. Flags /\ Scalars /\ Records BY DEF Types
  <1>1. CASE MainLoop
    <2>1. Flags' BY <1>0, <1>1, Booleans DEF MainLoop, Flags
    <2>2. Scalars' BY <1>0, <1>1 DEF MainLoop, Scalars, Settled
    <2>3. Records' BY <1>0, <1>1 DEF MainLoop, Records
    <2> QED BY <2>1, <2>2, <2>3 DEF Types
  <1>2. CASE ECAT_Application \/ NoTick \/ ReadWatchdog
    <2>1. Flags' BY <1>0, <1>2, Booleans DEF ECAT_Application, NoTick, ReadWatchdog, GoTo, Flags
    <2>2. Scalars' BY <1>0, <1>2 DEF ECAT_Application, NoTick, ReadWatchdog, GoTo, Scalars, Settled
    <2>3. Records' BY <1>0, <1>2 DEF ECAT_Application, NoTick, ReadWatchdog, GoTo, Records
    <2> QED BY <2>1, <2>2, <2>3 DEF Types
  <1>3. CASE ECAT_CheckTimer
    <2>1. Flags' BY <1>0, <1>3, Booleans DEF ECAT_CheckTimer, DC_CheckWatchdog, Flags
    <2>2. pllCnt' \in 0 .. PllTicks
      BY <1>0, <1>3, EsmAssumption DEF ECAT_CheckTimer, DC_CheckWatchdog, Min2, Scalars
    <2>3. Scalars' BY <1>0, <1>3, <2>2, EsmAssumption DEF ECAT_CheckTimer, Scalars, Settled
    <2>4. Records' BY <1>0, <1>3 DEF ECAT_CheckTimer, Records
    <2> QED BY <2>1, <2>3, <2>4 DEF Types
  <1>4. CASE ReadSm1
    <2>1. Flags' BY <1>0, <1>4, Booleans DEF ReadSm1, Flags
    <2>2. Scalars' BY <1>0, <1>4 DEF ReadSm1, Scalars, Settled
    <2>3. Records' BY <1>0, <1>4 DEF ReadSm1, Records
    <2> QED BY <2>1, <2>2, <2>3 DEF Types
  <1>5. CASE ReadEvents
    <2>1. Flags' BY <1>0, <1>5, Booleans DEF ReadEvents, Flags
    <2>2. Scalars' BY <1>0, <1>5 DEF ReadEvents, Call, Scalars, Settled
    <2>3. alControl # NoRequest => alControl \in Request BY <1>0, Zenon DEF Records
    <2>4. Records'
      BY <1>0, <1>5, <2>3, EsmAssumption DEF ReadEvents, Call, Records, Request
    <2> QED BY <2>1, <2>2, <2>4 DEF Types
  <1>6. ASSUME NEW condition \in BOOLEAN, NEW from, NEW state \in State,
               NEW code \in ErrorCode \cup {"0"},
               NEW ret \in {"AL_ControlRes", "watchdog", "MainLoop"},
               NEW else \in Settled,
               CallWhen(condition, from, state, code, ret, else)
        PROVE  Types'
    <2>1. Flags' BY <1>0, <1>6, Booleans DEF CallWhen, Call, Flags, NotSeen
    <2>2. Scalars' BY <1>0, <1>6 DEF CallWhen, Call, Scalars, Settled
    <2>3. Records' BY <1>0, <1>6, Booleans DEF CallWhen, Call, Records
    <2> QED BY <2>1, <2>2, <2>3 DEF Types
  <1>7. CASE SmChangeEvent \/ Sm1Disabled \/ CheckSync
    <2>1. alState \in State /\ "SAFEOP" \in State BY <1>0 DEF Scalars, State
    <2>2. {"0", "SYNCERROR", "FATALSYNCERROR"} \subseteq ErrorCode \cup {"0"} BY DEF ErrorCode
    <2>3. {"AL_ControlRes", "watchdog", "MainLoop"} \subseteq Settled BY DEF Settled
    <2>4. CASE SmChangeEvent
      <3> DEFINE condition == seen.smChange /\ ~waitRes /\ ~errInd /\ alState # "INIT"
      <3>1. condition \in BOOLEAN OBVIOUS
      <3> HIDE DEF condition
      <3>2. CallWhen(condition, "smcheck", alState, "0", "AL_ControlRes", "AL_ControlRes")
        BY <2>4 DEF SmChangeEvent, condition
      <3> QED BY <1>6, <2>1, <2>2, <2>3, <3>1, <3>2
    <2>5. CASE Sm1Disabled
      BY <1>6, <2>1, <2>2, <2>3, <2>5 DEF Sm1Disabled
    <2>6. CASE CheckSync
      BY <1>6, <2>1, <2>2, <2>3, <2>6 DEF CheckSync
    <2> QED BY <1>7, <2>4, <2>5, <2>6
  <1>8. CASE WatchdogExpired
    <2>1. Flags' BY <1>0, <1>8, Booleans DEF WatchdogExpired, Flags
    <2>2. Scalars' BY <1>0, <1>8 DEF WatchdogExpired, Call, Scalars, Settled
    <2>3. Records'
      <3>1. CASE outputRun BY <1>0, <1>8, <3>1, Booleans DEF WatchdogExpired, Call, Records, State, ErrorCode
      <3>2. CASE ~outputRun BY <1>0, <1>8, <3>2 DEF WatchdogExpired, Records
      <3> QED BY <3>1, <3>2
    <2> QED BY <2>1, <2>2, <2>3 DEF Types
  <1>9. CASE PDI_Isr
    <2>1. Flags' BY <1>0, <1>9, Booleans DEF PDI_Isr, Flags
    <2>2. Scalars' BY <1>0, <1>9 DEF PDI_Isr, Scalars, Settled
    <2>3. Records' BY <1>0, <1>9 DEF PDI_Isr, Records
    <2> QED BY <2>1, <2>2, <2>3 DEF Types
  <1>10. CASE Environment
    <2> USE DEF Environment, WriteAlControl, WriteSm, ProcessData, WatchdogExpires
    <2>1. Flags' BY <1>0, <1>10, Booleans DEF Flags
    <2>2. Scalars' BY <1>0, <1>10 DEF Scalars, Settled
    <2>3. Records' BY <1>0, <1>10 DEF Records
    <2> QED BY <2>1, <2>2, <2>3 DEF Types
  <1> QED BY <1>1, <1>2, <1>3, <1>4, <1>5, <1>7, <1>8, <1>9, <1>10

-----------------------------------------------------------------------------
(* Steps outside of transitions.                                           *)

StageVars == <<alState, call, todo, result, outputRun, inputRun, mbxRunning,
               bootMode, escInt, dcActive, applPending, waitRes>>

LEMMA StageFrame == ASSUME Stage, UNCHANGED StageVars PROVE Stage'
  <1> USE DEF StageVars
  <1>1. CASE Staying BY <1>1 DEF Staying, Stage, FlagsOf
  <1>2. CASE Refused BY <1>2 DEF Refused, Stage
  <1>3. CASE StartingMailbox BY <1>3 DEF StartingMailbox, Stage
  <1>4. CASE StoppingBoot BY <1>4 DEF StoppingBoot, Stage
  <1>5. CASE StartingInputs BY <1>5 DEF StartingInputs, Stage
  <1>6. CASE StartingOutputs BY <1>6 DEF StartingOutputs, Stage, FlagsOf
  <1>7. CASE Stopping BY <1>7 DEF Stopping, Stage
  <1>8. CASE FallingBack BY <1>8 DEF FallingBack, Stage
  <1> QED BY <1>1, <1>2, <1>3, <1>4, <1>5, <1>6, <1>7, <1>8 DEF Stage

LEMMA FallingBackFrame ==
    ASSUME FallingBack, UNCHANGED StageVars PROVE FallingBack'
  BY DEF FallingBack, StageVars

\* The master and the PDI task run at any place of the main task.
LEMMA BesideMain ==
    ASSUME IInv, PDI_Isr \/ Environment
    PROVE  RegInv' /\ PendingInv' /\ CallInv' /\ RunInv'
  <1>1. /\ UNCHANGED <<esm, runs, dc, main>>
        /\ UNCHANGED StageVars
    BY DEF PDI_Isr, Environment, WriteAlControl, WriteSm, ProcessData, WatchdogExpires,
           esm, runs, dc, main, StageVars
  <1>2. RegInv'
    BY <1>1, FallingBackFrame DEF IInv, RegInv, esm, main
  <1>3. PendingInv'
    BY <1>1, FallingBackFrame DEF IInv, PendingInv, esm, main, Settled
  <1>4. CallInv'
    BY <1>1 DEF IInv, CallInv, esm, main
  <1>5. RunInv'
    BY <1>1, StageFrame DEF IInv, RunInv, esm, runs, dc, main, FlagsOf
  <1> QED BY <1>2, <1>3, <1>4, <1>5

\* The main task between two transitions.
LEMMA BetweenTransitions ==
    ASSUME IInv,
           \/ MainLoop \/ ECAT_Application \/ NoTick \/ ECAT_CheckTimer \/ ReadSm1
           \/ ReadEvents \/ SmChangeEvent \/ Sm1Disabled \/ ReadWatchdog
           \/ WatchdogExpired \/ CheckSync
    PROVE  RegInv' /\ PendingInv' /\ CallInv' /\ RunInv'
  <1> USE DEF esm, runs, dc, escIn, main
  <1>0. Types /\ RegInv /\ PendingInv /\ CallInv /\ RunInv BY DEF IInv
  <1>1. ASSUME UNCHANGED <<esm, runs, dcActive, call>>, pc \in Settled, pc' \in Settled
        PROVE  RegInv' /\ PendingInv' /\ CallInv' /\ RunInv'
    <2>1. RegInv' BY <1>0, <1>1 DEF RegInv, Settled
    <2>2. PendingInv' BY <1>0, <1>1 DEF PendingInv, Settled
    <2>3. CallInv' BY <1>0, <1>1 DEF CallInv, Settled
    <2>4. RunInv' BY <1>0, <1>1 DEF RunInv, Settled, FlagsOf
    <2> QED BY <2>1, <2>2, <2>3, <2>4
  <1>2. CASE MainLoop \/ ECAT_Application \/ NoTick \/ ReadSm1 \/ ReadWatchdog
    BY <1>1, <1>2 DEF MainLoop, ECAT_Application, NoTick, GoTo, ReadSm1, ReadWatchdog, Settled
  <1>3. CASE ECAT_CheckTimer
    <2>0. esmTimer \in -1 .. MaxEsm /\ MaxEsm \in Nat
      BY <1>0, EsmAssumption DEF Types, Scalars
    <2>1. RegInv' BY <1>0, <1>3 DEF ECAT_CheckTimer, RegInv, Settled
    <2>2. PendingInv' BY <1>0, <1>3, <2>0 DEF ECAT_CheckTimer, PendingInv, Settled
    <2>3. CallInv' BY <1>0, <1>3 DEF ECAT_CheckTimer, CallInv, Settled
    <2>4. RunInv'
      BY <1>0, <1>3 DEF ECAT_CheckTimer, DC_CheckWatchdog, RunInv, Settled, FlagsOf
    <2> QED BY <2>1, <2>2, <2>3, <2>4
  \* A call of AL_ControlInd.
  <1>4. ASSUME NEW r, NEW code \in ErrorCode \cup {"0"}, NEW ret,
               Call(r, code, ret), UNCHANGED <<esm, runs, dcActive>>, pc \in Settled,
               code # "0" => r.state = "SAFEOP" /\ ret = "MainLoop" /\ alState = "OP",
               ret = "smcheck" => ~waitRes /\ code = "0",
               waitRes => ret = "watchdog" /\ r.state = "SAFEOP",
               ret # "smcheck" =>
                   r.state = alState \/ (alState = "OP" /\ r.state = "SAFEOP")
        PROVE  RegInv' /\ PendingInv' /\ CallInv' /\ RunInv'
    <2> USE DEF Call
    <2>1. RegInv' BY <1>0, <1>4 DEF RegInv, Settled
    <2>2. PendingInv' BY <1>0, <1>4 DEF PendingInv, Settled
    <2>3. CallInv' BY <1>0, <1>4 DEF CallInv, Settled
    <2>4. RunInv' BY <1>0, <1>4 DEF RunInv, Settled, FlagsOf
    <2> QED BY <2>1, <2>2, <2>3, <2>4
  <1>5. CASE ReadEvents
    <2>1. CASE alControl # NoRequest /\ ~waitRes
      BY <1>4, <1>5, <2>1 DEF ReadEvents, Settled
    <2>2. CASE ~(alControl # NoRequest /\ ~waitRes)
      BY <1>1, <1>5, <2>2 DEF ReadEvents, Settled
    <2> QED BY <2>1, <2>2
  <1>6. CASE WatchdogExpired
    <2>1. CASE outputRun
      <3>1. alState = "OP" /\ ~waitRes
        BY <1>0, <1>6, <2>1 DEF WatchdogExpired, RunInv, PendingInv, Settled, FlagsOf
      <3>2. "SMWATCHDOG" \in ErrorCode \cup {"0"} BY DEF ErrorCode
      <3> QED BY <1>4, <1>6, <2>1, <3>1, <3>2 DEF WatchdogExpired, Settled
    <2>2. CASE ~outputRun
      BY <1>1, <1>6, <2>2 DEF WatchdogExpired, Settled
    <2> QED BY <2>1, <2>2
  <1>7. CASE SmChangeEvent
    <2> DEFINE condition == seen.smChange /\ ~waitRes /\ ~errInd /\ alState # "INIT"
    <2>1. CASE condition
      BY <1>4, <1>7, <2>1 DEF SmChangeEvent, CallWhen, Settled
    <2>2. CASE ~condition
      BY <1>1, <1>7, <2>2 DEF SmChangeEvent, CallWhen, Settled
    <2> QED BY <2>1, <2>2
  <1>8. CASE Sm1Disabled
    <2>1. CASE mbxRunning /\ ~seen.sm1
      <3>1. waitRes => alState = "SAFEOP"
        BY <1>0, <1>8 DEF Sm1Disabled, CallWhen, PendingInv
      <3> QED BY <1>4, <1>8, <2>1, <3>1 DEF Sm1Disabled, CallWhen, Settled
    <2>2. CASE ~(mbxRunning /\ ~seen.sm1)
      BY <1>1, <1>8, <2>2 DEF Sm1Disabled, CallWhen, Settled
    <2> QED BY <2>1, <2>2
  <1>9. CASE CheckSync
    <2> DEFINE lost == dcActive /\ outputRun /\ ~(dcRunning /\ seqValid)
    <2>1. CASE lost
      <3>1. alState = "OP" /\ ~waitRes
        BY <1>0, <1>9, <2>1 DEF CheckSync, CallWhen, RunInv, PendingInv, Settled, FlagsOf
      <3>2. {"SYNCERROR", "FATALSYNCERROR"} \subseteq ErrorCode \cup {"0"} BY DEF ErrorCode
      <3> QED BY <1>4, <1>9, <2>1, <3>1, <3>2 DEF CheckSync, CallWhen, Settled
    <2>2. CASE ~lost
      BY <1>1, <1>9, <2>2 DEF CheckSync, CallWhen, Settled
    <2> QED BY <2>1, <2>2
  <1> QED BY <1>2, <1>3, <1>5, <1>6, <1>7, <1>8, <1>9

-----------------------------------------------------------------------------
(* The start of a transition.                                              *)

LEMMA TypeControlInd == ASSUME Types, AL_ControlInd PROVE Types'
  <1> USE DEF esm, runs, dc, escIn, main
  <1>0. Flags /\ Scalars /\ Records BY DEF Types
  <1>f. alState \in State /\ call.state \in State \cup {Unknown}
    BY <1>0 DEF Scalars, Records
  <1>1. CASE Unacknowledged
    <2>1. Flags' BY <1>0, <1>1, Booleans DEF AL_ControlInd, Return, Flags
    <2>2. Scalars'
      BY <1>0, <1>1, EsmAssumption DEF AL_ControlInd, Return, Scalars, Records, Settled
    <2>3. Records' BY <1>0, <1>1, Booleans DEF AL_ControlInd, Return, Records, NoCall, State
    <2> QED BY <2>1, <2>2, <2>3 DEF Types
  <1>2. CASE ~Unacknowledged
    <2>1. Flags' BY <1>0, <1>2, Booleans DEF AL_ControlInd, Flags
    <2>2. Records' BY <1>0, <1>2 DEF AL_ControlInd, Records
    <2>3. PICK generated \in {"0", "INVALIDOUTPUTMAPPING"} :
            /\ result' = IF generated # "0" THEN generated
                         ELSE IF CheckSmSettings(CheckedChannels(alState, call.state)) # "0"
                         THEN CheckSmSettings(CheckedChannels(alState, call.state))
                         ELSE Verdict(alState, call.state)
            /\ changedSm' \subseteq changedSm
            /\ todo' \in {Services(alState, call.state), Fallback(alState)}
      BY <1>2 DEF AL_ControlInd
    <2>4. result' \in ErrorCode \cup {"0"}
      BY <2>3, <1>f, CheckFacts DEF Verdict, CheckResult, ErrorCode
    <2>5. Services(alState, call.state) \in Seq(ServiceName)
      <3>1. {"EnableSm2", "MBX_StartMailboxHandler", "StartBoot", "StopBoot",
             "StartOutputHandler", "ApplCalled", "MBX_StopMailboxHandler"} \subseteq ServiceName
        BY DEF ServiceName
      <3>2. StopMailbox \in Seq(ServiceName)
        BY <3>1, ListTypes DEF StopMailbox
      <3>3. \A s \in {"SAFEOP", "PREOP", "INIT"} : Rest(s) \in Seq(ServiceName)
        BY <3>1, ListTypes DEF Rest
      <3>4. \A s \in {"SAFEOP", "PREOP", "INIT"} : FromAppl(Rest(s)) \in Seq(ServiceName)
        BY <3>3, StopLists DEF Stops
      <3> DEFINE same == <<"EnableSm2">>
                 mailbox == <<"MBX_StartMailboxHandler">>
                 boot == <<"StartBoot">>
                 noBoot == <<"StopBoot">>
                 start == <<"StartOutputHandler">>
                 none == << >>
      <3>5. /\ same \in Seq(ServiceName) /\ mailbox \in Seq(ServiceName)
            /\ boot \in Seq(ServiceName) /\ noBoot \in Seq(ServiceName)
            /\ start \in Seq(ServiceName) /\ none \in Seq(ServiceName)
            /\ StartInputsList \in Seq(ServiceName)
        BY <3>1, ListTypes
      <3>6. Services(alState, call.state) \in
              {same, mailbox, boot, noBoot, start, none, StartInputsList, StopMailbox}
              \cup {Rest(s) : s \in {"SAFEOP", "PREOP", "INIT"}}
              \cup {FromAppl(Rest(s)) : s \in {"SAFEOP", "PREOP", "INIT"}}
        BY <1>f, ServiceLists
      <3> HIDE DEF same, mailbox, boot, noBoot, start, none
      <3> QED BY <3>2, <3>3, <3>4, <3>5, <3>6
    <2>6. Fallback(alState) \in Seq(ServiceName)
      <3>1. "FallBack" \in ServiceName BY DEF ServiceName
      <3>2. FromAppl(FallBackList) \in Seq(ServiceName)
        BY StopLists, ListTypes DEF Stops
      <3> QED BY <1>f, <3>1, <3>2, FallbackLists, ListTypes
    <2>7. Scalars'
      <3>1. esmTimer' = -1 /\ -1 \in -1 .. MaxEsm /\ pc' = "services"
        BY <1>2, EsmAssumption DEF AL_ControlInd
      <3>2. UNCHANGED <<alState, pllCnt, badSm, outputs>>
        BY <1>2 DEF AL_ControlInd
      <3> QED BY <1>0, <2>3, <2>4, <2>5, <2>6, <3>1, <3>2 DEF Scalars
    <2> QED BY <2>1, <2>2, <2>7 DEF Types
  <1> QED BY <1>1, <1>2

LEMMA StageOfControlInd ==
    ASSUME IInv, AL_ControlInd, ~Unacknowledged PROVE Stage'
  <1>0. Types /\ PendingInv /\ CallInv /\ RunInv BY DEF IInv
  <1>1. /\ alState \in State /\ call.state \in State \cup {Unknown}
        /\ call.ret # "smcheck" =>
              call.state = alState \/ (alState = "OP" /\ call.state = "SAFEOP")
        /\ waitRes => call.ret = "watchdog" /\ call.state = "SAFEOP"
        /\ FlagsOf(alState)
    BY <1>0 DEF AL_ControlInd, Types, Scalars, Records, CallInv, PendingInv, RunInv
  <1>2. /\ UNCHANGED <<alState, call, outputRun, inputRun, mbxRunning, bootMode, escInt,
                       dcActive, waitRes>>
        /\ applPending'
    BY DEF AL_ControlInd, runs, dc
  <1>3. PICK generated :
          /\ generated \in IF <<alState, call.state>> = <<"PREOP", "SAFEOP">>
                           THEN {"0", "INVALIDOUTPUTMAPPING"} ELSE {"0"}
          /\ result' = IF generated # "0" THEN generated
                       ELSE IF CheckSmSettings(CheckedChannels(alState, call.state)) # "0"
                       THEN CheckSmSettings(CheckedChannels(alState, call.state))
                       ELSE Verdict(alState, call.state)
          /\ todo' = IF generated = "0" /\ CheckSmSettings(CheckedChannels(alState, call.state)) = "0"
                     THEN Services(alState, call.state)
                     ELSE Fallback(alState)
    BY DEF AL_ControlInd
  <1> DEFINE verdict == CheckSmSettings(CheckedChannels(alState, call.state))
  <1>4. CASE generated # "0"
    <2>1. /\ alState = "PREOP" /\ call.state = "SAFEOP" /\ result' = "INVALIDOUTPUTMAPPING"
          /\ todo' = <<"FallBack">>
      BY <1>1, <1>3, <1>4, FallbackLists
    <2>2. FallingBack'
      BY <1>1, <1>2, <2>1 DEF FallingBack, CheckResult, FlagsOf
    <2> QED BY <2>2 DEF Stage
  <1>5. CASE generated = "0" /\ verdict # "0"
    <2>1. /\ result' = verdict /\ result' \in CheckResult
          /\ call.state \in {"PREOP", "SAFEOP", "OP"} /\ alState # "BOOT"
          /\ call.state = "PREOP" => result' = "INVALIDMBXCFG"
          /\ alState = "INIT" => call.state = "PREOP"
      BY <1>1, <1>3, <1>5, CheckFacts
    <2>2. todo' = Fallback(alState)
      BY <1>3, <1>5
    <2>3. CASE alState = "OP"
      <3>1. todo' = FromAppl(FallBackList) BY <1>1, <2>2, <2>3, FallbackLists
      <3> QED BY <1>1, <1>2, <2>1, <2>3, <3>1 DEF FallingBack, FlagsOf, Stops, Stage
    <2>4. CASE alState = "SAFEOP"
      <3>1. todo' = FallBackList BY <1>1, <2>2, <2>4, FallbackLists
      <3> QED BY <1>1, <1>2, <2>1, <2>4, <3>1 DEF FallingBack, FlagsOf, Stage
    <2>5. CASE alState = "PREOP"
      <3>1. todo' = <<"FallBack">> BY <1>1, <2>2, <2>5, FallbackLists
      <3> QED BY <1>1, <1>2, <2>1, <2>5, <3>1 DEF FallingBack, FlagsOf, Stage
    <2>6. CASE alState = "INIT"
      <3>1. todo' = << >> BY <1>1, <2>2, <2>6, FallbackLists
      <3> QED BY <1>1, <1>2, <2>1, <2>6, <3>1 DEF FallingBack, FlagsOf, Stage
    <2> QED BY <1>1, <2>1, <2>3, <2>4, <2>5, <2>6 DEF State
  <1>6. CASE generated = "0" /\ verdict = "0"
    <2>1. result' = Verdict(alState, call.state) /\ todo' = Services(alState, call.state)
      BY <1>3, <1>6
    <2>2. CASE alState = call.state
      <3>1. CASE alState # "BOOT"
        <4>1. todo' = <<"EnableSm2">> /\ result' = "0"
          BY <1>1, <2>1, <2>2, <3>1, ServiceLists DEF Verdict
        <4> QED BY <1>1, <1>2, <2>2, <3>1, <4>1 DEF Staying, FlagsOf, Stage
      <3>2. CASE alState = "BOOT"
        <4>1. todo' = << >> /\ result' = "UNKNOWNALCONTROL"
          BY <1>1, <2>1, <2>2, <3>2, ServiceLists DEF Verdict
        <4> QED BY <1>1, <1>2, <2>2, <3>2, <4>1 DEF Staying, FlagsOf, Stage
      <3> QED BY <3>1, <3>2
    <2>3. CASE alState = "INIT" /\ call.state = "PREOP"
      <3>1. todo' = <<"MBX_StartMailboxHandler">> /\ result' = "0"
        BY <1>1, <2>1, <2>3, ServiceLists DEF Verdict
      <3> QED BY <1>1, <1>2, <2>3, <3>1 DEF StartingMailbox, FlagsOf, Stage
    <2>4. CASE alState = "INIT" /\ call.state = "BOOT"
      <3>1. todo' = <<"StartBoot">> /\ result' = "0"
        BY <1>1, <2>1, <2>4, ServiceLists DEF Verdict
      <3> QED BY <1>1, <1>2, <2>4, <3>1 DEF StartingMailbox, FlagsOf, Stage
    <2>5. CASE alState = "BOOT" /\ call.state = "INIT"
      <3>1. todo' = <<"StopBoot">> /\ result' = "0"
        BY <1>1, <2>1, <2>5, ServiceLists DEF Verdict
      <3> QED BY <1>1, <1>2, <2>5, <3>1 DEF StoppingBoot, FlagsOf, Stage
    <2>6. CASE alState = "PREOP" /\ call.state = "SAFEOP"
      <3>1. todo' = StartInputsList /\ result' = "0"
        <4>1. StartInputsList # << >> BY DEF StartInputsList
        <4> QED BY <1>1, <2>1, <2>6, <4>1, ServiceLists DEF Verdict
      <3> QED BY <1>1, <1>2, <2>6, <3>1 DEF StartingInputs, FlagsOf, Stage
    <2>7. CASE alState = "SAFEOP" /\ call.state = "OP"
      <3>1. todo' = <<"StartOutputHandler">> /\ result' = "0"
        BY <1>1, <2>1, <2>7, ServiceLists DEF Verdict
      <3> QED BY <1>1, <1>2, <2>7, <3>1 DEF StartingOutputs, FlagsOf, Stage
    <2>8. CASE alState = "PREOP" /\ call.state = "INIT"
      <3>1. todo' = StopMailbox /\ result' = "0"
        <4>1. StopMailbox # << >> BY DEF StopMailbox
        <4> QED BY <1>1, <2>1, <2>8, <4>1, ServiceLists DEF Verdict
      <3> QED BY <1>1, <1>2, <2>8, <3>1 DEF Stopping, FlagsOf, Stage
    <2>9. CASE alState = "OP" /\ call.state \in {"SAFEOP", "PREOP", "INIT"}
      <3>1. Rest(call.state) \in Seq(ServiceName)
        BY <2>9, ListTypes DEF Rest, ServiceName
      <3>2. FromAppl(Rest(call.state)) # << >>
        BY <3>1, StopLists DEF Stops
      <3>3. todo' = FromAppl(Rest(call.state)) /\ result' = "0"
        BY <1>1, <2>1, <2>9, <3>2, ServiceLists DEF Verdict
      <3>4. todo' \in Stops(Rest(call.state)) BY <3>3 DEF Stops
      <3> QED BY <1>1, <1>2, <2>9, <3>3, <3>4 DEF Stopping, FlagsOf, Stage
    <2>10. CASE alState = "SAFEOP" /\ call.state \in {"PREOP", "INIT"}
      <3>1. Rest(call.state) # << >>
        BY <2>10 DEF Rest, StopInputsList, StopAllList
      <3>2. todo' = Rest(call.state) /\ result' = "0"
        BY <1>1, <2>1, <2>10, <3>1, ServiceLists DEF Verdict
      <3> QED BY <1>1, <1>2, <2>10, <3>2 DEF Stopping, FlagsOf, Stage
    <2>11. CASE /\ call.state # alState
                /\ <<alState, call.state>> \notin
                      {<<"INIT", "PREOP">>, <<"INIT", "BOOT">>, <<"BOOT", "INIT">>,
                       <<"PREOP", "SAFEOP">>, <<"SAFEOP", "OP">>, <<"PREOP", "INIT">>}
                /\ ~(alState = "OP" /\ call.state \in {"SAFEOP", "PREOP", "INIT"})
                /\ ~(alState = "SAFEOP" /\ call.state \in {"PREOP", "INIT"})
      <3>1. todo' = << >> /\ result' \in {"INVALIDALCONTROL", "UNKNOWNALCONTROL"}
        BY <1>1, <2>1, <2>11, ServiceLists DEF Verdict
      <3>2. call.ret = "smcheck" BY <1>1, <2>11
      <3> QED BY <1>1, <1>2, <2>11, <3>1, <3>2 DEF Refused, FlagsOf, Stage
    <2> QED BY <2>2, <2>3, <2>4, <2>5, <2>6, <2>7, <2>8, <2>9, <2>10, <2>11
  <1> QED BY <1>3, <1>4, <1>5, <1>6

LEMMA StartOfTransition ==
    ASSUME IInv, AL_ControlInd PROVE RegInv' /\ PendingInv' /\ CallInv' /\ RunInv'
  <1> USE DEF esm, runs, dc, escIn, main
  <1>0. Types /\ RegInv /\ PendingInv /\ CallInv /\ RunInv BY DEF IInv
  <1>1. CASE Unacknowledged
    <2>0. call.ret \in {"smcheck", "AL_ControlRes", "watchdog", "MainLoop"}
      BY <1>0 DEF Types, Records
    <2> USE <1>0, <1>1, <2>0 DEF AL_ControlInd, Return, NoCall, Settled, Unacknowledged
    <2>1. RegInv' BY DEF RegInv
    <2>2. PendingInv'
      <3>1. waitRes' = waitRes /\ errInd /\ (waitRes => ~errInd) BY DEF PendingInv
      <3> QED BY ONLY <3>1 DEF PendingInv
    <2>3. CallInv'
      <3>1. call' = NoCall /\ pc' = call.ret BY ONLY <1>1, AL_ControlInd DEF AL_ControlInd, Return
      <3>2. pc' \in Settled BY ONLY <2>0, <3>1 DEF Settled
      <3>3. call'.code = "0" BY ONLY <3>1 DEF NoCall
      <3> QED BY ONLY <3>2, <3>3 DEF CallInv, Settled
    <2>4. RunInv' BY DEF RunInv, FlagsOf
    <2> QED BY <2>1, <2>2, <2>3, <2>4
  <1>2. CASE ~Unacknowledged
    <2>1. /\ pc = "AL_ControlInd" /\ pc' = "services" /\ ~errInd'
          /\ UNCHANGED <<alState, alReg, waitRes, call>>
      BY <1>2 DEF AL_ControlInd
    <2>2. RegInv' BY <1>0, <2>1 DEF RegInv
    <2>3. PendingInv' BY <1>0, <2>1 DEF PendingInv, Settled
    <2>4. CallInv'
      <3>1. alReg.err /\ ~waitRes => call.ack \/ call.state = "INIT"
        BY <1>0, <1>2, <2>1 DEF RegInv, Unacknowledged
      <3>2. alReg.state = alState /\ alState \in State
        BY <1>0, <2>1 DEF RegInv, Types, Scalars
      <3>3. call.ret # "smcheck" /\ call.state # alState => Rank[call.state] <= Rank[alReg.state]
        BY <1>0, <2>1, <3>2 DEF CallInv, Rank, State
      <3> QED BY <1>0, <2>1, <3>1, <3>3 DEF CallInv
    <2>5. Stage' BY <1>2, StageOfControlInd
    <2>6. RunInv' BY <2>1, <2>5 DEF RunInv, Settled
    <2> QED BY <2>2, <2>3, <2>4, <2>6
  <1> QED BY <1>1, <1>2

-----------------------------------------------------------------------------
(* The services.                                                           *)

LEMMA ServiceEffects ==
    ASSUME ServiceStep
    PROVE  /\ pc \in {"services", "reject"} /\ todo # << >>
           /\ UNCHANGED <<pc, call, seen, escIn, alReg, waitRes, errInd, esmTimer>>
           /\ Head(todo) # "StartInputHandler" => todo' = Tail(todo)
           /\ Head(todo) \in {"APPL_StopOutputHandler", "ClearFirstOutputs"} =>
                UNCHANGED <<alState, result, outputRun, inputRun,
                            mbxRunning, bootMode, escInt, dcActive, applPending>>
           /\ Head(todo) = "ClearOutputRun" =>
                /\ outputRun' = FALSE
                /\ UNCHANGED <<alState, result, inputRun, mbxRunning, bootMode, escInt,
                               dcActive, applPending>>
           /\ Head(todo) = "StopInputHandler" =>
                /\ inputRun' = FALSE /\ escInt' = FALSE /\ dcActive' = FALSE
                /\ UNCHANGED <<alState, result, outputRun, mbxRunning, bootMode, applPending>>
           /\ Head(todo) = "StartInputHandler" =>
                /\ UNCHANGED <<alState, outputRun, inputRun, mbxRunning, bootMode, applPending>>
                /\ \/ todo' = Tail(todo) /\ UNCHANGED result
                   \/ todo' = StopInputs /\ result' \in {"INVALIDWDCFG", "DCINVALIDSYNCCFG"}
           /\ Head(todo) = "ApplCalled" =>
                UNCHANGED <<alState, result, outputRun, inputRun, mbxRunning, bootMode, escInt,
                            dcActive>>
           /\ Head(todo) = "SetInputRun" =>
                /\ inputRun' = TRUE
                /\ UNCHANGED <<alState, result, outputRun, mbxRunning, bootMode, escInt,
                               dcActive, applPending>>
           /\ Head(todo) = "StartOutputHandler" =>
                /\ result' = "INWORK"
                /\ UNCHANGED <<alState, outputRun, inputRun, mbxRunning, bootMode, escInt,
                               dcActive, applPending>>
           /\ Head(todo) = "EnableSm2" =>
                /\ result' = "NOSTATECHANGE"
                /\ UNCHANGED <<alState, outputRun, inputRun, mbxRunning, bootMode, escInt,
                               dcActive, applPending>>
           /\ Head(todo) = "MBX_StartMailboxHandler" =>
                /\ UNCHANGED <<alState, outputRun, inputRun, bootMode, escInt, dcActive>>
                /\ \/ result' = "EE_ERROR" /\ UNCHANGED mbxRunning
                   \/ result' \in {"0", "INVALIDMBXCFG"} /\ mbxRunning' = (result' = "0")
           /\ Head(todo) = "StartBoot" =>
                /\ UNCHANGED <<alState, outputRun, inputRun, escInt, dcActive>>
                /\ \/ result' = "INVALIDMBXCFGINBOOT" /\ UNCHANGED <<mbxRunning, bootMode>>
                   \/ /\ result' \in {"0", "INVALIDMBXCFG"}
                      /\ mbxRunning' = (result' = "0") /\ bootMode' = (result' = "0")
           /\ Head(todo) = "MBX_StopMailboxHandler" =>
                /\ mbxRunning' = FALSE
                /\ UNCHANGED <<alState, result, outputRun, inputRun, bootMode, escInt,
                               dcActive, applPending>>
           /\ Head(todo) = "StopBoot" =>
                /\ mbxRunning' = (mbxRunning /\ ~bootMode) /\ bootMode' = FALSE
                /\ UNCHANGED <<alState, result, outputRun, inputRun, escInt, dcActive,
                               applPending>>
           /\ Head(todo) = "FallBack" =>
                /\ \/ result = "INVALIDMBXCFG" /\ mbxRunning' = FALSE /\ alState' = "INIT"
                   \/ result # "INVALIDMBXCFG" /\ alState' = "PREOP" /\ UNCHANGED mbxRunning
                /\ UNCHANGED <<result, outputRun, inputRun, bootMode, escInt, dcActive,
                               applPending>>
  <1> USE DEF Service, runs, dc
  <1>1. CASE APPL_StopOutputHandler BY <1>1 DEF APPL_StopOutputHandler
  <1>2. CASE StopOutputHandler BY <1>2 DEF StopOutputHandler
  <1>3. CASE StopInputHandler BY <1>3 DEF StopInputHandler
  <1>4. CASE StartInputHandler BY <1>4 DEF StartInputHandler
  <1>5. CASE SetFlags BY <1>5 DEF SetFlags
  <1>6. CASE StartOutputHandler BY <1>6 DEF StartOutputHandler
  <1>7. CASE EnableSm2 BY <1>7 DEF EnableSm2
  <1>8. CASE MBX_StartMailboxHandler BY <1>8 DEF MBX_StartMailboxHandler
  <1>9. CASE StartBoot BY <1>9 DEF StartBoot
  <1>10. CASE MBX_StopMailboxHandler BY <1>10 DEF MBX_StopMailboxHandler
  <1>11. CASE FallBack BY <1>11 DEF FallBack
  <1> QED BY <1>1, <1>2, <1>3, <1>4, <1>5, <1>6, <1>7, <1>8, <1>9, <1>10, <1>11
          DEF ServiceStep

LEMMA ListHeads ==
    /\ Head(StopInputsList) = "StopInputHandler" /\ Tail(StopInputsList) = <<"ApplCalled">>
    /\ Head(StopAllList) = "StopInputHandler" /\ Tail(StopAllList) = StopMailboxList
    /\ Head(StopMailboxList) = "ApplCalled" /\ Tail(StopMailboxList) = StopMailbox
    /\ Head(StopMailbox) = "MBX_StopMailboxHandler" /\ Tail(StopMailbox) = << >>
    /\ Head(FallBackList) = "StopInputHandler" /\ Tail(FallBackList) = <<"FallBack">>
    /\ Head(StartInputsList) = "StartInputHandler" /\ Tail(StartInputsList) = SetInputsList
    /\ Head(SetInputsList) = "ApplCalled" /\ Tail(SetInputsList) = <<"SetInputRun">>
    /\ Head(StopInputs) = "StopInputHandler" /\ Tail(StopInputs) = << >>
  BY DEF StopInputsList, StopAllList, StopMailboxList, StopMailbox, FallBackList,
         StartInputsList, SetInputsList, StopInputs

\* A list that stops the outputs goes on with the next of its services.
LEMMA StopsStep ==
    ASSUME NEW rest \in Seq(ServiceName), todo \in Stops(rest), ServiceStep
    PROVE  /\ UNCHANGED <<alState, result, inputRun, mbxRunning, bootMode, escInt,
                          dcActive, applPending>>
           /\ \/ todo' \in Stops(rest) /\ UNCHANGED outputRun
              \/ todo' = rest /\ outputRun' = FALSE
  <1>1. CASE todo = FromAppl(rest)
    <2>1. Head(todo) = "APPL_StopOutputHandler" /\ Tail(todo) = FromFirst(rest)
      BY <1>1, StopLists
    <2> QED BY <2>1, ServiceEffects DEF Stops
  <1>2. CASE todo = FromFirst(rest)
    <2>1. Head(todo) = "ClearFirstOutputs" /\ Tail(todo) = FromRun(rest)
      BY <1>2, StopLists
    <2> QED BY <2>1, ServiceEffects DEF Stops
  <1>3. CASE todo = FromRun(rest)
    <2>1. Head(todo) = "ClearOutputRun" /\ Tail(todo) = rest
      BY <1>3, StopLists
    <2> QED BY <2>1, ServiceEffects
  <1> QED BY <1>1, <1>2, <1>3 DEF Stops

LEMMA StageStep == ASSUME IInv, pc = "services", ServiceStep PROVE Stage'
  <1>0. /\ Stage /\ todo # << >> /\ waitRes' = waitRes /\ call' = call
        /\ alState \in State
    BY ServiceEffects DEF IInv, RunInv, Types, Scalars
  <1>1. CASE Staying
    <2>1. Head(todo) = "EnableSm2" /\ Tail(todo) = << >>
      BY <1>0, <1>1, Lists DEF Staying
    <2>2. Staying' BY <1>0, <1>1, <2>1, ServiceEffects DEF Staying, FlagsOf
    <2> QED BY <2>2 DEF Stage
  <1>2. CASE Refused
    <2>1. alState = "OP" /\ todo \in Stops(<< >>)
      BY <1>0, <1>2 DEF Refused
    <2>2. /\ UNCHANGED <<alState, result, inputRun, mbxRunning, bootMode, escInt, dcActive>>
          /\ \/ todo' \in Stops(<< >>) /\ UNCHANGED outputRun
             \/ todo' = << >> /\ outputRun' = FALSE
      BY <2>1, StopsStep, ListTypes
    <2>3. Refused' BY <1>0, <1>2, <2>1, <2>2 DEF Refused
    <2> QED BY <2>3 DEF Stage
  <1>3. CASE StartingMailbox
    <2>1. CASE call.state = "BOOT"
      <3>1. Head(todo) = "StartBoot" /\ Tail(todo) = << >>
        BY <1>0, <1>3, <2>1, Lists DEF StartingMailbox
      <3>2. /\ UNCHANGED <<alState, outputRun, inputRun, escInt, dcActive>> /\ todo' = << >>
            /\ \/ result' = "INVALIDMBXCFGINBOOT" /\ UNCHANGED <<mbxRunning, bootMode>>
               \/ /\ result' \in {"0", "INVALIDMBXCFG"}
                  /\ mbxRunning' = (result' = "0") /\ bootMode' = (result' = "0")
        BY <3>1, ServiceEffects
      <3>3. ~mbxRunning /\ ~bootMode BY <1>0, <1>3 DEF StartingMailbox
      <3> QED BY <1>0, <1>3, <2>1, <3>2, <3>3 DEF StartingMailbox, Stage
    <2>2. CASE call.state # "BOOT"
      <3>1. Head(todo) = "MBX_StartMailboxHandler" /\ Tail(todo) = << >>
        BY <1>0, <1>3, <2>2, Lists DEF StartingMailbox
      <3>2. /\ UNCHANGED <<alState, outputRun, inputRun, bootMode, escInt, dcActive>>
            /\ todo' = << >>
            /\ \/ result' = "EE_ERROR" /\ UNCHANGED mbxRunning
               \/ result' \in {"0", "INVALIDMBXCFG"} /\ mbxRunning' = (result' = "0")
        BY <3>1, ServiceEffects
      <3>3. ~mbxRunning /\ ~bootMode BY <1>0, <1>3 DEF StartingMailbox
      <3> QED BY <1>0, <1>3, <2>2, <3>2, <3>3 DEF StartingMailbox, Stage
    <2> QED BY <2>1, <2>2
  <1>4. CASE StoppingBoot
    <2>1. Head(todo) = "StopBoot" /\ Tail(todo) = << >>
      BY <1>0, <1>4, Lists DEF StoppingBoot
    <2>2. /\ UNCHANGED <<alState, result, outputRun, inputRun, escInt, dcActive>>
          /\ todo' = << >>
          /\ mbxRunning' = (mbxRunning /\ ~bootMode) /\ bootMode' = FALSE
      BY <2>1, ServiceEffects
    <2>3. mbxRunning /\ bootMode BY <1>0, <1>4 DEF StoppingBoot
    <2> QED BY <1>0, <1>4, <2>2, <2>3 DEF StoppingBoot, Stage
  <1>5. CASE StartingInputs
    <2>1. CASE todo = StartInputsList
      <3>1. Head(todo) = "StartInputHandler" /\ Tail(todo) = SetInputsList
        BY <2>1, ListHeads
      <3>2. /\ UNCHANGED <<alState, outputRun, inputRun, mbxRunning, bootMode>>
            /\ \/ todo' = SetInputsList /\ UNCHANGED result
               \/ todo' = StopInputs /\ result' \in {"INVALIDWDCFG", "DCINVALIDSYNCCFG"}
        BY <3>1, ServiceEffects
      <3>3. result = "0" /\ ~inputRun
        <4>1. StartInputsList # StopInputs
          BY DEF StartInputsList, StopInputs
        <4>2. todo # SetInputsList /\ todo # <<"SetInputRun">>
          BY <2>1 DEF StartInputsList, SetInputsList
        <4> QED BY <1>0, <1>5, <2>1, <4>1, <4>2 DEF StartingInputs
      <3> QED BY <1>0, <1>5, <3>2, <3>3 DEF StartingInputs, Stage
    <2>2. CASE todo = SetInputsList /\ result = "0" /\ ~inputRun
      <3>1. Head(todo) = "ApplCalled" /\ Tail(todo) = <<"SetInputRun">>
        BY <2>2, ListHeads
      <3>2. UNCHANGED <<alState, result, outputRun, inputRun, mbxRunning, bootMode>>
            /\ todo' = <<"SetInputRun">>
        BY <3>1, ServiceEffects
      <3> QED BY <1>0, <1>5, <2>2, <3>2 DEF StartingInputs, Stage
    <2>3. CASE todo = <<"SetInputRun">> /\ result = "0"
      <3>1. Head(todo) = "SetInputRun" /\ Tail(todo) = << >>
        BY <2>3, Lists
      <3>2. /\ UNCHANGED <<alState, result, outputRun, mbxRunning, bootMode>>
            /\ todo' = << >> /\ inputRun'
        BY <3>1, ServiceEffects
      <3> QED BY <1>0, <1>5, <2>3, <3>2 DEF StartingInputs, Stage
    <2>4. CASE todo = StopInputs /\ result \in {"INVALIDWDCFG", "DCINVALIDSYNCCFG"}
      <3>1. Head(todo) = "StopInputHandler" /\ Tail(todo) = << >>
        BY <2>4, ListHeads
      <3>2. /\ UNCHANGED <<alState, result, outputRun, mbxRunning, bootMode>>
            /\ todo' = << >> /\ ~inputRun' /\ ~escInt' /\ ~dcActive'
        BY <3>1, ServiceEffects
      <3> QED BY <1>0, <1>5, <2>4, <3>2 DEF StartingInputs, Stage
    <2> QED BY <1>0, <1>5, <2>1, <2>2, <2>3, <2>4 DEF StartingInputs
  <1>6. CASE StartingOutputs
    <2>1. Head(todo) = "StartOutputHandler" /\ Tail(todo) = << >>
      BY <1>0, <1>6, Lists DEF StartingOutputs
    <2>2. StartingOutputs'
      BY <1>0, <1>6, <2>1, ServiceEffects DEF StartingOutputs, FlagsOf
    <2> QED BY <2>2 DEF Stage
  <1>7. CASE Stopping
    <2>0. /\ call.state \in {"SAFEOP", "PREOP", "INIT"}
          /\ Rest(call.state) \in Seq(ServiceName)
      <3>1. call.state \in {"SAFEOP", "PREOP", "INIT"} BY <1>7 DEF Stopping
      <3> QED BY <3>1, ListTypes DEF Rest, ServiceName
    <2>1. CASE todo \in Stops(Rest(call.state)) /\ alState = "OP" /\ inputRun /\ mbxRunning /\ outputRun
      <3>1. /\ UNCHANGED <<alState, result, inputRun, mbxRunning, bootMode, escInt, dcActive>>
            /\ \/ todo' \in Stops(Rest(call.state)) /\ UNCHANGED outputRun
               \/ todo' = Rest(call.state) /\ outputRun' = FALSE
        BY <2>0, <2>1, StopsStep
      <3> QED BY <1>0, <1>7, <2>1, <3>1 DEF Stopping, Stage
    <2>2. CASE todo = Rest(call.state) /\ alState # "PREOP" /\ ~outputRun /\ inputRun /\ mbxRunning
      <3>1. CASE call.state = "SAFEOP"
        <4>1. Head(todo) = "ApplCalled" /\ Tail(todo) = << >>
          BY <2>2, <3>1, Lists DEF Rest
        <4>2. /\ UNCHANGED <<alState, result, outputRun, inputRun, mbxRunning, bootMode,
                             escInt, dcActive>>
              /\ todo' = << >>
          BY <4>1, ServiceEffects
        <4> QED BY <1>0, <1>7, <2>2, <3>1, <4>2 DEF Stopping, Stage
      <3>2. CASE call.state = "PREOP"
        <4>1. Head(todo) = "StopInputHandler" /\ Tail(todo) = <<"ApplCalled">>
          BY <2>2, <3>2, ListHeads DEF Rest
        <4>2. /\ UNCHANGED <<alState, result, outputRun, mbxRunning, bootMode>>
              /\ todo' = <<"ApplCalled">> /\ ~inputRun' /\ ~escInt' /\ ~dcActive'
          BY <4>1, ServiceEffects
        <4> QED BY <1>0, <1>7, <2>2, <3>2, <4>2 DEF Stopping, Stage
      <3>3. CASE call.state = "INIT"
        <4>1. Head(todo) = "StopInputHandler" /\ Tail(todo) = StopMailboxList
          BY <2>2, <3>3, ListHeads DEF Rest
        <4>2. /\ UNCHANGED <<alState, result, outputRun, mbxRunning, bootMode>>
              /\ todo' = StopMailboxList /\ ~inputRun' /\ ~escInt' /\ ~dcActive'
          BY <4>1, ServiceEffects
        <4> QED BY <1>0, <1>7, <2>2, <3>3, <4>2 DEF Stopping, Stage
      <3> QED BY <2>0, <3>1, <3>2, <3>3
    <2>3. CASE todo = <<"ApplCalled">> /\ call.state = "PREOP" /\ ~outputRun /\ ~inputRun /\ mbxRunning
      <3>1. Head(todo) = "ApplCalled" /\ Tail(todo) = << >> BY <2>3, Lists
      <3>2. /\ UNCHANGED <<alState, result, outputRun, inputRun, mbxRunning, bootMode,
                           escInt, dcActive>>
            /\ todo' = << >>
        BY <3>1, ServiceEffects
      <3> QED BY <1>0, <1>7, <2>3, <3>2 DEF Stopping, Stage
    <2>4. CASE todo = StopMailboxList /\ call.state = "INIT" /\ ~outputRun /\ ~inputRun /\ mbxRunning
      <3>1. Head(todo) = "ApplCalled" /\ Tail(todo) = StopMailbox BY <2>4, ListHeads
      <3>2. /\ UNCHANGED <<alState, result, outputRun, inputRun, mbxRunning, bootMode,
                           escInt, dcActive>>
            /\ todo' = StopMailbox
        BY <3>1, ServiceEffects
      <3> QED BY <1>0, <1>7, <2>4, <3>2 DEF Stopping, Stage
    <2>5. CASE todo = StopMailbox /\ call.state = "INIT" /\ ~outputRun /\ ~inputRun /\ mbxRunning
      <3>1. Head(todo) = "MBX_StopMailboxHandler" /\ Tail(todo) = << >> BY <2>5, ListHeads
      <3>2. /\ UNCHANGED <<alState, result, outputRun, inputRun, bootMode, escInt, dcActive>>
            /\ todo' = << >> /\ ~mbxRunning'
        BY <3>1, ServiceEffects
      <3> QED BY <1>0, <1>7, <2>5, <3>2 DEF Stopping, Stage
    <2> QED BY <1>0, <1>7, <2>1, <2>2, <2>3, <2>4, <2>5 DEF Stopping
  <1>8. CASE FallingBack
    <2>1. CASE todo \in Stops(FallBackList) /\ alState = "OP" /\ outputRun /\ inputRun /\ mbxRunning
      <3>1. /\ UNCHANGED <<alState, result, inputRun, mbxRunning, bootMode, escInt, dcActive>>
            /\ \/ todo' \in Stops(FallBackList) /\ UNCHANGED outputRun
               \/ todo' = FallBackList /\ outputRun' = FALSE
        BY <2>1, StopsStep, ListTypes
      <3> QED BY <1>0, <1>8, <2>1, <3>1 DEF FallingBack, Stage
    <2>2. CASE todo = FallBackList /\ alState \in {"OP", "SAFEOP"} /\ ~outputRun /\ mbxRunning
      <3>1. Head(todo) = "StopInputHandler" /\ Tail(todo) = <<"FallBack">> BY <2>2, ListHeads
      <3>2. /\ UNCHANGED <<alState, result, outputRun, mbxRunning, bootMode>>
            /\ todo' = <<"FallBack">> /\ ~inputRun' /\ ~escInt' /\ ~dcActive'
        BY <3>1, ServiceEffects
      <3> QED BY <1>0, <1>8, <2>2, <3>2 DEF FallingBack, Stage
    <2>3. CASE todo = <<"FallBack">> /\ ~outputRun /\ ~inputRun /\ mbxRunning
      <3>1. Head(todo) = "FallBack" /\ Tail(todo) = << >> BY <2>3, Lists
      <3>2. /\ UNCHANGED <<result, outputRun, inputRun, bootMode, escInt, dcActive>>
            /\ todo' = << >>
            /\ \/ result = "INVALIDMBXCFG" /\ ~mbxRunning' /\ alState' = "INIT"
               \/ result # "INVALIDMBXCFG" /\ alState' = "PREOP" /\ UNCHANGED mbxRunning
        BY <3>1, ServiceEffects
      <3> QED BY <1>0, <1>8, <2>3, <3>2 DEF FallingBack, Stage
    <2> QED BY <1>0, <1>8, <2>1, <2>2, <2>3 DEF FallingBack
  <1> QED BY <1>0, <1>1, <1>2, <1>3, <1>4, <1>5, <1>6, <1>7, <1>8 DEF Stage

LEMMA TypeService == ASSUME Types, ServiceStep PROVE Types'
  <1> USE DEF Service, esm, runs, dc, escIn, main
  <1>0. Flags /\ Scalars /\ Records BY DEF Types
  <1>1. Records' BY <1>0, ServiceEffects DEF Records, escIn
  <1>2. Flags'
    <2>1. CASE APPL_StopOutputHandler BY <1>0, <2>1, Booleans DEF APPL_StopOutputHandler, Flags
    <2>2. CASE StopOutputHandler BY <1>0, <2>2, Booleans DEF StopOutputHandler, Flags
    <2>3. CASE StopInputHandler BY <1>0, <2>3, Booleans DEF StopInputHandler, Flags
    <2>4. CASE StartInputHandler BY <1>0, <2>4, Booleans DEF StartInputHandler, Flags
    <2>5. CASE SetFlags BY <1>0, <2>5, Booleans DEF SetFlags, Flags
    <2>6. CASE StartOutputHandler BY <1>0, <2>6, Booleans DEF StartOutputHandler, Flags
    <2>7. CASE EnableSm2 BY <1>0, <2>7, Booleans DEF EnableSm2, Flags
    <2>8. CASE MBX_StartMailboxHandler BY <1>0, <2>8, Booleans DEF MBX_StartMailboxHandler, Flags
    <2>9. CASE StartBoot BY <1>0, <2>9, Booleans DEF StartBoot, Flags
    <2>10. CASE MBX_StopMailboxHandler BY <1>0, <2>10, Booleans DEF MBX_StopMailboxHandler, Flags
    <2>11. CASE FallBack BY <1>0, <2>11, Booleans DEF FallBack, Flags
    <2> QED BY <2>1, <2>2, <2>3, <2>4, <2>5, <2>6, <2>7, <2>8, <2>9, <2>10, <2>11
            DEF ServiceStep
  <1>3. Scalars'
    <2>1. todo' \in Seq(ServiceName)
      <3>1. StopInputs \in Seq(ServiceName)
        BY ListTypes DEF StopInputs, ServiceName
      <3>2. Tail(todo) \in Seq(ServiceName)
        BY <1>0, ServiceEffects, TailType DEF Scalars
      <3>3. todo' \in {Tail(todo), StopInputs}
        BY ServiceEffects
      <3> QED BY <3>1, <3>2, <3>3
    <2>2. esmTimer' \in -1 .. MaxEsm /\ badSm' \subseteq MasterSm /\ pc' = pc
      BY <1>0, ServiceEffects DEF Scalars, escIn
    <2>3. /\ alState' \in State /\ pllCnt' \in 0 .. PllTicks /\ changedSm' \subseteq MasterSm
          /\ outputs' \in {"reset", "live"}
          /\ result' \in ErrorCode \cup {"0", "INWORK", "NOSTATECHANGE"}
      <3> USE <1>0, EsmAssumption DEF Scalars
      <3>1. CASE APPL_StopOutputHandler BY <3>1 DEF APPL_StopOutputHandler
      <3>2. CASE StopOutputHandler BY <3>2 DEF StopOutputHandler
      <3>3. CASE StopInputHandler BY <3>3 DEF StopInputHandler
      <3>4. CASE StartInputHandler BY <3>4 DEF StartInputHandler, ErrorCode
      <3>5. CASE SetFlags BY <3>5 DEF SetFlags
      <3>6. CASE StartOutputHandler BY <3>6 DEF StartOutputHandler
      <3>7. CASE EnableSm2 BY <3>7 DEF EnableSm2
      <3>8. CASE MBX_StartMailboxHandler BY <3>8 DEF MBX_StartMailboxHandler, ErrorCode
      <3>9. CASE StartBoot BY <3>9 DEF StartBoot, ErrorCode
      <3>10. CASE MBX_StopMailboxHandler BY <3>10 DEF MBX_StopMailboxHandler
      <3>11. CASE FallBack BY <3>11 DEF FallBack, State
      <3> QED BY <3>1, <3>2, <3>3, <3>4, <3>5, <3>6, <3>7, <3>8, <3>9, <3>10, <3>11
              DEF ServiceStep
    <2> QED BY <1>0, <2>1, <2>2, <2>3 DEF Scalars
  <1> QED BY <1>1, <1>2, <1>3 DEF Types

\* Only FallBack changes the state, as the last service of its list.
LEMMA StateOfService ==
    ASSUME IInv, ServiceStep
    PROVE  \/ alState' = alState
           \/ /\ pc = "services" /\ todo' = << >>
              /\ alState' \in {"INIT", "PREOP"} /\ alState \in {"PREOP", "SAFEOP", "OP"}
              /\ FallingBack'
  <1> SUFFICES ASSUME alState' # alState
               PROVE  /\ pc = "services" /\ todo' = << >>
                      /\ alState' \in {"INIT", "PREOP"} /\ alState \in {"PREOP", "SAFEOP", "OP"}
                      /\ FallingBack'
    OBVIOUS
  <1>1. FallBack
    BY DEF ServiceStep, APPL_StopOutputHandler, StopOutputHandler, StopInputHandler,
           StartInputHandler, SetFlags, StartOutputHandler, EnableSm2,
           MBX_StartMailboxHandler, StartBoot, MBX_StopMailboxHandler
  <1>2. Head(todo) = "FallBack" /\ todo # << >> /\ pc \in {"services", "reject"}
    BY <1>1 DEF FallBack, Service
  <1>3. pc = "services"
    <2> SUFFICES ASSUME pc = "reject" PROVE FALSE BY <1>2
    <2>1. todo \in Stops(<< >>) BY <1>2 DEF IInv, RunInv
    <2> QED BY <1>2, <2>1, StopLists, ListTypes DEF Stops
  <1>4. Stage' /\ Stage BY <1>3, StageStep DEF IInv, RunInv
  <1> QED
    <2>1. FallingBack /\ ~outputRun
      <3>1. CASE Staying BY <1>2, <3>1, Lists DEF Staying
      <3>2. CASE Refused BY <1>2, <3>2, StopLists, ListTypes DEF Refused, Stops
      <3>3. CASE StartingMailbox BY <1>2, <3>3, Lists DEF StartingMailbox
      <3>4. CASE StoppingBoot BY <1>2, <3>4, Lists DEF StoppingBoot
      <3>5. CASE StartingInputs BY <1>2, <3>5, Lists, ListHeads DEF StartingInputs
      <3>6. CASE StartingOutputs BY <1>2, <3>6, Lists DEF StartingOutputs
      <3>7. CASE Stopping
        <4>1. \A s \in {"SAFEOP", "PREOP", "INIT"} :
                 Rest(s) \in Seq(ServiceName) /\ Head(Rest(s)) # "FallBack"
          BY ListTypes, Lists, ListHeads DEF Rest, ServiceName
        <4>2. call.state \in {"SAFEOP", "PREOP", "INIT"} BY <3>7 DEF Stopping
        <4>3. todo \notin Stops(Rest(call.state))
          BY <1>2, <4>1, <4>2, StopLists DEF Stops
        <4> QED BY <1>2, <3>7, <4>1, <4>2, <4>3, Lists, ListHeads DEF Stopping
      <3>8. CASE FallingBack
        <4>1. todo \notin Stops(FallBackList)
          BY <1>2, StopLists, ListTypes DEF Stops
        <4> QED BY <1>2, <3>8, <4>1 DEF FallingBack
      <3> QED BY <1>4, <3>1, <3>2, <3>3, <3>4, <3>5, <3>6, <3>7, <3>8 DEF Stage
    <2>2. todo = <<"FallBack">> /\ alState \in {"PREOP", "SAFEOP", "OP"}
          /\ ~inputRun /\ mbxRunning
      <3>1. todo \notin Stops(FallBackList)
        BY <1>2, StopLists, ListTypes DEF Stops
      <3>2. todo # FallBackList BY <1>2, ListHeads
      <3> QED BY <1>2, <2>1, <3>1, <3>2 DEF FallingBack
    <2>3. Tail(todo) = << >> BY <2>2, Lists
    <2>4. /\ UNCHANGED <<call, result, outputRun, inputRun, bootMode, escInt, dcActive>>
          /\ todo' = << >>
          /\ \/ result = "INVALIDMBXCFG" /\ ~mbxRunning' /\ alState' = "INIT"
             \/ result # "INVALIDMBXCFG" /\ alState' = "PREOP" /\ UNCHANGED mbxRunning
      BY <1>2, <2>3, ServiceEffects
    <2> QED BY <1>3, <2>1, <2>2, <2>4 DEF FallingBack

LEMMA DuringServices ==
    ASSUME IInv, ServiceStep PROVE RegInv' /\ PendingInv' /\ CallInv' /\ RunInv'
  <1>0. Types /\ RegInv /\ PendingInv /\ CallInv /\ RunInv BY DEF IInv
  <1>1. /\ pc \in {"services", "reject"} /\ todo # << >>
        /\ UNCHANGED <<pc, call, alReg, waitRes, errInd, esmTimer>>
    BY ServiceEffects
  <1>2. alReg.state = alState /\ alState \in State
    BY <1>0, <1>1 DEF RegInv, Types, Scalars
  <1>3. \/ alState' = alState
        \/ /\ pc = "services" /\ todo' = << >>
           /\ alState' \in {"INIT", "PREOP"} /\ alState \in {"PREOP", "SAFEOP", "OP"}
           /\ FallingBack'
    BY StateOfService
  <1>4. RegInv'
    BY <1>0, <1>1, <1>2, <1>3 DEF RegInv, Rank, State
  <1>5. PendingInv'
    <2>1. waitRes => alState = "SAFEOP"
      BY <1>0, <1>1 DEF PendingInv
    <2> QED BY <1>0, <1>1, <1>3, <2>1 DEF PendingInv, Settled
  <1>6. CallInv'
    BY <1>0, <1>1, <1>2, <1>3 DEF CallInv, Rank, State
  <1>7. RunInv'
    <2>1. CASE pc = "services"
      BY <1>1, <2>1, StageStep DEF RunInv, Settled
    <2>2. CASE pc = "reject"
      <3>1. /\ alState = "SAFEOP" /\ waitRes /\ FlagsOf("SAFEOP") /\ todo \in Stops(<< >>)
            /\ result \in {"SMWATCHDOG", "NOSYNCERROR", "SYNCERROR"}
        BY <1>0, <1>1, <2>2 DEF RunInv
      <3>2. /\ UNCHANGED <<alState, result, inputRun, mbxRunning, bootMode, escInt, dcActive>>
            /\ \/ todo' \in Stops(<< >>) /\ UNCHANGED outputRun
               \/ todo' = << >> /\ outputRun' = FALSE
        BY <3>1, StopsStep, ListTypes
      <3> QED BY <1>1, <2>2, <3>1, <3>2 DEF RunInv, FlagsOf, Settled
    <2> QED BY <1>1, <2>1, <2>2
  <1> QED BY <1>4, <1>5, <1>6, <1>7

-----------------------------------------------------------------------------
(* The end of a transition, and the pending one.                           *)

\* What can have come out of the services.
LEMMA Outcome ==
    ASSUME IInv, Concluding
    PROVE  /\ result \in ErrorCode \cup {"0", "INWORK", "NOSTATECHANGE"}
           /\ alState \in State /\ call.state \in State \cup {Unknown}
           /\ ~errInd
           /\ result = "INWORK" =>
                /\ alState = "SAFEOP" /\ call.state = "OP" /\ call.ret = "smcheck"
                /\ FlagsOf("SAFEOP") /\ applPending /\ ~waitRes
           /\ result # "INWORK" /\ call.state # alState =>
                /\ outputRun => Refused /\ result \in ErrorCode /\ alState = "OP"
                /\ result # "0" /\ ~outputRun =>
                      /\ result \in ErrorCode
                      /\ FlagsOf(IF alState = "OP" THEN "SAFEOP" ELSE alState)
                /\ result = "0" => call.state \in State /\ FlagsOf(call.state)
           /\ result # "INWORK" /\ call.state = alState =>
                /\ FlagsOf(alState)
  <1>0. /\ pc = "services" /\ todo = << >> /\ Stage /\ Types /\ CallInv
    BY DEF IInv, RunInv, Concluding
  <1>1. /\ result \in ErrorCode \cup {"0", "INWORK", "NOSTATECHANGE"}
        /\ alState \in State /\ call.state \in State \cup {Unknown}
        /\ ~errInd
    BY <1>0 DEF Types, Scalars, Records, CallInv
  <1>n. \A a : << >> # <<a>> OBVIOUS
  <1>m. /\ << >> \notin {StartInputsList, SetInputsList, StopInputs, StopMailbox,
                         StopMailboxList, FallBackList}
        /\ \A s \in {"SAFEOP", "PREOP", "INIT"} : Rest(s) # << >>
    BY DEF StartInputsList, SetInputsList, StopInputs, StopMailbox, StopMailboxList,
           FallBackList, StopInputsList, StopAllList, Rest
  <1>s. << >> \notin Stops(<< >>) /\ << >> \notin Stops(FallBackList)
        /\ \A s \in {"SAFEOP", "PREOP", "INIT"} : << >> \notin Stops(Rest(s))
    <2>1. \A s \in {"SAFEOP", "PREOP", "INIT"} : Rest(s) \in Seq(ServiceName)
      BY ListTypes DEF Rest, ServiceName
    <2> QED BY <2>1, StopLists, ListTypes
  <1>2. CASE Staying
    BY <1>0, <1>1, <1>2, <1>n DEF Staying
  <1>3. CASE Refused
    BY <1>0, <1>1, <1>3 DEF Refused, ErrorCode, FlagsOf, State, Unknown
  <1>4. CASE StartingMailbox
    <2>1. /\ alState = "INIT" /\ call.state \in {"PREOP", "BOOT"}
          /\ ~outputRun /\ ~inputRun /\ ~escInt /\ ~dcActive
          /\ result \in {"0", "EE_ERROR", "INVALIDMBXCFG", "INVALIDMBXCFGINBOOT"}
          /\ mbxRunning <=> (result = "0")
          /\ bootMode <=> (result = "0" /\ call.state = "BOOT")
      BY <1>0, <1>4, <1>n DEF StartingMailbox
    <2> QED BY <1>1, <2>1 DEF ErrorCode, FlagsOf, State
  <1>5. CASE StoppingBoot
    BY <1>0, <1>1, <1>5, <1>n DEF StoppingBoot, FlagsOf, State
  <1>6. CASE StartingInputs
    <2>1. /\ alState = "PREOP" /\ call.state = "SAFEOP"
          /\ ~outputRun /\ mbxRunning /\ ~bootMode
          /\ \/ result = "0" /\ inputRun
             \/ result \in {"INVALIDWDCFG", "DCINVALIDSYNCCFG"} /\ ~inputRun /\ ~escInt /\ ~dcActive
      BY <1>0, <1>6, <1>n, <1>m DEF StartingInputs
    <2> QED BY <1>1, <2>1 DEF ErrorCode, FlagsOf, State
  <1>7. CASE StartingOutputs
    BY <1>0, <1>1, <1>7, <1>n DEF StartingOutputs
  <1>8. CASE Stopping
    <2>1. call.state \in {"SAFEOP", "PREOP", "INIT"} /\ call.state # alState
      BY <1>8 DEF Stopping
    <2>2. /\ result = "0" /\ ~bootMode /\ (escInt \/ dcActive => inputRun)
          /\ \/ call.state = "SAFEOP" /\ ~outputRun /\ inputRun /\ mbxRunning
             \/ call.state = "PREOP" /\ ~outputRun /\ ~inputRun /\ mbxRunning
             \/ call.state = "INIT" /\ ~outputRun /\ ~inputRun /\ ~mbxRunning
      BY <1>0, <1>8, <2>1, <1>m, <1>s DEF Stopping
    <2> QED BY <1>1, <2>1, <2>2 DEF FlagsOf, State
  <1>9. CASE FallingBack
    <2>1. /\ call.state \in {"PREOP", "SAFEOP", "OP"} /\ result \in CheckResult
          /\ ~bootMode /\ (escInt \/ dcActive => inputRun)
          /\ alState \in {"INIT", "PREOP"} /\ ~outputRun /\ ~inputRun
          /\ mbxRunning <=> (alState = "PREOP")
      BY <1>0, <1>9, <1>n, <1>m, <1>s DEF FallingBack
    <2> QED BY <1>1, <2>1 DEF CheckResult, ErrorCode, FlagsOf
  <1> QED BY <1>0, <1>2, <1>3, <1>4, <1>5, <1>6, <1>7, <1>8, <1>9 DEF Stage

LEMMA EndOfTransition ==
    ASSUME IInv, Conclude
    PROVE  Types' /\ RegInv' /\ PendingInv' /\ CallInv' /\ RunInv'
  <1> USE DEF esm, runs, dc, escIn, main
  <1>0. /\ Types /\ RegInv /\ PendingInv /\ CallInv /\ RunInv
        /\ Flags /\ Scalars /\ Records /\ Concluding
    BY DEF IInv, Types, Conclude, ConcludeInWork, ConcludeStopOutputs, ConcludeChanged,
           ConcludeUnchanged, StateChanged
  <1>1. pc = "services" /\ todo = << >>
    BY <1>0 DEF Concluding
  <1>r. call.ret \in {"smcheck", "AL_ControlRes", "watchdog", "MainLoop"}
    BY <1>0 DEF Records
  <1>2. CASE ConcludeInWork
    <2>1. /\ alState = "SAFEOP" /\ call.state = "OP" /\ call.ret = "smcheck"
          /\ FlagsOf("SAFEOP") /\ applPending /\ ~waitRes /\ ~errInd
      BY <1>0, <1>2, Outcome DEF ConcludeInWork
    <2>2. MaxEsm \in -1 .. MaxEsm /\ MaxEsm >= 0 BY EsmAssumption
    <2>3. /\ waitRes' = TRUE /\ esmTimer' = MaxEsm /\ pc' = "smcheck"
          /\ UNCHANGED <<alState, errInd, alReg, applPending, runs, firstOutputs, dc,
                         escIn, changedSm, sm2Enabled, outputs, todo, call, result, seen>>
      BY <1>2, <2>1 DEF ConcludeInWork
    <2>4. Flags' BY <1>0, <2>3, Booleans DEF Flags
    <2>5. Scalars' BY <1>0, <2>2, <2>3 DEF Scalars, Settled
    <2>6. Records' BY <1>0, <2>3 DEF Records
    <2>7. RegInv'
      <3>0. result = "INWORK" BY <1>2 DEF ConcludeInWork
      <3>1. ~FallingBack BY ONLY <3>0 DEF FallingBack, CheckResult
      <3>2. alReg.state = alState BY <1>0, <3>1 DEF RegInv
      <3> QED BY <1>0, <2>1, <2>3, <3>2 DEF RegInv
    <2>8. PendingInv' BY <2>1, <2>2, <2>3 DEF PendingInv
    <2>9. CallInv' BY <1>0, <2>3 DEF CallInv
    <2>10. RunInv' BY <2>1, <2>3 DEF RunInv, FlagsOf
    <2> QED BY <2>4, <2>5, <2>6, <2>7, <2>8, <2>9, <2>10 DEF Types
  <1>3. CASE ConcludeStopOutputs
    <2>1. Refused /\ alState = "OP" /\ result \in ErrorCode
      BY <1>0, <1>3, Outcome DEF ConcludeStopOutputs, StateChanged
    <2>2. /\ todo' = FromAppl(<< >>) /\ todo' \in Stops(<< >>)
      BY <1>3, Concatenations DEF ConcludeStopOutputs, Stops
    <2>3. UNCHANGED <<esm, runs, firstOutputs, dc, escIn, changedSm, sm2Enabled,
                      outputs, pc, call, result, seen>>
      BY <1>3 DEF ConcludeStopOutputs
    <2>4. Flags' BY <1>0, <2>3 DEF Flags
    <2>5. todo' \in Seq(ServiceName) BY <2>2, StopLists, ListTypes DEF Stops
    <2>6. Scalars' BY <1>0, <2>3, <2>5 DEF Scalars
    <2>7. Records' BY <1>0, <2>3 DEF Records
    <2>8. ~FallingBack
      <3>1. << >> \notin Stops(FallBackList) BY StopLists, ListTypes
      <3>2. outputRun /\ todo = << >> BY <1>1, <1>3 DEF ConcludeStopOutputs
      <3> QED BY ONLY <3>1, <3>2 DEF FallingBack
    <2>9. RegInv' BY <1>0, <2>3, <2>8 DEF RegInv
    <2>10. PendingInv' BY <1>0, <2>3, <2>8 DEF PendingInv, Settled
    <2>11. CallInv' BY <1>0, <2>3 DEF CallInv
    <2>12. Refused' BY <2>1, <2>2, <2>3 DEF Refused
    <2>13. RunInv' BY <1>1, <2>3, <2>12 DEF RunInv, Stage, Settled
    <2> QED BY <2>4, <2>6, <2>7, <2>9, <2>10, <2>11, <2>13 DEF Types
  \* AL Status is written.
  <1>4. ASSUME NEW state \in State, NEW err \in BOOLEAN, NEW code \in ErrorCode \cup {"0"},
               SetALStatus(state, err, code), Return, ~waitRes', result' = "0",
               UNCHANGED <<applPending, esmTimer, runs, firstOutputs, dc, escIn, changedSm,
                           outputs, todo, seen>>,
               waitRes' \in BOOLEAN, sm2Enabled' \in BOOLEAN,
               err <=> (code # "0"), err => state # "OP",
               FlagsOf(state)
        PROVE  Types' /\ RegInv' /\ PendingInv' /\ CallInv' /\ RunInv'
    <2>1. /\ alState' = state /\ errInd' = err
          /\ alReg' = [state |-> state, err |-> err, code |-> code]
          /\ pc' = call.ret /\ call' = NoCall /\ pc' \in Settled
      BY <1>r, <1>4 DEF SetALStatus, Return, Settled
    <2>2. Flags' BY <1>0, <1>4, <2>1, Booleans DEF Flags
    <2>3. Scalars' BY <1>0, <1>4, <2>1 DEF Scalars
    <2>4. Records' BY <1>0, <1>4, <2>1, Booleans DEF Records, NoCall, State
    <2>5. RegInv' BY <1>4, <2>1 DEF RegInv, Settled
    <2>6. PendingInv' BY <1>4 DEF PendingInv
    <2>7. CallInv'
      <3>1. call'.code = "0" BY <2>1 DEF NoCall
      <3> QED BY <2>1, <3>1 DEF CallInv, Settled
    <2>8. RunInv' BY <1>4, <2>1 DEF RunInv, FlagsOf, Settled
    <2> QED BY <2>2, <2>3, <2>4, <2>5, <2>6, <2>7, <2>8 DEF Types
  <1>5. CASE ConcludeChanged
    <2>0. /\ result # "INWORK" /\ call.state # alState /\ ~(OpRefused /\ outputRun)
          /\ Return /\ ~waitRes' /\ waitRes' \in BOOLEAN /\ result' = "0"
          /\ UNCHANGED <<applPending, esmTimer, runs, firstOutputs, dc, escIn, changedSm,
                         outputs, todo, seen>>
      BY <1>5 DEF ConcludeChanged, StateChanged
    <2>1. sm2Enabled' \in BOOLEAN
      BY <1>5, Booleans DEF ConcludeChanged
    <2>2. CASE result # "0"
      <3>1. ~outputRun
        BY <1>0, <2>0, <2>2, Outcome DEF OpRefused
      <3> DEFINE state == IF alState = "OP" THEN "SAFEOP" ELSE alState
      <3>2. state \in State /\ state # "OP" /\ FlagsOf(state) /\ result \in ErrorCode
        BY <1>0, <2>0, <2>2, <3>1, Outcome DEF State
      <3>3. SetALStatus(state, TRUE, result)
        BY <1>5, <2>2 DEF ConcludeChanged
      <3> HIDE DEF state
      <3>4. TRUE \in BOOLEAN /\ (TRUE <=> (result # "0")) BY <2>2
      <3> QED BY <1>4, <2>0, <2>1, <3>2, <3>3, <3>4
    <2>3. CASE result = "0"
      <3>1. call.state \in State /\ FlagsOf(call.state) /\ call.code \in ErrorCode \cup {"0"}
        BY <1>0, <2>0, <2>3, Outcome DEF Records
      <3>2. call.code # "0" => call.state # "OP"
        BY <1>0 DEF CallInv
      <3>3. SetALStatus(call.state, call.code # "0", call.code)
        BY <1>5, <2>3 DEF ConcludeChanged
      <3> DEFINE err == call.code # "0"
      <3>4. err \in BOOLEAN /\ (err <=> (call.code # "0")) /\ (err => call.state # "OP")
        BY <3>2
      <3>5. SetALStatus(call.state, err, call.code) BY <3>3
      <3> HIDE DEF err
      <3> QED BY <1>4, <2>0, <2>1, <3>1, <3>4, <3>5
    <2> QED BY <2>2, <2>3
  <1>6. CASE ConcludeUnchanged
    <2>0. /\ result # "INWORK" /\ call.state = alState
          /\ Return /\ ~waitRes' /\ waitRes' \in BOOLEAN /\ result' = "0"
          /\ UNCHANGED <<applPending, esmTimer, runs, firstOutputs, dc, escIn, changedSm,
                         outputs, todo, seen>>
          /\ sm2Enabled' = sm2Enabled
          /\ SetALStatus(alState, errInd, "0")
      BY <1>6 DEF ConcludeUnchanged
    <2>1. /\ alState \in State /\ FlagsOf(alState) /\ ~errInd /\ errInd \in BOOLEAN
          /\ sm2Enabled' \in BOOLEAN
      BY <1>0, <2>0, Outcome DEF Flags
    <2>2. "0" \in ErrorCode \cup {"0"} /\ (errInd <=> ("0" # "0")) /\ (errInd => alState # "OP")
      BY <2>1
    <2> QED BY <1>4, <2>0, <2>1, <2>2
  <1> QED BY <1>2, <1>3, <1>5, <1>6 DEF Conclude

LEMMA PendingLists ==
    /\ << >> \o StopOutputsOnly = FromFirst(<< >>)
    /\ <<"APPL_StopOutputHandler">> \o StopOutputsOnly = FromAppl(<< >>)
  <1>0. {"APPL_StopOutputHandler", "ClearFirstOutputs", "ClearOutputRun"} \subseteq ServiceName
    BY DEF ServiceName
  <1>1. StopOutputsOnly \in Seq(ServiceName)
    BY <1>0 DEF StopOutputsOnly
  <1>2. \A s \in Seq(ServiceName) : << >> \o s = s /\ s \o << >> = s
    BY ConcatEmptySeq
  <1>3. << >> \o StopOutputsOnly = FromFirst(<< >>)
    BY <1>1, <1>2 DEF FromFirst
  <1>4. <<"APPL_StopOutputHandler">> \o StopOutputsOnly = StopOutputs
    <2> DEFINE s == <<"APPL_StopOutputHandler">> t == StopOutputsOnly u == StopOutputs
    <2>1. s \in Seq(ServiceName) /\ Len(s) = 1 /\ s[1] = "APPL_StopOutputHandler"
      BY <1>0
    <2>2. /\ t \in Seq(ServiceName) /\ Len(t) = 2
          /\ t[1] = "ClearFirstOutputs" /\ t[2] = "ClearOutputRun"
      BY <1>0 DEF StopOutputsOnly
    <2>3. /\ u \in Seq(ServiceName) /\ Len(u) = 3 /\ u[1] = "APPL_StopOutputHandler"
          /\ u[2] = "ClearFirstOutputs" /\ u[3] = "ClearOutputRun"
      BY <1>0 DEF StopOutputs
    <2> HIDE DEF s, t, u
    <2>4. /\ s \o t \in Seq(ServiceName)
          /\ Len(s \o t) = Len(s) + Len(t)
          /\ \A i \in 1 .. Len(s) + Len(t) :
                (s \o t)[i] = IF i <= Len(s) THEN s[i] ELSE t[i - Len(s)]
      BY <2>1, <2>2, ConcatProperties
    <2>5. Len(s \o t) = 3 BY <2>1, <2>2, <2>4
    <2>6. \A i \in 1 .. 3 : (s \o t)[i] = u[i]
      BY <2>1, <2>2, <2>3, <2>4
    <2>7. s \o t = u BY <2>3, <2>4, <2>5, <2>6, SeqEqual
    <2> QED BY <2>7 DEF s, t, u
  <1>5. StopOutputs = FromAppl(<< >>)
    BY Concatenations
  <1> QED BY <1>3, <1>4, <1>5

LEMMA OfPending ==
    ASSUME IInv, AL_ControlRes \/ FinishPending
    PROVE  Types' /\ RegInv' /\ PendingInv' /\ CallInv' /\ RunInv'
  <1> USE DEF esm, runs, dc, escIn, main
  <1>0. /\ Types /\ RegInv /\ PendingInv /\ CallInv /\ RunInv
        /\ Flags /\ Scalars /\ Records
    BY DEF IInv, Types
  <1>1. CASE AL_ControlRes
    <2>1. /\ pc = "AL_ControlRes"
          /\ UNCHANGED <<alState, errInd, alReg, waitRes, esmTimer, mbxRunning, bootMode,
                         inputRun, escInt, wdOn, firstOutputs, dcActive, dcRunning,
                         seqValid, escIn, changedSm, sm2Enabled, outputs,
                         call, seen>>
      BY <1>1 DEF AL_ControlRes
    <2>2. \/ waitRes /\ EnterOp
          \/ waitRes /\ applPending /\ RejectOp(Missing) /\ Missing # "0" /\ UNCHANGED applPending
          \/ pc' = "sm1check" /\ UNCHANGED <<applPending, outputRun, todo, result>>
      BY <1>0, <1>1, <2>1 DEF AL_ControlRes, PendingInv, Settled
    <2>3. waitRes => alState = "SAFEOP" /\ FlagsOf("SAFEOP") /\ call.state = "OP" /\ call.ret = "smcheck"
      BY <1>0, <2>1 DEF PendingInv, RunInv, Settled
    <2>4. applPending' \in BOOLEAN /\ pllWait' \in BOOLEAN /\ pllCnt' \in 0 .. PllTicks
      BY <1>0, <1>1, Booleans, EsmAssumption DEF AL_ControlRes, Flags, Scalars
    <2>5. Records' BY <1>0, <2>1 DEF Records
    <2>6. RegInv' BY <1>0, <2>1, <2>2 DEF RegInv, EnterOp, RejectOp
    <2>7. CallInv' BY <1>0, <2>1, <2>2 DEF CallInv, EnterOp, RejectOp
    <2>8. CASE waitRes /\ EnterOp
      <3>1. pc' = "op" /\ outputRun' = TRUE /\ UNCHANGED <<todo, result>>
        BY <2>8 DEF EnterOp
      <3>2. Flags' BY <1>0, <2>1, <2>4, <3>1, Booleans DEF Flags
      <3>3. Scalars' BY <1>0, <2>1, <2>4, <3>1 DEF Scalars
      <3>4. PendingInv' BY <1>0, <2>1, <2>3, <2>8, <3>1 DEF PendingInv, Settled
      <3>5. RunInv' BY <2>1, <2>3, <2>8, <3>1 DEF RunInv, FlagsOf, Settled
      <3> QED BY <2>5, <2>6, <2>7, <3>2, <3>3, <3>4, <3>5 DEF Types
    <2>9. CASE waitRes /\ applPending /\ RejectOp(Missing) /\ Missing # "0" /\ UNCHANGED applPending
      <3>1. /\ pc' = "reject" /\ UNCHANGED outputRun
            /\ result' \in {"SMWATCHDOG", "NOSYNCERROR", "SYNCERROR"}
        BY <2>9 DEF RejectOp, Missing
      <3>2. todo' = << >> \o StopOutputsOnly
        BY <2>9 DEF RejectOp, StopOutputsOnly
      <3>3. todo' \in Stops(<< >>) BY <3>2, PendingLists DEF Stops
      <3>4. todo' \in Seq(ServiceName) BY <3>3, StopLists, ListTypes
      <3>5. Flags' BY <1>0, <2>1, <2>4, <3>1 DEF Flags
      <3>6. Scalars' BY <1>0, <2>1, <2>4, <3>1, <3>4 DEF Scalars, ErrorCode
      <3>7. PendingInv' BY <1>0, <2>1, <2>3, <2>9, <3>1 DEF PendingInv, Settled
      <3>8. RunInv' BY <2>1, <2>3, <2>9, <3>1, <3>3 DEF RunInv, FlagsOf, Settled
      <3> QED BY <2>5, <2>6, <2>7, <3>5, <3>6, <3>7, <3>8 DEF Types
    <2>10. CASE pc' = "sm1check" /\ UNCHANGED <<applPending, outputRun, todo, result>>
      <3>1. Flags' BY <1>0, <2>1, <2>4, <2>10 DEF Flags
      <3>2. Scalars' BY <1>0, <2>1, <2>4, <2>10 DEF Scalars, Settled
      <3>3. PendingInv' BY <1>0, <2>1, <2>10 DEF PendingInv, Settled
      <3>4. RunInv' BY <1>0, <2>1, <2>10 DEF RunInv, FlagsOf, Settled
      <3> QED BY <2>5, <2>6, <2>7, <3>1, <3>2, <3>3, <3>4 DEF Types
    <2> QED BY <2>2, <2>8, <2>9, <2>10
  <1>2. CASE FinishPending
    <2>1. /\ waitRes' = FALSE /\ pc' = "sm1check" /\ call' = NoCall /\ result' = "0"
          /\ UNCHANGED <<applPending, esmTimer, runs, firstOutputs, dc, escIn, changedSm,
                         sm2Enabled, outputs, todo, seen>>
      BY <1>2 DEF FinishPending
    <2>2. PICK state \in {"OP", "SAFEOP"}, err \in BOOLEAN, code \in ErrorCode \cup {"0"} :
            /\ SetALStatus(state, err, code) /\ FlagsOf(state)
            /\ err <=> (code # "0")
            /\ err => state # "OP"
      <3>1. CASE pc = "op" /\ SetALStatus("OP", FALSE, "0")
        <4>1. FlagsOf("OP")
          BY <1>0, <3>1, <2>1 DEF RunInv, FlagsOf
        <4>2. FALSE \in BOOLEAN OBVIOUS
        <4> QED BY <3>1, <4>1, <4>2
      <3>2. CASE pc = "reject" /\ todo = << >> /\ SetALStatus("SAFEOP", TRUE, result)
        <4>1. FlagsOf("SAFEOP") /\ result \in ErrorCode /\ result # "0"
          BY <1>0, <3>2 DEF RunInv, ErrorCode
        <4>2. TRUE \in BOOLEAN OBVIOUS
        <4> QED BY <3>2, <4>1, <4>2
      <3> QED BY <1>2, <3>1, <3>2 DEF FinishPending
    <2>3. /\ alState' = state /\ errInd' = err
          /\ alReg' = [state |-> state, err |-> err, code |-> code]
      BY <2>2 DEF SetALStatus
    <2>4. Flags' BY <1>0, <2>1, <2>3, Booleans DEF Flags
    <2>5. Scalars' BY <1>0, <2>1, <2>3 DEF Scalars, State, Settled
    <2>6. Records' BY <1>0, <2>1, <2>3, Booleans DEF Records, NoCall, State
    <2>7. RegInv' BY <2>1, <2>2, <2>3 DEF RegInv
    <2>8. PendingInv' BY <2>1 DEF PendingInv
    <2>9. CallInv'
      <3>1. call'.code = "0" BY <2>1 DEF NoCall
      <3> QED BY <2>1, <3>1 DEF CallInv
    <2>10. RunInv' BY <2>1, <2>2, <2>3 DEF RunInv, FlagsOf
    <2> QED BY <2>4, <2>5, <2>6, <2>7, <2>8, <2>9, <2>10 DEF Types
  <1> QED BY <1>1, <1>2

-----------------------------------------------------------------------------
(* A wrong Sync Manager is not forgotten.                                  *)

\* What a service does to the result of its transition and to SM changes.
LEMMA ResultOfService ==
    ASSUME IInv, ServiceStep, pc = "services"
    PROVE  LET going == {"0", "INWORK", "NOSTATECHANGE"}
           IN  /\ result' \in going => result \in going
               /\ result' \in going /\ changedSm' # changedSm =>
                      call.ret = "smcheck" \/ call.state = "BOOT"
  <1> DEFINE going == {"0", "INWORK", "NOSTATECHANGE"}
  <1>0. Stage /\ todo # << >> /\ changedSm \subseteq MasterSm
    BY ServiceEffects DEF IInv, RunInv, Types, Scalars
  <1>1. CASE Head(todo) \in {"StartInputHandler", "MBX_StartMailboxHandler", "StartBoot"}
    <2>1. call.ret = "smcheck" /\ result = "0"
      <3>1. CASE Staying BY <1>0, <1>1, <3>1, Lists DEF Staying
      <3>2. CASE Refused BY <1>0, <1>1, <3>2, StopLists, ListTypes DEF Refused, Stops
      <3>3. CASE StartingMailbox BY <1>0, <3>3 DEF StartingMailbox
      <3>4. CASE StoppingBoot BY <1>0, <1>1, <3>4, Lists DEF StoppingBoot
      <3>5. CASE StartingInputs BY <1>0, <1>1, <3>5, Lists, ListHeads DEF StartingInputs
      <3>6. CASE StartingOutputs BY <1>0, <1>1, <3>6, Lists DEF StartingOutputs
      <3>7. CASE Stopping
        <4>1. \A s \in {"SAFEOP", "PREOP", "INIT"} :
                 Rest(s) \in Seq(ServiceName) /\ Head(Rest(s)) \in {"ApplCalled", "StopInputHandler"}
          BY ListTypes, Lists, ListHeads DEF Rest, ServiceName
        <4>2. call.state \in {"SAFEOP", "PREOP", "INIT"} BY <3>7 DEF Stopping
        <4>3. todo \notin Stops(Rest(call.state))
          BY <1>1, <4>1, <4>2, StopLists DEF Stops
        <4> QED BY <1>0, <1>1, <3>7, <4>1, <4>2, <4>3, Lists, ListHeads DEF Stopping
      <3>8. CASE FallingBack
        <4>1. todo \notin Stops(FallBackList)
          BY <1>1, StopLists, ListTypes DEF Stops
        <4> QED BY <1>0, <1>1, <3>8, <4>1, Lists, ListHeads DEF FallingBack
      <3> QED BY <1>0, <3>1, <3>2, <3>3, <3>4, <3>5, <3>6, <3>7, <3>8 DEF Stage
    <2> QED BY <2>1
  <1>2. CASE Head(todo) \notin {"StartInputHandler", "MBX_StartMailboxHandler", "StartBoot"}
    <2>1. changedSm' = changedSm
      BY <1>2 DEF ServiceStep, Service, APPL_StopOutputHandler, StopOutputHandler,
         StopInputHandler, StartInputHandler, SetFlags, StartOutputHandler, EnableSm2,
         MBX_StartMailboxHandler, StartBoot, MBX_StopMailboxHandler, FallBack
    <2>2. CASE Head(todo) \in {"StartOutputHandler", "EnableSm2"}
      <3>1. result = "0"
        <4>1. CASE Staying BY <1>0, <2>2, <4>1, Lists DEF Staying
        <4>2. CASE Refused BY <1>0, <2>2, <4>2, StopLists, ListTypes DEF Refused, Stops
        <4>3. CASE StartingMailbox BY <1>0, <2>2, <4>3, Lists DEF StartingMailbox
        <4>4. CASE StoppingBoot BY <1>0, <4>4 DEF StoppingBoot
        <4>5. CASE StartingInputs BY <1>0, <2>2, <4>5, Lists, ListHeads DEF StartingInputs
        <4>6. CASE StartingOutputs BY <1>0, <4>6 DEF StartingOutputs
        <4>7. CASE Stopping BY <4>7 DEF Stopping
        <4>8. CASE FallingBack
          <5>1. todo \notin Stops(FallBackList)
            BY <2>2, StopLists, ListTypes DEF Stops
          <5> QED BY <1>0, <2>2, <4>8, <5>1, Lists, ListHeads DEF FallingBack
        <4> QED BY <1>0, <4>1, <4>2, <4>3, <4>4, <4>5, <4>6, <4>7, <4>8 DEF Stage
      <3> QED BY <2>1, <3>1
    <2>3. CASE Head(todo) \notin {"StartOutputHandler", "EnableSm2"}
      <3>1. result' = result
        BY <1>2, <2>3 DEF ServiceStep, Service, APPL_StopOutputHandler, StopOutputHandler,
           StopInputHandler, StartInputHandler, SetFlags, StartOutputHandler, EnableSm2,
           MBX_StartMailboxHandler, StartBoot, MBX_StopMailboxHandler, FallBack
      <3> QED BY <2>1, <3>1
    <2> QED BY <2>2, <2>3
  <1> QED BY <1>1, <1>2

LEMMA SmStep ==
    ASSUME IInv, Patient, Next PROVE SmInv'
  <1> USE DEF esm, runs, dc, escIn, main
  <1>0. /\ Types /\ RegInv /\ PendingInv /\ CallInv /\ RunInv /\ SmInv
        /\ Scalars /\ Records /\ seen \in [sm1 : BOOLEAN, smChange : BOOLEAN]
    BY DEF IInv, Types, Flags
  <1>1. ASSUME UNCHANGED <<alState, errInd, call, result, badSm, changedSm>>,
               seen'.sm1 = seen.sm1,
               \/ pc' = pc
               \/ /\ pc \in Settled \cup {"op", "reject"} /\ pc' \in Settled \cup {"op", "reject"}
                  /\ \/ pc \in Settled \ {"event", "smcheck", "AL_ControlRes", "sm1check"}
                     \/ pc' \in {"event", "smcheck", "AL_ControlRes", "sm1check", "op", "reject"}
        PROVE  SmInv'
    BY <1>0, <1>1 DEF SmInv, Settled
  <1>2. CASE MainLoop \/ ECAT_Application \/ NoTick \/ ECAT_CheckTimer \/ ReadWatchdog
    BY <1>1, <1>2 DEF MainLoop, ECAT_Application, NoTick, GoTo, ECAT_CheckTimer, ReadWatchdog,
       Settled
  <1>3. CASE ReadSm1
    <2>1. seen'.sm1 = (mbxRunning => 1 \notin badSm)
      BY <1>0, <1>3 DEF ReadSm1
    <2>2. /\ pc = "sm1" /\ pc' = "event" /\ UNCHANGED <<alState, errInd, call, result, badSm>>
          /\ changedSm' = IF mbxRunning THEN changedSm \ {1} ELSE changedSm
      BY <1>3 DEF ReadSm1
    <2>3. mbxRunning <=> alState # "INIT"
      BY <1>0, <2>2 DEF RunInv, FlagsOf, Settled
    <2>4. seen.sm1 BY <1>0, <2>2 DEF SmInv, Settled
    <2>5. ~mbxRunning => Needed(alState) = {} BY <2>3 DEF Needed
    <2>6. CASE mbxRunning
      BY <1>0, <2>1, <2>2, <2>4, <2>6 DEF SmInv, Settled
    <2>7. CASE ~mbxRunning
      BY <2>1, <2>2, <2>5, <2>7 DEF SmInv, Settled
    <2> QED BY <2>6, <2>7
  <1>4. CASE ReadEvents
    <2>1. seen'.sm1 = seen.sm1 BY <1>0, <1>4 DEF ReadEvents
    <2>2. CASE alControl # NoRequest /\ ~waitRes
      <3>1. pc' = "AL_ControlInd" /\ call'.ret = "smcheck"
        BY <1>4, <2>2 DEF ReadEvents, Call
      <3> QED BY <3>1 DEF SmInv, Settled
    <2>3. CASE ~(alControl # NoRequest /\ ~waitRes)
      BY <1>1, <1>4, <2>1, <2>3 DEF ReadEvents, Settled
    <2> QED BY <2>2, <2>3
  <1>5. CASE SmChangeEvent
    <2>1. seen'.sm1 = seen.sm1 BY <1>0, <1>5 DEF SmChangeEvent, CallWhen
    <2> DEFINE condition == seen.smChange /\ ~waitRes /\ ~errInd /\ alState # "INIT"
    <2>2. CASE condition
      <3>1. pc' = "AL_ControlInd" /\ call'.ret = "AL_ControlRes"
        BY <1>5, <2>2 DEF SmChangeEvent, CallWhen, Call
      <3> QED BY <3>1 DEF SmInv, Settled
    <2>3. CASE ~condition
      BY <1>1, <1>5, <2>1, <2>3 DEF SmChangeEvent, CallWhen, Settled
    <2> QED BY <2>2, <2>3
  <1>6. CASE Sm1Disabled
    <2>1. seen'.sm1 = TRUE /\ pc = "sm1check"
      BY <1>6 DEF Sm1Disabled, CallWhen, NotSeen
    <2>2. CASE mbxRunning /\ ~seen.sm1
      <3>1. pc' = "AL_ControlInd"
        BY <1>6, <2>2 DEF Sm1Disabled, CallWhen, Call
      <3> QED BY <2>1, <3>1 DEF SmInv, Settled
    <2>3. CASE ~(mbxRunning /\ ~seen.sm1)
      <3>1. /\ pc' = "watchdog"
            /\ UNCHANGED <<alState, errInd, call, result, badSm, changedSm>>
        BY <1>6, <2>3 DEF Sm1Disabled, CallWhen
      <3>2. ~mbxRunning => Needed(alState) = {}
        BY <1>0, <2>1 DEF RunInv, FlagsOf, Settled, Needed
      <3>3. CASE seen.sm1
        BY <1>0, <2>1, <3>1, <3>3 DEF SmInv, Settled
      <3>4. CASE ~mbxRunning
        BY <2>1, <3>1, <3>2, <3>4 DEF SmInv, Settled
      <3> QED BY <2>3, <3>3, <3>4
    <2> QED BY <2>2, <2>3
  <1>7. CASE WatchdogExpired
    <2>1. seen' = seen /\ pc = "expired" BY <1>7 DEF WatchdogExpired
    <2>2. CASE outputRun
      <3>1. pc' = "AL_ControlInd" BY <1>7, <2>2 DEF WatchdogExpired, Call
      <3>2. seen.sm1 BY <1>0, <2>1 DEF SmInv, Settled
      <3> QED BY <2>1, <3>1, <3>2 DEF SmInv, Settled
    <2>3. CASE ~outputRun
      BY <1>1, <1>7, <2>1, <2>3 DEF WatchdogExpired, Settled
    <2> QED BY <2>2, <2>3
  <1>8. CASE CheckSync
    <2>1. seen'.sm1 = TRUE /\ pc = "sync" /\ seen.sm1
      BY <1>0, <1>8 DEF CheckSync, CallWhen, NotSeen, SmInv, Settled
    <2> DEFINE lost == dcActive /\ outputRun /\ ~(dcRunning /\ seqValid)
    <2>2. CASE lost
      <3>1. pc' = "AL_ControlInd" BY <1>8, <2>2 DEF CheckSync, CallWhen, Call
      <3> QED BY <2>1, <3>1 DEF SmInv, Settled
    <2>3. CASE ~lost
      <3>1. /\ pc' = "MainLoop"
            /\ UNCHANGED <<alState, errInd, call, result, badSm, changedSm>>
        BY <1>8, <2>3 DEF CheckSync, CallWhen
      <3> QED BY <1>0, <2>1, <3>1 DEF SmInv, Settled
    <2> QED BY <2>2, <2>3
  <1>9. CASE PDI_Isr \/ Environment
    <2>1. CASE \E c \in MasterSm : WriteSm(c)
      <3>1. PICK c \in MasterSm : WriteSm(c) BY <2>1
      <3>2. /\ ~Unanswered /\ badSm' \subseteq badSm \cup {c} /\ changedSm' = changedSm \cup {c}
            /\ UNCHANGED <<esm, main>>
        BY <3>1 DEF WriteSm
      <3>3. pc = "services" => call.ret # "smcheck"
        BY <3>2 DEF Unanswered
      <3> QED BY <1>0, <3>2, <3>3 DEF SmInv
    <2>2. CASE ~ \E c \in MasterSm : WriteSm(c)
      BY <1>1, <1>9, <2>2 DEF PDI_Isr, Environment, WriteAlControl, ProcessData, WatchdogExpires
    <2> QED BY <2>1, <2>2
  <1>10. CASE AL_ControlInd
    <2>1. UNCHANGED <<alState, badSm, seen>> /\ pc = "AL_ControlInd"
      BY <1>10 DEF AL_ControlInd
    <2>2. CASE Unacknowledged
      <3>1. pc' = call.ret /\ errInd' = errInd /\ errInd
        BY <1>10, <2>2 DEF AL_ControlInd, Return, Unacknowledged
      <3>2. call.ret \in {"smcheck", "AL_ControlRes", "watchdog", "MainLoop"}
        BY <1>0 DEF Records
      <3>3. call.ret \in {"watchdog", "MainLoop"} => seen.sm1
        BY <1>0, <2>1 DEF SmInv
      <3> QED BY <2>1, <3>1, <3>2, <3>3 DEF SmInv, Settled
    <2>3. CASE ~Unacknowledged
      <3>1. /\ pc' = "services" /\ call' = call
            /\ result' \in {"0", "INWORK", "NOSTATECHANGE"} =>
                  /\ CheckSmSettings(CheckedChannels(alState, call.state)) = "0"
                  /\ Verdict(alState, call.state) = "0"
        <4>1. /\ alState \in State /\ call.state \in State \cup {Unknown}
          BY <1>0 DEF Scalars, Records
        <4>2. /\ CheckSmSettings(CheckedChannels(alState, call.state)) \in {"0"} \cup CheckResult
          BY <4>1, CheckFacts
        <4>3. Verdict(alState, call.state) \in {"0", "INVALIDALCONTROL", "UNKNOWNALCONTROL"}
          BY DEF Verdict
        <4> QED BY <1>10, <2>3, <4>2, <4>3 DEF AL_ControlInd, CheckResult
      <3>2. result' \in {"0", "INWORK", "NOSTATECHANGE"} => badSm \cap Needed(call.state) = {}
        <4>1. /\ alState \in State /\ call.state \in State \cup {Unknown}
          BY <1>0 DEF Scalars, Records
        <4> QED BY <3>1, <4>1, CheckFacts
      <3> QED BY <1>0, <2>1, <3>1, <3>2 DEF SmInv, Settled
    <2> QED BY <2>2, <2>3
  <1>11. CASE ServiceStep
    <2>1. /\ pc \in {"services", "reject"}
          /\ UNCHANGED <<pc, call, seen, badSm, errInd>>
      BY <1>11, ServiceEffects
    <2>2. CASE pc = "services"
      <3> DEFINE going == {"0", "INWORK", "NOSTATECHANGE"}
      <3>1. /\ result' \in going => result \in going
            /\ result' \in going /\ changedSm' # changedSm => call.ret = "smcheck" \/ call.state = "BOOT"
        BY <1>11, <2>2, ResultOfService
      <3>2. call.state = "BOOT" => Needed(call.state) = {} BY DEF Needed
      <3> QED BY <1>0, <2>1, <2>2, <3>1, <3>2 DEF SmInv, Settled
    <2>3. CASE pc = "reject"
      <3>1. todo \in Stops(<< >>) /\ todo # << >>
        BY <1>0, <1>11, <2>3, ServiceEffects DEF RunInv
      <3>2. Head(todo) \in {"APPL_StopOutputHandler", "ClearFirstOutputs", "ClearOutputRun"}
        <4>1. << >> \in Seq(ServiceName) BY ListTypes
        <4>2. /\ Head(FromAppl(<< >>)) = "APPL_StopOutputHandler"
              /\ Head(FromFirst(<< >>)) = "ClearFirstOutputs"
              /\ Head(FromRun(<< >>)) = "ClearOutputRun"
          BY <4>1, StopLists
        <4> QED BY ONLY <3>1, <4>2 DEF Stops
      <3>3. UNCHANGED <<alState, changedSm, result>>
        BY <1>11, <3>2 DEF ServiceStep, Service, APPL_StopOutputHandler, StopOutputHandler,
           StopInputHandler, StartInputHandler, SetFlags, StartOutputHandler, EnableSm2,
           MBX_StartMailboxHandler, StartBoot, MBX_StopMailboxHandler, FallBack
      <3> QED BY <1>1, <2>1, <3>3
    <2> QED BY <2>1, <2>2, <2>3
  <1>12. CASE Conclude
    <2>0. /\ Concluding /\ pc = "services" /\ todo = << >>
          /\ UNCHANGED <<badSm, changedSm, seen>>
      BY <1>12 DEF Conclude, ConcludeInWork, ConcludeStopOutputs, ConcludeChanged,
         ConcludeUnchanged, StateChanged, Concluding
    <2>r. call.ret \in {"smcheck", "AL_ControlRes", "watchdog", "MainLoop"}
      BY <1>0 DEF Records
    <2>s. call.ret \in {"watchdog", "MainLoop"} => seen.sm1
      BY <1>0, <2>0 DEF SmInv
    <2>1. CASE ConcludeInWork
      <3>1. /\ result = "INWORK" /\ alState' = alState /\ pc' = "smcheck"
            /\ alState = "SAFEOP" /\ call.state = "OP" /\ call.ret = "smcheck"
        BY <2>0, <2>1, Outcome DEF ConcludeInWork
      <3>2. Needed(alState) = Needed(call.state) BY <3>1 DEF Needed
      <3>3. badSm \cap Needed(alState) = {}
        BY <1>0, <2>0, <3>1, <3>2 DEF SmInv
      <3> QED BY <2>0, <3>1, <3>3 DEF SmInv, Settled
    <2>2. CASE ConcludeStopOutputs
      BY <1>1, <2>2 DEF ConcludeStopOutputs
    <2>3. CASE ConcludeChanged
      <3>1. pc' = call.ret BY <2>3 DEF ConcludeChanged, Return
      <3>2. CASE result # "0"
        <4>1. errInd' = TRUE BY <2>3, <3>2 DEF ConcludeChanged, SetALStatus
        <4> QED BY <2>0, <2>r, <2>s, <3>1, <4>1 DEF SmInv, Settled
      <3>3. CASE result = "0"
        <4>1. alState' = call.state BY <2>3, <3>3 DEF ConcludeChanged, SetALStatus
        <4>2. \A c \in badSm \cap Needed(call.state) : c \in changedSm
          BY <1>0, <2>0, <3>3 DEF SmInv
        <4> QED BY <2>0, <2>r, <2>s, <3>1, <4>1, <4>2 DEF SmInv, Settled
      <3> QED BY <3>2, <3>3
    <2>4. CASE ConcludeUnchanged
      <3>1. /\ pc' = call.ret /\ alState' = alState /\ call.state = alState /\ result # "INWORK"
        BY <2>4 DEF ConcludeUnchanged, SetALStatus, Return
      <3>2. alState # "BOOT" => result \in {"0", "NOSTATECHANGE"}
        <4>0. Stage BY <1>0, <2>0 DEF RunInv
        <4>1. CASE FallingBack
          <5>1. << >> \notin Stops(FallBackList) BY StopLists, ListTypes
          <5>2. << >> # FallBackList /\ << >> # <<"FallBack">> BY DEF FallBackList
          <5> QED BY <2>0, <3>1, <4>1, <5>1, <5>2 DEF FallingBack
        <4>2. CASE Staying
          <5>1. \A a : << >> # <<a>> OBVIOUS
          <5> QED BY <2>0, <3>1, <4>2, <5>1 DEF Staying
        <4>3. Staying \/ FallingBack
          BY <3>1, <4>0 DEF Stage, Refused, StartingMailbox, StoppingBoot, StartingInputs,
             StartingOutputs, Stopping
        <4> QED BY <4>1, <4>2, <4>3
      <3>3. alState = "BOOT" => Needed(alState) = {} BY DEF Needed
      <3>4. \A c \in badSm \cap Needed(alState) : c \in changedSm
        BY <1>0, <2>0, <3>1, <3>2, <3>3 DEF SmInv
      <3> QED BY <2>0, <2>r, <2>s, <3>1, <3>4 DEF SmInv, Settled
    <2> QED BY <1>12, <2>1, <2>2, <2>3, <2>4 DEF Conclude
  <1>13. CASE AL_ControlRes
    <2>1. /\ pc = "AL_ControlRes" /\ pc' \in {"op", "reject", "sm1check"}
          /\ UNCHANGED <<alState, errInd, call, badSm, changedSm, seen>>
      BY <1>13 DEF AL_ControlRes, EnterOp, RejectOp
    <2> QED BY <1>0, <2>1 DEF SmInv, Settled
  <1>14. CASE FinishPending
    <2>1. pc' = "sm1check" /\ UNCHANGED <<badSm, changedSm, seen>>
      BY <1>14 DEF FinishPending
    <2>2. CASE pc = "op" /\ SetALStatus("OP", FALSE, "0")
      <3>1. alState = "SAFEOP" /\ ~errInd /\ alState' = "OP"
        BY <1>0, <2>2 DEF RunInv, PendingInv, SetALStatus
      <3>2. Needed("OP") = Needed("SAFEOP") BY DEF Needed
      <3> QED BY <1>0, <2>1, <2>2, <3>1, <3>2 DEF SmInv, Settled
    <2>3. CASE pc = "reject" /\ SetALStatus("SAFEOP", TRUE, result)
      BY <2>1, <2>3 DEF SmInv, Settled, SetALStatus
    <2> QED BY <1>14, <2>2, <2>3 DEF FinishPending
  <1> QED BY <1>2, <1>3, <1>4, <1>5, <1>6, <1>7, <1>8, <1>9, <1>10, <1>11, <1>12, <1>13, <1>14
          DEF Next, MainStep

-----------------------------------------------------------------------------
(* Free run: the outputs are reset before their update stops.              *)

LEMMA FirstServices ==
    ASSUME NEW from \in State, NEW to \in State \cup {Unknown}
    PROVE  /\ Services(from, to) # << >> =>
                Head(Services(from, to)) \notin {"ClearFirstOutputs", "ClearOutputRun"}
           /\ Fallback(from) # << >> =>
                Head(Fallback(from)) \notin {"ClearFirstOutputs", "ClearOutputRun"}
  <1>1. \A s \in {"SAFEOP", "PREOP", "INIT"} :
           /\ Head(Rest(s)) \in {"ApplCalled", "StopInputHandler"}
           /\ Head(FromAppl(Rest(s))) = "APPL_StopOutputHandler"
    <2>1. \A s \in {"SAFEOP", "PREOP", "INIT"} :
             Rest(s) \in Seq(ServiceName) /\ Head(Rest(s)) \in {"ApplCalled", "StopInputHandler"}
      BY ListTypes, Lists, ListHeads DEF Rest, ServiceName
    <2> QED BY <2>1, StopLists
  <1>2. Head(FromAppl(FallBackList)) = "APPL_StopOutputHandler"
    BY StopLists, ListTypes
  <1>3. /\ Head(<<"EnableSm2">>) = "EnableSm2" /\ Head(<<"StartBoot">>) = "StartBoot"
        /\ Head(<<"MBX_StartMailboxHandler">>) = "MBX_StartMailboxHandler"
        /\ Head(<<"StopBoot">>) = "StopBoot" /\ Head(<<"FallBack">>) = "FallBack"
        /\ Head(<<"StartOutputHandler">>) = "StartOutputHandler"
    BY Lists
  <1>4. Services(from, to) # << >> =>
          Head(Services(from, to)) \notin {"ClearFirstOutputs", "ClearOutputRun"}
    <2> DEFINE heads == {"EnableSm2", "MBX_StartMailboxHandler", "StartBoot", "StopBoot",
                         "StartInputHandler", "StartOutputHandler", "MBX_StopMailboxHandler",
                         "ApplCalled", "StopInputHandler", "APPL_StopOutputHandler"}
    <2>1. Services(from, to) # << >> => Head(Services(from, to)) \in heads
      BY <1>1, <1>3, ServiceLists, ListHeads
    <2> QED BY <2>1
  <1>5. Fallback(from) # << >> =>
          Head(Fallback(from)) \notin {"ClearFirstOutputs", "ClearOutputRun"}
    BY <1>2, <1>3, FallbackLists, ListHeads DEF State
  <1> QED BY <1>4, <1>5

LEMMA OutStep ==
    ASSUME IInv, Modes = {"freerun"}, Next PROVE OutInv'
  <1> USE DEF esm, runs, dc, escIn, main
  <1>0. /\ Types /\ RegInv /\ PendingInv /\ CallInv /\ RunInv /\ OutInv
        /\ Scalars /\ Records /\ outputs \in {"reset", "live"}
    BY DEF IInv, Types, Scalars
  <1>1. ASSUME ~escInt', outputs' = outputs \/ outputs' = "reset", outputRun => outputRun',
               \/ pc' # "services" \/ todo' = << >>
               \/ pc' = pc /\ UNCHANGED <<todo, outputs>>
               \/ Head(todo') \notin {"ClearFirstOutputs", "ClearOutputRun"}
        PROVE  OutInv'
    BY <1>0, <1>1 DEF OutInv
  <1>2. CASE MainLoop
    <2>1. /\ pc' \in {"ECAT_Application", "timer"} /\ UNCHANGED <<escInt, outputRun>>
          /\ outputs' = outputs \/ outputRun
      BY <1>2 DEF MainLoop
    <2> QED BY <1>0, <2>1 DEF OutInv
  <1>3. CASE \/ ECAT_Application \/ NoTick \/ ECAT_CheckTimer \/ ReadSm1 \/ ReadEvents
             \/ ReadWatchdog \/ WatchdogExpired
    <2>1. /\ UNCHANGED <<escInt, outputRun, outputs>> /\ pc' # "services"
      BY <1>3 DEF ECAT_Application, NoTick, GoTo, ECAT_CheckTimer, ReadSm1, ReadEvents, Call,
         ReadWatchdog, WatchdogExpired, DC_CheckWatchdog
    <2> QED BY <1>0, <1>1, <2>1 DEF OutInv
  <1>4. CASE SmChangeEvent \/ Sm1Disabled \/ CheckSync
    <2>1. /\ UNCHANGED <<escInt, outputRun, outputs>> /\ pc' # "services"
      BY <1>4 DEF SmChangeEvent, Sm1Disabled, CheckSync, CallWhen, Call
    <2> QED BY <1>0, <1>1, <2>1 DEF OutInv
  <1>5. CASE PDI_Isr
    BY <1>0, <1>5 DEF PDI_Isr, OutInv
  <1>6. CASE Environment
    BY <1>0, <1>1, <1>6 DEF Environment, WriteAlControl, WriteSm, ProcessData,
       WatchdogExpires, OutInv
  <1>7. CASE AL_ControlInd
    <2>1. UNCHANGED <<escInt, outputRun, outputs>>
      BY <1>7 DEF AL_ControlInd
    <2>2. CASE Unacknowledged
      <3>1. pc' = call.ret BY <1>7, <2>2 DEF AL_ControlInd, Return
      <3>2. pc' # "services" BY <1>0, <3>1 DEF Records
      <3> QED BY <1>0, <1>1, <2>1, <3>2 DEF OutInv
    <2>3. CASE ~Unacknowledged
      <3>1. todo' \in {Services(alState, call.state), Fallback(alState)}
        BY <1>7, <2>3 DEF AL_ControlInd
      <3>2. todo' # << >> => Head(todo') \notin {"ClearFirstOutputs", "ClearOutputRun"}
        BY <1>0, <3>1, FirstServices DEF Scalars, Records
      <3> QED BY <1>0, <1>1, <2>1, <3>2 DEF OutInv
    <2> QED BY <2>2, <2>3
  <1>8. CASE ServiceStep
    <2>0. /\ pc \in {"services", "reject"} /\ pc' = pc /\ todo # << >>
          /\ outputs' = outputs \/ outputs' = "reset"
          /\ Head(todo) = "APPL_StopOutputHandler" => outputs' = "reset"
          /\ ~escInt'
      <3> USE <1>0 DEF OutInv, Service
      <3>1. CASE APPL_StopOutputHandler BY <3>1 DEF APPL_StopOutputHandler
      <3>2. CASE StopOutputHandler BY <3>2 DEF StopOutputHandler
      <3>3. CASE StopInputHandler BY <3>3 DEF StopInputHandler
      <3>4. CASE StartInputHandler
        <4>1. Head(todo) = "StartInputHandler" /\ outputs' = outputs
              /\ pc \in {"services", "reject"} /\ pc' = pc /\ todo # << >>
          BY ONLY <3>4 DEF StartInputHandler, Service
        <4>2. escInt' = escInt \/ \E mode \in Modes : escInt' = (mode # "freerun")
          BY ONLY <3>4 DEF StartInputHandler
        <4>3. ~escInt' BY <4>2
        <4> QED BY <4>1, <4>3
      <3>5. CASE SetFlags BY <3>5 DEF SetFlags
      <3>6. CASE StartOutputHandler BY <3>6 DEF StartOutputHandler
      <3>7. CASE EnableSm2 BY <3>7 DEF EnableSm2
      <3>8. CASE MBX_StartMailboxHandler BY <3>8 DEF MBX_StartMailboxHandler
      <3>9. CASE StartBoot BY <3>9 DEF StartBoot
      <3>10. CASE MBX_StopMailboxHandler BY <3>10 DEF MBX_StopMailboxHandler
      <3>11. CASE FallBack BY <3>11 DEF FallBack
      <3> QED BY <1>8, <3>1, <3>2, <3>3, <3>4, <3>5, <3>6, <3>7, <3>8, <3>9, <3>10, <3>11
              DEF ServiceStep
    <2>1. CASE outputs = "reset"
      BY <2>0, <2>1 DEF OutInv
    <2>2. CASE outputs = "live"
      <3>1. outputRun BY <1>0, <2>2 DEF OutInv
      <3>2. pc = "services" /\ Stage
        BY <1>0, <2>0, <3>1 DEF RunInv, FlagsOf
      <3>3. Head(todo) \notin {"ClearFirstOutputs", "ClearOutputRun"}
        BY <1>0, <2>0, <2>2, <3>2 DEF OutInv
      <3>4. CASE Head(todo) = "APPL_StopOutputHandler"
        BY <2>0, <3>4 DEF OutInv
      <3>5. CASE Head(todo) = "EnableSm2" /\ Tail(todo) = << >>
        <4>1. todo' = << >> /\ outputRun' = outputRun
          BY <1>8, <3>5, ServiceEffects
        <4> QED BY <1>1, <2>0, <4>1
      <3>6. \/ Head(todo) = "APPL_StopOutputHandler"
            \/ Head(todo) = "EnableSm2" /\ Tail(todo) = << >>
        <4>1. ASSUME NEW rest \in Seq(ServiceName), todo \in Stops(rest)
              PROVE  Head(todo) = "APPL_StopOutputHandler"
          BY <3>3, <4>1, StopLists DEF Stops
        <4>2. CASE Staying BY <2>0, <4>2, Lists DEF Staying
        <4>3. CASE Refused BY <2>0, <4>1, <4>3, ListTypes DEF Refused
        <4>4. CASE Stopping
          <5>1. call.state \in {"SAFEOP", "PREOP", "INIT"} BY <4>4 DEF Stopping
          <5>2. Rest(call.state) \in Seq(ServiceName)
            BY <5>1, ListTypes DEF Rest, ServiceName
          <5>3. todo \in Stops(Rest(call.state)) BY <3>1, <4>4 DEF Stopping
          <5> QED BY <4>1, <5>2, <5>3
        <4>5. CASE FallingBack
          <5>1. todo \in Stops(FallBackList) BY <3>1, <4>5 DEF FallingBack
          <5> QED BY <4>1, <5>1, ListTypes
        <4> QED BY <3>1, <3>2, <4>2, <4>3, <4>4, <4>5 DEF Stage, StartingMailbox, StoppingBoot,
                StartingInputs, StartingOutputs, FlagsOf
      <3> QED BY <3>4, <3>5, <3>6
    <2> QED BY <1>0, <2>1, <2>2
  <1>9. CASE Conclude
    <2>r. call.ret # "services"
      BY <1>0 DEF Records
    <2>1. CASE ConcludeStopOutputs
      <3>1. /\ todo' = FromAppl(<< >>) /\ UNCHANGED <<escInt, outputRun, outputs>>
        BY <2>1, Concatenations DEF ConcludeStopOutputs
      <3>2. Head(todo') = "APPL_StopOutputHandler"
        BY <3>1, StopLists, ListTypes
      <3> QED BY <1>0, <1>1, <3>1, <3>2 DEF OutInv
    <2>2. CASE ConcludeInWork \/ ConcludeChanged \/ ConcludeUnchanged
      <3>1. pc' = call.ret /\ UNCHANGED <<escInt, outputRun, outputs>>
        BY <2>2 DEF ConcludeInWork, ConcludeChanged, ConcludeUnchanged, Return
      <3> QED BY <1>0, <1>1, <2>r, <3>1 DEF OutInv
    <2> QED BY <1>9, <2>1, <2>2 DEF Conclude
  <1>10. CASE AL_ControlRes
    <2>1. /\ pc' # "services" /\ UNCHANGED <<escInt, outputs>> /\ (outputRun => outputRun')
      BY <1>10 DEF AL_ControlRes, EnterOp, RejectOp
    <2> QED BY <1>0, <1>1, <2>1 DEF OutInv
  <1>11. CASE FinishPending
    <2>1. /\ pc' # "services" /\ UNCHANGED <<escInt, outputRun, outputs>>
      BY <1>11 DEF FinishPending
    <2> QED BY <1>0, <1>1, <2>1 DEF OutInv
  <1> QED BY <1>2, <1>3, <1>4, <1>5, <1>6, <1>7, <1>8, <1>9, <1>10, <1>11 DEF Next, MainStep

-----------------------------------------------------------------------------
(* The theorems.                                                           *)

LEMMA IInvStutter == ASSUME IInv, UNCHANGED vars PROVE IInv'
  <1>0. UNCHANGED <<esm, runs, firstOutputs, dc, escIn, changedSm, sm2Enabled, outputs, main>>
    BY DEF vars
  <1> USE <1>0 DEF esm, runs, dc, escIn, main
  <1>1. UNCHANGED StageVars BY DEF StageVars
  <1>2. Types' BY DEF IInv, Types, Flags, Scalars, Records
  <1>3. RegInv' BY <1>1, FallingBackFrame DEF IInv, RegInv
  <1>4. PendingInv' BY <1>1, FallingBackFrame DEF IInv, PendingInv, Settled
  <1>5. CallInv' BY DEF IInv, CallInv
  <1>6. RunInv' BY <1>1, StageFrame DEF IInv, RunInv, FlagsOf
  <1>7. Patient => SmInv' BY DEF IInv, SmInv
  <1>8. Modes = {"freerun"} => OutInv' BY DEF IInv, OutInv
  <1> QED BY <1>2, <1>3, <1>4, <1>5, <1>6, <1>7, <1>8 DEF IInv

LEMMA IInvStep == ASSUME IInv, [Next]_vars PROVE IInv'
  <1>1. CASE Next
    <2>t. Types BY DEF IInv
    <2>1. Types' /\ RegInv' /\ PendingInv' /\ CallInv' /\ RunInv'
      <3>1. CASE PDI_Isr \/ Environment
        BY <2>t, <3>1, TypeLoop, BesideMain
      <3>2. CASE \/ MainLoop \/ ECAT_Application \/ NoTick \/ ECAT_CheckTimer \/ ReadSm1
                 \/ ReadEvents \/ SmChangeEvent \/ Sm1Disabled \/ ReadWatchdog
                 \/ WatchdogExpired \/ CheckSync
        BY <2>t, <3>2, TypeLoop, BetweenTransitions
      <3>3. CASE AL_ControlInd BY <2>t, <3>3, TypeControlInd, StartOfTransition
      <3>4. CASE ServiceStep BY <2>t, <3>4, TypeService, DuringServices
      <3>5. CASE Conclude BY <3>5, EndOfTransition
      <3>6. CASE AL_ControlRes \/ FinishPending BY <3>6, OfPending
      <3> QED BY <1>1, <3>1, <3>2, <3>3, <3>4, <3>5, <3>6 DEF Next, MainStep
    <2>2. Patient => SmInv' BY <1>1, SmStep
    <2>3. Modes = {"freerun"} => OutInv' BY <1>1, OutStep
    <2> QED BY <2>1, <2>2, <2>3 DEF IInv
  <1>2. CASE UNCHANGED vars BY <1>2, IInvStutter
  <1> QED BY <1>1, <1>2

\* The inductive invariant holds in every reachable state.
THEOREM Inductive == Spec => []IInv
  <1>1. Init => IInv BY InitIInv
  <1>2. IInv /\ [Next]_vars => IInv' BY IInvStep
  <1> QED BY <1>1, <1>2, PTL DEF Spec

\* AL Status is never given the bits of no state, and every result of
\* AL_ControlInd that reaches the register is an error code.
THEOREM TypeCorrect == Spec => []TypeOK
  <1>1. IInv => TypeOK BY TypeSplit DEF IInv
  <1> QED BY <1>1, Inductive, PTL

\* The AL Status register agrees with the state and with the error between
\* two rounds of MainLoop, whatever the master asked for in between.
THEOREM RegisterIsHonest == Spec => []StatusRegisterHonest
  <1>1. IInv => StatusRegisterHonest
    <2> SUFFICES ASSUME IInv, pc = "MainLoop"
                 PROVE  /\ alReg.state = alState
                        /\ alReg.err = errInd \/ (waitRes /\ alReg.err)
                        /\ alReg.err = (alReg.code # "0")
                        /\ errInd => alState # "OP"
      BY DEF StatusRegisterHonest
    <2>1. RegInv /\ errInd \in BOOLEAN /\ alReg.err \in BOOLEAN
      BY DEF IInv, Types, Flags, Records
    <2>2. /\ alReg.err <=> (alReg.code # "0")
          /\ alReg.err => errInd \/ waitRes
          /\ errInd => alReg.err /\ alState # "OP"
          /\ alReg.state = alState
      BY <2>1 DEF RegInv
    <2>3. alReg.err = errInd \/ (waitRes /\ alReg.err)
      BY <2>1, <2>2
    <2>4. alReg.err = (alReg.code # "0")
      BY <2>1, <2>2
    <2> QED BY <2>2, <2>3, <2>4
  <1> QED BY <1>1, Inductive, PTL

\* The flags the PDI task reads follow the state, however a transition ends.
THEOREM FlagsFollow == Spec => []FlagsFollowState
  <1>1. IInv => FlagsFollowState
    <2> SUFFICES ASSUME IInv, pc = "MainLoop"
                 PROVE  /\ outputRun = (alState = "OP")
                        /\ inputRun = (alState \in {"SAFEOP", "OP"})
                        /\ mbxRunning = (alState # "INIT")
                        /\ bootMode = (alState = "BOOT")
                        /\ escInt \/ dcActive => inputRun
      BY DEF FlagsFollowState
    <2>1. /\ FlagsOf(alState)
          /\ outputRun \in BOOLEAN /\ inputRun \in BOOLEAN
          /\ mbxRunning \in BOOLEAN /\ bootMode \in BOOLEAN
      BY DEF IInv, Types, Flags, RunInv, Settled
    <2> QED BY <2>1 DEF FlagsOf
  <1> QED BY <1>1, Inductive, PTL

\* Only in SAFEOP, without an error, with the outputs still stopped and the
\* timeout running, is a transition pending when AL_ControlRes looks at it.
THEOREM PendingInSafeOp == Spec => []PendingMeansSafeOp
  <1>1. IInv => PendingMeansSafeOp
    BY DEF IInv, PendingInv, RunInv, FlagsOf, Settled, PendingMeansSafeOp
  <1> QED BY <1>1, Inductive, PTL

\* A pending transition ends in OP, with an error, or by the call for SM1.
THEOREM PendingAnswered == Spec => PendingIsAnswered
  <1> DEFINE Answered == waitRes /\ ~waitRes' =>
                            \/ alReg'.state = "OP" \/ alReg'.err
                            \/ call.ret = "watchdog"
  <1>1. IInv /\ [Next]_vars => [Answered]_vars
    <2> SUFFICES ASSUME IInv, Next, waitRes, ~waitRes'
                 PROVE  alReg'.state = "OP" \/ alReg'.err \/ call.ret = "watchdog"
      OBVIOUS
    <2>0. PendingInv BY DEF IInv
    <2>1. CASE PDI_Isr \/ Environment
      BY <2>1 DEF PDI_Isr, Environment, WriteAlControl, WriteSm, ProcessData,
         WatchdogExpires, esm
    <2>2. CASE \/ MainLoop \/ ECAT_Application \/ NoTick \/ ECAT_CheckTimer \/ ReadSm1
               \/ ReadEvents \/ ReadWatchdog \/ WatchdogExpired
      BY <2>2 DEF MainLoop, ECAT_Application, NoTick, GoTo, ECAT_CheckTimer, ReadSm1,
         ReadEvents, ReadWatchdog, WatchdogExpired, esm
    <2>3. CASE SmChangeEvent \/ Sm1Disabled \/ CheckSync
      BY <2>3 DEF SmChangeEvent, Sm1Disabled, CheckSync, CallWhen, esm
    <2>4. CASE AL_ControlInd BY <2>4 DEF AL_ControlInd
    <2>5. CASE ServiceStep BY <2>5, ServiceEffects
    <2>6. CASE Conclude
      <3>1. pc = "services"
        BY <2>6 DEF Conclude, ConcludeInWork, ConcludeStopOutputs, ConcludeChanged,
           ConcludeUnchanged, StateChanged, Concluding
      <3> QED BY <2>0, <3>1 DEF PendingInv
    <2>7. CASE AL_ControlRes BY <2>7 DEF AL_ControlRes
    <2>8. CASE FinishPending BY <2>8 DEF FinishPending, SetALStatus
    <2> QED BY <2>1, <2>2, <2>3, <2>4, <2>5, <2>6, <2>7, <2>8 DEF Next, MainStep
  <1> QED BY <1>1, Inductive, PTL DEF Spec, PendingIsAnswered

\* AL Status rises by one state at a time, to the state the master asked for,
\* and loses its error only with the master's consent.
THEOREM UpOnRequest == Spec => UpOnlyOnRequest
  <1> DEFINE Up == /\ Rank[alReg'.state] > Rank[alReg.state]
                         => /\ call.ret = "smcheck" /\ call.state = alReg'.state
                            /\ Rank[alReg'.state] = Rank[alReg.state] + 1
                   /\ alReg.err /\ ~alReg'.err =>
                         call.ack \/ call.state = "INIT" \/ waitRes
  <1>1. IInv /\ [Next]_vars => [Up]_vars
    <2> SUFFICES ASSUME IInv, Next PROVE Up OBVIOUS
    <2>0. /\ RegInv /\ PendingInv /\ CallInv /\ RunInv
          /\ alState \in State /\ alReg.state \in State
          /\ call.ret \in {"smcheck", "AL_ControlRes", "watchdog", "MainLoop"}
      BY DEF IInv, Types, Scalars, Records
    <2>r. \A s \in State : Rank[s] \in Int BY DEF Rank, State
    <2>u. ASSUME alReg' = alReg PROVE Up
      BY <2>0, <2>r, <2>u
    <2>1. CASE PDI_Isr \/ Environment
      BY <2>1, <2>u DEF PDI_Isr, Environment, WriteAlControl, WriteSm, ProcessData,
         WatchdogExpires, esm
    <2>2. CASE \/ MainLoop \/ ECAT_Application \/ NoTick \/ ECAT_CheckTimer \/ ReadSm1
               \/ ReadEvents \/ ReadWatchdog \/ WatchdogExpired
      BY <2>2, <2>u DEF MainLoop, ECAT_Application, NoTick, GoTo, ECAT_CheckTimer, ReadSm1,
         ReadEvents, ReadWatchdog, WatchdogExpired, esm
    <2>3. CASE SmChangeEvent \/ Sm1Disabled \/ CheckSync
      BY <2>3, <2>u DEF SmChangeEvent, Sm1Disabled, CheckSync, CallWhen, esm
    <2>4. CASE AL_ControlInd BY <2>4, <2>u DEF AL_ControlInd
    <2>5. CASE ServiceStep BY <2>5, <2>u, ServiceEffects
    <2>6. CASE ConcludeInWork \/ ConcludeStopOutputs
      BY <2>6, <2>u DEF ConcludeInWork, ConcludeStopOutputs, esm
    <2>7. CASE ConcludeChanged \/ ConcludeUnchanged
      <3>0. Concluding /\ pc = "services" /\ todo = << >> /\ Stage
        BY <2>0, <2>7 DEF ConcludeChanged, ConcludeUnchanged, StateChanged, Concluding, RunInv
      <3>1. alReg.err /\ ~alReg'.err => call.ack \/ call.state = "INIT" \/ waitRes
        BY <2>0, <3>0 DEF CallInv
      <3>2. FallingBack => alState # "OP" /\ result # "0"
        <4>1. << >> \notin Stops(FallBackList) BY StopLists, ListTypes
        <4>2. << >> # FallBackList /\ << >> # <<"FallBack">> BY DEF FallBackList
        <4> QED BY <3>0, <4>1, <4>2 DEF FallingBack, CheckResult
      <3>3. /\ alReg.state = alState \/ Rank[alReg.state] > Rank[alState]
            /\ alState = "OP" \/ result = "0" => alReg.state = alState
        BY <2>0, <3>0, <3>2 DEF RegInv
      <3>4. CASE ConcludeUnchanged \/ (ConcludeChanged /\ result # "0")
        <4>1. alReg'.state \in {alState, IF alState = "OP" THEN "SAFEOP" ELSE alState}
          BY <3>4 DEF ConcludeChanged, ConcludeUnchanged, SetALStatus
        <4>3. ~(Rank[alReg'.state] > Rank[alReg.state])
          <5>1. CASE alState = "OP"
            <6>1. alReg.state = "OP" /\ alReg'.state \in {"OP", "SAFEOP"}
              BY <3>3, <4>1, <5>1
            <6> QED BY ONLY <6>1 DEF Rank, State
          <5>2. CASE alState # "OP"
            <6>1. alReg'.state = alState BY <4>1, <5>2
            <6>2. Rank[alReg.state] \in Int /\ Rank[alState] \in Int BY <2>0, <2>r
            <6>3. Rank[alReg.state] = Rank[alState] \/ Rank[alReg.state] > Rank[alState]
              BY <3>3
            <6> QED BY ONLY <6>1, <6>2, <6>3
          <5> QED BY <5>1, <5>2
        <4> QED BY <3>1, <4>3
      <3>5. CASE ConcludeChanged /\ result = "0"
        <4>1. alReg'.state = call.state /\ call.state # alState /\ alReg.state = alState
          BY <3>3, <3>5 DEF ConcludeChanged, StateChanged, SetALStatus
        <4>2. call.state \in State
          BY <3>0, <3>5, <4>1, Outcome
        <4>3. call.ret # "smcheck" => Rank[call.state] <= Rank[alReg.state]
          BY <2>0, <3>0, <4>1 DEF CallInv
        <4>4. Rank[call.state] > Rank[alState] => Rank[call.state] = Rank[alState] + 1
          <5>1. \A x : << >> # <<x>> OBVIOUS
          <5>2. \/ alState = "INIT" /\ call.state \in {"PREOP", "BOOT"}
                \/ alState = "PREOP" /\ call.state = "SAFEOP"
                \/ alState = "BOOT" /\ call.state = "INIT"
                \/ alState = "OP" /\ call.state \in {"SAFEOP", "PREOP", "INIT"}
                \/ alState = "SAFEOP" /\ call.state \in {"PREOP", "INIT"}
                \/ alState = "PREOP" /\ call.state = "INIT"
            BY <3>0, <3>2, <3>5, <4>1, <5>1 DEF Stage, Staying, Refused, StartingMailbox,
               StoppingBoot, StartingInputs, StartingOutputs, Stopping
          <5> QED BY ONLY <5>2 DEF Rank, State
        <4> QED BY <2>r, <2>0, <3>1, <4>1, <4>2, <4>3, <4>4
      <3> QED BY <2>7, <3>4, <3>5
    <2>8. CASE AL_ControlRes BY <2>8, <2>u DEF AL_ControlRes
    <2>9. CASE FinishPending
      <3>1. CASE pc = "op" /\ SetALStatus("OP", FALSE, "0")
        <4>1. /\ alState = "SAFEOP" /\ waitRes /\ alReg.state = alState
              /\ call.state = "OP" /\ call.ret = "smcheck" /\ alReg'.state = "OP"
          BY <2>0, <3>1 DEF RunInv, RegInv, PendingInv, SetALStatus
        <4> QED BY <4>1 DEF Rank, State
      <3>2. CASE pc = "reject" /\ SetALStatus("SAFEOP", TRUE, result)
        <4>1. alState = "SAFEOP" /\ alReg.state = alState /\ alReg'.state = "SAFEOP" /\ alReg'.err
          BY <2>0, <3>2 DEF RunInv, RegInv, SetALStatus
        <4> QED BY <4>1, <2>r DEF State
      <3> QED BY <2>9, <3>1, <3>2 DEF FinishPending
    <2> QED BY <2>1, <2>2, <2>3, <2>4, <2>5, <2>6, <2>7, <2>8, <2>9 DEF Next, MainStep, Conclude
  <1> QED BY <1>1, Inductive, PTL DEF Spec, UpOnlyOnRequest

\* With a master that leaves the Sync Managers alone until it is answered, a
\* broken Sync Manager the state relies on never goes unnoticed.
THEOREM SmLoss == ASSUME Patient PROVE Spec => []SmLossDetected
  <1>1. IInv => SmLossDetected
    <2> SUFFICES ASSUME IInv, pc = "MainLoop", changedSm = {}, ~errInd
                 PROVE  /\ alState \in {"PREOP", "SAFEOP", "OP"} => badSm \cap {0, 1} = {}
                        /\ alState \in {"SAFEOP", "OP"} => badSm = {}
      BY DEF SmLossDetected
    <2>1. badSm \cap Needed(alState) = {}
      BY DEF IInv, SmInv, Settled
    <2>2. badSm \subseteq Channel
      BY EsmAssumption DEF IInv, Types, Scalars
    <2> QED BY <2>1, <2>2 DEF Needed, Channel
  <1> QED BY <1>1, Inductive, PTL

\* In free run the outputs are never left live when OP is left.
THEOREM OutputsReset == ASSUME Modes = {"freerun"} PROVE Spec => []OutputsResetOutsideOp
  <1>1. IInv => OutputsResetOutsideOp
    BY DEF IInv, OutInv, RunInv, FlagsOf, Settled, OutputsResetOutsideOp
  <1> QED BY <1>1, Inductive, PTL
=============================================================================
