-------------------------- MODULE ProcessDataProofs --------------------------
(***************************************************************************)
(* Proofs about ProcessData, for every set of DC registers and user        *)
(* settings.                                                               *)
(*                                                                         *)
(* A task is described by the names of the calls it still has to make:     *)
(* which ones it can have at all, and what the flags say while it has      *)
(* them.  The flags change in the main task only, which runs when the      *)
(* other tasks have nothing left but a command for the firmware.           *)
(***************************************************************************)
EXTENDS ProcessData, SequenceTheorems, TLAPS

CallName ==
    {"PDI_Isr", "Sync0_Isr", "Sync1_Isr", "SyncAck", "OutputsReceived", "TouchFirst",
     "TouchLast", "LockOutputs", "CopyOutputs", "CompleteOutputs", "Exchange",
     "ApplyReply", "APPL_Application", "Gather", "LockInputs", "CopyInputs",
     "CompleteInputs", "LatchDone", "ClearLatch", "Command", "AwaitAck",
     "FreeRunOutputs", "FreeRunInputs", "ECAT_Main", "SetInputRun", "ResetTx",
     "ClearFirst", "ClearOutRun"}

Call == CallName \X Nat

Names(s) == {s[i][1] : i \in 1 .. Len(s)}
N(t)     == Names(todo[t])

\* Calls of which nothing but the end of the list comes after.
LastOnly == {"PDI_Isr", "SyncAck", "Command", "AwaitAck", "ECAT_Main", "SetInputRun",
             "ClearOutRun"}

\* The last byte of a buffer, after which the list has no such call any more.
Completes == {"CompleteOutputs", "CompleteInputs"}

\* Calls of a transition for which the flags are ready.
Starts == {"SetInputRun", "ClearFirst"}

\* Calls with which something ends.
Keep == Completes \cup {"TouchLast", "ClearOutRun"}

Final(s)  == \A i \in 1 .. Len(s) : s[i][1] \in LastOnly => i = Len(s)
Front(s)  == \A i \in 1 .. Len(s) : s[i][1] \in Completes =>
                 i = 1 \/ (i = 2 /\ s[1][1] \in {"CopyOutputs", "CopyInputs"})
Paired(s) == \A i \in 1 .. Len(s) : s[i][1] = "TouchFirst" =>
                 i + 1 \in 1 .. Len(s) /\ s[i + 1][1] = "TouchLast"
ListOK(s) == s \in Seq(Call) /\ Final(s) /\ Front(s) /\ Paired(s)

-----------------------------------------------------------------------------
(* Who can have which calls.                                               *)

OutCalls   == {"FreeRunOutputs", "LockOutputs", "CopyOutputs", "CompleteOutputs",
               "Exchange", "ApplyReply"}
TouchCalls == {"TouchFirst", "TouchLast"}
InCalls    == {"FreeRunInputs", "Gather", "LockInputs", "CopyInputs", "CompleteInputs"}

SyncCalls == {"SyncAck", "APPL_Application", "LatchDone", "ClearLatch", "Command",
              "AwaitAck"} \cup (InCalls \ {"FreeRunInputs"})

May(t) == CASE t = "main"  -> OutCalls \cup InCalls
                   \cup {"APPL_Application", "ECAT_Main", "SetInputRun", "ResetTx",
                         "ClearFirst", "ClearOutRun", "Command", "AwaitAck"}
            [] t = "pdi"   -> (OutCalls \ {"FreeRunOutputs"}) \cup TouchCalls
                   \cup (SyncCalls \ {"SyncAck"})
                   \cup {"PDI_Isr", "OutputsReceived", "Sync0_Isr", "Sync1_Isr"}
            [] t = "sync0" -> SyncCalls \cup {"Sync0_Isr"}
            [] t = "sync1" -> SyncCalls \cup {"Sync1_Isr"}

\* What the flags say while a task has calls of the set A.
OutFlags(t, A) ==
    /\ t = "main" /\ A \cap OutCalls # {} => ~escInt
    /\ t = "pdi" /\ A \cap OutCalls # {} => escInt /\ outRun
    /\ t = "pdi" /\ A \cap TouchCalls # {} => escInt

InFlags(t, A) ==
    A \cap InCalls # {} =>
       /\ t = "main"  => ~ (escInt /\ outRun) /\ ~ (dcActive /\ inRun)
       /\ t = "pdi"   => inRun /\ (escInt \/ dcActive)
       /\ t = "sync0" => inRun /\ dcActive /\ sync.latch > 0
       /\ t = "sync1" => inRun /\ dcActive /\ sync.latch = 0

\* Without SYNC signals in the AL event the PDI task has nothing to do with them.
Unmapped(t, A) ==
    ~conf.mapped /\ t = "pdi" =>
       /\ A \cap {"Sync0_Isr", "Sync1_Isr", "LatchDone", "ClearLatch"} = {}
       /\ A \cap InCalls # {} => escInt /\ ~dcActive

Allowed(t, A) == A \subseteq May(t) /\ OutFlags(t, A) /\ InFlags(t, A) /\ Unmapped(t, A)

-----------------------------------------------------------------------------
(* The inductive invariant.                                                *)

Lists == todo \in [Task -> Seq(Call)] /\ \A t \in Task : ListOK(todo[t])

Where == \A t \in Task : Allowed(t, N(t))

\* The flags and the state the main task is in.
Running ==
    /\ outRun => first \/ "ClearOutRun" \in N("main")
    /\ outRun => esm = "OP" \/ "ClearOutRun" \in N("main")
    /\ inRun => esm # "PREOP"
    /\ "ClearFirst" \in N("main") => "ClearOutRun" \in N("main")
    /\ "SetInputRun" \in N("main") => esm = "SAFEOP"
    /\ esm # "PREOP" => /\ sync.inp = "DC1" => dcActive
                        /\ sync.inp \in {"SM", "SM2"} => ~dcActive
    /\ ~conf.mapped => al = {}
    /\ event \subseteq {"pdi", "sync0", "sync1"}
    /\ DOMAIN sync = {"out", "inp", "latch", "latched"}

OutBuffer ==
    /\ sm2 \in [lock : {"available", "start", "finish"}, new : BOOLEAN, event : BOOLEAN]
    /\ \A t \in Task : "CompleteOutputs" \in N(t) => sm2.lock = "start"
    /\ sm2.lock = "start" =>
          \E t \in Task : "CompleteOutputs" \in N(t) \/ "TouchLast" \in N(t)

InBuffer ==
    /\ sm3 \in {"available", "start", "finish"}
    /\ at \in [Task -> {"none", "host", "master"}]
    /\ \A t \in Task : at[t] # "none" <=> "CompleteInputs" \in N(t)
    /\ sm3 = "start" => \E t \in Task : "CompleteInputs" \in N(t)
    /\ InputsOwned

IInv == Lists /\ Where /\ Running /\ OutBuffer /\ InBuffer

-----------------------------------------------------------------------------
(* Lists of calls.                                                         *)

LEMMA NamesEmpty == Names(<< >>) = {} /\ ListOK(<< >>) /\ << >> \in Seq(Call)
  BY DEF Names, ListOK, Final, Front, Paired

LEMMA ZeroLen == \A q \in Seq(Call) : Len(q) = 0 => q = << >>
  OBVIOUS

LEMMA NamesOne ==
    ASSUME NEW x \in Call
    PROVE  <<x>> \in Seq(Call) /\ Names(<<x>>) = {x[1]}
  BY DEF Names

LEMMA NamesTwo ==
    ASSUME NEW x \in Call, NEW y \in Call
    PROVE  <<x, y>> \in Seq(Call) /\ Names(<<x, y>>) = {x[1], y[1]}
  <1>1. <<x, y>> \in Seq(Call) /\ Len(<<x, y>>) = 2 /\ <<x, y>>[1] = x /\ <<x, y>>[2] = y
    OBVIOUS
  <1>2. 1 .. 2 = {1, 2} OBVIOUS
  <1> QED BY <1>1, <1>2 DEF Names

LEMMA NamesConcat ==
    ASSUME NEW s \in Seq(Call), NEW r \in Seq(Call)
    PROVE  s \o r \in Seq(Call) /\ Names(s \o r) = Names(s) \cup Names(r)
  <1>1. s \o r \in Seq(Call) /\ Len(s \o r) = Len(s) + Len(r) /\ Len(s) \in Nat /\ Len(r) \in Nat
    OBVIOUS
  <1>2. \A i \in 1 .. Len(s) + Len(r) :
            (s \o r)[i] = IF i <= Len(s) THEN s[i] ELSE r[i - Len(s)]
    OBVIOUS
  <1>3. ASSUME NEW i \in 1 .. Len(s) PROVE i \in 1 .. Len(s) + Len(r) /\ (s \o r)[i] = s[i]
    BY <1>1, <1>2
  <1>4. ASSUME NEW i \in 1 .. Len(r)
        PROVE  i + Len(s) \in 1 .. Len(s) + Len(r) /\ (s \o r)[i + Len(s)] = r[i]
    BY <1>1, <1>2
  <1>5. Names(s \o r) \subseteq Names(s) \cup Names(r)
    BY <1>1, <1>2 DEF Names
  <1>6. Names(s) \subseteq Names(s \o r) BY <1>1, <1>3 DEF Names
  <1>7. Names(r) \subseteq Names(s \o r) BY <1>1, <1>4 DEF Names
  <1> QED BY <1>1, <1>5, <1>6, <1>7

\* What is put in front of a list keeps it in order.
LEMMA JoinOK ==
    ASSUME NEW s \in Seq(Call), NEW r \in Seq(Call), ListOK(s), ListOK(r),
           r # << >> => Names(s) \cap LastOnly = {},
           s # << >> => Names(r) \cap Completes = {}
    PROVE  ListOK(s \o r)
  <1>1. s \o r \in Seq(Call) /\ Len(s \o r) = Len(s) + Len(r) /\ Len(s) \in Nat /\ Len(r) \in Nat
    OBVIOUS
  <1>2. \A i \in 1 .. Len(s) + Len(r) :
            (s \o r)[i] = IF i <= Len(s) THEN s[i] ELSE r[i - Len(s)]
    OBVIOUS
  <1>3. r # << >> \/ Len(r) = 0 OBVIOUS
  <1>4. s # << >> \/ Len(s) = 0 OBVIOUS
  <1>5. Final(s \o r)
    <2> SUFFICES ASSUME NEW i \in 1 .. Len(s) + Len(r), (s \o r)[i][1] \in LastOnly
                 PROVE  i = Len(s) + Len(r)
      BY <1>1 DEF Final
    <2>1. CASE i <= Len(s)
      <3>1. i \in 1 .. Len(s) /\ s[i][1] \in LastOnly BY <1>1, <1>2, <2>1
      <3>2. i = Len(s) BY <3>1 DEF ListOK, Final
      <3>3. r = << >> BY <3>1 DEF Names
      <3> QED BY <1>1, <3>2, <3>3
    <2>2. CASE ~ (i <= Len(s))
      <3>1. i - Len(s) \in 1 .. Len(r) /\ r[i - Len(s)][1] \in LastOnly
        BY <1>1, <1>2, <2>2
      <3>2. i - Len(s) = Len(r) BY <3>1 DEF ListOK, Final
      <3> QED BY <1>1, <3>2
    <2> QED BY <2>1, <2>2
  <1>6. Front(s \o r)
    <2> SUFFICES ASSUME NEW i \in 1 .. Len(s) + Len(r), (s \o r)[i][1] \in Completes
                 PROVE  i = 1 \/ (i = 2 /\ (s \o r)[1][1] \in {"CopyOutputs", "CopyInputs"})
      BY <1>1 DEF Front
    <2>1. CASE i <= Len(s)
      <3>1. i \in 1 .. Len(s) /\ 1 \in 1 .. Len(s) + Len(r) /\ 1 <= Len(s)
              /\ s[i][1] \in Completes
        BY <1>1, <1>2, <2>1
      <3>2. (s \o r)[1] = s[1] BY <1>2, <3>1
      <3> QED BY <3>1, <3>2 DEF ListOK, Front
    <2>2. CASE ~ (i <= Len(s))
      <3>1. i - Len(s) \in 1 .. Len(r) /\ r[i - Len(s)][1] \in Completes
        BY <1>1, <1>2, <2>2
      <3>2. Len(s) = 0 BY <1>4, <3>1 DEF Names
      <3>3. i \in 1 .. Len(r) /\ r[i][1] \in Completes /\ 1 \in 1 .. Len(s) + Len(r)
        BY <1>1, <3>1, <3>2
      <3>4. (s \o r)[1] = r[1] BY <1>1, <1>2, <3>2, <3>3
      <3> QED BY <3>3, <3>4 DEF ListOK, Front
    <2> QED BY <2>1, <2>2
  <1>7. Paired(s \o r)
    <2> SUFFICES ASSUME NEW i \in 1 .. Len(s) + Len(r), (s \o r)[i][1] = "TouchFirst"
                 PROVE  i + 1 \in 1 .. Len(s) + Len(r) /\ (s \o r)[i + 1][1] = "TouchLast"
      BY <1>1 DEF Paired
    <2>1. CASE i <= Len(s)
      <3>1. i \in 1 .. Len(s) /\ s[i][1] = "TouchFirst" BY <1>1, <1>2, <2>1
      <3>2. i + 1 \in 1 .. Len(s) /\ s[i + 1][1] = "TouchLast"
        BY <3>1 DEF ListOK, Paired
      <3> QED BY <1>1, <1>2, <3>2
    <2>2. CASE ~ (i <= Len(s))
      <3>1. i - Len(s) \in 1 .. Len(r) /\ r[i - Len(s)][1] = "TouchFirst"
        BY <1>1, <1>2, <2>2
      <3>2. (i - Len(s)) + 1 \in 1 .. Len(r) /\ r[(i - Len(s)) + 1][1] = "TouchLast"
        BY <3>1 DEF ListOK, Paired
      <3>3. (i - Len(s)) + 1 = (i + 1) - Len(s) /\ i + 1 \in 1 .. Len(s) + Len(r)
              /\ ~ (i + 1 <= Len(s))
        BY <1>1, <2>2, <3>2
      <3> QED BY <1>2, <3>2, <3>3
    <2> QED BY <2>1, <2>2
  <1> QED BY <1>1, <1>5, <1>6, <1>7 DEF ListOK

\* What is left of a list when its first call is made.
LEMMA TailOK ==
    ASSUME NEW s \in Seq(Call), s # << >>, ListOK(s)
    PROVE  /\ Tail(s) \in Seq(Call) /\ ListOK(Tail(s))
           /\ Names(Tail(s)) \subseteq Names(s)
           /\ Names(s) \subseteq {Head(s)[1]} \cup Names(Tail(s))
           /\ Head(s)[1] \in Names(s)
           /\ Head(s)[1] \in LastOnly => Tail(s) = << >>
           /\ Head(s)[1] \notin {"CopyOutputs", "CopyInputs"} =>
                  Names(Tail(s)) \cap Completes = {}
           /\ Head(s)[1] = "TouchFirst" => "TouchLast" \in Names(Tail(s))
  <1>1. Len(s) \in Nat /\ Len(s) >= 1 /\ Tail(s) \in Seq(Call) /\ Len(Tail(s)) = Len(s) - 1
          /\ Head(s) = s[1]
    OBVIOUS
  <1>2. \A i \in 1 .. Len(s) - 1 : Tail(s)[i] = s[i + 1] /\ i + 1 \in 1 .. Len(s)
    BY <1>1
  <1>3. \A i \in 1 .. Len(s) : i = 1 \/ i - 1 \in 1 .. Len(s) - 1
    BY <1>1
  <1>4. Names(Tail(s)) \subseteq Names(s) BY <1>1, <1>2 DEF Names
  <1>5. Names(s) \subseteq {Head(s)[1]} \cup Names(Tail(s))
    <2> SUFFICES ASSUME NEW i \in 1 .. Len(s), i # 1
                 PROVE  s[i][1] \in Names(Tail(s))
      BY <1>1 DEF Names
    <2>1. i - 1 \in 1 .. Len(s) - 1 /\ (i - 1) + 1 = i BY <1>3
    <2>2. Tail(s)[i - 1] = s[i] BY <1>2, <2>1
    <2> QED BY <1>1, <2>1, <2>2 DEF Names
  <1>6. Head(s)[1] \in Names(s) BY <1>1 DEF Names
  <1>7. Head(s)[1] \in LastOnly => Tail(s) = << >>
    <2> SUFFICES ASSUME Head(s)[1] \in LastOnly PROVE Tail(s) = << >> OBVIOUS
    <2>1. \A i \in 1 .. Len(s) : s[i][1] \in LastOnly => i = Len(s) BY DEF ListOK, Final
    <2>2. 1 \in 1 .. Len(s) /\ s[1][1] \in LastOnly BY <1>1
    <2>3. 1 = Len(s) BY <2>1, <2>2
    <2>4. Len(Tail(s)) = 0 /\ Tail(s) \in Seq(Call)
      <3>1. Len(Tail(s)) = Len(s) - 1 /\ Tail(s) \in Seq(Call) BY <1>1
      <3> QED BY ONLY <2>3, <3>1
    <2> QED BY <2>4, ZeroLen
  <1>8. Final(Tail(s))
    <2> SUFFICES ASSUME NEW i \in 1 .. Len(s) - 1, Tail(s)[i][1] \in LastOnly
                 PROVE  i = Len(s) - 1
      BY <1>1 DEF Final
    <2>1. i + 1 \in 1 .. Len(s) /\ s[i + 1][1] \in LastOnly BY <1>2
    <2>2. i + 1 = Len(s) BY <2>1 DEF ListOK, Final
    <2>3. Len(s) \in Nat /\ i \in Int BY <1>1
    <2> QED BY ONLY <2>2, <2>3
  <1>9. \A i \in 1 .. Len(s) - 1 : Tail(s)[i][1] \in Completes =>
            i = 1 /\ s[1][1] \in {"CopyOutputs", "CopyInputs"}
    BY <1>1, <1>2 DEF ListOK, Front
  <1>10. Front(Tail(s)) BY <1>1, <1>9 DEF Front
  <1>11. Paired(Tail(s))
    <2> SUFFICES ASSUME NEW i \in 1 .. Len(s) - 1, Tail(s)[i][1] = "TouchFirst"
                 PROVE  i + 1 \in 1 .. Len(s) - 1 /\ Tail(s)[i + 1][1] = "TouchLast"
      BY <1>1 DEF Paired
    <2>1. i + 1 \in 1 .. Len(s) /\ s[i + 1][1] = "TouchFirst" BY <1>2
    <2>2. (i + 1) + 1 \in 1 .. Len(s) /\ s[(i + 1) + 1][1] = "TouchLast"
      BY <2>1 DEF ListOK, Paired
    <2>3. i + 1 \in 1 .. Len(s) - 1 BY <1>1, <2>2
    <2> QED BY <1>2, <2>2, <2>3
  <1>12. Head(s)[1] \notin {"CopyOutputs", "CopyInputs"} => Names(Tail(s)) \cap Completes = {}
    BY <1>1, <1>9 DEF Names
  <1>13. Head(s)[1] = "TouchFirst" => "TouchLast" \in Names(Tail(s))
    <2> SUFFICES ASSUME Head(s)[1] = "TouchFirst" PROVE "TouchLast" \in Names(Tail(s))
      OBVIOUS
    <2>1. \A i \in 1 .. Len(s) : i = 1 => 2 \in 1 .. Len(s) /\ s[2][1] = "TouchLast"
      BY <1>1 DEF ListOK, Paired
    <2>2. 2 \in 1 .. Len(s) /\ s[2][1] = "TouchLast" BY <1>1, <2>1
    <2>3. 1 \in 1 .. Len(s) - 1 /\ Tail(s)[1] = s[2] BY <1>1, <2>2
    <2> QED BY <1>1, <2>2, <2>3 DEF Names
  <1> QED BY <1>1, <1>4, <1>5, <1>6, <1>7, <1>8, <1>10, <1>11, <1>12, <1>13 DEF ListOK

-----------------------------------------------------------------------------
(* One call: a task takes the first one, n, from its list and puts the     *)
(* calls a in its place.  After this section only the names count.         *)

Takes(t, n, a) ==
    /\ todo[t] # << >> /\ Head(todo[t])[1] = n
    /\ todo' = [todo EXCEPT ![t] = a \o Tail(todo[t])]

Others(t) == \A u \in Task : u # t => N(u)' = N(u)

Effect(t, n, A) ==
    /\ Others(t)
    /\ n \in N(t)
    /\ N(t)' \subseteq A \cup N(t)
    /\ N(t) \subseteq {n} \cup N(t)'
    /\ A \subseteq N(t)'
    /\ n \in LastOnly => N(t) = {n} /\ N(t)' = A
    /\ n \notin {"CopyOutputs", "CopyInputs"} =>
          N(t) \cap Completes \subseteq {n} /\ N(t)' \cap Completes \subseteq A
    /\ n = "TouchFirst" => "TouchLast" \in N(t)'

\* The calls a may come first in a list from which n was taken.
Fits(n, a) ==
    /\ ListOK(a)
    /\ n \notin LastOnly => Names(a) \cap LastOnly = {}
    /\ n \in {"CopyOutputs", "CopyInputs"} => a = << >>

LEMMA Taken ==
    ASSUME Lists, NEW t \in Task, NEW n, NEW a \in Seq(Call), Takes(t, n, a), Fits(n, a)
    PROVE  Lists' /\ Effect(t, n, Names(a))
  <1> DEFINE s == todo[t]
             r == Tail(todo[t])
  <1>1. s \in Seq(Call) /\ ListOK(s) /\ s # << >> /\ Head(s)[1] = n
    BY DEF Lists, Takes
  <1>2. todo' = [todo EXCEPT ![t] = a \o r] /\ todo \in [Task -> Seq(Call)]
    BY DEF Takes, Lists
  <1>3. /\ r \in Seq(Call) /\ ListOK(r)
        /\ Names(r) \subseteq Names(s) /\ Names(s) \subseteq {n} \cup Names(r)
        /\ n \in Names(s)
        /\ n \in LastOnly => r = << >>
        /\ n \notin {"CopyOutputs", "CopyInputs"} => Names(r) \cap Completes = {}
        /\ n = "TouchFirst" => "TouchLast" \in Names(r)
    BY <1>1, TailOK
  <1> HIDE DEF s, r
  <1>4. ListOK(a \o r)
    <2>1. r # << >> => Names(a) \cap LastOnly = {} BY <1>3 DEF Fits
    <2>2. a # << >> => Names(r) \cap Completes = {} BY <1>3 DEF Fits
    <2>3. ListOK(a) BY DEF Fits
    <2> QED BY <1>3, <2>1, <2>2, <2>3, JoinOK
  <1>5. a \o r \in Seq(Call) /\ Names(a \o r) = Names(a) \cup Names(r)
    BY <1>3, NamesConcat
  <1>6. todo'[t] = a \o r /\ \A u \in Task : u # t => todo'[u] = todo[u]
    BY <1>2
  <1>7. N(t) = Names(s) /\ N(t)' = Names(a) \cup Names(r)
    BY <1>5, <1>6 DEF N, s
  <1>8. Lists'
    BY <1>2, <1>4, <1>5, <1>6 DEF Lists
  <1>9. n \in LastOnly => N(t) = {n} /\ N(t)' = Names(a)
    BY <1>3, <1>7, NamesEmpty
  <1>10. n \notin {"CopyOutputs", "CopyInputs"} =>
             N(t) \cap Completes \subseteq {n} /\ N(t)' \cap Completes \subseteq Names(a)
    BY <1>3, <1>7
  <1>11. Others(t) BY <1>6 DEF Others, N
  <1>12. /\ n \in N(t) /\ N(t)' \subseteq Names(a) \cup N(t)
         /\ N(t) \subseteq {n} \cup N(t)' /\ Names(a) \subseteq N(t)'
         /\ n = "TouchFirst" => "TouchLast" \in N(t)'
    BY <1>3, <1>7
  <1> QED BY <1>8, <1>9, <1>10, <1>11, <1>12 DEF Effect

\* A task that had nothing to do begins with the calls a.
LEMMA Begun ==
    ASSUME Lists, NEW t \in Task, NEW a \in Seq(Call), ListOK(a), todo[t] = << >>,
           todo' = [todo EXCEPT ![t] = a]
    PROVE  Lists' /\ Others(t) /\ N(t) = {} /\ N(t)' = Names(a)
  <1>1. todo \in [Task -> Seq(Call)] BY DEF Lists
  <1>2. todo'[t] = a /\ \A u \in Task : u # t => todo'[u] = todo[u] BY <1>1
  <1> QED BY <1>1, <1>2, NamesEmpty DEF Lists, Others, N

\* The main task runs when the others wait, and then they have no call left
\* but a command for the firmware.
LEMMA MainAlone ==
    ASSUME Lists, CanRun("main")
    PROVE  \A u \in Task : u # "main" => N(u) \subseteq {"Command", "AwaitAck"}
  <1> SUFFICES ASSUME NEW u \in Task, u # "main" PROVE N(u) \subseteq {"Command", "AwaitAck"}
    OBVIOUS
  <1>1. Waiting(u) BY DEF CanRun, Task, Priority
  <1>2. todo[u] \in Seq(Call) /\ ListOK(todo[u]) BY DEF Lists
  <1>3. CASE todo[u] = << >> BY <1>3, NamesEmpty DEF N
  <1>4. CASE todo[u] # << >>
    <2>1. Head(todo[u])[1] \in {"Command", "AwaitAck"} BY <1>1, <1>4 DEF Waiting
    <2>2. Tail(todo[u]) = << >> BY <1>2, <1>4, <2>1, TailOK DEF LastOnly
    <2>3. Names(todo[u]) \subseteq {Head(todo[u])[1]} \cup Names(Tail(todo[u]))
      BY <1>2, <1>4, TailOK
    <2> QED BY <2>1, <2>2, <2>3, NamesEmpty DEF N
  <1> QED BY <1>3, <1>4

-----------------------------------------------------------------------------
(* What a step keeps that leaves the flags alone.                          *)

SameFlags ==
    /\ UNCHANGED <<conf, escInt, dcActive, inRun, outRun>>
    /\ sync'.inp = sync.inp /\ sync'.latch = sync.latch /\ DOMAIN sync' = DOMAIN sync

Quiet ==
    /\ SameFlags
    /\ esm' = esm
    /\ first => first'
    /\ ~conf.mapped /\ al = {} => al' = {}
    /\ event' \subseteq event

LEMMA AllowedJoin ==
    ASSUME NEW t \in Task, NEW A, NEW B, NEW C, Allowed(t, A), Allowed(t, B),
           C \subseteq A \cup B
    PROVE  Allowed(t, C)
  <1>1. C \subseteq May(t) BY DEF Allowed
  <1>2. OutFlags(t, C) BY DEF Allowed, OutFlags
  <1>3. InFlags(t, C)
    <2>1. C \cap InCalls # {} => A \cap InCalls # {} \/ B \cap InCalls # {} OBVIOUS
    <2> QED BY <2>1 DEF Allowed, InFlags
  <1>4. Unmapped(t, C) BY DEF Allowed, Unmapped
  <1> QED BY <1>1, <1>2, <1>3, <1>4 DEF Allowed

LEMMA AllowedNext ==
    ASSUME SameFlags, NEW t \in Task, NEW A, Allowed(t, A), N(t)' = A
    PROVE  Allowed(t, N(t))'
  <1>1. OutFlags(t, A) /\ InFlags(t, A) /\ Unmapped(t, A) /\ A \subseteq May(t)
    BY DEF Allowed
  <1>2. OutFlags(t, N(t))' BY <1>1 DEF OutFlags, SameFlags
  <1>3. InFlags(t, N(t))' BY <1>1 DEF InFlags, SameFlags
  <1>4. Unmapped(t, N(t))' BY <1>1 DEF Unmapped, SameFlags
  <1>5. (N(t) \subseteq May(t))' BY <1>1 DEF May
  <1> QED BY <1>2, <1>3, <1>4, <1>5 DEF Allowed

LEMMA SameFlagsWhere ==
    ASSUME Where, SameFlags, NEW t \in Task, NEW A, Others(t), N(t)' \subseteq A \cup N(t),
           Allowed(t, A)
    PROVE  Where'
  <1> SUFFICES ASSUME NEW u \in Task PROVE Allowed(u, N(u))'
    BY DEF Where
  <1>1. CASE u = t
    <2>1. Allowed(t, N(t)) BY DEF Where
    <2>2. Allowed(t, N(t)') BY <2>1, AllowedJoin
    <2> QED BY <1>1, <2>2, AllowedNext
  <1>2. CASE u # t
    <2>1. N(u)' = N(u) /\ Allowed(u, N(u)) BY <1>2 DEF Where, Others
    <2> QED BY <2>1, AllowedNext
  <1> QED BY <1>1, <1>2

LEMMA QuietRunning ==
    ASSUME Running, Quiet,
           "ClearOutRun" \in N("main") => "ClearOutRun" \in N("main")',
           \A c \in Starts : c \in N("main")' => c \in N("main")
    PROVE  Running'
  BY DEF Running, Quiet, SameFlags, Starts

LEMMA QuietStep ==
    ASSUME Where, Running, Quiet, NEW t \in Task, NEW n, NEW A, Effect(t, n, A),
           Allowed(t, A), n # "ClearOutRun", A \cap Starts = {}
    PROVE  Where' /\ Running'
  <1>1. Others(t) /\ N(t)' \subseteq A \cup N(t) /\ N(t) \subseteq {n} \cup N(t)'
    BY DEF Effect
  <1>2. Where' BY <1>1, SameFlagsWhere DEF Quiet
  <1>3. "ClearOutRun" \in N("main") => "ClearOutRun" \in N("main")'
    <2>1. CASE t = "main" BY <1>1, <2>1
    <2>2. CASE t # "main" BY <1>1, <2>2 DEF Others, Task
    <2> QED BY <2>1, <2>2
  <1>4. \A c \in Starts : c \in N("main")' => c \in N("main")
    <2>1. CASE t = "main" BY <1>1, <2>1
    <2>2. CASE t # "main" BY <1>1, <2>2 DEF Others, Task
    <2> QED BY <2>1, <2>2
  <1> QED BY <1>2, <1>3, <1>4, QuietRunning

\* Neither buffer is touched by a step that does not end an access to it.
LEMMA OutSame ==
    ASSUME OutBuffer, NEW t \in Task, Others(t), sm2'.lock = sm2.lock,
           sm2' \in [lock : {"available", "start", "finish"}, new : BOOLEAN, event : BOOLEAN],
           "CompleteOutputs" \in N(t)' => "CompleteOutputs" \in N(t),
           "CompleteOutputs" \in N(t) => "CompleteOutputs" \in N(t)',
           "TouchLast" \in N(t) => "TouchLast" \in N(t)'
    PROVE  OutBuffer'
  <1>1. \A u \in Task : /\ "CompleteOutputs" \in N(u)' <=> "CompleteOutputs" \in N(u)
                        /\ "TouchLast" \in N(u) => "TouchLast" \in N(u)'
    BY DEF Others
  <1> QED BY <1>1 DEF OutBuffer

LEMMA InSame ==
    ASSUME InBuffer, NEW t \in Task, Others(t), UNCHANGED <<conf, sm3, at>>,
           "CompleteInputs" \in N(t)' <=> "CompleteInputs" \in N(t),
           \/ UNCHANGED <<escInt, dcActive>>
           \/ "CompleteInputs" \notin N("main")
    PROVE  InBuffer'
  <1>1. \A u \in Task : "CompleteInputs" \in N(u)' <=> "CompleteInputs" \in N(u)
    BY DEF Others
  <1>2. InputsOwned'
    BY DEF InBuffer, InputsOwned, Task
  <1> QED BY <1>1, <1>2 DEF InBuffer

LEMMA BuffersSame ==
    ASSUME OutBuffer, InBuffer, NEW t \in Task, NEW n, NEW A, Effect(t, n, A),
           n \notin Completes \cup {"TouchLast"}, A \cap Completes = {},
           UNCHANGED <<conf, sm2, sm3, at>>,
           UNCHANGED <<escInt, dcActive>> \/ (t = "main" /\ n \in LastOnly)
    PROVE  OutBuffer' /\ InBuffer'
  <1>1. \A c \in Completes \cup {"TouchLast"} : c \in N(t) => c \in N(t)'
    BY DEF Effect
  <1>2. \A c \in Completes : c \in N(t)' => c \in N(t)
    BY DEF Effect
  <1>3. OutBuffer'
    BY <1>1, <1>2, OutSame DEF Effect, Completes, OutBuffer
  <1>4. "CompleteInputs" \in N(t)' <=> "CompleteInputs" \in N(t)
    BY <1>1, <1>2 DEF Completes
  <1>5. t = "main" /\ n \in LastOnly => "CompleteInputs" \notin N("main")
    BY DEF Effect, LastOnly
  <1>6. InBuffer' BY <1>4, <1>5, InSame DEF Effect
  <1> QED BY <1>3, <1>6

\* Most steps: the flags stay, and so do the buffers.
LEMMA QuietIInv ==
    ASSUME IInv, Quiet, UNCHANGED <<sm2, sm3, at>>,
           NEW t \in Task, NEW n, NEW a \in Seq(Call), Takes(t, n, a), Fits(n, a),
           Allowed(t, Names(a)), n \notin Keep,
           Names(a) \cap (Completes \cup Starts) = {}
    PROVE  IInv'
  <1>1. Lists' /\ Effect(t, n, Names(a)) BY Taken DEF IInv
  <1>2. Where' /\ Running' BY <1>1, QuietStep DEF IInv, Keep
  <1>3. OutBuffer' /\ InBuffer'
    BY <1>1, BuffersSame DEF IInv, Keep, Quiet, SameFlags
  <1> QED BY <1>1, <1>2, <1>3 DEF IInv

-----------------------------------------------------------------------------
(* The lists of calls in the model and the names in them.                  *)

Is(s, A) == s \in Seq(Call) /\ ListOK(s) /\ Names(s) = A

LEMMA IsEmpty == Is(<< >>, {})
  BY NamesEmpty DEF Is

LEMMA IsOne ==
    ASSUME NEW x \in Call, NEW c, x[1] = c, c # "TouchFirst"
    PROVE  Is(<<x>>, {c})
  BY NamesOne DEF Is, ListOK, Final, Front, Paired

LEMMA IsTwo ==
    ASSUME NEW x \in Call, NEW y \in Call, NEW c, NEW d, x[1] = c, y[1] = d,
           c \notin LastOnly, d # "TouchFirst", c = "TouchFirst" => d = "TouchLast",
           d \in Completes => c \in {"CopyOutputs", "CopyInputs"}
    PROVE  Is(<<x, y>>, {c, d})
  <1> DEFINE s == <<x, y>>
  <1>1. s \in Seq(Call) /\ Len(s) = 2 /\ s[1] = x /\ s[2] = y OBVIOUS
  <1>2. \A i \in 1 .. 2 : i = 1 \/ i = 2 OBVIOUS
  <1>3. Names(s) = {c, d} BY NamesTwo
  <1> HIDE DEF s
  <1>4. Final(s) BY <1>1, <1>2 DEF Final
  <1>5. Front(s) BY <1>1, <1>2 DEF Front
  <1>6. Paired(s)
    <2> SUFFICES ASSUME NEW i \in 1 .. 2, s[i][1] = "TouchFirst"
                 PROVE  i + 1 \in 1 .. 2 /\ s[i + 1][1] = "TouchLast"
      BY <1>1 DEF Paired
    <2>1. i = 1 BY <1>1, <1>2
    <2>2. i + 1 = 2 BY <2>1
    <2> QED BY <1>1, <2>1, <2>2
  <1> QED BY <1>1, <1>3, <1>4, <1>5, <1>6 DEF Is, ListOK, s

LEMMA IsJoin ==
    ASSUME NEW s, NEW r, NEW A, NEW B, Is(s, A), Is(r, B), A \cap LastOnly = {},
           B \cap Completes = {}
    PROVE  Is(s \o r, A \cup B)
  BY JoinOK, NamesConcat DEF Is

LEMMA IsWhen ==
    ASSUME NEW s, NEW A, NEW c \in BOOLEAN, Is(s, A)
    PROVE  /\ Is(When(c, s), IF c THEN A ELSE {})
           /\ c => Is(When(c, s), A)
           /\ ~c => Is(When(c, s), {})
  BY IsEmpty DEF When

LEMMA OpName == \A c \in CallName : Op(c) \in Call /\ Op(c)[1] = c
  BY DEF Op, Call

\* What the members of the lists are called.
LEMMA OutputLists ==
    /\ Is(PDO_OutputMapping, {"LockOutputs"})
    /\ Is(HW_EscReadIsr, {"CopyOutputs", "CompleteOutputs"})
    /\ Is(TouchOutputs, {"TouchFirst", "TouchLast"})
    /\ Is(APPL_OutputMapping, {"Exchange"})
    /\ Is(fsoe_od_apply_tx_wire, {"ApplyReply"})
    /\ Is(PDO_ResetOutputs, {"ResetTx"})
    /\ Is(ECAT_Application, {"APPL_Application"})
  <1>1. Is(PDO_OutputMapping, {"LockOutputs"})
    <2> DEFINE x == Op("LockOutputs")
    <2>1. x \in Call /\ x[1] = "LockOutputs" BY OpName DEF CallName
    <2> HIDE DEF x
    <2>2. Is(<<x>>, {"LockOutputs"}) BY <2>1, IsOne
    <2> QED BY <2>2 DEF PDO_OutputMapping, x
  <1>2. Is(HW_EscReadIsr, {"CopyOutputs", "CompleteOutputs"})
    <2> DEFINE x == Op("CopyOutputs")
               y == Op("CompleteOutputs")
    <2>1. x \in Call /\ x[1] = "CopyOutputs" /\ y \in Call /\ y[1] = "CompleteOutputs"
      BY DEF Op, Call, CallName
    <2> HIDE DEF x, y
    <2>2. Is(<<x, y>>, {"CopyOutputs", "CompleteOutputs"})
      BY <2>1, IsTwo DEF LastOnly, Completes
    <2> QED BY <2>2 DEF HW_EscReadIsr, x, y
  <1>3. Is(TouchOutputs, {"TouchFirst", "TouchLast"})
    <2> DEFINE x == Op("TouchFirst")
               y == Op("TouchLast")
    <2>1. x \in Call /\ x[1] = "TouchFirst" /\ y \in Call /\ y[1] = "TouchLast"
      BY DEF Op, Call, CallName
    <2> HIDE DEF x, y
    <2>2. Is(<<x, y>>, {"TouchFirst", "TouchLast"})
      BY <2>1, IsTwo DEF LastOnly, Completes
    <2> QED BY <2>2 DEF TouchOutputs, x, y
  <1>4. Is(APPL_OutputMapping, {"Exchange"})
    <2> DEFINE x == Op("Exchange")
    <2>1. x \in Call /\ x[1] = "Exchange" BY OpName DEF CallName
    <2> HIDE DEF x
    <2>2. Is(<<x>>, {"Exchange"}) BY <2>1, IsOne
    <2> QED BY <2>2 DEF APPL_OutputMapping, x
  <1>5. Is(fsoe_od_apply_tx_wire, {"ApplyReply"})
    <2> DEFINE x == <<"ApplyReply", 1>>
               y == <<"ApplyReply", 2>>
    <2>1. x \in Call /\ x[1] = "ApplyReply" /\ y \in Call /\ y[1] = "ApplyReply"
      BY DEF Call, CallName
    <2> HIDE DEF x, y
    <2>2. Is(<<x, y>>, {"ApplyReply", "ApplyReply"})
      BY <2>1, IsTwo DEF LastOnly, Completes
    <2>3. {"ApplyReply", "ApplyReply"} = {"ApplyReply"} OBVIOUS
    <2>4. Is(<<x, y>>, {"ApplyReply"}) BY ONLY <2>2, <2>3
    <2> QED BY <2>4 DEF fsoe_od_apply_tx_wire, x, y
  <1>6. Is(PDO_ResetOutputs, {"ResetTx"})
    <2> DEFINE x == <<"ResetTx", 1>>
               y == <<"ResetTx", 2>>
    <2>1. x \in Call /\ x[1] = "ResetTx" /\ y \in Call /\ y[1] = "ResetTx"
      BY DEF Call, CallName
    <2> HIDE DEF x, y
    <2>2. Is(<<x, y>>, {"ResetTx", "ResetTx"})
      BY <2>1, IsTwo DEF LastOnly, Completes
    <2>3. {"ResetTx", "ResetTx"} = {"ResetTx"} OBVIOUS
    <2>4. Is(<<x, y>>, {"ResetTx"}) BY ONLY <2>2, <2>3
    <2> QED BY <2>4 DEF PDO_ResetOutputs, x, y
  <1>7. Is(ECAT_Application, {"APPL_Application"})
    <2> DEFINE x == <<"APPL_Application", 1>>
               y == <<"APPL_Application", 2>>
    <2>1. x \in Call /\ x[1] = "APPL_Application" /\ y \in Call /\ y[1] = "APPL_Application"
      BY DEF Call, CallName
    <2> HIDE DEF x, y
    <2>2. Is(<<x, y>>, {"APPL_Application", "APPL_Application"})
      BY <2>1, IsTwo DEF LastOnly, Completes
    <2>3. {"APPL_Application", "APPL_Application"} = {"APPL_Application"} OBVIOUS
    <2>4. Is(<<x, y>>, {"APPL_Application"}) BY ONLY <2>2, <2>3
    <2> QED BY <2>4 DEF ECAT_Application, x, y
  <1> QED BY ONLY <1>1, <1>2, <1>3, <1>4, <1>5, <1>6, <1>7

LEMMA InputLists ==
    /\ Is(APPL_InputMapping, {"Gather"})
    /\ Is(PDO_InputMapping, {"Gather", "LockInputs"})
    /\ Is(HW_EscWriteIsr, {"CopyInputs", "CompleteInputs"})
  <1>1. Is(APPL_InputMapping, {"Gather"})
    <2> DEFINE x == <<"Gather", 1>>
               y == <<"Gather", 2>>
    <2>1. x \in Call /\ x[1] = "Gather" /\ y \in Call /\ y[1] = "Gather"
      BY DEF Call, CallName
    <2> HIDE DEF x, y
    <2>2. Is(<<x, y>>, {"Gather", "Gather"})
      BY <2>1, IsTwo DEF LastOnly, Completes
    <2>3. {"Gather", "Gather"} = {"Gather"} OBVIOUS
    <2>4. Is(<<x, y>>, {"Gather"}) BY ONLY <2>2, <2>3
    <2> QED BY <2>4 DEF APPL_InputMapping, x, y
  <1>2. Is(<< Op("LockInputs") >>, {"LockInputs"})
    <2> DEFINE x == Op("LockInputs")
    <2>1. x \in Call /\ x[1] = "LockInputs" BY OpName DEF CallName
    <2> HIDE DEF x
    <2>2. Is(<<x>>, {"LockInputs"}) BY <2>1, IsOne
    <2> QED BY <2>2 DEF x
  <1>3. Is(PDO_InputMapping, {"Gather", "LockInputs"})
    <2> DEFINE r == << Op("LockInputs") >>
    <2>1. Is(r, {"LockInputs"}) BY <1>2
    <2> HIDE DEF r
    <2>2. Is(APPL_InputMapping \o r, {"Gather"} \cup {"LockInputs"})
      BY <1>1, <2>1, IsJoin DEF LastOnly, Completes
    <2>3. {"Gather"} \cup {"LockInputs"} = {"Gather", "LockInputs"} OBVIOUS
    <2>4. Is(APPL_InputMapping \o r, {"Gather", "LockInputs"}) BY ONLY <2>2, <2>3
    <2> QED BY <2>4 DEF PDO_InputMapping, r
  <1>4. Is(HW_EscWriteIsr, {"CopyInputs", "CompleteInputs"})
    <2> DEFINE x == Op("CopyInputs")
               y == Op("CompleteInputs")
    <2>1. x \in Call /\ x[1] = "CopyInputs" /\ y \in Call /\ y[1] = "CompleteInputs"
      BY DEF Op, Call, CallName
    <2> HIDE DEF x, y
    <2>2. Is(<<x, y>>, {"CopyInputs", "CompleteInputs"})
      BY <2>1, IsTwo DEF LastOnly, Completes
    <2> QED BY <2>2 DEF HW_EscWriteIsr, x, y
  <1> QED BY ONLY <1>1, <1>3, <1>4

-----------------------------------------------------------------------------
(* The mapping functions.                                                  *)

LEMMA CallTaken ==
    ASSUME NEW t, NEW op, NEW n, NEW a, Calls(t, op), Goes(t, a), op[1] = n
    PROVE  Takes(t, n, a) /\ CanRun(t)
  BY DEF Calls, Goes, Takes

\* What is allowed for the call a task makes is what the flags say now.
LEMMA AllowedHead ==
    ASSUME Lists, Where, NEW t \in Task, NEW n, NEW a, Takes(t, n, a)
    PROVE  n \in N(t) /\ Allowed(t, {n})
  <1>1. n \in N(t) BY TailOK DEF Lists, Takes, N
  <1>2. Allowed(t, N(t)) /\ {n} \subseteq N(t) \cup N(t) BY <1>1 DEF Where
  <1> QED BY <1>1, <1>2, AllowedJoin

LEMMA AllowedEmpty == \A t \in Task : Allowed(t, {})
  BY DEF Allowed, OutFlags, InFlags, Unmapped

\* A step that only takes a call off the list.
LEMMA PopIInv ==
    ASSUME IInv, Quiet, UNCHANGED <<sm2, sm3, at>>,
           NEW t \in Task, NEW n, Takes(t, n, << >>), n \notin Keep
    PROVE  IInv'
  <1>1. << >> \in Seq(Call) /\ Names(<< >>) = {} /\ ListOK(<< >>) BY NamesEmpty
  <1>2. Fits(n, << >>) BY <1>1 DEF Fits
  <1>3. Allowed(t, Names(<< >>)) BY <1>1, AllowedEmpty
  <1>4. Names(<< >>) \cap (Completes \cup Starts) = {} BY <1>1
  <1> QED BY <1>1, <1>2, <1>3, <1>4, QuietIInv

LEMMA StaysQuiet ==
    ASSUME UNCHANGED <<conf, esm, flags, sync, al, event>>
    PROVE  Quiet
  BY DEF Quiet, SameFlags, flags

CopyCalls == {"CopyOutputs", "ApplyReply", "APPL_Application", "Gather", "CopyInputs",
              "ResetTx"}

LEMMA CopyNames ==
    \A o \in Range(HW_EscReadIsr \o fsoe_od_apply_tx_wire \o ECAT_Application
                      \o APPL_InputMapping \o HW_EscWriteIsr \o PDO_ResetOutputs)
                \ {Op("CompleteOutputs"), Op("CompleteInputs")} : o[1] \in CopyCalls
  <1> DEFINE E == {Op("CompleteOutputs"), Op("CompleteInputs")}
             C == {x \in Call : x[1] \in CopyCalls}
             D == E \cup C
  <1>1. HW_EscReadIsr \in Seq(D)
    <2> DEFINE x == Op("CopyOutputs")
               y == Op("CompleteOutputs")
    <2>1. x \in D BY DEF Op, Call, CallName, CopyCalls
    <2>2. y \in D OBVIOUS
    <2> HIDE DEF x, y, D
    <2>3. <<x, y>> \in Seq(D) BY <2>1, <2>2
    <2> QED BY <2>3 DEF HW_EscReadIsr, x, y
  <1>2. HW_EscWriteIsr \in Seq(D)
    <2> DEFINE x == Op("CopyInputs")
               y == Op("CompleteInputs")
    <2>1. x \in D BY DEF Op, Call, CallName, CopyCalls
    <2>2. y \in D OBVIOUS
    <2> HIDE DEF x, y, D
    <2>3. <<x, y>> \in Seq(D) BY <2>1, <2>2
    <2> QED BY <2>3 DEF HW_EscWriteIsr, x, y
  <1>3. fsoe_od_apply_tx_wire \in Seq(D)
    <2> DEFINE x == <<"ApplyReply", 1>>
               y == <<"ApplyReply", 2>>
    <2>1. x \in D /\ y \in D BY DEF Call, CallName, CopyCalls
    <2> HIDE DEF x, y, D
    <2>2. <<x, y>> \in Seq(D) BY <2>1
    <2> QED BY <2>2 DEF fsoe_od_apply_tx_wire, x, y
  <1>4. ECAT_Application \in Seq(D)
    <2> DEFINE x == <<"APPL_Application", 1>>
               y == <<"APPL_Application", 2>>
    <2>1. x \in D /\ y \in D BY DEF Call, CallName, CopyCalls
    <2> HIDE DEF x, y, D
    <2>2. <<x, y>> \in Seq(D) BY <2>1
    <2> QED BY <2>2 DEF ECAT_Application, x, y
  <1>5. APPL_InputMapping \in Seq(D)
    <2> DEFINE x == <<"Gather", 1>>
               y == <<"Gather", 2>>
    <2>1. x \in D /\ y \in D BY DEF Call, CallName, CopyCalls
    <2> HIDE DEF x, y, D
    <2>2. <<x, y>> \in Seq(D) BY <2>1
    <2> QED BY <2>2 DEF APPL_InputMapping, x, y
  <1>6. PDO_ResetOutputs \in Seq(D)
    <2> DEFINE x == <<"ResetTx", 1>>
               y == <<"ResetTx", 2>>
    <2>1. x \in D /\ y \in D BY DEF Call, CallName, CopyCalls
    <2> HIDE DEF x, y, D
    <2>2. <<x, y>> \in Seq(D) BY <2>1
    <2> QED BY <2>2 DEF PDO_ResetOutputs, x, y
  <1> DEFINE L == HW_EscReadIsr \o fsoe_od_apply_tx_wire \o ECAT_Application
                    \o APPL_InputMapping \o HW_EscWriteIsr \o PDO_ResetOutputs
  <1>7. L \in Seq(D)
    <2> HIDE DEF D
    <2> QED BY <1>1, <1>2, <1>3, <1>4, <1>5, <1>6
  <1>8. Range(L) \subseteq D
    <2> HIDE DEF D, L
    <2> QED BY <1>7 DEF Range
  <1>9. \A o \in D \ E : o[1] \in CopyCalls
    <2> HIDE DEF E
    <2> QED OBVIOUS
  <1> HIDE DEF D, L, E
  <1>10. \A o \in Range(L) \ E : o[1] \in CopyCalls BY <1>8, <1>9
  <1> QED BY <1>10 DEF L, E

LEMMA CopiesStep == ASSUME IInv, NEW t \in Task, Copies(t) PROVE IInv'
  <1>1. PICK n \in CopyCalls : Takes(t, n, << >>)
    <2>1. PICK o \in Range(HW_EscReadIsr \o fsoe_od_apply_tx_wire \o ECAT_Application
                              \o APPL_InputMapping \o HW_EscWriteIsr \o PDO_ResetOutputs)
                        \ {Op("CompleteOutputs"), Op("CompleteInputs")} : Calls(t, o)
      BY DEF Copies
    <2>2. o[1] \in CopyCalls BY CopyNames
    <2>3. Goes(t, << >>) BY DEF Copies
    <2> QED BY <2>1, <2>2, <2>3, CallTaken
  <1>2. Quiet /\ UNCHANGED <<sm2, sm3, at>> BY StaysQuiet DEF Copies, esc
  <1> QED BY <1>1, <1>2, PopIInv DEF Keep, Completes, CopyCalls

LEMMA ExchangeStep == ASSUME IInv, NEW t \in Task, Exchange(t) PROVE IInv'
  <1>1. Quiet /\ UNCHANGED <<sm2, sm3, at>> BY StaysQuiet DEF Exchange, esc
  <1>2. PICK a \in {fsoe_od_apply_tx_wire, << >>} : Goes(t, a) BY DEF Exchange
  <1>3. Op("Exchange")[1] = "Exchange" BY OpName DEF CallName
  <1>4. Takes(t, "Exchange", a) BY <1>2, <1>3, CallTaken DEF Exchange
  <1>5. CASE a = << >> BY <1>1, <1>4, <1>5, PopIInv DEF Keep, Completes, Starts
  <1>6. CASE a = fsoe_od_apply_tx_wire
    <2>1. a \in Seq(Call) /\ ListOK(a) /\ Names(a) = {"ApplyReply"}
      BY <1>6, OutputLists DEF Is
    <2>2. Fits("Exchange", a) BY <2>1 DEF Fits, LastOnly
    <2>3. Allowed(t, {"Exchange"}) BY <1>4, AllowedHead DEF IInv
    <2>4. Allowed(t, {"ApplyReply"})
      BY <2>3 DEF Allowed, May, OutFlags, InFlags, Unmapped, OutCalls, InCalls, TouchCalls,
                  SyncCalls, Task
    <2>5. "Exchange" \notin Keep /\ {"ApplyReply"} \cap (Completes \cup Starts) = {}
      BY DEF Keep, Completes, Starts
    <2> QED BY <1>1, <1>4, <2>1, <2>2, <2>4, <2>5, QuietIInv
  <1> QED BY <1>2, <1>5, <1>6

LEMMA MapStep ==
    ASSUME IInv, Quiet,
           NEW t \in Task, NEW n, NEW a \in Seq(Call), Takes(t, n, a), Fits(n, a),
           Allowed(t, Names(a)), n # "ClearOutRun", Names(a) \cap Starts = {}
    PROVE  Lists' /\ Where' /\ Running' /\ Effect(t, n, Names(a))
  <1>1. Lists' /\ Effect(t, n, Names(a)) BY Taken DEF IInv
  <1>2. Where' /\ Running' BY <1>1, QuietStep DEF IInv
  <1> QED BY <1>1, <1>2

\* One task at a time maps outputs: the PDI task with interrupts, the main task
\* without.
LEMMA OneOutputTask ==
    ASSUME Where, NEW t \in Task, NEW u \in Task,
           N(t) \cap (OutCalls \cup TouchCalls) # {}, N(u) \cap (OutCalls \cup TouchCalls) # {}
    PROVE  t = u
  <1>1. \A v \in Task : N(v) \subseteq May(v) /\ OutFlags(v, N(v)) BY DEF Where, Allowed
  <1>2. \A v \in {"sync0", "sync1"} : May(v) \cap (OutCalls \cup TouchCalls) = {}
    BY DEF May, OutCalls, TouchCalls, SyncCalls, InCalls
  <1>3. May("main") \cap TouchCalls = {}
    BY DEF May, OutCalls, TouchCalls, InCalls
  <1>4. t \in {"main", "pdi"} /\ u \in {"main", "pdi"} BY <1>1, <1>2 DEF Task
  <1>5. \A v \in Task : v = "main" /\ N(v) \cap (OutCalls \cup TouchCalls) # {} => ~escInt
    BY <1>1, <1>3 DEF OutFlags
  <1>6. \A v \in Task : v = "pdi" /\ N(v) \cap (OutCalls \cup TouchCalls) # {} => escInt
    BY <1>1 DEF OutFlags
  <1> QED BY <1>4, <1>5, <1>6

LEMMA LockOutputsStep == ASSUME IInv, NEW t \in Task, LockOutputs(t) PROVE IInv'
  <1>1. Quiet /\ UNCHANGED <<conf, escInt, dcActive, sm3, at>>
    BY StaysQuiet DEF LockOutputs, flags
  <1>2. Op("LockOutputs")[1] = "LockOutputs" BY OpName DEF CallName
  <1> DEFINE A == {"CopyOutputs", "CompleteOutputs"}
             B == {"Exchange"}
             a == HW_EscReadIsr \o APPL_OutputMapping
  <1>3. Is(a, A \cup B) BY OutputLists, IsJoin DEF LastOnly, Completes
  <1>4. Is(APPL_OutputMapping, B) BY OutputLists
  <1> HIDE DEF a
  <1>5. ASSUME NEW b, Goes(t, b) PROVE Takes(t, "LockOutputs", b)
    BY <1>2, <1>5, CallTaken DEF LockOutputs
  <1>6. ASSUME NEW b, Goes(t, b) PROVE Allowed(t, A \cup B) /\ Allowed(t, B)
    <2>1. Allowed(t, {"LockOutputs"}) BY <1>5, <1>6, AllowedHead DEF IInv
    <2> QED BY <2>1 DEF Allowed, May, OutFlags, InFlags, Unmapped, OutCalls, InCalls,
                        TouchCalls, SyncCalls, Task
  <1>7. CASE sm2.lock # "finish"
    <2>1. Goes(t, a) /\ sm2' = [sm2 EXCEPT !.lock = "start"] BY <1>7 DEF LockOutputs, a
    <2>2. a \in Seq(Call) /\ ListOK(a) /\ Names(a) = A \cup B BY <1>3 DEF Is
    <2>3. Fits("LockOutputs", a) BY <2>2 DEF Fits, LastOnly
    <2>4. Lists' /\ Where' /\ Running' /\ Effect(t, "LockOutputs", A \cup B)
      BY <1>1, <1>5, <1>6, <2>1, <2>2, <2>3, MapStep DEF Starts
    <2>5. OutBuffer'
      <3>1. sm2'.lock = "start" /\ "CompleteOutputs" \in N(t)'
        BY <2>1, <2>4 DEF IInv, OutBuffer, Effect
      <3>2. sm2' \in [lock : {"available", "start", "finish"}, new : BOOLEAN, event : BOOLEAN]
        BY <2>1 DEF IInv, OutBuffer
      <3> QED BY <3>1, <3>2 DEF OutBuffer
    <2>6. "CompleteInputs" \notin N(t) /\ "CompleteInputs" \notin N(t)'
      BY <2>4 DEF Effect, Completes
    <2>7. InBuffer' BY <1>1, <2>4, <2>6, InSame DEF IInv, Effect
    <2> QED BY <2>4, <2>5, <2>7 DEF IInv
  <1>8. CASE sm2.lock = "finish"
    <2>1. Goes(t, APPL_OutputMapping) /\ UNCHANGED sm2 BY <1>8 DEF LockOutputs
    <2>2. APPL_OutputMapping \in Seq(Call) /\ ListOK(APPL_OutputMapping)
            /\ Names(APPL_OutputMapping) = B
      BY <1>4 DEF Is
    <2>3. Fits("LockOutputs", APPL_OutputMapping) BY <2>2 DEF Fits, LastOnly
    <2>4. "LockOutputs" \notin Keep /\ B \cap (Completes \cup Starts) = {}
      BY DEF Keep, Completes, Starts
    <2> QED BY <1>1, <1>5, <1>6, <2>1, <2>2, <2>3, <2>4, QuietIInv
  <1> QED BY <1>7, <1>8

LEMMA CompleteOutputsStep == ASSUME IInv, NEW t \in Task, CompleteOutputs(t) PROVE IInv'
  <1>1. Quiet /\ UNCHANGED <<conf, escInt, dcActive, sm3, at>>
    BY StaysQuiet DEF CompleteOutputs, flags
  <1>2. Op("CompleteOutputs")[1] = "CompleteOutputs" BY OpName DEF CallName
  <1>3. Takes(t, "CompleteOutputs", << >>) BY <1>2, CallTaken DEF CompleteOutputs
  <1>4. << >> \in Seq(Call) /\ Names(<< >>) = {} /\ Fits("CompleteOutputs", << >>)
    BY NamesEmpty DEF Fits
  <1>5. Allowed(t, Names(<< >>)) BY <1>4, AllowedEmpty
  <1>6. Lists' /\ Where' /\ Running' /\ Effect(t, "CompleteOutputs", {})
    BY <1>1, <1>3, <1>4, <1>5, MapStep
  <1>7. "CompleteInputs" \notin N(t) /\ N(t)' \cap Completes = {} /\ "CompleteOutputs" \in N(t)
    BY <1>6 DEF Effect, Completes
  <1>8. OutBuffer'
    <2>1. sm2.lock = "start" BY <1>7 DEF IInv, OutBuffer
    <2>2. sm2'.lock = "finish"
            /\ sm2' \in [lock : {"available", "start", "finish"}, new : BOOLEAN, event : BOOLEAN]
      BY <2>1 DEF CompleteOutputs, IInv, OutBuffer
    <2>3. ASSUME NEW u \in Task PROVE "CompleteOutputs" \notin N(u)'
      <3>1. CASE u = t BY <1>7, <3>1 DEF Completes
      <3>2. CASE u # t
        <4>1. "CompleteOutputs" \notin N(u)
          BY <1>7, <3>2, OneOutputTask DEF IInv, OutCalls
        <4> QED BY <1>6, <3>2, <4>1 DEF Effect, Others
      <3> QED BY <3>1, <3>2
    <2> QED BY <2>2, <2>3 DEF OutBuffer
  <1>9. "CompleteInputs" \notin N(t)' BY <1>7 DEF Completes
  <1>10. InBuffer' BY <1>1, <1>6, <1>7, <1>9, InSame DEF IInv, Effect
  <1> QED BY <1>6, <1>8, <1>10 DEF IInv

LEMMA TouchStep == ASSUME IInv, NEW t \in Task, TouchByte(t) PROVE IInv'
  <1>1. Quiet /\ UNCHANGED <<conf, escInt, dcActive, sm3, at>>
    BY StaysQuiet DEF TouchByte, flags
  <1>2. PICK o \in {"TouchFirst", "TouchLast"} :
           /\ Calls(t, Op(o))
           /\ sm2' = [sm2 EXCEPT !.lock = IF @ = "finish" \/ o = "TouchLast"
                                          THEN "finish" ELSE "start"]
    BY DEF TouchByte
  <1>3. Op(o)[1] = o BY OpName DEF CallName
  <1>4. Takes(t, o, << >>) BY <1>2, <1>3, CallTaken DEF TouchByte
  <1>5. << >> \in Seq(Call) /\ Names(<< >>) = {} /\ Fits(o, << >>)
    BY NamesEmpty DEF Fits
  <1>6. Allowed(t, Names(<< >>)) BY <1>5, AllowedEmpty
  <1>7. Lists' /\ Where' /\ Running' /\ Effect(t, o, {})
    BY <1>1, <1>4, <1>5, <1>6, MapStep
  <1>8. N(t) \cap Completes = {} /\ N(t)' \cap Completes = {} /\ o \in N(t)
    BY <1>7 DEF Effect, Completes
  <1>9. OutBuffer'
    <2>1. sm2'.lock = (IF sm2.lock = "finish" \/ o = "TouchLast" THEN "finish" ELSE "start")
            /\ sm2' \in [lock : {"available", "start", "finish"}, new : BOOLEAN, event : BOOLEAN]
      BY <1>2 DEF IInv, OutBuffer
    <2>2. ASSUME NEW u \in Task PROVE "CompleteOutputs" \notin N(u)'
      <3>1. CASE u = t BY <1>8, <3>1 DEF Completes
      <3>2. CASE u # t
        <4>1. "CompleteOutputs" \notin N(u)
          BY <1>8, <3>2, OneOutputTask DEF IInv, OutCalls, TouchCalls
        <4> QED BY <1>7, <3>2, <4>1 DEF Effect, Others
      <3> QED BY <3>1, <3>2
    <2>3. o = "TouchFirst" => "TouchLast" \in N(t)' BY <1>7 DEF Effect
    <2> QED BY <2>1, <2>2, <2>3 DEF OutBuffer
  <1>10. "CompleteInputs" \notin N(t) /\ "CompleteInputs" \notin N(t)' BY <1>8 DEF Completes
  <1>11. InBuffer' BY <1>1, <1>7, <1>10, InSame DEF IInv, Effect
  <1> QED BY <1>7, <1>9, <1>11 DEF IInv

-----------------------------------------------------------------------------
(* Inputs.                                                                 *)

\* Two tasks map inputs at the same time only in SM synchronous mode, and then
\* it is the PDI task that interrupts the main task.
LEMMA TwoInputTasks ==
    ASSUME Where, ~conf.mapped, NEW t \in Task, NEW u \in Task, t # u,
           N(t) \cap InCalls # {}, N(u) \cap InCalls # {}
    PROVE  escInt /\ ~dcActive /\ {t, u} = {"main", "pdi"}
  <1>1. \A v \in Task : InFlags(v, N(v)) /\ Unmapped(v, N(v)) BY DEF Where, Allowed
  <1>2. \A v \in Task : N(v) \cap InCalls # {} =>
            /\ v = "main" => ~ (dcActive /\ inRun)
            /\ v = "pdi" => escInt /\ ~dcActive
            /\ v \in {"sync0", "sync1"} => inRun /\ dcActive
            /\ v = "sync0" => sync.latch > 0
            /\ v = "sync1" => sync.latch = 0
    BY <1>1 DEF InFlags, Unmapped
  <1>3. ~ (sync.latch > 0 /\ sync.latch = 0) OBVIOUS
  <1>4. t \in {"main", "pdi"} /\ u \in {"main", "pdi"} BY <1>2, <1>3 DEF Task
  <1> QED BY <1>2, <1>4

LEMMA OthersOutOfInputs ==
    ASSUME Lists, Where, InBuffer, ~conf.mapped, NEW t \in Task, CanRun(t),
           N(t) \cap InCalls # {}, NEW u \in Task, u # t, at[u] # "none"
    PROVE  u = "main" /\ escInt /\ ~dcActive
  <1>1. "CompleteInputs" \in N(u) BY DEF InBuffer
  <1>2. escInt /\ ~dcActive /\ {t, u} = {"main", "pdi"}
    BY <1>1, TwoInputTasks DEF InCalls
  <1>3. t # "main" BY <1>1, MainAlone
  <1> QED BY <1>2, <1>3

LEMMA LockInputsStep == ASSUME IInv, NEW t \in Task, LockInputs(t) PROVE IInv'
  <1>1. Quiet /\ UNCHANGED <<conf, escInt, dcActive, sm2>>
    BY StaysQuiet DEF LockInputs, flags
  <1>2. Op("LockInputs")[1] = "LockInputs" BY OpName DEF CallName
  <1>3. ASSUME NEW b, Goes(t, b) PROVE Takes(t, "LockInputs", b)
    BY <1>2, <1>3, CallTaken DEF LockInputs
  <1>4. CanRun(t) BY DEF LockInputs, Calls
  <1>5. CASE sm3 # "finish"
    <2>1. /\ Goes(t, HW_EscWriteIsr) /\ sm3' = "start"
          /\ at' = [at EXCEPT ![t] = "host"]
      BY <1>5 DEF LockInputs
    <2> DEFINE A == {"CopyInputs", "CompleteInputs"}
    <2>2. HW_EscWriteIsr \in Seq(Call) /\ ListOK(HW_EscWriteIsr) /\ Names(HW_EscWriteIsr) = A
      BY InputLists DEF Is
    <2>3. Fits("LockInputs", HW_EscWriteIsr) BY <2>2 DEF Fits, LastOnly
    <2>4. Takes(t, "LockInputs", HW_EscWriteIsr) BY <1>3, <2>1
    <2>5. Allowed(t, A)
      <3>1. Allowed(t, {"LockInputs"}) BY <2>4, AllowedHead DEF IInv
      <3> QED BY <3>1 DEF Allowed, May, OutFlags, InFlags, Unmapped, OutCalls, InCalls,
                          TouchCalls, SyncCalls, Task
    <2>6. Lists' /\ Where' /\ Running' /\ Effect(t, "LockInputs", A)
      BY <1>1, <2>2, <2>3, <2>4, <2>5, MapStep DEF Starts
    <2>7. /\ "LockInputs" \in N(t) /\ N(t) \cap Completes = {} /\ "CompleteInputs" \in N(t)'
          /\ "CompleteOutputs" \notin N(t)' /\ N(t) \subseteq {"LockInputs"} \cup N(t)'
      BY <2>6 DEF Effect, Completes
    <2>8. OutBuffer'
      BY <1>1, <2>6, <2>7, OutSame DEF IInv, Effect, Completes, OutBuffer
    <2>9. InBuffer'
      <3>1. at \in [Task -> {"none", "host", "master"}] BY DEF IInv, InBuffer
      <3>2. at'[t] = "host" /\ (\A u \in Task : u # t => at'[u] = at[u])
              /\ at' \in [Task -> {"none", "host", "master"}]
        BY <2>1, <3>1
      <3>3. \A u \in Task : at'[u] # "none" <=> "CompleteInputs" \in N(u)'
        BY <2>6, <2>7, <3>2 DEF IInv, InBuffer, Effect, Others
      <3>4. InputsOwned'
        <4> SUFFICES ASSUME ~conf.mapped,
                            ~ (escInt /\ ~dcActive /\ at'["main"] # "none"),
                            NEW u \in Task, at'[u] # "none"
                     PROVE  at'[u] = "host" /\ sm3' = "start"
          BY <1>1 DEF InputsOwned
        <4>1. CASE u = t BY <2>1, <3>2, <4>1
        <4>2. CASE u # t
          <5>1. at[u] # "none" BY <3>2, <4>2
          <5>2. u = "main" /\ escInt /\ ~dcActive
            BY <1>4, <2>7, <4>2, <5>1, OthersOutOfInputs DEF IInv, InCalls
          <5> QED BY <5>2
        <4> QED BY <4>1, <4>2
      <3> QED BY <2>1, <2>7, <3>2, <3>3, <3>4 DEF InBuffer
    <2> QED BY <2>6, <2>8, <2>9 DEF IInv
  <1>6. CASE sm3 = "finish"
    <2>1. Goes(t, << >>) /\ UNCHANGED <<sm3, at>> BY <1>6 DEF LockInputs
    <2>2. Takes(t, "LockInputs", << >>) BY <1>3, <2>1
    <2> QED BY <1>1, <2>1, <2>2, PopIInv DEF Keep, Completes, Starts
  <1> QED BY <1>5, <1>6

LEMMA CompleteInputsStep == ASSUME IInv, NEW t \in Task, CompleteInputs(t) PROVE IInv'
  <1>1. Quiet /\ UNCHANGED <<conf, escInt, dcActive, sm2>>
    BY StaysQuiet DEF CompleteInputs, flags
  <1>2. Op("CompleteInputs")[1] = "CompleteInputs" BY OpName DEF CallName
  <1>3. Takes(t, "CompleteInputs", << >>) /\ CanRun(t)
    BY <1>2, CallTaken DEF CompleteInputs
  <1>4. << >> \in Seq(Call) /\ Names(<< >>) = {} /\ Fits("CompleteInputs", << >>)
    BY NamesEmpty DEF Fits
  <1>5. Allowed(t, Names(<< >>)) BY <1>4, AllowedEmpty
  <1>6. Lists' /\ Where' /\ Running' /\ Effect(t, "CompleteInputs", {})
    BY <1>1, <1>3, <1>4, <1>5, MapStep
  <1>7. /\ "CompleteInputs" \in N(t) /\ N(t)' \cap Completes = {}
        /\ "CompleteOutputs" \notin N(t) /\ N(t) \subseteq {"CompleteInputs"} \cup N(t)'
    BY <1>6 DEF Effect, Completes
  <1>8. OutBuffer'
    BY <1>1, <1>6, <1>7, OutSame DEF IInv, Effect, Completes, OutBuffer
  <1>9. InBuffer'
    <2>1. at \in [Task -> {"none", "host", "master"}] /\ sm3 \in {"available", "start", "finish"}
      BY DEF IInv, InBuffer
    <2>2. at'[t] = "none" /\ (\A u \in Task : u # t => at'[u] = at[u])
            /\ at' \in [Task -> {"none", "host", "master"}]
      BY <2>1 DEF CompleteInputs
    <2>3. \A u \in Task : at'[u] # "none" <=> "CompleteInputs" \in N(u)'
      BY <1>6, <1>7, <2>2 DEF IInv, InBuffer, Effect, Others, Completes
    <2>4. sm3' \in {"available", "finish"} BY <2>1 DEF CompleteInputs
    <2>5. InputsOwned'
      <3> SUFFICES ASSUME ~conf.mapped, ~ (escInt /\ ~dcActive /\ at'["main"] # "none"),
                          NEW u \in Task, at'[u] # "none"
                   PROVE  FALSE
        BY <1>1 DEF InputsOwned
      <3>1. u # t /\ at[u] # "none" BY <2>2
      <3>2. u = "main" /\ escInt /\ ~dcActive
        BY <1>3, <1>7, <3>1, OthersOutOfInputs DEF IInv, InCalls
      <3> QED BY <3>2
    <2> QED BY <2>2, <2>3, <2>4, <2>5 DEF InBuffer
  <1> QED BY <1>6, <1>8, <1>9 DEF IInv

-----------------------------------------------------------------------------
(* The interrupt handlers.                                                 *)

LEMMA OneCall ==
    /\ Is(<< Op("PDI_Isr") >>, {"PDI_Isr"})
    /\ Is(<< Op("Sync0_Isr") >>, {"Sync0_Isr"})
    /\ Is(<< Op("Sync1_Isr") >>, {"Sync1_Isr"})
    /\ Is(<< Op("OutputsReceived") >>, {"OutputsReceived"})
    /\ Is(<< Op("LatchDone") >>, {"LatchDone"})
    /\ Is(<< Op("ClearLatch") >>, {"ClearLatch"})
    /\ Is(<< Op("AwaitAck") >>, {"AwaitAck"})
  <1>1. Is(<< Op("PDI_Isr") >>, {"PDI_Isr"})
    <2> DEFINE x == Op("PDI_Isr")
    <2>1. x \in Call /\ x[1] = "PDI_Isr" BY OpName DEF CallName
    <2> HIDE DEF x
    <2>2. Is(<<x>>, {"PDI_Isr"}) BY <2>1, IsOne
    <2> QED BY <2>2 DEF x
  <1>2. Is(<< Op("Sync0_Isr") >>, {"Sync0_Isr"})
    <2> DEFINE x == Op("Sync0_Isr")
    <2>1. x \in Call /\ x[1] = "Sync0_Isr" BY OpName DEF CallName
    <2> HIDE DEF x
    <2>2. Is(<<x>>, {"Sync0_Isr"}) BY <2>1, IsOne
    <2> QED BY <2>2 DEF x
  <1>3. Is(<< Op("Sync1_Isr") >>, {"Sync1_Isr"})
    <2> DEFINE x == Op("Sync1_Isr")
    <2>1. x \in Call /\ x[1] = "Sync1_Isr" BY OpName DEF CallName
    <2> HIDE DEF x
    <2>2. Is(<<x>>, {"Sync1_Isr"}) BY <2>1, IsOne
    <2> QED BY <2>2 DEF x
  <1>4. Is(<< Op("OutputsReceived") >>, {"OutputsReceived"})
    <2> DEFINE x == Op("OutputsReceived")
    <2>1. x \in Call /\ x[1] = "OutputsReceived" BY OpName DEF CallName
    <2> HIDE DEF x
    <2>2. Is(<<x>>, {"OutputsReceived"}) BY <2>1, IsOne
    <2> QED BY <2>2 DEF x
  <1>5. Is(<< Op("LatchDone") >>, {"LatchDone"})
    <2> DEFINE x == Op("LatchDone")
    <2>1. x \in Call /\ x[1] = "LatchDone" BY OpName DEF CallName
    <2> HIDE DEF x
    <2>2. Is(<<x>>, {"LatchDone"}) BY <2>1, IsOne
    <2> QED BY <2>2 DEF x
  <1>6. Is(<< Op("ClearLatch") >>, {"ClearLatch"})
    <2> DEFINE x == Op("ClearLatch")
    <2>1. x \in Call /\ x[1] = "ClearLatch" BY OpName DEF CallName
    <2> HIDE DEF x
    <2>2. Is(<<x>>, {"ClearLatch"}) BY <2>1, IsOne
    <2> QED BY <2>2 DEF x
  <1>7. Is(<< Op("AwaitAck") >>, {"AwaitAck"})
    <2> DEFINE x == Op("AwaitAck")
    <2>1. x \in Call /\ x[1] = "AwaitAck" BY OpName DEF CallName
    <2> HIDE DEF x
    <2>2. Is(<<x>>, {"AwaitAck"}) BY <2>1, IsOne
    <2> QED BY <2>2 DEF x
  <1> QED BY ONLY <1>1, <1>2, <1>3, <1>4, <1>5, <1>6, <1>7

LEMMA CommandCall == \A k \in Nat : Is(<< <<"Command", k>> >>, {"Command"})
  <1> SUFFICES ASSUME NEW k \in Nat PROVE Is(<< <<"Command", k>> >>, {"Command"})
    OBVIOUS
  <1> DEFINE x == <<"Command", k>>
  <1>1. x \in Call /\ x[1] = "Command" BY DEF Call, CallName
  <1> HIDE DEF x
  <1>2. Is(<<x>>, {"Command"}) BY <1>1, IsOne
  <1> QED BY <1>2 DEF x

LEMMA SyncMain ==
    /\ Is(TaskMain("pdi"), {"PDI_Isr"})
    /\ Is(TaskMain("sync0"), {"Sync0_Isr", "SyncAck"})
    /\ Is(TaskMain("sync1"), {"Sync1_Isr", "SyncAck"})
  <1>1. TaskMain("pdi") = << Op("PDI_Isr") >> /\ TaskMain("sync0") = Sync0Task
          /\ TaskMain("sync1") = Sync1Task
    BY DEF TaskMain
  <1>2. Is(<< Op("PDI_Isr") >>, {"PDI_Isr"}) BY OneCall
  <1>3. Is(Sync0Task, {"Sync0_Isr", "SyncAck"})
    <2> DEFINE x == Op("Sync0_Isr")
               y == <<"SyncAck", 1>>
    <2>1. x \in Call /\ x[1] = "Sync0_Isr" /\ y \in Call /\ y[1] = "SyncAck"
      BY DEF Op, Call, CallName
    <2> HIDE DEF x, y
    <2>2. Is(<<x, y>>, {"Sync0_Isr", "SyncAck"}) BY <2>1, IsTwo DEF LastOnly, Completes
    <2> QED BY <2>2 DEF Sync0Task, x, y
  <1>4. Is(Sync1Task, {"Sync1_Isr", "SyncAck"})
    <2> DEFINE x == Op("Sync1_Isr")
               y == <<"SyncAck", 2>>
    <2>1. x \in Call /\ x[1] = "Sync1_Isr" /\ y \in Call /\ y[1] = "SyncAck"
      BY DEF Op, Call, CallName
    <2> HIDE DEF x, y
    <2>2. Is(<<x, y>>, {"Sync1_Isr", "SyncAck"}) BY <2>1, IsTwo DEF LastOnly, Completes
    <2> QED BY <2>2 DEF Sync1Task, x, y
  <1>5. Is(TaskMain("pdi"), {"PDI_Isr"})
    <2> DEFINE s == << Op("PDI_Isr") >>
    <2>1. Is(s, {"PDI_Isr"}) /\ TaskMain("pdi") = s BY <1>1, <1>2
    <2> HIDE DEF s
    <2> QED BY <2>1
  <1> QED BY ONLY <1>1, <1>3, <1>4, <1>5

\* A task that has done its work begins anew.
LEMMA BeginIInv ==
    ASSUME IInv, Quiet, UNCHANGED <<sm2, sm3, at>>, NEW t \in Task, NEW a, NEW A,
           Is(a, A), todo[t] = << >>, todo' = [todo EXCEPT ![t] = a], Allowed(t, A),
           A \cap (Completes \cup Starts) = {}
    PROVE  IInv'
  <1>1. Lists' /\ Others(t) /\ N(t) = {} /\ N(t)' = A
    BY Begun DEF IInv, Is
  <1>2. Where' BY <1>1, SameFlagsWhere DEF IInv, Quiet
  <1>3. Running'
    <2>1. "ClearOutRun" \in N("main") => "ClearOutRun" \in N("main")'
      BY <1>1 DEF Others, Task
    <2>2. \A c \in Starts : c \in N("main")' => c \in N("main")
      BY <1>1 DEF Others, Task
    <2> QED BY <2>1, <2>2, QuietRunning DEF IInv
  <1>4. OutBuffer'
    BY <1>1, OutSame DEF IInv, Completes, OutBuffer
  <1>5. InBuffer'
    BY <1>1, InSame DEF IInv, Completes, Quiet, SameFlags
  <1> QED BY <1>1, <1>2, <1>3, <1>4, <1>5 DEF IInv

LEMMA WakeUpStep == ASSUME IInv, NEW t \in Task, WakeUp(t) PROVE IInv'
  <1>1. /\ todo[t] = << >> /\ todo' = [todo EXCEPT ![t] = TaskMain(t)]
        /\ UNCHANGED <<sm2, sm3, at>> /\ t \in event
    BY DEF WakeUp
  <1>2. Quiet BY DEF WakeUp, Quiet, SameFlags, flags
  <1>3. t \in {"pdi", "sync0", "sync1"} BY <1>1 DEF IInv, Running
  <1>4. PICK A : Is(TaskMain(t), A) /\ A \in {{"PDI_Isr"}, {"Sync0_Isr", "SyncAck"},
                                             {"Sync1_Isr", "SyncAck"}}
                   /\ A \subseteq May(t)
    BY <1>3, SyncMain DEF May, SyncCalls
  <1>5. /\ A \cap OutCalls = {} /\ A \cap InCalls = {} /\ A \cap TouchCalls = {}
        /\ A \cap (Completes \cup Starts) = {}
        /\ "pdi" = t => A = {"PDI_Isr"}
    BY <1>4 DEF OutCalls, InCalls, TouchCalls, Completes, Starts, May, SyncCalls
  <1>6. Allowed(t, A)
    BY <1>4, <1>5 DEF Allowed, OutFlags, InFlags, Unmapped
  <1> QED BY <1>1, <1>2, <1>4, <1>5, <1>6, BeginIInv

LEMMA OutputsReceivedStep == ASSUME IInv, NEW t \in Task, OutputsReceived(t) PROVE IInv'
  <1>1. Op("OutputsReceived")[1] = "OutputsReceived" BY OpName DEF CallName
  <1>2. Takes(t, "OutputsReceived", << >>) BY <1>1, CallTaken DEF OutputsReceived
  <1>3. Quiet /\ UNCHANGED <<sm2, sm3, at>>
    BY DEF OutputsReceived, Quiet, SameFlags, esc
  <1> QED BY <1>2, <1>3, PopIInv DEF Keep, Completes, Starts

LEMMA LatchDoneStep == ASSUME IInv, NEW t \in Task, LatchDone(t) PROVE IInv'
  <1>1. Op("LatchDone")[1] = "LatchDone" BY OpName DEF CallName
  <1>2. Takes(t, "LatchDone", << >>) BY <1>1, CallTaken DEF LatchDone
  <1>3. Quiet /\ UNCHANGED <<sm2, sm3, at>>
    BY DEF LatchDone, Quiet, SameFlags, esc, flags, IInv, Running
  <1> QED BY <1>2, <1>3, PopIInv DEF Keep, Completes, Starts

LEMMA ClearLatchStep == ASSUME IInv, NEW t \in Task, ClearLatch(t) PROVE IInv'
  <1>1. Op("ClearLatch")[1] = "ClearLatch" BY OpName DEF CallName
  <1>2. Takes(t, "ClearLatch", << >>) BY <1>1, CallTaken DEF ClearLatch
  <1>3. Quiet /\ UNCHANGED <<sm2, sm3, at>>
    BY DEF ClearLatch, Quiet, SameFlags, esc, flags, IInv, Running
  <1> QED BY <1>2, <1>3, PopIInv DEF Keep, Completes, Starts

LEMMA AwaitAckStep == ASSUME IInv, NEW t \in Task, AwaitAck(t) PROVE IInv'
  <1>1. Op("AwaitAck")[1] = "AwaitAck" BY OpName DEF CallName
  <1>2. Takes(t, "AwaitAck", << >>) BY <1>1, CallTaken DEF AwaitAck
  <1>3. Quiet /\ UNCHANGED <<sm2, sm3, at>> BY StaysQuiet DEF AwaitAck
  <1> QED BY <1>2, <1>3, PopIInv DEF Keep, Completes, Starts

\* Calls that concern neither outputs nor inputs are allowed wherever the task
\* may have them.
LEMMA AllowedPlain ==
    ASSUME NEW t \in Task, NEW A, A \subseteq May(t),
           A \subseteq {"Command", "AwaitAck", "APPL_Application", "OutputsReceived", "PDI_Isr",
                        "SyncAck", "ECAT_Main", "ResetTx", "ClearFirst", "ClearOutRun",
                        "SetInputRun"}
    PROVE  Allowed(t, A)
  <1>1. A \cap OutCalls = {} /\ A \cap InCalls = {} /\ A \cap TouchCalls = {}
    BY DEF OutCalls, InCalls, TouchCalls
  <1>2. A \cap {"Sync0_Isr", "Sync1_Isr", "LatchDone", "ClearLatch"} = {} OBVIOUS
  <1> QED BY <1>1, <1>2 DEF Allowed, OutFlags, InFlags, Unmapped

LEMMA CommandStep == ASSUME IInv, NEW t \in Task, Command(t) PROVE IInv'
  <1> DEFINE a == << Op("AwaitAck") >>
  <1>1. PICK n \in {1, 2, 3} : Calls(t, <<"Command", n>>) BY DEF Command
  <1>2. Goes(t, a) BY DEF Command
  <1>3. <<"Command", n>>[1] = "Command" OBVIOUS
  <1>4. Takes(t, "Command", a) BY <1>1, <1>2, <1>3, CallTaken
  <1>5. Is(a, {"AwaitAck"}) BY OneCall
  <1>6. Quiet /\ UNCHANGED <<sm2, sm3, at>> BY StaysQuiet DEF Command
  <1> HIDE DEF a
  <1>7. a \in Seq(Call) /\ Names(a) = {"AwaitAck"} /\ Fits("Command", a)
    BY <1>5 DEF Is, Fits, LastOnly
  <1>8. Allowed(t, {"AwaitAck"})
    <2>1. {"AwaitAck"} \subseteq May(t)
      BY DEF Task, May, SyncCalls
    <2> QED BY <2>1, AllowedPlain
  <1>9. "Command" \notin Keep /\ {"AwaitAck"} \cap (Completes \cup Starts) = {}
    BY DEF Keep, Completes, Starts
  <1> QED BY <1>4, <1>6, <1>7, <1>8, <1>9, QuietIInv

LEMMA SyncAckStep == ASSUME IInv, NEW t \in Task, SyncAck(t) PROVE IInv'
  <1>1. PICK n \in {1, 2} :
          /\ Calls(t, <<"SyncAck", n>>)
          /\ Goes(t, When(conf.ack, << <<"Command", bsp_pdi_post_read_indication({n - 1})>> >>))
    BY DEF SyncAck
  <1> DEFINE k == bsp_pdi_post_read_indication({n - 1})
             c == << <<"Command", k>> >>
             a == When(conf.ack, c)
  <1>2. <<"SyncAck", n>>[1] = "SyncAck" OBVIOUS
  <1>3. Takes(t, "SyncAck", a) BY <1>1, <1>2, CallTaken
  <1>4. k \in Nat BY DEF bsp_pdi_post_read_indication
  <1>5. Is(c, {"Command"})
    <2> HIDE DEF k
    <2> QED BY <1>4, CommandCall
  <1> HIDE DEF c
  <1>6. Is(a, {"Command"}) \/ Is(a, {})
    BY <1>5, IsEmpty DEF When
  <1>7. Quiet /\ UNCHANGED <<sm2, sm3, at>> BY StaysQuiet DEF SyncAck, esc
  <1> HIDE DEF a
  <1>8. a \in Seq(Call) /\ Names(a) \subseteq {"Command"} /\ Fits("SyncAck", a)
    BY <1>6 DEF Is, Fits, LastOnly
  <1>9. Allowed(t, Names(a))
    <2>1. Names(a) \subseteq May(t)
      BY <1>8 DEF Task, May, SyncCalls
    <2> QED BY <1>8, <2>1, AllowedPlain
  <1>10. "SyncAck" \notin Keep /\ Names(a) \cap (Completes \cup Starts) = {}
    BY <1>8 DEF Keep, Completes, Starts
  <1> QED BY <1>3, <1>7, <1>8, <1>9, <1>10, QuietIInv

LEMMA Sync1Step == ASSUME IInv, NEW t \in Task, Sync1_Isr(t) PROVE IInv'
  <1> DEFINE c == inRun /\ sync.inp = "DC1" /\ sync.latch = 0
             p == When(c, PDO_InputMapping)
             l == << Op("ClearLatch") >>
             A == IF c THEN {"Gather", "LockInputs"} ELSE {}
             a == p \o l
  <1>1. Op("Sync1_Isr")[1] = "Sync1_Isr" BY OpName DEF CallName
  <1>2. Goes(t, a) BY DEF Sync1_Isr
  <1>3. Takes(t, "Sync1_Isr", a) BY <1>1, <1>2, CallTaken DEF Sync1_Isr
  <1>4. Is(p, A) BY InputLists, IsEmpty DEF When
  <1>5. Is(l, {"ClearLatch"}) BY OneCall
  <1>6. A \subseteq {"Gather", "LockInputs"} /\ (A # {} => c) OBVIOUS
  <1>7. Quiet /\ UNCHANGED <<sm2, sm3, at>> BY StaysQuiet DEF Sync1_Isr, esc
  <1>8. c => inRun /\ dcActive /\ sync.latch = 0 BY DEF IInv, Running
  <1> HIDE DEF l, p, A, c
  <1>9. Is(a, A \cup {"ClearLatch"})
    BY <1>4, <1>5, <1>6, IsJoin DEF LastOnly, Completes
  <1> HIDE DEF a
  <1>10. a \in Seq(Call) /\ Names(a) = A \cup {"ClearLatch"} /\ Fits("Sync1_Isr", a)
    BY <1>6, <1>9 DEF Is, Fits, LastOnly
  <1>11. Allowed(t, A \cup {"ClearLatch"})
    <2>1. Allowed(t, {"Sync1_Isr"}) BY <1>3, AllowedHead DEF IInv
    <2>2. t \in {"pdi", "sync1"} /\ (t = "pdi" => conf.mapped)
      BY <2>1 DEF Allowed, May, Unmapped, Task, SyncCalls, OutCalls, InCalls
    <2>3. A \cup {"ClearLatch"} \subseteq May(t)
      BY <1>6, <2>2 DEF May, SyncCalls, InCalls
    <2>4. (A \cup {"ClearLatch"}) \cap OutCalls = {}
            /\ (A \cup {"ClearLatch"}) \cap TouchCalls = {}
      BY <1>6 DEF OutCalls, TouchCalls
    <2>5. (A \cup {"ClearLatch"}) \cap InCalls # {} => inRun /\ dcActive /\ sync.latch = 0
      BY <1>6, <1>8 DEF InCalls
    <2> QED BY <2>2, <2>3, <2>4, <2>5 DEF Allowed, OutFlags, InFlags, Unmapped
  <1>12. "Sync1_Isr" \notin Keep
           /\ (A \cup {"ClearLatch"}) \cap (Completes \cup Starts) = {}
    BY <1>6 DEF Keep, Completes, Starts
  <1> QED BY <1>3, <1>7, <1>10, <1>11, <1>12, QuietIInv

LEMMA Sync0Step == ASSUME IInv, NEW t \in Task, Sync0_Isr(t) PROVE IInv'
  <1> DEFINE latching == dcActive /\ inRun /\ sync.latch > 0
             latched == IF latching /\ sync.latch > sync.latched
                        THEN sync.latched + 1 ELSE sync.latched
             c == latching /\ latched = sync.latch
             q == When(dcActive, ECAT_Application)
             m == PDO_InputMapping \o << Op("LatchDone") >>
             p == When(c, m)
             A == IF dcActive THEN {"APPL_Application"} ELSE {}
             B == IF c THEN {"Gather", "LockInputs", "LatchDone"} ELSE {}
             a == q \o p
  <1>1. Op("Sync0_Isr")[1] = "Sync0_Isr" BY OpName DEF CallName
  <1>2. Goes(t, a) /\ sync' = [sync EXCEPT !.latched = latched] BY DEF Sync0_Isr
  <1>3. Takes(t, "Sync0_Isr", a) BY <1>1, <1>2, CallTaken DEF Sync0_Isr
  <1>4. Is(m, {"Gather", "LockInputs", "LatchDone"})
    <2> DEFINE l == << Op("LatchDone") >>
    <2>1. Is(l, {"LatchDone"}) BY OneCall
    <2> HIDE DEF l
    <2>2. Is(PDO_InputMapping \o l, {"Gather", "LockInputs"} \cup {"LatchDone"})
      BY <2>1, InputLists, IsJoin DEF LastOnly, Completes
    <2>3. {"Gather", "LockInputs"} \cup {"LatchDone"} = {"Gather", "LockInputs", "LatchDone"}
      OBVIOUS
    <2>4. Is(PDO_InputMapping \o l, {"Gather", "LockInputs", "LatchDone"})
      BY ONLY <2>2, <2>3
    <2> QED BY <2>4 DEF l
  <1> HIDE DEF m
  <1>5. Is(q, A) BY OutputLists, IsEmpty DEF When
  <1>6. Is(p, B)
    <2> HIDE DEF c
    <2> QED BY <1>4, IsEmpty DEF When
  <1>7. A \subseteq {"APPL_Application"} OBVIOUS
  <1>8. B \subseteq {"Gather", "LockInputs", "LatchDone"}
          /\ (B # {} => inRun /\ dcActive /\ sync.latch > 0)
    <2> HIDE DEF latched
    <2> QED OBVIOUS
  <1>9. Quiet /\ UNCHANGED <<sm2, sm3, at>>
    <2> HIDE DEF latched
    <2> QED BY <1>2 DEF Sync0_Isr, Quiet, SameFlags, esc, flags, IInv, Running
  <1> HIDE DEF p, q, A, B
  <1>10. Is(a, A \cup B) BY <1>5, <1>6, <1>7, <1>8, IsJoin DEF LastOnly, Completes
  <1> HIDE DEF a
  <1>11. a \in Seq(Call) /\ Names(a) = A \cup B /\ Fits("Sync0_Isr", a)
    BY <1>7, <1>8, <1>10 DEF Is, Fits, LastOnly
  <1>12. Allowed(t, A \cup B)
    <2>1. Allowed(t, {"Sync0_Isr"}) BY <1>3, AllowedHead DEF IInv
    <2>2. t \in {"pdi", "sync0"} /\ (t = "pdi" => conf.mapped)
      BY <2>1 DEF Allowed, May, Unmapped, Task, SyncCalls, OutCalls, InCalls
    <2>3. A \cup B \subseteq May(t)
      BY <1>7, <1>8, <2>2 DEF May, SyncCalls, InCalls
    <2>4. (A \cup B) \cap OutCalls = {} /\ (A \cup B) \cap TouchCalls = {}
      BY <1>7, <1>8 DEF OutCalls, TouchCalls
    <2>5. (A \cup B) \cap InCalls # {} => inRun /\ dcActive /\ sync.latch > 0
      BY <1>7, <1>8 DEF InCalls
    <2> QED BY <2>2, <2>3, <2>4, <2>5 DEF Allowed, OutFlags, InFlags, Unmapped
  <1>13. "Sync0_Isr" \notin Keep /\ (A \cup B) \cap (Completes \cup Starts) = {}
    BY <1>7, <1>8 DEF Keep, Completes, Starts
  <1> QED BY <1>3, <1>9, <1>11, <1>12, <1>13, QuietIInv

LEMMA PdiStep == ASSUME IInv, NEW t \in Task, PDI_Isr(t) PROVE IInv'
  <1> DEFINE k  == bsp_pdi_post_read_indication({0, 1})
             c1 == << Op("Sync1_Isr") >>
             r  == << Op("OutputsReceived") >>
             o  == IF outRun THEN PDO_OutputMapping ELSE TouchOutputs
             c2 == r \o o
             c5 == << Op("Sync0_Isr") >>
             c6 == << <<"Command", k>> >>
             p1 == When("sync1" \in al, c1)
             p2 == When(escInt /\ sm2.event, c2)
             p3 == When(escInt /\ sync.out = "SM", ECAT_Application)
             p4 == When(escInt /\ inRun /\ sync.inp \in {"SM", "SM2"}, PDO_InputMapping)
             p5 == When("sync0" \in al, c5)
             p6 == When(al # {}, c6)
             a  == p1 \o p2 \o p3 \o p4 \o p5 \o p6
             O  == IF outRun THEN {"LockOutputs"} ELSE {"TouchFirst", "TouchLast"}
             A1 == IF "sync1" \in al THEN {"Sync1_Isr"} ELSE {}
             A2 == IF escInt /\ sm2.event THEN {"OutputsReceived"} \cup O ELSE {}
             A3 == IF escInt /\ sync.out = "SM" THEN {"APPL_Application"} ELSE {}
             A4 == IF escInt /\ inRun /\ sync.inp \in {"SM", "SM2"}
                   THEN {"Gather", "LockInputs"} ELSE {}
             A5 == IF "sync0" \in al THEN {"Sync0_Isr"} ELSE {}
             A6 == IF al # {} THEN {"Command"} ELSE {}
  <1>1. Op("PDI_Isr")[1] = "PDI_Isr" BY OpName DEF CallName
  <1>2. Goes(t, a) BY DEF PDI_Isr
  <1>3. Takes(t, "PDI_Isr", a) BY <1>1, <1>2, CallTaken DEF PDI_Isr
  <1>4. Is(c1, {"Sync1_Isr"}) /\ Is(r, {"OutputsReceived"}) /\ Is(c5, {"Sync0_Isr"})
    BY OneCall
  <1>5. Is(c6, {"Command"})
    <2>1. k \in Nat BY DEF bsp_pdi_post_read_indication
    <2> HIDE DEF k
    <2> QED BY <2>1, CommandCall
  <1>6. Is(o, O) BY OutputLists
  <1>7. O \subseteq {"LockOutputs", "TouchFirst", "TouchLast"} /\ (~outRun => "LockOutputs" \notin O)
    OBVIOUS
  <1> HIDE DEF k, c1, r, o, c5, c6, O
  <1>8. Is(c2, {"OutputsReceived"} \cup O)
    BY <1>4, <1>6, <1>7, IsJoin DEF LastOnly, Completes
  <1> HIDE DEF c2
  <1>9. Is(p1, A1) /\ Is(p5, A5) BY <1>4, IsEmpty DEF When
  <1>10. Is(p6, A6) BY <1>5, IsEmpty DEF When
  <1>11. Is(p2, A2) BY <1>8, IsEmpty DEF When
  <1>12. Is(p3, A3) BY OutputLists, IsEmpty DEF When
  <1>13. Is(p4, A4) BY InputLists, IsEmpty DEF When
  <1>14. /\ A1 \subseteq {"Sync1_Isr"} /\ (A1 # {} => al # {})
         /\ A5 \subseteq {"Sync0_Isr"} /\ (A5 # {} => al # {})
         /\ A6 \subseteq {"Command"} /\ A3 \subseteq {"APPL_Application"}
    OBVIOUS
  <1>15. /\ A2 \subseteq {"OutputsReceived", "LockOutputs", "TouchFirst", "TouchLast"}
         /\ A2 # {} => escInt
         /\ "LockOutputs" \in A2 => outRun
    BY <1>7
  <1>16. A4 \subseteq {"Gather", "LockInputs"} /\ (A4 # {} => escInt /\ inRun /\ ~dcActive)
    BY DEF IInv, Running
  <1> HIDE DEF A1, A2, A3, A4, A5, A6, p1, p2, p3, p4, p5, p6
  <1> DEFINE A == A1 \cup A2 \cup A3 \cup A4 \cup A5 \cup A6
  <1>17. Is(p1 \o p2, A1 \cup A2)
    BY <1>9, <1>11, <1>14, <1>15, IsJoin DEF LastOnly, Completes
  <1>18. Is(p1 \o p2 \o p3, A1 \cup A2 \cup A3)
    BY <1>17, <1>12, <1>14, <1>15, IsJoin DEF LastOnly, Completes
  <1>19. Is(p1 \o p2 \o p3 \o p4, A1 \cup A2 \cup A3 \cup A4)
    BY <1>18, <1>13, <1>14, <1>15, <1>16, IsJoin DEF LastOnly, Completes
  <1>20. Is(p1 \o p2 \o p3 \o p4 \o p5, A1 \cup A2 \cup A3 \cup A4 \cup A5)
    BY <1>19, <1>9, <1>14, <1>15, <1>16, IsJoin DEF LastOnly, Completes
  <1>21. Is(a, A)
    BY <1>20, <1>10, <1>14, <1>15, <1>16, IsJoin DEF LastOnly, Completes
  <1>22. Quiet /\ UNCHANGED <<sm2, sm3, at>> BY StaysQuiet DEF PDI_Isr, esc
  <1> HIDE DEF a
  <1>23. a \in Seq(Call) /\ Names(a) = A /\ Fits("PDI_Isr", a)
    BY <1>21 DEF Is, Fits, LastOnly
  <1>24. Allowed(t, A)
    <2>1. Allowed(t, {"PDI_Isr"}) BY <1>3, AllowedHead DEF IInv
    <2>2. t = "pdi"
      BY <2>1 DEF Allowed, May, Task, SyncCalls, OutCalls, InCalls
    <2>3. A \subseteq May(t)
      BY <1>14, <1>15, <1>16, <2>2 DEF May, SyncCalls, InCalls, OutCalls, TouchCalls
    <2>4. A \cap OutCalls # {} => escInt /\ outRun
      BY <1>14, <1>15, <1>16 DEF OutCalls
    <2>5. A \cap TouchCalls # {} => escInt
      BY <1>14, <1>15, <1>16 DEF TouchCalls
    <2>6. A \cap InCalls # {} => escInt /\ inRun /\ ~dcActive
      BY <1>14, <1>15, <1>16 DEF InCalls
    <2>7. ~conf.mapped => A \cap {"Sync0_Isr", "Sync1_Isr", "LatchDone", "ClearLatch"} = {}
      BY <1>14, <1>15, <1>16 DEF IInv, Running
    <2> HIDE DEF A
    <2> QED BY <2>2, <2>3, <2>4, <2>5, <2>6, <2>7 DEF Allowed, OutFlags, InFlags, Unmapped
  <1>25. "PDI_Isr" \notin Keep /\ A \cap (Completes \cup Starts) = {}
    BY <1>14, <1>15, <1>16 DEF Keep, Completes, Starts
  <1> HIDE DEF A
  <1> QED BY <1>3, <1>22, <1>23, <1>24, <1>25, QuietIInv

-----------------------------------------------------------------------------
(* The main task: what a round consists of.                                *)

LEMMA MainCalls ==
    /\ Is(<< Op("ECAT_Main") >>, {"ECAT_Main"})
    /\ Is(<< Op("FreeRunOutputs") >>, {"FreeRunOutputs"})
    /\ Is(<< Op("FreeRunInputs") >>, {"FreeRunInputs"})
    /\ Is(<< Op("SetInputRun") >>, {"SetInputRun"})
    /\ Is(<< Op("ClearFirst"), Op("ClearOutRun") >>, {"ClearFirst", "ClearOutRun"})
  <1>1. Is(<< Op("ECAT_Main") >>, {"ECAT_Main"})
    <2> DEFINE x == Op("ECAT_Main")
    <2>1. x \in Call /\ x[1] = "ECAT_Main" BY OpName DEF CallName
    <2> HIDE DEF x
    <2>2. Is(<<x>>, {"ECAT_Main"}) BY <2>1, IsOne
    <2> QED BY <2>2 DEF x
  <1>2. Is(<< Op("FreeRunOutputs") >>, {"FreeRunOutputs"})
    <2> DEFINE x == Op("FreeRunOutputs")
    <2>1. x \in Call /\ x[1] = "FreeRunOutputs" BY OpName DEF CallName
    <2> HIDE DEF x
    <2>2. Is(<<x>>, {"FreeRunOutputs"}) BY <2>1, IsOne
    <2> QED BY <2>2 DEF x
  <1>3. Is(<< Op("FreeRunInputs") >>, {"FreeRunInputs"})
    <2> DEFINE x == Op("FreeRunInputs")
    <2>1. x \in Call /\ x[1] = "FreeRunInputs" BY OpName DEF CallName
    <2> HIDE DEF x
    <2>2. Is(<<x>>, {"FreeRunInputs"}) BY <2>1, IsOne
    <2> QED BY <2>2 DEF x
  <1>4. Is(<< Op("SetInputRun") >>, {"SetInputRun"})
    <2> DEFINE x == Op("SetInputRun")
    <2>1. x \in Call /\ x[1] = "SetInputRun" BY OpName DEF CallName
    <2> HIDE DEF x
    <2>2. Is(<<x>>, {"SetInputRun"}) BY <2>1, IsOne
    <2> QED BY <2>2 DEF x
  <1>5. Is(<< Op("ClearFirst"), Op("ClearOutRun") >>, {"ClearFirst", "ClearOutRun"})
    <2> DEFINE x == Op("ClearFirst")
               y == Op("ClearOutRun")
    <2>1. x \in Call /\ x[1] = "ClearFirst" /\ y \in Call /\ y[1] = "ClearOutRun"
      BY DEF Op, Call, CallName
    <2> HIDE DEF x, y
    <2>2. Is(<<x, y>>, {"ClearFirst", "ClearOutRun"}) BY <2>1, IsTwo DEF LastOnly, Completes
    <2> QED BY <2>2 DEF x, y
  <1> QED BY ONLY <1>1, <1>2, <1>3, <1>4, <1>5

LEMMA MainLoopStep == ASSUME IInv, MainLoop PROVE IInv'
  <1> DEFINE o == << Op("FreeRunOutputs") >>
             i == << Op("FreeRunInputs") >>
             e == << Op("ECAT_Main") >>
             c == (~escInt \/ ~first) /\ ~dcActive
             p == When(~escInt, o)
             q == p \o ECAT_Application \o i
             r == When(c, q)
             a == r \o e
             P == IF ~escInt THEN {"FreeRunOutputs"} ELSE {}
             Q == P \cup {"APPL_Application"} \cup {"FreeRunInputs"}
             R == IF c THEN Q ELSE {}
             A == R \cup {"ECAT_Main"}
  <1>1. todo["main"] = << >> /\ todo' = [todo EXCEPT !["main"] = a]
    BY DEF MainLoop
  <1>2. Is(o, {"FreeRunOutputs"}) /\ Is(i, {"FreeRunInputs"}) /\ Is(e, {"ECAT_Main"})
    BY MainCalls
  <1> HIDE DEF o, i, e
  <1>3. Is(p, P) BY <1>2, IsEmpty DEF When
  <1>4. P \subseteq {"FreeRunOutputs"} /\ (P # {} => ~escInt) OBVIOUS
  <1> HIDE DEF p, P
  <1>5. Is(p \o ECAT_Application, P \cup {"APPL_Application"})
    BY <1>3, <1>4, OutputLists, IsJoin DEF LastOnly, Completes
  <1>6. Is(q, Q) BY <1>2, <1>4, <1>5, IsJoin DEF LastOnly, Completes
  <1>7. Q \subseteq {"FreeRunOutputs", "APPL_Application", "FreeRunInputs"}
          /\ ("FreeRunOutputs" \in Q => ~escInt)
    BY <1>4
  <1> HIDE DEF q, Q
  <1>8. Is(r, R) BY <1>6, IsEmpty DEF When
  <1>9. R \subseteq {"FreeRunOutputs", "APPL_Application", "FreeRunInputs"}
          /\ ("FreeRunOutputs" \in R => ~escInt) /\ (R # {} => c)
    BY <1>7
  <1>10. c => ~ (escInt /\ outRun) /\ ~dcActive
    <2>1. N("main") = {} BY <1>1, NamesEmpty DEF N
    <2>2. outRun => first BY <2>1 DEF IInv, Running
    <2> QED BY <2>2
  <1> HIDE DEF r, R, c
  <1>11. Is(a, A) BY <1>2, <1>8, <1>9, IsJoin DEF LastOnly, Completes
  <1>12. /\ A \subseteq {"FreeRunOutputs", "APPL_Application", "FreeRunInputs", "ECAT_Main"}
         /\ "FreeRunOutputs" \in A => ~escInt
         /\ "FreeRunInputs" \in A => ~ (escInt /\ outRun) /\ ~dcActive
    BY <1>9, <1>10
  <1> HIDE DEF a, A
  <1>13. Allowed("main", A)
    <2>1. A \subseteq May("main") BY <1>12 DEF May, OutCalls, InCalls
    <2>2. A \cap OutCalls # {} => ~escInt BY <1>12 DEF OutCalls
    <2>3. A \cap InCalls # {} => ~ (escInt /\ outRun) /\ ~dcActive BY <1>12 DEF InCalls
    <2> QED BY <2>1, <2>2, <2>3 DEF Allowed, OutFlags, InFlags, Unmapped
  <1>14. Quiet /\ UNCHANGED <<sm2, sm3, at>> BY StaysQuiet DEF MainLoop, esc
  <1>15. A \cap (Completes \cup Starts) = {} BY <1>12 DEF Completes, Starts
  <1> QED BY <1>1, <1>11, <1>13, <1>14, <1>15, BeginIInv DEF Task

LEMMA FreeRunOutputsStep == ASSUME IInv, FreeRunOutputs PROVE IInv'
  <1> DEFINE a == When(sm2.event /\ outRun, PDO_OutputMapping)
  <1>1. Op("FreeRunOutputs")[1] = "FreeRunOutputs" BY OpName DEF CallName
  <1>2. Takes("main", "FreeRunOutputs", a) BY <1>1, CallTaken DEF FreeRunOutputs
  <1>3. Is(a, {"LockOutputs"}) \/ Is(a, {}) BY OutputLists, IsEmpty DEF When
  <1>4. Quiet /\ UNCHANGED <<sm2, sm3, at>>
    BY DEF FreeRunOutputs, Quiet, SameFlags, esc
  <1> HIDE DEF a
  <1>5. a \in Seq(Call) /\ Names(a) \subseteq {"LockOutputs"} /\ Fits("FreeRunOutputs", a)
    BY <1>3 DEF Is, Fits, LastOnly
  <1>6. Allowed("main", Names(a))
    <2>1. Allowed("main", {"FreeRunOutputs"}) BY <1>2, AllowedHead DEF IInv, Task
    <2>2. ~escInt BY <2>1 DEF Allowed, OutFlags, OutCalls
    <2>3. Names(a) \subseteq May("main") /\ Names(a) \cap InCalls = {}
      BY <1>5 DEF May, OutCalls, InCalls
    <2> QED BY <2>2, <2>3 DEF Allowed, OutFlags, InFlags, Unmapped
  <1>7. "FreeRunOutputs" \notin Keep /\ Names(a) \cap (Completes \cup Starts) = {}
    BY <1>5 DEF Keep, Completes, Starts
  <1> QED BY <1>2, <1>4, <1>5, <1>6, <1>7, QuietIInv DEF Task

LEMMA FreeRunInputsStep == ASSUME IInv, FreeRunInputs PROVE IInv'
  <1> DEFINE a == When(inRun, PDO_InputMapping)
  <1>1. Op("FreeRunInputs")[1] = "FreeRunInputs" BY OpName DEF CallName
  <1>2. Takes("main", "FreeRunInputs", a) BY <1>1, CallTaken DEF FreeRunInputs
  <1>3. Is(a, {"Gather", "LockInputs"}) \/ Is(a, {}) BY InputLists, IsEmpty DEF When
  <1>4. Quiet /\ UNCHANGED <<sm2, sm3, at>> BY StaysQuiet DEF FreeRunInputs, esc
  <1> HIDE DEF a
  <1>5. a \in Seq(Call) /\ Names(a) \subseteq {"Gather", "LockInputs"}
          /\ Fits("FreeRunInputs", a)
    BY <1>3 DEF Is, Fits, LastOnly
  <1>6. Allowed("main", Names(a))
    <2>1. Allowed("main", {"FreeRunInputs"}) BY <1>2, AllowedHead DEF IInv, Task
    <2>2. ~ (escInt /\ outRun) /\ ~ (dcActive /\ inRun)
      BY <2>1 DEF Allowed, InFlags, InCalls
    <2>3. Names(a) \subseteq May("main") /\ Names(a) \cap OutCalls = {}
      BY <1>5 DEF May, OutCalls, InCalls
    <2> QED BY <2>2, <2>3 DEF Allowed, OutFlags, InFlags, Unmapped
  <1>7. "FreeRunInputs" \notin Keep /\ Names(a) \cap (Completes \cup Starts) = {}
    BY <1>5 DEF Keep, Completes, Starts
  <1> QED BY <1>2, <1>4, <1>5, <1>6, <1>7, QuietIInv DEF Task

LEMMA EcatMainStep == ASSUME IInv, ECAT_Main PROVE IInv'
  <1> DEFINE k == bsp_pdi_post_read_indication({})
             c == << <<"Command", k>> >>
  <1>1. Op("ECAT_Main")[1] = "ECAT_Main" BY OpName DEF CallName
  <1>2. \/ Goes("main", << >>)
        \/ Goes("main", c)
    BY DEF ECAT_Main
  <1>3. Is(c, {"Command"})
    <2>1. k \in Nat BY DEF bsp_pdi_post_read_indication
    <2> HIDE DEF k
    <2> QED BY <2>1, CommandCall
  <1>4. Quiet /\ UNCHANGED <<sm2, sm3, at>> BY StaysQuiet DEF ECAT_Main, esc
  <1>5. Calls("main", Op("ECAT_Main")) BY DEF ECAT_Main
  <1> HIDE DEF c
  <1>6. CASE Goes("main", << >>)
    <2>1. Takes("main", "ECAT_Main", << >>) BY <1>1, <1>5, <1>6, CallTaken
    <2> QED BY <1>4, <2>1, PopIInv DEF Keep, Completes, Task
  <1>7. CASE Goes("main", c)
    <2>1. Takes("main", "ECAT_Main", c) BY <1>1, <1>5, <1>7, CallTaken
    <2>2. c \in Seq(Call) /\ Names(c) = {"Command"} /\ Fits("ECAT_Main", c)
      BY <1>3 DEF Is, Fits, LastOnly
    <2>3. Allowed("main", {"Command"})
      <3>1. {"Command"} \subseteq May("main") BY DEF May
      <3> QED BY <3>1, AllowedPlain DEF Task
    <2>4. "ECAT_Main" \notin Keep /\ {"Command"} \cap (Completes \cup Starts) = {}
      BY DEF Keep, Completes, Starts
    <2> QED BY <1>4, <2>1, <2>2, <2>3, <2>4, QuietIInv DEF Task
  <1> QED BY <1>2, <1>6, <1>7

-----------------------------------------------------------------------------
(* The main task: transitions.                                             *)

\* When the main task changes the flags it has nothing else to do, and the other
\* tasks have no call that depends on them.
LEMMA MainTakes ==
    ASSUME IInv, conf' = conf, NEW n \in LastOnly, NEW a, NEW A, Is(a, A),
           Takes("main", n, a), CanRun("main"), A \subseteq May("main"), A \cap OutCalls = {},
           A \cap InCalls # {} => ~ (escInt' /\ outRun') /\ ~ (dcActive' /\ inRun')
    PROVE  /\ Lists' /\ Where' /\ Effect("main", n, A)
           /\ N("main") = {n} /\ N("main")' = A
  <1>1. a \in Seq(Call) /\ Names(a) = A BY DEF Is
  <1>2. Fits(n, a) BY DEF Is, Fits, LastOnly
  <1>3. "main" \in Task BY DEF Task
  <1>4. Lists' /\ Effect("main", n, A) BY <1>1, <1>2, <1>3, Taken DEF IInv
  <1>5. N("main") = {n} /\ N("main")' = A BY <1>4 DEF Effect
  <1>6. Where'
    <2> SUFFICES ASSUME NEW u \in Task PROVE Allowed(u, N(u))' BY DEF Where
    <2>1. CASE u = "main"
      <3>1. (N("main") \subseteq May("main"))' BY <1>5 DEF May
      <3>2. OutFlags("main", N("main"))' BY <1>5 DEF OutFlags
      <3>3. InFlags("main", N("main"))' BY <1>5 DEF InFlags
      <3>4. Unmapped("main", N("main"))' BY DEF Unmapped
      <3> QED BY <2>1, <3>1, <3>2, <3>3, <3>4 DEF Allowed
    <2>2. CASE u # "main"
      <3>1. N(u)' = N(u) /\ N(u) \subseteq {"Command", "AwaitAck"} /\ N(u) \subseteq May(u)
        BY <1>4, <2>2, MainAlone DEF Effect, Others, IInv, Where, Allowed
      <3>2. N(u)' \cap OutCalls = {} /\ N(u)' \cap InCalls = {} /\ N(u)' \cap TouchCalls = {}
              /\ N(u)' \cap {"Sync0_Isr", "Sync1_Isr", "LatchDone", "ClearLatch"} = {}
        BY <3>1 DEF OutCalls, InCalls, TouchCalls
      <3>3. (N(u) \subseteq May(u))' BY <3>1 DEF May
      <3>4. OutFlags(u, N(u))' BY <3>2 DEF OutFlags
      <3>5. InFlags(u, N(u))' BY <3>2 DEF InFlags
      <3>6. Unmapped(u, N(u))' BY <3>2 DEF Unmapped
      <3> QED BY <3>3, <3>4, <3>5, <3>6 DEF Allowed
    <2> QED BY <2>1, <2>2
  <1> QED BY <1>4, <1>5, <1>6

\* A transition that leaves the buffers alone.
LEMMA MainBuffers ==
    ASSUME IInv, UNCHANGED <<conf, sm2, sm3, at>>, NEW n \in LastOnly \ {"ClearOutRun"}, NEW A,
           Effect("main", n, A), A \cap Completes = {}
    PROVE  OutBuffer' /\ InBuffer'
  <1>1. n \notin Completes \cup {"TouchLast"} BY DEF LastOnly, Completes
  <1> QED BY <1>1, BuffersSame DEF IInv, Task

LEMMA EcatMainTaken ==
    ASSUME NEW a, Calls("main", Op("ECAT_Main")), Goes("main", a)
    PROVE  Takes("main", "ECAT_Main", a) /\ CanRun("main")
  <1>1. Op("ECAT_Main")[1] = "ECAT_Main" BY OpName DEF CallName
  <1> QED BY <1>1, CallTaken

LEMMA EcatMainLast == "ECAT_Main" \in LastOnly \ {"ClearOutRun"}
  BY DEF LastOnly

LEMMA StartInputStep == ASSUME IInv, StartInputHandler PROVE IInv'
  <1> DEFINE l == << Op("SetInputRun") >>
             a == PDO_InputMapping \o l
             A == {"Gather", "LockInputs"} \cup {"SetInputRun"}
  <1>1. Is(a, A)
    <2>1. Is(l, {"SetInputRun"}) BY MainCalls
    <2> HIDE DEF l
    <2> QED BY <2>1, InputLists, IsJoin DEF LastOnly, Completes
  <1>2. Takes("main", "ECAT_Main", a) /\ CanRun("main")
    BY EcatMainTaken DEF StartInputHandler
  <1>3. ~inRun /\ ~inRun' BY DEF StartInputHandler, IInv, Running
  <1>4. UNCHANGED <<conf, sm2, sm3, at>> BY DEF StartInputHandler, esc
  <1> HIDE DEF a
  <1>5. /\ Lists' /\ Where' /\ Effect("main", "ECAT_Main", A)
        /\ N("main") = {"ECAT_Main"} /\ N("main")' = A
    <2>1. A \subseteq May("main") /\ A \cap OutCalls = {} BY DEF May, OutCalls, InCalls
    <2>2. ~ (escInt' /\ outRun')
      <3>1. "ECAT_Main" \in LastOnly /\ "ECAT_Main" # "ClearOutRun" BY EcatMainLast
      <3>2. N("main") = {"ECAT_Main"}
        <4>1. a \in Seq(Call) /\ Fits("ECAT_Main", a) BY <1>1 DEF Is, Fits, LastOnly
        <4> QED BY <1>2, <3>1, <4>1, Taken DEF IInv, Effect, Task
      <3>3. ~outRun BY <3>2 DEF IInv, Running, StartInputHandler
      <3> QED BY <3>3 DEF StartInputHandler
    <2> QED BY <1>1, <1>2, <1>3, <1>4, <2>1, <2>2, EcatMainLast, MainTakes
  <1>6. OutBuffer' /\ InBuffer'
    <2>1. A \cap Completes = {} BY DEF Completes
    <2> QED BY <1>4, <1>5, <2>1, EcatMainLast, MainBuffers
  <1>7. Running'
    <2>1. ~outRun' BY <1>5 DEF IInv, Running, StartInputHandler
    <2>2. esm' = "SAFEOP" /\ "ClearFirst" \notin N("main")'
      BY <1>5 DEF StartInputHandler
    <2>3. sync'.inp = InputSync(conf) /\ DOMAIN sync' = {"out", "inp", "latch", "latched"}
      BY DEF StartInputHandler, SyncOf
    <2>4. dcActive' = ({OutputSync(conf), InputSync(conf)} \cap {"DC0", "DC1"} # {})
      BY DEF StartInputHandler
    <2>5. InputSync(conf) = "DC1" =>
              {OutputSync(conf), InputSync(conf)} \cap {"DC0", "DC1"} # {}
      OBVIOUS
    <2>6. InputSync(conf) \in {"SM", "SM2"} => OutputSync(conf) \in {"SM", "SM2"}
      BY DEF InputSync, OutputSync
    <2>7. InputSync(conf) \in {"SM", "SM2"} =>
              ~ ({OutputSync(conf), InputSync(conf)} \cap {"DC0", "DC1"} # {})
      BY <2>6
    <2>8. (~conf.mapped => al = {})' /\ event' \subseteq {"pdi", "sync0", "sync1"}
      BY DEF IInv, Running, StartInputHandler, esc
    <2> QED BY <1>3, <2>1, <2>2, <2>3, <2>4, <2>5, <2>7, <2>8 DEF Running
  <1> QED BY <1>5, <1>6, <1>7 DEF IInv

LEMMA SetInputStep == ASSUME IInv, SetInputRun PROVE IInv'
  <1>1. Op("SetInputRun")[1] = "SetInputRun" BY OpName DEF CallName
  <1>2. Takes("main", "SetInputRun", << >>) /\ CanRun("main")
    BY <1>1, CallTaken DEF SetInputRun
  <1>3. UNCHANGED <<conf, sm2, sm3, at>> BY DEF SetInputRun
  <1>4. /\ Lists' /\ Where' /\ Effect("main", "SetInputRun", {})
        /\ N("main") = {"SetInputRun"} /\ N("main")' = {}
    <2>1. "SetInputRun" \in LastOnly BY DEF LastOnly
    <2> QED BY <1>2, <1>3, <2>1, IsEmpty, MainTakes
  <1>5. OutBuffer' /\ InBuffer'
    <2>1. "SetInputRun" \in LastOnly \ {"ClearOutRun"} BY DEF LastOnly
    <2> QED BY <1>3, <1>4, <2>1, MainBuffers
  <1>6. Running'
    BY <1>4 DEF IInv, Running, SetInputRun
  <1> QED BY <1>4, <1>5, <1>6 DEF IInv

LEMMA StartOutputStep == ASSUME IInv, StartOutputHandler PROVE IInv'
  <1>1. Takes("main", "ECAT_Main", << >>) /\ CanRun("main")
    BY EcatMainTaken DEF StartOutputHandler
  <1>2. UNCHANGED <<conf, sm2, sm3, at>> BY DEF StartOutputHandler, esc
  <1>3. /\ Lists' /\ Where' /\ Effect("main", "ECAT_Main", {})
        /\ N("main") = {"ECAT_Main"} /\ N("main")' = {}
    BY <1>1, <1>2, IsEmpty, EcatMainLast, MainTakes
  <1>4. OutBuffer' /\ InBuffer' BY <1>2, <1>3, EcatMainLast, MainBuffers
  <1>5. Running'
    BY <1>3 DEF IInv, Running, StartOutputHandler, flags, esc
  <1> QED BY <1>3, <1>4, <1>5 DEF IInv

LEMMA ControlResStep == ASSUME IInv, AL_ControlRes PROVE IInv'
  <1>1. UNCHANGED <<conf, sm2, sm3, at>> BY DEF AL_ControlRes, esc
  <1>2. CASE first /\ esm' = "OP" /\ outRun' = TRUE /\ Goes("main", << >>)
    <2>1. Takes("main", "ECAT_Main", << >>) /\ CanRun("main")
      BY <1>2, EcatMainTaken DEF AL_ControlRes
    <2>2. /\ Lists' /\ Where' /\ Effect("main", "ECAT_Main", {})
          /\ N("main") = {"ECAT_Main"} /\ N("main")' = {}
      BY <1>1, <2>1, IsEmpty, EcatMainLast, MainTakes
    <2>3. OutBuffer' /\ InBuffer' BY <1>1, <2>2, EcatMainLast, MainBuffers
    <2>4. Running'
      BY <1>2, <2>2 DEF IInv, Running, AL_ControlRes, esc
    <2> QED BY <2>2, <2>3, <2>4 DEF IInv
  <1> DEFINE a == << Op("ClearFirst"), Op("ClearOutRun") >>
             A == {"ClearFirst", "ClearOutRun"}
  <1>3. Is(a, A) BY MainCalls
  <1>4. ASSUME Goes("main", a) PROVE Takes("main", "ECAT_Main", a) /\ CanRun("main")
    BY <1>4, EcatMainTaken DEF AL_ControlRes
  <1>5. \/ first /\ esm' = "OP" /\ outRun' = TRUE /\ Goes("main", << >>)
        \/ esm' = "SAFEOP" /\ UNCHANGED outRun /\ Goes("main", a)
    BY DEF AL_ControlRes
  <1> HIDE DEF a
  <1>6. CASE esm' = "SAFEOP" /\ UNCHANGED outRun /\ Goes("main", a)
    <2>1. Takes("main", "ECAT_Main", a) /\ CanRun("main") BY <1>4, <1>6
    <2>2. /\ Lists' /\ Where' /\ Effect("main", "ECAT_Main", A)
          /\ N("main") = {"ECAT_Main"} /\ N("main")' = A
      <3>1. A \subseteq May("main") /\ A \cap OutCalls = {} /\ A \cap InCalls = {}
        BY DEF May, OutCalls, InCalls
      <3> QED BY <1>1, <1>3, <2>1, <3>1, EcatMainLast, MainTakes
    <2>3. OutBuffer' /\ InBuffer'
      <3>1. A \cap Completes = {} BY DEF Completes
      <3> QED BY <1>1, <2>2, <3>1, EcatMainLast, MainBuffers
    <2>4. Running'
      BY <1>6, <2>2 DEF IInv, Running, AL_ControlRes, esc
    <2> QED BY <2>2, <2>3, <2>4 DEF IInv
  <1> QED BY <1>2, <1>5, <1>6

LEMMA StopOutputStep == ASSUME IInv, StopOutputHandler PROVE IInv'
  <1> DEFINE A == {"ResetTx"} \cup {"ClearFirst", "ClearOutRun"}
  <1>1. Is(StopOutputs, A)
    <2> DEFINE l == << Op("ClearFirst"), Op("ClearOutRun") >>
    <2>1. Is(l, {"ClearFirst", "ClearOutRun"}) BY MainCalls
    <2> HIDE DEF l
    <2>2. Is(PDO_ResetOutputs \o l, A) BY <2>1, OutputLists, IsJoin DEF LastOnly, Completes
    <2> QED BY <2>2 DEF StopOutputs, l
  <1>2. Takes("main", "ECAT_Main", StopOutputs) /\ CanRun("main")
    BY EcatMainTaken DEF StopOutputHandler
  <1>3. UNCHANGED <<conf, sm2, sm3, at>> BY DEF StopOutputHandler, esc
  <1>4. /\ Lists' /\ Where' /\ Effect("main", "ECAT_Main", A)
        /\ N("main") = {"ECAT_Main"} /\ N("main")' = A
    <2>1. A \subseteq May("main") /\ A \cap OutCalls = {} /\ A \cap InCalls = {}
      BY DEF May, OutCalls, InCalls
    <2> QED BY <1>1, <1>2, <1>3, <2>1, EcatMainLast, MainTakes
  <1>5. OutBuffer' /\ InBuffer'
    <2>1. A \cap Completes = {} BY DEF Completes
    <2> QED BY <1>3, <1>4, <2>1, EcatMainLast, MainBuffers
  <1>6. Running'
    BY <1>4 DEF IInv, Running, StopOutputHandler, flags, esc
  <1> QED BY <1>4, <1>5, <1>6 DEF IInv

LEMMA ClearFirstStep == ASSUME IInv, ClearFirst PROVE IInv'
  <1>1. PICK n \in {"ClearFirst", "ECAT_Main"} :
           Takes("main", n, << >>) /\ (n = "ECAT_Main" => ~outRun)
    <2>1. Op("ClearFirst")[1] = "ClearFirst" BY OpName DEF CallName
    <2>2. CASE Calls("main", Op("ClearFirst")) /\ Goes("main", << >>)
      BY <2>1, <2>2, CallTaken
    <2>3. CASE Calls("main", Op("ECAT_Main")) /\ ~outRun /\ Goes("main", << >>)
      BY <2>3, EcatMainTaken
    <2> QED BY <2>2, <2>3 DEF ClearFirst
  <1>2. << >> \in Seq(Call) /\ Names(<< >>) = {} /\ Fits(n, << >>) BY NamesEmpty DEF Fits
  <1>3. Lists' /\ Effect("main", n, {}) BY <1>1, <1>2, Taken DEF IInv, Task
  <1>4. SameFlags /\ UNCHANGED <<conf, escInt, dcActive, sm2, sm3, at>>
    BY DEF ClearFirst, SameFlags, esc
  <1>5. Where'
    <2>1. Allowed("main", {}) BY AllowedEmpty DEF Task
    <2> QED BY <1>3, <1>4, <2>1, SameFlagsWhere DEF IInv, Effect, Task
  <1>6. OutBuffer' /\ InBuffer'
    <2>1. n \notin Completes \cup {"TouchLast"} BY DEF Completes
    <2> QED BY <1>3, <1>4, <2>1, BuffersSame DEF IInv, Task
  <1>7. N("main")' \subseteq N("main") /\ N("main") \subseteq {n} \cup N("main")' /\ n \in N("main")
    BY <1>3 DEF Effect
  <1>8. Running'
    <2>1. "ClearOutRun" \in N("main") => "ClearOutRun" \in N("main")' BY <1>7
    <2>2. outRun => "ClearOutRun" \in N("main")'
      BY <1>1, <1>7, <2>1 DEF IInv, Running
    <2> QED BY <1>7, <2>1, <2>2 DEF IInv, Running, ClearFirst, esc
  <1> QED BY <1>3, <1>5, <1>6, <1>8 DEF IInv

LEMMA ClearOutRunStep == ASSUME IInv, ClearOutRun PROVE IInv'
  <1>1. Op("ClearOutRun")[1] = "ClearOutRun" BY OpName DEF CallName
  <1>2. Takes("main", "ClearOutRun", << >>) /\ CanRun("main")
    BY <1>1, CallTaken DEF ClearOutRun
  <1>3. UNCHANGED <<conf, sm2, sm3, at>> BY DEF ClearOutRun, esc
  <1>4. /\ Lists' /\ Where' /\ Effect("main", "ClearOutRun", {})
        /\ N("main") = {"ClearOutRun"} /\ N("main")' = {}
    <2>1. "ClearOutRun" \in LastOnly BY DEF LastOnly
    <2> QED BY <1>2, <1>3, <2>1, IsEmpty, MainTakes
  <1>5. OutBuffer' /\ InBuffer'
    <2>1. "ClearOutRun" \notin Completes \cup {"TouchLast"} BY DEF Completes
    <2>2. "ClearOutRun" \in LastOnly BY DEF LastOnly
    <2> QED BY <1>3, <1>4, <2>1, <2>2, BuffersSame DEF IInv, Task
  <1>6. Running'
    BY <1>4 DEF IInv, Running, ClearOutRun, esc
  <1> QED BY <1>4, <1>5, <1>6 DEF IInv

LEMMA StopInputStep == ASSUME IInv, StopInputHandler PROVE IInv'
  <1>1. Takes("main", "ECAT_Main", << >>) /\ CanRun("main")
    BY EcatMainTaken DEF StopInputHandler
  <1>2. UNCHANGED <<conf, sm3, at>> BY DEF StopInputHandler
  <1>3. /\ Lists' /\ Where' /\ Effect("main", "ECAT_Main", {})
        /\ N("main") = {"ECAT_Main"} /\ N("main")' = {}
    BY <1>1, <1>2, IsEmpty, EcatMainLast, MainTakes
  <1>4. OutBuffer'
    <2>1. sm2'.lock = sm2.lock
            /\ sm2' \in [lock : {"available", "start", "finish"}, new : BOOLEAN, event : BOOLEAN]
      BY DEF StopInputHandler, IInv, OutBuffer
    <2> QED BY <1>3, <2>1, OutSame DEF IInv, Effect, Task
  <1>5. InBuffer' BY <1>2, <1>3, InSame DEF IInv, Effect, Task
  <1>6. Running'
    BY <1>3 DEF IInv, Running, StopInputHandler, SyncOff
  <1> QED BY <1>3, <1>4, <1>5, <1>6 DEF IInv

-----------------------------------------------------------------------------
(* The firmware and the master, the initial states, and the invariant.     *)

LEMMA ListsSame ==
    ASSUME IInv, SameFlags, todo' = todo
    PROVE  Lists' /\ Where' /\ \A t \in Task : N(t)' = N(t)
  <1>1. \A t \in Task : N(t)' = N(t) BY DEF N
  <1>2. Lists' BY DEF IInv, Lists
  <1>3. Where'
    <2> SUFFICES ASSUME NEW t \in Task PROVE Allowed(t, N(t))' BY DEF Where
    <2>1. Allowed(t, N(t)) /\ N(t)' = N(t) BY <1>1 DEF IInv, Where
    <2> QED BY <2>1, AllowedNext
  <1> QED BY <1>1, <1>2, <1>3

LEMMA EnvironmentStep == ASSUME IInv, Environment PROVE IInv'
  <1>1. SameFlags /\ todo' = todo /\ UNCHANGED <<conf, esm, escInt, dcActive, inRun, outRun, first>>
    BY DEF Environment, MasterWrites, OutputsReleased, InputsReleased, FirmwareAnswers,
           SyncPulse, SameFlags, flags
  <1>2. Lists' /\ Where' /\ \A t \in Task : N(t)' = N(t) BY <1>1, ListsSame
  <1>3. Running'
    <2>1. ~conf.mapped /\ al = {} => al' = {}
      BY DEF Environment, MasterWrites, OutputsReleased, InputsReleased, FirmwareAnswers,
             SyncPulse
    <2>2. event \subseteq {"pdi", "sync0", "sync1"} => event' \subseteq {"pdi", "sync0", "sync1"}
      BY DEF Environment, MasterWrites, OutputsReleased, InputsReleased, FirmwareAnswers,
             SyncPulse
    <2>3. N("main")' = N("main") BY <1>2 DEF Task
    <2> QED BY <1>1, <2>1, <2>2, <2>3 DEF IInv, Running, SameFlags
  <1>4. OutBuffer'
    <2>1. CASE OutputsReleased
      <3>1. sm2.lock = "finish" /\ sm2' = [lock |-> "available", new |-> FALSE, event |-> sm2.new]
        BY <2>1 DEF OutputsReleased
      <3> QED BY <1>2, <3>1 DEF IInv, OutBuffer
    <2>2. CASE MasterWrites
      <3>1. sm2' = [sm2 EXCEPT !.event = TRUE, !.new = sm2.lock # "available"]
        BY <2>2 DEF MasterWrites
      <3> QED BY <1>2, <3>1 DEF IInv, OutBuffer
    <2>3. CASE InputsReleased \/ FirmwareAnswers \/ SyncPulse
      <3>1. sm2' = sm2 BY <2>3 DEF InputsReleased, FirmwareAnswers, SyncPulse
      <3> QED BY <1>2, <3>1 DEF IInv, OutBuffer
    <2> QED BY <2>1, <2>2, <2>3 DEF Environment
  <1>5. InBuffer'
    <2>1. CASE InputsReleased
      <3>1. at \in [Task -> {"none", "host", "master"}] BY DEF IInv, InBuffer
      <3>2. sm3 = "finish" /\ sm3' = "available"
              /\ at' = [t \in Task |-> CASE at[t] = "host" -> "master"
                                         [] at[t] = "master" -> "host" [] OTHER -> "none"]
        BY <2>1 DEF InputsReleased
      <3>3. at' \in [Task -> {"none", "host", "master"}]
              /\ \A t \in Task : at'[t] # "none" <=> at[t] # "none"
        BY <3>1, <3>2
      <3>4. InputsOwned'
        BY <1>1, <3>2, <3>3 DEF IInv, InBuffer, InputsOwned, Task
      <3> QED BY <1>2, <3>2, <3>3, <3>4 DEF IInv, InBuffer
    <2>2. CASE OutputsReleased \/ MasterWrites \/ FirmwareAnswers \/ SyncPulse
      <3>1. UNCHANGED <<conf, sm3, at, escInt, dcActive>>
        BY <2>2 DEF OutputsReleased, MasterWrites, FirmwareAnswers, SyncPulse, flags
      <3> QED BY <1>2, <3>1 DEF IInv, InBuffer, InputsOwned
    <2> QED BY <2>1, <2>2 DEF Environment
  <1> QED BY <1>2, <1>3, <1>4, <1>5 DEF IInv

LEMMA StutterStep == ASSUME IInv, UNCHANGED vars PROVE IInv'
  <1>1. SameFlags /\ todo' = todo
          /\ UNCHANGED <<conf, esm, escInt, dcActive, inRun, outRun, first, sync, al, event,
                         sm2, sm3, at>>
    BY DEF vars, flags, esc, SameFlags
  <1>2. Lists' /\ Where' /\ \A t \in Task : N(t)' = N(t) BY <1>1, ListsSame
  <1>3. Running'
    <2>1. N("main")' = N("main") BY <1>2 DEF Task
    <2> QED BY <1>1, <2>1 DEF IInv, Running
  <1>4. OutBuffer' BY <1>1, <1>2 DEF IInv, OutBuffer
  <1>5. InBuffer' BY <1>1, <1>2 DEF IInv, InBuffer, InputsOwned
  <1> QED BY <1>2, <1>3, <1>4, <1>5 DEF IInv

LEMMA InitIInv == ASSUME Init PROVE IInv
  <1>1. \A t \in Task : todo[t] = << >> BY DEF Init
  <1>2. \A t \in Task : N(t) = {} BY <1>1, NamesEmpty DEF N
  <1>3. Lists BY <1>1, NamesEmpty DEF Lists, Init
  <1>4. Where BY <1>2, AllowedEmpty DEF Where
  <1>5. Running
    <2>1. N("main") = {} BY <1>2 DEF Task
    <2>2. DOMAIN sync = {"out", "inp", "latch", "latched"} BY DEF Init, SyncOff, SyncOf
    <2> QED BY <2>1, <2>2 DEF Running, Init
  <1>6. OutBuffer BY <1>2 DEF OutBuffer, Init
  <1>7. InBuffer BY <1>2 DEF InBuffer, InputsOwned, Init
  <1> QED BY <1>3, <1>4, <1>5, <1>6, <1>7 DEF IInv

LEMMA IInvStep == ASSUME IInv, [Next]_vars PROVE IInv'
  <1>1. ASSUME NEW t \in Task, Mapping(t) PROVE IInv'
    BY <1>1, LockOutputsStep, CompleteOutputsStep, TouchStep, ExchangeStep, CopiesStep,
       LockInputsStep, CompleteInputsStep DEF Mapping
  <1>2. ASSUME NEW t \in Task, Handler(t) PROVE IInv'
    BY <1>2, WakeUpStep, PdiStep, OutputsReceivedStep, Sync0Step, LatchDoneStep, Sync1Step,
       ClearLatchStep, SyncAckStep, CommandStep, AwaitAckStep DEF Handler
  <1>3. CASE Main
    BY <1>3, MainLoopStep, FreeRunOutputsStep, FreeRunInputsStep, EcatMainStep,
       StartInputStep, SetInputStep, StartOutputStep, ControlResStep, StopOutputStep,
       ClearFirstStep, ClearOutRunStep, StopInputStep DEF Main
  <1>4. CASE Environment BY <1>4, EnvironmentStep
  <1>5. CASE UNCHANGED vars BY <1>5, StutterStep
  <1> QED BY <1>1, <1>2, <1>3, <1>4, <1>5 DEF Next

\* The inductive invariant holds in every reachable state.
THEOREM Inductive == Spec => []IInv
  <1>1. Init => IInv BY InitIInv
  <1>2. IInv /\ [Next]_vars => IInv' BY IInvStep
  <1> QED BY <1>1, <1>2, PTL DEF Spec

-----------------------------------------------------------------------------
(* The properties.                                                         *)

\* Has and At of the properties, in names.
LEMMA HasNames ==
    ASSUME Lists, NEW t \in Task, NEW S
    PROVE  Has(t, S) <=> N(t) \cap S # {}
  <1>1. DOMAIN todo[t] = 1 .. Len(todo[t]) BY DEF Lists
  <1> QED BY <1>1 DEF Has, N, Names

LEMMA AtName ==
    ASSUME Lists, NEW t \in Task, NEW op, At(t, op)
    PROVE  op[1] \in N(t) /\ op = Head(todo[t])
  <1>1. todo[t] \in Seq(Call) /\ ListOK(todo[t]) /\ todo[t] # << >> /\ Head(todo[t]) = op
    BY DEF Lists, At
  <1> QED BY <1>1, TailOK DEF N

\* fsoe_ipc_master_exchange is never entered by two tasks, whatever the mode:
\* in free run only the main task calls it, with interrupts only the PDI task.
THEOREM NoTwoExchanges == Spec => []OneExchange
  <1>1. IInv => OneExchange
    <2> SUFFICES ASSUME IInv, NEW t \in Task, NEW u \in Task,
                        At(t, Op("Exchange")), At(u, Op("Exchange"))
                 PROVE  t = u
      BY DEF OneExchange
    <2>1. Op("Exchange")[1] = "Exchange" BY OpName DEF CallName
    <2>2. "Exchange" \in N(t) /\ "Exchange" \in N(u) BY <2>1, AtName DEF IInv
    <2> QED BY <2>2, OneOutputTask DEF IInv, OutCalls
  <1> QED BY <1>1, Inductive, PTL

\* The outputs a task copies are those of one frame.
THEOREM OutputsOfOneFrame == Spec => []OutputsOwned
  <1>1. IInv => OutputsOwned
    <2> SUFFICES ASSUME IInv, NEW t \in Task, Has(t, {"CompleteOutputs"})
                 PROVE  sm2.lock = "start"
      BY DEF OutputsOwned
    <2>1. "CompleteOutputs" \in N(t) BY HasNames DEF IInv
    <2> QED BY <2>1 DEF IInv, OutBuffer
  <1> QED BY <1>1, Inductive, PTL

\* The inputs a task writes stay its own until the last byte, but for SYNC
\* signals in the AL event and the start of SM synchronous mode.
THEOREM InputsOfOneTask == Spec => []InputsOwned
  <1>1. IInv => InputsOwned BY DEF IInv, InBuffer
  <1> QED BY <1>1, Inductive, PTL

\* No task leaves a buffer locked behind.
THEOREM LocksReleased == Spec => []NoLockLeft
  <1>1. IInv => NoLockLeft
    <2> SUFFICES ASSUME IInv PROVE NoLockLeft OBVIOUS
    <2>1. \A t \in Task : Has(t, {"CompleteOutputs", "TouchLast"}) <=>
              "CompleteOutputs" \in N(t) \/ "TouchLast" \in N(t)
      BY HasNames DEF IInv
    <2>2. \A t \in Task : Has(t, {"CompleteInputs"}) <=> "CompleteInputs" \in N(t)
      BY HasNames DEF IInv
    <2> QED BY <2>1, <2>2 DEF IInv, OutBuffer, InBuffer, NoLockLeft
  <1> QED BY <1>1, Inductive, PTL

\* Outside DC mode no FSoE image is sent that was made of two answers.
THEOREM RepliesOfOneExchange == Spec => []RepliesWhole
  <1>1. IInv => RepliesWhole
    <2> DEFINE g == <<"Gather", 2>>
               r == <<"ApplyReply", 2>>
    <2>1. g[1] = "Gather" /\ r[1] = "ApplyReply" OBVIOUS
    <2> HIDE DEF g, r
    <2>2. ASSUME IInv, NEW t \in Task, NEW u \in Task, ~dcActive, At(t, g), At(u, r)
          PROVE  FALSE
      <3>1. "Gather" \in N(t) /\ "ApplyReply" \in N(u) BY <2>1, <2>2, AtName DEF IInv
      <3>2. t # u BY <2>1, <2>2, AtName DEF IInv
      <3>3. Allowed(t, N(t)) /\ Allowed(u, N(u)) BY <2>2 DEF IInv, Where
      <3>4. u = "main" \/ u = "pdi"
        BY <3>1, <3>3 DEF Allowed, May, SyncCalls, InCalls, OutCalls, Task
      <3>5. u = "main" => ~escInt BY <3>1, <3>3 DEF Allowed, OutFlags, OutCalls
      <3>6. u = "pdi" => escInt /\ outRun BY <3>1, <3>3 DEF Allowed, OutFlags, OutCalls
      <3>7. InFlags(t, N(t)) /\ N(t) \cap InCalls # {} BY <3>1, <3>3 DEF Allowed, InCalls
      <3>8. t = "main" => ~ (escInt /\ outRun) BY <3>7 DEF InFlags
      <3>9. t = "pdi" => escInt BY <2>2, <3>7 DEF InFlags
      <3>10. t \in {"main", "pdi"} BY <2>2, <3>7 DEF InFlags, Task
      <3> QED BY <3>2, <3>4, <3>5, <3>6, <3>8, <3>9, <3>10
    <2> QED BY <2>2 DEF RepliesWhole, g, r
  <1> QED BY <1>1, Inductive, PTL

=============================================================================
