---------------------------- MODULE MailboxProofs ----------------------------
(***************************************************************************)
(* Proofs about Mailbox, for every set of requests and buffers, every size *)
(* of the queues and every number of requests, losses, retries, failures   *)
(* and restarts.                                                           *)
(*                                                                         *)
(* The handler's functions are operators on its state s, so each of them   *)
(* has a lemma of its own: what it does to the fields of s, and that it    *)
(* keeps the parts of the invariant.                                       *)
(***************************************************************************)
EXTENDS Mailbox, SequenceTheorems, FiniteSetTheorems, TLAPS

Service == {"coe", "foe", "eoe"}

\* The handler, with the history not yet known to be bounded.
Fields ==
    [running : BOOLEAN, sm0 : Message, sm1 : Message,
     rxq : Seq(Buffers), txq : Seq(Buffers),
     read : Pointer, repeat : Pointer, store : Pointer,
     full : BOOLEAN, toggle : BOOLEAN, locked : BOOLEAN,
     stored : SUBSET Service,
     wcnt : 0 .. MaxCounter, rcnt : 0 .. MaxCounter + 1,
     coeStored : Pointer, foeStored : Pointer, eoeStored : Pointer,
     fragsLeft : 0 .. ListFrags, nextFrag : Nat,
     listReq : 0 .. MaxReq,
     eoePending : BOOLEAN, eoeFrag : 0 .. EoeFrags - 1,
     eoeReq : 0 .. MaxReq,
     heap : SUBSET Buffers, buf : [Buffers -> Message],
     strays : Nat, freedTwice : BOOLEAN,
     fails : 0 .. MaxFails,
     sent : Seq(Message), served : Seq(1 .. MaxReq)]

-----------------------------------------------------------------------------
(* The inductive invariant.                                                *)

\* Buffers of the handler itself, without those its services have stored.
Kept(s) ==
    (IF s.full THEN {s.read} ELSE {}) \cup ({s.repeat, s.store} \ {0})
    \cup ToSet(s.rxq) \cup ToSet(s.txq)

\* No two of its places have the same buffer.
Apart(s) ==
    /\ s.full => s.read \notin {0, s.repeat, s.store}
    /\ s.repeat # 0 => s.repeat # s.store
    /\ \A b \in ToSet(s.rxq) \cup ToSet(s.txq) : b \notin {s.read, s.repeat, s.store}
    /\ ToSet(s.rxq) \cap ToSet(s.txq) = {}
    /\ IsInjective(s.rxq) /\ IsInjective(s.txq)

\* With the send mailbox empty nothing waits; while a response is stored, the
\* one that was repeated is in the mailbox.
Quiet(s) ==
    /\ ~s.full => s.txq = <<>> /\ s.store = 0 /\ s.read = s.repeat
    /\ s.store # 0 => s.repeat = 0

\* Responses before the one in the send mailbox.
Base(s) == Len(s.sent) - Len(s.txq) - (IF s.store # 0 THEN 1 ELSE 0)
                                    - (IF s.full THEN 1 ELSE 0)

\* Where the responses accepted last are.
Line(s) ==
    /\ Base(s) \in Nat
    /\ s.repeat # 0 => Base(s) >= 1 /\ s.buf[s.repeat] = s.sent[Base(s)]
    /\ s.full => s.buf[s.read] = s.sent[Base(s) + 1]
    /\ s.store # 0 => s.buf[s.store] = s.sent[Base(s) + 2]
    /\ \A i \in 1 .. Len(s.txq) :
          s.buf[s.txq[i]] = s.sent[Len(s.sent) - Len(s.txq) + i]
    /\ s.sm1 # Empty => s.full /\ s.sm1 = s.buf[s.read]

\* Neighbours have different counters.
Counters(s) ==
    /\ \A i \in 1 .. Len(s.sent) : s.sent[i].cnt >= 1
    /\ \A i \in 1 .. Len(s.sent) - 1 : s.sent[i].cnt # s.sent[i + 1].cnt
    /\ s.running /\ s.sent # <<>> => ReadCounter(s) # s.sent[Len(s.sent)].cnt

Core(s) ==
    /\ s \in Fields
    /\ Apart(s) /\ Kept(s) \subseteq s.heap
    /\ Quiet(s) /\ Line(s) /\ Counters(s)

\* What the services have stored.
Held2(s) == {s.coeStored, s.eoeStored} \ {0}

Stores(s) ==
    /\ s.foeStored = 0
    /\ Held2(s) \cap Kept(s) = {}
    /\ s.coeStored # 0 => s.coeStored # s.eoeStored
    /\ Held2(s) \subseteq s.heap
    /\ ~s.freedTwice

\* What may still be asked of the services, and what does not run.
Asked(s) ==
    /\ "foe" \notin s.stored
    /\ "coe" \in s.stored => "list" \in Kinds
    /\ "eoe" \in s.stored \/ s.eoePending => "eoe" \in Kinds
    /\ ~s.running => /\ ~s.full /\ ~s.locked /\ ~s.toggle /\ ~s.eoePending
                     /\ s.stored = {} /\ s.rxq = <<>>
                     /\ s.repeat = 0 /\ s.eoeStored = 0

Good(s) == Core(s) /\ Stores(s) /\ Asked(s)

\* Buffers that are allocated and that nobody keeps.
Lost(s) == s.heap \ (Kept(s) \cup Held2(s))

-----------------------------------------------------------------------------
(* How a state follows another one.                                        *)

\* Responses that are out of the send mailbox.
Taken(s) == IF s.full /\ s.sm1 = Empty THEN Base(s) + 1 ELSE Base(s)

\* The response taken last can be repeated.
Behind(s) == (s.full /\ s.sm1 = Empty) \/ s.repeat # 0

\* The handler has noticed every read.
Visible(s) == s.full => s.sm1 # Empty

\* Responses are put behind the others, and requests are left alone.
Follows(s, t) ==
    /\ t.running = s.running /\ t.rxq = s.rxq
    /\ \A b \in ToSet(s.rxq) : t.buf[b] = s.buf[b]
    /\ Taken(t) = Taken(s)
    /\ Len(s.sent) <= Len(t.sent)
    /\ \A i \in 1 .. Len(s.sent) : t.sent[i] = s.sent[i]
    /\ s.sm1 # Empty => t.sm1 # Empty /\ t.repeat = s.repeat
    /\ Behind(s) => Behind(t)
    /\ Visible(s) => Visible(t)

\* Requests and the history of them.
Requests(s) == <<s.sm0, s.wcnt, s.locked, s.toggle, s.served, s.strays>>

\* Responses in the send mailbox and behind it, but for a stored one.
Waiting(s) == Len(s.txq) + (IF s.full THEN 1 ELSE 0)

LEMMA FollowsTrans ==
    ASSUME NEW s \in Fields, NEW t \in Fields, NEW u \in Fields,
           Follows(s, t), Follows(t, u)
    PROVE  Follows(s, u)
  <1>1. Len(s.sent) \in Nat /\ Len(t.sent) \in Nat /\ Len(u.sent) \in Nat
    BY LenProperties DEF Fields
  <1>2. \A i \in 1 .. Len(s.sent) : i \in 1 .. Len(t.sent) BY <1>1 DEF Follows
  <1>3. \A i \in 1 .. Len(s.sent) : u.sent[i] = s.sent[i] BY <1>2 DEF Follows
  <1>4. Len(s.sent) <= Len(u.sent) BY <1>1 DEF Follows
  <1> QED BY <1>3, <1>4 DEF Follows

-----------------------------------------------------------------------------
(* A field that gets a value of its type.                                  *)

LEMMA SetRunning == \A s \in Fields : \A x \in BOOLEAN : [s EXCEPT !.running = x] \in Fields
  BY DEF Fields
LEMMA SetSm0 == \A s \in Fields : \A x \in Message : [s EXCEPT !.sm0 = x] \in Fields
  BY DEF Fields
LEMMA SetSm1 == \A s \in Fields : \A x \in Message : [s EXCEPT !.sm1 = x] \in Fields
  BY DEF Fields
LEMMA SetRxq == \A s \in Fields : \A x \in Seq(Buffers) : [s EXCEPT !.rxq = x] \in Fields
  BY DEF Fields
LEMMA SetTxq == \A s \in Fields : \A x \in Seq(Buffers) : [s EXCEPT !.txq = x] \in Fields
  BY DEF Fields
LEMMA SetRead == \A s \in Fields : \A x \in Pointer : [s EXCEPT !.read = x] \in Fields
  BY DEF Fields
LEMMA SetRepeat == \A s \in Fields : \A x \in Pointer : [s EXCEPT !.repeat = x] \in Fields
  BY DEF Fields
LEMMA SetStore == \A s \in Fields : \A x \in Pointer : [s EXCEPT !.store = x] \in Fields
  BY DEF Fields
LEMMA SetFull == \A s \in Fields : \A x \in BOOLEAN : [s EXCEPT !.full = x] \in Fields
  BY DEF Fields
LEMMA SetToggle == \A s \in Fields : \A x \in BOOLEAN : [s EXCEPT !.toggle = x] \in Fields
  BY DEF Fields
LEMMA SetLocked == \A s \in Fields : \A x \in BOOLEAN : [s EXCEPT !.locked = x] \in Fields
  BY DEF Fields
LEMMA SetStored == \A s \in Fields : \A x \in SUBSET Service : [s EXCEPT !.stored = x] \in Fields
  BY DEF Fields
LEMMA SetWcnt == \A s \in Fields : \A x \in 0 .. MaxCounter : [s EXCEPT !.wcnt = x] \in Fields
  BY DEF Fields
LEMMA SetRcnt == \A s \in Fields : \A x \in 0 .. MaxCounter + 1 : [s EXCEPT !.rcnt = x] \in Fields
  BY DEF Fields
LEMMA SetCoeStored == \A s \in Fields : \A x \in Pointer : [s EXCEPT !.coeStored = x] \in Fields
  BY DEF Fields
LEMMA SetFoeStored == \A s \in Fields : \A x \in Pointer : [s EXCEPT !.foeStored = x] \in Fields
  BY DEF Fields
LEMMA SetEoeStored == \A s \in Fields : \A x \in Pointer : [s EXCEPT !.eoeStored = x] \in Fields
  BY DEF Fields
LEMMA SetFragsLeft == \A s \in Fields : \A x \in 0 .. ListFrags : [s EXCEPT !.fragsLeft = x] \in Fields
  BY DEF Fields
LEMMA SetNextFrag == \A s \in Fields : \A x \in Nat : [s EXCEPT !.nextFrag = x] \in Fields
  BY DEF Fields
LEMMA SetListReq == \A s \in Fields : \A x \in 0 .. MaxReq : [s EXCEPT !.listReq = x] \in Fields
  BY DEF Fields
LEMMA SetEoePending == \A s \in Fields : \A x \in BOOLEAN : [s EXCEPT !.eoePending = x] \in Fields
  BY DEF Fields
LEMMA SetEoeFrag == \A s \in Fields : \A x \in 0 .. EoeFrags - 1 : [s EXCEPT !.eoeFrag = x] \in Fields
  BY DEF Fields
LEMMA SetEoeReq == \A s \in Fields : \A x \in 0 .. MaxReq : [s EXCEPT !.eoeReq = x] \in Fields
  BY DEF Fields
LEMMA SetHeap == \A s \in Fields : \A x \in SUBSET Buffers : [s EXCEPT !.heap = x] \in Fields
  BY DEF Fields
LEMMA SetBuf == \A s \in Fields : \A x \in [Buffers -> Message] : [s EXCEPT !.buf = x] \in Fields
  BY DEF Fields
LEMMA SetStrays == \A s \in Fields : \A x \in Nat : [s EXCEPT !.strays = x] \in Fields
  BY DEF Fields
LEMMA SetFreedTwice == \A s \in Fields : \A x \in BOOLEAN : [s EXCEPT !.freedTwice = x] \in Fields
  BY DEF Fields
LEMMA SetFails == \A s \in Fields : \A x \in 0 .. MaxFails : [s EXCEPT !.fails = x] \in Fields
  BY DEF Fields
LEMMA SetSent == \A s \in Fields : \A x \in Seq(Message) : [s EXCEPT !.sent = x] \in Fields
  BY DEF Fields
LEMMA SetServed == \A s \in Fields : \A x \in Seq(1 .. MaxReq) : [s EXCEPT !.served = x] \in Fields
  BY DEF Fields

-----------------------------------------------------------------------------
(* Sequences.                                                              *)

LEMMA SetOfSeq ==
    ASSUME NEW S, NEW q \in Seq(S)
    PROVE  /\ ToSet(q) = {q[i] : i \in 1 .. Len(q)}
           /\ ToSet(q) \subseteq S
           /\ Len(q) \in Nat
  BY LenProperties DEF ToSet

LEMMA InjectiveSeq ==
    ASSUME NEW S, NEW q \in Seq(S)
    PROVE  IsInjective(q) <=> \A i, j \in 1 .. Len(q) : q[i] = q[j] => i = j
  BY LenProperties DEF IsInjective

LEMMA AppendSet ==
    ASSUME NEW S, NEW q \in Seq(S), NEW b \in S
    PROVE  /\ Append(q, b) \in Seq(S) /\ Len(Append(q, b)) = Len(q) + 1
           /\ ToSet(Append(q, b)) = ToSet(q) \cup {b}
           /\ IsInjective(q) /\ b \notin ToSet(q) => IsInjective(Append(q, b))
  <1> DEFINE p == Append(q, b)
  <1>1. /\ p \in Seq(S) /\ Len(p) = Len(q) + 1 /\ Len(q) \in Nat
        /\ \A i \in 1 .. Len(q) : p[i] = q[i]
        /\ p[Len(q) + 1] = b
    BY AppendProperties, LenProperties
  <1>2. ToSet(p) = {p[i] : i \in 1 .. Len(q) + 1} /\ ToSet(q) = {q[i] : i \in 1 .. Len(q)}
    BY <1>1, SetOfSeq
  <1>3. ToSet(p) = ToSet(q) \cup {b}
    <2>1. \A i \in 1 .. Len(q) + 1 : i \in 1 .. Len(q) \/ i = Len(q) + 1 BY <1>1
    <2>2. \A i \in 1 .. Len(q) : i \in 1 .. Len(q) + 1 BY <1>1
    <2>3. Len(q) + 1 \in 1 .. Len(q) + 1 BY <1>1
    <2> HIDE DEF p
    <2> QED BY <1>1, <1>2, <2>1, <2>2, <2>3
  <1>4. ASSUME IsInjective(q), b \notin ToSet(q) PROVE IsInjective(p)
    <2> SUFFICES ASSUME NEW i \in 1 .. Len(p), NEW j \in 1 .. Len(p), p[i] = p[j]
                 PROVE  i = j
      BY <1>1, InjectiveSeq
    <2> HIDE DEF p
    <2>1. \A k \in 1 .. Len(q) : q[k] # b BY <1>2, <1>4
    <2>2. \A k, l \in 1 .. Len(q) : q[k] = q[l] => k = l BY <1>4, InjectiveSeq
    <2> QED BY <1>1, <2>1, <2>2
  <1> QED BY <1>1, <1>3, <1>4

LEMMA TailSet ==
    ASSUME NEW S, NEW q \in Seq(S), q # <<>>
    PROVE  /\ Tail(q) \in Seq(S) /\ Head(q) \in S
           /\ Len(q) \in Nat \ {0} /\ Len(Tail(q)) = Len(q) - 1 /\ Head(q) = q[1]
           /\ \A i \in 1 .. Len(q) - 1 : Tail(q)[i] = q[i + 1]
           /\ ToSet(q) = ToSet(Tail(q)) \cup {Head(q)}
           /\ IsInjective(q) => IsInjective(Tail(q)) /\ Head(q) \notin ToSet(Tail(q))
  <1> DEFINE p == Tail(q)
  <1>1. /\ p \in Seq(S) /\ Len(p) = Len(q) - 1 /\ Len(q) \in Nat \ {0}
        /\ \A i \in 1 .. Len(q) - 1 : p[i] = q[i + 1]
        /\ Head(q) = q[1] /\ Head(q) \in S
    BY HeadTailProperties, LenProperties, EmptySeq
  <1>2. ToSet(p) = {p[i] : i \in 1 .. Len(q) - 1} /\ ToSet(q) = {q[i] : i \in 1 .. Len(q)}
    BY <1>1, SetOfSeq
  <1> HIDE DEF p
  <1>3. ToSet(q) = ToSet(p) \cup {Head(q)}
    <2>1. \A i \in 1 .. Len(q) : i = 1 \/ (i - 1 \in 1 .. Len(q) - 1 /\ (i - 1) + 1 = i) BY <1>1
    <2>2. \A i \in 1 .. Len(q) - 1 : i + 1 \in 1 .. Len(q) BY <1>1
    <2>3. 1 \in 1 .. Len(q) BY <1>1
    <2>4. \A i \in 1 .. Len(q) : q[i] \in ToSet(p) \cup {Head(q)}
      <3> TAKE i \in 1 .. Len(q)
      <3>1. CASE i = 1 BY <3>1, <1>1
      <3>2. CASE i - 1 \in 1 .. Len(q) - 1 /\ (i - 1) + 1 = i
        <4>1. p[i - 1] = q[i] BY <1>1, <3>2
        <4> QED BY <4>1, <3>2, <1>2
      <3> QED BY <2>1, <3>1, <3>2
    <2>5. \A i \in 1 .. Len(q) - 1 : p[i] \in ToSet(q) BY <1>1, <1>2, <2>2
    <2> QED BY <1>1, <1>2, <2>3, <2>4, <2>5
  <1>4. ASSUME IsInjective(q) PROVE IsInjective(p) /\ Head(q) \notin ToSet(p)
    <2>1. \A k, l \in 1 .. Len(q) : q[k] = q[l] => k = l BY <1>4, InjectiveSeq
    <2>2. IsInjective(p)
      <3> SUFFICES ASSUME NEW i \in 1 .. Len(q) - 1, NEW j \in 1 .. Len(q) - 1, p[i] = p[j]
                   PROVE  i = j
        BY <1>1, InjectiveSeq
      <3> QED BY <1>1, <2>1
    <2>3. \A i \in 1 .. Len(q) - 1 : p[i] # Head(q) BY <1>1, <2>1
    <2> QED BY <1>2, <2>2, <2>3
  <1> QED BY <1>1, <1>3, <1>4 DEF p

-----------------------------------------------------------------------------
(* Sending.                                                                *)

\* What a response that is sent leaves alone.
Frame(s) ==
    <<s.running, s.sm0, s.rxq, s.repeat, s.store, s.toggle, s.locked, s.wcnt,
      s.coeStored, s.foeStored, s.eoeStored, s.fragsLeft, s.nextFrag, s.listReq,
      s.eoePending, s.eoeFrag, s.eoeReq, s.heap, s.strays, s.freedTwice,
      s.fails, s.served>>

LEMMA CounterRange ==
    ASSUME NEW s \in Fields
    PROVE  /\ ReadCounter(s) \in 1 .. MaxCounter
           /\ ReadCounter(s) + 1 \in 0 .. MaxCounter + 1
  <1>1. s.rcnt \in 0 .. MaxCounter + 1 /\ MaxCounter \in Nat /\ MaxCounter >= 2
    BY MailboxAssumption DEF Fields
  <1>2. CASE s.rcnt = MaxCounter + 1
    <2>1. s.rcnt % (MaxCounter + 1) = 0 BY <1>1, <1>2
    <2> QED BY <1>1, <2>1 DEF ReadCounter
  <1>3. CASE s.rcnt = 0
    <2>1. s.rcnt % (MaxCounter + 1) = 0 BY <1>1, <1>3
    <2> QED BY <1>1, <2>1 DEF ReadCounter
  <1>4. CASE s.rcnt \in 1 .. MaxCounter
    BY <1>1, <1>4 DEF ReadCounter
  <1> QED BY <1>1, <1>2, <1>3, <1>4

\* The response as it is sent.
Stamped(s, b) == [s.buf[b] EXCEPT !.cnt = ReadCounter(s)]

\* What MBX_MailboxSendReq does to each field.
Sends(s, t, b, V, follow) ==
    /\ Frame(t) = Frame(s)
    /\ t.buf = [s.buf EXCEPT ![b] = Stamped(s, b)]
    /\ t.rcnt = IF SendOk(s) THEN ReadCounter(s) + 1 ELSE ReadCounter(s)
    /\ t.stored = IF follow \/ ~SendOk(s) THEN s.stored \cup V ELSE s.stored
    /\ t.sent = IF SendOk(s) THEN Append(s.sent, Stamped(s, b)) ELSE s.sent
    /\ t.txq = IF s.full /\ SendOk(s) THEN Append(s.txq, b) ELSE s.txq
    /\ t.full
    /\ t.read = IF s.full THEN s.read ELSE b
    /\ t.sm1 = IF s.full THEN s.sm1 ELSE Stamped(s, b)

LEMMA SendFields ==
    ASSUME NEW s \in Fields, NEW b \in Buffers, NEW V \in SUBSET Service,
           NEW follow \in BOOLEAN, s.running
    PROVE  /\ Sends(s, MBX_MailboxSendReq(s, b, V, follow), b, V, follow)
           /\ Stamped(s, b) \in Message /\ Stamped(s, b).cnt = ReadCounter(s)
           /\ SendOk(s) <=> ~s.full \/ HasRoom(s.txq)
  <1> DEFINE c == ReadCounter(s)
             m == [s.buf[b] EXCEPT !.cnt = c]
             stamped == [s EXCEPT !.buf[b].cnt = c,
                                  !.rcnt = IF SendOk(s) THEN c + 1 ELSE c]
  <1>1. s.buf[b] \in Message /\ c \in 1 .. MaxCounter
    BY CounterRange DEF Fields
  <1>2. m \in Message /\ m.cnt = c BY <1>1 DEF Message
  <1>3. SendOk(s) <=> ~s.full \/ HasRoom(s.txq) BY DEF SendOk, CanCopy, Fields
  <1>4. stamped.buf = [s.buf EXCEPT ![b] = m] /\ stamped.buf[b] = m
    BY DEF Fields
  <1>5. CASE ~s.full
    BY <1>1, <1>2, <1>3, <1>4, <1>5
       DEF Fields, MBX_MailboxSendReq, MBX_CopyToSendMailbox, CanCopy, Frame, Sends, Stamped
  <1>6. CASE s.full
    BY <1>1, <1>2, <1>3, <1>4, <1>6
       DEF Fields, MBX_MailboxSendReq, MBX_CopyToSendMailbox, CanCopy, Frame, Sends, Stamped,
           PutInMbxQueue
  <1> QED BY <1>2, <1>3, <1>5, <1>6 DEF Fields, Stamped

LEMMA SendType ==
    ASSUME NEW s \in Fields, NEW b \in Buffers, NEW V \in SUBSET Service,
           NEW follow \in BOOLEAN, s.running
    PROVE  MBX_MailboxSendReq(s, b, V, follow) \in Fields
  <1> DEFINE c == ReadCounter(s)
             m == [s.buf[b] EXCEPT !.cnt = c]
             v == [s EXCEPT !.buf = [s.buf EXCEPT ![b] = m]]
             w == [v EXCEPT !.rcnt = IF SendOk(s) THEN c + 1 ELSE c]
             stamped == [s EXCEPT !.buf[b].cnt = c,
                                  !.rcnt = IF SendOk(s) THEN c + 1 ELSE c]
  <1>2. m \in Message BY SendFields DEF Stamped
  <1>3. SendOk(s) <=> ~s.full \/ HasRoom(s.txq) BY DEF SendOk, CanCopy, Fields
  <1>4. w \in Fields /\ stamped = w /\ w.buf[b] = m
    <2> DEFINE f == [s.buf EXCEPT ![b] = m]
    <2>0. f \in [Buffers -> Message] BY <1>2 DEF Fields
    <2>1. v \in Fields BY <2>0, SetBuf
    <2>2. (IF SendOk(s) THEN c + 1 ELSE c) \in 0 .. MaxCounter + 1
      BY CounterRange, MailboxAssumption
    <2>3. w \in Fields BY <2>1, <2>2, SetRcnt
    <2> QED BY <2>3 DEF Fields
  <1>5. CASE ~s.full
    <2> DEFINE t == MBX_MailboxSendReq(s, b, V, follow)
               u1 == [w EXCEPT !.sm1 = m]
               u2 == [u1 EXCEPT !.read = b]
               u3 == [u2 EXCEPT !.full = TRUE]
               u4 == [u3 EXCEPT !.stored = IF follow THEN s.stored \cup V ELSE s.stored]
               u5 == [u4 EXCEPT !.sent = Append(s.sent, m)]
    <2>1. t = u5
      BY <1>3, <1>4, <1>5
         DEF Fields, MBX_MailboxSendReq, MBX_CopyToSendMailbox, CanCopy
    <2>2. u5 \in Fields
      <3>1. u1 \in Fields BY <1>2, <1>4, SetSm1
      <3>2. u2 \in Fields BY <3>1, SetRead DEF Pointer
      <3>3. u3 \in Fields BY <3>2, SetFull
      <3>4. (IF follow THEN s.stored \cup V ELSE s.stored) \in SUBSET Service BY DEF Fields
      <3>5. u4 \in Fields BY <3>3, <3>4, SetStored
      <3>6. Append(s.sent, m) \in Seq(Message) BY <1>2, AppendProperties DEF Fields
      <3> QED BY <3>5, <3>6, SetSent
    <2> QED BY <2>1, <2>2
  <1>6. CASE s.full
    <2> DEFINE t == MBX_MailboxSendReq(s, b, V, follow)
               u1 == [w EXCEPT !.txq = IF SendOk(s) THEN Append(s.txq, b) ELSE s.txq]
               u2 == [u1 EXCEPT !.stored = IF follow \/ ~SendOk(s) THEN s.stored \cup V
                                           ELSE s.stored]
               u3 == [u2 EXCEPT !.sent = IF SendOk(s) THEN Append(s.sent, m) ELSE s.sent]
    <2>1. t = u3
      BY <1>3, <1>4, <1>6 DEF Fields, MBX_MailboxSendReq, CanCopy, PutInMbxQueue
    <2>2. u3 \in Fields
      <3>1. (IF SendOk(s) THEN Append(s.txq, b) ELSE s.txq) \in Seq(Buffers)
        BY AppendProperties DEF Fields
      <3>2. u1 \in Fields BY <1>4, <3>1, SetTxq
      <3>3. (IF follow \/ ~SendOk(s) THEN s.stored \cup V ELSE s.stored) \in SUBSET Service
        BY DEF Fields
      <3>4. u2 \in Fields BY <3>2, <3>3, SetStored
      <3>5. (IF SendOk(s) THEN Append(s.sent, m) ELSE s.sent) \in Seq(Message)
        BY <1>2, AppendProperties DEF Fields
      <3> QED BY <3>4, <3>5, SetSent
    <2> QED BY <2>1, <2>2
  <1> QED BY <1>5, <1>6

\* The fields of the handler itself, but for the contents of the buffers.
Inner(s) ==
    <<s.running, s.rxq, s.txq, s.read, s.repeat, s.store, s.full, s.sm1, s.rcnt,
      s.sent>>

LEMMA InnerSame ==
    ASSUME NEW s, NEW t, Inner(t) = Inner(s)
    PROVE  /\ t.running = s.running /\ t.rxq = s.rxq /\ t.txq = s.txq
           /\ t.read = s.read /\ t.repeat = s.repeat /\ t.store = s.store
           /\ t.full = s.full /\ t.sm1 = s.sm1 /\ t.rcnt = s.rcnt /\ t.sent = s.sent
  BY DEF Inner

\* What is done with a buffer that the handler does not keep, and with the
\* fields of the services, does not concern the handler.
LEMMA Aside ==
    ASSUME NEW s, Core(s), NEW t \in Fields, NEW b, b \notin Kept(s),
           Inner(t) = Inner(s), s.heap \ {b} \subseteq t.heap,
           \A c \in Buffers : c # b => t.buf[c] = s.buf[c]
    PROVE  /\ Core(t) /\ Kept(t) = Kept(s) /\ Follows(s, t)
           /\ Waiting(t) = Waiting(s) /\ Base(t) = Base(s)
  <1>1. /\ t.running = s.running /\ t.rxq = s.rxq /\ t.txq = s.txq
        /\ t.read = s.read /\ t.repeat = s.repeat /\ t.store = s.store
        /\ t.full = s.full /\ t.sm1 = s.sm1 /\ t.rcnt = s.rcnt /\ t.sent = s.sent
    BY InnerSame
  <1>2. s \in Fields BY DEF Core
  <1>3. Kept(t) = Kept(s) /\ Base(t) = Base(s) /\ Waiting(t) = Waiting(s)
    BY <1>1 DEF Kept, Base, Waiting
  <1>4. /\ s.rxq \in Seq(Buffers) /\ s.txq \in Seq(Buffers) /\ s.sent \in Seq(Message)
        /\ {s.read, s.repeat, s.store} \subseteq Buffers \cup {0}
    BY <1>2 DEF Fields, Pointer
  <1>5. \A c \in Kept(s) \cap Buffers : t.buf[c] = s.buf[c] OBVIOUS
  <1>6. \A i \in 1 .. Len(s.txq) : s.txq[i] \in Kept(s) \cap Buffers
    BY <1>4, SetOfSeq, ElementOfSeq DEF Kept
  <1>7. ToSet(s.rxq) \subseteq Kept(s) \cap Buffers BY <1>4, SetOfSeq DEF Kept
  <1>8. /\ s.full => s.read \in Kept(s) \cap Buffers
        /\ s.repeat # 0 => s.repeat \in Kept(s) \cap Buffers
        /\ s.store # 0 => s.store \in Kept(s) \cap Buffers
    BY <1>4 DEF Kept, Core, Apart
  <1>9. Line(t)
    <2>1. Line(s) BY DEF Core
    <2>2. /\ Base(s) \in Nat
          /\ s.repeat # 0 => Base(s) >= 1 /\ t.buf[s.repeat] = s.sent[Base(s)]
          /\ s.full => t.buf[s.read] = s.sent[Base(s) + 1]
          /\ s.store # 0 => t.buf[s.store] = s.sent[Base(s) + 2]
          /\ s.sm1 # Empty => s.full /\ s.sm1 = t.buf[s.read]
      BY <1>5, <1>8, <2>1 DEF Line
    <2>3. \A i \in 1 .. Len(s.txq) :
             t.buf[s.txq[i]] = s.sent[Len(s.sent) - Len(s.txq) + i]
      BY <1>5, <1>6, <2>1 DEF Line
    <2> QED BY <1>1, <1>3, <2>2, <2>3 DEF Line
  <1>10. Counters(t) BY <1>1 DEF Core, Counters, ReadCounter
  <1>11. Apart(t) /\ Quiet(t) BY <1>1 DEF Core, Apart, Quiet
  <1>12. Kept(t) \subseteq t.heap BY <1>3 DEF Core
  <1>13. Follows(s, t)
    BY <1>1, <1>3, <1>4, <1>5, <1>7, LenProperties
       DEF Follows, Taken, Behind, Visible
  <1> QED BY <1>3, <1>9, <1>10, <1>11, <1>12, <1>13 DEF Core

\* A counter that was given once is given again until it is used, and the one
\* after it is different.
LEMMA NextCounterFacts ==
    ASSUME NEW s \in Fields, NEW t \in Fields
    PROVE  /\ t.rcnt = ReadCounter(s) => ReadCounter(t) = ReadCounter(s)
           /\ t.rcnt = ReadCounter(s) + 1 => ReadCounter(t) # ReadCounter(s)
  <1> DEFINE c == ReadCounter(s)
  <1>1. c \in 1 .. MaxCounter /\ MaxCounter \in Nat /\ MaxCounter >= 2
    BY CounterRange, MailboxAssumption
  <1> HIDE DEF c
  <1>2. ASSUME t.rcnt = c PROVE ReadCounter(t) = c
    BY <1>1, <1>2 DEF ReadCounter
  <1>3. ASSUME t.rcnt = c + 1 PROVE ReadCounter(t) # c
    <2>1. CASE c = MaxCounter
      <3>1. t.rcnt % (MaxCounter + 1) = 0 BY <1>1, <1>3, <2>1
      <3> QED BY <1>1, <2>1, <3>1 DEF ReadCounter
    <2>2. CASE c < MaxCounter
      <3>1. t.rcnt % (MaxCounter + 1) = c + 1 BY <1>1, <1>3, <2>2
      <3> QED BY <1>1, <1>3, <3>1 DEF ReadCounter
    <2> QED BY <1>1, <2>1, <2>2
  <1> QED BY <1>2, <1>3 DEF c

\* A response that differs from the one before keeps neighbours different.
LEMMA AppendCounters ==
    ASSUME NEW q \in Seq(Message), NEW m \in Message,
           \A i \in 1 .. Len(q) : q[i].cnt >= 1,
           \A i \in 1 .. Len(q) - 1 : q[i].cnt # q[i + 1].cnt,
           m.cnt >= 1, q # <<>> => m.cnt # q[Len(q)].cnt
    PROVE  LET p == Append(q, m)
           IN  /\ \A i \in 1 .. Len(p) : p[i].cnt >= 1
               /\ \A i \in 1 .. Len(p) - 1 : p[i].cnt # p[i + 1].cnt
               /\ p # <<>> /\ p[Len(p)].cnt = m.cnt
  <1> DEFINE n == Len(q)
             p == Append(q, m)
  <1>1. /\ n \in Nat /\ Len(p) = n + 1 /\ p[n + 1] = m /\ p # <<>>
        /\ \A i \in 1 .. n : p[i] = q[i]
    BY LenProperties, AppendProperties, EmptySeq
  <1>2. n > 0 => m.cnt # q[n].cnt BY EmptySeq
  <1> HIDE DEF n, p
  <1>3. ASSUME NEW i \in 1 .. n PROVE p[i].cnt >= 1 BY <1>1, <1>3 DEF n
  <1>4. ASSUME NEW i \in 1 .. n PROVE p[i].cnt # p[i + 1].cnt
    <2>1. CASE i = n BY <1>1, <1>2, <2>1
    <2>2. CASE i # n
      <3>1. i \in 1 .. n - 1 /\ i + 1 \in 1 .. n BY <1>1, <2>2
      <3>2. q[i].cnt # q[i + 1].cnt BY <3>1 DEF n
      <3> QED BY <1>1, <3>1, <3>2
    <2> QED BY <2>1, <2>2
  <1>5. \A i \in 1 .. n + 1 : i \in 1 .. n \/ i = n + 1 BY <1>1
  <1>6. (n + 1) - 1 = n BY <1>1
  <1> QED BY <1>1, <1>3, <1>4, <1>5, <1>6 DEF p

\* A buffer the handler does not keep is sent: it is kept if it was accepted.
LEMMA SendCore ==
    ASSUME NEW s, Core(s), s.running, NEW b \in Buffers, b \in s.heap, b \notin Kept(s),
           NEW V \in SUBSET Service, NEW follow \in BOOLEAN
    PROVE  LET t == MBX_MailboxSendReq(s, b, V, follow)
           IN  /\ Core(t)
               /\ Kept(t) = IF SendOk(s) THEN Kept(s) \cup {b} ELSE Kept(s)
               /\ Waiting(t) = IF SendOk(s) THEN Waiting(s) + 1 ELSE Waiting(s)
               /\ Follows(s, t)
  <1> DEFINE t == MBX_MailboxSendReq(s, b, V, follow)
             c == ReadCounter(s)
             m == Stamped(s, b)
  <1>1. s \in Fields BY DEF Core
  <1>2. t \in Fields BY <1>1, SendType
  <1>0. /\ Sends(s, t, b, V, follow) /\ m \in Message /\ m.cnt = c
        /\ SendOk(s) <=> ~s.full \/ HasRoom(s.txq)
    BY <1>1, SendFields
  <1> HIDE DEF t
  <1>3. /\ Frame(t) = Frame(s)
        /\ t.buf = [s.buf EXCEPT ![b] = m]
        /\ t.rcnt = IF SendOk(s) THEN c + 1 ELSE c
        /\ t.sent = IF SendOk(s) THEN Append(s.sent, m) ELSE s.sent
        /\ t.txq = IF s.full /\ SendOk(s) THEN Append(s.txq, b) ELSE s.txq
        /\ t.full
        /\ t.read = IF s.full THEN s.read ELSE b
        /\ t.sm1 = IF s.full THEN s.sm1 ELSE m
    BY <1>0 DEF Sends
  <1>4. /\ t.running = s.running /\ t.rxq = s.rxq /\ t.repeat = s.repeat
        /\ t.store = s.store /\ t.heap = s.heap
    BY <1>3 DEF Frame
  <1>5. /\ s.rxq \in Seq(Buffers) /\ s.txq \in Seq(Buffers) /\ s.sent \in Seq(Message)
        /\ {s.read, s.repeat, s.store} \subseteq Buffers \cup {0} /\ s.full \in BOOLEAN
        /\ s.buf \in [Buffers -> Message] /\ 0 \notin Buffers
    BY <1>1, MailboxAssumption DEF Fields, Pointer
  <1>6. m.cnt = c /\ m \in Message /\ c \in 1 .. MaxCounter /\ m # Empty
    BY <1>0, <1>1, CounterRange DEF Empty
  <1>7. Apart(s) /\ Quiet(s) /\ Line(s) /\ Counters(s) /\ Kept(s) \subseteq s.heap
    BY DEF Core
  <1> HIDE DEF m, c
  <1>8. /\ t.buf[b] = m
        /\ \A a \in Buffers : a # b => t.buf[a] = s.buf[a]
    BY <1>3, <1>5
  <1>9. CASE ~SendOk(s)
    <2>1. s.full BY <1>0, <1>3, <1>9
    <2>2. /\ t.full = s.full /\ t.read = s.read /\ t.sm1 = s.sm1
          /\ t.txq = s.txq /\ t.sent = s.sent
      BY <1>0, <1>3, <1>9, <2>1
    <2>3. Kept(t) = Kept(s) /\ Apart(t) /\ Quiet(t) /\ Base(t) = Base(s)
            /\ Waiting(t) = Waiting(s)
      BY <1>4, <1>7, <2>2 DEF Kept, Apart, Quiet, Base, Waiting
    <2>4. Counters(t)
      <3>1. ReadCounter(t) = ReadCounter(s)
        BY <1>1, <1>0, <1>2, <1>3, <1>9, NextCounterFacts DEF c
      <3> QED BY <1>4, <1>7, <2>2, <3>1 DEF Counters
    <2>5. /\ s.read # b /\ s.read \in Buffers
          /\ s.repeat # 0 => s.repeat # b /\ s.repeat \in Buffers
          /\ s.store # 0 => s.store # b /\ s.store \in Buffers
      BY <1>5, <1>7, <2>1 DEF Kept, Apart
    <2>6. \A i \in 1 .. Len(s.txq) : s.txq[i] # b /\ s.txq[i] \in Buffers
      BY <1>5, SetOfSeq, ElementOfSeq DEF Kept
    <2>7. Line(t)
      <3>1. /\ Base(s) \in Nat
            /\ s.repeat # 0 => Base(s) >= 1 /\ t.buf[s.repeat] = s.sent[Base(s)]
            /\ t.buf[s.read] = s.sent[Base(s) + 1]
            /\ s.store # 0 => t.buf[s.store] = s.sent[Base(s) + 2]
            /\ s.sm1 # Empty => s.sm1 = t.buf[s.read]
        BY <1>7, <1>8, <2>1, <2>5 DEF Line
      <3>2. \A i \in 1 .. Len(s.txq) :
               t.buf[s.txq[i]] = s.sent[Len(s.sent) - Len(s.txq) + i]
        BY <1>7, <1>8, <2>6 DEF Line
      <3> QED BY <1>4, <2>1, <2>2, <2>3, <3>1, <3>2 DEF Line
    <2>8. Follows(s, t)
      <3>1. \A a \in ToSet(s.rxq) : a # b /\ a \in Buffers BY <1>5, SetOfSeq DEF Kept
      <3> QED BY <1>4, <1>5, <1>8, <2>2, <2>3, <3>1, LenProperties
              DEF Follows, Taken, Behind, Visible
    <2> QED BY <1>2, <1>4, <1>7, <1>9, <2>3, <2>4, <2>7, <2>8 DEF Core, t
  <1>10. CASE SendOk(s) /\ ~s.full
    <2>1. /\ s.txq = <<>> /\ s.store = 0 /\ s.read = s.repeat
      BY <1>7, <1>10 DEF Quiet
    <2>2. /\ t.full /\ t.read = b /\ t.sm1 = m /\ t.txq = <<>>
          /\ t.sent = Append(s.sent, m)
      BY <1>0, <1>3, <1>10, <2>1
    <2>3. ToSet(<<>>) = {} /\ Len(<<>>) = 0 BY DEF ToSet
    <2>4. Kept(t) = Kept(s) \cup {b}
      BY <1>4, <1>10, <2>1, <2>2, <2>3 DEF Kept
    <2>5. Waiting(t) = Waiting(s) + 1 BY <1>10, <2>1, <2>2, <2>3 DEF Waiting
    <2>6. Apart(t)
      BY <1>4, <1>5, <1>7, <1>10, <2>1, <2>2, <2>3 DEF Apart, Kept, IsInjective
    <2>7. Quiet(t) BY <1>4, <2>1, <2>2 DEF Quiet
    <2>8. /\ Len(t.sent) = Len(s.sent) + 1 /\ Len(s.sent) \in Nat
          /\ t.sent[Len(s.sent) + 1] = m
          /\ \A i \in 1 .. Len(s.sent) : t.sent[i] = s.sent[i]
      BY <1>0, <1>3, <1>5, <2>2, AppendProperties, LenProperties
    <2>9. Base(s) = Len(s.sent) /\ Base(t) = Base(s)
      BY <1>4, <1>10, <2>1, <2>2, <2>3, <2>8 DEF Base
    <2>10. Line(t)
      <3>1. s.repeat # 0 => s.repeat # b /\ s.repeat \in Buffers
        BY <1>5, <1>7 DEF Kept
      <3>2. s.repeat # 0 => Base(s) >= 1 /\ s.buf[s.repeat] = s.sent[Base(s)]
        BY <1>7 DEF Line
      <3> QED BY <1>4, <1>8, <2>1, <2>2, <2>3, <2>8, <2>9, <3>1, <3>2 DEF Line
    <2>11. Counters(t)
      <3>1. ReadCounter(t) # c BY <1>1, <1>2, <1>0, <1>3, <1>10, NextCounterFacts DEF c
      <3>2. /\ \A i \in 1 .. Len(s.sent) : s.sent[i].cnt >= 1
            /\ \A i \in 1 .. Len(s.sent) - 1 : s.sent[i].cnt # s.sent[i + 1].cnt
            /\ s.sent # <<>> => m.cnt # s.sent[Len(s.sent)].cnt
        BY <1>6, <1>7 DEF Counters, c
      <3>3. m.cnt >= 1 BY <1>6
      <3>4. LET p == Append(s.sent, m)
            IN  /\ \A i \in 1 .. Len(p) : p[i].cnt >= 1
                /\ \A i \in 1 .. Len(p) - 1 : p[i].cnt # p[i + 1].cnt
                /\ p # <<>> /\ p[Len(p)].cnt = m.cnt
        BY <1>5, <1>6, <3>2, <3>3, AppendCounters
      <3>5. /\ \A i \in 1 .. Len(t.sent) : t.sent[i].cnt >= 1
            /\ \A i \in 1 .. Len(t.sent) - 1 : t.sent[i].cnt # t.sent[i + 1].cnt
            /\ t.sent # <<>> /\ t.sent[Len(t.sent)].cnt = c
        BY <1>6, <2>2, <3>4
      <3> QED BY <3>1, <3>5 DEF Counters
    <2>12. Follows(s, t)
      <3>1. \A a \in ToSet(s.rxq) : a # b /\ a \in Buffers BY <1>5, SetOfSeq DEF Kept
      <3>2. s.sm1 = Empty BY <1>7, <1>10 DEF Line
      <3> QED BY <1>4, <1>6, <1>8, <1>10, <2>2, <2>8, <2>9, <3>1, <3>2
              DEF Follows, Taken, Behind, Visible
    <2> QED BY <1>2, <1>4, <1>7, <1>10, <2>4, <2>5, <2>6, <2>7, <2>10, <2>11, <2>12
            DEF Core, t
  <1>11. CASE SendOk(s) /\ s.full
    <2>1. /\ t.full /\ t.read = s.read /\ t.sm1 = s.sm1
          /\ t.txq = Append(s.txq, b) /\ t.sent = Append(s.sent, m)
      BY <1>0, <1>3, <1>11
    <2>2. /\ Len(t.txq) = Len(s.txq) + 1 /\ Len(s.txq) \in Nat
          /\ t.txq[Len(s.txq) + 1] = b
          /\ \A i \in 1 .. Len(s.txq) : t.txq[i] = s.txq[i]
      BY <1>5, <2>1, AppendProperties, LenProperties
    <2>3. ToSet(t.txq) = ToSet(s.txq) \cup {b} BY <1>5, <2>1, AppendSet
    <2>4. b \notin ToSet(s.rxq) /\ b \notin ToSet(s.txq)
            /\ b \notin {s.read, s.repeat, s.store}
      BY <1>5, <1>11 DEF Kept
    <2>5. IsInjective(t.txq) BY <1>5, <1>7, <2>1, <2>4, AppendSet DEF Apart
    <2>6. Kept(t) = Kept(s) \cup {b} BY <1>4, <1>11, <2>1, <2>3 DEF Kept
    <2>7. Waiting(t) = Waiting(s) + 1 BY <1>11, <2>1, <2>2 DEF Waiting
    <2>8. Apart(t) BY <1>4, <1>7, <1>11, <2>1, <2>3, <2>4, <2>5 DEF Apart
    <2>9. Quiet(t) BY <1>4, <1>7, <1>11, <2>1 DEF Quiet
    <2>10. /\ Len(t.sent) = Len(s.sent) + 1 /\ Len(s.sent) \in Nat
           /\ t.sent[Len(s.sent) + 1] = m
           /\ \A i \in 1 .. Len(s.sent) : t.sent[i] = s.sent[i]
      BY <1>0, <1>3, <1>5, <2>1, AppendProperties, LenProperties
    <2>11. /\ Base(t) = Base(s) /\ Base(s) \in Nat
           /\ Len(t.sent) - Len(t.txq) = Len(s.sent) - Len(s.txq)
           /\ Len(s.sent) - Len(s.txq) = Base(s) + 1 + (IF s.store # 0 THEN 1 ELSE 0)
      <3> DEFINE l == Len(s.sent)
                 n == Len(s.txq)
                 x == IF s.store # 0 THEN 1 ELSE 0
      <3>1. l \in Nat /\ n \in Nat /\ x \in Nat BY <2>2, <2>10
      <3>2. Base(s) = l - n - x - 1 BY <1>11 DEF Base
      <3>3. Len(t.sent) = l + 1 /\ Len(t.txq) = n + 1 BY <2>2, <2>10
      <3>4. Base(t) = (l + 1) - (n + 1) - x - 1 BY <1>4, <2>1, <3>3 DEF Base
      <3>5. Base(s) \in Nat BY <1>7 DEF Line
      <3>6. (IF s.store # 0 THEN 1 ELSE 0) = x OBVIOUS
      <3> HIDE DEF l, n, x
      <3>7. Base(t) = Base(s) BY <3>1, <3>2, <3>4
      <3>8. (l + 1) - (n + 1) = l - n /\ l - n = Base(s) + 1 + x BY <3>1, <3>2
      <3> QED BY <3>3, <3>5, <3>6, <3>7, <3>8 DEF l, n
    <2>12. Line(t)
      <3> DEFINE l == Len(s.sent)
                 n == Len(s.txq)
                 k == Base(s)
      <3>1. /\ s.repeat # 0 => s.repeat \in Buffers
            /\ s.store # 0 => s.store \in Buffers
            /\ s.read \in Buffers
        BY <1>5, <1>7, <1>11 DEF Apart
      <3>2. /\ l \in Nat /\ n \in Nat /\ k \in Nat
            /\ l - n = k + 1 + (IF s.store # 0 THEN 1 ELSE 0)
            /\ Len(t.sent) - Len(t.txq) = l - n /\ Base(t) = k
            /\ Len(t.txq) = n + 1 /\ t.txq[n + 1] = b
            /\ t.sent[l + 1] = m
            /\ \A i \in 1 .. l : t.sent[i] = s.sent[i]
            /\ \A i \in 1 .. n : t.txq[i] = s.txq[i]
        BY <2>2, <2>10, <2>11
      <3>3. /\ s.repeat # 0 => k >= 1 /\ s.buf[s.repeat] = s.sent[k]
            /\ s.buf[s.read] = s.sent[k + 1]
            /\ s.store # 0 => s.buf[s.store] = s.sent[k + 2]
            /\ \A i \in 1 .. n : s.buf[s.txq[i]] = s.sent[l - n + i]
            /\ s.sm1 # Empty => s.sm1 = s.buf[s.read]
        BY <1>7, <1>11 DEF Line
      <3>4. \A i \in 1 .. n : s.txq[i] # b /\ s.txq[i] \in Buffers
        BY <1>5, <2>4, SetOfSeq, ElementOfSeq
      <3> HIDE DEF l, n, k
      <3>8. l \in Nat /\ n \in Nat /\ k \in Nat /\ l - n >= 1 BY <3>2
      <3>9. /\ Len(t.sent) - Len(t.txq) = l - n /\ Base(t) = k /\ Len(t.txq) = n + 1
        BY <3>2
      <3>5. /\ k + 1 \in 1 .. l
            /\ k >= 1 => k \in 1 .. l
            /\ s.store # 0 => k + 2 \in 1 .. l
        BY <3>2
      <3>10. \A i \in 1 .. l : t.sent[i] = s.sent[i] BY <3>2
      <3>11. t.buf[s.read] = s.buf[s.read] BY <1>8, <2>4, <3>1
      <3>12. s.repeat # 0 => t.buf[s.repeat] = s.buf[s.repeat] BY <1>8, <2>4, <3>1
      <3>13. s.store # 0 => t.buf[s.store] = s.buf[s.store] BY <1>8, <2>4, <3>1
      <3>6. /\ s.repeat # 0 => k >= 1 /\ t.buf[s.repeat] = t.sent[k]
            /\ t.buf[s.read] = t.sent[k + 1]
            /\ s.store # 0 => t.buf[s.store] = t.sent[k + 2]
            /\ s.sm1 # Empty => s.sm1 = t.buf[s.read]
        BY <3>3, <3>5, <3>10, <3>11, <3>12, <3>13
      <3>7. \A i \in 1 .. n + 1 : t.buf[t.txq[i]] = t.sent[l - n + i]
        <4> TAKE i \in 1 .. n + 1
        <4>1. CASE i = n + 1
          <5>1. l - n + i = l + 1 BY <3>8, <4>1
          <5> QED BY <1>8, <3>2, <4>1, <5>1
        <4>2. CASE i # n + 1
          <5>1. i \in 1 .. n /\ l - n + i \in 1 .. l BY <3>8, <4>2
          <5>2. t.txq[i] = s.txq[i] /\ t.sent[l - n + i] = s.sent[l - n + i]
            BY <3>2, <5>1
          <5> QED BY <1>8, <3>3, <3>4, <5>1, <5>2
        <4> QED BY <4>1, <4>2
      <3> QED BY <1>4, <1>11, <2>1, <3>8, <3>9, <3>6, <3>7 DEF Line
    <2>13. Counters(t)
      <3>1. ReadCounter(t) # c BY <1>1, <1>2, <1>0, <1>3, <1>11, NextCounterFacts DEF c
      <3>2. /\ \A i \in 1 .. Len(s.sent) : s.sent[i].cnt >= 1
            /\ \A i \in 1 .. Len(s.sent) - 1 : s.sent[i].cnt # s.sent[i + 1].cnt
            /\ s.sent # <<>> => m.cnt # s.sent[Len(s.sent)].cnt
        BY <1>6, <1>7 DEF Counters, c
      <3>3. m.cnt >= 1 BY <1>6
      <3>4. LET p == Append(s.sent, m)
            IN  /\ \A i \in 1 .. Len(p) : p[i].cnt >= 1
                /\ \A i \in 1 .. Len(p) - 1 : p[i].cnt # p[i + 1].cnt
                /\ p # <<>> /\ p[Len(p)].cnt = m.cnt
        BY <1>5, <1>6, <3>2, <3>3, AppendCounters
      <3>5. /\ \A i \in 1 .. Len(t.sent) : t.sent[i].cnt >= 1
            /\ \A i \in 1 .. Len(t.sent) - 1 : t.sent[i].cnt # t.sent[i + 1].cnt
            /\ t.sent # <<>> /\ t.sent[Len(t.sent)].cnt = c
        BY <1>6, <2>1, <3>4
      <3> QED BY <3>1, <3>5 DEF Counters
    <2>14. Follows(s, t)
      <3>1. \A a \in ToSet(s.rxq) : a # b /\ a \in Buffers BY <1>5, <2>4, SetOfSeq
      <3> QED BY <1>4, <1>8, <1>11, <2>1, <2>10, <2>11, <3>1
              DEF Follows, Taken, Behind, Visible
    <2> QED BY <1>2, <1>4, <1>7, <1>11, <2>6, <2>7, <2>8, <2>9, <2>12, <2>13, <2>14
            DEF Core, t
  <1> QED BY <1>5, <1>9, <1>10, <1>11

-----------------------------------------------------------------------------
(* Buffers that nobody keeps, and what the services store.                 *)

\* What every call of a service does to the handler.
Step(s, t) ==
    /\ Good(t) /\ Follows(s, t) /\ Requests(t) = Requests(s)
    /\ Waiting(t) \in Nat /\ Waiting(t) <= Waiting(s) + 1

\* As Step, but nothing is put into the send mailbox or behind it.
Still(s, t) ==
    /\ Good(t) /\ Follows(s, t) /\ Waiting(t) = Waiting(s)

LEMMA GoodFacts ==
    ASSUME NEW s, Good(s)
    PROVE  /\ s \in Fields /\ Kept(s) \subseteq Buffers /\ 0 \notin Kept(s)
           /\ Held2(s) \subseteq Buffers /\ 0 \notin Buffers
           /\ s.heap \subseteq Buffers /\ s.buf \in [Buffers -> Message]
           /\ Waiting(s) \in Nat
  <1>1. /\ s \in Fields /\ Kept(s) \subseteq s.heap /\ Held2(s) \subseteq s.heap
    BY DEF Good, Core, Stores
  <1>2. s.heap \subseteq Buffers /\ s.buf \in [Buffers -> Message] /\ s.txq \in Seq(Buffers)
    BY <1>1 DEF Fields
  <1>3. 0 \notin Buffers BY MailboxAssumption
  <1>4. Len(s.txq) \in Nat BY <1>2, LenProperties
  <1> DEFINE n == Len(s.txq)
             x == IF s.full THEN 1 ELSE 0
  <1>5. x \in Nat OBVIOUS
  <1>6. Waiting(s) = n + x BY DEF Waiting
  <1> HIDE DEF n, x
  <1>7. n \in Nat BY <1>4 DEF n
  <1>8. Waiting(s) \in Nat BY <1>5, <1>6, <1>7
  <1> QED BY <1>1, <1>2, <1>3, <1>8

\* Flags of the services and the requests are no concern of the buffers.
LEMMA Flags ==
    ASSUME NEW s, Good(s), NEW t \in Fields, Inner(t) = Inner(s),
           t.heap = s.heap, t.buf = s.buf, t.coeStored = s.coeStored,
           t.foeStored = s.foeStored, t.eoeStored = s.eoeStored,
           t.freedTwice = s.freedTwice, Asked(t)
    PROVE  Still(s, t) /\ Lost(t) = Lost(s)
  <1>1. 0 \notin Kept(s) /\ Core(s) BY GoodFacts DEF Good
  <1>2. /\ Core(t) /\ Kept(t) = Kept(s) /\ Follows(s, t) /\ Waiting(t) = Waiting(s)
    BY <1>1, Aside
  <1>3. Held2(t) = Held2(s) BY DEF Held2
  <1>4. Stores(t) BY <1>2, <1>3 DEF Good, Stores
  <1> QED BY <1>2, <1>3, <1>4 DEF Good, Still, Lost

LEMMA Allocated ==
    ASSUME NEW s, Good(s), NEW msg \in Message, NEW ok, CanAlloc(s, ok)
    PROVE  LET b == Fresh(s)
               t == Alloc(s, b, msg)
           IN  /\ b \in Buffers /\ b \notin s.heap /\ b \in Lost(t)
               /\ Still(s, t) /\ Lost(t) = Lost(s) \cup {b}
               /\ Requests(t) = Requests(s) /\ Inner(t) = Inner(s) /\ t.buf[b] = msg
               /\ t = [s EXCEPT !.heap = s.heap \cup {b}, !.buf = [s.buf EXCEPT ![b] = msg]]
  <1> DEFINE b == Fresh(s)
             t == Alloc(s, b, msg)
             h == [s EXCEPT !.heap = s.heap \cup {b}]
             f == [s.buf EXCEPT ![b] = msg]
  <1>1. /\ s \in Fields /\ Kept(s) \subseteq Buffers /\ s.heap \subseteq Buffers
        /\ s.buf \in [Buffers -> Message] /\ Core(s)
        /\ Kept(s) \subseteq s.heap /\ Held2(s) \subseteq s.heap
    BY GoodFacts DEF Good, Core, Stores
  <1>2. b \in Buffers /\ b \notin s.heap
    <2>1. \E c \in Buffers : c \notin s.heap BY <1>1 DEF CanAlloc
    <2> QED BY <2>1 DEF Fresh
  <1> HIDE DEF b
  <1>3. t = [s EXCEPT !.heap = s.heap \cup {b}, !.buf = f] BY <1>1 DEF Alloc, Fields
  <1>4. f \in [Buffers -> Message] BY <1>1
  <1>5. h \in Fields BY <1>1, <1>2, SetHeap
  <1>6. t \in Fields
    <2>1. t = [h EXCEPT !.buf = f] BY <1>3
    <2> QED BY <1>4, <1>5, <2>1, SetBuf
  <1>7. /\ t.heap = s.heap \cup {b} /\ t.buf = f /\ Inner(t) = Inner(s)
        /\ t.coeStored = s.coeStored /\ t.foeStored = s.foeStored
        /\ t.eoeStored = s.eoeStored /\ t.freedTwice = s.freedTwice
        /\ t.stored = s.stored /\ t.eoePending = s.eoePending /\ t.running = s.running
        /\ t.full = s.full /\ t.locked = s.locked /\ t.toggle = s.toggle
        /\ t.rxq = s.rxq /\ t.repeat = s.repeat /\ Requests(t) = Requests(s)
    BY <1>1, <1>3 DEF Inner, Fields, Requests
  <1> HIDE DEF t
  <1>8. /\ \A c \in Buffers : c # b => t.buf[c] = s.buf[c]
        /\ t.buf[b] = msg
    BY <1>1, <1>2, <1>7
  <1>9. b \notin Kept(s) BY <1>1, <1>2
  <1>10. Core(t) /\ Kept(t) = Kept(s) /\ Follows(s, t) /\ Waiting(t) = Waiting(s)
    BY <1>1, <1>6, <1>7, <1>8, <1>9, Aside
  <1>11. Held2(t) = Held2(s) BY <1>7 DEF Held2
  <1>12. Stores(t) BY <1>7, <1>10, <1>11 DEF Good, Stores
  <1>13. Asked(t) BY <1>7 DEF Good, Asked
  <1>14. Lost(t) = Lost(s) \cup {b} BY <1>1, <1>2, <1>7, <1>10, <1>11 DEF Lost
  <1> QED BY <1>2, <1>3, <1>7, <1>8, <1>10, <1>12, <1>13, <1>14 DEF Good, Still, b, t

LEMMA Freed ==
    ASSUME NEW s, Good(s), NEW b \in Lost(s)
    PROVE  /\ Still(s, Free(s, b)) /\ Lost(Free(s, b)) = Lost(s) \ {b}
           /\ Requests(Free(s, b)) = Requests(s)
  <1> DEFINE t == Free(s, b)
             f == [c \in Buffers |-> IF c = b THEN Empty ELSE s.buf[c]]
             h == [s EXCEPT !.heap = s.heap \ {b}]
  <1>1. /\ s \in Fields /\ Kept(s) \subseteq Buffers /\ s.heap \subseteq Buffers
        /\ s.buf \in [Buffers -> Message] /\ Core(s)
        /\ Kept(s) \subseteq s.heap /\ Held2(s) \subseteq s.heap
        /\ b \in s.heap /\ b \notin Kept(s) /\ b \notin Held2(s)
        /\ s.freedTwice = FALSE
    BY GoodFacts DEF Good, Core, Stores, Lost, Fields
  <1>2. ToSet(<<b>>) = {b} /\ IsInjective(<<b>>) BY DEF ToSet, IsInjective
  <1>3. t = [s EXCEPT !.heap = s.heap \ {b}, !.buf = f]
    BY <1>1, <1>2 DEF Free, FreeAll, Fields
  <1>4. Empty \in Message BY MailboxAssumption DEF Empty, Message
  <1>5. f \in [Buffers -> Message] BY <1>1, <1>4
  <1>6. h \in Fields BY <1>1, SetHeap
  <1>7. t \in Fields
    <2>1. t = [h EXCEPT !.buf = f] BY <1>3
    <2> QED BY <1>5, <1>6, <2>1, SetBuf
  <1>8. /\ t.heap = s.heap \ {b} /\ t.buf = f /\ Inner(t) = Inner(s)
        /\ t.coeStored = s.coeStored /\ t.foeStored = s.foeStored
        /\ t.eoeStored = s.eoeStored /\ t.freedTwice = s.freedTwice
        /\ t.stored = s.stored /\ t.eoePending = s.eoePending /\ t.running = s.running
        /\ t.full = s.full /\ t.locked = s.locked /\ t.toggle = s.toggle
        /\ t.rxq = s.rxq /\ t.repeat = s.repeat /\ Requests(t) = Requests(s)
    BY <1>1, <1>3 DEF Inner, Fields, Requests
  <1> HIDE DEF t
  <1>9. \A c \in Buffers : c # b => t.buf[c] = s.buf[c] BY <1>1, <1>8
  <1>10. Core(t) /\ Kept(t) = Kept(s) /\ Follows(s, t) /\ Waiting(t) = Waiting(s)
    BY <1>1, <1>7, <1>8, <1>9, Aside
  <1>11. Held2(t) = Held2(s) BY <1>8 DEF Held2
  <1>12. Stores(t) BY <1>1, <1>8, <1>10, <1>11 DEF Good, Stores
  <1>13. Asked(t) BY <1>8 DEF Good, Asked
  <1>14. Lost(t) = Lost(s) \ {b} BY <1>1, <1>8, <1>10, <1>11 DEF Lost
  <1> QED BY <1>8, <1>10, <1>12, <1>13, <1>14 DEF Good, Still, t

\* Services that may be noted for a later call.
Allowed(V) ==
    /\ V \subseteq {"coe", "eoe"}
    /\ "coe" \in V => "list" \in Kinds
    /\ "eoe" \in V => "eoe" \in Kinds

\* Fields of the services.
Services(s) ==
    <<s.coeStored, s.foeStored, s.eoeStored, s.fragsLeft, s.nextFrag, s.listReq,
      s.eoePending, s.eoeFrag, s.eoeReq, s.fails>>

\* A buffer that nobody keeps is sent, or stays in the hands of the service.
LEMMA Sent ==
    ASSUME NEW s, Good(s), s.running, NEW b \in Lost(s), NEW V \in SUBSET Service,
           NEW follow \in BOOLEAN, Allowed(V) \/ (SendOk(s) /\ ~follow)
    PROVE  LET t == MBX_MailboxSendReq(s, b, V, follow)
           IN  /\ Step(s, t) /\ Services(t) = Services(s)
               /\ Lost(t) = IF SendOk(s) THEN Lost(s) \ {b} ELSE Lost(s)
               /\ t.stored = IF follow \/ ~SendOk(s) THEN s.stored \cup V ELSE s.stored
  <1> DEFINE t == MBX_MailboxSendReq(s, b, V, follow)
  <1>1. /\ s \in Fields /\ s.heap \subseteq Buffers /\ Core(s)
        /\ b \in s.heap /\ b \in Buffers /\ b \notin Kept(s) /\ b \notin Held2(s)
        /\ Waiting(s) \in Nat /\ Stores(s) /\ Asked(s)
    BY GoodFacts DEF Good, Lost
  <1>2. Sends(s, t, b, V, follow) BY <1>1, SendFields
  <1>3. /\ Core(t) /\ Follows(s, t)
        /\ Kept(t) = IF SendOk(s) THEN Kept(s) \cup {b} ELSE Kept(s)
        /\ Waiting(t) = IF SendOk(s) THEN Waiting(s) + 1 ELSE Waiting(s)
    BY <1>1, SendCore
  <1> HIDE DEF t
  <1>4. /\ Frame(t) = Frame(s)
        /\ t.stored = IF follow \/ ~SendOk(s) THEN s.stored \cup V ELSE s.stored
    BY <1>2 DEF Sends
  <1>5. /\ Requests(t) = Requests(s) /\ Services(t) = Services(s)
        /\ t.coeStored = s.coeStored /\ t.foeStored = s.foeStored
        /\ t.eoeStored = s.eoeStored /\ t.freedTwice = s.freedTwice
        /\ t.heap = s.heap /\ t.eoePending = s.eoePending /\ t.running
    BY <1>4 DEF Frame, Requests, Services
  <1>6. Held2(t) = Held2(s) BY <1>5 DEF Held2
  <1>7. Stores(t) BY <1>1, <1>3, <1>5, <1>6 DEF Stores
  <1>8. Asked(t) BY <1>1, <1>4, <1>5 DEF Asked, Allowed
  <1>9. Lost(t) = IF SendOk(s) THEN Lost(s) \ {b} ELSE Lost(s)
    BY <1>3, <1>5, <1>6 DEF Lost
  <1>10. Waiting(t) \in Nat /\ Waiting(t) <= Waiting(s) + 1 BY <1>1, <1>3
  <1> QED BY <1>3, <1>4, <1>5, <1>7, <1>8, <1>9, <1>10 DEF Good, Step, t

LEMMA StepThenStill ==
    ASSUME NEW s \in Fields, NEW t, Step(s, t), NEW u, Still(t, u), Requests(u) = Requests(t)
    PROVE  Step(s, u)
  <1>1. t \in Fields /\ u \in Fields BY DEF Step, Still, Good, Core
  <1>2. Follows(s, u) BY <1>1, FollowsTrans DEF Step, Still
  <1> QED BY <1>2 DEF Step, Still

LEMMA StillThenStep ==
    ASSUME NEW s \in Fields, NEW t, Still(s, t), Requests(t) = Requests(s), NEW u, Step(t, u)
    PROVE  Step(s, u)
  <1>1. t \in Fields /\ u \in Fields BY DEF Step, Still, Good, Core
  <1>2. Follows(s, u) BY <1>1, FollowsTrans DEF Step, Still
  <1> QED BY <1>2 DEF Step, Still

LEMMA StillIsStep ==
    ASSUME NEW s, Good(s), NEW t, Still(s, t), Requests(t) = Requests(s)
    PROVE  Step(s, t)
  <1>1. Waiting(s) \in Nat BY GoodFacts
  <1> QED BY <1>1 DEF Step, Still

\* A response that could not be sent is stored by its service.
LEMMA StoredCoe ==
    ASSUME NEW s, Good(s), s.running, NEW b \in Lost(s), s.coeStored = 0
    PROVE  LET t == [s EXCEPT !.coeStored = b]
           IN  /\ Still(s, t) /\ Requests(t) = Requests(s) /\ Lost(t) = Lost(s) \ {b}
  <1> DEFINE t == [s EXCEPT !.coeStored = b]
  <1>1. /\ s \in Fields /\ s.heap \subseteq Buffers /\ Core(s) /\ 0 \notin Kept(s)
        /\ b \in s.heap /\ b \in Buffers /\ b \notin Kept(s) /\ b \notin Held2(s)
        /\ Stores(s) /\ Asked(s) /\ 0 \notin Buffers
    BY GoodFacts DEF Good, Lost
  <1>2. t \in Fields BY <1>1, SetCoeStored DEF Pointer
  <1>3. /\ t.heap = s.heap /\ t.buf = s.buf /\ Inner(t) = Inner(s)
        /\ t.coeStored = b /\ t.foeStored = s.foeStored
        /\ t.eoeStored = s.eoeStored /\ t.freedTwice = s.freedTwice
        /\ t.stored = s.stored /\ t.eoePending = s.eoePending /\ t.running
        /\ Requests(t) = Requests(s)
    BY <1>1 DEF Inner, Fields, Requests
  <1> HIDE DEF t
  <1>4. Core(t) /\ Kept(t) = Kept(s) /\ Follows(s, t) /\ Waiting(t) = Waiting(s)
    BY <1>1, <1>2, <1>3, Aside
  <1>5. Held2(t) = Held2(s) \cup {b} BY <1>1, <1>3 DEF Held2
  <1>6. Stores(t) BY <1>1, <1>3, <1>4, <1>5 DEF Stores, Held2
  <1>7. Asked(t) BY <1>1, <1>3 DEF Asked
  <1>8. Lost(t) = Lost(s) \ {b} BY <1>3, <1>4, <1>5 DEF Lost
  <1> QED BY <1>3, <1>4, <1>6, <1>7, <1>8 DEF Good, Still, t

LEMMA StoredEoe ==
    ASSUME NEW s, Good(s), s.running, NEW b \in Lost(s), s.eoeStored = 0
    PROVE  LET t == [s EXCEPT !.eoeStored = b]
           IN  /\ Still(s, t) /\ Requests(t) = Requests(s) /\ Lost(t) = Lost(s) \ {b}
  <1> DEFINE t == [s EXCEPT !.eoeStored = b]
  <1>1. /\ s \in Fields /\ s.heap \subseteq Buffers /\ Core(s) /\ 0 \notin Kept(s)
        /\ b \in s.heap /\ b \in Buffers /\ b \notin Kept(s) /\ b \notin Held2(s)
        /\ Stores(s) /\ Asked(s) /\ 0 \notin Buffers
    BY GoodFacts DEF Good, Lost
  <1>2. t \in Fields BY <1>1, SetEoeStored DEF Pointer
  <1>3. /\ t.heap = s.heap /\ t.buf = s.buf /\ Inner(t) = Inner(s)
        /\ t.coeStored = s.coeStored /\ t.foeStored = s.foeStored
        /\ t.eoeStored = b /\ t.freedTwice = s.freedTwice
        /\ t.stored = s.stored /\ t.eoePending = s.eoePending /\ t.running
        /\ Requests(t) = Requests(s)
    BY <1>1 DEF Inner, Fields, Requests
  <1> HIDE DEF t
  <1>4. Core(t) /\ Kept(t) = Kept(s) /\ Follows(s, t) /\ Waiting(t) = Waiting(s)
    BY <1>1, <1>2, <1>3, Aside
  <1>5. Held2(t) = Held2(s) \cup {b} BY <1>1, <1>3 DEF Held2
  <1>6. Stores(t) BY <1>1, <1>3, <1>4, <1>5 DEF Stores, Held2
  <1>7. Asked(t) BY <1>1, <1>3 DEF Asked
  <1>8. Lost(t) = Lost(s) \ {b} BY <1>3, <1>4, <1>5 DEF Lost
  <1> QED BY <1>3, <1>4, <1>6, <1>7, <1>8 DEF Good, Still, t

\* The contents of a buffer that nobody keeps.
LEMMA Marked ==
    ASSUME NEW s, Good(s), NEW b \in Lost(s), NEW msg \in Message
    PROVE  LET t == [s EXCEPT !.buf = [s.buf EXCEPT ![b] = msg]]
           IN  /\ Still(s, t) /\ Lost(t) = Lost(s) /\ Requests(t) = Requests(s)
               /\ Services(t) = Services(s) /\ Inner(t) = Inner(s)
               /\ t.stored = s.stored /\ t.buf[b] = msg
  <1> DEFINE f == [s.buf EXCEPT ![b] = msg]
             t == [s EXCEPT !.buf = f]
  <1>1. /\ s \in Fields /\ s.heap \subseteq Buffers /\ Core(s)
        /\ b \in s.heap /\ b \in Buffers /\ b \notin Kept(s)
        /\ Stores(s) /\ Asked(s) /\ s.buf \in [Buffers -> Message]
    BY GoodFacts DEF Good, Lost
  <1>2. f \in [Buffers -> Message] BY <1>1
  <1>3. t \in Fields BY <1>1, <1>2, SetBuf
  <1>4. /\ t.buf = f /\ Inner(t) = Inner(s) /\ Services(t) = Services(s)
        /\ Requests(t) = Requests(s) /\ t.heap = s.heap
        /\ t.coeStored = s.coeStored /\ t.foeStored = s.foeStored
        /\ t.eoeStored = s.eoeStored /\ t.freedTwice = s.freedTwice
        /\ t.stored = s.stored /\ t.eoePending = s.eoePending /\ t.running = s.running
        /\ t.full = s.full /\ t.locked = s.locked /\ t.toggle = s.toggle
        /\ t.rxq = s.rxq /\ t.repeat = s.repeat
    BY <1>1 DEF Inner, Fields, Requests, Services
  <1> HIDE DEF t
  <1>5. /\ \A c \in Buffers : c # b => t.buf[c] = s.buf[c]
        /\ t.buf[b] = msg
    BY <1>1, <1>4
  <1>6. Core(t) /\ Kept(t) = Kept(s) /\ Follows(s, t) /\ Waiting(t) = Waiting(s)
    BY <1>1, <1>3, <1>4, <1>5, Aside
  <1>7. Held2(t) = Held2(s) BY <1>4 DEF Held2
  <1>8. Stores(t) BY <1>1, <1>4, <1>6, <1>7 DEF Stores
  <1>9. Asked(t) BY <1>1, <1>4 DEF Asked
  <1>10. Lost(t) = Lost(s) BY <1>4, <1>6, <1>7 DEF Lost
  <1> QED BY <1>4, <1>5, <1>6, <1>8, <1>9, <1>10 DEF Good, Still, t, f

-----------------------------------------------------------------------------
(* The services.                                                           *)

\* What becomes of a buffer in the hands of a service.
Serves(s, t, b) == Step(s, t) /\ Lost(t) = Lost(s) \ {b}

LEMMA SendOkInner ==
    ASSUME NEW s, NEW t, Inner(t) = Inner(s)
    PROVE  SendOk(t) <=> SendOk(s)
  BY InnerSame DEF SendOk, CanCopy

LEMMA SdoResServes ==
    ASSUME NEW s, Good(s), s.running, NEW b \in Lost(s), SendOk(s)
    PROVE  Serves(s, SdoRes(s, b), b)
  <1> DEFINE t == MBX_MailboxSendReq(s, b, {"coe"}, FALSE)
  <1>1. Step(s, t) /\ Lost(t) = Lost(s) \ {b} BY Sent DEF Service
  <1>2. SdoRes(s, b) = t BY DEF SdoRes
  <1> QED BY <1>1, <1>2 DEF Serves

LEMMA FoeResServes ==
    ASSUME NEW s, Good(s), s.running, NEW b \in Lost(s), SendOk(s)
    PROVE  Serves(s, FoeRes(s, b), b)
  <1> DEFINE t == MBX_MailboxSendReq(s, b, {"foe"}, FALSE)
  <1>1. Step(s, t) /\ Lost(t) = Lost(s) \ {b} BY Sent DEF Service
  <1>2. FoeRes(s, b) = t BY DEF FoeRes
  <1> QED BY <1>1, <1>2 DEF Serves

LEMMA MailboxErrorServes ==
    ASSUME NEW s, Good(s), s.running, NEW b \in Lost(s), SendOk(s)
    PROVE  Serves(s, MailboxError(s, b), b)
  <1> DEFINE msg == [s.buf[b] EXCEPT !.err = TRUE]
             e == [s EXCEPT !.buf = [s.buf EXCEPT ![b] = msg]]
             t == MBX_MailboxSendReq(e, b, {}, FALSE)
  <1>1. s \in Fields /\ b \in Buffers /\ s.buf[b] \in Message
    BY GoodFacts DEF Lost
  <1>2. msg \in Message BY <1>1 DEF Message
  <1>3. MailboxError(s, b) = t
    <2>1. [s EXCEPT !.buf[b].err = TRUE] = e BY <1>1 DEF Fields
    <2> QED BY <2>1 DEF MailboxError
  <1> HIDE DEF msg
  <1>4. /\ Still(s, e) /\ Lost(e) = Lost(s) /\ Requests(e) = Requests(s) /\ Inner(e) = Inner(s)
    BY <1>2, Marked
  <1> HIDE DEF e
  <1>5. Good(e) /\ e.running /\ SendOk(e) BY <1>4, SendOkInner, InnerSame DEF Still
  <1>6. b \in Lost(e) /\ {} \in SUBSET Service /\ FALSE \in BOOLEAN BY <1>4
  <1>7. Step(e, t) /\ Lost(t) = Lost(e) \ {b} BY <1>5, <1>6, Sent
  <1> QED BY <1>1, <1>3, <1>4, <1>7, StillThenStep DEF Serves

\* With a response already stored, a fragment of a list has to be accepted.
LEMMA SdoInfoServes ==
    ASSUME NEW s, Good(s), s.running, NEW b \in Lost(s), SendOk(s) \/ s.coeStored = 0,
           "list" \in Kinds
    PROVE  Serves(s, SDOS_SdoInfoInd(s, b), b)
  <1> DEFINE frag == IF s.fragsLeft = 0 THEN 0 ELSE s.nextFrag
             left == IF s.fragsLeft = 0 THEN ListFrags ELSE s.fragsLeft - 1
             msg  == [s.buf[b] EXCEPT !.frag = frag]
             p0   == [s EXCEPT !.buf = [s.buf EXCEPT ![b] = msg]]
             p1   == [p0 EXCEPT !.listReq = s.buf[b].req]
             p2   == [p1 EXCEPT !.fragsLeft = left]
             p3   == [p2 EXCEPT !.nextFrag = frag + 1]
             follow == left > 0
             u    == MBX_MailboxSendReq(p3, b, {"coe"}, follow)
             w    == IF SendOk(p3) THEN u ELSE [u EXCEPT !.coeStored = b]
  <1>1. s \in Fields /\ b \in Buffers /\ s.buf[b] \in Message
    BY GoodFacts DEF Lost
  <1>2. /\ s.buf[b].req \in 0 .. MaxReq /\ frag \in Nat /\ frag + 1 \in Nat
        /\ left \in 0 .. ListFrags
    <2>1. /\ s.fragsLeft \in 0 .. ListFrags /\ s.nextFrag \in Nat /\ ListFrags \in Nat
      BY <1>1, MailboxAssumption DEF Fields
    <2>2. s.buf[b].req \in 0 .. MaxReq BY <1>1 DEF Message
    <2>3. left \in 0 .. ListFrags BY <2>1
    <2>4. frag \in Nat BY <2>1
    <2> QED BY <2>2, <2>3, <2>4
  <1>3. msg \in Message BY <1>1, <1>2 DEF Message
  <1>4. SDOS_SdoInfoInd(s, b) = w
    <2>1. [s EXCEPT !.listReq = s.buf[b].req, !.fragsLeft = left,
                    !.nextFrag = frag + 1, !.buf[b].frag = frag] = p3
      BY <1>1 DEF Fields
    <2> HIDE DEF frag, left, p3
    <2>2. SDOS_SdoInfoInd(s, b) =
            LET t == [s EXCEPT !.listReq = s.buf[b].req, !.fragsLeft = left,
                               !.nextFrag = frag + 1, !.buf[b].frag = frag]
                x == MBX_MailboxSendReq(t, b, {"coe"}, left > 0)
            IN  IF SendOk(t) THEN x ELSE [x EXCEPT !.coeStored = b]
      BY DEF SDOS_SdoInfoInd, frag, left
    <2> QED BY <2>1, <2>2
  <1>5. /\ Still(s, p0) /\ Lost(p0) = Lost(s) /\ Requests(p0) = Requests(s)
        /\ Inner(p0) = Inner(s)
    BY <1>3, Marked
  <1>6. p0 \in Fields /\ Good(p0) BY <1>5 DEF Still, Good, Core
  <1>7. p3 \in Fields
    <2> HIDE DEF p0, frag, left
    <2>1. p1 \in Fields BY <1>2, <1>6, SetListReq
    <2>2. p2 \in Fields BY <1>2, <2>1, SetFragsLeft
    <2> QED BY <1>2, <2>2, SetNextFrag
  <1>8. /\ Inner(p3) = Inner(p0) /\ p3.heap = p0.heap /\ p3.buf = p0.buf
        /\ p3.coeStored = p0.coeStored /\ p3.foeStored = p0.foeStored
        /\ p3.eoeStored = p0.eoeStored /\ p3.freedTwice = p0.freedTwice
        /\ p3.stored = p0.stored /\ p3.eoePending = p0.eoePending
        /\ p3.running = p0.running /\ p3.full = p0.full /\ p3.locked = p0.locked
        /\ p3.toggle = p0.toggle /\ p3.rxq = p0.rxq /\ p3.repeat = p0.repeat
        /\ Requests(p3) = Requests(p0) /\ p0.coeStored = s.coeStored
    <2> HIDE DEF msg, frag, left
    <2> QED BY <1>1 DEF Fields, Inner, Requests
  <1> HIDE DEF p0, p3
  <1>9. Asked(p3) BY <1>6, <1>8 DEF Good, Asked
  <1>10. Still(p0, p3) /\ Lost(p3) = Lost(p0) BY <1>6, <1>7, <1>8, <1>9, Flags
  <1>11. /\ Still(s, p3) /\ Lost(p3) = Lost(s) /\ Requests(p3) = Requests(s)
         /\ Inner(p3) = Inner(s) /\ Good(p3)
    <2>1. Follows(s, p3) BY <1>1, <1>5, <1>6, <1>7, <1>10, FollowsTrans DEF Still
    <2> QED BY <1>5, <1>8, <1>10, <2>1 DEF Still
  <1>12. p3.running /\ (SendOk(p3) <=> SendOk(s)) BY <1>11, SendOkInner, InnerSame
  <1>13. /\ Step(p3, u) /\ Services(u) = Services(p3)
         /\ Lost(u) = IF SendOk(p3) THEN Lost(p3) \ {b} ELSE Lost(p3)
    <2> DEFINE V == {"coe"}
    <2>1. Allowed(V) /\ V \in SUBSET Service BY DEF Allowed, Service
    <2>2. Good(p3) /\ p3.running /\ b \in Lost(p3) BY <1>11, <1>12
    <2> HIDE DEF V
    <2>3. LET y == MBX_MailboxSendReq(p3, b, V, TRUE)
          IN  /\ Step(p3, y) /\ Services(y) = Services(p3)
              /\ Lost(y) = IF SendOk(p3) THEN Lost(p3) \ {b} ELSE Lost(p3)
      BY <2>1, <2>2, Sent
    <2>4. LET y == MBX_MailboxSendReq(p3, b, V, FALSE)
          IN  /\ Step(p3, y) /\ Services(y) = Services(p3)
              /\ Lost(y) = IF SendOk(p3) THEN Lost(p3) \ {b} ELSE Lost(p3)
      BY <2>1, <2>2, Sent
    <2>5. \/ u = MBX_MailboxSendReq(p3, b, V, TRUE)
          \/ u = MBX_MailboxSendReq(p3, b, V, FALSE)
      <3> HIDE DEF left
      <3>1. CASE left > 0
        <4>1. follow = TRUE BY <3>1
        <4> HIDE DEF follow
        <4> QED BY <4>1, Zenon DEF V
      <3>2. CASE ~(left > 0)
        <4>1. follow = FALSE BY <3>2
        <4> HIDE DEF follow
        <4> QED BY <4>1, Zenon DEF V
      <3> QED BY <3>1, <3>2
    <2> HIDE DEF u
    <2> QED BY <2>3, <2>4, <2>5
  <1> HIDE DEF u
  <1>14. CASE SendOk(p3)
    <2>1. Step(s, u) BY <1>1, <1>11, <1>13, StillThenStep
    <2> QED BY <1>4, <1>11, <1>13, <1>14, <2>1 DEF Serves
  <1>15. CASE ~SendOk(p3)
    <2>1. u.coeStored = 0 BY <1>8, <1>12, <1>13, <1>15 DEF Services
    <2>2. Good(u) /\ u.running /\ b \in Lost(u)
      BY <1>11, <1>12, <1>13, <1>15 DEF Step, Follows
    <2>3. /\ Still(u, w) /\ Requests(w) = Requests(u) /\ Lost(w) = Lost(u) \ {b}
      BY <1>15, <2>1, <2>2, StoredCoe
    <2>4. Step(p3, w) BY <1>7, <1>13, <2>3, StepThenStill
    <2>5. Step(s, w) BY <1>1, <1>11, <2>4, StillThenStep
    <2> QED BY <1>4, <1>11, <1>13, <1>15, <2>3, <2>5 DEF Serves
  <1> QED BY <1>14, <1>15

\* A call that ends with no buffer in hand, as it began.
Calls(s, t) == Step(s, t) /\ Lost(t) = Lost(s)

\* The stored response is sent or stays stored.
LEMMA ResendCoe ==
    ASSUME NEW s, Good(s), s.running, s.coeStored # 0, "list" \in Kinds
    PROVE  LET t == MBX_MailboxSendReq(s, s.coeStored, {"coe"}, FALSE)
           IN  Calls(s, IF SendOk(s) THEN [t EXCEPT !.coeStored = 0] ELSE t)
  <1> DEFINE b == s.coeStored
             V == {"coe"}
             t == MBX_MailboxSendReq(s, b, V, FALSE)
             u == [t EXCEPT !.coeStored = 0]
  <1>1. /\ s \in Fields /\ s.heap \subseteq Buffers /\ Core(s) /\ 0 \notin Buffers
        /\ Held2(s) \subseteq s.heap /\ Held2(s) \cap Kept(s) = {}
        /\ Waiting(s) \in Nat /\ Stores(s) /\ Asked(s)
    BY GoodFacts DEF Good, Stores
  <1>2. b \in Held2(s) BY DEF Held2
  <1>3. b \in s.heap /\ b \in Buffers /\ b \notin Kept(s) BY <1>1, <1>2
  <1>4. V \in SUBSET Service /\ Allowed(V) BY DEF Service, Allowed
  <1> HIDE DEF V
  <1>5. Sends(s, t, b, V, FALSE) BY <1>1, <1>3, <1>4, SendFields
  <1>6. /\ Core(t) /\ Follows(s, t)
        /\ Kept(t) = IF SendOk(s) THEN Kept(s) \cup {b} ELSE Kept(s)
        /\ Waiting(t) = IF SendOk(s) THEN Waiting(s) + 1 ELSE Waiting(s)
    BY <1>1, <1>3, <1>4, SendCore
  <1> HIDE DEF t
  <1>7. /\ Frame(t) = Frame(s)
        /\ t.stored = IF ~SendOk(s) THEN s.stored \cup V ELSE s.stored
    BY <1>5 DEF Sends
  <1>8. /\ Requests(t) = Requests(s)
        /\ t.coeStored = s.coeStored /\ t.foeStored = s.foeStored
        /\ t.eoeStored = s.eoeStored /\ t.freedTwice = s.freedTwice
        /\ t.heap = s.heap /\ t.eoePending = s.eoePending /\ t.running
    BY <1>7 DEF Frame, Requests
  <1>9. ASSUME ~SendOk(s) PROVE Calls(s, t)
    <2>1. Held2(t) = Held2(s) BY <1>8 DEF Held2
    <2>2. Stores(t) BY <1>1, <1>6, <1>8, <1>9, <2>1 DEF Stores
    <2>3. Asked(t) BY <1>1, <1>4, <1>7, <1>8, <1>9 DEF Asked, Allowed
    <2>4. Lost(t) = Lost(s) BY <1>6, <1>8, <1>9, <2>1 DEF Lost
    <2> QED BY <1>1, <1>6, <1>8, <1>9, <2>2, <2>3, <2>4 DEF Good, Step, Calls
  <1>10. ASSUME SendOk(s) PROVE Calls(s, u)
    <2>1. t \in Fields BY <1>6 DEF Core
    <2>2. u \in Fields BY <2>1, SetCoeStored DEF Pointer
    <2>3. /\ u.heap = s.heap /\ u.buf = t.buf /\ Inner(u) = Inner(t) /\ u.coeStored = 0
          /\ u.foeStored = s.foeStored /\ u.eoeStored = s.eoeStored
          /\ u.freedTwice = s.freedTwice /\ u.stored = s.stored
          /\ u.eoePending = s.eoePending /\ u.running /\ Requests(u) = Requests(t)
      BY <1>7, <1>8, <1>10, <2>1 DEF Fields, Inner, Requests
    <2> HIDE DEF u
    <2>4. 0 \notin Kept(t) BY <1>1, <1>3, <1>6, <1>10, GoodFacts
    <2>5. Core(u) /\ Kept(u) = Kept(t) /\ Follows(t, u) /\ Waiting(u) = Waiting(t)
      BY <1>6, <1>8, <2>2, <2>3, <2>4, Aside
    <2>6. Held2(u) = Held2(s) \ {b}
      BY <1>1, <2>3 DEF Held2, Stores
    <2>7. Stores(u) BY <1>1, <1>6, <1>10, <2>3, <2>5, <2>6 DEF Stores
    <2>8. Asked(u) BY <1>1, <2>3 DEF Asked
    <2>9. Lost(u) = Lost(s) BY <1>2, <1>6, <1>10, <2>3, <2>5, <2>6 DEF Lost
    <2>10. Follows(s, u) BY <1>1, <1>6, <2>1, <2>2, <2>5, FollowsTrans
    <2> QED BY <1>1, <1>6, <1>8, <1>10, <2>3, <2>5, <2>7, <2>8, <2>9, <2>10
            DEF Good, Step, Calls
  <1> HIDE DEF u
  <1>11. Calls(s, IF SendOk(s) THEN u ELSE t) BY <1>9, <1>10
  <1> QED BY <1>11, Zenon DEF u, t, V

LEMMA ResendEoe ==
    ASSUME NEW s, Good(s), s.running, s.eoeStored # 0, "eoe" \in Kinds
    PROVE  LET t == MBX_MailboxSendReq(s, s.eoeStored, {"eoe"}, FALSE)
           IN  Calls(s, IF SendOk(s) THEN [t EXCEPT !.eoeStored = 0] ELSE t)
  <1> DEFINE b == s.eoeStored
             V == {"eoe"}
             t == MBX_MailboxSendReq(s, b, V, FALSE)
             u == [t EXCEPT !.eoeStored = 0]
  <1>1. /\ s \in Fields /\ s.heap \subseteq Buffers /\ Core(s) /\ 0 \notin Buffers
        /\ Held2(s) \subseteq s.heap /\ Held2(s) \cap Kept(s) = {}
        /\ Waiting(s) \in Nat /\ Stores(s) /\ Asked(s)
    BY GoodFacts DEF Good, Stores
  <1>2. b \in Held2(s) BY DEF Held2
  <1>3. b \in s.heap /\ b \in Buffers /\ b \notin Kept(s) BY <1>1, <1>2
  <1>4. V \in SUBSET Service /\ Allowed(V) BY DEF Service, Allowed
  <1> HIDE DEF V
  <1>5. Sends(s, t, b, V, FALSE) BY <1>1, <1>3, <1>4, SendFields
  <1>6. /\ Core(t) /\ Follows(s, t)
        /\ Kept(t) = IF SendOk(s) THEN Kept(s) \cup {b} ELSE Kept(s)
        /\ Waiting(t) = IF SendOk(s) THEN Waiting(s) + 1 ELSE Waiting(s)
    BY <1>1, <1>3, <1>4, SendCore
  <1> HIDE DEF t
  <1>7. /\ Frame(t) = Frame(s)
        /\ t.stored = IF ~SendOk(s) THEN s.stored \cup V ELSE s.stored
    BY <1>5 DEF Sends
  <1>8. /\ Requests(t) = Requests(s)
        /\ t.coeStored = s.coeStored /\ t.foeStored = s.foeStored
        /\ t.eoeStored = s.eoeStored /\ t.freedTwice = s.freedTwice
        /\ t.heap = s.heap /\ t.eoePending = s.eoePending /\ t.running
    BY <1>7 DEF Frame, Requests
  <1>9. ASSUME ~SendOk(s) PROVE Calls(s, t)
    <2>1. Held2(t) = Held2(s) BY <1>8 DEF Held2
    <2>2. Stores(t) BY <1>1, <1>6, <1>8, <1>9, <2>1 DEF Stores
    <2>3. Asked(t) BY <1>1, <1>4, <1>7, <1>8, <1>9 DEF Asked, Allowed
    <2>4. Lost(t) = Lost(s) BY <1>6, <1>8, <1>9, <2>1 DEF Lost
    <2> QED BY <1>1, <1>6, <1>8, <1>9, <2>2, <2>3, <2>4 DEF Good, Step, Calls
  <1>10. ASSUME SendOk(s) PROVE Calls(s, u)
    <2>1. t \in Fields BY <1>6 DEF Core
    <2>2. u \in Fields BY <2>1, SetEoeStored DEF Pointer
    <2>3. /\ u.heap = s.heap /\ u.buf = t.buf /\ Inner(u) = Inner(t) /\ u.eoeStored = 0
          /\ u.foeStored = s.foeStored /\ u.coeStored = s.coeStored
          /\ u.freedTwice = s.freedTwice /\ u.stored = s.stored
          /\ u.eoePending = s.eoePending /\ u.running /\ Requests(u) = Requests(t)
      BY <1>7, <1>8, <1>10, <2>1 DEF Fields, Inner, Requests
    <2> HIDE DEF u
    <2>4. 0 \notin Kept(t) BY <1>1, <1>3, <1>6, <1>10, GoodFacts
    <2>5. Core(u) /\ Kept(u) = Kept(t) /\ Follows(t, u) /\ Waiting(u) = Waiting(t)
      BY <1>6, <1>8, <2>2, <2>3, <2>4, Aside
    <2>6. Held2(u) = Held2(s) \ {b}
      BY <1>1, <2>3 DEF Held2, Stores
    <2>7. Stores(u) BY <1>1, <1>6, <1>10, <2>3, <2>5, <2>6 DEF Stores
    <2>8. Asked(u) BY <1>1, <2>3 DEF Asked
    <2>9. Lost(u) = Lost(s) BY <1>2, <1>6, <1>10, <2>3, <2>5, <2>6 DEF Lost
    <2>10. Follows(s, u) BY <1>1, <1>6, <2>1, <2>2, <2>5, FollowsTrans
    <2> QED BY <1>1, <1>6, <1>8, <1>10, <2>3, <2>5, <2>7, <2>8, <2>9, <2>10
            DEF Good, Step, Calls
  <1> HIDE DEF u
  <1>11. Calls(s, IF SendOk(s) THEN u ELSE t) BY <1>9, <1>10
  <1> QED BY <1>11, Zenon DEF u, t, V

\* An allocation fails, and the service is to be called again.
LEMMA Failed ==
    ASSUME NEW s, Good(s), s.running, NEW V \in SUBSET Service, Allowed(V)
    PROVE  Calls(s, [AllocFailed(s) EXCEPT !.stored = @ \cup V])
  <1> DEFINE f == IF s.fails < MaxFails THEN s.fails + 1 ELSE s.fails
             t == [s EXCEPT !.fails = f]
             u == [t EXCEPT !.stored = s.stored \cup V]
  <1>1. s \in Fields /\ Good(s) /\ Asked(s) BY GoodFacts DEF Good
  <1>2. f \in 0 .. MaxFails
    <2>1. s.fails \in 0 .. MaxFails /\ MaxFails \in Nat
      BY <1>1, MailboxAssumption DEF Fields
    <2> QED BY <2>1
  <1>3. t \in Fields BY <1>1, <1>2, SetFails
  <1>4. u \in Fields
    <2>1. s.stored \cup V \in SUBSET Service BY <1>1 DEF Fields
    <2> QED BY <1>3, <2>1, SetStored
  <1>5. [AllocFailed(s) EXCEPT !.stored = @ \cup V] = u
    BY <1>1 DEF Fields, AllocFailed
  <1>6. /\ u.heap = s.heap /\ u.buf = s.buf /\ Inner(u) = Inner(s) /\ u.coeStored = s.coeStored
        /\ u.foeStored = s.foeStored /\ u.eoeStored = s.eoeStored
        /\ u.freedTwice = s.freedTwice /\ u.stored = s.stored \cup V
        /\ u.eoePending = s.eoePending /\ u.running /\ Requests(u) = Requests(s)
    <2> HIDE DEF f
    <2> QED BY <1>1 DEF Fields, Inner, Requests
  <1> HIDE DEF u
  <1>7. Asked(u) BY <1>1, <1>6 DEF Asked, Allowed
  <1>8. Still(s, u) /\ Lost(u) = Lost(s) BY <1>1, <1>4, <1>6, <1>7, Flags
  <1> QED BY <1>5, <1>6, <1>8, StillIsStep DEF Calls

LEMMA COE_ContinueCalls ==
    ASSUME NEW s, Good(s), s.running, "list" \in Kinds, NEW ok
    PROVE  Calls(s, COE_ContinueInd(s, ok))
  <1> DEFINE t == COE_ContinueInd(s, ok)
  <1>1. s \in Fields BY GoodFacts
  <1>2. CASE s.coeStored # 0
    BY <1>2, ResendCoe DEF COE_ContinueInd
  <1>3. CASE s.coeStored = 0 /\ CanAlloc(s, ok)
    <2> DEFINE b == Fresh(s)
               header == [Empty EXCEPT !.req = s.listReq, !.kind = "list"]
               a == Alloc(s, b, header)
    <2>1. header \in Message
      <3> DEFINE h == [Empty EXCEPT !.req = s.listReq]
      <3>1. s.listReq \in 0 .. MaxReq BY <1>1 DEF Fields
      <3>2. Empty \in Message BY MailboxAssumption DEF Empty, Message
      <3>3. h \in Message BY <3>1, <3>2 DEF Message
      <3>4. [h EXCEPT !.kind = "list"] \in Message BY <3>3 DEF Message
      <3>5. header = [h EXCEPT !.kind = "list"] BY <3>2 DEF Message
      <3> QED BY <3>4, <3>5
    <2> HIDE DEF header
    <2>2. /\ b \in Lost(a) /\ Still(s, a) /\ Lost(a) = Lost(s) \cup {b}
          /\ Requests(a) = Requests(s) /\ Inner(a) = Inner(s) /\ b \notin s.heap
          /\ a.coeStored = s.coeStored
      <3>1. /\ b \in Lost(a) /\ Still(s, a) /\ Lost(a) = Lost(s) \cup {b}
            /\ Requests(a) = Requests(s) /\ Inner(a) = Inner(s) /\ b \notin s.heap
        BY <1>3, <2>1, Allocated
      <3>2. a.coeStored = s.coeStored BY <1>1 DEF Alloc, Fields
      <3> QED BY <3>1, <3>2
    <2>3. t = SDOS_SdoInfoInd(a, b)
      BY <1>3 DEF COE_ContinueInd, header
    <2> HIDE DEF b, a, t
    <2>4. Good(a) /\ a.running BY <2>2, InnerSame DEF Still
    <2>5. Serves(a, t, b) BY <1>3, <2>2, <2>3, <2>4, SdoInfoServes
    <2>6. Step(s, t) BY <1>1, <2>2, <2>5, StillThenStep DEF Serves
    <2>7. Lost(t) = Lost(s) BY <2>2, <2>5 DEF Serves, Lost
    <2> QED BY <2>6, <2>7 DEF Calls, t
  <1>4. CASE s.coeStored = 0 /\ ~CanAlloc(s, ok)
    <2> DEFINE V == {"coe"}
    <2>1. V \in SUBSET Service /\ Allowed(V) BY DEF Service, Allowed
    <2>2. t = [AllocFailed(s) EXCEPT !.stored = @ \cup V]
      BY <1>4 DEF COE_ContinueInd
    <2> HIDE DEF V, t
    <2>3. Calls(s, t) BY <2>1, <2>2, Failed
    <2> QED BY <2>3 DEF t
  <1> QED BY <1>2, <1>3, <1>4

\* All that does not belong to the fields of the services.
Others(s) ==
    <<Inner(s), Requests(s), s.heap, s.buf, s.coeStored, s.foeStored, s.eoeStored,
      s.freedTwice>>

LEMMA EoeFlags ==
    ASSUME NEW s, Good(s), s.running, "eoe" \in Kinds, NEW t \in Fields,
           Others(t) = Others(s), "foe" \notin t.stored,
           "coe" \in t.stored => "coe" \in s.stored
    PROVE  /\ Still(s, t) /\ Lost(t) = Lost(s) /\ Requests(t) = Requests(s)
           /\ Inner(t) = Inner(s) /\ t.eoeStored = s.eoeStored
  <1>1. /\ Inner(t) = Inner(s) /\ Requests(t) = Requests(s)
        /\ t.heap = s.heap /\ t.buf = s.buf /\ t.coeStored = s.coeStored
        /\ t.foeStored = s.foeStored /\ t.eoeStored = s.eoeStored
        /\ t.freedTwice = s.freedTwice
    BY DEF Others
  <1>2. t.running BY <1>1, InnerSame
  <1>3. Asked(t) BY <1>2 DEF Asked, Good
  <1> QED BY <1>1, <1>3, Flags

LEMMA FragmentType ==
    ASSUME NEW s \in Fields, "eoe" \in Kinds
    PROVE  [Empty EXCEPT !.req = s.eoeReq, !.kind = "eoe", !.frag = s.eoeFrag] \in Message
  <1> DEFINE g == [Empty EXCEPT !.req = s.eoeReq]
             h == [g EXCEPT !.kind = "eoe"]
  <1>1. /\ s.eoeReq \in 0 .. MaxReq /\ s.eoeFrag \in 0 .. EoeFrags - 1 /\ EoeFrags \in Nat
    BY MailboxAssumption DEF Fields
  <1>2. s.eoeFrag \in Nat BY <1>1
  <1>3. Empty \in Message BY MailboxAssumption DEF Empty, Message
  <1>4. g \in Message BY <1>1, <1>3 DEF Message
  <1>5. h \in Message BY <1>4 DEF Message
  <1>6. [h EXCEPT !.frag = s.eoeFrag] \in Message BY <1>2, <1>5 DEF Message
  <1>7. [Empty EXCEPT !.req = s.eoeReq, !.kind = "eoe", !.frag = s.eoeFrag]
          = [h EXCEPT !.frag = s.eoeFrag]
    BY <1>3 DEF Message
  <1> QED BY <1>6, <1>7

LEMMA SendFragmentCalls ==
    ASSUME NEW s, Good(s), s.running, "eoe" \in Kinds, s.eoeStored = 0, NEW ok
    PROVE  Calls(s, SendFragment(s, ok))
  <1> DEFINE b    == Fresh(s)
             frag == [Empty EXCEPT !.req = s.eoeReq, !.kind = "eoe", !.frag = s.eoeFrag]
             a    == Alloc(s, b, frag)
             V    == {"eoe"}
             t    == MBX_MailboxSendReq(a, b, V, FALSE)
             u    == IF SendOk(a) THEN t ELSE [t EXCEPT !.eoeStored = b]
             X    == IF SendOk(a) THEN u.stored \ V ELSE u.stored \cup V
             w1   == [u EXCEPT !.eoePending = FALSE, !.stored = X]
             w2   == [u EXCEPT !.eoeFrag = u.eoeFrag + 1, !.stored = u.stored \cup V]
  <1>1. s \in Fields BY GoodFacts
  <1>2. V \in SUBSET Service /\ Allowed(V) BY DEF Service, Allowed
  <1>3. ASSUME ~CanAlloc(s, ok) PROVE Calls(s, SendFragment(s, ok))
    <2> DEFINE x == SendFragment(s, ok)
    <2>1. x = [AllocFailed(s) EXCEPT !.stored = @ \cup V] BY <1>3 DEF SendFragment
    <2> HIDE DEF V, x
    <2>2. Calls(s, x) BY <1>2, <2>1, Failed
    <2> QED BY <2>2 DEF x
  <1>4. ASSUME CanAlloc(s, ok) PROVE Calls(s, SendFragment(s, ok))
    <2>1. frag \in Message BY <1>1, FragmentType
    <2>2. SendFragment(s, ok) = IF s.eoeFrag = EoeFrags - 1 THEN w1 ELSE w2
      BY <1>4, Zenon DEF SendFragment
    <2> HIDE DEF frag
    <2>3. /\ b \in Lost(a) /\ Still(s, a) /\ Lost(a) = Lost(s) \cup {b}
          /\ Requests(a) = Requests(s) /\ Inner(a) = Inner(s) /\ b \notin s.heap
      BY <1>4, <2>1, Allocated
    <2>4. a.eoeStored = s.eoeStored /\ a.eoeFrag = s.eoeFrag
      BY <1>1 DEF Alloc, Fields
    <2> HIDE DEF a, b, V, w1, w2
    <2>5. Good(a) /\ a.running BY <2>3, InnerSame DEF Still
    <2>6. /\ Step(a, t) /\ Services(t) = Services(a)
          /\ Lost(t) = IF SendOk(a) THEN Lost(a) \ {b} ELSE Lost(a)
      BY <1>2, <2>3, <2>5, Sent
    <2>7. t.eoeStored = 0 /\ t.eoeFrag = s.eoeFrag BY <2>4, <2>6 DEF Services
    <2>8. Good(t) /\ t \in Fields /\ t.running BY <2>5, <2>6 DEF Step, Good, Core, Follows
    <2> HIDE DEF t
    <2>9. Calls(s, u) /\ u.eoeFrag = s.eoeFrag
      <3>1. CASE SendOk(a)
        <4>1. Step(s, t) BY <1>1, <2>3, <2>6, StillThenStep
        <4>2. Lost(t) = Lost(s) BY <2>3, <2>6, <3>1 DEF Lost
        <4>3. u = t BY <3>1
        <4> HIDE DEF u
        <4> QED BY <2>7, <4>1, <4>2, <4>3 DEF Calls
      <3>2. CASE ~SendOk(a)
        <4>1. b \in Lost(t) BY <2>3, <2>6, <3>2
        <4>2. u = [t EXCEPT !.eoeStored = b] BY <3>2
        <4>3. Still(t, u) /\ Requests(u) = Requests(t) /\ Lost(u) = Lost(t) \ {b}
          BY <2>7, <2>8, <4>1, <4>2, StoredEoe
        <4>4. u.eoeFrag = s.eoeFrag BY <2>7, <2>8, <4>2 DEF Fields
        <4> HIDE DEF u
        <4>5. a \in Fields BY <2>5, GoodFacts
        <4>6. Step(a, u) BY <2>6, <4>3, <4>5, StepThenStill
        <4>7. Step(s, u) BY <1>1, <2>3, <4>6, StillThenStep
        <4>8. Lost(u) = Lost(s) BY <2>3, <2>6, <3>2, <4>3 DEF Lost
        <4> QED BY <4>4, <4>7, <4>8 DEF Calls
      <3> QED BY <3>1, <3>2
    <2> HIDE DEF u
    <2>10. Good(u) /\ u.running BY <2>9, <2>3, <2>5, InnerSame DEF Calls, Step, Follows
    <2>11. u \in Fields BY <2>10, GoodFacts
    <2>12. /\ u.eoePending \in BOOLEAN /\ u.eoeFrag \in 0 .. EoeFrags - 1
           /\ u.eoeReq \in 0 .. MaxReq /\ u.stored \in SUBSET Service
           /\ "foe" \notin u.stored /\ EoeFrags \in Nat
      BY <2>10, <2>11, MailboxAssumption DEF Fields, Good, Asked
    <2>13. Still(u, w1) /\ Lost(w1) = Lost(u) /\ Requests(w1) = Requests(u)
      <3>1. /\ X \in SUBSET Service /\ "foe" \notin X
            /\ "coe" \in X => "coe" \in u.stored
        BY <1>2, <2>12 DEF V
      <3> DEFINE v == [u EXCEPT !.eoePending = FALSE]
      <3> HIDE DEF X
      <3>2. v \in Fields BY <2>11, SetEoePending
      <3>3. [v EXCEPT !.stored = X] \in Fields BY <3>1, <3>2, SetStored
      <3>4. w1 = [v EXCEPT !.stored = X] BY DEF w1
      <3>5. Others(w1) = Others(u) /\ w1.stored = X
        BY <2>11 DEF w1, Others, Inner, Requests, Fields
      <3> QED BY <2>10, <3>1, <3>3, <3>4, <3>5, EoeFlags
    <2>14. CASE s.eoeFrag = EoeFrags - 1
      <3>1. Step(s, w1) /\ Lost(w1) = Lost(s)
        BY <1>1, <2>9, <2>13, StepThenStill DEF Calls
      <3> QED BY <2>2, <2>14, <3>1 DEF Calls
    <2>15. CASE s.eoeFrag # EoeFrags - 1
      <3> DEFINE Y == u.stored \cup V
                 n == u.eoeFrag + 1
      <3>1. Y \in SUBSET Service /\ "foe" \notin Y /\ ("coe" \in Y => "coe" \in u.stored)
        BY <1>2, <2>12 DEF V
      <3>2. n \in 0 .. EoeFrags - 1 BY <2>9, <2>12, <2>15
      <3> DEFINE v == [u EXCEPT !.eoeFrag = n]
      <3>3. /\ w2 = [v EXCEPT !.stored = Y]
            /\ Others(w2) = Others(u) /\ w2.stored = Y
        <4> HIDE DEF Y, n
        <4>1. w2 = [u EXCEPT !.eoeFrag = n, !.stored = Y] BY DEF w2, Y, n
        <4> QED BY <2>11, <4>1 DEF Others, Inner, Requests, Fields
      <3> HIDE DEF Y, n
      <3>6. v \in Fields BY <2>11, <3>2, SetEoeFrag
      <3>7. [v EXCEPT !.stored = Y] \in Fields BY <3>1, <3>6, SetStored
      <3>4. Still(u, w2) /\ Lost(w2) = Lost(u) /\ Requests(w2) = Requests(u)
        BY <2>10, <3>1, <3>3, <3>7, EoeFlags
      <3>5. Step(s, w2) /\ Lost(w2) = Lost(s)
        BY <1>1, <2>9, <3>4, StepThenStill DEF Calls
      <3> QED BY <2>2, <2>15, <3>5 DEF Calls
    <2> QED BY <2>14, <2>15
  <1> QED BY <1>3, <1>4

LEMMA EOE_ContinueCalls ==
    ASSUME NEW s, Good(s), s.running, "eoe" \in Kinds, NEW ok
    PROVE  Calls(s, EOE_ContinueInd(s, ok))
  <1>1. CASE s.eoeStored # 0
    BY <1>1, ResendEoe DEF EOE_ContinueInd
  <1>2. CASE s.eoeStored = 0 /\ s.eoePending
    BY <1>2, SendFragmentCalls DEF EOE_ContinueInd
  <1>3. CASE s.eoeStored = 0 /\ ~s.eoePending
    <2>1. EOE_ContinueInd(s, ok) = s BY <1>3 DEF EOE_ContinueInd
    <2>2. Waiting(s) \in Nat BY GoodFacts
    <2>3. Calls(s, s) BY <2>2 DEF Calls, Step, Follows
    <2> QED BY <2>1, <2>3
  <1> QED BY <1>1, <1>2, <1>3

LEMMA EOE_SendFrameCalls ==
    ASSUME NEW s, Good(s), s.running, "eoe" \in Kinds, NEW req \in 0 .. MaxReq, NEW ok
    PROVE  Calls(s, EOE_SendFrameRequest(s, req, ok))
  <1>1. CASE ~s.eoePending /\ s.eoeStored = 0
    <2> DEFINE t == [s EXCEPT !.eoePending = TRUE, !.eoeFrag = 0, !.eoeReq = req]
               u == SendFragment(t, ok)
    <2>1. s \in Fields /\ EoeFrags \in Nat \ {0} BY GoodFacts, MailboxAssumption
    <2>2. /\ s.stored \in SUBSET Service /\ "foe" \notin s.stored /\ 0 \in 0 .. EoeFrags - 1
      BY <2>1 DEF Fields, Good, Asked
    <2>3. t \in Fields /\ Others(t) = Others(s) /\ t.stored = s.stored
      <3> DEFINE t1 == [s EXCEPT !.eoePending = TRUE]
                 t2 == [t1 EXCEPT !.eoeFrag = 0]
                 t3 == [t2 EXCEPT !.eoeReq = req]
      <3>1. t1 \in Fields BY <2>1, SetEoePending
      <3>2. t2 \in Fields BY <2>2, <3>1, SetEoeFrag
      <3>3. t3 \in Fields BY <3>2, SetEoeReq
      <3>4. t = t3 OBVIOUS
      <3>5. Others(t) = Others(s) /\ t.stored = s.stored
        BY <2>1 DEF Others, Inner, Requests, Fields
      <3> QED BY <3>3, <3>4, <3>5
    <2>4. EOE_SendFrameRequest(s, req, ok) = u BY <1>1 DEF EOE_SendFrameRequest
    <2> HIDE DEF t
    <2>5. /\ Still(s, t) /\ Lost(t) = Lost(s) /\ Requests(t) = Requests(s)
          /\ Inner(t) = Inner(s) /\ t.eoeStored = s.eoeStored
      BY <2>2, <2>3, EoeFlags
    <2>6. Good(t) /\ t.running BY <2>5, InnerSame DEF Still
    <2>7. Calls(t, u) BY <1>1, <2>5, <2>6, SendFragmentCalls
    <2> HIDE DEF u
    <2>8. Step(s, u) BY <2>1, <2>5, <2>7, StillThenStep DEF Calls
    <2> QED BY <2>4, <2>5, <2>7, <2>8 DEF Calls
  <1>2. CASE s.eoePending \/ s.eoeStored # 0
    <2>1. EOE_SendFrameRequest(s, req, ok) = s BY <1>2 DEF EOE_SendFrameRequest
    <2>2. Waiting(s) \in Nat BY GoodFacts
    <2>3. Calls(s, s) BY <2>2 DEF Calls, Step, Follows
    <2> QED BY <2>1, <2>3
  <1> QED BY <1>1, <1>2

\* A request from the queue: its buffer is sent or freed, unless it is a frame
\* fragment out of sequence.
LEMMA ServiceServes ==
    ASSUME NEW s, Good(s), s.running, NEW b \in Lost(s), SendOk(s), NEW ok
    PROVE  LET t == MailboxServiceInd(s, b, ok)
           IN  IF s.buf[b].kind = "eoeStray"
               THEN /\ Still(s, t) /\ Lost(t) = Lost(s)
                    /\ t.sm0 = s.sm0 /\ t.wcnt = s.wcnt /\ t.locked = s.locked
                    /\ t.toggle = s.toggle /\ t.served = s.served
                    /\ t.strays = s.strays + 1
               ELSE Serves(s, t, b)
  <1> DEFINE t == MailboxServiceInd(s, b, ok)
             kind == s.buf[b].kind
  <1>1. s \in Fields /\ b \in Buffers /\ s.buf[b] \in Message
    BY GoodFacts DEF Lost
  <1>2. kind \in Kinds \cup {"none"} BY <1>1 DEF Message
  <1>3. CASE kind = "sdo"
    <2>1. t = SdoRes(s, b) BY <1>3 DEF MailboxServiceInd
    <2> QED BY <1>3, <2>1, SdoResServes
  <1>4. CASE kind = "list"
    <2>1. t = SDOS_SdoInfoInd(s, b) BY <1>4 DEF MailboxServiceInd
    <2> QED BY <1>2, <1>4, <2>1, SdoInfoServes
  <1>5. CASE kind = "foe"
    <2>1. t = FoeRes(s, b) BY <1>5 DEF MailboxServiceInd
    <2> QED BY <1>5, <2>1, FoeResServes
  <1>6. CASE kind = "foeEnd"
    <2>1. t = Free(s, b) BY <1>6 DEF MailboxServiceInd
    <2> QED BY <1>6, <2>1, Freed, StillIsStep DEF Serves
  <1>7. CASE kind = "eoe"
    <2> DEFINE u == EOE_SendFrameRequest(s, s.buf[b].req, ok)
    <2>1. t = Free(u, b) BY <1>7 DEF MailboxServiceInd
    <2>2. s.buf[b].req \in 0 .. MaxReq BY <1>1 DEF Message
    <2>3. Calls(s, u) BY <1>2, <1>7, <2>2, EOE_SendFrameCalls
    <2> HIDE DEF u
    <2>4. Good(u) /\ b \in Lost(u) BY <2>3 DEF Calls, Step
    <2>5. /\ Still(u, Free(u, b)) /\ Lost(Free(u, b)) = Lost(u) \ {b}
          /\ Requests(Free(u, b)) = Requests(u)
      BY <2>4, Freed
    <2>6. Step(s, Free(u, b)) BY <1>1, <2>3, <2>5, StepThenStill DEF Calls
    <2>7. Serves(s, t, b) BY <2>1, <2>3, <2>5, <2>6 DEF Calls, Serves
    <2> QED BY <1>7, <2>7
  <1>8. CASE kind = "eoeStray"
    <2> DEFINE u == [s EXCEPT !.strays = s.strays + 1]
    <2>1. t = u BY <1>8 DEF MailboxServiceInd
    <2>2. s.strays + 1 \in Nat /\ Asked(s) BY <1>1 DEF Fields, Good
    <2>3. u \in Fields BY <1>1, <2>2, SetStrays
    <2>4. /\ u.heap = s.heap /\ u.buf = s.buf /\ Inner(u) = Inner(s)
          /\ u.coeStored = s.coeStored /\ u.foeStored = s.foeStored
          /\ u.eoeStored = s.eoeStored /\ u.freedTwice = s.freedTwice
          /\ u.stored = s.stored /\ u.eoePending = s.eoePending /\ u.running
          /\ u.sm0 = s.sm0 /\ u.wcnt = s.wcnt /\ u.locked = s.locked
          /\ u.toggle = s.toggle /\ u.served = s.served
          /\ u.strays = s.strays + 1
      BY <1>1 DEF Fields, Inner
    <2> HIDE DEF u, t
    <2>5. Asked(u) BY <2>2, <2>4 DEF Asked
    <2>6. Still(s, u) /\ Lost(u) = Lost(s) BY <2>3, <2>4, <2>5, Flags
    <2> QED BY <1>8, <2>1, <2>4, <2>6 DEF t
  <1>9. CASE kind \notin {"sdo", "list", "foe", "foeEnd", "eoe", "eoeStray"}
    <2>1. t = MailboxError(s, b) BY <1>9 DEF MailboxServiceInd
    <2> QED BY <1>9, <2>1, MailboxErrorServes
  <1> QED BY <1>3, <1>4, <1>5, <1>6, <1>7, <1>8, <1>9

-----------------------------------------------------------------------------
(* Requests.                                                               *)

\* As Follows, whatever becomes of the requests.
Onward(s, t) ==
    /\ t.running = s.running
    /\ Taken(t) = Taken(s)
    /\ Len(s.sent) <= Len(t.sent)
    /\ \A i \in 1 .. Len(s.sent) : t.sent[i] = s.sent[i]
    /\ s.sm1 # Empty => t.sm1 # Empty /\ t.repeat = s.repeat
    /\ Behind(s) => Behind(t)
    /\ Visible(s) => Visible(t)

LEMMA OnwardTrans ==
    ASSUME NEW s \in Fields, NEW t \in Fields, NEW u \in Fields,
           Onward(s, t), Onward(t, u)
    PROVE  Onward(s, u)
  <1>1. Len(s.sent) \in Nat /\ Len(t.sent) \in Nat /\ Len(u.sent) \in Nat
    BY LenProperties DEF Fields
  <1>2. \A i \in 1 .. Len(s.sent) : i \in 1 .. Len(t.sent) BY <1>1 DEF Onward
  <1>3. \A i \in 1 .. Len(s.sent) : u.sent[i] = s.sent[i] BY <1>2 DEF Onward
  <1>4. Len(s.sent) <= Len(u.sent) BY <1>1 DEF Onward
  <1> QED BY <1>3, <1>4 DEF Onward

LEMMA FollowsOnward ==
    ASSUME NEW s, NEW t, Follows(s, t)
    PROVE  Onward(s, t)
  BY DEF Follows, Onward

\* A request goes to the end of the queue.
LEMMA Queued ==
    ASSUME NEW s, Good(s), s.running, NEW b \in Lost(s), NEW c \in 0 .. MaxCounter
    PROVE  LET t == [s EXCEPT !.wcnt = c, !.rxq = Append(s.rxq, b)]
           IN  /\ Good(t) /\ Lost(t) = Lost(s) \ {b} /\ Waiting(t) = Waiting(s)
               /\ Onward(s, t) /\ b \in Buffers /\ b \notin ToSet(s.rxq)
  <1> DEFINE q == Append(s.rxq, b)
             t1 == [s EXCEPT !.wcnt = c]
             t == [s EXCEPT !.wcnt = c, !.rxq = q]
  <1>1. /\ s \in Fields /\ s.heap \subseteq Buffers /\ Core(s) /\ 0 \notin Buffers
        /\ b \in s.heap /\ b \in Buffers /\ b \notin Kept(s) /\ b \notin Held2(s)
        /\ Stores(s) /\ Asked(s) /\ s.rxq \in Seq(Buffers)
    BY GoodFacts DEF Good, Lost, Fields
  <1>2. /\ q \in Seq(Buffers) /\ ToSet(q) = ToSet(s.rxq) \cup {b}
        /\ IsInjective(s.rxq) /\ b \notin ToSet(s.rxq) => IsInjective(q)
    BY <1>1, AppendSet
  <1>3. t \in Fields
    <2> HIDE DEF q
    <2>1. t1 \in Fields BY <1>1, SetWcnt
    <2>2. t = [t1 EXCEPT !.rxq = q] OBVIOUS
    <2> QED BY <1>2, <2>1, <2>2, SetRxq
  <1>4. /\ t.running = s.running /\ t.rxq = q /\ t.txq = s.txq
        /\ t.read = s.read /\ t.repeat = s.repeat /\ t.store = s.store
        /\ t.full = s.full /\ t.sm1 = s.sm1 /\ t.rcnt = s.rcnt /\ t.sent = s.sent
        /\ t.heap = s.heap /\ t.buf = s.buf /\ t.coeStored = s.coeStored
        /\ t.foeStored = s.foeStored /\ t.eoeStored = s.eoeStored
        /\ t.freedTwice = s.freedTwice /\ t.stored = s.stored
        /\ t.eoePending = s.eoePending
    BY <1>1 DEF Fields
  <1> HIDE DEF t, q
  <1>5. b \notin ToSet(s.rxq) /\ b \notin ToSet(s.txq) /\ b \notin {s.read, s.repeat, s.store}
    <2>1. s.full \/ s.read = s.repeat BY <1>1 DEF Core, Quiet
    <2> QED BY <1>1, <2>1 DEF Kept
  <1>6. Kept(t) = Kept(s) \cup {b} BY <1>2, <1>4 DEF Kept
  <1>7. Apart(t) BY <1>1, <1>2, <1>4, <1>5 DEF Core, Apart
  <1>8. /\ Base(t) = Base(s) /\ Taken(t) = Taken(s) /\ Behind(t) = Behind(s)
        /\ Visible(t) = Visible(s) /\ Waiting(t) = Waiting(s)
    BY <1>4 DEF Base, Taken, Behind, Visible, Waiting
  <1>9. Quiet(t) /\ Line(t)
    <2>1. Quiet(s) /\ Line(s) BY <1>1 DEF Core
    <2>2. Quiet(t) BY <1>4, <2>1 DEF Quiet
    <2>3. Line(t) BY <1>4, <1>8, <2>1 DEF Line
    <2> QED BY <2>2, <2>3
  <1>10. Counters(t) BY <1>1, <1>4 DEF Core, Counters, ReadCounter
  <1>11. Core(t) BY <1>1, <1>3, <1>4, <1>6, <1>7, <1>9, <1>10 DEF Core
  <1>12. Held2(t) = Held2(s) BY <1>4 DEF Held2
  <1>13. Stores(t) BY <1>1, <1>4, <1>6, <1>12 DEF Stores
  <1>14. Asked(t) BY <1>1, <1>4 DEF Asked
  <1>15. Lost(t) = Lost(s) \ {b} BY <1>4, <1>6, <1>12 DEF Lost
  <1>16. Len(s.sent) \in Nat BY <1>1, LenProperties DEF Fields
  <1>17. Onward(s, t) BY <1>4, <1>8, <1>16 DEF Onward
  <1> QED BY <1>1, <1>5, <1>8, <1>11, <1>13, <1>14, <1>15, <1>17 DEF Good, t, q

\* A request stays in its mailbox; a known one is dropped or refused; a new one
\* is refused or queued.
StaysIn(s, u) ==
    /\ u.sm0 = s.sm0 /\ u.locked /\ u.rxq = s.rxq /\ u.wcnt = s.wcnt
    /\ Waiting(u) = Waiting(s)
Dropped(s, u) ==
    /\ s.sm0.cnt = s.wcnt \/ s.sm0.kind = "long"
    /\ u.rxq = s.rxq /\ u.wcnt = s.wcnt /\ Waiting(u) <= Waiting(s) + 1
Refused(s, u) ==
    u.rxq = s.rxq /\ u.wcnt = s.sm0.cnt /\ Waiting(u) <= Waiting(s) + 1
Entered(s, u) ==
    /\ s.sm0.cnt # s.wcnt /\ s.sm0.kind # "long"
    /\ u.wcnt = s.sm0.cnt /\ Waiting(u) = Waiting(s) /\ u.stored = {}
    /\ \E b \in Buffers : /\ b \notin ToSet(s.rxq) /\ u.rxq = Append(s.rxq, b)
                          /\ u.buf[b] = s.sm0

\* What MBX_CheckAndCopyMailbox does to the handler.
Copied(s, u) ==
    /\ Good(u) /\ Lost(u) = Lost(s) /\ Onward(s, u)
    /\ u.served = s.served /\ u.strays = s.strays /\ u.toggle = s.toggle
    /\ \A b \in ToSet(s.rxq) : u.buf[b] = s.buf[b]
    /\ \/ StaysIn(s, u)
       \/ /\ ~s.full /\ u.sm0 = Empty /\ ~u.locked
          /\ Dropped(s, u) \/ Refused(s, u) \/ Entered(s, u)

\* A request that is left in its mailbox.
LEMMA LockedStays ==
    ASSUME NEW s, Good(s), s.running, NEW f \in 0 .. MaxFails
    PROVE  Copied(s, [s EXCEPT !.fails = f, !.locked = TRUE])
  <1> DEFINE t1 == [s EXCEPT !.fails = f]
             t == [s EXCEPT !.fails = f, !.locked = TRUE]
  <1>1. s \in Fields /\ Asked(s) BY GoodFacts DEF Good
  <1>2. t \in Fields
    <2>1. t1 \in Fields BY <1>1, SetFails
    <2>2. t = [t1 EXCEPT !.locked = TRUE] OBVIOUS
    <2> QED BY <2>1, <2>2, SetLocked
  <1>3. /\ t.heap = s.heap /\ t.buf = s.buf /\ Inner(t) = Inner(s)
        /\ t.coeStored = s.coeStored /\ t.foeStored = s.foeStored
        /\ t.eoeStored = s.eoeStored /\ t.freedTwice = s.freedTwice
        /\ t.stored = s.stored /\ t.eoePending = s.eoePending /\ t.running
        /\ t.sm0 = s.sm0 /\ t.wcnt = s.wcnt /\ t.locked
        /\ t.toggle = s.toggle /\ t.served = s.served /\ t.strays = s.strays
    BY <1>1 DEF Fields, Inner
  <1> HIDE DEF t
  <1>4. Asked(t) BY <1>1, <1>3 DEF Asked
  <1>5. Still(s, t) /\ Lost(t) = Lost(s) BY <1>1, <1>2, <1>3, <1>4, Flags
  <1>6. Onward(s, t) /\ t.rxq = s.rxq BY <1>5, FollowsOnward DEF Still, Follows
  <1>7. StaysIn(s, t) BY <1>3, <1>5, <1>6 DEF StaysIn, Still
  <1>8. Copied(s, t) BY <1>3, <1>5, <1>6, <1>7 DEF Copied, Still
  <1> QED BY <1>8 DEF t

LEMMA WriteIndCopied ==
    ASSUME NEW s, Good(s), s.running, ~s.full, NEW b \in Lost(s)
    PROVE  LET u == MBX_MailboxWriteInd(s, b)
               m == s.buf[b]
           IN  /\ Good(u) /\ Lost(u) = Lost(s) \ {b} /\ Onward(s, u)
               /\ u.served = s.served /\ u.strays = s.strays /\ u.toggle = s.toggle
               /\ u.sm0 = s.sm0 /\ u.locked = s.locked
               /\ \A c \in ToSet(s.rxq) : u.buf[c] = s.buf[c]
               /\ \/ /\ m.cnt = s.wcnt \/ m.kind = "long"
                     /\ u.rxq = s.rxq /\ u.wcnt = s.wcnt /\ Waiting(u) <= Waiting(s) + 1
                  \/ u.rxq = s.rxq /\ u.wcnt = m.cnt /\ Waiting(u) <= Waiting(s) + 1
                  \/ /\ m.cnt # s.wcnt /\ m.kind # "long"
                     /\ u.wcnt = m.cnt /\ Waiting(u) = Waiting(s) /\ u.stored = s.stored
                     /\ b \in Buffers /\ b \notin ToSet(s.rxq)
                     /\ u.rxq = Append(s.rxq, b) /\ u.buf[b] = m
  <1> DEFINE u == MBX_MailboxWriteInd(s, b)
             m == s.buf[b]
             t == [s EXCEPT !.wcnt = m.cnt]
  <1>1. s \in Fields /\ b \in Buffers /\ m \in Message /\ SendOk(s) /\ Asked(s)
    BY GoodFacts DEF Lost, SendOk, CanCopy, Good
  <1>2. m.cnt \in 0 .. MaxCounter BY <1>1 DEF Message
  <1>3. CASE m.kind = "long"
    <2>1. u = MailboxError(s, b) BY <1>3 DEF MBX_MailboxWriteInd
    <2>2. Serves(s, u, b) BY <1>1, <2>1, MailboxErrorServes
    <2> HIDE DEF u
    <2>3. /\ Step(s, u) /\ Lost(u) = Lost(s) \ {b} /\ Follows(s, u)
          /\ Requests(u) = Requests(s)
      BY <2>2 DEF Serves, Step
    <2>4. Onward(s, u) BY <2>3, FollowsOnward
    <2> QED BY <1>3, <2>3, <2>4 DEF Step, Follows, Requests, u
  <1>4. CASE m.kind # "long" /\ m.cnt = s.wcnt
    <2>1. u = Free(s, b) BY <1>4 DEF MBX_MailboxWriteInd
    <2>2. Still(s, u) /\ Lost(u) = Lost(s) \ {b} /\ Requests(u) = Requests(s)
      BY <2>1, Freed
    <2> HIDE DEF u
    <2>3. Follows(s, u) /\ Onward(s, u) BY <2>2, FollowsOnward DEF Still
    <2>4. Waiting(u) <= Waiting(s) + 1
      <3>1. Waiting(s) \in Nat BY GoodFacts
      <3> QED BY <2>2, <3>1 DEF Still
    <2> QED BY <1>4, <2>2, <2>3, <2>4 DEF Still, Follows, Requests, u
  <1>5. CASE m.kind # "long" /\ m.cnt # s.wcnt /\ HasRoom(s.rxq)
    <2>1. u = [s EXCEPT !.wcnt = m.cnt, !.rxq = Append(s.rxq, b)]
      BY <1>1, <1>5 DEF MBX_MailboxWriteInd, PutInMbxQueue, Fields
    <2> HIDE DEF u
    <2>2. /\ Good(u) /\ Lost(u) = Lost(s) \ {b} /\ Waiting(u) = Waiting(s)
          /\ Onward(s, u) /\ b \in Buffers /\ b \notin ToSet(s.rxq)
      <3> DEFINE c == m.cnt
      <3>1. c \in 0 .. MaxCounter /\ u = [s EXCEPT !.wcnt = c, !.rxq = Append(s.rxq, b)]
        BY <1>2, <2>1
      <3> HIDE DEF c, m
      <3> QED BY <3>1, Queued
    <2>3. /\ u.rxq = Append(s.rxq, b) /\ u.wcnt = m.cnt /\ u.buf = s.buf
          /\ u.served = s.served /\ u.strays = s.strays /\ u.toggle = s.toggle
          /\ u.sm0 = s.sm0 /\ u.locked = s.locked /\ u.stored = s.stored
      BY <1>1, <2>1 DEF Fields
    <2> HIDE DEF u
    <2> QED BY <1>5, <2>2, <2>3 DEF u
  <1>6. CASE m.kind # "long" /\ m.cnt # s.wcnt /\ ~HasRoom(s.rxq)
    <2>1. u = MailboxError(t, b) BY <1>6 DEF MBX_MailboxWriteInd
    <2>2. t \in Fields BY <1>1, <1>2, SetWcnt
    <2>3. /\ t.heap = s.heap /\ t.buf = s.buf /\ Inner(t) = Inner(s)
          /\ t.coeStored = s.coeStored /\ t.foeStored = s.foeStored
          /\ t.eoeStored = s.eoeStored /\ t.freedTwice = s.freedTwice
          /\ t.stored = s.stored /\ t.eoePending = s.eoePending /\ t.running
          /\ t.sm0 = s.sm0 /\ t.wcnt = m.cnt /\ t.locked = s.locked
          /\ t.toggle = s.toggle /\ t.served = s.served /\ t.strays = s.strays
      BY <1>1 DEF Fields, Inner
    <2> HIDE DEF t
    <2>4. Asked(t) BY <1>1, <2>3 DEF Asked
    <2>5. Still(s, t) /\ Lost(t) = Lost(s) BY <2>2, <2>3, <2>4, Flags
    <2>6. Good(t) /\ b \in Lost(t) /\ SendOk(t)
      BY <1>1, <2>3, <2>5, SendOkInner DEF Still
    <2>7. Serves(t, u, b) BY <2>1, <2>3, <2>6, MailboxErrorServes
    <2> HIDE DEF u
    <2>8. /\ Step(t, u) /\ Follows(t, u) /\ Requests(u) = Requests(t)
          /\ Lost(u) = Lost(s) \ {b}
      BY <2>5, <2>7 DEF Serves, Step
    <2>9. u \in Fields /\ Good(u) BY <2>8, GoodFacts DEF Step
    <2>10. Follows(s, u) BY <1>1, <2>2, <2>5, <2>8, <2>9, FollowsTrans DEF Still
    <2>11. Onward(s, u) BY <2>10, FollowsOnward
    <2>12. Waiting(u) <= Waiting(s) + 1 BY <2>5, <2>8 DEF Still, Step
    <2> QED BY <2>3, <2>8, <2>9, <2>10, <2>11, <2>12 DEF Follows, Requests, u
  <1> QED BY <1>3, <1>4, <1>5, <1>6

LEMMA CheckAndCopy ==
    ASSUME NEW s, Good(s), s.running, NEW ok
    PROVE  Copied(s, MBX_CheckAndCopyMailbox(s, ok))
  <1> DEFINE u == MBX_CheckAndCopyMailbox(s, ok)
  <1>1. s \in Fields /\ s.fails \in 0 .. MaxFails /\ MaxFails \in Nat
    <2>1. s \in Fields BY GoodFacts
    <2>2. MaxFails \in Nat BY MailboxAssumption
    <2> QED BY <2>1, <2>2 DEF Fields
  <1>2. CASE s.full \/ s.stored # {}
    <2>1. u = [s EXCEPT !.fails = s.fails, !.locked = TRUE]
      BY <1>1, <1>2 DEF MBX_CheckAndCopyMailbox, Fields
    <2> QED BY <1>1, <2>1, LockedStays
  <1>3. CASE ~(s.full \/ s.stored # {}) /\ ~CanAlloc(s, ok)
    <2> DEFINE f == IF s.fails < MaxFails THEN s.fails + 1 ELSE s.fails
    <2>1. f \in 0 .. MaxFails BY <1>1
    <2>2. u = [s EXCEPT !.fails = f, !.locked = TRUE]
      BY <1>1, <1>3 DEF MBX_CheckAndCopyMailbox, AllocFailed, Fields
    <2> HIDE DEF f
    <2> QED BY <2>1, <2>2, LockedStays
  <1>4. CASE ~(s.full \/ s.stored # {}) /\ CanAlloc(s, ok)
    <2> DEFINE b == Fresh(s)
               a == Alloc(s, b, s.sm0)
               t1 == [a EXCEPT !.locked = FALSE]
               t == [a EXCEPT !.locked = FALSE, !.sm0 = Empty]
    <2>1. u = MBX_MailboxWriteInd(t, b) BY <1>4 DEF MBX_CheckAndCopyMailbox
    <2>2. s.sm0 \in Message /\ Empty \in Message
      BY <1>1, MailboxAssumption DEF Fields, Message, Empty
    <2>3. /\ b \in Lost(a) /\ Still(s, a) /\ Lost(a) = Lost(s) \cup {b}
          /\ Requests(a) = Requests(s) /\ Inner(a) = Inner(s) /\ b \notin s.heap
          /\ a.buf[b] = s.sm0
      BY <1>4, <2>2, Allocated
    <2>0. a.stored = {} BY <1>1, <1>4 DEF Alloc, Fields
    <2> HIDE DEF a, b
    <2>4. Good(a) /\ a \in Fields /\ a.running /\ ~a.full
      BY <1>4, <2>3, GoodFacts, InnerSame DEF Still
    <2>5. t \in Fields
      <3>1. t1 \in Fields BY <2>4, SetLocked
      <3>2. t = [t1 EXCEPT !.sm0 = Empty] OBVIOUS
      <3> QED BY <2>2, <3>1, <3>2, SetSm0
    <2>6. /\ t.heap = a.heap /\ t.buf = a.buf /\ Inner(t) = Inner(a)
          /\ t.coeStored = a.coeStored /\ t.foeStored = a.foeStored
          /\ t.eoeStored = a.eoeStored /\ t.freedTwice = a.freedTwice
          /\ t.stored = a.stored /\ t.eoePending = a.eoePending /\ t.running
          /\ t.sm0 = Empty /\ t.wcnt = a.wcnt /\ ~t.locked
          /\ t.toggle = a.toggle /\ t.served = a.served /\ t.strays = a.strays
      BY <2>4 DEF Fields, Inner
    <2> HIDE DEF t
    <2>7. Asked(t) BY <2>4, <2>6 DEF Asked, Good
    <2>8. Still(a, t) /\ Lost(t) = Lost(a) BY <2>4, <2>5, <2>6, <2>7, Flags
    <2>9. Good(t) /\ ~t.full /\ b \in Lost(t) /\ t.buf[b] = s.sm0
      BY <2>3, <2>4, <2>6, <2>8, InnerSame DEF Still
    <2>10. Follows(s, t)
      BY <1>1, <2>3, <2>4, <2>5, <2>8, FollowsTrans DEF Still
    <2>11. Onward(s, t) BY <2>10, FollowsOnward
    <2>12. /\ t.rxq = s.rxq /\ \A c \in ToSet(s.rxq) : t.buf[c] = s.buf[c]
           /\ t.wcnt = s.wcnt /\ t.toggle = s.toggle /\ t.served = s.served
           /\ t.strays = s.strays /\ Waiting(t) = Waiting(s)
      BY <2>3, <2>6, <2>8, <2>10 DEF Follows, Requests, Still
    <2>13. /\ Good(u) /\ Lost(u) = Lost(t) \ {b} /\ Onward(t, u)
           /\ u.served = t.served /\ u.strays = t.strays /\ u.toggle = t.toggle
           /\ u.sm0 = t.sm0 /\ u.locked = t.locked
           /\ \A c \in ToSet(t.rxq) : u.buf[c] = t.buf[c]
           /\ \/ /\ s.sm0.cnt = t.wcnt \/ s.sm0.kind = "long"
                 /\ u.rxq = t.rxq /\ u.wcnt = t.wcnt /\ Waiting(u) <= Waiting(t) + 1
              \/ u.rxq = t.rxq /\ u.wcnt = s.sm0.cnt /\ Waiting(u) <= Waiting(t) + 1
              \/ /\ s.sm0.cnt # t.wcnt /\ s.sm0.kind # "long"
                 /\ u.wcnt = s.sm0.cnt /\ Waiting(u) = Waiting(t) /\ u.stored = t.stored
                 /\ b \in Buffers /\ b \notin ToSet(t.rxq)
                 /\ u.rxq = Append(t.rxq, b) /\ u.buf[b] = s.sm0
      BY <2>1, <2>6, <2>9, WriteIndCopied
    <2> HIDE DEF u
    <2>14. u \in Fields BY <2>13, GoodFacts
    <2>15. Onward(s, u) BY <1>1, <2>5, <2>11, <2>13, <2>14, OnwardTrans
    <2>16. Lost(u) = Lost(s) BY <2>3, <2>8, <2>13 DEF Lost
    <2>17. Dropped(s, u) \/ Refused(s, u) \/ Entered(s, u)
      BY <2>0, <2>6, <2>12, <2>13 DEF Dropped, Refused, Entered
    <2> QED BY <1>4, <2>6, <2>12, <2>13, <2>15, <2>16, <2>17 DEF Copied, u
  <1> QED BY <1>2, <1>3, <1>4

-----------------------------------------------------------------------------
(* A read of the send mailbox.                                             *)

\* A response differs from an empty mailbox.
LEMMA SentNotEmpty ==
    ASSUME NEW s, Core(s), NEW i \in 1 .. Len(s.sent)
    PROVE  s.sent[i] # Empty
  <1>1. s.sent[i].cnt >= 1 BY DEF Core, Counters
  <1>2. ~(Empty.cnt >= 1) BY DEF Empty
  <1> QED BY <1>1, <1>2

\* What was read before is no longer kept for a repetition.
LEMMA RepeatDropped ==
    ASSUME NEW s, Good(s), s.full, s.sm1 = Empty, s.repeat # 0
    PROVE  LET t == [s EXCEPT !.repeat = 0]
           IN  /\ Good(t) /\ Follows(s, t) /\ Requests(t) = Requests(s)
               /\ Lost(t) = Lost(s) \cup {s.repeat} /\ Waiting(t) = Waiting(s)
               /\ Inner(t) = Inner([s EXCEPT !.repeat = 0])
  <1> DEFINE t == [s EXCEPT !.repeat = 0]
  <1>1. /\ s \in Fields /\ Core(s) /\ Stores(s) /\ Asked(s) /\ 0 \notin Kept(s)
    BY GoodFacts DEF Good
  <1>2. t \in Fields BY <1>1, SetRepeat DEF Pointer
  <1>3. /\ t.running = s.running /\ t.rxq = s.rxq /\ t.txq = s.txq
        /\ t.read = s.read /\ t.repeat = 0 /\ t.store = s.store
        /\ t.full = s.full /\ t.sm1 = s.sm1 /\ t.rcnt = s.rcnt /\ t.sent = s.sent
        /\ t.heap = s.heap /\ t.buf = s.buf /\ t.coeStored = s.coeStored
        /\ t.foeStored = s.foeStored /\ t.eoeStored = s.eoeStored
        /\ t.freedTwice = s.freedTwice /\ t.stored = s.stored
        /\ t.eoePending = s.eoePending /\ t.locked = s.locked /\ t.toggle = s.toggle
        /\ Requests(t) = Requests(s)
    BY <1>1 DEF Fields, Requests
  <1> HIDE DEF t
  <1>4. s.repeat \in Kept(s) /\ s.repeat \in s.heap /\ s.repeat \notin Held2(s)
    BY <1>1 DEF Kept, Core, Stores
  <1>5. Kept(t) = Kept(s) \ {s.repeat}
    <2>1. /\ s.repeat # s.read /\ s.repeat # s.store /\ s.repeat \notin ToSet(s.rxq)
          /\ s.repeat \notin ToSet(s.txq) /\ 0 \notin ToSet(s.rxq) /\ 0 \notin ToSet(s.txq)
          /\ s.read # 0
      BY <1>1 DEF Core, Apart, Kept
    <2> QED BY <1>3, <2>1 DEF Kept
  <1>6. Apart(t)
    <2>1. \A b \in ToSet(s.rxq) \cup ToSet(s.txq) : b # 0 BY <1>1 DEF Kept
    <2> QED BY <1>1, <1>3, <2>1 DEF Core, Apart
  <1>7. /\ Base(t) = Base(s) /\ Taken(t) = Taken(s) /\ Behind(t)
        /\ Visible(t) = Visible(s) /\ Waiting(t) = Waiting(s)
    BY <1>3 DEF Base, Taken, Behind, Visible, Waiting
  <1>8. Quiet(t) /\ Line(t)
    <2>1. Quiet(s) /\ Line(s) BY <1>1 DEF Core
    <2>2. Quiet(t) BY <1>3, <2>1 DEF Quiet
    <2>3. /\ Base(s) \in Nat
          /\ s.full => s.buf[s.read] = s.sent[Base(s) + 1]
          /\ s.store # 0 => s.buf[s.store] = s.sent[Base(s) + 2]
          /\ s.sm1 # Empty => s.full /\ s.sm1 = s.buf[s.read]
      BY <2>1 DEF Line
    <2>4. \A i \in 1 .. Len(t.txq) : t.buf[t.txq[i]] = t.sent[Len(t.sent) - Len(t.txq) + i]
      <3>1. \A i \in 1 .. Len(s.txq) : s.buf[s.txq[i]] = s.sent[Len(s.sent) - Len(s.txq) + i]
        BY <2>1 DEF Line
      <3>2. t.buf = s.buf /\ t.txq = s.txq /\ t.sent = s.sent BY <1>3
      <3> QED BY <3>1, <3>2
    <2>5. Line(t) BY <1>3, <1>7, <2>3, <2>4 DEF Line
    <2> QED BY <2>2, <2>5
  <1>9. Counters(t) BY <1>1, <1>3 DEF Core, Counters, ReadCounter
  <1>10. Core(t) BY <1>1, <1>2, <1>3, <1>5, <1>6, <1>8, <1>9 DEF Core
  <1>11. Held2(t) = Held2(s) BY <1>3 DEF Held2
  <1>12. Stores(t) BY <1>1, <1>3, <1>5, <1>11 DEF Stores
  <1>13. Asked(t) BY <1>1, <1>3 DEF Asked
  <1>14. Lost(t) = Lost(s) \cup {s.repeat} BY <1>3, <1>4, <1>5, <1>11 DEF Lost
  <1>15. Len(s.sent) \in Nat BY <1>1, LenProperties DEF Fields
  <1>16. Follows(s, t) BY <1>3, <1>7, <1>15 DEF Follows
  <1> QED BY <1>3, <1>7, <1>10, <1>12, <1>13, <1>14, <1>16 DEF Good, t

\* What takes the place of the response that was read.
Succeeds(s, t) ==
    /\ t.running = s.running /\ t.rxq = s.rxq /\ t.rcnt = s.rcnt /\ t.sent = s.sent
    /\ t.heap = s.heap /\ t.buf = s.buf /\ t.coeStored = s.coeStored
    /\ t.foeStored = s.foeStored /\ t.eoeStored = s.eoeStored
    /\ t.freedTwice = s.freedTwice /\ t.stored = s.stored
    /\ t.eoePending = s.eoePending /\ t.locked = s.locked /\ t.toggle = s.toggle
    /\ Requests(t) = Requests(s)
    /\ t.repeat = s.read /\ t.store = 0
    /\ IF s.store # 0
       THEN t.full /\ t.read = s.store /\ t.sm1 = s.buf[s.store] /\ t.txq = s.txq
       ELSE IF s.txq # <<>>
       THEN t.full /\ t.read = Head(s.txq) /\ t.sm1 = s.buf[Head(s.txq)] /\ t.txq = Tail(s.txq)
       ELSE ~t.full /\ t.read = s.read /\ t.sm1 = Empty /\ t.txq = s.txq

LEMMA NextInPlace ==
    ASSUME NEW s, Good(s), s.running, s.full, s.sm1 = Empty, s.repeat = 0,
           NEW t \in Fields, Succeeds(s, t)
    PROVE  /\ Good(t) /\ Follows(s, t) /\ Lost(t) = Lost(s) /\ Visible(t)
           /\ Requests(t) = Requests(s)
  <1> DEFINE l == Len(s.sent)
             n == Len(s.txq)
             k == Base(s)
  <1>1. /\ s \in Fields /\ Core(s) /\ Stores(s) /\ Asked(s) /\ 0 \notin Kept(s)
        /\ Apart(s) /\ Quiet(s) /\ Line(s) /\ Counters(s)
    BY GoodFacts DEF Good, Core
  <1>2. /\ s.sent \in Seq(Message) /\ s.txq \in Seq(Buffers) /\ l \in Nat /\ n \in Nat
    BY <1>1, LenProperties DEF Fields
  <1>3. /\ t.running = s.running /\ t.rxq = s.rxq /\ t.rcnt = s.rcnt /\ t.sent = s.sent
        /\ t.heap = s.heap /\ t.buf = s.buf /\ t.coeStored = s.coeStored
        /\ t.foeStored = s.foeStored /\ t.eoeStored = s.eoeStored
        /\ t.freedTwice = s.freedTwice /\ t.stored = s.stored
        /\ t.eoePending = s.eoePending /\ t.locked = s.locked /\ t.toggle = s.toggle
        /\ Requests(t) = Requests(s)
        /\ t.repeat = s.read /\ t.store = 0
    BY DEF Succeeds
  <1>4. /\ k \in Nat /\ s.buf[s.read] = s.sent[k + 1]
        /\ s.store # 0 => s.buf[s.store] = s.sent[k + 2]
        /\ \A i \in 1 .. n : s.buf[s.txq[i]] = s.sent[l - n + i]
    BY <1>1 DEF Line
  <1>5. l - n = k + 1 + (IF s.store # 0 THEN 1 ELSE 0)
    <2> DEFINE x == IF s.store # 0 THEN 1 ELSE 0
    <2>1. k = l - n - x - 1 /\ x \in Nat BY DEF Base
    <2> HIDE DEF k, l, n
    <2> QED BY <1>2, <1>4, <2>1
  <1>6. Taken(s) = k + 1 BY DEF Taken
  <1>7. Counters(t) BY <1>1, <1>3 DEF Counters, ReadCounter
  <1>8. Held2(t) = Held2(s) BY <1>3 DEF Held2
  <1>9. Asked(t) BY <1>1, <1>3 DEF Asked
  <1>10. s.read # 0 /\ s.read # s.store /\ s.read \notin ToSet(s.rxq) /\ s.read \notin ToSet(s.txq)
    BY <1>1 DEF Apart
  <1>11. SUFFICES /\ Kept(t) = Kept(s) /\ Apart(t) /\ Quiet(t) /\ Line(t)
                  /\ Taken(t) = k + 1 /\ Visible(t)
    <2>1. Core(t) BY <1>1, <1>3, <1>7, <1>11 DEF Core
    <2>2. Stores(t) BY <1>1, <1>3, <1>8, <1>11 DEF Stores
    <2>3. Good(t) BY <1>9, <2>1, <2>2 DEF Good
    <2>4. Lost(t) = Lost(s) BY <1>3, <1>8, <1>11 DEF Lost
    <2>5. Behind(t) BY <1>3, <1>10 DEF Behind
    <2>6. Follows(s, t) BY <1>2, <1>3, <1>6, <1>11, <2>5 DEF Follows
    <2> QED BY <1>3, <1>11, <2>3, <2>4, <2>6
  <1>12. CASE s.store # 0
    <2>1. t.full /\ t.read = s.store /\ t.sm1 = s.buf[s.store] /\ t.txq = s.txq
      BY <1>12 DEF Succeeds
    <2>2. Base(t) = k + 1
      <3>1. Base(t) = l - n - 0 - 1 BY <1>3, <2>1 DEF Base
      <3> HIDE DEF k, l, n
      <3> QED BY <1>2, <1>4, <1>5, <1>12, <3>1
    <2>3. Kept(t) = Kept(s) BY <1>3, <1>10, <1>12, <2>1 DEF Kept
    <2>4. Apart(t)
      <3>1. \A b \in ToSet(s.rxq) \cup ToSet(s.txq) : b # 0 BY <1>1 DEF Kept
      <3> QED BY <1>1, <1>3, <1>10, <1>12, <2>1, <3>1 DEF Apart
    <2>5. Quiet(t) BY <1>3, <2>1 DEF Quiet
    <2>6. Line(t)
      <3>2. (k + 1) + 1 = k + 2 /\ k + 1 \in Nat /\ k + 1 >= 1 BY <1>4
      <3>3. t.buf[t.repeat] = t.sent[Base(t)] BY <1>3, <1>4, <2>2
      <3>4. t.buf[t.read] = t.sent[Base(t) + 1] BY <1>3, <1>4, <1>12, <2>1, <2>2, <3>2
      <3>5. t.sm1 = t.buf[t.read] BY <1>3, <2>1
      <3>6. \A i \in 1 .. Len(t.txq) : t.buf[t.txq[i]] = t.sent[Len(t.sent) - Len(t.txq) + i]
        BY <1>3, <1>4, <2>1
      <3> HIDE DEF k
      <3> QED BY <1>3, <2>1, <2>2, <3>2, <3>3, <3>4, <3>5, <3>6 DEF Line
    <2>7. t.sm1 # Empty
      <3> HIDE DEF k, l, n
      <3>1. k + 2 \in 1 .. l BY <1>2, <1>4, <1>5, <1>12
      <3>2. s.sent[k + 2] # Empty BY <1>1, <3>1, SentNotEmpty DEF l
      <3> QED BY <1>4, <1>12, <2>1, <3>2
    <2>8. Taken(t) = k + 1 /\ Visible(t) BY <2>2, <2>7 DEF Taken, Visible
    <2> QED BY <2>3, <2>4, <2>5, <2>6, <2>8
  <1>13. CASE s.store = 0 /\ s.txq # <<>>
    <2> DEFINE h == Head(s.txq)
               q == Tail(s.txq)
    <2>1. t.full /\ t.read = h /\ t.sm1 = s.buf[h] /\ t.txq = q
      BY <1>13 DEF Succeeds
    <2>2. /\ q \in Seq(Buffers) /\ h \in Buffers /\ n >= 1 /\ Len(q) = n - 1 /\ h = s.txq[1]
          /\ \A i \in 1 .. n - 1 : q[i] = s.txq[i + 1]
          /\ ToSet(s.txq) = ToSet(q) \cup {h}
          /\ IsInjective(q) /\ h \notin ToSet(q)
      BY <1>1, <1>2, <1>13, TailSet DEF Apart
    <2> HIDE DEF h, q
    <2>3. Base(t) = k + 1
      <3>1. Base(t) = l - (n - 1) - 0 - 1 BY <1>3, <2>1, <2>2 DEF Base
      <3> HIDE DEF k, l, n
      <3> QED BY <1>2, <1>4, <1>5, <1>13, <3>1
    <2>4. Kept(t) = Kept(s) BY <1>3, <1>10, <1>13, <2>1, <2>2 DEF Kept
    <2>5. Apart(t)
      <3>1. \A b \in ToSet(s.rxq) \cup ToSet(s.txq) : b # 0 BY <1>1 DEF Kept
      <3>2. h \notin ToSet(s.rxq) /\ ToSet(s.rxq) \cap ToSet(q) = {} /\ h # s.read /\ h # 0
        BY <1>1, <1>10, <2>2, <3>1 DEF Apart
      <3> QED BY <1>1, <1>3, <1>10, <1>13, <2>1, <2>2, <3>1, <3>2 DEF Apart
    <2>6. Quiet(t) BY <1>3, <2>1 DEF Quiet
    <2>7. l - n = k + 1
      <3> HIDE DEF k, l, n
      <3> QED BY <1>2, <1>4, <1>5, <1>13
    <2>8. s.buf[h] = s.sent[k + 2] /\ k + 2 \in 1 .. l
      <3> HIDE DEF k, l, n
      <3>1. 1 \in 1 .. n BY <1>2, <2>2
      <3>2. l - n + 1 = k + 2 BY <1>4, <2>7
      <3>3. k + 2 \in 1 .. l BY <1>2, <1>4, <2>2, <2>7
      <3> QED BY <1>4, <2>2, <3>1, <3>2, <3>3
    <2>9. Line(t)
      <3>1. (k + 1) + 1 = k + 2 /\ k + 1 \in Nat /\ k + 1 >= 1 BY <1>4
      <3>2. t.buf[t.repeat] = t.sent[Base(t)] BY <1>3, <1>4, <2>3
      <3>3. t.buf[t.read] = t.sent[Base(t) + 1] BY <1>3, <2>1, <2>3, <2>8, <3>1
      <3>4. t.sm1 = t.buf[t.read] BY <1>3, <2>1
      <3>5. Len(t.txq) = n - 1 /\ Len(t.sent) = l BY <1>3, <2>1, <2>2
      <3>6. \A i \in 1 .. Len(t.txq) : t.buf[t.txq[i]] = t.sent[Len(t.sent) - Len(t.txq) + i]
        <4> SUFFICES ASSUME NEW i \in 1 .. n - 1
                     PROVE  s.buf[q[i]] = s.sent[l - (n - 1) + i]
          BY <1>3, <2>1, <3>5
        <4> HIDE DEF k, l, n
        <4>1. i + 1 \in 1 .. n /\ l - n + (i + 1) = l - (n - 1) + i BY <1>2, <2>2
        <4>2. q[i] = s.txq[i + 1] BY <2>2
        <4> QED BY <1>4, <4>1, <4>2
      <3> HIDE DEF k
      <3> QED BY <1>3, <2>1, <2>3, <3>1, <3>2, <3>3, <3>4, <3>6 DEF Line
    <2>10. t.sm1 # Empty
      <3>1. s.sent[k + 2] # Empty BY <1>1, <2>8, SentNotEmpty
      <3> QED BY <2>1, <2>8, <3>1
    <2>11. Taken(t) = k + 1 /\ Visible(t) BY <2>3, <2>10 DEF Taken, Visible
    <2> QED BY <2>4, <2>5, <2>6, <2>9, <2>11
  <1>14. CASE s.store = 0 /\ s.txq = <<>>
    <2>1. ~t.full /\ t.read = s.read /\ t.sm1 = Empty /\ t.txq = s.txq
      BY <1>14 DEF Succeeds
    <2>2. Base(t) = k + 1
      <3>1. Base(t) = l - n - 0 - 0 BY <1>3, <2>1 DEF Base
      <3> HIDE DEF k, l, n
      <3> QED BY <1>2, <1>4, <1>5, <1>14, <3>1
    <2>3. Kept(t) = Kept(s) BY <1>3, <1>10, <1>14, <2>1 DEF Kept
    <2>4. Apart(t)
      <3>1. \A b \in ToSet(s.rxq) \cup ToSet(s.txq) : b # 0 BY <1>1 DEF Kept
      <3> QED BY <1>1, <1>3, <1>10, <1>14, <2>1, <3>1 DEF Apart
    <2>5. Quiet(t) BY <1>3, <1>14, <2>1 DEF Quiet
    <2>6. Line(t)
      <3>1. k + 1 \in Nat /\ k + 1 >= 1 BY <1>4
      <3>2. t.buf[t.repeat] = t.sent[Base(t)] BY <1>3, <1>4, <2>2
      <3>3. \A i \in 1 .. Len(t.txq) : t.buf[t.txq[i]] = t.sent[Len(t.sent) - Len(t.txq) + i]
        BY <1>3, <1>4, <2>1
      <3> HIDE DEF k
      <3> QED BY <1>3, <2>1, <2>2, <3>1, <3>2, <3>3 DEF Line
    <2>7. Taken(t) = k + 1 /\ Visible(t) BY <2>1, <2>2 DEF Taken, Visible
    <2> QED BY <2>3, <2>4, <2>5, <2>6, <2>7
  <1> QED BY <1>12, <1>13, <1>14

\* The response that was read is kept, the next one takes its place.
LEMMA KeptAndNext ==
    ASSUME NEW s, Good(s), s.running, s.full, s.sm1 = Empty, s.repeat = 0
    PROVE  LET kept == [s EXCEPT !.full = FALSE, !.repeat = s.read]
               next == IF s.store # 0
                       THEN [MBX_CopyToSendMailbox(kept, s.store) EXCEPT !.store = 0]
                       ELSE IF s.txq # <<>>
                       THEN MBX_CopyToSendMailbox([kept EXCEPT !.txq = Tail(@)], Head(s.txq))
                       ELSE kept
           IN  next \in Fields /\ Succeeds(s, next)
  <1> DEFINE k1   == [s EXCEPT !.full = FALSE]
             k2   == [k1 EXCEPT !.repeat = s.read]
             kept == [s EXCEPT !.full = FALSE, !.repeat = s.read]
             next == IF s.store # 0
                     THEN [MBX_CopyToSendMailbox(kept, s.store) EXCEPT !.store = 0]
                     ELSE IF s.txq # <<>>
                     THEN MBX_CopyToSendMailbox([kept EXCEPT !.txq = Tail(@)], Head(s.txq))
                     ELSE kept
  <1>1. /\ s \in Fields /\ s.buf \in [Buffers -> Message] /\ s.txq \in Seq(Buffers)
        /\ s.read \in Pointer /\ s.store \in Pointer /\ 0 \in Pointer
    BY GoodFacts DEF Fields, Pointer
  <1>2. k2 \in Fields
    <2>1. k1 \in Fields BY <1>1, SetFull
    <2> QED BY <1>1, <2>1, SetRepeat
  <1>3. kept = k2 OBVIOUS
  <1>4. CASE s.store # 0
    <2> DEFINE u1 == [k2 EXCEPT !.sm1 = s.buf[s.store]]
               u2 == [u1 EXCEPT !.read = s.store]
               u3 == [u2 EXCEPT !.full = TRUE]
               u4 == [u3 EXCEPT !.store = 0]
    <2>1. s.buf[s.store] \in Message BY <1>1, <1>4 DEF Pointer
    <2>2. next = u4 BY <1>1, <1>4 DEF MBX_CopyToSendMailbox, CanCopy, Fields
    <2>3. u4 \in Fields
      <3>1. u1 \in Fields BY <1>2, <2>1, SetSm1
      <3>2. u2 \in Fields BY <1>1, <3>1, SetRead
      <3>3. u3 \in Fields BY <3>2, SetFull
      <3> QED BY <1>1, <3>3, SetStore
    <2>4. Succeeds(s, u4)
      <3> DEFINE m == s.buf[s.store]
                 b == s.store
      <3>1. u4 = [s EXCEPT !.full = TRUE, !.repeat = s.read, !.sm1 = m, !.read = b,
                           !.store = 0]
        BY <1>1 DEF Fields
      <3> HIDE DEF u4, m, b
      <3>2. /\ u4.running = s.running /\ u4.rxq = s.rxq /\ u4.rcnt = s.rcnt
            /\ u4.sent = s.sent /\ u4.heap = s.heap /\ u4.buf = s.buf
            /\ u4.coeStored = s.coeStored /\ u4.foeStored = s.foeStored
            /\ u4.eoeStored = s.eoeStored /\ u4.freedTwice = s.freedTwice
            /\ u4.stored = s.stored /\ u4.eoePending = s.eoePending
            /\ u4.locked = s.locked /\ u4.toggle = s.toggle
        <4>1. /\ u4.running = s.running /\ u4.rxq = s.rxq /\ u4.rcnt = s.rcnt
              /\ u4.sent = s.sent /\ u4.heap = s.heap /\ u4.buf = s.buf
          BY <1>1, <3>1 DEF Fields
        <4>2. /\ u4.coeStored = s.coeStored /\ u4.foeStored = s.foeStored
              /\ u4.eoeStored = s.eoeStored /\ u4.freedTwice = s.freedTwice
          BY <1>1, <3>1 DEF Fields
        <4>3. /\ u4.stored = s.stored /\ u4.eoePending = s.eoePending
              /\ u4.locked = s.locked /\ u4.toggle = s.toggle
          BY <1>1, <3>1 DEF Fields
        <4> QED BY <4>1, <4>2, <4>3
      <3>5. u4.repeat = s.read /\ u4.store = 0
        BY <1>1, <3>1 DEF Fields
      <3>3. u4.full /\ u4.read = b /\ u4.sm1 = m /\ u4.txq = s.txq
        BY <1>1, <3>1 DEF Fields
      <3>4. Requests(u4) = Requests(s)
        BY <1>1, <3>1 DEF Fields, Requests
      <3> QED BY <1>4, <3>2, <3>3, <3>4, <3>5 DEF Succeeds, m, b
    <2> HIDE DEF u4, next
    <2> QED BY <2>2, <2>3, <2>4 DEF next
  <1>5. CASE s.store = 0 /\ s.txq # <<>>
    <2> DEFINE b  == Head(s.txq)
               q  == Tail(s.txq)
               u0 == [k2 EXCEPT !.txq = q]
               u1 == [u0 EXCEPT !.sm1 = s.buf[b]]
               u2 == [u1 EXCEPT !.read = b]
               u3 == [u2 EXCEPT !.full = TRUE]
    <2>1. b \in Buffers /\ q \in Seq(Buffers) BY <1>1, <1>5, TailSet
    <2>2. s.buf[b] \in Message BY <1>1, <2>1
    <2>3. next = u3 BY <1>1, <1>5 DEF MBX_CopyToSendMailbox, CanCopy, Fields
    <2>4. u3 \in Fields
      <3> HIDE DEF b, q
      <3>1. u0 \in Fields BY <1>2, <2>1, SetTxq
      <3>2. u1 \in Fields BY <2>2, <3>1, SetSm1
      <3>3. b \in Pointer BY <2>1 DEF Pointer
      <3>4. u2 \in Fields BY <3>2, <3>3, SetRead
      <3> QED BY <3>4, SetFull
    <2>5. Succeeds(s, u3)
      BY <1>1, <1>5 DEF Fields, Succeeds, Requests
    <2> HIDE DEF u3, next
    <2> QED BY <2>3, <2>4, <2>5 DEF next
  <1>6. CASE s.store = 0 /\ s.txq = <<>>
    <2>1. next = k2 BY <1>6
    <2>2. Succeeds(s, k2)
      BY <1>1, <1>6 DEF Fields, Succeeds, Requests
    <2> HIDE DEF k2, next
    <2> QED BY <1>2, <2>1, <2>2 DEF next
  <1> QED BY <1>4, <1>5, <1>6

\* What MBX_MailboxReadInd does to the handler.
Reads(s, u) ==
    /\ Good(u) /\ Follows(s, u) /\ Lost(u) = Lost(s) /\ Visible(u)
    /\ Requests(u) = Requests(s)

LEMMA MailboxReadInd ==
    ASSUME NEW s, Good(s), s.running, s.full, s.sm1 = Empty, NEW ok
    PROVE  Reads(s, MBX_MailboxReadInd(s, ok))
  <1> DEFINE drop == [s EXCEPT !.repeat = 0]
             p    == IF s.repeat # 0 THEN Free(drop, s.repeat) ELSE s
             read == [s EXCEPT !.full = FALSE]
             code == [(IF s.repeat # 0 /\ s.store = 0 /\ s.read # s.repeat
                       THEN Free(read, s.repeat) ELSE read)
                      EXCEPT !.repeat = s.read]
             kept == [p EXCEPT !.full = FALSE, !.repeat = p.read]
             next == IF p.store # 0
                     THEN [MBX_CopyToSendMailbox(kept, p.store) EXCEPT !.store = 0]
                     ELSE IF p.txq # <<>>
                     THEN MBX_CopyToSendMailbox([kept EXCEPT !.txq = Tail(@)], Head(p.txq))
                     ELSE kept
             u    == MBX_MailboxReadInd(s, ok)
  <1>1. /\ s \in Fields /\ Core(s) /\ Asked(s) /\ s.read # 0
        /\ s.repeat # 0 => s.store = 0 /\ s.read # s.repeat
    BY GoodFacts DEF Good, Core, Quiet, Apart
  <1>2. /\ Good(p) /\ Follows(s, p) /\ Lost(p) = Lost(s) /\ Requests(p) = Requests(s)
        /\ p.full /\ p.sm1 = Empty /\ p.repeat = 0 /\ p.running /\ p.read = s.read
        /\ p.store = s.store /\ p.txq = s.txq /\ p.stored = s.stored
    <2>1. CASE s.repeat = 0
      <3>1. p = s BY <2>1
      <3>2. Follows(s, s) BY DEF Follows
      <3> HIDE DEF p
      <3> QED BY <2>1, <3>1, <3>2
    <2>2. CASE s.repeat # 0
      <3>1. /\ Good(drop) /\ Follows(s, drop) /\ Requests(drop) = Requests(s)
            /\ Lost(drop) = Lost(s) \cup {s.repeat}
        BY <2>2, RepeatDropped
      <3>2. /\ drop.full /\ drop.sm1 = Empty /\ drop.repeat = 0 /\ drop.running
            /\ drop.read = s.read /\ drop.store = s.store /\ drop.txq = s.txq
            /\ drop.stored = s.stored
        BY <1>1 DEF Fields
      <3>3. p = Free(drop, s.repeat) BY <2>2
      <3> HIDE DEF drop, p
      <3>4. drop \in Fields BY <3>1, GoodFacts
      <3>5. /\ Still(drop, p) /\ Lost(p) = Lost(drop) \ {s.repeat}
            /\ Requests(p) = Requests(drop)
        BY <3>1, <3>3, Freed
      <3>6. /\ p.full = drop.full /\ p.sm1 = drop.sm1 /\ p.repeat = drop.repeat
            /\ p.running = drop.running /\ p.read = drop.read /\ p.store = drop.store
            /\ p.txq = drop.txq /\ p.stored = drop.stored
        BY <3>3, <3>4 DEF Free, FreeAll, Fields
      <3>7. p \in Fields BY <3>5, GoodFacts DEF Still
      <3>8. Follows(s, p) BY <1>1, <3>1, <3>4, <3>5, <3>7, FollowsTrans DEF Still
      <3>9. s.repeat \notin Lost(s)
        BY <2>2 DEF Lost, Kept
      <3>10. Lost(p) = Lost(s) BY <3>1, <3>5, <3>9
      <3> QED BY <3>1, <3>2, <3>5, <3>6, <3>8, <3>10 DEF Still
    <2> QED BY <2>1, <2>2
  <1>3. code = kept
    <2>1. CASE s.repeat = 0 BY <1>1, <2>1
    <2>2. CASE s.repeat # 0
      <3> DEFINE q == <<s.repeat>>
                 h == s.heap \ ToSet(q)
                 f == [b \in Buffers |-> IF b \in ToSet(q) THEN Empty ELSE s.buf[b]]
                 x == s.freedTwice \/ ~IsInjective(q) \/ ~(ToSet(q) \subseteq s.heap)
      <3>1. Free(read, s.repeat) = [read EXCEPT !.heap = h, !.buf = f, !.freedTwice = x]
        BY <1>1 DEF Free, FreeAll, Fields
      <3>2. Free(drop, s.repeat) = [drop EXCEPT !.heap = h, !.buf = f, !.freedTwice = x]
        BY <1>1 DEF Free, FreeAll, Fields
      <3> HIDE DEF h, f, x
      <3>3. code = [[read EXCEPT !.heap = h, !.buf = f, !.freedTwice = x]
                    EXCEPT !.repeat = s.read]
        BY <1>1, <2>2, <3>1
      <3>4. p = [drop EXCEPT !.heap = h, !.buf = f, !.freedTwice = x] BY <2>2, <3>2
      <3>5. kept = [[drop EXCEPT !.heap = h, !.buf = f, !.freedTwice = x]
                    EXCEPT !.full = FALSE, !.repeat = s.read]
        <4> HIDE DEF p
        <4> QED BY <1>2, <3>4
      <3> HIDE DEF code, kept, p
      <3> QED BY <1>1, <3>3, <3>5 DEF Fields
    <2> QED BY <2>1, <2>2
  <1>4. u = IF "coe" \in s.stored
            THEN COE_ContinueInd([next EXCEPT !.stored = @ \ {"coe"}], ok)
            ELSE IF "foe" \in s.stored
            THEN FOE_ContinueInd([next EXCEPT !.stored = @ \ {"foe"}])
            ELSE next
    <2> DEFINE n == IF s.store # 0
                    THEN [MBX_CopyToSendMailbox(code, s.store) EXCEPT !.store = 0]
                    ELSE IF s.txq # <<>>
                    THEN MBX_CopyToSendMailbox([code EXCEPT !.txq = Tail(@)], Head(s.txq))
                    ELSE code
    <2>1. u = IF "coe" \in s.stored
              THEN COE_ContinueInd([n EXCEPT !.stored = @ \ {"coe"}], ok)
              ELSE IF "foe" \in s.stored
              THEN FOE_ContinueInd([n EXCEPT !.stored = @ \ {"foe"}])
              ELSE n
      BY Zenon DEF MBX_MailboxReadInd
    <2> HIDE DEF code, kept, p
    <2>2. n = next BY <1>2, <1>3
    <2> HIDE DEF n, next, u
    <2> QED BY <2>1, <2>2
  <1> HIDE DEF p
  <1>5. next \in Fields /\ Succeeds(p, next) BY <1>2, KeptAndNext
  <1> HIDE DEF kept, next
  <1>6. Reads(p, next) BY <1>2, <1>5, NextInPlace DEF Reads
  <1>7. p \in Fields BY <1>2, GoodFacts
  <1>8. Reads(s, next) /\ Good(next)
    <2>1. Follows(s, next) BY <1>1, <1>2, <1>5, <1>6, <1>7, FollowsTrans DEF Reads
    <2> QED BY <1>2, <1>6, <2>1 DEF Reads
  <1>9. next.running /\ next.stored = s.stored
    BY <1>2, <1>5 DEF Succeeds
  <1>10. CASE "coe" \notin s.stored
    <2>1. u = next BY <1>1, <1>4, <1>10 DEF Asked
    <2> HIDE DEF u
    <2> QED BY <1>8, <2>1 DEF u
  <1>11. CASE "coe" \in s.stored
    <2> DEFINE V == next.stored \ {"coe"}
               t == [next EXCEPT !.stored = V]
    <2>1. u = COE_ContinueInd(t, ok) BY <1>4, <1>11
    <2>2. V \in SUBSET Service BY <1>5 DEF Fields
    <2>3. t \in Fields BY <1>5, <2>2, SetStored
    <2>4. /\ t.heap = next.heap /\ t.buf = next.buf /\ Inner(t) = Inner(next)
          /\ t.coeStored = next.coeStored /\ t.foeStored = next.foeStored
          /\ t.eoeStored = next.eoeStored /\ t.freedTwice = next.freedTwice
          /\ t.stored = V /\ t.eoePending = next.eoePending /\ t.running
          /\ Requests(t) = Requests(next)
      BY <1>5, <1>9 DEF Fields, Inner, Requests
    <2> HIDE DEF t, u
    <2>5. Asked(t) BY <1>8, <2>4 DEF Asked, Good
    <2>6. Still(next, t) /\ Lost(t) = Lost(next) BY <1>8, <2>3, <2>4, <2>5, Flags
    <2>7. "list" \in Kinds BY <1>1, <1>11 DEF Asked
    <2>8. Calls(t, u) BY <2>1, <2>4, <2>6, <2>7, COE_ContinueCalls DEF Still
    <2>9. u \in Fields /\ Good(u) BY <2>8, GoodFacts DEF Calls, Step
    <2>10. Follows(s, t)
      BY <1>1, <1>5, <1>8, <2>3, <2>6, FollowsTrans DEF Reads, Still
    <2>11. Follows(t, u) BY <2>8 DEF Calls, Step
    <2>12. Follows(s, u)
      BY <1>1, <2>3, <2>9, <2>10, <2>11, FollowsTrans
    <2>13. Visible(u) BY <1>8, <2>6, <2>11 DEF Reads, Still, Follows
    <2>14. Requests(u) = Requests(s) /\ Lost(u) = Lost(s)
      BY <1>8, <2>4, <2>6, <2>8 DEF Reads, Calls, Step
    <2> QED BY <2>9, <2>12, <2>13, <2>14 DEF Reads, u
  <1> QED BY <1>10, <1>11

-----------------------------------------------------------------------------
(* A repetition.                                                           *)

\* What MBX_MailboxRepeatReq does to the handler: the response that was read
\* before is in the send mailbox again, the one that was there is stored.
Repeats(s, u) ==
    /\ Good(u) /\ Lost(u) = Lost(s)
    /\ u.running = s.running /\ u.rxq = s.rxq /\ u.buf = s.buf /\ u.sent = s.sent
    /\ u.sm0 = s.sm0 /\ u.wcnt = s.wcnt /\ u.locked = s.locked
    /\ u.served = s.served /\ u.strays = s.strays
    /\ u.toggle = ~s.toggle /\ Waiting(u) <= Waiting(s) + 1 /\ u.repeat = 0
    /\ IF s.repeat = 0
       THEN Taken(u) = Taken(s) /\ u.full = s.full /\ u.sm1 = s.sm1
       ELSE Taken(u) = Base(s) - 1 /\ u.full /\ u.sm1 # Empty

LEMMA NothingToRepeat ==
    ASSUME NEW s, Good(s), s.running, s.repeat = 0
    PROVE  Repeats(s, [s EXCEPT !.toggle = ~s.toggle])
  <1> DEFINE g == ~s.toggle
             t == [s EXCEPT !.toggle = g]
  <1>1. s \in Fields /\ Asked(s) /\ Waiting(s) \in Nat BY GoodFacts DEF Good
  <1>2. g \in BOOLEAN BY <1>1 DEF Fields
  <1> HIDE DEF g
  <1>3. t \in Fields BY <1>1, <1>2, SetToggle
  <1>4. t.toggle = g BY <1>1 DEF Fields
  <1>5. t.heap = s.heap /\ t.buf = s.buf /\ Inner(t) = Inner(s)
    BY <1>1 DEF Fields, Inner
  <1>6. /\ t.coeStored = s.coeStored /\ t.foeStored = s.foeStored
        /\ t.eoeStored = s.eoeStored /\ t.freedTwice = s.freedTwice
        /\ t.stored = s.stored /\ t.eoePending = s.eoePending
    BY <1>1 DEF Fields
  <1>7. /\ t.sm0 = s.sm0 /\ t.wcnt = s.wcnt /\ t.locked = s.locked
        /\ t.served = s.served /\ t.strays = s.strays
    BY <1>1 DEF Fields
  <1> HIDE DEF t
  <1>8. /\ t.running = s.running /\ t.full = s.full /\ t.sm1 = s.sm1
        /\ t.repeat = s.repeat /\ t.rxq = s.rxq /\ t.sent = s.sent
    BY <1>5, InnerSame
  <1>9. Asked(t) BY <1>1, <1>6, <1>8 DEF Asked
  <1>10. Still(s, t) /\ Lost(t) = Lost(s) BY <1>3, <1>5, <1>6, <1>9, Flags
  <1>11. Taken(t) = Taken(s) /\ Waiting(t) <= Waiting(s) + 1
    BY <1>1, <1>10 DEF Still, Follows
  <1>12. t.toggle = ~s.toggle BY <1>4 DEF g
  <1>13. Repeats(s, t) BY <1>5, <1>7, <1>8, <1>10, <1>11, <1>12 DEF Repeats, Still
  <1> QED BY <1>13 DEF t, g

LEMMA SentAgain ==
    ASSUME NEW s, Good(s), s.running, s.repeat # 0, NEW u \in Fields,
           u.running = s.running, u.rxq = s.rxq, u.txq = s.txq, u.rcnt = s.rcnt,
           u.sent = s.sent, u.heap = s.heap, u.buf = s.buf, u.coeStored = s.coeStored,
           u.foeStored = s.foeStored, u.eoeStored = s.eoeStored,
           u.freedTwice = s.freedTwice, u.stored = s.stored,
           u.eoePending = s.eoePending, u.sm0 = s.sm0, u.wcnt = s.wcnt,
           u.locked = s.locked, u.served = s.served, u.strays = s.strays,
           u.toggle = ~s.toggle, u.full, u.read = s.repeat, u.repeat = 0,
           u.sm1 = s.buf[s.repeat], u.store = IF s.full THEN s.read ELSE 0
    PROVE  Repeats(s, u)
  <1> DEFINE l == Len(s.sent)
             n == Len(s.txq)
             k == Base(s)
  <1>1. /\ s \in Fields /\ Core(s) /\ Stores(s) /\ Asked(s) /\ 0 \notin Kept(s)
        /\ Apart(s) /\ Quiet(s) /\ Line(s) /\ Counters(s) /\ Waiting(s) \in Nat
    BY GoodFacts DEF Good, Core
  <1>2. s.store = 0 /\ (~s.full => s.txq = <<>> /\ s.read = s.repeat) BY <1>1 DEF Quiet
  <1>3. l \in Nat /\ n \in Nat BY <1>1, LenProperties DEF Fields
  <1>4. /\ k \in Nat /\ k >= 1 /\ s.buf[s.repeat] = s.sent[k]
        /\ s.full => s.buf[s.read] = s.sent[k + 1]
        /\ \A i \in 1 .. n : s.buf[s.txq[i]] = s.sent[l - n + i]
    BY <1>1 DEF Line
  <1>5. Base(u) = k - 1
    <2> DEFINE x == IF s.full THEN 1 ELSE 0
    <2>1. k = l - n - 0 - x BY <1>2 DEF Base
    <2>2. (IF u.store # 0 THEN 1 ELSE 0) = x
      BY <1>1 DEF Apart
    <2>3. Base(u) = l - n - x - 1 BY <2>2 DEF Base
    <2>4. x \in Nat OBVIOUS
    <2> HIDE DEF l, n, k, x
    <2> QED BY <1>3, <1>4, <2>1, <2>3, <2>4
  <1>6. k \in 1 .. l
    <2> DEFINE x == IF s.full THEN 1 ELSE 0
    <2>1. k = l - n - 0 - x /\ x \in Nat BY <1>2 DEF Base
    <2> HIDE DEF l, n, k, x
    <2> QED BY <1>3, <1>4, <2>1
  <1>7. u.sm1 # Empty
    <2>1. s.sent[k] # Empty BY <1>1, <1>6, SentNotEmpty
    <2> QED BY <1>4, <2>1
  <1>8. Kept(u) = Kept(s) BY <1>1, <1>2 DEF Kept, Apart
  <1>9. Apart(u)
    <2>1. \A b \in ToSet(s.rxq) \cup ToSet(s.txq) : b # 0 BY <1>1 DEF Kept
    <2> QED BY <1>1, <1>2, <2>1 DEF Apart
  <1>10. Quiet(u) BY DEF Quiet
  <1>11. Line(u)
    <2>1. k - 1 \in Nat /\ (k - 1) + 1 = k /\ (k - 1) + 2 = k + 1 BY <1>4
    <2>2. u.buf[u.read] = u.sent[Base(u) + 1] BY <1>4, <1>5, <2>1
    <2>3. u.store # 0 => u.buf[u.store] = u.sent[Base(u) + 2] BY <1>4, <1>5, <2>1
    <2>4. \A i \in 1 .. Len(u.txq) : u.buf[u.txq[i]] = u.sent[Len(u.sent) - Len(u.txq) + i]
      <3>1. u.buf = s.buf /\ u.txq = s.txq /\ u.sent = s.sent OBVIOUS
      <3> TAKE i \in 1 .. Len(u.txq)
      <3>2. i \in 1 .. Len(s.txq) BY <3>1
      <3>3. s.buf[s.txq[i]] = s.sent[Len(s.sent) - Len(s.txq) + i]
        BY <1>1, <3>2 DEF Line
      <3> QED BY <3>1, <3>3, Zenon
    <2>5. u.sm1 = u.buf[u.read] /\ u.repeat = 0 /\ u.full OBVIOUS
    <2> HIDE DEF k
    <2> QED BY <1>5, <2>1, <2>2, <2>3, <2>4, <2>5 DEF Line
  <1>12. Counters(u) BY <1>1 DEF Counters, ReadCounter
  <1>13. Core(u) BY <1>1, <1>8, <1>9, <1>10, <1>11, <1>12 DEF Core
  <1>14. Held2(u) = Held2(s) BY DEF Held2
  <1>15. Stores(u) BY <1>1, <1>8, <1>14 DEF Stores
  <1>16. Asked(u) BY <1>1 DEF Asked
  <1>17. Lost(u) = Lost(s) BY <1>8, <1>14 DEF Lost
  <1>18. Taken(u) = k - 1 BY <1>5, <1>7 DEF Taken
  <1>19. Waiting(u) <= Waiting(s) + 1
    <2> DEFINE x == IF s.full THEN 1 ELSE 0
    <2>1. Waiting(u) = n + 1 /\ Waiting(s) = n + x /\ x \in Nat BY DEF Waiting
    <2> HIDE DEF n, x
    <2> QED BY <1>3, <2>1
  <1> QED BY <1>7, <1>13, <1>15, <1>16, <1>17, <1>18, <1>19 DEF Repeats, Good

LEMMA MailboxRepeatReq ==
    ASSUME NEW s, Good(s), s.running
    PROVE  Repeats(s, MBX_MailboxRepeatReq(s))
  <1> DEFINE u == MBX_MailboxRepeatReq(s)
  <1>1. s \in Fields /\ Core(s) /\ Empty \in Message
    BY GoodFacts, MailboxAssumption DEF Good, Core, Empty, Message
  <1>2. CASE s.repeat = 0
    <2>1. u = [s EXCEPT !.toggle = ~s.toggle]
      BY <1>1, <1>2 DEF MBX_MailboxRepeatReq, Fields
    <2> HIDE DEF u
    <2>2. Repeats(s, u) BY <1>2, <2>1, NothingToRepeat
    <2> QED BY <2>2 DEF u
  <1>3. CASE s.repeat # 0
    <2> DEFINE m == s.buf[s.repeat]
               r == s.repeat
               p == IF s.full THEN s.read ELSE 0
               g == ~s.toggle
               v1 == [s EXCEPT !.store = p]
               v2 == [v1 EXCEPT !.sm1 = m]
               v3 == [v2 EXCEPT !.read = r]
               v4 == [v3 EXCEPT !.full = TRUE]
               v5 == [v4 EXCEPT !.repeat = 0]
               v6 == [v5 EXCEPT !.toggle = g]
    <2>1. s.store = 0 BY <1>1, <1>3 DEF Core, Quiet
    <2>2. u = v6
      <3>1. CASE s.full
        BY <1>1, <1>3, <2>1, <3>1
           DEF MBX_MailboxRepeatReq, MBX_CopyToSendMailbox, CanCopy, Fields
      <3>2. CASE ~s.full
        BY <1>1, <1>3, <2>1, <3>2
           DEF MBX_MailboxRepeatReq, MBX_CopyToSendMailbox, CanCopy, Fields
      <3> QED BY <3>1, <3>2
    <2>3. /\ m \in Message /\ r \in Pointer /\ p \in Pointer /\ 0 \in Pointer /\ g \in BOOLEAN
      BY <1>1, <1>3 DEF Fields, Pointer
    <2>4. v6 = [s EXCEPT !.store = p, !.sm1 = m, !.read = r, !.full = TRUE,
                         !.repeat = 0, !.toggle = g]
      BY <1>1 DEF Fields
    <2> HIDE DEF m, r, p, g, u
    <2>5. u \in Fields
      <3>1. v1 \in Fields BY <1>1, <2>3, SetStore
      <3>2. v2 \in Fields BY <2>3, <3>1, SetSm1
      <3>3. v3 \in Fields BY <2>3, <3>2, SetRead
      <3>4. v4 \in Fields BY <3>3, SetFull
      <3>5. v5 \in Fields BY <2>3, <3>4, SetRepeat
      <3>6. v6 \in Fields BY <2>3, <3>5, SetToggle
      <3> QED BY <2>2, <3>6
    <2> HIDE DEF v6
    <2>6. /\ u.running = s.running /\ u.rxq = s.rxq /\ u.txq = s.txq /\ u.rcnt = s.rcnt
          /\ u.sent = s.sent /\ u.heap = s.heap /\ u.buf = s.buf
          /\ u.coeStored = s.coeStored /\ u.foeStored = s.foeStored
          /\ u.eoeStored = s.eoeStored /\ u.freedTwice = s.freedTwice
          /\ u.stored = s.stored /\ u.eoePending = s.eoePending
      BY <1>1, <2>2, <2>4 DEF Fields
    <2>7. /\ u.sm0 = s.sm0 /\ u.wcnt = s.wcnt /\ u.locked = s.locked
          /\ u.served = s.served /\ u.strays = s.strays
      BY <1>1, <2>2, <2>4 DEF Fields
    <2>8. u.toggle = g /\ u.full /\ u.read = r BY <1>1, <2>2, <2>4 DEF Fields
    <2>9. u.repeat = 0 /\ u.sm1 = m /\ u.store = p BY <1>1, <2>2, <2>4 DEF Fields
    <2>10. /\ u.toggle = ~s.toggle /\ u.read = s.repeat /\ u.sm1 = s.buf[s.repeat]
           /\ u.store = IF s.full THEN s.read ELSE 0
      BY <2>8, <2>9 DEF g, r, m, p
    <2>11. Repeats(s, u) BY <1>3, <2>5, <2>6, <2>7, <2>8, <2>9, <2>10, SentAgain
    <2> QED BY <2>11 DEF u
  <1> QED BY <1>2, <1>3

-----------------------------------------------------------------------------
(* Stop and start.                                                         *)

LEMMA ConcatSet ==
    ASSUME NEW S, NEW p \in Seq(S), NEW q \in Seq(S)
    PROVE  /\ p \o q \in Seq(S) /\ Len(p \o q) = Len(p) + Len(q)
           /\ ToSet(p \o q) = ToSet(p) \cup ToSet(q)
           /\ IsInjective(p) /\ IsInjective(q) /\ ToSet(p) \cap ToSet(q) = {}
                => IsInjective(p \o q)
  <1> DEFINE r == p \o q
             m == Len(p)
             n == Len(q)
  <1>1. /\ r \in Seq(S) /\ Len(r) = m + n /\ m \in Nat /\ n \in Nat
        /\ \A i \in 1 .. m + n : r[i] = IF i <= m THEN p[i] ELSE q[i - m]
    BY ConcatProperties, LenProperties
  <1>2. /\ ToSet(r) = {r[i] : i \in 1 .. m + n} /\ ToSet(p) = {p[i] : i \in 1 .. m}
        /\ ToSet(q) = {q[i] : i \in 1 .. n}
    BY <1>1, SetOfSeq
  <1> HIDE DEF r, m, n
  <1>3. \A i \in 1 .. m : i \in 1 .. m + n /\ r[i] = p[i] BY <1>1
  <1>4. \A i \in 1 .. n : i + m \in 1 .. m + n /\ r[i + m] = q[i] BY <1>1
  <1>5. \A i \in 1 .. m + n : i \in 1 .. m \/ (i - m \in 1 .. n /\ r[i] = q[i - m] /\ i > m)
    BY <1>1
  <1>6. ToSet(r) = ToSet(p) \cup ToSet(q)
    <2>1. \A i \in 1 .. m + n : r[i] \in ToSet(p) \cup ToSet(q) BY <1>2, <1>3, <1>5
    <2>2. \A i \in 1 .. m : p[i] \in ToSet(r) BY <1>2, <1>3
    <2>3. \A i \in 1 .. n : q[i] \in ToSet(r) BY <1>2, <1>4
    <2> QED BY <1>2, <2>1, <2>2, <2>3
  <1>7. ASSUME IsInjective(p), IsInjective(q), ToSet(p) \cap ToSet(q) = {}
        PROVE  IsInjective(r)
    <2>1. \A i, j \in 1 .. m : p[i] = p[j] => i = j BY <1>7, InjectiveSeq DEF m
    <2>2. \A i, j \in 1 .. n : q[i] = q[j] => i = j BY <1>7, InjectiveSeq DEF n
    <2>3. \A i \in 1 .. m, j \in 1 .. n : p[i] # q[j] BY <1>2, <1>7
    <2>4. ASSUME NEW i \in 1 .. m + n, NEW j \in 1 .. m + n, r[i] = r[j] PROVE i = j
      <3>1. CASE i \in 1 .. m /\ j \in 1 .. m BY <1>3, <2>1, <2>4, <3>1
      <3>2. CASE i \in 1 .. m /\ j \notin 1 .. m BY <1>3, <1>5, <2>3, <2>4, <3>2
      <3>3. CASE i \notin 1 .. m /\ j \in 1 .. m BY <1>3, <1>5, <2>3, <2>4, <3>3
      <3>4. CASE i \notin 1 .. m /\ j \notin 1 .. m
        <4>1. i - m = j - m BY <1>5, <2>2, <2>4, <3>4
        <4> QED BY <1>1, <4>1
      <3> QED BY <3>1, <3>2, <3>3, <3>4
    <2>5. \A i, j \in 1 .. Len(r) : r[i] = r[j] => i = j BY <1>1, <2>4
    <2> QED BY <1>1, <2>5, InjectiveSeq
  <1> QED BY <1>1, <1>6, <1>7 DEF r, m, n

LEMMA DerefFacts ==
    ASSUME NEW p \in Pointer
    PROVE  /\ Deref(p) \in Seq(Buffers) /\ ToSet(Deref(p)) = {p} \ {0}
           /\ IsInjective(Deref(p))
           /\ <<>> \in Seq(Buffers) /\ ToSet(<<>>) = {} /\ IsInjective(<<>>)
  BY DEF Deref, Pointer, ToSet, IsInjective

\* What is freed when the handler stops: all but what the CoE services stored.
LEMMA HeldFreed ==
    ASSUME NEW s, Good(s)
    PROVE  LET q == HeldBuffers(s) \o s.rxq \o s.txq
           IN  /\ q \in Seq(Buffers) /\ IsInjective(q)
               /\ ToSet(q) = Kept(s) \cup ({s.eoeStored} \ {0})
  <1> DEFINE p1 == Deref(s.repeat)
             p2 == IF s.store # s.repeat THEN Deref(s.store) ELSE <<>>
             p3 == IF s.read \notin {s.repeat, s.store} THEN Deref(s.read) ELSE <<>>
             p4 == Deref(s.eoeStored)
             q2 == p1 \o p2
             q3 == q2 \o p3
             q4 == q3 \o p4
             q5 == q4 \o s.rxq
             q6 == q5 \o s.txq
  <1>1. /\ {s.repeat, s.store, s.read, s.eoeStored} \subseteq Pointer
        /\ s.rxq \in Seq(Buffers) /\ s.txq \in Seq(Buffers)
        /\ Apart(s) /\ Quiet(s) /\ Stores(s) /\ 0 \notin Kept(s)
    BY GoodFacts DEF Good, Core, Fields
  <1>2. /\ p1 \in Seq(Buffers) /\ ToSet(p1) = {s.repeat} \ {0} /\ IsInjective(p1)
    BY <1>1, DerefFacts
  <1>3. /\ p2 \in Seq(Buffers) /\ IsInjective(p2)
        /\ ToSet(p2) = ({s.store} \ {0}) \ {s.repeat}
    <2>1. CASE s.store # s.repeat BY <1>1, <2>1, DerefFacts
    <2>2. CASE s.store = s.repeat BY <1>1, <2>2, DerefFacts
    <2> QED BY <2>1, <2>2
  <1>4. /\ p3 \in Seq(Buffers) /\ IsInjective(p3)
        /\ ToSet(p3) = ({s.read} \ {0}) \ {s.repeat, s.store}
    <2>1. CASE s.read \notin {s.repeat, s.store} BY <1>1, <2>1, DerefFacts
    <2>2. CASE s.read \in {s.repeat, s.store} BY <1>1, <2>2, DerefFacts
    <2> QED BY <2>1, <2>2
  <1>5. /\ p4 \in Seq(Buffers) /\ ToSet(p4) = {s.eoeStored} \ {0} /\ IsInjective(p4)
    BY <1>1, DerefFacts
  <1>6. HeldBuffers(s) \o s.rxq \o s.txq = q6 BY DEF HeldBuffers
  <1> HIDE DEF p1, p2, p3, p4
  <1>7. /\ q2 \in Seq(Buffers) /\ IsInjective(q2)
        /\ ToSet(q2) = {s.repeat, s.store} \ {0}
    BY <1>2, <1>3, ConcatSet
  <1> HIDE DEF q2
  <1>8. /\ q3 \in Seq(Buffers) /\ IsInjective(q3)
        /\ ToSet(q3) = {s.repeat, s.store, s.read} \ {0}
    BY <1>4, <1>7, ConcatSet
  <1> HIDE DEF q3
  <1>9. /\ s.eoeStored # 0 => s.eoeStored \notin Kept(s)
    BY <1>1 DEF Stores, Held2
  <1>10. {s.repeat, s.store, s.read} \ {0} \subseteq Kept(s)
    BY <1>1 DEF Kept, Quiet
  <1>11. ToSet(s.rxq) \cup ToSet(s.txq) \subseteq Kept(s) BY DEF Kept
  <1>12. /\ q4 \in Seq(Buffers) /\ IsInjective(q4)
         /\ ToSet(q4) = {s.repeat, s.store, s.read, s.eoeStored} \ {0}
    <2>1. ToSet(q3) \cap ToSet(p4) = {} BY <1>5, <1>8, <1>9, <1>10
    <2> QED BY <1>5, <1>8, <2>1, ConcatSet
  <1> HIDE DEF q4
  <1>13. /\ q5 \in Seq(Buffers) /\ IsInjective(q5)
         /\ ToSet(q5) = ({s.repeat, s.store, s.read, s.eoeStored} \ {0}) \cup ToSet(s.rxq)
    <2>1. ToSet(q4) \cap ToSet(s.rxq) = {}
      BY <1>1, <1>9, <1>11, <1>12 DEF Apart
    <2>2. IsInjective(s.rxq) BY <1>1 DEF Apart
    <2> QED BY <1>1, <1>12, <2>1, <2>2, ConcatSet
  <1> HIDE DEF q5
  <1>14. /\ q6 \in Seq(Buffers) /\ IsInjective(q6)
         /\ ToSet(q6) = ({s.repeat, s.store, s.read, s.eoeStored} \ {0})
                           \cup ToSet(s.rxq) \cup ToSet(s.txq)
    <2>1. ToSet(q5) \cap ToSet(s.txq) = {}
      BY <1>1, <1>9, <1>11, <1>13 DEF Apart
    <2>2. IsInjective(s.txq) BY <1>1 DEF Apart
    <2> QED BY <1>1, <1>13, <2>1, <2>2, ConcatSet
  <1> HIDE DEF q6
  <1>15. Kept(s) \subseteq ({s.repeat, s.store, s.read} \ {0}) \cup ToSet(s.rxq) \cup ToSet(s.txq)
    BY <1>1 DEF Kept
  <1>16. ToSet(q6) = Kept(s) \cup ({s.eoeStored} \ {0})
    BY <1>10, <1>11, <1>14, <1>15
  <1> QED BY <1>6, <1>14, <1>16

\* What is left of the handler when it has stopped.
Stops(s, t) ==
    /\ Good(t) /\ Lost(t) = Lost(s)
    /\ ~t.running /\ t.rxq = <<>> /\ ~t.locked /\ ~t.toggle /\ t.sm0 = Empty
    /\ t.sent = s.sent /\ t.served = s.served /\ t.strays = s.strays

LEMMA StopMailboxHandler ==
    ASSUME NEW s, Good(s)
    PROVE  Stops(s, MBX_StopMailboxHandler(s))
  <1> DEFINE q == HeldBuffers(s) \o s.rxq \o s.txq
             h == s.heap \ ToSet(q)
             f == [b \in Buffers |-> IF b \in ToSet(q) THEN Empty ELSE s.buf[b]]
             e == s.freedTwice \/ ~IsInjective(q) \/ ~(ToSet(q) \subseteq s.heap)
             a == [s EXCEPT !.heap = h, !.buf = f, !.freedTwice = e]
             t == MBX_StopMailboxHandler(s)
  <1>1. /\ s \in Fields /\ Core(s) /\ Stores(s) /\ Asked(s) /\ 0 \notin Buffers
        /\ s.heap \subseteq Buffers /\ s.buf \in [Buffers -> Message]
        /\ Kept(s) \subseteq s.heap
    BY GoodFacts DEF Good, Core
  <1>0. Empty \in Message BY MailboxAssumption DEF Empty, Message
  <1>00. s.sent \in Seq(Message) BY <1>1 DEF Fields
  <1>2. /\ q \in Seq(Buffers) /\ IsInjective(q)
        /\ ToSet(q) = Kept(s) \cup ({s.eoeStored} \ {0})
    BY HeldFreed
  <1>3. t = [a EXCEPT
        !.running = FALSE, !.sm0 = Empty, !.sm1 = Empty,
        !.rxq = <<>>, !.txq = <<>>, !.read = 0, !.repeat = 0, !.store = 0,
        !.full = FALSE, !.toggle = FALSE, !.locked = FALSE, !.stored = {},
        !.wcnt = 0, !.rcnt = 0, !.foeStored = 0, !.eoeStored = 0,
        !.eoePending = FALSE]
    BY DEF MBX_StopMailboxHandler, FreeAll
  <1> HIDE DEF q
  <1>4. ToSet(q) \subseteq s.heap BY <1>1, <1>2 DEF Stores, Held2
  <1>5. e = FALSE BY <1>1, <1>2, <1>4 DEF Stores
  <1>6. h \in SUBSET Buffers /\ f \in [Buffers -> Message] /\ e \in BOOLEAN
    BY <1>0, <1>1, <1>5
  <1> HIDE DEF h, f, e
  <1>8. a \in Fields
    <2> DEFINE a1 == [s EXCEPT !.heap = h]
               a2 == [a1 EXCEPT !.buf = f]
               a3 == [a2 EXCEPT !.freedTwice = e]
    <2>1. a1 \in Fields BY <1>1, <1>6, SetHeap
    <2>2. a2 \in Fields BY <1>6, <2>1, SetBuf
    <2>3. a3 \in Fields BY <1>6, <2>2, SetFreedTwice
    <2>4. a = a3 OBVIOUS
    <2> QED BY <2>3, <2>4
  <1>9. /\ a.heap = h /\ a.freedTwice = e /\ a.coeStored = s.coeStored
        /\ a.sent = s.sent /\ a.served = s.served /\ a.strays = s.strays
    BY <1>1 DEF Fields
  <1> HIDE DEF a
  <1>10. t \in Fields
    <2> DEFINE t1 == [a EXCEPT !.running = FALSE]
               t2 == [t1 EXCEPT !.sm0 = Empty]
               t3 == [t2 EXCEPT !.sm1 = Empty]
               t4 == [t3 EXCEPT !.rxq = <<>>]
               t5 == [t4 EXCEPT !.txq = <<>>]
               t6 == [t5 EXCEPT !.read = 0]
               t7 == [t6 EXCEPT !.repeat = 0]
               t8 == [t7 EXCEPT !.store = 0]
               t9 == [t8 EXCEPT !.full = FALSE]
               t10 == [t9 EXCEPT !.toggle = FALSE]
               t11 == [t10 EXCEPT !.locked = FALSE]
               t12 == [t11 EXCEPT !.stored = {}]
               t13 == [t12 EXCEPT !.wcnt = 0]
               t14 == [t13 EXCEPT !.rcnt = 0]
               t15 == [t14 EXCEPT !.foeStored = 0]
               t16 == [t15 EXCEPT !.eoeStored = 0]
               t17 == [t16 EXCEPT !.eoePending = FALSE]
    <2>0. /\ Empty \in Message /\ <<>> \in Seq(Buffers) /\ 0 \in Pointer
          /\ {} \in SUBSET Service /\ 0 \in 0 .. MaxCounter /\ 0 \in 0 .. MaxCounter + 1
      BY <1>0, MailboxAssumption DEF Pointer
    <2>1. t1 \in Fields BY <1>8, SetRunning
    <2>2. t2 \in Fields BY <2>0, <2>1, SetSm0
    <2>3. t3 \in Fields BY <2>0, <2>2, SetSm1
    <2>4. t4 \in Fields BY <2>0, <2>3, SetRxq
    <2>5. t5 \in Fields BY <2>0, <2>4, SetTxq
    <2>6. t6 \in Fields BY <2>0, <2>5, SetRead
    <2>7. t7 \in Fields BY <2>0, <2>6, SetRepeat
    <2>8. t8 \in Fields BY <2>0, <2>7, SetStore
    <2>9. t9 \in Fields BY <2>8, SetFull
    <2>10. t10 \in Fields BY <2>9, SetToggle
    <2>11. t11 \in Fields BY <2>10, SetLocked
    <2>12. t12 \in Fields BY <2>0, <2>11, SetStored
    <2>13. t13 \in Fields BY <2>0, <2>12, SetWcnt
    <2>14. t14 \in Fields BY <2>0, <2>13, SetRcnt
    <2>15. t15 \in Fields BY <2>0, <2>14, SetFoeStored
    <2>16. t16 \in Fields BY <2>0, <2>15, SetEoeStored
    <2>17. t17 \in Fields BY <2>16, SetEoePending
    <2>18. t = t17 BY <1>3
    <2> QED BY <2>17, <2>18
  <1>11. /\ ~t.running /\ t.sm0 = Empty /\ t.sm1 = Empty /\ t.rxq = <<>> /\ t.txq = <<>>
         /\ t.read = 0 /\ t.repeat = 0 /\ t.store = 0
    BY <1>3, <1>8 DEF Fields
  <1>12. /\ ~t.full /\ ~t.toggle /\ ~t.locked /\ t.stored = {} /\ t.foeStored = 0
         /\ t.eoeStored = 0 /\ ~t.eoePending
    BY <1>3, <1>8 DEF Fields
  <1>13. /\ t.heap = h /\ t.freedTwice = e /\ t.coeStored = s.coeStored
         /\ t.sent = s.sent /\ t.served = s.served /\ t.strays = s.strays
    BY <1>3, <1>8, <1>9 DEF Fields
  <1> HIDE DEF t
  <1>14. ToSet(<<>>) = {} /\ Len(<<>>) = 0 /\ IsInjective(<<>>)
    BY DEF ToSet, IsInjective
  <1>15. Kept(t) = {} /\ Held2(t) = {s.coeStored} \ {0}
    BY <1>11, <1>12, <1>13, <1>14 DEF Kept, Held2
  <1>16. Apart(t) /\ Quiet(t) BY <1>11, <1>12, <1>14 DEF Apart, Quiet
  <1>17. Line(t)
    <2>1. Len(s.sent) \in Nat BY <1>00, LenProperties
    <2>2. Base(t) = Len(s.sent) - 0 - 0 - 0 BY <1>11, <1>12, <1>13, <1>14 DEF Base
    <2>3. Base(t) \in Nat BY <2>1, <2>2
    <2>4. \A i \in 1 .. Len(t.txq) :
             t.buf[t.txq[i]] = t.sent[Len(t.sent) - Len(t.txq) + i]
      BY <1>11, <1>14
    <2> QED BY <1>11, <1>12, <2>3, <2>4 DEF Line
  <1>18. Counters(t) BY <1>1, <1>11, <1>13 DEF Core, Counters
  <1>19. Core(t) BY <1>10, <1>15, <1>16, <1>17, <1>18 DEF Core
  <1>20. Stores(t)
    <2>1. s.coeStored # 0 => /\ s.coeStored \in s.heap /\ s.coeStored \notin ToSet(q)
                             /\ s.coeStored # s.eoeStored
      BY <1>1, <1>2 DEF Stores, Held2
    <2>2. Held2(t) \subseteq t.heap BY <1>13, <1>15, <2>1 DEF h
    <2> QED BY <1>5, <1>11, <1>12, <1>13, <1>15, <2>2 DEF Stores
  <1>21. Asked(t) BY <1>11, <1>12 DEF Asked
  <1>22. Lost(t) = Lost(s)
    <2>1. Held2(s) = ({s.coeStored} \ {0}) \cup ({s.eoeStored} \ {0}) BY DEF Held2
    <2> QED BY <1>2, <1>13, <1>15, <2>1 DEF Lost, h
  <1> QED BY <1>11, <1>12, <1>13, <1>19, <1>20, <1>21, <1>22 DEF Stops, Good, t

\* What is started is as it was left.
Starts(s, t) ==
    /\ Good(t) /\ Lost(t) = Lost(s)
    /\ t.running /\ t.rxq = <<>> /\ ~t.locked /\ ~t.toggle /\ t.sm0 = s.sm0
    /\ ~t.full /\ t.sm1 = Empty /\ Taken(t) = 0
    /\ t.sent = <<>> /\ t.served = s.served /\ t.strays = s.strays /\ t.wcnt = s.wcnt

LEMMA StartMailboxHandler ==
    ASSUME NEW s, Good(s), ~s.running
    PROVE  Starts(s, MBX_StartMailboxHandler(s))
  <1> DEFINE t1 == [s EXCEPT !.running = TRUE]
             t == [t1 EXCEPT !.sent = <<>>]
  <1>1. /\ s \in Fields /\ Apart(s) /\ Quiet(s) /\ Line(s) /\ Stores(s) /\ Asked(s)
        /\ Kept(s) \subseteq s.heap
    BY GoodFacts DEF Good, Core
  <1>2. MBX_StartMailboxHandler(s) = t BY DEF MBX_StartMailboxHandler
  <1>3. t \in Fields
    <2>1. t1 \in Fields BY <1>1, SetRunning
    <2>2. <<>> \in Seq(Message) OBVIOUS
    <2> QED BY <2>1, <2>2, SetSent
  <1>4. /\ t.running /\ t.rxq = s.rxq /\ t.txq = s.txq /\ t.read = s.read
        /\ t.repeat = s.repeat /\ t.store = s.store /\ t.full = s.full
        /\ t.sm1 = s.sm1 /\ t.sent = <<>>
    BY <1>1 DEF Fields
  <1>5. /\ t.heap = s.heap /\ t.buf = s.buf /\ t.coeStored = s.coeStored
        /\ t.foeStored = s.foeStored /\ t.eoeStored = s.eoeStored
        /\ t.freedTwice = s.freedTwice /\ t.stored = s.stored
        /\ t.eoePending = s.eoePending
    BY <1>1 DEF Fields
  <1>6. /\ t.locked = s.locked /\ t.toggle = s.toggle /\ t.sm0 = s.sm0
        /\ t.served = s.served /\ t.strays = s.strays /\ t.wcnt = s.wcnt
    BY <1>1 DEF Fields
  <1> HIDE DEF t
  <1>7. /\ ~s.full /\ ~s.locked /\ ~s.toggle /\ s.rxq = <<>> /\ s.repeat = 0
        /\ s.txq = <<>> /\ s.store = 0 /\ s.sm1 = Empty
    BY <1>1 DEF Asked, Quiet, Line
  <1>8. Len(<<>>) = 0 OBVIOUS
  <1>9. Base(t) = 0 /\ Taken(t) = 0
    <2>1. Len(t.sent) = 0 /\ Len(t.txq) = 0 /\ t.store = 0 /\ ~t.full BY <1>4, <1>7, <1>8
    <2>2. Base(t) = 0 - 0 - 0 - 0 BY <2>1 DEF Base
    <2>3. Base(t) = 0 BY <2>2
    <2> QED BY <2>1, <2>3 DEF Taken
  <1>10. Line(t)
    <2>1. \A i \in 1 .. Len(t.txq) :
             t.buf[t.txq[i]] = t.sent[Len(t.sent) - Len(t.txq) + i]
      BY <1>4, <1>7, <1>8
    <2> QED BY <1>4, <1>7, <1>9, <2>1 DEF Line
  <1>11. Counters(t) BY <1>4, <1>8 DEF Counters
  <1>12. Kept(t) = Kept(s) /\ Held2(t) = Held2(s) BY <1>4, <1>5 DEF Kept, Held2
  <1>13. Apart(t) /\ Quiet(t) BY <1>1, <1>4 DEF Apart, Quiet
  <1>14. Core(t) BY <1>1, <1>3, <1>5, <1>10, <1>11, <1>12, <1>13 DEF Core
  <1>15. Stores(t) BY <1>1, <1>5, <1>12 DEF Stores
  <1>16. Asked(t) BY <1>1, <1>4, <1>5 DEF Asked
  <1>17. Lost(t) = Lost(s) BY <1>5, <1>12 DEF Lost
  <1> QED BY <1>2, <1>4, <1>6, <1>7, <1>9, <1>14, <1>15, <1>16, <1>17 DEF Starts, Good

-----------------------------------------------------------------------------
(* The handler among the others: s is the handler, r the registers, l the  *)
(* main loop and m the master.                                             *)

\* A request that is served finds room for its response, in the send mailbox or
\* behind it.
Room(s, pc) ==
    /\ s.rxq # <<>> => /\ Len(s.rxq) + Waiting(s) <= 2
                       /\ pc # "Serve" => Len(s.rxq) = 1
                       /\ pc \notin {"Serve", "Write"} => ~s.full
    /\ pc \in {"Activate", "Status", "Read", "Repeat", "Write"} => s.running

\* Only what EOE_ServiceInd forgets is lost.
Count(s) == Cardinality(Lost(s)) = s.strays

\* Requests are served and queued in the order in which they were sent.
Order(s) ==
    /\ \A b \in ToSet(s.rxq) : /\ s.buf[b].req >= 1
                               /\ \A i \in 1 .. Len(s.served) : s.served[i] < s.buf[b].req
    /\ \A i, j \in 1 .. Len(s.rxq) : i < j => s.buf[s.rxq[i]].req < s.buf[s.rxq[j]].req
    /\ \A i, j \in 1 .. Len(s.served) : i < j => s.served[i] < s.served[j]
    /\ s.strays > 0 => \E i \in 1 .. Len(s.served) : s.strays <= s.served[i]

\* A request that is later than those served and queued.
Later(s, req) ==
    /\ \A i \in 1 .. Len(s.served) : s.served[i] < req
    /\ \A b \in ToSet(s.rxq) : s.buf[b].req < req

\* A request the handler will not queue.
Known(s, msg) == msg.cnt = s.wcnt \/ msg.kind = "long"

\* What is in the receive mailbox is new, or known; what is written again is
\* known or was never taken out.
Requested(s, r, m) ==
    /\ Later(s, m.n + 1)
    /\ s.sm0 # Empty => /\ s.sm0.req \in 1 .. m.n
                        /\ Later(s, s.sm0.req) \/ Known(s, s.sm0)
    /\ m.unsure => /\ m.up /\ m.last.req \in 1 .. m.n
                   /\ IF s.sm0 = Empty THEN Known(s, m.last) ELSE s.sm0 = m.last
    /\ s.locked \/ r.written => s.sm0 # Empty
    /\ ~(s.locked /\ r.written)
    /\ m.up => s.running /\ r.al = "none"

\* The main loop has seen a repeat request that it has not acknowledged yet.
Repeating(s, l) ==
    l.pc \in {"Status", "AlControl", "Read", "Repeat"} /\ l.repeat # s.toggle

Linked(s, r) == s.running /\ r.al = "none"

\* A repetition is acknowledged when it was seen, and the master reads nothing
\* before that.
Signals(s, r, l, m) ==
    /\ r.ack = s.toggle
    /\ r.al = "preop" => ~s.running
    /\ m.lost => m.up /\ r.repeat = r.ack
    /\ l.pc \in {"AlControl", "Read"} /\ s.running /\ ~l.status => s.sm1 = Empty
    /\ Linked(s, r) /\ Repeating(s, l) =>
          /\ r.repeat = l.repeat
          /\ l.pc \in {"AlControl", "Read"} /\ l.status => s.sm1 # Empty
          /\ l.pc = "Repeat" => Visible(s)

\* The master has the responses taken out of the send mailbox; the last one may
\* have been lost and will be repeated, or may be there once more.
Place(s, r, m) ==
    /\ ~m.up => m.got = <<>> /\ m.lastCnt = 0
    /\ Linked(s, r) =>
        /\ Len(m.got) <= Len(s.sent)
        /\ \A i \in 1 .. Len(m.got) : m.got[i] = s.sent[i]
        /\ m.lastCnt = IF m.got = <<>> THEN 0 ELSE s.sent[Len(m.got)].cnt
        /\ \/ Len(m.got) = Taken(s)
           \/ Len(m.got) = Taken(s) - 1 /\ Behind(s) /\ (m.lost \/ r.repeat # r.ack)
           \/ Len(m.got) = Taken(s) + 1 /\ s.sm1 # Empty /\ s.repeat = 0

\* The inductive invariant.
Inv ==
    /\ TypeOK /\ Good(mbx)
    /\ Room(mbx, loop.pc) /\ Count(mbx) /\ Order(mbx)
    /\ Requested(mbx, regs, master)
    /\ Signals(mbx, regs, loop, master)
    /\ Place(mbx, regs, master)

-----------------------------------------------------------------------------
(* What the steps of the main loop do to the parts of the invariant.       *)

LEMMA StraysBounded ==
    ASSUME NEW s \in Fields, Order(s)
    PROVE  s \in Handler
  <1>1. s.strays \in 0 .. MaxReq
    <2>1. s.strays \in Nat /\ s.served \in Seq(1 .. MaxReq) /\ MaxReq \in Nat
      BY MailboxAssumption DEF Fields
    <2>2. CASE s.strays = 0 BY <2>1, <2>2
    <2>3. CASE s.strays > 0
      <3>1. PICK i \in 1 .. Len(s.served) : s.strays <= s.served[i] BY <2>3 DEF Order
      <3>2. s.served[i] \in 1 .. MaxReq BY <2>1, ElementOfSeq
      <3> QED BY <2>1, <3>1, <3>2
    <2> QED BY <2>1, <2>2, <2>3
  <1> QED BY <1>1 DEF Fields, Handler, Service

\* Neither the requests that were served nor those that wait have changed.
SameRequests(s, t) ==
    /\ t.served = s.served /\ t.strays = s.strays /\ t.rxq = s.rxq
    /\ \A b \in ToSet(s.rxq) : t.buf[b] = s.buf[b]

LEMMA OrderKept ==
    ASSUME NEW s \in Fields, NEW t, SameRequests(s, t)
    PROVE  /\ Order(s) => Order(t)
           /\ \A req : Later(s, req) => Later(t, req)
  <1>1. \A i \in 1 .. Len(s.rxq) : s.rxq[i] \in ToSet(s.rxq)
    BY SetOfSeq DEF Fields
  <1>2. \A i \in 1 .. Len(s.rxq) : t.buf[s.rxq[i]] = s.buf[s.rxq[i]]
    BY <1>1 DEF SameRequests
  <1>3. ASSUME Order(s) PROVE Order(t)
    <2>1. \A b \in ToSet(t.rxq) : /\ t.buf[b].req >= 1
                                  /\ \A i \in 1 .. Len(t.served) : t.served[i] < t.buf[b].req
      BY <1>3 DEF SameRequests, Order
    <2>2. \A i, j \in 1 .. Len(t.rxq) : i < j => t.buf[t.rxq[i]].req < t.buf[t.rxq[j]].req
      BY <1>2, <1>3 DEF SameRequests, Order
    <2> QED BY <1>3, <2>1, <2>2 DEF SameRequests, Order
  <1>4. \A req : Later(s, req) => Later(t, req) BY DEF SameRequests, Later
  <1> QED BY <1>3, <1>4

LEMMA RequestedKept ==
    ASSUME NEW s, NEW t, NEW r, NEW m, Requested(s, r, m),
           t.sm0 = s.sm0, t.wcnt = s.wcnt, t.locked = s.locked, t.running = s.running,
           \A req : Later(s, req) => Later(t, req)
    PROVE  Requested(t, r, m)
  BY DEF Requested, Known

\* Onward steps leave the master where it is.
LEMMA PlaceOnward ==
    ASSUME NEW s \in Fields, NEW t \in Fields, NEW r, NEW m, Onward(s, t), Place(s, r, m),
           m.got \in Seq(Message)
    PROVE  Place(t, r, m)
  <1>1. Len(s.sent) \in Nat /\ Len(t.sent) \in Nat /\ Len(m.got) \in Nat
    BY LenProperties DEF Fields
  <1>2. ~m.up => m.got = <<>> /\ m.lastCnt = 0 BY DEF Place
  <1>3. ASSUME Linked(t, r)
        PROVE  /\ Len(m.got) <= Len(t.sent)
               /\ \A i \in 1 .. Len(m.got) : m.got[i] = t.sent[i]
               /\ m.lastCnt = IF m.got = <<>> THEN 0 ELSE t.sent[Len(m.got)].cnt
               /\ \/ Len(m.got) = Taken(t)
                  \/ Len(m.got) = Taken(t) - 1 /\ Behind(t) /\ (m.lost \/ r.repeat # r.ack)
                  \/ Len(m.got) = Taken(t) + 1 /\ t.sm1 # Empty /\ t.repeat = 0
    <2>1. Linked(s, r) BY <1>3 DEF Linked, Onward
    <2>2. /\ Len(m.got) <= Len(s.sent)
          /\ \A i \in 1 .. Len(m.got) : m.got[i] = s.sent[i]
          /\ m.lastCnt = IF m.got = <<>> THEN 0 ELSE s.sent[Len(m.got)].cnt
          /\ \/ Len(m.got) = Taken(s)
             \/ Len(m.got) = Taken(s) - 1 /\ Behind(s) /\ (m.lost \/ r.repeat # r.ack)
             \/ Len(m.got) = Taken(s) + 1 /\ s.sm1 # Empty /\ s.repeat = 0
      BY <2>1 DEF Place
    <2>3. \A i \in 1 .. Len(m.got) : i \in 1 .. Len(s.sent) BY <1>1, <2>2
    <2>4. \A i \in 1 .. Len(m.got) : t.sent[i] = s.sent[i] BY <2>3 DEF Onward
    <2>5. m.got # <<>> => t.sent[Len(m.got)] = s.sent[Len(m.got)]
      <3>1. Len(m.got) = 0 <=> m.got = <<>> BY EmptySeq
      <3>2. CASE Len(m.got) # 0 BY <1>1, <2>4, <3>2
      <3> QED BY <3>1, <3>2
    <2>6. Len(m.got) <= Len(t.sent) BY <1>1, <2>2 DEF Onward
    <2>7. \A i \in 1 .. Len(m.got) : m.got[i] = t.sent[i] BY <2>2, <2>4
    <2>8. m.lastCnt = IF m.got = <<>> THEN 0 ELSE t.sent[Len(m.got)].cnt BY <2>2, <2>5
    <2>9. \/ Len(m.got) = Taken(t)
          \/ Len(m.got) = Taken(t) - 1 /\ Behind(t) /\ (m.lost \/ r.repeat # r.ack)
          \/ Len(m.got) = Taken(t) + 1 /\ t.sm1 # Empty /\ t.repeat = 0
      BY <2>2 DEF Onward
    <2> QED BY <2>6, <2>7, <2>8, <2>9
  <1> QED BY <1>2, <1>3 DEF Place

LEMMA NothingWaits ==
    ASSUME NEW s, Good(s)
    PROVE  /\ Len(s.txq) \in Nat /\ Len(s.rxq) \in Nat
           /\ Waiting(s) = 0 <=> ~s.full
           /\ s.rxq = <<>> <=> Len(s.rxq) = 0
           /\ s.rxq # <<>> => s.running
  <1>1. /\ s.txq \in Seq(Buffers) /\ s.rxq \in Seq(Buffers) /\ Quiet(s) /\ Asked(s)
    BY GoodFacts DEF Good, Core, Fields
  <1>2. Len(s.txq) \in Nat /\ Len(s.rxq) \in Nat BY <1>1, LenProperties
  <1>3. CASE s.full
    <2>1. Waiting(s) = Len(s.txq) + 1 BY <1>3 DEF Waiting
    <2> QED BY <1>1, <1>2, <1>3, <2>1, EmptySeq DEF Asked
  <1>4. CASE ~s.full
    <2>1. Waiting(s) = Len(s.txq) + 0 BY <1>4 DEF Waiting
    <2>2. Len(s.txq) = 0 BY <1>1, <1>4 DEF Quiet
    <2> QED BY <1>1, <1>2, <1>4, <2>1, <2>2, EmptySeq DEF Asked
  <1> QED BY <1>3, <1>4

\* A request leaves the queue.
Dequeue(s) ==
    [s EXCEPT !.rxq = Tail(s.rxq),
              !.served = Append(s.served, s.buf[Head(s.rxq)].req)]

LEMMA Dequeued ==
    ASSUME NEW s, Good(s), s.rxq # <<>>, Order(s)
    PROVE  LET b == Head(s.rxq)
               t == Dequeue(s)
           IN  /\ Good(t) /\ b \in Lost(t) /\ Lost(t) = Lost(s) \cup {b} /\ b \notin Lost(s)
               /\ Onward(s, t) /\ Waiting(t) = Waiting(s) /\ t.full = s.full
               /\ t.txq = s.txq /\ t.rxq = Tail(s.rxq) /\ t.buf = s.buf
               /\ t.served = Append(s.served, s.buf[b].req)
               /\ t.sm0 = s.sm0 /\ t.wcnt = s.wcnt /\ t.locked = s.locked
               /\ t.toggle = s.toggle /\ t.strays = s.strays
  <1> DEFINE b == Head(s.rxq)
             q == Tail(s.rxq)
             v == Append(s.served, s.buf[b].req)
             t1 == [s EXCEPT !.rxq = q]
             t == [s EXCEPT !.rxq = q, !.served = v]
  <1>1. /\ s \in Fields /\ Core(s) /\ Stores(s) /\ Asked(s) /\ 0 \notin Buffers
        /\ Apart(s) /\ Quiet(s) /\ Line(s) /\ Counters(s) /\ Kept(s) \subseteq s.heap
        /\ s.buf \in [Buffers -> Message]
    BY GoodFacts DEF Good, Core
  <1>2. s.rxq \in Seq(Buffers) /\ s.served \in Seq(1 .. MaxReq) BY <1>1 DEF Fields
  <1>3. /\ q \in Seq(Buffers) /\ b \in Buffers /\ ToSet(s.rxq) = ToSet(q) \cup {b}
        /\ IsInjective(q) /\ b \notin ToSet(q)
    BY <1>1, <1>2, TailSet DEF Apart
  <1>4. v \in Seq(1 .. MaxReq)
    <2>1. s.buf[b].req >= 1 BY <1>3, <1>1 DEF Order
    <2>2. s.buf[b].req \in 0 .. MaxReq BY <1>1, <1>3 DEF Message
    <2>3. s.buf[b].req \in 1 .. MaxReq BY <2>1, <2>2
    <2> QED BY <1>2, <2>3, AppendProperties
  <1> HIDE DEF b, q, v
  <1>5. t \in Fields
    <2>1. t1 \in Fields BY <1>1, <1>3, SetRxq
    <2>2. t = [t1 EXCEPT !.served = v] OBVIOUS
    <2> HIDE DEF t1, t
    <2> QED BY <1>4, <2>1, <2>2, SetServed
  <1>6. /\ t.running = s.running /\ t.txq = s.txq /\ t.read = s.read
        /\ t.repeat = s.repeat /\ t.store = s.store /\ t.full = s.full
        /\ t.sm1 = s.sm1 /\ t.rcnt = s.rcnt /\ t.sent = s.sent
    BY <1>1 DEF Fields
  <1>7. /\ t.heap = s.heap /\ t.buf = s.buf /\ t.coeStored = s.coeStored
        /\ t.foeStored = s.foeStored /\ t.eoeStored = s.eoeStored
        /\ t.freedTwice = s.freedTwice /\ t.stored = s.stored
        /\ t.eoePending = s.eoePending
    BY <1>1 DEF Fields
  <1>8. t.sm0 = s.sm0 /\ t.wcnt = s.wcnt /\ t.locked = s.locked /\ t.toggle = s.toggle
          /\ t.strays = s.strays
    BY <1>1 DEF Fields
  <1>9. t.rxq = q /\ t.served = v BY <1>1 DEF Fields
  <1> HIDE DEF t
  <1>10. b \in Kept(s) BY <1>3 DEF Kept
  <1>11. b \notin {s.read, s.repeat, s.store} /\ b \notin ToSet(s.txq)
    BY <1>1, <1>3 DEF Apart
  <1>12. Kept(t) = Kept(s) \ {b} BY <1>3, <1>6, <1>9, <1>11 DEF Kept
  <1>13. Apart(t)
    <2>1. ToSet(q) \subseteq ToSet(s.rxq) BY <1>3
    <2> QED BY <1>1, <1>3, <1>6, <1>9, <2>1 DEF Apart
  <1>14. /\ Base(t) = Base(s) /\ Taken(t) = Taken(s) /\ Behind(t) = Behind(s)
         /\ Visible(t) = Visible(s) /\ Waiting(t) = Waiting(s)
    BY <1>6 DEF Base, Taken, Behind, Visible, Waiting
  <1>15. Quiet(t) BY <1>1, <1>6 DEF Quiet
  <1>16. Line(t)
    <2>1. Line(s) BY <1>1
    <2>2. \A i \in 1 .. Len(t.txq) :
             t.buf[t.txq[i]] = t.sent[Len(t.sent) - Len(t.txq) + i]
      <3>1. \A i \in 1 .. Len(s.txq) :
               s.buf[s.txq[i]] = s.sent[Len(s.sent) - Len(s.txq) + i]
        BY <2>1 DEF Line
      <3>2. t.txq = s.txq /\ t.buf = s.buf /\ t.sent = s.sent BY <1>6, <1>7
      <3> QED BY <3>1, <3>2
    <2>3. /\ Base(s) \in Nat
          /\ s.repeat # 0 => Base(s) >= 1 /\ s.buf[s.repeat] = s.sent[Base(s)]
          /\ s.full => s.buf[s.read] = s.sent[Base(s) + 1]
          /\ s.store # 0 => s.buf[s.store] = s.sent[Base(s) + 2]
          /\ s.sm1 # Empty => s.full /\ s.sm1 = s.buf[s.read]
      BY <2>1 DEF Line
    <2> QED BY <1>6, <1>7, <1>14, <2>2, <2>3 DEF Line
  <1>17. Counters(t) BY <1>1, <1>6 DEF Counters, ReadCounter
  <1>18. Core(t) BY <1>1, <1>5, <1>7, <1>12, <1>13, <1>15, <1>16, <1>17 DEF Core
  <1>19. Held2(t) = Held2(s) BY <1>7 DEF Held2
  <1>20. Stores(t) BY <1>1, <1>7, <1>12, <1>19 DEF Stores
  <1>21. Asked(t) BY <1>1, <1>6, <1>7, <1>8, <1>9 DEF Asked
  <1>22. Good(t) BY <1>18, <1>20, <1>21 DEF Good
  <1>23. b \notin Held2(s) BY <1>1, <1>10 DEF Stores
  <1>24. Lost(t) = Lost(s) \cup {b} /\ b \notin Lost(s)
    BY <1>1, <1>7, <1>10, <1>12, <1>19, <1>23 DEF Lost
  <1>25. Len(s.sent) \in Nat BY <1>1, LenProperties DEF Fields
  <1>26. Onward(s, t) BY <1>6, <1>14, <1>25 DEF Onward
  <1> QED BY <1>6, <1>7, <1>8, <1>9, <1>14, <1>22, <1>24, <1>26
        DEF Dequeue, t, q, b, v

\* It was the oldest one.
LEMMA OrderServed ==
    ASSUME NEW s \in Fields, NEW u \in Fields, Order(s), s.rxq # <<>>,
           u.rxq = Tail(s.rxq), u.served = Append(s.served, s.buf[Head(s.rxq)].req),
           \A b \in ToSet(Tail(s.rxq)) : u.buf[b] = s.buf[b],
           u.strays = s.strays \/ u.strays = s.strays + 1
    PROVE  /\ Order(u)
           /\ \A req : Later(s, req) => Later(u, req)
  <1> DEFINE b == Head(s.rxq)
             q == Tail(s.rxq)
             x == s.buf[b].req
             n == Len(s.served)
             l == Len(s.rxq)
  <1>1. /\ s.rxq \in Seq(Buffers) /\ s.served \in Seq(1 .. MaxReq) /\ MaxReq \in Nat
        /\ s.strays \in Nat /\ s.buf \in [Buffers -> Message]
    BY MailboxAssumption DEF Fields
  <1>2. /\ q \in Seq(Buffers) /\ b \in Buffers /\ ToSet(s.rxq) = ToSet(q) \cup {b}
        /\ l \in Nat \ {0} /\ Len(q) = l - 1 /\ b = s.rxq[1]
        /\ \A i \in 1 .. l - 1 : q[i] = s.rxq[i + 1]
    BY <1>1, TailSet
  <1>3. x \in 0 .. MaxReq /\ x >= 1 /\ x \in 1 .. MaxReq
    <2>1. s.buf[b] \in Message BY <1>1, <1>2
    <2>2. x \in 0 .. MaxReq BY <2>1 DEF Message
    <2>3. x >= 1 BY <1>2 DEF Order
    <2> HIDE DEF x
    <2> QED BY <1>1, <2>2, <2>3
  <1>4. /\ u.served \in Seq(1 .. MaxReq) /\ Len(u.served) = n + 1 /\ n \in Nat
        /\ u.served[n + 1] = x /\ \A i \in 1 .. n : u.served[i] = s.served[i]
    BY <1>1, <1>3, AppendProperties, LenProperties
  <1>5. \A i \in 1 .. n : s.served[i] < x BY <1>2 DEF Order
  <1>6. \A i \in 1 .. n + 1 : i \in 1 .. n \/ i = n + 1 BY <1>4
  <1>7. \A c \in ToSet(q) : u.buf[c] = s.buf[c] /\ c \in ToSet(s.rxq) BY <1>2
  <1>20. ToSet(q) = {q[i] : i \in 1 .. l - 1}
    <2> HIDE DEF q, l
    <2>1. ToSet(q) = {q[i] : i \in 1 .. Len(q)} BY <1>2, SetOfSeq
    <2> QED BY <1>2, <2>1
  <1>8. \A c \in ToSet(q) : x < u.buf[c].req
    <2>1. ToSet(q) = {q[i] : i \in 1 .. l - 1} BY <1>20
    <2>2. ASSUME NEW i \in 1 .. l - 1 PROVE x < s.buf[q[i]].req
      <3>1. 1 \in 1 .. l /\ i + 1 \in 1 .. l /\ 1 < i + 1 BY <1>2
      <3>2. s.buf[s.rxq[1]].req < s.buf[s.rxq[i + 1]].req BY <3>1 DEF Order
      <3> QED BY <1>2, <3>2
    <2> HIDE DEF x, q
    <2> QED BY <1>7, <2>1, <2>2
  <1>9. \A c \in ToSet(s.rxq) : s.buf[c].req >= 1
          /\ \A i \in 1 .. n : s.served[i] < s.buf[c].req
    BY DEF Order
  <1>10. \A i, j \in 1 .. n : i < j => s.served[i] < s.served[j] BY DEF Order
  <1>11. s.strays > 0 => \E i \in 1 .. n : s.strays <= s.served[i] BY DEF Order
  <1>12. \A i, j \in 1 .. l : i < j => s.buf[s.rxq[i]].req < s.buf[s.rxq[j]].req
    BY DEF Order
  <1>13. \A i \in 1 .. n : s.served[i] \in 1 .. MaxReq BY <1>1, ElementOfSeq
  <1>14. ASSUME NEW req, Later(s, req) PROVE Later(u, req)
    <2>1. x < req /\ \A i \in 1 .. n : s.served[i] < req BY <1>2, <1>14 DEF Later
    <2>2. \A c \in ToSet(q) : u.buf[c].req < req BY <1>7, <1>14 DEF Later
    <2> HIDE DEF x, n, q
    <2>3. \A i \in 1 .. n + 1 : u.served[i] < req BY <1>4, <1>6, <2>1
    <2>4. \A i \in 1 .. Len(u.served) : u.served[i] < req BY <1>4, <2>3
    <2>5. \A c \in ToSet(u.rxq) : u.buf[c].req < req BY <2>2 DEF q
    <2> QED BY <2>4, <2>5 DEF Later
  <1> HIDE DEF x, n, l
  <1>15. \A c \in ToSet(u.rxq) : /\ u.buf[c].req >= 1
                                 /\ \A i \in 1 .. Len(u.served) : u.served[i] < u.buf[c].req
    <2>1. ASSUME NEW c \in ToSet(q)
          PROVE  u.buf[c].req >= 1 /\ \A i \in 1 .. n + 1 : u.served[i] < u.buf[c].req
      <3>1. u.buf[c].req >= 1 BY <1>7, <1>9
      <3>2. \A i \in 1 .. n : s.served[i] < u.buf[c].req BY <1>7, <1>9
      <3> QED BY <1>4, <1>6, <1>8, <3>1, <3>2
    <2> QED BY <1>4, <2>1
  <1>16. \A i, j \in 1 .. Len(u.rxq) : i < j => u.buf[u.rxq[i]].req < u.buf[u.rxq[j]].req
    <2> SUFFICES ASSUME NEW i \in 1 .. l - 1, NEW j \in 1 .. l - 1, i < j
                 PROVE  u.buf[q[i]].req < u.buf[q[j]].req
      BY <1>2
    <2>1. i + 1 \in 1 .. l /\ j + 1 \in 1 .. l /\ i + 1 < j + 1 BY <1>2
    <2>2. s.buf[s.rxq[i + 1]].req < s.buf[s.rxq[j + 1]].req BY <1>12, <2>1
    <2>3. q[i] \in ToSet(q) /\ q[j] \in ToSet(q)
      <3> HIDE DEF q
      <3> QED BY <1>20
    <2>4. q[i] = s.rxq[i + 1] /\ q[j] = s.rxq[j + 1] BY <1>2
    <2> HIDE DEF q
    <2> QED BY <1>7, <2>2, <2>3, <2>4
  <1>17. \A i, j \in 1 .. Len(u.served) : i < j => u.served[i] < u.served[j]
    <2> SUFFICES ASSUME NEW i \in 1 .. n + 1, NEW j \in 1 .. n + 1, i < j
                 PROVE  u.served[i] < u.served[j]
      BY <1>4
    <2>1. i \in 1 .. n BY <1>4
    <2>2. CASE j \in 1 .. n BY <1>4, <1>10, <2>1, <2>2
    <2>3. CASE j = n + 1 BY <1>4, <1>5, <2>1, <2>3
    <2> QED BY <1>6, <2>2, <2>3
  <1>18. u.strays > 0 => \E i \in 1 .. Len(u.served) : u.strays <= u.served[i]
    <2>1. CASE u.strays = s.strays
      <3>1. ASSUME u.strays > 0 PROVE \E i \in 1 .. n + 1 : u.strays <= u.served[i]
        <4>1. PICK i \in 1 .. n : s.strays <= s.served[i] BY <1>11, <2>1, <3>1
        <4>2. i \in 1 .. n + 1 /\ u.served[i] = s.served[i] BY <1>4
        <4> QED BY <2>1, <4>1, <4>2
      <3> QED BY <1>4, <3>1
    <2>2. CASE u.strays = s.strays + 1
      <3>1. s.strays + 1 <= x
        <4>1. CASE s.strays = 0 BY <1>3, <4>1
        <4>2. CASE s.strays > 0
          <5>1. PICK i \in 1 .. n : s.strays <= s.served[i] BY <1>11, <4>2
          <5>2. s.served[i] < x /\ s.served[i] \in 1 .. MaxReq BY <1>5, <1>13
          <5> QED BY <1>1, <1>3, <5>1, <5>2
        <4> QED BY <1>1, <4>1, <4>2
      <3>2. n + 1 \in 1 .. n + 1 BY <1>4
      <3> QED BY <1>4, <2>2, <3>1, <3>2
    <2> QED BY <2>1, <2>2
  <1>19. Order(u) BY <1>15, <1>16, <1>17, <1>18 DEF Order
  <1> QED BY <1>14, <1>19

\* A step inside the handler, as the others see it.
Inside(s, t) ==
    /\ Good(t) /\ Onward(s, t) /\ Order(t) /\ Count(t)
    /\ \A req : Later(s, req) => Later(t, req)
    /\ t.sm0 = s.sm0 /\ t.wcnt = s.wcnt /\ t.locked = s.locked /\ t.toggle = s.toggle

LEMMA CountsFinite ==
    ASSUME NEW s, Good(s)
    PROVE  IsFiniteSet(Lost(s)) /\ Cardinality(Lost(s)) \in Nat
  <1>1. Lost(s) \in SUBSET Buffers BY GoodFacts DEF Lost
  <1> QED BY <1>1, MailboxAssumption, FS_Subset, FS_CardinalityType

LEMMA ServeOne ==
    ASSUME NEW s, Good(s), s.rxq # <<>>, Order(s), Count(s),
           Len(s.rxq) + Waiting(s) <= 2, NEW ok, NEW t,
           t = MailboxServiceInd(Dequeue(s), Head(s.rxq), ok)
    PROVE  Inside(s, t) /\ t.rxq = Tail(s.rxq) /\ Waiting(t) <= Waiting(s) + 1
  <1> DEFINE b == Head(s.rxq)
             q == Tail(s.rxq)
             a == Dequeue(s)
  <1>1. s \in Fields /\ s.running /\ Waiting(s) \in Nat /\ Len(s.txq) \in Nat
    BY GoodFacts, NothingWaits
  <1>2. /\ Good(a) /\ b \in Lost(a) /\ Lost(a) = Lost(s) \cup {b} /\ b \notin Lost(s)
        /\ Onward(s, a) /\ Waiting(a) = Waiting(s) /\ a.full = s.full
        /\ a.txq = s.txq /\ a.rxq = q /\ a.buf = s.buf
        /\ a.served = Append(s.served, s.buf[b].req)
        /\ a.sm0 = s.sm0 /\ a.wcnt = s.wcnt /\ a.locked = s.locked
        /\ a.toggle = s.toggle /\ a.strays = s.strays
    BY Dequeued
  <1>0. t = MailboxServiceInd(a, b, ok) OBVIOUS
  <1> HIDE DEF a
  <1>3. a \in Fields /\ a.running BY <1>1, <1>2, GoodFacts DEF Onward
  <1>4. SendOk(a)
    <2>1. CASE ~s.full BY <1>2, <1>3, <2>1 DEF SendOk, CanCopy
    <2>2. CASE s.full
      <3>1. Len(s.rxq) \in Nat \ {0}
        <4>1. s.rxq \in Seq(Buffers) BY <1>1 DEF Fields
        <4> QED BY <4>1, TailSet
      <3>2. Waiting(s) = Len(s.txq) + 1 BY <2>2 DEF Waiting
      <3>3. Len(s.txq) = 0
        <4> DEFINE l == Len(s.rxq)
                   n == Len(s.txq)
                   w == Waiting(s)
        <4>1. l \in Nat \ {0} /\ n \in Nat /\ l + w <= 2 /\ w = n + 1 BY <1>1, <3>1, <3>2
        <4> HIDE DEF l, n, w
        <4>2. n = 0 BY <4>1
        <4> QED BY <4>2 DEF n
      <3>4. HasRoom(a.txq) BY <1>2, <3>3, MailboxAssumption DEF HasRoom
      <3> QED BY <1>3, <3>4 DEF SendOk
    <2> QED BY <2>1, <2>2
  <1>5. IF a.buf[b].kind = "eoeStray"
        THEN /\ Still(a, t) /\ Lost(t) = Lost(a)
             /\ t.sm0 = a.sm0 /\ t.wcnt = a.wcnt /\ t.locked = a.locked
             /\ t.toggle = a.toggle /\ t.served = a.served
             /\ t.strays = a.strays + 1
        ELSE Serves(a, t, b)
    BY <1>0, <1>2, <1>3, <1>4, ServiceServes
  <1>6. /\ Good(t) /\ Follows(a, t)
        /\ t.sm0 = s.sm0 /\ t.wcnt = s.wcnt /\ t.locked = s.locked /\ t.toggle = s.toggle
        /\ t.served = a.served /\ Waiting(t) <= Waiting(s) + 1
        /\ \/ t.strays = s.strays /\ Lost(t) = Lost(s)
           \/ t.strays = s.strays + 1 /\ Lost(t) = Lost(s) \cup {b}
    <2>1. CASE a.buf[b].kind = "eoeStray"
      BY <1>1, <1>2, <1>5, <2>1 DEF Still
    <2>2. CASE a.buf[b].kind # "eoeStray"
      <3>1. Step(a, t) /\ Lost(t) = Lost(a) \ {b} BY <1>5, <2>2 DEF Serves
      <3>2. Lost(t) = Lost(s) BY <1>2, <3>1
      <3> QED BY <1>2, <3>1, <3>2 DEF Step, Requests
    <2> QED BY <2>1, <2>2
  <1>7. t \in Fields BY <1>6, GoodFacts
  <1>8. Onward(s, t) /\ t.rxq = q /\ \A c \in ToSet(q) : t.buf[c] = s.buf[c]
    <2>1. Onward(a, t) BY <1>6, FollowsOnward
    <2>2. Onward(s, t) BY <1>1, <1>2, <1>3, <1>7, <2>1, OnwardTrans
    <2> QED BY <1>2, <1>6, <2>2 DEF Follows
  <1>9. Order(t) /\ \A req : Later(s, req) => Later(t, req)
    <2>1. t.served = Append(s.served, s.buf[Head(s.rxq)].req) BY <1>2, <1>6
    <2>2. t.strays = s.strays \/ t.strays = s.strays + 1 BY <1>6
    <2> HIDE DEF b
    <2> QED BY <1>1, <1>7, <1>8, <2>1, <2>2, OrderServed
  <1>10. Count(t)
    <2>1. CASE t.strays = s.strays /\ Lost(t) = Lost(s) BY <2>1 DEF Count
    <2>2. CASE t.strays = s.strays + 1 /\ Lost(t) = Lost(s) \cup {b}
      BY <1>2, <2>2, CountsFinite, FS_AddElement DEF Count
    <2> QED BY <1>6, <2>1, <2>2
  <1> QED BY <1>6, <1>8, <1>9, <1>10 DEF Inside

\* A step inside the handler leaves the agreement with the others intact.
LEMMA AgreedInside ==
    ASSUME NEW s, Good(s), NEW t, Inside(s, t), NEW r, NEW m, m.got \in Seq(Message),
           Requested(s, r, m), Place(s, r, m)
    PROVE  Requested(t, r, m) /\ Place(t, r, m) /\ t \in Fields /\ t \in Handler
  <1>1. s \in Fields /\ t \in Fields BY GoodFacts DEF Inside
  <1>2. Requested(t, r, m) BY RequestedKept DEF Inside, Onward
  <1>3. Place(t, r, m) BY <1>1, PlaceOnward DEF Inside
  <1>4. t \in Handler BY <1>1, StraysBounded DEF Inside
  <1> QED BY <1>1, <1>2, <1>3, <1>4

-----------------------------------------------------------------------------
(* The steps of the main loop.                                             *)

LEMMA InvFacts ==
    ASSUME Inv
    PROVE  /\ mbx \in Fields /\ Good(mbx) /\ Order(mbx) /\ Count(mbx)
           /\ Room(mbx, loop.pc) /\ Requested(mbx, regs, master)
           /\ Signals(mbx, regs, loop, master) /\ Place(mbx, regs, master)
           /\ regs \in [repeat : BOOLEAN, ack : BOOLEAN, written : BOOLEAN,
                        al : {"none", "init", "preop"}]
           /\ loop \in [pc : {"Serve", "Activate", "Status", "AlControl",
                              "Read", "Repeat", "Write"},
                        repeat : BOOLEAN, status : BOOLEAN]
           /\ master.got \in Seq(Message) /\ master.n \in Nat
           /\ master.n \in 0 .. MaxReq /\ master.last \in Message
  BY GoodFacts, MailboxAssumption DEF Inv, TypeOK

LEMMA Serve ==
    ASSUME Inv, MBX_Main_Serve
    PROVE  Inv'
  <1>1. /\ mbx \in Fields /\ Good(mbx) /\ Order(mbx) /\ Count(mbx)
        /\ Room(mbx, loop.pc) /\ Requested(mbx, regs, master)
        /\ Signals(mbx, regs, loop, master) /\ Place(mbx, regs, master)
        /\ master.got \in Seq(Message)
    BY InvFacts
  <1>2. /\ loop.pc = "Serve" /\ mbx.rxq # <<>>
        /\ regs' = regs /\ loop' = loop /\ master' = master
    BY DEF MBX_Main_Serve
  <1>3. Len(mbx.rxq) + Waiting(mbx) <= 2 BY <1>1, <1>2 DEF Room
  <1>4. /\ Inside(mbx, mbx') /\ mbx'.rxq = Tail(mbx.rxq)
        /\ Waiting(mbx') <= Waiting(mbx) + 1
    <2>1. PICK ok \in Allocations :
             mbx' = MailboxServiceInd(Dequeue(mbx), Head(mbx.rxq), ok)
      BY DEF MBX_Main_Serve, Dequeue
    <2> QED BY <1>1, <1>2, <1>3, <2>1, ServeOne
  <1>5. /\ Requested(mbx', regs, master) /\ Place(mbx', regs, master)
        /\ mbx' \in Fields /\ mbx' \in Handler
    BY <1>1, <1>4, AgreedInside
  <1>6. Room(mbx', loop.pc)
    <2>1. /\ Len(mbx.rxq) \in Nat \ {0} /\ Len(mbx'.rxq) = Len(mbx.rxq) - 1
      <3>1. mbx.rxq \in Seq(Buffers) BY <1>1 DEF Fields
      <3> QED BY <1>2, <1>4, <3>1, TailSet
    <2>2. Waiting(mbx) \in Nat /\ Waiting(mbx') \in Nat
      BY <1>1, <1>4, GoodFacts DEF Inside
    <2>3. Len(mbx'.rxq) + Waiting(mbx') <= 2 BY <1>3, <1>4, <2>1, <2>2
    <2> QED BY <1>2, <2>3 DEF Room
  <1>7. Signals(mbx', regs, loop, master)
    BY <1>1, <1>2, <1>4 DEF Signals, Inside, Onward, Repeating
  <1>8. TypeOK' BY <1>2, <1>5 DEF Inv, TypeOK
  <1> QED BY <1>2, <1>4, <1>5, <1>6, <1>7, <1>8 DEF Inv, Inside

\* A new request is put behind those that wait.
LEMMA EnteredOrder ==
    ASSUME NEW s \in Fields, NEW u, Order(s), Later(s, s.sm0.req), s.sm0.req \in Nat,
           s.sm0.req >= 1,
           u.served = s.served, u.strays = s.strays,
           \A c \in ToSet(s.rxq) : u.buf[c] = s.buf[c],
           NEW b \in Buffers, u.rxq = Append(s.rxq, b), u.buf[b] = s.sm0
    PROVE  /\ Order(u)
           /\ \A req : Later(s, req) /\ s.sm0.req < req => Later(u, req)
  <1> DEFINE n == Len(s.rxq)
             x == s.sm0.req
             q == s.rxq
             p == Append(q, b)
  <1>1. q \in Seq(Buffers) BY DEF Fields
  <1>2. /\ Len(p) = n + 1 /\ n \in Nat /\ ToSet(p) = ToSet(q) \cup {b}
        /\ p[n + 1] = b /\ \A i \in 1 .. n : p[i] = q[i]
    BY <1>1, AppendSet, AppendProperties, LenProperties
  <1>3. \A i \in 1 .. n : q[i] \in ToSet(q) BY <1>1, SetOfSeq
  <1>4. \A i \in 1 .. Len(s.served) : s.served[i] < x BY DEF Later
  <1>5. \A c \in ToSet(q) : s.buf[c].req < x BY DEF Later
  <1>6. \A c \in ToSet(q) : /\ s.buf[c].req >= 1
                            /\ \A i \in 1 .. Len(s.served) : s.served[i] < s.buf[c].req
    BY DEF Order
  <1>7. \A i, j \in 1 .. n : i < j => s.buf[q[i]].req < s.buf[q[j]].req BY DEF Order
  <1>8. u.rxq = p /\ u.buf[b].req = x /\ x \in Nat /\ x >= 1 OBVIOUS
  <1>9. \A c \in ToSet(q) : u.buf[c] = s.buf[c] OBVIOUS
  <1> HIDE DEF p, q, n, x
  <1>10. \A c \in ToSet(p) : /\ u.buf[c].req >= 1
                             /\ \A i \in 1 .. Len(s.served) : s.served[i] < u.buf[c].req
    <2> SUFFICES ASSUME NEW c \in ToSet(p)
                 PROVE  /\ u.buf[c].req >= 1
                        /\ \A i \in 1 .. Len(s.served) : s.served[i] < u.buf[c].req
      OBVIOUS
    <2>1. CASE c = b BY <1>4, <1>8, <2>1
    <2>2. CASE c \in ToSet(q) BY <1>6, <1>9, <2>2
    <2> QED BY <1>2, <2>1, <2>2
  <1>11. \A i, j \in 1 .. n + 1 : i < j => u.buf[p[i]].req < u.buf[p[j]].req
    <2> SUFFICES ASSUME NEW i \in 1 .. n + 1, NEW j \in 1 .. n + 1, i < j
                 PROVE  u.buf[p[i]].req < u.buf[p[j]].req
      OBVIOUS
    <2>1. i \in 1 .. n /\ p[i] = q[i] /\ u.buf[q[i]] = s.buf[q[i]]
      BY <1>2, <1>3, <1>9
    <2>2. CASE j = n + 1
      <3>1. s.buf[q[i]].req < x BY <1>3, <1>5, <2>1
      <3> QED BY <1>2, <1>8, <2>1, <2>2, <3>1
    <2>3. CASE j \in 1 .. n
      <3>1. p[j] = q[j] /\ u.buf[q[j]] = s.buf[q[j]] BY <1>2, <1>3, <1>9, <2>3
      <3> QED BY <1>7, <2>1, <2>3, <3>1
    <2> QED BY <1>2, <2>2, <2>3
  <1>12. Order(u)
    <2>1. /\ \A i, j \in 1 .. Len(s.served) : i < j => s.served[i] < s.served[j]
          /\ s.strays > 0 => \E i \in 1 .. Len(s.served) : s.strays <= s.served[i]
      BY DEF Order
    <2> QED BY <1>2, <1>8, <1>10, <1>11, <2>1 DEF Order
  <1>13. ASSUME NEW req, Later(s, req), x < req PROVE Later(u, req)
    <2>1. /\ \A i \in 1 .. Len(s.served) : s.served[i] < req
          /\ \A c \in ToSet(q) : s.buf[c].req < req
      BY <1>13 DEF Later, q
    <2>2. \A c \in ToSet(p) : u.buf[c].req < req
      <3> SUFFICES ASSUME NEW c \in ToSet(p) PROVE u.buf[c].req < req OBVIOUS
      <3>1. CASE c = b BY <1>8, <1>13, <3>1
      <3>2. CASE c \in ToSet(q) BY <1>9, <2>1, <3>2
      <3> QED BY <1>2, <3>1, <3>2
    <2> QED BY <1>8, <2>1, <2>2 DEF Later
  <1> QED BY <1>12, <1>13 DEF x

\* The receive mailbox is looked at because of a request, or once more because
\* it was left there.
LEMMA CopiedAgreed ==
    ASSUME NEW s, Good(s), NEW u, Copied(s, u), Order(s), Count(s), s.sm0 # Empty,
           NEW r, NEW q, NEW m, Requested(s, r, m), q.al = r.al, ~q.written,
           m.n \in Nat
    PROVE  Order(u) /\ Count(u) /\ Requested(u, q, m) /\ u \in Handler
  <1>1. s \in Fields /\ u \in Fields BY GoodFacts DEF Copied
  <1>2. /\ s.sm0.req \in 1 .. m.n /\ (Later(s, s.sm0.req) \/ Known(s, s.sm0))
        /\ Later(s, m.n + 1)
        /\ m.unsure => m.up /\ m.last.req \in 1 .. m.n /\ s.sm0 = m.last
        /\ m.up => s.running /\ r.al = "none"
    BY DEF Requested
  <1>3. Count(u) BY DEF Copied, Count
  <1>4. u.running = s.running BY DEF Copied, Onward
  <1>5. ASSUME u.rxq = s.rxq
        PROVE  Order(u) /\ \A req : Later(s, req) => Later(u, req)
    <2>1. SameRequests(s, u) BY <1>5 DEF Copied, SameRequests
    <2> QED BY <1>1, <2>1, OrderKept
  <1>6. CASE StaysIn(s, u)
    <2>1. u.sm0 = s.sm0 /\ u.rxq = s.rxq /\ u.wcnt = s.wcnt BY <1>6 DEF StaysIn
    <2>2. Order(u) /\ \A req : Later(s, req) => Later(u, req) BY <1>5, <2>1
    <2>3. Later(u, m.n + 1) /\ (Later(u, u.sm0.req) \/ Known(u, u.sm0))
      BY <1>2, <2>1, <2>2 DEF Known
    <2>4. Requested(u, q, m) BY <1>2, <1>4, <2>1, <2>3 DEF Requested
    <2> QED BY <1>1, <1>3, <2>2, <2>4, StraysBounded
  <1>7. CASE u.sm0 = Empty /\ ~u.locked /\ u.rxq = s.rxq /\ Known(u, s.sm0)
    <2>1. Order(u) /\ \A req : Later(s, req) => Later(u, req) BY <1>5, <1>7
    <2>2. Later(u, m.n + 1) BY <1>2, <2>1
    <2>3. Requested(u, q, m) BY <1>2, <1>4, <1>7, <2>2 DEF Requested
    <2> QED BY <1>1, <1>3, <2>1, <2>3, StraysBounded
  <1>8. CASE u.sm0 = Empty /\ ~u.locked /\ Entered(s, u)
    <2>1. Later(s, s.sm0.req) BY <1>2, <1>8 DEF Entered, Known
    <2>2. PICK b \in Buffers : u.rxq = Append(s.rxq, b) /\ u.buf[b] = s.sm0
      BY <1>8 DEF Entered
    <2>3. s.sm0.req \in Nat /\ s.sm0.req >= 1 /\ s.sm0.req < m.n + 1 BY <1>2
    <2>4. Order(u) /\ \A req : Later(s, req) /\ s.sm0.req < req => Later(u, req)
      BY <1>1, <2>1, <2>2, <2>3, EnteredOrder DEF Copied
    <2>5. Later(u, m.n + 1) BY <1>2, <2>3, <2>4
    <2>6. Known(u, s.sm0) BY <1>8 DEF Entered, Known
    <2>7. Requested(u, q, m) BY <1>2, <1>4, <1>8, <2>5, <2>6 DEF Requested
    <2> QED BY <1>1, <1>3, <2>4, <2>7, StraysBounded
  <1>9. Dropped(s, u) => u.rxq = s.rxq /\ Known(u, s.sm0) BY DEF Dropped, Known
  <1>10. Refused(s, u) => u.rxq = s.rxq /\ Known(u, s.sm0) BY DEF Refused, Known
  <1> QED BY <1>6, <1>7, <1>8, <1>9, <1>10 DEF Copied

\* A request is taken into a queue with room for its response.
LEMMA CopiedRoom ==
    ASSUME NEW s, Good(s), NEW u, Copied(s, u),
           s.rxq # <<>> => Len(s.rxq) = 1 /\ Len(s.rxq) + Waiting(s) <= 2
    PROVE  /\ u.rxq # <<>> => Len(u.rxq) + Waiting(u) <= 2
           /\ u.rxq # <<>> /\ s.rxq = <<>> => Len(u.rxq) = 1 /\ ~u.full /\ u.stored = {}
  <1>1. /\ Good(u) /\ s.rxq \in Seq(Buffers) /\ Waiting(s) \in Nat /\ Waiting(u) \in Nat
        /\ Len(s.rxq) \in Nat
    BY GoodFacts, NothingWaits DEF Copied, Fields
  <1>2. /\ Waiting(s) = 0 <=> ~s.full
        /\ Waiting(u) = 0 <=> ~u.full
        /\ s.rxq = <<>> <=> Len(s.rxq) = 0
    BY <1>1, NothingWaits
  <1>3. CASE StaysIn(s, u) BY <1>3 DEF StaysIn
  <1>4. CASE ~s.full /\ u.rxq = s.rxq /\ Waiting(u) <= Waiting(s) + 1
    <2> DEFINE l == Len(s.rxq)
               w == Waiting(u)
    <2>1. w \in Nat /\ l \in Nat /\ w <= 1 BY <1>1, <1>2, <1>4
    <2>2. s.rxq # <<>> => l = 1 OBVIOUS
    <2> HIDE DEF l, w
    <2>3. s.rxq # <<>> => l + w <= 2 BY <2>1, <2>2
    <2> QED BY <1>4, <2>3 DEF l, w
  <1>5. CASE ~s.full /\ Entered(s, u)
    <2>1. PICK b \in Buffers : u.rxq = Append(s.rxq, b) BY <1>5 DEF Entered
    <2>2. Len(u.rxq) = Len(s.rxq) + 1 BY <1>1, <2>1, AppendSet
    <2>3. Waiting(u) = 0 /\ ~u.full /\ u.stored = {} BY <1>1, <1>2, <1>5 DEF Entered
    <2>4. s.rxq = <<>> => Len(s.rxq) = 0 BY <1>2
    <2> DEFINE l == Len(s.rxq)
    <2>5. l = 0 \/ l = 1 BY <2>4
    <2> HIDE DEF l
    <2>6. l + 1 + 0 <= 2 BY <2>5
    <2>7. Len(u.rxq) + Waiting(u) <= 2 BY <2>2, <2>3, <2>6 DEF l
    <2> QED BY <2>2, <2>3, <2>4, <2>7
  <1>6. Dropped(s, u) => u.rxq = s.rxq /\ Waiting(u) <= Waiting(s) + 1 BY DEF Dropped
  <1>7. Refused(s, u) => u.rxq = s.rxq /\ Waiting(u) <= Waiting(s) + 1 BY DEF Refused
  <1> QED BY <1>3, <1>4, <1>5, <1>6, <1>7 DEF Copied

LEMMA OnwardSame ==
    ASSUME NEW s \in Fields
    PROVE  Onward(s, s)
  <1>1. Len(s.sent) \in Nat BY LenProperties DEF Fields
  <1> QED BY <1>1 DEF Onward

LEMMA CallsInside ==
    ASSUME NEW s, Good(s), Order(s), Count(s), NEW t, Calls(s, t)
    PROVE  Inside(s, t) /\ t.rxq = s.rxq /\ Waiting(t) <= Waiting(s) + 1
  <1>1. s \in Fields /\ Follows(s, t) /\ Requests(t) = Requests(s) /\ Good(t)
        /\ Lost(t) = Lost(s) /\ Waiting(t) <= Waiting(s) + 1
    BY GoodFacts DEF Calls, Step
  <1>2. /\ t.sm0 = s.sm0 /\ t.wcnt = s.wcnt /\ t.locked = s.locked /\ t.toggle = s.toggle
        /\ t.served = s.served /\ t.strays = s.strays
    BY <1>1 DEF Requests
  <1>3. SameRequests(s, t) BY <1>1, <1>2 DEF SameRequests, Follows
  <1>4. Order(t) /\ \A req : Later(s, req) => Later(t, req) BY <1>1, <1>3, OrderKept
  <1>5. Count(t) BY <1>1, <1>2 DEF Count
  <1>6. Onward(s, t) BY <1>1, FollowsOnward
  <1> QED BY <1>1, <1>2, <1>4, <1>5, <1>6 DEF Inside, Follows

LEMMA ContinuePending ==
    ASSUME NEW s, Good(s), "eoe" \in s.stored, NEW ok, NEW t,
           t = EOE_ContinueInd([s EXCEPT !.stored = @ \ {"eoe"}], ok)
    PROVE  Calls(s, t)
  <1> DEFINE v == [s EXCEPT !.stored = s.stored \ {"eoe"}]
  <1>1. s \in Fields /\ s.running /\ "eoe" \in Kinds /\ "foe" \notin s.stored
    BY GoodFacts DEF Good, Asked
  <1>2. v \in Fields
    <2>1. s.stored \ {"eoe"} \in SUBSET Service BY <1>1 DEF Fields
    <2> QED BY <1>1, <2>1, SetStored
  <1>3. v.stored = s.stored \ {"eoe"} BY <1>1 DEF Fields
  <1>4. Others(v) = Others(s) /\ v.running
    BY <1>1 DEF Others, Inner, Requests, Fields
  <1>5. t = EOE_ContinueInd(v, ok) OBVIOUS
  <1> HIDE DEF v
  <1>6. Still(s, v) /\ Lost(v) = Lost(s) /\ Requests(v) = Requests(s)
    BY <1>1, <1>2, <1>3, <1>4, EoeFlags
  <1>7. Calls(v, t) BY <1>1, <1>4, <1>5, <1>6, EOE_ContinueCalls DEF Still
  <1>8. Step(s, t) BY <1>1, <1>6, <1>7, StillThenStep DEF Calls
  <1> QED BY <1>6, <1>7, <1>8 DEF Calls

LEMMA TailStep ==
    ASSUME Inv, MBX_Main_Tail
    PROVE  Inv'
  <1>1. /\ mbx \in Fields /\ Good(mbx) /\ Order(mbx) /\ Count(mbx)
        /\ Room(mbx, loop.pc) /\ Requested(mbx, regs, master)
        /\ Signals(mbx, regs, loop, master) /\ Place(mbx, regs, master)
        /\ loop \in [pc : {"Serve", "Activate", "Status", "AlControl",
                           "Read", "Repeat", "Write"},
                     repeat : BOOLEAN, status : BOOLEAN]
        /\ master.got \in Seq(Message) /\ master.n \in Nat
    BY InvFacts
  <1>2. /\ loop.pc = "Serve" /\ mbx.rxq = <<>>
        /\ regs' = regs /\ master' = master
        /\ loop' = [loop EXCEPT !.pc = IF mbx.running THEN "Activate" ELSE "AlControl"]
    BY DEF MBX_Main_Tail, Goto
  <1>3. PICK ok \in Allocations :
           LET s == IF mbx.locked THEN MBX_CheckAndCopyMailbox(mbx, ok) ELSE mbx
           IN  mbx' = IF "eoe" \in s.stored
                      THEN EOE_ContinueInd([s EXCEPT !.stored = @ \ {"eoe"}], ok)
                      ELSE s
    BY DEF MBX_Main_Tail
  <1> DEFINE u == IF mbx.locked THEN MBX_CheckAndCopyMailbox(mbx, ok) ELSE mbx
  <1>4. /\ Good(u) /\ Onward(mbx, u) /\ Order(u) /\ Count(u)
        /\ Requested(u, regs, master) /\ u.toggle = mbx.toggle
        /\ u.rxq # <<>> => /\ Len(u.rxq) + Waiting(u) <= 2 /\ Len(u.rxq) = 1
                           /\ ~u.full /\ u.stored = {}
    <2>1. CASE mbx.locked
      <3>1. mbx.running BY <1>1, <2>1 DEF Good, Asked
      <3>2. Copied(mbx, u) BY <1>1, <2>1, <3>1, CheckAndCopy
      <3> HIDE DEF u
      <3>3. mbx.sm0 # Empty /\ ~regs.written BY <1>1, <2>1 DEF Requested
      <3>4. Order(u) /\ Count(u) /\ Requested(u, regs, master)
        BY <1>1, <3>2, <3>3, CopiedAgreed
      <3>5. /\ u.rxq # <<>> => Len(u.rxq) + Waiting(u) <= 2
            /\ u.rxq # <<>> => Len(u.rxq) = 1 /\ ~u.full /\ u.stored = {}
        BY <1>1, <1>2, <3>2, CopiedRoom
      <3> QED BY <3>2, <3>4, <3>5 DEF Copied
    <2>2. CASE ~mbx.locked
      <3>1. u = mbx BY <2>2
      <3> QED BY <1>1, <1>2, <3>1, OnwardSame
    <2> QED BY <2>1, <2>2
  <1>5. mbx' = IF "eoe" \in u.stored
               THEN EOE_ContinueInd([u EXCEPT !.stored = @ \ {"eoe"}], ok) ELSE u
    BY <1>3
  <1> HIDE DEF u
  <1>6. u \in Fields /\ Place(u, regs, master)
    <2>1. u \in Fields BY <1>4, GoodFacts
    <2> QED BY <1>1, <1>4, <2>1, PlaceOnward
  <1>7. /\ Good(mbx') /\ Onward(u, mbx') /\ Order(mbx') /\ Count(mbx')
        /\ Requested(mbx', regs, master) /\ Place(mbx', regs, master)
        /\ mbx' \in Handler /\ mbx'.toggle = u.toggle
        /\ mbx'.rxq # <<>> => /\ Len(mbx'.rxq) + Waiting(mbx') <= 2
                              /\ Len(mbx'.rxq) = 1 /\ ~mbx'.full
    <2>1. CASE "eoe" \in u.stored
      <3>1. mbx' = EOE_ContinueInd([u EXCEPT !.stored = @ \ {"eoe"}], ok) BY <1>5, <2>1
      <3>2. Calls(u, mbx') BY <1>4, <2>1, <3>1, ContinuePending
      <3>3. Inside(u, mbx') /\ mbx'.rxq = u.rxq BY <1>4, <3>2, CallsInside
      <3>4. u.rxq = <<>> BY <1>4, <2>1
      <3>5. Requested(mbx', regs, master) /\ Place(mbx', regs, master) /\ mbx' \in Handler
        BY <1>1, <1>4, <1>6, <3>3, AgreedInside
      <3> QED BY <3>3, <3>4, <3>5 DEF Inside
    <2>2. CASE "eoe" \notin u.stored
      <3>1. mbx' = u BY <1>5, <2>2
      <3>2. Onward(u, u) /\ u \in Handler BY <1>4, <1>6, OnwardSame, StraysBounded
      <3> QED BY <1>4, <1>6, <3>1, <3>2
    <2> QED BY <2>1, <2>2
  <1>8. mbx'.running = mbx.running /\ mbx'.toggle = mbx.toggle
    BY <1>4, <1>7 DEF Onward
  <1>9. /\ mbx.running => loop'.pc = "Activate"
        /\ ~mbx.running => loop'.pc = "AlControl"
        /\ loop'.repeat = loop.repeat /\ loop'.status = loop.status
    BY <1>1, <1>2
  <1>10. Room(mbx', loop'.pc) BY <1>7, <1>8, <1>9 DEF Room
  <1>11. Signals(mbx', regs, loop', master)
    BY <1>1, <1>8, <1>9 DEF Signals, Repeating, Linked
  <1>12. TypeOK'
    <2>1. loop' \in [pc : {"Serve", "Activate", "Status", "AlControl",
                           "Read", "Repeat", "Write"},
                     repeat : BOOLEAN, status : BOOLEAN]
      BY <1>1, <1>2
    <2> QED BY <1>2, <1>7, <2>1 DEF Inv, TypeOK
  <1> QED BY <1>2, <1>7, <1>10, <1>11, <1>12 DEF Inv

LoopType == [pc : {"Serve", "Activate", "Status", "AlControl", "Read", "Repeat", "Write"},
             repeat : BOOLEAN, status : BOOLEAN]
RegsType == [repeat : BOOLEAN, ack : BOOLEAN, written : BOOLEAN,
             al : {"none", "init", "preop"}]

LEMMA ReadActivateStep ==
    ASSUME Inv, ReadActivate
    PROVE  Inv'
  <1>1. /\ Room(mbx, loop.pc) /\ Signals(mbx, regs, loop, master)
        /\ loop \in LoopType /\ regs \in RegsType
    BY InvFacts DEF LoopType, RegsType
  <1>2. /\ loop.pc = "Activate" /\ mbx' = mbx /\ regs' = regs /\ master' = master
        /\ loop' = [loop EXCEPT !.pc = "Status", !.repeat = regs.repeat]
    BY DEF ReadActivate
  <1>3. /\ loop' \in LoopType /\ loop'.pc = "Status" /\ loop'.repeat = regs.repeat
    BY <1>1, <1>2 DEF LoopType, RegsType
  <1>4. Room(mbx, "Status") BY <1>1, <1>2 DEF Room
  <1>5. Signals(mbx, regs, loop', master) BY <1>1, <1>3 DEF Signals, Repeating
  <1>6. TypeOK' BY <1>2, <1>3 DEF Inv, TypeOK, LoopType
  <1> QED BY <1>2, <1>3, <1>4, <1>5, <1>6 DEF Inv

LEMMA ReadStatusStep ==
    ASSUME Inv, ReadStatus
    PROVE  Inv'
  <1>1. /\ Room(mbx, loop.pc) /\ Signals(mbx, regs, loop, master)
        /\ loop \in LoopType
    BY InvFacts DEF LoopType
  <1> DEFINE e == mbx.sm1 # Empty
  <1>2. /\ loop.pc = "Status" /\ mbx' = mbx /\ regs' = regs /\ master' = master
        /\ loop' = [loop EXCEPT !.pc = "AlControl", !.status = e]
    BY DEF ReadStatus
  <1>3. e \in BOOLEAN OBVIOUS
  <1> HIDE DEF e
  <1>4. /\ loop' \in LoopType /\ loop'.pc = "AlControl" /\ loop'.repeat = loop.repeat
        /\ loop'.status = e
    BY <1>1, <1>2, <1>3 DEF LoopType
  <1>5. Room(mbx, "AlControl") BY <1>1, <1>2 DEF Room
  <1>6. Repeating(mbx, loop') => Repeating(mbx, loop) BY <1>2, <1>4 DEF Repeating
  <1>7. Signals(mbx, regs, loop', master)
    <2>1. ~loop'.status => mbx.sm1 = Empty BY <1>4 DEF e
    <2>2. loop'.status => mbx.sm1 # Empty BY <1>4 DEF e
    <2> QED BY <1>1, <1>4, <1>6, <2>1, <2>2 DEF Signals
  <1>8. TypeOK' BY <1>2, <1>4 DEF Inv, TypeOK, LoopType
  <1> QED BY <1>2, <1>4, <1>5, <1>7, <1>8 DEF Inv

LEMMA AlControlStep ==
    ASSUME Inv, AlControl
    PROVE  Inv'
  <1>1. /\ mbx \in Fields /\ Good(mbx) /\ Order(mbx) /\ Count(mbx)
        /\ Room(mbx, loop.pc) /\ Requested(mbx, regs, master)
        /\ Signals(mbx, regs, loop, master) /\ Place(mbx, regs, master)
        /\ regs \in RegsType /\ loop \in LoopType
    BY InvFacts DEF RegsType, LoopType
  <1>2. /\ loop.pc = "AlControl" /\ master' = master
        /\ mbx' = IF regs.al = "init" THEN MBX_StopMailboxHandler(mbx)
                  ELSE IF regs.al = "preop" THEN MBX_StartMailboxHandler(mbx)
                  ELSE mbx
        /\ regs' = [regs EXCEPT !.al  = "none",
                                !.ack = @ /\ regs.al # "init",
                                !.written = @ /\ regs.al # "init"]
        /\ loop' = [loop EXCEPT
                     !.pc = IF mbx'.running THEN "Read" ELSE "Serve",
                     !.repeat = @ /\ mbx.running, !.status = @ /\ mbx.running]
    BY DEF AlControl
  <1>3. /\ regs' \in RegsType /\ regs'.al = "none" /\ regs'.repeat = regs.repeat
        /\ regs'.ack <=> regs.ack /\ regs.al # "init"
        /\ regs'.written <=> regs.written /\ regs.al # "init"
    BY <1>1, <1>2 DEF RegsType
  <1>4. /\ loop' \in LoopType
        /\ loop'.pc = IF mbx'.running THEN "Read" ELSE "Serve"
        /\ loop'.repeat <=> loop.repeat /\ mbx.running
        /\ loop'.status <=> loop.status /\ mbx.running
    BY <1>1, <1>2 DEF LoopType
  <1>5. regs.al # "none" => ~master.up /\ ~master.unsure /\ ~master.lost
    BY <1>1 DEF Requested, Signals
  <1>6. regs'.al = "none" => Len(<<>>) = 0 OBVIOUS
  <1>7. CASE regs.al = "init"
    <2>1. Stops(mbx, mbx') BY <1>1, <1>2, <1>7, StopMailboxHandler
    <2>2. /\ Good(mbx') /\ Lost(mbx') = Lost(mbx) /\ ~mbx'.running /\ mbx'.rxq = <<>>
          /\ ~mbx'.locked /\ ~mbx'.toggle /\ mbx'.sm0 = Empty
          /\ mbx'.served = mbx.served /\ mbx'.strays = mbx.strays
      BY <2>1 DEF Stops
    <2>3. ToSet(<<>>) = {} BY DEF ToSet
    <2>4. Order(mbx') /\ Count(mbx') BY <1>1, <2>2, <2>3 DEF Order, Count
    <2>5. Later(mbx', master.n + 1) BY <1>1, <2>2, <2>3 DEF Requested, Later
    <2>6. Requested(mbx', regs', master)
      BY <1>3, <1>5, <1>7, <2>2, <2>5 DEF Requested
    <2>7. Room(mbx', loop'.pc) BY <1>4, <2>2 DEF Room
    <2>8. regs'.ack = mbx'.toggle
      <3>1. mbx' \in Fields BY <2>2, GoodFacts
      <3>2. mbx'.toggle \in BOOLEAN /\ regs'.ack \in BOOLEAN
        BY <1>3, <3>1 DEF Fields, RegsType
      <3> QED BY <1>3, <1>7, <2>2, <3>2
    <2>9. Signals(mbx', regs', loop', master)
      BY <1>3, <1>5, <1>7, <2>2, <2>8 DEF Signals, Linked
    <2>10. Place(mbx', regs', master) BY <1>1, <2>2 DEF Place, Linked
    <2>11. mbx' \in Handler BY <2>2, <2>4, GoodFacts, StraysBounded
    <2>12. TypeOK' BY <1>2, <1>3, <1>4, <2>11 DEF Inv, TypeOK, LoopType, RegsType
    <2> QED BY <1>2, <2>2, <2>4, <2>6, <2>7, <2>9, <2>10, <2>12 DEF Inv
  <1>8. CASE regs.al = "preop"
    <2>0. ~mbx.running BY <1>1, <1>8 DEF Signals
    <2>1. Starts(mbx, mbx') BY <1>1, <1>2, <1>8, <2>0, StartMailboxHandler
    <2>2. /\ Good(mbx') /\ Lost(mbx') = Lost(mbx) /\ mbx'.running /\ mbx'.rxq = <<>>
          /\ ~mbx'.locked /\ ~mbx'.toggle /\ mbx'.sm0 = mbx.sm0 /\ mbx'.wcnt = mbx.wcnt
          /\ mbx'.sm1 = Empty /\ Taken(mbx') = 0 /\ mbx'.sent = <<>>
          /\ mbx'.served = mbx.served /\ mbx'.strays = mbx.strays
      BY <2>1 DEF Starts
    <2>3. ToSet(<<>>) = {} BY DEF ToSet
    <2>4. Order(mbx') /\ Count(mbx') BY <1>1, <2>2, <2>3 DEF Order, Count
    <2>5. \A req : Later(mbx, req) => Later(mbx', req) BY <2>2, <2>3 DEF Later
    <2>6. Requested(mbx', regs', master)
      <3>1. Later(mbx', master.n + 1) BY <1>1, <2>5 DEF Requested
      <3>2. mbx'.sm0 # Empty => /\ mbx'.sm0.req \in 1 .. master.n
                                /\ Later(mbx', mbx'.sm0.req) \/ Known(mbx', mbx'.sm0)
        BY <1>1, <2>2, <2>5 DEF Requested, Known
      <3>3. regs'.written => mbx'.sm0 # Empty BY <1>1, <1>3, <2>2 DEF Requested
      <3> QED BY <1>5, <1>8, <2>2, <3>1, <3>2, <3>3 DEF Requested
    <2>7. Room(mbx', loop'.pc) BY <2>2 DEF Room
    <2>8. mbx' \in Fields BY <2>2, GoodFacts
    <2>9. ~mbx.toggle BY <1>1, <2>0 DEF Good, Asked
    <2>10. regs'.ack = mbx'.toggle
      <3>1. ~regs.ack BY <1>1, <2>9 DEF Signals
      <3>2. mbx'.toggle \in BOOLEAN /\ regs'.ack \in BOOLEAN
        BY <1>3, <2>8 DEF Fields, RegsType
      <3> QED BY <1>3, <2>2, <3>1, <3>2
    <2>11. ~Repeating(mbx', loop')
      <3>1. mbx'.toggle = FALSE /\ loop'.repeat = FALSE
        BY <1>4, <2>0, <2>2, <2>8 DEF Fields, LoopType
      <3> QED BY <3>1 DEF Repeating
    <2>12. Signals(mbx', regs', loop', master)
      BY <1>3, <1>5, <1>8, <2>2, <2>10, <2>11 DEF Signals
    <2>13. Place(mbx', regs', master)
      <3>1. master.got = <<>> /\ master.lastCnt = 0 BY <1>1, <1>5, <1>8 DEF Place
      <3>2. Len(<<>>) = 0 OBVIOUS
      <3> QED BY <2>2, <3>1, <3>2 DEF Place
    <2>14. mbx' \in Handler BY <2>4, <2>8, StraysBounded
    <2>15. TypeOK' BY <1>2, <1>3, <1>4, <2>14 DEF Inv, TypeOK, LoopType, RegsType
    <2> QED BY <1>2, <2>2, <2>4, <2>6, <2>7, <2>12, <2>13, <2>15 DEF Inv
  <1>9. CASE regs.al = "none"
    <2>1. mbx' = mbx BY <1>2, <1>9
    <2>2. regs' = regs
      <3>1. regs'.ack = regs.ack /\ regs'.written = regs.written
        BY <1>1, <1>3, <1>9 DEF RegsType
      <3> QED BY <1>1, <1>3, <1>9, <3>1 DEF RegsType
    <2>3. Room(mbx, loop'.pc)
      BY <1>1, <1>2, <1>4, <2>1, NothingWaits DEF Room
    <2>4. Signals(mbx, regs, loop', master)
      <3>1. CASE mbx.running
        <4>1. loop'.repeat = loop.repeat /\ loop'.status = loop.status /\ loop'.pc = "Read"
          BY <1>1, <1>4, <2>1, <3>1 DEF LoopType
        <4> QED BY <1>1, <1>2, <4>1 DEF Signals, Repeating
      <3>2. CASE ~mbx.running BY <1>1, <3>2 DEF Signals, Linked
      <3> QED BY <3>1, <3>2
    <2>5. TypeOK' BY <1>2, <1>4, <2>1, <2>2 DEF Inv, TypeOK, LoopType
    <2> QED BY <1>2, <2>1, <2>2, <2>3, <2>4, <2>5 DEF Inv
  <1> QED BY <1>1, <1>7, <1>8, <1>9 DEF RegsType

LEMMA HandleReadStep ==
    ASSUME Inv, HandleRead
    PROVE  Inv'
  <1>1. /\ mbx \in Fields /\ Good(mbx) /\ Order(mbx) /\ Count(mbx)
        /\ Room(mbx, loop.pc) /\ Requested(mbx, regs, master)
        /\ Signals(mbx, regs, loop, master) /\ Place(mbx, regs, master)
        /\ loop \in LoopType /\ master.got \in Seq(Message)
    BY InvFacts DEF LoopType
  <1>2. /\ loop.pc = "Read" /\ regs' = regs /\ master' = master
        /\ loop' = [loop EXCEPT !.pc = "Repeat", !.status = FALSE]
    BY DEF HandleRead
  <1>3. /\ loop' \in LoopType /\ loop'.pc = "Repeat" /\ loop'.repeat = loop.repeat
    BY <1>1, <1>2 DEF LoopType
  <1>4. mbx.running BY <1>1, <1>2 DEF Room
  <1>5. /\ Good(mbx') /\ Onward(mbx, mbx') /\ Order(mbx') /\ Count(mbx')
        /\ Requested(mbx', regs, master) /\ Place(mbx', regs, master)
        /\ mbx' \in Handler /\ mbx'.toggle = mbx.toggle /\ mbx'.rxq = mbx.rxq
        /\ mbx.rxq # <<>> => mbx' = mbx
        /\ ~loop.status => Visible(mbx')
    <2>1. PICK ok \in Allocations :
             mbx' = IF ~loop.status /\ mbx.full THEN MBX_MailboxReadInd(mbx, ok) ELSE mbx
      BY DEF HandleRead
    <2>2. CASE ~loop.status /\ mbx.full
      <3>1. mbx.sm1 = Empty BY <1>1, <1>2, <1>4, <2>2 DEF Signals
      <3>2. mbx.rxq = <<>> BY <1>1, <1>2, <2>2 DEF Room
      <3>3. Reads(mbx, mbx') BY <1>1, <1>4, <2>1, <2>2, <3>1, MailboxReadInd
      <3>4. /\ Good(mbx') /\ Follows(mbx, mbx') /\ Lost(mbx') = Lost(mbx)
            /\ Visible(mbx') /\ Requests(mbx') = Requests(mbx)
        BY <3>3 DEF Reads
      <3>5. /\ mbx'.sm0 = mbx.sm0 /\ mbx'.wcnt = mbx.wcnt /\ mbx'.locked = mbx.locked
            /\ mbx'.toggle = mbx.toggle
            /\ mbx'.served = mbx.served /\ mbx'.strays = mbx.strays
        BY <3>4 DEF Requests
      <3>6. SameRequests(mbx, mbx') BY <3>4, <3>5 DEF SameRequests, Follows
      <3>7. Order(mbx') /\ \A req : Later(mbx, req) => Later(mbx', req)
        BY <1>1, <3>6, OrderKept
      <3>8. Count(mbx') BY <1>1, <3>4, <3>5 DEF Count
      <3>9. Onward(mbx, mbx') BY <3>4, FollowsOnward
      <3>10. Inside(mbx, mbx') BY <3>4, <3>5, <3>7, <3>8, <3>9 DEF Inside
      <3>11. Requested(mbx', regs, master) /\ Place(mbx', regs, master) /\ mbx' \in Handler
        BY <1>1, <3>10, AgreedInside
      <3> QED BY <3>2, <3>4, <3>5, <3>6, <3>7, <3>8, <3>9, <3>11 DEF SameRequests
    <2>3. CASE ~(~loop.status /\ mbx.full)
      <3>1. mbx' = mbx BY <2>1, <2>3
      <3>2. ~loop.status => Visible(mbx) BY <2>3 DEF Visible
      <3>3. Onward(mbx, mbx) /\ mbx \in Handler BY <1>1, OnwardSame, StraysBounded
      <3> QED BY <1>1, <3>1, <3>2, <3>3
    <2> QED BY <2>2, <2>3
  <1>6. Room(mbx', "Repeat")
    <2>1. CASE mbx.rxq = <<>> BY <1>4, <1>5, <2>1 DEF Room, Onward
    <2>2. CASE mbx.rxq # <<>> BY <1>1, <1>2, <1>4, <1>5, <2>2 DEF Room
    <2> QED BY <2>1, <2>2
  <1>7. Signals(mbx', regs, loop', master)
    <2>1. mbx'.running = mbx.running BY <1>5 DEF Onward
    <2>2. Repeating(mbx', loop') => Repeating(mbx, loop) BY <1>2, <1>3, <1>5 DEF Repeating
    <2>3. Linked(mbx', regs) => Linked(mbx, regs) BY <2>1 DEF Linked
    <2>4. Linked(mbx', regs) /\ Repeating(mbx', loop') =>
             regs.repeat = loop'.repeat /\ Visible(mbx')
      <3>1. SUFFICES ASSUME Linked(mbx', regs), Repeating(mbx', loop')
                     PROVE  regs.repeat = loop'.repeat /\ Visible(mbx')
        OBVIOUS
      <3>2. /\ regs.repeat = loop.repeat
            /\ loop.status => mbx.sm1 # Empty
        BY <1>1, <1>2, <2>2, <2>3, <3>1 DEF Signals
      <3>3. loop.status => Visible(mbx') BY <3>2, <1>5 DEF Onward, Visible
      <3> QED BY <1>3, <1>5, <3>2, <3>3
    <2> QED BY <1>1, <1>3, <1>5, <2>1, <2>4 DEF Signals
  <1>8. TypeOK' BY <1>2, <1>3, <1>5 DEF Inv, TypeOK, LoopType
  <1> QED BY <1>2, <1>3, <1>5, <1>6, <1>7, <1>8 DEF Inv

\* A repetition takes the place of a response back; the master has it already,
\* or is waiting for it.
LEMMA PlaceRepeated ==
    ASSUME NEW s, Good(s), NEW u, Repeats(s, u), NEW r, NEW q, NEW m,
           Place(s, r, m), m.got \in Seq(Message), q.al = r.al,
           Linked(s, r) => Visible(s)
    PROVE  Place(u, q, m)
  <1>1. ~m.up => m.got = <<>> /\ m.lastCnt = 0 BY DEF Place
  <1>2. ASSUME Linked(u, q)
        PROVE  /\ Len(m.got) <= Len(u.sent)
               /\ \A i \in 1 .. Len(m.got) : m.got[i] = u.sent[i]
               /\ m.lastCnt = IF m.got = <<>> THEN 0 ELSE u.sent[Len(m.got)].cnt
               /\ \/ Len(m.got) = Taken(u)
                  \/ Len(m.got) = Taken(u) + 1 /\ u.sm1 # Empty /\ u.repeat = 0
    <2>1. Linked(s, r) /\ Visible(s) BY <1>2 DEF Linked, Repeats
    <2>2. /\ Len(m.got) <= Len(s.sent)
          /\ \A i \in 1 .. Len(m.got) : m.got[i] = s.sent[i]
          /\ m.lastCnt = IF m.got = <<>> THEN 0 ELSE s.sent[Len(m.got)].cnt
          /\ \/ Len(m.got) = Taken(s)
             \/ Len(m.got) = Taken(s) - 1 /\ Behind(s) /\ (m.lost \/ r.repeat # r.ack)
             \/ Len(m.got) = Taken(s) + 1 /\ s.sm1 # Empty /\ s.repeat = 0
      BY <2>1 DEF Place
    <2>3. u.sent = s.sent /\ u.repeat = 0 BY DEF Repeats
    <2>4. \/ Len(m.got) = Taken(u)
          \/ Len(m.got) = Taken(u) + 1 /\ u.sm1 # Empty /\ u.repeat = 0
      <3>1. CASE s.repeat = 0
        <4>1. ~Behind(s) BY <2>1, <3>1 DEF Behind, Visible
        <4>2. Taken(u) = Taken(s) /\ u.sm1 = s.sm1 BY <3>1 DEF Repeats
        <4> QED BY <2>2, <2>3, <4>1, <4>2
      <3>2. CASE s.repeat # 0
        <4>1. Taken(s) = Base(s) BY <2>1 DEF Taken, Visible
        <4>2. Taken(u) = Base(s) - 1 /\ u.sm1 # Empty BY <3>2 DEF Repeats
        <4>3. Base(s) \in Nat BY DEF Good, Core, Line
        <4>4. Len(m.got) = Taken(s) \/ Len(m.got) = Taken(s) - 1 BY <2>2, <3>2
        <4> DEFINE k == Base(s)
                   n == Len(m.got)
        <4>5. k \in Nat /\ (n = k \/ n = k - 1) BY <4>1, <4>3, <4>4
        <4> HIDE DEF k, n
        <4>6. n = k - 1 \/ n = (k - 1) + 1 BY <4>5
        <4> QED BY <2>3, <4>2, <4>6 DEF k, n
      <3> QED BY <3>1, <3>2
    <2> QED BY <2>2, <2>3, <2>4
  <1> QED BY <1>1, <1>2 DEF Place

LEMMA HandleRepeatStep ==
    ASSUME Inv, HandleRepeat
    PROVE  Inv'
  <1>1. /\ mbx \in Fields /\ Good(mbx) /\ Order(mbx) /\ Count(mbx)
        /\ Room(mbx, loop.pc) /\ Requested(mbx, regs, master)
        /\ Signals(mbx, regs, loop, master) /\ Place(mbx, regs, master)
        /\ loop \in LoopType /\ regs \in RegsType /\ master.got \in Seq(Message)
    BY InvFacts DEF LoopType, RegsType
  <1>2. /\ loop.pc = "Repeat" /\ master' = master
        /\ loop' = [loop EXCEPT !.pc = "Write", !.repeat = FALSE]
    BY DEF HandleRepeat
  <1>3. loop' \in LoopType /\ loop'.pc = "Write"
    BY <1>1, <1>2 DEF LoopType
  <1>4. mbx.running BY <1>1, <1>2 DEF Room
  <1>5. CASE loop.repeat # mbx.toggle
    <2>1. /\ mbx' = MBX_MailboxRepeatReq(mbx)
          /\ regs' = [regs EXCEPT !.ack = loop.repeat]
      BY <1>5 DEF HandleRepeat
    <2>2. /\ regs' \in RegsType /\ regs'.ack = loop.repeat /\ regs'.al = regs.al
          /\ regs'.repeat = regs.repeat /\ regs'.written = regs.written
      BY <1>1, <2>1 DEF RegsType, LoopType
    <2>3. Repeats(mbx, mbx') BY <1>1, <1>4, <2>1, MailboxRepeatReq
    <2>4. /\ Good(mbx') /\ Lost(mbx') = Lost(mbx) /\ mbx'.running
          /\ mbx'.rxq = mbx.rxq /\ mbx'.buf = mbx.buf
          /\ mbx'.sm0 = mbx.sm0 /\ mbx'.wcnt = mbx.wcnt /\ mbx'.locked = mbx.locked
          /\ mbx'.served = mbx.served /\ mbx'.strays = mbx.strays
          /\ mbx'.toggle = ~mbx.toggle /\ Waiting(mbx') <= Waiting(mbx) + 1
      BY <1>4, <2>3 DEF Repeats
    <2>5. SameRequests(mbx, mbx') BY <2>4 DEF SameRequests
    <2>6. Order(mbx') /\ \A req : Later(mbx, req) => Later(mbx', req)
      BY <1>1, <2>5, OrderKept
    <2>7. Count(mbx') BY <1>1, <2>4 DEF Count
    <2>8. Requested(mbx', regs, master) BY <1>1, <1>4, <2>4, <2>6, RequestedKept
    <2>9. Requested(mbx', regs', master) BY <2>2, <2>8 DEF Requested
    <2>10. Linked(mbx, regs) => regs.repeat = loop.repeat /\ Visible(mbx)
      BY <1>1, <1>2, <1>5 DEF Signals, Repeating
    <2>11. Place(mbx', regs', master) BY <1>1, <2>2, <2>3, <2>10, PlaceRepeated
    <2>12. ~master.lost
      <3>1. ASSUME master.lost PROVE FALSE
        <4>1. master.up /\ regs.repeat = regs.ack /\ regs.ack = mbx.toggle
          BY <1>1, <3>1 DEF Signals
        <4>2. Linked(mbx, regs) BY <1>1, <4>1 DEF Requested, Linked
        <4> QED BY <1>5, <2>10, <4>1, <4>2
      <3> QED BY <3>1
    <2>13. regs'.ack = mbx'.toggle
      <3>1. /\ mbx.toggle \in BOOLEAN /\ loop.repeat \in BOOLEAN
        BY <1>1 DEF Fields, LoopType
      <3>2. loop.repeat = ~mbx.toggle BY <1>5, <3>1
      <3> QED BY <2>2, <2>4, <3>2
    <2>14. Signals(mbx', regs', loop', master)
      BY <1>1, <1>3, <1>4, <2>2, <2>12, <2>13 DEF Signals, Repeating
    <2>15. Room(mbx', "Write")
      <3>1. CASE mbx.rxq = <<>> BY <2>4, <3>1 DEF Room
      <3>2. CASE mbx.rxq # <<>>
        <4>1. Len(mbx.rxq) = 1 /\ ~mbx.full BY <1>1, <1>2, <3>2 DEF Room
        <4>2. Waiting(mbx) = 0 BY <1>1, <4>1, NothingWaits
        <4>3. Waiting(mbx') \in Nat BY <2>4, GoodFacts
        <4>4. Waiting(mbx') <= 1 BY <2>4, <4>2
        <4>5. Len(mbx'.rxq) + Waiting(mbx') <= 2 BY <2>4, <4>1, <4>3, <4>4
        <4> QED BY <2>4, <4>1, <4>5 DEF Room
      <3> QED BY <3>1, <3>2
    <2>16. mbx' \in Handler BY <2>4, <2>6, GoodFacts, StraysBounded
    <2>17. TypeOK' BY <1>2, <1>3, <2>2, <2>16 DEF Inv, TypeOK, LoopType, RegsType
    <2> QED BY <1>2, <1>3, <2>4, <2>6, <2>7, <2>9, <2>11, <2>14, <2>15, <2>17 DEF Inv
  <1>6. CASE loop.repeat = mbx.toggle
    <2>1. mbx' = mbx /\ regs' = regs BY <1>6 DEF HandleRepeat
    <2>2. Room(mbx, "Write") BY <1>1, <1>2, <1>4 DEF Room
    <2>3. Signals(mbx, regs, loop', master) BY <1>1, <1>3 DEF Signals, Repeating
    <2>4. TypeOK' BY <1>2, <1>3, <2>1 DEF Inv, TypeOK, LoopType
    <2> QED BY <1>2, <1>3, <2>1, <2>2, <2>3, <2>4 DEF Inv
  <1> QED BY <1>5, <1>6

LEMMA HandleWriteStep ==
    ASSUME Inv, HandleWrite
    PROVE  Inv'
  <1>1. /\ mbx \in Fields /\ Good(mbx) /\ Order(mbx) /\ Count(mbx)
        /\ Room(mbx, loop.pc) /\ Requested(mbx, regs, master)
        /\ Signals(mbx, regs, loop, master) /\ Place(mbx, regs, master)
        /\ loop \in LoopType /\ regs \in RegsType /\ master.got \in Seq(Message)
        /\ master.n \in Nat
    BY InvFacts DEF LoopType, RegsType
  <1>2. /\ loop.pc = "Write" /\ master' = master
        /\ loop' = [loop EXCEPT !.pc = "Serve"]
        /\ regs' = [regs EXCEPT !.written = FALSE]
    BY DEF HandleWrite, Goto
  <1>3. /\ loop' \in LoopType /\ loop'.pc = "Serve"
        /\ regs' \in RegsType /\ ~regs'.written /\ regs'.al = regs.al
        /\ regs'.repeat = regs.repeat /\ regs'.ack = regs.ack
    BY <1>1, <1>2 DEF LoopType, RegsType
  <1>4. mbx.running BY <1>1, <1>2 DEF Room
  <1>5. mbx.rxq # <<>> => Len(mbx.rxq) = 1 /\ Len(mbx.rxq) + Waiting(mbx) <= 2
    BY <1>1, <1>2 DEF Room
  <1>6. /\ Good(mbx') /\ Onward(mbx, mbx') /\ Order(mbx') /\ Count(mbx')
        /\ Requested(mbx', regs', master) /\ mbx' \in Handler
        /\ mbx'.toggle = mbx.toggle
        /\ mbx'.rxq # <<>> => Len(mbx'.rxq) + Waiting(mbx') <= 2
    <2>1. PICK ok \in Allocations :
             mbx' = IF regs.written THEN MBX_CheckAndCopyMailbox(mbx, ok) ELSE mbx
      BY DEF HandleWrite
    <2>2. CASE regs.written
      <3>1. Copied(mbx, mbx') BY <1>1, <1>4, <2>1, <2>2, CheckAndCopy
      <3>2. mbx.sm0 # Empty BY <1>1, <2>2 DEF Requested
      <3>3. /\ Order(mbx') /\ Count(mbx') /\ Requested(mbx', regs', master)
            /\ mbx' \in Handler
        BY <1>1, <1>3, <3>1, <3>2, CopiedAgreed
      <3>4. mbx'.rxq # <<>> => Len(mbx'.rxq) + Waiting(mbx') <= 2
        BY <1>1, <1>5, <3>1, CopiedRoom
      <3> QED BY <3>1, <3>3, <3>4 DEF Copied
    <2>3. CASE ~regs.written
      <3>1. mbx' = mbx BY <2>1, <2>3
      <3>2. Requested(mbx, regs', master) BY <1>1, <1>3 DEF Requested
      <3>3. Onward(mbx, mbx) /\ mbx \in Handler BY <1>1, OnwardSame, StraysBounded
      <3> QED BY <1>1, <1>5, <3>1, <3>2, <3>3
    <2> QED BY <2>2, <2>3
  <1>7. mbx'.running = mbx.running BY <1>6 DEF Onward
  <1>8. Place(mbx', regs', master)
    <2>1. Place(mbx', regs, master)
      <3>1. mbx' \in Fields BY <1>6, GoodFacts
      <3> QED BY <1>1, <1>6, <3>1, PlaceOnward
    <2> QED BY <1>3, <2>1 DEF Place, Linked
  <1>9. Signals(mbx', regs', loop', master)
    BY <1>1, <1>3, <1>6, <1>7 DEF Signals, Repeating
  <1>10. Room(mbx', loop'.pc) BY <1>3, <1>6 DEF Room
  <1>11. TypeOK' BY <1>2, <1>3, <1>6 DEF Inv, TypeOK, LoopType, RegsType
  <1> QED BY <1>2, <1>6, <1>8, <1>9, <1>10, <1>11 DEF Inv

-----------------------------------------------------------------------------
(* The steps of the master.                                                *)

MasterType == [up : BOOLEAN, n : 0 .. MaxReq, last : Message,
               unsure : BOOLEAN, lost : BOOLEAN,
               open : SUBSET {"coe", "foe"}, lastCnt : 0 .. MaxCounter,
               got : Seq(Message), losses : 0 .. MaxLosses,
               retries : 0 .. MaxRetries, restarts : 0 .. MaxRestarts]

LEMMA NextCounterRange ==
    ASSUME NEW c \in 0 .. MaxCounter
    PROVE  NextCounter(c) \in 1 .. MaxCounter
  <1>1. MaxCounter \in Nat /\ MaxCounter >= 2 BY MailboxAssumption
  <1> DEFINE k == MaxCounter
  <1>2. c = k \/ (c >= 0 /\ c < k) BY <1>1
  <1>3. k \in Nat /\ k >= 2 /\ c \in Int BY <1>1
  <1>4. NextCounter(c) = (c % k) + 1 BY DEF NextCounter
  <1> HIDE DEF k
  <1>5. CASE c = k
    <2>1. c % k = 0 BY <1>3, <1>5
    <2> QED BY <1>3, <1>4, <2>1 DEF k
  <1>6. CASE c >= 0 /\ c < k
    <2>1. c % k = c BY <1>3, <1>6
    <2> QED BY <1>3, <1>4, <1>6, <2>1 DEF k
  <1> QED BY <1>2, <1>5, <1>6

\* What the handler is when a request is written into the receive mailbox.
LEMMA RequestWritten ==
    ASSUME NEW s, Good(s), Order(s), Count(s), NEW msg \in Message, NEW t,
           t = [s EXCEPT !.sm0 = msg]
    PROVE  /\ Good(t) /\ Onward(s, t) /\ Order(t) /\ Count(t) /\ t \in Fields
           /\ \A req : Later(s, req) => Later(t, req)
           /\ t.sm0 = msg /\ t.wcnt = s.wcnt /\ t.locked = s.locked
           /\ t.toggle = s.toggle /\ t.sm1 = s.sm1 /\ t.full = s.full
           /\ t.rxq = s.rxq /\ Waiting(t) = Waiting(s)
  <1>1. s \in Fields /\ Asked(s) BY GoodFacts DEF Good
  <1>2. t \in Fields BY <1>1, SetSm0
  <1>3. /\ t.heap = s.heap /\ t.buf = s.buf /\ Inner(t) = Inner(s)
        /\ t.coeStored = s.coeStored /\ t.foeStored = s.foeStored
        /\ t.eoeStored = s.eoeStored /\ t.freedTwice = s.freedTwice
        /\ t.stored = s.stored /\ t.eoePending = s.eoePending /\ t.running = s.running
        /\ t.sm0 = msg /\ t.wcnt = s.wcnt /\ t.locked = s.locked
        /\ t.toggle = s.toggle /\ t.served = s.served /\ t.strays = s.strays
    BY <1>1 DEF Fields, Inner
  <1>4. t.full = s.full /\ t.sm1 = s.sm1 /\ t.rxq = s.rxq /\ t.repeat = s.repeat
    BY <1>3, InnerSame
  <1>5. Asked(t) BY <1>1, <1>3, <1>4 DEF Asked
  <1>6. Still(s, t) /\ Lost(t) = Lost(s) BY <1>2, <1>3, <1>5, Flags
  <1>7. Onward(s, t) /\ Good(t) /\ Waiting(t) = Waiting(s)
    BY <1>6, FollowsOnward DEF Still
  <1>8. SameRequests(s, t) BY <1>3, <1>4 DEF SameRequests
  <1>9. Order(t) /\ \A req : Later(s, req) => Later(t, req) BY <1>1, <1>8, OrderKept
  <1>10. Count(t) BY <1>3, <1>6 DEF Count
  <1> QED BY <1>2, <1>3, <1>4, <1>7, <1>9, <1>10

\* What of the invariant does not depend on the requests.
LEMMA WriteEvent ==
    ASSUME Inv, NEW msg \in Message, mbx' = [mbx EXCEPT !.sm0 = msg],
           regs' = [regs EXCEPT !.written = TRUE], loop' = loop,
           master' \in MasterType, master'.up = master.up,
           master'.got = master.got, master'.lastCnt = master.lastCnt,
           master'.lost = master.lost, Requested(mbx', regs', master')
    PROVE  Inv'
  <1>1. /\ mbx \in Fields /\ Good(mbx) /\ Order(mbx) /\ Count(mbx)
        /\ Room(mbx, loop.pc)
        /\ Signals(mbx, regs, loop, master) /\ Place(mbx, regs, master)
        /\ loop \in LoopType /\ regs \in RegsType /\ master.got \in Seq(Message)
    BY InvFacts DEF LoopType, RegsType
  <1>2. /\ regs' \in RegsType /\ regs'.al = regs.al
        /\ regs'.repeat = regs.repeat /\ regs'.ack = regs.ack
    BY <1>1 DEF RegsType
  <1>3. /\ Good(mbx') /\ Onward(mbx, mbx') /\ Order(mbx') /\ Count(mbx')
        /\ mbx' \in Fields
        /\ mbx'.toggle = mbx.toggle /\ mbx'.sm1 = mbx.sm1 /\ mbx'.full = mbx.full
        /\ mbx'.rxq = mbx.rxq /\ Waiting(mbx') = Waiting(mbx)
    BY <1>1, RequestWritten
  <1>4. mbx'.running = mbx.running BY <1>3 DEF Onward
  <1>5. Room(mbx', loop'.pc) BY <1>1, <1>3, <1>4 DEF Room
  <1>6. Signals(mbx', regs', loop', master')
    BY <1>1, <1>2, <1>3, <1>4 DEF Signals, Repeating, Linked, Visible
  <1>7. Place(mbx', regs', master')
    <2>1. Place(mbx', regs, master) BY <1>1, <1>3, PlaceOnward
    <2> QED BY <1>2, <2>1 DEF Place, Linked
  <1>8. mbx' \in Handler BY <1>3, StraysBounded
  <1>9. TypeOK' BY <1>1, <1>2, <1>8 DEF TypeOK, LoopType, RegsType, MasterType
  <1> QED BY <1>3, <1>5, <1>6, <1>7, <1>9 DEF Inv

LEMMA EmptyMessage == Empty \in Message /\ Empty.req = 0
  BY MailboxAssumption DEF Empty, Message

LEMMA RequestMessage ==
    ASSUME NEW req \in 0 .. MaxReq, NEW kind \in Kinds, NEW cnt \in 0 .. MaxCounter
    PROVE  LET x == [Empty EXCEPT !.req = req, !.kind = kind, !.cnt = cnt]
           IN  x \in Message /\ x.req = req
  <1> DEFINE g == [Empty EXCEPT !.req = req]
             h == [g EXCEPT !.kind = kind]
             x == [Empty EXCEPT !.req = req, !.kind = kind, !.cnt = cnt]
  <1>1. Empty \in Message BY EmptyMessage
  <1>2. g \in Message BY <1>1 DEF Message
  <1>3. h \in Message BY <1>2 DEF Message
  <1>4. [h EXCEPT !.cnt = cnt] \in Message BY <1>3 DEF Message
  <1>5. x = [h EXCEPT !.cnt = cnt] BY <1>1 DEF Message
  <1>6. x.req = req BY <1>1 DEF Message
  <1> QED BY <1>4, <1>5, <1>6

LEMMA WriteStep ==
    ASSUME Inv, NEW kind \in Kinds, NEW confirmed \in BOOLEAN,
           MasterWrite(kind, confirmed)
    PROVE  Inv'
  <1> DEFINE cnt == NextCounter(master.last.cnt)
             n == master.n
             msg == [Empty EXCEPT !.req = n + 1, !.kind = kind, !.cnt = cnt]
  <1>1. /\ mbx \in Fields /\ Good(mbx) /\ Order(mbx) /\ Count(mbx)
        /\ Requested(mbx, regs, master)
        /\ regs \in RegsType /\ master \in MasterType
    BY InvFacts DEF RegsType, MasterType, Inv, TypeOK
  <1>2. /\ master.up /\ ~master.unsure /\ n < MaxReq /\ mbx.sm0 = Empty
        /\ confirmed \/ master.retries < MaxRetries
        /\ mbx' = [mbx EXCEPT !.sm0 = msg]
        /\ master' = [master EXCEPT
             !.n = @ + 1, !.last = msg, !.unsure = ~confirmed,
             !.retries = IF confirmed THEN @ ELSE @ + 1,
             !.open = IF kind \in Answered THEN @ \cup {Proto[kind]} ELSE @]
        /\ regs' = [regs EXCEPT !.written = TRUE] /\ loop' = loop
    BY DEF MasterWrite
  <1>3. /\ n \in Nat /\ n + 1 \in 1 .. MaxReq /\ MaxReq \in Nat /\ MaxRetries \in Nat
        /\ master.retries \in 0 .. MaxRetries
    BY <1>1, <1>2, MailboxAssumption DEF MasterType
  <1>4. cnt \in 0 .. MaxCounter
    <2>1. master.last.cnt \in 0 .. MaxCounter BY <1>1 DEF MasterType, Message
    <2>2. cnt \in 1 .. MaxCounter BY <2>1, NextCounterRange
    <2> QED BY <2>2, MailboxAssumption
  <1> HIDE DEF cnt
  <1>5. msg \in Message /\ msg.req = n + 1
    <2>1. n + 1 \in 0 .. MaxReq BY <1>3
    <2> DEFINE req == n + 1
    <2> HIDE DEF req
    <2>2. req \in 0 .. MaxReq BY <2>1 DEF req
    <2>3. LET x == [Empty EXCEPT !.req = req, !.kind = kind, !.cnt = cnt]
          IN  x \in Message /\ x.req = req
      BY <1>4, <2>2, RequestMessage
    <2> QED BY <2>3 DEF req
  <1> HIDE DEF msg
  <1>6. msg # Empty BY <1>3, <1>5, EmptyMessage
  <1> DEFINE tries == IF confirmed THEN master.retries ELSE master.retries + 1
             open == IF kind \in Answered THEN master.open \cup {Proto[kind]}
                     ELSE master.open
  <1>7. tries \in 0 .. MaxRetries BY <1>2, <1>3
  <1>8. open \in SUBSET {"coe", "foe"}
    <2>1. kind \in Answered => Proto[kind] \in {"coe", "foe"} BY DEF Answered, Proto
    <2>2. master.open \in SUBSET {"coe", "foe"} BY <1>1 DEF MasterType
    <2> QED BY <2>1, <2>2
  <1> DEFINE unsure == ~confirmed
  <1>9. /\ master' = [master EXCEPT !.n = n + 1, !.last = msg, !.unsure = unsure,
                                    !.retries = tries, !.open = open]
        /\ unsure \in BOOLEAN
    BY <1>2
  <1> HIDE DEF msg, tries, open, unsure
  <1>10. /\ master' \in MasterType /\ master'.up = master.up
         /\ master'.got = master.got /\ master'.lastCnt = master.lastCnt
         /\ master'.lost = master.lost /\ master'.n = n + 1 /\ master'.last = msg
    <2>1. n + 1 \in 0 .. MaxReq BY <1>3
    <2> DEFINE k == n + 1
    <2>2. k \in 0 .. MaxReq BY <2>1
    <2>3. master' = [master EXCEPT !.n = k, !.last = msg, !.unsure = unsure,
                                   !.retries = tries, !.open = open]
      BY <1>9
    <2> HIDE DEF k
    <2>4. master' \in MasterType /\ master'.n = k
      BY <1>1, <1>5, <1>7, <1>8, <1>9, <2>2, <2>3 DEF MasterType
    <2>5. /\ master'.up = master.up /\ master'.got = master.got
          /\ master'.lastCnt = master.lastCnt /\ master'.lost = master.lost
          /\ master'.last = msg
      BY <1>1, <2>3 DEF MasterType
    <2> QED BY <2>4, <2>5 DEF k
  <1> HIDE DEF n
  <1>11. /\ regs' \in RegsType /\ regs'.al = regs.al
    BY <1>1, <1>2 DEF RegsType
  <1>12. /\ mbx'.sm0 = msg /\ mbx'.wcnt = mbx.wcnt /\ mbx'.locked = mbx.locked
         /\ mbx'.running = mbx.running /\ mbx' \in Fields
         /\ \A req : Later(mbx, req) => Later(mbx', req)
    BY <1>1, <1>2, <1>5, RequestWritten DEF Onward
  <1>13. Later(mbx', n + 1)
    <2>1. Later(mbx, n + 1) BY <1>1 DEF Requested, n
    <2> QED BY <1>12, <2>1
  <1>14. Later(mbx', (n + 1) + 1)
    <2>1. \A i \in 1 .. Len(mbx'.served) : mbx'.served[i] < (n + 1) + 1
      <3>1. mbx'.served \in Seq(1 .. MaxReq) BY <1>12 DEF Fields
      <3>2. TAKE i \in 1 .. Len(mbx'.served)
      <3>3. mbx'.served[i] \in 1 .. MaxReq BY <3>1, ElementOfSeq
      <3>4. mbx'.served[i] < n + 1 BY <1>13 DEF Later
      <3> QED BY <1>3, <3>3, <3>4
    <2>2. \A b \in ToSet(mbx'.rxq) : mbx'.buf[b].req < (n + 1) + 1
      <3>1. mbx'.rxq \in Seq(Buffers) /\ mbx'.buf \in [Buffers -> Message]
        BY <1>12 DEF Fields
      <3>2. ToSet(mbx'.rxq) \subseteq Buffers BY <3>1, SetOfSeq
      <3>3. TAKE b \in ToSet(mbx'.rxq)
      <3>4. mbx'.buf[b].req \in 0 .. MaxReq BY <3>1, <3>2 DEF Message
      <3>5. mbx'.buf[b].req < n + 1 BY <1>13 DEF Later
      <3> QED BY <1>3, <3>4, <3>5
    <2> QED BY <2>1, <2>2 DEF Later
  <1>15. ~mbx.locked BY <1>1, <1>2 DEF Requested
  <1>16. msg.req \in 1 .. master'.n BY <1>3, <1>5, <1>10 DEF n
  <1>17. /\ Later(mbx', master'.n + 1) /\ Later(mbx', msg.req)
    BY <1>5, <1>10, <1>13, <1>14 DEF n
  <1>18. mbx'.running /\ regs'.al = "none"
    BY <1>1, <1>2, <1>11, <1>12 DEF Requested
  <1>19. Requested(mbx', regs', master')
    BY <1>2, <1>6, <1>10, <1>12, <1>15, <1>16, <1>17, <1>18 DEF Requested
  <1> QED BY <1>2, <1>5, <1>10, <1>19, WriteEvent

LEMMA RewriteStep ==
    ASSUME Inv, MasterRewrite
    PROVE  Inv'
  <1>1. /\ mbx \in Fields /\ Good(mbx) /\ Order(mbx) /\ Count(mbx)
        /\ Requested(mbx, regs, master)
        /\ regs \in RegsType /\ master \in MasterType
    BY InvFacts DEF RegsType, MasterType, Inv, TypeOK
  <1> DEFINE msg == master.last
  <1>2. /\ master.up /\ master.unsure /\ mbx.sm0 = Empty
        /\ mbx' = [mbx EXCEPT !.sm0 = msg]
        /\ master' = [master EXCEPT !.unsure = FALSE]
        /\ regs' = [regs EXCEPT !.written = TRUE] /\ loop' = loop
    BY DEF MasterRewrite
  <1>3. msg \in Message BY <1>1 DEF MasterType
  <1>4. /\ master' \in MasterType /\ master'.up = master.up
        /\ master'.got = master.got /\ master'.lastCnt = master.lastCnt
        /\ master'.lost = master.lost /\ master'.n = master.n
        /\ ~master'.unsure
    BY <1>1, <1>2 DEF MasterType
  <1>5. regs'.al = regs.al BY <1>1, <1>2 DEF RegsType
  <1>6. /\ mbx'.sm0 = msg /\ mbx'.wcnt = mbx.wcnt /\ mbx'.locked = mbx.locked
        /\ mbx'.running = mbx.running
        /\ \A req : Later(mbx, req) => Later(mbx', req)
    BY <1>1, <1>2, <1>3, RequestWritten DEF Onward
  <1>7. msg.req \in 1 .. master.n /\ Known(mbx, msg) /\ ~mbx.locked
    BY <1>1, <1>2 DEF Requested
  <1>8. msg # Empty BY <1>7, EmptyMessage
  <1>9. Known(mbx', msg) BY <1>6, <1>7 DEF Known
  <1> HIDE DEF msg
  <1>10. Later(mbx', master'.n + 1) BY <1>1, <1>4, <1>6 DEF Requested
  <1>11. mbx'.running /\ regs'.al = "none" BY <1>1, <1>2, <1>5, <1>6 DEF Requested
  <1>12. Requested(mbx', regs', master')
    BY <1>4, <1>6, <1>7, <1>8, <1>9, <1>10, <1>11 DEF Requested
  <1> QED BY <1>2, <1>3, <1>4, <1>12, WriteEvent

\* What the handler is when the master has read the send mailbox.
LEMMA ResponseTaken ==
    ASSUME NEW s, Good(s), Order(s), Count(s), s.sm1 # Empty, NEW t,
           t = [s EXCEPT !.sm1 = Empty]
    PROVE  /\ Good(t) /\ Order(t) /\ Count(t) /\ t \in Fields
           /\ \A req : Later(s, req) => Later(t, req)
           /\ t.running = s.running /\ t.sm0 = s.sm0 /\ t.wcnt = s.wcnt
           /\ t.locked = s.locked /\ t.toggle = s.toggle /\ t.sent = s.sent
           /\ t.full = s.full /\ t.rxq = s.rxq /\ t.sm1 = Empty
           /\ Waiting(t) = Waiting(s) /\ Behind(t)
           /\ Base(s) \in Nat /\ Base(s) + 1 <= Len(s.sent)
           /\ Taken(s) = Base(s) /\ Taken(t) = Base(s) + 1
           /\ s.sm1 = s.sent[Base(s) + 1]
  <1>1. s \in Fields /\ Core(s) /\ Stores(s) /\ Asked(s) BY GoodFacts DEF Good
  <1>2. t \in Fields BY <1>1, EmptyMessage, SetSm1
  <1>3. /\ t.running = s.running /\ t.rxq = s.rxq /\ t.txq = s.txq
        /\ t.read = s.read /\ t.repeat = s.repeat /\ t.store = s.store
        /\ t.full = s.full /\ t.sm1 = Empty /\ t.rcnt = s.rcnt /\ t.sent = s.sent
        /\ t.heap = s.heap /\ t.buf = s.buf /\ t.coeStored = s.coeStored
        /\ t.foeStored = s.foeStored /\ t.eoeStored = s.eoeStored
        /\ t.freedTwice = s.freedTwice /\ t.stored = s.stored
        /\ t.eoePending = s.eoePending
    BY <1>1 DEF Fields
  <1>4. /\ t.sm0 = s.sm0 /\ t.wcnt = s.wcnt /\ t.locked = s.locked
        /\ t.toggle = s.toggle /\ t.served = s.served /\ t.strays = s.strays
    BY <1>1 DEF Fields
  <1>5. Kept(t) = Kept(s) /\ Held2(t) = Held2(s) /\ Base(t) = Base(s)
    BY <1>3 DEF Kept, Held2, Base
  <1>6. Lost(t) = Lost(s) BY <1>3, <1>5 DEF Lost
  <1>7. Apart(t) /\ Quiet(t) /\ Counters(t)
    <2>1. Apart(t) BY <1>1, <1>3 DEF Core, Apart
    <2>2. Quiet(t) BY <1>1, <1>3 DEF Core, Quiet
    <2>3. Counters(t) BY <1>1, <1>3 DEF Core, Counters, ReadCounter
    <2> QED BY <2>1, <2>2, <2>3
  <1>8. Line(s) BY <1>1 DEF Core
  <1>9. Line(t) BY <1>3, <1>5, <1>8 DEF Line
  <1>10. Core(t) BY <1>1, <1>2, <1>3, <1>5, <1>7, <1>9 DEF Core
  <1>11. Stores(t) BY <1>1, <1>3, <1>5 DEF Stores
  <1>12. Asked(t) BY <1>1, <1>3, <1>4 DEF Asked
  <1>13. s.full /\ s.sm1 = s.sent[Base(s) + 1] /\ Base(s) \in Nat BY <1>8 DEF Line
  <1>14. Base(s) + 1 <= Len(s.sent)
    <2>1. Len(s.sent) \in Nat /\ Len(s.txq) \in Nat BY <1>1, LenProperties DEF Fields
    <2> DEFINE n == Len(s.sent)
               k == Len(s.txq)
               x == IF s.store # 0 THEN 1 ELSE 0
    <2>2. n \in Nat /\ k \in Nat /\ x \in Nat BY <2>1
    <2>3. Base(s) = n - k - x - 1 BY <1>13 DEF Base
    <2> HIDE DEF n, k, x
    <2>4. (n - k - x - 1) + 1 <= n BY <2>2
    <2> QED BY <2>3, <2>4 DEF n
  <1>15. Taken(s) = Base(s) /\ Taken(t) = Base(s) + 1
    BY <1>3, <1>5, <1>13 DEF Taken
  <1>16. Behind(t) /\ Waiting(t) = Waiting(s) BY <1>3, <1>13 DEF Behind, Waiting
  <1>17. SameRequests(s, t) BY <1>3, <1>4 DEF SameRequests
  <1>18. Order(t) /\ \A req : Later(s, req) => Later(t, req) BY <1>1, <1>17, OrderKept
  <1>19. Count(t) BY <1>4, <1>6 DEF Count
  <1> QED BY <1>2, <1>3, <1>4, <1>10, <1>11, <1>12, <1>13, <1>14, <1>15, <1>16, <1>18, <1>19
          DEF Good

\* A master that may read is where the handler is, or has read already what is
\* there once more.
LEMMA ReadyFacts ==
    ASSUME Inv, MasterReady
    PROVE  /\ Linked(mbx, regs) /\ ~Repeating(mbx, loop)
           /\ Len(master.got) \in Nat /\ Len(master.got) <= Len(mbx.sent)
           /\ \A i \in 1 .. Len(master.got) : master.got[i] = mbx.sent[i]
           /\ master.lastCnt = IF master.got = <<>> THEN 0
                               ELSE mbx.sent[Len(master.got)].cnt
           /\ \/ Len(master.got) = Taken(mbx)
              \/ Len(master.got) = Taken(mbx) + 1 /\ mbx.sm1 # Empty /\ mbx.repeat = 0
  <1>1. /\ Requested(mbx, regs, master) /\ Signals(mbx, regs, loop, master)
        /\ Place(mbx, regs, master) /\ master.got \in Seq(Message)
    BY InvFacts
  <1>2. master.up /\ ~master.lost /\ regs.repeat = regs.ack BY DEF MasterReady
  <1>3. Linked(mbx, regs) BY <1>1, <1>2 DEF Requested, Linked
  <1>4. ~Repeating(mbx, loop) BY <1>1, <1>2, <1>3 DEF Signals, Repeating
  <1>5. Len(master.got) \in Nat BY <1>1, LenProperties
  <1> QED BY <1>1, <1>2, <1>3, <1>4, <1>5 DEF Place

\* What of the invariant does not depend on what the master has.
LEMMA ReadEvent ==
    ASSUME Inv, MasterReady, mbx.sm1 # Empty, mbx' = [mbx EXCEPT !.sm1 = Empty],
           regs' = regs, loop' = loop, master' \in MasterType,
           master'.up = master.up, master'.n = master.n, master'.last = master.last,
           master'.unsure = master.unsure, Place(mbx', regs', master')
    PROVE  Inv'
  <1>1. /\ mbx \in Fields /\ Good(mbx) /\ Order(mbx) /\ Count(mbx)
        /\ Room(mbx, loop.pc) /\ Requested(mbx, regs, master)
        /\ Signals(mbx, regs, loop, master)
    BY InvFacts
  <1>2. /\ Good(mbx') /\ Order(mbx') /\ Count(mbx') /\ mbx' \in Fields
        /\ \A req : Later(mbx, req) => Later(mbx', req)
        /\ mbx'.running = mbx.running /\ mbx'.sm0 = mbx.sm0 /\ mbx'.wcnt = mbx.wcnt
        /\ mbx'.locked = mbx.locked /\ mbx'.toggle = mbx.toggle
        /\ mbx'.full = mbx.full /\ mbx'.rxq = mbx.rxq /\ mbx'.sm1 = Empty
        /\ Waiting(mbx') = Waiting(mbx)
    BY <1>1, ResponseTaken
  <1>3. ~Repeating(mbx, loop) BY ReadyFacts
  <1>4. ~Repeating(mbx', loop') BY <1>2, <1>3 DEF Repeating
  <1>5. master.up /\ regs.repeat = regs.ack BY DEF MasterReady
  <1>6. Signals(mbx', regs', loop', master') BY <1>1, <1>2, <1>4, <1>5 DEF Signals
  <1>7. Room(mbx', loop'.pc) BY <1>1, <1>2 DEF Room
  <1>8. Requested(mbx', regs, master) BY <1>1, <1>2, RequestedKept
  <1>9. Requested(mbx', regs', master') BY <1>8 DEF Requested
  <1>10. mbx' \in Handler BY <1>2, StraysBounded
  <1>11. TypeOK' BY <1>10 DEF Inv, TypeOK, MasterType
  <1> QED BY <1>2, <1>6, <1>7, <1>9, <1>11 DEF Inv

LEMMA ReadStep ==
    ASSUME Inv, MasterRead
    PROVE  Inv'
  <1>1. /\ mbx \in Fields /\ Good(mbx) /\ Order(mbx) /\ Count(mbx)
        /\ master \in MasterType /\ Requested(mbx, regs, master)
    BY InvFacts DEF MasterType, Inv, TypeOK
  <1> DEFINE msg == mbx.sm1
             k == Base(mbx)
             q == Append(master.got, msg)
             open == IF Final(msg) THEN master.open \ {Proto[msg.kind]} ELSE master.open
  <1>2. /\ MasterReady /\ msg # Empty /\ mbx' = [mbx EXCEPT !.sm1 = Empty]
        /\ master' = IF msg.cnt = master.lastCnt THEN master
                     ELSE [master EXCEPT !.got = q, !.lastCnt = msg.cnt, !.open = open]
        /\ regs' = regs /\ loop' = loop
    BY DEF MasterRead
  <1>3. /\ mbx'.sent = mbx.sent /\ mbx'.sm1 = Empty
        /\ k \in Nat /\ k + 1 <= Len(mbx.sent)
        /\ Taken(mbx) = k /\ Taken(mbx') = k + 1 /\ msg = mbx.sent[k + 1]
    BY <1>1, <1>2, ResponseTaken
  <1>4. /\ Len(master.got) \in Nat /\ Len(master.got) <= Len(mbx.sent)
        /\ \A i \in 1 .. Len(master.got) : master.got[i] = mbx.sent[i]
        /\ master.lastCnt = IF master.got = <<>> THEN 0
                            ELSE mbx.sent[Len(master.got)].cnt
        /\ Len(master.got) = k \/ Len(master.got) = k + 1
    BY <1>2, <1>3, ReadyFacts
  <1>5. /\ master.got \in Seq(Message) /\ msg \in Message /\ mbx.sent \in Seq(Message)
        /\ master.open \in SUBSET {"coe", "foe"} /\ master.up
    BY <1>1, <1>2 DEF MasterType, Fields, MasterReady
  <1>6. /\ \A i \in 1 .. Len(mbx.sent) : mbx.sent[i].cnt >= 1
        /\ \A i \in 1 .. Len(mbx.sent) - 1 : mbx.sent[i].cnt # mbx.sent[i + 1].cnt
    BY <1>1 DEF Good, Core, Counters
  <1>7. open \in SUBSET {"coe", "foe"} BY <1>5
  <1>8. Len(master.got) = 0 <=> master.got = <<>> BY <1>5, EmptySeq
  <1>9. Len(mbx.sent) \in Nat BY <1>5, LenProperties
  <1> HIDE DEF k, open
  <1>10. CASE Len(master.got) = k
    <2>1. msg.cnt # master.lastCnt
      <3>1. CASE k = 0
        <4>1. master.lastCnt = 0 BY <1>4, <1>8, <1>10, <3>1
        <4>2. 1 \in 1 .. Len(mbx.sent) /\ msg = mbx.sent[1] BY <1>3, <1>9, <3>1
        <4>3. msg.cnt >= 1 BY <1>6, <4>2
        <4>4. msg.cnt \in Int BY <1>5, MailboxAssumption DEF Message
        <4> QED BY <4>1, <4>3, <4>4
      <3>2. CASE k # 0
        <4>1. master.lastCnt = mbx.sent[k].cnt BY <1>4, <1>8, <1>10, <3>2
        <4>2. k \in 1 .. Len(mbx.sent) - 1 BY <1>3, <1>9, <3>2
        <4>3. mbx.sent[k].cnt # mbx.sent[k + 1].cnt BY <1>6, <4>2
        <4> QED BY <1>3, <4>1, <4>3
      <3> QED BY <3>1, <3>2
    <2>2. q \in Seq(Message) /\ Len(q) = k + 1 /\ q[k + 1] = msg
          /\ \A i \in 1 .. k : q[i] = master.got[i]
      BY <1>5, <1>10, AppendProperties
    <2> HIDE DEF q
    <2>3. /\ master' = [master EXCEPT !.got = q, !.lastCnt = msg.cnt, !.open = open]
          /\ msg.cnt \in 0 .. MaxCounter
      BY <1>2, <1>5, <2>1 DEF Message
    <2>4. /\ master' \in MasterType /\ master'.got = q /\ master'.lastCnt = msg.cnt
          /\ master'.up = master.up /\ master'.n = master.n /\ master'.last = master.last
          /\ master'.unsure = master.unsure
      BY <1>1, <1>7, <2>2, <2>3 DEF MasterType
    <2>5. \A i \in 1 .. Len(q) : q[i] = mbx.sent[i]
      <3>1. TAKE i \in 1 .. Len(q)
      <3>2. i \in 1 .. k \/ i = k + 1 BY <1>3, <2>2
      <3>3. CASE i \in 1 .. k BY <1>4, <1>10, <2>2, <3>3
      <3>4. CASE i = k + 1 BY <1>3, <2>2, <3>4
      <3> QED BY <3>2, <3>3, <3>4
    <2>6. q # <<>>
      <3>1. Len(<<>>) = 0 OBVIOUS
      <3> QED BY <1>3, <2>2, <3>1
    <2>7. master'.lastCnt = mbx.sent[Len(q)].cnt BY <1>3, <2>2, <2>4
    <2>8. Place(mbx', regs', master')
      BY <1>3, <1>5, <2>2, <2>4, <2>5, <2>6, <2>7 DEF Place
    <2> QED BY <1>2, <2>4, <2>8, ReadEvent
  <1>11. CASE Len(master.got) = k + 1
    <2>1. k + 1 # 0 BY <1>3
    <2>2. master.lastCnt = msg.cnt BY <1>3, <1>4, <1>8, <1>11, <2>1
    <2>3. master' = master BY <1>2, <2>2
    <2>4. Place(mbx', regs', master') BY <1>3, <1>4, <1>5, <1>11, <2>3 DEF Place
    <2> QED BY <1>1, <1>2, <2>3, <2>4, ReadEvent
  <1> QED BY <1>4, <1>10, <1>11

LEMMA ReadLostStep ==
    ASSUME Inv, NEW answered \in BOOLEAN, MasterReadLost(answered)
    PROVE  Inv'
  <1>1. /\ mbx \in Fields /\ Good(mbx) /\ Order(mbx) /\ Count(mbx)
        /\ master \in MasterType /\ Requested(mbx, regs, master)
        /\ Signals(mbx, regs, loop, master) /\ Place(mbx, regs, master)
    BY InvFacts DEF MasterType, Inv, TypeOK
  <1>2. /\ MasterReady /\ master.losses < MaxLosses
        /\ answered => mbx.sm1 # Empty
        /\ mbx' = IF answered THEN [mbx EXCEPT !.sm1 = Empty] ELSE mbx
        /\ master' = [master EXCEPT !.lost = TRUE, !.losses = @ + 1]
        /\ regs' = regs /\ loop' = loop
    BY DEF MasterReadLost
  <1>3. master.losses + 1 \in 0 .. MaxLosses
    BY <1>1, <1>2, MailboxAssumption DEF MasterType
  <1> DEFINE n == master.losses + 1
  <1>4. master' = [master EXCEPT !.lost = TRUE, !.losses = n] BY <1>2
  <1> HIDE DEF n
  <1>5. /\ master' \in MasterType /\ master'.lost
        /\ master'.up = master.up /\ master'.n = master.n /\ master'.last = master.last
        /\ master'.unsure = master.unsure /\ master'.got = master.got
        /\ master'.lastCnt = master.lastCnt
    BY <1>1, <1>3, <1>4 DEF MasterType, n
  <1>6. /\ Linked(mbx, regs)
        /\ Len(master.got) \in Nat /\ Len(master.got) <= Len(mbx.sent)
        /\ \A i \in 1 .. Len(master.got) : master.got[i] = mbx.sent[i]
        /\ master.lastCnt = IF master.got = <<>> THEN 0
                            ELSE mbx.sent[Len(master.got)].cnt
        /\ \/ Len(master.got) = Taken(mbx)
           \/ Len(master.got) = Taken(mbx) + 1 /\ mbx.sm1 # Empty /\ mbx.repeat = 0
    BY <1>2, ReadyFacts
  <1>7. master.up /\ regs.repeat = regs.ack BY <1>2 DEF MasterReady
  <1>8. CASE answered
    <2>1. mbx' = [mbx EXCEPT !.sm1 = Empty] /\ mbx.sm1 # Empty BY <1>2, <1>8
    <2>2. /\ mbx'.sent = mbx.sent /\ Behind(mbx')
          /\ Base(mbx) \in Nat /\ Taken(mbx) = Base(mbx) /\ Taken(mbx') = Base(mbx) + 1
      BY <1>1, <2>1, ResponseTaken
    <2>3. Len(master.got) = Taken(mbx') \/ Len(master.got) = Taken(mbx') - 1
      BY <1>6, <2>2
    <2>4. Place(mbx', regs', master') BY <1>5, <1>6, <1>7, <2>2, <2>3 DEF Place
    <2> QED BY <1>2, <1>5, <2>1, <2>4, ReadEvent
  <1>9. CASE ~answered
    <2>1. mbx' = mbx BY <1>2, <1>9
    <2>2. Place(mbx, regs, master') BY <1>5, <1>6, <1>7 DEF Place
    <2>3. Requested(mbx, regs, master') BY <1>1, <1>5 DEF Requested
    <2>4. Signals(mbx, regs, loop, master') BY <1>1, <1>5, <1>7 DEF Signals
    <2>5. TypeOK' BY <1>2, <1>5, <2>1 DEF Inv, TypeOK, MasterType
    <2> QED BY <1>2, <2>1, <2>2, <2>3, <2>4, <2>5 DEF Inv
  <1> QED BY <1>8, <1>9

LEMMA RepeatStep ==
    ASSUME Inv, MasterRepeat
    PROVE  Inv'
  <1>1. /\ regs \in RegsType
        /\ master \in MasterType /\ Requested(mbx, regs, master)
        /\ Signals(mbx, regs, loop, master) /\ Place(mbx, regs, master)
        /\ master.got \in Seq(Message)
    BY InvFacts DEF MasterType, RegsType, Inv, TypeOK
  <1>2. /\ master.up /\ master.lost
        /\ regs' = [regs EXCEPT !.repeat = ~@]
        /\ master' = [master EXCEPT !.lost = FALSE]
        /\ mbx' = mbx /\ loop' = loop
    BY DEF MasterRepeat
  <1>3. /\ regs' \in RegsType /\ regs'.repeat = ~regs.repeat /\ regs'.ack = regs.ack
        /\ regs'.al = regs.al /\ regs'.written = regs.written
    BY <1>1, <1>2 DEF RegsType
  <1>4. /\ master' \in MasterType /\ ~master'.lost
        /\ master'.up = master.up /\ master'.n = master.n /\ master'.last = master.last
        /\ master'.unsure = master.unsure /\ master'.got = master.got
        /\ master'.lastCnt = master.lastCnt
    BY <1>1, <1>2 DEF MasterType
  <1>5. regs.repeat = regs.ack BY <1>1, <1>2 DEF Signals
  <1>6. regs'.repeat # regs'.ack BY <1>1, <1>3, <1>5 DEF RegsType
  <1>7. Linked(mbx, regs) BY <1>1, <1>2 DEF Requested, Linked
  <1>8. ~Repeating(mbx, loop)
    <2>1. Repeating(mbx, loop) => regs.repeat = loop.repeat /\ regs.ack = mbx.toggle
      BY <1>1, <1>7 DEF Signals
    <2> QED BY <1>5, <2>1 DEF Repeating
  <1>9. Signals(mbx, regs', loop, master') BY <1>1, <1>3, <1>4, <1>8 DEF Signals
  <1>10. Place(mbx, regs', master')
    <2>1. Linked(mbx, regs') BY <1>3, <1>7 DEF Linked
    <2>2. /\ Len(master.got) <= Len(mbx.sent)
          /\ \A i \in 1 .. Len(master.got) : master.got[i] = mbx.sent[i]
          /\ master.lastCnt = IF master.got = <<>> THEN 0
                              ELSE mbx.sent[Len(master.got)].cnt
          /\ \/ Len(master.got) = Taken(mbx)
             \/ Len(master.got) = Taken(mbx) - 1 /\ Behind(mbx)
             \/ Len(master.got) = Taken(mbx) + 1 /\ mbx.sm1 # Empty /\ mbx.repeat = 0
      BY <1>1, <1>7 DEF Place
    <2>3. master'.up BY <1>2, <1>4
    <2> QED BY <1>4, <1>6, <2>2, <2>3 DEF Place
  <1>11. Requested(mbx, regs', master') BY <1>1, <1>3, <1>4 DEF Requested
  <1>12. TypeOK' BY <1>2, <1>3, <1>4 DEF Inv, TypeOK, RegsType, MasterType
  <1> QED BY <1>2, <1>9, <1>10, <1>11, <1>12 DEF Inv

LEMMA InitStep ==
    ASSUME Inv, MasterInit
    PROVE  Inv'
  <1>1. /\ regs \in RegsType
        /\ master \in MasterType /\ Requested(mbx, regs, master)
        /\ Signals(mbx, regs, loop, master)
    BY InvFacts DEF MasterType, RegsType, Inv, TypeOK
  <1>2. /\ master.up /\ master.restarts < MaxRestarts
        /\ regs' = [regs EXCEPT !.al = "init"]
        /\ master' = [master EXCEPT !.up = FALSE, !.restarts = @ + 1,
                                    !.last = Empty, !.unsure = FALSE,
                                    !.lost = FALSE, !.open = {},
                                    !.lastCnt = 0, !.got = <<>>]
        /\ mbx' = mbx /\ loop' = loop
    BY DEF MasterInit
  <1>3. /\ regs' \in RegsType /\ regs'.al = "init" /\ regs'.ack = regs.ack
        /\ regs'.written = regs.written
    BY <1>1, <1>2 DEF RegsType
  <1>4. master.restarts + 1 \in 0 .. MaxRestarts
    BY <1>1, <1>2, MailboxAssumption DEF MasterType
  <1> DEFINE n == master.restarts + 1
             v == [master EXCEPT !.up = FALSE, !.restarts = n]
             w == [v EXCEPT !.last = Empty, !.unsure = FALSE]
             x == [w EXCEPT !.lost = FALSE, !.open = {}]
  <1>5. master' = [x EXCEPT !.lastCnt = 0, !.got = <<>>]
    BY <1>1, <1>2 DEF MasterType
  <1> HIDE DEF n
  <1>6. /\ v \in MasterType /\ ~v.up /\ v.n = master.n
    BY <1>1, <1>4 DEF MasterType, n
  <1> HIDE DEF v
  <1>7. /\ w \in MasterType /\ ~w.up /\ ~w.unsure /\ w.n = master.n
    BY <1>6, EmptyMessage DEF MasterType
  <1> HIDE DEF w
  <1>8. /\ x \in MasterType /\ ~x.up /\ ~x.unsure /\ x.n = master.n /\ ~x.lost
    BY <1>7 DEF MasterType
  <1> HIDE DEF x
  <1>9. /\ master' \in MasterType /\ ~master'.up /\ ~master'.unsure
        /\ master'.n = master.n /\ ~master'.lost /\ master'.lastCnt = 0
        /\ master'.got = <<>>
    <2>1. 0 \in 0 .. MaxCounter /\ <<>> \in Seq(Message)
      BY MailboxAssumption, EmptySeq
    <2> DEFINE e == <<>>
    <2>2. e \in Seq(Message) BY <2>1
    <2>3. master' = [x EXCEPT !.lastCnt = 0, !.got = e] BY <1>5
    <2> HIDE DEF e
    <2>4. /\ master' \in MasterType /\ ~master'.up /\ ~master'.unsure
          /\ master'.n = master.n /\ ~master'.lost /\ master'.lastCnt = 0
          /\ master'.got = e
      BY <1>8, <2>1, <2>2, <2>3 DEF MasterType
    <2> QED BY <2>4 DEF e
  <1>10. ~Linked(mbx, regs') BY <1>3 DEF Linked
  <1>11. Signals(mbx, regs', loop, master') BY <1>1, <1>3, <1>9, <1>10 DEF Signals
  <1>12. Place(mbx, regs', master') BY <1>9, <1>10 DEF Place
  <1>13. Requested(mbx, regs', master') BY <1>1, <1>3, <1>9 DEF Requested
  <1>14. TypeOK' BY <1>2, <1>3, <1>9 DEF Inv, TypeOK, RegsType, MasterType
  <1> QED BY <1>2, <1>11, <1>12, <1>13, <1>14 DEF Inv

LEMMA PreopStep ==
    ASSUME Inv, MasterPreop
    PROVE  Inv'
  <1>1. /\ regs \in RegsType /\ Requested(mbx, regs, master)
        /\ Signals(mbx, regs, loop, master) /\ Place(mbx, regs, master)
    BY InvFacts DEF RegsType, Inv, TypeOK
  <1>2. /\ ~master.up /\ ~mbx.running
        /\ regs' = [regs EXCEPT !.al = "preop", !.repeat = FALSE]
        /\ mbx' = mbx /\ loop' = loop /\ master' = master
    BY DEF MasterPreop
  <1>3. /\ regs' \in RegsType /\ regs'.al = "preop" /\ regs'.ack = regs.ack
        /\ regs'.written = regs.written
    BY <1>1, <1>2 DEF RegsType
  <1>4. ~Linked(mbx, regs') /\ ~master.lost BY <1>1, <1>2 DEF Linked, Signals
  <1>5. Signals(mbx, regs', loop, master) BY <1>1, <1>2, <1>3, <1>4 DEF Signals
  <1>6. Place(mbx, regs', master) BY <1>1, <1>4 DEF Place
  <1>7. Requested(mbx, regs', master) BY <1>1, <1>2, <1>3 DEF Requested
  <1>8. TypeOK' BY <1>2, <1>3 DEF Inv, TypeOK, RegsType
  <1> QED BY <1>2, <1>5, <1>6, <1>7, <1>8 DEF Inv

LEMMA UpStep ==
    ASSUME Inv, MasterUp
    PROVE  Inv'
  <1>1. /\ master \in MasterType /\ Requested(mbx, regs, master)
        /\ Signals(mbx, regs, loop, master) /\ Place(mbx, regs, master)
    BY InvFacts DEF MasterType, Inv, TypeOK
  <1>2. /\ ~master.up /\ mbx.running /\ regs.al = "none"
        /\ master' = [master EXCEPT !.up = TRUE]
        /\ mbx' = mbx /\ regs' = regs /\ loop' = loop
    BY DEF MasterUp
  <1>3. /\ master' \in MasterType /\ master'.up
        /\ master'.n = master.n /\ master'.last = master.last
        /\ master'.unsure = master.unsure /\ master'.got = master.got
        /\ master'.lost = master.lost /\ master'.lastCnt = master.lastCnt
    BY <1>1, <1>2 DEF MasterType
  <1>4. ~master.unsure /\ ~master.lost BY <1>1, <1>2 DEF Requested, Signals
  <1>5. Signals(mbx, regs, loop, master') BY <1>1, <1>3, <1>4 DEF Signals
  <1>6. Place(mbx, regs, master') BY <1>1, <1>3 DEF Place
  <1>7. Requested(mbx, regs, master') BY <1>1, <1>2, <1>3, <1>4 DEF Requested
  <1>8. TypeOK' BY <1>2, <1>3 DEF Inv, TypeOK, MasterType
  <1> QED BY <1>2, <1>5, <1>6, <1>7, <1>8 DEF Inv

-----------------------------------------------------------------------------
(* The invariant.                                                          *)

\* After power-up nothing is allocated, sent or served.
LEMMA InitInv ==
    ASSUME Init
    PROVE  Inv
  <1> DEFINE s == mbx
  <1>1. /\ MaxQueue \in Nat /\ MaxCounter \in Nat /\ MaxReq \in Nat /\ MaxLosses \in Nat
        /\ MaxRetries \in Nat /\ MaxFails \in Nat /\ MaxRestarts \in Nat
        /\ ListFrags \in Nat \ {0} /\ EoeFrags \in Nat \ {0} /\ 0 \in Pointer
        /\ Empty \in Message /\ Empty.req = 0
    BY MailboxAssumption, EmptyMessage DEF Pointer
  <1>2. /\ s.running = FALSE /\ s.sm0 = Empty /\ s.sm1 = Empty
        /\ s.rxq = <<>> /\ s.txq = <<>> /\ s.read = 0 /\ s.repeat = 0 /\ s.store = 0
        /\ s.full = FALSE /\ s.toggle = FALSE /\ s.locked = FALSE /\ s.stored = {}
    BY DEF Init
  <1>3. /\ s.wcnt = 0 /\ s.rcnt = 0
        /\ s.coeStored = 0 /\ s.foeStored = 0 /\ s.eoeStored = 0
        /\ s.eoePending = FALSE /\ s.heap = {} /\ s.strays = 0 /\ s.freedTwice = FALSE
        /\ s.sent = <<>> /\ s.served = <<>>
    BY DEF Init
  <1>4. s \in Fields
    <2>1. [b \in Buffers |-> Empty] \in [Buffers -> Message] BY <1>1
    <2>2. /\ <<>> \in Seq(Buffers) /\ <<>> \in Seq(Message) /\ <<>> \in Seq(1 .. MaxReq)
      BY EmptySeq
    <2>3. /\ 0 \in 0 .. MaxCounter /\ 0 \in 0 .. MaxCounter + 1 /\ 0 \in 0 .. ListFrags
          /\ 0 \in 0 .. MaxReq /\ 0 \in 0 .. EoeFrags - 1 /\ 0 \in 0 .. MaxFails
          /\ 0 \in Nat
      BY <1>1
    <2> DEFINE e == Empty
               f == [b \in Buffers |-> Empty]
               q == <<>>
    <2>4. s = [running |-> FALSE, sm0 |-> e, sm1 |-> e,
               rxq |-> q, txq |-> q, read |-> 0, repeat |-> 0, store |-> 0,
               full |-> FALSE, toggle |-> FALSE, locked |-> FALSE, stored |-> {},
               wcnt |-> 0, rcnt |-> 0,
               coeStored |-> 0, foeStored |-> 0, eoeStored |-> 0,
               fragsLeft |-> 0, nextFrag |-> 0, listReq |-> 0,
               eoePending |-> FALSE, eoeFrag |-> 0, eoeReq |-> 0,
               heap |-> {}, buf |-> f,
               strays |-> 0, freedTwice |-> FALSE, fails |-> 0,
               sent |-> q, served |-> q]
      BY DEF Init
    <2>5. /\ e \in Message /\ f \in [Buffers -> Message]
          /\ q \in Seq(Buffers) /\ q \in Seq(Message) /\ q \in Seq(1 .. MaxReq)
      BY <1>1, <2>1, <2>2
    <2> HIDE DEF e, f, q, s
    <2> QED BY <1>1, <2>3, <2>4, <2>5 DEF Fields
  <1> HIDE DEF s
  <1>5. /\ ToSet(<<>>) = {} /\ IsInjective(<<>>) /\ Len(<<>>) = 0
    BY <1>1, DerefFacts
  <1>6. Kept(s) = {} /\ Held2(s) = {} /\ Lost(s) = {}
    BY <1>2, <1>3, <1>5 DEF Kept, Held2, Lost
  <1>7. Apart(s) /\ Quiet(s)
    <2>1. Apart(s) BY <1>2, <1>5 DEF Apart
    <2> QED BY <1>2, <2>1 DEF Quiet
  <1>8. Base(s) = 0 /\ Taken(s) = 0
    <2>1. /\ Len(s.sent) = 0 /\ Len(s.txq) = 0
          /\ (IF s.store # 0 THEN 1 ELSE 0) = 0 /\ (IF s.full THEN 1 ELSE 0) = 0
      BY <1>2, <1>3, <1>5
    <2>2. Base(s) = 0 BY <2>1 DEF Base
    <2> QED BY <1>2, <2>2 DEF Taken
  <1>9. Line(s) /\ Counters(s)
    <2>1. Line(s)
      <3>1. Len(s.txq) = 0 BY <1>2, <1>5
      <3>2. \A i \in 1 .. Len(s.txq) :
               s.buf[s.txq[i]] = s.sent[Len(s.sent) - Len(s.txq) + i]
        BY <3>1
      <3>3. /\ s.repeat = 0 /\ s.store = 0 /\ s.full = FALSE /\ s.sm1 = Empty
            /\ Base(s) \in Nat
        BY <1>2, <1>8
      <3> QED BY <3>2, <3>3 DEF Line
    <2>2. Counters(s) BY <1>2, <1>3, <1>5 DEF Counters
    <2> QED BY <2>1, <2>2
  <1>10. Good(s)
    <2>1. Core(s) BY <1>3, <1>4, <1>6, <1>7, <1>9 DEF Core
    <2>2. Stores(s) BY <1>3, <1>6 DEF Stores
    <2>3. Asked(s) BY <1>2, <1>3 DEF Asked
    <2> QED BY <2>1, <2>2, <2>3 DEF Good
  <1>11. /\ regs = [repeat |-> FALSE, ack |-> FALSE, written |-> FALSE, al |-> "none"]
         /\ loop = [pc |-> "Serve", repeat |-> FALSE, status |-> FALSE]
         /\ master = [up |-> FALSE, n |-> 0, last |-> Empty, unsure |-> FALSE,
                      lost |-> FALSE, open |-> {}, lastCnt |-> 0, got |-> <<>>,
                      losses |-> 0, retries |-> 0, restarts |-> 0]
    BY DEF Init
  <1>12. Room(s, loop.pc) BY <1>2, <1>11 DEF Room
  <1>13. Count(s) BY <1>3, <1>6, FS_EmptySet DEF Count
  <1>14. Order(s) BY <1>2, <1>3, <1>5 DEF Order
  <1>15. Requested(s, regs, master)
    <2>1. Later(s, master.n + 1) BY <1>2, <1>3, <1>5 DEF Later
    <2> QED BY <1>2, <1>11, <2>1 DEF Requested
  <1>16. Signals(s, regs, loop, master) BY <1>2, <1>11 DEF Signals, Linked
  <1>17. Place(s, regs, master) BY <1>2, <1>11 DEF Place, Linked
  <1>18. TypeOK
    <2>1. s \in Handler BY <1>4, <1>14, StraysBounded
    <2>2. /\ 0 \in 0 .. MaxReq /\ 0 \in 0 .. MaxCounter /\ 0 \in 0 .. MaxLosses
          /\ 0 \in 0 .. MaxRetries /\ 0 \in 0 .. MaxRestarts /\ <<>> \in Seq(Message)
      BY <1>1, EmptySeq
    <2>3. regs \in RegsType /\ loop \in LoopType BY <1>11 DEF RegsType, LoopType
    <2> DEFINE e == Empty
               q == <<>>
    <2>4. /\ e \in Message /\ q \in Seq(Message)
          /\ master = [up |-> FALSE, n |-> 0, last |-> e, unsure |-> FALSE,
                       lost |-> FALSE, open |-> {}, lastCnt |-> 0, got |-> q,
                       losses |-> 0, retries |-> 0, restarts |-> 0]
      BY <1>1, <1>11, <2>2
    <2> HIDE DEF e, q
    <2>5. master \in MasterType BY <2>2, <2>4 DEF MasterType
    <2> QED BY <2>1, <2>3, <2>5 DEF TypeOK, RegsType, LoopType, MasterType, s
  <1> QED BY <1>10, <1>12, <1>13, <1>14, <1>15, <1>16, <1>17, <1>18 DEF Inv, s

LEMMA NextInv ==
    ASSUME Inv, [Next]_vars
    PROVE  Inv'
  <1>1. CASE ECAT_Main
    BY <1>1, Serve, TailStep, ReadActivateStep, ReadStatusStep, AlControlStep,
       HandleReadStep, HandleRepeatStep, HandleWriteStep DEF ECAT_Main
  <1>2. CASE Master
    <2>1. CASE \E kind \in Kinds, confirmed \in BOOLEAN : MasterWrite(kind, confirmed)
      BY <2>1, WriteStep
    <2>2. CASE \E answered \in BOOLEAN : MasterReadLost(answered)
      BY <2>2, ReadLostStep
    <2>3. CASE MasterInit BY <2>3, InitStep
    <2>4. CASE MasterKeepsUp
      BY <2>4, ReadStep, RepeatStep, RewriteStep, PreopStep, UpStep DEF MasterKeepsUp
    <2> QED BY <1>2, <2>1, <2>2, <2>3, <2>4 DEF Master
  <1>3. CASE UNCHANGED vars
    <2>1. mbx' = mbx /\ regs' = regs /\ loop' = loop /\ master' = master
      BY <1>3 DEF vars
    <2>2. TypeOK' BY <2>1 DEF Inv, TypeOK
    <2> QED BY <2>1, <2>2 DEF Inv
  <1> QED BY <1>1, <1>2, <1>3 DEF Next

\* The inductive invariant: what the handler keeps, where the responses are,
\* and how far the master and the handler agree.
THEOREM Invariance == Spec => []Inv
  <1>1. Init => Inv BY InitInv
  <1>2. Inv /\ [Next]_vars => Inv' BY NextInv
  <1> QED BY <1>1, <1>2, PTL DEF Spec

-----------------------------------------------------------------------------
(* The properties.                                                         *)

\* The elements of a sequence without repetition are as many as it is long.
LEMMA CountSeq ==
    ASSUME NEW S, NEW q \in Seq(S), IsInjective(q)
    PROVE  IsFiniteSet(ToSet(q)) /\ Cardinality(ToSet(q)) = Len(q)
  <1> DEFINE n == Len(q)
             f == [i \in 1 .. n |-> q[i]]
  <1>1. n \in Nat /\ ToSet(q) = {q[i] : i \in 1 .. n} BY SetOfSeq
  <1>2. \A i, j \in 1 .. n : q[i] = q[j] => i = j BY InjectiveSeq
  <1> HIDE DEF n
  <1>3. f \in [1 .. n -> ToSet(q)] BY <1>1
  <1>4. \A e \in ToSet(q) : \E i \in 1 .. n : f[i] = e BY <1>1
  <1>5. \A i, j \in 1 .. n : f[i] = f[j] => i = j BY <1>2
  <1> HIDE DEF f
  <1>6. f \in Bijection(1 .. n, ToSet(q))
    BY <1>3, <1>4, <1>5 DEF Bijection, Injection, Surjection, IsInjective
  <1>7. ExistsBijection(1 .. n, ToSet(q)) BY <1>6 DEF ExistsBijection
  <1>8. IsFiniteSet(1 .. n) /\ Cardinality(1 .. n) = n
    <2>1. /\ IsFiniteSet(1 .. n)
          /\ Cardinality(1 .. n) = IF 1 > n THEN 0 ELSE n - 1 + 1
      BY <1>1, FS_Interval
    <2> QED BY <1>1, <2>1
  <1>9. IsFiniteSet(ToSet(q)) /\ Cardinality(ToSet(q)) = n
    BY <1>7, <1>8, FS_Bijection
  <1> QED BY <1>9 DEF n

\* Held names every buffer that the handler or a service keeps, each once.
LEMMA HeldOnce ==
    ASSUME Good(mbx)
    PROVE  /\ Held \in Seq(Buffers) /\ IsInjective(Held)
           /\ ToSet(Held) = Kept(mbx) \cup Held2(mbx)
  <1> DEFINE s == mbx
             p1 == IF s.full THEN Deref(s.read) ELSE <<>>
             p2 == Deref(s.repeat)
             p3 == Deref(s.store)
             p4 == Deref(s.coeStored)
             p5 == Deref(s.foeStored)
             p6 == Deref(s.eoeStored)
             q2 == p1 \o p2
             q3 == q2 \o p3
             q4 == q3 \o p4
             q5 == q4 \o p5
             q6 == q5 \o p6
             q7 == q6 \o s.rxq
             q8 == q7 \o s.txq
             r  == IF s.full THEN {s.read} ELSE {}
             a  == {s.repeat} \ {0}
             b  == {s.store} \ {0}
             c  == {s.coeStored} \ {0}
             e  == {s.eoeStored} \ {0}
             x  == ToSet(s.rxq)
             y  == ToSet(s.txq)
  <1>1. Good(s) OBVIOUS
  <1>2. Held = q8 BY DEF Held
  <1> HIDE DEF s
  <1>3. /\ {s.repeat, s.store, s.read, s.coeStored, s.foeStored, s.eoeStored} \subseteq Pointer
        /\ s.rxq \in Seq(Buffers) /\ s.txq \in Seq(Buffers) /\ s.full \in BOOLEAN
        /\ Apart(s) /\ Stores(s)
    BY <1>1, GoodFacts DEF Good, Core, Fields
  <1>4. /\ r \cap a = {} /\ r \cap b = {} /\ a \cap b = {}
        /\ x \cap (r \cup a \cup b) = {} /\ y \cap (r \cup a \cup b \cup x) = {}
        /\ s.full => s.read # 0
    <2>1. /\ s.full => s.read # 0 /\ s.read # s.repeat /\ s.read # s.store
          /\ s.repeat # 0 => s.repeat # s.store
      BY <1>3 DEF Apart
    <2>2. /\ \A d \in x \cup y : d \notin {s.read, s.repeat, s.store}
          /\ x \cap y = {}
      BY <1>3 DEF Apart
    <2>3. r \subseteq {s.read} BY <1>3
    <2>4. r \cap a = {} /\ r \cap b = {} /\ a \cap b = {} BY <1>3, <2>1
    <2> HIDE DEF r, x, y
    <2>5. x \cap (r \cup a \cup b) = {} /\ y \cap (r \cup a \cup b \cup x) = {}
      BY <2>2, <2>3
    <2> QED BY <2>1, <2>4, <2>5
  <1>5. IsInjective(s.rxq) /\ IsInjective(s.txq) BY <1>3 DEF Apart
  <1>6. /\ c \cap (r \cup a \cup b \cup x \cup y) = {}
        /\ e \cap (r \cup a \cup b \cup x \cup y) = {} /\ c \cap e = {}
        /\ s.foeStored = 0
    <2>1. Kept(s) = r \cup a \cup b \cup x \cup y /\ Held2(s) = c \cup e
      BY DEF Kept, Held2
    <2>2. Held2(s) \cap Kept(s) = {} /\ s.foeStored = 0 BY <1>3 DEF Stores
    <2>3. c \cap e = {} BY <1>3 DEF Stores
    <2> HIDE DEF r, a, b, c, e, x, y
    <2> QED BY <2>1, <2>2, <2>3
  <1>7. /\ Kept(s) = r \cup a \cup b \cup x \cup y /\ Held2(s) = c \cup e
    BY DEF Kept, Held2
  <1>8. p1 \in Seq(Buffers) /\ ToSet(p1) = r /\ IsInjective(p1)
    <2>1. CASE s.full BY <1>3, <1>4, <2>1, DerefFacts
    <2>2. CASE ~s.full BY <1>3, <2>2, DerefFacts
    <2> QED BY <2>1, <2>2
  <1>9. /\ p2 \in Seq(Buffers) /\ ToSet(p2) = a /\ IsInjective(p2)
        /\ p3 \in Seq(Buffers) /\ ToSet(p3) = b /\ IsInjective(p3)
        /\ p4 \in Seq(Buffers) /\ ToSet(p4) = c /\ IsInjective(p4)
        /\ p6 \in Seq(Buffers) /\ ToSet(p6) = e /\ IsInjective(p6)
    BY <1>3, DerefFacts
  <1>10. p5 \in Seq(Buffers) /\ ToSet(p5) = {} /\ IsInjective(p5)
    BY <1>3, <1>6, DerefFacts
  <1>11. ToSet(s.rxq) = x /\ ToSet(s.txq) = y OBVIOUS
  <1> HIDE DEF p1, p2, p3, p4, p5, p6, r, a, b, c, e, x, y
  <1>12. q2 \in Seq(Buffers) /\ ToSet(q2) = r \cup a /\ IsInjective(q2)
    BY <1>4, <1>8, <1>9, ConcatSet
  <1> HIDE DEF q2
  <1>13. q3 \in Seq(Buffers) /\ ToSet(q3) = r \cup a \cup b /\ IsInjective(q3)
    <2>1. (r \cup a) \cap b = {} BY <1>4
    <2> QED BY <1>9, <1>12, <2>1, ConcatSet
  <1> HIDE DEF q3
  <1>14. q4 \in Seq(Buffers) /\ ToSet(q4) = r \cup a \cup b \cup c /\ IsInjective(q4)
    <2>1. (r \cup a \cup b) \cap c = {} BY <1>6
    <2> QED BY <1>9, <1>13, <2>1, ConcatSet
  <1> HIDE DEF q4
  <1>15. q5 \in Seq(Buffers) /\ ToSet(q5) = r \cup a \cup b \cup c /\ IsInjective(q5)
    BY <1>10, <1>14, ConcatSet
  <1> HIDE DEF q5
  <1>16. q6 \in Seq(Buffers) /\ ToSet(q6) = r \cup a \cup b \cup c \cup e /\ IsInjective(q6)
    <2>1. (r \cup a \cup b \cup c) \cap e = {} BY <1>6
    <2> QED BY <1>9, <1>15, <2>1, ConcatSet
  <1> HIDE DEF q6
  <1>17. /\ q7 \in Seq(Buffers) /\ IsInjective(q7)
         /\ ToSet(q7) = r \cup a \cup b \cup c \cup e \cup x
    <2>1. (r \cup a \cup b \cup c \cup e) \cap x = {} BY <1>4, <1>6
    <2> QED BY <1>3, <1>5, <1>11, <1>16, <2>1, ConcatSet
  <1> HIDE DEF q7
  <1>18. /\ q8 \in Seq(Buffers) /\ IsInjective(q8)
         /\ ToSet(q8) = r \cup a \cup b \cup c \cup e \cup x \cup y
    <2>1. (r \cup a \cup b \cup c \cup e \cup x) \cap y = {} BY <1>4, <1>6
    <2> QED BY <1>3, <1>5, <1>11, <1>17, <2>1, ConcatSet
  <1> HIDE DEF q8
  <1>19. ToSet(q8) = Kept(s) \cup Held2(s) BY <1>7, <1>18
  <1> QED BY <1>2, <1>18, <1>19 DEF s

LEMMA AccountsAgree ==
    ASSUME Inv
    PROVE  BuffersAccounted
  <1>1. Good(mbx) /\ Core(mbx) /\ Stores(mbx) /\ Count(mbx) BY DEF Inv, Good
  <1>2. /\ Held \in Seq(Buffers) /\ IsInjective(Held)
        /\ ToSet(Held) = Kept(mbx) \cup Held2(mbx)
    BY <1>1, HeldOnce
  <1>3. ToSet(Held) \subseteq mbx.heap BY <1>1, <1>2 DEF Core, Stores
  <1>4. mbx.heap = ToSet(Held) \cup Lost(mbx) /\ ToSet(Held) \cap Lost(mbx) = {}
    BY <1>2, <1>3 DEF Lost
  <1>5. IsFiniteSet(ToSet(Held)) /\ Cardinality(ToSet(Held)) = Len(Held)
    BY <1>2, CountSeq
  <1>6. IsFiniteSet(Lost(mbx)) /\ Cardinality(Lost(mbx)) \in Nat
    BY <1>1, CountsFinite
  <1>7. Cardinality(mbx.heap) = Len(Held) + mbx.strays
    <2>1. Len(Held) \in Nat BY <1>2, LenProperties
    <2>2. Cardinality(mbx.heap)
            = Cardinality(ToSet(Held)) + Cardinality(Lost(mbx)) - Cardinality({})
      BY <1>4, <1>5, <1>6, FS_Union
    <2>3. Cardinality(Lost(mbx)) = mbx.strays BY <1>1 DEF Count
    <2> QED BY <1>5, <1>6, <2>1, <2>2, <2>3, FS_EmptySet
  <1> QED BY <1>1, <1>2, <1>3, <1>7 DEF BuffersAccounted, Stores

LEMMA GotIsPrefix ==
    ASSUME Inv
    PROVE  ResponsesInOrder
  <1> DEFINE g == master.got
             t == mbx.sent
             n == Len(g)
  <1>1. /\ g \in Seq(Message) /\ t \in Seq(Message)
        /\ Place(mbx, regs, master) /\ Requested(mbx, regs, master)
        /\ master.up \in BOOLEAN
    BY DEF Inv, TypeOK, Handler
  <1>2. n <= Len(t) /\ \A i \in 1 .. n : g[i] = t[i]
    <2>1. CASE Linked(mbx, regs) BY <1>1, <2>1 DEF Place
    <2>2. CASE ~Linked(mbx, regs)
      <3>1. ~master.up BY <1>1, <2>2 DEF Linked, Requested
      <3>2. g = <<>> BY <1>1, <3>1 DEF Place
      <3>3. n = 0 BY <3>2
      <3> QED BY <1>1, <3>3, LenProperties
    <2> QED BY <2>1, <2>2
  <1>3. n \in Nat /\ Len(t) \in Nat BY <1>1, LenProperties
  <1> HIDE DEF n
  <1>4. \A i \in 1 .. n : g[i] \in Message /\ t[i] \in Message
    <2>1. \A i \in 1 .. Len(t) : t[i] \in Message BY <1>1, ElementOfSeq
    <2>2. \A i \in 1 .. n : i \in 1 .. Len(t) BY <1>2, <1>3
    <2> QED BY <1>2, <2>1, <2>2
  <1> HIDE DEF g, t
  <1>5. /\ SubSeq(g, 1, n) \in Seq(Message) /\ Len(SubSeq(g, 1, n)) = n
        /\ \A i \in 1 .. n : SubSeq(g, 1, n)[i] = g[i]
    <2>1. /\ SubSeq(g, 1, n) \in Seq(Message)
          /\ Len(SubSeq(g, 1, n)) = IF 1 <= n THEN n - 1 + 1 ELSE 0
          /\ \A i \in 1 .. n - 1 + 1 : SubSeq(g, 1, n)[i] = g[1 + i - 1]
      BY <1>3, <1>4, SubSeqProperties
    <2> QED BY <1>3, <2>1
  <1>6. /\ SubSeq(t, 1, n) \in Seq(Message) /\ Len(SubSeq(t, 1, n)) = n
        /\ \A i \in 1 .. n : SubSeq(t, 1, n)[i] = t[i]
    <2>1. /\ SubSeq(t, 1, n) \in Seq(Message)
          /\ Len(SubSeq(t, 1, n)) = IF 1 <= n THEN n - 1 + 1 ELSE 0
          /\ \A i \in 1 .. n - 1 + 1 : SubSeq(t, 1, n)[i] = t[1 + i - 1]
      BY <1>3, <1>4, SubSeqProperties
    <2> QED BY <1>3, <2>1
  <1>7. SubSeq(g, 1, n) = SubSeq(t, 1, n)
    <2>1. \A i \in 1 .. n : SubSeq(g, 1, n)[i] = SubSeq(t, 1, n)[i]
      BY <1>2, <1>5, <1>6
    <2> QED BY <1>5, <1>6, <2>1, SeqEqual
  <1> QED BY <1>2, <1>7 DEF ResponsesInOrder, IsPrefix, g, t, n

\* Every variable keeps its type.  The counters of the two mailboxes wrap where
\* their three bits do, and strays counts no more buffers than were requested.
THEOREM TypeCorrect == Spec => []TypeOK
  <1>1. Inv => TypeOK BY DEF Inv
  <1> QED BY <1>1, Invariance, PTL

\* However reads are lost and repeated, requests retried and the handler
\* stopped, each buffer has one owner, is freed once and is not forgotten, but
\* for those of the EoE fragments out of sequence.
THEOREM NoBufferLost == Spec => []BuffersAccounted
  <1>1. Inv => BuffersAccounted BY AccountsAgree
  <1> QED BY <1>1, Invariance, PTL

\* While a response is queued or stored for repetition, one is in the send
\* mailbox, so that the master's next read brings the others out.
THEOREM NothingWaitsBehindEmpty == Spec => []EmptyMailboxMeansNothingWaits
  <1>1. Inv => EmptyMailboxMeansNothingWaits
    BY DEF Inv, Good, Core, Quiet, EmptyMailboxMeansNothingWaits
  <1> QED BY <1>1, Invariance, PTL

\* What the master has taken for new is what the handler sent first, in its
\* order: nothing is missed, doubled or overtaken by a repetition.
THEOREM OnceAndInOrder == Spec => []ResponsesInOrder
  <1>1. Inv => ResponsesInOrder BY GotIsPrefix
  <1> QED BY <1>1, Invariance, PTL

\* A request is served once and after those sent before it, whether it was
\* written again, left in its mailbox or queued.
THEOREM RequestsServedOnce == Spec => []ServedOnce
  <1>1. Inv => ServedOnce
    <2> SUFFICES ASSUME Inv, NEW i \in 1 .. Len(mbx.served) - 1
                 PROVE  mbx.served[i] < mbx.served[i + 1]
      BY DEF ServedOnce
    <2>1. Order(mbx) /\ mbx.served \in Seq(1 .. MaxReq) BY DEF Inv, TypeOK, Handler
    <2>2. Len(mbx.served) \in Nat BY <2>1, LenProperties
    <2>3. i \in 1 .. Len(mbx.served) /\ i + 1 \in 1 .. Len(mbx.served) /\ i < i + 1
      BY <2>2
    <2> QED BY <2>1, <2>3 DEF Order
  <1> QED BY <1>1, Invariance, PTL

=============================================================================
