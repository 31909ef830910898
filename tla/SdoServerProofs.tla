--------------------------- MODULE SdoServerProofs ---------------------------
(***************************************************************************)
(* Proofs about SdoServer, for every set of requests, mailbox sizes and    *)
(* settings of the DC unit.  What is computed from the fixed dictionary    *)
(* comes from DictionaryFacts; what depends on the requests and on the     *)
(* order of the services is proved here.                                   *)
(***************************************************************************)
EXTENDS DictionaryFacts, SequenceTheorems, WellFoundedInduction, TLAPS

-----------------------------------------------------------------------------
(* Induction.                                                              *)

LEMMA Least ==
    ASSUME NEW T, T \subseteq Nat, T # {}
    PROVE  \E m \in T : \A k \in T : m <= k
  <1> DEFINE R == {ss \in Nat \X Nat : ss[1] < ss[2]}
  <1>1. OpToRel(<, Nat) = R BY DEF OpToRel
  <1>2. IsWellFoundedOn(R, Nat) BY <1>1, NatLessThanWellFounded
  <1> HIDE DEF R
  <1>3. PICK m \in T : \A k \in T : ~ (<<k, m>> \in R) BY <1>2, WFMin
  <1>4. \A k \in T : k < m => <<k, m>> \in R BY DEF R
  <1>5. ASSUME NEW k \in T PROVE m <= k
    <2>1. ~(k < m) BY <1>3, <1>4
    <2>2. k \in Nat /\ m \in Nat OBVIOUS
    <2> QED BY <2>1, <2>2
  <1> QED BY <1>5

\* From lo upwards, one by one.
LEMMA Climb ==
    ASSUME NEW S, NEW lo \in Int, NEW hi \in Int, lo <= hi => lo \in S,
           \A i \in lo..(hi - 1) : i \in S => i + 1 \in S
    PROVE  \A i \in lo..hi : i \in S
  <1> DEFINE T == {k \in Nat : lo + k <= hi /\ lo + k \notin S}
  <1> SUFFICES ASSUME NEW i \in lo..hi, i \notin S PROVE FALSE
    OBVIOUS
  <1>1. i - lo \in T OBVIOUS
  <1>2. PICK m \in T : \A k \in T : m <= k BY <1>1, Least
  <1>3. m # 0 OBVIOUS
  <1>4. m - 1 \notin T BY <1>2
  <1>5. m - 1 \in Nat /\ lo + (m - 1) \in lo..(hi - 1) BY <1>3
  <1>6. lo + (m - 1) \in S BY <1>4, <1>5
  <1>7. (lo + (m - 1)) + 1 \in S BY <1>5, <1>6
  <1>8. (lo + (m - 1)) + 1 = lo + m OBVIOUS
  <1> QED BY <1>7, <1>8

-----------------------------------------------------------------------------
(* The loop of OBJ_Write.                                                  *)

\* One round of it.
Round(c, i, r, data, old, sizes, st) ==
    IF c.abort # "none" THEN c ELSE WriteEntry(c, i, data, r, old, sizes, st)

\* The cursors of all rounds, the last of which is the result.
LEMMA Rounds ==
    ASSUME NEW r, r.sub \in Nat, NEW last \in Int, last >= r.sub - 1,
           NEW start, NEW data, NEW old, NEW sizes, NEW st
    PROVE  \E g : /\ g[r.sub - 1] = start
                  /\ \A i \in r.sub..last :
                        g[i] = Round(g[i - 1], i, r, data, old, sizes, st)
                  /\ WriteWalk(r, last, start, data, old, sizes, st) = g[last]
  <1> DEFINE lo == r.sub - 1
             Step(c, i) == Round(c, i, r, data, old, sizes, st)
             Eq(h, n) == h = [i \in lo..n |-> IF i < r.sub THEN start
                                              ELSE Step(h[i - 1], i)]
             S == {n \in lo..last : \E h : Eq(h, n)}
  <1>1. lo \in S
    <2> DEFINE h == [i \in lo..lo |-> start]
    <2>1. Eq(h, lo) OBVIOUS
    <2> QED BY <2>1
  <1>2. ASSUME NEW n \in lo..(last - 1), n \in S PROVE n + 1 \in S
    <2>1. PICK h : Eq(h, n) BY <1>2
    <2> DEFINE k == [i \in lo..(n + 1) |-> IF i = n + 1 THEN Step(h[n], n + 1) ELSE h[i]]
               e == [i \in lo..(n + 1) |-> IF i < r.sub THEN start ELSE Step(k[i - 1], i)]
    <2> HIDE DEF Step
    <2>2. ASSUME NEW i \in lo..(n + 1) PROVE k[i] = e[i]
      <3>1. CASE i = n + 1
        <4>1. k[n] = h[n] /\ ~(i < r.sub) /\ i - 1 = n BY <3>1
        <4> QED BY <3>1, <4>1
      <3>2. CASE i # n + 1
        <4>1. i \in lo..n BY <3>2
        <4>2. h[i] = IF i < r.sub THEN start ELSE Step(h[i - 1], i)
          <5> DEFINE rhs == [j \in lo..n |-> IF j < r.sub THEN start ELSE Step(h[j - 1], j)]
          <5>1. h[i] = rhs[i] BY <2>1
          <5> QED BY <4>1, <5>1
        <4>3. ~(i < r.sub) => k[i - 1] = h[i - 1] BY <4>1
        <4> QED BY <3>2, <4>1, <4>2, <4>3
      <3> QED BY <3>1, <3>2
    <2>3. k = e BY <2>2
    <2>4. Eq(k, n + 1) BY <2>3
    <2>5. n + 1 \in lo..last OBVIOUS
    <2> HIDE DEF k, Eq
    <2> QED BY <2>4, <2>5
  <1>3. last \in S
    <2>1. lo \in Int /\ lo <= last OBVIOUS
    <2> HIDE DEF S, lo
    <2>2. \A i \in lo..last : i \in S BY <1>1, <1>2, <2>1, Climb
    <2> QED BY <2>1, <2>2
  <1> DEFINE g == CHOOSE h : Eq(h, last)
  <1>4. Eq(g, last) BY <1>3
  <1>5. WriteWalk(r, last, start, data, old, sizes, st) = g[last]
    BY DEF WriteWalk, Round
  <1>6. ASSUME NEW i \in lo..last
        PROVE  g[i] = IF i < r.sub THEN start ELSE Step(g[i - 1], i)
    <2> HIDE DEF g, Step
    <2> DEFINE rhs == [j \in lo..last |-> IF j < r.sub THEN start ELSE Step(g[j - 1], j)]
    <2>1. g[i] = rhs[i] BY <1>4
    <2> QED BY <2>1
  <1>7. g[lo] = start
    <2> HIDE DEF g, Step
    <2>1. lo \in lo..last /\ lo < r.sub OBVIOUS
    <2> QED BY <1>6, <2>1
  <1>8. \A i \in r.sub..last : g[i] = Step(g[i - 1], i)
    <2> HIDE DEF g, Step
    <2> QED BY <1>6
  <1> QED BY <1>5, <1>7, <1>8

\* A cursor is a record of four fields.
Cursor(c) == DOMAIN c = {"p", "stored", "result", "abort"}

Entry0(r) == ObjectAt[r.x].code # "VAR"

\* Only entries from the first one on are stored, and only if they may be
\* written now; subindex 0 only if the object has so many entries.
StoredRight(stored, r, st) ==
    \A j \in DOMAIN stored :
        /\ j >= r.sub
        /\ WriteAllowed(OBJ_GetEntryDesc(ObjectAt[r.x], j), st)
        /\ j = 0 /\ Entry0(r) => ~(r.val[0] > ObjectAt[r.x].max)

LEMMA RoundKeeps ==
    ASSUME NEW c, Cursor(c), NEW r, NEW i, i >= r.sub, NEW data, NEW old, NEW sizes, NEW st,
           StoredRight(c.stored, r, st)
    PROVE  LET n == Round(c, i, r, data, old, sizes, st)
           IN  Cursor(n) /\ StoredRight(n.stored, r, st)
  <1> DEFINE o == ObjectAt[r.x]
             e == OBJ_GetEntryDesc(o, i)
             f == Offset[r.x][i]
             n == Round(c, i, r, data, old, sizes, st)
             w == WriteEntry(c, i, data, r, old, sizes, st)
             Kept(d) == Cursor(d) /\ d.stored = c.stored
             Gains(d) == Cursor(d) /\ \E v : d.stored = Store(c, i, v)
  <1>1. CASE c.abort # "none" BY <1>1 DEF Round
  <1>2. CASE ~WriteAllowed(e, st)
    <2>1. Kept(SkipUnwritten(c, i, e, f)) BY DEF SkipUnwritten, Cursor
    <2>2. w = SkipUnwritten(c, i, e, f) BY <1>2 DEF WriteEntry
    <2> QED BY <1>1, <2>1, <2>2 DEF Round
  <1>3. ASSUME WriteAllowed(e, st), Kept(w) \/ Gains(w),
               Gains(w) => (i = 0 /\ Entry0(r) => ~(r.val[0] > o.max))
        PROVE  Cursor(w) /\ StoredRight(w.stored, r, st)
    <2> HIDE DEF w, e, o
    <2>1. CASE Kept(w) BY <2>1
    <2>2. CASE Gains(w)
      <3>1. PICK v : w.stored = Store(c, i, v) BY <2>2
      <3>2. DOMAIN w.stored = DOMAIN c.stored \cup {i} BY <3>1 DEF Store
      <3>3. \A j \in DOMAIN w.stored :
              /\ j >= r.sub
              /\ WriteAllowed(OBJ_GetEntryDesc(ObjectAt[r.x], j), st)
              /\ j = 0 /\ Entry0(r) => ~(r.val[0] > ObjectAt[r.x].max)
        BY <1>3, <2>2, <3>2 DEF StoredRight, e, o
      <3> QED BY <2>2, <3>3 DEF StoredRight
    <2> QED BY <1>3, <2>1, <2>2
  <1>4. CASE c.abort = "none" /\ WriteAllowed(e, st) /\ i = 0 /\ o.code # "VAR"
    <2>1. w = StoreSi0(c, o, data, r.val) BY <1>4 DEF WriteEntry
    <2>2. CASE r.val[0] > o.max
      <3>1. Kept(w) /\ w.stored = c.stored BY <2>1, <2>2 DEF StoreSi0, Cursor
      <3> QED BY <1>4, <3>1 DEF Round
    <2>3. CASE ~(r.val[0] > o.max)
      <3>1. Gains(w) BY <1>4, <2>1, <2>3 DEF StoreSi0, Cursor
      <3>2. Cursor(w) /\ StoredRight(w.stored, r, st)
        <4> HIDE DEF w, e, o, Kept, Gains
        <4> QED BY <1>3, <1>4, <2>3, <3>1
      <3> QED BY <1>4, <3>2 DEF Round
    <2> QED BY <2>2, <2>3
  <1>5. CASE c.abort = "none" /\ WriteAllowed(e, st) /\ ~(i = 0 /\ o.code # "VAR")
    <2>1. Kept(StoreWords(c, i, e, data, f)) \/ Gains(StoreWords(c, i, e, data, f))
      <3>1. CASE f % 16 # 0 BY <3>1 DEF StoreWords, Cursor
      <3>2. CASE ~(f % 16 # 0) BY <3>2 DEF StoreWords, Cursor
      <3> QED BY <3>1, <3>2
    <2>2. Gains(StoreByte(c, i, e, data, f, r.ca)) BY DEF StoreByte, Cursor
    <2>3. LET s == StoreChecked(c, i, e, data, f, r, old, sizes) IN Kept(s) \/ Gains(s)
      <3> DEFINE sw == StoreWords(c, i, e, data, f)
                 a1 == [c EXCEPT !.abort = "SI0_NOT_0"]
                 a2 == [c EXCEPT !.abort = "VALUE_EXCEEDED"]
      <3>1. Kept(a1) /\ Kept(a2) BY DEF Cursor
      <3>2. StoreChecked(c, i, e, data, f, r, old, sizes) \in {a1, a2, sw}
        BY DEF StoreChecked
      <3> QED BY <2>1, <3>1, <3>2
    <2>4. w = IF e.type = "byte" THEN StoreByte(c, i, e, data, f, r.ca)
              ELSE StoreChecked(c, i, e, data, f, r, old, sizes)
      BY <1>5 DEF WriteEntry
    <2>5. Kept(w) \/ Gains(w) BY <2>2, <2>3, <2>4
    <2>6. Cursor(w) /\ StoredRight(w.stored, r, st)
      <3> HIDE DEF w, e, Kept, Gains
      <3> QED BY <1>3, <1>5, <2>5 DEF Entry0
    <2> QED BY <1>5, <2>6 DEF Round
  <1> QED BY <1>1, <1>2, <1>4, <1>5

\* The cursor before the first round.
Start == [p |-> 0, stored |-> <<>>, result |-> "READ_ONLY_ENTRY", abort |-> "none"]

\* The last entry OBJ_Write gets to.
LastWritten(r, size, old) ==
    IF ~r.ca THEN r.sub
    ELSE IF r.sub = 0 /\ size > 0 THEN r.val[0]
    ELSE WriteMax(r.x, ObjectAt[r.x], old[0])

\* Whatever is written and whether it is aborted on the way: what was stored
\* could be stored in that state.
LEMMA WriteStores ==
    ASSUME NEW r, r.sub \in Nat, NEW size, NEW data, NEW old, NEW sizes, NEW st,
           LastWritten(r, size, old) \in Int, LastWritten(r, size, old) >= r.sub - 1
    PROVE  StoredRight(OBJ_Write(r, size, data, old, sizes, st).stored, r, st)
  <1> DEFINE last == LastWritten(r, size, old)
             denied == WriteRefused(r.x, ObjectAt[r.x], r.sub, r.ca, old[0], st)
  <1>1. StoredRight(<<>>, r, st) BY DEF StoredRight
  <1>2. StoredRight(WriteWalk(r, last, Start, data, old, sizes, st).stored, r, st)
    <2> HIDE DEF last
    <2>1. PICK g : /\ g[r.sub - 1] = Start
                   /\ \A i \in r.sub..last :
                         g[i] = Round(g[i - 1], i, r, data, old, sizes, st)
                   /\ WriteWalk(r, last, Start, data, old, sizes, st) = g[last]
      BY Rounds DEF last
    <2> DEFINE S == {i \in (r.sub - 1)..last : Cursor(g[i]) /\ StoredRight(g[i].stored, r, st)}
    <2>2. r.sub - 1 \in S
      <3>1. Cursor(Start) /\ Start.stored = <<>> BY DEF Start, Cursor
      <3>2. r.sub - 1 \in (r.sub - 1)..last BY DEF last
      <3> QED BY <1>1, <2>1, <3>1, <3>2
    <2>3. ASSUME NEW i \in (r.sub - 1)..(last - 1), i \in S PROVE i + 1 \in S
      <3>1. g[i + 1] = Round(g[i], i + 1, r, data, old, sizes, st)
        <4>1. i + 1 \in r.sub..last /\ (i + 1) - 1 = i BY DEF last
        <4> QED BY <2>1, <4>1
      <3>2. Cursor(g[i]) /\ StoredRight(g[i].stored, r, st) /\ i + 1 >= r.sub
        BY <2>3
      <3>3. Cursor(g[i + 1]) /\ StoredRight(g[i + 1].stored, r, st)
        BY <3>1, <3>2, RoundKeeps
      <3>4. i + 1 \in (r.sub - 1)..last BY DEF last
      <3> QED BY <3>3, <3>4
    <2>4. last \in S
      <3> DEFINE lo == r.sub - 1
      <3>1. lo \in Int /\ last \in Int /\ last \in lo..last BY DEF last
      <3> HIDE DEF lo, S
      <3>2. \A i \in lo..(last - 1) : i \in S => i + 1 \in S BY <2>3 DEF lo
      <3>3. \A i \in lo..last : i \in S BY <2>2, <3>1, <3>2, Climb DEF lo
      <3> QED BY <3>1, <3>3
    <2> QED BY <2>1, <2>4
  <1>3. CASE denied # "none" \/ size = 0
    <2>1. OBJ_Write(r, size, data, old, sizes, st).stored = <<>>
      BY <1>3 DEF OBJ_Write
    <2> QED BY <1>1, <2>1
  <1>4. CASE ~(denied # "none" \/ size = 0)
    <2>1. OBJ_Write(r, size, data, old, sizes, st)
            = Conclusion(WriteWalk(r, last, Start, data, old, sizes, st))
      BY <1>4 DEF OBJ_Write, LastWritten, Start
    <2> QED BY <1>2, <2>1 DEF Conclusion
  <1> QED BY <1>3, <1>4

\* A complete access to what cannot be written is refused, whatever data were
\* sent: at once, or because no round stored anything.
LEMMA NothingWritten ==
    ASSUME NEW r, r.sub \in Nat, r.ca, NothingToWrite(r.x, r.sub), NEW size, size # 0,
           NEW data, NEW old, NEW sizes, NEW st \in Operational,
           ObjectAt[r.x].max \in Int, ObjectAt[r.x].max >= r.sub - 1,
           ObjectAt[r.x].code # "VAR" =>
             LastWritten(r, size, old) = ObjectAt[r.x].max
    PROVE  /\ OBJ_Write(r, size, data, old, sizes, st).abort # "none"
           /\ OBJ_Write(r, size, data, old, sizes, st).stored = <<>>
  <1> DEFINE last == LastWritten(r, size, old)
             denied == WriteRefused(r.x, ObjectAt[r.x], r.sub, r.ca, old[0], st)
             Empty(c) == /\ Cursor(c) /\ c.stored = <<>> /\ c.abort = "none"
                         /\ c.result # "none"
  <1>1. CASE ObjectAt[r.x].code = "VAR"
    <2>1. denied = "UNSUPPORTED_ACCESS" BY <1>1 DEF WriteRefused
    <2> QED BY <2>1 DEF OBJ_Write
  <1>2. CASE ObjectAt[r.x].code # "VAR"
    <2>1. /\ last = ObjectAt[r.x].max /\ last \in Int /\ last >= r.sub - 1
          /\ r.sub > 0
          /\ \A i \in r.sub..last : ~WriteAllowed(OBJ_GetEntryDesc(ObjectAt[r.x], i), st)
      BY <1>2 DEF NothingToWrite
    <2>2. Empty(Start) BY DEF Start, Cursor
    <2>3. ASSUME NEW c, Empty(c), NEW i \in r.sub..last
          PROVE  Empty(Round(c, i, r, data, old, sizes, st))
      <3> DEFINE e == OBJ_GetEntryDesc(ObjectAt[r.x], i)
                 f == Offset[r.x][i]
      <3>1. Round(c, i, r, data, old, sizes, st) = SkipUnwritten(c, i, e, f)
        BY <2>1, <2>3 DEF Round, WriteEntry
      <3>2. Empty(SkipUnwritten(c, i, e, f)) BY <2>3 DEF SkipUnwritten, Cursor
      <3> QED BY <3>1, <3>2
    <2>4. Empty(WriteWalk(r, last, Start, data, old, sizes, st))
      <3> HIDE DEF last, Empty
      <3>1. PICK g : /\ g[r.sub - 1] = Start
                     /\ \A i \in r.sub..last :
                           g[i] = Round(g[i - 1], i, r, data, old, sizes, st)
                     /\ WriteWalk(r, last, Start, data, old, sizes, st) = g[last]
        BY <2>1, Rounds
      <3> DEFINE S == {i \in (r.sub - 1)..last : Empty(g[i])}
      <3>2. r.sub - 1 \in S BY <2>1, <2>2, <3>1
      <3>3. ASSUME NEW i \in (r.sub - 1)..(last - 1), i \in S PROVE i + 1 \in S
        <4>1. i + 1 \in r.sub..last /\ (i + 1) - 1 = i /\ i + 1 \in (r.sub - 1)..last
          BY <2>1
        <4>2. g[i + 1] = Round(g[i], i + 1, r, data, old, sizes, st) BY <3>1, <4>1
        <4>3. Empty(g[i + 1]) BY <2>3, <3>3, <4>1, <4>2
        <4> QED BY <4>1, <4>3
      <3>4. last \in S
        <4> DEFINE lo == r.sub - 1
        <4>1. lo \in Int /\ last \in Int /\ last \in lo..last BY <2>1
        <4> HIDE DEF lo, S
        <4>2. \A i \in lo..(last - 1) : i \in S => i + 1 \in S BY <3>3 DEF lo
        <4>3. \A i \in lo..last : i \in S BY <3>2, <4>1, <4>2, Climb DEF lo
        <4> QED BY <4>1, <4>3
      <3> QED BY <3>1, <3>4
    <2>5. denied = "none" BY <1>2 DEF WriteRefused
    <2>6. OBJ_Write(r, size, data, old, sizes, st)
            = Conclusion(WriteWalk(r, last, Start, data, old, sizes, st))
      BY <2>5 DEF OBJ_Write, LastWritten, Start
    <2> QED BY <2>4, <2>6 DEF Conclusion
  <1> QED BY <1>1, <1>2

-----------------------------------------------------------------------------
(* Values decide only whether a download is aborted: one that is not stores*)
(* what the same download stores when it writes the values that are there. *)

\* q is the same request as r, and changes no value.
Harmless(q, kept) ==
    /\ kept = ZeroOne(ObjectAt[q.x].max, "0")
    /\ q.val[1] = "0" /\ ~(q.val[0] > ObjectAt[q.x].max)

LEMMA SameRound ==
    ASSUME NEW c, Cursor(c), NEW r, NEW q, r.x = q.x, r.sub = q.sub, r.ca = q.ca,
           r.sub \in Nat, NEW i \in Nat, i >= r.sub,
           NEW data, NEW old, NEW kept, Harmless(q, kept), NEW sizes, NEW any, NEW st,
           Round(c, i, r, data, old, sizes, st).abort = "none"
    PROVE  /\ c.abort = "none"
           /\ Round(c, i, r, data, old, sizes, st) = Round(c, i, q, data, kept, any, st)
  <1> DEFINE o == ObjectAt[r.x]
             e == OBJ_GetEntryDesc(o, i)
             f == Offset[r.x][i]
             w == WriteEntry(c, i, data, r, old, sizes, st)
  <1>1. c.abort = "none" BY DEF Round
  <1>2. w.abort = "none" BY <1>1 DEF Round
  <1> DEFINE v == WriteEntry(c, i, data, q, kept, any, st)
  <1>3. w = v
    <2>1. CASE ~WriteAllowed(e, st) BY <2>1 DEF WriteEntry
    <2>2. CASE WriteAllowed(e, st) /\ i = 0 /\ o.code # "VAR"
      <3>1. w = StoreSi0(c, o, data, r.val) /\ v = StoreSi0(c, o, data, q.val)
        BY <2>2 DEF WriteEntry
      <3>2. ~(r.val[0] > o.max)
        <4> SUFFICES ASSUME r.val[0] > o.max PROVE FALSE OBVIOUS
        <4>1. w = [c EXCEPT !.abort = "VALUE_TOO_GREAT"] BY <3>1 DEF StoreSi0
        <4> HIDE DEF w
        <4> QED BY <1>2, <4>1 DEF Cursor
      <3> QED BY <3>1, <3>2 DEF StoreSi0, Harmless
    <2>3. CASE WriteAllowed(e, st) /\ ~(i = 0 /\ o.code # "VAR") /\ e.type = "byte"
      BY <2>3 DEF WriteEntry
    <2>4. CASE WriteAllowed(e, st) /\ ~(i = 0 /\ o.code # "VAR") /\ e.type # "byte"
      <3> DEFINE sw == StoreWords(c, i, e, data, f)
      <3>1. /\ w = StoreChecked(c, i, e, data, f, r, old, sizes)
            /\ v = StoreChecked(c, i, e, data, f, q, kept, any)
        BY <2>4 DEF WriteEntry
      <3>2. w = sw
        <4>1. w \in {[c EXCEPT !.abort = "SI0_NOT_0"], [c EXCEPT !.abort = "VALUE_EXCEEDED"],
                     sw}
          BY <3>1 DEF StoreChecked
        <4> HIDE DEF w, sw
        <4> QED BY <1>2, <4>1 DEF Cursor
      <3>3. i # 0 => ~(i \in DOMAIN kept /\ q.val[i] # kept[i]) BY DEF Harmless, ZeroOne
      <3>4. i = 0 => r.sub = 0 OBVIOUS
      <3>5. v = sw BY <3>1, <3>3, <3>4 DEF StoreChecked
      <3> QED BY <3>2, <3>5
    <2> QED BY <2>1, <2>2, <2>3, <2>4
  <1>4. Round(c, i, r, data, old, sizes, st) = w /\ Round(c, i, q, data, kept, any, st) = v
    BY <1>1 DEF Round
  <1> QED BY <1>1, <1>3, <1>4

LEMMA SameWrite ==
    ASSUME NEW r, NEW q, r.x = q.x, r.sub = q.sub, r.ca = q.ca, r.sub \in Nat,
           NEW size, NEW data, NEW old, NEW kept, Harmless(q, kept),
           NEW sizes, NEW any, NEW st,
           WriteMax(r.x, ObjectAt[r.x], old[0]) = WriteMax(r.x, ObjectAt[r.x], kept[0]),
           LastWritten(r, size, old) = LastWritten(q, size, kept),
           LastWritten(r, size, old) \in Int, LastWritten(r, size, old) >= r.sub - 1,
           OBJ_Write(r, size, data, old, sizes, st).abort = "none"
    PROVE  OBJ_Write(r, size, data, old, sizes, st) = OBJ_Write(q, size, data, kept, any, st)
  <1> DEFINE last == LastWritten(r, size, old)
             lo == r.sub - 1
             denied == WriteRefused(r.x, ObjectAt[r.x], r.sub, r.ca, old[0], st)
             walk == WriteWalk(r, last, Start, data, old, sizes, st)
  <1>1. WriteRefused(q.x, ObjectAt[q.x], q.sub, q.ca, kept[0], st) = denied
    BY DEF WriteRefused
  <1>2. CASE denied # "none" \/ size = 0
    BY <1>1, <1>2 DEF OBJ_Write
  <1>3. CASE ~(denied # "none" \/ size = 0)
    <2>1. OBJ_Write(r, size, data, old, sizes, st) = Conclusion(walk)
      BY <1>3 DEF OBJ_Write, LastWritten, Start
    <2>2. OBJ_Write(q, size, data, kept, any, st)
            = Conclusion(WriteWalk(q, last, Start, data, kept, any, st))
      BY <1>1, <1>3 DEF OBJ_Write, LastWritten, Start
    <2>3. walk.abort = "none" BY <2>1 DEF Conclusion
    <2> HIDE DEF last
    <2>4. last \in Int /\ last >= r.sub - 1 BY DEF last
    <2>5. PICK g : /\ g[lo] = Start
                   /\ \A i \in r.sub..last :
                         g[i] = Round(g[i - 1], i, r, data, old, sizes, st)
                   /\ walk = g[last]
      BY <2>4, Rounds
    <2>6. PICK h : /\ h[lo] = Start
                   /\ \A i \in r.sub..last :
                         h[i] = Round(h[i - 1], i, q, data, kept, any, st)
                   /\ WriteWalk(q, last, Start, data, kept, any, st) = h[last]
      BY <2>4, Rounds
    <2> DEFINE S == {i \in lo..last : /\ Cursor(g[i]) /\ StoredRight(g[i].stored, r, st)
                                      /\ g[i].abort = "none" => g[i] = h[i]}
    <2>7. lo \in S
      <3>1. Cursor(Start) /\ StoredRight(Start.stored, r, st)
        BY DEF Start, Cursor, StoredRight
      <3>2. lo \in lo..last BY <2>4
      <3> QED BY <2>5, <2>6, <3>1, <3>2
    <2>8. ASSUME NEW i \in lo..(last - 1), i \in S PROVE i + 1 \in S
      <3>1. /\ i + 1 \in r.sub..last /\ (i + 1) - 1 = i /\ i + 1 \in lo..last
            /\ i + 1 \in Nat /\ i + 1 >= r.sub
        BY <2>4
      <3>2. /\ g[i + 1] = Round(g[i], i + 1, r, data, old, sizes, st)
            /\ h[i + 1] = Round(h[i], i + 1, q, data, kept, any, st)
        BY <2>5, <2>6, <3>1
      <3>3. Cursor(g[i]) /\ StoredRight(g[i].stored, r, st) /\ (g[i].abort = "none" => g[i] = h[i])
        BY <2>8
      <3>4. Cursor(g[i + 1]) /\ StoredRight(g[i + 1].stored, r, st)
        BY <3>1, <3>2, <3>3, RoundKeeps
      <3>5. g[i + 1].abort = "none" => g[i + 1] = h[i + 1]
        <4> SUFFICES ASSUME g[i + 1].abort = "none" PROVE g[i + 1] = h[i + 1]
          OBVIOUS
        <4> DEFINE gi == g[i]  k == i + 1
        <4>1. Round(gi, k, r, data, old, sizes, st).abort = "none" BY <3>2
        <4>2. k \in Nat /\ k >= r.sub /\ Cursor(gi) BY <3>1, <3>3
        <4> HIDE DEF gi, k
        <4>3. /\ gi.abort = "none"
              /\ Round(gi, k, r, data, old, sizes, st) = Round(gi, k, q, data, kept, any, st)
          BY <4>1, <4>2, SameRound
        <4> QED BY <3>2, <3>3, <4>3 DEF gi, k
      <3> QED BY <3>1, <3>4, <3>5
    <2>9. last \in S
      <3>1. lo \in Int /\ last \in Int /\ last \in lo..last BY <2>4
      <3> HIDE DEF lo, S
      <3>2. \A i \in lo..(last - 1) : i \in S => i + 1 \in S BY <2>8 DEF lo
      <3>3. \A i \in lo..last : i \in S BY <2>7, <3>1, <3>2, Climb DEF lo
      <3> QED BY <3>1, <3>3
    <2> QED BY <2>1, <2>2, <2>3, <2>5, <2>6, <2>9
  <1> QED BY <1>2, <1>3

\* A request for an entry or for entries an object has.
Legal(r) == /\ r.x \in Indices /\ r.sub \in 0..ObjectAt[r.x].max /\ r.ca \in BOOLEAN
            /\ r.ca => r.sub <= 1
            /\ r.ca /\ r.sub = 0 => r.val[0] \in 0..ObjectAt[r.x].max

Access(r) == [x |-> r.x, sub |-> r.sub, ca |-> r.ca]

LEMMA LegalAccess ==
    ASSUME NEW r, Legal(r)
    PROVE  /\ Access(r) \in Accesses
           /\ LastSub(r) \in LastSubs(Access(r))
           /\ ObjectAt[r.x].max \in 0..32
           /\ LastSub(r) \in 0..ObjectAt[r.x].max
           /\ LastSub(r) >= r.sub - 1
           /\ r.sub \in Nat
  <1> DEFINE o == ObjectAt[r.x]
  <1>1. o.max \in 0..32
    <2>1. \A x \in Indices : ObjectAt[x].max \in 0..32 BY HighestFact
    <2>2. r.x \in Indices BY DEF Legal
    <2> QED BY <2>1, <2>2, Zenon
  <1> HIDE DEF o
  <1>2. r.x \in Indices /\ r.sub \in 0..o.max /\ r.ca \in BOOLEAN /\ (r.ca => r.sub <= 1)
    BY DEF Legal, o
  <1>3. r.ca /\ r.sub = 0 => r.val[0] \in 0..o.max BY DEF Legal, o
  <1>4. r.sub \in 0..32 BY <1>1, <1>2
  <1>5. Access(r) \in [x : Indices, sub : 0..32, ca : BOOLEAN]
    BY <1>2, <1>4 DEF Access
  <1>6. Access(r) \in Accesses BY <1>2, <1>5 DEF Accesses, Access, o
  <1>7. LastSub(r) \in LastSubs(Access(r))
    BY <1>2, <1>3 DEF LastSub, LastSubs, Access, o
  <1>8. LastSub(r) \in 0..o.max /\ LastSub(r) >= r.sub - 1
    <2>1. LastSub(r) = IF ~r.ca THEN r.sub ELSE IF r.sub = 0 THEN r.val[0] ELSE o.max
      BY DEF LastSub, o
    <2> HIDE DEF LastSub
    <2> QED BY <1>1, <1>2, <1>3, <2>1
  <1> QED BY <1>1, <1>2, <1>6, <1>7, <1>8 DEF o

\* A download that is not aborted has stored every entry it could write.
LEMMA DownloadStores ==
    ASSUME NEW r, Legal(r), NEW old, old[0] \in Sub0(r.x), NEW sizes, NEW st \in Operational,
           NEW sent, sent = Sent(r), NEW res,
           res = OBJ_Write(r, Len(sent), AsBytes(sent), old, sizes, st), res.abort = "none"
    PROVE  \A i \in r.sub..LastSub(r) :
              LET e == OBJ_GetEntryDesc(ObjectAt[r.x], i)
              IN  WriteAllowed(e, st) => /\ i \in DOMAIN res.stored
                                         /\ res.stored[i] = Bytes(i, BIT2BYTE(e.bits))
  <1> DEFINE a == Access(r)
             last == LastSub(r)
             o == ObjectAt[r.x]
             q == [x |-> a.x, sub |-> a.sub, ca |-> a.ca, val |-> ZeroOne(last, "0")]
             kept == ZeroOne(o.max, "0")
             zero == [in |-> 0, out |-> 0]
             size == Len(sent)
             data == AsBytes(sent)
  <1>1. /\ a \in Accesses /\ last \in LastSubs(a) /\ o.max \in 0..32
        /\ last \in 0..o.max /\ last >= r.sub - 1 /\ r.sub \in Nat
    BY LegalAccess
  <1>2. a.x = r.x /\ a.sub = r.sub /\ a.ca = r.ca BY DEF Access
  <1>3. sent = Image(a.x, a.sub, a.ca, last) BY <1>2 DEF Sent
  <1>4. kept[0] = o.max /\ q.val[0] = last /\ q.val[1] = "0" BY DEF ZeroOne
  <1>5. r.x = q.x /\ r.sub = q.sub /\ r.ca = q.ca BY <1>2
  <1>6. Harmless(q, kept)
    <2>1. ~(q.val[0] > o.max)
      <3> DEFINE top == q.val[0]
                 max == o.max
      <3>1. top = last /\ last \in 0..max /\ max \in 0..32 BY <1>1, <1>4
      <3> HIDE DEF last, q, o, top, max
      <3>2. ~(top > max) BY <3>1
      <3> QED BY <3>2 DEF top, max
    <2>2. kept = ZeroOne(ObjectAt[q.x].max, "0") /\ o = ObjectAt[q.x] BY <1>5
    <2> HIDE DEF last, q, o, kept
    <2> QED BY <1>4, <2>1, <2>2 DEF Harmless
  <1>7. /\ WriteMax(r.x, o, old[0]) = o.max
        /\ WriteMax(r.x, o, kept[0]) = o.max
    <2>1. r.x \in Indices BY DEF Legal
    <2>2. o.code = "VAR" => o.max = 0 BY <2>1, HighestFact
    <2>3. r.x # \hF030 => old[0] = o.max BY DEF Sub0
    <2>4. r.x = \hF030 => old[0] \in {0, 1} /\ o.max = 1 /\ ClearsFirst(r.x)
      BY HighestFact DEF Sub0, ClearsFirst
    <2> HIDE DEF o, kept
    <2> QED BY <1>1, <1>4, <2>2, <2>3, <2>4 DEF WriteMax
  <1>8. res = OBJ_Write(q, size, data, kept, zero, st)
    <2>1. CASE size = 0 \/ WriteRefused(r.x, o, r.sub, r.ca, old[0], st) # "none"
      <3>1. WriteRefused(q.x, o, q.sub, q.ca, kept[0], st)
              = WriteRefused(r.x, o, r.sub, r.ca, old[0], st)
        BY <1>5, <1>7 DEF WriteRefused
      <3> QED BY <1>5, <2>1, <3>1 DEF OBJ_Write
    <2>2. CASE ~(size = 0 \/ WriteRefused(r.x, o, r.sub, r.ca, old[0], st) # "none")
      <3>1. size \in Nat
        <4>1. Len(Image(a.x, a.sub, a.ca, last)) \in Nat
          <5> HIDE DEF a, last
          <5> QED BY <1>1, LengthFact
        <4> QED BY <1>3, <4>1
      <3>2. size > 0 BY <2>2, <3>1
      <3>3. LastWritten(r, size, old) = last
        <4> HIDE DEF size
        <4> QED BY <1>7, <3>2 DEF LastWritten, LastSub
      <3>4. LastWritten(q, size, kept) = last
        <4> HIDE DEF size, q, kept, last
        <4>1. ~r.ca => last = r.sub BY DEF LastSub, last
        <4>2. r.ca /\ r.sub # 0 => last = o.max BY DEF LastSub, last
        <4> QED BY <1>4, <1>5, <1>7, <3>2, <4>1, <4>2 DEF LastWritten
      <3> HIDE DEF size, data, q, kept, last, zero, a
      <3>5. WriteMax(r.x, ObjectAt[r.x], old[0]) = WriteMax(r.x, ObjectAt[r.x], kept[0])
        BY <1>7
      <3>6. LastWritten(r, size, old) \in Int /\ LastWritten(r, size, old) >= r.sub - 1
        BY <1>1, <3>3
      <3>7. OBJ_Write(r, size, data, old, sizes, st).abort = "none" BY DEF size, data
      <3>8. OBJ_Write(r, size, data, old, sizes, st) = OBJ_Write(q, size, data, kept, zero, st)
        BY <1>1, <1>5, <1>6, <3>3, <3>4, <3>5, <3>6, <3>7, SameWrite
      <3> QED BY <3>8 DEF size, data
    <2> QED BY <2>1, <2>2
  <1>9. LET t == OBJ_Write(q, Len(Image(a.x, a.sub, a.ca, last)),
                           AsBytes(Image(a.x, a.sub, a.ca, last)),
                           ZeroOne(ObjectAt[a.x].max, "0"), zero, st)
        IN  t.abort = "none" =>
              \A i \in a.sub..last :
                LET e == OBJ_GetEntryDesc(ObjectAt[a.x], i)
                IN  WriteAllowed(e, st) => /\ i \in DOMAIN t.stored
                                           /\ t.stored[i] = Bytes(i, BIT2BYTE(e.bits))
    <2> HIDE DEF a, last
    <2> QED BY <1>1, StoreFact
  <1>10. OBJ_Write(q, Len(Image(a.x, a.sub, a.ca, last)),
                   AsBytes(Image(a.x, a.sub, a.ca, last)),
                   ZeroOne(ObjectAt[a.x].max, "0"), zero, st) = res
    <2> HIDE DEF a, last, q, zero
    <2> QED BY <1>2, <1>3, <1>8
  <1> HIDE DEF a, last, q, zero, kept
  <1> QED BY <1>2, <1>9, <1>10 DEF last

-----------------------------------------------------------------------------
(* The invariant.                                                          *)

\* The master may not read the whole of 0xF030: while its subindex 0 is zero
\* the length counts the entry that OBJ_Read leaves out.
ModuleListReadByEntry == \A r \in Uploads : ~(r.x = \hF030 /\ r.ca)

\* The dictionary is complete from the first PREOP on and until then nothing
\* has written 0xF030, so that the mapping never fails.
Configured ==
    /\ al \in {"INIT"} \cup Operational
    /\ mbx \in MbxSizes
    /\ \/ ObjDicList = Full
       \/ al = "INIT" /\ ObjDicList = COE_ObjDictionaryInit
          /\ f030[0] = 1 /\ f030[1] = FSoESafetyModule
    /\ assign = [rx |-> RxPdos, tx |-> TxPdos]
    /\ f030[0] \in {0, 1}
    /\ DOMAIN sync = {"user", "out", "in"}
    /\ ConfigurationHolds

\* Between two segments of an upload the server's buffer holds the image of the
\* object, and the master has its first bytes.
Uploading ==
    master.kind = "up" =>
        /\ DOMAIN master = {"kind", "key", "si0", "toggle", "got"}
        /\ ModuleListReadByEntry /\ seg.service = "upload" =>
            LET k == master.key
            IN  /\ seg.size \in Nat /\ seg.done \in 0..seg.size
                /\ From(seg.data, 0, seg.size) = Image(k.x, k.sub, k.ca, master.si0)
                /\ master.got = From(seg.data, 0, seg.done)

\* Between two segments of a download the buffer begins with what the master
\* has sent; another service may have redirected the transfer, but only to an
\* object that cannot be written.
Downloading ==
    master.kind = "down" =>
        /\ DOMAIN master = {"kind", "key", "image", "toggle", "sent"}
        /\ seg.service = "download" =>
            LET k == master.key
            IN  /\ k \in Downloads /\ Legal(k) /\ k.ca
                /\ master.image = Sent(k)
                /\ seg.ca = TRUE
                /\ seg.size = Len(master.image) /\ seg.size \in Nat
                /\ seg.done = master.sent /\ seg.done \in 0..(seg.size - 1)
                /\ DOMAIN seg.data = 0..(seg.size - 1)
                /\ \A b \in 0..(seg.done - 1) : seg.data[b] = master.image[b + 1]
                /\ \/ seg.x = k.x /\ seg.sub = k.sub
                   \/ /\ seg.x \in Indices /\ seg.sub \in 0..ObjectAt[seg.x].max
                      /\ NothingToWrite(seg.x, seg.sub)

\* A finished upload is whole, unless it may be one of the module list.
UploadRight == ModuleListReadByEntry => UploadIsWhole

\* A list can only have been read from the complete dictionary.
Listed == master.kind \in {"counted", "listed"} => ObjDicList = Full /\ ListIsWhole

Fields == {"service", "x", "sub", "ca", "size", "done", "toggle", "data"}

Inv ==
    /\ Configured
    /\ DOMAIN seg = Fields
    /\ Uploading
    /\ Downloading
    /\ UploadRight
    /\ DownloadIsWhole
    /\ Listed

LEMMA MailboxRoom ==
    ASSUME Configured
    PROVE  /\ mbx \in Nat /\ InitialRoom \in Nat /\ InitialRoom >= 20
           /\ SegmentRoom \in Nat /\ SegmentRoom >= 27
  <1>1. mbx \in 36..128 BY MbxAssumption DEF Configured
  <1> QED
    BY <1>1 DEF InitialRoom, SegmentRoom, MBX_HEADER_SIZE, UPLOAD_NORM_RES_SIZE,
                SEGMENT_NORM_HEADER_SIZE

LEMMA HeldSub0 ==
    ASSUME Configured, NEW x \in Indices
    PROVE  Held(x)[0] \in Sub0(x)
  <1>1. CASE x = \hF030
    BY <1>1 DEF Held, Sub0, Configured
  <1>2. CASE x = \h1C32 \/ x = \h1C33
    BY <1>2, HighestFact DEF Held, Sub0, ZeroOne
  <1>3. CASE x = \h1C12 \/ x = \h1C13
    <2>1. assign.rx = RxPdos /\ assign.tx = TxPdos BY DEF Configured
    <2>2. Held(x)[0] = IF x = \h1C12 THEN Len(RxPdos) ELSE Len(TxPdos)
      BY <1>3, <2>1 DEF Held
    <2> QED BY <1>3, <2>2, HighestFact DEF Sub0
  <1>4. CASE x \notin {\hF030, \h1C32, \h1C33, \h1C12, \h1C13}
    BY <1>4 DEF Held, Sub0
  <1> QED BY <1>1, <1>2, <1>3, <1>4

\* What is known of a request that is not refused at once.
LEMMA Granted ==
    ASSUME Configured, al # "INIT", NEW r \in Uploads \cup Downloads, ~RequestRefused(r)
    PROVE  /\ r.x \in Indices /\ r.sub \in 0..ObjectAt[r.x].max /\ r.ca \in BOOLEAN
           /\ Access(r) \in Accesses
           /\ Held(r.x)[0] \in Sub0(r.x)
           /\ r \in Downloads => Legal(r)
  <1> DEFINE max == ObjectAt[r.x].max
  <1>1. r.x \in Indices
    <2>1. Contains(Full, r.x) BY DEF RequestRefused, Configured
    <2>2. PICK i \in 1..Len(Full) : Full[i] = r.x BY <2>1 DEF Contains
    <2> QED BY <2>2, DictionaryFact
  <1>2. max \in 0..32
    <2>1. \A x \in Indices : ObjectAt[x].max \in 0..32 BY HighestFact
    <2> QED BY <1>1, <2>1, Zenon
  <1>3. r.sub \in 0..255 /\ r.ca \in BOOLEAN BY RequestAssumption
  <1>4. ~(r.sub > max) /\ ~(r.ca /\ r.sub > 1) BY DEF RequestRefused
  <1> HIDE DEF max
  <1>5. r.sub \in 0..max /\ r.sub \in 0..32 /\ (r.ca => r.sub <= 1)
    BY <1>2, <1>3, <1>4
  <1>6. Access(r) \in Accesses
    <2>1. Access(r) \in [x : Indices, sub : 0..32, ca : BOOLEAN]
      BY <1>1, <1>3, <1>5 DEF Access
    <2>2. r.sub <= max BY <1>2, <1>5
    <2> QED BY <1>5, <2>1, <2>2 DEF Accesses, Access, max
  <1>7. r \in Downloads => Legal(r)
    <2>1. r \in Downloads /\ r.sub = 0 /\ r.ca => r.val[0] \in 0..max
      BY <1>1, RequestAssumption DEF max
    <2> QED BY <1>1, <1>3, <1>5, <2>1 DEF Legal, max
  <1>8. Held(r.x)[0] \in Sub0(r.x) BY <1>1, HeldSub0
  <1> QED BY <1>1, <1>3, <1>5, <1>6, <1>7, <1>8 DEF max

\* A request that is answered in one response redirects a transfer only to an
\* object that cannot be written.
LEMMA Redirected ==
    ASSUME Configured, al # "INIT", NEW r \in Uploads \cup Downloads, ~RequestRefused(r)
    PROVE  \/ Unsegmented(r) = seg
           \/ Unsegmented(r) = [seg EXCEPT !.x = r.x, !.sub = r.sub]
              /\ NothingToWrite(r.x, r.sub)
  <1>1. /\ Access(r) \in Accesses /\ Held(r.x)[0] \in Sub0(r.x)
    BY Granted
  <1>2. Access(r).x = r.x /\ Access(r).sub = r.sub /\ Access(r).ca = r.ca BY DEF Access
  <1>3. ObjLength(r) = 0 => NothingToWrite(r.x, r.sub)
    <2> DEFINE a == Access(r)
               si0 == Held(r.x)[0]
    <2> HIDE DEF a, si0
    <2>1. a \in Accesses /\ si0 \in Sub0(a.x) BY <1>1, <1>2 DEF a, si0
    <2>2. OBJ_GetObjectLength(ObjectAt[a.x], a.sub, a.ca, si0) = 0 => NothingToWrite(a.x, a.sub)
      BY <2>1, UnknownLengthFact
    <2> QED BY <1>2, <2>2 DEF ObjLength, a, si0
  <1> QED BY <1>3 DEF Unsegmented

\* Nothing but an initiate request or a segment disturbs a transfer.
LEMMA TransferKept ==
    ASSUME Uploading, Downloading, DOMAIN seg = Fields,
           master' = master \/ master'.kind \notin {"up", "down"},
           \/ seg' = seg
           \/ seg' = NoSegments
           \/ \E r \in Uploads \cup Downloads :
                 /\ seg' = [seg EXCEPT !.x = r.x, !.sub = r.sub]
                 /\ NothingToWrite(r.x, r.sub)
                 /\ r.x \in Indices /\ r.sub \in 0..ObjectAt[r.x].max
    PROVE  Uploading' /\ Downloading' /\ DOMAIN seg' = Fields
  <1>1. CASE master'.kind \notin {"up", "down"} /\ seg' = seg
    BY <1>1 DEF Uploading, Downloading
  <1>2. CASE seg' = NoSegments
    <2>1. seg'.service = "none" /\ DOMAIN seg' = Fields
      BY <1>2 DEF NoSegments, Fields
    <2>2. Uploading' BY <2>1 DEF Uploading
    <2>3. Downloading' BY <2>1 DEF Downloading
    <2> QED BY <2>1, <2>2, <2>3
  <1>3. CASE master' = master /\ seg' = seg
    BY <1>3 DEF Uploading, Downloading
  <1>4. ASSUME NEW r \in Uploads \cup Downloads,
               seg' = [seg EXCEPT !.x = r.x, !.sub = r.sub], NothingToWrite(r.x, r.sub),
               r.x \in Indices, r.sub \in 0..ObjectAt[r.x].max
        PROVE  Uploading' /\ Downloading' /\ DOMAIN seg' = Fields
    <2>1. /\ DOMAIN seg' = Fields /\ seg'.service = seg.service /\ seg'.size = seg.size
          /\ seg'.done = seg.done /\ seg'.data = seg.data /\ seg'.ca = seg.ca
          /\ seg'.x = r.x /\ seg'.sub = r.sub
      BY <1>4 DEF Fields
    <2>2. CASE master' = master
      <3>1. Uploading' BY <2>1, <2>2 DEF Uploading
      <3>2. Downloading' BY <1>4, <2>1, <2>2 DEF Downloading
      <3> QED BY <2>1, <3>1, <3>2
    <2>3. CASE master'.kind \notin {"up", "down"}
      BY <2>1, <2>3 DEF Uploading, Downloading
    <2> QED BY <2>2, <2>3
  <1> QED BY <1>1, <1>2, <1>3, <1>4

-----------------------------------------------------------------------------
(* Uploads.                                                                *)

\* Two pieces of a buffer, one behind the other, are one.
LEMMA FromJoined ==
    ASSUME NEW buf, NEW a \in Nat, NEW n \in Nat
    PROVE  From(buf, 0, a) \o From(buf, a, n) = From(buf, 0, a + n)
  <1> DEFINE At(b) == IF b \in DOMAIN buf THEN buf[b] ELSE Stale
             T == {At(b) : b \in Nat}
             p == From(buf, 0, a)
             q == From(buf, a, n)
             w == From(buf, 0, a + n)
  <1>1. p = [k \in 1..a |-> At(k - 1)]
    <2>1. \A k \in 1..a : 0 + k - 1 = k - 1 OBVIOUS
    <2> QED BY <2>1 DEF From
  <1>2. w = [k \in 1..(a + n) |-> At(k - 1)]
    <2>1. \A k \in 1..(a + n) : 0 + k - 1 = k - 1 OBVIOUS
    <2> QED BY <2>1 DEF From
  <1>3. q = [k \in 1..n |-> At(a + k - 1)] BY DEF From
  <1> HIDE DEF At, p, q, w
  <1>4. /\ p \in Seq(T) /\ Len(p) = a
        /\ q \in Seq(T) /\ Len(q) = n
        /\ w \in Seq(T) /\ Len(w) = a + n
    <2>1. \A k \in 1..a : At(k - 1) \in T OBVIOUS
    <2>2. \A k \in 1..n : At(a + k - 1) \in T OBVIOUS
    <2>3. \A k \in 1..(a + n) : At(k - 1) \in T OBVIOUS
    <2> HIDE DEF T
    <2> QED BY <1>1, <1>2, <1>3, <2>1, <2>2, <2>3
  <1>5. /\ p \o q \in Seq(T) /\ Len(p \o q) = a + n
        /\ \A i \in 1..(a + n) : (p \o q)[i] = IF i <= a THEN p[i] ELSE q[i - a]
    <2> HIDE DEF T
    <2> QED BY <1>4, ConcatProperties
  <1>6. ASSUME NEW i \in 1..(a + n) PROVE (p \o q)[i] = w[i]
    <2>1. CASE i <= a
      <3>1. (p \o q)[i] = p[i] /\ i \in 1..a BY <1>5, <2>1
      <3> QED BY <1>1, <1>2, <3>1
    <2>2. CASE ~(i <= a)
      <3>1. i - a \in 1..n /\ a + (i - a) - 1 = i - 1 BY <2>2
      <3>3. (p \o q)[i] = q[i - a]
        <4> DEFINE c == p \o q
        <4>1. c[i] = IF i <= a THEN p[i] ELSE q[i - a] BY <1>5
        <4> HIDE DEF c
        <4> QED BY <2>2, <4>1 DEF c
      <3>2. q[i - a] = At(a + (i - a) - 1) BY <1>3, <3>1
      <3> QED BY <1>2, <3>1, <3>2, <3>3
    <2> QED BY <2>1, <2>2
  <1>7. p \o q = w
    <2> HIDE DEF T
    <2> QED BY <1>4, <1>5, <1>6, SeqEqual
  <1> QED BY <1>7 DEF p, q, w

\* OBJ_Read, if it does not abort, gives the image of the object.
LEMMA Uploaded ==
    ASSUME Configured, al # "INIT", NEW r \in Uploads, ~RequestRefused(r), NEW buf,
           buf = IF ObjLength(r) \in 1..4 THEN Blank(4, Zero) ELSE Blank(ObjLength(r), Stale),
           NEW res, res = OBJ_Read(r.x, r.sub, r.ca, Held(r.x)[0], al, buf)
    PROVE  /\ ObjLength(r) \in Nat
           /\ res.abort = "none" /\ ~(r.x = \hF030 /\ r.ca) =>
                From(res.buf, 0, ObjLength(r)) = Image(r.x, r.sub, r.ca, Held(r.x)[0])
  <1> DEFINE a == Access(r)
             si0 == Held(r.x)[0]
             len == OBJ_GetObjectLength(ObjectAt[a.x], a.sub, a.ca, si0)
  <1>1. a \in Accesses /\ a.x = r.x /\ a.sub = r.sub /\ a.ca = r.ca
    BY Granted DEF Access
  <1>2. si0 \in Sub0(a.x) BY <1>1, Granted
  <1>3. al \in Operational BY DEF Configured
  <1>4. len = ObjLength(r) BY <1>1 DEF ObjLength
  <1> DEFINE b == IF len \in 1..4 THEN Blank(4, Zero) ELSE Blank(len, Stale)
  <1>5. b = buf BY <1>4
  <1> HIDE DEF a, si0
  <1>6. /\ len \in Nat
        /\ OBJ_Read(a.x, a.sub, a.ca, si0, al, b).abort = "none" /\ ~(a.x = \hF030 /\ a.ca)
           => From(OBJ_Read(a.x, a.sub, a.ca, si0, al, b).buf, 0, len)
                = Image(a.x, a.sub, a.ca, si0)
    BY <1>1, <1>2, <1>3, UploadFact
  <1> HIDE DEF len, b
  <1> QED BY <1>1, <1>4, <1>5, <1>6 DEF si0

LEMMA ConfigurationKept ==
    ASSUME Configured, UNCHANGED <<al, config>>
    PROVE  Configured'
  BY DEF Configured, ConfigurationHolds, config

\* What the master remembers of the last service stays true.
LEMMA RememberedKept ==
    ASSUME UploadRight, DownloadIsWhole, Listed,
           ObjDicList = Full => ObjDicList' = ObjDicList,
           master' = master \/ master' = Idle
    PROVE  UploadRight' /\ DownloadIsWhole' /\ Listed'
  <1>1. CASE master' = master
    <2>1. UploadRight' BY <1>1 DEF UploadRight, UploadIsWhole
    <2>2. DownloadIsWhole' BY <1>1 DEF DownloadIsWhole
    <2>3. ObjDicList' = ObjDicList => (ListIsWhole = ListIsWhole')
      BY <1>1 DEF ListIsWhole
    <2>4. Listed' BY <1>1, <2>3 DEF Listed
    <2> QED BY <2>1, <2>2, <2>4
  <1>2. CASE master' = Idle
    <2>1. master'.kind = "idle" BY <1>2 DEF Idle
    <2> QED BY <2>1 DEF UploadRight, UploadIsWhole, DownloadIsWhole, Listed
  <1> QED BY <1>1, <1>2

\* A step that begins or ends no transfer.
LEMMA QuietStep ==
    ASSUME Inv, Configured', ObjDicList = Full => ObjDicList' = ObjDicList,
           master' = Result(Idle) \/ master' = master \/ master' = Idle,
           seg' = seg \/ seg' = NoSegments
    PROVE  Inv'
  <1>1. master' = master \/ master' = Idle BY DEF Result
  <1>2. master' = master \/ master'.kind \notin {"up", "down"} BY <1>1 DEF Idle
  <1>3. Uploading' /\ Downloading' /\ DOMAIN seg' = Fields
    BY <1>2, TransferKept DEF Inv
  <1>4. UploadRight' /\ DownloadIsWhole' /\ Listed'
    BY <1>1, RememberedKept DEF Inv
  <1> QED BY <1>3, <1>4 DEF Inv

LEMMA UploadStep ==
    ASSUME Inv, NEW r \in Uploads, Upload(r)
    PROVE  Inv'
  <1> USE DEF Inv
  <1>1. UNCHANGED <<al, config>> /\ al # "INIT" /\ ObjDicList' = ObjDicList
    BY DEF Upload, config
  <1>2. Configured' BY <1>1, ConfigurationKept
  <1>3. CASE RequestRefused(r) /\ seg' = seg /\ master' = Result(Idle)
    BY <1>1, <1>2, <1>3, QuietStep
  <1> DEFINE len == ObjLength(r)
             si0 == Held(r.x)[0]
  <1>4. ASSUME ~RequestRefused(r), UploadWhole(r) PROVE Inv'
    <2> DEFINE buf == IF len \in 1..4 THEN Blank(4, Zero) ELSE Blank(len, Stale)
               res == OBJ_Read(r.x, r.sub, r.ca, si0, al, buf)
               done == [kind |-> "uploaded", key |-> r, got |-> From(res.buf, 0, len),
                        si0 |-> si0]
    <2>1. /\ seg' = Unsegmented(r)
          /\ master' = Result(IF res.abort # "none" THEN Idle ELSE done)
      BY <1>4 DEF UploadWhole
    <2>2. ModuleListReadByEntry /\ res.abort = "none"
          => From(res.buf, 0, len) = Image(r.x, r.sub, r.ca, si0)
      BY <1>1, <1>4, Uploaded DEF ModuleListReadByEntry
    <2>3. \/ master' = master \/ master' = Idle
          \/ res.abort = "none" /\ master' = done
      BY <2>1 DEF Result
    <2>4. master' = master \/ master'.kind \notin {"up", "down"} BY <2>3 DEF Idle
    <2>5. Uploading' /\ Downloading' /\ DOMAIN seg' = Fields
      <3>1. r.x \in Indices /\ r.sub \in 0..ObjectAt[r.x].max BY <1>1, <1>4, Granted
      <3>2. \/ seg' = seg
            \/ seg' = [seg EXCEPT !.x = r.x, !.sub = r.sub] /\ NothingToWrite(r.x, r.sub)
        BY <1>1, <1>4, <2>1, Redirected
      <3> QED BY <2>4, <3>1, <3>2, TransferKept
    <2>6. UploadRight' /\ DownloadIsWhole' /\ Listed'
      <3>1. CASE master' = master \/ master' = Idle BY <1>1, <3>1, RememberedKept
      <3>2. CASE res.abort = "none" /\ master' = done
        <4>1. /\ master'.kind = "uploaded" /\ master'.key = r /\ master'.si0 = si0
              /\ master'.got = From(res.buf, 0, len)
          BY <3>2
        <4> HIDE DEF done, res, si0, len
        <4> QED BY <2>2, <3>2, <4>1 DEF UploadRight, UploadIsWhole, DownloadIsWhole, Listed
      <3> QED BY <2>3, <3>1, <3>2
    <2> QED BY <1>2, <2>5, <2>6
  <1>5. ASSUME ~RequestRefused(r), UploadFirst(r) PROVE Inv'
    <2> DEFINE buf == Blank(len, Stale)
               res == OBJ_Read(r.x, r.sub, r.ca, si0, al, buf)
               up == [kind |-> "up", key |-> r, si0 |-> si0, toggle |-> 0,
                      got |-> From(res.buf, 0, InitialRoom)]
    <2>1. len > InitialRoom BY <1>5 DEF UploadFirst
    <2>2. CASE /\ seg' = Segmented(r, IF res.abort = "none" THEN "upload" ELSE seg.service,
                                   len, InitialRoom, res.buf)
               /\ master' = IF res.abort # "none" THEN Idle ELSE up
      <3>1. CASE res.abort # "none"
        <4>1. master' = Idle BY <2>2, <3>1
        <4>2. master'.kind = "idle" BY <4>1 DEF Idle
        <4>3. DOMAIN seg' = Fields BY <2>2 DEF Segmented, Fields
        <4>4. UploadRight' /\ DownloadIsWhole' /\ Listed' BY <1>1, <4>1, RememberedKept
        <4> QED BY <1>2, <4>2, <4>3, <4>4 DEF Uploading, Downloading
      <3>2. CASE res.abort = "none"
        <4>1. /\ seg'.service = "upload" /\ seg'.size = len /\ seg'.done = InitialRoom
              /\ seg'.data = res.buf /\ DOMAIN seg' = Fields
          BY <2>2, <3>2 DEF Segmented, Fields
        <4>2. master' = up BY <2>2, <3>2
        <4>3. /\ master'.kind = "up" /\ master'.key = r /\ master'.si0 = si0
              /\ DOMAIN master' = {"kind", "key", "si0", "toggle", "got"}
              /\ master'.got = From(res.buf, 0, InitialRoom)
          BY <4>2
        <4>4. InitialRoom \in Nat /\ InitialRoom >= 20 BY MailboxRoom
        <4>5. /\ len \in Nat
              /\ ModuleListReadByEntry =>
                    From(res.buf, 0, len) = Image(r.x, r.sub, r.ca, si0)
          <5> DEFINE b == IF len \in 1..4 THEN Blank(4, Zero) ELSE Blank(len, Stale)
          <5>1. len \in Nat
            <6>1. \E x : x = OBJ_Read(r.x, r.sub, r.ca, si0, al,
                       IF len \in 1..4 THEN Blank(4, Zero) ELSE Blank(len, Stale))
              OBVIOUS
            <6> QED BY <1>1, <1>5, <6>1, Uploaded
          <5>2. len \notin 1..4
            <6> HIDE DEF len
            <6> QED BY <2>1, <4>4, <5>1
          <5>3. b = buf BY <5>2
          <5>4. res = OBJ_Read(r.x, r.sub, r.ca, Held(r.x)[0], al, b) BY <5>3
          <5> HIDE DEF res
          <5>5. ModuleListReadByEntry /\ res.abort = "none" =>
                   From(res.buf, 0, ObjLength(r)) = Image(r.x, r.sub, r.ca, Held(r.x)[0])
            BY <1>1, <1>5, <5>4, Uploaded DEF ModuleListReadByEntry
          <5> QED BY <3>2, <5>1, <5>5
        <4>6. InitialRoom \in 0..len
          <5> HIDE DEF len
          <5> QED BY <2>1, <4>4, <4>5
        <4> HIDE DEF res, len, si0, up
        <4>7. Uploading' BY <4>1, <4>3, <4>5, <4>6 DEF Uploading
        <4>8. Downloading' /\ UploadRight' /\ DownloadIsWhole' /\ Listed'
          BY <4>3 DEF Downloading, UploadRight, UploadIsWhole, DownloadIsWhole, Listed
        <4> QED BY <1>2, <4>1, <4>7, <4>8
      <3> QED BY <3>1, <3>2
    <2>3. CASE seg' = NoBuffer(r, len) /\ master' = Idle
      <3>1. DOMAIN seg' = Fields BY <2>3 DEF NoBuffer, Segmented, NoSegments, Fields
      <3>2. master'.kind = "idle" BY <2>3 DEF Idle
      <3>3. UploadRight' /\ DownloadIsWhole' /\ Listed' BY <1>1, <2>3, RememberedKept
      <3> QED BY <1>2, <3>1, <3>2, <3>3 DEF Uploading, Downloading
    <2> QED BY <1>5, <2>2, <2>3 DEF UploadFirst
  <1> QED BY <1>3, <1>4, <1>5 DEF Upload

LEMMA UploadSegmentStep ==
    ASSUME Inv, NEW t, UploadSegment(t)
    PROVE  Inv'
  <1> USE DEF Inv
  <1> DEFINE last == seg.size < seg.done + SegmentRoom
             size == IF last THEN seg.size - seg.done ELSE SegmentRoom
             got  == master.got \o From(seg.data, seg.done, size)
             k    == master.key
  <1>1. UNCHANGED <<al, config>> /\ master.kind = "up" /\ ObjDicList' = ObjDicList
    BY DEF UploadSegment, config
  <1>2. Configured' BY <1>1, ConfigurationKept
  <1>3. CASE seg.service # "upload" \/ t = seg.toggle
    <2>1. seg' = seg /\ master' = Idle BY <1>3 DEF UploadSegment
    <2> QED BY <1>1, <1>2, <2>1, QuietStep
  <1>4. CASE ~(seg.service # "upload" \/ t = seg.toggle)
    <2>1. /\ DOMAIN master = {"kind", "key", "si0", "toggle", "got"}
          /\ ModuleListReadByEntry =>
                /\ seg.size \in Nat /\ seg.done \in 0..seg.size
                /\ From(seg.data, 0, seg.size) = Image(k.x, k.sub, k.ca, master.si0)
                /\ master.got = From(seg.data, 0, seg.done)
      BY <1>1, <1>4 DEF Uploading
    <2>2. SegmentRoom \in Nat BY MailboxRoom
    <2>3. ModuleListReadByEntry =>
            size \in Nat /\ seg.done \in Nat /\ seg.done + size \in 0..seg.size
      BY <2>1, <2>2
    <2>4. ModuleListReadByEntry => got = From(seg.data, 0, seg.done + size)
      <3> HIDE DEF size
      <3> QED BY <2>1, <2>3, FromJoined
    <2>5. CASE last
      <3> DEFINE up == [kind |-> "uploaded", key |-> master.key, got |-> got,
                        si0 |-> master.si0]
      <3>1. seg' = NoSegments /\ master' = up
        BY <1>4, <2>5 DEF UploadSegment
      <3>2. ModuleListReadByEntry => seg.done + size = seg.size BY <2>1, <2>5
      <3>3. ModuleListReadByEntry => got = Image(k.x, k.sub, k.ca, master.si0) BY <2>1, <2>4, <3>2
      <3>4. DOMAIN seg' = Fields BY <3>1 DEF NoSegments, Fields
      <3> HIDE DEF got
      <3>5. /\ master'.kind = "uploaded" /\ master'.key = k /\ master'.got = got
            /\ master'.si0 = master.si0
        BY <3>1
      <3> HIDE DEF up, k
      <3>6. UploadRight' BY <3>3, <3>5 DEF UploadRight, UploadIsWhole
      <3> QED BY <1>2, <3>4, <3>5, <3>6
        DEF Uploading, Downloading, DownloadIsWhole, Listed
    <2>6. CASE ~last
      <3>1. /\ seg' = [seg EXCEPT !.toggle = t, !.done = @ + size]
            /\ master' = [master EXCEPT !.got = got, !.toggle = 16 - t]
        BY <1>4, <2>6 DEF UploadSegment
      <3> HIDE DEF got, size
      <3>2. /\ DOMAIN seg' = Fields /\ seg'.done = seg.done + size /\ seg'.size = seg.size
            /\ seg'.data = seg.data
        BY <3>1 DEF Fields
      <3>3. /\ DOMAIN master' = {"kind", "key", "si0", "toggle", "got"}
            /\ master'.kind = "up" /\ master'.key = k /\ master'.got = got
            /\ master'.si0 = master.si0
        BY <1>1, <2>1, <3>1
      <3> HIDE DEF k
      <3>4. Uploading' BY <2>1, <2>3, <2>4, <3>2, <3>3 DEF Uploading
      <3> QED BY <1>2, <3>2, <3>3, <3>4
        DEF Downloading, UploadRight, UploadIsWhole, DownloadIsWhole, Listed
    <2> QED BY <2>5, <2>6
  <1> QED BY <1>3, <1>4

-----------------------------------------------------------------------------
(* Downloads.                                                              *)

LEMMA LastWrittenLegal ==
    ASSUME NEW r, Legal(r), NEW old, old[0] \in Sub0(r.x), NEW size
    PROVE  /\ LastWritten(r, size, old) \in Int
           /\ LastWritten(r, size, old) >= r.sub - 1
           /\ ObjectAt[r.x].code # "VAR" => WriteMax(r.x, ObjectAt[r.x], old[0]) = ObjectAt[r.x].max
  <1> DEFINE o == ObjectAt[r.x]
             max == o.max
             w == WriteMax(r.x, o, old[0])
  <1>1. /\ max \in 0..32 /\ r.sub \in 0..max /\ r.ca \in BOOLEAN
        /\ r.ca /\ r.sub = 0 => r.val[0] \in 0..max
    BY LegalAccess DEF Legal
  <1>2. r.x # \hF030 => old[0] = max BY DEF Sub0
  <1>3. r.x = \hF030 => old[0] \in {0, 1} /\ max = 1 /\ ClearsFirst(r.x)
    BY HighestFact DEF Sub0, ClearsFirst
  <1>4. o.code = "VAR" => max = 0
    <2>1. \A x \in Indices : ObjectAt[x].code = "VAR" => ObjectAt[x].max = 0
      BY HighestFact
    <2>2. r.x \in Indices BY DEF Legal
    <2> QED BY <2>1, <2>2, Zenon
  <1> HIDE DEF max
  <1>5. w = max
    <2>1. w = IF o.code = "VAR" THEN 0
              ELSE IF old[0] = 0 /\ ClearsFirst(r.x) THEN max ELSE old[0]
      BY DEF WriteMax, max
    <2> HIDE DEF w, o
    <2> QED BY <1>1, <1>2, <1>3, <1>4, <2>1
  <1>6. LastWritten(r, size, old)
          = IF ~r.ca THEN r.sub ELSE IF r.sub = 0 /\ size > 0 THEN r.val[0] ELSE w
    BY DEF LastWritten
  <1> HIDE DEF w, o
  <1>7. LastWritten(r, size, old) \in Int /\ LastWritten(r, size, old) >= r.sub - 1
    BY <1>1, <1>5, <1>6
  <1> QED BY <1>5, <1>7 DEF w, o, max

LEMMA StoredKeeps ==
    ASSUME Configured, al # "INIT", al' = al, NEW x, NEW entries, NEW val,
           Stored(x, entries, val),
           x = \hF030 /\ 0 \in entries => val[0] \in {0, 1},
           x \in {\h1C32, \h1C33} /\ 1 \in entries => al \notin {"SAFEOP", "OP"}
    PROVE  Configured' /\ ObjDicList' = ObjDicList
  <1>1. UNCHANGED <<al, mbx, ObjDicList, assign, pd, dc, refused>> BY DEF Stored
  <1>2. f030'[0] \in {0, 1}
    <2>1. f030[0] \in {0, 1} BY DEF Configured
    <2>2. CASE x = \hF030
      <3>1. f030' = [i \in {0, 1} |-> IF i \in entries THEN val[i] ELSE f030[i]]
        BY <2>2 DEF Stored
      <3> QED BY <2>1, <2>2, <3>1
    <2>3. CASE x # \hF030 BY <2>1, <2>3 DEF Stored
    <2> QED BY <2>2, <2>3
  <1>3. /\ DOMAIN sync' = {"user", "out", "in"}
        /\ al \in {"SAFEOP", "OP"} => sync' = sync
    <2>1. DOMAIN sync = {"user", "out", "in"} BY DEF Configured
    <2>2. CASE x \in {\h1C32, \h1C33} /\ 1 \in entries BY <2>1, <2>2 DEF Stored
    <2>3. CASE ~(x \in {\h1C32, \h1C33} /\ 1 \in entries) BY <2>1, <2>3 DEF Stored
    <2> QED BY <2>2, <2>3
  <1>4. ObjDicList = Full BY DEF Configured
  <1>5. ConfigurationHolds'
    BY <1>1, <1>3 DEF ConfigurationHolds, Configured
  <1> QED BY <1>1, <1>2, <1>3, <1>4, <1>5 DEF Configured

\* What a download stores leaves the configuration in order.
LEMMA WriteKeeps ==
    ASSUME Configured, al # "INIT", al' = al, NEW r, Legal(r),
           r.x = \hF030 /\ r.sub = 0 => r.val[0] \in 0..255, NEW size, NEW data,
           NEW res, res = OBJ_Write(r, size, data, Held(r.x), pd, al),
           Stored(r.x, DOMAIN res.stored, r.val)
    PROVE  Configured' /\ ObjDicList' = ObjDicList
  <1> DEFINE old == Held(r.x)
             stored == res.stored
  <1>1. r.x \in Indices BY DEF Legal
  <1>2. old[0] \in Sub0(r.x) BY <1>1, HeldSub0
  <1>3. r.sub \in Nat BY LegalAccess
  <1> HIDE DEF old
  <1>4. LastWritten(r, size, old) \in Int /\ LastWritten(r, size, old) >= r.sub - 1
    BY <1>2, LastWrittenLegal
  <1>5. StoredRight(stored, r, al) BY <1>3, <1>4, WriteStores DEF old
  <1>6. r.x = \hF030 /\ 0 \in DOMAIN stored => r.val[0] \in {0, 1}
    <2> SUFFICES ASSUME r.x = \hF030, 0 \in DOMAIN stored PROVE r.val[0] \in {0, 1}
      OBVIOUS
    <2> DEFINE v == r.val[0]
    <2>1. ObjectAt[r.x].max = 1 /\ ObjectAt[r.x].code = "REC" BY HighestFact
    <2>2. 0 >= r.sub /\ ~(v > 1) BY <1>5, <2>1 DEF StoredRight, Entry0
    <2>3. r.sub = 0 BY <1>3, <2>2
    <2>4. v \in 0..255 BY <2>3
    <2> HIDE DEF v
    <2>5. v \in {0, 1} BY <2>2, <2>4
    <2> QED BY <2>5 DEF v
  <1>7. r.x \in {\h1C32, \h1C33} /\ 1 \in DOMAIN stored => al \notin {"SAFEOP", "OP"}
    <2> SUFFICES ASSUME r.x \in {\h1C32, \h1C33}, 1 \in DOMAIN stored, al \in {"SAFEOP", "OP"}
                 PROVE  FALSE
      OBVIOUS
    <2>1. WriteAllowed(OBJ_GetEntryDesc(ObjectAt[r.x], 1), al) BY <1>5 DEF StoredRight
    <2> DEFINE x == r.x
    <2>2. x \in {\h1C32, \h1C33} OBVIOUS
    <2>3. WriteAllowed(OBJ_GetEntryDesc(ObjectAt[x], 1), al) BY <2>1
    <2> HIDE DEF x
    <2> QED BY <2>2, <2>3, SyncTypeFact
  <1> HIDE DEF stored
  <1> DEFINE entries == DOMAIN stored
  <1>8. Stored(r.x, entries, r.val) BY DEF stored
  <1> HIDE DEF entries
  <1> QED BY <1>6, <1>7, <1>8, StoredKeeps DEF entries

\* The master remembers of a download what is true.
LEMMA WrittenRight ==
    ASSUME Configured, al # "INIT", NEW r, Legal(r), NEW key, key.x = r.x, key.sub = r.sub,
           key.ca = r.ca, key.val = r.val, NEW sent, sent = Sent(r),
           NEW res, res = OBJ_Write(r, Len(sent), AsBytes(sent), Held(r.x), pd, al),
           res.abort = "none", master' = Written(r, key, res)
    PROVE  DownloadIsWhole' /\ master'.kind = "downloaded"
  <1>1. /\ master'.kind = "downloaded" /\ master'.key = key /\ master'.x = r.x
        /\ master'.stored = res.stored /\ master'.al = al
    BY DEF Written
  <1>2. Held(r.x)[0] \in Sub0(r.x) BY HeldSub0 DEF Legal
  <1>3. al \in Operational BY DEF Configured
  <1>4. \A i \in r.sub..LastSub(r) :
              LET e == OBJ_GetEntryDesc(ObjectAt[r.x], i)
              IN  WriteAllowed(e, al) => /\ i \in DOMAIN res.stored
                                         /\ res.stored[i] = Bytes(i, BIT2BYTE(e.bits))
    <2> DEFINE old == Held(r.x)
    <2>1. res = OBJ_Write(r, Len(sent), AsBytes(sent), old, pd, al) OBVIOUS
    <2>2. old[0] \in Sub0(r.x) BY <1>2
    <2> HIDE DEF old
    <2> QED BY <1>3, <2>1, <2>2, DownloadStores
  <1>5. LastSub(key) = LastSub(r) BY DEF LastSub
  <1> DEFINE entry == [i \in key.sub..LastSub(key) |-> OBJ_GetEntryDesc(ObjectAt[key.x], i)]
  <1>6. ASSUME NEW i \in DOMAIN entry, WriteAllowed(entry[i], al)
        PROVE  /\ i \in DOMAIN res.stored
               /\ res.stored[i] = Bytes(i, BIT2BYTE(entry[i].bits))
    <2>1. i \in r.sub..LastSub(r) /\ entry[i] = OBJ_GetEntryDesc(ObjectAt[r.x], i)
      BY <1>5
    <2> HIDE DEF entry
    <2> QED BY <1>4, <1>6, <2>1
  <1>7. \A i \in DOMAIN entry : WriteAllowed(entry[i], al) =>
              /\ i \in DOMAIN res.stored
              /\ res.stored[i] = Bytes(i, BIT2BYTE(entry[i].bits))
    BY <1>6
  <1>8. DownloadIsWhole'
    <2> DEFINE k == master'.key
               en == [i \in k.sub..LastSub(k) |-> OBJ_GetEntryDesc(ObjectAt[k.x], i)]
    <2>1. en = entry BY <1>1
    <2> HIDE DEF en, entry
    <2>2. \A i \in DOMAIN en : WriteAllowed(en[i], master'.al) =>
                /\ i \in DOMAIN master'.stored
                /\ master'.stored[i] = Bytes(i, BIT2BYTE(en[i].bits))
      BY <1>1, <1>7, <2>1
    <2>3. master'.x = k.x BY <1>1
    <2> QED BY <2>2, <2>3 DEF DownloadIsWhole, en
  <1> QED BY <1>1, <1>8

LEMMA ModuleCount ==
    ASSUME NEW r \in Downloads, Legal(r)
    PROVE  r.x = \hF030 /\ r.sub = 0 => r.val[0] \in 0..255
  BY RequestAssumption DEF Legal

LEMMA DownloadStep ==
    ASSUME Inv, NEW r \in Downloads, Download(r)
    PROVE  Inv'
  <1> USE DEF Inv
  <1>1. al' = al /\ al # "INIT" BY DEF Download
  <1>2. ASSUME RequestRefused(r), master' = Result(Idle), UNCHANGED <<seg, config>>
        PROVE  Inv'
    <2>1. Configured' /\ ObjDicList' = ObjDicList BY <1>1, <1>2, ConfigurationKept DEF config
    <2> QED BY <1>2, <2>1, QuietStep
  <1> DEFINE sent == Sent(r)
             size == Len(sent)
  <1>3. ASSUME ~RequestRefused(r), DownloadWhole(r) PROVE Inv'
    <2> DEFINE old == Held(r.x)
               res == OBJ_Write(r, size, AsBytes(sent), old, pd, al)
    <2>1. /\ seg' = Unsegmented(r)
          /\ Stored(r.x, DOMAIN res.stored, r.val)
          /\ master' = Result(Written(r, r, res))
      BY <1>3 DEF DownloadWhole
    <2>2. Legal(r) BY <1>1, <1>3, Granted
    <2>3. r.x = \hF030 /\ r.sub = 0 => r.val[0] \in 0..255 BY <2>2, ModuleCount
    <2>4. Configured' /\ ObjDicList' = ObjDicList
      BY <1>1, <2>1, <2>2, <2>3, WriteKeeps
    <2>5. \/ master' = master \/ master' = Idle
          \/ res.abort = "none" /\ master' = Written(r, r, res)
      BY <2>1 DEF Result, Written
    <2>6. UploadRight' /\ DownloadIsWhole' /\ Listed'
          /\ (master' = master \/ master'.kind \notin {"up", "down"})
      <3>1. CASE master' = master \/ master' = Idle
        <4>1. UploadRight' /\ DownloadIsWhole' /\ Listed' BY <2>4, <3>1, RememberedKept
        <4> QED BY <3>1, <4>1 DEF Idle
      <3>2. CASE res.abort = "none" /\ master' = Written(r, r, res)
        <4>1. DownloadIsWhole' /\ master'.kind = "downloaded"
          BY <1>1, <2>2, <3>2, WrittenRight
        <4> HIDE DEF res
        <4> QED BY <4>1 DEF UploadRight, UploadIsWhole, Listed
      <3> QED BY <2>5, <3>1, <3>2
    <2>7. Uploading' /\ Downloading' /\ DOMAIN seg' = Fields
      <3>1. r.x \in Indices /\ r.sub \in 0..ObjectAt[r.x].max BY <2>2 DEF Legal
      <3>2. \/ seg' = seg
            \/ seg' = [seg EXCEPT !.x = r.x, !.sub = r.sub] /\ NothingToWrite(r.x, r.sub)
        BY <1>1, <1>3, <2>1, Redirected
      <3> QED BY <2>6, <3>1, <3>2, TransferKept
    <2> QED BY <2>4, <2>6, <2>7
  <1>4. ASSUME ~RequestRefused(r), DownloadFirst(r) PROVE Inv'
    <2> DEFINE buffer == [b \in 0..(size - 1) |-> IF b < InitialRoom THEN sent[b + 1] ELSE Stale]
               down == [kind |-> "down", key |-> r, image |-> sent, toggle |-> 0,
                        sent |-> InitialRoom]
    <2>1. UNCHANGED config /\ ObjDicList' = ObjDicList /\ size > InitialRoom
      BY <1>4 DEF DownloadFirst, config
    <2>2. Configured' BY <1>1, <2>1, ConfigurationKept
    <2>3. CASE /\ seg' = Segmented(r, "download", size, InitialRoom, buffer)
               /\ master' = down
      <3>1. Legal(r) BY <1>1, <1>4, Granted
      <3>2. InitialRoom \in Nat /\ InitialRoom >= 20 BY MailboxRoom
      <3>3. size \in Nat /\ (~r.ca => size <= 20)
        <4> DEFINE a == Access(r)
                   last == LastSub(r)
        <4>1. a \in Accesses /\ last \in LastSubs(a) BY <3>1, LegalAccess
        <4>2. a.x = r.x /\ a.sub = r.sub /\ a.ca = r.ca BY DEF Access
        <4>3. sent = Image(a.x, a.sub, a.ca, last) BY <4>2 DEF Sent
        <4> HIDE DEF a, last, sent
        <4>4. Len(Image(a.x, a.sub, a.ca, last)) \in Nat
              /\ (~a.ca => Len(Image(a.x, a.sub, a.ca, last)) <= 20)
          BY <4>1, LengthFact
        <4> QED BY <4>2, <4>3, <4>4
      <3> HIDE DEF size
      <3>4. r.ca
        <4>1. r.ca \in BOOLEAN BY <3>1 DEF Legal
        <4> QED BY <2>1, <3>2, <3>3, <4>1
      <3>5. InitialRoom \in 0..(size - 1) BY <2>1, <3>2, <3>3
      <3>6. /\ DOMAIN seg' = Fields /\ seg'.service = "download" /\ seg'.x = r.x
            /\ seg'.sub = r.sub /\ seg'.ca = r.ca /\ seg'.size = size
            /\ seg'.done = InitialRoom /\ seg'.data = buffer
        BY <2>3 DEF Segmented, Fields
      <3>7. /\ DOMAIN master' = {"kind", "key", "image", "toggle", "sent"}
            /\ master'.kind = "down" /\ master'.key = r /\ master'.image = sent
            /\ master'.sent = InitialRoom
        BY <2>3
      <3>8. /\ DOMAIN buffer = 0..(size - 1)
            /\ \A b \in 0..(InitialRoom - 1) : buffer[b] = sent[b + 1]
        <4> DEFINE room == InitialRoom
        <4> HIDE DEF sent, room
        <4>1. \A b \in 0..(room - 1) : b \in 0..(size - 1) /\ b < room BY <3>3, <3>5 DEF room
        <4> QED BY <4>1 DEF room
      <3> HIDE DEF buffer, sent
      <3>9. Downloading'
        <4>1. sent = Sent(r) BY DEF sent
        <4>2. size = Len(sent) BY DEF size
        <4>3. r.ca = TRUE
          <5>1. r.ca \in BOOLEAN BY <3>1 DEF Legal
          <5> QED BY <3>4, <5>1
        <4>4. seg'.ca = TRUE BY <3>6, <4>3
        <4> QED BY <3>1, <3>3, <3>5, <3>6, <3>7, <3>8, <4>1, <4>2, <4>3, <4>4
          DEF Downloading
      <3> QED BY <2>2, <3>6, <3>7, <3>9
        DEF Uploading, UploadRight, UploadIsWhole, DownloadIsWhole, Listed
    <2>4. CASE seg' = NoBuffer(r, size) /\ master' = Idle
      <3>1. DOMAIN seg' = Fields BY <2>4 DEF NoBuffer, Segmented, NoSegments, Fields
      <3>2. master'.kind = "idle" BY <2>4 DEF Idle
      <3>3. UploadRight' /\ DownloadIsWhole' /\ Listed' BY <2>1, <2>4, RememberedKept
      <3> QED BY <2>2, <3>1, <3>2, <3>3 DEF Uploading, Downloading
    <2> QED BY <1>4, <2>3, <2>4 DEF DownloadFirst
  <1> QED BY <1>2, <1>3, <1>4 DEF Download

LEMMA OfTwo ==
    ASSUME NEW m \in Int, NEW n \in Int
    PROVE  /\ Max({m, n}) = IF m >= n THEN m ELSE n
           /\ Min({m, n}) = IF m <= n THEN m ELSE n
  <1>1. \E x \in {m, n} : \A y \in {m, n} : x >= y OBVIOUS
  <1>2. \E x \in {m, n} : \A y \in {m, n} : x <= y OBVIOUS
  <1>3. Max({m, n}) \in {m, n} /\ \A y \in {m, n} : Max({m, n}) >= y BY <1>1 DEF Max
  <1>4. Min({m, n}) \in {m, n} /\ \A y \in {m, n} : Min({m, n}) <= y BY <1>2 DEF Min
  <1> DEFINE a == Max({m, n})  b == Min({m, n})
  <1> HIDE DEF a, b
  <1>5. a \in {m, n} /\ a >= m /\ a >= n BY <1>3 DEF a
  <1>6. b \in {m, n} /\ b <= m /\ b <= n BY <1>4 DEF b
  <1>7. a = (IF m >= n THEN m ELSE n) /\ b = (IF m <= n THEN m ELSE n) BY <1>5, <1>6
  <1> QED BY <1>7 DEF a, b

\* A last segment is taken only if it holds all that is left, another one only
\* if more is left than it holds.
LEMMA SegmentTaken ==
    ASSUME Configured, seg.size \in Nat, seg.done \in 0..(seg.size - 1),
           NEW t, NEW isLast \in BOOLEAN, NEW n,
           LET left  == seg.size - seg.done
               whole == Min({left, SegmentRoom})
           IN  n = whole \/ (isLast /\ left <= SegmentRoom /\ n = whole - 1),
           ~SegmentRefused(t, n, isLast)
    PROVE  /\ isLast => n \in Nat /\ n >= seg.size - seg.done
           /\ ~isLast => n = SegmentRoom /\ seg.done + SegmentRoom < seg.size
  <1> DEFINE left == seg.size - seg.done
             room == SegmentRoom
             whole == Min({left, room})
             received == Max({n, MIN_SEGMENTED_DATA})
             counted == Min({n, MIN_SEGMENTED_DATA})
  <1>1. left \in Nat /\ left >= 1 OBVIOUS
  <1>2. room \in Nat BY MailboxRoom
  <1>3. n = whole \/ (isLast /\ left <= room /\ n = whole - 1) OBVIOUS
  <1>4. /\ isLast => ~(left > room)
        /\ isLast => \/ left <= received /\ left = counted
                     \/ left > MIN_SEGMENTED_DATA /\ left = received
        /\ ~isLast => ~(left <= room)
    BY DEF SegmentRefused
  <1> HIDE DEF left, room
  <1>5. whole = IF left <= room THEN left ELSE room
    <2>1. left \in Int /\ room \in Int BY <1>1, <1>2
    <2> QED BY <2>1, OfTwo, Zenon
  <1> HIDE DEF whole
  <1>6. n \in Int BY <1>1, <1>2, <1>3, <1>5
  <1>7. /\ received = IF n >= 7 THEN n ELSE 7
        /\ counted = IF n <= 7 THEN n ELSE 7
    <2>1. MIN_SEGMENTED_DATA = 7 /\ 7 \in Int BY DEF MIN_SEGMENTED_DATA
    <2> QED BY <1>6, <2>1, OfTwo, Zenon
  <1> HIDE DEF received, counted
  <1>8. isLast => n \in Nat /\ n >= left
    BY <1>1, <1>2, <1>4, <1>6, <1>7 DEF MIN_SEGMENTED_DATA
  <1>9. ~isLast => n = room /\ left > room BY <1>1, <1>2, <1>3, <1>4, <1>5
  <1>10. ~isLast => seg.done + room < seg.size BY <1>2, <1>9 DEF left
  <1> QED BY <1>8, <1>9, <1>10 DEF left, room

LEMMA DownloadSegmentStep ==
    ASSUME Inv, NEW t, NEW n, NEW isLast \in BOOLEAN, DownloadSegment(t, n, isLast),
           LET left  == Len(master.image) - master.sent
               whole == Min({left, SegmentRoom})
           IN  n = whole \/ (isLast /\ left <= SegmentRoom /\ n = whole - 1)
    PROVE  Inv'
  <1> USE DEF Inv
  <1> DEFINE bytes == [b \in 0..(n - 1) |-> master.image[master.sent + b + 1]]
             size  == IF isLast THEN seg.size - seg.done ELSE SegmentRoom
             piece == From(bytes, 0, size)
             data  == Put(seg.data, seg.done, piece)
             r     == [x |-> seg.x, sub |-> seg.sub, ca |-> seg.ca, val |-> master.key.val]
             key   == master.key
             sent  == master.image
  <1>1. al # "INIT" /\ al' = al /\ master.kind = "down" BY DEF DownloadSegment
  <1>2. CASE seg.service # "download"
    <2>1. master' = Idle /\ UNCHANGED <<seg, config>> BY <1>2 DEF DownloadSegment
    <2>2. Configured' /\ ObjDicList' = ObjDicList BY <1>1, <2>1, ConfigurationKept DEF config
    <2> QED BY <2>1, <2>2, QuietStep
  <1>3. CASE seg.service = "download" /\ SegmentRefused(t, n, isLast)
    <2>1. seg' = NoSegments /\ master' = Idle /\ UNCHANGED config
      BY <1>3 DEF DownloadSegment
    <2>2. Configured' /\ ObjDicList' = ObjDicList BY <1>1, <2>1, ConfigurationKept DEF config
    <2> QED BY <2>1, <2>2, QuietStep
  <1>4. ASSUME seg.service = "download", ~SegmentRefused(t, n, isLast) PROVE Inv'
    <2>1. /\ DOMAIN master = {"kind", "key", "image", "toggle", "sent"}
          /\ key \in Downloads /\ Legal(key) /\ key.ca
          /\ sent = Sent(key)
          /\ seg.ca = TRUE
          /\ seg.size = Len(sent) /\ seg.size \in Nat
          /\ seg.done = master.sent /\ seg.done \in 0..(seg.size - 1)
          /\ DOMAIN seg.data = 0..(seg.size - 1)
          /\ \A b \in 0..(seg.done - 1) : seg.data[b] = sent[b + 1]
          /\ \/ seg.x = key.x /\ seg.sub = key.sub
             \/ /\ seg.x \in Indices /\ seg.sub \in 0..ObjectAt[seg.x].max
                /\ NothingToWrite(seg.x, seg.sub)
      BY <1>1, <1>4 DEF Downloading
    <2>2. /\ isLast => n \in Nat /\ n >= seg.size - seg.done
          /\ ~isLast => n = SegmentRoom /\ seg.done + SegmentRoom < seg.size
      <3>1. LET left  == seg.size - seg.done
                whole == Min({left, SegmentRoom})
            IN  n = whole \/ (isLast /\ left <= SegmentRoom /\ n = whole - 1)
        BY <2>1
      <3> QED BY <1>4, <2>1, <3>1, SegmentTaken
    <2>3. SegmentRoom \in Nat BY MailboxRoom
    <2>4. /\ n \in Nat /\ size \in Nat /\ size <= n
          /\ seg.done \in Nat /\ seg.size \in Nat /\ seg.done + size <= seg.size
          /\ isLast => seg.done + size = seg.size
          /\ ~isLast => size = n /\ seg.done + size < seg.size
      BY <2>1, <2>2, <2>3
    <2> HIDE DEF size
    <2>5. /\ DOMAIN data = 0..(seg.size - 1)
          /\ \A b \in 0..((seg.done + size) - 1) : data[b] = sent[b + 1]
      <3> DEFINE at == seg.done
                 there == at..(at + size - 1)
      <3>1. Len(piece) = size
        <4>1. piece = [k \in 1..size |-> IF 0 + k - 1 \in DOMAIN bytes THEN bytes[0 + k - 1] ELSE Stale]
          BY DEF From
        <4> HIDE DEF piece, bytes
        <4> DEFINE T == {piece[k] : k \in 1..size}
        <4>2. piece = [k \in 1..size |-> piece[k]] BY <4>1
        <4>3. \A k \in 1..size : piece[k] \in T OBVIOUS
        <4> HIDE DEF T
        <4> QED BY <2>4, <4>2, <4>3
      <3>2. ASSUME NEW k \in 1..size PROVE piece[k] = sent[at + k]
        <4>1. k - 1 \in 0..(n - 1) /\ 0 + k - 1 = k - 1 BY <2>4
        <4>2. piece[k] = IF 0 + k - 1 \in DOMAIN bytes THEN bytes[0 + k - 1] ELSE Stale
          BY DEF From
        <4>3. piece[k] = bytes[k - 1] BY <4>1, <4>2
        <4>4. bytes[k - 1] = sent[master.sent + (k - 1) + 1] BY <4>1
        <4>5. master.sent + (k - 1) + 1 = at + k BY <2>1, <2>4
        <4> QED BY <4>3, <4>4, <4>5
      <3> HIDE DEF piece
      <3>3. data = [b \in there \cup DOMAIN seg.data |->
                        IF b \in there THEN piece[b - at + 1] ELSE seg.data[b]]
        BY <3>1 DEF Put
      <3> HIDE DEF data
      <3>4. there \subseteq 0..(seg.size - 1) BY <2>4
      <3>5. DOMAIN data = 0..(seg.size - 1) BY <2>1, <3>3, <3>4
      <3>6. ASSUME NEW b \in 0..((at + size) - 1) PROVE data[b] = sent[b + 1]
        <4>1. CASE b \in there
          <5>1. data[b] = piece[b - at + 1] BY <3>3, <4>1
          <5>2. b - at + 1 \in 1..size /\ at + (b - at + 1) = b + 1 BY <2>4, <4>1
          <5> QED BY <3>2, <5>1, <5>2
        <4>2. CASE b \notin there
          <5>1. b \in 0..(at - 1) /\ b \in 0..(seg.size - 1) BY <2>4, <4>2
          <5>2. data[b] = seg.data[b] BY <2>1, <3>3, <4>2, <5>1
          <5> QED BY <2>1, <5>1, <5>2
        <4> QED BY <4>1, <4>2
      <3> QED BY <3>5, <3>6
    <2> HIDE DEF data, piece, bytes
    <2>6. CASE ~isLast
      <3>1. /\ seg' = [seg EXCEPT !.toggle = t, !.done = @ + size, !.data = data]
            /\ master' = [master EXCEPT !.sent = @ + n, !.toggle = 16 - t]
            /\ UNCHANGED config
        BY <1>1, <1>4, <2>6 DEF DownloadSegment, size, data, piece, bytes
      <3>2. Configured' BY <1>1, <3>1, ConfigurationKept
      <3>3. /\ DOMAIN seg' = Fields /\ seg'.service = "download" /\ seg'.done = seg.done + size
            /\ seg'.size = seg.size /\ seg'.data = data /\ seg'.ca = seg.ca
            /\ seg'.x = seg.x /\ seg'.sub = seg.sub
        BY <1>4, <3>1 DEF Fields
      <3>4. /\ DOMAIN master' = {"kind", "key", "image", "toggle", "sent"}
            /\ master'.kind = "down" /\ master'.key = key /\ master'.image = sent
            /\ master'.sent = seg.done + size
        <4>1. /\ DOMAIN master' = {"kind", "key", "image", "toggle", "sent"}
              /\ master'.kind = "down" /\ master'.key = key /\ master'.image = sent
              /\ master'.sent = master.sent + n
          BY <1>1, <2>1, <3>1
        <4>2. seg.done = master.sent /\ size = n BY <2>1, <2>4, <2>6
        <4> QED BY <4>1, <4>2, Zenon
      <3>5. seg.done + size \in 0..(seg.size - 1) BY <2>4, <2>6
      <3> HIDE DEF key, sent
      <3>6. Downloading'
        <4>1. seg'.size = Len(master'.image) /\ seg'.size \in Nat BY <2>1, <3>3, <3>4
        <4>2. seg'.done = master'.sent /\ seg'.done \in 0..(seg'.size - 1)
          BY <3>3, <3>4, <3>5
        <4>3. /\ DOMAIN seg'.data = 0..(seg'.size - 1)
              /\ \A b \in 0..(seg'.done - 1) : seg'.data[b] = master'.image[b + 1]
          <5> DEFINE end == seg.done + size
          <5>1. seg'.done = end /\ seg'.size = seg.size /\ seg'.data = data
            BY <3>3
          <5>2. /\ DOMAIN data = 0..(seg.size - 1)
                /\ \A b \in 0..(end - 1) : data[b] = sent[b + 1]
            BY <2>5
          <5> HIDE DEF end
          <5> QED BY <3>4, <5>1, <5>2
        <4>4. /\ master'.key \in Downloads /\ Legal(master'.key) /\ master'.key.ca
              /\ master'.image = Sent(master'.key) /\ seg'.ca = TRUE
          BY <2>1, <3>3, <3>4
        <4>5. \/ seg'.x = master'.key.x /\ seg'.sub = master'.key.sub
              \/ /\ seg'.x \in Indices /\ seg'.sub \in 0..ObjectAt[seg'.x].max
                 /\ NothingToWrite(seg'.x, seg'.sub)
          BY <2>1, <3>3, <3>4
        <4> QED BY <3>4, <4>1, <4>2, <4>3, <4>4, <4>5 DEF Downloading
      <3> QED BY <3>2, <3>3, <3>4, <3>6
        DEF Uploading, UploadRight, UploadIsWhole, DownloadIsWhole, Listed
    <2>7. CASE isLast
      <3> DEFINE res == OBJ_Write(r, seg.size, data, Held(r.x), pd, al)
      <3>1. /\ seg' = NoSegments
            /\ Stored(r.x, DOMAIN res.stored, r.val)
            /\ master' = Written(r, key, res)
        BY <1>1, <1>4, <2>7 DEF DownloadSegment, size, data, piece, bytes
      <3>2. DOMAIN seg' = Fields /\ seg'.service = "none" BY <3>1 DEF NoSegments, Fields
      <3>3. data = AsBytes(sent)
        <4>1. DOMAIN data = 0..(Len(sent) - 1) /\ \A b \in 0..(Len(sent) - 1) : data[b] = sent[b + 1]
          <5> DEFINE end == seg.done + size
          <5>1. end = Len(sent) /\ seg.size = Len(sent) BY <2>1, <2>4, <2>7
          <5>2. /\ DOMAIN data = 0..(seg.size - 1)
                /\ \A b \in 0..(end - 1) : data[b] = sent[b + 1]
            BY <2>5
          <5> HIDE DEF end
          <5> QED BY <5>1, <5>2
        <4>2. data = [b \in DOMAIN data |-> data[b]] BY DEF data, Put
        <4> HIDE DEF sent
        <4> QED BY <4>1, <4>2 DEF AsBytes
      <3>4. /\ r.x = seg.x /\ r.sub = seg.sub /\ r.ca = TRUE /\ r.val = key.val
        BY <2>1
      <3>5. CASE seg.x = key.x /\ seg.sub = key.sub
        <4>1. /\ r.x = key.x /\ r.sub = key.sub /\ r.val = key.val
              /\ r.ca = key.ca
          <5>1. key.ca \in BOOLEAN BY <2>1 DEF Legal
          <5> QED BY <2>1, <3>4, <3>5, <5>1
        <4> HIDE DEF r, key
        <4>2. Legal(r) BY <2>1, <4>1 DEF Legal
        <4>3. r.x = \hF030 /\ r.sub = 0 => r.val[0] \in 0..255
          <5>1. key.x = \hF030 /\ key.sub = 0 => key.val[0] \in 0..255 BY <2>1, ModuleCount
          <5> QED BY <4>1, <5>1
        <4>4. Configured' /\ ObjDicList' = ObjDicList
          <5> DEFINE sz == seg.size
          <5> HIDE DEF data, sz
          <5>1. res = OBJ_Write(r, sz, data, Held(r.x), pd, al) BY DEF sz
          <5> HIDE DEF res
          <5> QED BY <1>1, <3>1, <4>2, <4>3, <5>1, WriteKeeps
        <4>5. sent = Sent(r) BY <2>1, <4>1 DEF Sent, LastSub
        <4>6. res = OBJ_Write(r, Len(sent), AsBytes(sent), Held(r.x), pd, al)
          BY <2>1, <3>3
        <4> HIDE DEF res, sent
        <4>7. CASE res.abort = "none"
          <5>1. DownloadIsWhole' /\ master'.kind = "downloaded"
            BY <1>1, <3>1, <4>1, <4>2, <4>5, <4>6, <4>7, WrittenRight
          <5> QED BY <3>2, <4>4, <5>1
            DEF Uploading, Downloading, UploadRight, UploadIsWhole, Listed
        <4>8. CASE res.abort # "none"
          <5>1. master' = Idle BY <3>1, <4>8 DEF Written
          <5> QED BY <3>1, <4>4, <5>1, QuietStep
        <4> QED BY <4>7, <4>8
      <3>6. CASE /\ seg.x \in Indices /\ seg.sub \in 0..ObjectAt[seg.x].max
                 /\ NothingToWrite(seg.x, seg.sub)
        <4> DEFINE o == ObjectAt[r.x]
                   max == o.max
                   old == Held(r.x)
        <4>1. /\ r.x \in Indices /\ r.sub \in 0..max /\ r.ca /\ NothingToWrite(r.x, r.sub)
          BY <3>4, <3>6
        <4> HIDE DEF r, key
        <4>2. max \in 0..32
          <5>1. \A x \in Indices : ObjectAt[x].max \in 0..32 BY HighestFact
          <5> QED BY <4>1, <5>1, Zenon
        <4>3. old[0] \in Sub0(r.x) BY <4>1, HeldSub0
        <4> DEFINE sz == seg.size
        <4>4. sz # 0 /\ r.sub \in Nat /\ max \in Int /\ max >= r.sub - 1
          <5> HIDE DEF max
          <5> QED BY <2>1, <4>1, <4>2
        <4>5. o.code # "VAR" => LastWritten(r, sz, old) = max
          <5> SUFFICES ASSUME o.code # "VAR" PROVE LastWritten(r, sz, old) = max OBVIOUS
          <5>1. r.sub > 0 BY <4>1 DEF NothingToWrite
          <5>2. WriteMax(r.x, o, old[0]) = max
            <6>1. r.x # \hF030 => old[0] = max BY <4>3 DEF Sub0
            <6>2. r.x = \hF030 => old[0] \in {0, 1} /\ max = 1 /\ ClearsFirst(r.x)
              BY <4>3, HighestFact DEF Sub0, ClearsFirst
            <6>3. WriteMax(r.x, o, old[0])
                    = IF old[0] = 0 /\ ClearsFirst(r.x) THEN max ELSE old[0]
              BY DEF WriteMax
            <6> HIDE DEF max, old, o
            <6>4. CASE r.x = \hF030 BY <6>2, <6>3, <6>4
            <6>5. CASE r.x # \hF030
              BY <6>1, <6>3, <6>5, <4>4, <5>1, <4>1, <4>2
            <6> QED BY <6>4, <6>5
          <5> HIDE DEF max, old, o
          <5>3. ~(r.sub = 0) BY <5>1, <4>4
          <5> QED BY <4>1, <5>2, <5>3 DEF LastWritten, o
        <4> HIDE DEF old, sz, data
        <4>6. /\ OBJ_Write(r, sz, data, old, pd, al).abort # "none"
              /\ OBJ_Write(r, sz, data, old, pd, al).stored = <<>>
          <5>1. al \in Operational BY <1>1 DEF Configured
          <5> QED BY <4>1, <4>4, <4>5, <5>1, NothingWritten
        <4>7. res.abort # "none" /\ res.stored = <<>> BY <4>6 DEF old, sz
        <4> HIDE DEF res
        <4>8. Configured' /\ ObjDicList' = ObjDicList
          <5> DEFINE entries == DOMAIN res.stored
          <5>1. Stored(r.x, entries, r.val) BY <3>1
          <5>2. 0 \notin entries /\ 1 \notin entries BY <4>7
          <5> HIDE DEF entries
          <5> QED BY <1>1, <5>1, <5>2, StoredKeeps
        <4>9. master' = Idle BY <3>1, <4>7 DEF Written
        <4> QED BY <3>1, <4>8, <4>9, QuietStep
      <3> QED BY <2>1, <3>5, <3>6
    <2> QED BY <2>6, <2>7
  <1> QED BY <1>2, <1>3, <1>4

-----------------------------------------------------------------------------
(* Object lists.                                                           *)

LEMMA LengthOf ==
    ASSUME NEW n \in Nat, NEW f, f = [k \in 1..n |-> f[k]]
    PROVE  Len(f) = n /\ DOMAIN f = 1..n
  <1> DEFINE T == {f[k] : k \in 1..n}
  <1>1. \A k \in 1..n : f[k] \in T OBVIOUS
  <1>2. DOMAIN f = 1..n OBVIOUS
  <1> HIDE DEF T
  <1>3. f \in Seq(T) BY <1>1
  <1> QED BY <1>2, <1>3

\* Up to three sequences, one behind the other.
LEMMA Flattened ==
    ASSUME NEW n \in 1..3, NEW g, g = [k \in 1..n |-> g[k]]
    PROVE  FlattenSeq(g) = IF n = 1 THEN g[1] ELSE IF n = 2 THEN g[1] \o g[2]
                           ELSE (g[1] \o g[2]) \o g[3]
  <1> DEFINE Step(h) == [i \in 1..n |-> IF i = 1 THEN g[i] ELSE h[i - 1] \o g[i]]
             all == [i \in 1..n |-> IF i = 1 THEN g[1] ELSE IF i = 2 THEN g[1] \o g[2]
                                    ELSE (g[1] \o g[2]) \o g[3]]
             flat == CHOOSE h : h = Step(h)
  <1>1. n \in Nat /\ Len(g) = n BY LengthOf
  <1>2. all = Step(all)
    <2>1. ASSUME NEW i \in 1..n PROVE all[i] = Step(all)[i]
      <3>1. i = 1 \/ i = 2 \/ i = 3 OBVIOUS
      <3>2. CASE i = 1 BY <3>2
      <3>3. CASE i = 2
        <4>1. i - 1 = 1 /\ 1 \in 1..n BY <3>3
        <4> QED BY <3>3, <4>1
      <3>4. CASE i = 3
        <4>1. i - 1 = 2 /\ 2 \in 1..n BY <3>4
        <4> QED BY <3>4, <4>1
      <3> QED BY <3>1, <3>2, <3>3, <3>4
    <2> QED BY <2>1
  <1>3. flat = Step(flat)
    <2>1. \E h : h = Step(h) BY <1>2
    <2> HIDE DEF Step
    <2> QED BY <2>1
  <1>4. FlattenSeq(g) = flat[n]
    <2>1. n # 0 OBVIOUS
    <2> QED BY <1>1, <2>1 DEF FlattenSeq
  <1>5. \A i \in 1..n : flat[i] = IF i = 1 THEN g[i] ELSE flat[i - 1] \o g[i]
    <2> HIDE DEF flat
    <2> SUFFICES ASSUME NEW i \in 1..n
                 PROVE  flat[i] = IF i = 1 THEN g[i] ELSE flat[i - 1] \o g[i]
      OBVIOUS
    <2>1. flat[i] = Step(flat)[i] BY <1>3
    <2> QED BY <2>1
  <1> HIDE DEF flat
  <1>6. 1 \in 1..n /\ flat[1] = g[1]
    <2>1. 1 \in 1..n OBVIOUS
    <2> QED BY <1>5, <2>1
  <1>7. n >= 2 => flat[2] = g[1] \o g[2]
    <2>1. n >= 2 => 2 \in 1..n /\ 2 # 1 /\ 2 - 1 = 1 OBVIOUS
    <2> QED BY <1>5, <1>6, <2>1
  <1>8. n = 3 => flat[3] = (g[1] \o g[2]) \o g[3]
    <2>1. n = 3 => 3 \in 1..n /\ 3 # 1 /\ 3 - 1 = 2 /\ n >= 2 OBVIOUS
    <2> QED BY <1>5, <1>7, <2>1
  <1>9. n = 1 \/ n = 2 \/ n = 3 OBVIOUS
  <1>10. n = 2 => n >= 2 OBVIOUS
  <1> QED BY <1>4, <1>6, <1>7, <1>8, <1>9, <1>10

\* The fragments announce each other and together are the list, for every size
\* of the mailbox.
LEMMA FragmentsWhole ==
    ASSUME Configured, ObjDicList = Full, NEW type \in 1..5, NEW f, f = Fragments(type)
    PROVE  /\ FlattenSeq([k \in DOMAIN f |-> f[k].indices]) = ListOf(Full, type)
           /\ \A k \in DOMAIN f : f[k].left = Len(f) - k
  <1> DEFINE size == mbx - SIZEOF_SDOINFOLISTSTRUCT - MBX_HEADER_SIZE
             list == ListOf(ObjDicList, type)
             n == Len(list)
             left == FragmentsLeft(n, size)
             m == left + 1
             end(k) == (size + (k - 1) * (size + 2)) \div 2
             upto(k) == Min({end(k), n})
             part(k) == SubSeq(list, IF k = 1 THEN 1 ELSE end(k - 1) + 1, upto(k))
  <1>1. list \in Seq(Indices) /\ n \in 0..32
    <2>1. /\ ListOf(Full, type) \in Seq(Indices) /\ Len(ListOf(Full, type)) <= 32
      BY ListFact
    <2>2. list = ListOf(Full, type) OBVIOUS
    <2> HIDE DEF list
    <2>3. list \in Seq(Indices) /\ n <= 32 BY <2>1, <2>2, Zenon
    <2>4. n \in Nat BY <2>3, LenProperties
    <2> HIDE DEF n
    <2> QED BY <2>3, <2>4
  <1>2. size \in 22..114
    <2>1. mbx \in 36..128 BY MbxAssumption DEF Configured
    <2>2. size = (mbx - 8) - 6 BY DEF SIZEOF_SDOINFOLISTSTRUCT, MBX_HEADER_SIZE
    <2> HIDE DEF size
    <2> QED BY <2>1, <2>2
  <1>3. f = [k \in 1..m |-> [left |-> left + 1 - k, indices |-> part(k)]]
    BY DEF Fragments
  <1> HIDE DEF size, list, n
  <1>4. left = IF 2 * n > size THEN (2 * n + 1) \div (size + 2) ELSE 0
    <2>1. (2 * n - size + size + 1) = 2 * n + 1 BY <1>1, <1>2
    <2>2. left = IF 2 * n > size THEN (2 * n - size + size + 1) \div (size + 2) ELSE 0
      BY DEF FragmentsLeft
    <2> QED BY <2>1, <2>2
  <1> HIDE DEF left
  <1>5. /\ left \in {0, 1, 2}
        /\ left = 0 => 2 * n <= size
        /\ left = 1 => size + 2 <= 2 * n + 1 /\ 2 * n + 1 < 2 * (size + 2)
        /\ left = 2 => 2 * (size + 2) <= 2 * n + 1 /\ 2 * n + 1 < 3 * (size + 2)
    <2> DEFINE a == 2 * n + 1
               b == size + 2
    <2>1. a \in 1..65 /\ b \in 24..116 BY <1>1, <1>2
    <2>2. left = IF a > b - 1 THEN a \div b ELSE 0 BY <1>1, <1>2, <1>4
    <2>3. ~(a > b - 1) => 2 * n <= size BY <1>1, <1>2
    <2>4. a > b - 1 => a >= b BY <2>1
    <2> HIDE DEF a, b
    <2>5. \/ a < b \/ (b <= a /\ a < 2 * b) \/ (2 * b <= a /\ a < 3 * b) BY <2>1
    <2>6. CASE a < b
      <3>1. ~(a > b - 1) BY <2>1, <2>6
      <3> QED BY <2>2, <2>3, <3>1
    <2>7. CASE b <= a /\ a < 2 * b
      <3>1. a \div b = 1 /\ a > b - 1 BY <2>1, <2>7
      <3> QED BY <2>2, <2>7, <3>1 DEF a, b
    <2>8. CASE 2 * b <= a /\ a < 3 * b
      <3>1. a \div b = 2 /\ a > b - 1 BY <2>1, <2>8
      <3> QED BY <2>2, <2>8, <3>1 DEF a, b
    <2> QED BY <2>5, <2>6, <2>7, <2>8
  <1>6. m \in 1..3 /\ m \in Nat /\ (m = 1 \/ m = 2 \/ m = 3)
        /\ (m = 1 <=> left = 0) /\ (m = 2 <=> left = 1) /\ (m = 3 <=> left = 2)
    BY <1>5
  <1> HIDE DEF m
  <1>7. /\ end(1) = size \div 2 /\ end(2) = size + 1 /\ end(3) = (3 * size + 4) \div 2
    <2>1. (1 - 1) * (size + 2) = 0 /\ (2 - 1) * (size + 2) = size + 2
          /\ (3 - 1) * (size + 2) = 2 * size + 4
      BY <1>2
    <2>2. size + 0 = size /\ size + (size + 2) = 2 * size + 2
          /\ size + (2 * size + 4) = 3 * size + 4
          /\ (2 * size + 2) \div 2 = size + 1
      BY <1>2
    <2>3. end(1) = size \div 2 BY <2>1, <2>2
    <2>4. end(2) = size + 1 BY <2>1, <2>2
    <2>5. end(3) = (3 * size + 4) \div 2 BY <2>1, <2>2
    <2> QED BY <2>3, <2>4, <2>5
  <1> DEFINE e1 == size \div 2
             e2 == size + 1
             e3 == (3 * size + 4) \div 2
  <1>8. /\ e1 \in Nat /\ e2 \in Nat /\ e3 \in Nat
        /\ m = 1 => n <= e1
        /\ m = 2 => e1 <= n /\ n <= e2
        /\ m = 3 => e1 <= e2 /\ e2 <= n /\ n <= e3
    BY <1>1, <1>2, <1>5, <1>6
  <1> HIDE DEF end, e1, e2, e3
  <1>9. /\ m = 1 => upto(1) = n
        /\ m = 2 => upto(1) = e1 /\ upto(2) = n
        /\ m = 3 => upto(1) = e1 /\ upto(2) = e2 /\ upto(3) = n
    <2>1. n \in Int /\ e1 \in Int /\ e2 \in Int /\ e3 \in Int BY <1>1, <1>8
    <2>2. /\ Min({e1, n}) = IF e1 <= n THEN e1 ELSE n
          /\ Min({e2, n}) = IF e2 <= n THEN e2 ELSE n
          /\ Min({e3, n}) = IF e3 <= n THEN e3 ELSE n
      BY <2>1, OfTwo
    <2>3. upto(1) = Min({e1, n}) /\ upto(2) = Min({e2, n}) /\ upto(3) = Min({e3, n})
      BY <1>7 DEF e1, e2, e3
    <2> QED BY <1>1, <1>8, <2>2, <2>3
  <1> HIDE DEF upto
  <1>10. /\ part(1) = SubSeq(list, 1, upto(1))
         /\ part(2) = SubSeq(list, e1 + 1, upto(2))
         /\ part(3) = SubSeq(list, e2 + 1, upto(3))
    <2>1. 2 - 1 = 1 /\ 3 - 1 = 2 /\ 2 # 1 /\ 3 # 1 OBVIOUS
    <2> QED BY <1>7, <2>1 DEF e1, e2, e3
  <1> DEFINE g == [k \in DOMAIN f |-> f[k].indices]
  <1> HIDE DEF part
  <1>11. DOMAIN f = 1..m /\ Len(f) = m
    <2>1. f = [k \in 1..m |-> f[k]] BY <1>3
    <2> QED BY <1>6, <2>1, LengthOf
  <1>12. g = [k \in 1..m |-> part(k)]
    <2>1. \A k \in 1..m : f[k].indices = part(k) BY <1>3
    <2> QED BY <1>11, <2>1
  <1>13. ASSUME NEW k \in DOMAIN f PROVE f[k].left = Len(f) - k
    <2>1. f[k].left = left + 1 - k BY <1>3, <1>11
    <2>2. left + 1 - k = m - k BY <1>5, <1>11 DEF m
    <2> QED BY <1>11, <2>1, <2>2
  <1>14. FlattenSeq(g) = IF m = 1 THEN g[1] ELSE IF m = 2 THEN g[1] \o g[2]
                         ELSE (g[1] \o g[2]) \o g[3]
    <2>1. g = [k \in 1..m |-> g[k]] BY <1>11
    <2> HIDE DEF g
    <2> QED BY <1>6, <2>1, Flattened
  <1>15. /\ g[1] = part(1)
         /\ m = 2 => g[2] = part(2)
         /\ m = 3 => g[2] = part(2) /\ g[3] = part(3)
    <2>1. 1 \in 1..m /\ (m = 2 => 2 \in 1..m) /\ (m = 3 => 2 \in 1..m /\ 3 \in 1..m)
      BY <1>6
    <2> HIDE DEF g
    <2> QED BY <1>12, <2>1
  <1> HIDE DEF g
  <1>16. SubSeq(list, 1, n) = list
    BY <1>1, SubSeqFull DEF n
  <1>17. CASE m = 1
    BY <1>9, <1>10, <1>13, <1>14, <1>15, <1>16, <1>17 DEF g, list
  <1>18. CASE m = 2
    <2>1. SubSeq(list, 1, e1) \o SubSeq(list, e1 + 1, n) = SubSeq(list, 1, n)
      <3>1. 1 \in 1..(Len(list) + 1) /\ e1 \in (1 - 1)..Len(list) /\ n \in e1..Len(list)
        BY <1>1, <1>8, <1>18 DEF n
      <3> QED BY <1>1, <3>1, ConcatAdjacentSubSeq
    <2>2. FlattenSeq(g) = list
      BY <1>9, <1>10, <1>14, <1>15, <1>16, <1>18, <2>1
    <2> QED BY <1>13, <2>2 DEF g, list
  <1>19. CASE m = 3
    <2>1. SubSeq(list, 1, e1) \o SubSeq(list, e1 + 1, e2) = SubSeq(list, 1, e2)
      <3>1. 1 \in 1..(Len(list) + 1) /\ e1 \in (1 - 1)..Len(list) /\ e2 \in e1..Len(list)
        BY <1>1, <1>8, <1>19 DEF n
      <3> QED BY <1>1, <3>1, ConcatAdjacentSubSeq
    <2>2. SubSeq(list, 1, e2) \o SubSeq(list, e2 + 1, n) = SubSeq(list, 1, n)
      <3>1. 1 \in 1..(Len(list) + 1) /\ e2 \in (1 - 1)..Len(list) /\ n \in e2..Len(list)
        BY <1>1, <1>8, <1>19 DEF n
      <3> QED BY <1>1, <3>1, ConcatAdjacentSubSeq
    <2>3. FlattenSeq(g) = list
      BY <1>9, <1>10, <1>14, <1>15, <1>16, <1>19, <2>1, <2>2
    <2> QED BY <1>13, <2>3 DEF g, list
  <1> QED BY <1>6, <1>17, <1>18, <1>19

LEMMA ObjectListStep ==
    ASSUME Inv, NEW type \in ListTypes, ObjectList(type)
    PROVE  Inv'
  <1> USE DEF Inv
  <1>1. /\ UNCHANGED <<al, seg, config>> /\ al # "INIT"
        /\ ObjDicList' = ObjDicList /\ ObjDicList = Full
    BY DEF ObjectList, config, Configured
  <1>2. Configured' BY <1>1, ConfigurationKept
  <1> DEFINE Members(k) == {x \in Indices : InList(k, x)}
             members(k) == {x \in ToSet(ObjDicList') : InList(k, x)}
  <1>3. ToSet(ObjDicList') = Indices BY <1>1, DictionaryFact
  <1>4. \A k : members(k) = Members(k) BY <1>3
  <1>5. CASE master' = master \/ master' = Idle
    BY <1>1, <1>2, <1>5, QuietStep
  <1>6. ASSUME master'.kind \in {"counted", "listed"}, Listed' PROVE Inv'
    <2>1. Uploading' /\ Downloading' /\ DOMAIN seg' = Fields
      BY <1>1, <1>6 DEF Uploading, Downloading
    <2>2. UploadRight' /\ DownloadIsWhole'
      BY <1>6 DEF UploadRight, UploadIsWhole, DownloadIsWhole
    <2> QED BY <1>2, <1>6, <2>1, <2>2
  <1>7. CASE /\ type = 0
             /\ master' = [kind |-> "counted", counts |-> [k \in 1..5 |-> OBJ_GetNoOfObjects(k)]]
    <2>1. master'.kind = "counted" /\ master'.counts = [k \in 1..5 |-> OBJ_GetNoOfObjects(k)]
      BY <1>7
    <2>2. ASSUME NEW k \in 1..5 PROVE master'.counts[k] = Cardinality(members(k))
      <3>1. master'.counts[k] = Len(ListOf(Full, k))
        BY <1>1, <2>1 DEF OBJ_GetNoOfObjects
      <3>2. Len(ListOf(Full, k)) = Cardinality(Members(k)) BY ListFact
      <3>3. members(k) = Members(k) BY <1>4
      <3> HIDE DEF members, Members
      <3> QED BY <3>1, <3>2, <3>3
    <2>3. ListIsWhole' BY <2>1, <2>2 DEF ListIsWhole
    <2>4. Listed' BY <1>1, <2>3 DEF Listed
    <2> QED BY <1>6, <2>1, <2>4
  <1>8. CASE /\ type # 0
             /\ master' = [kind |-> "listed", type |-> type, frags |-> Fragments(type)]
    <2> DEFINE f == Fragments(type)
               list == FlattenSeq([k \in DOMAIN f |-> f[k].indices])
    <2>1. master'.kind = "listed" /\ master'.type = type /\ master'.frags = f
      BY <1>8
    <2>2. type \in 1..5
      <3>1. type \in 0..5 BY ListAssumption
      <3> QED BY <1>8, <3>1
    <2>3. list = ListOf(Full, type) /\ \A k \in DOMAIN f : f[k].left = Len(f) - k
      <3> DEFINE ff == f
      <3>1. ff = Fragments(type) OBVIOUS
      <3> HIDE DEF ff
      <3>2. FlattenSeq([k \in DOMAIN ff |-> ff[k].indices]) = ListOf(Full, type)
            /\ \A k \in DOMAIN ff : ff[k].left = Len(ff) - k
        BY <1>1, <2>2, <3>1, FragmentsWhole
      <3> QED BY <3>2 DEF ff
    <2>4. /\ ToSet(ListOf(Full, type)) = Members(type)
          /\ \A k \in 1..(Len(ListOf(Full, type)) - 1) :
                ListOf(Full, type)[k] < ListOf(Full, type)[k + 1]
      BY <2>2, ListFact
    <2>5. members(type) = Members(type) BY <1>4
    <2> HIDE DEF members, Members
    <2>6. /\ ToSet(list) = members(type)
          /\ \A k \in 1..(Len(list) - 1) : list[k] < list[k + 1]
      <3> HIDE DEF list
      <3> QED BY <2>3, <2>4, <2>5
    <2>7. ListIsWhole'
      <3> DEFINE ff == master'.frags
                 whole == FlattenSeq([k \in DOMAIN ff |-> ff[k].indices])
      <3>1. ff = f /\ whole = list BY <2>1
      <3> HIDE DEF ff, f, list
      <3>2. /\ \A k \in DOMAIN ff : ff[k].left = Len(ff) - k
            /\ ToSet(whole) = members(master'.type)
            /\ \A k \in 1..(Len(whole) - 1) : whole[k] < whole[k + 1]
        <4> HIDE DEF whole
        <4> QED BY <2>1, <2>3, <2>6, <3>1
      <3> QED BY <2>1, <3>2 DEF ListIsWhole, ff, members
    <2>8. Listed' BY <1>1, <2>7 DEF Listed
    <2> QED BY <1>6, <2>1, <2>8
  <1> QED
    <2>1. \/ master' = master
          \/ master' = (IF type = 0
                        THEN [kind |-> "counted",
                              counts |-> [k \in 1..5 |-> OBJ_GetNoOfObjects(k)]]
                        ELSE [kind |-> "listed", type |-> type, frags |-> Fragments(type)])
      BY DEF ObjectList, Result
    <2> QED BY <1>5, <1>7, <1>8, <2>1

-----------------------------------------------------------------------------
(* State changes.                                                          *)

LEMMA DictionaryComplete ==
    ASSUME Configured
    PROVE  /\ Module_UpdateObjectDictionary = [list |-> Full, failed |-> FALSE]
           /\ APPL_UpdateAssignObjects(Full) = [rx |-> RxPdos, tx |-> TxPdos, failed |-> FALSE]
           /\ ObjDicList = Full => Full = ObjDicList
  <1>1. CASE ObjDicList = Full
    <2>1. Contains(ObjDicList, \h160F) BY <1>1, DictionaryFact
    <2> QED BY <1>1, <2>1, MappingFact DEF Module_UpdateObjectDictionary
  <1>2. CASE ObjDicList # Full
    <2>1. /\ ObjDicList = COE_ObjDictionaryInit /\ f030[0] = 1
          /\ f030[1] = FSoESafetyModule
      BY <1>2 DEF Configured
    <2>2. ~Contains(ObjDicList, \h160F) BY <2>1, DictionaryFact
    <2>3. ~(f030[0] < 1) /\ f030[1] # "0" BY <2>1 DEF FSoESafetyModule
    <2>4. Module_UpdateObjectDictionary = AddObjectsToObjDictionary(ObjDicList, ModuleObjDic)
      BY <2>1, <2>2, <2>3 DEF Module_UpdateObjectDictionary
    <2> QED BY <1>2, <2>1, <2>4, DictionaryFact, MappingFact
  <1> QED BY <1>1, <1>2

\* From INIT the dictionary and the assignment are as they were, or complete.
LEMMA InitToPreopStep ==
    ASSUME Inv, NEW size \in MbxSizes, InitToPreop(size)
    PROVE  Inv'
  <1> USE DEF Inv
  <1> DEFINE dic == Module_UpdateObjectDictionary
             a   == APPL_UpdateAssignObjects(dic.list)
  <1>1. dic = [list |-> Full, failed |-> FALSE]
        /\ a = [rx |-> RxPdos, tx |-> TxPdos, failed |-> FALSE]
    BY DictionaryComplete
  <1>2. /\ al' = "PREOP" /\ mbx' = size /\ ObjDicList' = dic.list
        /\ assign' = IF a.failed THEN assign ELSE [rx |-> a.rx, tx |-> a.tx]
        /\ refused' = "no" /\ master' = Forget /\ UNCHANGED <<f030, sync, pd, dc, seg>>
    BY DEF InitToPreop
  <1> HIDE DEF dic, a
  <1>3. ObjDicList' = Full /\ assign' = [rx |-> RxPdos, tx |-> TxPdos] BY <1>1, <1>2
  <1>4. Configured'
    BY <1>2, <1>3 DEF Configured, ConfigurationHolds, Operational
  <1> QED BY <1>2, <1>3, <1>4, QuietStep DEF Forget

\* The mapping never fails, and the synchronisation types SAFEOP starts with
\* are possible.
LEMMA PreopToSafeopStep ==
    ASSUME Inv, NEW d \in DcConfigs, PreopToSafeop(d)
    PROVE  Inv'
  <1> USE DEF Inv
  <1> DEFINE dic   == Module_UpdateObjectDictionary
             a     == APPL_UpdateAssignObjects(dic.list)
             sizes == APPL_GenerateMapping(dic, a)
             size  == [in |-> PD_BYTES, out |-> PD_BYTES]
  <1>1. dic = [list |-> Full, failed |-> FALSE]
        /\ a = [rx |-> RxPdos, tx |-> TxPdos, failed |-> FALSE]
    BY DictionaryComplete
  <1>2. sizes = [in |-> PD_BYTES, out |-> PD_BYTES, failed |-> FALSE]
    <2> HIDE DEF dic, a
    <2>1. MappedBytes(a.rx) = PD_BYTES /\ MappedBytes(a.tx) = PD_BYTES
      BY <1>1, MappingFact
    <2>2. Contains(dic.list, \h160F) /\ Contains(dic.list, \h1A0F)
      BY <1>1, DictionaryFact
    <2>3. ~dic.failed /\ ~a.failed BY <1>1
    <2> DEFINE in   == MappedBytes(a.tx)
               out  == MappedBytes(a.rx)
               late == \/ in # PD_BYTES \/ out # PD_BYTES
                       \/ ~Contains(dic.list, \h160F) \/ ~Contains(dic.list, \h1A0F)
               fail == \/ dic.failed \/ a.failed
                       \/ f030[0] >= 1 /\ f030[1] = FSoESafetyModule /\ late
    <2>4. sizes = [in |-> in, out |-> out, failed |-> fail]
      BY Zenon DEF APPL_GenerateMapping
    <2>5. in = PD_BYTES /\ out = PD_BYTES /\ ~late BY <2>1, <2>2
    <2> HIDE DEF late
    <2>6. fail = FALSE BY <2>3, <2>5
    <2> HIDE DEF fail, in, out, sizes
    <2> QED BY <2>4, <2>5, <2>6
  <1>3. /\ al = "PREOP" /\ dc' = d /\ ObjDicList' = dic.list
        /\ assign' = IF dic.failed \/ a.failed THEN assign ELSE [rx |-> a.rx, tx |-> a.tx]
        /\ pd' = IF sizes.failed THEN pd ELSE [in |-> sizes.in, out |-> sizes.out]
        /\ refused' = IF sizes.failed THEN "mapping"
                      ELSE IF SyncRefused(d) THEN "sync" ELSE "no"
        /\ al' = IF refused' = "no" THEN "SAFEOP" ELSE "PREOP"
        /\ sync' = IF refused' = "no" THEN SyncTypes(d, pd') ELSE sync
        /\ master' = Forget /\ UNCHANGED <<mbx, f030, seg>>
    BY Zenon DEF PreopToSafeop
  <1> HIDE DEF dic, a, sizes
  <1>4. /\ ObjDicList' = Full /\ assign' = [rx |-> RxPdos, tx |-> TxPdos]
        /\ pd' = size /\ refused' = IF SyncRefused(d) THEN "sync" ELSE "no"
    BY <1>1, <1>2, <1>3
  <1>5. DOMAIN sync' = {"user", "out", "in"}
    <2>1. DOMAIN sync = {"user", "out", "in"} BY DEF Configured
    <2> QED BY <1>3, <2>1 DEF SyncTypes
  <1>6. ~SyncRefused(d) =>
          ({sync'.out, sync'.in} \cap {"sync0", "sync1"}) \subseteq Signals(d)
    <2> SUFFICES ASSUME ~SyncRefused(d)
                 PROVE  ({sync'.out, sync'.in} \cap {"sync0", "sync1"}) \subseteq Signals(d)
      OBVIOUS
    <2>1. sync' = SyncTypes(d, size) BY <1>3, <1>4
    <2>2. CASE sync.user
      <3>1. sync' = sync BY <2>1, <2>2 DEF SyncTypes
      <3>2. ({sync.out, sync.in} \cap {"sync0", "sync1"}) \ Signals(d) = {}
        BY <2>2 DEF SyncRefused
      <3> QED BY <3>1, <3>2
    <2>3. CASE ~sync.user
      <3>1. size.in # 0 /\ size.out # 0 /\ size.out > 0 BY DEF PD_BYTES
      <3>2. /\ sync'.out = IF d = "off" THEN "sm" ELSE IF d = "subordinated" THEN "sync1"
                           ELSE "sync0"
            /\ sync'.in = IF d = "off" THEN "sm2"
                          ELSE IF "sync1" \in Signals(d) THEN "sync1" ELSE "sync0"
        <4>1. DOMAIN sync = {"user", "out", "in"} BY DEF Configured
        <4> HIDE DEF size
        <4> QED BY <2>1, <2>3, <3>1, <4>1 DEF SyncTypes
      <3>3. d = "off" \/ "sync0" \in Signals(d) BY DEF SyncRefused
      <3>4. d = "subordinated" => "sync1" \in Signals(d) BY DEF Signals
      <3> DEFINE o == sync'.out
                 i == sync'.in
      <3>5. o \in {"sm"} \cup Signals(d) /\ i \in {"sm2"} \cup Signals(d)
        BY <3>2, <3>3, <3>4
      <3> HIDE DEF o, i
      <3>6. ({o, i} \cap {"sync0", "sync1"}) \subseteq Signals(d) BY <3>5
      <3> QED BY <3>6 DEF o, i
    <2> QED BY <2>2, <2>3
  <1>7. Configured'
    <2>1. al' \in {"SAFEOP", "PREOP"} /\ (al' = "SAFEOP" => ~SyncRefused(d))
          /\ refused' # "mapping" /\ al' # "OP"
      BY <1>3, <1>4
    <2>2. ConfigurationHolds'
      BY <1>3, <1>4, <1>6, <2>1 DEF ConfigurationHolds
    <2>3. mbx' = mbx /\ f030' = f030 BY <1>3
    <2> QED BY <1>4, <1>5, <2>1, <2>2, <2>3 DEF Configured, Operational
  <1>8. ObjDicList = Full => ObjDicList' = ObjDicList BY <1>4
  <1> QED BY <1>3, <1>7, <1>8, QuietStep DEF Forget

LEMMA OtherStateSteps ==
    ASSUME Inv, SafeopToOp \/ OpToSafeop \/ ToPreop \/ ToInit
    PROVE  Inv'
  <1> USE DEF Inv
  <1>1. CASE SafeopToOp \/ OpToSafeop
    <2>1. /\ al \in {"SAFEOP", "OP"} /\ al' \in {"SAFEOP", "OP"}
          /\ UNCHANGED <<config, seg>> /\ master' = Forget
      BY <1>1 DEF SafeopToOp, OpToSafeop
    <2>2. Configured'
      BY <2>1 DEF Configured, ConfigurationHolds, config, Operational
    <2>3. ObjDicList' = ObjDicList BY <2>1 DEF config
    <2> QED BY <2>1, <2>2, <2>3, QuietStep DEF Forget
  <1>2. CASE ToPreop \/ ToInit
    <2>1. /\ al # "INIT" /\ al' \in {"PREOP", "INIT"} /\ sync' = [sync EXCEPT !.user = FALSE]
          /\ UNCHANGED <<mbx, ObjDicList, assign, f030, pd, dc>>
          /\ refused' = refused \/ refused' = "no"
          /\ seg' = seg \/ seg' = NoSegments
          /\ master' = Result(Idle) \/ master' = master
      BY <1>2 DEF ToPreop, ToInit, Forget
    <2>2. DOMAIN sync' = {"user", "out", "in"} BY <2>1 DEF Configured
    <2>3. refused' # "mapping" BY <2>1 DEF Configured, ConfigurationHolds
    <2>4. ObjDicList = Full BY <2>1 DEF Configured
    <2>5. al' \in {"INIT"} \cup Operational /\ al' \notin {"SAFEOP", "OP"}
      BY <2>1 DEF Operational
    <2>6. Configured'
      BY <2>1, <2>2, <2>3, <2>4, <2>5 DEF Configured, ConfigurationHolds
    <2> QED BY <2>1, <2>6, QuietStep
  <1> QED BY <1>1, <1>2

LEMMA InitHolds ==
    ASSUME Init
    PROVE  Inv
  <1>1. master.kind = "idle" BY DEF Init, Idle
  <1>2. DOMAIN seg = Fields BY DEF Init, NoSegments, Fields
  <1>3. Configured
    <2>1. f030[0] = 1 /\ f030[1] = FSoESafetyModule BY DEF Init, ZeroOne
    <2>2. assign = [rx |-> RxPdos, tx |-> TxPdos] BY DEF Init, RxPdos, TxPdos
    <2>3. /\ al = "INIT" /\ mbx \in MbxSizes /\ ObjDicList = COE_ObjDictionaryInit
          /\ DOMAIN sync = {"user", "out", "in"} /\ refused = "no"
      BY DEF Init
    <2> QED BY <2>1, <2>2, <2>3 DEF Configured, ConfigurationHolds
  <1> QED BY <1>1, <1>2, <1>3
    DEF Inv, Uploading, Downloading, UploadRight, UploadIsWhole, DownloadIsWhole, Listed

-----------------------------------------------------------------------------
(* The theorems.                                                           *)

LEMMA SendSegmentStep ==
    ASSUME Inv, SendSegment
    PROVE  Inv'
  <1> DEFINE left   == Len(master.image) - master.sent
             n      == Min({left, SegmentRoom})
             isLast == left <= SegmentRoom
             t      == master.toggle
  <1>1. \/ DownloadSegment(t, n, isLast) \/ DownloadSegment(16 - t, n, isLast)
        \/ DownloadSegment(t, n, ~isLast)
        \/ DownloadSegment(t, IF isLast THEN n - 1 ELSE n, isLast)
    <2>1. PICK s \in {<<t, n, isLast>>, <<16 - t, n, isLast>>, <<t, n, ~isLast>>,
                      <<t, IF isLast THEN n - 1 ELSE n, isLast>>} :
                DownloadSegment(s[1], s[2], s[3])
      BY DEF SendSegment
    <2> HIDE DEF n, isLast, t
    <2> QED BY <2>1
  <1>2. isLast \in BOOLEAN /\ (~isLast) \in BOOLEAN OBVIOUS
  <1>3. \A tt : \A last \in BOOLEAN : DownloadSegment(tt, n, last) => Inv'
    BY DownloadSegmentStep
  <1>4. isLast => (DownloadSegment(t, n - 1, isLast) => Inv')
    BY <1>2, DownloadSegmentStep
  <1> HIDE DEF n, isLast, t
  <1> QED BY <1>1, <1>2, <1>3, <1>4

LEMMA StepKeeps ==
    ASSUME Inv, [Next]_vars
    PROVE  Inv'
  <1>1. ASSUME NEW r \in Uploads, Upload(r) PROVE Inv'
    BY <1>1, UploadStep
  <1>2. ASSUME NEW r \in Downloads, Download(r) PROVE Inv'
    BY <1>2, DownloadStep
  <1>3. ASSUME NEW t \in {0, 16}, UploadSegment(t) PROVE Inv'
    BY <1>3, UploadSegmentStep
  <1>4. CASE SendSegment BY <1>4, SendSegmentStep
  <1>5. ASSUME NEW type \in ListTypes, ObjectList(type) PROVE Inv'
    BY <1>5, ObjectListStep
  <1>6. ASSUME NEW size \in MbxSizes, InitToPreop(size) PROVE Inv'
    BY <1>6, InitToPreopStep
  <1>7. ASSUME NEW d \in DcConfigs, PreopToSafeop(d) PROVE Inv'
    BY <1>7, PreopToSafeopStep
  <1>8. CASE SafeopToOp \/ OpToSafeop \/ ToPreop \/ ToInit
    BY <1>8, OtherStateSteps
  <1>9. CASE UNCHANGED vars
    <2>1. /\ UNCHANGED <<al, config>> /\ seg' = seg /\ master' = master
          /\ ObjDicList' = ObjDicList
      BY <1>9 DEF vars, config
    <2>2. Configured' BY <2>1, ConfigurationKept DEF Inv
    <2> QED BY <2>1, <2>2, QuietStep
  <1> QED BY <1>1, <1>2, <1>3, <1>4, <1>5, <1>6, <1>7, <1>8, <1>9 DEF Next

\* The invariant the theorems below rest on holds in every reachable state.
THEOREM Inductive == Spec => []Inv
  <1>1. Init => Inv BY InitHolds
  <1>2. Inv /\ [Next]_vars => Inv' BY StepKeeps
  <1> QED BY <1>1, <1>2, PTL DEF Spec

\* A finished upload gave the master the entries it asked for, for every set of
\* requests in which the module list 0xF030 is read entry by entry
\* (ModuleListReadByEntry): the length of its complete access counts an entry
\* that subindex 0 may say is not there and OBJ_Read does not copy.
THEOREM UploadsWhole == ASSUME ModuleListReadByEntry PROVE Spec => []UploadIsWhole
  <1>1. Inv => UploadIsWhole BY DEF Inv, UploadRight
  <1> QED BY <1>1, Inductive, PTL

\* An acknowledged download stored the bytes the master sent for each entry that
\* can be written, in the object it named.
THEOREM DownloadsWhole == Spec => []DownloadIsWhole
  <1>1. Inv => DownloadIsWhole BY DEF Inv
  <1> QED BY <1>1, Inductive, PTL

\* Whatever was written, the mapping never refuses SAFEOP, and SAFEOP and OP run
\* with the promised sizes and only with Sync signals that are generated.
THEOREM ConfigurationRight == Spec => []ConfigurationHolds
  <1>1. Inv => ConfigurationHolds BY DEF Inv, Configured
  <1> QED BY <1>1, Inductive, PTL

\* The fragments of an object list announce each other and together are the list.
THEOREM ListsWhole == Spec => []ListIsWhole
  <1>1. Inv => ListIsWhole
    <2>1. CASE master.kind \in {"counted", "listed"} BY <2>1 DEF Inv, Listed
    <2>2. CASE master.kind \notin {"counted", "listed"} BY <2>2 DEF ListIsWhole
    <2> QED BY <2>1, <2>2
  <1> QED BY <1>1, Inductive, PTL

=============================================================================
