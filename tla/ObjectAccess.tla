---------------------------- MODULE ObjectAccess ----------------------------
(***************************************************************************)
(* The functions of objdef.c on the objects of ObjectDictionary: lengths,  *)
(* offsets, the two walks OBJ_Read and OBJ_Write, the check of a written   *)
(* synchronisation type, and the lists of the SDO information service.     *)
(*                                                                         *)
(* A buffer is a function from byte positions to tokens: <<sub, k>> is the *)
(* k-th byte of entry sub, Zero a byte the code clears, Stale a byte that  *)
(* holds whatever was there before.  Of the values of the entries only     *)
(* those matter that the code looks at: subindex 0, the module in 0xF030:1 *)
(* and the synchronisation types in 0x1C32:1 and 0x1C33:1.                 *)
(***************************************************************************)
EXTENDS ObjectDictionary, SequencesExt

Zero  == <<>>
Stale == <<"stale">>
Bytes(sub, n) == [k \in 1..n |-> <<sub, k>>]
Put(buf, at, tokens) ==
    LET there == at..(at + Len(tokens) - 1)
    IN  [b \in there \cup DOMAIN buf |-> IF b \in there THEN tokens[b - at + 1] ELSE buf[b]]
From(buf, at, n) ==
    [k \in 1..n |-> IF at + k - 1 \in DOMAIN buf THEN buf[at + k - 1] ELSE Stale]
Blank(n, token) == [b \in 0..(n - 1) |-> token]

BIT2BYTE(n) == (n + 7) \div 8

-----------------------------------------------------------------------------
(* Lengths and offsets.                                                    *)

OBJ_GetEntryDesc(o, sub) ==
    IF o.code = "ARR" /\ sub > 0 THEN o.entry[2] ELSE o.entry[sub + 1]

(* The length of an access in bytes; si0 is the value of subindex 0.       *)
OBJ_GetObjectLength(o, sub, ca, si0) ==
    LET bits == IF o.code = "ARR" THEN o.entry[2].bits * si0
                ELSE MapThenSumSet(LAMBDA i : o.entry[i + 1].bits, 1..o.max)
    IN  CASE ca /\ o.code = "VAR"  -> 0
          [] ca /\ o.code # "VAR"  -> BIT2BYTE(bits) + (IF sub = 0 THEN 2 ELSE 0)
          [] ~ca /\ o.code = "VAR" -> BIT2BYTE(o.entry[1].bits)
          [] ~ca /\ o.code # "VAR" /\ sub = 0 -> 1
          [] ~ca /\ o.code = "REC" /\ sub > o.max -> 0
          [] OTHER -> BIT2BYTE(OBJ_GetEntryDesc(o, sub).bits)

(* The offset in bits of an entry in the object's variable: 16 bits of     *)
(* subindex 0 and what the data types of the entries before it take.       *)
OBJ_GetEntryOffset(o, sub) ==
    LET width(e) == CASE e.type = "word" -> 16 [] e.type = "dword" -> 32
                      [] e.type = "qword" -> 64 [] OTHER -> e.bits
    IN  IF o.code = "VAR" \/ sub = 0 THEN 0
        ELSE 16 + MapThenSumSet(LAMBDA i : width(OBJ_GetEntryDesc(o, i)), 1..(sub - 1))

Offset == [x \in Indices |->
              [i \in 0..ObjectAt[x].max |-> OBJ_GetEntryOffset(ObjectAt[x], i)]]

-----------------------------------------------------------------------------
(* OBJ_Read.  c is the cursor of the walk: p the word the mailbox pointer  *)
(* stands at, buf the data written so far, read whether any entry was read *)
(* and result what is returned if none was; abort ends the walk.           *)

ReadAllowed(e, al)  == <<"read", al>> \in e.access
WriteAllowed(e, al) == <<"write", al>> \in e.access
MayRead(e)  == \E s \in Operational : ReadAllowed(e, s)
MayWrite(e) == \E s \in Operational : WriteAllowed(e, s)

(* The checks before the walk.                                             *)
ReadRefused(o, sub, ca, si0, al) ==
    LET max == IF o.code = "VAR" THEN o.max ELSE si0
        e   == OBJ_GetEntryDesc(o, sub)
    IN  CASE ca /\ o.code = "VAR" -> "UNSUPPORTED_ACCESS"
          [] ca /\ o.code # "VAR" -> "none"
          [] ~ca /\ sub > max     -> "SUBINDEX_NOT_EXISTING"
          [] OTHER -> IF e.access = {} THEN "UNSUPPORTED_ACCESS"
                      ELSE IF ReadAllowed(e, al) THEN "none"
                      ELSE IF MayRead(e) THEN "STATE" ELSE "WRITE_ONLY_ENTRY"

ClearWord(buf, p) == Put(buf, 2 * p, <<Zero, Zero>>)

(* Types up to 8 bits: the half of the word is chosen by the bit offset.   *)
ReadByte(c, i, e, offset, ca) ==
    LET cleared == IF offset % 16 = 0 THEN ClearWord(c.buf, c.p) ELSE c.buf
        half    == IF ca THEN (offset % 16) \div 8 ELSE 0
    IN  [c EXCEPT !.buf = Put(cleared, 2 * c.p + half, Bytes(i, 1)),
                  !.p = IF (offset + e.bits) % 16 = 0 THEN @ + 1 ELSE @]

(* Types of 16, 32 and 64 bits and strings must start at a word.           *)
ReadWords(c, i, e, offset) ==
    IF offset % 16 # 0 THEN [c EXCEPT !.abort = "UNSUPPORTED_ACCESS"]
    ELSE [c EXCEPT !.buf = Put(@, 2 * c.p, Bytes(i, BIT2BYTE(e.bits))),
                   !.p = @ + e.bits \div 16]

(* An alignment entry (type NULL) moves the pointer, in a complete access. *)
ReadNull(c, e, offset, ca) ==
    IF ~ca THEN [c EXCEPT !.abort = "DATA_CANNOT_BE_READ"]
    ELSE LET carry == IF e.bits % 16 > 0 /\ (offset + e.bits) % 16 = 0 THEN 1 ELSE 0
         IN  [c EXCEPT !.p = @ + carry + ((e.bits \div 16) % 16)]

(* An entry that may not be read is skipped and its words are cleared.     *)
SkipUnread(c, e, offset) ==
    LET carry == IF e.bits % 16 > 0 /\ (offset + e.bits) % 16 = 0 THEN 1 ELSE 0
        words == carry + ((e.bits \div 16) % 16)
        first == IF offset % 16 = 0 THEN c.p ELSE c.p + 1
    IN  [c EXCEPT
            !.buf = Put(@, 2 * first, [k \in 1..(2 * (c.p + words - first + 1)) |-> Zero]),
            !.p = @ + words,
            !.result = IF MayRead(e) THEN "STATE" ELSE "WRITE_ONLY_ENTRY"]

ReadEntry(c, x, i, ca, al) ==
    LET o      == ObjectAt[x]
        e      == OBJ_GetEntryDesc(o, i)
        offset == Offset[x][i]
    IN  CASE ~ReadAllowed(e, al) -> SkipUnread(c, e, offset)
          [] ReadAllowed(e, al) /\ i = 0 /\ o.code # "VAR" ->
                [c EXCEPT !.buf = Put(@, 2 * c.p, Bytes(0, 2)), !.p = @ + 1]
          [] OTHER ->
                [(CASE e.type = "byte" -> ReadByte(c, i, e, offset, ca)
                    [] e.type = "null" -> ReadNull(c, e, offset, ca)
                    [] OTHER           -> ReadWords(c, i, e, offset)) EXCEPT !.read = TRUE]

(* 0x10F8 is read by a function of its own.                                *)
Read0x10F8(buf) == Put(buf, 0, Bytes(0, 8))

Outcome(c) == [abort |-> IF c.abort = "none" /\ ~c.read THEN c.result ELSE c.abort,
               buf   |-> c.buf]

OBJ_Read(x, sub, ca, si0, al, buf) ==
    LET start == [p |-> 0, buf |-> buf, read |-> FALSE, result |-> "none",
                  abort |-> ReadRefused(ObjectAt[x], sub, ca, si0, al)]
        last  == IF ca THEN si0 ELSE sub
        walk[i \in (sub - 1)..last] ==
            IF i < sub THEN start
            ELSE LET c == walk[i - 1]
                 IN  IF c.abort # "none" THEN c ELSE ReadEntry(c, x, i, ca, al)
    IN  IF x = \h10F8 /\ start.abort = "none"
        THEN [abort |-> "none", buf |-> Read0x10F8(buf)]
        ELSE Outcome(walk[last])

-----------------------------------------------------------------------------
(* OBJ_Write.  c is the cursor: p the word the mailbox pointer stands at,  *)
(* stored the bytes each written entry received, result what is returned   *)
(* if nothing was written; abort ends the walk.  val is what the master    *)
(* writes and old what the object holds, for the entries whose value the   *)
(* code looks at; pd are the process data sizes.                           *)

IsAssign(x) == x \in \h1C10..\h1C2F
IsRxPdo(x)  == x \in \h1600..\h17FF
IsTxPdo(x)  == x \in \h1A00..\h1BFF
ClearsFirst(x) == IsAssign(x) \/ IsRxPdo(x) \/ IsTxPdo(x) \/ x = \hF030

(* The highest subindex that can be written.                               *)
WriteMax(x, o, si0) ==
    IF o.code = "VAR" THEN 0
    ELSE IF si0 = 0 /\ ClearsFirst(x) THEN o.max ELSE si0

WriteRefused(x, o, sub, ca, si0, al) ==
    LET e == OBJ_GetEntryDesc(o, sub)
    IN  CASE ca /\ o.code = "VAR" -> "UNSUPPORTED_ACCESS"
          [] ca /\ o.code # "VAR" -> "none"
          [] ~ca /\ sub > WriteMax(x, o, si0) -> "SUBINDEX_NOT_EXISTING"
          [] OTHER -> IF WriteAllowed(e, al) THEN "none"
                      ELSE IF MayWrite(e) THEN "STATE"
                      ELSE IF e.access = {} THEN "UNSUPPORTED_ACCESS"
                      ELSE "READ_ONLY_ENTRY"

(* A synchronisation type is accepted if the process data allow it; all    *)
(* the types are among the supported ones (0x1C32:4, 0x1C33:4).            *)
CheckSyncTypeValue(x, type, pd) ==
    \/ type = "freerun"
    \/ type = "sm"  /\ x = \h1C32 /\ pd.out > 0
    \/ type = "sm"  /\ x = \h1C33 /\ pd.out = 0 /\ pd.in > 0
    \/ type = "sm2" /\ x = \h1C33 /\ pd.out > 0
    \/ type \in {"sync0", "sync1"}

Store(c, i, bytes) ==
    [j \in DOMAIN c.stored \cup {i} |-> IF j = i THEN bytes ELSE c.stored[j]]

StoreByte(c, i, e, data, offset, ca) ==
    LET half == IF ca THEN (offset % 16) \div 8 ELSE 0
    IN  [c EXCEPT !.stored = Store(c, i, From(data, 2 * c.p + half, 1)),
                  !.p = IF (offset + e.bits) % 16 = 0 THEN @ + 1 ELSE @]

StoreWords(c, i, e, data, offset) ==
    IF offset % 16 # 0 THEN [c EXCEPT !.abort = "UNSUPPORTED_ACCESS"]
    ELSE [c EXCEPT !.stored = Store(c, i, From(data, 2 * c.p, BIT2BYTE(e.bits))),
                   !.p = @ + e.bits \div 16]

(* Subindex 0: the new value may not exceed the highest subindex.          *)
StoreSi0(c, o, data, val) ==
    IF val[0] > o.max THEN [c EXCEPT !.abort = "VALUE_TOO_GREAT"]
    ELSE [c EXCEPT !.stored = Store(c, 0, From(data, 2 * c.p, 1)), !.p = @ + 1]

(* Entry i of object x with its checks: 0xF030:1 changes only while        *)
(* subindex 0 is zero, a synchronisation type must be possible.            *)
StoreChecked(c, i, e, data, offset, r, old, pd) ==
    LET x       == r.x
        differs == i \in DOMAIN old /\ r.val[i] # old[i]
    IN  IF r.sub > 0 /\ ClearsFirst(x) /\ old[0] # 0 /\ differs
        THEN [c EXCEPT !.abort = "SI0_NOT_0"]
        ELSE IF x \in {\h1C32, \h1C33} /\ i = 1 /\ differs
                /\ ~CheckSyncTypeValue(x, r.val[1], pd)
        THEN [c EXCEPT !.abort = "VALUE_EXCEEDED"]
        ELSE StoreWords(c, i, e, data, offset)

SkipUnwritten(c, i, e, offset) ==
    LET carry == IF e.bits % 16 > 0 /\ (offset + e.bits) % 16 = 0 THEN 1 ELSE 0
    IN  [c EXCEPT !.p = @ + (IF i = 0 THEN 1 ELSE carry + e.bits \div 16),
                  !.result = "DATA_CANNOT_BE_STORED"]

WriteEntry(c, i, data, r, old, pd, al) ==
    LET o      == ObjectAt[r.x]
        e      == OBJ_GetEntryDesc(o, i)
        offset == Offset[r.x][i]
    IN  CASE ~WriteAllowed(e, al) -> SkipUnwritten(c, i, e, offset)
          [] WriteAllowed(e, al) /\ i = 0 /\ o.code # "VAR" -> StoreSi0(c, o, data, r.val)
          [] OTHER -> IF e.type = "byte" THEN StoreByte(c, i, e, data, offset, r.ca)
                      ELSE StoreChecked(c, i, e, data, offset, r, old, pd)

Conclusion(c) ==
    [abort  |-> IF c.abort = "none" /\ c.stored = <<>> THEN c.result ELSE c.abort,
     stored |-> c.stored]

(* The loop over the entries from r.sub to last.                           *)
WriteWalk(r, last, start, data, old, pd, al) ==
    LET walk[i \in (r.sub - 1)..last] ==
            IF i < r.sub THEN start
            ELSE LET c == walk[i - 1]
                 IN  IF c.abort # "none" THEN c ELSE WriteEntry(c, i, data, r, old, pd, al)
    IN  walk[last]

OBJ_Write(r, size, data, old, pd, al) ==
    LET refused == WriteRefused(r.x, ObjectAt[r.x], r.sub, r.ca, old[0], al)
        start   == [p |-> 0, stored |-> <<>>, result |-> "READ_ONLY_ENTRY", abort |-> "none"]
        last    == IF ~r.ca THEN r.sub
                   ELSE IF r.sub = 0 /\ size > 0 THEN r.val[0]
                   ELSE WriteMax(r.x, ObjectAt[r.x], old[0])
    IN  IF refused # "none" \/ size = 0 THEN [abort |-> refused, stored |-> <<>>]
        ELSE Conclusion(WriteWalk(r, last, start, data, old, pd, al))
=============================================================================
