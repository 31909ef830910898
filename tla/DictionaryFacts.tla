-------------------------- MODULE DictionaryFacts --------------------------
(***************************************************************************)
(* What the proofs about SdoServer need to know of the device's dictionary.*)
(* No constant and no variable occurs in these facts: each of them is one  *)
(* formula about the fixed objects of ObjectDictionary and the functions   *)
(* of ObjectAccess, over finitely many objects, subindices and states, and *)
(* TLC evaluates all of it whenever it checks the run of MCSdoServer.      *)
(***************************************************************************)
EXTENDS SdoServer

\* The dictionary with the objects of the FSoE module.
Full == AddObjectsToObjDictionary(COE_ObjDictionaryInit, ModuleObjDic).list

\* The module's objects are new in the dictionary, so all of them are added.
ASSUME DictionaryFact ==
    /\ AddObjectsToObjDictionary(COE_ObjDictionaryInit, ModuleObjDic)
         = [list |-> Full, failed |-> FALSE]
    /\ ~Contains(COE_ObjDictionaryInit, \h160F)
    /\ Contains(Full, \h160F) /\ Contains(Full, \h1A0F)
    /\ Full \in Seq(Indices) /\ ToSet(Full) = Indices

\* Its mapping objects fit in the assignment and have the promised size.
RxPdos == <<\h1600, \h160F>>
TxPdos == <<\h1A00, \h1A0F>>

ASSUME MappingFact ==
    /\ APPL_UpdateAssignObjects(Full) = [rx |-> RxPdos, tx |-> TxPdos, failed |-> FALSE]
    /\ MappedBytes(RxPdos) = PD_BYTES /\ MappedBytes(TxPdos) = PD_BYTES

\* The values subindex 0 can have.
Sub0(x) == IF x = \hF030 THEN {0, 1} ELSE {ObjectAt[x].max}

\* The list of each type names its objects once, in ascending order, and takes
\* at most three fragments of the smallest mailbox.
ASSUME ListFact ==
    \A type \in 1..5 :
        LET list == ListOf(Full, type)
        IN  /\ list \in Seq(Indices) /\ Len(list) <= 32
            /\ ToSet(list) = {x \in Indices : InList(type, x)}
            /\ Len(list) = Cardinality({x \in Indices : InList(type, x)})
            /\ \A k \in 1..(Len(list) - 1) : list[k] < list[k + 1]

\* What the highest subindices of the objects are whose values are kept.
ASSUME HighestFact ==
    /\ ObjectAt[\h1C32].max = SmParameter0x1C3x.max
    /\ ObjectAt[\h1C33].max = SmParameter0x1C3x.max
    /\ ObjectAt[\h1C12].max = Len(RxPdos) /\ ObjectAt[\h1C13].max = Len(TxPdos)
    /\ ObjectAt[\hF030].max = 1 /\ ObjectAt[\hF030].code = "REC"
    /\ \A x \in Indices : /\ ObjectAt[x].max \in 0..32
                          /\ ObjectAt[x].code = "VAR" => ObjectAt[x].max = 0

\* The accesses that are not refused at once: object, subindex, complete access.
Accesses ==
    {a \in [x : Indices, sub : 0..32, ca : BOOLEAN] :
        a.sub <= ObjectAt[a.x].max /\ (a.ca => a.sub <= 1)}

\* An upload that OBJ_Read does not abort gives the image of the access.  The
\* complete access to 0xF030 is different, see Uploaded in SdoServerProofs.
ASSUME UploadFact ==
    \A a \in Accesses : \A si0 \in Sub0(a.x) : \A st \in Operational :
        LET len == OBJ_GetObjectLength(ObjectAt[a.x], a.sub, a.ca, si0)
            buf == IF len \in 1..4 THEN Blank(4, Zero) ELSE Blank(len, Stale)
            res == OBJ_Read(a.x, a.sub, a.ca, si0, st, buf)
        IN  /\ len \in Nat
            /\ res.abort = "none" /\ ~(a.x = \hF030 /\ a.ca)
               => From(res.buf, 0, len) = Image(a.x, a.sub, a.ca, si0)

\* Objects and entries no download can change.
NothingToWrite(x, sub) ==
    \/ ObjectAt[x].code = "VAR"
    \/ sub > 0 /\ \A i \in sub..ObjectAt[x].max : \A st \in Operational :
                     ~WriteAllowed(OBJ_GetEntryDesc(ObjectAt[x], i), st)

\* The length is unknown (zero) only for these.
ASSUME UnknownLengthFact ==
    \A a \in Accesses : \A si0 \in Sub0(a.x) :
        OBJ_GetObjectLength(ObjectAt[a.x], a.sub, a.ca, si0) = 0 => NothingToWrite(a.x, a.sub)

\* The last entries a download can end with: the one it is for, the one a
\* complete access announces in subindex 0, or the last one of the object.
LastSubs(a) ==
    IF ~a.ca THEN {a.sub} ELSE IF a.sub = 0 THEN 0..ObjectAt[a.x].max
    ELSE {ObjectAt[a.x].max}

\* A download of the whole image stores every entry that can be written, when
\* no value is refused (a value that is there already never is).
ASSUME StoreFact ==
    \A a \in Accesses : \A last \in LastSubs(a) : \A st \in Operational :
        LET r    == [x |-> a.x, sub |-> a.sub, ca |-> a.ca, val |-> ZeroOne(last, "0")]
            sent == Image(a.x, a.sub, a.ca, last)
            res  == OBJ_Write(r, Len(sent), AsBytes(sent), ZeroOne(ObjectAt[a.x].max, "0"),
                              [in |-> 0, out |-> 0], st)
        IN  res.abort = "none" =>
              \A i \in a.sub..last :
                LET e == OBJ_GetEntryDesc(ObjectAt[a.x], i)
                IN  WriteAllowed(e, st) => /\ i \in DOMAIN res.stored
                                           /\ res.stored[i] = Bytes(i, BIT2BYTE(e.bits))

\* What has to be sent in segments, with the smallest mailbox, is a complete
\* access.
ASSUME LengthFact ==
    \A a \in Accesses : \A last \in LastSubs(a) :
        /\ Len(Image(a.x, a.sub, a.ca, last)) \in Nat
        /\ ~a.ca => Len(Image(a.x, a.sub, a.ca, last)) <= 20

\* The synchronisation types can be written in PREOP only.
ASSUME SyncTypeFact ==
    \A x \in {\h1C32, \h1C33} : \A st \in {"SAFEOP", "OP"} :
        x \in Indices /\ ~WriteAllowed(OBJ_GetEntryDesc(ObjectAt[x], 1), st)
=============================================================================
