----------------------------- MODULE SdoServer -----------------------------
(***************************************************************************)
(* The SDO server of the device (sdoserv.c) on its object dictionary       *)
(* (coeappl.c, objdef.c), and what the dictionary decides: the PDO         *)
(* assignment, the module list 0xF030 and the synchronisation types that   *)
(* PREOP -> SAFEOP checks (tiescappl.c, CheckSmSettings of ecatslv.c).     *)
(*                                                                         *)
(* One action is one SDO service: request, handling in the main task and   *)
(* response.  What can happen to a request or a response on the way is the *)
(* subject of Mailbox, what else a state change does that of               *)
(* EcatStateMachine.  The server keeps the segmented transfer in variables *)
(* of its own between two services; anything legal may come in between.    *)
(*                                                                         *)
(* master is the master's view of the transfer it runs, and of the last    *)
(* one that ended.  It announces the size an object really has, fills its  *)
(* segments, and gives a transfer up when it starts another one that does  *)
(* not fit in a mailbox or when a segment is answered by an abort.         *)
(***************************************************************************)
EXTENDS ObjectAccess

CONSTANTS
    MbxSizes,       \* sizes of both mailboxes the master may configure
    Uploads,        \* what the master reads: [x, sub, ca]
    Downloads,      \* what it writes: [x, sub, ca, val]
    ListTypes,      \* the lists of the SDO information service it asks for
    DcConfigs,      \* the Sync signals it sets up for a session
    MayLackMemory   \* whether the buffer of a segmented transfer may fail

ASSUME MbxAssumption == MbxSizes \subseteq {n \in 36..128 : n % 2 = 0}
ASSUME DcAssumption ==
    DcConfigs \subseteq {"off", "none", "sync0", "sync1", "both", "subordinated"}
(* Subindex 0 is a byte; the master writes as many entries as it announces *)
(* in it, and no more than the object has.                                 *)
ASSUME RequestAssumption ==
    /\ \A r \in Uploads \cup Downloads : r.sub \in 0..255 /\ r.ca \in BOOLEAN
    /\ \A r \in Downloads : r.x \in Indices /\ r.sub = 0 =>
            /\ r.ca => r.val[0] \in 0..ObjectAt[r.x].max
            /\ r.x = \hF030 => r.val[0] \in 0..255
ASSUME ListAssumption == ListTypes \subseteq 0..5

VARIABLES
    al,          \* nAlStatus
    mbx,         \* u16SendMbxSize = u16ReceiveMbxSize
    ObjDicList,  \* the indices in the dictionary, in its order
    assign,      \* sRxPDOassign, sTxPDOassign: the entries in use
    f030,        \* 0xF030: subindex 0 and the configured module
    sync,        \* bSyncSetByUser and the types in 0x1C32:1 and 0x1C33:1
    pd,          \* nPdInputSize, nPdOutputSize
    dc,          \* the Sync signals the DC unit generates
    refused,     \* why the last PREOP -> SAFEOP was refused
    seg,         \* the segmented transfer: nSdoSeg..., bSdoSeg..., pSdoSegData
    master       \* the master's view of its transfer

vars == <<al, mbx, ObjDicList, assign, f030, sync, pd, dc, refused, seg, master>>
config == <<mbx, ObjDicList, assign, f030, sync, pd, dc, refused>>

-----------------------------------------------------------------------------
(* The dictionary as a list sorted by index.                               *)

COE_AddObjectToDic(list, x) ==
    SelectSeq(list, LAMBDA y : y < x) \o <<x>> \o SelectSeq(list, LAMBDA y : y > x)

(* Adds objects one by one and stops at the first one that is there.       *)
AddObjectsToObjDictionary(list, objects) ==
    LET add(d, x) == IF d.failed \/ Contains(d.list, x) THEN [d EXCEPT !.failed = TRUE]
                     ELSE [d EXCEPT !.list = COE_AddObjectToDic(@, x)]
    IN  FoldLeft(add, [list |-> list, failed |-> FALSE], objects)

COE_ObjDictionaryInit == AddObjectsToObjDictionary(<<>>, GenObjDic \o ApplicationObjDic).list

FSoESafetyModule == "0x71000001"

\* Mutant: the module's objects are added again in every start.
ModuleAddedAgain ==
    IF f030[0] < 1 THEN [list |-> ObjDicList, failed |-> FALSE]
    ELSE IF f030[1] # FSoESafetyModule
    THEN [list |-> ObjDicList, failed |-> TRUE]
    ELSE AddObjectsToObjDictionary(ObjDicList, ModuleObjDic)

(* The objects of the configured module are registered, once.              *)
Module_UpdateObjectDictionary ==
    IF f030[0] < 1 \/ f030[1] = "0" \/ Contains(ObjDicList, \h160F)
    THEN [list |-> ObjDicList, failed |-> FALSE]
    ELSE IF f030[1] # FSoESafetyModule
    THEN [list |-> ObjDicList, failed |-> TRUE]
    ELSE AddObjectsToObjDictionary(ObjDicList, ModuleObjDic)

(* 0x1C12 and 0x1C13 from the mapping objects of the dictionary, as many   *)
(* as they can hold.                                                       *)
APPL_UpdateAssignObjects(list) ==
    LET rx == SelectSeq(list, IsRxPdo)
        tx == SelectSeq(list, IsTxPdo)
    IN  [rx |-> rx, tx |-> tx,
         failed |-> Len(rx) > RxAssign0x1C12.max \/ Len(tx) > TxAssign0x1C13.max]

MappedBytes(pdos) ==
    BIT2BYTE(MapThenSumSet(LAMBDA k : FoldLeft(+, 0, ObjectAt[pdos[k]].mapped), DOMAIN pdos))

PD_BYTES == 42      \* ETHERCAT_APP_PD_INPUT_BYTES, ETHERCAT_APP_PD_OUTPUT_BYTES

(* The sizes of the process data, or the reason to refuse SAFEOP.          *)
APPL_GenerateMapping(dic, a) ==
    LET in  == MappedBytes(a.tx)
        out == MappedBytes(a.rx)
    IN  [in |-> in, out |-> out,
         failed |-> \/ dic.failed \/ a.failed
                    \/ /\ f030[0] >= 1 /\ f030[1] = FSoESafetyModule
                       /\ \/ in # PD_BYTES \/ out # PD_BYTES
                          \/ ~Contains(dic.list, \h160F) \/ ~Contains(dic.list, \h1A0F)]

-----------------------------------------------------------------------------
(* The synchronisation types.                                              *)

Signals(d) ==
    CASE d \in {"off", "none"}           -> {}
      [] d = "sync0"                     -> {"sync0"}
      [] d = "sync1"                     -> {"sync1"}
      [] d \in {"both", "subordinated"}  -> {"sync0", "sync1"}

(* Whether the DC registers, and the types if the user has set them, are   *)
(* refused.                                                                *)
SyncRefused(d) ==
    \/ d # "off" /\ "sync0" \notin Signals(d)
    \/ sync.user /\ ({sync.out, sync.in} \cap {"sync0", "sync1"}) \ Signals(d) # {}

(* The types a session runs with; sizes are the new process data sizes.    *)
SyncTypes(d, sizes) ==
    IF sync.user THEN sync
    ELSE [sync EXCEPT
            !.out = IF sizes.out = 0 THEN "freerun"
                    ELSE IF d = "off" THEN "sm"
                    ELSE IF d = "subordinated" THEN "sync1" ELSE "sync0",
            !.in  = IF sizes.in = 0 THEN "freerun"
                    ELSE IF d = "off" THEN (IF sizes.out > 0 THEN "sm2" ELSE "sm")
                    ELSE IF "sync1" \in Signals(d) THEN "sync1" ELSE "sync0"]

-----------------------------------------------------------------------------
(* What an object holds of the values the code looks at, by subindex.      *)
ZeroOne(a, b) == [i \in {0, 1} |-> IF i = 0 THEN a ELSE b]

Held(x) ==
    CASE x = \hF030 -> f030
      [] x = \h1C32 -> ZeroOne(SmParameter0x1C3x.max, sync.out)
      [] x = \h1C33 -> ZeroOne(SmParameter0x1C3x.max, sync.in)
      [] x = \h1C12 -> [i \in {0} |-> Len(assign.rx)]
      [] x = \h1C13 -> [i \in {0} |-> Len(assign.tx)]
      [] OTHER      -> [i \in {0} |-> ObjectAt[x].max]

(* A write stored in entries val changes those values.  A written type is  *)
(* the user's choice even if it is the one that was there.                 *)
Stored(x, entries, val) ==
    /\ f030' = IF x = \hF030
               THEN [i \in {0, 1} |-> IF i \in entries THEN val[i] ELSE f030[i]]
               ELSE f030
    /\ sync' = IF x = \h1C32 /\ 1 \in entries
               THEN [sync EXCEPT !.user = TRUE, !.out = val[1]]
               ELSE IF x = \h1C33 /\ 1 \in entries
               THEN [sync EXCEPT !.user = TRUE, !.in = val[1]]
               ELSE sync
    /\ UNCHANGED <<mbx, ObjDicList, assign, pd, dc, refused>>

(* The image of an access as the master and the specification of the       *)
(* object see it: the entries one after the other, nothing in between.     *)
Image(x, sub, ca, si0) ==
    LET o == ObjectAt[x]
        piece(i) == LET e == OBJ_GetEntryDesc(o, i)
                        n == BIT2BYTE(e.bits)
                    IN  IF i = 0 /\ o.code # "VAR" THEN Bytes(0, IF ca THEN 2 ELSE 1)
                        ELSE IF MayRead(e) THEN Bytes(i, n) ELSE [k \in 1..n |-> Zero]
        upTo[i \in sub..o.max] == IF i = sub THEN piece(i) ELSE upTo[i - 1] \o piece(i)
    IN  IF ca THEN upTo[si0] ELSE piece(sub)

-----------------------------------------------------------------------------
(* SDOS_SdoInd.                                                            *)

UPLOAD_NORM_RES_SIZE     == 10
MBX_HEADER_SIZE          == 6
SEGMENT_NORM_HEADER_SIZE == 3
MIN_SEGMENTED_DATA       == 7

InitialRoom == mbx - MBX_HEADER_SIZE - UPLOAD_NORM_RES_SIZE
SegmentRoom == mbx - MBX_HEADER_SIZE - SEGMENT_NORM_HEADER_SIZE

NoSegments == [service |-> "none", x |-> 0, sub |-> 0, ca |-> FALSE, size |-> 0,
               done |-> 0, toggle |-> 1, data |-> <<>>]
Idle == [kind |-> "idle"]

(* The checks of an initiate request that come before the transfer.        *)
RequestRefused(r) ==
    \/ ~Contains(ObjDicList, r.x)
    \/ r.sub > ObjectAt[r.x].max
    \/ r.ca /\ r.sub > 1

ObjLength(r) == OBJ_GetObjectLength(ObjectAt[r.x], r.sub, r.ca, Held(r.x)[0])

\* Mutant: all the variables are set, the progress of a transfer included.
UnsegmentedStartsOver(r) ==
    IF OBJ_GetObjectLength(ObjectAt[r.x], r.sub, r.ca, Held(r.x)[0]) = 0
       /\ seg.service # "none"
    THEN [seg EXCEPT !.x = r.x, !.sub = r.sub, !.done = 0]
    ELSE seg

(* An object of unknown length: the variables of a segmented transfer are  *)
(* set, whether one is going on or not.  (What they keep when none goes on *)
(* is not looked at before the next one sets them all: NoSegments.)        *)
Unsegmented(r) ==
    IF ObjLength(r) = 0 /\ seg.service # "none"
    THEN [seg EXCEPT !.x = r.x, !.sub = r.sub]
    ELSE seg

Segmented(r, service, size, done, data) ==
    [service |-> service, x |-> r.x, sub |-> r.sub, ca |-> r.ca, size |-> size,
     done |-> done, toggle |-> 1, data |-> data]

(* No memory: what was set before stays, the older buffer is gone.         *)
NoBuffer(r, size) ==
    IF seg.service = "none" THEN NoSegments
    ELSE Segmented(r, seg.service, size, seg.done, <<>>)

(* An older transfer goes on if the new one is not segmented; a result is  *)
(* remembered if no transfer goes on.                                      *)
Result(m) == IF master.kind \in {"up", "down"} THEN master ELSE m
Forget == Result(Idle)

UploadWhole(r) ==
    LET len  == ObjLength(r)
        buf  == IF len \in 1..4 THEN Blank(4, Zero) ELSE Blank(len, Stale)
    IN  /\ len <= InitialRoom
        /\ seg' = Unsegmented(r)
        /\ \E res \in {OBJ_Read(r.x, r.sub, r.ca, Held(r.x)[0], al, buf)} :
              master' = Result(IF res.abort # "none" THEN Idle
                               ELSE [kind |-> "uploaded", key |-> r,
                                     got |-> From(res.buf, 0, len), si0 |-> Held(r.x)[0]])

UploadFirst(r) ==
    LET len == ObjLength(r)
    IN  /\ len > InitialRoom
        /\ \/ \E res \in {OBJ_Read(r.x, r.sub, r.ca, Held(r.x)[0], al, Blank(len, Stale))} :
              /\ seg' = Segmented(r, IF res.abort = "none" THEN "upload" ELSE seg.service,
                                 len, InitialRoom, res.buf)
              /\ master' = IF res.abort # "none" THEN Idle
                           ELSE [kind |-> "up", key |-> r, si0 |-> Held(r.x)[0], toggle |-> 0,
                                 got |-> From(res.buf, 0, InitialRoom)]
           \/ /\ MayLackMemory
              /\ seg' = NoBuffer(r, len)
              /\ master' = Idle

Upload(r) ==
    /\ al # "INIT"
    /\ \/ /\ RequestRefused(r)
          /\ seg' = seg
          /\ master' = Result(Idle)
       \/ ~RequestRefused(r) /\ UploadWhole(r)
       \/ ~RequestRefused(r) /\ UploadFirst(r)
    /\ UNCHANGED <<al, config>>

(* What the master sends for r: one entry, or all of them up to the last   *)
(* one, which is what it writes to subindex 0 if it writes that.           *)
AsBytes(tokens) == [b \in 0..(Len(tokens) - 1) |-> tokens[b + 1]]
LastSub(r) ==
    IF ~r.ca THEN r.sub ELSE IF r.sub = 0 THEN r.val[0] ELSE ObjectAt[r.x].max
Sent(r) == Image(r.x, r.sub, r.ca, LastSub(r))

(* What the master knows after OBJ_Write.                                  *)
Written(r, key, res) ==
    IF res.abort # "none" THEN Idle
    ELSE [kind |-> "downloaded", key |-> key, x |-> r.x, stored |-> res.stored, al |-> al]

DownloadWhole(r) ==
    \E sent \in {Sent(r)} :
        /\ Len(sent) <= InitialRoom
        /\ seg' = Unsegmented(r)
        /\ \E res \in {OBJ_Write(r, Len(sent), AsBytes(sent), Held(r.x), pd, al)} :
              /\ Stored(r.x, DOMAIN res.stored, r.val)
              /\ master' = Result(Written(r, r, res))

DownloadFirst(r) ==
    \E sent \in {Sent(r)} :
    LET size   == Len(sent)
        buffer == [b \in 0..(size - 1) |-> IF b < InitialRoom THEN sent[b + 1] ELSE Stale]
    IN  /\ size > InitialRoom
        /\ \/ /\ seg' = Segmented(r, "download", size, InitialRoom, buffer)
              /\ master' = [kind |-> "down", key |-> r, image |-> sent, toggle |-> 0,
                            sent |-> InitialRoom]
           \/ /\ MayLackMemory
              /\ seg' = NoBuffer(r, size)
              /\ master' = Idle
        /\ UNCHANGED config

Download(r) ==
    /\ al # "INIT"
    /\ \/ /\ RequestRefused(r)
          /\ master' = Result(Idle)
          /\ UNCHANGED <<seg, config>>
       \/ ~RequestRefused(r) /\ DownloadWhole(r)
       \/ ~RequestRefused(r) /\ DownloadFirst(r)
    /\ al' = al

-----------------------------------------------------------------------------
(* SdoUploadSegmentInd, asked with toggle bit t.                           *)

UploadSegment(t) ==
    LET last == seg.size < seg.done + SegmentRoom
        size == IF last THEN seg.size - seg.done ELSE SegmentRoom
        got  == master.got \o From(seg.data, seg.done, size)
    IN  /\ al # "INIT"
        /\ master.kind = "up"
        /\ IF seg.service # "upload" \/ t = seg.toggle
           THEN seg' = seg /\ master' = Idle
           ELSE IF last
           THEN /\ seg' = NoSegments
                /\ master' = [kind |-> "uploaded", key |-> master.key, got |-> got,
                              si0 |-> master.si0]
           ELSE /\ seg' = [seg EXCEPT !.toggle = t, !.done = @ + size]
                /\ master' = [master EXCEPT !.got = got, !.toggle = 16 - t]
        /\ UNCHANGED <<al, config>>

\* Mutant: the last segment is taken whatever its length.
LastSegmentUnchecked(t, n, isLast) ==
    \/ t = seg.toggle
    \/ seg.data = <<>>
    \/ isLast /\ seg.size - seg.done > SegmentRoom
    \/ ~isLast /\ seg.size - seg.done <= SegmentRoom

(* SdoDownloadSegmentInd: the master sends the next n bytes with toggle    *)
(* bit t, as the last segment or not.  A last segment of up to seven bytes *)
(* is padded to seven and says how many count.                             *)
SegmentRefused(t, n, isLast) ==
    LET bytesToSave == seg.size - seg.done
        received    == Max({n, MIN_SEGMENTED_DATA})
        counted     == Min({n, MIN_SEGMENTED_DATA})
    IN  \/ t = seg.toggle
        \/ seg.data = <<>>
        \/ isLast /\ bytesToSave > SegmentRoom
        \/ isLast /\ ~(\/ bytesToSave <= received /\ bytesToSave = counted
                       \/ bytesToSave > MIN_SEGMENTED_DATA /\ bytesToSave = received)
        \/ ~isLast /\ bytesToSave <= SegmentRoom

DownloadSegment(t, n, isLast) ==
    LET bytes == [b \in 0..(n - 1) |-> master.image[master.sent + b + 1]]
        size  == IF isLast THEN seg.size - seg.done ELSE SegmentRoom
        data  == Put(seg.data, seg.done, From(bytes, 0, size))
        r     == [x |-> seg.x, sub |-> seg.sub, ca |-> seg.ca, val |-> master.key.val]
    IN  /\ al # "INIT"
        /\ master.kind = "down"
        /\ IF seg.service # "download"
           THEN master' = Idle /\ UNCHANGED <<seg, config>>
           ELSE IF SegmentRefused(t, n, isLast)
           THEN seg' = NoSegments /\ master' = Idle /\ UNCHANGED config
           ELSE IF isLast
           THEN /\ seg' = NoSegments
                /\ \E res \in {OBJ_Write(r, seg.size, data, Held(r.x), pd, al)} :
                      /\ Stored(r.x, DOMAIN res.stored, r.val)
                      /\ master' = Written(r, master.key, res)
           ELSE /\ seg' = [seg EXCEPT !.toggle = t, !.done = @ + size, !.data = data]
                /\ master' = [master EXCEPT !.sent = @ + n, !.toggle = 16 - t]
                /\ UNCHANGED config
        /\ al' = al

(* The next segment as it should be, sent again, with the wrong flag, or a *)
(* byte short.                                                             *)
SendSegment ==
    LET left   == Len(master.image) - master.sent
        n      == Min({left, SegmentRoom})
        isLast == left <= SegmentRoom
        t      == master.toggle
    IN  /\ master.kind = "down"
        /\ \E s \in {<<t, n, isLast>>, <<16 - t, n, isLast>>, <<t, n, ~isLast>>,
                     <<t, IF isLast THEN n - 1 ELSE n, isLast>>} :
              DownloadSegment(s[1], s[2], s[3])

-----------------------------------------------------------------------------
(* SDOS_SdoInfoInd: the list of objects of a type, with all its fragments. *)

InList(type, x) ==
    LET o == ObjectAt[x]
        mapped(d) == \E i \in 0..o.max : <<"map", d>> \in OBJ_GetEntryDesc(o, i).access
    IN  CASE type = 1 -> TRUE                 \* all objects
          [] type = 2 -> mapped("rx")
          [] type = 3 -> mapped("tx")
          [] type \in {4, 5} -> FALSE         \* backup and settings: no entry has the flag

SIZEOF_SDOINFOLISTSTRUCT == 8

(* The objects of a list, in the order of the dictionary.                  *)
ListOf(list, type) == SelectSeq(list, LAMBDA x : InList(type, x))

OBJ_GetNoOfObjects(type) == Len(ListOf(ObjDicList, type))

\* Mutant: the number of fragments is rounded down.
FragmentsRoundedDown(n, size) ==
    IF 2 * n > size THEN (2 * n - size) \div (size + 2) ELSE 0

(* The fragments that follow the first one, which takes size bytes; each   *)
(* of them takes two more.                                                 *)
FragmentsLeft(n, size) ==
    IF 2 * n > size THEN (2 * n - size + size + 1) \div (size + 2) ELSE 0

Fragments(type) ==
    LET size  == mbx - SIZEOF_SDOINFOLISTSTRUCT - MBX_HEADER_SIZE
        list  == ListOf(ObjDicList, type)
        left  == FragmentsLeft(Len(list), size)
        end(k) == (size + (k - 1) * (size + 2)) \div 2
    IN  [k \in 1..(left + 1) |->
            [left    |-> left + 1 - k,
             indices |-> SubSeq(list, IF k = 1 THEN 1 ELSE end(k - 1) + 1,
                                Min({end(k), Len(list)}))]]

ObjectList(type) ==
    /\ al # "INIT"
    /\ master' = Result(IF type = 0
                        THEN [kind |-> "counted",
                              counts |-> [k \in 1..5 |-> OBJ_GetNoOfObjects(k)]]
                        ELSE [kind |-> "listed", type |-> type, frags |-> Fragments(type)])
    /\ UNCHANGED <<al, seg, config>>

-----------------------------------------------------------------------------
(* State changes.                                                          *)

(* APPL_StartMailboxHandler; its results are not looked at.                *)
InitToPreop(size) ==
    LET dic == Module_UpdateObjectDictionary
        a   == APPL_UpdateAssignObjects(dic.list)
    IN  /\ al = "INIT"
        /\ al' = "PREOP"
        /\ mbx' = size
        /\ ObjDicList' = dic.list
        /\ assign' = IF a.failed THEN assign ELSE [rx |-> a.rx, tx |-> a.tx]
        /\ refused' = "no"
        /\ master' = Forget
        /\ UNCHANGED <<f030, sync, pd, dc, seg>>

PreopToSafeop(d) ==
    LET dic   == Module_UpdateObjectDictionary
        a     == APPL_UpdateAssignObjects(dic.list)
        sizes == APPL_GenerateMapping(dic, a)
    IN  /\ al = "PREOP"
        /\ dc' = d
        /\ ObjDicList' = dic.list
        /\ assign' = IF dic.failed \/ a.failed THEN assign ELSE [rx |-> a.rx, tx |-> a.tx]
        /\ pd' = IF sizes.failed THEN pd ELSE [in |-> sizes.in, out |-> sizes.out]
        /\ refused' = IF sizes.failed THEN "mapping"
                      ELSE IF SyncRefused(d) THEN "sync" ELSE "no"
        /\ al' = IF refused' = "no" THEN "SAFEOP" ELSE "PREOP"
        /\ sync' = IF refused' = "no" THEN SyncTypes(d, pd') ELSE sync
        /\ master' = Forget
        /\ UNCHANGED <<mbx, f030, seg>>

SafeopToOp ==
    /\ al = "SAFEOP"
    /\ al' = "OP"
    /\ UNCHANGED <<config, seg>>
    /\ master' = Forget

OpToSafeop ==
    /\ al = "OP"
    /\ al' = "SAFEOP"
    /\ UNCHANGED <<config, seg>>
    /\ master' = Forget

(* APPL_StopInputHandler: the user's choice is forgotten, the types stay.  *)
ToPreop ==
    /\ al \in {"SAFEOP", "OP"}
    /\ al' = "PREOP"
    /\ sync' = [sync EXCEPT !.user = FALSE]
    /\ UNCHANGED <<mbx, ObjDicList, assign, f030, pd, dc, refused, seg>>
    /\ master' = Forget

(* MBX_StopMailboxHandler ends a transfer (SDOS_ClearPendingResponse); the *)
(* master may not have noticed.                                            *)
ToInit ==
    /\ al # "INIT"
    /\ al' = "INIT"
    /\ sync' = [sync EXCEPT !.user = FALSE]
    /\ seg' = NoSegments
    /\ refused' = "no"
    /\ UNCHANGED <<mbx, ObjDicList, assign, f030, pd, dc, master>>

-----------------------------------------------------------------------------
Init ==
    /\ al = "INIT"
    /\ mbx \in MbxSizes
    /\ ObjDicList = COE_ObjDictionaryInit
    /\ assign = [rx |-> <<\h1600, \h160F>>, tx |-> <<\h1A00, \h1A0F>>]
    /\ f030 = ZeroOne(1, FSoESafetyModule)
    /\ sync = [user |-> FALSE, out |-> "freerun", in |-> "freerun"]
    /\ pd = [in |-> 0, out |-> 0]
    /\ dc = "off"
    /\ refused = "no"
    /\ seg = NoSegments
    /\ master = Idle

Next ==
    \/ \E r \in Uploads : Upload(r)
    \/ \E r \in Downloads : Download(r)
    \/ \E t \in {0, 16} : UploadSegment(t)
    \/ SendSegment
    \/ \E type \in ListTypes : ObjectList(type)
    \/ \E size \in MbxSizes : InitToPreop(size)
    \/ \E d \in DcConfigs : PreopToSafeop(d)
    \/ SafeopToOp \/ OpToSafeop \/ ToPreop \/ ToInit

Spec == Init /\ [][Next]_vars

-----------------------------------------------------------------------------
(* Properties.                                                             *)

\* A finished upload, in one response or in segments and whatever services
\* and state changes came in between, has given the master the entries of the
\* object it asked for, one after the other and nothing else: OBJ_Read's two
\* cursors, the segment counters and the last-segment decision agree.
UploadIsWhole ==
    master.kind = "uploaded" =>
        LET k == master.key IN master.got = Image(k.x, k.sub, k.ca, master.si0)

\* An acknowledged download has stored the bytes the master sent for each
\* entry that can be written in that state, in the object it named: no other
\* service between the segments may redirect it, no byte may be lost, shifted
\* or left over from the buffer's earlier content.
DownloadIsWhole ==
    master.kind = "downloaded" =>
        LET k     == master.key
            entry == [i \in k.sub..LastSub(k) |-> OBJ_GetEntryDesc(ObjectAt[k.x], i)]
        IN  /\ master.x = k.x
            /\ \A i \in DOMAIN entry : WriteAllowed(entry[i], master.al) =>
                    /\ i \in DOMAIN master.stored
                    /\ master.stored[i] = Bytes(i, BIT2BYTE(entry[i].bits))

\* Whatever the master wrote and however often it restarted the device, the
\* mapping never refuses SAFEOP, and in SAFEOP and OP the process data have
\* the size the ESI file promises and the synchronisation types name only
\* Sync signals the DC unit generates.
ConfigurationHolds ==
    /\ refused # "mapping"
    /\ al \in {"SAFEOP", "OP"} =>
        /\ pd = [in |-> PD_BYTES, out |-> PD_BYTES]
        /\ ({sync.out, sync.in} \cap {"sync0", "sync1"}) \subseteq Signals(dc)

\* The fragments of an object list announce each other and together are the
\* list: every index of that type once, in ascending order, also after the
\* module's objects were added to the dictionary; the counts that list type 0
\* gives are the lengths of the lists.
ListIsWhole ==
    LET members(type) == {x \in ToSet(ObjDicList) : InList(type, x)}
    IN  /\ master.kind = "counted" =>
            \A k \in 1..5 : master.counts[k] = Cardinality(members(k))
        /\ master.kind = "listed" =>
            LET f    == master.frags
                list == FlattenSeq([k \in DOMAIN f |-> f[k].indices])
            IN  /\ \A k \in DOMAIN f : f[k].left = Len(f) - k
                /\ ToSet(list) = members(master.type)
                /\ \A k \in 1..(Len(list) - 1) : list[k] < list[k + 1]
=============================================================================
