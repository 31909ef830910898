-------------------------- MODULE ObjectDictionary --------------------------
(***************************************************************************)
(* The CoE object dictionary of the device and the functions of objdef.c   *)
(* that read and write it.  An object is what its entry descriptions say:  *)
(* its code, and for every subindex the class of the data type, the length *)
(* in bits and the access rights.  The two functions that move data,       *)
(* OBJ_Read and OBJ_Write, walk through the object with two cursors, one   *)
(* in the mailbox data (16-bit words) and one in the object's variable     *)
(* (bits, OBJ_GetEntryOffset); a byte of data is the token <<sub, k>>, the *)
(* k-th byte of entry sub, so that what arrives where can be compared with *)
(* the packed layout the master is promised.                               *)
(*                                                                         *)
(* Everything here is a function of its arguments.  The variables the      *)
(* dictionary keeps are in SdoServer.                                      *)
(***************************************************************************)
EXTENDS Integers, Sequences, FiniteSetsExt

-----------------------------------------------------------------------------
(* Entry descriptions: type class, length in bits, access rights.          *)

Operational == {"PREOP", "SAFEOP", "OP"}

ACCESS_READ        == {"read"} \X Operational
ACCESS_WRITE       == {"write"} \X Operational
ACCESS_READWRITE   == ACCESS_READ \cup ACCESS_WRITE
ACCESS_WRITE_PREOP == {<<"write", "PREOP">>}
RXPDOMAPPING       == {<<"map", "rx">>}
TXPDOMAPPING       == {<<"map", "tx">>}

Entry(type, bits, access) == [type |-> type, bits |-> bits, access |-> access]

U8(access)  == Entry("byte", 8, access)
U16(access) == Entry("word", 16, access)
U32(access) == Entry("dword", 32, access)
U64(access) == Entry("qword", 64, access)
Gap(bits)   == Entry("null", bits, {})
Times(n, e) == [i \in 1..n |-> e]

(* An object: its code, its highest subindex, the descriptions of its      *)
(* entries and, for a PDO mapping object, the length in bits of each       *)
(* mapped entry (the low byte of the value of the entry).                  *)
Object(code, max, entries, mapped) ==
    [code |-> code, max |-> max, entry |-> entries, mapped |-> mapped]

VAR(e)             == Object("VAR", 0, <<e>>, <<>>)
ARR(max, e)        == Object("ARR", max, <<U8(ACCESS_READ), e>>, <<>>)
REC(entries)       == Object("REC", Len(entries), <<U8(ACCESS_READ)>> \o entries, <<>>)
PDO(mapped)        == Object("REC", Len(mapped),
                             <<U8(ACCESS_READ)>> \o Times(Len(mapped), U32(ACCESS_READ)),
                             mapped)

-----------------------------------------------------------------------------
(* The objects of coeappl.c.                                               *)

DeviceType0x1000     == VAR(U32(ACCESS_READ))
ErrorRegister0x1001  == VAR(U8(ACCESS_READ))
DeviceName0x1008     == VAR(Entry("text", 80, ACCESS_READ))
Hardware0x1009       == VAR(Entry("text", 64, ACCESS_READ))
Software0x100A       == VAR(Entry("text", 32, ACCESS_READ))
Identity0x1018       == REC(Times(4, U32(ACCESS_READ)))
ErrorSettings0x10F1  == REC(<<U32(ACCESS_READ), U16(ACCESS_READWRITE)>>)
Timestamp0x10F8      == VAR(U64(ACCESS_READWRITE \cup TXPDOMAPPING))
SmType0x1C00         == ARR(4, U8(ACCESS_READ))

(* 0x1C32 and 0x1C33, the parameters of the process data Sync Managers.    *)
SmParameter0x1C3x ==
    REC(<<U16(ACCESS_READ \cup ACCESS_WRITE_PREOP),        \* 1 synchronisation type
          U32(ACCESS_READ), Gap(32), U16(ACCESS_READ),     \* 2-4
          U32(ACCESS_READ), U32(ACCESS_READ), Gap(32),     \* 5-7
          U16(ACCESS_READWRITE),                           \* 8 get cycle time
          U32(ACCESS_READ), U32(ACCESS_READWRITE)>>        \* 9, 10
        \o Times(3, U16(ACCESS_READ))                      \* 11-13 error counters
        \o <<Gap(16)>> \o Times(4, Gap(32)) \o Times(13, Gap(0))
        \o <<Entry("byte", 1, ACCESS_READ)>>)              \* 32 sync error

(* The objects of the generated application.                               *)

OutputMapping0x1600 == PDO(<<8, 8, 8, 8, 16, 8, 8, 16, 64, 32, 64>>)
InputMapping0x1A00  == PDO(<<8, 8, 8, 8, 16, 8, 8, 16, 64, 32, 64>>)
RxAssign0x1C12      == ARR(2, U16(ACCESS_READ))
TxAssign0x1C13      == ARR(2, U16(ACCESS_READ))
SingleByteTx0x6000  == VAR(U8(ACCESS_READ \cup TXPDOMAPPING))
ArrayByteTx0x6001   == ARR(3, U8(ACCESS_READ \cup TXPDOMAPPING))
SingleShortTx0x6002 == VAR(U16(ACCESS_READ \cup TXPDOMAPPING))
ComplexTx0x6003 ==
    LET a == ACCESS_READ \cup TXPDOMAPPING
    IN  REC(<<U8(a), U8(a), U16(a), U64(a), U32(a), U64(a)>>)
SingleByteRx0x7000  == VAR(U8(ACCESS_READWRITE \cup RXPDOMAPPING))
ArrayByteRx0x7001   == ARR(3, U8(ACCESS_READWRITE \cup RXPDOMAPPING))
SingleShortRx0x7002 == VAR(U16(ACCESS_READWRITE \cup RXPDOMAPPING))
ComplexRx0x7003 ==
    LET a == ACCESS_READWRITE \cup RXPDOMAPPING
    IN  REC(<<U8(a), U8(a), U16(a), U64(a), U32(a), U64(a)>>)
ModuleList0xF030 ==
    Object("REC", 1, <<U8(ACCESS_READWRITE), U32(ACCESS_READWRITE)>>, <<>>)
FsoeAddress0xF980   == REC(<<U16(ACCESS_READ), U32(ACCESS_READ)>>)

(* The objects of the FSoE module 0x71000001.                              *)

FsoeRxMapping0x160F == PDO(Times(6, 16))
FsoeTxMapping0x1A0F == PDO(Times(6, 16))
FsoeTx0x60F0        == REC(Times(6, U16(ACCESS_READ \cup TXPDOMAPPING)))
FsoeRx0x70F0        == REC(Times(6, U16(ACCESS_READWRITE \cup RXPDOMAPPING)))
FsoeParameter0x9001 ==
    LET r == ACCESS_READ
    IN  REC(<<U32(r), U16(r), U16(r), U16(r), U64(r), U16(r), U16(r), U16(r)>>)

GenObjDic ==
    <<\h1000, \h1001, \h1008, \h1009, \h100A, \h1018, \h10F1, \h10F8,
      \h1C00, \h1C32, \h1C33>>
ApplicationObjDic ==
    <<\h1600, \h1A00, \h1C12, \h1C13, \h6000, \h6001, \h6002, \h6003,
      \h7000, \h7001, \h7002, \h7003, \hF030, \hF980>>
ModuleObjDic == <<\h160F, \h1A0F, \h60F0, \h70F0, \h9001>>

Indices == {GenObjDic[i] : i \in DOMAIN GenObjDic}
           \cup {ApplicationObjDic[i] : i \in DOMAIN ApplicationObjDic}
           \cup {ModuleObjDic[i] : i \in DOMAIN ModuleObjDic}

ObjectAt == [x \in Indices |->
    CASE x = \h1000 -> DeviceType0x1000    [] x = \h1001 -> ErrorRegister0x1001
      [] x = \h1008 -> DeviceName0x1008    [] x = \h1009 -> Hardware0x1009
      [] x = \h100A -> Software0x100A      [] x = \h1018 -> Identity0x1018
      [] x = \h10F1 -> ErrorSettings0x10F1 [] x = \h10F8 -> Timestamp0x10F8
      [] x = \h1C00 -> SmType0x1C00        [] x \in {\h1C32, \h1C33} -> SmParameter0x1C3x
      [] x = \h1600 -> OutputMapping0x1600 [] x = \h1A00 -> InputMapping0x1A00
      [] x = \h1C12 -> RxAssign0x1C12      [] x = \h1C13 -> TxAssign0x1C13
      [] x = \h6000 -> SingleByteTx0x6000  [] x = \h6001 -> ArrayByteTx0x6001
      [] x = \h6002 -> SingleShortTx0x6002 [] x = \h6003 -> ComplexTx0x6003
      [] x = \h7000 -> SingleByteRx0x7000  [] x = \h7001 -> ArrayByteRx0x7001
      [] x = \h7002 -> SingleShortRx0x7002 [] x = \h7003 -> ComplexRx0x7003
      [] x = \hF030 -> ModuleList0xF030    [] x = \hF980 -> FsoeAddress0xF980
      [] x = \h160F -> FsoeRxMapping0x160F [] x = \h1A0F -> FsoeTxMapping0x1A0F
      [] x = \h60F0 -> FsoeTx0x60F0        [] x = \h70F0 -> FsoeRx0x70F0
      [] x = \h9001 -> FsoeParameter0x9001]
=============================================================================
