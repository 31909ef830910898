---------------------------- MODULE FsoeExchange -----------------------------
(***************************************************************************)
(* What fsoe_ipc_master.h promises of one FSoE cycle: the RxPDO image goes *)
(* in, and either the answer to exactly that image comes out or the        *)
(* exchange fails and the inputs stay as they were.                        *)
(***************************************************************************)
CONSTANTS
    Frame,      \* images the EtherCAT master may send
    Reply,      \* Reply[f] is the image the FSoE manager answers f with
    Blank       \* the inputs before the first exchange

VARIABLES phase, request, inputs

vars == <<phase, request, inputs>>

Init == phase = "idle" /\ request = Blank /\ inputs = Blank

Request(f) ==
    /\ phase = "idle"
    /\ phase' = "busy"
    /\ request' = f
    /\ UNCHANGED inputs

Answer ==
    /\ phase = "busy"
    /\ phase' = "idle"
    /\ inputs' = Reply[request]
    /\ UNCHANGED request

GiveUp ==
    /\ phase = "busy"
    /\ phase' = "idle"
    /\ UNCHANGED <<request, inputs>>

Next == (\E f \in Frame : Request(f)) \/ Answer \/ GiveUp

Spec == Init /\ [][Next]_vars

\* The exchange is synchronous and bounded: it ends one way or the other.
FairSpec == Spec /\ WF_vars(Answer \/ GiveUp)
=============================================================================
