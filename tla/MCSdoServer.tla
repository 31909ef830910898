---------------------------- MODULE MCSdoServer ----------------------------
(***************************************************************************)
(* A small instance of SdoServer: requests for objects of every layout,    *)
(* from one byte to more than two segments.                                *)
(***************************************************************************)
EXTENDS DictionaryFacts

Read(x, sub, ca) == [x |-> x, sub |-> sub, ca |-> ca]
WriteReq(x, sub, ca, val) == [x |-> x, sub |-> sub, ca |-> ca, val |-> val]

MCUploads ==
    {Read(\h1C32, 0, TRUE),      \* 61 bytes, gaps and a single bit
     Read(\h6001, 1, TRUE),      \* bytes on odd addresses
     Read(\h1C32, 20, FALSE),    \* an entry without data
     Read(\h9001, 9, FALSE)}     \* an entry that does not exist
MCDownloads ==
    {WriteReq(\h7003, 0, TRUE, 0 :> 6),
     WriteReq(\h70F0, 1, TRUE, <<>>),
     WriteReq(\h1C32, 1, TRUE, 1 :> "sync0"),
     WriteReq(\h1C33, 1, FALSE, 1 :> "sm2"),
     WriteReq(\hF030, 0, FALSE, 0 :> 0),
     WriteReq(\hF030, 0, FALSE, 0 :> 1),
     WriteReq(\hF030, 1, FALSE, 1 :> "other")}
=============================================================================
