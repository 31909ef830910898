----------------------------- MODULE MCFsoeIpc ------------------------------
(* Small instances of FsoeIpc.  Word1 is complemented and Word3 is copied   *)
(* by fsoe_manager_process, so the two behave differently.                  *)
EXTENDS FsoeIpc

MCWord  == {1, 3}
MCFrame == {[w \in MCWord |-> 0], [w \in MCWord |-> 1]}

\* Cold boot: the section holds the same number in both words.
MCBootEqual == {<<s, s>> : s \in 0 .. SeqMod - 1}
=============================================================================
