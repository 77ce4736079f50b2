---------------------------- MODULE MCStreamChat ----------------------------
(* Small instances of StreamChat for TLC: two turns whose agents run on      *)
(* different endpoints, each the other's fallback.                           *)
EXTENDS StreamChat, TLC

CONSTANTS t1, t2, big, small

Crossed   == t1 :> big @@ t2 :> small
BothBoxes == {big, small}
BigFirst  == big :> 1 @@ small :> 2
=============================================================================
