----------------------------- MODULE MCAutoLoop -----------------------------
(* Small instances of AutoLoop for TLC.                                     *)
EXTENDS AutoLoop
=============================================================================
