----------------------------- MODULE MCFlowTimer -----------------------------
(* Small instances of FlowTimer for TLC.                                    *)
EXTENDS FlowTimer
=============================================================================
