--------------------------- MODULE MCEndpointGate ---------------------------
(* Small instances of EndpointGate for TLC.                                 *)
EXTENDS EndpointGate, TLC

CallerSym == Permutations(Callers)
=============================================================================
