----------------------------- MODULE MCRunQueue -----------------------------
(* Small instances of RunQueue for TLC.                                     *)
EXTENDS RunQueue, TLC

CONSTANTS r1, r2, k1

\* r1 and r2 are two deliveries of one event.
SharedKey == [r \in Rows |-> IF r \in {r1, r2} THEN k1 ELSE NoKey]

FlatPrio  == [r \in Rows |-> 0]

NoRows  == {}
Early   == {r1}
LoopSym == Permutations(Loops)

\* Where both rows have a handler nothing tells them apart either.
AllSym == Permutations(Loops) \cup Permutations(Presses) \cup Permutations(Rows)
=============================================================================
