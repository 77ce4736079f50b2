------------------------------- MODULE RunLane -------------------------------
(***************************************************************************)
(* What the fleet's run lane promises, without saying how: autonomous turns *)
(* wait, one of them at a time is taken and run, and what became of a turn  *)
(* is written once.  A turn whose process died is never taken again.        *)
(* RunQueue implements this specification (RunQueue!LaneIsImplemented).     *)
(***************************************************************************)
CONSTANTS Rows,    \* turns that may be handed to the lane
          NoRow    \* "the lane is free"

VARIABLES status,  \* what became of each turn
          holder   \* the turn holding the lane, or NoRow

laneVars == <<status, holder>>

Init == /\ status = [r \in Rows |-> "absent"]
        /\ holder = NoRow

Submit(r) == /\ status[r] = "absent"
             /\ status' = [status EXCEPT ![r] = "queued"]
             /\ UNCHANGED holder

Withdraw(r) == /\ status[r] = "queued"
               /\ status' = [status EXCEPT ![r] = "cancelled"]
               /\ UNCHANGED holder

\* The lane is exclusive: a turn is taken only while nothing holds it.
Take(r) == /\ holder = NoRow
           /\ status[r] = "queued"
           /\ status' = [status EXCEPT ![r] = "running"]
           /\ holder' = r

Settle(r, outcome) == /\ holder = r
                      /\ status[r] = "running"
                      /\ status' = [status EXCEPT ![r] = outcome]
                      /\ holder' = NoRow

\* The holder is gone and nothing was recorded: the process died, or the
\* write of the outcome failed.  The turn is orphaned, still "running".
Abandon == /\ holder # NoRow
           /\ holder' = NoRow
           /\ UNCHANGED status

\* Orphans are written off, never put back in the queue.
WriteOff == /\ holder = NoRow
            /\ \E r \in Rows : status[r] = "running"
            /\ status' = [r \in Rows |-> IF status[r] = "running"
                                         THEN "interrupted" ELSE status[r]]
            /\ UNCHANGED holder

Next == \/ \E r \in Rows : \/ Submit(r) \/ Withdraw(r) \/ Take(r)
                           \/ \E outcome \in {"done", "failed"} : Settle(r, outcome)
        \/ Abandon
        \/ WriteOff

Spec == Init /\ [][Next]_laneVars
=============================================================================
