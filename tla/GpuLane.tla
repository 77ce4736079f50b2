------------------------------- MODULE GpuLane -------------------------------
(***************************************************************************)
(* What the GPU broker promises its clients, without saying how: requests   *)
(* are served by the service that has the GPU; it is taken from a service   *)
(* only while nobody is served; and another one gets it only when that stop *)
(* is over.  A stop may fail, and then the service keeps the GPU.           *)
(* GpuBroker implements this specification (GpuBroker!LaneIsImplemented).   *)
(***************************************************************************)
CONSTANTS Services, NoSvc, Requests, SvcOf   \* as in GpuBroker

VARIABLES phase,    \* [Requests -> {"away", "waits", "served"}]
          holder,   \* the service that has the GPU, or NoSvc
          losing    \* the service it is being taken from, or NoSvc

laneVars == <<phase, holder, losing>>

Moves(r, from, to) == phase[r] = from /\ phase' = [phase EXCEPT ![r] = to]

\* The service is stopped, or it keeps the GPU after all.
Stopped == losing # NoSvc /\ losing' = NoSvc /\ holder' = NoSvc
Kept    == losing # NoSvc /\ losing' = NoSvc /\ holder' = losing

Init == /\ phase = [r \in Requests |-> "away"]
        /\ holder = NoSvc /\ losing = NoSvc

Asks(r)   == Moves(r, "away", "waits") /\ UNCHANGED <<holder, losing>>
Leaves(r) == Moves(r, "served", "away") /\ UNCHANGED <<holder, losing>>

StopBegins ==
    /\ holder # NoSvc /\ \A r \in Requests : phase[r] # "served"
    /\ holder' = NoSvc /\ losing' = holder
    /\ UNCHANGED phase

StopEnds == (Stopped \/ Kept) /\ UNCHANGED phase

\* A request that is refused takes with it the stop that was made for it.
Refused(r) == Moves(r, "waits", "away") /\ (Kept \/ UNCHANGED <<holder, losing>>)

Serves(r) ==
    /\ holder \in {NoSvc, SvcOf[r]} /\ losing = NoSvc
    /\ Moves(r, "waits", "served")
    /\ holder' = SvcOf[r] /\ UNCHANGED losing

Next == \/ \E r \in Requests : Asks(r) \/ Refused(r) \/ Serves(r) \/ Leaves(r)
        \/ StopBegins \/ StopEnds

Spec == Init /\ [][Next]_laneVars
=============================================================================
