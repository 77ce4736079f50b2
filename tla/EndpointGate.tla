---------------------------- MODULE EndpointGate ----------------------------
(***************************************************************************)
(* The gate of backend/src/inference/endpoint-gate.ts: per endpoint URL, at *)
(* most `slots` inference calls stream at once and the rest wait in arrival *)
(* order.  The limit belongs to the call, so it may change at every arrival.*)
(* JavaScript runs each of these steps to completion; what interleaves is    *)
(* the wait for a slot, the microtask that resumes an admitted caller, and   *)
(* the stream.  The counters of the activity page are left out: `queued` and *)
(* `waiting` are the length and the entries of `queue`.                      *)
(***************************************************************************)
EXTENDS Naturals, Sequences, FiniteSets

CONSTANTS Callers,     \* who may have a call in the gate, one at a time
          Urls,        \* endpoints, by normalised base URL
          NoUrl,       \* "has no call in the gate"
          SlotChoices  \* the values of parallel_slots a call may carry

ASSUME GateAssumption == SlotChoices \subseteq Nat /\ NoUrl \notin Urls

ASSUME FiniteCallers == IsFiniteSet(Callers)

VARIABLES queue,    \* [Urls -> Seq(Callers)]: parked calls, oldest first
          active,   \* [Urls -> Nat]: slots taken, counted when they are handed out
          slots,    \* [Urls -> Nat]: the limit as the last arrival declared it
          running,  \* [Urls -> SUBSET Callers]: calls whose caller has resumed
          call,     \* [Callers -> CallState]
          where     \* [Callers -> Urls \cup {NoUrl}]: the endpoint of the call

gateVars == <<queue, active, slots, running, call, where>>

CallState == {"none", "parked", "admitted", "open", "closed"}

\* The calls that have been handed a slot of `u` and not given it back.
Holders(u) == {c \in Callers : where[c] = u /\ call[c] \in {"admitted", "open"}}

\* A limit of 0 slots is read as 1.
AtLeastOne(n) == IF n = 0 THEN 1 ELSE n

GateInit ==
    /\ queue = [u \in Urls |-> <<>>]
    /\ active = [u \in Urls |-> 0]
    /\ slots = [u \in Urls |-> 1]
    /\ running = [u \in Urls |-> {}]
    /\ call = [c \in Callers |-> "none"]
    /\ where = [c \in Callers |-> NoUrl]
-----------------------------------------------------------------------------
\* How many of the queue `q` get a slot when `a` of `s` are taken.
Grants(q, a, s) == IF a + Len(q) <= s THEN Len(q) ELSE IF a < s THEN s - a ELSE 0

\* Mutant of Pump: count the callers that have resumed, not the slots handed out.
PumpByRunning(u, q, a, s, st) ==
    LET k == Grants(q, Cardinality(running[u]), s)
    IN  /\ queue' = [queue EXCEPT ![u] = SubSeq(q, k + 1, Len(q))]
        /\ active' = [active EXCEPT ![u] = a + k]
        /\ call' = [c \in Callers |-> IF \E i \in 1..k : q[i] = c THEN "admitted" ELSE st[c]]

\* pump(): free slots go to the oldest waiters, given the queue, the count, the
\* limit and the states of the calls at that point of the handler.
Pump(u, q, a, s, st) ==
    LET k == Grants(q, a, s)
    IN  /\ queue' = [queue EXCEPT ![u] = SubSeq(q, k + 1, Len(q))]
        /\ active' = [active EXCEPT ![u] = a + k]
        /\ call' = [c \in Callers |-> IF \E i \in 1..k : q[i] = c THEN "admitted" ELSE st[c]]

\* acquire() up to its await: the limit is adopted, the call joins the queue.
Acquire(c, u, n) ==
    /\ call[c] \in {"none", "closed"}
    /\ slots' = [slots EXCEPT ![u] = AtLeastOne(n)]
    /\ where' = [where EXCEPT ![c] = u]
    /\ Pump(u, Append(queue[u], c), active[u], AtLeastOne(n), [call EXCEPT ![c] = "parked"])
    /\ UNCHANGED running

\* The admitted caller resumes and has its handle.
Start(c) ==
    /\ call[c] = "admitted"
    /\ call' = [call EXCEPT ![c] = "open"]
    /\ running' = [running EXCEPT ![where[c]] = @ \cup {c}]
    /\ UNCHANGED <<queue, active, slots, where>>

\* The effect of success() or fail() on a handle still open.
GiveBack(c) ==
    LET u == where[c]
    IN  /\ running' = [running EXCEPT ![u] = @ \ {c}]
        /\ Pump(u, queue[u], IF active[u] = 0 THEN 0 ELSE active[u] - 1, slots[u],
                [call EXCEPT ![c] = "closed"])
        /\ where' = [where EXCEPT ![c] = NoUrl]
        /\ UNCHANGED slots

\* Mutant of Finish: no `done` flag, so a second report gives a slot back again.
FinishUnguarded(c) ==
    /\ call[c] \in {"open", "closed"}
    /\ IF call[c] = "open"
       THEN GiveBack(c)
       ELSE \E u \in Urls : /\ Pump(u, queue[u], IF active[u] = 0 THEN 0 ELSE active[u] - 1,
                                    slots[u], call)
                            /\ UNCHANGED <<slots, running, where>>

\* Mutant of Finish: the freed slot is not handed on.
FinishNoPump(c) ==
    /\ call[c] \in {"open", "closed"}
    /\ IF call[c] = "closed"
       THEN UNCHANGED gateVars
       ELSE /\ running' = [running EXCEPT ![where[c]] = @ \ {c}]
            /\ active' = [active EXCEPT ![where[c]] = @ - 1]
            /\ call' = [call EXCEPT ![c] = "closed"]
            /\ where' = [where EXCEPT ![c] = NoUrl]
            /\ UNCHANGED <<queue, slots>>

\* finish(): the first report releases the slot, a later one does nothing.
Finish(c) ==
    /\ call[c] \in {"open", "closed"}
    /\ IF call[c] = "closed" THEN UNCHANGED gateVars ELSE GiveBack(c)

GateNext ==
    \E c \in Callers : \/ \E u \in Urls, n \in SlotChoices : Acquire(c, u, n)
                       \/ Start(c)
                       \/ Finish(c)

GateSpec == GateInit /\ [][GateNext]_gateVars
-----------------------------------------------------------------------------
GateTypeOK ==
    /\ queue \in [Urls -> Seq(Callers)]
    /\ active \in [Urls -> Nat]
    /\ slots \in [Urls -> Nat \ {0}]
    /\ running \in [Urls -> SUBSET Callers]
    /\ call \in [Callers -> CallState]
    /\ where \in [Callers -> Urls \cup {NoUrl}]

\* A slot is neither lost nor counted twice: `active`, which is incremented in pump()
\* and decremented in finish(), equals the number of callers that hold a slot, also
\* between an admission and the microtask in which its caller resumes.
SlotsConserved == \A u \in Urls : active[u] = Cardinality(Holders(u))

\* No permit is stranded (pump()): calls wait only while every slot is taken.
NoIdleSlot == \A u \in Urls : queue[u] # <<>> => active[u] >= slots[u]

\* An endpoint is never handed more calls than it declares: the count may exceed a
\* limit that was lowered under it, but no admission takes it above the limit.
NeverOverAdmit ==
    [][\A u \in Urls : active'[u] > active[u] => active'[u] <= slots'[u]]_gateVars

\* Admission is strictly in arrival order (acquire()): a call leaves the queue after
\* every call in front of it, and a call that never queued leaves nobody waiting.
AdmittedInOrder ==
    [][/\ \A u \in Urls : \A i, j \in 1..Len(queue[u]) :
            i < j /\ call'[queue[u][j]] # "parked" => call'[queue[u][i]] # "parked"
       /\ \A c \in Callers :
            call[c] # "parked" /\ call[c] # "admitted" /\ call'[c] = "admitted"
                => queue'[where'[c]] = <<>>]_gateVars
=============================================================================
