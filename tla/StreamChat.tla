----------------------------- MODULE StreamChat -----------------------------
(***************************************************************************)
(* One streamed inference pass with failover (LlamaClient.streamChat), over *)
(* the slot gate of EndpointGate and the reachability breaker of            *)
(* inference/endpoint-health.ts, which this module also models.  A turn     *)
(* resolves its endpoints once and then makes pass after pass; turns share  *)
(* the gate, the breaker and the operator's settings.  Text is abstracted   *)
(* to "something has reached the caller".                                   *)
(***************************************************************************)
EXTENDS EndpointGate

CONSTANTS Primary,     \* [Callers -> Urls]: the endpoint of each turn's agent
          Fallbacks,   \* the endpoints of the failover chain
          Order,       \* [Urls -> Nat]: their fallback_order
          Threshold,   \* consecutive failures that park an endpoint as down
          Cooldown     \* how long it stays excluded before a trial, in ticks

ASSUME ChatAssumption ==
    /\ Primary \in [Callers -> Urls]
    /\ Fallbacks \subseteq Urls
    /\ Order \in [Urls -> Nat]
    /\ Threshold \in Nat \ {0} /\ Cooldown \in Nat \ {0}

VARIABLES
    pc,        \* [Callers -> ChatPc]: where the turn is
    chain,     \* [Callers -> SUBSET Urls]: the candidates not tried yet
    current,   \* [Callers -> Urls \cup {NoUrl}]: the one being tried
    emitted,   \* [Callers -> BOOLEAN]: this attempt has streamed something
    stopped,   \* [Callers -> BOOLEAN]: the turn's abort signal
    \* --- the breaker: HealthEntry, with ages that stop counting at Cooldown
    failures, down, downFor, trialFor

chatVars   == <<pc, chain, current, emitted, stopped>>
healthVars == <<failures, down, downFor, trialFor>>
vars == <<gateVars, chatVars, healthVars>>

ChatPc == {"idle", "ready", "trying", "won", "lost", "side"}

\* The agent's endpoint and the failover chain; the first comes before the second.
All(t) == {Primary[t]} \cup Fallbacks
Before(t, u, v) == u = Primary[t] \/ (v # Primary[t] /\ Order[u] <= Order[v])

Init ==
    /\ GateInit
    /\ pc = [t \in Callers |-> "idle"]
    /\ chain = [t \in Callers |-> {}]
    /\ current = [t \in Callers |-> NoUrl]
    /\ emitted = [t \in Callers |-> FALSE]
    /\ stopped = [t \in Callers |-> FALSE]
    /\ failures = [u \in Urls |-> 0]
    /\ down = [u \in Urls |-> FALSE]
    /\ downFor = [u \in Urls |-> 0]
    /\ trialFor = [u \in Urls |-> Cooldown]
-----------------------------------------------------------------------------
(* The breaker.                                                             *)

\* isAvailable(): up, or past the cooldown with no trial handed out within it.
Available(u) == down[u] => downFor[u] = Cooldown /\ trialFor[u] = Cooldown

ReportSuccess(u) ==
    /\ failures' = [failures EXCEPT ![u] = 0]
    /\ down' = [down EXCEPT ![u] = FALSE]
    /\ downFor' = [downFor EXCEPT ![u] = 0]
    /\ trialFor' = [trialFor EXCEPT ![u] = Cooldown]

\* The count is only compared with the threshold, so it stops there.
ReportFailure(u) ==
    /\ failures' = [failures EXCEPT ![u] = IF @ < Threshold THEN @ + 1 ELSE @]
    /\ down' = [down EXCEPT ![u] = @ \/ failures'[u] = Threshold]
    /\ UNCHANGED <<downFor, trialFor>>

\* The background poller's probe of /v1/models comes back.
Probe(u) ==
    /\ ReportSuccess(u) \/ ReportFailure(u)
    /\ UNCHANGED <<gateVars, chatVars>>

Older(age, u) == IF down[u] /\ age[u] < Cooldown THEN age[u] + 1 ELSE age[u]

Tick ==
    /\ downFor' = [u \in Urls |-> Older(downFor, u)]
    /\ trialFor' = [u \in Urls |-> Older(trialFor, u)]
    /\ UNCHANGED <<gateVars, chatVars, failures, down>>
-----------------------------------------------------------------------------
(* A turn.                                                                  *)

\* Entering the gate of `u`, with the slots the turn once resolved for it: they may
\* be those of an earlier edit of the endpoint.
Enter(t, u) == \E n \in SlotChoices : Acquire(t, u, n)

\* The first of the candidates `left` is tried: its gate is entered.
Try(t, left) ==
    /\ \E u \in left : /\ \A v \in left : Before(t, u, v)
                      /\ Enter(t, u)
                      /\ chain' = [chain EXCEPT ![t] = left \ {u}]
                      /\ current' = [current EXCEPT ![t] = u]
    /\ pc' = [pc EXCEPT ![t] = "trying"]

\* resolveInference() and resolveFallbacks(): once per turn.
Resolve(t) ==
    /\ pc[t] = "idle"
    /\ pc' = [pc EXCEPT ![t] = "ready"]
    /\ UNCHANGED <<gateVars, chain, current, emitted, stopped, healthVars>>

\* The turn goes to `next`; what belonged to the pass is gone, and if the turn is
\* over so is its abort signal.
Leave(t, next) ==
    /\ pc' = [pc EXCEPT ![t] = next]
    /\ chain' = [chain EXCEPT ![t] = {}]
    /\ current' = [current EXCEPT ![t] = NoUrl]
    /\ emitted' = [emitted EXCEPT ![t] = FALSE]
    /\ stopped' = [stopped EXCEPT ![t] = @ /\ next # "idle"]

\* Mutant of Route: the breaker is not consulted.
RouteBlindly(t) ==
    /\ pc[t] = "ready" /\ ~stopped[t]
    /\ Try(t, All(t))
    /\ emitted' = [emitted EXCEPT ![t] = FALSE]
    /\ UNCHANGED <<stopped, healthVars>>

\* streamChat() up to its first await: endpoints that are down are dropped, unless
\* all are, a trial is recorded for every one let through, and the first
\* candidate's gate is entered.
Route(t) ==
    /\ pc[t] = "ready" /\ ~stopped[t]
    /\ LET available == {u \in All(t) : Available(u)}
       IN  Try(t, IF available = {} THEN All(t) ELSE available)
    /\ trialFor' = [u \in Urls |-> IF u \in All(t) /\ down[u] /\ Available(u) THEN 0 ELSE trialFor[u]]
    /\ emitted' = [emitted EXCEPT ![t] = FALSE]
    /\ UNCHANGED <<stopped, failures, down, downFor>>

\* attemptStream() goes on when the gate lets it: the request is sent.
Send(t) ==
    /\ Start(t)
    /\ UNCHANGED <<chatVars, healthVars>>

\* A token, a piece of reasoning or of a tool call reaches the caller.
Emit(t) ==
    /\ pc[t] = "trying" /\ call[t] = "open"
    /\ emitted' = [emitted EXCEPT ![t] = TRUE]
    /\ UNCHANGED <<gateVars, pc, chain, current, stopped, healthVars>>

\* The operator stops the turn: nothing but the signal changes, so a call that is
\* parked in the gate stays parked until its slot comes.
Stop(t) ==
    /\ pc[t] # "idle"
    /\ stopped' = [stopped EXCEPT ![t] = TRUE]
    /\ UNCHANGED <<gateVars, pc, chain, current, emitted, healthVars>>

\* Mutant of AttemptEnds: the error path does not report to the gate.
AttemptLeaks(t) ==
    /\ pc[t] = "trying" /\ call[t] = "open"
    /\ \/ Finish(t) /\ pc' = [pc EXCEPT ![t] = "won"]
       \/ pc' = [pc EXCEPT ![t] = "lost"] /\ UNCHANGED gateVars
    /\ UNCHANGED <<chain, current, emitted, stopped, healthVars>>

\* The stream ends, or it throws: refused, broken off, no token in time, stopped.
\* Either way the slot is given back.
AttemptEnds(t) ==
    /\ pc[t] = "trying" /\ call[t] = "open"
    /\ Finish(t)
    /\ \E end \in {"won", "lost"} : pc' = [pc EXCEPT ![t] = end]
    /\ UNCHANGED <<chain, current, emitted, stopped, healthVars>>

\* Back in streamChat() with the result; the turn makes another pass or is over.
Answered(t) ==
    /\ pc[t] = "won"
    /\ ReportSuccess(current[t])
    /\ \E next \in {"ready", "idle"} : Leave(t, next)
    /\ UNCHANGED gateVars

\* ... or with an error: a stop is rethrown, anything else feeds the breaker, and
\* the next candidate is tried if nothing has been streamed.
Caught(t) ==
    /\ pc[t] = "lost"
    /\ IF stopped[t] THEN UNCHANGED healthVars ELSE ReportFailure(current[t])
    /\ IF stopped[t] \/ emitted[t] \/ chain[t] = {}
       THEN Leave(t, "idle") /\ UNCHANGED gateVars
       ELSE /\ Try(t, chain[t])
            /\ emitted' = [emitted EXCEPT ![t] = FALSE]
            /\ UNCHANGED stopped

\* A tool of the turn makes a side call: complete(), without breaker or failover.
SideCall(t) ==
    /\ pc[t] = "ready"
    /\ Enter(t, Primary[t])
    /\ pc' = [pc EXCEPT ![t] = "side"]
    /\ UNCHANGED <<chain, current, emitted, stopped, healthVars>>

\* complete() reports success as soon as the response is in; if reading the
\* response then throws, it reports a failure on the same handle.
SideCallEnds(t) ==
    /\ pc[t] = "side" /\ call[t] \in {"open", "closed"}
    /\ Finish(t)
    /\ \/ pc' = [pc EXCEPT ![t] = "ready"]
       \/ call[t] = "open" /\ UNCHANGED pc
    /\ UNCHANGED <<chain, current, emitted, stopped, healthVars>>

\* The turn leaves its loop.
TurnOver(t) ==
    /\ pc[t] = "ready"
    /\ Leave(t, "idle")
    /\ UNCHANGED <<gateVars, healthVars>>
-----------------------------------------------------------------------------
Settle(t) == AttemptEnds(t) \/ Answered(t) \/ Caught(t) \/ SideCallEnds(t)

Next ==
    \/ \E t \in Callers : \/ Resolve(t) \/ Route(t) \/ Send(t) \/ Emit(t) \/ Stop(t)
                          \/ Settle(t) \/ SideCall(t) \/ TurnOver(t)
    \/ \E u \in Urls : Probe(u)
    \/ Tick

Spec == Init /\ [][Next]_vars

\* An admitted caller resumes and every request ends: before the first chunk by the
\* first-token timeout, after it by the HTTP client's own timeouts (external).
Fairness == \A t \in Callers : WF_vars(Send(t)) /\ WF_vars(Settle(t))

FairSpec == Spec /\ Fairness
-----------------------------------------------------------------------------
TypeOK ==
    /\ GateTypeOK
    /\ pc \in [Callers -> ChatPc]
    /\ chain \in [Callers -> SUBSET Urls] /\ current \in [Callers -> Urls \cup {NoUrl}]
    /\ emitted \in [Callers -> BOOLEAN] /\ stopped \in [Callers -> BOOLEAN]
    /\ failures \in [Urls -> 0..Threshold] /\ down \in [Urls -> BOOLEAN]
    /\ downFor \in [Urls -> 0..Cooldown] /\ trialFor \in [Urls -> 0..Cooldown]

\* A slot does not outlive the attempt it was taken for (attemptStream(), complete()): a
\* turn that is between passes, over, or on its way to the next candidate has no call
\* parked or open at any endpoint, whichever way its last attempt ended.
SlotEndsWithAttempt ==
    \A t \in Callers : call[t] \in {"parked", "admitted", "open"} => pc[t] \in {"trying", "side"}

\* One voice per pass (streamChat()): once anything of an attempt has reached the
\* caller, the pass does not start again at another endpoint.
OneVoice ==
    [][\A t \in Callers : pc[t] = "lost" /\ pc'[t] = "trying" => ~emitted[t]]_vars

\* A pass is not sent to an endpoint that the breaker holds down (streamChat()),
\* except as the one trial of a cooldown or when every candidate is down.
RoutedAround ==
    [][\A t \in Callers : pc[t] = "ready" /\ pc'[t] = "trying" =>
            LET u == where'[t]
            IN  down[u] => \/ trialFor'[u] = 0 /\ trialFor[u] = Cooldown
                           \/ \A v \in All(t) : down[v]]_vars

\* Every pass ends: no turn waits for ever for a slot, for an answer or for the rest
\* of its chain, whatever the others do, since none holds one slot while waiting for
\* another.
PassEnds == \A t \in Callers : pc[t] = "trying" ~> pc[t] \in {"ready", "idle"}
=============================================================================
