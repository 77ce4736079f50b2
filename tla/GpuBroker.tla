------------------------------ MODULE GpuBroker ------------------------------
(***************************************************************************)
(* gpu-broker/broker.mjs: a proxy in front of inference containers that do  *)
(* not fit on one GPU together.  A request is queued; one admission at a    *)
(* time makes its service the loaded one, stopping the other when it has    *)
(* drained; then the request is forwarded, and replayed when the upstream   *)
(* drops it.  A step ends where the code awaits.  Time appears as a waiter  *)
(* growing old (maxWaitSec) and a timer firing.                             *)
(***************************************************************************)
EXTENDS Naturals, Sequences, FiniteSets

CONSTANTS Services,    \* the managed containers
          NoSvc,       \* "nothing is loaded"
          Requests,    \* clients: each has one request at a time, again and again
          NoReq,       \* "no request"
          SvcOf,       \* [Requests -> Services]: whose listener the client talks to
          Passive,     \* clients that only poll: GET on a passive path
          Pumps,       \* identities of pump() invocations
          Retries,     \* UPSTREAM_RETRIES
          IdleUnload,  \* whether idleTimeoutSec > 0
          SlowStart,   \* whether a running container may fail to get ready in time
          Faults       \* whether Docker may refuse a request or lose a container

ASSUME BrokerAssumption ==
    /\ NoSvc \notin Services /\ NoReq \notin Requests
    /\ SvcOf \in [Requests -> Services] /\ Passive \subseteq Requests
    /\ IsFiniteSet(Requests) /\ Pumps # {}
    /\ Retries \in Nat
    /\ IdleUnload \in BOOLEAN /\ SlowStart \in BOOLEAN /\ Faults \in BOOLEAN

VARIABLES
    running,    \* [Services -> BOOLEAN]: Docker's containers
    \* --- the broker's mutex and admission queue
    active, ready, admitting,
    queue,      \* Seq(Requests): waiters, but for the one being admitted
    inflight,   \* [Services -> Nat]
    idle,       \* [Services -> BOOLEAN]: the idle timer is armed
    \* --- invocations in the middle of an await
    pump,       \* [Pumps -> PumpPc]
    cur,        \* [Pumps -> Requests \cup {NoReq}]: the request it is admitting
    unloading,  \* the service an idle timer is stopping
    req,        \* [Requests -> ReqPc]
    tries,      \* [Requests -> Nat]: the attempt to forward it
    \* --- time, and history
    line,       \* Seq(Requests): waiters by arrival, the one being admitted included
    aged,       \* [Requests -> BOOLEAN]: has waited MAX_WAIT_MS
    stray       \* services that may run although their start was given up

loadVars  == <<running, active, ready, stray>>
waitVars  == <<queue, line, aged>>
pumpVars  == <<admitting, pump, cur, unloading>>
servedVars == <<inflight, idle, req, tries>>
vars == <<loadVars, waitVars, pumpVars, servedVars>>

PumpPc == {"idle", "pick", "drain", "grace", "stop", "settle", "inspect", "start", "probe"}
ReqPc  == {"idle", "body", "queued", "open", "retry"}

\* The requests being served by `s`: admitted and not yet released.
Served(s) == {r \in Requests : SvcOf[r] = s /\ req[r] \in {"open", "retry"}}
InflightOf(s) == IF s = NoSvc THEN 0 ELSE inflight[s]

\* Boot stops everything; what Docker refused to stop is left running.
Init ==
    /\ running \in [Services -> BOOLEAN]
    /\ \A s \in Services : running[s] => Faults
    /\ active = NoSvc /\ ready = FALSE /\ admitting = FALSE
    /\ queue = <<>> /\ line = <<>> /\ aged = [r \in Requests |-> FALSE]
    /\ inflight = [s \in Services |-> 0] /\ idle = [s \in Services |-> FALSE]
    /\ pump = [p \in Pumps |-> "idle"] /\ cur = [p \in Pumps |-> NoReq]
    /\ unloading = NoSvc
    /\ req = [r \in Requests |-> "idle"] /\ tries = [r \in Requests |-> 1]
    /\ stray = {s \in Services : running[s]}
-----------------------------------------------------------------------------
(* The admission queue.                                                     *)

LeaveLine(r) == /\ line' = SelectSeq(line, LAMBDA w : w # r)
                /\ aged' = [aged EXCEPT ![r] = FALSE]

\* pump() up to its first await: nothing to do unless someone waits and nobody admits.
Kick(isAdmitting, q) ==
    IF isAdmitting \/ q = <<>>
    THEN admitting' = isAdmitting /\ UNCHANGED pump
    ELSE /\ admitting' = TRUE
         /\ \E p \in Pumps : pump[p] = "idle" /\ pump' = [pump EXCEPT ![p] = "pick"]

\* pickNext() takes the waiter in place `i`: the first that has waited too long, else the
\* first for the loaded service, else the first.
PicksNext(i) ==
    LET places  == 1..Len(queue)
        starved == {j \in places : aged[queue[j]]}
        same    == {j \in places : SvcOf[queue[j]] = active}
        among   == IF starved # {} THEN starved ELSE IF same # {} THEN same ELSE places
    IN  i \in among /\ \A j \in among : i <= j

\* queue.splice(i, 1)
Splice(q, i) == SubSeq(q, 1, i - 1) \o SubSeq(q, i + 1, Len(q))

PumpTo(p, next) == pump' = [pump EXCEPT ![p] = next]

\* A slot on the loaded service is reserved and the request forwarded.
Admit(p, r) ==
    /\ inflight' = [inflight EXCEPT ![SvcOf[r]] = @ + 1]
    /\ idle' = [idle EXCEPT ![SvcOf[r]] = FALSE]
    /\ req' = [req EXCEPT ![r] = "open"]
    /\ tries' = [tries EXCEPT ![r] = 1]
    /\ LeaveLine(r)
    /\ cur' = [cur EXCEPT ![p] = NoReq]
    /\ PumpTo(p, "pick")
    /\ UNCHANGED <<admitting, unloading>>

\* ensureLoaded() threw: the client is told 503, the loop goes on.
Reject(p) ==
    /\ req' = [req EXCEPT ![cur[p]] = "idle"]
    /\ LeaveLine(cur[p])
    /\ cur' = [cur EXCEPT ![p] = NoReq]
    /\ PumpTo(p, "pick")
    /\ UNCHANGED <<queue, admitting, unloading, inflight, idle, tries>>

\* The loop ends when nobody waits.
PumpDone(p) ==
    /\ pump[p] = "pick" /\ queue = <<>>
    /\ PumpTo(p, "idle")
    /\ admitting' = FALSE
    /\ UNCHANGED <<loadVars, waitVars, cur, unloading, servedVars>>

PickLoaded(p) ==
    /\ pump[p] = "pick"
    /\ \E i \in 1..Len(queue) :
        /\ PicksNext(i)
        /\ active = SvcOf[queue[i]] /\ ready
        /\ queue' = Splice(queue, i)
        /\ Admit(p, queue[i])
    /\ UNCHANGED loadVars

PickOther(p) ==
    /\ pump[p] = "pick"
    /\ \E i \in 1..Len(queue) :
        /\ PicksNext(i)
        /\ ~(active = SvcOf[queue[i]] /\ ready)
        /\ queue' = Splice(queue, i)
        /\ cur' = [cur EXCEPT ![p] = queue[i]]
        /\ PumpTo(p, IF active \in {NoSvc, SvcOf[queue[i]]} THEN "inspect"
                     ELSE IF InflightOf(active) > 0 THEN "drain" ELSE "grace")
    /\ UNCHANGED <<loadVars, line, aged, admitting, unloading, servedVars>>
-----------------------------------------------------------------------------
(* ensureLoaded(): the swap.                                                *)

\* Mutant of Drained: the requests in flight are not waited for.
DrainedAtOnce(p) ==
    /\ pump[p] = "drain"
    /\ PumpTo(p, "grace")
    /\ UNCHANGED <<loadVars, waitVars, admitting, cur, unloading, servedVars>>

Drained(p) ==
    /\ pump[p] = "drain" /\ InflightOf(active) = 0
    /\ PumpTo(p, "grace")
    /\ UNCHANGED <<loadVars, waitVars, admitting, cur, unloading, servedVars>>

\* Someone waits for the loaded service who has not waited too long.
FollowUp == \E i \in 1..Len(queue) : SvcOf[queue[i]] = active /\ ~aged[queue[i]]

\* After the grace the swap is deferred: the waiter goes to the end of the queue,
\* with its time of arrival.
Defer(p) ==
    /\ pump[p] = "grace" /\ FollowUp
    /\ queue' = Append(queue, cur[p])
    /\ cur' = [cur EXCEPT ![p] = NoReq]
    /\ PumpTo(p, "pick")
    /\ UNCHANGED <<loadVars, line, aged, admitting, unloading, servedVars>>

Commit(p) ==
    /\ pump[p] = "grace" /\ ~FollowUp
    /\ idle' = [idle EXCEPT ![active] = FALSE]
    /\ PumpTo(p, "stop")
    /\ UNCHANGED <<loadVars, waitVars, admitting, cur, unloading, inflight, req, tries>>

Down(s) == /\ running' = [running EXCEPT ![s] = FALSE]
           /\ stray' = stray \ {s}

\* Mutant of StopOut: an error answer of Docker is taken for a stop.
StopOutIgnoresErrors(p) ==
    /\ pump[p] = "stop"
    /\ Down(active) \/ (Faults /\ UNCHANGED <<running, stray>>)
    /\ PumpTo(p, "settle")
    /\ UNCHANGED <<active, ready, waitVars, admitting, cur, unloading, servedVars>>

\* The outgoing container is stopped; if Docker reports an error it may be, or not.
StopOut(p) ==
    /\ pump[p] = "stop"
    /\ \/ /\ Down(active)
          /\ PumpTo(p, "settle")
          /\ UNCHANGED <<waitVars, admitting, cur, unloading, servedVars>>
       \/ /\ Faults
          /\ Down(active) \/ UNCHANGED <<running, stray>>
          /\ Reject(p)
    /\ UNCHANGED <<active, ready>>

Settle(p) ==
    /\ pump[p] = "settle"
    /\ active' = NoSvc /\ ready' = FALSE
    /\ PumpTo(p, "inspect")
    /\ UNCHANGED <<running, stray, waitVars, admitting, cur, unloading, servedVars>>

Inspect(p) ==
    /\ pump[p] = "inspect"
    /\ \/ /\ PumpTo(p, IF running[SvcOf[cur[p]]] THEN "probe" ELSE "start")
          /\ UNCHANGED <<waitVars, admitting, cur, unloading, servedVars>>
       \/ Faults /\ Reject(p)
    /\ UNCHANGED loadVars

StartUp(p) ==
    /\ pump[p] = "start"
    /\ LET s == SvcOf[cur[p]]
       IN  \/ /\ running' = [running EXCEPT ![s] = TRUE]
              /\ PumpTo(p, "probe")
              /\ UNCHANGED <<stray, waitVars, admitting, cur, unloading, servedVars>>
           \/ /\ Faults
              /\ \/ running' = [running EXCEPT ![s] = TRUE] /\ stray' = stray \cup {s}
                 \/ UNCHANGED <<running, stray>>
              /\ Reject(p)
    /\ UNCHANGED <<active, ready>>

\* waitReady(): a probe is answered and the request admitted ...
GetsReady(p) ==
    /\ pump[p] = "probe" /\ running[SvcOf[cur[p]]]
    /\ active' = SvcOf[cur[p]] /\ ready' = TRUE
    /\ stray' = stray \ {SvcOf[cur[p]]}
    /\ Admit(p, cur[p])
    /\ UNCHANGED <<running, queue>>

\* ... or START_TIMEOUT_MS is over: the container is left as it is.
GivesUp(p) ==
    /\ pump[p] = "probe"
    /\ LET s == SvcOf[cur[p]]
       IN  /\ ~running[s] \/ SlowStart
           /\ stray' = IF running[s] /\ active # s THEN stray \cup {s} ELSE stray
    /\ Reject(p)
    /\ UNCHANGED <<running, active, ready>>
-----------------------------------------------------------------------------
(* The idle timer.                                                          *)

IdleFires(s) ==
    /\ idle[s]
    /\ idle' = [idle EXCEPT ![s] = FALSE]
    /\ IF admitting \/ active # s \/ inflight[s] > 0 \/ \E i \in 1..Len(queue) : SvcOf[queue[i]] = s
       THEN UNCHANGED <<admitting, unloading>>
       ELSE admitting' = TRUE /\ unloading' = s
    /\ UNCHANGED <<loadVars, waitVars, pump, cur, inflight, req, tries>>

\* Its stop is over, or refused; either way the mutex is given back and the queue looked at.
Unloaded ==
    /\ unloading # NoSvc
    /\ \/ Down(unloading) /\ active' = NoSvc /\ ready' = FALSE
       \/ /\ Faults
          /\ Down(unloading) \/ UNCHANGED <<running, stray>>
          /\ UNCHANGED <<active, ready>>
    /\ unloading' = NoSvc
    /\ Kick(FALSE, queue)
    /\ UNCHANGED <<waitVars, cur, servedVars>>
-----------------------------------------------------------------------------
(* A request: handle().                                                     *)

\* A poll is answered by the broker itself unless its service is loaded and ready.
Arrive(r) ==
    /\ req[r] = "idle"
    /\ r \in Passive => active = SvcOf[r] /\ ready
    /\ req' = [req EXCEPT ![r] = "body"]
    /\ UNCHANGED <<loadVars, waitVars, pumpVars, inflight, idle, tries>>

BodyLost(r) ==
    /\ req[r] = "body"
    /\ req' = [req EXCEPT ![r] = "idle"]
    /\ UNCHANGED <<loadVars, waitVars, pumpVars, inflight, idle, tries>>

\* acquire(): the body is read and the request joins the queue.
Join(r) ==
    /\ req[r] = "body"
    /\ req' = [req EXCEPT ![r] = "queued"]
    /\ queue' = Append(queue, r) /\ line' = Append(line, r)
    /\ Kick(admitting, queue')
    /\ UNCHANGED <<loadVars, aged, cur, unloading, inflight, idle, tries>>

\* release(): the last one out arms the idle timer and looks at the queue.
Release(r) ==
    LET s == SvcOf[r]
        n == IF inflight[s] = 0 THEN 0 ELSE inflight[s] - 1
    IN  /\ inflight' = [inflight EXCEPT ![s] = n]
        /\ req' = [req EXCEPT ![r] = "idle"]
        /\ IF n = 0
           THEN idle' = [idle EXCEPT ![s] = IdleUnload] /\ Kick(admitting, queue)
           ELSE UNCHANGED <<idle, admitting, pump>>
        /\ UNCHANGED <<waitVars, cur, unloading, tries>>

\* It is answered, or fails in a way that cannot be replayed.
Ends(r) ==
    /\ req[r] = "open"
    /\ Release(r)
    /\ UNCHANGED loadVars

\* The upstream dropped it before anything was answered: it waits to be replayed.
Dropped(r) ==
    /\ req[r] = "open" /\ tries[r] <= Retries
    /\ ready' = FALSE
    /\ req' = [req EXCEPT ![r] = "retry"]
    /\ UNCHANGED <<running, active, stray, waitVars, pumpVars, inflight, idle, tries>>

Replayed(r) ==
    /\ req[r] = "retry" /\ running[SvcOf[r]]
    /\ ready' = TRUE
    /\ req' = [req EXCEPT ![r] = "open"]
    /\ tries' = [tries EXCEPT ![r] = @ + 1]
    /\ UNCHANGED <<running, active, stray, waitVars, pumpVars, inflight, idle>>

\* Mutant of NotReplayed: the early return is not covered by the `finally`.
NotReplayedLeaks(r) ==
    /\ req[r] = "retry" /\ (~running[SvcOf[r]] \/ SlowStart)
    /\ req' = [req EXCEPT ![r] = "idle"]
    /\ UNCHANGED <<loadVars, waitVars, pumpVars, inflight, idle, tries>>

NotReplayed(r) ==
    /\ req[r] = "retry" /\ (~running[SvcOf[r]] \/ SlowStart)
    /\ Release(r)
    /\ UNCHANGED loadVars

\* Time: whoever came first is the first to have waited MAX_WAIT_MS.
Age(r) ==
    /\ req[r] = "queued" /\ ~aged[r]
    /\ \A i \in 1..Len(line) : line[i] = r => \A j \in 1..i - 1 : aged[line[j]]
    /\ aged' = [aged EXCEPT ![r] = TRUE]
    /\ UNCHANGED <<loadVars, queue, line, pumpVars, servedVars>>

\* A container exits by itself.
Dies(s) ==
    /\ Faults /\ running[s]
    /\ Down(s)
    /\ UNCHANGED <<active, ready, waitVars, pumpVars, servedVars>>
-----------------------------------------------------------------------------
PumpStep(p) ==
    \/ PumpDone(p) \/ PickLoaded(p) \/ PickOther(p)
    \/ Drained(p) \/ Defer(p) \/ Commit(p) \/ StopOut(p) \/ Settle(p)
    \/ Inspect(p) \/ StartUp(p) \/ GetsReady(p) \/ GivesUp(p)

ServeStep(r) == Ends(r) \/ Replayed(r) \/ NotReplayed(r)

\* Choosing a waiter is a continuation: it runs before any other event.
Quiet == \A p \in Pumps : pump[p] # "pick"

Next ==
    \/ \E p \in Pumps : PumpStep(p)
    \/ \E r \in Requests :
        \/ Quiet /\ Arrive(r)
        \/ Quiet /\ BodyLost(r)
        \/ Quiet /\ Join(r)
        \/ Quiet /\ Dropped(r)
        \/ Quiet /\ Ends(r)
        \/ Quiet /\ Replayed(r)
        \/ Quiet /\ NotReplayed(r)
        \/ Quiet /\ Age(r)
    \/ \E s \in Services :
        \/ Quiet /\ IdleFires(s)
        \/ Quiet /\ Dies(s)
    \/ Quiet /\ Unloaded

Spec == Init /\ [][Next]_vars

\* Docker answers, sleeps and timeouts end, time passes, and a request that is being
\* served ends: by its answer, or by its client giving up (external: the broker sets
\* no timeout on it).  Nothing is assumed of the clients' arrivals or of the faults.
Fairness ==
    /\ \A p \in Pumps : WF_vars(PumpStep(p))
    /\ \A r \in Requests : WF_vars(ServeStep(r)) /\ WF_vars(Age(r))
    /\ WF_vars(Unloaded)

FairSpec == Spec /\ Fairness
-----------------------------------------------------------------------------
TypeOK ==
    /\ running \in [Services -> BOOLEAN]
    /\ active \in Services \cup {NoSvc} /\ ready \in BOOLEAN /\ admitting \in BOOLEAN
    /\ queue \in Seq(Requests) /\ line \in Seq(Requests)
    /\ aged \in [Requests -> BOOLEAN]
    /\ inflight \in [Services -> Nat] /\ idle \in [Services -> BOOLEAN]
    /\ pump \in [Pumps -> PumpPc] /\ cur \in [Pumps -> Requests \cup {NoReq}]
    /\ unloading \in Services \cup {NoSvc}
    /\ req \in [Requests -> ReqPc] /\ tries \in [Requests -> 1..Retries + 1]
    /\ stray \subseteq Services

\* The refinement: what a client sees of its request, whose the GPU is, and whom it is being
\* taken from, by a swap or by an idle stop.
Seen(pc) == CASE pc = "queued" -> "waits"
              [] pc \in {"open", "retry"} -> "served"
              [] OTHER -> "away"
Stopping == unloading # NoSvc \/ \E p \in Pumps : pump[p] \in {"stop", "settle"}

phase   == [r \in Requests |-> Seen(req[r])]
holder  == IF Stopping THEN NoSvc ELSE active
losing == IF Stopping THEN active ELSE NoSvc

Lane == INSTANCE GpuLane

\* Requests are served by the service that has the GPU, it is taken from a service only while
\* nobody is served, and nobody is served by another before that stop is over: through drains,
\* deferrals, idle stops and replays, whatever Docker refuses (pump(), ensureLoaded(), scheduleIdle()).
LaneIsImplemented == Lane!Spec

\* The count that a swap waits on is right (pump(), release()): on every path out of a
\* request, replays included, it is the number of requests being served.
InflightExact == \A s \in Services : inflight[s] = Cardinality(Served(s))

\* Requests are served by the loaded service only (handle()): no swap, idle stop or
\* replay leaves one being served by a service that is not the active one.
ServedByActive == \A s \in Services : Served(s) # {} => active = s

\* "A swap away from the active service waits until it has drained": while the broker
\* is stopping a container nobody is being served, nor admitted.
StoppedWhenDrained ==
    Stopping => \A s \in Services : Served(s) = {}

\* Nobody waits in a queue that nothing looks at (pump(), the idle stop's `finally`).
NoForgottenWaiter == ~admitting => queue = <<>>

\* The mutex, as far as it holds: apart from containers whose start was given up, or
\* that boot could not stop, at most one is running, whatever Docker refuses.
OneLoadedButStrays == \A s, u \in Services : running[s] /\ running[u] /\ s # u =>
                                                s \in stray \/ u \in stray

\* "No deadlock" (the header): an admission ends, since the requests it waits for end
\* and no new one is let in meanwhile.
AdmissionEnds == \A r \in Requests :
    (\E p \in Pumps : cur[p] = r) ~> (\A p \in Pumps : cur[p] # r)

\* "At most one managed container runs at a time (the mutex)" (the header).
OneLoaded == \A s, u \in Services : running[s] /\ running[u] => s = u

\* "It never loads, starts, or swaps anything" (README.md, of a poll on a passive path).
PollNeverLoads == \A p \in Pumps : cur[p] \in Passive => pump[p] \notin {"stop", "start"}

\* "MAX_WAIT_MS still eventually forces it through - it can't be deferred forever"
\* (acquire()): a request that has waited that long is admitted or refused.
OldWaiterServed == \A r \in Requests : aged[r] ~> req[r] # "queued"
=============================================================================
