----------------------------- MODULE FlowRunner -----------------------------
(***************************************************************************)
(* One run of a flow: the wave scheduler of flows/FlowRunner.ts, the human  *)
(* gate of flows/FlowApprovalBroker.ts and the run document of              *)
(* domain/flows/flow-run.repository.ts.                                     *)
(* A scope is one execution of a region: the whole graph (Main) or one pass *)
(* of a for_each body.  A step ends where the code awaits.  Values are      *)
(* abstracted to the set of output ports a node gave a value to.  A flow    *)
(* has at most one for_each, so regions nest one deep.  Artifacts, logs,    *)
(* labels and coercion between port types are left out.                     *)
(***************************************************************************)
EXTENDS Naturals, FiniteSets, Sequences

CONSTANTS Nodes,             \* identities of nodes
          Flows,             \* the flows a run may be started on; every one passes validateFlow()
          NoNode,            \* "no node", outside Nodes
          MaxItems,          \* bound: the longest list a for_each iterates over
          BranchConcurrency, \* BRANCH_CONCURRENCY
          MaxRefused         \* bound: how many database requests are refused

Main   == 0
Scopes == 0 .. MaxItems

(***************************************************************************)
(* A flow: order lists its nodes as the document does; an edge leads from   *)
(* port `out' of src to port `in' of dst; <<n, m>> in quotes says the config*)
(* of n holds a template reference to m; required and signals are the       *)
(* (node, port) pairs declared so; outcomes[n] is the set of port sets n may*)
(* fill; gates are the approval nodes; loop, body, collect, items and width *)
(* are the for_each, the nodes between it and its collect_node, its list's  *)
(* length and its concurrency.                                              *)
(***************************************************************************)
Range1(f) == {f.order[i] : i \in DOMAIN f.order}
Successors(f, S) == {e.dst : e \in {x \in f.edges : x.src \in S}}

\* Nodes strictly between the for_each and its collect.
LoopBody(f) ==
    LET Grow(S) == S \union (Successors(f, S \union {f.loop}) \ {f.collect})
        grow[k \in Nat] == IF k = 0 THEN {} ELSE Grow(grow[k-1])
    IN  grow[Len(f.order)]

\* What feeds what: along the wires, and from a for_each to all that it drives.
Wired(f) == {<<e.src, e.dst>> : e \in f.edges} \union ({f.loop} \X (f.body \union {f.collect}))

\* Among any nodes there is one that none of them feeds.
Acyclic(S, R) == \A T \in (SUBSET S) \ {{}} : \E n \in T : \A m \in T : <<m, n>> \notin R

ASSUME FlowAssumption ==
    /\ NoNode \notin Nodes
    /\ MaxItems \in Nat /\ MaxRefused \in Nat /\ BranchConcurrency \in Nat \ {0}
    /\ \A f \in Flows :
         /\ f.order \in Seq(Nodes)
         /\ \A i, j \in DOMAIN f.order : f.order[i] = f.order[j] => i = j
         /\ \A e \in f.edges : {e.src, e.dst} \subseteq Range1(f)
         /\ Acyclic(Range1(f), Wired(f))
         /\ {f.loop, f.collect} \subseteq Range1(f) \union {NoNode}
         /\ f.loop = NoNode <=> f.collect = NoNode
         /\ f.body = IF f.loop = NoNode THEN {} ELSE LoopBody(f)
         /\ f.body \subseteq Range1(f) \ {f.loop, f.collect}
         /\ \A e \in f.edges : e.src \in f.body => e.dst \in f.body \union {f.collect}
         /\ f.loop \notin {f.collect} \union f.gates \/ f.loop = NoNode
         /\ f.items \in 0 .. MaxItems /\ f.width \in Nat \ {0}

VARIABLES
    flow,     \* the flow being run
    run,      \* start(): "off", "on", "finishing", "erring", "aborting", "over", "dead", "swept"
    doc,      \* flow_runs.status
    aborted,  \* the run's AbortController
    region,   \* [Scopes -> RegionPc]: executeRegion()
    pending,  \* [Scopes -> SUBSET Nodes]: nodes the scheduler has not dealt with
    todo,     \* [Scopes -> SUBSET Nodes]: rest of the pass that looks for ready nodes
    ready,    \* [Scopes -> SUBSET Nodes]: ready nodes not yet started
    batch,    \* [Scopes -> SUBSET Nodes]: nodes of the Promise.all under way
    node,     \* [Scopes -> [Nodes -> Phase]]: executeNode() and NodeRuntime.status
    out,      \* [Scopes -> [Nodes -> set of ports]]: NodeRuntime.outputs
    iters,    \* passes of the loop's Promise.all under way
    next,     \* first item no pass has been started for
    gate,     \* the broker's entry for this run: <<scope, node>> or NoNode
    refused   \* history: refused requests

regionVars == <<region, pending, todo, ready, batch>>
loopVars   == <<iters, next>>
nodeVars   == <<node, out>>
vars == <<flow, run, doc, aborted, regionVars, nodeVars, loopVars, gate, refused>>

Live      == {"running", "awaiting_input"}
Ended     == {"success", "error", "aborted"}
Active    == {"on", "finishing", "erring", "aborting"}   \* FlowRunner.active has the run
RegionPc  == {"off", "adding", "skipping", "draining", "batch", "done", "failed"}
\* Where an execution is; "stuck": it ended before its try block, its status still `running';
\* "unanswerable": its gate was taken from the broker and never resolved.
Executing == {"starting", "running", "asking", "gated", "answered", "unanswerable",
              "looping", "closing"}
Phase     == Executing \union {"pending", "storing", "failing", "stuck",
                               "success", "error", "skipped"}

\* NodeRuntime.status of a node in a phase.
Status(p) == CASE p \in Executing \union {"stuck"} -> "running"
               [] p \in {"storing", "success"}     -> "success"
               [] p \in {"failing", "error"}       -> "error"
               [] OTHER                            -> p
Unsettled == {"pending", "running"}

Body      == flow.body
LoopOwned == IF flow.loop = NoNode THEN {} ELSE Body \union {flow.collect}
InFlow    == Range1(flow)
RegionOf(s) == IF s = Main THEN InFlow ELSE Body

\* A pass has a runtime of its own for the body and sees the rest through the outer one.
View(s, n) ==
    CASE s = Main \/ n \in Body -> Status(node[s][n])
      [] s # Main /\ n = flow.loop -> "success"
      [] OTHER -> Status(node[Main][n])
Filled(s, n) ==
    CASE s = Main \/ n \in Body -> out[s][n]
      [] s # Main /\ n = flow.loop -> {"default", "index", "each"}
      [] OTHER -> out[Main][n]

\* Mutant of Satisfied: the port the edge leaves from is not looked at.
SatisfiedByAnyPort(s, e) == View(s, e.src) = "success" /\ Filled(s, e.src) # {}

Satisfied(s, e) == View(s, e.src) = "success" /\ e.out \in Filled(s, e.src)

\* The edges settle() looks at: those that leave from the region.  gatherInputs() reads every
\* edge into the node.
Incoming(s, n)  == {e \in flow.edges : e.dst = n /\ e.src \in RegionOf(s)}
Quoted(n)       == {m \in InFlow \ {n} : <<n, m>> \in flow.quotes}

\* A wire from outside a loop straight into its body: validateFlow() only warns of it.
FedFromOutside(e) == e.dst \in Body /\ e.src \notin Body \union {flow.loop}

\* An edge into n carries nothing yet.
Awaits(s, n) == \E e \in Incoming(s, n) : View(s, e.src) \in Unsettled

\* A reference in n's config is to a node that is not decided yet.
QuotesUnsettled(s, n) == \E m \in Quoted(n) : View(s, m) \in Unsettled

\* No edge into n carries a value, or a port n cannot do without gets none.
Unfed(s, n) ==
    LET edges  == Incoming(s, n)
        Fed(p) == \E e \in edges : e.in = p /\ Satisfied(s, e)
        gating == {p \in {e.in : e \in edges} : <<n, p>> \in flow.required \union flow.signals}
    IN  \/ edges # {} /\ ~(\E e \in edges : Satisfied(s, e))
        \/ \E p \in gating : ~Fed(p)

\* Mutant of Verdict: references are not waited for.
VerdictByWire(s, n) ==
    IF Awaits(s, n) THEN "wait" ELSE IF Unfed(s, n) THEN "skip" ELSE "run"

\* settle(): run, wait or skip.
Verdict(s, n) ==
    IF QuotesUnsettled(s, n) \/ Awaits(s, n) THEN "wait"
    ELSE IF Unfed(s, n) THEN "skip" ELSE "run"

\* A database request goes through, or is refused (at most MaxRefused times).
Goes   == UNCHANGED refused
Refuse == refused < MaxRefused /\ refused' = refused + 1

Init ==
    /\ flow \in Flows
    /\ run = "off" /\ doc = "none" /\ aborted = FALSE
    /\ region = [s \in Scopes |-> "off"]
    /\ pending = [s \in Scopes |-> {}]
    /\ todo = [s \in Scopes |-> {}] /\ ready = [s \in Scopes |-> {}]
    /\ batch = [s \in Scopes |-> {}]
    /\ node = [s \in Scopes |-> [n \in Nodes |-> "pending"]]
    /\ out = [s \in Scopes |-> [n \in Nodes |-> {}]]
    /\ iters = {} /\ next = 1
    /\ gate = NoNode /\ refused = 0
-----------------------------------------------------------------------------
(* executeRegion().                                                         *)

\* Lists of nodes are in the order of the document: a list is the set of its nodes.
Place(n)    == CHOOSE i \in DOMAIN flow.order : flow.order[i] = n
First(S)    == CHOOSE n \in S : \A m \in S : Place(n) <= Place(m)
Upto(S, n)  == {m \in S : Place(m) <= Place(n)}
Slice(S, k) == {n \in S : Cardinality(Upto(S, n)) <= k}

\* Starts the first nodes of `list' together, marking them running; rest is the set of
\* nodes still pending.
Launch(s, list, rest) ==
    LET b == Slice(list, BranchConcurrency)
    IN  /\ batch' = [batch EXCEPT ![s] = b]
        /\ ready' = [ready EXCEPT ![s] = list \ b]
        /\ node' = [node EXCEPT ![s] = [n \in Nodes |-> IF n \in b THEN "starting" ELSE @[n]]]
        /\ pending' = [pending EXCEPT ![s] = rest]
        /\ region' = [region EXCEPT ![s] = "batch"]
        /\ todo' = [todo EXCEPT ![s] = {}]

\* markSkipped() up to its write.
Skip(s, n, rest) ==
    /\ node' = [node EXCEPT ![s][n] = "skipped"]
    /\ pending' = [pending EXCEPT ![s] = rest]

GoTo(s, pc) == region' = [region EXCEPT ![s] = pc]

\* The pass over `list' up to its next await; rest are the pending nodes, found those
\* the pass has found ready.
Pass(s, list, rest, found) ==
    LET dead  == {n \in list : Verdict(s, n) = "skip"}
        seen  == IF dead = {} THEN list ELSE Upto(list, First(dead))
        found1 == found \union {n \in seen : Verdict(s, n) = "run"}
    IN  \/ /\ dead # {}
           /\ Skip(s, First(dead), rest \ {First(dead)})
           /\ todo' = [todo EXCEPT ![s] = list \ seen]
           /\ ready' = [ready EXCEPT ![s] = found1]
           /\ GoTo(s, "skipping")
           /\ UNCHANGED batch
        \/ /\ dead = {} /\ found1 # {}
           /\ Launch(s, found1, rest \ found1)
        \/ /\ dead = {} /\ found1 = {} /\ rest = {}
           /\ GoTo(s, "done") /\ pending' = [pending EXCEPT ![s] = rest]
           /\ todo' = [todo EXCEPT ![s] = {}]
           /\ UNCHANGED <<ready, batch, node>>
        \/ /\ dead = {} /\ found1 = {} /\ rest # {}
           \* Nothing can advance: skip what is left.
           /\ Skip(s, First(rest), rest \ {First(rest)})
           /\ GoTo(s, "draining")
           /\ todo' = [todo EXCEPT ![s] = {}]
           /\ UNCHANGED <<ready, batch>>

\* The head of the scheduler's loop.
LoopHead(s, rest) ==
    \/ /\ rest = {}
       /\ GoTo(s, "done") /\ pending' = [pending EXCEPT ![s] = rest]
       /\ UNCHANGED <<todo, ready, batch, node>>
    \/ /\ rest # {} /\ aborted
       /\ GoTo(s, "failed") /\ pending' = [pending EXCEPT ![s] = rest]
       /\ UNCHANGED <<todo, ready, batch, node>>
    \/ /\ rest # {} /\ ~aborted
       /\ Pass(s, rest, rest, {})

\* A database write of the region is refused: executeRegion() rejects.
RegionRefused(s) ==
    /\ Refuse /\ GoTo(s, "failed")
    /\ UNCHANGED <<pending, todo, ready, batch, node>>

PassGoesOn(s) ==
    /\ region[s] = "skipping"
    /\ \/ Goes /\ Pass(s, todo[s], pending[s], ready[s])
       \/ RegionRefused(s)
    /\ UNCHANGED <<flow, run, doc, aborted, out, loopVars, gate>>

\* Mutant of Drain: the nodes that cannot advance are waited for.
DrainNothing(s) ==
    /\ region[s] = "draining" /\ pending[s] = {}
    /\ Goes /\ GoTo(s, "done")
    /\ UNCHANGED <<pending, todo, ready, batch, node>>
    /\ UNCHANGED <<flow, run, doc, aborted, out, loopVars, gate>>

Drain(s) ==
    /\ region[s] = "draining"
    /\ \/ /\ Goes /\ pending[s] = {} /\ GoTo(s, "done")
          /\ UNCHANGED <<pending, todo, ready, batch, node>>
       \/ /\ Goes /\ pending[s] # {}
          /\ Skip(s, First(pending[s]), pending[s] \ {First(pending[s])})
          /\ UNCHANGED <<region, todo, ready, batch>>
       \/ RegionRefused(s)
    /\ UNCHANGED <<flow, run, doc, aborted, out, loopVars, gate>>

\* Promise.all of a batch resolves ...
BatchDone(s) ==
    /\ region[s] = "batch" /\ \A n \in batch[s] : node[s][n] = "success"
    /\ \/ ready[s] # {} /\ Launch(s, ready[s], pending[s])
       \/ ready[s] = {} /\ LoopHead(s, pending[s])
    /\ UNCHANGED <<flow, run, doc, aborted, out, loopVars, gate, refused>>

\* ... or rejects with its first failure, leaving the others to themselves.
BatchFails(s) ==
    /\ region[s] = "batch" /\ \E n \in batch[s] : node[s][n] \in {"error", "stuck"}
    /\ GoTo(s, "failed")
    /\ UNCHANGED <<flow, run, doc, aborted, pending, todo, ready, batch, nodeVars, loopVars,
                   gate, refused>>
-----------------------------------------------------------------------------
(* executeNode().                                                           *)

At(s, n, p) == node[s][n] = p
To(s, n, p) == node' = [node EXCEPT ![s][n] = p]
elsewhere   == <<flow, run, aborted, regionVars, loopVars>>

\* What a node does once it is recorded as running.
Work(n) == CASE n \in flow.gates -> "asking" [] n = flow.loop -> "looping" [] OTHER -> "running"

\* Mutant of Starts: the signal is not looked at after the write.
StartsAnyway(s, n) ==
    /\ At(s, n, "starting")
    /\ \/ Goes /\ To(s, n, Work(n))
       \/ Refuse /\ To(s, n, "stuck")
    /\ UNCHANGED <<elsewhere, out, doc, gate>>

\* The write of `running' returns.
Starts(s, n) ==
    /\ At(s, n, "starting")
    /\ \/ Goes /\ To(s, n, IF aborted THEN "failing" ELSE Work(n))
       \/ Refuse /\ To(s, n, "stuck")
    /\ UNCHANGED <<elsewhere, out, doc, gate>>

HandlerReturns(s, n) ==
    /\ At(s, n, "running")
    /\ \E ports \in flow.outcomes[n] : out' = [out EXCEPT ![s][n] = ports]
    /\ To(s, n, "storing")
    /\ UNCHANGED <<elsewhere, doc, gate, refused>>

HandlerThrows(s, n) ==
    /\ At(s, n, "running")
    /\ To(s, n, "failing")
    /\ UNCHANGED <<elsewhere, out, doc, gate, refused>>

\* The write of the result returns; refused, the node has failed after all.
Stored(s, n) ==
    /\ At(s, n, "storing")
    /\ \/ Goes /\ To(s, n, "success")
       \/ Refuse /\ To(s, n, "failing")
    /\ UNCHANGED <<elsewhere, out, doc, gate>>

\* The write of the failure returns or is refused: executeNode() throws either way.
FailureStored(s, n) ==
    /\ At(s, n, "failing")
    /\ To(s, n, "error")
    /\ UNCHANGED <<elsewhere, out, doc, gate, refused>>
-----------------------------------------------------------------------------
(* The approval gate.  setPending() writes whatever the run's status is.    *)

Asks(s, n) ==
    /\ At(s, n, "asking")
    /\ \/ Goes /\ To(s, n, "gated") /\ gate' = <<s, n>> /\ doc' = "awaiting_input"
       \/ Refuse /\ To(s, n, "failing") /\ UNCHANGED <<gate, doc>>
    /\ UNCHANGED <<elsewhere, out>>

\* answer(): the entry is taken at once, the node resumed after the write.
Answer(s, n) ==
    /\ gate = <<s, n>> /\ At(s, n, "gated")
    /\ gate' = NoNode
    /\ \E verdict \in {"approved", "rejected"} : out' = [out EXCEPT ![s][n] = {verdict}]
    /\ To(s, n, "answered")
    /\ UNCHANGED <<elsewhere, doc, refused>>

AnswerLands(s, n) ==
    /\ At(s, n, "answered")
    /\ \/ Goes /\ To(s, n, "storing") /\ doc' = "running"
       \/ Refuse /\ To(s, n, "unanswerable") /\ UNCHANGED doc
    /\ UNCHANGED <<elsewhere, out, gate>>

\* A gate's own timer; it deletes the run's entry, whichever gate that is for.
GateTimesOut(s, n) ==
    /\ At(s, n, "gated")
    /\ To(s, n, "failing")
    /\ gate' = NoNode
    /\ UNCHANGED <<elsewhere, out, doc, refused>>

\* cancel(): what it makes of the phases.
Cancelled == IF gate = NoNode THEN node ELSE [node EXCEPT ![gate[1]][gate[2]] = "failing"]
-----------------------------------------------------------------------------
(* runLoop() and runIteration().                                            *)

Looping(p) == flow.loop # NoNode /\ node[Main][flow.loop] = p

\* The passes under way have all returned: start the next ones, or publish.
LoopGoesOn ==
    /\ Looping("looping") /\ \A i \in iters : region[i] = "done"
    /\ next <= flow.items
    /\ \/ /\ aborted
          /\ To(Main, flow.loop, "failing")
          /\ UNCHANGED <<region, loopVars>>
       \/ /\ ~aborted
          /\ iters' = {i \in next .. flow.items : i < next + flow.width}
          /\ next' = next + flow.width
          /\ region' = [s \in Scopes |-> IF s \in iters' THEN "adding" ELSE region[s]]
          /\ UNCHANGED node
    /\ UNCHANGED <<flow, run, doc, aborted, pending, todo, ready, batch, out, gate, refused>>

\* Mutant of LoopCloses: the loop is closed when its passes have been started.
LoopClosesEarly ==
    /\ Looping("looping") /\ next > flow.items
    /\ node' = [node EXCEPT ![Main] = [n \in Nodes |->
                   CASE n = flow.loop -> "closing" [] n = flow.collect -> "success"
                     [] OTHER -> @[n]]]
    /\ out' = [out EXCEPT ![Main][flow.collect] = {"default", "text", "done"}]
    /\ UNCHANGED <<flow, run, doc, aborted, regionVars, loopVars, gate, refused>>

\* The last pass is published to the outer runtime, the collect is given its value.
LoopCloses ==
    /\ Looping("looping") /\ \A i \in iters : region[i] = "done"
    /\ next > flow.items
    /\ LET last == flow.items
           published == IF last = 0 THEN {} ELSE Body
       IN  /\ node' = [node EXCEPT ![Main] = [n \in Nodes |->
                          CASE n \in published -> node[last][n]
                            [] n = flow.loop -> "closing" [] n = flow.collect -> "success"
                            [] OTHER -> @[n]]]
           /\ out' = [out EXCEPT ![Main] = [n \in Nodes |->
                          CASE n \in published -> out[last][n]
                            [] n = flow.collect -> {"default", "text", "done"}
                            [] OTHER -> @[n]]]
    /\ UNCHANGED <<flow, run, doc, aborted, regionVars, loopVars, gate, refused>>

\* The write of the collect's value returns.
CollectStored ==
    /\ Looping("closing")
    /\ \/ Goes /\ To(Main, flow.loop, "storing")
               /\ out' = [out EXCEPT ![Main][flow.loop] = {"default", "index"}]
       \/ Refuse /\ To(Main, flow.loop, "failing") /\ UNCHANGED out
    /\ UNCHANGED <<elsewhere, doc, gate>>

LoopFails ==
    /\ Looping("looping") /\ \E i \in iters : region[i] = "failed"
    /\ To(Main, flow.loop, "failing")
    /\ UNCHANGED <<elsewhere, out, doc, gate, refused>>

\* The rows of a pass are added; its region starts.
PassBegins(s) ==
    /\ region[s] = "adding"
    /\ \/ Goes /\ LoopHead(s, Body)
       \/ RegionRefused(s)
    /\ UNCHANGED <<flow, run, doc, aborted, out, loopVars, gate>>
-----------------------------------------------------------------------------
(* start(), stop(), a restart.                                              *)

Begin ==
    /\ run = "off"
    /\ run' = "on" /\ doc' = "running"
    /\ LoopHead(Main, InFlow \ LoopOwned)
    /\ UNCHANGED <<flow, aborted, out, loopVars, gate, refused>>

Verdict2 == IF aborted THEN "aborting" ELSE "erring"

Conclude ==
    /\ run = "on" /\ region[Main] \in {"done", "failed"}
    /\ run' = IF region[Main] = "done" THEN "finishing" ELSE Verdict2
    /\ UNCHANGED <<flow, doc, aborted, regionVars, nodeVars, loopVars, gate, refused>>

\* The finally block.
Leave == run' = "over" /\ gate' = NoNode /\ node' = Cancelled

\* finish() returns: `success' refused is tried again as a failure, that one is not.
Finish ==
    /\ \/ /\ run = "finishing"
          /\ \/ Goes /\ doc' = "success" /\ Leave
             \/ Refuse /\ run' = Verdict2 /\ UNCHANGED <<doc, gate, node>>
       \/ /\ run \in {"aborting", "erring"}
          /\ \/ Goes /\ doc' = IF run = "aborting" THEN "aborted" ELSE "error"
             \/ Refuse /\ UNCHANGED doc
          /\ Leave
    /\ UNCHANGED <<flow, aborted, regionVars, out, loopVars>>

\* The operator's stop, as often as it is pressed.
Stop ==
    /\ run \in Active
    /\ aborted' = TRUE
    /\ gate' = NoNode /\ node' = Cancelled
    /\ UNCHANGED <<flow, run, doc, regionVars, out, loopVars, refused>>

Crash ==
    /\ run \notin {"off", "dead", "swept"}
    /\ run' = "dead"
    /\ region' = [s \in Scopes |-> "off"]
    /\ node' = [s \in Scopes |-> [n \in Nodes |-> "pending"]]
    /\ out' = [s \in Scopes |-> [n \in Nodes |-> {}]]
    /\ pending' = [s \in Scopes |-> {}] /\ batch' = [s \in Scopes |-> {}]
    /\ todo' = [s \in Scopes |-> {}] /\ ready' = [s \in Scopes |-> {}]
    /\ iters' = {} /\ next' = 1 /\ gate' = NoNode
    /\ UNCHANGED <<flow, doc, aborted, refused>>

\* sweepInterrupted(), at boot; a refusal is logged.
Sweep ==
    /\ run = "dead"
    /\ run' = "swept"
    /\ \/ Goes /\ doc' = IF doc \in Live THEN "error" ELSE doc
       \/ Refuse /\ UNCHANGED doc
    /\ UNCHANGED <<flow, aborted, regionVars, nodeVars, loopVars, gate>>
-----------------------------------------------------------------------------
RegionStep(s) == PassBegins(s) \/ PassGoesOn(s) \/ Drain(s) \/ BatchDone(s) \/ BatchFails(s)
HandlerEnds(s, n) == HandlerReturns(s, n) \/ HandlerThrows(s, n)
NodeStep(s, n) ==
    \/ Starts(s, n) \/ HandlerEnds(s, n) \/ Stored(s, n) \/ FailureStored(s, n)
    \/ Asks(s, n) \/ AnswerLands(s, n) \/ GateTimesOut(s, n)
LoopStep == LoopGoesOn \/ LoopCloses \/ CollectStored \/ LoopFails
RunStep  == Begin \/ Conclude \/ Finish \/ Sweep

Next ==
    \/ RunStep \/ LoopStep \/ Stop \/ Crash
    \/ \E s \in Scopes : RegionStep(s) \/ (\E n \in Nodes : NodeStep(s, n) \/ Answer(s, n))

Spec == Init /\ [][Next]_vars

\* Handlers return and writes are answered; a gate's 24 h timer fires.  The operator owes
\* nothing, and no process need crash.
FairSpec ==
    /\ Spec
    /\ WF_vars(RunStep) /\ WF_vars(LoopStep)
    /\ \A s \in Scopes : WF_vars(RegionStep(s)) /\ \A n \in Nodes : WF_vars(NodeStep(s, n))
-----------------------------------------------------------------------------
(* Properties.                                                              *)

\* Every variable has its type.
TypeOK ==
    /\ flow \in Flows
    /\ run \in {"off", "dead", "swept", "over"} \union Active
    /\ doc \in {"none"} \union Live \union Ended
    /\ aborted \in BOOLEAN
    /\ region \in [Scopes -> RegionPc]
    /\ {pending, todo, ready, batch} \subseteq [Scopes -> SUBSET Nodes]
    /\ node \in [Scopes -> [Nodes -> Phase]]
    /\ iters \subseteq Scopes \ {Main} /\ next \in Nat \ {0}
    /\ gate \in {NoNode} \union (Scopes \X Nodes)
    /\ refused \in 0 .. MaxRefused

\* What the documents say of skipping, read off the graph alone.  If the nodes in T run, so
\* does one that is fed by some taken edge, or by none at all, unless a required or signal
\* port it is wired on is dead; a collect goes with its for_each.
Carries(T, e) == e.src \in T /\ e.out \in out[Main][e.src]
FedFrom(T, n) ==
    LET edges  == {e \in flow.edges : e.dst = n}
        gating == {p \in {e.in : e \in edges} : <<n, p>> \in flow.required \union flow.signals}
    IN  /\ edges = {} \/ \E e \in edges : Carries(T, e)
        /\ \A p \in gating : \E e \in edges : e.in = p /\ Carries(T, e)
TakenFrom(T) ==
    {n \in InFlow \ Body : IF n = flow.collect THEN flow.loop \in T ELSE FedFrom(T, n)}

\* The one set of nodes that agrees with itself: the graph is acyclic.
Taken == CHOOSE T \in SUBSET (InFlow \ Body) : T = TakenFrom(T)

\* What the run has executed, outside the loop's body.
Executed == {n \in InFlow \ Body : Status(node[Main][n]) = "success"}

\* What n reads, over a wire or in a template, and the node whose execution decides m.
Reads(n)  == {e.src : e \in {x \in flow.edges : x.dst = n}} \union Quoted(n)
Driver(m) == IF m = flow.collect THEN flow.loop ELSE m

\* The document lists a node after all that it waits for, unless that itself waits for
\* nothing, and no one outside a loop quotes its body.
ListedInOrder ==
    \A n \in InFlow \ LoopOwned : \A m \in Reads(n) :
        m \notin Body /\ (Reads(Driver(m)) = {} \/ Place(Driver(m)) < Place(n))

\* The order in which branches happened to finish, batches, loops, references and
\* refused writes never decide what a successful run executed: exactly the nodes the
\* graph says are taken.  Nodes of the loop body have one answer per pass.
RunsExactlyTheTaken == run = "finishing" => Executed = Taken

\* A run reported successful has nothing of it left at work, in any pass of its loop, and
\* no question open at the operator.
SuccessLeavesNothing ==
    doc = "success" =>
        /\ gate = NoNode
        /\ \A s \in Scopes, n \in Nodes : node[s][n] \notin Executing \union {"storing", "failing"}

\* Whatever an executing node may read, over a wire or in a template, has been decided:
\* also in a pass of a loop that runs next to the branches it quotes.  Except over a wire
\* from outside the loop into its body, which nothing waits for.
ReadsSettled ==
    \A s \in Scopes : \A n \in RegionOf(s) :
        node[s][n] \in Executing =>
            /\ \A m \in Quoted(n) : View(s, m) \notin Unsettled
            /\ \A e \in flow.edges :
                 e.dst = n /\ ~FedFromOutside(e) => View(s, e.src) \notin Unsettled

\* (Not so.)  "A node becomes ready when every incoming edge has settled": a wire from
\* outside into a loop's body has not.
EveryWireSettled ==
    \A s \in Scopes : \A n \in RegionOf(s) :
        node[s][n] \in Executing =>
            \A e \in flow.edges : e.dst = n => View(s, e.src) \notin Unsettled

\* (Not so.)  A reference that is not decided yet delays a node and never skips it: in a
\* pass of a loop nothing else may be left to advance, and the node is drained.
QuotesOnlyDelay ==
    [][\A s \in Scopes, n \in Nodes :
          node[s][n] # "skipped" /\ node'[s][n] = "skipped" => ~QuotesUnsettled(s, n)]_vars

\* Once the operator has stopped a run no handler of it begins, in no branch and no pass,
\* whatever was already on its way.
StoppedStartsNothing ==
    [][aborted => \A s \in Scopes, n \in Nodes :
          node'[s][n] \in {"running", "asking", "looping"} => node'[s][n] = node[s][n]]_vars

\* A run that has begun comes to an end that its document shows, by a restart if need be,
\* unless a refused write cost it an answered gate or its last word.
RunSettles == (run = "on") ~> (doc \in Ended \/ refused > 0)

\* (Not so.)  A run that has ended never reads as live again.
EndedReadsEnded == [][(doc \in Ended) => (doc' \in Ended)]_vars
=============================================================================
