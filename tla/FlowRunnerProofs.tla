-------------------------- MODULE FlowRunnerProofs --------------------------
(***************************************************************************)
(* Proofs about FlowRunner, for every flow validateFlow() passes, any number *)
(* of nodes, items, branches at once and refused writes.  FlowInv carries   *)
(* them: a region has every node it schedules in exactly one hand until it  *)
(* is decided, and the phase of the for_each bounds what its passes may be  *)
(* doing.  OrderInv adds why a node was started or skipped, and with it     *)
(* which nodes a run executes.                                              *)
(***************************************************************************)
EXTENDS FlowRunner, WellFoundedInduction, TLAPS

\* The nodes the scheduler of a scope drives; a loop drives the others.
Scheduled(s) == IF s = Main THEN InFlow \ LoopOwned ELSE Body
Decided      == {"success", "skipped"}
Begun        == {"skipping", "draining", "batch", "done"}

\* What waits has not been touched, and a list under way keeps to what is pending.
Waits(s) ==
    /\ pending[s] \union ready[s] \union batch[s] \subseteq Scheduled(s)
    /\ todo[s] \subseteq pending[s]
    /\ \A n \in pending[s] \union ready[s] : node[s][n] = "pending"
    /\ region[s] = "skipping" => ready[s] \subseteq pending[s] \ todo[s]
    /\ region[s] = "draining" => ready[s] = {} /\ todo[s] = {}
    /\ region[s] = "batch" => ready[s] \intersect pending[s] = {}
    /\ region[s] = "done" => pending[s] = {}

\* Nothing has happened in a region that has not begun.
Unbegun(s) ==
    region[s] \in {"off", "adding"} =>
        /\ pending[s] = {} /\ ready[s] = {}
        /\ \A n \in Scheduled(s) : node[s][n] = "pending"

\* No node is lost: it is still to come, in the batch under way, or decided.
Accounted(s) ==
    region[s] \in Begun =>
        \A n \in Scheduled(s) : \/ n \in pending[s]
                                \/ region[s] = "batch" /\ n \in ready[s] \union batch[s]
                                \/ node[s][n] \in Decided

\* The scheduler of a scope leaves the other nodes alone; only a loop that closes decides
\* them in the outer scope.
Outside(s) ==
    \A n \in Nodes \ Scheduled(s) :
        node[s][n] = "pending" \/ (s = Main /\ n \in LoopOwned /\ node[s][n] \in Decided)

RegionInv(s) == Waits(s) /\ Unbegun(s) /\ Accounted(s) /\ Outside(s)

\* The for_each of the outer scope, "pending" when there is none.
LoopPhase == IF flow.loop = NoNode THEN "pending" ELSE node[Main][flow.loop]

\* Passes are started in order; those no longer awaited are done, and the loop is past its
\* passes only when all of them are.
LoopInv ==
    /\ region[Main] # "adding"
    /\ \A i \in iters : i \in 1 .. flow.items /\ i < next
    /\ \A s \in Scopes \ {Main} :
         /\ s >= next \/ s > flow.items => region[s] = "off"
         /\ s < next /\ s <= flow.items /\ s \notin iters => region[s] = "done"
    /\ LoopPhase \notin {"running", "asking", "gated", "answered", "unanswerable"}
    /\ LoopPhase \in {"pending", "starting", "skipped"} => next = 1 /\ iters = {}
    /\ LoopPhase \in {"closing", "storing", "success"} =>
         next > flow.items /\ \A i \in iters : region[i] = "done"

\* The broker's entry is a node that waits for its answer.
GateHeld == gate # NoNode => gate \in Scopes \X Nodes /\ node[gate[1]][gate[2]] = "gated"

\* What the run's own state says of the outer region.
RunInv ==
    /\ run \in {"off", "dead", "swept"} => \A s \in Scopes : region[s] = "off"
    /\ run = "finishing" \/ (run = "over" /\ doc = "success") => region[Main] = "done"
    /\ doc = "success" => run \in {"over", "dead", "swept"}

\* What node n of scope s reads has been decided.
ReadsDecided(s, n) ==
    /\ \A m \in Quoted(n) : View(s, m) \notin Unsettled
    /\ \A e \in Incoming(s, n) : View(s, e.src) \notin Unsettled

\* That was so when a node was found ready, and stays so.
ReadyInv == \A s \in Scopes : \A n \in ready[s] : ReadsDecided(s, n)

\* ... whenever a node executes: all that settle() looked at.
WiresSettled == \A s \in Scopes : \A n \in RegionOf(s) : node[s][n] \in Executing => ReadsDecided(s, n)

StructInv == TypeOK /\ (\A s \in Scopes : RegionInv(s)) /\ LoopInv /\ GateHeld /\ RunInv
FlowInv   == StructInv /\ ReadyInv /\ WiresSettled
-----------------------------------------------------------------------------
(* The flow, and the order of its nodes.                                    *)

LEMMA MainIsScope == Main \in Scopes /\ Main = 0 /\ Scopes \subseteq Nat
  BY FlowAssumption DEF Main, Scopes

LEMMA FlowFacts ==
  ASSUME flow \in Flows
  PROVE  /\ flow.order \in Seq(Nodes)
         /\ InFlow \subseteq Nodes /\ NoNode \notin Nodes
         /\ Body \subseteq InFlow /\ flow.loop \notin Body /\ flow.collect \notin Body
         /\ flow.items \in Scopes /\ flow.items \in Nat /\ flow.width \in Nat \ {0}
         /\ flow.loop = NoNode => Body = {} /\ LoopOwned = {}
         /\ flow.loop # NoNode => /\ flow.loop \in InFlow /\ flow.loop \in Nodes
                                  /\ flow.loop \notin LoopOwned /\ flow.loop # flow.collect
                                  /\ flow.loop \notin flow.gates
         /\ \A e \in flow.edges : e.src \in InFlow
<1>1. flow.order \in Seq(Nodes)
  BY FlowAssumption
<1>2. InFlow \subseteq Nodes
  BY <1>1 DEF InFlow, Range1
<1>3. flow.items \in 0 .. MaxItems /\ flow.width \in Nat \ {0} /\ NoNode \notin Nodes /\ MaxItems \in Nat
  BY FlowAssumption
<1>4. Body \subseteq InFlow \ {flow.loop, flow.collect}
  BY FlowAssumption DEF Body, InFlow
<1>5. flow.loop = NoNode => Body = {}
  BY FlowAssumption DEF Body
<1>6. flow.loop \in InFlow \union {NoNode}
  BY FlowAssumption DEF InFlow
<1>7. flow.loop \notin {flow.collect} \union flow.gates \/ flow.loop = NoNode
  BY FlowAssumption
<1>8. \A e \in flow.edges : e.src \in InFlow
  <2>1. \A e \in flow.edges : {e.src, e.dst} \subseteq InFlow
    BY FlowAssumption DEF InFlow
  <2> QED
    BY <2>1
<1> QED
  BY <1>1, <1>2, <1>3, <1>4, <1>5, <1>6, <1>7, <1>8 DEF LoopOwned, Scopes

LEMMA ScheduledAreNodes ==
  ASSUME flow \in Flows, NEW s
  PROVE  /\ Scheduled(s) \subseteq RegionOf(s) /\ RegionOf(s) \subseteq Nodes
         /\ flow.loop \notin Scheduled(s) \/ s = Main
         /\ Scheduled(Main) \intersect LoopOwned = {}
         /\ flow.loop # NoNode => flow.loop \in Scheduled(Main)
  BY FlowFacts DEF Scheduled, RegionOf, LoopOwned

LEMMA PlaceIsNat ==
  ASSUME flow \in Flows, NEW n \in InFlow
  PROVE  Place(n) \in Nat
<1>1. \E i \in DOMAIN flow.order : flow.order[i] = n
  BY DEF InFlow, Range1
<1>2. DOMAIN flow.order \subseteq Nat
  BY FlowFacts
<1> QED
  BY <1>1, <1>2 DEF Place

\* The first node of a list is in it, and none of the list comes before it.
LEMMA FirstIn ==
  ASSUME flow \in Flows, NEW S, S \subseteq InFlow, S # {}
  PROVE  First(S) \in S /\ \A m \in S : Place(First(S)) <= Place(m)
<1> DEFINE P == {Place(n) : n \in S}
<1>1. P \subseteq Nat /\ P # {}
  BY PlaceIsNat
<1>2. PICK x \in P : \A y \in P : <<y, x>> \notin OpToRel(<, Nat)
  BY <1>1, NatLessThanWellFounded, WFMin, Zenon
<1>3. \A y \in P : ~(y < x)
  BY <1>1, <1>2, Zenon DEF OpToRel
<1>4. \A y \in P : x <= y
  BY <1>1, <1>3
<1>5. PICK n \in S : x = Place(n)
  OBVIOUS
<1>6. \A m \in S : Place(n) <= Place(m)
  BY <1>4, <1>5
<1> QED
  BY <1>6 DEF First

LEMMA FirstIsUpto ==
  ASSUME flow \in Flows, NEW S, S \subseteq InFlow, NEW n \in S
  PROVE  n \in Upto(S, n)
  BY PlaceIsNat DEF Upto

LEMMA RunReadsDecided ==
  ASSUME NEW s, NEW n, Verdict(s, n) = "run"
  PROVE  ReadsDecided(s, n)
  BY DEF Verdict, ReadsDecided, QuotesUnsettled, Awaits
-----------------------------------------------------------------------------
(* A step of one region.                                                    *)

\* What the scheduler of scope s may do: the other scopes are left alone, a node that was
\* pending is started, everything it reads decided, or skipped.
RegionMoves(s) ==
    /\ region' \in [Scopes -> RegionPc]
    /\ {pending', todo', ready', batch'} \subseteq [Scopes -> SUBSET Nodes]
    /\ node' \in [Scopes -> [Nodes -> Phase]]
    /\ \A t \in Scopes \ {s} :
         /\ region'[t] = region[t] /\ pending'[t] = pending[t] /\ todo'[t] = todo[t]
         /\ ready'[t] = ready[t] /\ batch'[t] = batch[t] /\ node'[t] = node[t]
    /\ \A n \in Nodes :
         \/ node'[s][n] = node[s][n]
         \/ /\ node[s][n] = "pending" /\ n \in Scheduled(s)
            /\ node'[s][n] = "skipped" \/ (node'[s][n] = "starting" /\ ReadsDecided(s, n))
    /\ \A n \in ready'[s] : ReadsDecided(s, n)
    /\ region'[s] \in Begun \union {"failed"}

\* A region whose scheduler is at its list: the rest is pending, all else decided, and what
\* was found ready is off the list and still counted as pending.
Passing(s, list, rest, found) ==
    /\ rest \subseteq Scheduled(s) /\ list \subseteq rest /\ found \subseteq rest \ list
    /\ \A n \in rest : node[s][n] = "pending"
    /\ \A n \in Scheduled(s) : n \in rest \/ node[s][n] \in Decided
    /\ \A n \in found : ReadsDecided(s, n)
    /\ ready[s] = found /\ batch[s] \subseteq Scheduled(s) /\ Outside(s)

LEMMA LaunchStep ==
  ASSUME TypeOK, NEW s \in Scopes, NEW list, NEW rest,
         list \subseteq Scheduled(s), rest \subseteq Scheduled(s), list \intersect rest = {},
         \A n \in list \union rest : node[s][n] = "pending",
         \A n \in Scheduled(s) : n \in list \union rest \/ node[s][n] \in Decided,
         \A n \in list : ReadsDecided(s, n),
         Outside(s), Launch(s, list, rest), flow' = flow
  PROVE  RegionMoves(s) /\ RegionInv(s)'
<1> DEFINE b == Slice(list, BranchConcurrency)
<1>1. b \subseteq list
  BY DEF Slice
<1>2. Scheduled(s) \subseteq Nodes /\ Scheduled(s)' = Scheduled(s) /\ LoopOwned' = LoopOwned
  BY ScheduledAreNodes DEF TypeOK, Scheduled, LoopOwned, Body, InFlow
<1>3. /\ batch' = [batch EXCEPT ![s] = b] /\ ready' = [ready EXCEPT ![s] = list \ b]
      /\ node' = [node EXCEPT ![s] = [n \in Nodes |-> IF n \in b THEN "starting" ELSE node[s][n]]]
      /\ pending' = [pending EXCEPT ![s] = rest] /\ region' = [region EXCEPT ![s] = "batch"]
      /\ todo' = [todo EXCEPT ![s] = {}]
  BY DEF Launch
<1> HIDE DEF b
<1>4. /\ region' \in [Scopes -> RegionPc] /\ {pending', todo', ready', batch'} \subseteq [Scopes -> SUBSET Nodes]
      /\ region'[s] = "batch" /\ pending'[s] = rest /\ todo'[s] = {} /\ ready'[s] = list \ b /\ batch'[s] = b
  BY <1>1, <1>2, <1>3 DEF TypeOK, RegionPc
<1>5. /\ node' \in [Scopes -> [Nodes -> Phase]]
      /\ \A n \in Nodes : node'[s][n] = IF n \in b THEN "starting" ELSE node[s][n]
  BY <1>3 DEF TypeOK, Phase, Executing
<1>6. \A t \in Scopes \ {s} :
         /\ region'[t] = region[t] /\ pending'[t] = pending[t] /\ todo'[t] = todo[t]
         /\ ready'[t] = ready[t] /\ batch'[t] = batch[t] /\ node'[t] = node[t]
  BY <1>3 DEF TypeOK
<1>7. RegionMoves(s)
  BY <1>1, <1>2, <1>4, <1>5, <1>6 DEF RegionMoves, Begun
<1>8. Waits(s)'
  BY <1>1, <1>2, <1>4, <1>5 DEF Waits
<1>9. Unbegun(s)' /\ Accounted(s)'
  BY <1>1, <1>2, <1>4, <1>5 DEF Unbegun, Accounted
<1>10. Outside(s)'
  BY <1>1, <1>2, <1>5 DEF Outside
<1> QED
  BY <1>7, <1>8, <1>9, <1>10 DEF RegionInv

\* markSkipped() of a pending node; pc is where the scheduler is then.
LEMMA SkipStep ==
  ASSUME TypeOK, NEW s \in Scopes, NEW rest, NEW d \in rest, NEW pc \in {"skipping", "draining"},
         NEW left \in SUBSET rest, NEW found \in SUBSET rest,
         d \notin left, d \notin found, pc = "skipping" => found \intersect left = {},
         pc = "draining" => found = {} /\ left = {},
         rest \subseteq Scheduled(s), \A n \in rest : node[s][n] = "pending",
         \A n \in Scheduled(s) : n \in rest \/ node[s][n] \in Decided,
         \A n \in found : ReadsDecided(s, n),
         Outside(s), Skip(s, d, rest \ {d}), flow' = flow,
         region' = [region EXCEPT ![s] = pc], todo' = [todo EXCEPT ![s] = left],
         ready' = [ready EXCEPT ![s] = found], batch' = batch, batch[s] \subseteq Scheduled(s)
  PROVE  RegionMoves(s) /\ RegionInv(s)'
<1>2. Scheduled(s) \subseteq Nodes /\ Scheduled(s)' = Scheduled(s) /\ LoopOwned' = LoopOwned
  BY ScheduledAreNodes DEF TypeOK, Scheduled, LoopOwned, Body, InFlow
<1>3. /\ node' = [node EXCEPT ![s][d] = "skipped"] /\ pending' = [pending EXCEPT ![s] = rest \ {d}]
  BY DEF Skip
<1>4. /\ region' \in [Scopes -> RegionPc] /\ {pending', todo', ready', batch'} \subseteq [Scopes -> SUBSET Nodes]
      /\ region'[s] = pc /\ pending'[s] = rest \ {d} /\ todo'[s] = left /\ ready'[s] = found /\ batch'[s] = batch[s]
  BY <1>2, <1>3 DEF TypeOK, RegionPc
<1>5. /\ node' \in [Scopes -> [Nodes -> Phase]]
      /\ \A n \in Nodes : node'[s][n] = IF n = d THEN "skipped" ELSE node[s][n]
  BY <1>2, <1>3 DEF TypeOK, Phase
<1>6. \A t \in Scopes \ {s} :
         /\ region'[t] = region[t] /\ pending'[t] = pending[t] /\ todo'[t] = todo[t]
         /\ ready'[t] = ready[t] /\ batch'[t] = batch[t] /\ node'[t] = node[t]
  BY <1>3 DEF TypeOK
<1>7. RegionMoves(s)
  BY <1>2, <1>4, <1>5, <1>6 DEF RegionMoves, Begun
<1>8. Waits(s)'
  BY <1>2, <1>4, <1>5 DEF Waits
<1>9. Unbegun(s)' /\ Accounted(s)'
  BY <1>2, <1>4, <1>5 DEF Unbegun, Accounted, Decided
<1>10. Outside(s)'
  BY <1>2, <1>5 DEF Outside
<1> QED
  BY <1>7, <1>8, <1>9, <1>10 DEF RegionInv

\* Only the region's own place changes: it fails, or has nothing left.
LEMMA HaltStep ==
  ASSUME TypeOK, NEW s \in Scopes, NEW pc \in {"done", "failed"}, NEW rest,
         rest \subseteq Scheduled(s), \A n \in rest : node[s][n] = "pending",
         pc = "done" => rest = {} /\ (\A n \in Scheduled(s) : node[s][n] \in Decided),
         \A n \in ready[s] : node[s][n] = "pending" /\ ReadsDecided(s, n),
         ready[s] \subseteq Scheduled(s), batch[s] \subseteq Scheduled(s), Outside(s),
         region' = [region EXCEPT ![s] = pc], pending' = [pending EXCEPT ![s] = rest],
         todo' \in [Scopes -> SUBSET Nodes], \A t \in Scopes \ {s} : todo'[t] = todo[t],
         todo'[s] \subseteq rest,
         UNCHANGED <<flow, ready, batch, node>>
  PROVE  RegionMoves(s) /\ RegionInv(s)'
<1>1. Scheduled(s) \subseteq Nodes /\ Scheduled(s)' = Scheduled(s) /\ LoopOwned' = LoopOwned
  BY ScheduledAreNodes DEF TypeOK, Scheduled, LoopOwned, Body, InFlow
<1>2. /\ region' \in [Scopes -> RegionPc] /\ {pending', todo', ready', batch'} \subseteq [Scopes -> SUBSET Nodes]
      /\ region'[s] = pc /\ pending'[s] = rest /\ ready'[s] = ready[s] /\ batch'[s] = batch[s]
  <2>1. ready' = ready /\ batch' = batch
    OBVIOUS
  <2>2. region' \in [Scopes -> RegionPc] /\ region'[s] = pc
    BY DEF TypeOK, RegionPc
  <2>3. pending' \in [Scopes -> SUBSET Nodes] /\ pending'[s] = rest
    BY <1>1 DEF TypeOK
  <2> QED
    BY <2>1, <2>2, <2>3 DEF TypeOK
<1>3. \A t \in Scopes \ {s} :
         /\ region'[t] = region[t] /\ pending'[t] = pending[t] /\ todo'[t] = todo[t]
         /\ ready'[t] = ready[t] /\ batch'[t] = batch[t] /\ node'[t] = node[t]
  BY DEF TypeOK
<1>4. RegionMoves(s)
  BY <1>2, <1>3 DEF RegionMoves, Begun, TypeOK
<1>5. Waits(s)' /\ Unbegun(s)' /\ Accounted(s)'
  BY <1>1, <1>2 DEF Waits, Unbegun, Accounted, Begun
<1>6. Outside(s)'
  BY <1>1 DEF Outside
<1> QED
  BY <1>4, <1>5, <1>6 DEF RegionInv

LEMMA PassStep ==
  ASSUME TypeOK, NEW s \in Scopes, NEW list, NEW rest, NEW found,
         Passing(s, list, rest, found), Pass(s, list, rest, found), flow' = flow
  PROVE  RegionMoves(s) /\ RegionInv(s)'
<1> DEFINE dead  == {n \in list : Verdict(s, n) = "skip"}
           d     == First(dead)
           seen  == IF dead = {} THEN list ELSE Upto(list, d)
           runs  == {n \in seen : Verdict(s, n) = "run"}
           found1 == found \union runs
<1>1. /\ rest \subseteq Scheduled(s) /\ list \subseteq rest /\ found \subseteq rest \ list
      /\ \A n \in rest : node[s][n] = "pending"
      /\ \A n \in Scheduled(s) : n \in rest \/ node[s][n] \in Decided
      /\ \A n \in found : ReadsDecided(s, n)
      /\ ready[s] = found /\ batch[s] \subseteq Scheduled(s) /\ Outside(s)
  BY DEF Passing
<1>2. Scheduled(s) \subseteq InFlow /\ flow \in Flows
  BY FlowFacts DEF TypeOK, Scheduled
<1>3. seen \subseteq list
  BY DEF Upto
<1>4. runs \subseteq seen /\ \A n \in runs : ReadsDecided(s, n)
  BY RunReadsDecided
<1>5. dead # {} => d \in dead /\ d \in list /\ d \in seen /\ d \notin runs
  <2> SUFFICES ASSUME dead # {} PROVE d \in dead /\ d \in list /\ d \in seen /\ d \notin runs
    OBVIOUS
  <2>1. dead \subseteq list /\ list \subseteq InFlow
    BY <1>1, <1>2
  <2>2. d \in dead
    BY <1>2, <2>1, FirstIn
  <2>3. d \in Upto(list, d)
    BY <1>2, <2>1, <2>2, FirstIsUpto
  <2>4. Verdict(s, d) = "skip"
    BY <2>2
  <2> QED
    BY <2>1, <2>2, <2>3, <2>4
<1>6. found1 \subseteq rest /\ \A n \in found1 : ReadsDecided(s, n)
  BY <1>1, <1>3, <1>4
<1>7. \/ /\ dead # {}
         /\ Skip(s, d, rest \ {d}) /\ todo' = [todo EXCEPT ![s] = list \ seen]
         /\ ready' = [ready EXCEPT ![s] = found1] /\ GoTo(s, "skipping") /\ batch' = batch
      \/ Launch(s, found1, rest \ found1)
      \/ /\ found1 = {} /\ rest = {}
         /\ GoTo(s, "done") /\ pending' = [pending EXCEPT ![s] = rest]
         /\ todo' = [todo EXCEPT ![s] = {}] /\ UNCHANGED <<ready, batch, node>>
      \/ /\ found1 = {} /\ rest # {}
         /\ Skip(s, First(rest), rest \ {First(rest)}) /\ GoTo(s, "draining")
         /\ todo' = [todo EXCEPT ![s] = {}] /\ UNCHANGED <<ready, batch>>
  BY DEF Pass
<1> HIDE DEF dead, d, seen, runs
<1>8. CASE /\ dead # {}
           /\ Skip(s, d, rest \ {d}) /\ todo' = [todo EXCEPT ![s] = list \ seen]
           /\ ready' = [ready EXCEPT ![s] = found1] /\ GoTo(s, "skipping") /\ batch' = batch
  <2>1. /\ d \in rest /\ list \ seen \in SUBSET rest /\ found1 \in SUBSET rest
        /\ d \notin list \ seen /\ d \notin found1 /\ found1 \intersect (list \ seen) = {}
    BY <1>1, <1>3, <1>4, <1>5, <1>6, <1>8
  <2>2. region' = [region EXCEPT ![s] = "skipping"]
    BY <1>8 DEF GoTo
  <2> HIDE DEF found1
  <2> QED
    BY <1>1, <1>6, <1>8, <2>1, <2>2, SkipStep
<1>9. CASE Launch(s, found1, rest \ found1)
  BY <1>1, <1>6, <1>9, LaunchStep
<1>10. CASE /\ found1 = {} /\ rest = {}
            /\ GoTo(s, "done") /\ pending' = [pending EXCEPT ![s] = rest]
            /\ todo' = [todo EXCEPT ![s] = {}] /\ UNCHANGED <<ready, batch, node>>
  <2>1. todo' \in [Scopes -> SUBSET Nodes] /\ todo'[s] = {} /\ \A t \in Scopes \ {s} : todo'[t] = todo[t]
    BY <1>10 DEF TypeOK
  <2>2. region' = [region EXCEPT ![s] = "done"]
    BY <1>10 DEF GoTo
  <2>3. ready[s] = {}
    BY <1>1, <1>10
  <2> QED
    BY <1>1, <1>10, <2>1, <2>2, <2>3, HaltStep
<1>11. CASE /\ found1 = {} /\ rest # {}
            /\ Skip(s, First(rest), rest \ {First(rest)}) /\ GoTo(s, "draining")
            /\ todo' = [todo EXCEPT ![s] = {}] /\ UNCHANGED <<ready, batch>>
  <2>1. First(rest) \in rest
    BY <1>1, <1>2, <1>11, FirstIn
  <2>2. region' = [region EXCEPT ![s] = "draining"]
    BY <1>11 DEF GoTo
  <2>3. ready' = [ready EXCEPT ![s] = {}]
    BY <1>1, <1>11 DEF TypeOK
  <2>4. {} \in SUBSET rest /\ First(rest) \notin {} /\ \A n \in {} : ReadsDecided(s, n)
    OBVIOUS
  <2>5. batch' = batch
    BY <1>11
  <2> QED
    BY <1>1, <1>11, <2>1, <2>2, <2>3, <2>4, <2>5, SkipStep
<1> QED
  BY <1>7, <1>8, <1>9, <1>10, <1>11

LEMMA LoopHeadStep ==
  ASSUME TypeOK, NEW s \in Scopes, NEW rest, Passing(s, rest, rest, {}), todo[s] \subseteq rest,
         LoopHead(s, rest), flow' = flow
  PROVE  RegionMoves(s) /\ RegionInv(s)'
<1>1. CASE Pass(s, rest, rest, {})
  BY <1>1, PassStep
<1>2. ASSUME NEW pc \in {"done", "failed"}, pc = "done" => rest = {},
             GoTo(s, pc), pending' = [pending EXCEPT ![s] = rest], UNCHANGED <<todo, ready, batch, node>>
      PROVE  RegionMoves(s) /\ RegionInv(s)'
  <2>1. /\ rest \subseteq Scheduled(s) /\ \A n \in rest : node[s][n] = "pending"
        /\ \A n \in Scheduled(s) : n \in rest \/ node[s][n] \in Decided
        /\ ready[s] = {} /\ batch[s] \subseteq Scheduled(s) /\ Outside(s)
    BY DEF Passing
  <2>2. region' = [region EXCEPT ![s] = pc]
    BY <1>2 DEF GoTo
  <2>3. todo' \in [Scopes -> SUBSET Nodes] /\ todo'[s] \subseteq rest /\ \A t \in Scopes \ {s} : todo'[t] = todo[t]
    BY <1>2 DEF TypeOK
  <2>4. UNCHANGED <<ready, batch, node>>
    BY <1>2
  <2> QED
    BY <1>2, <2>1, <2>2, <2>3, <2>4, HaltStep
<1> QED
  BY <1>1, <1>2 DEF LoopHead

\* The same, with the pending nodes as they are.
LEMMA StopsHere ==
  ASSUME TypeOK, NEW s \in Scopes, RegionInv(s), ReadyInv, NEW pc \in {"done", "failed"},
         pc = "done" => pending[s] = {} /\ (\A n \in Scheduled(s) : node[s][n] \in Decided),
         GoTo(s, pc), UNCHANGED <<flow, pending, todo, ready, batch, node>>
  PROVE  RegionMoves(s) /\ RegionInv(s)'
<1>1. /\ pending[s] \subseteq Scheduled(s) /\ ready[s] \subseteq Scheduled(s) /\ batch[s] \subseteq Scheduled(s)
      /\ todo[s] \subseteq pending[s] /\ \A n \in pending[s] \union ready[s] : node[s][n] = "pending"
  BY DEF RegionInv, Waits
<1>2. \A n \in ready[s] : node[s][n] = "pending" /\ ReadsDecided(s, n)
  BY <1>1 DEF ReadyInv
<1>3. region' = [region EXCEPT ![s] = pc]
  BY DEF GoTo
<1>4. pending' = [pending EXCEPT ![s] = pending[s]] /\ todo' \in [Scopes -> SUBSET Nodes]
  BY DEF TypeOK
<1>5. Outside(s)
  BY DEF RegionInv
<1> QED
  BY <1>1, <1>2, <1>3, <1>4, <1>5, HaltStep

\* Where a region's scheduler stands at the points it resumes from.
LEMMA RegionStands ==
  ASSUME TypeOK, NEW s \in Scopes, RegionInv(s), ReadyInv
  PROVE  /\ region[s] = "skipping" => Passing(s, todo[s], pending[s], ready[s])
         /\ region[s] \in {"off", "adding"} =>
              Passing(s, Scheduled(s), Scheduled(s), {}) /\ todo[s] \subseteq Scheduled(s)
         /\ region[s] = "batch" /\ (\A n \in batch[s] : node[s][n] = "success") /\ ready[s] = {} =>
              Passing(s, pending[s], pending[s], {}) /\ todo[s] \subseteq pending[s]
<1>1. /\ pending[s] \subseteq Scheduled(s) /\ ready[s] \subseteq Scheduled(s) /\ batch[s] \subseteq Scheduled(s)
      /\ todo[s] \subseteq pending[s] /\ \A n \in pending[s] \union ready[s] : node[s][n] = "pending"
      /\ region[s] = "skipping" => ready[s] \subseteq pending[s] \ todo[s]
      /\ Unbegun(s) /\ Accounted(s) /\ Outside(s)
  BY DEF RegionInv, Waits
<1>2. \A n \in ready[s] : ReadsDecided(s, n)
  BY DEF ReadyInv
<1>3. ASSUME region[s] = "skipping" PROVE Passing(s, todo[s], pending[s], ready[s])
  BY <1>1, <1>2, <1>3 DEF Passing, Accounted, Begun
<1>4. ASSUME region[s] \in {"off", "adding"} PROVE Passing(s, Scheduled(s), Scheduled(s), {})
  BY <1>1, <1>4 DEF Passing, Unbegun
<1>5. ASSUME region[s] = "batch", \A n \in batch[s] : node[s][n] = "success", ready[s] = {}
      PROVE  Passing(s, pending[s], pending[s], {})
  BY <1>1, <1>5 DEF Passing, Accounted, Begun, Decided
<1> QED
  BY <1>1, <1>3, <1>4, <1>5

LEMMA RegionStepMoves ==
  ASSUME TypeOK, NEW s \in Scopes, RegionInv(s), ReadyInv, region[Main] # "adding", RegionStep(s)
  PROVE  /\ RegionMoves(s) /\ RegionInv(s)' /\ region[s] \notin {"off", "done", "failed"}
         /\ UNCHANGED <<flow, run, doc, aborted, out, loopVars, gate>> /\ refused' \in 0 .. MaxRefused
<1>0. MaxRefused \in Nat /\ flow \in Flows /\ refused \in 0 .. MaxRefused
  BY FlowAssumption DEF TypeOK
<1>1. ASSUME RegionRefused(s), flow' = flow
      PROVE  RegionMoves(s) /\ RegionInv(s)' /\ refused' \in 0 .. MaxRefused
  <2>1. GoTo(s, "failed") /\ UNCHANGED <<pending, todo, ready, batch, node>>
    BY <1>1 DEF RegionRefused
  <2>2. refused' \in 0 .. MaxRefused
    BY <1>0, <1>1 DEF RegionRefused, Refuse
  <2> QED
    BY <1>1, <2>1, <2>2, StopsHere
<1>2. CASE PassBegins(s)
  <2>1. s # Main /\ Scheduled(s) = Body
    BY <1>2 DEF PassBegins, Scheduled
  <2>2. CASE LoopHead(s, Body) /\ Goes
    <3>1. Passing(s, Body, Body, {}) /\ todo[s] \subseteq Body
      BY <1>2, <2>1, RegionStands DEF PassBegins
    <3>2. flow' = flow
      BY <1>2 DEF PassBegins
    <3> QED
      BY <1>0, <1>2, <2>2, <3>1, <3>2, LoopHeadStep DEF PassBegins, Goes
  <2> QED
    BY <1>1, <1>2, <2>2 DEF PassBegins
<1>3. CASE PassGoesOn(s)
  <2>1. Passing(s, todo[s], pending[s], ready[s]) /\ flow' = flow
    BY <1>3, RegionStands DEF PassGoesOn
  <2>2. CASE Goes /\ Pass(s, todo[s], pending[s], ready[s])
    BY <1>0, <1>3, <2>1, <2>2, PassStep DEF PassGoesOn, Goes
  <2> QED
    BY <1>1, <1>3, <2>2 DEF PassGoesOn
<1>4. CASE Drain(s)
  <2>1. flow' = flow /\ region[s] = "draining"
    BY <1>4 DEF Drain
  <2>2. /\ pending[s] \subseteq Scheduled(s) /\ batch[s] \subseteq Scheduled(s) /\ Outside(s)
        /\ todo[s] \subseteq pending[s] /\ \A n \in pending[s] : node[s][n] = "pending"
        /\ ready[s] = {} /\ todo[s] = {}
        /\ \A n \in Scheduled(s) : n \in pending[s] \/ node[s][n] \in Decided
    BY <2>1 DEF RegionInv, Waits, Accounted, Begun
  <2>3. CASE Goes /\ pending[s] = {} /\ GoTo(s, "done") /\ UNCHANGED <<pending, todo, ready, batch, node>>
    BY <1>0, <1>4, <2>1, <2>2, <2>3, StopsHere DEF Drain, Goes
  <2>4. CASE /\ Goes /\ pending[s] # {}
             /\ Skip(s, First(pending[s]), pending[s] \ {First(pending[s])})
             /\ UNCHANGED <<region, todo, ready, batch>>
    <3>1. pending[s] \subseteq InFlow
      BY <1>0, <2>2, ScheduledAreNodes, FlowFacts DEF Scheduled
    <3>2. First(pending[s]) \in pending[s]
      BY <1>0, <2>4, <3>1, FirstIn
    <3>3. /\ region' = [region EXCEPT ![s] = "draining"] /\ todo' = [todo EXCEPT ![s] = {}]
          /\ ready' = [ready EXCEPT ![s] = {}] /\ batch' = batch
      BY <2>1, <2>2, <2>4 DEF TypeOK
    <3>4. RegionMoves(s) /\ RegionInv(s)'
      BY <2>1, <2>2, <2>4, <3>2, <3>3, SkipStep
    <3> QED
      BY <1>0, <1>4, <2>1, <2>4, <3>4 DEF Drain, Goes
  <2> QED
    BY <1>1, <1>4, <2>1, <2>3, <2>4 DEF Drain
<1>5. CASE BatchDone(s)
  <2>1. flow' = flow /\ region[s] = "batch" /\ \A n \in batch[s] : node[s][n] = "success"
    BY <1>5 DEF BatchDone
  <2>2. CASE ready[s] # {} /\ Launch(s, ready[s], pending[s])
    <3>1. /\ pending[s] \union ready[s] \subseteq Scheduled(s) /\ Outside(s)
          /\ \A n \in ready[s] \union pending[s] : node[s][n] = "pending"
          /\ ready[s] \intersect pending[s] = {}
      BY <2>1 DEF RegionInv, Waits
    <3>2. \A n \in Scheduled(s) : n \in ready[s] \union pending[s] \/ node[s][n] \in Decided
      BY <2>1 DEF RegionInv, Accounted, Begun, Decided
    <3>3. \A n \in ready[s] : ReadsDecided(s, n)
      BY DEF ReadyInv
    <3>4. RegionMoves(s) /\ RegionInv(s)'
      BY <2>1, <2>2, <3>1, <3>2, <3>3, LaunchStep
    <3> QED
      BY <1>0, <1>5, <2>1, <3>4 DEF BatchDone
  <2>3. CASE ready[s] = {} /\ LoopHead(s, pending[s])
    <3>1. Passing(s, pending[s], pending[s], {}) /\ todo[s] \subseteq pending[s]
      BY <2>1, <2>3, RegionStands
    <3>2. RegionMoves(s) /\ RegionInv(s)'
      BY <2>1, <2>3, <3>1, LoopHeadStep
    <3> QED
      BY <1>0, <1>5, <2>1, <3>2 DEF BatchDone
  <2> QED
    BY <1>5, <2>2, <2>3 DEF BatchDone
<1>6. CASE BatchFails(s)
  <2>1. GoTo(s, "failed") /\ UNCHANGED <<flow, pending, todo, ready, batch, node>>
    BY <1>6 DEF BatchFails, nodeVars
  <2>2. RegionMoves(s) /\ RegionInv(s)'
    BY <2>1, StopsHere
  <2> QED
    BY <1>0, <1>6, <2>2 DEF BatchFails, nodeVars, loopVars
<1> QED
  BY <1>2, <1>3, <1>4, <1>5, <1>6 DEF RegionStep
-----------------------------------------------------------------------------
(* A step of one node.                                                      *)

Busy == Executing \union {"storing", "failing"}

\* A node under way goes on to q; the for_each keeps to its own phases, what is settled
\* stays settled, and only an executing node goes on executing.
NodeMoves(s, n, q) ==
    /\ node[s][n] \in Busy /\ q \in Phase \ {"pending", "skipped", "starting"} /\ To(s, n, q)
    /\ s = Main /\ n = flow.loop =>
         /\ q \in {"looping", "storing", "success", "failing", "error", "stuck"}
         /\ q \in {"storing", "success"} => node[s][n] \in {"closing", "storing"}
    /\ node[s][n] \in {"storing", "failing"} => q \in {"success", "failing", "error"}
    /\ UNCHANGED <<flow, regionVars, loopVars>>

LEMMA NodeMovesKeep ==
  ASSUME TypeOK, \A t \in Scopes : RegionInv(t), LoopInv,
         NEW s \in Scopes, NEW n \in Nodes, NEW q, NodeMoves(s, n, q)
  PROVE  /\ node' \in [Scopes -> [Nodes -> Phase]]
         /\ \A t \in Scopes : RegionInv(t)'
         /\ LoopInv'
<1>1. /\ node[s][n] \in Busy /\ q \in Phase /\ q # "pending" /\ q # "skipped" /\ q # "starting"
      /\ node' = [node EXCEPT ![s][n] = q]
      /\ UNCHANGED <<flow, region, pending, todo, ready, batch, iters, next>>
  BY DEF NodeMoves, To, regionVars, loopVars
<1>2. /\ node' \in [Scopes -> [Nodes -> Phase]]
      /\ \A t \in Scopes, m \in Nodes : node'[t][m] = IF t = s /\ m = n THEN q ELSE node[t][m]
  BY <1>1 DEF TypeOK
<1>3. node[s][n] \notin {"pending", "success", "skipped"}
  BY <1>1 DEF Busy, Executing
<1>4. /\ LoopOwned' = LoopOwned /\ flow \in Flows
      /\ \A t : Scheduled(t)' = Scheduled(t) /\ Scheduled(t) \subseteq Nodes
  BY <1>1, ScheduledAreNodes DEF TypeOK, Scheduled, LoopOwned, Body, InFlow
<1>5. ASSUME NEW t \in Scopes PROVE RegionInv(t)'
  <2>1. Waits(t) /\ Unbegun(t) /\ Accounted(t) /\ Outside(t)
    BY DEF RegionInv
  <2>2. Waits(t)'
    BY <1>1, <1>2, <1>3, <1>4, <2>1 DEF Waits
  <2>3. Unbegun(t)'
    BY <1>1, <1>2, <1>3, <1>4, <2>1 DEF Unbegun
  <2>4. Accounted(t)'
    BY <1>1, <1>2, <1>3, <1>4, <2>1 DEF Accounted, Decided
  <2>5. Outside(t)'
    BY <1>1, <1>2, <1>3, <1>4, <2>1 DEF Outside, Decided
  <2> QED
    BY <2>2, <2>3, <2>4, <2>5 DEF RegionInv
<1>6. LoopInv'
  <2>1. CASE s = Main /\ n = flow.loop
    <3>1. LoopPhase = node[s][n] /\ LoopPhase' = q
      BY <1>1, <1>2, <1>4, <2>1, FlowFacts, MainIsScope DEF LoopPhase
    <3>2. /\ q \in {"looping", "storing", "success", "failing", "error", "stuck"}
          /\ q \in {"storing", "success"} => LoopPhase \in {"closing", "storing"}
      BY <2>1, <3>1 DEF NodeMoves
    <3> QED
      BY <1>1, <3>1, <3>2 DEF LoopInv
  <2>2. CASE ~(s = Main /\ n = flow.loop)
    <3>1. LoopPhase' = LoopPhase
      BY <1>1, <1>2, <1>4, <2>2, FlowFacts, MainIsScope DEF LoopPhase
    <3> QED
      BY <1>1, <3>1 DEF LoopInv
  <2> QED
    BY <2>1, <2>2
<1> QED
  BY <1>2, <1>5, <1>6

LEMMA WorkPhase ==
  ASSUME flow \in Flows, NEW n
  PROVE  /\ Work(n) \in {"running", "asking", "looping"}
         /\ n = flow.loop /\ n # NoNode => Work(n) = "looping"
  BY FlowFacts DEF Work

\* The step of a node, as the region, the loop and the broker see it.
LEMMA NodeStepMoves ==
  ASSUME TypeOK, LoopInv, GateHeld, NEW s \in Scopes, NEW n \in Nodes, NodeStep(s, n) \/ Answer(s, n)
  PROVE  /\ \E q : NodeMoves(s, n, q)
         /\ UNCHANGED <<run, aborted>> /\ (doc' = doc \/ doc' \in Live)
         /\ refused' \in 0 .. MaxRefused /\ GateHeld'
<1> DEFINE Goal == /\ \E q : NodeMoves(s, n, q)
                   /\ UNCHANGED <<run, aborted>> /\ (doc' = doc \/ doc' \in Live)
                   /\ refused' \in 0 .. MaxRefused /\ GateHeld'
<1>0. /\ flow \in Flows /\ refused \in 0 .. MaxRefused /\ MaxRefused \in Nat
      /\ node \in [Scopes -> [Nodes -> Phase]] /\ n # NoNode
  BY FlowAssumption, FlowFacts DEF TypeOK
<1>1. /\ Goes => refused' \in 0 .. MaxRefused
      /\ Refuse => refused' \in 0 .. MaxRefused
      /\ refused' = refused => refused' \in 0 .. MaxRefused
  BY <1>0 DEF Goes, Refuse
\* The for_each of the outer scope never runs, asks or waits at a gate.
<1>2. s = Main /\ n = flow.loop => node[s][n] \notin {"running", "asking", "gated", "answered", "unanswerable"}
  BY <1>0 DEF LoopInv, LoopPhase
\* The broker keeps its entry unless that is the node that moves.
<1>3. ASSUME NEW q, To(s, n, q), gate' = gate, node[s][n] # "gated" PROVE GateHeld'
  <2>1. \A t \in Scopes, m \in Nodes : node'[t][m] = node[t][m] \/ (t = s /\ m = n)
    BY <1>0, <1>3 DEF To
  <2> QED
    BY <1>3, <2>1 DEF GateHeld
<1>4. gate' = NoNode => GateHeld'
  BY DEF GateHeld
<1>5. ASSUME Starts(s, n) PROVE Goal
  <2>1. PICK q \in {"running", "asking", "looping", "failing", "stuck"} :
          /\ To(s, n, q) /\ (n = flow.loop => q \in {"looping", "failing", "stuck"})
    BY <1>0, <1>5, WorkPhase DEF Starts
  <2>2. NodeMoves(s, n, q)
    BY <1>5, <2>1 DEF NodeMoves, Starts, At, Busy, Executing, Phase, elsewhere
  <2> QED
    BY <1>1, <1>3, <1>5, <2>1, <2>2 DEF Starts, At, elsewhere
<1>6. ASSUME HandlerEnds(s, n) PROVE Goal
  <2>1. node[s][n] = "running" /\ UNCHANGED <<elsewhere, doc, gate, refused>>
    BY <1>6 DEF HandlerEnds, HandlerReturns, HandlerThrows, At
  <2>2. PICK q \in {"storing", "failing"} : To(s, n, q)
    BY <1>6 DEF HandlerEnds, HandlerReturns, HandlerThrows
  <2>3. NodeMoves(s, n, q)
    BY <1>2, <2>1, <2>2 DEF NodeMoves, Busy, Executing, Phase, elsewhere
  <2> QED
    BY <1>1, <1>3, <2>1, <2>2, <2>3 DEF elsewhere
<1>7. ASSUME Stored(s, n) PROVE Goal
  <2>1. node[s][n] = "storing" /\ UNCHANGED <<elsewhere, doc, gate>>
    BY <1>7 DEF Stored, At
  <2>2. PICK q \in {"success", "failing"} : To(s, n, q)
    BY <1>7 DEF Stored
  <2>3. NodeMoves(s, n, q)
    BY <2>1, <2>2 DEF NodeMoves, Busy, Executing, Phase, elsewhere
  <2> QED
    BY <1>1, <1>3, <1>7, <2>1, <2>2, <2>3 DEF Stored, elsewhere
<1>8. ASSUME FailureStored(s, n) PROVE Goal
  <2>1. node[s][n] = "failing" /\ UNCHANGED <<elsewhere, doc, gate, refused>> /\ To(s, n, "error")
    BY <1>8 DEF FailureStored, At
  <2>2. NodeMoves(s, n, "error")
    BY <2>1 DEF NodeMoves, Busy, Executing, Phase, elsewhere
  <2> QED
    BY <1>1, <1>3, <2>1, <2>2 DEF elsewhere
<1>9. ASSUME Asks(s, n) PROVE Goal
  <2>1. node[s][n] = "asking" /\ UNCHANGED elsewhere
    BY <1>9 DEF Asks, At
  <2>2. CASE Goes /\ To(s, n, "gated") /\ gate' = <<s, n>> /\ doc' = "awaiting_input"
    <3>1. NodeMoves(s, n, "gated")
      BY <1>2, <2>1, <2>2 DEF NodeMoves, Busy, Executing, Phase, elsewhere
    <3>2. GateHeld'
      BY <1>0, <2>2 DEF GateHeld, To
    <3> QED
      BY <1>1, <2>1, <2>2, <3>1, <3>2 DEF elsewhere, Live
  <2>3. CASE Refuse /\ To(s, n, "failing") /\ UNCHANGED <<gate, doc>>
    <3>1. NodeMoves(s, n, "failing")
      BY <2>1, <2>3 DEF NodeMoves, Busy, Executing, Phase, elsewhere
    <3> QED
      BY <1>1, <1>3, <2>1, <2>3, <3>1 DEF elsewhere
  <2> QED
    BY <1>9, <2>2, <2>3 DEF Asks
<1>10. ASSUME AnswerLands(s, n) PROVE Goal
  <2>1. node[s][n] = "answered" /\ UNCHANGED elsewhere /\ gate' = gate
    BY <1>10 DEF AnswerLands, At
  <2>2. PICK q \in {"storing", "unanswerable"} : To(s, n, q)
    BY <1>10 DEF AnswerLands
  <2>3. NodeMoves(s, n, q)
    BY <1>2, <2>1, <2>2 DEF NodeMoves, Busy, Executing, Phase, elsewhere
  <2>4. (doc' = doc \/ doc' \in Live) /\ refused' \in 0 .. MaxRefused
    BY <1>1, <1>10 DEF AnswerLands, Live
  <2> QED
    BY <1>3, <2>1, <2>2, <2>3, <2>4 DEF elsewhere
<1>11. ASSUME GateTimesOut(s, n) PROVE Goal
  <2>1. node[s][n] = "gated" /\ UNCHANGED <<elsewhere, doc, refused>> /\ To(s, n, "failing") /\ gate' = NoNode
    BY <1>11 DEF GateTimesOut, At
  <2>2. NodeMoves(s, n, "failing")
    BY <2>1 DEF NodeMoves, Busy, Executing, Phase, elsewhere
  <2> QED
    BY <1>1, <1>4, <2>1, <2>2 DEF elsewhere
<1>12. ASSUME Answer(s, n) PROVE Goal
  <2>1. node[s][n] = "gated" /\ UNCHANGED <<elsewhere, doc, refused>> /\ To(s, n, "answered") /\ gate' = NoNode
    BY <1>12 DEF Answer, At
  <2>2. NodeMoves(s, n, "answered")
    BY <1>2, <2>1 DEF NodeMoves, Busy, Executing, Phase, elsewhere
  <2> QED
    BY <1>1, <1>4, <2>1, <2>2 DEF elsewhere
<1> QED
  BY <1>5, <1>6, <1>7, <1>8, <1>9, <1>10, <1>11, <1>12 DEF NodeStep
-----------------------------------------------------------------------------
(* What no step but a restart undoes.                                       *)

\* What is settled stays settled, and a node that begins, or is found ready, reads only
\* what is decided.
Settles ==
    /\ flow' = flow
    /\ \A s \in Scopes, n \in Nodes :
         /\ Status(node[s][n]) \notin Unsettled => Status(node'[s][n]) \notin Unsettled
         /\ node'[s][n] \in Executing => node[s][n] \in Executing \/ ReadsDecided(s, n)
    /\ \A s \in Scopes : \A n \in ready'[s] : n \in ready[s] \/ ReadsDecided(s, n)

LEMMA StatusOf ==
  ASSUME NEW p \in Phase
  PROVE  /\ Status(p) \notin Unsettled <=> p \in {"storing", "success", "failing", "error", "skipped"}
  BY DEF Status, Unsettled, Phase, Executing

LEMMA RegionMovesSettle ==
  ASSUME TypeOK, NEW s \in Scopes, RegionMoves(s), flow' = flow
  PROVE  Settles
<1>1. ASSUME NEW t \in Scopes, NEW n \in Nodes
      PROVE  /\ Status(node[t][n]) \notin Unsettled => Status(node'[t][n]) \notin Unsettled
             /\ node'[t][n] \in Executing => node[t][n] \in Executing \/ ReadsDecided(t, n)
  <2>1. CASE node'[t][n] = node[t][n]
    BY <2>1
  <2>2. CASE t = s /\ node[s][n] = "pending" /\ (node'[s][n] = "skipped" \/ (node'[s][n] = "starting" /\ ReadsDecided(s, n)))
    <3>1. node[t][n] \in Phase /\ node'[t][n] \in Phase /\ node[t][n] = "pending"
      BY <2>2 DEF Phase, Executing
    <3>2. Status(node[t][n]) \in Unsettled
      BY <3>1, StatusOf
    <3> QED
      BY <2>2, <3>2 DEF Executing
  <2> QED
    BY <2>1, <2>2 DEF RegionMoves
<1>2. \A t \in Scopes : \A n \in ready'[t] : n \in ready[t] \/ ReadsDecided(t, n)
  BY DEF RegionMoves
<1> QED
  BY <1>1, <1>2 DEF Settles

LEMMA NodeMovesSettle ==
  ASSUME TypeOK, NEW s \in Scopes, NEW n \in Nodes, NEW q, NodeMoves(s, n, q)
  PROVE  Settles
<1>1. /\ node[s][n] \in Busy /\ q \in Phase /\ flow' = flow /\ ready' = ready
      /\ node[s][n] \in {"storing", "failing"} => q \in {"success", "failing", "error"}
      /\ node' = [node EXCEPT ![s][n] = q]
  BY DEF NodeMoves, To, regionVars
<1>2. \A t \in Scopes, m \in Nodes : node'[t][m] = node[t][m] \/ (t = s /\ m = n /\ node'[t][m] = q)
  BY <1>1 DEF TypeOK
<1>3. Status(node[s][n]) \notin Unsettled => Status(q) \notin Unsettled
  <2>1. node[s][n] \in Phase
    BY DEF TypeOK
  <2>2. Status(node[s][n]) \notin Unsettled => node[s][n] \in {"storing", "failing"}
    BY <1>1, <2>1, StatusOf DEF Busy, Executing
  <2> QED
    BY <1>1, <2>2, StatusOf
<1>4. q \in Executing => node[s][n] \in Executing
  BY <1>1 DEF Busy, Executing
<1> QED
  BY <1>1, <1>2, <1>3, <1>4 DEF Settles

\* A step that touches no node and finds none ready.
LEMMA IdleSettles ==
  ASSUME UNCHANGED <<flow, node, ready>>
  PROVE  Settles
  BY DEF Settles

LEMMA RegionMovesKeep ==
  ASSUME StructInv, NEW s \in Scopes, RegionMoves(s), RegionInv(s)', UNCHANGED <<flow, loopVars, gate>>,
         s = Main \/ region[s] \notin {"off", "done", "failed"}
  PROVE  (\A t \in Scopes : RegionInv(t)') /\ LoopInv' /\ GateHeld'
<1>1. TypeOK /\ LoopInv /\ GateHeld /\ flow \in Flows /\ \A t \in Scopes : RegionInv(t)
  BY DEF StructInv, TypeOK
<1>2. /\ LoopOwned' = LoopOwned /\ iters' = iters /\ next' = next
      /\ \A t : Scheduled(t)' = Scheduled(t)
  BY DEF Scheduled, LoopOwned, Body, InFlow, loopVars
<1>3. /\ \A t \in Scopes \ {s} :
           /\ region'[t] = region[t] /\ pending'[t] = pending[t] /\ todo'[t] = todo[t]
           /\ ready'[t] = ready[t] /\ batch'[t] = batch[t] /\ node'[t] = node[t]
      /\ \A n \in Nodes :
           \/ node'[s][n] = node[s][n]
           \/ node[s][n] = "pending" /\ node'[s][n] \in {"skipped", "starting"}
      /\ region'[s] # "adding"
  BY DEF RegionMoves, Begun
<1>4. ASSUME NEW t \in Scopes PROVE RegionInv(t)'
  <2>1. CASE t = s
    BY <2>1
  <2>2. CASE t # s
    <3>1. Waits(t) /\ Unbegun(t) /\ Accounted(t) /\ Outside(t)
      BY <1>1 DEF RegionInv
    <3>2. Waits(t)' /\ Unbegun(t)' /\ Accounted(t)' /\ Outside(t)'
      BY <1>2, <1>3, <2>2, <3>1 DEF Waits, Unbegun, Accounted, Outside
    <3> QED
      BY <3>2 DEF RegionInv
  <2> QED
    BY <2>1, <2>2
<1>5. LoopPhase' = LoopPhase \/ (LoopPhase = "pending" /\ LoopPhase' \in {"skipped", "starting"})
  <2>1. flow.loop = NoNode \/ flow.loop \in Nodes
    BY <1>1, FlowFacts
  <2> QED
    BY <1>3, <2>1, MainIsScope DEF LoopPhase
<1>6. LoopInv'
  <2>1. region'[Main] # "adding"
    BY <1>1, <1>3, MainIsScope DEF LoopInv
  <2>2. \A t \in Scopes \ {Main} : region'[t] = region[t] \/ region[t] \notin {"off", "done"}
    BY <1>3
  <2>3. flow' = flow
    OBVIOUS
  <2>4. \A i \in iters : i \in Scopes \ {Main}
    BY <1>1 DEF TypeOK
  <2> QED
    BY <1>1, <1>2, <1>5, <2>1, <2>2, <2>3, <2>4 DEF LoopInv
<1>7. GateHeld'
  <2>1. gate' = gate
    OBVIOUS
  <2>2. \A t \in Scopes, n \in Nodes : node[t][n] = "gated" => node'[t][n] = "gated"
    BY <1>3
  <2> QED
    BY <1>1, <2>1, <2>2 DEF GateHeld
<1> QED
  BY <1>4, <1>6, <1>7
-----------------------------------------------------------------------------
(* The loop.                                                                *)

\* The pass that is published has decided every node of the body.
LEMMA LastPassDecided ==
  ASSUME StructInv, next > flow.items, \A i \in iters : region[i] = "done", flow.items # 0
  PROVE  flow.items \in Scopes /\ \A n \in Body : node[flow.items][n] \in Decided
<1> DEFINE last == flow.items
<1>1. TypeOK /\ LoopInv /\ flow \in Flows
  BY DEF StructInv, TypeOK
<1>2. last \in Scopes \ {Main} /\ last \in Nat
  BY <1>1, FlowFacts, MainIsScope
<1>3. region[last] = "done"
  BY <1>1, <1>2 DEF LoopInv, TypeOK
<1>4. RegionInv(last) /\ Scheduled(last) = Body
  BY <1>2 DEF StructInv, Scheduled
<1>5. \A n \in Body : node[last][n] \in Decided
  BY <1>3, <1>4 DEF RegionInv, Waits, Accounted, Begun
<1> QED
  BY <1>2, <1>5

\* What LoopCloses does to the outer scope, node by node.
LEMMA ClosingNodes ==
  ASSUME StructInv, LoopCloses
  PROVE  /\ flow.loop \in Nodes /\ node[Main][flow.loop] = "looping"
         /\ node' \in [Scopes -> [Nodes -> Phase]]
         /\ \A t \in Scopes \ {Main} : node'[t] = node[t]
         /\ node'[Main][flow.loop] = "closing"
         /\ \A n \in Nodes \ {flow.loop} :
              node'[Main][n] = node[Main][n] \/ (n \in LoopOwned /\ node'[Main][n] \in Decided)
<1> DEFINE last == flow.items
           published == IF last = 0 THEN {} ELSE Body
           closed == [n \in Nodes |-> CASE n \in published -> node[last][n]
                                        [] n = flow.loop -> "closing" [] n = flow.collect -> "success"
                                        [] OTHER -> node[Main][n]]
<1>1. TypeOK /\ flow \in Flows /\ next > flow.items /\ \A i \in iters : region[i] = "done"
  BY DEF StructInv, TypeOK, LoopCloses
<1>2. /\ flow.loop # NoNode /\ node[Main][flow.loop] = "looping"
      /\ node' = [node EXCEPT ![Main] = closed]
  BY DEF LoopCloses, Looping
<1>3. /\ flow.loop \in Nodes /\ flow.loop \notin Body /\ flow.loop # flow.collect /\ flow.collect \notin Body
      /\ LoopOwned = Body \union {flow.collect} /\ Body \subseteq Nodes
  BY <1>1, <1>2, FlowFacts DEF LoopOwned
<1>4. \A n \in published : node[last][n] \in Decided
  BY <1>1, LastPassDecided
<1>5. /\ closed[flow.loop] = "closing"
      /\ \A n \in Nodes \ {flow.loop} :
           closed[n] = node[Main][n] \/ (n \in LoopOwned /\ closed[n] \in Decided)
  <2>1. \A n \in Nodes : n \in published => closed[n] = node[last][n]
    BY <1>3
  <2>2. closed[flow.loop] = "closing"
    BY <1>3
  <2>3. \A n \in Nodes : n \notin published /\ n # flow.loop /\ n = flow.collect => closed[n] = "success"
    OBVIOUS
  <2>4. \A n \in Nodes : n \notin published /\ n # flow.loop /\ n # flow.collect => closed[n] = node[Main][n]
    OBVIOUS
  <2>5. published \subseteq LoopOwned
    BY <1>3
  <2> HIDE DEF closed, published
  <2> QED
    BY <1>3, <1>4, <2>1, <2>2, <2>3, <2>4, <2>5 DEF Decided
<1>6. closed \in [Nodes -> Phase]
  <2>1. DOMAIN closed = Nodes /\ closed = [n \in Nodes |-> closed[n]]
    OBVIOUS
  <2> HIDE DEF closed
  <2>2. \A n \in Nodes : closed[n] \in Phase
    BY <1>1, <1>5, MainIsScope DEF TypeOK, Decided, Phase, Executing
  <2> QED
    BY <2>1, <2>2
<1> HIDE DEF closed
<1>7. /\ node' \in [Scopes -> [Nodes -> Phase]] /\ node'[Main] = closed
      /\ \A t \in Scopes \ {Main} : node'[t] = node[t]
  BY <1>1, <1>2, <1>6, MainIsScope DEF TypeOK
<1> QED
  BY <1>2, <1>3, <1>5, <1>7

LEMMA LoopClosesStep ==
  ASSUME StructInv, LoopCloses
  PROVE  /\ node' \in [Scopes -> [Nodes -> Phase]]
         /\ (\A t \in Scopes : RegionInv(t)') /\ LoopInv' /\ GateHeld' /\ Settles
<1>1. /\ TypeOK /\ LoopInv /\ GateHeld /\ flow \in Flows /\ \A t \in Scopes : RegionInv(t)
      /\ next > flow.items /\ \A i \in iters : region[i] = "done"
  BY DEF StructInv, TypeOK, LoopCloses
<1>2. UNCHANGED <<flow, region, pending, todo, ready, batch, iters, next, gate>>
  BY DEF LoopCloses, regionVars, loopVars
<1>3. /\ flow.loop \in Nodes /\ node[Main][flow.loop] = "looping" /\ node'[Main][flow.loop] = "closing"
      /\ node' \in [Scopes -> [Nodes -> Phase]] /\ \A t \in Scopes \ {Main} : node'[t] = node[t]
      /\ \A n \in Nodes \ {flow.loop} :
           node'[Main][n] = node[Main][n] \/ (n \in LoopOwned /\ node'[Main][n] \in Decided)
  BY ClosingNodes
<1>4. /\ LoopOwned' = LoopOwned /\ \A t : Scheduled(t)' = Scheduled(t) /\ Scheduled(t) \subseteq Nodes
      /\ Scheduled(Main) \intersect LoopOwned = {}
  BY <1>1, <1>2, ScheduledAreNodes DEF Scheduled, LoopOwned, Body, InFlow
<1>5. flow.loop \in Scheduled(Main) /\ flow.loop # NoNode
  BY <1>1, <1>3, FlowFacts, ScheduledAreNodes
\* Before, the nodes the loop decides were pending, or decided already.
<1>6. \A n \in LoopOwned \intersect Nodes : node[Main][n] \in {"pending", "success", "skipped"}
  BY <1>1, <1>4, MainIsScope DEF RegionInv, Outside, Decided
<1>7. ASSUME NEW t \in Scopes PROVE RegionInv(t)'
  <2>1. Waits(t) /\ Unbegun(t) /\ Accounted(t) /\ Outside(t)
    BY <1>1 DEF RegionInv
  <2>2. \A n \in Scheduled(t) : node'[t][n] = node[t][n] \/ (t = Main /\ n = flow.loop)
    BY <1>3, <1>4
  <2>3. Waits(t)' /\ Unbegun(t)' /\ Accounted(t)'
    BY <1>2, <1>3, <1>4, <2>1, <2>2 DEF Waits, Unbegun, Accounted, Decided
  <2>4. Outside(t)'
    BY <1>3, <1>4, <1>5, <2>1 DEF Outside
  <2> QED
    BY <2>3, <2>4 DEF RegionInv
<1>8. LoopInv'
  <2>1. LoopPhase' = "closing"
    BY <1>2, <1>3, <1>5 DEF LoopPhase
  <2> QED
    BY <1>1, <1>2, <2>1 DEF LoopInv
<1>9. GateHeld'
  <2>1. \A t \in Scopes, n \in Nodes : node[t][n] = "gated" => node'[t][n] = "gated"
    <3>1. \A n \in Nodes : node[Main][n] = "gated" => n # flow.loop /\ n \notin LoopOwned
      BY <1>3, <1>6
    <3> QED
      BY <1>3, <3>1
  <2> QED
    BY <1>1, <1>2, <2>1 DEF GateHeld
<1>10. Settles
  <2>1. ASSUME NEW t \in Scopes, NEW n \in Nodes, node'[t][n] # node[t][n]
        PROVE  /\ Status(node[t][n]) \notin Unsettled => Status(node'[t][n]) \notin Unsettled
               /\ node'[t][n] \in Executing => node[t][n] \in Executing
    <3>1. t = Main
      BY <1>3, <2>1
    <3>2. CASE n = flow.loop
      <4>1. Status(node[t][n]) \in Unsettled
        BY <1>3, <3>1, <3>2 DEF Status, Executing, Unsettled
      <4> QED
        BY <1>3, <3>1, <3>2, <4>1 DEF Executing
    <3>3. CASE n # flow.loop
      <4>1. node'[t][n] \in Decided
        BY <1>3, <2>1, <3>1, <3>3
      <4>2. Status(node'[t][n]) \notin Unsettled /\ node'[t][n] \notin Executing
        BY <4>1, StatusOf DEF Decided, Executing, Phase
      <4> QED
        BY <4>2
    <3> QED
      BY <3>2, <3>3
  <2> QED
    BY <1>2, <2>1 DEF Settles
<1> QED
  BY <1>3, <1>7, <1>8, <1>9, <1>10

\* The loop's own moves between its phases.
LEMMA LoopNodeMoves ==
  ASSUME StructInv, NEW p \in {"looping", "closing"}, Looping(p), NEW q \in {"storing", "failing"},
         q = "storing" => p = "closing", To(Main, flow.loop, q), UNCHANGED <<flow, regionVars, loopVars>>
  PROVE  flow.loop \in Nodes /\ NodeMoves(Main, flow.loop, q) /\ node[Main][flow.loop] = p
<1>1. node[Main][flow.loop] = p /\ flow.loop # NoNode
  BY DEF Looping
<1>2. flow.loop \in Nodes
  BY <1>1, FlowFacts DEF StructInv, TypeOK
<1> QED
  BY <1>1, <1>2 DEF NodeMoves, Busy, Executing, Phase

LEMMA NextPasses ==
  ASSUME StructInv, Looping("looping"), \A i \in iters : region[i] = "done", next <= flow.items,
         iters' = {i \in next .. flow.items : i < next + flow.width}, next' = next + flow.width,
         region' = [s \in Scopes |-> IF s \in iters' THEN "adding" ELSE region[s]],
         UNCHANGED <<flow, pending, todo, ready, batch, node, gate>>
  PROVE  /\ region' \in [Scopes -> RegionPc] /\ iters' \subseteq Scopes \ {Main} /\ next' \in Nat \ {0}
         /\ (\A t \in Scopes : RegionInv(t)') /\ LoopInv' /\ GateHeld'
<1>1. /\ TypeOK /\ LoopInv /\ GateHeld /\ flow \in Flows /\ \A t \in Scopes : RegionInv(t)
      /\ next \in Nat \ {0} /\ region \in [Scopes -> RegionPc]
  BY DEF StructInv, TypeOK
<1>2. flow.items \in Scopes /\ flow.items \in Nat /\ flow.width \in Nat \ {0} /\ MaxItems \in Nat
  BY <1>1, FlowFacts, FlowAssumption
<1>3. \A i \in iters' : i \in Nat /\ i >= next /\ i <= flow.items /\ i < next'
  BY <1>1, <1>2
<1>4. iters' \subseteq Scopes \ {Main} /\ next' \in Nat \ {0}
  BY <1>1, <1>2, <1>3 DEF Scopes, Main
<1>5. /\ region' \in [Scopes -> RegionPc]
      /\ \A s \in Scopes : region'[s] = IF s \in iters' THEN "adding" ELSE region[s]
  BY <1>1 DEF RegionPc
<1>6. \A s \in iters' : region[s] = "off"
  BY <1>1, <1>3, <1>4 DEF LoopInv
<1>7. /\ LoopOwned' = LoopOwned /\ \A t : Scheduled(t)' = Scheduled(t)
  BY DEF Scheduled, LoopOwned, Body, InFlow
<1>8. ASSUME NEW t \in Scopes PROVE RegionInv(t)'
  <2>1. Waits(t) /\ Unbegun(t) /\ Accounted(t) /\ Outside(t)
    BY <1>1 DEF RegionInv
  <2>2. region'[t] = region[t] \/ (region[t] = "off" /\ region'[t] = "adding")
    BY <1>5, <1>6
  <2>3. Waits(t)' /\ Unbegun(t)' /\ Accounted(t)' /\ Outside(t)'
    BY <1>7, <2>1, <2>2 DEF Waits, Unbegun, Accounted, Outside, Begun
  <2> QED
    BY <2>3 DEF RegionInv
<1>9. LoopInv'
  <2>1. LoopPhase = "looping" /\ LoopPhase' = "looping"
    BY DEF Looping, LoopPhase
  <2>2. region'[Main] # "adding"
    BY <1>1, <1>4, <1>5, MainIsScope DEF LoopInv
  <2>3. \A i \in iters' : i \in 1 .. flow.items /\ i < next'
    BY <1>1, <1>2, <1>3
  <2>4. ASSUME NEW s \in Scopes \ {Main}, s >= next' \/ s > flow.items PROVE region'[s] = "off"
    <3>1. s \in Nat /\ s \notin iters'
      BY <1>1, <1>2, <1>3, <2>4, MainIsScope
    <3>2. s >= next \/ s > flow.items
      BY <1>1, <1>2, <2>4, <3>1
    <3> QED
      BY <1>1, <1>5, <3>1, <3>2 DEF LoopInv
  <2>5. ASSUME NEW s \in Scopes \ {Main}, s < next', s <= flow.items, s \notin iters' PROVE region'[s] = "done"
    <3>1. s \in Nat /\ s < next
      BY <1>1, <1>2, <2>5, MainIsScope
    <3> QED
      BY <1>1, <1>5, <2>5, <3>1 DEF LoopInv
  <2> QED
    BY <2>1, <2>2, <2>3, <2>4, <2>5 DEF LoopInv
<1>10. GateHeld'
  BY <1>1 DEF GateHeld
<1> QED
  BY <1>4, <1>5, <1>8, <1>9, <1>10

\* cancel(): the entry's node, if there is one, fails.
LEMMA CancelledMoves ==
  ASSUME StructInv, node' = Cancelled, gate' = NoNode, UNCHANGED <<flow, regionVars, loopVars>>
  PROVE  /\ node' \in [Scopes -> [Nodes -> Phase]]
         /\ (\A t \in Scopes : RegionInv(t)') /\ LoopInv' /\ GateHeld' /\ Settles
         /\ \A s \in Scopes, n \in Nodes : node'[s][n] = node[s][n] \/ node'[s][n] = "failing"
<1>1. TypeOK /\ LoopInv /\ GateHeld /\ flow \in Flows /\ \A t \in Scopes : RegionInv(t)
  BY DEF StructInv, TypeOK
<1>2. GateHeld'
  BY DEF GateHeld
<1>3. CASE gate = NoNode
  <2>1. UNCHANGED <<node, flow, region, pending, todo, ready, batch, iters, next>>
    BY <1>3 DEF Cancelled, regionVars, loopVars
  <2>2. LoopOwned' = LoopOwned /\ (\A t : Scheduled(t)' = Scheduled(t)) /\ LoopPhase' = LoopPhase
    BY <2>1 DEF Scheduled, LoopOwned, Body, InFlow, LoopPhase
  <2>3. \A t \in Scopes : RegionInv(t)'
    BY <1>1, <2>1, <2>2 DEF RegionInv, Waits, Unbegun, Accounted, Outside
  <2>4. LoopInv'
    BY <1>1, <2>1, <2>2 DEF LoopInv
  <2>5. Settles
    BY <2>1, IdleSettles
  <2> QED
    BY <1>1, <1>2, <2>1, <2>3, <2>4, <2>5 DEF TypeOK
<1>4. CASE gate # NoNode
  <2>1. PICK s \in Scopes, n \in Nodes : gate = <<s, n>> /\ node[s][n] = "gated"
    BY <1>1, <1>4 DEF GateHeld
  <2>2. To(s, n, "failing")
    BY <1>4, <2>1 DEF Cancelled, To
  <2>3. s = Main => n # flow.loop
    <3>1. ASSUME s = Main, n = flow.loop PROVE FALSE
      <4>1. LoopPhase = "gated"
        BY <1>1, <2>1, <3>1, FlowFacts DEF LoopPhase
      <4> QED
        BY <1>1, <4>1 DEF LoopInv
    <3> QED
      BY <3>1
  <2>4. NodeMoves(s, n, "failing")
    BY <2>1, <2>2, <2>3 DEF NodeMoves, Busy, Executing, Phase
  <2>5. \A t \in Scopes, m \in Nodes : node'[t][m] = node[t][m] \/ node'[t][m] = "failing"
    BY <1>1, <2>2 DEF To, TypeOK
  <2> QED
    BY <1>1, <1>2, <2>4, <2>5, NodeMovesKeep, NodeMovesSettle
<1> QED
  BY <1>3, <1>4
-----------------------------------------------------------------------------
(* Every step.                                                              *)

LEMMA InitStruct == Init => FlowInv
<1> SUFFICES ASSUME Init PROVE FlowInv
  OBVIOUS
<1>1. TypeOK
  <2>1. MaxRefused \in Nat
    BY FlowAssumption
  <2>2. /\ pending \in [Scopes -> SUBSET Nodes] /\ todo \in [Scopes -> SUBSET Nodes]
        /\ ready \in [Scopes -> SUBSET Nodes] /\ batch \in [Scopes -> SUBSET Nodes]
    BY DEF Init
  <2>3. region \in [Scopes -> RegionPc] /\ node \in [Scopes -> [Nodes -> Phase]]
    BY DEF Init, RegionPc, Phase
  <2>4. flow \in Flows /\ run = "off" /\ doc = "none" /\ aborted = FALSE /\ iters = {} /\ next = 1
        /\ gate = NoNode /\ refused = 0
    BY DEF Init
  <2>5. iters \subseteq Scopes \ {Main} /\ next \in Nat \ {0} /\ refused \in 0 .. MaxRefused
    BY <2>1, <2>4
  <2>6. {pending, todo, ready, batch} \subseteq [Scopes -> SUBSET Nodes]
    BY <2>2
  <2> QED
    BY <2>3, <2>4, <2>5, <2>6 DEF TypeOK
<1>2. \A s \in Scopes : RegionInv(s)
  BY <1>1, ScheduledAreNodes DEF TypeOK, Init, RegionInv, Waits, Unbegun, Accounted, Outside, Begun
<1>3. LoopInv
  <2>1. LoopPhase = "pending"
    BY FlowFacts, MainIsScope DEF Init, LoopPhase
  <2>2. \A s \in Scopes : region[s] = "off"
    BY DEF Init
  <2>3. \A s \in Scopes \ {Main} : s \in Nat /\ s >= 1
    BY MainIsScope
  <2> QED
    BY <2>1, <2>2, <2>3, MainIsScope DEF Init, LoopInv
<1>4. GateHeld /\ RunInv /\ ReadyInv /\ WiresSettled
  <2>1. \A s \in Scopes : \A n \in RegionOf(s) : node[s][n] \notin Executing
    BY <1>1, ScheduledAreNodes DEF TypeOK, Init, Executing
  <2> QED
    BY <2>1 DEF Init, GateHeld, RunInv, ReadyInv, WiresSettled
<1> QED
  BY <1>1, <1>2, <1>3, <1>4 DEF FlowInv, StructInv

\* A restart forgets the run.
LEMMA CrashStep == ASSUME StructInv, Crash PROVE FlowInv'
<1>1. TypeOK'
  <2>1. /\ pending' \in [Scopes -> SUBSET Nodes] /\ todo' \in [Scopes -> SUBSET Nodes]
        /\ ready' \in [Scopes -> SUBSET Nodes] /\ batch' \in [Scopes -> SUBSET Nodes]
    BY DEF Crash
  <2>2. region' \in [Scopes -> RegionPc] /\ node' \in [Scopes -> [Nodes -> Phase]]
    BY DEF Crash, RegionPc, Phase
  <2> QED
    BY <2>1, <2>2 DEF Crash, TypeOK, StructInv
<1>2. \A s \in Scopes : RegionInv(s)'
  <2>1. flow' \in Flows
    BY <1>1 DEF TypeOK
  <2>2. \A s : Scheduled(s)' \subseteq Nodes
    BY ScheduledAreNodes DEF Crash, StructInv, TypeOK, Scheduled, LoopOwned, Body, InFlow
  <2> QED
    BY <2>2 DEF Crash, RegionInv, Waits, Unbegun, Accounted, Outside, Begun
<1>3. LoopInv'
  <2>1. LoopPhase' = "pending"
    BY FlowFacts, MainIsScope DEF Crash, LoopPhase, StructInv, TypeOK
  <2>2. \A s \in Scopes : region'[s] = "off"
    BY DEF Crash
  <2>3. \A s \in Scopes \ {Main} : s \in Nat /\ s >= 1
    BY MainIsScope
  <2>4. iters' = {} /\ next' = 1
    BY DEF Crash
  <2> QED
    BY <2>1, <2>2, <2>3, <2>4, MainIsScope DEF LoopInv
<1>4. GateHeld' /\ RunInv' /\ ReadyInv' /\ WiresSettled'
  <2>1. \A s \in Scopes : \A n \in RegionOf(s)' : node'[s][n] \notin Executing
    <3>1. \A s \in Scopes : RegionOf(s)' \subseteq Nodes
      BY ScheduledAreNodes DEF Crash, StructInv, TypeOK, RegionOf, Body, InFlow
    <3> QED
      BY <3>1 DEF Crash, Executing
  <2>2. \A s \in Scopes : ready'[s] = {} /\ region'[s] = "off"
    BY DEF Crash
  <2>3. gate' = NoNode /\ run' = "dead"
    BY DEF Crash
  <2> QED
    BY <2>1, <2>2, <2>3 DEF GateHeld, RunInv, ReadyInv, WiresSettled
<1> QED
  BY <1>1, <1>2, <1>3, <1>4 DEF FlowInv, StructInv

LEMMA RegionStepKeeps ==
  ASSUME StructInv, ReadyInv, NEW s \in Scopes, RegionStep(s)
  PROVE  StructInv' /\ Settles
<1>1. TypeOK /\ RegionInv(s) /\ RunInv /\ region[Main] # "adding"
  BY DEF StructInv, LoopInv
<1>2. /\ RegionMoves(s) /\ RegionInv(s)' /\ region[s] \notin {"off", "done", "failed"}
      /\ UNCHANGED <<flow, run, doc, aborted, out, loopVars, gate>> /\ refused' \in 0 .. MaxRefused
  BY <1>1, RegionStepMoves
<1>3. (\A t \in Scopes : RegionInv(t)') /\ LoopInv' /\ GateHeld'
  BY <1>2, RegionMovesKeep
<1>4. Settles
  BY <1>1, <1>2, RegionMovesSettle
<1>5. TypeOK'
  BY <1>1, <1>2 DEF TypeOK, RegionMoves, loopVars
<1>6. RunInv'
  <2>1. \A t \in Scopes : t # s => region'[t] = region[t]
    BY <1>2 DEF RegionMoves
  <2> QED
    BY <1>1, <1>2, <2>1, MainIsScope DEF RunInv
<1> QED
  BY <1>3, <1>4, <1>5, <1>6 DEF StructInv

LEMMA NodeStepKeeps ==
  ASSUME StructInv, NEW s \in Scopes, NEW n \in Nodes, NodeStep(s, n) \/ Answer(s, n)
  PROVE  StructInv' /\ Settles
<1>1. TypeOK /\ RunInv /\ LoopInv /\ GateHeld /\ \A t \in Scopes : RegionInv(t)
  BY DEF StructInv
<1>2. /\ UNCHANGED <<run, aborted>> /\ (doc' = doc \/ doc' \in Live)
      /\ refused' \in 0 .. MaxRefused /\ GateHeld'
  BY <1>1, NodeStepMoves
<1>3. PICK q : NodeMoves(s, n, q)
  BY <1>1, NodeStepMoves
<1>4. node' \in [Scopes -> [Nodes -> Phase]] /\ (\A t \in Scopes : RegionInv(t)') /\ LoopInv'
  BY <1>1, <1>3, NodeMovesKeep
<1>5. Settles
  BY <1>1, <1>3, NodeMovesSettle
<1>6. UNCHANGED <<flow, region, pending, todo, ready, batch, iters, next>>
  BY <1>3 DEF NodeMoves, regionVars, loopVars
<1>7. gate' \in {NoNode} \union (Scopes \X Nodes)
  BY <1>2 DEF GateHeld
<1>8. TypeOK'
  BY <1>1, <1>2, <1>4, <1>6, <1>7 DEF TypeOK
<1>9. RunInv'
  BY <1>1, <1>2, <1>6 DEF RunInv, Live
<1> QED
  BY <1>2, <1>4, <1>5, <1>8, <1>9 DEF StructInv

LEMMA LoopStepKeeps ==
  ASSUME StructInv, LoopStep
  PROVE  StructInv' /\ Settles
<1>1. TypeOK /\ RunInv /\ LoopInv /\ GateHeld /\ flow \in Flows /\ \A t \in Scopes : RegionInv(t)
  BY DEF StructInv, TypeOK
<1>2. MaxRefused \in Nat /\ refused \in 0 .. MaxRefused
  BY <1>1, FlowAssumption DEF TypeOK
\* The for_each moves to another phase of its own.
<1>3. ASSUME NEW p \in {"looping", "closing"}, Looping(p), NEW q \in {"storing", "failing"},
             q = "storing" => p = "closing", To(Main, flow.loop, q),
             UNCHANGED <<elsewhere, doc, gate>>, refused' \in 0 .. MaxRefused
      PROVE  StructInv' /\ Settles
  <2>1. UNCHANGED <<flow, run, aborted, regionVars, loopVars, doc, gate>>
    BY <1>3 DEF elsewhere
  <2>2. flow.loop \in Nodes /\ NodeMoves(Main, flow.loop, q) /\ node[Main][flow.loop] = p
    BY <1>3, <2>1, LoopNodeMoves
  <2>3. /\ node' \in [Scopes -> [Nodes -> Phase]] /\ (\A t \in Scopes : RegionInv(t)')
        /\ LoopInv' /\ Settles
    BY <1>1, <2>2, MainIsScope, NodeMovesKeep, NodeMovesSettle
  <2>4. UNCHANGED <<region, pending, todo, ready, batch, iters, next>>
    BY <2>1 DEF regionVars, loopVars
  <2>5. GateHeld'
    <3>1. \A t \in Scopes, n \in Nodes : node[t][n] = "gated" => node'[t][n] = "gated"
      BY <1>1, <1>3, <2>2 DEF To, TypeOK
    <3> QED
      BY <1>1, <2>1, <3>1 DEF GateHeld
  <2>6. TypeOK'
    BY <1>1, <1>3, <2>1, <2>3, <2>4 DEF TypeOK
  <2>7. RunInv'
    BY <1>1, <2>1, <2>4 DEF RunInv
  <2> QED
    BY <2>3, <2>5, <2>6, <2>7 DEF StructInv
<1>4. CASE LoopGoesOn
  <2>1. CASE aborted /\ To(Main, flow.loop, "failing") /\ UNCHANGED <<region, loopVars>>
    <3>1. UNCHANGED <<elsewhere, doc, gate, refused>>
      BY <1>4, <2>1 DEF LoopGoesOn, elsewhere, regionVars
    <3> QED
      BY <1>2, <1>3, <1>4, <2>1, <3>1 DEF LoopGoesOn
  <2>2. CASE /\ ~aborted
             /\ iters' = {i \in next .. flow.items : i < next + flow.width}
             /\ next' = next + flow.width
             /\ region' = [s \in Scopes |-> IF s \in iters' THEN "adding" ELSE region[s]]
             /\ UNCHANGED node
    <3>1. /\ Looping("looping") /\ (\A i \in iters : region[i] = "done") /\ next <= flow.items
          /\ UNCHANGED <<flow, pending, todo, ready, batch, node, gate, run, doc, aborted, refused>>
      BY <1>4, <2>2 DEF LoopGoesOn
    <3>2. /\ region' \in [Scopes -> RegionPc] /\ iters' \subseteq Scopes \ {Main} /\ next' \in Nat \ {0}
          /\ (\A t \in Scopes : RegionInv(t)') /\ LoopInv' /\ GateHeld'
      BY <2>2, <3>1, NextPasses
    <3>3. TypeOK'
      BY <1>1, <3>1, <3>2 DEF TypeOK
    <3>4. run \notin {"off", "dead", "swept"}
      <4>1. flow.loop \in Scheduled(Main) /\ node[Main][flow.loop] = "looping"
        BY <1>1, <3>1, ScheduledAreNodes DEF Looping
      <4>2. region[Main] # "off"
        BY <1>1, <4>1, MainIsScope DEF RegionInv, Unbegun
      <4> QED
        BY <1>1, <4>2, MainIsScope DEF RunInv
    <3>5. region'[Main] = region[Main]
      BY <2>2, <3>2, MainIsScope
    <3>6. RunInv'
      BY <1>1, <3>1, <3>4, <3>5 DEF RunInv
    <3> QED
      BY <3>1, <3>2, <3>3, <3>6, IdleSettles DEF StructInv
  <2> QED
    BY <1>4, <2>1, <2>2 DEF LoopGoesOn
<1>5. CASE LoopCloses
  <2>1. /\ node' \in [Scopes -> [Nodes -> Phase]] /\ (\A t \in Scopes : RegionInv(t)')
        /\ LoopInv' /\ GateHeld' /\ Settles
    BY <1>5, LoopClosesStep
  <2>2. UNCHANGED <<flow, run, doc, aborted, region, pending, todo, ready, batch, iters, next, gate, refused>>
    BY <1>5 DEF LoopCloses, regionVars, loopVars
  <2>3. TypeOK' /\ RunInv'
    BY <1>1, <2>1, <2>2 DEF TypeOK, RunInv
  <2> QED
    BY <2>1, <2>3 DEF StructInv
<1>6. CASE CollectStored
  BY <1>2, <1>3, <1>6 DEF CollectStored, Goes, Refuse
<1>7. CASE LoopFails
  BY <1>2, <1>3, <1>7 DEF LoopFails
<1> QED
  BY <1>4, <1>5, <1>6, <1>7 DEF LoopStep

LEMMA RunStepKeeps ==
  ASSUME StructInv, ReadyInv, RunStep \/ Stop
  PROVE  StructInv' /\ Settles
<1>1. TypeOK /\ RunInv /\ LoopInv /\ GateHeld /\ \A t \in Scopes : RegionInv(t)
  BY DEF StructInv
<1>2. MaxRefused \in Nat /\ refused \in 0 .. MaxRefused
  BY <1>1, FlowAssumption DEF TypeOK
\* The regions, the nodes and the loop are left as they are.
<1>3. ASSUME UNCHANGED <<flow, regionVars, node, loopVars, gate>>
      PROVE  (\A t \in Scopes : RegionInv(t)') /\ LoopInv' /\ GateHeld' /\ Settles
  <2>1. UNCHANGED <<flow, region, pending, todo, ready, batch, node, iters, next, gate>>
    BY <1>3 DEF regionVars, loopVars
  <2>2. LoopOwned' = LoopOwned /\ (\A t : Scheduled(t)' = Scheduled(t)) /\ LoopPhase' = LoopPhase
    BY <2>1 DEF Scheduled, LoopOwned, Body, InFlow, LoopPhase
  <2>3. \A t \in Scopes : RegionInv(t)'
    BY <1>1, <2>1, <2>2 DEF RegionInv, Waits, Unbegun, Accounted, Outside
  <2>4. LoopInv' /\ GateHeld'
    BY <1>1, <2>1, <2>2 DEF LoopInv, GateHeld
  <2> QED
    BY <2>1, <2>3, <2>4, IdleSettles
<1>4. CASE Begin
  <2>1. /\ run = "off" /\ run' = "on" /\ doc' = "running" /\ LoopHead(Main, Scheduled(Main))
        /\ UNCHANGED <<flow, aborted, loopVars, gate, refused>>
    BY <1>4 DEF Begin, Scheduled
  <2>2. region[Main] = "off" /\ RegionInv(Main) /\ Main \in Scopes
    BY <1>1, <2>1, MainIsScope DEF RunInv
  <2>3. Passing(Main, Scheduled(Main), Scheduled(Main), {}) /\ todo[Main] \subseteq Scheduled(Main)
    BY <1>1, <2>2, RegionStands
  <2>4. RegionMoves(Main) /\ RegionInv(Main)'
    BY <1>1, <2>1, <2>2, <2>3, LoopHeadStep
  <2>5. (\A t \in Scopes : RegionInv(t)') /\ LoopInv' /\ GateHeld' /\ Settles
    BY <1>1, <2>1, <2>2, <2>4, RegionMovesKeep, RegionMovesSettle
  <2>6. TypeOK'
    BY <1>1, <2>1, <2>4 DEF TypeOK, RegionMoves, loopVars, Active, Live
  <2>7. RunInv'
    BY <2>1 DEF RunInv
  <2> QED
    BY <2>5, <2>6, <2>7 DEF StructInv
<1>5. CASE Conclude
  <2>1. UNCHANGED <<flow, doc, aborted, regionVars, node, loopVars, gate, refused>>
    BY <1>5 DEF Conclude, nodeVars
  <2>2. /\ run = "on" /\ run' \in {"finishing", "aborting", "erring"}
        /\ run' = "finishing" => region[Main] = "done"
    BY <1>5 DEF Conclude, Verdict2
  <2>3. UNCHANGED <<flow, region, pending, todo, ready, batch, node, iters, next>>
    BY <2>1 DEF regionVars, loopVars
  <2>4. TypeOK'
    BY <1>1, <2>1, <2>2, <2>3 DEF TypeOK, Active
  <2>5. RunInv'
    BY <1>1, <2>1, <2>2, <2>3 DEF RunInv
  <2> QED
    BY <1>3, <2>1, <2>4, <2>5 DEF StructInv
<1>6. CASE Finish
  <2>1. UNCHANGED <<flow, aborted, regionVars, loopVars>> /\ refused' \in 0 .. MaxRefused
    BY <1>2, <1>6 DEF Finish, Goes, Refuse
  <2>2. UNCHANGED <<flow, aborted, region, pending, todo, ready, batch, iters, next>>
    BY <2>1 DEF regionVars, loopVars
  <2>3. CASE run = "finishing" /\ Refuse /\ run' = Verdict2 /\ UNCHANGED <<doc, gate, node>>
    <3>1. run' \in {"aborting", "erring"}
      BY <2>3 DEF Verdict2
    <3>2. TypeOK' /\ RunInv'
      BY <1>1, <2>1, <2>2, <2>3, <3>1 DEF TypeOK, RunInv, Active
    <3> QED
      BY <1>3, <2>1, <2>3, <3>2 DEF StructInv
  <2>4. CASE /\ Leave
             /\ \/ run = "finishing" /\ doc' = "success"
                \/ run \in {"aborting", "erring"} /\ (doc' \in {"aborted", "error"} \/ doc' = doc)
    <3>1. run' = "over" /\ gate' = NoNode /\ node' = Cancelled
      BY <2>4 DEF Leave
    <3>2. /\ node' \in [Scopes -> [Nodes -> Phase]]
          /\ (\A t \in Scopes : RegionInv(t)') /\ LoopInv' /\ GateHeld' /\ Settles
      BY <2>1, <3>1, CancelledMoves
    <3>3. doc' = "success" => run = "finishing"
      BY <1>1, <2>4 DEF RunInv
    <3>4. RunInv'
      BY <1>1, <2>2, <3>1, <3>3 DEF RunInv
    <3>5. doc' \in {"none"} \union Live \union Ended
      BY <1>1, <2>4 DEF TypeOK, Ended
    <3>6. TypeOK'
      BY <1>1, <2>1, <2>2, <3>1, <3>2, <3>5 DEF TypeOK
    <3> QED
      BY <3>2, <3>4, <3>6 DEF StructInv
  <2> QED
    BY <1>6, <2>3, <2>4 DEF Finish
<1>7. CASE Sweep
  <2>1. /\ run = "dead" /\ run' = "swept" /\ UNCHANGED <<flow, aborted, regionVars, node, loopVars, gate>>
        /\ refused' \in 0 .. MaxRefused /\ (doc' = doc \/ doc' = "error")
    BY <1>2, <1>7 DEF Sweep, nodeVars, Goes, Refuse
  <2>2. UNCHANGED <<region, pending, todo, ready, batch, iters, next>>
    BY <2>1 DEF regionVars, loopVars
  <2>3. TypeOK'
    BY <1>1, <2>1, <2>2 DEF TypeOK, Ended
  <2>4. RunInv'
    BY <1>1, <2>1, <2>2 DEF RunInv
  <2> QED
    BY <1>3, <2>1, <2>3, <2>4 DEF StructInv
<1>8. CASE Stop
  <2>1. /\ run \in Active /\ aborted' = TRUE /\ gate' = NoNode /\ node' = Cancelled
        /\ UNCHANGED <<flow, run, doc, regionVars, loopVars, refused>>
    BY <1>8 DEF Stop
  <2>2. UNCHANGED <<region, pending, todo, ready, batch, iters, next>>
    BY <2>1 DEF regionVars, loopVars
  <2>3. /\ node' \in [Scopes -> [Nodes -> Phase]]
        /\ (\A t \in Scopes : RegionInv(t)') /\ LoopInv' /\ GateHeld' /\ Settles
    BY <2>1, CancelledMoves
  <2>4. TypeOK' /\ RunInv'
    BY <1>1, <2>1, <2>2, <2>3 DEF TypeOK, RunInv
  <2> QED
    BY <2>3, <2>4 DEF StructInv
<1> QED
  BY <1>4, <1>5, <1>6, <1>7, <1>8 DEF RunStep

\* The struct of a run is kept by every step, and only a restart unsettles anything.
LEMMA EveryStep ==
  ASSUME StructInv, ReadyInv, [Next]_vars
  PROVE  Crash \/ (StructInv' /\ Settles)
<1>1. CASE UNCHANGED vars
  <2>1. UNCHANGED <<flow, run, doc, aborted, region, pending, todo, ready, batch, node, iters, next, gate, refused>>
    BY <1>1 DEF vars, regionVars, nodeVars, loopVars
  <2>2. LoopOwned' = LoopOwned /\ (\A t : Scheduled(t)' = Scheduled(t)) /\ LoopPhase' = LoopPhase
    BY <2>1 DEF Scheduled, LoopOwned, Body, InFlow, LoopPhase
  <2>3. \A t \in Scopes : RegionInv(t)'
    BY <2>1, <2>2 DEF StructInv, RegionInv, Waits, Unbegun, Accounted, Outside
  <2>4. TypeOK' /\ LoopInv' /\ GateHeld' /\ RunInv'
    BY <2>1, <2>2 DEF StructInv, TypeOK, LoopInv, GateHeld, RunInv
  <2> QED
    BY <2>1, <2>3, <2>4, IdleSettles DEF StructInv
<1> QED
  BY <1>1, RegionStepKeeps, NodeStepKeeps, LoopStepKeeps, RunStepKeeps DEF Next

\* What has been decided for a reader stays so.
LEMMA ReadsStayDecided ==
  ASSUME TypeOK, Settles, NEW s \in Scopes, NEW n, ReadsDecided(s, n)
  PROVE  ReadsDecided(s, n)'
<1>1. flow \in Flows /\ flow' = flow
  BY DEF TypeOK, Settles
<1>2. ASSUME NEW m \in InFlow, View(s, m) \notin Unsettled PROVE View(s, m)' \notin Unsettled
  <2>1. m \in Nodes /\ Main \in Scopes
    BY <1>1, FlowFacts, MainIsScope
  <2>2. Body' = Body /\ flow.loop \notin Body
    BY <1>1, FlowFacts DEF Body
  <2>3. CASE s = Main \/ m \in Body
    <3>1. View(s, m) = Status(node[s][m]) /\ View(s, m)' = Status(node'[s][m])
      BY <1>1, <2>2, <2>3 DEF View, Status
    <3> QED
      BY <1>2, <2>1, <3>1 DEF Settles
  <2>4. CASE s # Main /\ m \notin Body /\ m = flow.loop
    <3>1. View(s, m)' = "success"
      BY <1>1, <2>2, <2>4 DEF View
    <3> QED
      BY <3>1 DEF Unsettled
  <2>5. CASE s # Main /\ m \notin Body /\ m # flow.loop
    <3>1. View(s, m) = Status(node[Main][m]) /\ View(s, m)' = Status(node'[Main][m])
      BY <1>1, <2>2, <2>5 DEF View, Status
    <3> QED
      BY <1>2, <2>1, <3>1 DEF Settles
  <2> QED
    BY <2>3, <2>4, <2>5
<1>3. Quoted(n)' = Quoted(n) /\ Quoted(n) \subseteq InFlow
  BY <1>1 DEF Quoted, InFlow
<1>4. Incoming(s, n)' = Incoming(s, n) /\ \A e \in Incoming(s, n) : e.src \in InFlow
  BY <1>1, FlowFacts DEF Incoming, RegionOf, InFlow, Body
<1> QED
  BY <1>2, <1>3, <1>4 DEF ReadsDecided

LEMMA StepInv == FlowInv /\ [Next]_vars => FlowInv'
<1> SUFFICES ASSUME FlowInv, [Next]_vars PROVE FlowInv'
  OBVIOUS
<1>1. StructInv /\ TypeOK /\ ReadyInv /\ WiresSettled
  BY DEF FlowInv, StructInv
<1>2. CASE Crash
  BY <1>1, <1>2, CrashStep
<1>3. CASE StructInv' /\ Settles
  <2>1. \A s \in Scopes : \A n \in ready[s] : ReadsDecided(s, n)
    BY <1>1 DEF ReadyInv
  <2>2. \A s \in Scopes : \A n \in ready'[s] : ReadsDecided(s, n)'
    BY <1>1, <1>3, <2>1, ReadsStayDecided DEF Settles
  <2>3. flow \in Flows /\ flow' = flow
    BY <1>1, <1>3 DEF TypeOK, Settles
  <2>4. \A s \in Scopes : \A n \in RegionOf(s) : n \in Nodes /\ RegionOf(s)' = RegionOf(s)
    BY <2>3, ScheduledAreNodes DEF RegionOf, InFlow, Body
  <2>5. ASSUME NEW s \in Scopes, NEW n \in RegionOf(s), node'[s][n] \in Executing PROVE ReadsDecided(s, n)'
    <3>1. node[s][n] \in Executing => ReadsDecided(s, n)
      BY <1>1 DEF WiresSettled, ReadsDecided
    <3>2. ReadsDecided(s, n)
      BY <1>3, <2>4, <2>5, <3>1 DEF Settles
    <3> QED
      BY <1>1, <1>3, <3>2, ReadsStayDecided
  <2>6. ReadyInv'
    BY <2>2 DEF ReadyInv
  <2>7. WiresSettled'
    <3>1. \A s \in Scopes : RegionOf(s)' = RegionOf(s)
      BY <2>3 DEF RegionOf, InFlow, Body
    <3> QED
      BY <2>5, <3>1 DEF WiresSettled, ReadsDecided
  <2> QED
    BY <1>3, <2>6, <2>7 DEF FlowInv
<1> QED
  BY <1>1, <1>2, <1>3, EveryStep
-----------------------------------------------------------------------------
(* The theorems.                                                            *)

\* The inductive invariant.
THEOREM FlowInvariant == Spec => []FlowInv
<1>1. Init => FlowInv
  BY InitStruct
<1>2. FlowInv /\ [Next]_vars => FlowInv'
  BY StepInv
<1> QED
  BY <1>1, <1>2, PTL DEF Spec

\* Every variable has its type: no region holds a node its flow does not have, no pass
\* runs outside the loop's items.
THEOREM FlowTypeCorrect == Spec => []TypeOK
<1>1. FlowInv => TypeOK
  BY DEF FlowInv, StructInv
<1> QED
  BY <1>1, FlowInvariant, PTL

\* Whatever an executing node may read has been decided (settle(), loopBody(), the outer
\* runtime a pass sees), over every wire but one from outside a loop into its body: such a
\* wire apart, a body node is wired from the body, which settle() waits for, or from the
\* for_each, which a pass sees as settled.
THEOREM NodesReadSettledValues == Spec => []ReadsSettled
<1>1. FlowInv => ReadsSettled
  <2> SUFFICES ASSUME FlowInv, NEW s \in Scopes, NEW n \in RegionOf(s), node[s][n] \in Executing
               PROVE  /\ \A m \in Quoted(n) : View(s, m) \notin Unsettled
                      /\ \A e \in flow.edges :
                           e.dst = n /\ ~FedFromOutside(e) => View(s, e.src) \notin Unsettled
    BY DEF ReadsSettled
  <2>1. ReadsDecided(s, n) /\ flow \in Flows
    BY DEF FlowInv, StructInv, TypeOK, WiresSettled
  <2>2. ASSUME NEW e \in flow.edges, e.dst = n, ~FedFromOutside(e) PROVE View(s, e.src) \notin Unsettled
    <3>1. CASE e.src \in RegionOf(s)
      BY <2>1, <2>2, <3>1 DEF ReadsDecided, Incoming
    <3>2. CASE e.src \notin RegionOf(s)
      <4>1. s # Main /\ n \in Body
        BY <2>1, <3>2, FlowFacts DEF RegionOf
      <4>2. e.src = flow.loop /\ e.src \notin Body
        BY <2>2, <3>2, <4>1 DEF FedFromOutside, RegionOf
      <4> QED
        BY <4>1, <4>2 DEF View, Unsettled
    <3> QED
      BY <3>1, <3>2
  <2> QED
    BY <2>1, <2>2 DEF ReadsDecided
<1> QED
  BY <1>1, FlowInvariant, PTL

\* A successful outer region has nothing at work, in it or in any pass.
LEMMA DoneIsQuiet ==
  ASSUME StructInv, region[Main] = "done", NEW s \in Scopes, NEW n \in Nodes
  PROVE  node[s][n] \in {"pending", "success", "skipped"}
<1>1. TypeOK /\ LoopInv /\ flow \in Flows /\ RegionInv(s) /\ RegionInv(Main)
  BY MainIsScope DEF StructInv, TypeOK
<1>2. \A m \in Scheduled(Main) : node[Main][m] \in Decided
  BY <1>1 DEF RegionInv, Waits, Accounted, Begun
<1>3. CASE n \notin Scheduled(s)
  BY <1>1, <1>3 DEF RegionInv, Outside, Decided
<1>4. CASE n \in Scheduled(s) /\ s = Main
  BY <1>2, <1>4 DEF Decided
<1>5. CASE n \in Scheduled(s) /\ s # Main
  <2>1. LoopPhase \in {"pending", "success", "skipped"}
    BY <1>1, <1>2, ScheduledAreNodes DEF LoopPhase, Decided
  <2>2. \A i \in iters : region[i] = "done"
    BY <1>1, <2>1 DEF LoopInv
  <2>3. s \in Nat /\ flow.items \in Nat /\ next \in Nat
    BY <1>1, FlowFacts, MainIsScope DEF TypeOK
  <2>4. region[s] \in {"off", "done"}
    BY <1>1, <1>5, <2>2, <2>3 DEF LoopInv
  <2> QED
    BY <1>1, <1>5, <2>4 DEF RegionInv, Waits, Unbegun, Accounted, Begun, Decided
<1> QED
  BY <1>3, <1>4, <1>5

\* A run reported successful has nothing of it left at work, in any pass of its loop, and
\* no question open at the operator (finish() after executeRegion(), runLoop()).
THEOREM SuccessIsQuiet == Spec => []SuccessLeavesNothing
<1>1. FlowInv => SuccessLeavesNothing
  <2> SUFFICES ASSUME FlowInv, doc = "success"
               PROVE  /\ gate = NoNode
                      /\ \A s \in Scopes, n \in Nodes :
                           node[s][n] \notin Executing \union {"storing", "failing"}
    BY DEF SuccessLeavesNothing
  <2>1. StructInv /\ RunInv /\ GateHeld /\ flow \in Flows /\ \A s \in Scopes : RegionInv(s)
    BY DEF FlowInv, StructInv, TypeOK
  <2>2. ASSUME NEW s \in Scopes, NEW n \in Nodes PROVE node[s][n] \in {"pending", "success", "skipped"}
    <3>1. CASE region[Main] = "done"
      BY <2>1, <3>1, DoneIsQuiet
    <3>2. CASE region[Main] # "done"
      <4>1. \A t \in Scopes : region[t] = "off"
        BY <2>1, <3>2 DEF RunInv
      <4> QED
        BY <2>1, <4>1 DEF RegionInv, Unbegun, Outside, Decided
    <3> QED
      BY <3>1, <3>2
  <2>3. gate = NoNode
    BY <2>1, <2>2 DEF GateHeld
  <2> QED
    BY <2>2, <2>3 DEF Executing
<1> QED
  BY <1>1, FlowInvariant, PTL

\* Once the operator has stopped a run no handler of it begins: checkAborted() before a
\* batch and the signal after the write of `running', in every branch and every pass.
THEOREM StopHolds == Spec => StoppedStartsNothing
<1> DEFINE Held == aborted => \A s \in Scopes, n \in Nodes :
                      node'[s][n] \in {"running", "asking", "looping"} => node'[s][n] = node[s][n]
           Begins == {"running", "asking", "looping"}
<1>1. FlowInv /\ [Next]_vars => [Held]_vars
  <2> SUFFICES ASSUME FlowInv, Next, aborted, NEW s \in Scopes, NEW n \in Nodes, node'[s][n] \in Begins
               PROVE  node'[s][n] = node[s][n]
    BY DEF vars
  <2>1. StructInv /\ TypeOK /\ ReadyInv /\ region[Main] # "adding" /\ \A t \in Scopes : RegionInv(t)
    BY DEF FlowInv, StructInv, LoopInv
  <2>2. \A t \in Scopes : RegionMoves(t) => node'[s][n] = node[s][n]
    BY DEF RegionMoves
  <2>3. ASSUME NEW t \in Scopes, RegionStep(t) PROVE node'[s][n] = node[s][n]
    BY <2>1, <2>2, <2>3, RegionStepMoves
  <2>4. ASSUME NEW t, NEW m, NEW q, To(t, m, q), q \notin Begins PROVE node'[s][n] = node[s][n]
    BY <2>1, <2>4 DEF To, TypeOK
  <2>5. ASSUME NEW t \in Scopes, NEW m \in Nodes, NodeStep(t, m) \/ Answer(t, m) PROVE node'[s][n] = node[s][n]
    <3>1. PICK q : To(t, m, q) /\ q \notin Begins
      BY <2>5 DEF NodeStep, Answer, Starts, HandlerEnds, HandlerReturns, HandlerThrows, Stored,
                  FailureStored, Asks, AnswerLands, GateTimesOut
    <3> QED
      BY <2>4, <3>1
  <2>6. ASSUME LoopStep PROVE node'[s][n] = node[s][n]
    <3>1. CASE LoopCloses
      BY <2>1, <3>1, ClosingNodes DEF Decided
    <3>2. CASE LoopGoesOn \/ CollectStored \/ LoopFails
      BY <2>4, <3>2 DEF LoopGoesOn, CollectStored, LoopFails
    <3> QED
      BY <2>6, <3>1, <3>2 DEF LoopStep
  <2>7. ASSUME node' = Cancelled PROVE node'[s][n] = node[s][n]
    BY <2>1, <2>7 DEF Cancelled, TypeOK
  <2>8. ASSUME RunStep PROVE node'[s][n] = node[s][n]
    <3>1. CASE Begin
      <4>1. /\ run = "off" /\ LoopHead(Main, Scheduled(Main)) /\ flow' = flow
        BY <3>1 DEF Begin, Scheduled
      <4>2. region[Main] = "off" /\ Main \in Scopes
        BY <2>1, <4>1, MainIsScope DEF StructInv, RunInv
      <4>3. RegionMoves(Main)
        BY <2>1, <4>1, <4>2, RegionStands, LoopHeadStep
      <4> QED
        BY <2>2, <4>2, <4>3
    <3>2. CASE Conclude \/ Sweep
      BY <3>2 DEF Conclude, Sweep, nodeVars
    <3>3. CASE Finish
      BY <2>7, <3>3 DEF Finish, Leave
    <3> QED
      BY <2>8, <3>1, <3>2, <3>3 DEF RunStep
  <2>9. ASSUME Crash PROVE FALSE
    BY <2>9 DEF Crash
  <2> QED
    BY <2>3, <2>5, <2>6, <2>7, <2>8, <2>9 DEF Next, Stop
<1> QED
  BY <1>1, FlowInvariant, PTL DEF Spec, StoppedStartsNothing
-----------------------------------------------------------------------------
(* Which nodes a run executes.  Taken is read off the graph; what a finished *)
(* region has executed accounts for itself, so that a node where the two    *)
(* differ has one before it, and the graph is acyclic.                      *)

\* What the loop and the wires of a flow keep to.
LEMMA Wiring ==
  ASSUME flow \in Flows
  PROVE  /\ Acyclic(InFlow, Wired(flow))
         /\ flow.loop = NoNode <=> flow.collect = NoNode
         /\ flow.collect \in InFlow \union {NoNode}
         /\ \A e \in flow.edges : e.src \in Body => e.dst \in Body \union {flow.collect}
  BY FlowAssumption DEF InFlow, Body

\* Who is fed stays fed when no wire into it carries less.
LEMMA CarriesOn ==
  ASSUME NEW T, NEW U, NEW n, FedFrom(T, n),
         \A e \in flow.edges : e.dst = n /\ Carries(T, e) => Carries(U, e)
  PROVE  FedFrom(U, n)
  BY DEF FedFrom

\* More nodes take more nodes.
LEMMA TakenGrows ==
  ASSUME NEW T, NEW U, T \subseteq U
  PROVE  TakenFrom(T) \subseteq TakenFrom(U)
<1> SUFFICES ASSUME NEW n \in TakenFrom(T) PROVE n \in TakenFrom(U)
  OBVIOUS
<1>1. \A e \in flow.edges : Carries(T, e) => Carries(U, e)
  BY DEF Carries
<1>2. n # flow.collect => FedFrom(U, n)
  BY <1>1, CarriesOn DEF TakenFrom
<1> QED
  BY <1>2 DEF TakenFrom

\* A set that accounts for its own nodes is part of any that agrees with itself: a first
\* node of the one outside the other would be fed from within both.
LEMMA FirstDisagreement ==
  ASSUME flow \in Flows, NEW T \in SUBSET (InFlow \ Body), NEW U,
         T \subseteq TakenFrom(T), U = TakenFrom(U)
  PROVE  T \subseteq U
<1> DEFINE D == T \ U
<1> SUFFICES ASSUME D # {} PROVE FALSE
  OBVIOUS
<1>1. D \in (SUBSET InFlow) \ {{}}
  OBVIOUS
<1> HIDE DEF D
<1>2. PICK n \in D : \A m \in D : <<m, n>> \notin Wired(flow)
  BY <1>1, Wiring, Zenon DEF Acyclic
<1>3. n \in T /\ n \notin U /\ n \in TakenFrom(T) /\ n \in InFlow \ Body
  BY <1>2 DEF D
<1>4. CASE n = flow.collect
  <2>1. flow.loop \in T
    BY <1>3, <1>4 DEF TakenFrom
  <2>2. <<flow.loop, n>> \in Wired(flow)
    BY <1>4 DEF Wired
  <2>3. flow.loop \in U
    BY <1>2, <2>1, <2>2 DEF D
  <2> QED
    BY <1>3, <1>4, <2>3 DEF TakenFrom
<1>5. CASE n # flow.collect
  <2>1. ASSUME NEW e \in flow.edges, e.dst = n, Carries(T, e) PROVE Carries(U, e)
    <3>1. <<e.src, n>> \in Wired(flow)
      BY <2>1 DEF Wired
    <3>2. e.src \in T
      BY <2>1 DEF Carries
    <3> QED
      BY <1>2, <2>1, <3>1, <3>2 DEF Carries, D
  <2>2. FedFrom(T, n)
    BY <1>3, <1>5 DEF TakenFrom
  <2>3. FedFrom(U, n)
    BY <2>1, <2>2, CarriesOn
  <2> QED
    BY <1>3, <1>5, <2>3 DEF TakenFrom
<1> QED
  BY <1>4, <1>5

\* Some set agrees with itself: all that any set accounts for.
LEMMA TakenAgrees ==
  Taken \in SUBSET (InFlow \ Body) /\ Taken = TakenFrom(Taken)
<1> DEFINE Nodes0 == InFlow \ Body
           A == {T \in SUBSET Nodes0 : T \subseteq TakenFrom(T)}
           M == UNION A
<1>1. \A T : TakenFrom(T) \subseteq Nodes0
  BY DEF TakenFrom
<1>2. M \subseteq TakenFrom(M)
  <2> SUFFICES ASSUME NEW T \in A, NEW n \in T PROVE n \in TakenFrom(M)
    OBVIOUS
  <2>1. T \subseteq M /\ n \in TakenFrom(T)
    OBVIOUS
  <2> HIDE DEF M
  <2> QED
    BY <2>1, TakenGrows
<1>3. TakenFrom(M) \in A
  <2>1. TakenFrom(M) \subseteq TakenFrom(TakenFrom(M))
    BY <1>2, TakenGrows
  <2> QED
    BY <1>1, <2>1
<1>4. TakenFrom(M) \subseteq M
  BY <1>3
<1>5. M \in SUBSET Nodes0
  OBVIOUS
<1>6. \E T \in SUBSET (InFlow \ Body) : T = TakenFrom(T)
  BY <1>2, <1>4, <1>5
<1> QED
  BY <1>6 DEF Taken

-----------------------------------------------------------------------------
(* What the scheduler of the outer graph decides, and why.                  *)

\* All that the wires into n may bring has been decided; and they bring what n needs, or not.
WiresDecided(n) == \A e \in Incoming(Main, n) : node[Main][e.src] \in Decided
Fed(n)  == WiresDecided(n) /\ ~Unfed(Main, n)
Dead(n) == WiresDecided(n) /\ Unfed(Main, n)

\* A run the scheduler cannot lose a node of.
Sorted == ListedInOrder /\ LoopPhase # "skipped"

\* What the scheduler of the outer graph has found ready or started is fed.
FedInv ==
    \A n \in Scheduled(Main) :
        n \in ready[Main] \/ node[Main][n] \notin {"pending", "skipped"} => Fed(n)

\* A loop's nodes are decided when it closes, its collect with a value; never before.
OwnedInv ==
    /\ LoopPhase \in {"pending", "starting", "looping", "skipped"} =>
         \A m \in LoopOwned : node[Main][m] = "pending"
    /\ LoopPhase \in {"closing", "storing", "success"} => node[Main][flow.collect] = "success"

OutShape == out = [s \in Scopes |-> [n \in Nodes |-> out[s][n]]]

\* A pass that has found nobody yet has passed nobody over, or has somebody before it who
\* waits for nothing.
InTurn(list, rest, found) == found = {} /\ rest # list => \E m \in list : Reads(m) = {}

\* A sorted run never comes to the point where nothing can advance, and skips only what is dead.
SkipInv ==
    Sorted =>
      /\ region[Main] # "draining"
      /\ region[Main] = "skipping" => InTurn(todo[Main], pending[Main], ready[Main])
      /\ \A n \in Scheduled(Main) : node[Main][n] = "skipped" => Dead(n)

OrderInv == OutShape /\ OwnedInv /\ FedInv /\ SkipInv

\* What a step may do to the outer graph: what is decided stays, and so do the values; only
\* what is fed is found ready or started, and only what is dead is skipped in a sorted run.
MainMoves ==
    /\ \A m \in Nodes : node[Main][m] \in Decided =>
         node'[Main][m] = node[Main][m] /\ out'[Main][m] = out[Main][m]
    /\ \A n \in Scheduled(Main) :
         \/ node'[Main][n] = node[Main][n]
         \/ node[Main][n] \in Busy /\ node'[Main][n] \notin {"pending", "skipped"}
         \/ node'[Main][n] = "starting" /\ Fed(n)
         \/ node'[Main][n] = "skipped" /\ (Sorted => Dead(n))
    /\ \A n \in ready'[Main] : n \in ready[Main] \/ Fed(n)
    /\ Sorted => /\ region'[Main] # "draining"
                 /\ region'[Main] = "skipping" => InTurn(todo[Main], pending[Main], ready[Main])'

\* All that is read off the flow stays as it is.
LEMMA SameFlow ==
  ASSUME flow' = flow
  PROVE  /\ Body' = Body /\ InFlow' = InFlow /\ LoopOwned' = LoopOwned /\ ListedInOrder' = ListedInOrder
         /\ \A n : Incoming(Main, n)' = Incoming(Main, n) /\ Reads(n)' = Reads(n)
         /\ Scheduled(Main)' = Scheduled(Main)
<1>1. Body' = Body /\ InFlow' = InFlow /\ LoopOwned' = LoopOwned
  BY DEF Body, InFlow, LoopOwned
<1>2. \A n : Incoming(Main, n)' = Incoming(Main, n) /\ Reads(n)' = Reads(n) /\ Place(n)' = Place(n) /\ Driver(n)' = Driver(n)
  BY <1>1 DEF Incoming, RegionOf, Reads, Quoted, Place, Driver
<1>3. ListedInOrder' = ListedInOrder
  BY <1>1, <1>2 DEF ListedInOrder
<1> QED
  BY <1>1, <1>2, <1>3 DEF Scheduled

\* What has been decided about the wires of a node stays so.
LEMMA WiresStay ==
  ASSUME TypeOK, MainMoves, flow' = flow, NEW n, WiresDecided(n)
  PROVE  WiresDecided(n)' /\ Unfed(Main, n)' = Unfed(Main, n)
<1>1. flow \in Flows /\ Incoming(Main, n)' = Incoming(Main, n)
  BY SameFlow DEF TypeOK
<1>2. ASSUME NEW e \in Incoming(Main, n)
      PROVE  node'[Main][e.src] = node[Main][e.src] /\ Satisfied(Main, e)' = Satisfied(Main, e)
  <2>1. e.src \in Nodes
    BY <1>1, <1>2, FlowFacts DEF Incoming
  <2>2. node'[Main][e.src] = node[Main][e.src] /\ out'[Main][e.src] = out[Main][e.src]
    BY <1>2, <2>1 DEF WiresDecided, MainMoves
  <2> QED
    BY <2>2 DEF Satisfied, View, Filled, Status
<1>3. WiresDecided(n)'
  BY <1>1, <1>2 DEF WiresDecided
<1>4. Unfed(Main, n)' = Unfed(Main, n)
  BY <1>1, <1>2 DEF Unfed
<1> QED
  BY <1>3, <1>4

\* Such a step keeps what has been fed and what has been skipped in order.
LEMMA MovesKeepOrder ==
  ASSUME TypeOK, FedInv, SkipInv, MainMoves, flow' = flow
  PROVE  FedInv' /\ SkipInv'
<1>1. flow \in Flows /\ Scheduled(Main)' = Scheduled(Main) /\ ListedInOrder' = ListedInOrder
  BY SameFlow DEF TypeOK
<1>2. \A n : (Fed(n) => Fed(n)') /\ (Dead(n) => Dead(n)')
  BY WiresStay DEF Fed, Dead
<1>3. FedInv'
  <2> SUFFICES ASSUME NEW n \in Scheduled(Main),
                      n \in ready'[Main] \/ node'[Main][n] \notin {"pending", "skipped"}
               PROVE  Fed(n)
    BY <1>1, <1>2 DEF FedInv
  <2>1. CASE n \in ready'[Main]
    BY <2>1 DEF MainMoves, FedInv
  <2>2. CASE node'[Main][n] \notin {"pending", "skipped"}
    <3>1. node[Main][n] \in Busy => node[Main][n] \notin {"pending", "skipped"}
      BY DEF Busy, Executing
    <3> QED
      BY <2>2, <3>1 DEF MainMoves, FedInv
  <2> QED
    BY <2>1, <2>2
<1>4. SkipInv'
  <2> SUFFICES ASSUME Sorted'
               PROVE  /\ region'[Main] # "draining"
                      /\ region'[Main] = "skipping" => InTurn(todo[Main], pending[Main], ready[Main])'
                      /\ \A n \in Scheduled(Main) : node'[Main][n] = "skipped" => Dead(n)
    BY <1>1, <1>2 DEF SkipInv
  <2>1. Sorted
    <3>1. flow.loop = NoNode \/ flow.loop \in Nodes
      BY <1>1, FlowFacts
    <3>2. node[Main][flow.loop] = "skipped" /\ flow.loop \in Nodes => node'[Main][flow.loop] = "skipped"
      BY DEF MainMoves, Decided
    <3> QED
      BY <1>1, <3>1, <3>2 DEF Sorted, LoopPhase
  <2>2. ASSUME NEW n \in Scheduled(Main), node'[Main][n] = "skipped" PROVE Dead(n)
    BY <2>1, <2>2 DEF MainMoves, SkipInv
  <2> QED
    BY <2>1, <2>2 DEF MainMoves
<1> QED
  BY <1>3, <1>4

\* While the scheduler of the outer graph looks for ready nodes nothing there is under way:
\* a node that need not wait has all its wires decided.
LEMMA WiresOf ==
  ASSUME TypeOK, NEW rest, \A m \in rest : node[Main][m] = "pending",
         \A m \in Scheduled(Main) : m \in rest \/ node[Main][m] \in Decided, Outside(Main),
         NEW n, Verdict(Main, n) # "wait"
  PROVE  /\ Verdict(Main, n) = "run" => Fed(n)
         /\ Verdict(Main, n) = "skip" => Dead(n)
<1>1. flow \in Flows
  BY DEF TypeOK
<1>2. ASSUME NEW e \in Incoming(Main, n) PROVE node[Main][e.src] \in Decided
  <2>1. e.src \in InFlow /\ e.src \in Nodes
    BY <1>1, <1>2, FlowFacts DEF Incoming
  <2>2. node[Main][e.src] = "pending" \/ node[Main][e.src] \in Decided
    BY <2>1 DEF Outside
  <2>3. View(Main, e.src) \notin Unsettled
    BY DEF Verdict, Awaits
  <2>4. View(Main, e.src) = Status(node[Main][e.src])
    BY DEF View, Status
  <2>5. Status("pending") = "pending"
    BY DEF Status, Executing
  <2> QED
    BY <2>2, <2>3, <2>4, <2>5 DEF Unsettled
<1>3. /\ Verdict(Main, n) = "run" => ~Unfed(Main, n)
      /\ Verdict(Main, n) = "skip" => Unfed(Main, n)
  BY DEF Verdict
<1> QED
  BY <1>2, <1>3 DEF WiresDecided, Fed, Dead

\* A node that reads nothing is ready at once.
LEMMA ReadsNothing ==
  ASSUME NEW n, Reads(n) = {}
  PROVE  Verdict(Main, n) = "run"
<1>1. Quoted(n) = {} /\ Incoming(Main, n) = {}
  BY DEF Reads, Incoming
<1>2. ~QuotesUnsettled(Main, n) /\ ~Awaits(Main, n)
  BY <1>1 DEF QuotesUnsettled, Awaits
<1>3. ~Unfed(Main, n)
  BY <1>1 DEF Unfed
<1> QED
  BY <1>2, <1>3 DEF Verdict

\* In a document listed in order the first of the nodes that are left need not wait, when
\* there is none among them that reads nothing.
LEMMA FirstNeedNotWait ==
  ASSUME TypeOK, OwnedInv, Sorted, Outside(Main),
         NEW rest, rest \subseteq Scheduled(Main), \A m \in rest : node[Main][m] = "pending",
         \A m \in Scheduled(Main) : m \in rest \/ node[Main][m] \in Decided,
         \A m \in rest : Reads(m) # {},
         NEW n \in rest, \A m \in rest : Place(n) <= Place(m)
  PROVE  Verdict(Main, n) # "wait"
<1>1. flow \in Flows /\ ListedInOrder /\ LoopPhase # "skipped" /\ n \in InFlow \ LoopOwned
  BY DEF TypeOK, Sorted, Scheduled
<1>2. ASSUME NEW m \in Reads(n), m \in InFlow PROVE View(Main, m) \notin Unsettled
  <2> DEFINE d == Driver(m)
  <2>1. m \notin Body /\ (Reads(d) = {} \/ Place(d) < Place(n))
    BY <1>1, <1>2 DEF ListedInOrder
  <2>2. d \in InFlow \ LoopOwned /\ m \in Nodes
    <3>1. m = flow.collect => flow.loop # NoNode
      BY <1>1, <1>2, FlowFacts, Wiring
    <3>2. CASE m = flow.collect
      BY <1>1, <3>1, <3>2, FlowFacts, Wiring DEF Driver
    <3>3. CASE m # flow.collect
      BY <1>1, <1>2, <2>1, <3>3, FlowFacts DEF Driver, LoopOwned
    <3>4. m \in Nodes
      BY <1>1, <1>2, FlowFacts
    <3> QED
      BY <3>2, <3>3, <3>4
  <2>3. d \notin rest
    <3>1. Place(d) \in Nat /\ Place(n) \in Nat
      BY <1>1, <2>2, PlaceIsNat
    <3> HIDE DEF d
    <3>2. ASSUME d \in rest PROVE FALSE
      <4>1. Place(n) <= Place(d) /\ Reads(d) # {}
        BY <3>2
      <4> QED
        BY <2>1, <3>1, <4>1
    <3> QED
      BY <3>2
  <2>4. node[Main][d] \in Decided
    BY <2>2, <2>3 DEF Scheduled
  <2>5. node[Main][m] \in Decided
    <3>1. CASE m = flow.collect
      <4>1. flow.loop # NoNode
        BY <1>1, <1>2, <3>1, FlowFacts, Wiring
      <4>2. LoopPhase = "success"
        BY <1>1, <2>4, <3>1, <4>1 DEF Driver, LoopPhase, Decided
      <4> QED
        BY <3>1, <4>2 DEF OwnedInv, Decided
    <3>2. CASE m # flow.collect
      BY <2>4, <3>2 DEF Driver
    <3> QED
      BY <3>1, <3>2
  <2>6. View(Main, m) = Status(node[Main][m])
    BY DEF View, Status
  <2> QED
    BY <2>5, <2>6 DEF Decided, Status, Executing, Unsettled
<1>3. ~QuotesUnsettled(Main, n)
  BY <1>2 DEF QuotesUnsettled, Reads, Quoted
<1>4. ~Awaits(Main, n)
  <2>1. \A e \in Incoming(Main, n) : e.src \in Reads(n) /\ e.src \in InFlow
    BY <1>1, FlowFacts DEF Incoming, Reads
  <2> QED
    BY <1>2, <2>1 DEF Awaits
<1> QED
  BY <1>3, <1>4 DEF Verdict

\* No two nodes have one place.
LEMMA PlaceTells ==
  ASSUME flow \in Flows, NEW m \in InFlow, NEW n \in InFlow, Place(m) = Place(n)
  PROVE  m = n
<1>1. ASSUME NEW k \in InFlow PROVE flow.order[Place(k)] = k
  <2>1. \E i \in DOMAIN flow.order : flow.order[i] = k
    BY <1>1 DEF InFlow, Range1
  <2> QED
    BY <2>1 DEF Place
<1> QED
  BY <1>1

\* A batch of the outer region is started.
LEMMA MainLaunch ==
  ASSUME TypeOK, NEW list, NEW rest, Launch(Main, list, rest), UNCHANGED <<flow, out>>,
         \A n \in list : Fed(n), \A n \in list : node[Main][n] \notin Decided
  PROVE  MainMoves
<1> DEFINE b == Slice(list, BranchConcurrency)
<1>1. b \subseteq list
  BY DEF Slice
<1>2. /\ ready' = [ready EXCEPT ![Main] = list \ b] /\ region' = [region EXCEPT ![Main] = "batch"]
      /\ node' = [node EXCEPT ![Main] = [n \in Nodes |-> IF n \in b THEN "starting" ELSE node[Main][n]]]
  BY DEF Launch
<1> HIDE DEF b
<1>3. /\ region \in [Scopes -> RegionPc] /\ ready \in [Scopes -> SUBSET Nodes] /\ Main \in Scopes
      /\ node \in [Scopes -> [Nodes -> Phase]] /\ Scheduled(Main) \subseteq Nodes
  BY MainIsScope, ScheduledAreNodes DEF TypeOK
<1>4. /\ \A n \in Nodes : node'[Main][n] = IF n \in b THEN "starting" ELSE node[Main][n]
      /\ region'[Main] = "batch" /\ ready'[Main] \subseteq list
  BY <1>2, <1>3
<1> QED
  BY <1>1, <1>3, <1>4 DEF MainMoves

\* Where the outer region goes on: what it starts is fed, what it skips is dead.
LEMMA MainPass ==
  ASSUME TypeOK, OwnedInv, NEW list, NEW rest, NEW found,
         Passing(Main, list, rest, found), Pass(Main, list, rest, found), UNCHANGED <<flow, out>>,
         \A n \in found : Fed(n), Sorted => InTurn(list, rest, found)
  PROVE  MainMoves
<1> DEFINE dead  == {n \in list : Verdict(Main, n) = "skip"}
           d     == First(dead)
           seen  == IF dead = {} THEN list ELSE Upto(list, d)
           runs  == {n \in seen : Verdict(Main, n) = "run"}
           found1 == found \union runs
<1>1. /\ rest \subseteq Scheduled(Main) /\ list \subseteq rest /\ found \subseteq rest \ list
      /\ \A n \in rest : node[Main][n] = "pending"
      /\ \A n \in Scheduled(Main) : n \in rest \/ node[Main][n] \in Decided
      /\ ready[Main] = found /\ Outside(Main)
  BY DEF Passing
<1>2. /\ flow \in Flows /\ Main \in Scopes /\ Scheduled(Main) \subseteq InFlow /\ Scheduled(Main) \subseteq Nodes
      /\ node \in [Scopes -> [Nodes -> Phase]]
      /\ region \in [Scopes -> RegionPc] /\ ready \in [Scopes -> SUBSET Nodes]
      /\ pending \in [Scopes -> SUBSET Nodes] /\ todo \in [Scopes -> SUBSET Nodes]
  BY FlowFacts, MainIsScope, ScheduledAreNodes DEF TypeOK, Scheduled
<1>3. \A n \in list : /\ Verdict(Main, n) = "run" => Fed(n)
                      /\ Verdict(Main, n) = "skip" => Dead(n)
  BY <1>1, WiresOf
<1>4. dead \subseteq list /\ seen \subseteq list /\ runs \subseteq seen /\ list \subseteq InFlow
  BY <1>1, <1>2 DEF Upto
<1>5. dead # {} => /\ d \in dead /\ d \in list /\ d \in rest /\ Dead(d)
                   /\ \A m \in dead : Place(d) <= Place(m)
  <2> SUFFICES ASSUME dead # {}
               PROVE /\ d \in dead /\ d \in list /\ d \in rest /\ Dead(d)
                     /\ \A m \in dead : Place(d) <= Place(m)
    OBVIOUS
  <2>1. dead \subseteq InFlow
    BY <1>4
  <2>2. d \in dead /\ \A m \in dead : Place(d) <= Place(m)
    BY <1>2, <2>1, FirstIn
  <2>3. Verdict(Main, d) = "skip" /\ d \in list
    BY <2>2
  <2> QED
    BY <1>1, <1>3, <2>2, <2>3
<1>6. found1 \subseteq rest /\ \A n \in found1 : Fed(n)
  BY <1>1, <1>3, <1>4
\* Nobody is left behind by an empty-handed pass.
<1>7. ASSUME Sorted, found1 = {}
      PROVE  /\ dead = {} => rest = {}
             /\ dead # {} => InTurn(list \ seen, rest \ {d}, found1)
  <2>1. found = {} /\ runs = {}
    BY <1>7
  <2>2. \A m \in seen : Reads(m) # {}
    BY <1>4, <2>1, ReadsNothing
  <2>3. CASE \E m \in list : Reads(m) = {}
    <3>1. PICK m \in list : Reads(m) = {}
      BY <2>3
    <3>2. m \in list \ seen
      BY <2>2, <3>1
    <3>3. dead # {}
      BY <3>2
    <3> QED
      BY <3>1, <3>2, <3>3 DEF InTurn
  <2>4. CASE \A m \in list : Reads(m) # {}
    <3>1. rest = list
      BY <1>7, <2>1, <2>4 DEF InTurn
    <3>2. ASSUME rest # {} PROVE First(rest) \in dead
      <4> DEFINE f == First(rest)
      <4>1. rest \subseteq InFlow
        BY <1>1, <1>2
      <4>2. f \in rest /\ \A m \in rest : Place(f) <= Place(m)
        BY <1>2, <3>2, <4>1, FirstIn
      <4> HIDE DEF f
      <4>3. Verdict(Main, f) # "wait"
        BY <1>1, <1>7, <2>4, <3>1, <4>2, FirstNeedNotWait
      <4>4. Verdict(Main, f) \in {"run", "skip"}
        BY <4>3 DEF Verdict
      <4>5. f \in list
        BY <3>1, <4>2
      <4>6. f \in seen
        <5>1. CASE dead = {}
          BY <4>5, <5>1
        <5>2. CASE dead # {}
          <6>1. Place(f) <= Place(d)
            BY <1>5, <4>2, <5>2
          <6> QED
            BY <4>5, <5>2, <6>1 DEF Upto
        <5> QED
          BY <5>1, <5>2
      <4>7. Verdict(Main, f) # "run"
        BY <2>1, <4>6
      <4> QED
        BY <4>4, <4>5, <4>7 DEF f
    <3>3. dead = {} => rest = {}
      BY <3>2
    <3>4. ASSUME dead # {} PROVE list \ seen = rest \ {d}
      <4> DEFINE f == First(rest)
      <4>1. rest # {} /\ rest \subseteq InFlow
        BY <1>1, <1>2, <1>5, <3>4
      <4>2. f \in dead /\ \A m \in rest : Place(f) <= Place(m)
        BY <1>2, <3>2, <4>1, FirstIn
      <4>3. \A m \in InFlow : Place(m) \in Nat
        BY <1>2, PlaceIsNat
      <4>4. \A m \in dead : Place(d) <= Place(m)
        BY <1>5, <3>4
      <4>5. d \in rest /\ f \in rest
        BY <1>1, <1>4, <1>5, <3>4, <4>2
      <4>6. \A m \in rest : Place(d) <= Place(m)
        <5> SUFFICES ASSUME NEW m \in rest PROVE Place(d) <= Place(m)
          OBVIOUS
        <5>1. Place(d) <= Place(f) /\ Place(f) <= Place(m)
          BY <4>2, <4>4
        <5>2. Place(d) \in Nat /\ Place(f) \in Nat /\ Place(m) \in Nat
          BY <4>1, <4>3, <4>5
        <5> HIDE DEF d, f
        <5> QED
          BY <5>1, <5>2
      <4>7. ASSUME NEW m \in seen PROVE m = d
        <5>1. m \in list /\ Place(m) <= Place(d)
          BY <3>4, <4>7 DEF Upto
        <5>2. Place(d) <= Place(m) /\ m \in rest
          BY <3>1, <4>6, <5>1
        <5>3. Place(m) \in Nat /\ Place(d) \in Nat
          BY <4>1, <4>3, <4>5, <5>2
        <5>4. Place(m) = Place(d)
          BY <5>1, <5>2, <5>3
        <5> QED
          BY <1>2, <4>1, <4>5, <5>2, <5>4, PlaceTells
      <4>8. d \in seen
        BY <1>2, <1>4, <1>5, <3>4, FirstIsUpto
      <4> HIDE DEF d, seen
      <4> QED
        BY <3>1, <4>7, <4>8
    <3> QED
      BY <3>3, <3>4 DEF InTurn
  <2> QED
    BY <2>3, <2>4
<1>8. \/ /\ dead # {}
         /\ Skip(Main, d, rest \ {d}) /\ todo' = [todo EXCEPT ![Main] = list \ seen]
         /\ ready' = [ready EXCEPT ![Main] = found1] /\ GoTo(Main, "skipping")
      \/ Launch(Main, found1, rest \ found1)
      \/ GoTo(Main, "done") /\ UNCHANGED <<ready, node>>
      \/ /\ dead = {} /\ found1 = {} /\ rest # {}
         /\ Skip(Main, First(rest), rest \ {First(rest)}) /\ GoTo(Main, "draining")
         /\ UNCHANGED ready
  BY DEF Pass
<1>9. \A m \in rest : node[Main][m] \notin Decided
  BY <1>1 DEF Decided
<1> HIDE DEF dead, d, seen, runs, found1
<1>10. CASE /\ dead # {}
            /\ Skip(Main, d, rest \ {d}) /\ todo' = [todo EXCEPT ![Main] = list \ seen]
            /\ ready' = [ready EXCEPT ![Main] = found1] /\ GoTo(Main, "skipping")
  <2>1. /\ node' = [node EXCEPT ![Main][d] = "skipped"] /\ pending' = [pending EXCEPT ![Main] = rest \ {d}]
        /\ region' = [region EXCEPT ![Main] = "skipping"]
    BY <1>10 DEF Skip, GoTo
  <2>2. /\ \A n \in Nodes : node'[Main][n] = IF n = d THEN "skipped" ELSE node[Main][n]
        /\ pending'[Main] = rest \ {d} /\ region'[Main] = "skipping"
        /\ todo'[Main] = list \ seen /\ ready'[Main] = found1
    BY <1>2, <1>10, <2>1
  <2>3. Dead(d) /\ d \in rest
    BY <1>5, <1>10
  <2>4. Sorted => InTurn(todo'[Main], pending'[Main], ready'[Main])
    BY <1>7, <1>10, <2>2 DEF InTurn
  <2>5. InTurn(todo[Main], pending[Main], ready[Main])' = InTurn(todo'[Main], pending'[Main], ready'[Main])
    BY SameFlow DEF InTurn
  <2> QED
    BY <1>2, <1>6, <1>9, <2>2, <2>3, <2>4, <2>5 DEF MainMoves
<1>11. CASE Launch(Main, found1, rest \ found1)
  BY <1>2, <1>6, <1>9, <1>11, MainLaunch
<1>12. CASE GoTo(Main, "done") /\ UNCHANGED <<ready, node>>
  <2>1. region'[Main] = "done"
    BY <1>2, <1>12 DEF GoTo
  <2> QED
    BY <1>12, <2>1 DEF MainMoves
<1>13. CASE /\ dead = {} /\ found1 = {} /\ rest # {}
            /\ Skip(Main, First(rest), rest \ {First(rest)}) /\ GoTo(Main, "draining")
            /\ UNCHANGED ready
  <2>1. ~Sorted
    BY <1>7, <1>13
  <2>2. First(rest) \in rest
    BY <1>1, <1>2, <1>13, FirstIn
  <2>3. \A n \in Nodes : node'[Main][n] = IF n = First(rest) THEN "skipped" ELSE node[Main][n]
    BY <1>2, <1>13 DEF Skip
  <2> QED
    BY <1>2, <1>9, <1>13, <2>1, <2>2, <2>3 DEF MainMoves
<1> QED
  BY <1>8, <1>10, <1>11, <1>12, <1>13

\* The outer region at the head of its loop.
LEMMA MainHead ==
  ASSUME TypeOK, OwnedInv, NEW rest, Passing(Main, rest, rest, {}), LoopHead(Main, rest),
         UNCHANGED <<flow, out>>
  PROVE  MainMoves
<1>1. CASE Pass(Main, rest, rest, {})
  <2>1. \A n \in {} : Fed(n)
    OBVIOUS
  <2>2. InTurn(rest, rest, {})
    BY DEF InTurn
  <2> QED
    BY <1>1, <2>1, <2>2, MainPass
<1>2. CASE (GoTo(Main, "done") \/ GoTo(Main, "failed")) /\ UNCHANGED <<ready, node>>
  <2>1. region'[Main] \in {"done", "failed"}
    BY <1>2, MainIsScope DEF GoTo, TypeOK
  <2> QED
    BY <1>2, <2>1 DEF MainMoves
<1> QED
  BY <1>1, <1>2 DEF LoopHead

\* A step of the outer region.
LEMMA MainRegionStep ==
  ASSUME StructInv, ReadyInv, OrderInv, RegionStep(Main)
  PROVE  MainMoves
<1>1. /\ TypeOK /\ RegionInv(Main) /\ OwnedInv /\ FedInv /\ SkipInv /\ Main \in Scopes
      /\ region[Main] # "adding" /\ UNCHANGED <<flow, out>>
  BY MainIsScope DEF StructInv, OrderInv, LoopInv, RegionStep, PassBegins, PassGoesOn, Drain, BatchDone,
                     BatchFails, nodeVars
<1>2. /\ Waits(Main) /\ Accounted(Main) /\ ready[Main] \subseteq Scheduled(Main)
      /\ \A n \in ready[Main] : Fed(n) /\ node[Main][n] \notin Decided
  BY <1>1 DEF RegionInv, Waits, FedInv, Decided
<1>3. ASSUME NEW pc \in {"done", "failed"}, GoTo(Main, pc), UNCHANGED <<ready, node>> PROVE MainMoves
  <2>1. region'[Main] \in {"done", "failed"}
    BY <1>1, <1>3 DEF GoTo, TypeOK
  <2> QED
    BY <1>1, <1>3, <2>1 DEF MainMoves
<1>4. CASE PassGoesOn(Main)
  <2>1. CASE Pass(Main, todo[Main], pending[Main], ready[Main])
    <3>1. Passing(Main, todo[Main], pending[Main], ready[Main]) /\ region[Main] = "skipping"
      BY <1>1, <1>4, RegionStands DEF PassGoesOn
    <3>2. Sorted => InTurn(todo[Main], pending[Main], ready[Main])
      BY <1>1, <3>1 DEF SkipInv
    <3> QED
      BY <1>1, <1>2, <2>1, <3>1, <3>2, MainPass
  <2>2. CASE RegionRefused(Main)
    BY <1>3, <2>2 DEF RegionRefused
  <2> QED
    BY <1>4, <2>1, <2>2 DEF PassGoesOn
<1>5. CASE Drain(Main)
  <2>1. region[Main] = "draining" /\ ~Sorted
    BY <1>1, <1>5 DEF Drain, SkipInv
  <2>2. CASE Skip(Main, First(pending[Main]), pending[Main] \ {First(pending[Main])}) /\ pending[Main] # {} /\ ready' = ready
    <3>1. First(pending[Main]) \in pending[Main]
      <4>1. pending[Main] \subseteq InFlow /\ flow \in Flows
        BY <1>1, <1>2 DEF Waits, Scheduled, TypeOK
      <4> QED
        BY <2>2, <4>1, FirstIn
    <3>2. node[Main][First(pending[Main])] \notin Decided
      BY <1>2, <3>1 DEF Waits, Decided
    <3>3. \A n \in Nodes : node'[Main][n] = IF n = First(pending[Main]) THEN "skipped" ELSE node[Main][n]
      BY <1>1, <2>2 DEF Skip, TypeOK
    <3>4. Scheduled(Main) \subseteq Nodes
      BY <1>1, ScheduledAreNodes DEF TypeOK
    <3> QED
      BY <1>1, <2>1, <2>2, <3>2, <3>3, <3>4 DEF MainMoves
  <2> QED
    BY <1>3, <1>5, <2>2 DEF Drain, RegionRefused
<1>6. CASE BatchDone(Main)
  <2>1. region[Main] = "batch" /\ \A n \in batch[Main] : node[Main][n] = "success"
    BY <1>6 DEF BatchDone
  <2>2. CASE Launch(Main, ready[Main], pending[Main])
    BY <1>1, <1>2, <2>2, MainLaunch
  <2>3. CASE ready[Main] = {} /\ LoopHead(Main, pending[Main])
    <3>1. Passing(Main, pending[Main], pending[Main], {})
      BY <1>1, <2>1, <2>3, RegionStands
    <3> QED
      BY <1>1, <2>3, <3>1, MainHead
  <2> QED
    BY <1>6, <2>2, <2>3 DEF BatchDone
<1>7. CASE BatchFails(Main)
  BY <1>3, <1>7 DEF BatchFails, nodeVars
<1> QED
  BY <1>1, <1>4, <1>5, <1>6, <1>7 DEF RegionStep, PassBegins

\* A step that leaves the lists of the outer scheduler alone, and moves at most the nodes
\* that are under way there, or the loop's own while they are not decided.
LEMMA ListsAside ==
  ASSUME TypeOK, SkipInv, flow' = flow, region'[Main] = region[Main], pending'[Main] = pending[Main],
         todo'[Main] = todo[Main], ready'[Main] = ready[Main],
         \A m \in Nodes : node[Main][m] \in Decided =>
            node'[Main][m] = node[Main][m] /\ out'[Main][m] = out[Main][m],
         \A n \in Scheduled(Main) : \/ node'[Main][n] = node[Main][n]
                                    \/ node[Main][n] \in Busy /\ node'[Main][n] \notin {"pending", "skipped"}
  PROVE  MainMoves
<1>1. InTurn(todo[Main], pending[Main], ready[Main])' = InTurn(todo[Main], pending[Main], ready[Main])
  BY SameFlow DEF InTurn
<1> QED
  BY <1>1 DEF MainMoves, SkipInv

\* Values are recorded by the node under way alone.
LEMMA NodeStepOut ==
  ASSUME OutShape, NEW s \in Scopes, NEW n \in Nodes, NodeStep(s, n) \/ Answer(s, n)
  PROVE  OutShape' /\ \A t \in Scopes, m \in Nodes : t # s \/ m # n => out'[t][m] = out[t][m]
<1>1. CASE out' = out
  BY <1>1 DEF OutShape
<1>2. CASE \E ports : out' = [out EXCEPT ![s][n] = ports]
  <2>1. PICK ports : out' = [out EXCEPT ![s][n] = ports]
    BY <1>2
  <2>2. out' = [t \in Scopes |-> [m \in Nodes |-> IF t = s /\ m = n THEN ports ELSE out[t][m]]]
    BY <2>1 DEF OutShape
  <2> QED
    BY <2>2 DEF OutShape
<1> QED
  BY <1>1, <1>2 DEF NodeStep, Answer, Starts, HandlerEnds, HandlerReturns, HandlerThrows, Stored,
                    FailureStored, Asks, AnswerLands, GateTimesOut

\* Every step but a restart does no more than that, to the loop's nodes neither.
Kept == OutShape' /\ OwnedInv' /\ MainMoves /\ flow' = flow

\* The phases of the loop, its nodes left alone.
LEMMA OwnedByPhase ==
  ASSUME OwnedInv, flow' = flow,
         \A m \in LoopOwned : node'[Main][m] = node[Main][m],
         LoopPhase' # LoopPhase =>
            \/ LoopPhase = "pending" /\ LoopPhase' \in {"starting", "skipped"}
            \/ LoopPhase = "starting" /\ LoopPhase' = "looping"
            \/ LoopPhase \in {"closing", "storing"} /\ LoopPhase' \in {"storing", "success"}
            \/ LoopPhase' \in {"failing", "error", "stuck"}
  PROVE  OwnedInv'
<1>1. LoopOwned' = LoopOwned
  BY SameFlow
<1>2. LoopPhase \in {"closing", "storing", "success"} => node'[Main][flow.collect] = "success"
  <2>1. LoopPhase # "pending" => flow.loop # NoNode
    BY DEF LoopPhase
  <2> QED
    BY <2>1 DEF OwnedInv, LoopOwned
<1> QED
  BY <1>1, <1>2 DEF OwnedInv

\* The scheduler leaves them alone.
LEMMA RegionMovesOwned ==
  ASSUME TypeOK, OwnedInv, RegionMoves(Main), flow' = flow
  PROVE  OwnedInv'
<1>1. flow \in Flows
  BY DEF TypeOK
<1>2. \A n \in Nodes : \/ node'[Main][n] = node[Main][n]
                       \/ /\ node[Main][n] = "pending" /\ n \in Scheduled(Main)
                          /\ node'[Main][n] \in {"skipped", "starting"}
  BY DEF RegionMoves
<1>3. /\ Scheduled(Main) \intersect LoopOwned = {} /\ LoopOwned \subseteq Nodes
      /\ flow.loop = NoNode \/ flow.loop \in Nodes
  BY <1>1, ScheduledAreNodes, FlowFacts, Wiring DEF LoopOwned
<1>4. \A m \in LoopOwned : node'[Main][m] = node[Main][m]
  BY <1>2, <1>3
<1>5. LoopPhase' = LoopPhase \/ (LoopPhase = "pending" /\ LoopPhase' \in {"skipped", "starting"})
  BY <1>2, <1>3 DEF LoopPhase
<1> QED
  BY <1>4, <1>5, OwnedByPhase

\* A step of the scheduler of some scope.
LEMMA RegionStepOrders ==
  ASSUME StructInv, ReadyInv, OrderInv, NEW s \in Scopes, RegionStep(s)
  PROVE  Kept
<1>1. /\ TypeOK /\ OwnedInv /\ OutShape /\ SkipInv /\ region[Main] # "adding" /\ RegionInv(s)
      /\ flow \in Flows
  BY DEF StructInv, OrderInv, LoopInv, TypeOK
<1>2. RegionMoves(s) /\ flow' = flow /\ out' = out
  BY <1>1, RegionStepMoves
<1>3. OutShape'
  BY <1>1, <1>2 DEF OutShape
<1>4. CASE s = Main
  <2>1. MainMoves
    BY <1>4, MainRegionStep
  <2>2. OwnedInv'
    BY <1>1, <1>2, <1>4, RegionMovesOwned
  <2> QED
    BY <1>2, <1>3, <2>1, <2>2 DEF Kept
<1>5. CASE s # Main
  <2>1. /\ region'[Main] = region[Main] /\ pending'[Main] = pending[Main] /\ todo'[Main] = todo[Main]
        /\ ready'[Main] = ready[Main] /\ node'[Main] = node[Main]
    BY <1>2, <1>5, MainIsScope DEF RegionMoves
  <2>2. MainMoves
    BY <1>1, <1>2, <2>1, ListsAside
  <2>3. OwnedInv'
    BY <1>1, <1>2, <2>1, SameFlow DEF OwnedInv, LoopPhase
  <2> QED
    BY <1>2, <1>3, <2>2, <2>3 DEF Kept
<1> QED
  BY <1>4, <1>5

\* A node begins to loop by starting.
LEMMA LoopsFromStart ==
  ASSUME TypeOK, NEW s \in Scopes, NEW n \in Nodes, NodeStep(s, n) \/ Answer(s, n), To(s, n, "looping")
  PROVE  node[s][n] = "starting"
<1>1. node'[s][n] = "looping"
  BY DEF To, TypeOK
<1>2. \A q : To(s, n, q) => q = "looping"
  BY <1>1 DEF To, TypeOK
<1> QED
  BY <1>2 DEF NodeStep, Answer, Starts, At, HandlerEnds, HandlerReturns, HandlerThrows, Stored,
              FailureStored, Asks, AnswerLands, GateTimesOut

\* A step of a node under way.
LEMMA NodeStepOrders ==
  ASSUME StructInv, OrderInv, NEW s \in Scopes, NEW n \in Nodes, NodeStep(s, n) \/ Answer(s, n)
  PROVE  Kept
<1>1. /\ TypeOK /\ LoopInv /\ GateHeld /\ OwnedInv /\ OutShape /\ SkipInv /\ flow \in Flows
      /\ \A t \in Scopes : RegionInv(t)
  BY DEF StructInv, OrderInv, TypeOK
<1>2. PICK q : NodeMoves(s, n, q)
  BY <1>1, NodeStepMoves
<1>3. /\ node[s][n] \in Busy /\ q \notin {"pending", "skipped", "starting"} /\ To(s, n, q)
      /\ UNCHANGED <<flow, region, pending, todo, ready>>
  BY <1>2 DEF NodeMoves, regionVars
<1>4. \A t \in Scopes, m \in Nodes : node'[t][m] = IF t = s /\ m = n THEN q ELSE node[t][m]
  BY <1>1, <1>3 DEF To, TypeOK
<1>5. OutShape' /\ \A t \in Scopes, m \in Nodes : t # s \/ m # n => out'[t][m] = out[t][m]
  BY <1>1, NodeStepOut
<1>6. MainMoves
  <2>1. node[s][n] \notin Decided /\ Main \in Scopes /\ Scheduled(Main) \subseteq Nodes
    BY <1>1, <1>3, MainIsScope, ScheduledAreNodes DEF Busy, Executing, Decided
  <2> QED
    BY <1>1, <1>3, <1>4, <1>5, <2>1, ListsAside
<1>7. OwnedInv'
  <2>1. \A m \in LoopOwned : node'[Main][m] = node[Main][m]
    <3>1. LoopOwned \subseteq Nodes
      BY <1>1, FlowFacts, Wiring DEF LoopOwned
    <3>2. ASSUME s = Main, n \in LoopOwned PROVE FALSE
      <4>1. node[Main][n] \in {"pending", "success", "skipped"}
        BY <1>1, <3>2, MainIsScope, ScheduledAreNodes DEF RegionInv, Outside, Decided
      <4> QED
        BY <1>3, <3>2, <4>1 DEF Busy, Executing
    <3> QED
      BY <1>4, <3>1, <3>2, MainIsScope
  <2>2. CASE s = Main /\ n = flow.loop
    <3>1. LoopPhase = node[s][n] /\ LoopPhase' = q
      BY <1>1, <1>3, <1>4, <2>2, FlowFacts, MainIsScope DEF LoopPhase
    <3>2. /\ q \in {"looping", "storing", "success", "failing", "error", "stuck"}
          /\ q \in {"storing", "success"} => LoopPhase \in {"closing", "storing"}
      BY <1>2, <2>2, <3>1 DEF NodeMoves
    <3>3. q = "looping" => LoopPhase = "starting"
      BY <1>1, <1>3, <1>4, <3>1, LoopsFromStart
    <3> QED
      BY <1>1, <1>3, <2>1, <3>1, <3>2, <3>3, OwnedByPhase
  <2>3. CASE ~(s = Main /\ n = flow.loop)
    <3>1. LoopPhase' = LoopPhase
      BY <1>1, <1>3, <1>4, <2>3, FlowFacts, MainIsScope DEF LoopPhase
    <3> QED
      BY <1>1, <1>3, <2>1, <3>1, OwnedByPhase
  <2> QED
    BY <2>2, <2>3
<1> QED
  BY <1>3, <1>5, <1>6, <1>7 DEF Kept

\* The for_each goes on to another of its phases, its collect left as it is.
LEMMA LoopMoveOrders ==
  ASSUME StructInv, OrderInv, NEW p \in {"looping", "closing"}, Looping(p), NEW q \in {"storing", "failing"},
         q = "storing" => p = "closing", To(Main, flow.loop, q), UNCHANGED <<flow, regionVars, loopVars>>,
         out' = out \/ \E ports : out' = [out EXCEPT ![Main][flow.loop] = ports]
  PROVE  Kept
<1>1. /\ TypeOK /\ OwnedInv /\ OutShape /\ SkipInv /\ flow \in Flows /\ Main \in Scopes
  BY MainIsScope DEF StructInv, OrderInv, TypeOK
<1>2. flow.loop \in Nodes /\ flow.loop # NoNode /\ node[Main][flow.loop] = p
  BY <1>1, FlowFacts DEF Looping
<1>3. /\ flow' = flow /\ region' = region /\ pending' = pending /\ todo' = todo /\ ready' = ready
      /\ \A m \in Nodes : node'[Main][m] = IF m = flow.loop THEN q ELSE node[Main][m]
  BY <1>1, <1>2 DEF To, TypeOK, regionVars
<1>4. OutShape' /\ \A m \in Nodes \ {flow.loop} : out'[Main][m] = out[Main][m]
  <2>1. CASE out' = out
    BY <1>1, <2>1 DEF OutShape
  <2>2. CASE \E ports : out' = [out EXCEPT ![Main][flow.loop] = ports]
    <3>1. PICK ports : out' = [out EXCEPT ![Main][flow.loop] = ports]
      BY <2>2
    <3>2. out' = [t \in Scopes |-> [m \in Nodes |-> IF t = Main /\ m = flow.loop THEN ports ELSE out[t][m]]]
      BY <1>1, <3>1 DEF OutShape
    <3> QED
      BY <1>1, <3>2 DEF OutShape
  <2> QED
    BY <2>1, <2>2
<1>5. MainMoves
  <2>1. node[Main][flow.loop] \in Busy /\ node[Main][flow.loop] \notin Decided
    BY <1>2 DEF Busy, Executing, Decided
  <2>2. Scheduled(Main) \subseteq Nodes
    BY <1>1, ScheduledAreNodes
  <2> QED
    BY <1>1, <1>3, <1>4, <2>1, <2>2, ListsAside
<1>6. OwnedInv'
  <2>1. LoopOwned \subseteq Nodes \ {flow.loop}
    BY <1>1, <1>2, FlowFacts, Wiring DEF LoopOwned
  <2>2. LoopPhase = p /\ LoopPhase' = q
    BY <1>2, <1>3 DEF LoopPhase
  <2> QED
    BY <1>1, <1>3, <2>1, <2>2, OwnedByPhase
<1> QED
  BY <1>3, <1>4, <1>5, <1>6 DEF Kept

\* The loop closes: what it publishes was pending, and nobody's scheduler had it.
LEMMA LoopClosesOrders ==
  ASSUME StructInv, OrderInv, LoopCloses
  PROVE  Kept
<1>1. /\ TypeOK /\ OwnedInv /\ OutShape /\ SkipInv /\ flow \in Flows /\ Main \in Scopes
  BY MainIsScope DEF StructInv, OrderInv, TypeOK
<1>2. UNCHANGED <<flow, region, pending, todo, ready>>
  BY DEF LoopCloses, regionVars
<1>3. /\ flow.loop \in Nodes /\ node[Main][flow.loop] = "looping" /\ node'[Main][flow.loop] = "closing"
      /\ \A m \in Nodes \ {flow.loop} :
           node'[Main][m] = node[Main][m] \/ (m \in LoopOwned /\ node'[Main][m] \in Decided)
  BY ClosingNodes
<1>4. /\ flow.loop # NoNode /\ LoopPhase = "looping" /\ LoopPhase' = "closing"
      /\ LoopOwned = Body \union {flow.collect} /\ flow.collect \in Nodes /\ flow.collect # flow.loop
      /\ flow.collect \notin Body /\ flow.loop \notin Body /\ Scheduled(Main) \subseteq Nodes \ LoopOwned
  BY <1>1, <1>2, <1>3, FlowFacts, Wiring, ScheduledAreNodes DEF LoopPhase, LoopOwned
<1>5. \A m \in LoopOwned : node[Main][m] = "pending"
  BY <1>1, <1>4 DEF OwnedInv
<1>6. node'[Main][flow.collect] = "success"
  BY <1>1, <1>4 DEF LoopCloses, TypeOK
<1>7. /\ OutShape'
      /\ \A m \in Nodes \ LoopOwned : out'[Main][m] = out[Main][m]
  <2> DEFINE closed == [m \in Nodes |-> CASE m \in (IF flow.items = 0 THEN {} ELSE Body) -> out[flow.items][m]
                                          [] m = flow.collect -> {"default", "text", "done"}
                                          [] OTHER -> out[Main][m]]
  <2>1. out' = [out EXCEPT ![Main] = closed]
    BY DEF LoopCloses
  <2>2. closed = [m \in Nodes |-> closed[m]] /\ \A m \in Nodes \ LoopOwned : closed[m] = out[Main][m]
    BY <1>4
  <2> HIDE DEF closed
  <2>3. out' = [t \in Scopes |-> [m \in Nodes |-> IF t = Main THEN closed[m] ELSE out[t][m]]]
    BY <1>1, <2>1, <2>2 DEF OutShape
  <2> QED
    BY <1>1, <2>2, <2>3 DEF OutShape
<1>8. MainMoves
  <2>1. \A m \in Nodes : node[Main][m] \in Decided => m # flow.loop /\ m \notin LoopOwned
    BY <1>3, <1>5 DEF Decided
  <2>2. \A m \in Scheduled(Main) : \/ node'[Main][m] = node[Main][m]
                                   \/ node[Main][m] \in Busy /\ node'[Main][m] \notin {"pending", "skipped"}
    BY <1>3, <1>4 DEF Busy, Executing
  <2> QED
    BY <1>1, <1>2, <1>3, <1>7, <2>1, <2>2, ListsAside
<1>9. OwnedInv'
  BY <1>2, <1>4, <1>6 DEF OwnedInv
<1> QED
  BY <1>2, <1>7, <1>8, <1>9 DEF Kept

\* A step that changes no node, no list and no value of the outer graph.
LEMMA IdleOrders ==
  ASSUME StructInv, OrderInv,
         UNCHANGED <<flow, node, out, pending, todo, ready>>, region'[Main] = region[Main]
  PROVE  Kept
<1>1. /\ TypeOK /\ OwnedInv /\ OutShape /\ SkipInv
  BY DEF StructInv, OrderInv
<1>2. MainMoves
  BY <1>1, ListsAside
<1>3. OwnedInv'
  BY <1>1, SameFlow DEF OwnedInv, LoopPhase
<1> QED
  BY <1>1, <1>2, <1>3 DEF Kept, OutShape

\* A step of the loop.
LEMMA LoopStepOrders ==
  ASSUME StructInv, OrderInv, LoopStep
  PROVE  Kept
<1>1. CASE LoopGoesOn
  <2>1. CASE To(Main, flow.loop, "failing") /\ UNCHANGED <<region, loopVars>>
    <3>1. Looping("looping") /\ UNCHANGED <<flow, regionVars, loopVars, out>>
      BY <1>1, <2>1 DEF LoopGoesOn, regionVars
    <3> QED
      BY <2>1, <3>1, LoopMoveOrders
  <2>2. CASE /\ iters' = {i \in next .. flow.items : i < next + flow.width}
             /\ region' = [s \in Scopes |-> IF s \in iters' THEN "adding" ELSE region[s]]
             /\ UNCHANGED node
    <3>1. TypeOK /\ flow \in Flows
      BY DEF StructInv, TypeOK
    <3>2. Main \notin iters'
      BY <2>2, <3>1, MainIsScope, FlowFacts DEF TypeOK
    <3>3. region'[Main] = region[Main]
      BY <2>2, <3>2, MainIsScope
    <3> QED
      BY <1>1, <2>2, <3>3, IdleOrders DEF LoopGoesOn
  <2> QED
    BY <1>1, <2>1, <2>2 DEF LoopGoesOn
<1>2. CASE LoopCloses
  BY <1>2, LoopClosesOrders
<1>3. CASE CollectStored
  <2>1. Looping("closing") /\ UNCHANGED <<flow, regionVars, loopVars>>
    BY <1>3 DEF CollectStored, elsewhere
  <2>2. \/ To(Main, flow.loop, "storing") /\ out' = [out EXCEPT ![Main][flow.loop] = {"default", "index"}]
        \/ To(Main, flow.loop, "failing") /\ out' = out
    BY <1>3 DEF CollectStored
  <2> QED
    BY <2>1, <2>2, LoopMoveOrders
<1>4. CASE LoopFails
  <2>1. Looping("looping") /\ UNCHANGED <<flow, regionVars, loopVars, out>> /\ To(Main, flow.loop, "failing")
    BY <1>4 DEF LoopFails, elsewhere
  <2> QED
    BY <2>1, LoopMoveOrders
<1> QED
  BY <1>1, <1>2, <1>3, <1>4 DEF LoopStep

\* cancel(): a gated node fails; none is decided, and the loop is never gated.
LEMMA CancelledOrders ==
  ASSUME StructInv, OrderInv, node' = Cancelled, gate' = NoNode, UNCHANGED <<flow, regionVars, loopVars, out>>
  PROVE  Kept
<1>1. /\ TypeOK /\ LoopInv /\ GateHeld /\ OwnedInv /\ OutShape /\ SkipInv /\ flow \in Flows /\ Main \in Scopes
      /\ UNCHANGED <<region, pending, todo, ready>>
  BY MainIsScope DEF StructInv, OrderInv, TypeOK, regionVars
<1>2. CASE gate = NoNode
  <2>1. node' = node
    BY <1>2 DEF Cancelled
  <2> QED
    BY <1>1, <2>1, IdleOrders
<1>3. CASE gate # NoNode
  <2>1. PICK s \in Scopes, n \in Nodes : gate = <<s, n>> /\ node[s][n] = "gated"
    BY <1>1, <1>3 DEF GateHeld
  <2>2. \A t \in Scopes, m \in Nodes : node'[t][m] = IF t = s /\ m = n THEN "failing" ELSE node[t][m]
    BY <1>1, <1>3, <2>1 DEF Cancelled, TypeOK
  <2>3. LoopPhase # "gated"
    BY <1>1 DEF LoopInv
  <2>4. MainMoves
    <3>1. "gated" \in Busy /\ "gated" \notin Decided
      BY DEF Busy, Executing, Decided
    <3>2. Scheduled(Main) \subseteq Nodes
      BY <1>1, ScheduledAreNodes
    <3> QED
      BY <1>1, <2>1, <2>2, <3>1, <3>2, ListsAside
  <2>5. LoopPhase' = LoopPhase
    BY <1>1, <2>1, <2>2, <2>3, FlowFacts DEF LoopPhase
  <2>6. \A m \in LoopOwned : node'[Main][m] = node[Main][m]
    <3>1. LoopOwned \subseteq Nodes /\ LoopOwned \intersect Scheduled(Main) = {}
      BY <1>1, FlowFacts, Wiring, ScheduledAreNodes DEF LoopOwned
    <3>2. \A m \in LoopOwned : node[Main][m] # "gated"
      <4>1. Outside(Main)
        BY <1>1 DEF StructInv, RegionInv
      <4> QED
        BY <3>1, <4>1 DEF Outside, Decided
    <3> QED
      BY <1>1, <2>1, <2>2, <3>1, <3>2
  <2>7. OwnedInv'
    BY <1>1, <2>5, <2>6, OwnedByPhase
  <2> QED
    BY <1>1, <2>4, <2>7 DEF Kept, OutShape
<1> QED
  BY <1>2, <1>3

\* A step of the run itself, or of the operator who stops it.
LEMMA RunStepOrders ==
  ASSUME StructInv, ReadyInv, OrderInv, RunStep \/ Stop
  PROVE  Kept
<1>1. /\ TypeOK /\ OwnedInv /\ OutShape /\ RunInv /\ Main \in Scopes /\ RegionInv(Main)
  BY MainIsScope DEF StructInv, OrderInv
<1>2. ASSUME UNCHANGED <<flow, regionVars, nodeVars>> PROVE Kept
  <2>1. UNCHANGED <<flow, node, out, region, pending, todo, ready>>
    BY <1>2 DEF regionVars, nodeVars
  <2> QED
    BY <2>1, IdleOrders
<1>3. CASE Begin
  <2>1. run = "off" /\ LoopHead(Main, Scheduled(Main)) /\ UNCHANGED <<flow, out>>
    BY <1>3 DEF Begin, Scheduled
  <2>2. Passing(Main, Scheduled(Main), Scheduled(Main), {}) /\ todo[Main] \subseteq Scheduled(Main)
    BY <1>1, <2>1, RegionStands DEF RunInv
  <2>3. RegionMoves(Main)
    BY <1>1, <2>1, <2>2, LoopHeadStep
  <2>4. MainMoves /\ OwnedInv'
    BY <1>1, <2>1, <2>2, <2>3, MainHead, RegionMovesOwned
  <2> QED
    BY <1>1, <2>1, <2>4 DEF Kept, OutShape
<1>4. CASE Conclude \/ Sweep
  BY <1>2, <1>4 DEF Conclude, Sweep
<1>5. CASE Finish
  <2>1. UNCHANGED <<flow, regionVars, out, loopVars>> /\ (node' = node \/ (node' = Cancelled /\ gate' = NoNode))
    BY <1>5 DEF Finish, Leave
  <2> QED
    BY <1>2, <2>1, CancelledOrders DEF nodeVars
<1>6. CASE Stop
  BY <1>6, CancelledOrders DEF Stop
<1> QED
  BY <1>3, <1>4, <1>5, <1>6 DEF RunStep

\* Nothing is decided where nothing has begun.
Cleared ==
    /\ flow \in Flows /\ region = [s \in Scopes |-> "off"] /\ ready = [s \in Scopes |-> {}]
    /\ node = [s \in Scopes |-> [n \in Nodes |-> "pending"]]
    /\ out = [s \in Scopes |-> [n \in Nodes |-> {}]]

LEMMA ClearedOrders == Cleared => OrderInv
<1> SUFFICES ASSUME Cleared PROVE OrderInv
  OBVIOUS
<1> USE DEF Cleared
<1>1. /\ region[Main] = "off" /\ ready[Main] = {} /\ LoopOwned \subseteq Nodes
      /\ \A n \in Nodes : node[Main][n] = "pending"
  BY MainIsScope, FlowFacts, Wiring DEF LoopOwned
<1>2. LoopPhase = "pending" /\ Scheduled(Main) \subseteq Nodes
  BY <1>1, FlowFacts, ScheduledAreNodes DEF LoopPhase
<1>3. OutShape
  BY DEF OutShape
<1>4. OwnedInv
  BY <1>1, <1>2 DEF OwnedInv
<1>5. FedInv /\ SkipInv
  BY <1>1, <1>2 DEF FedInv, SkipInv
<1> QED
  BY <1>3, <1>4, <1>5 DEF OrderInv

\* The same after a restart.
LEMMA ClearedAgain == Cleared' => OrderInv'
  BY ClearedOrders, PTL

\* Every step.
LEMMA StepOrders == FlowInv /\ OrderInv /\ [Next]_vars => OrderInv'
<1> SUFFICES ASSUME FlowInv, OrderInv, [Next]_vars PROVE OrderInv'
  OBVIOUS
<1>1. StructInv /\ ReadyInv /\ TypeOK /\ flow \in Flows
  BY DEF FlowInv, StructInv, TypeOK
<1>2. ASSUME Kept PROVE OrderInv'
  BY <1>1, <1>2, MovesKeepOrder DEF Kept, OrderInv
<1>3. CASE Crash
  <2>1. Cleared'
    BY <1>1, <1>3 DEF Crash, Cleared
  <2> QED
    BY <2>1, ClearedAgain
<1>4. CASE UNCHANGED vars
  BY <1>1, <1>2, <1>4, IdleOrders DEF vars, regionVars, nodeVars
<1>5. CASE RunStep \/ Stop
  BY <1>1, <1>2, <1>5, RunStepOrders
<1>6. CASE LoopStep
  BY <1>1, <1>2, <1>6, LoopStepOrders
<1>7. CASE \E s \in Scopes : RegionStep(s) \/ (\E n \in Nodes : NodeStep(s, n) \/ Answer(s, n))
  BY <1>1, <1>2, <1>7, RegionStepOrders, NodeStepOrders
<1> QED
  BY <1>3, <1>4, <1>5, <1>6, <1>7 DEF Next

\* The inductive invariant: FlowInv, and who was fed, skipped and decided in what order.
THEOREM OrderInvariant == Spec => [](FlowInv /\ OrderInv)
<1>1. Init => OrderInv
  BY ClearedOrders DEF Init, Cleared
<1>2. FlowInv /\ OrderInv /\ [Next]_vars => OrderInv'
  BY StepOrders
<1> QED
  BY <1>1, <1>2, FlowInvariant, PTL DEF Spec

\* A wire into a node of the outer graph carries a value to the scheduler exactly when it
\* does so in the graph: none comes out of a loop's body.
LEMMA CarriesWhatSatisfies ==
  ASSUME flow \in Flows, NEW n \in InFlow \ LoopOwned
  PROVE  Unfed(Main, n) <=> ~FedFrom(Executed, n)
<1>1. Incoming(Main, n) = {e \in flow.edges : e.dst = n}
  BY FlowFacts DEF Incoming, RegionOf
<1>2. ASSUME NEW e \in Incoming(Main, n) PROVE Satisfied(Main, e) <=> Carries(Executed, e)
  <2>1. flow.loop = NoNode => Body = {}
    BY FlowFacts
  <2>2. e.src \in InFlow \ Body
    BY <1>1, <1>2, <2>1, FlowFacts, Wiring DEF LoopOwned
  <2>3. View(Main, e.src) = Status(node[Main][e.src]) /\ Filled(Main, e.src) = out[Main][e.src]
    BY DEF View, Filled, Status
  <2> QED
    BY <2>2, <2>3 DEF Satisfied, Carries, Executed
<1> DEFINE edges  == {e \in flow.edges : e.dst = n}
           gating == {p \in {e.in : e \in edges} : <<n, p>> \in flow.required \union flow.signals}
<1>3. Unfed(Main, n) <=> \/ edges # {} /\ ~(\E e \in edges : Carries(Executed, e))
                         \/ \E p \in gating : ~(\E e \in edges : e.in = p /\ Carries(Executed, e))
  BY <1>1, <1>2 DEF Unfed
<1>4. FedFrom(Executed, n) <=> /\ edges = {} \/ \E e \in edges : Carries(Executed, e)
                               /\ \A p \in gating : \E e \in edges : e.in = p /\ Carries(Executed, e)
  BY DEF FedFrom
<1> HIDE DEF edges, gating
<1> QED
  BY <1>3, <1>4

\* What a region that is done has executed accounts for itself, and in a sorted run for no more.
LEMMA DoneAccounts ==
  ASSUME StructInv, OrderInv, region[Main] = "done"
  PROVE  /\ Executed \in SUBSET (InFlow \ Body) /\ Executed \subseteq TakenFrom(Executed)
         /\ Sorted => Executed = TakenFrom(Executed)
<1>1. /\ flow \in Flows /\ OwnedInv /\ FedInv /\ SkipInv /\ Main \in Scopes /\ RegionInv(Main)
  BY MainIsScope DEF StructInv, TypeOK, OrderInv
<1>2. \A m \in Scheduled(Main) : node[Main][m] \in Decided
  BY <1>1 DEF RegionInv, Waits, Accounted, Begun
<1>3. \A m \in InFlow \ Body : m \in Executed <=> node[Main][m] = "success"
  <2>1. \A m \in InFlow : node[Main][m] \in {"pending", "success", "skipped"}
    BY <1>1, DoneIsQuiet, FlowFacts
  <2>2. Status("pending") = "pending" /\ Status("success") = "success" /\ Status("skipped") = "skipped"
    BY DEF Status, Executing
  <2> QED
    BY <2>1, <2>2 DEF Executed
<1>4. Executed \in SUBSET (InFlow \ Body) /\ TakenFrom(Executed) \subseteq InFlow \ Body
  BY DEF Executed, TakenFrom
<1>5. ASSUME NEW n \in InFlow \ Body, n = flow.collect
      PROVE  n \in Executed <=> flow.loop \in Executed
  <2>1. flow.loop # NoNode /\ flow.loop \in InFlow \ Body /\ flow.loop \in Scheduled(Main) /\ n \in LoopOwned
    BY <1>1, <1>5, FlowFacts, Wiring, ScheduledAreNodes DEF LoopOwned
  <2>2. LoopPhase = node[Main][flow.loop] /\ LoopPhase \in Decided
    BY <1>2, <2>1 DEF LoopPhase
  <2>3. node[Main][n] = "success" <=> LoopPhase = "success"
    BY <1>1, <1>5, <2>1, <2>2 DEF OwnedInv, Decided
  <2> QED
    BY <1>3, <2>1, <2>2, <2>3
<1>6. ASSUME NEW n \in InFlow \ Body, n # flow.collect
      PROVE  /\ n \in Executed => FedFrom(Executed, n)
             /\ Sorted /\ n \notin Executed => ~FedFrom(Executed, n)
  <2>1. n \in InFlow \ LoopOwned /\ n \in Scheduled(Main)
    BY <1>6 DEF LoopOwned, Scheduled
  <2>2. Unfed(Main, n) <=> ~FedFrom(Executed, n)
    BY <1>1, <2>1, CarriesWhatSatisfies
  <2>3. node[Main][n] = "success" => ~Unfed(Main, n)
    BY <1>1, <2>1 DEF FedInv, Fed
  <2>4. Sorted /\ node[Main][n] = "skipped" => Unfed(Main, n)
    BY <1>1, <2>1 DEF SkipInv, Dead
  <2> QED
    BY <1>2, <1>3, <2>1, <2>2, <2>3, <2>4 DEF Decided
<1>7. Executed \subseteq TakenFrom(Executed)
  BY <1>4, <1>5, <1>6 DEF TakenFrom
<1>8. ASSUME Sorted PROVE TakenFrom(Executed) \subseteq Executed
  BY <1>5, <1>6, <1>8 DEF TakenFrom
<1> QED
  BY <1>4, <1>7, <1>8

\* Two sets that account for themselves and agree with the graph are one.
LEMMA DoneRuns ==
  ASSUME StructInv, OrderInv, run = "finishing"
  PROVE  Executed \subseteq Taken /\ (Sorted => Executed = Taken)
<1>1. region[Main] = "done" /\ flow \in Flows
  BY DEF StructInv, RunInv, TypeOK
<1>2. /\ Executed \in SUBSET (InFlow \ Body) /\ Executed \subseteq TakenFrom(Executed)
      /\ Sorted => Executed = TakenFrom(Executed)
  BY <1>1, DoneAccounts
<1>3. Taken \in SUBSET (InFlow \ Body) /\ Taken = TakenFrom(Taken)
  BY TakenAgrees
<1>4. Executed \subseteq Taken
  BY <1>1, <1>2, <1>3, FirstDisagreement
<1>5. Sorted => Taken \subseteq Executed
  BY <1>1, <1>2, <1>3, FirstDisagreement
<1> QED
  BY <1>4, <1>5

\* Whatever its document, its loop, the order in which branches finish and the writes that
\* are refused: a successful run has executed no node that the graph does not take (settle(),
\* executeRegion(), runLoop()).
THEOREM NothingElseRuns == Spec => [](run = "finishing" => Executed \subseteq Taken)
<1>1. FlowInv /\ OrderInv => (run = "finishing" => Executed \subseteq Taken)
  BY DoneRuns DEF FlowInv
<1> QED
  BY <1>1, OrderInvariant, PTL

\* And it has executed every node that is taken, unless the document lists a node before one
\* it waits for or the run has skipped its loop: in both cases executeRegion() may come to a
\* pass that finds nobody ready, and skips all that is left.
THEOREM TakenRuns == Spec => [](ListedInOrder /\ LoopPhase # "skipped" => RunsExactlyTheTaken)
<1>1. FlowInv /\ OrderInv => (ListedInOrder /\ LoopPhase # "skipped" => RunsExactlyTheTaken)
  BY DoneRuns DEF FlowInv, RunsExactlyTheTaken, Sorted
<1> QED
  BY <1>1, OrderInvariant, PTL
=============================================================================
