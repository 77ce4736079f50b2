--------------------------- MODULE GpuBrokerProofs ---------------------------
(***************************************************************************)
(* Proofs about GpuBroker, for any number of services, clients and pumps:   *)
(* whatever Docker refuses and whichever containers die, the count a swap   *)
(* waits on is right, a service is stopped when nobody uses it, no waiter is*)
(* forgotten, the mutex holds but for containers that were given up, and    *)
(* all of it together implements GpuLane.                                   *)
(***************************************************************************)
EXTENDS GpuBroker, FiniteSetTheorems, SequenceTheorems, TLAPS

BrokerTyped ==
    /\ running \in [Services -> BOOLEAN] /\ stray \subseteq Services
    /\ active \in Services \cup {NoSvc} /\ admitting \in BOOLEAN
    /\ queue \in Seq(Requests) /\ inflight \in [Services -> Nat]
    /\ pump \in [Pumps -> PumpPc] /\ cur \in [Pumps -> Requests \cup {NoReq}]
    /\ unloading \in Services \cup {NoSvc} /\ req \in [Requests -> ReqPc]

\* One admission at a time, or one idle stop, and `admitting` says so.
OneAdmission ==
    /\ \A p, q \in Pumps : pump[p] # "idle" /\ pump[q] # "idle" => p = q
    /\ \A p \in Pumps : pump[p] # "idle" => admitting /\ unloading = NoSvc
    /\ unloading # NoSvc => admitting

\* Where a pump has a waiter in hand: while the other service is loaded, and after.
Leaving  == {"drain", "grace", "stop", "settle"}
Bringing == {"inspect", "start", "probe"}

\* A waiter is in the queue once, or in the hands of the pump, never both.
WaitersOnce ==
    /\ \A i \in 1..Len(queue) : req[queue[i]] = "queued"
    /\ \A i, j \in 1..Len(queue) : queue[i] = queue[j] => i = j
    /\ \A p \in Pumps : pump[p] \in Leaving \cup Bringing =>
          /\ cur[p] \in Requests /\ req[cur[p]] = "queued"
          /\ \A i \in 1..Len(queue) : queue[i] # cur[p]

\* Whom the pump or the idle stop turns out is loaded, another, and serves nobody.
Outgoing ==
    /\ \A p \in Pumps : pump[p] \in Leaving => active \notin {NoSvc, SvcOf[cur[p]]}
    /\ \A p \in Pumps : pump[p] \in Leaving \ {"drain"} => Served(active) = {}
    /\ \A p \in Pumps : pump[p] \in Bringing => active \in {NoSvc, SvcOf[cur[p]]}
    /\ unloading # NoSvc => active = unloading /\ Served(active) = {}

\* What runs is loaded, about to be, or was given up.
Accounted ==
    /\ \A s \in Services : running[s] =>
          \/ s \in stray \/ s = active
          \/ \E p \in Pumps : pump[p] = "probe" /\ SvcOf[cur[p]] = s
    /\ \A p \in Pumps : pump[p] = "settle" => ~running[active]

BrokerInv ==
    /\ BrokerTyped /\ OneAdmission /\ WaitersOnce /\ Outgoing /\ Accounted
    /\ InflightExact /\ ServedByActive /\ NoForgottenWaiter
-----------------------------------------------------------------------------
LEMMA SpliceLemma ==
  ASSUME NEW S, NEW q \in Seq(S), NEW i \in 1..Len(q)
  PROVE  /\ Splice(q, i) \in Seq(S)
         /\ Len(Splice(q, i)) = Len(q) - 1
         /\ \A j \in 1..(Len(q) - 1) : Splice(q, i)[j] = IF j < i THEN q[j] ELSE q[j + 1]
<1> DEFINE before == SubSeq(q, 1, i - 1)
           after  == SubSeq(q, i + 1, Len(q))
<1>1. Len(q) \in Nat /\ \A j \in 1..Len(q) : q[j] \in S
  BY LenProperties, ElementOfSeq
<1>2. /\ before \in Seq(S) /\ Len(before) = i - 1
      /\ \A j \in 1..(i - 1) : before[j] = q[j]
  BY <1>1, SubSeqProperties
<1>3. /\ after \in Seq(S) /\ Len(after) = Len(q) - i
      /\ \A j \in 1..(Len(q) - i) : after[j] = q[j + i]
  <2>1. \A j \in (i + 1)..Len(q) : q[j] \in S
    BY <1>1
  <2>2. /\ after \in Seq(S)
        /\ Len(after) = IF i + 1 <= Len(q) THEN Len(q) - (i + 1) + 1 ELSE 0
        /\ \A j \in 1..(Len(q) - (i + 1) + 1) : after[j] = q[(i + 1) + j - 1]
    BY <1>1, <2>1, SubSeqProperties
  <2>3. \A j \in 1..(Len(q) - i) : j \in 1..(Len(q) - (i + 1) + 1) /\ (i + 1) + j - 1 = j + i
    BY <1>1
  <2>4. Len(after) = Len(q) - i
    BY <1>1, <2>2
  <2> QED
    BY <2>2, <2>3, <2>4
<1> HIDE DEF before, after
<1>4. /\ before \o after \in Seq(S) /\ Len(before \o after) = Len(q) - 1
      /\ \A j \in 1..(Len(q) - 1) :
            (before \o after)[j] = IF j <= i - 1 THEN before[j] ELSE after[j - (i - 1)]
  <2>1. /\ before \o after \in Seq(S) /\ Len(before \o after) = Len(before) + Len(after)
        /\ \A j \in 1..(Len(before) + Len(after)) :
              (before \o after)[j] = IF j <= Len(before) THEN before[j] ELSE after[j - Len(before)]
    BY <1>2, <1>3, ConcatProperties, Zenon
  <2>2. Len(before) + Len(after) = Len(q) - 1
    BY <1>1, <1>2, <1>3
  <2>3. Len(before) = i - 1
    BY <1>2
  <2> QED
    BY <2>1, <2>2, <2>3, Zenon
<1>5. \A j \in 1..(Len(q) - 1) : (before \o after)[j] = IF j < i THEN q[j] ELSE q[j + 1]
  <2> SUFFICES ASSUME NEW j \in 1..(Len(q) - 1)
               PROVE  (before \o after)[j] = IF j < i THEN q[j] ELSE q[j + 1]
    OBVIOUS
  <2> DEFINE both == before \o after
  <2>0. \A k \in 1..(Len(q) - 1) : both[k] = IF k <= i - 1 THEN before[k] ELSE after[k - (i - 1)]
    BY <1>4
  <2> HIDE DEF both
  <2>1. CASE j < i
    <3>1. j <= i - 1 /\ j \in 1..(i - 1)
      BY <1>1, <2>1
    <3> QED
      BY <1>2, <2>0, <2>1, <3>1 DEF both
  <2>2. CASE j >= i
    <3>1. j - (i - 1) \in 1..(Len(q) - i) /\ (j - (i - 1)) + i = j + 1 /\ ~(j <= i - 1)
      BY <1>1, <2>2
    <3>2. after[j - (i - 1)] = q[(j - (i - 1)) + i]
      BY <1>3, <3>1
    <3>3. both[j] = after[j - (i - 1)] /\ ~(j < i)
      BY <2>0, <2>2, <3>1
    <3>4. both[j] = q[j + 1]
      BY <3>1, <3>2, <3>3
    <3> QED
      BY <3>3, <3>4 DEF both
  <2>3. j < i \/ j >= i
    BY <1>1
  <2> QED
    BY <2>1, <2>2, <2>3, Zenon
<1> QED
  BY <1>4, <1>5 DEF Splice, before, after

\* Taking a waiter out of a queue that holds it once leaves the others in it.
LEMMA SpliceOnce ==
  ASSUME NEW q \in Seq(Requests), NEW i \in 1..Len(q),
         \A j, k \in 1..Len(q) : q[j] = q[k] => j = k
  PROVE  LET rest == Splice(q, i)
         IN  /\ rest \in Seq(Requests)
             /\ \A j \in 1..Len(rest) : rest[j] # q[i] /\ \E k \in 1..Len(q) : rest[j] = q[k]
             /\ \A j, k \in 1..Len(rest) : rest[j] = rest[k] => j = k
<1> DEFINE rest == Splice(q, i)
<1>1. /\ rest \in Seq(Requests) /\ Len(rest) = Len(q) - 1 /\ Len(q) \in Nat
      /\ \A j \in 1..(Len(q) - 1) : rest[j] = IF j < i THEN q[j] ELSE q[j + 1]
  BY SpliceLemma, LenProperties
<1> HIDE DEF rest
<1> DEFINE from(j) == IF j < i THEN j ELSE j + 1
<1>2. \A j \in 1..Len(rest) : from(j) \in 1..Len(q) /\ from(j) # i /\ rest[j] = q[from(j)]
  BY <1>1
<1>3. \A j, k \in 1..Len(rest) : from(j) = from(k) => j = k
  BY <1>1
<1> HIDE DEF from
<1>4. \A j \in 1..Len(rest) : rest[j] # q[i] /\ \E k \in 1..Len(q) : rest[j] = q[k]
  BY <1>2
<1>5. \A j, k \in 1..Len(rest) : rest[j] = rest[k] => j = k
  BY <1>2, <1>3
<1> QED
  BY <1>1, <1>4, <1>5 DEF rest

LEMMA ServedFinite ==
  ASSUME NEW s
  PROVE  /\ IsFiniteSet(Served(s)) /\ Cardinality(Served(s)) \in Nat
         /\ Cardinality(Served(s)) = 0 <=> Served(s) = {}
<1>1. Served(s) \subseteq Requests
  BY DEF Served
<1> QED
  BY <1>1, BrokerAssumption, FS_Subset, FS_CardinalityType, FS_EmptySet

\* Whoever is served is not concerned by steps of those who are not.
LEMMA ServedKept ==
  ASSUME \A r \in Requests : req'[r] \in {"open", "retry"} <=> req[r] \in {"open", "retry"}, NEW s
  PROVE  Served(s)' = Served(s)
  BY DEF Served

LEMMA InitInv == Init => BrokerInv
<1> SUFFICES ASSUME Init PROVE BrokerInv
  OBVIOUS
<1>1. \A s : Served(s) = {}
  BY DEF Init, Served
<1>2. BrokerTyped
  <2>1. /\ inflight \in [Services -> Nat] /\ pump \in [Pumps -> PumpPc]
        /\ cur \in [Pumps -> Requests \cup {NoReq}] /\ req \in [Requests -> ReqPc]
    BY DEF Init, PumpPc, ReqPc
  <2>2. queue \in Seq(Requests)
    BY EmptySeq DEF Init
  <2> QED
    BY <2>1, <2>2 DEF Init, BrokerTyped
<1>3. OneAdmission /\ Outgoing /\ Accounted /\ NoForgottenWaiter
  BY DEF Init, OneAdmission, Outgoing, Accounted, NoForgottenWaiter, Leaving, Bringing
<1>4. WaitersOnce
  BY EmptySeq DEF Init, WaitersOnce, Leaving, Bringing
<1>5. InflightExact
  BY <1>1, FS_EmptySet DEF Init, InflightExact
<1>6. ServedByActive
  BY <1>1 DEF ServedByActive
<1> QED
  BY <1>2, <1>3, <1>4, <1>5, <1>6 DEF BrokerInv
-----------------------------------------------------------------------------
(* The pump, which is alone.                                                *)

LEMMA PumpMoves ==
  ASSUME BrokerInv, NEW p \in Pumps, pump[p] # "idle", NEW to \in PumpPc, to # "idle",
         PumpTo(p, to), UNCHANGED <<admitting, unloading>>
  PROVE  /\ pump' \in [Pumps -> PumpPc] /\ OneAdmission' /\ NoForgottenWaiter'
         /\ unloading' = NoSvc /\ unloading' \in Services \cup {NoSvc} /\ admitting' \in BOOLEAN
         /\ pump'[p] = to
         /\ \A q \in Pumps : q # p => pump[q] = "idle" /\ pump'[q] = "idle"
<1>1. BrokerTyped /\ OneAdmission
  BY DEF BrokerInv
<1>2. /\ pump' \in [Pumps -> PumpPc] /\ pump'[p] = to
      /\ \A q \in Pumps : q # p => pump[q] = "idle" /\ pump'[q] = "idle"
  BY <1>1 DEF PumpTo, BrokerTyped, OneAdmission
<1>3. admitting /\ unloading = NoSvc
  BY <1>1 DEF OneAdmission
<1>4. OneAdmission'
  BY <1>2, <1>3 DEF OneAdmission
<1>5. NoForgottenWaiter'
  BY <1>3 DEF NoForgottenWaiter
<1> QED
  BY <1>1, <1>2, <1>3, <1>4, <1>5 DEF BrokerTyped

\* A step of the swap: the waiter stays in hand, and nobody's request moves.
LEMMA Swaps ==
  ASSUME BrokerInv, NEW p \in Pumps, pump[p] \in Leaving \cup Bringing,
         NEW to \in Leaving \cup Bringing, PumpTo(p, to),
         UNCHANGED <<queue, admitting, cur, unloading, inflight, req>>,
         active' \in Services \cup {NoSvc}, running' \in [Services -> BOOLEAN],
         stray' \subseteq Services,
         active' = active \/ (active' = NoSvc /\ Served(active) = {}),
         to \in Leaving => active' \notin {NoSvc, SvcOf[cur[p]]},
         to \in Leaving \ {"drain"} => Served(active) = {},
         to \in Bringing => active' \in {NoSvc, SvcOf[cur[p]]},
         \A s \in Services : running'[s] =>
            s \in stray' \/ s = active' \/ (to = "probe" /\ SvcOf[cur[p]] = s),
         to = "settle" => ~running'[active']
  PROVE  BrokerInv'
<1>1. /\ BrokerTyped /\ WaitersOnce /\ InflightExact /\ ServedByActive
      /\ UNCHANGED <<queue, cur, req, inflight>>
  BY DEF BrokerInv
<1>2. pump[p] # "idle" /\ to \in PumpPc /\ to # "idle"
  BY DEF Leaving, Bringing, PumpPc
<1>3. /\ pump' \in [Pumps -> PumpPc] /\ OneAdmission' /\ NoForgottenWaiter'
      /\ unloading' = NoSvc /\ unloading' \in Services \cup {NoSvc} /\ admitting' \in BOOLEAN
      /\ pump'[p] = to
      /\ \A q \in Pumps : q # p => pump[q] = "idle" /\ pump'[q] = "idle"
  BY <1>2, PumpMoves
<1>4. \A q \in Pumps : pump'[q] \in Leaving \cup Bringing => q = p
  BY <1>3 DEF Leaving, Bringing
<1>5. BrokerTyped'
  BY <1>1, <1>3 DEF BrokerTyped
<1>6. WaitersOnce'
  BY <1>1, <1>4 DEF WaitersOnce
<1>7. \A s : Served(s)' = Served(s)
  BY <1>1, ServedKept
<1>8. InflightExact'
  BY <1>1, <1>7 DEF InflightExact
<1>9. ServedByActive'
  BY <1>1, <1>7 DEF ServedByActive
<1>10. Outgoing'
  <2>1. active' = active => (Served(active) = {} => Served(active)' = {})
    BY <1>1 DEF Served
  <2>2. to \in Leaving => active' = active
    OBVIOUS
  <2> QED
    BY <1>1, <1>3, <1>4, <2>1, <2>2 DEF Outgoing
<1>11. Accounted'
  <2>1. \A s \in Services : running'[s] =>
            s \in stray' \/ s = active' \/ (pump'[p] = "probe" /\ SvcOf[cur'[p]] = s)
    BY <1>1, <1>3
  <2>2. \A q \in Pumps : pump'[q] = "settle" => ~running'[active']
    BY <1>3, <1>4 DEF Leaving
  <2> QED
    BY <2>1, <2>2 DEF Accounted
<1> QED
  BY <1>3, <1>5, <1>6, <1>8, <1>9, <1>10, <1>11 DEF BrokerInv

\* ensureLoaded() threw.
LEMMA Rejects ==
  ASSUME BrokerInv, NEW p \in Pumps, pump[p] \in Leaving \cup Bringing, Reject(p),
         active' = active, running' \in [Services -> BOOLEAN], stray' \subseteq Services,
         \A s \in Services : running'[s] => s \in stray' \/ s = active
  PROVE  BrokerInv'
<1>1. /\ BrokerTyped /\ WaitersOnce /\ InflightExact /\ ServedByActive
      /\ UNCHANGED <<queue, inflight>> /\ PumpTo(p, "pick")
      /\ req' = [req EXCEPT ![cur[p]] = "idle"] /\ cur' = [cur EXCEPT ![p] = NoReq]
      /\ UNCHANGED <<admitting, unloading>>
  BY DEF BrokerInv, Reject
<1>2. pump[p] # "idle" /\ "pick" \in PumpPc /\ "pick" # "idle" /\ "pick" \notin Leaving \cup Bringing
  BY DEF Leaving, Bringing, PumpPc
<1>3. /\ pump' \in [Pumps -> PumpPc] /\ OneAdmission' /\ NoForgottenWaiter'
      /\ unloading' = NoSvc /\ unloading' \in Services \cup {NoSvc} /\ admitting' \in BOOLEAN
      /\ pump'[p] = "pick"
      /\ \A q \in Pumps : q # p => pump[q] = "idle" /\ pump'[q] = "idle"
  BY <1>1, <1>2, PumpMoves
<1>4. \A q \in Pumps : pump'[q] \notin Leaving \cup Bringing
  BY <1>2, <1>3 DEF Leaving, Bringing
<1>5. /\ cur[p] \in Requests /\ req[cur[p]] = "queued"
      /\ \A i \in 1..Len(queue) : queue[i] # cur[p]
  BY <1>1 DEF WaitersOnce
<1>6. BrokerTyped'
  <2>1. req' \in [Requests -> ReqPc] /\ cur' \in [Pumps -> Requests \cup {NoReq}]
    BY <1>1 DEF BrokerTyped, ReqPc
  <2> QED
    BY <1>1, <1>3, <2>1 DEF BrokerTyped
<1>7. WaitersOnce'
  <2>1. \A i \in 1..Len(queue) : queue[i] \in Requests
    BY <1>1, ElementOfSeq DEF BrokerTyped
  <2>2. \A r \in Requests : r # cur[p] => req'[r] = req[r]
    BY <1>1 DEF BrokerTyped
  <2> QED
    BY <1>1, <1>4, <1>5, <2>1, <2>2 DEF WaitersOnce
<1>8. \A s : Served(s)' = Served(s)
  <2>1. \A r \in Requests : req'[r] \in {"open", "retry"} <=> req[r] \in {"open", "retry"}
    BY <1>1, <1>5 DEF BrokerTyped
  <2> QED
    BY <2>1, ServedKept
<1>9. InflightExact' /\ ServedByActive'
  BY <1>1, <1>8 DEF InflightExact, ServedByActive
<1>10. Outgoing' /\ Accounted'
  BY <1>3, <1>4 DEF Outgoing, Accounted, Leaving
<1> QED
  BY <1>3, <1>6, <1>7, <1>9, <1>10 DEF BrokerInv

\* A waiter that is in the queue no more gets its slot on the service that is loaded.
LEMMA Admits ==
  ASSUME BrokerInv, NEW p \in Pumps, pump[p] # "idle", NEW r \in Requests, req[r] = "queued",
         Admit(p, r), active' = SvcOf[r], \A s \in Services : s # active' => Served(s) = {},
         queue' \in Seq(Requests),
         \A i \in 1..Len(queue') : queue'[i] # r /\ req[queue'[i]] = "queued",
         \A i, j \in 1..Len(queue') : queue'[i] = queue'[j] => i = j,
         running' = running, stray' \subseteq Services,
         \A s \in Services : running[s] => s \in stray' \/ s = active'
  PROVE  BrokerInv'
<1>1. /\ BrokerTyped /\ InflightExact /\ UNCHANGED <<admitting, unloading>> /\ PumpTo(p, "pick")
      /\ inflight' = [inflight EXCEPT ![SvcOf[r]] = @ + 1]
      /\ req' = [req EXCEPT ![r] = "open"] /\ cur' = [cur EXCEPT ![p] = NoReq]
      /\ SvcOf[r] \in Services
  BY BrokerAssumption DEF BrokerInv, Admit
<1>2. "pick" \in PumpPc /\ "pick" # "idle" /\ "pick" \notin Leaving \cup Bringing
  BY DEF Leaving, Bringing, PumpPc
<1>3. /\ pump' \in [Pumps -> PumpPc] /\ OneAdmission' /\ NoForgottenWaiter'
      /\ unloading' = NoSvc /\ unloading' \in Services \cup {NoSvc} /\ admitting' \in BOOLEAN
      /\ pump'[p] = "pick"
      /\ \A q \in Pumps : q # p => pump[q] = "idle" /\ pump'[q] = "idle"
  BY <1>1, <1>2, PumpMoves
<1>4. \A q \in Pumps : pump'[q] \notin Leaving \cup Bringing
  BY <1>2, <1>3 DEF Leaving, Bringing
<1>5. BrokerTyped'
  <2>1. /\ req' \in [Requests -> ReqPc] /\ cur' \in [Pumps -> Requests \cup {NoReq}]
        /\ inflight' \in [Services -> Nat]
    BY <1>1 DEF BrokerTyped, ReqPc
  <2> QED
    BY <1>1, <1>3, <2>1 DEF BrokerTyped
<1>6. WaitersOnce'
  <2>1. \A i \in 1..Len(queue') : queue'[i] \in Requests
    BY ElementOfSeq
  <2>2. \A q \in Requests : q # r => req'[q] = req[q]
    BY <1>1 DEF BrokerTyped
  <2> QED
    BY <1>4, <2>1, <2>2 DEF WaitersOnce
<1>7. /\ Served(SvcOf[r])' = Served(SvcOf[r]) \cup {r} /\ r \notin Served(SvcOf[r])
      /\ \A s : s # SvcOf[r] => Served(s)' = Served(s)
  BY <1>1 DEF BrokerTyped, Served
<1>8. InflightExact'
  <2> SUFFICES ASSUME NEW s \in Services PROVE inflight'[s] = Cardinality(Served(s)')
    BY DEF InflightExact
  <2>1. inflight[s] = Cardinality(Served(s))
    BY <1>1 DEF InflightExact
  <2>2. CASE s = SvcOf[r]
    <3>1. Cardinality(Served(s)') = Cardinality(Served(s)) + 1
      BY <1>7, <2>2, ServedFinite, FS_AddElement
    <3>2. inflight'[s] = inflight[s] + 1
      BY <1>1, <2>2 DEF BrokerTyped
    <3> QED
      BY <2>1, <3>1, <3>2
  <2>3. CASE s # SvcOf[r]
    BY <1>1, <1>7, <2>1, <2>3 DEF BrokerTyped
  <2> QED
    BY <2>2, <2>3
<1>9. ServedByActive'
  BY <1>7 DEF ServedByActive
<1>10. Outgoing' /\ Accounted'
  BY <1>3, <1>4 DEF Outgoing, Accounted, Leaving
<1> QED
  BY <1>3, <1>5, <1>6, <1>8, <1>9, <1>10 DEF BrokerInv

\* What holds of a pump with a waiter in hand, the others being idle.
LEMMA InHand ==
  ASSUME BrokerInv, NEW p \in Pumps, pump[p] # "idle"
  PROVE  /\ BrokerTyped /\ NoSvc \notin Services /\ SvcOf \in [Requests -> Services]
         /\ \A q \in Pumps : q # p => pump[q] = "idle"
         /\ \A s \in Services : running[s] =>
               s \in stray \/ s = active \/ (pump[p] = "probe" /\ s = SvcOf[cur[p]])
         /\ \A s \in Services : Served(s) # {} => active = s
         /\ pump[p] \in Leaving \cup Bringing =>
               /\ cur[p] \in Requests /\ req[cur[p]] = "queued" /\ SvcOf[cur[p]] \in Services
               /\ \A i \in 1..Len(queue) : queue[i] # cur[p]
         /\ pump[p] \in Leaving => active \in Services \ {SvcOf[cur[p]]}
         /\ pump[p] \in Leaving \ {"drain"} => Served(active) = {}
         /\ pump[p] \in Bringing => active \in {NoSvc, SvcOf[cur[p]]}
<1>1. BrokerTyped /\ OneAdmission /\ WaitersOnce /\ Outgoing /\ Accounted /\ ServedByActive
  BY DEF BrokerInv
<1>2. \A q \in Pumps : q # p => pump[q] = "idle"
  BY <1>1 DEF OneAdmission
<1>3. \A s \in Services : running[s] =>
         s \in stray \/ s = active \/ (pump[p] = "probe" /\ s = SvcOf[cur[p]])
  BY <1>1, <1>2 DEF Accounted
<1>4. pump[p] \in Leaving \cup Bringing =>
         /\ cur[p] \in Requests /\ req[cur[p]] = "queued" /\ SvcOf[cur[p]] \in Services
         /\ \A i \in 1..Len(queue) : queue[i] # cur[p]
  BY <1>1, BrokerAssumption DEF WaitersOnce
<1>5. /\ pump[p] \in Leaving => active \in Services \ {SvcOf[cur[p]]}
      /\ pump[p] \in Leaving \ {"drain"} => Served(active) = {}
      /\ pump[p] \in Bringing => active \in {NoSvc, SvcOf[cur[p]]}
  BY <1>1 DEF Outgoing, BrokerTyped
<1> QED
  BY <1>1, <1>2, <1>3, <1>4, <1>5, BrokerAssumption DEF ServedByActive

LEMMA SwapSteps ==
  ASSUME BrokerInv, NEW p \in Pumps, Drained(p) \/ Commit(p) \/ Settle(p) PROVE BrokerInv'
<1>1. /\ pump[p] \in Leaving /\ pump[p] # "idle" /\ pump[p] # "probe"
      /\ UNCHANGED <<queue, admitting, cur, unloading, inflight, req, running, stray>>
  BY DEF Drained, Commit, Settle, Leaving, waitVars, servedVars, loadVars
<1>2. /\ BrokerTyped /\ NoSvc \notin Services /\ active \in Services \ {SvcOf[cur[p]]}
      /\ \A s \in Services : running[s] => s \in stray \/ s = active
      /\ pump[p] \in Leaving \ {"drain"} => Served(active) = {}
  BY <1>1, InHand
<1>3. CASE Drained(p)
  <2>1. Served(active) = {}
    <3>1. inflight[active] = 0
      BY <1>2, <1>3 DEF Drained, InflightOf
    <3> QED
      BY <1>2, <3>1, ServedFinite DEF BrokerInv, InflightExact
  <2>2. PumpTo(p, "grace") /\ "grace" \in Leaving /\ "grace" \notin Bringing /\ active' = active
    BY <1>3 DEF Drained, Leaving, Bringing, loadVars
  <2> QED
    BY <1>1, <1>2, <2>1, <2>2, Swaps DEF BrokerTyped
<1>4. CASE Commit(p)
  <2>1. Served(active) = {}
    BY <1>2, <1>4 DEF Commit, Leaving
  <2>2. PumpTo(p, "stop") /\ "stop" \in Leaving /\ "stop" \notin Bringing /\ active' = active
    BY <1>4 DEF Commit, Leaving, Bringing, loadVars
  <2> QED
    BY <1>1, <1>2, <2>1, <2>2, Swaps DEF BrokerTyped
<1>5. CASE Settle(p)
  <2>1. Served(active) = {} /\ ~running[active]
    BY <1>2, <1>5 DEF Settle, Leaving, BrokerInv, Accounted
  <2>2. PumpTo(p, "inspect") /\ "inspect" \notin Leaving /\ "inspect" \in Bringing /\ active' = NoSvc
    BY <1>5 DEF Settle, Leaving, Bringing
  <2> QED
    BY <1>1, <1>2, <2>1, <2>2, Swaps DEF BrokerTyped
<1> QED
  BY <1>3, <1>4, <1>5

LEMMA StopOutStep == ASSUME BrokerInv, NEW p \in Pumps, StopOut(p) PROVE BrokerInv'
<1>1. /\ pump[p] \in Leaving /\ pump[p] # "idle" /\ pump[p] # "probe" /\ pump[p] \in Leaving \ {"drain"}
      /\ active' = active
  BY DEF StopOut, Leaving
<1>2. /\ BrokerTyped /\ NoSvc \notin Services /\ active \in Services \ {SvcOf[cur[p]]}
      /\ \A s \in Services : running[s] => s \in stray \/ s = active
      /\ Served(active) = {}
  BY <1>1, InHand
<1>3. ASSUME Down(active)
      PROVE  /\ running' \in [Services -> BOOLEAN] /\ stray' \subseteq Services /\ ~running'[active]
             /\ \A s \in Services : running'[s] => s \in stray' \/ s = active
  BY <1>2, <1>3 DEF Down, BrokerTyped
<1>4. CASE Reject(p)
  <2>1. Down(active) \/ UNCHANGED <<running, stray>>
    BY DEF StopOut
  <2> QED
    BY <1>1, <1>2, <1>3, <1>4, <2>1, Rejects DEF BrokerTyped
<1>5. CASE ~Reject(p)
  <2>1. Down(active) /\ PumpTo(p, "settle") /\ UNCHANGED <<queue, admitting, cur, unloading, inflight, req>>
    BY <1>5 DEF StopOut, waitVars, servedVars
  <2>2. "settle" \in Leaving /\ "settle" \notin Bringing
    BY DEF Leaving, Bringing
  <2> QED
    BY <1>1, <1>2, <1>3, <2>1, <2>2, Swaps DEF BrokerTyped
<1> QED
  BY <1>4, <1>5

LEMMA BringSteps ==
  ASSUME BrokerInv, NEW p \in Pumps, Inspect(p) \/ StartUp(p) \/ GivesUp(p) PROVE BrokerInv'
<1>1. /\ pump[p] \in Bringing /\ pump[p] # "idle" /\ active' = active
  BY DEF Inspect, StartUp, GivesUp, Bringing, loadVars
<1> DEFINE s == SvcOf[cur[p]]
<1>2. /\ BrokerTyped /\ NoSvc \notin Services /\ active \in {NoSvc, s} /\ s \in Services
      /\ \A u \in Services : running[u] => u \in stray \/ u = active \/ (pump[p] = "probe" /\ u = s)
  BY <1>1, InHand
<1>3. "start" \in Bringing /\ "start" \notin Leaving /\ "probe" \in Bringing /\ "probe" \notin Leaving
  BY DEF Leaving, Bringing
<1>4. /\ running' \in [Services -> BOOLEAN] /\ stray' \subseteq Services
      /\ Inspect(p) => UNCHANGED <<running, stray>> /\ pump[p] # "probe"
  BY <1>2 DEF Inspect, StartUp, GivesUp, loadVars, BrokerTyped
<1>5. CASE Reject(p)
  <2>1. \A u \in Services : running'[u] => u \in stray' \/ u = active
    <3>1. CASE Inspect(p)
      BY <1>2, <1>4, <3>1
    <3>2. CASE StartUp(p)
      <4>1. pump[p] = "start" /\ ~PumpTo(p, "probe")
        BY <1>2, <1>5, <3>2 DEF StartUp, Reject, PumpTo, BrokerTyped
      <4>2. \/ running' = [running EXCEPT ![s] = TRUE] /\ stray' = stray \cup {s}
            \/ UNCHANGED <<running, stray>>
        BY <3>2, <4>1 DEF StartUp
      <4> QED
        BY <1>2, <4>1, <4>2 DEF BrokerTyped
    <3>3. CASE GivesUp(p)
      <4>1. /\ running' = running
            /\ stray' = IF running[s] /\ active # s THEN stray \cup {s} ELSE stray
        BY <3>3 DEF GivesUp
      <4> QED
        BY <1>2, <4>1
    <3> QED
      BY <3>1, <3>2, <3>3
  <2> QED
    BY <1>1, <1>4, <1>5, <2>1, Rejects
<1>6. CASE ~Reject(p)
  <2>1. /\ PumpTo(p, "start") \/ PumpTo(p, "probe")
        /\ UNCHANGED <<queue, admitting, cur, unloading, inflight, req>>
    BY <1>6 DEF Inspect, StartUp, GivesUp, waitVars, servedVars
  <2>2. \A u \in Services : running'[u] => u \in stray' \/ u = active \/ (PumpTo(p, "probe") /\ s = u)
    <3>1. CASE Inspect(p)
      BY <1>2, <1>4, <3>1
    <3>2. CASE StartUp(p)
      <4>1. /\ running' = [running EXCEPT ![s] = TRUE] /\ PumpTo(p, "probe") /\ stray' = stray
            /\ pump[p] # "probe"
        BY <1>6, <3>2 DEF StartUp
      <4> QED
        BY <1>2, <4>1 DEF BrokerTyped
    <3> QED
      BY <1>6, <3>1, <3>2 DEF GivesUp
  <2>3. CASE PumpTo(p, "probe")
    BY <1>1, <1>2, <1>3, <1>4, <2>1, <2>2, <2>3, Swaps DEF BrokerTyped
  <2>4. CASE PumpTo(p, "start")
    <3>1. ~PumpTo(p, "probe")
      BY <1>2, <2>4 DEF PumpTo, BrokerTyped
    <3> QED
      BY <1>1, <1>2, <1>3, <1>4, <2>1, <2>2, <2>4, <3>1, Swaps DEF BrokerTyped
  <2> QED
    BY <2>1, <2>3, <2>4
<1> QED
  BY <1>5, <1>6

LEMMA GetsReadyStep == ASSUME BrokerInv, NEW p \in Pumps, GetsReady(p) PROVE BrokerInv'
<1>1. /\ pump[p] = "probe" /\ pump[p] \in Bringing /\ pump[p] # "idle"
      /\ active' = SvcOf[cur[p]] /\ stray' = stray \ {SvcOf[cur[p]]}
      /\ Admit(p, cur[p]) /\ UNCHANGED <<running, queue>>
  BY DEF GetsReady, Bringing
<1>2. /\ BrokerTyped /\ NoSvc \notin Services /\ active \in {NoSvc, SvcOf[cur[p]]}
      /\ cur[p] \in Requests /\ req[cur[p]] = "queued"
      /\ \A i \in 1..Len(queue) : queue[i] # cur[p]
      /\ \A s \in Services : running[s] => s \in stray \/ s = active \/ s = SvcOf[cur[p]]
      /\ \A s \in Services : Served(s) # {} => active = s
  BY <1>1, InHand
<1>3. \A s \in Services : s # active' => Served(s) = {}
  BY <1>1, <1>2
<1>4. /\ \A i \in 1..Len(queue) : req[queue[i]] = "queued"
      /\ \A i, j \in 1..Len(queue) : queue[i] = queue[j] => i = j
  BY DEF BrokerInv, WaitersOnce
<1>5. \A s \in Services : running[s] => s \in stray' \/ s = active'
  BY <1>1, <1>2
<1>6. /\ queue' \in Seq(Requests) /\ stray' \subseteq Services
      /\ \A i \in 1..Len(queue') : queue'[i] # cur[p] /\ req[queue'[i]] = "queued"
      /\ \A i, j \in 1..Len(queue') : queue'[i] = queue'[j] => i = j
  BY <1>1, <1>2, <1>4 DEF BrokerTyped
<1>7. cur[p] \in Requests /\ req[cur[p]] = "queued" /\ running' = running
  BY <1>1, <1>2
<1> QED
  BY <1>1, <1>3, <1>5, <1>6, <1>7, Admits

\* Taking the waiter in place `i` out of the queue.
LEMMA PickLemma ==
  ASSUME BrokerInv, NEW i \in 1..Len(queue), queue' = Splice(queue, i)
  PROVE  /\ queue[i] \in Requests /\ req[queue[i]] = "queued" /\ queue' \in Seq(Requests)
         /\ \A j \in 1..Len(queue') : queue'[j] # queue[i] /\ req[queue'[j]] = "queued"
         /\ \A j, k \in 1..Len(queue') : queue'[j] = queue'[k] => j = k
<1>1. queue \in Seq(Requests) /\ WaitersOnce
  BY DEF BrokerInv, BrokerTyped
<1>2. queue[i] \in Requests /\ req[queue[i]] = "queued"
  BY <1>1, ElementOfSeq DEF WaitersOnce
<1>3. \A j, k \in 1..Len(queue) : queue[j] = queue[k] => j = k
  BY <1>1 DEF WaitersOnce
<1>4. /\ queue' \in Seq(Requests)
      /\ \A j \in 1..Len(queue') : queue'[j] # queue[i] /\ \E k \in 1..Len(queue) : queue'[j] = queue[k]
      /\ \A j, k \in 1..Len(queue') : queue'[j] = queue'[k] => j = k
  BY <1>1, <1>3, SpliceOnce
<1>5. \A j \in 1..Len(queue') : req[queue'[j]] = "queued"
  BY <1>1, <1>4 DEF WaitersOnce
<1> QED
  BY <1>2, <1>4, <1>5

LEMMA PickLoadedStep == ASSUME BrokerInv, NEW p \in Pumps, PickLoaded(p) PROVE BrokerInv'
<1>1. PICK i \in 1..Len(queue) : active = SvcOf[queue[i]] /\ queue' = Splice(queue, i) /\ Admit(p, queue[i])
  BY DEF PickLoaded
<1>2. pump[p] = "pick" /\ pump[p] # "idle" /\ UNCHANGED <<running, stray, active>>
  BY DEF PickLoaded, loadVars
<1>3. /\ queue[i] \in Requests /\ req[queue[i]] = "queued" /\ queue' \in Seq(Requests)
      /\ \A j \in 1..Len(queue') : queue'[j] # queue[i] /\ req[queue'[j]] = "queued"
      /\ \A j, k \in 1..Len(queue') : queue'[j] = queue'[k] => j = k
  BY <1>1, PickLemma
<1>4. /\ BrokerTyped
      /\ \A s \in Services : running[s] => s \in stray \/ s = active
      /\ \A s \in Services : Served(s) # {} => active = s
  BY <1>2, InHand
<1> QED
  BY <1>1, <1>2, <1>3, <1>4, Admits DEF BrokerTyped

LEMMA PickOtherStep == ASSUME BrokerInv, NEW p \in Pumps, PickOther(p) PROVE BrokerInv'
<1>1. PICK i \in 1..Len(queue) :
         /\ queue' = Splice(queue, i) /\ cur' = [cur EXCEPT ![p] = queue[i]]
         /\ PumpTo(p, IF active \in {NoSvc, SvcOf[queue[i]]} THEN "inspect"
                      ELSE IF InflightOf(active) > 0 THEN "drain" ELSE "grace")
  BY DEF PickOther
<1>2. /\ pump[p] = "pick" /\ pump[p] # "idle"
      /\ UNCHANGED <<running, stray, active, admitting, unloading, inflight, req>>
  BY DEF PickOther, loadVars, servedVars
<1>3. /\ queue[i] \in Requests /\ req[queue[i]] = "queued" /\ queue' \in Seq(Requests)
      /\ \A j \in 1..Len(queue') : queue'[j] # queue[i] /\ req[queue'[j]] = "queued"
      /\ \A j, k \in 1..Len(queue') : queue'[j] = queue'[k] => j = k
  BY <1>1, PickLemma
<1>4. /\ BrokerTyped /\ NoSvc \notin Services
      /\ \A s \in Services : running[s] => s \in stray \/ s = active
  BY <1>2, InHand
<1> DEFINE to == IF active \in {NoSvc, SvcOf[queue[i]]} THEN "inspect"
                 ELSE IF InflightOf(active) > 0 THEN "drain" ELSE "grace"
<1>5. to \in PumpPc /\ to # "idle" /\ to # "settle" /\ to # "probe" /\ PumpTo(p, to)
  BY <1>1 DEF PumpPc
<1>6. /\ to \in Leaving => active \notin {NoSvc, SvcOf[queue[i]]}
      /\ to \in Bringing => active \in {NoSvc, SvcOf[queue[i]]}
      /\ to \in Leaving \ {"drain"} => Served(active) = {}
  <2>1. CASE active \in {NoSvc, SvcOf[queue[i]]}
    BY <2>1 DEF Leaving, Bringing
  <2>2. CASE active \notin {NoSvc, SvcOf[queue[i]]}
    <3>1. to \in {"drain", "grace"} /\ to \notin Bringing
      BY <2>2 DEF Bringing
    <3>2. active \in Services /\ inflight[active] \in Nat
      BY <1>4, <2>2 DEF BrokerTyped
    <3>3. to = "grace" => inflight[active] = 0
      BY <2>2, <3>2 DEF InflightOf
    <3>4. to = "grace" => Served(active) = {}
      BY <3>2, <3>3, ServedFinite DEF BrokerInv, InflightExact
    <3> QED
      BY <2>2, <3>1, <3>4
  <2> QED
    BY <2>1, <2>2
<1> HIDE DEF to
<1>7. /\ pump' \in [Pumps -> PumpPc] /\ OneAdmission' /\ NoForgottenWaiter'
      /\ unloading' = NoSvc /\ unloading' \in Services \cup {NoSvc} /\ admitting' \in BOOLEAN
      /\ pump'[p] = to
      /\ \A q \in Pumps : q # p => pump[q] = "idle" /\ pump'[q] = "idle"
  BY <1>2, <1>5, PumpMoves
<1>8. \A q \in Pumps : pump'[q] \in Leaving \cup Bringing => q = p
  BY <1>7 DEF Leaving, Bringing
<1>9. cur' \in [Pumps -> Requests \cup {NoReq}] /\ cur'[p] = queue[i]
  BY <1>1, <1>3, <1>4 DEF BrokerTyped
<1>10. BrokerTyped'
  BY <1>2, <1>3, <1>4, <1>7, <1>9 DEF BrokerTyped
<1>11. WaitersOnce'
  BY <1>2, <1>3, <1>8, <1>9 DEF WaitersOnce
<1>12. \A s : Served(s)' = Served(s)
  BY <1>2, ServedKept
<1>13. InflightExact' /\ ServedByActive'
  BY <1>2, <1>12 DEF BrokerInv, InflightExact, ServedByActive
<1>14. Outgoing'
  <2>1. Served(active) = {} => Served(active)' = {}
    BY <1>2 DEF Served
  <2> QED
    BY <1>2, <1>6, <1>7, <1>8, <1>9, <2>1 DEF Outgoing
<1>15. Accounted'
  BY <1>2, <1>4, <1>5, <1>7, <1>8 DEF Accounted, Leaving
<1> QED
  BY <1>7, <1>10, <1>11, <1>13, <1>14, <1>15 DEF BrokerInv

LEMMA DeferStep == ASSUME BrokerInv, NEW p \in Pumps, Defer(p) PROVE BrokerInv'
<1>1. /\ pump[p] = "grace" /\ pump[p] \in Leaving /\ pump[p] # "idle"
      /\ queue' = Append(queue, cur[p]) /\ cur' = [cur EXCEPT ![p] = NoReq] /\ PumpTo(p, "pick")
      /\ UNCHANGED <<running, stray, active, admitting, unloading, inflight, req>>
  BY DEF Defer, loadVars, servedVars, Leaving
<1>2. /\ BrokerTyped /\ cur[p] \in Requests /\ req[cur[p]] = "queued"
      /\ \A i \in 1..Len(queue) : queue[i] # cur[p]
      /\ \A s \in Services : running[s] => s \in stray \/ s = active
  BY <1>1, InHand
<1>3. "pick" \in PumpPc /\ "pick" # "idle"
  BY DEF PumpPc
<1>4. /\ pump' \in [Pumps -> PumpPc] /\ OneAdmission' /\ NoForgottenWaiter'
      /\ unloading' = NoSvc /\ unloading' \in Services \cup {NoSvc} /\ admitting' \in BOOLEAN
      /\ pump'[p] = "pick"
      /\ \A q \in Pumps : q # p => pump[q] = "idle" /\ pump'[q] = "idle"
  BY <1>1, <1>3, PumpMoves
<1>5. \A q \in Pumps : pump'[q] \notin Leaving \cup Bringing
  BY <1>4 DEF Leaving, Bringing
<1>6. queue \in Seq(Requests) /\ Len(queue) \in Nat
  BY <1>2, LenProperties DEF BrokerTyped
<1>7. /\ queue' \in Seq(Requests) /\ Len(queue') = Len(queue) + 1
      /\ \A i \in 1..Len(queue) : queue'[i] = queue[i]
      /\ queue'[Len(queue) + 1] = cur[p]
  BY <1>1, <1>2, <1>6, AppendProperties
<1>8. BrokerTyped'
  <2>1. cur' \in [Pumps -> Requests \cup {NoReq}]
    BY <1>1, <1>2 DEF BrokerTyped
  <2> QED
    BY <1>1, <1>2, <1>4, <1>7, <2>1 DEF BrokerTyped
<1>9. WaitersOnce'
  <2>1. \A i \in 1..Len(queue') : i \in 1..Len(queue) \/ i = Len(queue) + 1
    BY <1>6, <1>7
  <2>2. WaitersOnce
    BY DEF BrokerInv
  <2>3. \A i \in 1..Len(queue') : req[queue'[i]] = "queued"
    BY <1>2, <1>7, <2>1, <2>2 DEF WaitersOnce
  <2>4. \A i, j \in 1..Len(queue') : queue'[i] = queue'[j] => i = j
    BY <1>2, <1>7, <2>1, <2>2 DEF WaitersOnce
  <2> QED
    BY <1>1, <1>5, <2>3, <2>4 DEF WaitersOnce
<1>10. \A s : Served(s)' = Served(s)
  BY <1>1, ServedKept
<1>11. InflightExact' /\ ServedByActive'
  BY <1>1, <1>10 DEF BrokerInv, InflightExact, ServedByActive
<1>12. Outgoing' /\ Accounted'
  BY <1>1, <1>2, <1>4, <1>5 DEF Outgoing, Accounted, Leaving
<1> QED
  BY <1>4, <1>8, <1>9, <1>11, <1>12 DEF BrokerInv

LEMMA PumpDoneStep == ASSUME BrokerInv, NEW p \in Pumps, PumpDone(p) PROVE BrokerInv'
<1>1. /\ pump[p] = "pick" /\ pump[p] # "idle" /\ queue = <<>>
      /\ pump' = [pump EXCEPT ![p] = "idle"] /\ admitting' = FALSE
      /\ UNCHANGED <<running, stray, active, queue, cur, unloading, inflight, req>>
  BY DEF PumpDone, PumpTo, loadVars, waitVars, servedVars
<1>2. /\ BrokerTyped /\ \A q \in Pumps : q # p => pump[q] = "idle"
      /\ \A s \in Services : running[s] => s \in stray \/ s = active
  BY <1>1, InHand
<1>3. pump' \in [Pumps -> PumpPc] /\ \A q \in Pumps : pump'[q] = "idle"
  BY <1>1, <1>2 DEF BrokerTyped, PumpPc
<1>4. unloading = NoSvc
  BY <1>1 DEF BrokerInv, OneAdmission
<1>5. BrokerTyped' /\ OneAdmission' /\ NoForgottenWaiter'
  BY <1>1, <1>2, <1>3, <1>4 DEF BrokerTyped, OneAdmission, NoForgottenWaiter
<1>6. \A q \in Pumps : pump'[q] \notin Leaving \cup Bringing
  BY <1>3 DEF Leaving, Bringing
<1>7. WaitersOnce'
  BY <1>1, <1>6 DEF BrokerInv, WaitersOnce
<1>8. Outgoing' /\ Accounted'
  BY <1>1, <1>2, <1>3, <1>4, <1>6 DEF Outgoing, Accounted
<1>9. \A s : Served(s)' = Served(s)
  BY <1>1, ServedKept
<1>10. InflightExact' /\ ServedByActive'
  BY <1>1, <1>9 DEF BrokerInv, InflightExact, ServedByActive
<1> QED
  BY <1>5, <1>7, <1>8, <1>10 DEF BrokerInv

LEMMA PumpSteps == ASSUME BrokerInv, NEW p \in Pumps, PumpStep(p) PROVE BrokerInv'
  BY PumpDoneStep, PickLoadedStep, PickOtherStep, SwapSteps, DeferStep, StopOutStep, BringSteps,
     GetsReadyStep DEF PumpStep
-----------------------------------------------------------------------------
(* Requests, the idle stop, and the containers.                             *)

\* Kick(): nothing, or one pump that was idle takes the mutex.
LEMMA KickLemma ==
  ASSUME NEW held \in BOOLEAN, NEW waiters, Kick(held, waiters), pump \in [Pumps -> PumpPc],
         OneAdmission \/ (~held /\ \A p \in Pumps : pump[p] = "idle"),
         held = admitting \/ \A p \in Pumps : pump[p] = "idle",
         held => unloading' = unloading, ~held => unloading' = NoSvc
  PROVE  /\ pump' \in [Pumps -> PumpPc] /\ admitting' \in BOOLEAN /\ OneAdmission'
         /\ ~admitting' => waiters = <<>>
         /\ \A p \in Pumps : pump'[p] = pump[p] \/ (pump[p] = "idle" /\ pump'[p] = "pick")
<1>1. CASE held \/ waiters = <<>>
  <2>1. admitting' = held /\ pump' = pump
    BY <1>1 DEF Kick
  <2>2. OneAdmission'
    BY <2>1 DEF OneAdmission
  <2> QED
    BY <1>1, <2>1, <2>2
<1>2. CASE ~held /\ waiters # <<>>
  <2>1. PICK p \in Pumps : pump[p] = "idle" /\ pump' = [pump EXCEPT ![p] = "pick"]
    BY <1>2 DEF Kick
  <2>2. admitting' = TRUE /\ unloading' = NoSvc
    BY <1>2 DEF Kick
  <2>3. \A q \in Pumps : pump[q] = "idle"
    BY <1>2 DEF OneAdmission
  <2>4. /\ pump' \in [Pumps -> PumpPc] /\ pump'[p] = "pick"
        /\ \A q \in Pumps : q # p => pump'[q] = "idle"
    BY <2>1, <2>3 DEF PumpPc
  <2>5. OneAdmission'
    BY <2>2, <2>4 DEF OneAdmission
  <2> QED
    BY <2>2, <2>3, <2>4, <2>5
<1> QED
  BY <1>1, <1>2

\* A step of one request that is not a waiter, or becomes one: what the pump has in hand,
\* and what is loaded, stay as they are.
LEMMA RequestMoves ==
  ASSUME BrokerInv, UNCHANGED <<active, running, stray, cur, unloading>>,
         NEW r \in Requests, req[r] # "queued", req' \in [Requests -> ReqPc],
         \A w \in Requests : w # r => req'[w] = req[w],
         pump' \in [Pumps -> PumpPc], admitting' \in BOOLEAN, OneAdmission', NoForgottenWaiter',
         \A p \in Pumps : pump'[p] = pump[p] \/ (pump[p] = "idle" /\ pump'[p] = "pick"),
         queue' \in Seq(Requests),
         \A i \in 1..Len(queue') : req'[queue'[i]] = "queued",
         \A i, j \in 1..Len(queue') : queue'[i] = queue'[j] => i = j,
         \A i \in 1..Len(queue') : queue'[i] = r \/ \E j \in 1..Len(queue) : queue'[i] = queue[j],
         \A s \in Services : Served(s)' \subseteq Served(s),
         inflight' \in [Services -> Nat], InflightExact'
  PROVE  BrokerInv'
<1>1. /\ BrokerTyped /\ WaitersOnce /\ Outgoing /\ Accounted /\ ServedByActive
      /\ NoSvc \notin Services
  BY BrokerAssumption DEF BrokerInv
<1>2. \A p \in Pumps : pump'[p] \in Leaving \cup Bringing => pump'[p] = pump[p]
  BY DEF Leaving, Bringing
<1>3. BrokerTyped'
  BY <1>1 DEF BrokerTyped
<1>4. WaitersOnce'
  <2>1. ASSUME NEW p \in Pumps, pump'[p] \in Leaving \cup Bringing
        PROVE  /\ cur[p] \in Requests /\ req'[cur[p]] = "queued"
               /\ \A i \in 1..Len(queue') : queue'[i] # cur[p]
    <3>1. /\ cur[p] \in Requests /\ req[cur[p]] = "queued"
          /\ \A i \in 1..Len(queue) : queue[i] # cur[p]
      BY <1>1, <1>2, <2>1 DEF WaitersOnce
    <3> QED
      BY <3>1
  <2> QED
    BY <2>1 DEF WaitersOnce
<1>5. ServedByActive'
  BY <1>1 DEF ServedByActive
<1>6. active \in Services /\ Served(active) = {} => Served(active)' = {}
  <2>1. ASSUME active \in Services, Served(active) = {} PROVE \A w \in Requests : w \notin Served(active)'
    <3>1. PICK s \in Services : s = active
      BY <2>1
    <3>2. Served(s)' = {}
      BY <2>1, <3>1
    <3>3. Served(s)' = Served(active)'
      BY <3>1 DEF Served
    <3> QED
      BY <3>2, <3>3
  <2> QED
    BY <2>1 DEF Served
<1>7. Outgoing'
  BY <1>1, <1>2, <1>6 DEF Outgoing, BrokerTyped
<1>8. Accounted'
  <2>1. \A p \in Pumps : (pump'[p] = "probe" <=> pump[p] = "probe") /\ (pump'[p] = "settle" <=> pump[p] = "settle")
    OBVIOUS
  <2> QED
    BY <1>1, <2>1 DEF Accounted
<1> QED
  BY <1>3, <1>4, <1>5, <1>7, <1>8 DEF BrokerInv

LEMMA StaySteps ==
  ASSUME BrokerInv, NEW r \in Requests, Arrive(r) \/ BodyLost(r) \/ Dropped(r) \/ Replayed(r)
  PROVE  BrokerInv'
<1>1. /\ UNCHANGED <<active, running, stray, cur, unloading, pump, admitting, queue, inflight>>
      /\ BrokerTyped /\ OneAdmission /\ WaitersOnce /\ NoForgottenWaiter /\ InflightExact
  BY DEF BrokerInv, Arrive, BodyLost, Dropped, Replayed, loadVars, waitVars, pumpVars
<1>2. PICK to \in ReqPc : /\ req' = [req EXCEPT ![r] = to]
                          /\ to \in {"open", "retry"} <=> req[r] \in {"open", "retry"}
                          /\ to # "queued"
  BY DEF Arrive, BodyLost, Dropped, Replayed, ReqPc
<1>3. req[r] # "queued"
  BY DEF Arrive, BodyLost, Dropped, Replayed
<1>4. /\ req' \in [Requests -> ReqPc] /\ req'[r] = to
      /\ \A w \in Requests : w # r => req'[w] = req[w]
  BY <1>1, <1>2 DEF BrokerTyped
<1>5. \A s : Served(s)' = Served(s)
  <2>1. \A w \in Requests : req'[w] \in {"open", "retry"} <=> req[w] \in {"open", "retry"}
    BY <1>2, <1>4
  <2> QED
    BY <2>1, ServedKept
<1>6. InflightExact'
  BY <1>1, <1>5 DEF InflightExact
<1>7. OneAdmission' /\ NoForgottenWaiter' /\ \A p \in Pumps : pump'[p] = pump[p]
  BY <1>1 DEF OneAdmission, NoForgottenWaiter
<1>8. \A i \in 1..Len(queue') : /\ req'[queue'[i]] = "queued"
                                /\ \E j \in 1..Len(queue) : queue'[i] = queue[j]
  <2>1. \A i \in 1..Len(queue) : queue[i] \in Requests /\ req[queue[i]] = "queued"
    BY <1>1, ElementOfSeq DEF BrokerTyped, WaitersOnce
  <2> QED
    BY <1>1, <1>3, <1>4, <2>1
<1>9. \A i, j \in 1..Len(queue') : queue'[i] = queue'[j] => i = j
  BY <1>1 DEF WaitersOnce
<1>10. /\ pump' \in [Pumps -> PumpPc] /\ admitting' \in BOOLEAN /\ queue' \in Seq(Requests)
       /\ inflight' \in [Services -> Nat] /\ \A s \in Services : Served(s)' \subseteq Served(s)
  BY <1>1, <1>5 DEF BrokerTyped
<1> QED
  BY <1>1, <1>3, <1>4, <1>6, <1>7, <1>8, <1>9, <1>10, RequestMoves

LEMMA JoinStep == ASSUME BrokerInv, NEW r \in Requests, Join(r) PROVE BrokerInv'
<1>1. /\ UNCHANGED <<active, running, stray, cur, unloading, inflight>>
      /\ req[r] = "body" /\ req' = [req EXCEPT ![r] = "queued"] /\ queue' = Append(queue, r)
      /\ Kick(admitting, queue')
      /\ BrokerTyped /\ OneAdmission /\ WaitersOnce /\ InflightExact
  BY DEF BrokerInv, Join, loadVars
<1>2. /\ req' \in [Requests -> ReqPc] /\ req'[r] = "queued" /\ req[r] # "queued"
      /\ \A w \in Requests : w # r => req'[w] = req[w]
  BY <1>1 DEF BrokerTyped, ReqPc
<1>3. \A s : Served(s)' = Served(s)
  <2>1. \A w \in Requests : req'[w] \in {"open", "retry"} <=> req[w] \in {"open", "retry"}
    BY <1>1, <1>2
  <2> QED
    BY <2>1, ServedKept
<1>4. InflightExact'
  BY <1>1, <1>3 DEF InflightExact
<1>5. ~admitting => unloading' = NoSvc
  BY <1>1 DEF OneAdmission
<1>6. /\ pump' \in [Pumps -> PumpPc] /\ admitting' \in BOOLEAN /\ OneAdmission'
      /\ ~admitting' => queue' = <<>>
      /\ \A p \in Pumps : pump'[p] = pump[p] \/ (pump[p] = "idle" /\ pump'[p] = "pick")
  <2>1. admitting \in BOOLEAN /\ pump \in [Pumps -> PumpPc] /\ unloading' = unloading
    BY <1>1 DEF BrokerTyped
  <2> QED
    BY <1>1, <1>5, <2>1, KickLemma
<1>7. NoForgottenWaiter'
  BY <1>6 DEF NoForgottenWaiter
<1>8. queue \in Seq(Requests) /\ Len(queue) \in Nat
  BY <1>1, LenProperties DEF BrokerTyped
<1>9. /\ queue' \in Seq(Requests) /\ Len(queue') = Len(queue) + 1
      /\ \A i \in 1..Len(queue) : queue'[i] = queue[i]
      /\ queue'[Len(queue) + 1] = r
  BY <1>1, <1>8, AppendProperties
<1>10. \A i \in 1..Len(queue') : i \in 1..Len(queue) \/ i = Len(queue) + 1
  BY <1>8, <1>9
<1>11. \A i \in 1..Len(queue) : queue[i] \in Requests /\ req[queue[i]] = "queued" /\ queue[i] # r
  BY <1>1, <1>8, ElementOfSeq DEF WaitersOnce
<1>12. \A i \in 1..Len(queue') : /\ req'[queue'[i]] = "queued"
                                 /\ queue'[i] = r \/ \E j \in 1..Len(queue) : queue'[i] = queue[j]
  BY <1>2, <1>9, <1>10, <1>11
<1>13. \A i, j \in 1..Len(queue') : queue'[i] = queue'[j] => i = j
  BY <1>1, <1>9, <1>10, <1>11 DEF WaitersOnce
<1>14. inflight' \in [Services -> Nat] /\ \A s \in Services : Served(s)' \subseteq Served(s)
  BY <1>1, <1>3 DEF BrokerTyped
<1> QED
  BY <1>1, <1>2, <1>4, <1>6, <1>7, <1>9, <1>12, <1>13, <1>14, RequestMoves

LEMMA ReleaseSteps ==
  ASSUME BrokerInv, NEW r \in Requests, Ends(r) \/ NotReplayed(r) PROVE BrokerInv'
<1> DEFINE s == SvcOf[r]
           n == IF inflight[s] = 0 THEN 0 ELSE inflight[s] - 1
<1>1. /\ UNCHANGED <<active, running, stray, cur, unloading, queue>>
      /\ req[r] \in {"open", "retry"} /\ req' = [req EXCEPT ![r] = "idle"]
      /\ inflight' = [inflight EXCEPT ![s] = n]
      /\ IF n = 0 THEN Kick(admitting, queue) ELSE UNCHANGED <<admitting, pump>>
      /\ BrokerTyped /\ OneAdmission /\ WaitersOnce /\ InflightExact /\ NoForgottenWaiter
      /\ s \in Services
  BY BrokerAssumption DEF BrokerInv, Ends, NotReplayed, Release, loadVars, waitVars
<1>2. /\ req' \in [Requests -> ReqPc] /\ req'[r] = "idle" /\ req[r] # "queued"
      /\ \A w \in Requests : w # r => req'[w] = req[w]
  BY <1>1 DEF BrokerTyped, ReqPc
<1>3. /\ Served(s)' = Served(s) \ {r} /\ r \in Served(s)
      /\ \A u : u # s => Served(u)' = Served(u)
  BY <1>1, <1>2 DEF Served
<1>4. inflight[s] \in Nat /\ inflight[s] = Cardinality(Served(s))
  BY <1>1 DEF InflightExact, BrokerTyped
<1>5. n \in Nat /\ n = Cardinality(Served(s)')
  <2>1. /\ Cardinality(Served(s) \ {r}) = Cardinality(Served(s)) - 1
        /\ Cardinality(Served(s) \ {r}) \in Nat
    BY <1>3, ServedFinite, FS_RemoveElement, FS_CardinalityType
  <2>2. inflight[s] # 0
    BY <1>3, <1>4, ServedFinite
  <2> QED
    BY <1>3, <1>4, <2>1, <2>2
<1>6. inflight' \in [Services -> Nat] /\ InflightExact'
  <2>1. inflight' \in [Services -> Nat]
    BY <1>1, <1>5 DEF BrokerTyped
  <2>2. \A u \in Services : inflight'[u] = IF u = s THEN n ELSE inflight[u]
    BY <1>1 DEF BrokerTyped
  <2>3. \A u \in Services : inflight'[u] = Cardinality(Served(u)')
    BY <1>1, <1>3, <1>5, <2>2 DEF InflightExact
  <2> QED
    BY <2>1, <2>3 DEF InflightExact
<1>7. /\ pump' \in [Pumps -> PumpPc] /\ admitting' \in BOOLEAN /\ OneAdmission'
      /\ ~admitting' => queue' = <<>>
      /\ \A p \in Pumps : pump'[p] = pump[p] \/ (pump[p] = "idle" /\ pump'[p] = "pick")
  <2>1. admitting \in BOOLEAN /\ pump \in [Pumps -> PumpPc] /\ unloading' = unloading
    BY <1>1 DEF BrokerTyped
  <2>2. ~admitting => unloading' = NoSvc
    BY <1>1 DEF OneAdmission
  <2>3. CASE n = 0
    <3>1. Kick(admitting, queue)
      BY <1>1, <2>3
    <3> QED
      BY <1>1, <2>1, <2>2, <3>1, KickLemma
  <2>4. CASE n # 0
    <3>1. UNCHANGED <<admitting, pump>>
      BY <1>1, <2>4
    <3>2. OneAdmission'
      BY <1>1, <3>1 DEF OneAdmission
    <3> QED
      BY <1>1, <2>1, <3>1, <3>2 DEF NoForgottenWaiter
  <2> QED
    BY <2>3, <2>4
<1>8. NoForgottenWaiter'
  BY <1>7 DEF NoForgottenWaiter
<1>9. \A u \in Services : Served(u)' \subseteq Served(u)
  BY <1>3
<1>10. \A i \in 1..Len(queue') : /\ req'[queue'[i]] = "queued"
                                 /\ \E j \in 1..Len(queue) : queue'[i] = queue[j]
  <2>1. \A i \in 1..Len(queue) : queue[i] \in Requests /\ req[queue[i]] = "queued"
    BY <1>1, ElementOfSeq DEF BrokerTyped, WaitersOnce
  <2> QED
    BY <1>1, <1>2, <2>1
<1>11. queue' \in Seq(Requests) /\ \A i, j \in 1..Len(queue') : queue'[i] = queue'[j] => i = j
  BY <1>1 DEF BrokerTyped, WaitersOnce
<1> HIDE DEF s, n
<1> QED
  BY <1>1, <1>2, <1>6, <1>7, <1>8, <1>9, <1>10, <1>11, RequestMoves

\* A step that none of the invariant's variables sees.
LEMMA Unseen ==
  ASSUME BrokerInv, UNCHANGED <<running, stray, active, admitting, queue, inflight, pump, cur, unloading, req>>
  PROVE  BrokerInv'
<1>1. \A s : Served(s)' = Served(s)
  BY ServedKept
<1>2. Served(active)' = Served(active)
  BY DEF Served
<1>3. BrokerTyped' /\ OneAdmission' /\ WaitersOnce' /\ Accounted' /\ NoForgottenWaiter'
  BY DEF BrokerInv, BrokerTyped, OneAdmission, WaitersOnce, Accounted, NoForgottenWaiter
<1>4. Outgoing'
  BY <1>2 DEF BrokerInv, Outgoing
<1>5. InflightExact' /\ ServedByActive'
  BY <1>1 DEF BrokerInv, InflightExact, ServedByActive
<1> QED
  BY <1>3, <1>4, <1>5 DEF BrokerInv

LEMMA IdleFiresStep == ASSUME BrokerInv, NEW s \in Services, IdleFires(s) PROVE BrokerInv'
<1>1. UNCHANGED <<running, stray, active, queue, inflight, pump, cur, req>>
  BY DEF IdleFires, loadVars, waitVars
<1>2. CASE UNCHANGED <<admitting, unloading>>
  BY <1>1, <1>2, Unseen
<1>3. CASE /\ ~admitting /\ active = s /\ ~(inflight[s] > 0)
           /\ admitting' = TRUE /\ unloading' = s
  <2>1. /\ BrokerTyped /\ OneAdmission /\ WaitersOnce /\ Outgoing /\ Accounted
        /\ InflightExact /\ ServedByActive
    BY DEF BrokerInv
  <2>2. \A p \in Pumps : pump[p] = "idle"
    BY <1>3, <2>1 DEF OneAdmission
  <2>3. \A u : Served(u)' = Served(u)
    BY <1>1, ServedKept
  <2>4. Served(s) = {}
    <3>1. inflight[s] = 0
      BY <1>3, <2>1 DEF BrokerTyped
    <3> QED
      BY <2>1, <3>1, ServedFinite DEF InflightExact
  <2>5. active' = s /\ Served(active)' = {}
    BY <1>1, <1>3, <2>4 DEF Served
  <2>6. BrokerTyped' /\ OneAdmission' /\ WaitersOnce' /\ Accounted' /\ NoForgottenWaiter'
    BY <1>1, <1>3, <2>1, <2>2 DEF BrokerTyped, OneAdmission, WaitersOnce, Accounted, NoForgottenWaiter
  <2>7. Outgoing'
    BY <1>1, <1>3, <2>2, <2>5 DEF Outgoing, Leaving, Bringing
  <2>8. InflightExact' /\ ServedByActive'
    BY <1>1, <2>1, <2>3 DEF InflightExact, ServedByActive
  <2> QED
    BY <2>6, <2>7, <2>8 DEF BrokerInv
<1> QED
  BY <1>2, <1>3 DEF IdleFires

LEMMA DiesStep == ASSUME BrokerInv, NEW s \in Services, Dies(s) PROVE BrokerInv'
<1>1. /\ running' = [running EXCEPT ![s] = FALSE] /\ stray' = stray \ {s}
      /\ UNCHANGED <<active, admitting, queue, inflight, pump, cur, unloading, req>>
  BY DEF Dies, Down, waitVars, pumpVars, servedVars
<1>2. \A u : Served(u)' = Served(u)
  BY <1>1, ServedKept
<1>3. Served(active)' = Served(active)
  BY <1>1 DEF Served
<1>4. BrokerTyped' /\ OneAdmission' /\ WaitersOnce' /\ NoForgottenWaiter'
  BY <1>1 DEF BrokerInv, BrokerTyped, OneAdmission, WaitersOnce, NoForgottenWaiter
<1>5. Outgoing'
  BY <1>1, <1>3 DEF BrokerInv, Outgoing
<1>6. InflightExact' /\ ServedByActive'
  BY <1>1, <1>2 DEF BrokerInv, InflightExact, ServedByActive
<1>7. Accounted'
  <2>1. Accounted /\ running \in [Services -> BOOLEAN]
    BY DEF BrokerInv, BrokerTyped
  <2>2. \A u \in Services : running'[u] => running[u] /\ u # s
    BY <1>1, <2>1
  <2>3. \A u \in Services : running'[u] =>
           \/ u \in stray' \/ u = active'
           \/ \E p \in Pumps : pump'[p] = "probe" /\ SvcOf[cur'[p]] = u
    BY <1>1, <2>1, <2>2 DEF Accounted
  <2>4. \A p \in Pumps : pump'[p] = "settle" => ~running'[active']
    <3>1. SUFFICES ASSUME NEW p \in Pumps, pump[p] = "settle" PROVE ~running'[active]
      BY <1>1
    <3>2. pump[p] # "idle" /\ pump[p] \in Leaving
      BY <3>1 DEF Leaving
    <3>3. active \in Services
      BY <3>2, InHand
    <3> QED
      BY <2>1, <2>2, <3>1, <3>3 DEF Accounted
  <2> QED
    BY <2>3, <2>4 DEF Accounted
<1> QED
  BY <1>4, <1>5, <1>6, <1>7 DEF BrokerInv

LEMMA UnloadedStep == ASSUME BrokerInv, Unloaded PROVE BrokerInv'
<1>1. /\ unloading # NoSvc /\ unloading' = NoSvc /\ Kick(FALSE, queue)
      /\ UNCHANGED <<queue, cur, inflight, req>>
      /\ BrokerTyped /\ OneAdmission /\ WaitersOnce /\ Outgoing /\ Accounted
      /\ InflightExact /\ ServedByActive
  BY DEF BrokerInv, Unloaded, waitVars, servedVars
<1>2. active = unloading /\ unloading \in Services /\ Served(active) = {}
  BY <1>1 DEF Outgoing, BrokerTyped
<1>3. \A p \in Pumps : pump[p] = "idle"
  BY <1>1 DEF OneAdmission
<1>4. /\ pump' \in [Pumps -> PumpPc] /\ admitting' \in BOOLEAN /\ OneAdmission'
      /\ ~admitting' => queue = <<>>
      /\ \A p \in Pumps : pump'[p] \in {"idle", "pick"}
  <2>1. pump \in [Pumps -> PumpPc] /\ unloading' = NoSvc /\ FALSE \in BOOLEAN
    BY <1>1 DEF BrokerTyped
  <2>2. /\ pump' \in [Pumps -> PumpPc] /\ admitting' \in BOOLEAN /\ OneAdmission'
        /\ ~admitting' => queue = <<>>
        /\ \A p \in Pumps : pump'[p] = pump[p] \/ (pump[p] = "idle" /\ pump'[p] = "pick")
    BY <1>1, <1>3, <2>1, KickLemma
  <2> QED
    BY <1>3, <2>2
<1>5. /\ (active' = NoSvc /\ Down(unloading)) \/ active' = active
      /\ Down(unloading) \/ UNCHANGED <<running, stray>>
  BY DEF Unloaded
<1>6. /\ running' \in [Services -> BOOLEAN] /\ stray' \subseteq Services
      /\ active' \in Services \cup {NoSvc}
      /\ \A s \in Services : running'[s] => s \in stray' \/ s = active'
  <2>1. \A s \in Services : running[s] => s \in stray \/ s = active
    BY <1>1, <1>3 DEF Accounted
  <2>2. CASE Down(unloading)
    BY <1>1, <1>2, <1>5, <2>1, <2>2 DEF Down, BrokerTyped
  <2>3. CASE ~Down(unloading)
    BY <1>1, <1>2, <1>5, <2>1, <2>3 DEF BrokerTyped
  <2> QED
    BY <2>2, <2>3
<1>7. \A p \in Pumps : pump'[p] \notin Leaving \cup Bringing
  BY <1>4 DEF Leaving, Bringing
<1>8. BrokerTyped'
  BY <1>1, <1>4, <1>6 DEF BrokerTyped
<1>9. WaitersOnce'
  BY <1>1, <1>7 DEF WaitersOnce
<1>10. \A s : Served(s)' = Served(s)
  BY <1>1, ServedKept
<1>11. InflightExact' /\ ServedByActive'
  BY <1>1, <1>2, <1>5, <1>10 DEF InflightExact, ServedByActive
<1>12. Outgoing' /\ Accounted' /\ NoForgottenWaiter'
  BY <1>1, <1>4, <1>6, <1>7 DEF Outgoing, Accounted, NoForgottenWaiter
<1> QED
  BY <1>4, <1>8, <1>9, <1>11, <1>12 DEF BrokerInv

LEMMA NextInv == BrokerInv /\ [Next]_vars => BrokerInv'
<1> SUFFICES ASSUME BrokerInv, [Next]_vars PROVE BrokerInv'
  OBVIOUS
<1>1. ASSUME NEW r \in Requests, Age(r) PROVE BrokerInv'
  BY <1>1, Unseen DEF Age, loadVars, pumpVars, servedVars
<1>2. CASE UNCHANGED vars
  BY <1>2, Unseen DEF vars, loadVars, waitVars, pumpVars, servedVars
<1> QED
  BY <1>1, <1>2, PumpSteps, StaySteps, JoinStep, ReleaseSteps, IdleFiresStep, DiesStep, UnloadedStep
  DEF Next

LEMMA BrokerInvariant == Spec => []BrokerInv
  BY InitInv, NextInv, PTL DEF Spec
-----------------------------------------------------------------------------
(* The refinement: every step is a step of GpuLane, or leaves it alone.     *)

\* In the middle of an admission, the pump that makes it says whether a stop is under way.
LEMMA StoppingIs ==
  ASSUME BrokerInv, NEW p \in Pumps, pump[p] # "idle"
  PROVE  Stopping <=> pump[p] \in {"stop", "settle"}
<1>1. OneAdmission
  BY DEF BrokerInv
<1>2. unloading = NoSvc /\ \A q \in Pumps : q # p => pump[q] = "idle"
  BY <1>1 DEF OneAdmission
<1> QED
  BY <1>2 DEF Stopping

LEMMA PhaseMoves ==
  ASSUME req \in [Requests -> ReqPc], NEW r \in Requests, NEW to, req' = [req EXCEPT ![r] = to]
  PROVE  phase' = [phase EXCEPT ![r] = Seen(to)] /\ phase[r] = Seen(req[r])
  BY DEF phase

LEMMA NobodyServed ==
  ASSUME BrokerInv, Served(active) = {} PROVE \A r \in Requests : phase[r] # "served"
<1>1. \A s \in Services : Served(s) = {}
  BY DEF BrokerInv, ServedByActive
<1>2. \A r \in Requests : req[r] \notin {"open", "retry"}
  BY <1>1, BrokerAssumption DEF Served
<1> QED
  BY <1>2 DEF phase, Seen

\* ensureLoaded() threw: the waiter is refused, and the GPU stays whose it was, or goes back.
LEMMA RejectMaps ==
  ASSUME BrokerInv, BrokerInv', NEW p \in Pumps, pump[p] \in Leaving \cup Bringing, Reject(p),
         active' = active, pump[p] = "stop" \/ pump[p] \notin {"stop", "settle"}
  PROVE  Lane!Refused(cur[p])
<1>1. pump[p] # "idle" /\ cur[p] \in Requests /\ req[cur[p]] = "queued" /\ BrokerTyped
  BY InHand DEF Leaving, Bringing
<1>2. /\ phase' = [phase EXCEPT ![cur[p]] = Seen("idle")] /\ phase[cur[p]] = Seen("queued")
  BY <1>1, PhaseMoves DEF Reject, BrokerTyped
<1>3. Lane!Moves(cur[p], "waits", "away")
  BY <1>2 DEF Lane!Moves, Seen
<1>4. pump'[p] = "pick"
  BY <1>1 DEF Reject, PumpTo, BrokerTyped
<1>5. holder' = active /\ losing' = NoSvc
  <2>1. ~Stopping'
    BY <1>4, StoppingIs DEF BrokerInv, OneAdmission, Stopping
  <2> QED
    BY <2>1 DEF holder, losing
<1>6. CASE pump[p] = "stop"
  <2>1. active \in Services /\ NoSvc \notin Services /\ losing = active
    BY <1>1, <1>6, InHand, StoppingIs DEF Leaving, losing
  <2> QED
    BY <1>3, <1>5, <2>1 DEF Lane!Refused, Lane!Kept
<1>7. CASE pump[p] \notin {"stop", "settle"}
  <2>1. holder = active /\ losing = NoSvc
    BY <1>1, <1>7, StoppingIs DEF holder, losing
  <2> QED
    BY <1>3, <1>5, <2>1 DEF Lane!Refused
<1> QED
  BY <1>6, <1>7

\* A slot on the service that has the GPU, or gets it now.
LEMMA AdmitMaps ==
  ASSUME BrokerInv, BrokerInv', NEW p \in Pumps, pump[p] \in {"pick", "probe"}, NEW r \in Requests,
         req[r] = "queued", Admit(p, r), active' = SvcOf[r],
         active \in {NoSvc, SvcOf[r]}
  PROVE  Lane!Serves(r)
<1>1. BrokerTyped /\ pump[p] # "idle" /\ ~Stopping
  BY StoppingIs DEF BrokerInv
<1>2. phase' = [phase EXCEPT ![r] = Seen("open")] /\ phase[r] = Seen("queued")
  BY <1>1, PhaseMoves DEF Admit, BrokerTyped
<1>3. pump'[p] = "pick"
  BY <1>1 DEF Admit, PumpTo, BrokerTyped
<1>4. ~Stopping'
  BY <1>3, StoppingIs DEF BrokerInv, OneAdmission, Stopping
<1>5. holder = active /\ holder' = SvcOf[r] /\ losing = NoSvc /\ losing' = NoSvc
  BY <1>1, <1>4 DEF holder, losing
<1> QED
  BY <1>2, <1>5 DEF Lane!Serves, Lane!Moves, Seen

\* A step of the pump that moves no request.
LEMMA PumpAside ==
  ASSUME BrokerInv, BrokerInv', NEW p \in Pumps, pump[p] # "idle", NEW to \in PumpPc \ {"idle"},
         PumpTo(p, to), UNCHANGED req
  PROVE  /\ phase' = phase
         /\ holder = IF pump[p] \in {"stop", "settle"} THEN NoSvc ELSE active
         /\ losing = IF pump[p] \in {"stop", "settle"} THEN active ELSE NoSvc
         /\ holder' = IF to \in {"stop", "settle"} THEN NoSvc ELSE active'
         /\ losing' = IF to \in {"stop", "settle"} THEN active' ELSE NoSvc
<1>1. pump'[p] = to
  BY DEF PumpTo, BrokerInv, BrokerTyped
<1>2. Stopping <=> pump[p] \in {"stop", "settle"}
  BY StoppingIs
<1>3. Stopping' <=> to \in {"stop", "settle"}
  BY <1>1 DEF BrokerInv, OneAdmission, Stopping
<1> QED
  BY <1>2, <1>3 DEF phase, holder, losing

LEMMA PumpMaps ==
  ASSUME BrokerInv, BrokerInv', NEW p \in Pumps, PumpStep(p)
  PROVE  Lane!Next \/ UNCHANGED <<phase, holder, losing>>
<1>1. pump[p] # "idle" /\ BrokerTyped
  BY DEF BrokerInv, PumpStep, PumpDone, PickLoaded, PickOther, Drained, Defer, Commit, StopOut, Settle,
         Inspect, StartUp, GetsReady, GivesUp
<1>2. CASE PumpDone(p)
  <2>1. UNCHANGED <<req, active>> /\ unloading' = NoSvc /\ \A q \in Pumps : pump'[q] = "idle"
    BY <1>1, <1>2, InHand DEF PumpDone, PumpTo, loadVars, servedVars, BrokerInv, OneAdmission, BrokerTyped
  <2>2. ~Stopping /\ ~Stopping'
    BY <1>1, <1>2, <2>1, StoppingIs DEF PumpDone, Stopping
  <2> QED
    BY <2>1, <2>2 DEF phase, holder, losing
<1>3. CASE PickLoaded(p)
  <2>1. PICK i \in 1..Len(queue) : active = SvcOf[queue[i]] /\ queue' = Splice(queue, i) /\ Admit(p, queue[i])
    BY <1>3 DEF PickLoaded
  <2>2. queue[i] \in Requests /\ req[queue[i]] = "queued" /\ active' = active /\ pump[p] = "pick"
    BY <1>3, <2>1, PickLemma DEF PickLoaded, loadVars
  <2>3. Lane!Serves(queue[i])
    BY <2>1, <2>2, AdmitMaps
  <2> QED
    BY <2>2, <2>3 DEF Lane!Next
<1>4. CASE PickOther(p)
  <2>1. PICK i \in 1..Len(queue) :
           PumpTo(p, IF active \in {NoSvc, SvcOf[queue[i]]} THEN "inspect"
                     ELSE IF InflightOf(active) > 0 THEN "drain" ELSE "grace")
    BY <1>4 DEF PickOther
  <2>2. pump[p] = "pick" /\ UNCHANGED <<req, active>>
    BY <1>4 DEF PickOther, loadVars, servedVars
  <2>3. PICK to \in {"inspect", "drain", "grace"} : PumpTo(p, to)
    BY <2>1
  <2> QED
    BY <1>1, <2>2, <2>3, PumpAside DEF PumpPc
<1>5. CASE Drained(p) \/ Defer(p)
  <2>1. /\ pump[p] \notin {"stop", "settle"} /\ UNCHANGED <<req, active>>
        /\ PumpTo(p, "grace") \/ PumpTo(p, "pick")
    BY <1>5 DEF Drained, Defer, loadVars, servedVars
  <2> QED
    BY <1>1, <2>1, PumpAside DEF PumpPc
<1>6. CASE Commit(p)
  <2>1. pump[p] = "grace" /\ PumpTo(p, "stop") /\ UNCHANGED <<req, active>>
    BY <1>6 DEF Commit, loadVars
  <2>2. Served(active) = {} /\ active \in Services /\ NoSvc \notin Services
    BY <1>1, <2>1, InHand DEF Leaving
  <2>3. phase' = phase /\ holder = active /\ holder' = NoSvc /\ losing' = active
    BY <1>1, <2>1, PumpAside DEF PumpPc
  <2> QED
    BY <2>2, <2>3, NobodyServed DEF Lane!Next, Lane!StopBegins
<1>7. CASE StopOut(p)
  <2>1. pump[p] = "stop" /\ pump[p] \in Leaving /\ active' = active
    BY <1>7 DEF StopOut, Leaving
  <2>2. CASE Reject(p)
    BY <1>1, <2>1, <2>2, RejectMaps, InHand DEF Lane!Next
  <2>3. CASE PumpTo(p, "settle") /\ UNCHANGED req
    BY <1>1, <2>1, <2>3, PumpAside DEF PumpPc
  <2> QED
    BY <1>7, <2>2, <2>3 DEF StopOut, servedVars
<1>8. CASE Settle(p)
  <2>1. pump[p] = "settle" /\ PumpTo(p, "inspect") /\ UNCHANGED req /\ active' = NoSvc
    BY <1>8 DEF Settle, servedVars
  <2>2. active \in Services /\ NoSvc \notin Services
    BY <1>1, <2>1, InHand DEF Leaving
  <2>3. phase' = phase /\ holder' = NoSvc /\ losing = active /\ losing' = NoSvc
    BY <1>1, <2>1, PumpAside DEF PumpPc
  <2> QED
    BY <2>2, <2>3 DEF Lane!Next, Lane!StopEnds, Lane!Stopped
<1>9. CASE Inspect(p) \/ StartUp(p) \/ GivesUp(p)
  <2>1. pump[p] \in Bringing /\ pump[p] \notin {"stop", "settle"} /\ active' = active
    BY <1>9 DEF Inspect, StartUp, GivesUp, Bringing, loadVars
  <2>2. CASE Reject(p)
    BY <1>1, <2>1, <2>2, RejectMaps, InHand DEF Lane!Next
  <2>3. CASE (PumpTo(p, "probe") \/ PumpTo(p, "start")) /\ UNCHANGED req
    BY <1>1, <2>1, <2>3, PumpAside DEF PumpPc
  <2> QED
    BY <1>9, <2>2, <2>3 DEF Inspect, StartUp, GivesUp, servedVars
<1>10. CASE GetsReady(p)
  <2>1. pump[p] = "probe" /\ active' = SvcOf[cur[p]] /\ Admit(p, cur[p])
    BY <1>10 DEF GetsReady
  <2>2. /\ cur[p] \in Requests /\ req[cur[p]] = "queued" /\ active \in {NoSvc, SvcOf[cur[p]]}
        /\ NoSvc \notin Services
    BY <1>1, <2>1, InHand DEF Bringing
  <2>3. Lane!Serves(cur[p])
    BY <2>1, <2>2, AdmitMaps
  <2> QED
    BY <2>2, <2>3 DEF Lane!Next
<1> QED
  BY <1>2, <1>3, <1>4, <1>5, <1>6, <1>7, <1>8, <1>9, <1>10 DEF PumpStep

\* A step of a request: the pumps it may wake are not stopping anything.
LEMMA RequestMaps ==
  ASSUME BrokerInv, NEW r \in Requests, NEW to, req' = [req EXCEPT ![r] = to],
         UNCHANGED <<active, unloading>>,
         \/ UNCHANGED pump
         \/ \E p \in Pumps : pump[p] = "idle" /\ pump' = [pump EXCEPT ![p] = "pick"],
         \/ Seen(to) = Seen(req[r])
         \/ req[r] = "body" /\ to = "queued"
         \/ req[r] \in {"open", "retry"} /\ to = "idle"
  PROVE  Lane!Next \/ UNCHANGED <<phase, holder, losing>>
<1>1. BrokerTyped
  BY DEF BrokerInv
<1>2. phase' = [phase EXCEPT ![r] = Seen(to)] /\ phase[r] = Seen(req[r])
  BY <1>1, PhaseMoves DEF BrokerTyped
<1>3. \A p \in Pumps : pump'[p] \in {"stop", "settle"} <=> pump[p] \in {"stop", "settle"}
  BY <1>1 DEF BrokerTyped
<1>4. holder' = holder /\ losing' = losing
  BY <1>3 DEF holder, losing, Stopping
<1>5. CASE Seen(to) = Seen(req[r])
  <2>1. phase' = phase
    BY <1>2, <1>5 DEF phase
  <2> QED
    BY <1>4, <2>1
<1>6. CASE req[r] = "body" /\ to = "queued"
  BY <1>2, <1>4, <1>6 DEF Lane!Next, Lane!Asks, Lane!Moves, Seen
<1>7. CASE req[r] \in {"open", "retry"} /\ to = "idle"
  BY <1>2, <1>4, <1>7 DEF Lane!Next, Lane!Leaves, Lane!Moves, Seen
<1> QED
  BY <1>5, <1>6, <1>7

LEMMA IdleStopMaps ==
  ASSUME BrokerInv, BrokerInv', Unloaded \/ \E s \in Services : IdleFires(s)
  PROVE  Lane!Next \/ UNCHANGED <<phase, holder, losing>>
<1>1. BrokerTyped /\ OneAdmission /\ NoSvc \notin Services
  BY BrokerAssumption DEF BrokerInv
<1>2. phase' = phase
  BY DEF Unloaded, IdleFires, servedVars, phase
<1>3. CASE Unloaded
  <2>1. unloading # NoSvc /\ unloading' = NoSvc /\ active = unloading
        /\ active' \in {NoSvc, active} /\ Kick(FALSE, queue)
    BY <1>3 DEF Unloaded, BrokerInv, Outgoing
  <2>2. \A p \in Pumps : pump[p] = "idle"
    BY <1>1, <2>1 DEF OneAdmission
  <2>3. \A p \in Pumps : pump'[p] \in {"idle", "pick"}
    BY <1>1, <2>1, <2>2 DEF Kick, BrokerTyped
  <2>4. Stopping /\ ~Stopping'
    BY <2>1, <2>3 DEF Stopping
  <2>5. holder' = active' /\ losing = active /\ losing' = NoSvc
    BY <2>4 DEF holder, losing
  <2> QED
    BY <1>2, <2>1, <2>5 DEF Lane!Next, Lane!StopEnds, Lane!Stopped, Lane!Kept
<1>4. ASSUME NEW s \in Services, IdleFires(s)
      PROVE  Lane!Next \/ UNCHANGED <<phase, holder, losing>>
  <2>1. UNCHANGED <<active, pump>>
    BY <1>4 DEF IdleFires, loadVars
  <2>2. CASE UNCHANGED unloading
    BY <1>2, <2>1, <2>2 DEF holder, losing, Stopping
  <2>3. CASE ~UNCHANGED unloading
    <3>1. active = s /\ ~(inflight[s] > 0) /\ ~admitting /\ unloading' = s
      BY <1>4, <2>3 DEF IdleFires
    <3>2. inflight[s] = 0
      BY <1>1, <3>1 DEF BrokerTyped
    <3>3. Served(active) = {}
      BY <3>1, <3>2, ServedFinite DEF BrokerInv, InflightExact
    <3>4. ~Stopping /\ Stopping'
      BY <1>1, <3>1 DEF OneAdmission, Stopping
    <3>5. holder = s /\ holder' = NoSvc /\ losing' = s
      BY <2>1, <3>1, <3>4 DEF holder, losing
    <3> QED
      BY <1>1, <1>2, <3>3, <3>5, NobodyServed DEF Lane!Next, Lane!StopBegins
  <2> QED
    BY <2>2, <2>3
<1> QED
  BY <1>3, <1>4

LEMMA EveryStepMaps ==
  ASSUME BrokerInv, BrokerInv', [Next]_vars
  PROVE  Lane!Next \/ UNCHANGED <<phase, holder, losing>>
<1>1. ASSUME NEW r \in Requests,
             Arrive(r) \/ BodyLost(r) \/ Join(r) \/ Dropped(r) \/ Replayed(r) \/ Ends(r) \/ NotReplayed(r)
      PROVE  Lane!Next \/ UNCHANGED <<phase, holder, losing>>
  <2>1. UNCHANGED <<active, unloading>>
    BY <1>1 DEF Arrive, BodyLost, Join, Dropped, Replayed, Ends, NotReplayed, Release, loadVars, pumpVars
  <2>2. \/ UNCHANGED pump
        \/ \E p \in Pumps : pump[p] = "idle" /\ pump' = [pump EXCEPT ![p] = "pick"]
    BY <1>1 DEF Arrive, BodyLost, Join, Dropped, Replayed, Ends, NotReplayed, Release, Kick, pumpVars
  <2>3. PICK to \in ReqPc : /\ req' = [req EXCEPT ![r] = to]
                            /\ \/ Seen(to) = Seen(req[r])
                               \/ req[r] = "body" /\ to = "queued"
                               \/ req[r] \in {"open", "retry"} /\ to = "idle"
    BY <1>1 DEF Arrive, BodyLost, Join, Dropped, Replayed, Ends, NotReplayed, Release, ReqPc, Seen
  <2> QED
    BY <2>1, <2>2, <2>3, RequestMaps
<1>2. CASE UNCHANGED <<req, active, pump, unloading>>
  BY <1>2 DEF phase, holder, losing, Stopping
<1>3. ASSUME NEW r \in Requests, Age(r) PROVE UNCHANGED <<req, active, pump, unloading>>
  BY <1>3 DEF Age, loadVars, pumpVars, servedVars
<1>4. ASSUME NEW s \in Services, Dies(s) PROVE UNCHANGED <<req, active, pump, unloading>>
  BY <1>4 DEF Dies, pumpVars, servedVars
<1>5. CASE UNCHANGED vars
  BY <1>2, <1>5 DEF vars, loadVars, pumpVars, servedVars
<1> QED
  BY <1>1, <1>2, <1>3, <1>4, <1>5, PumpMaps, IdleStopMaps DEF Next
-----------------------------------------------------------------------------
(* The theorems.                                                            *)

\* Through replays, clients that go away, refused starts and dying containers, the count
\* that a swap waits on (pump(), release()) is the number of requests being served.
THEOREM InflightIsExact == Spec => []InflightExact
<1>1. BrokerInv => InflightExact
  BY DEF BrokerInv
<1> QED
  BY <1>1, BrokerInvariant, PTL

\* A swap or an idle stop never takes the service away from under a request
\* (ensureLoaded(), scheduleIdle()), nor lets one in meanwhile.
THEOREM StopsWhenDrained == Spec => []StoppedWhenDrained
<1>1. BrokerInv => StoppedWhenDrained
  <2> SUFFICES ASSUME BrokerInv,
                      Stopping, NEW s \in Services
               PROVE  Served(s) = {}
    BY DEF StoppedWhenDrained
  <2>1. Served(active) = {}
    BY DEF BrokerInv, Outgoing, Leaving, Stopping
  <2>2. Served(s) # {} => active = s
    BY DEF BrokerInv, ServedByActive
  <2> QED
    BY <2>1, <2>2
<1> QED
  BY <1>1, BrokerInvariant, PTL

\* No waiter is left in a queue that no pump() looks at, in particular not by the idle stop
\* that held the mutex when the waiter came.
THEOREM NoWaiterForgotten == Spec => []NoForgottenWaiter
<1>1. BrokerInv => NoForgottenWaiter
  BY DEF BrokerInv
<1> QED
  BY <1>1, BrokerInvariant, PTL

\* Two containers run at once only if one of them is one whose start was given up, or that
\* Docker would not stop at boot (the header's mutex, ensureLoaded()).
THEOREM MutexButStrays == Spec => []OneLoadedButStrays
<1>1. BrokerInv => OneLoadedButStrays
  <2> SUFFICES ASSUME BrokerInv, NEW s \in Services, NEW u \in Services,
                      running[s], running[u], s \notin stray, u \notin stray
               PROVE  s = u
    BY DEF OneLoadedButStrays
  <2>1. CASE \E p \in Pumps : pump[p] = "probe"
    <3>1. PICK p \in Pumps : pump[p] = "probe"
      BY <2>1
    <3>2. pump[p] # "idle" /\ pump[p] \in Bringing
      BY <3>1 DEF Bringing
    <3> QED
      BY <3>2, InHand
  <2>2. CASE \A p \in Pumps : pump[p] # "probe"
    BY <2>2 DEF BrokerInv, Accounted
  <2> QED
    BY <2>1, <2>2
<1> QED
  BY <1>1, BrokerInvariant, PTL

\* The broker keeps GpuLane, whatever Docker refuses and whichever containers die: requests are
\* served by the service that has the GPU, it is taken from a service only while nobody is served
\* (ensureLoaded(), scheduleIdle()), and nobody is served by another before that stop is over.
THEOREM ImplementsGpuLane == Spec => LaneIsImplemented
<1>1. Init => Lane!Init
  <2> SUFFICES ASSUME Init PROVE Lane!Init
    OBVIOUS
  <2>1. ~Stopping /\ \A r \in Requests : req[r] = "idle"
    BY DEF Init, Stopping
  <2> QED
    BY <2>1 DEF Init, Lane!Init, phase, holder, losing, Seen
<1>2. BrokerInv /\ BrokerInv' /\ [Next]_vars => [Lane!Next]_<<phase, holder, losing>>
  BY EveryStepMaps
<1> QED
  BY <1>1, <1>2, BrokerInvariant, PTL DEF Spec, LaneIsImplemented, Lane!Spec, Lane!laneVars
=============================================================================
