--------------------------- MODULE StreamChatProofs --------------------------
(***************************************************************************)
(* Proofs about EndpointGate and about StreamChat, for every set of callers *)
(* (turns) and endpoints, every limit and any number of calls.              *)
(* First the gate: its five properties follow from one inductive invariant, *)
(* GateInv: the types, and that a queue holds, once each, callers that are  *)
(* parked at that endpoint.  Then the turns: they use the gate as GateSpec  *)
(* allows, so what is proved of the gate holds of the gate under the turns; *)
(* no attempt leaves a call behind; and a pass goes around what the breaker *)
(* holds down, and never goes on elsewhere once it has been heard.          *)
(***************************************************************************)
EXTENDS StreamChat, TLAPS, FiniteSetTheorems, SequenceTheorems

WhereInv == \A c \in Callers : call[c] \in {"parked", "admitted", "open"} => where[c] \in Urls

\* The calls of the queue `q` are parked at `u`, each of them once, when the states of
\* the calls are `st` and their endpoints `w`.
ParkedAt(u, q, st, w) ==
    \A i \in 1..Len(q) : /\ st[q[i]] = "parked" /\ w[q[i]] = u
                         /\ \A j \in 1..Len(q) : q[i] = q[j] => i = j

QueueInv == \A u \in Urls : ParkedAt(u, queue[u], call, where)

GateInv == GateTypeOK /\ WhereInv /\ QueueInv /\ SlotsConserved /\ NoIdleSlot
-----------------------------------------------------------------------------
(* The helpers.                                                             *)

LEMMA AtLeastOneType == ASSUME NEW n \in SlotChoices
                        PROVE  AtLeastOne(n) \in Nat \ {0}
  BY GateAssumption DEF AtLeastOne

\* What pump() does to a queue: it never admits more than there are waiters, never
\* past the limit, and it stops short of the last waiter only at the limit.
LEMMA GrantsProperties ==
  ASSUME NEW q \in Seq(Callers), NEW a \in Nat, NEW s \in Nat
  PROVE  LET k == Grants(q, a, s)
             rest == SubSeq(q, k + 1, Len(q))
         IN  /\ k \in 0..Len(q)
             /\ k < Len(q) => a + k >= s
             /\ k > 0 => a + k <= s
             /\ rest \in Seq(Callers)
             /\ Len(rest) = Len(q) - k
             /\ \A i \in 1..Len(rest) : rest[i] = q[k + i]
<1> DEFINE k == Grants(q, a, s)
           rest == SubSeq(q, k + 1, Len(q))
<1>1. Len(q) \in Nat
  BY LenProperties
<1>2. k \in 0..Len(q) /\ (k < Len(q) => a + k >= s) /\ (k > 0 => a + k <= s)
  BY <1>1 DEF Grants
<1> HIDE DEF k
<1>3. \A i \in (k + 1)..Len(q) : q[i] \in Callers
  BY <1>1, <1>2, ElementOfSeq
<1>4. rest \in Seq(Callers) /\ Len(rest) = IF k + 1 <= Len(q) THEN Len(q) - (k + 1) + 1 ELSE 0
  BY <1>1, <1>2, SubSeqProperties
<1>5. \A i \in 1..(Len(q) - (k + 1) + 1) : rest[i] = q[(k + 1) + i - 1]
  BY <1>1, <1>2, SubSeqProperties
<1>6. Len(rest) = Len(q) - k
  BY <1>1, <1>2, <1>4
<1>7. \A i \in 1..Len(rest) : rest[i] = q[k + i]
  BY <1>1, <1>2, <1>5, <1>6
<1> QED
  BY <1>2, <1>4, <1>6, <1>7 DEF k

\* The first k entries of a queue without repetitions are k callers.
LEMMA FirstOfQueue ==
  ASSUME NEW q \in Seq(Callers), NEW k \in 0..Len(q),
         \A i, j \in 1..Len(q) : q[i] = q[j] => i = j
  PROVE  LET G == {q[i] : i \in 1..k}
         IN  IsFiniteSet(G) /\ Cardinality(G) = k
<1> DEFINE G == {q[i] : i \in 1..k}
           f == [i \in 1..k |-> q[i]]
<1>1. Len(q) \in Nat /\ k \in Nat /\ \A i \in 1..k : i \in 1..Len(q)
  BY LenProperties
<1>2. f \in Bijection(1..k, G)
  BY <1>1 DEF Bijection, Injection, Surjection, IsInjective
<1>3. ExistsBijection(1..k, G)
  BY <1>2 DEF ExistsBijection
<1>4. G \subseteq Callers
  BY <1>1, ElementOfSeq
<1>5. IsFiniteSet(G)
  BY <1>4, FiniteCallers, FS_Subset
<1> QED
  BY <1>1, <1>3, <1>5, FS_CountingElements
-----------------------------------------------------------------------------
(* The step every handler ends with.                                        *)

\* The callers that hold a slot of `v` when their states are `st` and their endpoints `w`.
HoldersIn(v, st, w) == {c \in Callers : w[c] = v /\ st[c] \in {"admitted", "open"}}

\* What holds when pump() is called for `u` with the queue `q`, the count `a`, the limit `s`
\* and the calls in the states `st`: all but "nobody waits beside a free slot", at `u`.
Pumpable(u, q, a, s, st) ==
    /\ queue \in [Urls -> Seq(Callers)] /\ active \in [Urls -> Nat] /\ slots'[u] = s
    /\ ParkedAt(u, q, st, where')
    /\ a = Cardinality(HoldersIn(u, st, where'))
    /\ \A c \in Callers : st[c] \in {"parked", "admitted", "open"} => where'[c] \in Urls
    /\ \A v \in Urls \ {u} : /\ ParkedAt(v, queue[v], st, where')
                             /\ active[v] = Cardinality(HoldersIn(v, st, where'))
                             /\ queue[v] # <<>> => active[v] >= slots'[v]

\* What holds once it has returned: the invariant, and which calls were admitted.
Pumped(u, q, a, s, st) ==
    /\ queue' \in [Urls -> Seq(Callers)] /\ active' \in [Urls -> Nat]
    /\ call' \in [Callers -> CallState]
    /\ WhereInv' /\ QueueInv' /\ SlotsConserved' /\ NoIdleSlot'
    /\ active'[u] > a => active'[u] <= s
    /\ \A v \in Urls \ {u} : active'[v] = active[v]
    /\ \E k \in 0..Len(q) :
          /\ \A i \in 1..Len(q) : call'[q[i]] = IF i <= k THEN "admitted" ELSE "parked"
          /\ k = Len(q) => queue'[u] = <<>>
    /\ \A c \in Callers : (\A i \in 1..Len(q) : q[i] # c) => call'[c] = st[c]

\* Whatever acquire() and finish() have done before they pump, they have left the queue
\* parked and free of repetitions and the count right; pump() then hands out slots to a
\* prefix of the queue, and the invariant holds again.
LEMMA PumpStep ==
  ASSUME NEW u \in Urls, NEW q \in Seq(Callers), NEW a \in Nat, NEW s \in Nat \ {0},
         NEW st \in [Callers -> CallState],
         Pumpable(u, q, a, s, st),
         Pump(u, q, a, s, st)
  PROVE  Pumped(u, q, a, s, st)
<1> DEFINE k == Grants(q, a, s)
           rest == SubSeq(q, k + 1, Len(q))
           G == {q[i] : i \in 1..k}
<1>1. /\ k \in 0..Len(q) /\ (k < Len(q) => a + k >= s) /\ (k > 0 => a + k <= s)
      /\ rest \in Seq(Callers) /\ Len(rest) = Len(q) - k
      /\ \A i \in 1..Len(rest) : rest[i] = q[k + i]
  <2>1. s \in Nat
    OBVIOUS
  <2> QED
    BY <2>1, GrantsProperties
<1>2. /\ queue' = [queue EXCEPT ![u] = rest]
      /\ active' = [active EXCEPT ![u] = a + k]
      /\ call' = [c \in Callers |-> IF \E i \in 1..k : q[i] = c THEN "admitted" ELSE st[c]]
  BY DEF Pump
<1> HIDE DEF k, rest
<1>3. \A i \in 1..Len(q) : /\ st[q[i]] = "parked" /\ where'[q[i]] = u
                           /\ \A j \in 1..Len(q) : q[i] = q[j] => i = j
  BY DEF Pumpable, ParkedAt
<1>4. /\ Len(q) \in Nat /\ k \in Nat /\ \A i \in 1..k : i \in 1..Len(q)
      /\ \A i \in 1..Len(q) : q[i] \in Callers
  BY <1>1, LenProperties, ElementOfSeq
<1>5. /\ queue' \in [Urls -> Seq(Callers)] /\ active' \in [Urls -> Nat]
      /\ queue'[u] = rest /\ active'[u] = a + k
      /\ \A v \in Urls \ {u} : queue'[v] = queue[v] /\ active'[v] = active[v]
  BY <1>1, <1>2, <1>4 DEF Pumpable
<1>6. \A c \in Callers : call'[c] = IF c \in G THEN "admitted" ELSE st[c]
  BY <1>2
<1>7. call' \in [Callers -> CallState]
  BY <1>2 DEF CallState
<1>8. \A c \in G : st[c] = "parked" /\ where'[c] = u /\ c \in Callers
  BY <1>3, <1>4
<1>9. \A i \in 1..Len(q) : call'[q[i]] = IF i <= k THEN "admitted" ELSE "parked"
  <2> SUFFICES ASSUME NEW i \in 1..Len(q)
               PROVE  call'[q[i]] = IF i <= k THEN "admitted" ELSE "parked"
    OBVIOUS
  <2>1. q[i] \in G <=> i <= k
    BY <1>3, <1>4
  <2> HIDE DEF G
  <2> QED
    BY <2>1, <1>3, <1>4, <1>6
<1> HIDE DEF G
<1>10. WhereInv'
  BY <1>6, <1>8 DEF WhereInv, Pumpable
<1>11. QueueInv'
  <2>1. ParkedAt(u, rest, call', where')
    <3>1. \A i \in 1..Len(rest) : k + i \in 1..Len(q) /\ ~(k + i <= k) /\ rest[i] = q[k + i]
      BY <1>1, <1>4
    <3> SUFFICES ASSUME NEW i \in 1..Len(rest)
                 PROVE  /\ call'[rest[i]] = "parked" /\ where'[rest[i]] = u
                        /\ \A j \in 1..Len(rest) : rest[i] = rest[j] => i = j
      BY DEF ParkedAt
    <3>2. call'[rest[i]] = "parked" /\ where'[rest[i]] = u
      BY <3>1, <1>9, <1>3
    <3>3. \A j \in 1..Len(rest) : rest[i] = rest[j] => k + i = k + j
      BY <3>1, <1>3
    <3> QED
      BY <3>2, <3>3, <1>1, <1>4
  <2>2. ASSUME NEW v \in Urls \ {u} PROVE ParkedAt(v, queue[v], call', where')
    <3>1. ParkedAt(v, queue[v], st, where') /\ queue[v] \in Seq(Callers)
      BY DEF Pumpable
    <3>2. \A i \in 1..Len(queue[v]) : queue[v][i] \in Callers
      BY <3>1, ElementOfSeq
    <3> QED
      BY <3>1, <3>2, <1>6, <1>8 DEF ParkedAt
  <2> QED
    BY <1>5, <2>1, <2>2 DEF QueueInv
<1>12. SlotsConserved'
  <2>1. HoldersIn(u, call', where') = HoldersIn(u, st, where') \cup G
    BY <1>6, <1>8 DEF HoldersIn
  <2>2. HoldersIn(u, st, where') \cap G = {}
    BY <1>8 DEF HoldersIn
  <2>3. HoldersIn(u, st, where') \subseteq Callers
    BY DEF HoldersIn
  <2>4. IsFiniteSet(HoldersIn(u, st, where'))
    BY <2>3, FiniteCallers, FS_Subset
  <2>5. IsFiniteSet(G) /\ Cardinality(G) = k
    BY <1>1, <1>3, FirstOfQueue DEF G
  <2>6. Cardinality(HoldersIn(u, call', where')) = Cardinality(HoldersIn(u, st, where')) + k
    <3>1. Cardinality(HoldersIn(u, st, where') \cup G)
            = Cardinality(HoldersIn(u, st, where')) + Cardinality(G) - Cardinality({})
      BY <2>2, <2>4, <2>5, FS_Union
    <3>2. Cardinality(HoldersIn(u, st, where')) \in Nat
      BY <2>4, FS_CardinalityType
    <3> QED
      BY <2>1, <2>5, <3>1, <3>2, <1>4, FS_EmptySet
  <2>7. \A v \in Urls \ {u} : HoldersIn(v, call', where') = HoldersIn(v, st, where')
    BY <1>6, <1>8 DEF HoldersIn
  <2>8. \A v \in Urls : active'[v] = Cardinality(HoldersIn(v, call', where'))
    BY <1>5, <2>6, <2>7 DEF Pumpable
  <2> QED
    BY <2>8 DEF SlotsConserved, Holders, HoldersIn
<1>13. rest # <<>> => k < Len(q)
  BY <1>1, <1>4, EmptySeq
<1>14. NoIdleSlot'
  BY <1>1, <1>5, <1>13 DEF NoIdleSlot, Pumpable
<1>15. active'[u] > a => active'[u] <= s
  BY <1>1, <1>4, <1>5
<1>16. k = Len(q) => queue'[u] = <<>>
  BY <1>4, <1>5, <1>13
<1>17. \A c \in Callers : (\A i \in 1..Len(q) : q[i] # c) => call'[c] = st[c]
  BY <1>4, <1>6 DEF G
<1> QED
  BY <1>1, <1>5, <1>7, <1>9, <1>10, <1>11, <1>12, <1>14, <1>15, <1>16, <1>17
     DEF Pumped
-----------------------------------------------------------------------------
(* The invariant is inductive.                                              *)

LEMMA InitEstablishes == GateInit => GateInv
<1> SUFFICES ASSUME GateInit PROVE GateInv
  OBVIOUS
<1>1. GateTypeOK
  BY EmptySeq DEF GateInit, GateTypeOK, CallState
<1>2. WhereInv /\ QueueInv /\ NoIdleSlot
  BY EmptySeq DEF GateInit, WhereInv, QueueInv, ParkedAt, NoIdleSlot
<1>3. SlotsConserved
  <2>1. \A u \in Urls : Holders(u) = {}
    BY DEF GateInit, Holders
  <2> QED
    BY <2>1, FS_EmptySet DEF GateInit, SlotsConserved
<1> QED
  BY <1>1, <1>2, <1>3 DEF GateInv

\* The call that arrives is made the last of the queue; it was in none before.
LEMMA AcquirePumps ==
  ASSUME GateInv, NEW c \in Callers, NEW u \in Urls, NEW n \in SlotChoices, Acquire(c, u, n)
  PROVE  LET q == Append(queue[u], c)
             st == [call EXCEPT ![c] = "parked"]
             s == AtLeastOne(n)
         IN  /\ q \in Seq(Callers) /\ s \in Nat \ {0} /\ st \in [Callers -> CallState]
             /\ Len(q) = Len(queue[u]) + 1 /\ q[Len(q)] = c
             /\ \A i \in 1..Len(queue[u]) : q[i] = queue[u][i]
             /\ Pumpable(u, q, active[u], s, st)
             /\ Pump(u, q, active[u], s, st)
<1> DEFINE q == Append(queue[u], c)
           st == [call EXCEPT ![c] = "parked"]
           s == AtLeastOne(n)
<1>1. /\ call[c] \in {"none", "closed"}
      /\ slots' = [slots EXCEPT ![u] = s]
      /\ where' = [where EXCEPT ![c] = u]
      /\ Pump(u, q, active[u], s, st)
  BY DEF Acquire
<1>2. s \in Nat \ {0}
  BY AtLeastOneType
<1> HIDE DEF s
<1>3. GateTypeOK /\ WhereInv /\ QueueInv /\ SlotsConserved /\ NoIdleSlot
  BY DEF GateInv
<1>4. queue[u] \in Seq(Callers) /\ st \in [Callers -> CallState]
  BY <1>3 DEF GateTypeOK, CallState
<1>5. /\ q \in Seq(Callers) /\ Len(q) = Len(queue[u]) + 1 /\ q[Len(q)] = c
      /\ \A i \in 1..Len(queue[u]) : q[i] = queue[u][i]
      /\ Len(queue[u]) \in Nat
  BY <1>4, AppendProperties, LenProperties
<1>6. \A v \in Urls : \A i \in 1..Len(queue[v]) :
         queue[v][i] \in Callers /\ queue[v][i] # c /\ call[queue[v][i]] = "parked"
  <2>1. \A v \in Urls : queue[v] \in Seq(Callers)
    BY <1>3 DEF GateTypeOK
  <2> QED
    BY <1>1, <1>3, <2>1, ElementOfSeq DEF QueueInv, ParkedAt
<1>7. ASSUME NEW v \in Urls PROVE ParkedAt(v, queue[v], st, where')
  BY <1>1, <1>3, <1>6 DEF GateTypeOK, QueueInv, ParkedAt
<1>8. st[c] = "parked" /\ where'[c] = u
  BY <1>1, <1>3 DEF GateTypeOK
<1> HIDE DEF q
<1>9. ParkedAt(u, q, st, where')
  <2> SUFFICES ASSUME NEW i \in 1..Len(q)
               PROVE  /\ st[q[i]] = "parked" /\ where'[q[i]] = u
                      /\ \A j \in 1..Len(q) : q[i] = q[j] => i = j
    BY DEF ParkedAt
  <2> HIDE DEF st
  <2>1. CASE i = Len(q)
    BY <2>1, <1>5, <1>6, <1>8
  <2>2. CASE i \in 1..Len(queue[u])
    BY <2>2, <1>5, <1>6, <1>7 DEF ParkedAt
  <2> QED
    BY <2>1, <2>2, <1>5
<1>10. \A v \in Urls : HoldersIn(v, st, where') = Holders(v)
  BY <1>1, <1>3 DEF GateTypeOK, HoldersIn, Holders
<1>11. \A v \in Urls : active[v] = Cardinality(HoldersIn(v, st, where'))
  BY <1>3, <1>10 DEF SlotsConserved
<1>12. \A d \in Callers : st[d] \in {"parked", "admitted", "open"} => where'[d] \in Urls
  BY <1>1, <1>3 DEF GateTypeOK, WhereInv
<1>13. /\ slots'[u] = s
       /\ \A v \in Urls \ {u} : queue[v] # <<>> => active[v] >= slots'[v]
  BY <1>1, <1>3 DEF GateTypeOK, NoIdleSlot
<1>14. Pumpable(u, q, active[u], s, st)
  BY <1>3, <1>7, <1>9, <1>11, <1>12, <1>13 DEF Pumpable, GateTypeOK
<1> QED
  BY <1>1, <1>2, <1>4, <1>5, <1>14 DEF q, s

\* The call that reports gives up its slot, and the count goes down with it.
LEMMA GiveBackPumps ==
  ASSUME GateInv, NEW c \in Callers, call[c] = "open", GiveBack(c)
  PROVE  LET u == where[c]
             st == [call EXCEPT ![c] = "closed"]
         IN  /\ u \in Urls /\ queue[u] \in Seq(Callers)
             /\ active[u] \in Nat \ {0} /\ slots[u] \in Nat \ {0}
             /\ st \in [Callers -> CallState]
             /\ Pumpable(u, queue[u], active[u] - 1, slots[u], st)
             /\ Pump(u, queue[u], active[u] - 1, slots[u], st)
<1> DEFINE u == where[c]
           st == [call EXCEPT ![c] = "closed"]
<1>1. GateTypeOK /\ WhereInv /\ QueueInv /\ SlotsConserved /\ NoIdleSlot
  BY DEF GateInv
<1>2. u \in Urls
  BY <1>1 DEF WhereInv
<1>3. /\ Pump(u, queue[u], IF active[u] = 0 THEN 0 ELSE active[u] - 1, slots[u], st)
      /\ where' = [where EXCEPT ![c] = NoUrl] /\ slots' = slots
  BY DEF GiveBack
<1>4. /\ \A v \in Urls : queue[v] \in Seq(Callers)
      /\ active[u] \in Nat /\ slots[u] \in Nat \ {0} /\ st \in [Callers -> CallState]
  BY <1>1, <1>2 DEF GateTypeOK, CallState
<1>5. /\ \A v \in Urls \ {u} : HoldersIn(v, st, where') = Holders(v)
      /\ HoldersIn(u, st, where') = Holders(u) \ {c}
      /\ c \in Holders(u)
  BY <1>1, <1>2, <1>3, GateAssumption DEF GateTypeOK, HoldersIn, Holders
<1>6. active[u] # 0 /\ active[u] - 1 = Cardinality(HoldersIn(u, st, where'))
  <2>1. IsFiniteSet(Holders(u))
    BY FiniteCallers, FS_Subset DEF Holders
  <2>2. Cardinality(Holders(u)) \in Nat /\ Cardinality(Holders(u) \ {c}) \in Nat
    BY <2>1, FS_CardinalityType, FS_RemoveElement
  <2>3. Cardinality(Holders(u) \ {c}) = Cardinality(Holders(u)) - 1
    BY <2>1, <1>5, FS_RemoveElement
  <2>4. active[u] = Cardinality(Holders(u))
    BY <1>1, <1>2 DEF SlotsConserved
  <2>5. Cardinality(HoldersIn(u, st, where')) = Cardinality(Holders(u) \ {c})
    BY <1>5
  <2> HIDE DEF u, st
  <2> QED
    BY <2>2, <2>3, <2>4, <2>5
<1>7. ASSUME NEW v \in Urls PROVE ParkedAt(v, queue[v], st, where')
  <2>1. \A i \in 1..Len(queue[v]) : /\ queue[v][i] \in Callers /\ queue[v][i] # c
                                    /\ call[queue[v][i]] = "parked"
    BY <1>1, <1>4, ElementOfSeq DEF QueueInv, ParkedAt
  <2> QED
    BY <1>1, <1>3, <2>1 DEF GateTypeOK, QueueInv, ParkedAt
<1>8. \A d \in Callers : st[d] \in {"parked", "admitted", "open"} => where'[d] \in Urls
  BY <1>1, <1>3 DEF GateTypeOK, WhereInv
<1>9. \A v \in Urls : queue[v] # <<>> => active[v] >= slots'[v]
  BY <1>1, <1>3 DEF NoIdleSlot
<1>10. Pumpable(u, queue[u], active[u] - 1, slots[u], st)
  BY <1>1, <1>2, <1>3, <1>5, <1>6, <1>7, <1>8, <1>9 DEF Pumpable, GateTypeOK, SlotsConserved
<1> QED
  BY <1>2, <1>3, <1>4, <1>6, <1>10

\* What each action does to the invariant, to the counts and to the order.  An action
\* that is not a stutter at the gate admits at one endpoint at most.
StepProperties ==
    /\ GateInv'
    /\ \A u \in Urls : active'[u] > active[u] => active'[u] <= slots'[u]
    /\ \A u \in Urls : \A i, j \in 1..Len(queue[u]) :
          i < j /\ call'[queue[u][j]] # "parked" => call'[queue[u][i]] # "parked"
    /\ \A c \in Callers : call[c] # "parked" /\ call[c] # "admitted" /\ call'[c] = "admitted"
          => queue'[where'[c]] = <<>>

LEMMA AcquireStep ==
  ASSUME GateInv, NEW c \in Callers, NEW u \in Urls, NEW n \in SlotChoices, Acquire(c, u, n)
  PROVE  StepProperties
<1> DEFINE q == Append(queue[u], c)
           st == [call EXCEPT ![c] = "parked"]
           s == AtLeastOne(n)
<1>1. /\ q \in Seq(Callers) /\ s \in Nat \ {0} /\ st \in [Callers -> CallState]
      /\ Len(q) = Len(queue[u]) + 1 /\ q[Len(q)] = c
      /\ \A i \in 1..Len(queue[u]) : q[i] = queue[u][i]
      /\ Pumpable(u, q, active[u], s, st)
      /\ Pump(u, q, active[u], s, st)
  BY AcquirePumps
<1>2. /\ slots' = [slots EXCEPT ![u] = s]
      /\ where' = [where EXCEPT ![c] = u]
      /\ running' = running
  BY DEF Acquire
<1>3. GateTypeOK /\ WhereInv /\ QueueInv
  BY DEF GateInv
<1>4. \A v \in Urls : /\ queue[v] \in Seq(Callers) /\ active[v] \in Nat
                      /\ Len(queue[v]) \in Nat
                      /\ \A i \in 1..Len(queue[v]) :
                            /\ queue[v][i] \in Callers /\ call[queue[v][i]] = "parked"
                            /\ where[queue[v][i]] = v
  <2>1. \A v \in Urls : queue[v] \in Seq(Callers) /\ active[v] \in Nat
    BY <1>3 DEF GateTypeOK
  <2> QED
    BY <2>1, <1>3, ElementOfSeq, LenProperties DEF QueueInv, ParkedAt
<1>5. call[c] \in {"none", "closed"}
  BY DEF Acquire
<1>6. \A d \in Callers : d # c => st[d] = call[d]
  BY <1>3 DEF GateTypeOK
<1> HIDE DEF q, st, s
<1>7. /\ queue' \in [Urls -> Seq(Callers)] /\ active' \in [Urls -> Nat]
      /\ call' \in [Callers -> CallState]
      /\ WhereInv' /\ QueueInv' /\ SlotsConserved' /\ NoIdleSlot'
      /\ active'[u] > active[u] => active'[u] <= s
      /\ \A v \in Urls \ {u} : active'[v] = active[v]
      /\ \E k \in 0..Len(q) :
            /\ \A i \in 1..Len(q) : call'[q[i]] = IF i <= k THEN "admitted" ELSE "parked"
            /\ k = Len(q) => queue'[u] = <<>>
      /\ \A d \in Callers : (\A i \in 1..Len(q) : q[i] # d) => call'[d] = st[d]
  <2>1. active[u] \in Nat
    BY <1>4
  <2>2. Pumped(u, q, active[u], s, st)
    BY <1>1, <2>1, PumpStep
  <2> QED
    BY <2>2 DEF Pumped
<1>8. GateInv'
  <2>1. slots' \in [Urls -> Nat \ {0}] /\ where' \in [Callers -> Urls \cup {NoUrl}]
        /\ running' \in [Urls -> SUBSET Callers]
    BY <1>1, <1>2, <1>3 DEF GateTypeOK
  <2> QED
    BY <1>7, <2>1 DEF GateInv, GateTypeOK
<1>9. \A v \in Urls : active'[v] > active[v] => active'[v] <= slots'[v]
  <2>1. slots'[u] = s
    BY <1>2, <1>3 DEF GateTypeOK
  <2>2. \A v \in Urls : active[v] \in Nat
    BY <1>4
  <2> QED
    BY <1>7, <2>1, <2>2
<1>10. PICK k \in 0..Len(q) :
          /\ \A i \in 1..Len(q) : call'[q[i]] = IF i <= k THEN "admitted" ELSE "parked"
          /\ k = Len(q) => queue'[u] = <<>>
  BY <1>7
<1>11. \A i \in 1..Len(queue[u]) :
          call'[queue[u][i]] = IF i <= k THEN "admitted" ELSE "parked"
  <2> SUFFICES ASSUME NEW i \in 1..Len(queue[u])
               PROVE  call'[queue[u][i]] = IF i <= k THEN "admitted" ELSE "parked"
    OBVIOUS
  <2>1. i \in 1..Len(q) /\ q[i] = queue[u][i]
    BY <1>1, <1>4
  <2> QED
    BY <2>1, <1>10
<1>12. \A v \in Urls : \A i \in 1..Len(queue[v]) :
          call'[queue[v][i]] # "parked" => v = u /\ i <= k
  <2>1. \A i \in 1..Len(queue[u]) : call'[queue[u][i]] # "parked" => i <= k
    BY <1>11
  <2>2. ASSUME NEW v \in Urls, v # u, NEW i \in 1..Len(queue[v])
        PROVE  call'[queue[v][i]] = "parked"
    <3>1. PICK d \in Callers : d = queue[v][i]
      BY <1>4, <2>2
    <3>2. call[d] = "parked" /\ where[d] = v /\ d # c
      BY <1>4, <1>5, <2>2, <3>1
    <3>3. \A j \in 1..Len(queue[u]) : q[j] # d
      BY <1>1, <1>4, <2>2, <3>2
    <3>4. \A j \in 1..Len(q) : q[j] # d
      BY <3>2, <3>3, <1>1, <1>4
    <3> QED
      BY <3>1, <3>2, <3>4, <1>6, <1>7
  <2> QED
    BY <2>1, <2>2
<1>13. \A i \in 1..Len(queue[u]) : i <= k => call'[queue[u][i]] # "parked"
  BY <1>11
<1>14. \A v \in Urls : \A i, j \in 1..Len(queue[v]) :
          i < j /\ call'[queue[v][j]] # "parked" => call'[queue[v][i]] # "parked"
  BY <1>4, <1>10, <1>12, <1>13
<1>15. ASSUME NEW d \in Callers, call[d] # "parked", call[d] # "admitted", call'[d] = "admitted"
       PROVE  queue'[where'[d]] = <<>>
  <2>1. d = c
    <3>1. \A i \in 1..Len(queue[u]) : q[i] # d
      BY <1>1, <1>4, <1>15
    <3>2. CASE d # c
      <4>1. \A i \in 1..Len(q) : q[i] # d
        BY <3>1, <3>2, <1>1, <1>4
      <4> QED
        BY <4>1, <3>2, <1>6, <1>7, <1>15
    <3> QED
      BY <3>2
  <2>2. k = Len(q)
    <3>1. Len(q) \in 1..Len(q) /\ Len(q) \in Nat
      BY <1>1, <1>4
    <3> QED
      BY <2>1, <3>1, <1>1, <1>10, <1>15
  <2>3. where'[c] = u
    BY <1>2, <1>3 DEF GateTypeOK
  <2> QED
    BY <2>1, <2>2, <2>3, <1>10
<1> QED
  BY <1>8, <1>9, <1>14, <1>15 DEF StepProperties

LEMMA StartStep ==
  ASSUME GateInv, NEW c \in Callers, Start(c)
  PROVE  StepProperties
<1>1. GateTypeOK /\ WhereInv /\ QueueInv /\ SlotsConserved /\ NoIdleSlot
  BY DEF GateInv
<1>2. /\ call[c] = "admitted" /\ call' = [call EXCEPT ![c] = "open"]
      /\ running' = [running EXCEPT ![where[c]] = @ \cup {c}]
      /\ queue' = queue /\ active' = active /\ slots' = slots /\ where' = where
  BY DEF Start
<1>3. GateTypeOK'
  BY <1>1, <1>2 DEF GateTypeOK, CallState
<1>4. \A u \in Urls : \A i \in 1..Len(queue[u]) :
         queue[u][i] \in Callers /\ call[queue[u][i]] = "parked" /\ call'[queue[u][i]] = "parked"
  <2>1. \A u \in Urls : queue[u] \in Seq(Callers)
    BY <1>1 DEF GateTypeOK
  <2>2. \A u \in Urls : \A i \in 1..Len(queue[u]) :
           queue[u][i] \in Callers /\ call[queue[u][i]] = "parked"
    BY <1>1, <2>1, ElementOfSeq DEF QueueInv, ParkedAt
  <2> QED
    BY <1>1, <1>2, <2>2 DEF GateTypeOK
<1>5. QueueInv'
  BY <1>1, <1>2, <1>4 DEF QueueInv, ParkedAt
<1>6. WhereInv'
  BY <1>1, <1>2 DEF WhereInv, GateTypeOK
<1>7. SlotsConserved'
  <2>1. \A u \in Urls : Holders(u)' = Holders(u)
    BY <1>1, <1>2 DEF GateTypeOK, Holders
  <2> QED
    BY <1>1, <1>2, <2>1 DEF SlotsConserved
<1>8. NoIdleSlot'
  BY <1>1, <1>2 DEF NoIdleSlot
<1>9. \A u \in Urls : active[u] \in Nat
  BY <1>1 DEF GateTypeOK
<1>10. \A d \in Callers : call[d] # "admitted" => call'[d] # "admitted"
  BY <1>1, <1>2 DEF GateTypeOK
<1> QED
  BY <1>2, <1>3, <1>4, <1>5, <1>6, <1>7, <1>8, <1>9, <1>10 DEF StepProperties, GateInv

LEMMA FinishStep ==
  ASSUME GateInv, NEW c \in Callers, call[c] = "open", GiveBack(c)
  PROVE  StepProperties
<1> DEFINE u == where[c]
           q == queue[u]
           a == active[u] - 1
           st == [call EXCEPT ![c] = "closed"]
<1>1. /\ u \in Urls /\ q \in Seq(Callers) /\ active[u] \in Nat \ {0} /\ slots[u] \in Nat \ {0}
      /\ st \in [Callers -> CallState]
      /\ Pumpable(u, q, a, slots[u], st)
      /\ Pump(u, q, a, slots[u], st)
  BY GiveBackPumps
<1>2. /\ running' = [running EXCEPT ![u] = @ \ {c}]
      /\ where' = [where EXCEPT ![c] = NoUrl]
      /\ slots' = slots
  BY DEF GiveBack
<1>3. GateTypeOK /\ WhereInv /\ QueueInv
  BY DEF GateInv
<1>4. \A v \in Urls : /\ queue[v] \in Seq(Callers) /\ active[v] \in Nat
                      /\ Len(queue[v]) \in Nat
                      /\ \A i \in 1..Len(queue[v]) :
                            /\ queue[v][i] \in Callers /\ call[queue[v][i]] = "parked"
                            /\ where[queue[v][i]] = v
  <2>1. \A v \in Urls : queue[v] \in Seq(Callers) /\ active[v] \in Nat
    BY <1>3 DEF GateTypeOK
  <2> QED
    BY <2>1, <1>3, ElementOfSeq, LenProperties DEF QueueInv, ParkedAt
<1>5. /\ \A d \in Callers : d # c => st[d] = call[d]
      /\ st[c] = "closed"
  BY <1>3 DEF GateTypeOK
<1> HIDE DEF st, a
<1>6. /\ queue' \in [Urls -> Seq(Callers)] /\ active' \in [Urls -> Nat]
      /\ call' \in [Callers -> CallState]
      /\ WhereInv' /\ QueueInv' /\ SlotsConserved' /\ NoIdleSlot'
      /\ active'[u] > a => active'[u] <= slots[u]
      /\ \A v \in Urls \ {u} : active'[v] = active[v]
      /\ \E k \in 0..Len(q) :
            /\ \A i \in 1..Len(q) : call'[q[i]] = IF i <= k THEN "admitted" ELSE "parked"
            /\ k = Len(q) => queue'[u] = <<>>
      /\ \A d \in Callers : (\A i \in 1..Len(q) : q[i] # d) => call'[d] = st[d]
  <2>1. a \in Nat
    BY <1>1 DEF a
  <2>2. Pumped(u, q, a, slots[u], st)
    BY <1>1, <2>1, PumpStep
  <2> QED
    BY <2>2 DEF Pumped
<1>7. GateInv'
  <2>1. slots' \in [Urls -> Nat \ {0}] /\ where' \in [Callers -> Urls \cup {NoUrl}]
        /\ running' \in [Urls -> SUBSET Callers]
    BY <1>2, <1>3 DEF GateTypeOK
  <2> QED
    BY <1>6, <2>1 DEF GateInv, GateTypeOK
<1>8. \A v \in Urls : active'[v] > active[v] => active'[v] <= slots'[v]
  <2>1. active'[u] \in Nat
    BY <1>1, <1>6
  <2>2. active'[u] > active[u] => active'[u] <= slots[u]
    BY <1>1, <1>6, <2>1 DEF a
  <2>3. ASSUME NEW v \in Urls, v # u PROVE ~(active'[v] > active[v])
    BY <2>3, <1>4, <1>6
  <2> QED
    BY <1>2, <2>2, <2>3
<1>9. PICK k \in 0..Len(q) :
         /\ \A i \in 1..Len(q) : call'[q[i]] = IF i <= k THEN "admitted" ELSE "parked"
         /\ k = Len(q) => queue'[u] = <<>>
  BY <1>6
<1>10. ASSUME NEW v \in Urls, v # u, NEW i \in 1..Len(queue[v])
       PROVE  call'[queue[v][i]] = "parked"
  <2>1. PICK d \in Callers : d = queue[v][i]
    BY <1>4, <1>10
  <2>2. call[d] = "parked" /\ where[d] = v
    BY <1>4, <1>10, <2>1
  <2>3. \A j \in 1..Len(q) : q[j] # d
    BY <1>1, <1>4, <1>10, <2>2
  <2>4. d # c
    BY <2>2
  <2> QED
    BY <2>1, <2>2, <2>3, <2>4, <1>5, <1>6
<1>11. \A v \in Urls : \A i, j \in 1..Len(queue[v]) :
          i < j /\ call'[queue[v][j]] # "parked" => call'[queue[v][i]] # "parked"
  <2>1. ASSUME NEW i \in 1..Len(q), NEW j \in 1..Len(q), i < j, call'[q[j]] # "parked"
        PROVE  call'[q[i]] # "parked"
    BY <1>1, <1>4, <1>9, <2>1
  <2> QED
    BY <1>10, <2>1
<1>12. ASSUME NEW d \in Callers, call[d] # "parked", call[d] # "admitted"
       PROVE  call'[d] # "admitted"
  <2>1. \A i \in 1..Len(q) : q[i] # d
    BY <1>1, <1>4, <1>12
  <2> QED
    BY <2>1, <1>5, <1>6, <1>12
<1> QED
  BY <1>7, <1>8, <1>11, <1>12 DEF StepProperties

LEMMA NextStep == GateInv /\ [GateNext]_gateVars => StepProperties
<1> SUFFICES ASSUME GateInv, [GateNext]_gateVars PROVE StepProperties
  OBVIOUS
<1>1. CASE UNCHANGED gateVars
  <2>1. GateInv'
    BY <1>1 DEF gateVars, GateInv, GateTypeOK, WhereInv, QueueInv, ParkedAt, SlotsConserved,
                Holders, NoIdleSlot
  <2>2. \A u \in Urls : active[u] \in Nat
    BY DEF GateInv, GateTypeOK
  <2>3. \A u \in Urls : \A i \in 1..Len(queue[u]) : call[queue[u][i]] = "parked"
    BY DEF GateInv, QueueInv, ParkedAt
  <2> QED
    BY <1>1, <2>1, <2>2, <2>3 DEF StepProperties, gateVars
<1>2. ASSUME NEW c \in Callers, NEW u \in Urls, NEW n \in SlotChoices, Acquire(c, u, n)
      PROVE  StepProperties
  BY <1>2, AcquireStep
<1>3. ASSUME NEW c \in Callers, Start(c) PROVE StepProperties
  BY <1>3, StartStep
<1>4. ASSUME NEW c \in Callers, Finish(c) PROVE StepProperties
  <2>1. CASE call[c] = "closed"
    BY <1>1, <1>4, <2>1 DEF Finish
  <2>2. CASE call[c] = "open"
    BY <1>4, <2>2, FinishStep DEF Finish
  <2> QED
    BY <1>4, <2>1, <2>2 DEF Finish
<1> QED
  BY <1>1, <1>2, <1>3, <1>4 DEF GateNext
-----------------------------------------------------------------------------
(* The theorems.                                                            *)

\* GateInv holds in every reachable state: acquire(), its continuation and finish()
\* preserve it, whatever limit each call carries.
THEOREM GateInvariant == GateSpec => []GateInv
<1>1. GateInv /\ [GateNext]_gateVars => GateInv'
  BY NextStep DEF StepProperties
<1> QED
  BY <1>1, InitEstablishes, PTL DEF GateSpec

\* The state of the gate is well typed; in particular the count never goes below zero.
THEOREM GateTypeCorrect == GateSpec => []GateTypeOK
<1>1. GateInv => GateTypeOK
  BY DEF GateInv
<1> QED
  BY <1>1, GateInvariant, PTL

\* No slot of any endpoint is lost or handed out twice (pump(), finish()).
THEOREM SlotsAreConserved == GateSpec => []SlotsConserved
<1>1. GateInv => SlotsConserved
  BY DEF GateInv
<1> QED
  BY <1>1, GateInvariant, PTL

\* Nobody waits beside a free slot, also after the limit was raised or lowered (pump()).
THEOREM NoSlotIsIdle == GateSpec => []NoIdleSlot
<1>1. GateInv => NoIdleSlot
  BY DEF GateInv
<1> QED
  BY <1>1, GateInvariant, PTL

\* No admission takes an endpoint above the limit in force (pump()).
THEOREM GateNeverOverAdmits == GateSpec => NeverOverAdmit
<1>1. GateInv /\ [GateNext]_gateVars
        => [\A u \in Urls : active'[u] > active[u] => active'[u] <= slots'[u]]_gateVars
  BY NextStep DEF StepProperties
<1> QED
  BY <1>1, GateInvariant, PTL DEF GateSpec, NeverOverAdmit

\* Calls are admitted in the order in which they arrived (acquire()).
THEOREM GateAdmitsInOrder == GateSpec => AdmittedInOrder
<1>1. GateInv /\ [GateNext]_gateVars
        => [/\ \A u \in Urls : \A i, j \in 1..Len(queue[u]) :
                 i < j /\ call'[queue[u][j]] # "parked" => call'[queue[u][i]] # "parked"
            /\ \A c \in Callers :
                 call[c] # "parked" /\ call[c] # "admitted" /\ call'[c] = "admitted"
                     => queue'[where'[c]] = <<>>]_gateVars
  BY NextStep DEF StepProperties
<1> QED
  BY <1>1, GateInvariant, PTL DEF GateSpec, AdmittedInOrder
-----------------------------------------------------------------------------
(* The turns.                                                               *)

\* Calls a turn has in a gate.
InGate == {"parked", "admitted", "open"}

\* Where a turn is, and which endpoints it may still try.
ChatTyped ==
    /\ pc \in [Callers -> ChatPc]
    /\ chain \in [Callers -> SUBSET Urls]
    /\ current \in [Callers -> Urls \cup {NoUrl}]

ChatInv == GateInv /\ ChatTyped /\ SlotEndsWithAttempt
-----------------------------------------------------------------------------
(* Every step of a turn is a step of the gate, or none.                     *)

LEMMA AllAreUrls == ASSUME NEW t \in Callers PROVE All(t) \subseteq Urls
  BY ChatAssumption DEF All

\* Trying a candidate of a set of endpoints is an arrival at one gate.
LEMMA TryArrives ==
  ASSUME NEW t \in Callers, NEW left \in SUBSET Urls, Try(t, left), ChatTyped
  PROVE  /\ \E u \in Urls, n \in SlotChoices : Acquire(t, u, n)
         /\ pc' = [pc EXCEPT ![t] = "trying"]
         /\ ChatTyped'
<1>1. PICK u \in left : /\ Enter(t, u)
                        /\ chain' = [chain EXCEPT ![t] = left \ {u}]
                        /\ current' = [current EXCEPT ![t] = u]
  BY DEF Try
<1>2. pc' = [pc EXCEPT ![t] = "trying"]
  BY DEF Try
<1>3. \E n \in SlotChoices : Acquire(t, u, n)
  BY <1>1 DEF Enter
<1>4. ChatTyped'
  BY <1>1, <1>2 DEF ChatTyped, ChatPc
<1> QED
  BY <1>1, <1>2, <1>3, <1>4

LEMMA RouteArrives ==
  ASSUME NEW t \in Callers, Route(t), ChatTyped
  PROVE  /\ \E u \in Urls, n \in SlotChoices : Acquire(t, u, n)
         /\ pc' = [pc EXCEPT ![t] = "trying"]
         /\ ChatTyped'
<1> DEFINE available == {u \in All(t) : Available(u)}
           left == IF available = {} THEN All(t) ELSE available
<1>1. Try(t, left)
  BY DEF Route
<1>2. left \in SUBSET Urls
  BY AllAreUrls
<1> QED
  BY <1>1, <1>2, TryArrives

\* What a step of turn `t` may do: enter a gate, go on with its slot, report, or leave
\* the gates alone; and where it is afterwards.
TurnStep(t) ==
    /\ ChatTyped'
    /\ \A d \in Callers : d # t => pc'[d] = pc[d]
    /\ \/ (\E u \in Urls, n \in SlotChoices : Acquire(t, u, n)) /\ pc'[t] \in {"trying", "side"}
       \/ Start(t) /\ pc'[t] = pc[t]
       \/ Finish(t)
       \/ UNCHANGED gateVars /\ (pc'[t] = pc[t] \/ pc[t] \notin {"trying", "side"})

LEMMA EveryTurnStep ==
  ASSUME ChatTyped, NEW t \in Callers,
         \/ Resolve(t) \/ Route(t) \/ Send(t) \/ Emit(t) \/ Stop(t)
         \/ Settle(t) \/ SideCall(t) \/ TurnOver(t)
  PROVE  TurnStep(t)
<1>1. CASE Resolve(t)
  BY <1>1 DEF Resolve, TurnStep, ChatTyped, ChatPc
<1>2. CASE Route(t)
  BY <1>2, RouteArrives DEF TurnStep, ChatTyped
<1>3. CASE Send(t)
  BY <1>3 DEF Send, TurnStep, ChatTyped, chatVars
<1>4. CASE Emit(t)
  BY <1>4 DEF Emit, TurnStep, ChatTyped
<1>5. CASE Stop(t)
  BY <1>5 DEF Stop, TurnStep, ChatTyped
<1>6. CASE AttemptEnds(t)
  BY <1>6 DEF AttemptEnds, TurnStep, ChatTyped, ChatPc
<1>7. CASE Answered(t)
  BY <1>7 DEF Answered, Leave, TurnStep, ChatTyped, ChatPc
<1>8. CASE Caught(t)
  <2>1. CASE Leave(t, "idle") /\ UNCHANGED gateVars
    BY <1>8, <2>1 DEF Caught, Leave, TurnStep, ChatTyped, ChatPc
  <2>2. CASE Try(t, chain[t])
    <3>1. chain[t] \in SUBSET Urls
      BY DEF ChatTyped
    <3> QED
      BY <2>2, <3>1, TryArrives DEF TurnStep, ChatTyped
  <2> QED
    BY <1>8, <2>1, <2>2 DEF Caught
<1>9. CASE SideCallEnds(t)
  BY <1>9 DEF SideCallEnds, TurnStep, ChatTyped, ChatPc
<1>10. CASE SideCall(t)
  <2>1. \E n \in SlotChoices : Acquire(t, Primary[t], n)
    BY <1>10 DEF SideCall, Enter
  <2>2. Primary[t] \in Urls
    BY ChatAssumption
  <2> QED
    BY <1>10, <2>1, <2>2 DEF SideCall, TurnStep, ChatTyped, ChatPc
<1>11. CASE TurnOver(t)
  BY <1>11 DEF TurnOver, Leave, TurnStep, ChatTyped, ChatPc
<1> QED
  BY <1>1, <1>2, <1>3, <1>4, <1>5, <1>6, <1>7, <1>8, <1>9, <1>10, <1>11 DEF Settle

LEMMA EveryStep ==
  ASSUME ChatTyped, [Next]_vars
  PROVE  \/ \E t \in Callers : TurnStep(t)
         \/ UNCHANGED <<gateVars, chatVars>>
<1>1. CASE \E u \in Urls : Probe(u)
  BY <1>1 DEF Probe
<1>2. CASE Tick
  BY <1>2 DEF Tick
<1>3. CASE UNCHANGED vars
  BY <1>3 DEF vars
<1> QED
  BY <1>1, <1>2, <1>3, EveryTurnStep DEF Next

LEMMA StepOfTheGate == ChatTyped /\ [Next]_vars => [GateNext]_gateVars
<1> SUFFICES ASSUME ChatTyped, [Next]_vars PROVE [GateNext]_gateVars
  OBVIOUS
<1>1. CASE \E t \in Callers : TurnStep(t)
  BY <1>1 DEF TurnStep, GateNext
<1> QED
  BY <1>1, EveryStep
-----------------------------------------------------------------------------
(* Nobody is left in a gate.                                                *)

\* pump() only moves on the calls of the queue.
LEMMA PumpMovesTheQueue ==
  ASSUME NEW u \in Urls, NEW q \in Seq(Callers), NEW a \in Nat, NEW s \in Nat, NEW st,
         Pump(u, q, a, s, st),
         NEW c \in Callers, \A i \in 1..Len(q) : q[i] # c
  PROVE  call'[c] = st[c]
<1> DEFINE k == Grants(q, a, s)
<1>1. k \in 0..Len(q)
  BY GrantsProperties
<1>2. call'[c] = IF \E i \in 1..k : q[i] = c THEN "admitted" ELSE st[c]
  BY DEF Pump
<1>3. Len(q) \in Nat
  BY LenProperties
<1> HIDE DEF k
<1>4. \A i \in 1..k : i \in 1..Len(q)
  BY <1>1, <1>3
<1> QED
  BY <1>2, <1>4

\* So whatever one call does to a gate, no other call gets into it ...
LEMMA OthersStayOut ==
  ASSUME GateInv, NEW t \in Callers, NEW d \in Callers, d # t, call[d] \notin InGate,
         \/ \E u \in Urls, n \in SlotChoices : Acquire(t, u, n)
         \/ Start(t)
         \/ Finish(t)
  PROVE  call'[d] \notin InGate
<1>1. /\ \A u \in Urls : queue[u] \in Seq(Callers) /\ active[u] \in Nat /\ slots[u] \in Nat
      /\ call \in [Callers -> CallState]
      /\ \A u \in Urls : \A i \in 1..Len(queue[u]) : call[queue[u][i]] = "parked"
  BY DEF GateInv, GateTypeOK, QueueInv, ParkedAt
<1>2. CASE \E u \in Urls, n \in SlotChoices : Acquire(t, u, n)
  <2>1. PICK u \in Urls, n \in SlotChoices : Acquire(t, u, n)
    BY <1>2
  <2> DEFINE q == Append(queue[u], t)
             st == [call EXCEPT ![t] = "parked"]
             s == AtLeastOne(n)
  <2>2. /\ q \in Seq(Callers) /\ s \in Nat
        /\ Len(q) = Len(queue[u]) + 1 /\ q[Len(q)] = t
        /\ \A i \in 1..Len(queue[u]) : q[i] = queue[u][i]
        /\ Pump(u, q, active[u], s, st)
    BY <2>1, AcquirePumps
  <2>3. st[d] = call[d]
    BY <1>1
  <2> HIDE DEF q, st, s
  <2>4. Len(queue[u]) \in Nat
    BY <1>1, LenProperties
  <2>5. ASSUME NEW i \in 1..Len(q) PROVE q[i] # d
    <3>1. CASE i = Len(q)
      BY <2>2, <3>1
    <3>2. CASE i \in 1..Len(queue[u])
      BY <1>1, <2>2, <3>2 DEF InGate
    <3> QED
      BY <2>2, <2>4, <3>1, <3>2
  <2>6. call'[d] = st[d]
    BY <1>1, <2>2, <2>5, PumpMovesTheQueue
  <2> QED
    BY <2>3, <2>6
<1>3. CASE Start(t)
  BY <1>1, <1>3 DEF Start
<1>4. CASE Finish(t)
  <2>1. CASE UNCHANGED gateVars
    BY <2>1 DEF gateVars
  <2>2. CASE call[t] = "open" /\ GiveBack(t)
    <3> DEFINE u == where[t]
               st == [call EXCEPT ![t] = "closed"]
    <3>1. u \in Urls /\ active[u] - 1 \in Nat /\ Pump(u, queue[u], active[u] - 1, slots[u], st)
      BY <2>2, GiveBackPumps
    <3>2. st[d] = call[d]
      BY <1>1
    <3> HIDE DEF u, st
    <3>3. /\ queue[u] \in Seq(Callers) /\ slots[u] \in Nat
          /\ \A i \in 1..Len(queue[u]) : queue[u][i] # d
      BY <1>1, <3>1 DEF InGate
    <3>4. call'[d] = st[d]
      BY <3>1, <3>3, PumpMovesTheQueue
    <3> QED
      BY <3>2, <3>4
  <2> QED
    BY <1>4, <2>1, <2>2 DEF Finish
<1> QED
  BY <1>2, <1>3, <1>4

\* ... and a report closes the call of the turn that makes it.
LEMMA FinishCloses ==
  ASSUME GateInv, NEW t \in Callers, Finish(t)
  PROVE  call'[t] = "closed"
<1>1. CASE call[t] = "closed"
  BY <1>1 DEF Finish, gateVars
<1>2. CASE call[t] = "open" /\ GiveBack(t)
  <2> DEFINE u == where[t]
             st == [call EXCEPT ![t] = "closed"]
  <2>1. u \in Urls /\ active[u] - 1 \in Nat /\ Pump(u, queue[u], active[u] - 1, slots[u], st)
    BY <1>2, GiveBackPumps
  <2>2. /\ st[t] = "closed" /\ queue[u] \in Seq(Callers) /\ slots[u] \in Nat
        /\ \A i \in 1..Len(queue[u]) : call[queue[u][i]] = "parked"
    BY <2>1 DEF GateInv, GateTypeOK, QueueInv, ParkedAt
  <2> HIDE DEF u, st
  <2>3. call'[t] = st[t]
    BY <1>2, <2>1, <2>2, PumpMovesTheQueue
  <2> QED
    BY <2>2, <2>3
<1> QED
  BY <1>1, <1>2 DEF Finish

LEMMA SlotStep ==
  ASSUME ChatInv, [Next]_vars
  PROVE  ChatTyped' /\ SlotEndsWithAttempt'
<1>1. GateInv /\ ChatTyped /\ SlotEndsWithAttempt
  BY DEF ChatInv
<1>2. CASE UNCHANGED <<gateVars, chatVars>>
  BY <1>1, <1>2 DEF gateVars, chatVars, ChatTyped, SlotEndsWithAttempt
<1>3. ASSUME NEW t \in Callers, TurnStep(t) PROVE ChatTyped' /\ SlotEndsWithAttempt'
  <2>1. ChatTyped' /\ \A d \in Callers : d # t => pc'[d] = pc[d]
    BY <1>3 DEF TurnStep
  <2>2. ASSUME NEW d \in Callers, d # t, call'[d] \in InGate
        PROVE  pc'[d] \in {"trying", "side"}
    <3>1. call[d] \in InGate
      <4>1. CASE UNCHANGED gateVars
        BY <2>2, <4>1 DEF gateVars
      <4> QED
        BY <1>1, <1>3, <2>2, <4>1, OthersStayOut DEF TurnStep
    <3> QED
      BY <1>1, <2>1, <2>2, <3>1 DEF SlotEndsWithAttempt, InGate
  <2>3. ASSUME call'[t] \in InGate PROVE pc'[t] \in {"trying", "side"}
    <3>1. CASE \E u \in Urls, n \in SlotChoices : Acquire(t, u, n) /\ pc'[t] \in {"trying", "side"}
      BY <3>1
    <3>2. CASE Start(t) /\ pc'[t] = pc[t]
      BY <1>1, <3>2 DEF Start, SlotEndsWithAttempt
    <3>3. CASE Finish(t)
      BY <1>1, <2>3, <3>3, FinishCloses DEF InGate
    <3>4. CASE UNCHANGED gateVars /\ (pc'[t] = pc[t] \/ pc[t] \notin {"trying", "side"})
      BY <1>1, <2>3, <3>4 DEF gateVars, SlotEndsWithAttempt, InGate
    <3> QED
      BY <1>3, <3>1, <3>2, <3>3, <3>4 DEF TurnStep
  <2> QED
    BY <2>1, <2>2, <2>3 DEF SlotEndsWithAttempt, InGate
<1> QED
  BY <1>1, <1>2, <1>3, EveryStep

LEMMA ChatInvariant == Spec => []ChatInv
<1>1. Init => ChatInv
  BY InitEstablishes DEF Init, GateInit, ChatInv, ChatTyped, ChatPc, SlotEndsWithAttempt
<1>2. ChatInv /\ [Next]_vars => ChatInv'
  <2> SUFFICES ASSUME ChatInv, [Next]_vars PROVE ChatInv'
    OBVIOUS
  <2>1. GateInv'
    BY StepOfTheGate, NextStep DEF ChatInv, StepProperties
  <2> QED
    BY <2>1, SlotStep DEF ChatInv
<1> QED
  BY <1>1, <1>2, PTL DEF Spec
-----------------------------------------------------------------------------
(* Routing and the breaker.                                                 *)

HealthTyped ==
    /\ failures \in [Urls -> 0..Threshold] /\ down \in [Urls -> BOOLEAN]
    /\ downFor \in [Urls -> 0..Cooldown] /\ trialFor \in [Urls -> 0..Cooldown]

FlagsTyped == emitted \in [Callers -> BOOLEAN] /\ stopped \in [Callers -> BOOLEAN]

\* A turn that is on its way to an endpoint has just been routed, or has moved on from an
\* attempt that failed before anything of it was seen.
LEMMA WhoTries ==
  ASSUME ChatTyped, [Next]_vars, NEW t \in Callers, pc[t] # "trying", pc'[t] = "trying"
  PROVE  Route(t) \/ (Caught(t) /\ Try(t, chain[t]) /\ ~emitted[t])
<1>1. PICK s \in Callers : \/ Resolve(s) \/ Route(s) \/ Send(s) \/ Emit(s) \/ Stop(s)
                           \/ Settle(s) \/ SideCall(s) \/ TurnOver(s)
  BY DEF Next, Probe, Tick, vars, chatVars
<1>2. s = t
  BY <1>1, EveryTurnStep DEF TurnStep
<1>3. pc \in [Callers -> ChatPc]
  BY DEF ChatTyped
<1>4. CASE Resolve(t) \/ Send(t) \/ Emit(t) \/ Stop(t) \/ SideCall(t) \/ TurnOver(t)
  BY <1>3, <1>4 DEF Resolve, Send, Emit, Stop, SideCall, TurnOver, Leave, chatVars
<1>5. CASE Settle(t)
  <2>1. CASE AttemptEnds(t) \/ Answered(t) \/ SideCallEnds(t)
    BY <1>3, <2>1 DEF AttemptEnds, Answered, SideCallEnds, Leave
  <2>2. CASE Caught(t)
    <3>1. ~Leave(t, "idle")
      BY <1>3 DEF Leave
    <3> QED
      BY <2>2, <3>1 DEF Caught
  <2> QED
    BY <1>5, <2>1, <2>2 DEF Settle
<1> QED
  BY <1>1, <1>2, <1>4, <1>5

\* The endpoint a turn is routed to is up, or gets the trial of its cooldown, or none is up.
LEMMA RouteGoesAround ==
  ASSUME GateTypeOK, HealthTyped, NEW t \in Callers, Route(t), down[where'[t]]
  PROVE  \/ trialFor'[where'[t]] = 0 /\ trialFor[where'[t]] = Cooldown
         \/ \A v \in All(t) : down[v]
<1> DEFINE available == {u \in All(t) : Available(u)}
           left == IF available = {} THEN All(t) ELSE available
<1>1. PICK u \in left : \E n \in SlotChoices : Acquire(t, u, n)
  BY DEF Route, Try, Enter
<1>2. where'[t] = u
  BY <1>1 DEF Acquire, GateTypeOK
<1>3. u \in Urls /\ u \in All(t)
  BY AllAreUrls
<1>4. CASE available = {}
  <2>1. \A v \in All(t) : ~Available(v)
    BY <1>4
  <2> QED
    BY <2>1 DEF Available
<1>5. CASE available # {}
  <2>1. Available(u)
    BY <1>5
  <2>2. trialFor[u] = Cooldown
    BY <1>2, <2>1 DEF Available
  <2>3. trialFor' = [v \in Urls |-> IF v \in All(t) /\ down[v] /\ Available(v) THEN 0 ELSE trialFor[v]]
    BY DEF Route
  <2>4. trialFor'[u] = 0
    BY <1>2, <1>3, <2>1, <2>3
  <2> QED
    BY <1>2, <2>2, <2>4
<1> QED
  BY <1>4, <1>5

LEMMA OneValueChanges ==
  ASSUME NEW S, NEW T, NEW f \in [S -> T], NEW x, NEW value \in T
  PROVE  [f EXCEPT ![x] = value] \in [S -> T]
  OBVIOUS

LEMMA ReportTyped ==
  ASSUME HealthTyped, NEW u \in Urls \cup {NoUrl}, ReportSuccess(u) \/ ReportFailure(u)
  PROVE  HealthTyped'
<1>1. Threshold \in Nat \ {0} /\ Cooldown \in Nat \ {0}
  BY ChatAssumption
<1>2. CASE ReportSuccess(u)
  <2>1. 0 \in 0..Threshold /\ 0 \in 0..Cooldown /\ Cooldown \in 0..Cooldown /\ FALSE \in BOOLEAN
    BY <1>1
  <2>2. failures' \in [Urls -> 0..Threshold] /\ down' \in [Urls -> BOOLEAN]
    BY <1>2, <2>1, OneValueChanges, Zenon DEF ReportSuccess, HealthTyped
  <2>3. downFor' \in [Urls -> 0..Cooldown] /\ trialFor' \in [Urls -> 0..Cooldown]
    BY <1>2, <2>1, OneValueChanges, Zenon DEF ReportSuccess, HealthTyped
  <2> QED
    BY <2>2, <2>3 DEF HealthTyped
<1>3. CASE ReportFailure(u)
  <2> DEFINE n == IF failures[u] < Threshold THEN failures[u] + 1 ELSE failures[u]
  <2>1. u \in Urls => n \in 0..Threshold
    BY <1>1 DEF HealthTyped
  <2>2. failures' = [failures EXCEPT ![u] = n]
    BY <1>3 DEF ReportFailure
  <2> HIDE DEF n
  <2>3. failures' \in [Urls -> 0..Threshold]
    BY <2>1, <2>2 DEF HealthTyped
  <2>4. down' \in [Urls -> BOOLEAN]
    <3>1. (down[u] \/ failures'[u] = Threshold) \in BOOLEAN
      OBVIOUS
    <3>2. down' = [down EXCEPT ![u] = down[u] \/ failures'[u] = Threshold]
      BY <1>3 DEF ReportFailure
    <3> QED
      BY <3>1, <3>2, Zenon DEF HealthTyped
  <2> QED
    BY <1>3, <2>3, <2>4 DEF ReportFailure, HealthTyped
<1> QED
  BY <1>2, <1>3

LEMMA TickTyped == ASSUME HealthTyped, Tick PROVE HealthTyped'
<1>1. Cooldown \in Nat \ {0}
  BY ChatAssumption
<1>2. ASSUME NEW age \in [Urls -> 0..Cooldown], NEW u \in Urls PROVE Older(age, u) \in 0..Cooldown
  BY <1>1 DEF Older
<1> QED
  BY <1>2 DEF Tick, HealthTyped

LEMMA HealthStep == ASSUME ChatTyped, HealthTyped, [Next]_vars PROVE HealthTyped'
<1>1. CASE UNCHANGED healthVars
  BY <1>1 DEF healthVars, HealthTyped
<1>2. CASE \E u \in Urls : Probe(u)
  BY <1>2, ReportTyped DEF Probe
<1>3. CASE Tick
  BY <1>3, TickTyped
<1>4. ASSUME NEW t \in Callers, Route(t) PROVE HealthTyped'
  <2>1. 0 \in 0..Cooldown
    BY ChatAssumption
  <2> QED
    BY <1>4, <2>1 DEF Route, HealthTyped
<1>5. ASSUME NEW t \in Callers, Answered(t) \/ Caught(t) PROVE HealthTyped'
  <2>1. current[t] \in Urls \cup {NoUrl}
    BY DEF ChatTyped
  <2> QED
    BY <1>1, <1>5, <2>1, ReportTyped DEF Answered, Caught
<1> QED
  BY <1>1, <1>2, <1>3, <1>4, <1>5
     DEF Next, vars, Settle, Resolve, Send, Emit, Stop, AttemptEnds, SideCall, SideCallEnds, TurnOver

LEMMA FlagsStep == ASSUME FlagsTyped, [Next]_vars PROVE FlagsTyped'
<1>1. CASE UNCHANGED <<emitted, stopped>>
  BY <1>1 DEF FlagsTyped
<1>2. ASSUME NEW t \in Callers, NEW next, Leave(t, next) PROVE FlagsTyped'
  <2>1. (stopped[t] /\ next # "idle") \in BOOLEAN
    BY DEF FlagsTyped
  <2>2. stopped' = [stopped EXCEPT ![t] = stopped[t] /\ next # "idle"]
    BY <1>2 DEF Leave
  <2>3. stopped' \in [Callers -> BOOLEAN]
    BY <2>1, <2>2, Zenon DEF FlagsTyped
  <2> QED
    BY <1>2, <2>3 DEF Leave, FlagsTyped
<1>3. ASSUME NEW t \in Callers, Route(t) \/ Emit(t) \/ Stop(t) PROVE FlagsTyped'
  BY <1>3 DEF Route, Emit, Stop, FlagsTyped
<1>4. ASSUME NEW t \in Callers, Answered(t) \/ TurnOver(t) PROVE FlagsTyped'
  BY <1>2, <1>4 DEF Answered, TurnOver
<1>5. ASSUME NEW t \in Callers, Caught(t) PROVE FlagsTyped'
  <2>1. CASE emitted' = [emitted EXCEPT ![t] = FALSE] /\ UNCHANGED stopped
    BY <2>1 DEF FlagsTyped
  <2> QED
    BY <1>2, <1>5, <2>1 DEF Caught
<1> QED
  BY <1>1, <1>3, <1>4, <1>5
     DEF Next, vars, chatVars, Probe, Tick, Settle, Resolve, Send, AttemptEnds, SideCall, SideCallEnds

LEMMA HealthInvariant == Spec => [](HealthTyped /\ FlagsTyped)
<1>1. Init => HealthTyped /\ FlagsTyped
  BY ChatAssumption DEF Init, HealthTyped, FlagsTyped
<1>2. ChatInv /\ HealthTyped /\ FlagsTyped /\ [Next]_vars => (HealthTyped /\ FlagsTyped)'
  BY HealthStep, FlagsStep DEF ChatInv
<1> QED
  BY <1>1, <1>2, ChatInvariant, PTL DEF Spec
-----------------------------------------------------------------------------
(* The theorems.                                                            *)

\* Every behaviour of the turns is, at the gates, one of GateSpec.  That is how the module is
\* built, and it is what lets the theorems about the gate be used of the turns.
LEMMA TurnsStepTheGate == Spec => GateSpec
<1>1. Init => GateInit
  BY DEF Init
<1>2. ChatInv => ChatTyped
  BY DEF ChatInv
<1> QED
  BY <1>1, <1>2, ChatInvariant, StepOfTheGate, PTL DEF Spec, GateSpec

\* Under any number of turns the count of an endpoint is the number of turns that hold one
\* of its slots (endpoint-gate.ts).
THEOREM TurnsConserveSlots == Spec => []SlotsConserved
  BY TurnsStepTheGate, SlotsAreConserved, PTL

\* A slot does not outlive the attempt it was taken for (attemptStream(), complete()), for
\* any number of turns, endpoints and slots: no way out of an attempt leaks one.
THEOREM NoSlotOutlivesItsAttempt == Spec => []SlotEndsWithAttempt
<1>1. ChatInv => SlotEndsWithAttempt
  BY DEF ChatInv
<1> QED
  BY <1>1, ChatInvariant, PTL

\* For any number of turns and endpoints, every variable of the turns and of the breaker has
\* its type (LlamaClient, endpoint-health.ts).
THEOREM ChatTypeCorrect == Spec => []TypeOK
<1>1. ChatInv /\ HealthTyped /\ FlagsTyped => TypeOK
  BY DEF ChatInv, GateInv, ChatTyped, HealthTyped, FlagsTyped, TypeOK
<1> QED
  BY <1>1, ChatInvariant, HealthInvariant, PTL

\* streamChat() sends no pass to an endpoint the breaker holds down, but as the trial of its
\* cooldown or when all are down, whoever else reports, probes and is routed meanwhile.
THEOREM PassesAreRoutedAround == Spec => RoutedAround
<1>1. ASSUME ChatInv, HealthTyped, [Next]_vars, NEW t \in Callers, pc[t] = "ready", pc'[t] = "trying",
             down[where'[t]]
      PROVE  \/ trialFor'[where'[t]] = 0 /\ trialFor[where'[t]] = Cooldown
             \/ \A v \in All(t) : down[v]
  <2>1. GateTypeOK /\ ChatTyped
    BY <1>1 DEF ChatInv, GateInv
  <2>2. Route(t)
    BY <1>1, <2>1, WhoTries DEF Caught
  <2> QED
    BY <1>1, <2>1, <2>2, RouteGoesAround
<1> DEFINE Around == \A t \in Callers : pc[t] = "ready" /\ pc'[t] = "trying" =>
                        LET u == where'[t]
                        IN  down[u] => \/ trialFor'[u] = 0 /\ trialFor[u] = Cooldown
                                       \/ \A v \in All(t) : down[v]
<1>2. ChatInv /\ HealthTyped /\ [Next]_vars => [Around]_vars
  BY <1>1
<1> QED
  BY <1>2, ChatInvariant, HealthInvariant, PTL DEF Spec, RoutedAround

\* Once anything of an attempt has reached the caller, streamChat() does not start the pass
\* again at another endpoint, whatever fails.
THEOREM PassHasOneVoice == Spec => OneVoice
<1>1. ChatInv /\ [Next]_vars =>
        [\A t \in Callers : pc[t] = "lost" /\ pc'[t] = "trying" => ~emitted[t]]_vars
  <2> SUFFICES ASSUME ChatInv, [Next]_vars, NEW t \in Callers, pc[t] = "lost", pc'[t] = "trying"
               PROVE  ~emitted[t]
    OBVIOUS
  <2>1. ChatTyped
    BY DEF ChatInv
  <2>2. ~Route(t)
    BY DEF Route
  <2> QED
    BY <2>1, <2>2, WhoTries
<1> QED
  BY <1>1, ChatInvariant, PTL DEF Spec, OneVoice
=============================================================================
