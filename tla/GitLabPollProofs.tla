-------------------------- MODULE GitLabPollProofs ---------------------------
(***************************************************************************)
(* Proofs about GitLabPoll, for any plan, budget, page, number of polls at  *)
(* a time and run of mishaps: a delivery is one turn, the to-do cursor      *)
(* passes nothing over, a baseline wakes nobody, and what was acknowledged  *)
(* stays quiet.                                                             *)
(***************************************************************************)
EXTENDS GitLabPoll, WellFoundedInduction, TLAPS

\* What can be listed of a source.
Listable(s) == IF s = "todos" THEN DOMAIN todos ELSE IF s = "events" THEN 1 .. events ELSE Pipes

Poll == [pc : {"idle", "list", "state", "baseline", "items", "mark"},
         src : Nat, left : Nat, page : SUBSET Nat, from : Nat, at : Nat]

TypeInv ==
    /\ todos \in Seq(Abouts) /\ Len(todos) <= MaxTodos /\ done \subseteq DOMAIN todos
    /\ events \in 0 .. MaxEvents /\ failed \subseteq Pipes
    /\ hook \in [1 .. MaxTodos -> Nat] /\ tick \in [Ticks -> Poll]
    /\ cursor \in [Sources -> Nat] /\ base \in [Sources -> Nat]
    /\ rows \in [Keys -> Nat] /\ enq \subseteq Keys
    /\ orders \in Nat /\ crashes \in Nat

\* A poll t works on what its source has.
OfSource(t) == t.src \in DOMAIN Plan /\ t.page \subseteq Listable(Plan[t.src])
PollOK(t) ==
    /\ t.pc # "idle" => OfSource(t)
    /\ t.pc \in {"baseline", "items", "mark"} /\ Plan[t.src] = "todos" => t.at \in 0 .. Len(todos)
    /\ t.pc = "baseline" => t.page = {}
    /\ t.pc = "mark" => Plan[t.src] = "todos" /\ t.at \in DOMAIN todos

Typed ==
    /\ TypeInv /\ \A k \in Ticks : PollOK(tick[k])
    /\ cursor["todos"] # Never => cursor["todos"] <= Len(todos)

\* As long as nothing was forgotten, the keys at the lane are among the seen ones, each
\* once, and a delivery of the webhook that is being decided on is not.
DeliveryInv ==
    (crashes = 0 /\ ~cleared /\ ~crossed) =>
        /\ \A key \in Keys : /\ rows[key] <= 1 /\ (rows[key] > 0 => key \in seen)
                             /\ key \in enq => rows[key] = 0
        /\ enq \subseteq seen
        /\ \A i \in 1 .. MaxTodos : hook[i] <= 1 /\ (hook[i] > 0 => Hook(i) \notin seen)
-----------------------------------------------------------------------------
(* Least and greatest elements.                                             *)

LEMMA LeastOf ==
  ASSUME NEW S, S \subseteq Nat, S # {}
  PROVE  Min(S) \in S /\ \A y \in S : Min(S) <= y
<1>1. PICK x \in S : \A y \in S : <<y, x>> \notin OpToRel(<, Nat)
  BY NatLessThanWellFounded, WFMin, Zenon
<1>2. \A y \in S : ~(y < x)
  BY <1>1, Zenon DEF OpToRel
<1>3. \A y \in S : x <= y
  BY <1>2
<1> QED
  BY <1>3 DEF Min

LEMMA GreatestOf ==
  ASSUME NEW n \in Nat, NEW S, S \subseteq 0 .. n, S # {}
  PROVE  Max(S) \in S /\ \A y \in S : y <= Max(S)
<1> DEFINE T == {n - x : x \in S}
<1>1. \A x \in S : n - x \in Nat
  OBVIOUS
<1>2. T \subseteq Nat /\ T # {}
  BY <1>1
<1>3. Min(T) \in T /\ \A y \in T : Min(T) <= y
  BY <1>2, LeastOf
<1>4. PICK x \in S : Min(T) = n - x
  BY <1>3
<1>5. \A y \in S : n - x <= n - y
  BY <1>3, <1>4
<1>6. \A y \in S : y <= x
  BY <1>5
<1> QED
  BY <1>6 DEF Max
-----------------------------------------------------------------------------
(* Types, and what a poll has in hand.                                      *)

LEMMA Bounds ==
  /\ MaxTodos \in Nat /\ MaxEvents \in Nat /\ MaxPipes \in Nat /\ MaxWakes \in Nat
  /\ Never \in Nat /\ 0 < MaxTodos /\ MaxTodos < Never /\ Plan \in Seq(Sources) /\ 1 \in DOMAIN Plan
  /\ \A i \in DOMAIN Plan : Plan[i] \in Sources
BY GitLabPollAssumption DEF Never, Sources

LEMMA InitTyped == Init => Typed
<1> SUFFICES ASSUME Init PROVE Typed
  OBVIOUS
<1>1. TypeInv
  <2>1. Idle \in Poll
    BY DEF Idle, Poll
  <2>2. todos \in Seq(Abouts) /\ Len(todos) <= MaxTodos
    <3>1. <<>> \in Seq(Abouts) /\ Len(<<>>) = 0
      OBVIOUS
    <3>2. Assigned \in Abouts
      BY DEF Abouts
    <3>3. <<Assigned>> \in Seq(Abouts) /\ Len(<<Assigned>>) = 1
      BY <3>2
    <3>4. CASE todos = <<>>
      BY <3>1, <3>4, Bounds
    <3>5. CASE todos = <<Assigned>>
      BY <3>3, <3>5, Bounds
    <3> QED
      BY <3>4, <3>5 DEF Init
  <2> QED
    BY <2>1, <2>2, Bounds DEF Init, TypeInv
<1>2. \A k \in Ticks : PollOK(tick[k])
  <2>1. \A k \in Ticks : tick[k].pc = "idle"
    BY DEF Init, Idle
  <2> QED
    BY <2>1 DEF PollOK
<1>3. cursor["todos"] = Never
  BY DEF Init, Sources
<1> QED
  BY <1>1, <1>2, <1>3 DEF Typed

\* What a poll may write is found again by every other: nothing is taken off a source.
LEMMA PollsKeep ==
  ASSUME TypeInv, TypeInv', NEW t, t.at \in Nat, PollOK(t), events <= events',
         \/ todos' = todos
         \/ \E what \in Abouts : todos' = Append(todos, what)
  PROVE  PollOK(t)'
<1>1. Len(todos) <= Len(todos)' /\ DOMAIN todos \subseteq DOMAIN todos'
  BY DEF TypeInv
<1>2. \A s : Listable(s) \subseteq Listable(s)'
  BY <1>1 DEF Listable, TypeInv
<1>3. OfSource(t) => OfSource(t)'
  BY <1>2 DEF OfSource
<1>4. Len(todos) \in Nat /\ Len(todos)' \in Nat
  BY DEF TypeInv
<1> QED
  BY <1>1, <1>3, <1>4 DEF PollOK

\* The polls at rest, and one that goes on to its next source.
LEMMA NextSourceOK ==
  ASSUME Typed, NEW k \in Ticks, tick[k].pc # "idle", NextSource(k)
  PROVE  /\ tick' \in [Ticks -> Poll] /\ PollOK(tick'[k]) /\ tick'[k].pc \in {"idle", "list"}
         /\ \A q \in Ticks : q # k => tick'[q] = tick[q]
<1> DEFINE n == IF tick[k].left = 0 \/ tick[k].src = Len(Plan) THEN Idle
                ELSE [Idle EXCEPT !.pc = "list", !.src = tick[k].src + 1, !.left = tick[k].left]
<1>1. tick \in [Ticks -> Poll] /\ tick' = [tick EXCEPT ![k] = n]
  BY DEF Typed, TypeInv, NextSource
<1>2. tick[k].src \in 1 .. Len(Plan) /\ tick[k].left \in Nat
  BY <1>1, Bounds DEF Typed, PollOK, OfSource, Poll
<1>3. n \in Poll /\ PollOK(n) /\ n.pc \in {"idle", "list"}
  <2>1. CASE n = Idle
    BY <2>1 DEF Idle, Poll, PollOK
  <2>2. CASE n = [Idle EXCEPT !.pc = "list", !.src = tick[k].src + 1, !.left = tick[k].left]
             /\ tick[k].src # Len(Plan)
    <3> HIDE DEF n
    <3>1. /\ n.pc = "list" /\ n.src = tick[k].src + 1 /\ n.page = {} /\ n \in Poll
      <4>1. n = [pc |-> "list", src |-> tick[k].src + 1, left |-> tick[k].left,
                 page |-> {}, from |-> 0, at |-> 0]
        BY <2>2 DEF Idle
      <4> QED
        BY <1>2, <4>1, Bounds DEF Poll
    <3>2. n.src \in DOMAIN Plan
      <4>1. Plan \in Seq(Sources) /\ n.src \in 1 .. Len(Plan)
        BY <1>2, <2>2, <3>1, Bounds
      <4> QED
        BY <4>1
    <3> QED
      BY <3>1, <3>2 DEF PollOK, OfSource
  <2> QED
    BY <2>1, <2>2
<1>4. tick'[k] = n /\ \A q \in Ticks : q # k => tick'[q] = tick[q]
  BY <1>1
<1> QED
  BY <1>1, <1>3, <1>4

\* A step after which every poll is in order, with GitLab as it was, is in order.
LEMMA StepTyped ==
  ASSUME Typed, TypeInv', events <= events',
         \/ todos' = todos
         \/ \E what \in Abouts : todos' = Append(todos, what),
         \A k \in Ticks : PollOK(tick'[k]),
         cursor'["todos"] # Never => cursor'["todos"] <= Len(todos)
  PROVE  Typed'
<1>1. \A k \in Ticks : PollOK(tick[k])'
  <2> TAKE k \in Ticks
  <2>1. PICK t \in Poll : t = tick'[k]
    BY DEF TypeInv
  <2>2. PollOK(t)'
    BY <2>1, PollsKeep DEF Typed, Poll
  <2> QED
    BY <2>1, <2>2 DEF PollOK, OfSource
<1>2. cursor'["todos"] # Never => cursor'["todos"] <= Len(todos')
  <2>1. Len(todos) <= Len(todos') /\ Len(todos) \in Nat /\ Len(todos') \in Nat
    BY DEF Typed, TypeInv
  <2> QED
    BY <2>1, Bounds DEF TypeInv, Sources
<1> QED
  BY <1>1, <1>2 DEF Typed, Never

\* A key is handed over.
LEMMA HandOverKeys ==
  ASSUME NEW key \in Keys, enq \subseteq Keys, HandOver(key) PROVE enq' \subseteq Keys /\ key \in enq'
BY DEF HandOver

LEMMA OutsideTyped ==
  ASSUME Typed,
         \/ RaiseTodo \/ EventHappens \/ PipelineFails \/ (\E i \in 1 .. MaxTodos : HookArrives(i))
         \/ HookStep \/ LaneStep \/ CatchUp \/ Rebaseline \/ Crash \/ UNCHANGED vars
  PROVE  Typed'
<1> USE Bounds
<1>1. TypeInv
  BY DEF Typed
<1>2. Len(todos) \in Nat /\ events \in Nat /\ \A k \in Ticks : PollOK(tick[k])
  BY DEF Typed, TypeInv
<1>3. CASE RaiseTodo
  <2>1. PICK what \in {Assigned, Unarmed} \union (failed \ {todos[i] : i \in DOMAIN todos}) :
          todos' = Append(todos, what)
    BY <1>3 DEF RaiseTodo
  <2>2. what \in Abouts
    BY <1>1, <2>1 DEF TypeInv, Abouts
  <2>3. todos' \in Seq(Abouts) /\ Len(todos') = Len(todos) + 1 /\ DOMAIN todos \subseteq DOMAIN todos'
    BY <1>1, <2>1, <2>2 DEF TypeInv
  <2>4. TypeInv'
    BY <1>1, <1>2, <1>3, <2>3 DEF RaiseTodo, TypeInv, procVars, histVars
  <2>5. tick' = tick /\ cursor' = cursor /\ events <= events'
    BY <1>1, <1>3 DEF RaiseTodo, procVars, TypeInv
  <2>6. \E about \in Abouts : todos' = Append(todos, about)
    BY <2>1, <2>2
  <2>7. \A k \in Ticks : PollOK(tick'[k])
    BY <1>2, <2>5
  <2> QED
    BY <2>4, <2>5, <2>6, <2>7, StepTyped DEF Typed
<1>4. CASE EventHappens
  <2>1. TypeInv' /\ events <= events' /\ todos' = todos /\ tick' = tick /\ cursor' = cursor
    BY <1>1, <1>4 DEF EventHappens, TypeInv, procVars, histVars
  <2> QED
    BY <1>2, <2>1, StepTyped DEF Typed
<1>5. CASE PipelineFails \/ UNCHANGED vars
  <2>1. /\ UNCHANGED <<todos, done, events, hook, tick, enq, cursor, base, rows, orders, crashes>>
        /\ failed' = failed \/ \E p \in Pipes : failed' = failed \union {p}
    BY <1>5 DEF PipelineFails, procVars, histVars, vars, gitlabVars
  <2>2. failed' \subseteq Pipes
    BY <1>1, <2>1 DEF TypeInv
  <2>3. TypeInv'
    BY <1>1, <2>1, <2>2 DEF TypeInv
  <2>4. TypeInv' /\ events <= events' /\ todos' = todos /\ tick' = tick /\ cursor' = cursor
    BY <1>2, <2>1, <2>3
  <2> QED
    BY <1>2, <2>4, StepTyped DEF Typed
<1>6. CASE HookStep \/ \E i \in 1 .. MaxTodos : HookArrives(i)
  <2> PICK i \in 1 .. MaxTodos : HookWakes(i) \/ HookArrives(i)
    BY <1>6 DEF HookStep
  <2>0. hook \in [1 .. MaxTodos -> Nat] /\ hook[i] \in Nat
    BY <1>1 DEF TypeInv
  <2>1. hook' \in [1 .. MaxTodos -> Nat]
    BY <2>0 DEF HookWakes, HookArrives
  <2>2. enq' \subseteq Keys
    <3>1. Hook(i) \in Keys
      BY DEF Keys
    <3> QED
      BY <1>1, <3>1, HandOverKeys DEF HookWakes, HookArrives, TypeInv
  <2>5. UNCHANGED <<todos, done, events, failed, tick, cursor, base, rows, orders, crashes>>
    BY DEF HookWakes, HookArrives, gitlabVars
  <2>6. TypeInv'
    BY <1>1, <2>1, <2>2, <2>5 DEF TypeInv
  <2>3. TypeInv' /\ events <= events' /\ todos' = todos /\ tick' = tick /\ cursor' = cursor
    BY <1>2, <2>5, <2>6
  <2> QED
    BY <1>2, <2>3, StepTyped DEF Typed
<1>7. CASE LaneStep
  <2>1. PICK key \in Keys : Enqueue(key)
    BY <1>7 DEF LaneStep
  <2>2. \A n \in Nat : Min({2, n + 1}) \in Nat
    <3> TAKE n \in Nat
    <3>1. {2, n + 1} \subseteq Nat /\ {2, n + 1} # {}
      OBVIOUS
    <3> QED
      BY <3>1, LeastOf
  <2>3. rows' \in [Keys -> Nat]
    <3>1. rows \in [Keys -> Nat] /\ rows[key] \in Nat
      BY <1>1 DEF TypeInv
    <3>2. rows' = rows \/ rows' = [rows EXCEPT ![key] = Min({2, rows[key] + 1})]
      BY <2>1 DEF Enqueue
    <3>3. Min({2, rows[key] + 1}) \in Nat
      BY <2>2, <3>1
    <3> QED
      BY <3>1, <3>2, <3>3
  <2>5. /\ UNCHANGED <<todos, done, events, failed, hook, tick, cursor, base, orders, crashes>>
        /\ enq' \subseteq enq
    BY <2>1 DEF Enqueue, gitlabVars
  <2>6. TypeInv'
    BY <1>1, <2>3, <2>5 DEF TypeInv
  <2>4. TypeInv' /\ events <= events' /\ todos' = todos /\ tick' = tick /\ cursor' = cursor
    BY <1>2, <2>5, <2>6
  <2> QED
    BY <1>2, <2>4, StepTyped DEF Typed
<1>8. CASE CatchUp \/ Rebaseline
  <2>7. /\ orders' = orders + 1
        /\ cursor' = [cursor EXCEPT !["todos"] = 0] \/ cursor' = [s \in Sources |-> Never]
    BY <1>8 DEF CatchUp, Rebaseline, Order
  <2>8. cursor \in [Sources -> Nat] /\ orders \in Nat /\ "todos" \in Sources
    BY <1>1 DEF TypeInv, Sources
  <2>1. cursor' \in [Sources -> Nat] /\ orders' \in Nat
    BY <2>7, <2>8
  <2>2. UNCHANGED <<todos, done, events, failed, hook, tick, enq, base, rows, crashes>>
    BY <1>8 DEF CatchUp, Rebaseline, gitlabVars, procVars
  <2>6. TypeInv'
    BY <1>1, <2>1, <2>2 DEF TypeInv
  <2>3. TypeInv' /\ events <= events'
    BY <1>2, <2>2, <2>6
  <2>4. cursor'["todos"] = 0 \/ cursor'["todos"] = Never
    BY <2>7, <2>8
  <2>5. cursor'["todos"] # Never => cursor'["todos"] <= Len(todos)
    BY <1>2, <2>4
  <2> QED
    BY <1>2, <2>2, <2>3, <2>5, StepTyped
<1>9. CASE Crash
  <2>1. Idle \in Poll /\ Idle.pc = "idle"
    BY DEF Idle, Poll
  <2>2. tick' \in [Ticks -> Poll] /\ \A k \in Ticks : tick'[k] = Idle
    BY <1>9, <2>1 DEF Crash
  <2>3. PollOK(Idle)
    BY <2>1 DEF PollOK
  <2>5. /\ UNCHANGED <<todos, done, events, failed, cursor, base, rows, orders>>
        /\ enq' = {} /\ crashes' = crashes + 1 /\ hook' = [i \in 1 .. MaxTodos |-> 0]
    BY <1>9 DEF Crash, gitlabVars
  <2>6. TypeInv'
    BY <1>1, <2>2, <2>5 DEF TypeInv
  <2>4. TypeInv' /\ events <= events' /\ todos' = todos /\ cursor' = cursor
    BY <1>2, <2>5, <2>6
  <2> QED
    BY <2>2, <2>3, <2>4, StepTyped DEF Typed
<1> QED
  BY <1>3, <1>4, <1>5, <1>6, <1>7, <1>8, <1>9

\* The item a poll is at, and the key of its wake.
LEMMA ItemOK ==
  ASSUME Typed, NEW k \in Ticks, Armed(k) # {}
  PROVE  /\ Item(k) \in Armed(k) /\ Item(k) \in tick[k].page /\ Item(k) \in Nat
         /\ \A i \in Armed(k) : Item(k) <= i
<1>1. Armed(k) \subseteq Nat /\ Armed(k) \subseteq tick[k].page
  BY DEF Armed, Typed, TypeInv, Poll
<1> QED
  BY <1>1, LeastOf DEF Item

LEMMA KeyOK ==
  ASSUME Typed, NEW k \in Ticks, tick[k].pc = "items", Armed(k) # {}, NEW detail \in BOOLEAN
  PROVE  /\ KeyOf(k, detail) \in Keys /\ \A i : KeyOf(k, detail) # Hook(i)
         /\ Src(k) = "todos" =>
               \/ KeyOf(k, detail) = Todo(Item(k))
               \/ todos[Item(k)] \in Pipes /\ KeyOf(k, detail) = Build(todos[Item(k)])
         /\ Src(k) # "todos" => \A i : KeyOf(k, detail) # Todo(i)
<1> USE Bounds
<1>1. Item(k) \in Listable(Src(k)) /\ Src(k) \in Sources
  BY ItemOK DEF Typed, PollOK, OfSource, Src
<1>2. CASE Src(k) = "events"
  <2>1. Item(k) \in 1 .. MaxEvents /\ KeyOf(k, detail) = <<"event", Item(k)>>
    BY <1>1, <1>2 DEF KeyOf, Listable, Typed, TypeInv
  <2> QED
    BY <1>2, <2>1 DEF Keys, Hook, Todo
<1>3. CASE Src(k) = "pipes"
  <2>1. Item(k) \in Pipes /\ KeyOf(k, detail) = Build(Item(k))
    BY <1>1, <1>3 DEF KeyOf, Listable
  <2> QED
    BY <1>3, <2>1 DEF Keys, Hook, Todo, Build
<1>4. CASE Src(k) = "todos"
  <2>1. Item(k) \in 1 .. MaxTodos
    BY <1>1, <1>4 DEF Listable, Typed, TypeInv
  <2>2. \/ KeyOf(k, detail) = Todo(Item(k))
        \/ todos[Item(k)] \in Pipes /\ KeyOf(k, detail) = Build(todos[Item(k)])
    BY <1>4 DEF KeyOf
  <2> QED
    BY <1>4, <2>1, <2>2 DEF Keys, Hook, Todo, Build
<1> QED
  BY <1>1, <1>2, <1>3, <1>4 DEF Sources

\* The greatest of what a poll has in hand.
LEMMA PageBound ==
  ASSUME Typed, NEW k \in Ticks, tick[k].pc # "idle"
  PROVE  /\ \E n \in Nat : tick[k].page \subseteq 0 .. n
         /\ Src(k) = "todos" => tick[k].page \subseteq 0 .. Len(todos)
         /\ Src(k) \in Sources /\ tick[k].src \in DOMAIN Plan /\ tick[k].page \subseteq Nat
         /\ tick[k].at \in Nat /\ Len(todos) \in Nat
<1>1. /\ tick[k].page \subseteq Listable(Src(k)) /\ Src(k) \in Sources
      /\ tick[k].src \in DOMAIN Plan
  BY Bounds DEF Typed, PollOK, OfSource, Src
<1>2. todos \in Seq(Abouts) /\ events \in Nat /\ Len(todos) \in Nat
  BY Bounds DEF Typed, TypeInv
<1>3. tick[k] \in Poll
  BY DEF Typed, TypeInv
<1>4. tick[k].page \subseteq Nat /\ tick[k].at \in Nat
  BY <1>3 DEF Poll
<1>5. CASE Src(k) = "todos"
  <2>1. tick[k].page \subseteq 0 .. Len(todos)
    BY <1>1, <1>2, <1>5 DEF Listable
  <2> QED
    BY <1>1, <1>2, <1>4, <2>1
<1>6. CASE Src(k) = "events"
  <2>1. tick[k].page \subseteq 0 .. events
    BY <1>1, <1>2, <1>6 DEF Listable
  <2> QED
    BY <1>1, <1>2, <1>4, <1>6, <2>1
<1>7. CASE Src(k) = "pipes"
  <2>1. tick[k].page \subseteq 0 .. MaxPipes
    BY <1>1, <1>2, <1>7, Bounds DEF Listable, Pipes
  <2> QED
    BY <1>1, <1>2, <1>4, <1>7, <2>1, Bounds
<1> QED
  BY <1>1, <1>5, <1>6, <1>7 DEF Sources

LEMMA NewestOK ==
  ASSUME Typed, NEW k \in Ticks, tick[k].pc # "idle"
  PROVE  /\ Newest(k) \in Nat
         /\ Src(k) = "todos" => Newest(k) \in 0 .. Len(todos) /\ \A i \in tick[k].page : i <= Newest(k)
<1>1. PICK n \in Nat : tick[k].page \subseteq 0 .. n
  BY PageBound
<1>2. tick[k].page \union {0} \subseteq 0 .. n
  BY <1>1
<1>3. Max(tick[k].page \union {0}) \in Nat
  BY <1>2, GreatestOf
<1>4. events \in Nat
  BY Bounds DEF Typed, TypeInv
<1>5. ASSUME Src(k) = "todos"
      PROVE  Newest(k) \in 0 .. Len(todos) /\ \A i \in tick[k].page : i <= Newest(k)
  <2>1. tick[k].page \union {0} \subseteq 0 .. Len(todos) /\ Len(todos) \in Nat
    BY <1>5, PageBound
  <2> QED
    BY <1>5, <2>1, GreatestOf DEF Newest
<1> QED
  BY <1>3, <1>4, <1>5 DEF Newest

LEMMA ReachedOK ==
  ASSUME Typed, NEW k \in Ticks, tick[k].pc # "idle"
  PROVE  /\ Reached(k) \in Nat /\ tick[k].at <= Reached(k)
         /\ Reached(k) = tick[k].at \/ Reached(k) \in {i \in tick[k].page : \A j \in Armed(k) : i < j}
         /\ \A i \in tick[k].page : (\A j \in Armed(k) : i < j) => i <= Reached(k)
<1> DEFINE S == {i \in tick[k].page : \A j \in Armed(k) : i < j} \union {tick[k].at}
<1>1. PICK n \in Nat : tick[k].page \subseteq 0 .. n
  BY PageBound
<1>2. tick[k].at \in Nat /\ n + tick[k].at \in Nat
  BY <1>1, PageBound
<1>3. S \subseteq 0 .. n + tick[k].at /\ S # {}
  BY <1>1, <1>2
<1>4. Max(S) \in S /\ \A y \in S : y <= Max(S)
  BY <1>2, <1>3, GreatestOf
<1> HIDE DEF S
<1>5. Reached(k) = Max(S)
  BY DEF Reached, S
<1>6. S \subseteq Nat /\ tick[k].at \in S
  BY <1>2, <1>3 DEF S
<1>7. \A i \in tick[k].page : (\A j \in Armed(k) : i < j) => i \in S
  BY DEF S
<1>8. Reached(k) = tick[k].at \/ Reached(k) \in {i \in tick[k].page : \A j \in Armed(k) : i < j}
  BY <1>4, <1>5 DEF S
<1> QED
  BY <1>4, <1>5, <1>6, <1>7, <1>8

\* A step of one poll that leaves what GitLab has alone.
LEMMA OneMoves ==
  ASSUME Typed, NEW k \in Ticks, NEW n \in Poll, PollOK(n), tick' = [tick EXCEPT ![k] = n],
         UNCHANGED <<todos, events, failed, hook, rows, orders, crashes>>,
         done' \subseteq DOMAIN todos, enq' \subseteq Keys,
         cursor' \in [Sources -> Nat], base' \in [Sources -> Nat],
         cursor'["todos"] # Never => cursor'["todos"] <= Len(todos)
  PROVE  Typed'
<1>1. tick' \in [Ticks -> Poll] /\ \A q \in Ticks : PollOK(tick'[q])
  BY DEF Typed, TypeInv
<1>2. TypeInv'
  BY <1>1 DEF Typed, TypeInv
<1>3. events \in Nat
  BY Bounds DEF Typed, TypeInv
<1> QED
  BY <1>1, <1>2, <1>3, StepTyped

LEMMA ListedOK ==
  ASSUME Typed, NEW s \in Sources PROVE Listed(s) \subseteq Listable(s) /\ Listed(s) \subseteq Nat
<1>1. CASE s = "todos"
  BY <1>1 DEF Listed, NewestOf, Listable, Typed, TypeInv
<1>2. CASE s = "events"
  BY <1>2 DEF Listed, NewestOf, Listable
<1>3. CASE s = "pipes"
  <2>1. failed \subseteq Pipes /\ Pipes \subseteq Nat
    BY Bounds DEF Typed, TypeInv, Pipes
  <2> QED
    BY <1>3, <2>1 DEF Listed, NewestOf, Listable
<1> QED
  BY <1>1, <1>2, <1>3 DEF Sources

\* A poll that goes on, or is over, leaves the rest in order.
LEMMA GoesOn ==
  ASSUME Typed, NEW k \in Ticks, tick[k].pc # "idle", NextSource(k),
         UNCHANGED <<todos, events, failed, hook, rows, orders, crashes, done, enq>>,
         cursor' \in [Sources -> Nat], base' \in [Sources -> Nat],
         cursor'["todos"] # Never => cursor'["todos"] <= Len(todos)
  PROVE  Typed'
<1>1. tick' \in [Ticks -> Poll] /\ \A q \in Ticks : PollOK(tick'[q])
  BY NextSourceOK DEF Typed
<1>2. TypeInv'
  BY <1>1 DEF Typed, TypeInv
<1>3. events \in Nat
  BY Bounds DEF Typed, TypeInv
<1> QED
  BY <1>1, <1>2, <1>3, StepTyped

LEMMA HandsOver ==
  ASSUME Typed, NEW key \in Keys, HandOver(key) PROVE enq' = enq \union {key} /\ enq' \subseteq Keys
BY DEF HandOver, Typed, TypeInv

\* The records a poll goes through.
LEMMA BeginRecord ==
  ASSUME NEW p, NEW n, n = [Idle EXCEPT !.pc = "state", !.src = 1, !.left = MaxWakes, !.page = p]
  PROVE  n = [pc |-> "state", src |-> 1, left |-> MaxWakes, page |-> p, from |-> 0, at |-> 0]
BY DEF Idle

LEMMA PastRecord ==
  ASSUME NEW t \in Poll, NEW p, NEW c, NEW i, NEW n, n = [t EXCEPT !.at = i, !.page = p, !.pc = c]
  PROVE  n = [pc |-> c, src |-> t.src, left |-> t.left, page |-> p, from |-> t.from, at |-> i]
BY DEF Poll

LEMMA BaselineRecord ==
  ASSUME NEW t \in Poll, NEW i, NEW n, n = [t EXCEPT !.pc = "baseline", !.page = {}, !.at = i]
  PROVE  n = [pc |-> "baseline", src |-> t.src, left |-> t.left, page |-> {}, from |-> t.from, at |-> i]
BY DEF Poll

LEMMA ItemsRecord ==
  ASSUME NEW t \in Poll, NEW p, NEW c, NEW n,
         n = [t EXCEPT !.pc = "items", !.page = p, !.from = c, !.at = c]
  PROVE  n = [pc |-> "items", src |-> t.src, left |-> t.left, page |-> p, from |-> c, at |-> c]
BY DEF Poll

LEMMA AtCursorRecord ==
  ASSUME Typed, NEW k \in Ticks
  PROVE  LET t == tick[k]
             c == cursor[Src(k)]
         IN  /\ c = Never =>
                   AtCursor(k) = [pc |-> "baseline", src |-> t.src, left |-> t.left, page |-> {},
                                  from |-> t.from, at |-> Newest(k)]
             /\ c # Never =>
                   AtCursor(k) = [pc |-> "items", src |-> t.src, left |-> t.left,
                                  page |-> {i \in t.page : i > c}, from |-> c, at |-> c]
<1> DEFINE t == tick[k]
           c == cursor[Src(k)]
           p == {i \in t.page : i > c}
<1>1. t \in Poll
  BY DEF Typed, TypeInv
<1>2. c = Never => AtCursor(k) = [t EXCEPT !.pc = "baseline", !.page = {}, !.at = Newest(k)]
  BY DEF AtCursor
<1>3. c # Never => AtCursor(k) = [t EXCEPT !.pc = "items", !.page = p, !.from = c, !.at = c]
  BY DEF AtCursor
<1> HIDE DEF p, c, t
<1>4. c = Never => AtCursor(k) = [pc |-> "baseline", src |-> t.src, left |-> t.left, page |-> {},
                                  from |-> t.from, at |-> Newest(k)]
  BY <1>1, <1>2, BaselineRecord
<1>5. c # Never => AtCursor(k) = [pc |-> "items", src |-> t.src, left |-> t.left,
                                  page |-> p, from |-> c, at |-> c]
  BY <1>1, <1>3, ItemsRecord
<1> QED
  BY <1>4, <1>5 DEF p, c, t

LEMMA PastOf ==
  ASSUME Typed, NEW k \in Ticks
  PROVE  LET t == tick[k]
         IN  Past(k) = [pc |-> IF Src(k) = "todos" THEN "mark" ELSE "items", src |-> t.src, left |-> t.left,
                        page |-> {i \in t.page : i > Item(k)}, from |-> t.from, at |-> Item(k)]
<1> DEFINE t == tick[k]
           p == {i \in t.page : i > Item(k)}
           c == IF Src(k) = "todos" THEN "mark" ELSE "items"
           it == Item(k)
           n == Past(k)
<1>1. t \in Poll
  BY DEF Typed, TypeInv
<1>2. n = [t EXCEPT !.at = it, !.page = p, !.pc = c]
  BY DEF Past
<1> HIDE DEF p, c, t, it, n
<1>3. n = [pc |-> c, src |-> t.src, left |-> t.left, page |-> p, from |-> t.from, at |-> it]
  BY <1>1, <1>2, PastRecord
<1> QED
  BY <1>3 DEF p, c, t, it, n

LEMMA TickTyped ==
  ASSUME Typed, NEW k \in Ticks, TickStep(k)
  PROVE  Typed'
<1> USE Bounds
<1> DEFINE t == tick[k]
<1>1. /\ t \in Poll /\ PollOK(t) /\ tick \in [Ticks -> Poll]
      /\ done \subseteq DOMAIN todos /\ enq \subseteq Keys /\ Len(todos) \in Nat
      /\ cursor \in [Sources -> Nat] /\ base \in [Sources -> Nat]
      /\ cursor["todos"] # Never => cursor["todos"] <= Len(todos)
  BY DEF Typed, TypeInv
<1>2. /\ t.pc \in {"idle", "list", "state", "baseline", "items", "mark"} /\ t.src \in Nat
      /\ t.left \in Nat /\ t.page \subseteq Nat /\ t.from \in Nat /\ t.at \in Nat
  BY <1>1 DEF Poll
<1>3. CASE PollBegins(k)
  <2> DEFINE n == [Idle EXCEPT !.pc = "state", !.src = 1, !.left = MaxWakes, !.page = Listed(Plan[1])]
  <2>1. Listed(Plan[1]) \subseteq Listable(Plan[1]) /\ Listed(Plan[1]) \subseteq Nat
    BY ListedOK
  <2>2. MaxWakes \in Nat
    BY GitLabPollAssumption
  <2>3. n = [pc |-> "state", src |-> 1, left |-> MaxWakes, page |-> Listed(Plan[1]), from |-> 0, at |-> 0]
    BY BeginRecord
  <2> HIDE DEF n
  <2>7. n.pc = "state" /\ n.src = 1 /\ n.page = Listed(Plan[1])
    BY <2>3
  <2>4. n \in Poll /\ PollOK(n)
    <3>1. n \in Poll
      BY <2>1, <2>2, <2>3 DEF Poll
    <3> QED
      BY <2>1, <2>7, <3>1 DEF PollOK, OfSource
  <2>5. tick' = [tick EXCEPT ![k] = n]
    BY <1>3 DEF PollBegins, n
  <2>6. UNCHANGED <<gitlabVars, hook, enq, cursor, rows, base, orders, crashes>>
    BY <1>3 DEF PollBegins
  <2> QED
    BY <1>1, <2>4, <2>5, <2>6, OneMoves DEF gitlabVars
<1>4. CASE List(k)
  <2>1. UNCHANGED <<gitlabVars, hook, enq, cursor, rows, base, orders, crashes>> /\ t.pc = "list"
    BY <1>4 DEF List
  <2>2. CASE NextSource(k)
    BY <1>1, <2>1, <2>2, GoesOn DEF gitlabVars
  <2>3. CASE tick' = [tick EXCEPT ![k].pc = "state", ![k].page = Listed(Src(k))]
    <3> DEFINE n == [t EXCEPT !.pc = "state", !.page = Listed(Src(k))]
    <3>1. Listed(Src(k)) \subseteq Listable(Src(k)) /\ Listed(Src(k)) \subseteq Nat /\ t.src \in DOMAIN Plan
      BY <2>1, ListedOK, PageBound
    <3>2. n \in Poll /\ n.pc = "state" /\ n.src = t.src /\ n.page = Listed(Src(k))
      BY <1>1, <3>1 DEF Poll
    <3>3. PollOK(n)
      BY <3>1, <3>2 DEF PollOK, OfSource, Src
    <3>4. tick' = [tick EXCEPT ![k] = n]
      BY <1>1, <2>3
    <3> HIDE DEF n
    <3> QED
      BY <1>1, <2>1, <3>2, <3>3, <3>4, OneMoves DEF gitlabVars
  <2> QED
    BY <1>4, <2>2, <2>3 DEF List
<1>5. CASE ReadCursor(k)
  <2>1. UNCHANGED <<gitlabVars, hook, enq, cursor, rows, base, orders, crashes>> /\ t.pc = "state"
    BY <1>5 DEF ReadCursor
  <2>2. CASE NextSource(k)
    BY <1>1, <2>1, <2>2, GoesOn DEF gitlabVars
  <2>3. CASE ~NextSource(k)
    <3> DEFINE c == cursor[Src(k)]
    <3>1. /\ t.src \in DOMAIN Plan /\ Src(k) \in Sources /\ c \in Nat /\ Newest(k) \in Nat
          /\ t.page \subseteq Listable(Src(k))
          /\ Src(k) = "todos" => Newest(k) \in 0 .. Len(todos)
      BY <1>1, <2>1, PageBound, NewestOK DEF PollOK, OfSource, Src
    <3>2. tick' = [tick EXCEPT ![k] = AtCursor(k)]
      BY <1>5, <2>3 DEF ReadCursor
    <3>3. AtCursor(k) \in Poll /\ PollOK(AtCursor(k))
      <4>1. CASE c = Never
        <5>1. AtCursor(k) = [pc |-> "baseline", src |-> t.src, left |-> t.left, page |-> {},
                             from |-> t.from, at |-> Newest(k)]
          BY <4>1, AtCursorRecord
        <5>2. AtCursor(k) \in Poll
          BY <1>2, <3>1, <5>1 DEF Poll
        <5> QED
          BY <3>1, <5>1, <5>2 DEF PollOK, OfSource, Src
      <4>2. CASE c # Never
        <5>1. AtCursor(k) = [pc |-> "items", src |-> t.src, left |-> t.left,
                             page |-> {i \in t.page : i > c}, from |-> c, at |-> c]
          BY <4>2, AtCursorRecord
        <5>2. {i \in t.page : i > c} \subseteq t.page /\ {i \in t.page : i > c} \subseteq Nat
          BY <1>2
        <5>3. AtCursor(k) \in Poll
          BY <1>2, <3>1, <5>1, <5>2 DEF Poll
        <5>4. Src(k) = "todos" => c \in 0 .. Len(todos)
          BY <1>1, <3>1, <4>2
        <5>5. AtCursor(k).pc = "items" /\ AtCursor(k).src = t.src /\ AtCursor(k).at = c
              /\ AtCursor(k).page \subseteq t.page
          BY <5>1, <5>2
        <5>6. PollOK(AtCursor(k))
          BY <3>1, <5>4, <5>5 DEF PollOK, OfSource, Src
        <5> QED
          BY <5>3, <5>6
      <4> QED
        BY <4>1, <4>2
    <3> QED
      BY <1>1, <2>1, <3>2, <3>3, OneMoves DEF gitlabVars
  <2> QED
    BY <2>2, <2>3
<1>6. CASE Wakes(k)
  <2>1. /\ UNCHANGED <<gitlabVars, hook, cursor, rows, base, orders, crashes>>
        /\ t.pc = "items" /\ Armed(k) # {} /\ t.left > 0
    BY <1>6 DEF Wakes
  <2>2. enq' \subseteq Keys
    <3>1. \A detail \in BOOLEAN : KeyOf(k, detail) \in Keys
      BY <2>1, KeyOK
    <3> QED
      BY <1>1, <1>6, <3>1, HandsOver DEF Wakes
  <2>3. \E n \in {Past(k), [Past(k) EXCEPT !.left = @ - 1]} : tick' = [tick EXCEPT ![k] = n]
    BY <1>6 DEF Wakes
  <2>4. Item(k) \in t.page /\ Item(k) \in Nat
    BY <2>1, ItemOK
  <2>5. Past(k) = [pc |-> IF Src(k) = "todos" THEN "mark" ELSE "items", src |-> t.src, left |-> t.left,
                   page |-> {i \in t.page : i > Item(k)}, from |-> t.from, at |-> Item(k)]
    BY PastOf
  <2>6. t.src \in DOMAIN Plan /\ t.page \subseteq Listable(Src(k))
        /\ (Src(k) = "todos" => Item(k) \in DOMAIN todos /\ Item(k) \in 0 .. Len(todos))
    BY <1>1, <2>1, <2>4 DEF PollOK, OfSource, Src, Listable, Typed, TypeInv
  <2>7. \A n \in {Past(k), [Past(k) EXCEPT !.left = @ - 1]} :
          /\ n.pc = (IF Src(k) = "todos" THEN "mark" ELSE "items") /\ n.src = t.src
          /\ n.page \subseteq t.page /\ n.at = Item(k) /\ n \in Poll
    <3> DEFINE p == {i \in t.page : i > Item(k)}
               c == IF Src(k) = "todos" THEN "mark" ELSE "items"
    <3>1. p \subseteq t.page /\ p \subseteq Nat /\ c \in {"mark", "items"} /\ t.left - 1 \in Nat
      BY <1>2, <2>1
    <3> HIDE DEF p, c
    <3>2. Past(k) = [pc |-> c, src |-> t.src, left |-> t.left, page |-> p, from |-> t.from, at |-> Item(k)]
      BY <2>5 DEF p, c
    <3>7. Past(k) \in Poll
      BY <1>2, <2>4, <3>1, <3>2 DEF Poll
    <3>4. TAKE n \in {Past(k), [Past(k) EXCEPT !.left = @ - 1]}
    <3>8. Past(k).left - 1 \in Nat
      BY <3>1, <3>2
    <3>5. n.pc = c /\ n.src = t.src /\ n.page = p /\ n.at = Item(k)
      BY <3>2, <3>4
    <3>6. n \in Poll
      BY <3>4, <3>7, <3>8 DEF Poll
    <3> QED
      BY <3>1, <3>5, <3>6 DEF c
  <2>8. \A n \in {Past(k), [Past(k) EXCEPT !.left = @ - 1]} : PollOK(n)
    BY <2>6, <2>7 DEF PollOK, OfSource, Src
  <2>9. PICK n \in {Past(k), [Past(k) EXCEPT !.left = @ - 1]} : tick' = [tick EXCEPT ![k] = n]
    BY <2>3
  <2> QED
    BY <1>1, <2>1, <2>2, <2>7, <2>8, <2>9, OneMoves DEF gitlabVars
<1>7. CASE Marks(k)
  <2> DEFINE n == [t EXCEPT !.pc = "items"]
  <2>1. UNCHANGED <<todos, events, failed, hook, enq, cursor, rows, base, orders, crashes>> /\ t.pc = "mark"
    BY <1>7 DEF Marks
  <2>2. t.at \in DOMAIN todos /\ Plan[t.src] = "todos" /\ OfSource(t)
    BY <1>1, <2>1 DEF PollOK
  <2>3. done' \subseteq DOMAIN todos
    BY <1>1, <1>7, <2>2 DEF Marks
  <2>4. n \in Poll /\ n.pc = "items" /\ n.src = t.src /\ n.page = t.page /\ n.at = t.at
    BY <1>1 DEF Poll
  <2>5. t.at \in 0 .. Len(todos)
    BY <1>1, <1>2, <2>2 DEF Typed, TypeInv
  <2>6. PollOK(n)
    BY <2>2, <2>4, <2>5 DEF PollOK, OfSource
  <2>7. tick' = [tick EXCEPT ![k] = n]
    BY <1>1, <1>7 DEF Marks
  <2> HIDE DEF n
  <2> QED
    BY <1>1, <2>1, <2>3, <2>4, <2>6, <2>7, OneMoves
<1>8. CASE Saves(k)
  <2>1. /\ UNCHANGED <<gitlabVars, hook, enq, rows, orders, crashes>> /\ NextSource(k)
        /\ t.pc \in {"baseline", "items"}
    BY <1>8 DEF Saves
  <2>2. Src(k) \in Sources /\ Reached(k) \in Nat
    BY <2>1, PageBound, ReachedOK
  <2>3. Src(k) = "todos" => Reached(k) <= Len(todos)
    <3>1. SUFFICES ASSUME Src(k) = "todos" PROVE Reached(k) <= Len(todos)
      OBVIOUS
    <3>2. t.at \in 0 .. Len(todos)
      BY <1>1, <2>1, <3>1 DEF PollOK, Src
    <3>3. t.page \subseteq 0 .. Len(todos)
      BY <2>1, <3>1, PageBound
    <3>4. Reached(k) = t.at \/ Reached(k) \in t.page
      BY <2>1, ReachedOK
    <3> QED
      BY <1>1, <3>2, <3>3, <3>4
  <2>4. cursor' = cursor \/ cursor' = [cursor EXCEPT ![Src(k)] = Reached(k)]
    BY <1>8 DEF Saves
  <2>5. cursor' \in [Sources -> Nat] /\ (cursor'["todos"] # Never => cursor'["todos"] <= Len(todos))
    BY <1>1, <2>2, <2>3, <2>4 DEF Sources
  <2>6. base' \in [Sources -> Nat]
    <3>1. base' = base \/ base' = [base EXCEPT ![Src(k)] = Max({@, t.at})]
      BY <1>8 DEF Saves
    <3>2. Max({base[Src(k)], t.at}) \in Nat
      <4>1. base[Src(k)] \in Nat /\ base[Src(k)] + t.at \in Nat
        BY <1>1, <1>2, <2>2
      <4>2. {base[Src(k)], t.at} \subseteq 0 .. base[Src(k)] + t.at
        BY <1>2, <4>1
      <4> QED
        BY <1>2, <4>1, <4>2, GreatestOf
    <3> QED
      BY <1>1, <3>1, <3>2
  <2> QED
    BY <1>1, <2>1, <2>5, <2>6, GoesOn DEF gitlabVars
<1> QED
  BY <1>3, <1>4, <1>5, <1>6, <1>7, <1>8 DEF TickStep

LEMMA NextTyped == Typed /\ [Next]_vars => Typed'
BY TickTyped, OutsideTyped DEF Next

\* The polls, the cursors and the rows hold what they are meant to hold.
THEOREM PollTypeCorrect == Spec => []Typed
BY InitTyped, NextTyped, PTL DEF Spec
-----------------------------------------------------------------------------
(* One delivery, one turn.                                                  *)

LEMMA MinTwo == Min({2, 1}) = 1
<1>1. {2, 1} \subseteq Nat /\ {2, 1} # {}
  OBVIOUS
<1>2. Min({2, 1}) \in {2, 1} /\ \A y \in {2, 1} : Min({2, 1}) <= y
  BY <1>1, LeastOf
<1> QED
  BY <1>2

\* A key that was not seen is handed over.
LEMMA HandOverDelivery ==
  ASSUME Typed, DeliveryInv, NEW key \in Keys, key \notin seen, HandOver(key),
         rows' = rows, hook' \in [1 .. MaxTodos -> Nat],
         \A i \in 1 .. MaxTodos : hook'[i] <= hook[i] /\ (key = Hook(i) => hook'[i] = 0),
         crashes' = crashes, crossed' = crossed
  PROVE  DeliveryInv'
<1> SUFFICES ASSUME crashes' = 0, ~cleared', ~crossed'
             PROVE  /\ \A q \in Keys : /\ rows'[q] <= 1 /\ (rows'[q] > 0 => q \in seen')
                                       /\ q \in enq' => rows'[q] = 0
                    /\ enq' \subseteq seen'
                    /\ \A i \in 1 .. MaxTodos : hook'[i] <= 1 /\ (hook'[i] > 0 => Hook(i) \notin seen')
  BY DEF DeliveryInv
<1>1. /\ \A q \in Keys : /\ rows[q] <= 1 /\ (rows[q] > 0 => q \in seen)
                         /\ q \in enq => rows[q] = 0
      /\ enq \subseteq seen
      /\ \A i \in 1 .. MaxTodos : hook[i] <= 1 /\ (hook[i] > 0 => Hook(i) \notin seen)
  BY DEF DeliveryInv, HandOver
<1>2. seen' = seen \union {key} /\ enq' = enq \union {key}
  BY DEF HandOver
<1>3. rows \in [Keys -> Nat] /\ hook \in [1 .. MaxTodos -> Nat]
  BY DEF Typed, TypeInv
<1>4. \A q \in Keys : /\ rows'[q] <= 1 /\ (rows'[q] > 0 => q \in seen')
                      /\ q \in enq' => rows'[q] = 0
  BY <1>1, <1>2, <1>3
<1>5. \A i \in 1 .. MaxTodos : hook'[i] <= 1 /\ (hook'[i] > 0 => Hook(i) \notin seen')
  <2> TAKE i \in 1 .. MaxTodos
  <2>1. hook[i] \in Nat /\ hook'[i] \in Nat /\ hook'[i] <= hook[i] /\ (key = Hook(i) => hook'[i] = 0)
    BY <1>3
  <2> QED
    BY <1>1, <1>2, <2>1
<1> QED
  BY <1>1, <1>2, <1>4, <1>5

\* Nothing of it changes.
LEMMA SameDelivery ==
  ASSUME DeliveryInv, UNCHANGED <<rows, seen, enq, hook, crashes, cleared>>, crossed => crossed'
  PROVE  DeliveryInv'
BY DEF DeliveryInv

LEMMA DeliveryStep ==
  ASSUME Typed, DeliveryInv, [Next]_vars
  PROVE  DeliveryInv'
<1> USE Bounds
<1>1. rows \in [Keys -> Nat] /\ hook \in [1 .. MaxTodos -> Nat] /\ crashes \in Nat /\ enq \subseteq Keys
  BY DEF Typed, TypeInv
<1>2. CASE RaiseTodo \/ EventHappens \/ PipelineFails \/ CatchUp \/ Rebaseline \/ UNCHANGED vars
  <2>1. UNCHANGED <<rows, seen, enq, hook, crashes, cleared, crossed>>
    BY <1>2 DEF RaiseTodo, EventHappens, PipelineFails, CatchUp, Rebaseline, procVars, histVars, vars
  <2> QED
    BY <2>1, SameDelivery
<1>3. CASE \E i \in 1 .. MaxTodos : HookArrives(i)
  <2>1. PICK i \in 1 .. MaxTodos : HookArrives(i)
    BY <1>3
  <2>2. UNCHANGED <<rows, seen, enq, crashes, cleared>> /\ crossed' = (crossed \/ hook[i] > 0)
    BY <2>1 DEF HookArrives
  <2>3. hook' = IF Hook(i) \in seen THEN hook ELSE [hook EXCEPT ![i] = @ + 1]
    BY <2>1 DEF HookArrives
  <2>4. CASE Hook(i) \in seen
    BY <2>2, <2>3, <2>4, SameDelivery
  <2>5. CASE Hook(i) \notin seen
    <3>1. hook' = [hook EXCEPT ![i] = @ + 1] /\ hook[i] \in Nat
      BY <1>1, <2>3, <2>5
    <3>2. \A j \in 1 .. MaxTodos : j # i => hook'[j] = hook[j]
      BY <1>1, <3>1
    <3>3. hook'[i] = hook[i] + 1
      BY <1>1, <3>1
    <3>5. ~crossed' => ~(hook[i] > 0) /\ ~crossed
      BY <2>2, Zenon
    <3>4. ~crossed' => hook[i] = 0 /\ ~crossed
      BY <3>1, <3>5
    <3> QED
      BY <2>2, <2>5, <3>2, <3>3, <3>4 DEF DeliveryInv
  <2> QED
    BY <2>4, <2>5
<1>4. CASE HookStep
  <2>1. PICK i \in 1 .. MaxTodos : HookWakes(i)
    BY <1>4 DEF HookStep
  <2>2. /\ hook[i] > 0 /\ hook' = [hook EXCEPT ![i] = @ - 1] /\ HandOver(Hook(i))
        /\ UNCHANGED <<rows, crashes, crossed>>
    BY <2>1 DEF HookWakes
  <2>3. CASE crashes = 0 /\ ~cleared /\ ~crossed
    <3>1. hook[i] = 1 /\ Hook(i) \notin seen
      BY <1>1, <2>2, <2>3 DEF DeliveryInv
    <3>2. hook' \in [1 .. MaxTodos -> Nat] /\ \A j \in 1 .. MaxTodos : hook'[j] <= hook[j] /\ (j = i => hook'[j] = 0)
      BY <1>1, <2>2, <3>1
    <3>3. Hook(i) \in Keys /\ \A j \in 1 .. MaxTodos : Hook(j) = Hook(i) => j = i
      BY DEF Keys, Hook
    <3> QED
      BY <2>2, <3>1, <3>2, <3>3, HandOverDelivery
  <2>4. CASE ~(crashes = 0 /\ ~cleared /\ ~crossed)
    BY <2>2, <2>4 DEF DeliveryInv, HandOver
  <2> QED
    BY <2>3, <2>4
<1>5. CASE LaneStep
  <2>1. PICK key \in Keys : Enqueue(key)
    BY <1>5 DEF LaneStep
  <2>2. /\ key \in enq /\ enq' = enq \ {key} /\ UNCHANGED <<seen, hook, crashes, cleared, crossed>>
        /\ rows' = rows \/ rows' = [rows EXCEPT ![key] = Min({2, @ + 1})]
    BY <2>1 DEF Enqueue
  <2>3. CASE crashes = 0 /\ ~cleared /\ ~crossed
    <3>1. rows[key] = 0 /\ key \in seen
      BY <2>2, <2>3 DEF DeliveryInv
    <3>2. \A q \in Keys : rows'[q] = rows[q] \/ (q = key /\ rows'[q] = 1)
      BY <1>1, <2>2, <3>1, MinTwo
    <3>3. \A q \in Keys : rows'[q] <= 1 /\ (rows'[q] > 0 => q \in seen)
      BY <2>3, <3>1, <3>2 DEF DeliveryInv
    <3>4. \A q \in enq' : rows'[q] = 0
      BY <1>1, <2>2, <2>3, <3>2 DEF DeliveryInv
    <3> QED
      BY <2>2, <2>3, <3>3, <3>4 DEF DeliveryInv
  <2>4. CASE ~(crashes = 0 /\ ~cleared /\ ~crossed)
    BY <2>2, <2>4 DEF DeliveryInv
  <2> QED
    BY <2>3, <2>4
<1>6. CASE Crash
  <2>1. crashes' = crashes + 1
    BY <1>6 DEF Crash
  <2> QED
    BY <1>1, <2>1 DEF DeliveryInv
<1>7. ASSUME NEW k \in Ticks, TickStep(k) PROVE DeliveryInv'
  <2>1. CASE PollBegins(k) \/ List(k) \/ ReadCursor(k) \/ Marks(k)
    <3>1. UNCHANGED <<rows, seen, enq, hook, crashes, cleared, crossed>>
      BY <2>1 DEF PollBegins, List, ReadCursor, Marks, histVars
    <3> QED
      BY <3>1, SameDelivery
  <2>2. CASE Saves(k)
    <3>1. UNCHANGED <<rows, seen, enq, hook, crashes, cleared>>
      BY <2>2 DEF Saves
    <3>2. crossed => crossed'
      BY <2>2, Zenon DEF Saves
    <3> QED
      BY <3>1, <3>2, SameDelivery
  <2>3. CASE Wakes(k)
    <3>1. tick[k].pc = "items" /\ Armed(k) # {} /\ UNCHANGED <<rows, hook, crashes, crossed>>
      BY <2>3 DEF Wakes
    <3>2. PICK detail \in BOOLEAN :
            LET key == KeyOf(k, detail)
            IN  IF key \in seen THEN UNCHANGED <<seen, enq, cleared>> ELSE HandOver(key)
      BY <2>3 DEF Wakes
    <3>3. KeyOf(k, detail) \in Keys /\ \A i : KeyOf(k, detail) # Hook(i)
      BY <3>1, KeyOK
    <3>4. \A i \in 1 .. MaxTodos : hook'[i] <= hook[i]
      BY <1>1, <3>1
    <3>5. CASE KeyOf(k, detail) \in seen
      BY <3>1, <3>2, <3>5, SameDelivery
    <3>6. CASE KeyOf(k, detail) \notin seen
      BY <1>1, <3>1, <3>2, <3>3, <3>4, <3>6, HandOverDelivery
    <3> QED
      BY <3>5, <3>6
  <2> QED
    BY <1>7, <2>1, <2>2, <2>3 DEF TickStep
<1> QED
  BY <1>2, <1>3, <1>4, <1>5, <1>6, <1>7 DEF Next

\* One delivery is one turn for as long as the process lives: for any number of polls at
\* once, any budget, and whatever the operator rewinds (gitlab-wake-runner.ts, enqueue()).
THEOREM OneDeliveryOneTurn == Spec => []OneTurnPerDelivery
<1>1. Init => Typed /\ DeliveryInv
  BY InitTyped DEF Init, DeliveryInv
<1>2. Typed /\ DeliveryInv /\ [Next]_vars => (Typed /\ DeliveryInv)'
  BY NextTyped, DeliveryStep
<1>3. DeliveryInv => OneTurnPerDelivery
  BY DEF DeliveryInv, OneTurnPerDelivery
<1> QED
  BY <1>1, <1>2, <1>3, PTL DEF Spec
-----------------------------------------------------------------------------
(* What was handed over stays so, and nothing else is: by a poll that wakes *)
(* or by the route.                                                         *)

\* The step hands nothing over, or the key of a poll's item, or a webhook's.
HandsNothing == Handed' = Handed /\ seen' \subseteq seen
HandsKey(key) == Handed' = Handed \union {key} /\ seen' \subseteq seen \union {key} /\ HandOver(key)

LEMMA RowsCount ==
  ASSUME NEW n \in Nat PROVE Min({2, n + 1}) \in Nat /\ Min({2, n + 1}) > 0
<1>1. {2, n + 1} \subseteq Nat /\ {2, n + 1} # {}
  OBVIOUS
<1>2. Min({2, n + 1}) \in {2, n + 1}
  BY <1>1, LeastOf
<1> QED
  BY <1>2

LEMMA HandOverOne ==
  ASSUME NEW key \in Keys, HandOver(key), UNCHANGED <<rows, lost>>
  PROVE  HandsKey(key)
BY DEF HandOver, HandsKey, Handed

LEMMA HandedNever ==
  ASSUME Typed,
         \/ RaiseTodo \/ EventHappens \/ PipelineFails \/ (\E i \in 1 .. MaxTodos : HookArrives(i))
         \/ LaneStep \/ CatchUp \/ Rebaseline \/ Crash \/ UNCHANGED vars
         \/ \E k \in Ticks : PollBegins(k) \/ List(k) \/ ReadCursor(k) \/ Marks(k) \/ Saves(k)
  PROVE  HandsNothing
<1>1. rows \in [Keys -> Nat] /\ enq \subseteq Keys
  BY DEF Typed, TypeInv
<1>2. CASE LaneStep
  <2>1. PICK key \in Keys : Enqueue(key)
    BY <1>2 DEF LaneStep
  <2>2. key \in enq /\ enq' = enq \ {key} /\ seen' = seen
    BY <2>1 DEF Enqueue
  <2>3. \/ rows' = [rows EXCEPT ![key] = Min({2, @ + 1})] /\ lost' = lost
        \/ rows[key] > 0 /\ rows' = rows /\ lost' = lost
        \/ rows' = rows /\ lost' = lost \union {key}
    BY <2>1 DEF Enqueue
  <2>4. CASE rows' = [rows EXCEPT ![key] = Min({2, @ + 1})] /\ lost' = lost
    <3>1. rows'[key] > 0 /\ \A q \in Keys : q # key => rows'[q] = rows[q]
      BY <1>1, <2>4, RowsCount
    <3> QED
      BY <2>2, <2>4, <3>1 DEF HandsNothing, Handed
  <2>5. CASE rows[key] > 0 /\ rows' = rows /\ lost' = lost
    BY <2>2, <2>5 DEF HandsNothing, Handed
  <2>6. CASE rows' = rows /\ lost' = lost \union {key}
    BY <2>2, <2>6 DEF HandsNothing, Handed
  <2> QED
    BY <2>3, <2>4, <2>5, <2>6
<1>3. CASE Crash
  <2>1. lost' = lost \union enq /\ enq' = {} /\ rows' = rows /\ seen' = {}
    BY <1>3 DEF Crash
  <2> QED
    BY <2>1 DEF HandsNothing, Handed
<1>4. CASE \/ RaiseTodo \/ EventHappens \/ PipelineFails \/ (\E i \in 1 .. MaxTodos : HookArrives(i))
           \/ CatchUp \/ Rebaseline \/ UNCHANGED vars
  <2>1. UNCHANGED <<seen, enq, rows, lost>>
    BY <1>4 DEF RaiseTodo, EventHappens, PipelineFails, HookArrives, CatchUp, Rebaseline, vars,
                procVars, histVars
  <2> QED
    BY <2>1 DEF HandsNothing, Handed
<1>5. CASE \E k \in Ticks : PollBegins(k) \/ List(k) \/ ReadCursor(k) \/ Marks(k) \/ Saves(k)
  <2>1. UNCHANGED <<seen, enq, rows, lost>>
    BY <1>5 DEF PollBegins, List, ReadCursor, Marks, Saves, histVars
  <2> QED
    BY <2>1 DEF HandsNothing, Handed
<1> QED
  BY <1>2, <1>3, <1>4, <1>5

LEMMA HookHands ==
  ASSUME Typed, HookStep
  PROVE  \E i \in 1 .. MaxTodos : HandsKey(Hook(i))
<1>1. PICK i \in 1 .. MaxTodos : HookWakes(i)
  BY DEF HookStep
<1>2. Hook(i) \in Keys
  BY DEF Keys
<1>3. HandOver(Hook(i)) /\ UNCHANGED <<rows, lost>>
  BY <1>1 DEF HookWakes
<1> QED
  BY <1>2, <1>3, HandOverOne

LEMMA WakesHands ==
  ASSUME Typed, NEW k \in Ticks, Wakes(k)
  PROVE  /\ tick[k].pc = "items" /\ Armed(k) # {}
         /\ \E detail \in BOOLEAN :
              LET key == KeyOf(k, detail)
              IN  IF key \in seen THEN HandsNothing /\ UNCHANGED <<enq, cleared, seen>> ELSE HandsKey(key)
<1>1. tick[k].pc = "items" /\ Armed(k) # {} /\ UNCHANGED <<rows, lost>>
  BY DEF Wakes
<1>2. PICK detail \in BOOLEAN :
        LET key == KeyOf(k, detail)
        IN  IF key \in seen THEN UNCHANGED <<seen, enq, cleared>> ELSE HandOver(key)
  BY DEF Wakes
<1>3. KeyOf(k, detail) \in Keys
  BY <1>1, KeyOK
<1>4. CASE KeyOf(k, detail) \in seen
  BY <1>1, <1>2, <1>4 DEF HandsNothing, Handed
<1>5. CASE KeyOf(k, detail) \notin seen
  <2>1. HandsKey(KeyOf(k, detail))
    BY <1>1, <1>2, <1>3, <1>5, HandOverOne
  <2> QED
    BY <1>1, <1>5, <2>1
<1> QED
  BY <1>4, <1>5

LEMMA HandedGrows ==
  ASSUME Typed, [Next]_vars
  PROVE  /\ Handed \subseteq Handed'
         /\ seen \subseteq Handed => seen' \subseteq Handed'
<1>1. HandsNothing \/ \E key : HandsKey(key)
  BY HandedNever, HookHands, WakesHands DEF Next, TickStep
<1> QED
  BY <1>1 DEF HandsNothing, HandsKey

\* What a baseline leaves behind and what listings left out only grow, and nothing is
\* taken off the to-dos.
LEMMA GitLabGrows ==
  ASSUME Typed, [Next]_vars
  PROVE  /\ base["todos"] \in Nat /\ base'["todos"] \in Nat /\ base["todos"] <= base'["todos"]
         /\ todos' = todos \/ \E what \in Abouts : todos' = Append(todos, what)
         /\ unlisted \subseteq unlisted'
<1>1. base["todos"] \in Nat /\ base'["todos"] \in Nat
  BY NextTyped DEF Typed, TypeInv, Sources
<1>2. ASSUME NEW k \in Ticks, Saves(k) PROVE base["todos"] <= base'["todos"]
  <2> DEFINE m == Max({base[Src(k)], tick[k].at})
  <2>1. base' = base \/ base' = [base EXCEPT ![Src(k)] = m]
    BY <1>2 DEF Saves
  <2>2. /\ base[Src(k)] \in Nat /\ tick[k].at \in Nat
        /\ base \in [Sources -> Nat] /\ "todos" \in Sources
    BY <1>2, PageBound DEF Saves, Typed, TypeInv, Sources
  <2>3. {base[Src(k)], tick[k].at} \subseteq 0 .. base[Src(k)] + tick[k].at
    BY <2>2
  <2>4. base[Src(k)] <= m
    BY <2>2, <2>3, GreatestOf
  <2> HIDE DEF m
  <2>5. base'["todos"] = base["todos"] \/ (Src(k) = "todos" /\ base'["todos"] = m)
    BY <2>1, <2>2
  <2> QED
    BY <1>1, <2>4, <2>5
<1>3. base' = base \/ \E k \in Ticks : Saves(k)
  BY DEF Next, TickStep, RaiseTodo, EventHappens, PipelineFails, HookArrives, HookStep, HookWakes,
         LaneStep, Enqueue, CatchUp, Rebaseline, Crash, PollBegins, List, ReadCursor, Wakes, Marks,
         vars, histVars
<1>4. todos' = todos \/ RaiseTodo
  BY DEF Next, TickStep, EventHappens, PipelineFails, HookArrives, HookStep, HookWakes,
         LaneStep, Enqueue, CatchUp, Rebaseline, Crash, PollBegins, List, ReadCursor, Wakes, Marks,
         Saves, vars, gitlabVars
<1>5. RaiseTodo => \E what \in Abouts : todos' = Append(todos, what)
  BY DEF RaiseTodo, Abouts, Typed, TypeInv
<1>6. unlisted' = unlisted \/ \E s : Cut(s)
  BY DEF Next, TickStep, RaiseTodo, EventHappens, PipelineFails, HookArrives, HookStep, HookWakes,
         LaneStep, Enqueue, CatchUp, Rebaseline, Crash, PollBegins, List, ReadCursor, Wakes, Marks,
         Saves, vars, histVars
<1>7. unlisted \subseteq unlisted'
  BY <1>6 DEF Cut
<1> QED
  BY <1>1, <1>2, <1>3, <1>4, <1>5, <1>7
-----------------------------------------------------------------------------
(* The cursor passes nothing over.                                          *)

\* A to-do an agent should see, above the baseline and never beyond the page of a listing,
\* that nobody was woken for yet.
Owed(i) ==
    /\ i \in DOMAIN todos \ unlisted /\ base["todos"] < i /\ todos[i] # Unarmed
    /\ Todo(i) \notin Handed
    /\ todos[i] \in Pipes => Build(todos[i]) \notin Handed

\* What is owed lies above the cursor, is not marked as done, and is in the page of a poll or
\* above it; a poll's place in its page lies below.
OnTodos(t) == t.pc # "idle" /\ Plan[t.src] = "todos"
PageInv(t) ==
    OnTodos(t) =>
        /\ t.pc \in {"state", "items", "mark"} =>
              \A i \in DOMAIN todos : Owed(i) /\ i \notin t.page => \A j \in t.page : j < i
        /\ t.pc \in {"items", "mark"} => \A i \in DOMAIN todos : Owed(i) => t.at < i
OwedInv ==
    /\ seen \subseteq Handed
    /\ cursor["todos"] # Never => \A i \in DOMAIN todos : Owed(i) => cursor["todos"] < i
    /\ \A i \in done : ~Owed(i)
    /\ \A k \in Ticks : PageInv(tick[k])

\* Nothing becomes owed but what is raised.
LEMMA OwedBefore ==
  ASSUME Typed, [Next]_vars
  PROVE  /\ \A i : Owed(i)' => Owed(i) \/ (i = Len(todos) + 1 /\ i \notin DOMAIN todos)
         /\ Len(todos) \in Nat /\ DOMAIN todos = 1 .. Len(todos) /\ DOMAIN todos \subseteq DOMAIN todos'
         /\ \A i \in DOMAIN todos' : i \in DOMAIN todos \/ i = Len(todos) + 1
<1>1. /\ Handed \subseteq Handed'
      /\ base["todos"] \in Nat /\ base'["todos"] \in Nat /\ base["todos"] <= base'["todos"]
      /\ todos' = todos \/ \E what \in Abouts : todos' = Append(todos, what)
      /\ unlisted \subseteq unlisted'
  BY HandedGrows, GitLabGrows
<1>2. todos \in Seq(Abouts) /\ Len(todos) \in Nat /\ DOMAIN todos = 1 .. Len(todos)
  BY DEF Typed, TypeInv
<1>3. /\ \A i \in DOMAIN todos : i \in DOMAIN todos' /\ todos'[i] = todos[i]
      /\ \A i \in DOMAIN todos' : i \in DOMAIN todos \/ (i = Len(todos) + 1 /\ i \notin DOMAIN todos)
  <2>1. CASE todos' = todos
    BY <2>1
  <2>2. CASE \E what \in Abouts : todos' = Append(todos, what)
    BY <1>2, <2>2
  <2> QED
    BY <1>1, <2>1, <2>2
<1>4. ASSUME NEW i, Owed(i)' PROVE Owed(i) \/ (i = Len(todos) + 1 /\ i \notin DOMAIN todos)
  <2>1. i \in DOMAIN todos'
    BY <1>4 DEF Owed
  <2>2. SUFFICES ASSUME i \in DOMAIN todos PROVE Owed(i)
    BY <1>3, <2>1
  <2>3. todos'[i] = todos[i] /\ i \in Nat
    BY <1>2, <1>3, <2>2
  <2>4. /\ base'["todos"] < i /\ todos[i] # Unarmed /\ Todo(i) \notin Handed' /\ i \notin unlisted'
        /\ todos[i] \in Pipes => Build(todos[i]) \notin Handed'
    BY <1>4, <2>3 DEF Owed, Unarmed, Todo, Build, Pipes
  <2> QED
    BY <1>1, <2>2, <2>3, <2>4 DEF Owed
<1> QED
  BY <1>2, <1>3, <1>4

\* A poll that stays where it is.
LEMMA PageStays ==
  ASSUME Typed, [Next]_vars, NEW t \in Poll, PollOK(t), PageInv(t)
  PROVE  PageInv(t)'
<1>1. SUFFICES ASSUME OnTodos(t)
               PROVE  /\ t.pc \in {"state", "items", "mark"} =>
                            \A i \in DOMAIN todos' : Owed(i)' /\ i \notin t.page => \A j \in t.page : j < i
                      /\ t.pc \in {"items", "mark"} => \A i \in DOMAIN todos' : Owed(i)' => t.at < i
  BY DEF PageInv, OnTodos
<1>2. /\ \A i : Owed(i)' => Owed(i) \/ (i = Len(todos) + 1 /\ i \notin DOMAIN todos)
      /\ Len(todos) \in Nat /\ DOMAIN todos = 1 .. Len(todos)
  BY OwedBefore
<1>3. t.page \subseteq 1 .. Len(todos)
  BY <1>1, <1>2 DEF PollOK, OfSource, OnTodos, Listable
<1>4. t.pc \in {"items", "mark"} => t.at \in 0 .. Len(todos)
  BY <1>1 DEF PollOK, OnTodos
<1>5. \A i : Owed(i) => i \in DOMAIN todos
  BY DEF Owed
<1>6. ASSUME t.pc \in {"state", "items", "mark"}, NEW i \in DOMAIN todos', Owed(i)', i \notin t.page,
             NEW j \in t.page
      PROVE  j < i
  <2>1. CASE Owed(i)
    BY <1>1, <1>5, <1>6, <2>1 DEF PageInv
  <2>2. CASE i = Len(todos) + 1
    BY <1>2, <1>3, <2>2
  <2> QED
    BY <1>2, <1>6, <2>1, <2>2
<1>7. ASSUME t.pc \in {"items", "mark"}, NEW i \in DOMAIN todos', Owed(i)'
      PROVE  t.at < i
  <2>1. CASE Owed(i)
    BY <1>1, <1>5, <1>7, <2>1 DEF PageInv
  <2>2. CASE i = Len(todos) + 1
    BY <1>2, <1>4, <1>7, <2>2
  <2> QED
    BY <1>2, <1>7, <2>1, <2>2
<1> QED
  BY <1>6, <1>7

\* A step that leaves the polls where they are, or at rest, and the cursor too.
LEMMA OwedStays ==
  ASSUME Typed, OwedInv, [Next]_vars,
         cursor'["todos"] # Never =>
             cursor'["todos"] = cursor["todos"] \/ (\A i \in DOMAIN todos' : Owed(i)' => cursor'["todos"] < i),
         \A i \in done' : i \in done \/ ~Owed(i)',
         \A k \in Ticks : tick'[k] = tick[k] \/ (PageInv(tick[k]))'
  PROVE  OwedInv'
<1>1. /\ \A i : Owed(i)' => Owed(i) \/ (i = Len(todos) + 1 /\ i \notin DOMAIN todos)
      /\ Len(todos) \in Nat /\ DOMAIN todos = 1 .. Len(todos)
  BY OwedBefore
<1>2. seen' \subseteq Handed'
  BY HandedGrows DEF OwedInv
<1>3. ASSUME cursor'["todos"] # Never PROVE \A i \in DOMAIN todos' : Owed(i)' => cursor'["todos"] < i
  <2>1. SUFFICES ASSUME cursor'["todos"] = cursor["todos"], NEW i \in DOMAIN todos', Owed(i)'
                 PROVE  cursor'["todos"] < i
    BY <1>3
  <2>2. cursor["todos"] \in Nat /\ cursor["todos"] <= Len(todos)
    BY <1>3, <2>1 DEF Typed, TypeInv, Sources
  <2>3. CASE Owed(i)
    BY <1>3, <2>1, <2>3 DEF OwedInv, Owed
  <2> QED
    BY <1>1, <2>1, <2>2, <2>3
<1>4. \A i \in done' : ~Owed(i)'
  <2> TAKE i \in done'
  <2>1. i \in done => i \in DOMAIN todos /\ ~Owed(i)
    BY DEF Typed, TypeInv, OwedInv
  <2> QED
    BY <1>1, <2>1
<1>5. ASSUME NEW k \in Ticks PROVE PageInv(tick[k])'
  <2>1. SUFFICES ASSUME tick'[k] = tick[k] PROVE PageInv(tick[k])'
    BY DEF OwedInv
  <2>2. tick[k] \in Poll /\ PollOK(tick[k]) /\ PageInv(tick[k])
    BY DEF Typed, TypeInv, OwedInv
  <2>3. PICK t \in Poll : t = tick[k]
    BY <2>2
  <2>4. PageInv(t)'
    BY <2>2, <2>3, PageStays
  <2> QED
    BY <2>1, <2>3, <2>4 DEF PageInv, OnTodos
<1> QED
  BY <1>2, <1>3, <1>4, <1>5 DEF OwedInv

\* What is owed once a listing was cut is on the list.
LEMMA OwedListed ==
  ASSUME Typed, OwedInv, NEW i, Owed(i), Cut("todos"), Owed(i)' PROVE i \in Listed("todos")
<1>1. i \in DOMAIN todos \ done /\ i \notin unlisted'
  BY DEF OwedInv, Owed
<1> QED
  BY <1>1 DEF Cut

\* The poll that is under way takes its step with the to-dos as they were.
LEMMA OwedSame ==
  ASSUME Typed, [Next]_vars, todos' = todos
  PROVE  \A i : Owed(i)' => Owed(i)
BY OwedBefore DEF Owed

LEMMA OutsideOwed ==
  ASSUME Typed, OwedInv,
         \/ RaiseTodo \/ EventHappens \/ PipelineFails \/ (\E i \in 1 .. MaxTodos : HookArrives(i))
         \/ HookStep \/ LaneStep \/ CatchUp \/ Rebaseline \/ Crash \/ UNCHANGED vars
  PROVE  OwedInv'
<1>1. [Next]_vars
  BY DEF Next
<1>2. CASE \/ RaiseTodo \/ EventHappens \/ PipelineFails \/ (\E i \in 1 .. MaxTodos : HookArrives(i))
           \/ HookStep \/ LaneStep \/ UNCHANGED vars
  <2>1. UNCHANGED <<tick, cursor, done>>
    BY <1>2 DEF RaiseTodo, EventHappens, PipelineFails, HookArrives, HookStep, HookWakes, LaneStep,
                Enqueue, vars, gitlabVars, procVars
  <2> QED
    BY <1>1, <2>1, OwedStays
<1>3. CASE CatchUp \/ Rebaseline
  <2>1. UNCHANGED <<tick, done>> /\ (cursor'["todos"] = 0 \/ cursor'["todos"] = Never)
    BY <1>3 DEF CatchUp, Rebaseline, procVars, gitlabVars, Typed, TypeInv, Sources
  <2>2. \A i \in DOMAIN todos' : 0 < i
    BY <1>1, NextTyped DEF Typed, TypeInv
  <2> QED
    BY <1>1, <2>1, <2>2, OwedStays
<1>4. CASE Crash
  <2>1. UNCHANGED <<cursor, done>> /\ \A k \in Ticks : tick'[k] = Idle
    BY <1>4 DEF Crash, gitlabVars
  <2>2. \A k \in Ticks : PageInv(tick[k])'
    BY <2>1 DEF PageInv, OnTodos, Idle
  <2> QED
    BY <1>1, <2>1, <2>2, OwedStays
<1> QED
  BY <1>2, <1>3, <1>4

\* A poll at rest or about to list has nothing in hand.
LEMMA NothingInHand ==
  ASSUME NEW k \in Ticks, tick'[k].pc \in {"idle", "list", "baseline"} PROVE PageInv(tick[k])'
BY DEF PageInv

LEMMA TickOwed ==
  ASSUME Typed, OwedInv, NEW k \in Ticks, TickStep(k)
  PROVE  OwedInv'
<1> DEFINE t == tick[k]
<1>1. /\ [Next]_vars /\ t \in Poll /\ PollOK(t) /\ PageInv(t) /\ tick \in [Ticks -> Poll]
      /\ Len(todos) \in Nat /\ DOMAIN todos = 1 .. Len(todos) /\ done \subseteq DOMAIN todos
  BY DEF Typed, TypeInv, OwedInv, Next
<1>2. todos' = todos
  BY DEF TickStep, PollBegins, List, ReadCursor, Wakes, Marks, Saves, gitlabVars
<1>3. /\ \A i : Owed(i)' => Owed(i) /\ i \in DOMAIN todos
      /\ t.page \subseteq Nat /\ t.at \in Nat
  BY <1>1, <1>2, OwedSame DEF Poll, Owed
<1>4. ASSUME NEW n \in Poll, tick' = [tick EXCEPT ![k] = n], n.pc = "state", n.page = Listed(Plan[n.src]),
             Cut(Plan[n.src])
      PROVE  \A q \in Ticks : tick'[q] = tick[q] \/ (PageInv(tick[q]))'
  <2>1. tick'[k] = n /\ \A q \in Ticks : q # k => tick'[q] = tick[q]
    BY <1>1, <1>4
  <2>2. Plan[n.src] = "todos" => \A i : Owed(i)' => i \in n.page
    BY <1>3, <1>4, OwedListed
  <2>3. PageInv(tick[k])'
    BY <1>1, <1>3, <1>4, <2>1, <2>2 DEF PageInv, OnTodos
  <2> QED
    BY <2>1, <2>3
<1>5. ASSUME NextSource(k), t.pc # "idle"
      PROVE  \A q \in Ticks : tick'[q] = tick[q] \/ (PageInv(tick[q]))'
  BY <1>5, NextSourceOK, NothingInHand
<1>6. CASE PollBegins(k)
  <2> DEFINE n == [Idle EXCEPT !.pc = "state", !.src = 1, !.left = MaxWakes, !.page = Listed(Plan[1])]
  <2>1. tick' = [tick EXCEPT ![k] = n] /\ UNCHANGED <<done, cursor>> /\ Cut(Plan[1])
    BY <1>6 DEF PollBegins, gitlabVars
  <2>2. n = [pc |-> "state", src |-> 1, left |-> MaxWakes, page |-> Listed(Plan[1]), from |-> 0, at |-> 0]
    BY BeginRecord
  <2>3. Listed(Plan[1]) \subseteq Nat /\ MaxWakes \in Nat
    BY ListedOK, Bounds, GitLabPollAssumption
  <2> HIDE DEF n
  <2>4. n \in Poll /\ n.pc = "state" /\ n.src = 1 /\ n.page = Listed(Plan[1])
    BY <2>2, <2>3 DEF Poll
  <2>5. \A q \in Ticks : tick'[q] = tick[q] \/ (PageInv(tick[q]))'
    BY <1>4, <2>1, <2>4
  <2> QED
    BY <1>1, <2>1, <2>5, OwedStays
<1>7. CASE List(k)
  <2>1. t.pc = "list" /\ UNCHANGED <<done, cursor>>
    BY <1>7 DEF List, gitlabVars
  <2>2. CASE NextSource(k)
    BY <1>1, <1>5, <2>1, <2>2, OwedStays
  <2>3. CASE tick' = [tick EXCEPT ![k].pc = "state", ![k].page = Listed(Src(k))] /\ Cut(Src(k))
    <3> DEFINE n == [t EXCEPT !.pc = "state", !.page = Listed(Src(k))]
    <3>1. Listed(Src(k)) \subseteq Nat
      BY <2>1, ListedOK, PageBound
    <3>2. n \in Poll /\ n.pc = "state" /\ n.src = t.src /\ n.page = Listed(Src(k))
      BY <1>1, <3>1 DEF Poll
    <3>3. tick' = [tick EXCEPT ![k] = n]
      BY <1>1, <2>3
    <3> HIDE DEF n
    <3>4. \A q \in Ticks : tick'[q] = tick[q] \/ (PageInv(tick[q]))'
      BY <1>4, <2>3, <3>2, <3>3 DEF Src
    <3> QED
      BY <1>1, <2>1, <3>4, OwedStays
  <2> QED
    BY <1>7, <2>2, <2>3 DEF List
<1>8. CASE ReadCursor(k)
  <2>1. t.pc = "state" /\ UNCHANGED <<done, cursor>>
    BY <1>8 DEF ReadCursor, gitlabVars
  <2>2. CASE NextSource(k)
    BY <1>1, <1>5, <2>1, <2>2, OwedStays
  <2>3. CASE ~NextSource(k)
    <3> DEFINE c == cursor[Src(k)]
               n == AtCursor(k)
    <3>1. tick'[k] = n /\ \A q \in Ticks : q # k => tick'[q] = tick[q]
      BY <1>1, <1>8, <2>3 DEF ReadCursor
    <3>2. PageInv(tick[k])'
      <4>1. CASE c = Never
        <5>1. n.pc = "baseline"
          BY <4>1, AtCursorRecord
        <5> QED
          BY <3>1, <5>1, NothingInHand
      <4>2. CASE c # Never /\ Src(k) # "todos"
        <5>1. n.src = t.src
          BY <4>2, AtCursorRecord
        <5> QED
          BY <3>1, <4>2, <5>1 DEF PageInv, OnTodos, Src
      <4>3. CASE c # Never /\ Src(k) = "todos"
        <5>1. n.at = c /\ n.pc = "items" /\ n.page = {i \in t.page : i > c}
          BY <4>3, AtCursorRecord
        <5>2. \A i : Owed(i)' => c < i
          BY <1>3, <4>3 DEF OwedInv
        <5>3. c \in Nat
          BY <4>3 DEF Typed, TypeInv, Sources
        <5>4. ASSUME NEW i, Owed(i)', i \notin n.page, NEW j \in n.page PROVE j < i
          <6>1. i \notin t.page
            BY <1>1, <1>3, <5>1, <5>2, <5>3, <5>4
          <6> QED
            BY <1>1, <1>3, <2>1, <4>3, <5>1, <5>4, <6>1 DEF PageInv, OnTodos, Src
        <5> QED
          BY <3>1, <5>1, <5>2, <5>4 DEF PageInv
      <4> QED
        BY <4>1, <4>2, <4>3
    <3>3. \A q \in Ticks : tick'[q] = tick[q] \/ (PageInv(tick[q]))'
      BY <3>1, <3>2
    <3> QED
      BY <1>1, <2>1, <3>3, OwedStays
  <2> QED
    BY <2>2, <2>3
<1>9. CASE Wakes(k)
  <2>1. t.pc = "items" /\ Armed(k) # {} /\ UNCHANGED <<done, cursor>>
    BY <1>9 DEF Wakes, gitlabVars
  <2>2. PICK n \in {Past(k), [Past(k) EXCEPT !.left = @ - 1]} : tick' = [tick EXCEPT ![k] = n]
    BY <1>9 DEF Wakes
  <2>3. /\ n.pc \in {"mark", "items"} /\ n.src = t.src /\ n.at = Item(k)
        /\ n.page = {i \in t.page : i > Item(k)}
    BY <2>2, PastOf
  <2>4. tick'[k] = n /\ \A q \in Ticks : q # k => tick'[q] = tick[q]
    BY <1>1, <2>2
  <2>5. Item(k) \in t.page /\ Item(k) \in Nat /\ \A i \in Armed(k) : Item(k) <= i
    BY <2>1, ItemOK
  <2>6. PageInv(tick[k])'
    <3>1. CASE Src(k) # "todos"
      BY <2>3, <2>4, <3>1 DEF PageInv, OnTodos, Src
    <3>2. CASE Src(k) = "todos"
      <4> PICK it \in Nat : it = Item(k)
        BY <2>5
      <4>1. ~Owed(it)'
        <5>1. PICK detail \in BOOLEAN :
                LET key == KeyOf(k, detail)
                IN  IF key \in seen THEN HandsNothing /\ UNCHANGED <<enq, cleared, seen>> ELSE HandsKey(key)
          BY <1>9, WakesHands
        <5>2. KeyOf(k, detail) \in Handed'
          BY <5>1 DEF OwedInv, HandsNothing, HandsKey
        <5>3. \/ KeyOf(k, detail) = Todo(Item(k))
              \/ todos[Item(k)] \in Pipes /\ KeyOf(k, detail) = Build(todos[Item(k)])
          BY <2>1, <3>2, KeyOK
        <5> QED
          BY <1>2, <5>2, <5>3 DEF Owed, Todo, Build, Pipes
      <4>2. ASSUME NEW i, Owed(i)' PROVE Item(k) < i
        <5>1. Owed(i) /\ i \in Nat /\ i # Item(k)
          BY <1>1, <1>3, <4>1, <4>2
        <5>2. CASE i \in t.page
          <6>1. i \in Armed(k)
            BY <5>1, <5>2 DEF Armed, Owed
          <6> QED
            BY <2>5, <5>1, <6>1
        <5>3. CASE i \notin t.page
          BY <1>1, <1>3, <2>1, <2>5, <3>2, <4>2, <5>1, <5>3 DEF PageInv, OnTodos, Src
        <5> QED
          BY <5>2, <5>3
      <4>3. ASSUME NEW i, Owed(i)', i \notin n.page, NEW j \in n.page PROVE j < i
        <5>1. i \notin t.page
          BY <1>1, <1>3, <2>3, <4>2, <4>3
        <5> QED
          BY <1>1, <1>3, <2>1, <2>3, <3>2, <4>3, <5>1 DEF PageInv, OnTodos, Src
      <4> QED
        BY <2>3, <2>4, <4>2, <4>3 DEF PageInv
    <3> QED
      BY <3>1, <3>2
  <2>7. \A q \in Ticks : tick'[q] = tick[q] \/ (PageInv(tick[q]))'
    BY <2>4, <2>6
  <2> QED
    BY <1>1, <2>1, <2>7, OwedStays
<1>10. CASE Marks(k)
  <2>1. t.pc = "mark" /\ UNCHANGED cursor /\ done' \subseteq done \union {t.at}
        /\ tick' = [tick EXCEPT ![k].pc = "items"]
    BY <1>10 DEF Marks
  <2>2. Plan[t.src] = "todos"
    BY <1>1, <2>1 DEF PollOK
  <2>3. ~Owed(t.at)
    BY <1>1, <1>3, <2>1, <2>2 DEF PageInv, OnTodos, Owed
  <2>4. \A i \in done' : i \in done \/ ~Owed(i)'
    BY <1>3, <2>1, <2>3
  <2>5. /\ tick'[k].pc = "items" /\ tick'[k].page = t.page /\ tick'[k].at = t.at
        /\ \A q \in Ticks : q # k => tick'[q] = tick[q]
    BY <1>1, <2>1 DEF Poll
  <2>6. PageInv(tick[k])'
    BY <1>1, <1>2, <1>3, <2>1, <2>2, <2>5 DEF PageInv, OnTodos
  <2>7. \A q \in Ticks : tick'[q] = tick[q] \/ (PageInv(tick[q]))'
    BY <2>5, <2>6
  <2> QED
    BY <1>1, <2>1, <2>4, <2>7, OwedStays
<1>11. CASE Saves(k)
  <2>1. t.pc \in {"baseline", "items"} /\ NextSource(k) /\ UNCHANGED done
    BY <1>11 DEF Saves, gitlabVars
  <2>2. \A q \in Ticks : tick'[q] = tick[q] \/ (PageInv(tick[q]))'
    BY <1>5, <2>1
  <2>3. CASE UNCHANGED cursor
    BY <1>1, <2>1, <2>2, <2>3, OwedStays
  <2>4. CASE Src(k) # "todos"
    <3>1. cursor'["todos"] = cursor["todos"]
      <4>1. cursor' = cursor \/ cursor' = [cursor EXCEPT ![Src(k)] = Reached(k)]
        BY <1>11 DEF Saves
      <4>2. cursor \in [Sources -> Nat] /\ "todos" \in Sources
        BY DEF Typed, TypeInv, Sources
      <4> QED
        BY <2>4, <4>1, <4>2
    <3> QED
      BY <1>1, <2>1, <2>2, <3>1, OwedStays
  <2>5. CASE Src(k) = "todos" /\ ~UNCHANGED cursor
    <3>1. cursor' = [cursor EXCEPT ![Src(k)] = Reached(k)]
      BY <1>11, <2>5 DEF Saves
    <3>2. cursor'["todos"] = Reached(k)
      BY <2>5, <3>1 DEF Typed, TypeInv, Sources
    <3>3. /\ Reached(k) = t.at \/ (Reached(k) \in t.page /\ \A j \in Armed(k) : Reached(k) < j)
          /\ Reached(k) \in Nat
      BY <2>1, ReachedOK
    <3>4. ASSUME NEW i \in DOMAIN todos', Owed(i)' PROVE Reached(k) < i
      <4>1. Owed(i) /\ i \in DOMAIN todos
        BY <1>3, <3>4
      <4>2. CASE t.pc = "items" /\ Reached(k) = t.at
        BY <1>1, <2>5, <4>1, <4>2 DEF PageInv, OnTodos, Src
      <4>3. CASE t.pc = "items" /\ Reached(k) \in t.page /\ i \in t.page
        <5>1. i \in Armed(k) /\ i # Reached(k)
          BY <1>1, <2>5, <3>3, <4>1, <4>3 DEF Armed, Owed, PageInv, OnTodos, Src
        <5> QED
          BY <1>1, <2>5, <3>3, <4>1, <4>3, <5>1 DEF PageInv, OnTodos, Src
      <4>4. CASE t.pc = "items" /\ Reached(k) \in t.page /\ i \notin t.page
        BY <1>1, <2>5, <4>1, <4>4 DEF PageInv, OnTodos, Src
      <4>5. CASE t.pc = "baseline"
        <5>1. Reached(k) = t.at
          BY <1>1, <3>3, <4>5 DEF PollOK
        <5> DEFINE m == Max({base["todos"], t.at})
        <5>2. base' = [base EXCEPT !["todos"] = m]
          BY <1>11, <2>5, <4>5 DEF Saves
        <5>3. base \in [Sources -> Nat] /\ base["todos"] \in Nat /\ "todos" \in Sources
          BY DEF Typed, TypeInv, Sources
        <5>4. {base["todos"], t.at} \subseteq 0 .. base["todos"] + t.at
          BY <1>3, <5>3
        <5>5. t.at <= m /\ m \in Nat
          BY <1>3, <5>3, <5>4, GreatestOf
        <5> HIDE DEF m
        <5>6. m < i
          BY <3>4, <5>2, <5>3 DEF Owed
        <5> QED
          BY <1>1, <1>3, <4>1, <5>1, <5>5, <5>6
      <4> QED
        BY <2>1, <3>3, <4>2, <4>3, <4>4, <4>5
    <3> QED
      BY <1>1, <2>1, <2>2, <3>2, <3>4, OwedStays
  <2> QED
    BY <2>3, <2>4, <2>5
<1> QED
  BY <1>6, <1>7, <1>8, <1>9, <1>10, <1>11 DEF TickStep

\* The to-do cursor passes nothing over that an agent should see, save what a listing was
\* cut above: for any budget and page, any number of polls at once, deaths of the process
\* and refused requests.
THEOREM CursorPassesNothing == Spec => []NothingPassedOver
<1>1. Init => Typed /\ OwedInv
  <2>1. Init => OwedInv
    BY DEF Init, OwedInv, Handed, PageInv, OnTodos, Idle, Sources
  <2> QED
    BY <2>1, InitTyped
<1>2. Typed /\ OwedInv /\ [Next]_vars => (Typed /\ OwedInv)'
  <2>1. Typed /\ OwedInv /\ [Next]_vars => OwedInv'
    BY OutsideOwed, TickOwed DEF Next
  <2> QED
    BY <2>1, NextTyped
<1>3. Typed /\ OwedInv => NothingPassedOver
  <2> SUFFICES ASSUME Typed, OwedInv, NEW i \in PassedOver, i \notin unlisted PROVE FALSE
    BY DEF NothingPassedOver
  <2>1. cursor["todos"] # Never /\ Owed(i) /\ i <= cursor["todos"]
    BY DEF PassedOver, Owed
  <2>2. cursor["todos"] \in Nat /\ i \in Nat /\ i \in DOMAIN todos
    BY <2>1 DEF Typed, TypeInv, Sources, Owed
  <2>3. cursor["todos"] < i
    BY <2>1, <2>2 DEF OwedInv
  <2> QED
    BY <2>1, <2>2, <2>3
<1> QED
  BY <1>1, <1>2, <1>3, PTL DEF Spec
-----------------------------------------------------------------------------
(* What is acknowledged stays quiet.                                        *)

\* An assignment that is done was seen if a poll still has it in hand, and so was the one a
\* poll is about to mark.
AckPoll(t) ==
    OnTodos(t) =>
        /\ t.pc \in {"state", "items", "mark"} =>
              \A i \in done : i \in t.page /\ todos[i] = Assigned => Todo(i) \in seen
        /\ t.pc = "mark" /\ todos[t.at] = Assigned => Todo(t.at) \in seen
AckInv == ~cleared => \A k \in Ticks : AckPoll(tick[k])

\* Before it is cleared, `seen` only grows while the process lives.
LEMMA SeenGrows ==
  ASSUME [Next]_vars, ~cleared', ~Crash PROVE ~cleared /\ seen \subseteq seen'
<1>1. UNCHANGED <<seen, cleared>> \/ \E key : HandOver(key)
  BY DEF Next, RaiseTodo, EventHappens, PipelineFails, HookArrives, HookStep, HookWakes, LaneStep,
         Enqueue, CatchUp, Rebaseline, TickStep, PollBegins, List, ReadCursor, Wakes, Marks, Saves,
         vars, procVars, histVars
<1>2. CASE UNCHANGED <<seen, cleared>>
  BY <1>2
<1>3. CASE \E key : HandOver(key)
  BY <1>3 DEF HandOver
<1> QED
  BY <1>1, <1>2, <1>3

LEMMA AckStays ==
  ASSUME Typed, [Next]_vars, ~cleared', ~Crash, NEW t \in Poll, PollOK(t), AckPoll(t),
         \A i \in done' : i \in done \/ (todos[i] = Assigned => Todo(i) \in seen)
  PROVE  AckPoll(t)'
<1>1. seen \subseteq seen'
  BY SeenGrows
<1>2. todos \in Seq(Abouts) /\ (todos' = todos \/ \E what \in Abouts : todos' = Append(todos, what))
  BY GitLabGrows DEF Typed, TypeInv
<1>3. \A i \in DOMAIN todos : todos'[i] = todos[i]
  BY <1>2
<1>4. OnTodos(t) => t.page \subseteq DOMAIN todos
  BY DEF OnTodos, PollOK, OfSource, Listable
<1>5. t.pc = "mark" => t.at \in DOMAIN todos
  BY DEF PollOK
<1> QED
  BY <1>1, <1>3, <1>4, <1>5 DEF AckPoll, OnTodos, Todo, Assigned

\* A step of one poll, the others staying where they are.
LEMMA AckOne ==
  ASSUME Typed, AckInv, [Next]_vars, ~Crash,
         \A i \in done' : i \in done \/ (todos[i] = Assigned => Todo(i) \in seen),
         \A q \in Ticks : tick'[q] = tick[q] \/ (~cleared' => (AckPoll(tick[q]))')
  PROVE  AckInv'
<1> SUFFICES ASSUME ~cleared', NEW q \in Ticks PROVE AckPoll(tick[q])'
  BY DEF AckInv
<1>1. SUFFICES ASSUME tick'[q] = tick[q] PROVE AckPoll(tick[q])'
  OBVIOUS
<1>2. ~cleared
  BY SeenGrows
<1>3. PICK t \in Poll : t = tick[q] /\ PollOK(t) /\ AckPoll(t)
  BY <1>2 DEF Typed, TypeInv, AckInv
<1>4. AckPoll(t)'
  BY <1>3, AckStays
<1> QED
  BY <1>1, <1>3, <1>4 DEF AckPoll, OnTodos

LEMMA OutsideAck ==
  ASSUME Typed, AckInv,
         \/ RaiseTodo \/ EventHappens \/ PipelineFails \/ (\E i \in 1 .. MaxTodos : HookArrives(i))
         \/ HookStep \/ LaneStep \/ CatchUp \/ Rebaseline \/ Crash \/ UNCHANGED vars
  PROVE  AckInv'
<1>1. [Next]_vars
  BY DEF Next
<1>2. CASE Crash
  <2>1. \A k \in Ticks : tick'[k] = Idle
    BY <1>2 DEF Crash
  <2> QED
    BY <2>1 DEF AckInv, AckPoll, OnTodos, Idle
<1>3. CASE ~Crash
  <2>1. UNCHANGED <<tick, done>>
    BY <1>3 DEF RaiseTodo, EventHappens, PipelineFails, HookArrives, HookStep, HookWakes, LaneStep,
                Enqueue, CatchUp, Rebaseline, vars, gitlabVars, procVars
  <2> QED
    BY <1>1, <1>3, <2>1, AckOne
<1> QED
  BY <1>2, <1>3

LEMMA NothingToAck ==
  ASSUME NEW k \in Ticks, tick'[k].pc \in {"idle", "list", "baseline"} PROVE AckPoll(tick[k])'
BY DEF AckPoll

LEMMA TickAck ==
  ASSUME Typed, AckInv, NEW k \in Ticks, TickStep(k)
  PROVE  AckInv'
<1> DEFINE t == tick[k]
<1>1. /\ [Next]_vars /\ t \in Poll /\ PollOK(t) /\ tick \in [Ticks -> Poll] /\ (~cleared => AckPoll(t))
      /\ todos' = todos
  BY DEF Typed, TypeInv, AckInv, Next, TickStep, PollBegins, List, ReadCursor, Wakes, Marks, Saves,
         gitlabVars
<1>2. ~Crash \/ \A q \in Ticks : tick'[q] = Idle
  BY DEF Crash
<1>3. CASE Crash
  BY <1>2, <1>3, OutsideAck
<1>4. ASSUME ~Crash, ~cleared' PROVE ~cleared /\ seen \subseteq seen' /\ AckPoll(t)
  BY <1>1, <1>4, SeenGrows
<1>5. ASSUME NEW n \in Poll, tick' = [tick EXCEPT ![k] = n], n.pc = "state", n.page = Listed(Plan[n.src]),
             done' = done
      PROVE  \A q \in Ticks : tick'[q] = tick[q] \/ (AckPoll(tick[q]))'
  <2>1. tick'[k] = n /\ \A q \in Ticks : q # k => tick'[q] = tick[q]
    BY <1>1, <1>5
  <2>2. Plan[n.src] = "todos" => \A i \in done : i \notin n.page
    BY <1>5 DEF Listed, NewestOf
  <2>3. AckPoll(tick[k])'
    BY <1>5, <2>1, <2>2 DEF AckPoll, OnTodos
  <2> QED
    BY <2>1, <2>3
<1>6. ASSUME NextSource(k), t.pc # "idle"
      PROVE  \A q \in Ticks : tick'[q] = tick[q] \/ (AckPoll(tick[q]))'
  BY <1>6, NextSourceOK, NothingToAck
<1>7. CASE PollBegins(k) /\ ~Crash
  <2> DEFINE n == [Idle EXCEPT !.pc = "state", !.src = 1, !.left = MaxWakes, !.page = Listed(Plan[1])]
  <2>1. tick' = [tick EXCEPT ![k] = n] /\ UNCHANGED done
    BY <1>7 DEF PollBegins, gitlabVars
  <2>2. n = [pc |-> "state", src |-> 1, left |-> MaxWakes, page |-> Listed(Plan[1]), from |-> 0, at |-> 0]
    BY BeginRecord
  <2>3. Listed(Plan[1]) \subseteq Nat /\ MaxWakes \in Nat
    BY ListedOK, Bounds, GitLabPollAssumption
  <2> HIDE DEF n
  <2>4. n \in Poll /\ n.pc = "state" /\ n.src = 1 /\ n.page = Listed(Plan[1])
    BY <2>2, <2>3 DEF Poll
  <2>5. \A q \in Ticks : tick'[q] = tick[q] \/ (AckPoll(tick[q]))'
    BY <1>5, <2>1, <2>4
  <2> QED
    BY <1>1, <1>7, <2>1, <2>5, AckOne
<1>8. CASE List(k) /\ ~Crash
  <2>1. t.pc = "list" /\ UNCHANGED done
    BY <1>8 DEF List, gitlabVars
  <2>2. CASE NextSource(k)
    BY <1>1, <1>6, <1>8, <2>1, <2>2, AckOne
  <2>3. CASE tick' = [tick EXCEPT ![k].pc = "state", ![k].page = Listed(Src(k))]
    <3> DEFINE n == [t EXCEPT !.pc = "state", !.page = Listed(Src(k))]
    <3>1. Listed(Src(k)) \subseteq Nat
      BY <2>1, ListedOK, PageBound
    <3>2. n \in Poll /\ n.pc = "state" /\ n.src = t.src /\ n.page = Listed(Src(k))
      BY <1>1, <3>1 DEF Poll
    <3>3. tick' = [tick EXCEPT ![k] = n]
      BY <1>1, <2>3
    <3> HIDE DEF n
    <3>4. \A q \in Ticks : tick'[q] = tick[q] \/ (AckPoll(tick[q]))'
      BY <1>5, <2>1, <3>2, <3>3 DEF Src
    <3> QED
      BY <1>1, <1>8, <2>1, <3>4, AckOne
  <2> QED
    BY <1>8, <2>2, <2>3 DEF List
<1>9. CASE ReadCursor(k) /\ ~Crash
  <2>1. t.pc = "state" /\ UNCHANGED done
    BY <1>9 DEF ReadCursor, gitlabVars
  <2>2. CASE NextSource(k)
    BY <1>1, <1>6, <1>9, <2>1, <2>2, AckOne
  <2>3. CASE ~NextSource(k)
    <3> DEFINE n == AtCursor(k)
    <3>1. tick'[k] = n /\ \A q \in Ticks : q # k => tick'[q] = tick[q]
      BY <1>1, <1>9, <2>3 DEF ReadCursor
    <3>2. n.pc \in {"baseline", "items"} /\ n.src = t.src /\ n.page \subseteq t.page
      <4>1. CASE cursor[Src(k)] = Never
        BY <4>1, AtCursorRecord
      <4>2. CASE cursor[Src(k)] # Never
        BY <4>2, AtCursorRecord
      <4> QED
        BY <4>1, <4>2
    <3>3. ~cleared' => AckPoll(tick[k])'
      BY <1>1, <1>4, <1>9, <2>1, <3>1, <3>2 DEF AckPoll, OnTodos
    <3>4. \A q \in Ticks : tick'[q] = tick[q] \/ (~cleared' => (AckPoll(tick[q]))')
      BY <3>1, <3>3
    <3> QED
      BY <1>1, <1>9, <2>1, <3>4, AckOne
  <2> QED
    BY <2>2, <2>3
<1>10. CASE Wakes(k) /\ ~Crash
  <2>1. t.pc = "items" /\ Armed(k) # {} /\ UNCHANGED done
    BY <1>10 DEF Wakes, gitlabVars
  <2>2. PICK n \in {Past(k), [Past(k) EXCEPT !.left = @ - 1]} : tick' = [tick EXCEPT ![k] = n]
    BY <1>10 DEF Wakes
  <2>3. /\ n.pc \in {"mark", "items"} /\ n.src = t.src /\ n.at = Item(k)
        /\ n.page \subseteq t.page
    BY <2>2, PastOf
  <2>4. tick'[k] = n /\ \A q \in Ticks : q # k => tick'[q] = tick[q]
    BY <1>1, <2>2
  <2>5. Src(k) = "todos" /\ todos[Item(k)] = Assigned /\ ~cleared' => Todo(Item(k)) \in seen'
    <3>1. SUFFICES ASSUME Src(k) = "todos", todos[Item(k)] = Assigned, ~cleared' PROVE Todo(Item(k)) \in seen'
      OBVIOUS
    <3>2. \A detail \in BOOLEAN : KeyOf(k, detail) = Todo(Item(k))
      BY <2>1, <3>1, KeyOK DEF Assigned, Pipes
    <3>3. Todo(Item(k)) \in seen \/ HandOver(Todo(Item(k)))
      BY <1>10, <3>2 DEF Wakes
    <3> QED
      BY <1>4, <1>10, <3>1, <3>3 DEF HandOver
  <2>6. ~cleared' => AckPoll(tick[k])'
    <3> PICK it : it = Item(k)
      OBVIOUS
    <3>1. Src(k) = "todos" /\ todos[it] = Assigned /\ ~cleared' => Todo(it) \in seen'
      BY <2>5
    <3> QED
      BY <1>1, <1>4, <1>10, <2>1, <2>3, <2>4, <3>1 DEF AckPoll, OnTodos, Src, Todo, Assigned
  <2>7. \A q \in Ticks : tick'[q] = tick[q] \/ (~cleared' => (AckPoll(tick[q]))')
    BY <2>4, <2>6
  <2> QED
    BY <1>1, <1>10, <2>1, <2>7, AckOne
<1>11. CASE Marks(k) /\ ~Crash
  <2>1. t.pc = "mark" /\ done' \subseteq done \union {t.at} /\ UNCHANGED <<seen, cleared>>
        /\ tick' = [tick EXCEPT ![k].pc = "items"]
    BY <1>11 DEF Marks
  <2>2. Plan[t.src] = "todos"
    BY <1>1, <2>1 DEF PollOK
  <2>3. /\ tick'[k].pc = "items" /\ tick'[k].page = t.page
        /\ \A q \in Ticks : q # k => tick'[q] = tick[q]
    BY <1>1, <2>1 DEF Poll
  <2>4. CASE cleared'
    BY <2>4 DEF AckInv
  <2>5. CASE ~cleared'
    <3>1. todos[t.at] = Assigned => Todo(t.at) \in seen
      BY <1>4, <1>11, <2>1, <2>2, <2>5 DEF AckPoll, OnTodos
    <3>2. \A i \in done' : i \in done \/ (todos[i] = Assigned => Todo(i) \in seen)
      BY <2>1, <3>1
    <3>3. AckPoll(tick[k])'
      BY <1>1, <1>4, <1>11, <2>1, <2>2, <2>3, <2>5, <3>2 DEF AckPoll, OnTodos
    <3>4. \A q \in Ticks : tick'[q] = tick[q] \/ (AckPoll(tick[q]))'
      BY <2>3, <3>3
    <3> QED
      BY <1>1, <1>11, <3>2, <3>4, AckOne
  <2> QED
    BY <2>4, <2>5
<1>12. CASE Saves(k) /\ ~Crash
  <2>1. t.pc \in {"baseline", "items"} /\ NextSource(k) /\ UNCHANGED done
    BY <1>12 DEF Saves, gitlabVars
  <2> QED
    BY <1>1, <1>6, <1>12, <2>1, AckOne
<1> QED
  BY <1>3, <1>7, <1>8, <1>9, <1>10, <1>11, <1>12 DEF TickStep

\* An assignment whose to-do is marked as done is never handed over again: not by a poll
\* that listed it before, not after a restart.
THEOREM DoneStaysQuiet == Spec => AcknowledgedStaysQuiet
<1>1. Init => Typed /\ AckInv
  <2>1. Init => AckInv
    BY DEF Init, AckInv, AckPoll, OnTodos, Idle
  <2> QED
    BY <2>1, InitTyped
<1>2. Typed /\ AckInv /\ [Next]_vars => (Typed /\ AckInv)'
  <2>1. Typed /\ AckInv /\ [Next]_vars => AckInv'
    BY OutsideAck, TickAck DEF Next
  <2> QED
    BY <2>1, NextTyped
<1>3. Typed /\ AckInv /\ [Next]_vars =>
        [~cleared' => \A i \in done : todos[i] = Assigned /\ Todo(i) \in enq' => Todo(i) \in enq]_vars
  <2> SUFFICES ASSUME Typed, AckInv, [Next]_vars, ~cleared', NEW i \in done, todos[i] = Assigned,
                      Todo(i) \in enq', Todo(i) \notin enq
               PROVE  FALSE
    OBVIOUS
  <2>1. \/ enq' \subseteq enq
        \/ HookStep
        \/ \E k \in Ticks : Wakes(k)
    BY DEF Next, RaiseTodo, EventHappens, PipelineFails, HookArrives, LaneStep, Enqueue, CatchUp,
           Rebaseline, Crash, TickStep, PollBegins, List, ReadCursor, Marks, Saves, vars, procVars
  <2>2. CASE HookStep
    <3>1. PICK j \in 1 .. MaxTodos : HandsKey(Hook(j))
      BY <2>2, HookHands
    <3> QED
      BY <3>1 DEF HandsKey, HandOver, Hook, Todo
  <2>3. CASE \E k \in Ticks : Wakes(k)
    <3>1. PICK k \in Ticks : Wakes(k)
      BY <2>3
    <3>2. PICK detail \in BOOLEAN :
            LET key == KeyOf(k, detail)
            IN  IF key \in seen THEN HandsNothing /\ UNCHANGED <<enq, cleared, seen>> ELSE HandsKey(key)
      BY <3>1, WakesHands
    <3>3. KeyOf(k, detail) = Todo(i) /\ Todo(i) \notin seen /\ ~cleared
      BY <3>2 DEF HandsKey, HandOver
    <3>4. tick[k].pc = "items" /\ Armed(k) # {}
      BY <3>1, WakesHands
    <3>5. Src(k) = "todos" /\ Todo(Item(k)) = Todo(i)
      BY <3>3, <3>4, KeyOK DEF Todo, Build
    <3>6. i = Item(k) /\ Item(k) \in tick[k].page
      BY <3>4, <3>5, ItemOK DEF Todo
    <3> QED
      BY <3>3, <3>4, <3>5, <3>6 DEF AckInv, AckPoll, OnTodos, Src
  <2> QED
    BY <2>1, <2>2, <2>3
<1> QED
  BY <1>1, <1>2, <1>3, PTL DEF Spec, AcknowledgedStaysQuiet
-----------------------------------------------------------------------------
(* A baseline wakes nobody.                                                 *)

\* While the operator has asked for nothing: before the baseline nothing was handed over and
\* no poll is past it; after, the cursor and what a poll has in hand lie above it.
QuietPoll(t) ==
    OnTodos(t) /\ t.pc \in {"items", "mark"} =>
        /\ cursor["todos"] # Never /\ base["todos"] <= t.at
        /\ \A i \in t.page : base["todos"] < i
QuietInv ==
    (orders = 0 /\ ~crossed) =>
        /\ \A i \in 1 .. base["todos"] : Todo(i) \notin Handed
        /\ cursor["todos"] = Never => base["todos"] = 0 /\ \A i : Todo(i) \notin Handed
        /\ cursor["todos"] # Never => base["todos"] <= cursor["todos"]
        /\ \A k \in Ticks : QuietPoll(tick[k])

\* The operator's orders and a baseline under a running poll are not forgotten.
LEMMA OrdersGrow ==
  ASSUME Typed, [Next]_vars, orders' = 0, ~crossed'
  PROVE  orders = 0 /\ ~crossed /\ ~CatchUp /\ ~Rebaseline
<1>1. orders \in Nat
  BY DEF Typed, TypeInv
<1>2. orders' = orders \/ orders' = orders + 1
  BY DEF Next, RaiseTodo, EventHappens, PipelineFails, HookArrives, HookStep, HookWakes, LaneStep,
         Enqueue, CatchUp, Rebaseline, Order, Crash, TickStep, PollBegins, List, ReadCursor, Wakes,
         Marks, Saves, vars, histVars
<1>3. CatchUp \/ Rebaseline => orders' = orders + 1
  BY DEF CatchUp, Rebaseline, Order
<1>4. crossed' = crossed \/ (\E i \in 1 .. MaxTodos : HookArrives(i)) \/ \E k \in Ticks : Saves(k)
  BY DEF Next, RaiseTodo, EventHappens, PipelineFails, HookStep, HookWakes, LaneStep,
         Enqueue, CatchUp, Rebaseline, Crash, TickStep, PollBegins, List, ReadCursor, Wakes,
         Marks, vars, histVars
<1>5. ASSUME NEW i \in 1 .. MaxTodos, HookArrives(i) PROVE ~crossed
  BY <1>5, Zenon DEF HookArrives
<1>6. ASSUME NEW k \in Ticks, Saves(k) PROVE ~crossed
  BY <1>6, Zenon DEF Saves
<1>7. ~crossed
  BY <1>4, <1>5, <1>6
<1> QED
  BY <1>1, <1>2, <1>3, <1>7

\* A step that moves neither cursor nor baseline, hands over nothing below it, and leaves the
\* polls in order.
LEMMA QuietStays ==
  ASSUME Typed, QuietInv, [Next]_vars,
         cursor'["todos"] = cursor["todos"], base'["todos"] = base["todos"],
         \/ HandsNothing
         \/ \E key : /\ HandsKey(key)
                     /\ \A i : key = Todo(i) => /\ orders = 0 /\ ~crossed => cursor["todos"] # Never
                                                /\ i \notin 1 .. base["todos"],
         \A k \in Ticks : tick'[k] = tick[k] \/ (orders' = 0 /\ ~crossed' => (QuietPoll(tick[k]))')
  PROVE  QuietInv'
<1> SUFFICES ASSUME orders' = 0, ~crossed'
             PROVE  /\ \A i \in 1 .. base["todos"] : Todo(i) \notin Handed'
                    /\ cursor["todos"] = Never => base["todos"] = 0 /\ \A i : Todo(i) \notin Handed'
                    /\ cursor["todos"] # Never => base["todos"] <= cursor["todos"]
                    /\ \A k \in Ticks : QuietPoll(tick[k])'
  BY DEF QuietInv, Todo, Never
<1>1. /\ orders = 0 /\ ~crossed
      /\ \A i \in 1 .. base["todos"] : Todo(i) \notin Handed
      /\ cursor["todos"] = Never => base["todos"] = 0 /\ \A i : Todo(i) \notin Handed
      /\ cursor["todos"] # Never => base["todos"] <= cursor["todos"]
      /\ \A k \in Ticks : QuietPoll(tick[k])
  BY OrdersGrow DEF QuietInv
<1>2. \A i \in 1 .. base["todos"] : Todo(i) \notin Handed'
  BY <1>1 DEF HandsNothing, HandsKey
<1>3. cursor["todos"] = Never => \A i : Todo(i) \notin Handed'
  BY <1>1 DEF HandsNothing, HandsKey
<1>4. ASSUME NEW k \in Ticks PROVE QuietPoll(tick[k])'
  BY <1>1 DEF QuietPoll, OnTodos, Never
<1> QED
  BY <1>1, <1>2, <1>3, <1>4

LEMMA NothingQuiet ==
  ASSUME NEW k \in Ticks, tick'[k].pc \in {"idle", "list", "state", "baseline"} PROVE QuietPoll(tick[k])'
BY DEF QuietPoll

LEMMA OutsideQuiet ==
  ASSUME Typed, QuietInv,
         \/ RaiseTodo \/ EventHappens \/ PipelineFails \/ (\E i \in 1 .. MaxTodos : HookArrives(i))
         \/ HookStep \/ LaneStep \/ CatchUp \/ Rebaseline \/ Crash \/ UNCHANGED vars
  PROVE  QuietInv'
<1>1. [Next]_vars
  BY DEF Next
<1>2. CASE CatchUp \/ Rebaseline
  BY <1>1, <1>2, OrdersGrow DEF QuietInv
<1>3. CASE \/ RaiseTodo \/ EventHappens \/ PipelineFails \/ (\E i \in 1 .. MaxTodos : HookArrives(i))
           \/ LaneStep \/ UNCHANGED vars
  <2>1. UNCHANGED <<tick, cursor, base>>
    BY <1>3 DEF RaiseTodo, EventHappens, PipelineFails, HookArrives, LaneStep, Enqueue, vars, procVars,
                histVars
  <2>2. HandsNothing
    BY <1>3, HandedNever
  <2> QED
    BY <1>1, <2>1, <2>2, QuietStays
<1>4. CASE HookStep
  <2>1. UNCHANGED <<tick, cursor, base>>
    BY <1>4 DEF HookStep, HookWakes
  <2>2. PICK i \in 1 .. MaxTodos : HandsKey(Hook(i))
    BY <1>4, HookHands
  <2>3. \A j : Hook(i) # Todo(j)
    BY DEF Hook, Todo
  <2> QED
    BY <1>1, <2>1, <2>2, <2>3, QuietStays
<1>5. CASE Crash
  <2>1. UNCHANGED <<cursor, base>> /\ \A k \in Ticks : tick'[k] = Idle
    BY <1>5 DEF Crash
  <2>2. \A k \in Ticks : QuietPoll(tick[k])'
    BY <2>1, NothingQuiet DEF Idle
  <2>3. HandsNothing
    BY <1>5, HandedNever
  <2> QED
    BY <1>1, <2>1, <2>2, <2>3, QuietStays
<1> QED
  BY <1>2, <1>3, <1>4, <1>5

LEMMA TickQuiet ==
  ASSUME Typed, QuietInv, NEW k \in Ticks, TickStep(k)
  PROVE  QuietInv'
<1> DEFINE t == tick[k]
<1>1. /\ [Next]_vars /\ t \in Poll /\ PollOK(t) /\ tick \in [Ticks -> Poll]
      /\ cursor \in [Sources -> Nat] /\ base \in [Sources -> Nat] /\ "todos" \in Sources
      /\ t.page \subseteq Nat /\ t.at \in Nat
  BY DEF Typed, TypeInv, Next, Poll, Sources
<1>2. ASSUME orders' = 0, ~crossed'
      PROVE  /\ \A i \in 1 .. base["todos"] : Todo(i) \notin Handed
             /\ cursor["todos"] = Never => base["todos"] = 0 /\ \A i : Todo(i) \notin Handed
             /\ cursor["todos"] # Never => base["todos"] <= cursor["todos"]
             /\ \A q \in Ticks : QuietPoll(tick[q])
  BY <1>1, <1>2, OrdersGrow DEF QuietInv
<1>3. ASSUME NextSource(k), t.pc # "idle"
      PROVE  \A q \in Ticks : tick'[q] = tick[q] \/ (QuietPoll(tick[q]))'
  BY <1>3, NextSourceOK, NothingQuiet
<1>4. CASE PollBegins(k) \/ List(k)
  <2>1. UNCHANGED <<cursor, base>> /\ HandsNothing
    BY <1>4, HandedNever DEF PollBegins, List, histVars
  <2>2. CASE NextSource(k) /\ t.pc # "idle"
    BY <1>1, <1>3, <2>1, <2>2, QuietStays
  <2>3. CASE ~(NextSource(k) /\ t.pc # "idle")
    <3>1. tick'[k].pc = "state" /\ \A q \in Ticks : q # k => tick'[q] = tick[q]
      BY <1>1, <1>4, <2>3 DEF PollBegins, List, Idle, Poll
    <3>2. \A q \in Ticks : tick'[q] = tick[q] \/ (QuietPoll(tick[q]))'
      BY <3>1, NothingQuiet
    <3> QED
      BY <1>1, <2>1, <3>2, QuietStays
  <2> QED
    BY <2>2, <2>3
<1>5. CASE ReadCursor(k)
  <2>1. t.pc = "state" /\ UNCHANGED <<cursor, base>> /\ HandsNothing
    BY <1>5, HandedNever DEF ReadCursor
  <2>2. CASE NextSource(k)
    BY <1>1, <1>3, <2>1, <2>2, QuietStays
  <2>3. CASE ~NextSource(k)
    <3> DEFINE c == cursor[Src(k)]
               n == AtCursor(k)
    <3>1. tick'[k] = n /\ \A q \in Ticks : q # k => tick'[q] = tick[q]
      BY <1>1, <1>5, <2>3 DEF ReadCursor
    <3>2. orders' = 0 /\ ~crossed' => QuietPoll(tick[k])'
      <4>1. CASE c = Never
        <5>1. n.pc = "baseline"
          BY <4>1, AtCursorRecord
        <5> QED
          BY <3>1, <5>1, NothingQuiet
      <4>2. CASE c # Never /\ Src(k) # "todos"
        <5>1. n.src = t.src
          BY <4>2, AtCursorRecord
        <5> QED
          BY <3>1, <4>2, <5>1 DEF QuietPoll, OnTodos, Src
      <4>3. CASE c # Never /\ Src(k) = "todos"
        <5>1. n.at = c /\ n.pc = "items" /\ n.page = {i \in t.page : i > c}
          BY <4>3, AtCursorRecord
        <5>2. c \in Nat /\ base["todos"] \in Nat
          BY <1>1, <4>3
        <5>3. orders' = 0 /\ ~crossed' => /\ base["todos"] <= c
                                          /\ \A i \in n.page : base["todos"] < i
          BY <1>1, <1>2, <4>3, <5>1, <5>2
        <5> QED
          BY <2>1, <3>1, <4>3, <5>1, <5>3 DEF QuietPoll, Never
      <4> QED
        BY <4>1, <4>2, <4>3
    <3>3. \A q \in Ticks : tick'[q] = tick[q] \/ (orders' = 0 /\ ~crossed' => (QuietPoll(tick[q]))')
      BY <3>1, <3>2
    <3> QED
      BY <1>1, <2>1, <3>3, QuietStays
  <2> QED
    BY <2>2, <2>3
<1>6. CASE Wakes(k)
  <2>1. /\ t.pc = "items" /\ Armed(k) # {}
        /\ UNCHANGED <<cursor, base, orders, crossed>>
    BY <1>6 DEF Wakes
  <2>2. PICK n \in {Past(k), [Past(k) EXCEPT !.left = @ - 1]} : tick' = [tick EXCEPT ![k] = n]
    BY <1>6 DEF Wakes
  <2>3. /\ n.pc \in {"mark", "items"} /\ n.src = t.src /\ n.at = Item(k)
        /\ n.page \subseteq t.page
    BY <2>2, PastOf
  <2>4. tick'[k] = n /\ \A q \in Ticks : q # k => tick'[q] = tick[q]
    BY <1>1, <2>2
  <2>5. Item(k) \in t.page /\ Item(k) \in Nat
    BY <2>1, ItemOK
  <2>6. orders = 0 /\ ~crossed /\ Src(k) = "todos" =>
            cursor["todos"] # Never /\ base["todos"] < Item(k) /\ \A i \in t.page : base["todos"] < i
    BY <2>1, <2>5 DEF QuietInv, QuietPoll, OnTodos, Src
  <2>7. orders' = 0 /\ ~crossed' => QuietPoll(tick[k])'
    <3> PICK it \in Nat : it = Item(k)
      BY <2>5
    <3> QED
      BY <1>1, <2>1, <2>3, <2>4, <2>6 DEF QuietPoll, OnTodos, Src, Never
  <2>8. \A q \in Ticks : tick'[q] = tick[q] \/ (orders' = 0 /\ ~crossed' => (QuietPoll(tick[q]))')
    BY <2>4, <2>7
  <2>9. PICK detail \in BOOLEAN :
          LET key == KeyOf(k, detail)
          IN  IF key \in seen THEN HandsNothing /\ UNCHANGED <<enq, cleared, seen>> ELSE HandsKey(key)
    BY <1>6, WakesHands
  <2>10. CASE HandsNothing
    BY <1>1, <2>1, <2>8, <2>10, QuietStays
  <2>11. CASE orders = 0 /\ ~crossed /\ HandsKey(KeyOf(k, detail))
    <3>1. \A i : KeyOf(k, detail) = Todo(i) => Src(k) = "todos" /\ i = Item(k)
      BY <2>1, KeyOK DEF Todo, Build
    <3>2. \A i : KeyOf(k, detail) = Todo(i) => cursor["todos"] # Never /\ i \notin 1 .. base["todos"]
      BY <1>1, <2>5, <2>6, <2>11, <3>1
    <3> QED
      BY <1>1, <2>1, <2>8, <2>11, <3>2, QuietStays
  <2>12. CASE ~(orders = 0 /\ ~crossed)
    BY <2>1, <2>12 DEF QuietInv
  <2> QED
    BY <2>9, <2>10, <2>11, <2>12
<1>7. CASE Marks(k)
  <2>1. t.pc = "mark" /\ UNCHANGED <<cursor, base>> /\ HandsNothing
        /\ tick' = [tick EXCEPT ![k].pc = "items"]
    BY <1>7, HandedNever DEF Marks
  <2>2. /\ tick'[k].pc = "items" /\ tick'[k].page = t.page /\ tick'[k].at = t.at /\ tick'[k].src = t.src
        /\ \A q \in Ticks : q # k => tick'[q] = tick[q]
    BY <1>1, <2>1 DEF Poll
  <2>3. orders' = 0 /\ ~crossed' => QuietPoll(tick[k])'
    BY <1>2, <2>1, <2>2 DEF QuietPoll, OnTodos, Never
  <2>4. \A q \in Ticks : tick'[q] = tick[q] \/ (orders' = 0 /\ ~crossed' => (QuietPoll(tick[q]))')
    BY <2>2, <2>3
  <2> QED
    BY <1>1, <2>1, <2>4, QuietStays
<1>8. CASE Saves(k)
  <2>1. t.pc \in {"baseline", "items"} /\ NextSource(k) /\ HandsNothing
    BY <1>8, HandedNever DEF Saves
  <2>2. \A q \in Ticks : tick'[q] = tick[q] \/ (QuietPoll(tick[q]))'
    BY <1>3, <2>1
  <2>3. CASE UNCHANGED <<cursor, base>>
    BY <1>1, <2>1, <2>2, <2>3, QuietStays
  <2> DEFINE m == Max({base[Src(k)], t.at})
             r == Reached(k)
  <2>4. /\ cursor' = cursor \/ cursor' = [cursor EXCEPT ![Src(k)] = r]
        /\ base' = base \/ base' = [base EXCEPT ![Src(k)] = m]
    BY <1>8 DEF Saves
  <2>5. CASE Src(k) # "todos"
    <3> HIDE DEF m, r
    <3>1. cursor'["todos"] = cursor["todos"] /\ base'["todos"] = base["todos"]
      BY <1>1, <2>4, <2>5
    <3> QED
      BY <1>1, <2>1, <2>2, <3>1, QuietStays
  <2>6. CASE Src(k) = "todos" /\ t.pc = "items" /\ ~UNCHANGED <<cursor, base>>
    <3>1. base' = base /\ cursor' = [cursor EXCEPT !["todos"] = r]
      BY <1>8, <2>6 DEF Saves
    <3>2. r \in Nat /\ t.at <= r /\ cursor'["todos"] = r
      BY <1>1, <2>6, <3>1, ReachedOK
    <3>3. r # Never
      <4>1. t.at \in 0 .. Len(todos) /\ t.page \subseteq 0 .. Len(todos) /\ (r = t.at \/ r \in t.page)
        BY <1>1, <2>6, PageBound, ReachedOK DEF PollOK, Src
      <4>2. Len(todos) \in Nat /\ Len(todos) <= MaxTodos /\ MaxTodos < Never
        BY Bounds DEF Typed, TypeInv
      <4> QED
        BY <3>2, <4>1, <4>2, Bounds
    <3>4. ASSUME orders' = 0, ~crossed' PROVE base["todos"] <= r
      BY <1>1, <1>2, <2>6, <3>2, <3>4 DEF QuietPoll, OnTodos, Src
    <3> HIDE DEF r
    <3>5. ASSUME orders' = 0, ~crossed', NEW q \in Ticks PROVE QuietPoll(tick[q])'
      BY <1>2, <2>2, <3>1, <3>2, <3>3, <3>5 DEF QuietPoll, OnTodos, Never
    <3> QED
      BY <1>2, <2>1, <3>1, <3>2, <3>3, <3>4, <3>5 DEF QuietInv, HandsNothing, Todo, Never
  <2>7. CASE Src(k) = "todos" /\ t.pc = "baseline" /\ ~UNCHANGED <<cursor, base>>
    <3> SUFFICES ASSUME orders' = 0, ~crossed' PROVE QuietInv'
      BY DEF QuietInv
    <3>1. cursor["todos"] = Never
      BY <1>8, <2>7, Zenon DEF Saves
    <3>2. base["todos"] = 0 /\ \A i : Todo(i) \notin Handed'
      BY <1>2, <2>1, <3>1 DEF HandsNothing
    <3>3. /\ cursor' = [cursor EXCEPT !["todos"] = r]
          /\ base' = [base EXCEPT !["todos"] = m]
      BY <1>8, <2>7 DEF Saves
    <3>4. r = t.at
      <4>1. t.page = {} /\ (r = t.at \/ r \in t.page)
        BY <1>1, <2>7, ReachedOK DEF PollOK
      <4> QED
        BY <4>1
    <3>5. m = t.at
      <4>1. {base[Src(k)], t.at} \subseteq 0 .. t.at
        BY <1>1, <2>7, <3>2
      <4>2. m \in {base[Src(k)], t.at} /\ \A y \in {base[Src(k)], t.at} : y <= m
        BY <1>1, <4>1, GreatestOf
      <4> QED
        BY <1>1, <2>7, <3>2, <4>2
    <3>6. t.at # Never
      BY <1>1, <2>7, Bounds DEF PollOK, Src, Typed, TypeInv
    <3> HIDE DEF m, r
    <3>7. cursor'["todos"] = t.at /\ base'["todos"] = t.at
      BY <1>1, <3>3, <3>4, <3>5
    <3>8. ASSUME NEW q \in Ticks PROVE QuietPoll(tick[q])'
      BY <1>2, <2>2, <3>1, <3>8 DEF QuietPoll, OnTodos
    <3> QED
      BY <1>1, <3>2, <3>6, <3>7, <3>8 DEF QuietInv, Todo, Never
  <2> QED
    BY <2>1, <2>3, <2>5, <2>6, <2>7
<1> QED
  BY <1>4, <1>5, <1>6, <1>7, <1>8 DEF TickStep

\* Arming the to-dos wakes nobody for what was there already, unless the operator has asked
\* for it since or re-baselined under a running poll.
THEOREM ArmingIsQuiet == Spec => []BaselineWakesNobody
<1>1. Init => Typed /\ QuietInv
  <2>1. Init => QuietInv
    BY DEF Init, QuietInv, Handed, QuietPoll, OnTodos, Idle, Sources
  <2> QED
    BY <2>1, InitTyped
<1>2. Typed /\ QuietInv /\ [Next]_vars => (Typed /\ QuietInv)'
  <2>1. Typed /\ QuietInv /\ [Next]_vars => QuietInv'
    BY OutsideQuiet, TickQuiet DEF Next
  <2> QED
    BY <2>1, NextTyped
<1>3. QuietInv => BaselineWakesNobody
  BY DEF QuietInv, BaselineWakesNobody
<1> QED
  BY <1>1, <1>2, <1>3, PTL DEF Spec
====
