--------------------------- MODULE FlowTimerProofs ---------------------------
(***************************************************************************)
(* Proofs about FlowTimer, for any number of calls, ticks, intervals and    *)
(* mishaps: as long as no timer is armed afresh under a tick, a flow has    *)
(* one interval, the one its entry stands for, and as long as no tick fires *)
(* before the one before has decided, one timed run at most; as long as     *)
(* calls do not overlap, its document tells whether it ticks.               *)
(***************************************************************************)
EXTENDS FlowTimer, FiniteSetTheorems, TLAPS

FlowDoc == [exists : BOOLEAN, enabled : BOOLEAN, armed : BOOLEAN,
            interval : Intervals \union {NoTimer}]
Info == [interval : Intervals, running : BOOLEAN, failures : Nat]

TimerTyped ==
    /\ flow \in FlowDoc
    /\ entry \in Entries \union {0} /\ timers \subseteq Entries
    /\ info \in [Entries -> Info]
    /\ tick \in [Ticks -> [pc : TickPc, id : Entries \union {0}]]
    /\ replaced \in BOOLEAN /\ crowded \in BOOLEAN

\* Ticks that have an entry in hand: before their run, or in it.
Deciding == {"read"} \union Saw
Holding  == Deciding \union {"run"}

\* A tick that has an entry in hand has the one that is armed, if any is.
InHand == \A t \in Ticks : tick[t].pc \in Holding =>
             tick[t].id \in Entries /\ (entry = 0 \/ tick[t].id = entry)

\* It is alone, and its run is marked on the entry.
Single == /\ \A t \in Ticks : tick[t].pc = "run" => info[tick[t].id].running
          /\ \A t, u \in Ticks : tick[t].pc \in Holding /\ tick[u].pc \in Holding => t = u

TickInv == InHand /\ (~crowded => Single)

TimerInv == TimerTyped /\ SoleTimer /\ (~replaced => TickInv)

\* What arm() calls have in hand.
ArmTyped == arm \in [Arms -> [pc : ArmPc, mode : Modes, every : Intervals]]
-----------------------------------------------------------------------------
LEMMA ZeroIsNoEntry == 0 \notin Entries
  BY DEF Entries

LEMMA FreshIsSpare == Spare # {} => Fresh \in Spare /\ Fresh \in Entries
  BY DEF Fresh, Spare

LEMMA BlankIsInfo == Blank \in Info
  BY FlowTimerAssumption DEF Blank, Info

\* What Keep() leaves: the objects still referred to, as they were given.
LEMMA KeepTyped == ASSUME NEW objects \in [Entries -> Info], Keep(objects)
                   PROVE  /\ info' \in [Entries -> Info]
                          /\ \A t \in Ticks : tick'[t].id \in Entries => info'[tick'[t].id] = objects[tick'[t].id]
  BY BlankIsInfo DEF Keep

LEMMA InitInv == Init => TimerInv
<1> SUFFICES ASSUME Init PROVE TimerInv
  OBVIOUS
<1>1. TimerTyped
  BY BlankIsInfo, FlowTimerAssumption DEF Init, TimerTyped, FlowDoc, Idle, TickPc, Blank
<1>2. SoleTimer /\ TickInv
  BY DEF Init, SoleTimer, TickInv, InHand, Single, Idle, Holding, Deciding, Saw
<1> QED
  BY <1>1, <1>2 DEF TimerInv

\* A step that touches neither the timers nor the ticks.
LEMMA Unconcerned ==
  ASSUME TimerInv, UNCHANGED <<entry, timers, info, tick, replaced, crowded>>,
         flow' \in FlowDoc
  PROVE  TimerInv'
  BY DEF TimerInv, TimerTyped, SoleTimer, TickInv, InHand, Single

LEMMA PersistTyped ==
  ASSUME TimerTyped, NEW value \in BOOLEAN, Persist(value)
  PROVE  flow' \in FlowDoc
  BY DEF TimerTyped, FlowDoc, Persist

LEMMA ArmActsStep == ASSUME TimerInv, ArmTyped, NEW a \in Arms, ArmActs(a) PROVE TimerInv'
<1>1. CASE UNCHANGED <<entry, timers, info, replaced>>
  BY <1>1, Unconcerned DEF ArmActs, TimerInv, TimerTyped
<1>2. CASE /\ Spare # {} /\ entry' = Fresh /\ timers' = (timers \ {entry}) \union {entry'}
           /\ Keep([info EXCEPT ![entry'] = [Blank EXCEPT !.interval = arm[a].every]])
           /\ replaced' = (replaced \/ InFlight # {})
  <2> DEFINE objects == [info EXCEPT ![entry'] = [Blank EXCEPT !.interval = arm[a].every]]
  <2>1. entry' \in Entries /\ timers' \subseteq Entries /\ entry' # 0
    BY <1>2, FreshIsSpare, ZeroIsNoEntry DEF TimerInv, TimerTyped
  <2>2. objects \in [Entries -> Info]
    BY <2>1, BlankIsInfo DEF TimerInv, TimerTyped, Info, ArmTyped
  <2>3. info' \in [Entries -> Info]
    BY <1>2, <2>2, KeepTyped
  <2>4. TimerTyped'
    BY <1>2, <2>1, <2>3 DEF ArmActs, TimerInv, TimerTyped, InFlight
  <2>5. ASSUME ~replaced' PROVE SoleTimer' /\ TickInv'
    <3>1. ~replaced /\ \A t \in Ticks : tick[t].pc = "idle"
      BY <1>2, <2>5 DEF InFlight
    <3>2. timers' = {entry'}
      BY <1>2, <3>1 DEF TimerInv, SoleTimer
    <3>3. tick' = tick
      BY DEF ArmActs
    <3> QED
      BY <2>1, <3>1, <3>2, <3>3 DEF SoleTimer, TickInv, InHand, Single, Holding, Deciding, Saw
  <2> QED
    BY <2>4, <2>5 DEF TimerInv, SoleTimer
<1> QED
  BY <1>1, <1>2 DEF ArmActs

LEMMA TickFiresStep ==
  ASSUME TimerInv, NEW t \in Ticks, NEW id \in Entries, TickFires(t, id) PROVE TimerInv'
<1>1. /\ entry # 0 /\ ~info[entry].running /\ tick[t].pc = "idle"
      /\ tick' = [tick EXCEPT ![t] = [pc |-> "read", id |-> entry]]
      /\ crowded' = (crowded \/ Undecided # {})
      /\ UNCHANGED <<flow, entry, timers, info, replaced>>
  BY DEF TickFires
<1>2. TimerTyped'
  BY <1>1 DEF TimerInv, TimerTyped, TickPc
<1>3. SoleTimer'
  BY <1>1 DEF TimerInv, SoleTimer
<1>4. ASSUME ~replaced PROVE TickInv'
  <2>1. InHand /\ (~crowded => Single)
    BY <1>4 DEF TimerInv, TickInv
  <2>2. /\ tick'[t] = [pc |-> "read", id |-> entry]
        /\ \A u \in Ticks : u # t => tick'[u] = tick[u]
    BY <1>1 DEF TimerInv, TimerTyped
  <2>3. "read" \in Holding /\ "read" # "run" /\ entry \in Entries
    BY <1>1 DEF Holding, Deciding, TimerInv, TimerTyped
  <2>4. InHand'
    BY <1>1, <2>1, <2>2, <2>3 DEF InHand
  <2>5. ASSUME ~crowded' PROVE Single'
    <3>1. Single /\ \A u \in Ticks : tick[u].pc \notin Deciding
      BY <1>1, <2>1, <2>5 DEF Undecided, Deciding
    <3>2. \A u \in Ticks : tick[u].pc \notin Holding
      BY <1>1, <2>1, <3>1 DEF InHand, Single, Holding
    <3>3. \A u \in Ticks : tick'[u].pc \in Holding \/ tick'[u].pc = "run" => u = t
      BY <2>2, <3>2 DEF Holding
    <3> QED
      BY <2>2, <2>3, <3>3 DEF Single
  <2> QED
    BY <2>4, <2>5 DEF TickInv
<1> QED
  BY <1>1, <1>2, <1>3, <1>4 DEF TimerInv

\* A step in which no tick takes an entry in hand, the timer is left alone or stands down,
\* and the run that is left is still marked.
LEMMA LettingGo ==
  ASSUME TimerInv, UNCHANGED <<flow, replaced>>,
         \/ UNCHANGED <<entry, timers>>
         \/ entry' = 0 /\ timers' \subseteq timers /\ (~replaced => timers' = {}),
         tick' \in [Ticks -> [pc : TickPc, id : Entries \union {0}]],
         \A u \in Ticks : tick'[u] = tick[u] \/ tick'[u].pc \notin Holding,
         NEW objects \in [Entries -> Info], Keep(objects),
         crowded' \in BOOLEAN, ~crowded' => ~crowded \/ \A u \in Ticks : tick'[u].pc = "idle",
         ~replaced /\ ~crowded => \A u \in Ticks : tick'[u].pc = "run" => objects[tick'[u].id].running
  PROVE  TimerInv'
<1>1. info' \in [Entries -> Info]
      /\ \A u \in Ticks : tick'[u].id \in Entries => info'[tick'[u].id] = objects[tick'[u].id]
  BY KeepTyped
<1>2. TimerTyped'
  BY <1>1 DEF TimerInv, TimerTyped
<1>3. SoleTimer'
  BY DEF TimerInv, SoleTimer
<1>4. ASSUME ~replaced PROVE TickInv'
  <2>1. InHand /\ (~crowded => Single)
    BY <1>4 DEF TimerInv, TickInv
  <2>2. \A u \in Ticks : tick'[u].pc \in Holding => tick'[u] = tick[u]
    OBVIOUS
  <2>3. "run" \in Holding /\ "idle" \notin Holding
    BY DEF Holding, Deciding, Saw
  <2>4. InHand'
    BY <2>1, <2>2 DEF InHand
  <2>5. CASE \A u \in Ticks : tick'[u].pc = "idle"
    BY <2>3, <2>4, <2>5 DEF TickInv, Single
  <2>6. CASE ~crowded
    <3>1. \A u \in Ticks : tick'[u].pc = "run" => info'[tick'[u].id].running
      BY <1>1, <1>4, <2>3, <2>4, <2>6 DEF InHand
    <3>2. \A u, v \in Ticks : tick'[u].pc \in Holding /\ tick'[v].pc \in Holding => u = v
      BY <2>1, <2>2, <2>6 DEF Single
    <3> QED
      BY <2>4, <3>1, <3>2 DEF TickInv, Single
  <2> QED
    BY <2>4, <2>5, <2>6 DEF TickInv
<1> QED
  BY <1>2, <1>3, <1>4 DEF TimerInv

\* A crowd is over only when no tick is under way.
LEMMA CrowdEnds ==
  ASSUME TimerTyped, NEW t, NEW pc, NEW id, TickTo(t, pc, id)
  PROVE  /\ crowded' \in BOOLEAN
         /\ ~crowded' => ~crowded \/ \A u \in Ticks : tick'[u].pc = "idle"
<1>1. crowded' = (crowded /\ \E u \in Ticks : tick'[u].pc # "idle")
  BY DEF TickTo
<1>2. crowded' \in BOOLEAN
  BY <1>1
<1>3. ~crowded' => ~crowded \/ \A u \in Ticks : tick'[u].pc = "idle"
  BY <1>1, Zenon
<1> QED
  BY <1>2, <1>3

LEMMA TickReadsStep == ASSUME TimerInv, NEW t \in Ticks, TickReads(t) PROVE TimerInv'
<1>1. /\ tick[t].pc = "read"
      /\ UNCHANGED <<flow, entry, timers, info, replaced, crowded>>
      /\ \E saw \in Saw : tick' = [tick EXCEPT ![t].pc = saw]
  BY DEF TickReads, Saw, marks
<1>2. PICK saw \in Saw : tick' = [tick EXCEPT ![t].pc = saw]
  BY <1>1
<1>3. TimerTyped'
  BY <1>1, <1>2 DEF TimerInv, TimerTyped, TickPc
<1>4. SoleTimer'
  BY <1>1 DEF TimerInv, SoleTimer
<1>5. ASSUME ~replaced PROVE TickInv'
  <2>1. TickInv
    BY <1>5 DEF TimerInv
  <2>2. /\ tick'[t].pc = saw /\ tick'[t].id = tick[t].id
        /\ \A u \in Ticks : u # t => tick'[u] = tick[u]
    BY <1>2 DEF TimerInv, TimerTyped
  <2>3. tick[t].pc \in Holding /\ tick[t].pc \in Deciding /\ saw # "run"
    BY <1>1, <1>2 DEF Holding, Deciding, Saw
  <2> QED
    BY <1>1, <2>1, <2>2, <2>3 DEF TickInv, InHand, Single
<1> QED
  BY <1>1, <1>3, <1>4, <1>5 DEF TimerInv

LEMMA TickActsStep == ASSUME TimerInv, NEW t \in Ticks, TickActs(t) PROVE TimerInv'
<1>1. /\ info \in [Entries -> Info]
      /\ tick \in [Ticks -> [pc : TickPc, id : Entries \union {0}]]
  BY DEF TimerInv, TimerTyped
<1>2. tick[t].pc \in Holding /\ UNCHANGED <<flow, replaced>>
  BY DEF TickActs, Holding, Deciding, Saw
<1>3. CASE tick[t].pc = "gone" \/ tick[t].pc = "disabled"
  <2>1. \E pc \in {"persist", "idle"} : TickTo(t, pc, 0)
    BY <1>3 DEF TickActs
  <2>2. /\ tick' \in [Ticks -> [pc : TickPc, id : Entries \union {0}]]
        /\ \A u \in Ticks : tick'[u] = tick[u] \/ tick'[u].pc \notin Holding
    BY <1>1, <2>1 DEF TickTo, TickPc, Holding, Deciding, Saw
  <2>2a. /\ crowded' \in BOOLEAN
         /\ ~crowded' => ~crowded \/ \A u \in Ticks : tick'[u].pc = "idle"
    BY <2>1, CrowdEnds DEF TimerInv
  <2>3. Keep(info)
    BY <1>3 DEF TickActs
  <2>4. entry' = 0 /\ timers' \subseteq timers /\ (~replaced => timers' = {})
    <3>1. CASE tick[t].pc = "gone"
      BY <3>1 DEF TickActs, Forget, TimerInv, SoleTimer
    <3>2. CASE tick[t].pc = "disabled"
      <4>1. entry' = 0 /\ timers' = timers \ {tick[t].id}
        BY <3>2 DEF TickActs
      <4> QED
        BY <1>2, <4>1 DEF TimerInv, SoleTimer, TickInv, InHand
    <3> QED
      BY <1>3, <3>1, <3>2
  <2>5. ~replaced /\ ~crowded => \A u \in Ticks : tick'[u].pc = "run" => info[tick'[u].id].running
    BY <2>2 DEF TimerInv, TickInv, Single, Holding
  <2> QED
    BY <1>1, <1>2, <2>2, <2>2a, <2>3, <2>4, <2>5, LettingGo
<1>4. CASE tick[t].pc = "fine"
  <2> DEFINE objects == [info EXCEPT ![tick[t].id].running = TRUE]
  <2>1. TickTo(t, "run", tick[t].id) /\ UNCHANGED <<entry, timers>> /\ Keep(objects)
    BY <1>4 DEF TickActs
  <2>2. objects \in [Entries -> Info]
    BY <1>1 DEF Info
  <2>3. /\ tick'[t] = [pc |-> "run", id |-> tick[t].id] /\ crowded' = crowded
        /\ \A u \in Ticks : u # t => tick'[u] = tick[u]
        /\ tick' \in [Ticks -> [pc : TickPc, id : Entries \union {0}]]
    BY <1>1, <2>1 DEF TickTo, TickPc, TimerInv, TimerTyped
  <2>4. info' \in [Entries -> Info]
        /\ \A u \in Ticks : tick'[u].id \in Entries => info'[tick'[u].id] = objects[tick'[u].id]
    BY <2>1, <2>2, KeepTyped
  <2>5. TimerTyped' /\ SoleTimer'
    BY <1>2, <2>1, <2>3, <2>4 DEF TimerInv, TimerTyped, SoleTimer
  <2>6. ASSUME ~replaced PROVE TickInv'
    <3>1. InHand /\ (~crowded => Single)
      BY <2>6 DEF TimerInv, TickInv
    <3>2. tick[t].id \in Entries /\ (entry = 0 \/ tick[t].id = entry)
      BY <1>2, <3>1 DEF InHand
    <3>3. info'[tick[t].id].running
      BY <1>1, <2>3, <2>4, <3>2 DEF Info
    <3>4. InHand'
      BY <2>1, <2>3, <3>1, <3>2 DEF InHand
    <3>5. ASSUME ~crowded PROVE Single'
      <4>1. \A u \in Ticks : u # t => tick[u].pc \notin Holding
        BY <1>2, <3>1, <3>5 DEF Single
      <4>2. \A u \in Ticks : tick'[u].pc \in Holding \/ tick'[u].pc = "run" => u = t
        BY <2>3, <4>1 DEF Holding
      <4> QED
        BY <2>3, <3>3, <4>2 DEF Single
    <3> QED
      BY <2>3, <3>4, <3>5 DEF TickInv
  <2> QED
    BY <1>2, <2>5, <2>6 DEF TimerInv
<1> QED
  BY <1>3, <1>4 DEF TickActs

LEMMA RunEndsStep == ASSUME TimerInv, NEW t \in Ticks, RunEnds(t) PROVE TimerInv'
<1>1. /\ info \in [Entries -> Info] /\ tick[t].pc = "run"
      /\ tick \in [Ticks -> [pc : TickPc, id : Entries \union {0}]]
  BY DEF RunEnds, TimerInv, TimerTyped
<1>2. PICK failures \in {0, info[tick[t].id].failures + 1} :
         /\ \/ TickTo(t, "idle", 0) /\ UNCHANGED <<entry, timers>>
            \/ TickTo(t, "persist", 0) /\ Forget
         /\ Keep(Counted(t, failures))
  BY DEF RunEnds
<1>3. /\ tick' \in [Ticks -> [pc : TickPc, id : Entries \union {0}]]
      /\ \A u \in Ticks : u # t => tick'[u] = tick[u]
      /\ tick'[t].pc \notin Holding
  BY <1>1, <1>2 DEF TickTo, TickPc, Holding, Deciding, Saw
<1>3a. /\ crowded' \in BOOLEAN
       /\ ~crowded' => ~crowded \/ \A u \in Ticks : tick'[u].pc = "idle"
  BY <1>2, CrowdEnds DEF TimerInv
<1>4. Counted(t, failures) \in [Entries -> Info]
  <2>1. CASE tick[t].id \in Entries
    <3>1. info[tick[t].id] \in Info
      BY <1>1, <2>1
    <3>2. failures \in Nat
      BY <1>2, <3>1 DEF Info
    <3> QED
      BY <1>1, <3>2 DEF Counted, Info
  <2>2. CASE tick[t].id \notin Entries
    BY <1>1, <2>2 DEF Counted
  <2> QED
    BY <2>1, <2>2
<1>5. \/ UNCHANGED <<entry, timers>>
      \/ entry' = 0 /\ timers' \subseteq timers /\ (~replaced => timers' = {})
  BY <1>2 DEF Forget, TimerInv, SoleTimer
<1>6. ~replaced /\ ~crowded => \A u \in Ticks : tick'[u].pc # "run"
  BY <1>1, <1>3 DEF TimerInv, TickInv, Single, Holding
<1>7. UNCHANGED <<flow, replaced>>
  BY DEF RunEnds
<1>8. \A u \in Ticks : tick'[u] = tick[u] \/ tick'[u].pc \notin Holding
  BY <1>3
<1> QED
  BY <1>2, <1>3, <1>3a, <1>4, <1>5, <1>6, <1>7, <1>8, LettingGo

\* disarm() by the operator, stopAll().
LEMMA ForgetStep ==
  ASSUME TimerInv, Forget, Keep(info), UNCHANGED <<flow, tick, replaced, crowded>> PROVE TimerInv'
<1>1. entry' = 0 /\ timers' \subseteq timers /\ (~replaced => timers' = {})
  BY DEF Forget, TimerInv, SoleTimer
<1>2. ~replaced /\ ~crowded => \A u \in Ticks : tick'[u].pc = "run" => info[tick'[u].id].running
  BY DEF TimerInv, TickInv, Single
<1>3. /\ info \in [Entries -> Info]
      /\ tick' \in [Ticks -> [pc : TickPc, id : Entries \union {0}]]
      /\ \A u \in Ticks : tick'[u] = tick[u]
      /\ crowded' \in BOOLEAN /\ (~crowded' => ~crowded)
  BY DEF TimerInv, TimerTyped
<1> QED
  BY <1>1, <1>2, <1>3, LettingGo

LEMMA TickPersistsStep == ASSUME TimerInv, NEW t \in Ticks, TickPersists(t) PROVE TimerInv'
<1>1. /\ tick[t].pc = "persist" /\ Persist(FALSE) /\ TickTo(t, "idle", 0)
      /\ UNCHANGED <<entry, timers, info, replaced>>
  BY DEF TickPersists
<1>2. TimerTyped /\ TimerTyped'
  BY <1>1, PersistTyped DEF TickTo, TimerInv, TimerTyped, TickPc
<1>3. SoleTimer'
  BY <1>1 DEF TimerInv, SoleTimer
<1>4. /\ tick'[t].pc = "idle" /\ tick'[t].pc \notin Holding
      /\ \A u \in Ticks : u # t => tick'[u] = tick[u]
      /\ ~crowded' => ~crowded \/ \A u \in Ticks : tick'[u].pc = "idle"
  BY <1>1, <1>2 DEF TickTo, TimerTyped, Holding, Deciding, Saw
<1>5. InHand => InHand'
  BY <1>1, <1>4 DEF InHand
<1>6. Single => Single'
  BY <1>1, <1>4 DEF Single, Holding
<1>7. (\A u \in Ticks : tick'[u].pc = "idle") => Single'
  BY DEF Single, Holding, Deciding, Saw
<1>8. TickInv => TickInv'
  BY <1>4, <1>5, <1>6, <1>7 DEF TickInv
<1> QED
  BY <1>1, <1>2, <1>3, <1>8 DEF TimerInv

LEMMA CrashStep == ASSUME TimerInv, Crash PROVE TimerInv'
<1>1. /\ entry' = 0 /\ timers' = {} /\ info' = [id \in Entries |-> Blank]
      /\ tick' = [t \in Ticks |-> Idle] /\ replaced' = FALSE /\ crowded' = FALSE
      /\ flow' = flow
  BY DEF Crash
<1>2. TimerTyped'
  BY <1>1, BlankIsInfo DEF TimerInv, TimerTyped, Idle, TickPc
<1>3. SoleTimer' /\ TickInv'
  BY <1>1 DEF SoleTimer, TickInv, InHand, Single, Idle, Holding, Deciding, Saw
<1> QED
  BY <1>2, <1>3 DEF TimerInv

LEMMA OperatorStep == ASSUME TimerInv, Operator PROVE TimerInv'
<1>1. CASE OperatorDisarms
  BY <1>1, ForgetStep DEF OperatorDisarms, marks
<1>2. CASE OperatorArms \/ EnterMaintenance \/ LeaveMaintenance
  BY <1>2, Unconcerned DEF OperatorArms, EnterMaintenance, LeaveMaintenance, callVars, histVars, marks,
                           TimerInv, TimerTyped
<1>3. CASE OperatorSaves \/ OperatorDeletes
  <2>1. UNCHANGED <<entry, timers, info, tick, replaced, crowded>>
    BY <1>3 DEF OperatorSaves, OperatorDeletes, callVars, marks
  <2>2. flow' \in FlowDoc
    BY <1>3 DEF OperatorSaves, OperatorDeletes, TimerInv, TimerTyped, FlowDoc
  <2> QED
    BY <2>1, <2>2, Unconcerned
<1> QED
  BY <1>1, <1>2, <1>3 DEF Operator

LEMMA NoArmTyped == NoArm \in [pc : ArmPc, mode : Modes, every : Intervals]
  BY FlowTimerAssumption DEF NoArm, ArmPc, Modes, Blank

LEMMA ArmStays == ASSUME TimerInv, ArmTyped, [Next]_vars PROVE ArmTyped'
<1>1. \A a \in Arms : arm[a] \in [pc : ArmPc, mode : Modes, every : Intervals]
  BY DEF ArmTyped
<1>2. ASSUME NEW mode \in Modes, StartArm(mode) PROVE ArmTyped'
  BY <1>2, NoArmTyped DEF StartArm, ArmTyped, ArmPc
<1>3. ASSUME NEW a \in Arms, ArmStep(a) PROVE ArmTyped'
  <2>2. CASE ArmReads(a)
    <3> DEFINE found == [arm[a] EXCEPT !.pc = "act", !.every = flow.interval]
    <3>1. HasTimer => found \in [pc : ArmPc, mode : Modes, every : Intervals]
      BY <1>1 DEF ArmPc, HasTimer, TimerInv, TimerTyped, FlowDoc
    <3>2. arm' = [arm EXCEPT ![a] = NoArm] \/ (HasTimer /\ arm' = [arm EXCEPT ![a] = found])
      BY <2>2 DEF ArmReads, ArmTyped
    <3> HIDE DEF found
    <3> QED
      BY <3>1, <3>2, NoArmTyped DEF ArmTyped
  <2>3. CASE ArmActs(a)
    BY <1>1, <2>3, NoArmTyped DEF ArmActs, WritesIf, ArmTyped, ArmPc
  <2>4. CASE ArmPersists(a)
    BY <1>1, <2>4, NoArmTyped DEF ArmPersists, ArmTyped
  <2> QED
    BY <1>3, <2>2, <2>3, <2>4 DEF ArmStep
<1>4. ASSUME NEW t \in Ticks, TickStep(t) \/ \E id \in Entries : TickFires(t, id) PROVE ArmTyped'
  <2>1. arm' = arm
    BY <1>4 DEF TickStep, TickFires, TickReads, TickActs, RunEnds, TickPersists
  <2> QED
    BY <2>1 DEF ArmTyped
<1>5. CASE Operator
  <2>1. arm' = arm \/ \E mode \in Modes : StartArm(mode)
    BY <1>5 DEF Operator, OperatorArms, OperatorDisarms, OperatorSaves, OperatorDeletes,
                EnterMaintenance, LeaveMaintenance, callVars, Modes
  <2> QED
    BY <1>2, <2>1 DEF ArmTyped
<1>6. CASE NodeArms \/ Restore
  <2>1. arm' = arm \/ \E mode \in Modes : StartArm(mode)
    BY <1>6 DEF NodeArms, Restore, Modes
  <2> QED
    BY <1>2, <2>1 DEF ArmTyped
<1>7. CASE DisarmPersists \/ StopAll \/ UNCHANGED vars
  <2>1. arm' = arm
    BY <1>7 DEF DisarmPersists, StopAll, vars, callVars
  <2> QED
    BY <2>1 DEF ArmTyped
<1>8. CASE Crash
  BY <1>8, NoArmTyped DEF Crash, ArmTyped
<1> QED
  BY <1>3, <1>4, <1>5, <1>6, <1>7, <1>8 DEF Next

LEMMA NextInv == TimerInv /\ ArmTyped /\ [Next]_vars => (TimerInv /\ ArmTyped)'
<1> SUFFICES ASSUME TimerInv, ArmTyped, [Next]_vars PROVE TimerInv'
  BY ArmStays
<1>1. ASSUME NEW a \in Arms, ArmStep(a) PROVE TimerInv'
  <2>1. CASE ArmPersists(a)
    <3>1. TimerTyped
      BY DEF TimerInv
    <3>2. Persist(TRUE) /\ UNCHANGED <<entry, timers, info, tick, replaced, crowded>>
      BY <2>1 DEF ArmPersists, marks
    <3> QED
      BY <3>1, <3>2, PersistTyped, Unconcerned
  <2>2. CASE ArmReads(a)
    BY <2>2, Unconcerned DEF ArmReads, TimerInv, TimerTyped
  <2> QED
    BY <1>1, <2>1, <2>2, ArmActsStep DEF ArmStep
<1>2. ASSUME NEW t \in Ticks, TickStep(t) PROVE TimerInv'
  BY <1>2, TickReadsStep, TickActsStep, RunEndsStep, TickPersistsStep DEF TickStep
<1>3. ASSUME NEW t \in Ticks, NEW id \in Entries, TickFires(t, id) PROVE TimerInv'
  BY <1>3, TickFiresStep
<1>4. CASE NodeArms \/ Restore
  BY <1>4, Unconcerned DEF NodeArms, Restore, marks, TimerInv, TimerTyped
<1>5. CASE DisarmPersists
  <2>1. TimerTyped
    BY DEF TimerInv
  <2>2. Persist(FALSE) /\ UNCHANGED <<entry, timers, info, tick, replaced, crowded>>
    BY <1>5 DEF DisarmPersists, marks
  <2> QED
    BY <2>1, <2>2, PersistTyped, Unconcerned
<1>6. CASE StopAll
  BY <1>6, ForgetStep DEF StopAll, callVars, histVars, marks
<1>7. CASE UNCHANGED vars
  BY <1>7, Unconcerned DEF vars, callVars, histVars, marks, TimerInv, TimerTyped
<1> QED
  BY <1>1, <1>2, <1>3, <1>4, <1>5, <1>6, <1>7, OperatorStep, CrashStep DEF Next

LEMMA TimerInvariant == Spec => [](TimerInv /\ ArmTyped)
<1>1. Init => ArmTyped
  BY NoArmTyped DEF Init, ArmTyped
<1> QED
  BY <1>1, InitInv, NextInv, PTL DEF Spec
-----------------------------------------------------------------------------
(* The document and the timer, as long as calls come one at a time.         *)

Idling(a)  == arm[a].pc = "idle"
Resting(t) == tick[t].pc \in {"idle", "run"}

\* A restart leaves nothing under way until restore() has listed the flows.
BootInv == boot = "restoring" =>
    /\ entry = 0 /\ timers = {} /\ op = "none" /\ maint = "off"
    /\ \A a \in Arms : Idling(a)
    /\ \A t \in Ticks : tick[t].pc = "idle"

OneCall ==
    /\ \A a, b \in Arms : Idling(a) \/ Idling(b) \/ a = b
    /\ \A t, u \in Ticks : Resting(t) \/ Resting(u) \/ t = u
    /\ \A a \in Arms, t \in Ticks : Idling(a) \/ Resting(t)
    /\ op # "none" => (\A a \in Arms : Idling(a)) /\ (\A t \in Ticks : Resting(t))

\* What the call that is under way, if any, still owes to the document: each of the two is
\* ahead of the other only in the hands of the call that will bring it along.
Owing ==
    /\ entry # 0 => flow.armed \/ \E a \in Arms : arm[a].pc = "persist"
    /\ flow.enabled /\ flow.armed =>
          \/ entry # 0 \/ op = "persist" \/ nodeless
          \/ \E a \in Arms : arm[a].pc \in {"read", "act"}
          \/ \E t \in Ticks : tick[t].pc = "persist"
    /\ \A a \in Arms : arm[a].pc = "persist" => entry # 0
    /\ \A a \in Arms : arm[a].pc \in {"read", "act"} /\ arm[a].mode = "silent" => flow.armed
    /\ op = "persist" => entry = 0
    /\ \A t \in Ticks : /\ tick[t].pc = "persist" => entry = 0
                        /\ tick[t].pc # "gone"
                        /\ tick[t].pc = "disabled" => ~flow.enabled

InService == boot = "up" /\ maint = "off" /\ flow.exists

FlagInv ==
    /\ disturbed \in BOOLEAN
    /\ BootInv
    /\ ~disturbed => OneCall /\ (InService => Owing)

LEMMA NoCalls == ASSUME Calls = {}
                 PROVE  /\ \A a \in Arms : Idling(a)
                        /\ \A t \in Ticks : Resting(t)
                        /\ op = "none"
<1>1. \A a \in Arms : Idling(a)
  BY DEF Calls, Idling
<1>2. \A t \in Ticks : Resting(t)
  BY DEF Calls, Resting
<1>3. op = "none"
  BY DEF Calls
<1> QED
  BY <1>1, <1>2, <1>3

\* A call that begins, or a request that is served, on its own: no call was under way.
LEMMA Alone == ASSUME FlagInv, Overlap
               PROVE  /\ disturbed' \in BOOLEAN
                      /\ ~disturbed' =>
                            /\ ~disturbed /\ op = "none"
                            /\ \A a \in Arms : Idling(a)
                            /\ \A t \in Ticks : Resting(t)
<1>1. disturbed' = (disturbed \/ Calls # {})
  BY DEF Overlap
<1>2. disturbed' \in BOOLEAN /\ (~disturbed' => ~disturbed /\ Calls = {})
  BY <1>1 DEF FlagInv
<1> QED
  BY <1>2, NoCalls

\* An arming begins while nothing else is under way.
LEMMA ArmBegins ==
  ASSUME ArmTyped, NEW mode \in Modes, StartArm(mode), UNCHANGED <<entry, tick, op>>,
         \A a \in Arms : Idling(a), \A t \in Ticks : Resting(t), op = "none",
         InService' => /\ entry # 0 => flow'.armed
                       /\ mode = "silent" => flow'.armed
  PROVE  OneCall' /\ (InService' => Owing')
<1>1. PICK a \in Arms : arm' = [arm EXCEPT ![a] = [NoArm EXCEPT !.pc = "read", !.mode = mode]]
  BY DEF StartArm
<1>2. /\ arm'[a].pc = "read" /\ arm'[a].mode = mode
      /\ \A b \in Arms : b # a => arm'[b].pc = "idle"
  BY <1>1 DEF ArmTyped, NoArm, Idling
<1>3. \A t \in Ticks : tick'[t].pc \in {"idle", "run"}
  BY DEF Resting
<1> QED
  BY <1>2, <1>3 DEF OneCall, Owing, Idling, Resting, InService

LEMMA ArmReadsFlag == ASSUME FlagInv, ArmTyped, NEW a \in Arms, ArmReads(a) PROVE FlagInv'
<1>1. /\ arm[a].pc = "read"
      /\ Goes \/ disturbed' = TRUE
      /\ UNCHANGED <<flow, entry, timers, tick, op, maint, boot>>
  BY DEF ArmReads, Refuse, modeVars
<1>2. boot # "restoring"
  BY <1>1 DEF FlagInv, BootInv, Idling
<1>3. ASSUME ~disturbed' PROVE ~disturbed /\ OneCall' /\ (InService' => Owing')
  <2>1. /\ ~disturbed
        /\ \/ /\ flow.exists /\ HasTimer /\ nodeless' = nodeless
              /\ arm' = [arm EXCEPT ![a].pc = "act", ![a].every = flow.interval]
           \/ /\ ~(flow.exists /\ HasTimer) /\ arm' = [arm EXCEPT ![a] = NoArm]
              /\ nodeless' = (nodeless \/ (flow.armed /\ ~HasTimer /\ entry = 0))
    BY <1>1, <1>3 DEF ArmReads, Goes, Refuse
  <2>2. /\ \A b \in Arms : b # a => arm'[b] = arm[b]
        /\ \/ arm'[a].pc = "act" /\ arm'[a].mode = arm[a].mode /\ nodeless' = nodeless
           \/ /\ arm'[a].pc = "idle" /\ ~(flow.exists /\ HasTimer)
              /\ nodeless' = (nodeless \/ (flow.armed /\ ~HasTimer /\ entry = 0))
    BY <2>1 DEF ArmTyped, NoArm
  <2>3. OneCall /\ (InService => Owing)
    BY <2>1 DEF FlagInv
  <2>4. OneCall'
    BY <1>1, <2>2, <2>3 DEF OneCall, Idling, Resting
  <2>5. ASSUME InService' PROVE Owing'
    <3>1. flow.exists /\ Owing
      BY <1>1, <2>3, <2>5 DEF InService
    <3> QED
      BY <1>1, <2>2, <3>1 DEF Owing
  <2> QED
    BY <2>1, <2>4, <2>5
<1>4. disturbed' \in BOOLEAN
  BY <1>1 DEF FlagInv, Goes
<1> QED
  BY <1>1, <1>2, <1>3, <1>4 DEF FlagInv, BootInv

LEMMA ArmActsFlag == ASSUME FlagInv, ArmTyped, NEW a \in Arms, ArmActs(a) PROVE FlagInv'
<1>1. /\ arm[a].pc = "act"
      /\ UNCHANGED <<flow, tick, op, maint, boot, disturbed>>
  BY DEF ArmActs, modeVars
<1>2. boot # "restoring"
  BY <1>1 DEF FlagInv, BootInv, Idling
<1>3. /\ entry' # 0
      /\ \/ entry # 0 /\ WritesIf(a, arm[a].mode = "auto")
         \/ WritesIf(a, arm[a].mode # "silent")
  BY FreshIsSpare, ZeroIsNoEntry DEF ArmActs
<1>4. PICK writes \in BOOLEAN : /\ WritesIf(a, writes)
                                /\ ~writes => entry # 0 \/ arm[a].mode = "silent"
  BY <1>3
<1>5. /\ \A b \in Arms : b # a => arm'[b] = arm[b]
      /\ writes => arm'[a].pc = "persist"
      /\ ~writes => arm'[a].pc = "idle"
  BY <1>4 DEF WritesIf, ArmTyped, NoArm
<1>6. ASSUME ~disturbed PROVE OneCall' /\ (InService' => Owing')
  <2>1. /\ OneCall /\ (InService => Owing)
        /\ \A b \in Arms : b # a => Idling(b)
        /\ \A t \in Ticks : Resting(t)
        /\ op = "none"
    BY <1>1, <1>6 DEF FlagInv, OneCall, Idling
  <2>2. OneCall'
    BY <1>1, <1>5, <2>1 DEF OneCall, Idling, Resting
  <2>3. ASSUME InService' PROVE Owing'
    <3>1. Owing
      BY <1>1, <2>1, <2>3 DEF InService
    <3>2. flow.armed \/ writes
      BY <1>1, <1>4, <2>1, <3>1 DEF Owing, Idling
    <3> QED
      BY <1>1, <1>3, <1>5, <2>1, <3>2 DEF Owing, Idling, Resting
  <2> QED
    BY <2>2, <2>3
<1> QED
  BY <1>1, <1>2, <1>6 DEF FlagInv, BootInv

\* The answer of persist(), when it is not refused.
LEMMA Written ==
  ASSUME TimerTyped, NEW value \in BOOLEAN, Persist(value), disturbed \in BOOLEAN
  PROVE  /\ disturbed' \in BOOLEAN
         /\ flow'.exists = flow.exists /\ flow'.enabled = flow.enabled
         /\ ~disturbed' => ~disturbed /\ (flow.exists => flow'.armed = value)
<1>1. CASE Goes /\ flow' = IF flow.exists THEN [flow EXCEPT !.armed = value] ELSE flow
  BY <1>1 DEF Goes, TimerTyped, FlowDoc
<1>2. CASE Refuse /\ UNCHANGED flow
  BY <1>2 DEF Refuse
<1> QED
  BY <1>1, <1>2 DEF Persist

LEMMA ArmPersistsFlag ==
  ASSUME FlagInv, TimerTyped, ArmTyped, NEW a \in Arms, ArmPersists(a) PROVE FlagInv'
<1>1. /\ arm[a].pc = "persist" /\ Persist(TRUE)
      /\ UNCHANGED <<entry, timers, tick, op, maint, boot>>
  BY DEF ArmPersists, modeVars
<1>2. boot # "restoring"
  BY <1>1 DEF FlagInv, BootInv, Idling
<1>3. /\ disturbed' \in BOOLEAN
      /\ flow'.exists = flow.exists /\ flow'.enabled = flow.enabled
      /\ ~disturbed' => ~disturbed /\ (flow.exists => flow'.armed = TRUE)
  BY <1>1, Written DEF FlagInv
<1>4. arm'[a].pc = "idle" /\ \A b \in Arms : b # a => arm'[b] = arm[b]
  BY DEF ArmPersists, ArmTyped, NoArm
<1>5. ASSUME ~disturbed' PROVE OneCall' /\ (InService' => Owing')
  <2>1. OneCall /\ (InService => Owing)
    BY <1>3, <1>5 DEF FlagInv
  <2>2. OneCall'
    BY <1>1, <1>4, <2>1 DEF OneCall, Idling, Resting
  <2>3. ASSUME InService' PROVE Owing'
    <3>1. Owing /\ flow'.armed
      BY <1>1, <1>3, <1>5, <2>1, <2>3 DEF InService
    <3> QED
      BY <1>1, <1>3, <1>4, <3>1 DEF Owing
  <2> QED
    BY <2>2, <2>3
<1> QED
  BY <1>1, <1>2, <1>3, <1>5 DEF FlagInv, BootInv

LEMMA TickFiresFlag ==
  ASSUME FlagInv, TimerTyped, NEW t \in Ticks, NEW id \in Entries, TickFires(t, id)
  PROVE  FlagInv'
<1>1. /\ id \in timers /\ Overlap
      /\ tick' = [tick EXCEPT ![t] = [pc |-> "read", id |-> entry]]
      /\ UNCHANGED <<flow, entry, arm, op, maint, boot, nodeless>>
  BY DEF TickFires, modeVars
<1>2. boot # "restoring"
  BY <1>1 DEF FlagInv, BootInv
<1>3. tick'[t].pc = "read" /\ \A u \in Ticks : u # t => tick'[u] = tick[u]
  BY <1>1 DEF TimerTyped
<1>4. ASSUME ~disturbed' PROVE OneCall' /\ (InService' => Owing')
  <2>1. /\ ~disturbed /\ op = "none"
        /\ \A a \in Arms : Idling(a)
        /\ \A u \in Ticks : Resting(u)
    BY <1>1, <1>4, Alone
  <2>2. OneCall'
    BY <1>1, <1>3, <2>1 DEF OneCall, Idling, Resting
  <2>3. ASSUME InService' PROVE Owing'
    <3>1. Owing
      BY <1>1, <2>1, <2>3 DEF FlagInv, InService
    <3> QED
      BY <1>1, <1>3, <2>1, <3>1 DEF Owing, Idling, Resting
  <2> QED
    BY <2>2, <2>3
<1> QED
  BY <1>1, <1>2, <1>4, Alone DEF FlagInv, BootInv

LEMMA TickReadsFlag ==
  ASSUME FlagInv, TimerTyped, NEW t \in Ticks, TickReads(t) PROVE FlagInv'
<1>1. /\ tick[t].pc = "read"
      /\ \/ Goes /\ tick' = [tick EXCEPT ![t].pc = IF ~flow.exists THEN "gone"
                                            ELSE IF ~flow.enabled THEN "disabled" ELSE "fine"]
         \/ disturbed' = TRUE
      /\ UNCHANGED <<flow, entry, timers, arm, op, maint, boot, nodeless>>
  BY DEF TickReads, Refuse, modeVars, marks
<1>2. boot # "restoring"
  BY <1>1 DEF FlagInv, BootInv
<1>3. ASSUME ~disturbed' PROVE OneCall' /\ (InService' => Owing')
  <2>1. /\ ~disturbed
        /\ tick'[t].pc = IF ~flow.exists THEN "gone"
                         ELSE IF ~flow.enabled THEN "disabled" ELSE "fine"
        /\ \A u \in Ticks : u # t => tick'[u] = tick[u]
    BY <1>1, <1>3 DEF Goes, TimerTyped
  <2>2. OneCall /\ (InService => Owing)
    BY <2>1 DEF FlagInv
  <2>3. OneCall'
    BY <1>1, <2>1, <2>2 DEF OneCall, Idling, Resting
  <2>4. ASSUME InService' PROVE Owing'
    <3>1. flow.exists /\ Owing
      BY <1>1, <2>2, <2>4 DEF InService
    <3> QED
      BY <1>1, <2>1, <3>1 DEF Owing
  <2> QED
    BY <2>3, <2>4
<1>4. disturbed' \in BOOLEAN
  BY <1>1 DEF FlagInv, Goes
<1> QED
  BY <1>1, <1>2, <1>3, <1>4 DEF FlagInv, BootInv

LEMMA TickActsFlag ==
  ASSUME FlagInv, TimerTyped, NEW t \in Ticks, TickActs(t) PROVE FlagInv'
<1>1. UNCHANGED <<flow, arm, op, maint, boot, disturbed, nodeless>>
  BY DEF TickActs, modeVars
<1>2. PICK pc : /\ \E id : TickTo(t, pc, id)
                /\ \/ tick[t].pc = "gone" /\ entry' = 0 /\ pc = "persist"
                   \/ tick[t].pc = "disabled" /\ entry' = 0 /\ pc = "idle"
                   \/ tick[t].pc = "fine" /\ entry' = entry /\ pc = "run"
  BY DEF TickActs, Forget
<1>3. tick'[t].pc = pc /\ \A u \in Ticks : u # t => tick'[u] = tick[u]
  BY <1>2 DEF TickTo, TimerTyped
<1>4. boot # "restoring"
  BY <1>2 DEF FlagInv, BootInv
<1>5. ASSUME ~disturbed PROVE OneCall' /\ (InService' => Owing')
  <2>1. /\ OneCall /\ (InService => Owing)
        /\ \A a \in Arms : Idling(a)
        /\ \A u \in Ticks : u # t => Resting(u)
    BY <1>2, <1>5 DEF FlagInv, OneCall, Resting
  <2>2. OneCall'
    BY <1>1, <1>2, <1>3, <2>1 DEF OneCall, Idling, Resting
  <2>3. ASSUME InService' PROVE Owing'
    <3>1. Owing /\ tick[t].pc # "gone" /\ (tick[t].pc = "disabled" => ~flow.enabled)
      BY <1>1, <2>1, <2>3 DEF InService, Owing
    <3>2. CASE tick[t].pc = "disabled"
      BY <1>1, <1>2, <1>3, <2>1, <3>1, <3>2 DEF Owing, Idling, Resting
    <3>3. CASE tick[t].pc = "fine"
      BY <1>1, <1>2, <1>3, <2>1, <3>1, <3>3 DEF Owing, Idling, Resting
    <3> QED
      BY <1>2, <3>1, <3>2, <3>3
  <2> QED
    BY <2>2, <2>3
<1> QED
  BY <1>1, <1>4, <1>5 DEF FlagInv, BootInv

LEMMA RunEndsFlag ==
  ASSUME FlagInv, TimerTyped, NEW t \in Ticks, RunEnds(t) PROVE FlagInv'
<1>1. tick[t].pc = "run" /\ UNCHANGED <<flow, arm, op, maint, boot, nodeless>>
  BY DEF RunEnds, modeVars
<1>2. \/ TickTo(t, "idle", 0) /\ UNCHANGED <<entry, timers, disturbed>>
      \/ TickTo(t, "persist", 0) /\ entry' = 0 /\ Overlap
  BY DEF RunEnds, Forget
<1>3. boot # "restoring"
  BY <1>1 DEF FlagInv, BootInv
<1>4. CASE TickTo(t, "idle", 0) /\ UNCHANGED <<entry, timers, disturbed>>
  <2>1. tick'[t].pc = "idle" /\ \A u \in Ticks : u # t => tick'[u] = tick[u]
    BY <1>4 DEF TickTo, TimerTyped
  <2>2. OneCall => OneCall'
    BY <1>1, <2>1 DEF OneCall, Idling, Resting
  <2>3. InService' = InService /\ (Owing => Owing')
    BY <1>1, <1>4, <2>1 DEF InService, Owing
  <2> QED
    BY <1>1, <1>3, <1>4, <2>2, <2>3 DEF FlagInv, BootInv
<1>5. CASE TickTo(t, "persist", 0) /\ entry' = 0 /\ Overlap
  <2>1. tick'[t].pc = "persist" /\ \A u \in Ticks : u # t => tick'[u] = tick[u]
    BY <1>5 DEF TickTo, TimerTyped
  <2>2. ASSUME ~disturbed' PROVE OneCall' /\ Owing'
    <3>1. op = "none" /\ (\A a \in Arms : Idling(a)) /\ (\A u \in Ticks : Resting(u))
      BY <1>5, <2>2, Alone
    <3> QED
      BY <1>1, <1>5, <2>1, <3>1 DEF OneCall, Owing, Idling, Resting
  <2> QED
    BY <1>1, <1>3, <1>5, <2>2, Alone DEF FlagInv, BootInv
<1> QED
  BY <1>2, <1>4, <1>5

LEMMA TickPersistsFlag ==
  ASSUME FlagInv, TimerTyped, NEW t \in Ticks, TickPersists(t) PROVE FlagInv'
<1>1. /\ tick[t].pc = "persist" /\ Persist(FALSE)
      /\ UNCHANGED <<entry, timers, arm, op, maint, boot>>
  BY DEF TickPersists, modeVars
<1>2. boot # "restoring"
  BY <1>1 DEF FlagInv, BootInv
<1>3. /\ disturbed' \in BOOLEAN
      /\ flow'.exists = flow.exists /\ flow'.enabled = flow.enabled
      /\ ~disturbed' => ~disturbed /\ (flow.exists => flow'.armed = FALSE)
  BY <1>1, Written DEF FlagInv
<1>4. tick'[t].pc = "idle" /\ \A u \in Ticks : u # t => tick'[u] = tick[u]
  BY DEF TickPersists, TickTo, TimerTyped
<1>5. ASSUME ~disturbed' PROVE OneCall' /\ (InService' => Owing')
  <2>1. OneCall /\ (InService => Owing) /\ \A a \in Arms : Idling(a)
    BY <1>1, <1>3, <1>5 DEF FlagInv, OneCall, Resting
  <2>2. OneCall'
    BY <1>1, <1>4, <2>1 DEF OneCall, Idling, Resting
  <2>3. ASSUME InService' PROVE Owing'
    <3>1. Owing /\ flow'.armed = FALSE /\ entry = 0
      BY <1>1, <1>3, <1>5, <2>1, <2>3 DEF InService, Owing
    <3> QED
      BY <1>1, <1>3, <1>4, <2>1, <3>1 DEF Owing, Idling
  <2> QED
    BY <2>2, <2>3
<1> QED
  BY <1>1, <1>2, <1>3, <1>5 DEF FlagInv, BootInv

\* What arms the flow in a call of its own: its timer node, the operator, an edit.
LEMMA ArmBeginsFlag ==
  ASSUME FlagInv, ArmTyped, Overlap, boot = "up", NEW mode \in Modes, StartArm(mode),
         UNCHANGED <<entry, tick, op, boot, maint>>, flow'.exists = flow.exists,
         flow'.armed = flow.armed, mode = "silent" => flow.armed
  PROVE  FlagInv'
<1>1. ASSUME ~disturbed' PROVE OneCall' /\ (InService' => Owing')
  <2>1. /\ ~disturbed /\ op = "none"
        /\ \A a \in Arms : Idling(a)
        /\ \A t \in Ticks : Resting(t)
    BY <1>1, Alone
  <2>2. InService' => (entry # 0 => flow'.armed) /\ (mode = "silent" => flow'.armed)
    BY <2>1 DEF FlagInv, InService, Owing, Idling
  <2> QED
    BY <2>1, <2>2, ArmBegins
<1> QED
  BY <1>1, Alone DEF FlagInv, BootInv

LEMMA SavesFlag == ASSUME FlagInv, TimerTyped, ArmTyped, OperatorSaves PROVE FlagInv'
<1>1. /\ Overlap /\ boot = "up" /\ UNCHANGED <<entry, tick, op, boot, maint, nodeless>>
      /\ flow'.exists = flow.exists /\ flow'.armed = flow.armed
  BY DEF OperatorSaves, Request, modeVars, marks, TimerTyped, FlowDoc
<1>2. CASE flow.armed /\ StartArm("silent")
  <2>1. "silent" \in Modes
    BY DEF Modes
  <2> QED
    BY <1>1, <1>2, <2>1, ArmBeginsFlag
<1>3. CASE UNCHANGED arm /\ (flow'.enabled => flow.enabled \/ ~flow.armed)
  <2>1. ASSUME ~disturbed' PROVE OneCall' /\ (InService' => Owing')
    <3>1. /\ ~disturbed /\ op = "none"
          /\ \A a \in Arms : Idling(a)
          /\ \A t \in Ticks : Resting(t)
      BY <1>1, <2>1, Alone
    <3>2. OneCall'
      BY <1>1, <1>3, <3>1 DEF OneCall, Idling, Resting
    <3>3. ASSUME InService' PROVE Owing'
      <4>1. Owing
        BY <1>1, <3>1, <3>3 DEF FlagInv, InService
      <4> QED
        BY <1>1, <1>3, <3>1, <4>1 DEF Owing, Idling, Resting
    <3> QED
      BY <3>2, <3>3
  <2> QED
    BY <1>1, <2>1, Alone DEF FlagInv, BootInv
<1> QED
  BY <1>2, <1>3 DEF OperatorSaves, TimerTyped, FlowDoc

LEMMA OperatorFlag == ASSUME FlagInv, TimerTyped, ArmTyped, Operator PROVE FlagInv'
<1>1. CASE OperatorArms
  <2>1. "operator" \in Modes /\ "operator" # "silent"
    BY DEF Modes
  <2> QED
    BY <1>1, <2>1, ArmBeginsFlag DEF OperatorArms, Request, modeVars
<1>2. CASE OperatorDisarms
  <2>1. /\ Overlap /\ boot = "up" /\ entry' = 0 /\ op' = "persist"
        /\ UNCHANGED <<flow, arm, tick, maint, boot>>
    BY <1>2 DEF OperatorDisarms, Request, Forget, modeVars
  <2>2. ASSUME ~disturbed' PROVE OneCall' /\ Owing'
    <3>1. (\A a \in Arms : Idling(a)) /\ (\A t \in Ticks : Resting(t))
      BY <2>1, <2>2, Alone
    <3> QED
      BY <2>1, <3>1 DEF OneCall, Owing, Idling, Resting
  <2> QED
    BY <2>1, <2>2, Alone DEF FlagInv, BootInv
<1>3. CASE OperatorDeletes
  <2>1. /\ boot = "up" /\ flow'.exists = FALSE
        /\ UNCHANGED <<arm, tick, op, boot, disturbed>>
    BY <1>3 DEF OperatorDeletes, Request, callVars, modeVars, TimerTyped, FlowDoc
  <2>2. OneCall => OneCall'
    BY <2>1 DEF OneCall, Idling, Resting
  <2> QED
    BY <2>1, <2>2 DEF FlagInv, BootInv, InService
<1>4. CASE EnterMaintenance \/ LeaveMaintenance
  <2>1. /\ boot' = boot /\ maint' # "off" /\ boot # "restoring"
        /\ UNCHANGED <<arm, tick, op, disturbed>>
    BY <1>4 DEF EnterMaintenance, LeaveMaintenance, Request, callVars, histVars, FlagInv, BootInv
  <2>2. OneCall => OneCall'
    BY <2>1 DEF OneCall, Idling, Resting
  <2> QED
    BY <2>1, <2>2 DEF FlagInv, BootInv, InService
<1> QED
  BY <1>1, <1>2, <1>3, <1>4, SavesFlag DEF Operator

LEMMA DisarmPersistsFlag == ASSUME FlagInv, TimerTyped, DisarmPersists PROVE FlagInv'
<1>1. /\ op = "persist" /\ op' = "none" /\ Persist(FALSE)
      /\ UNCHANGED <<entry, arm, tick, maint, boot>>
  BY DEF DisarmPersists, modeVars
<1>2. boot # "restoring"
  BY <1>1 DEF FlagInv, BootInv
<1>3. /\ disturbed' \in BOOLEAN
      /\ flow'.exists = flow.exists /\ flow'.enabled = flow.enabled
      /\ ~disturbed' => ~disturbed /\ (flow.exists => flow'.armed = FALSE)
  BY <1>1, Written DEF FlagInv
<1>4. ASSUME ~disturbed' PROVE OneCall' /\ (InService' => Owing')
  <2>1. /\ OneCall /\ (InService => Owing)
        /\ (\A a \in Arms : Idling(a)) /\ (\A t \in Ticks : Resting(t))
    BY <1>1, <1>3, <1>4 DEF FlagInv, OneCall
  <2>2. OneCall'
    BY <1>1, <2>1 DEF OneCall, Idling, Resting
  <2>3. ASSUME InService' PROVE Owing'
    <3>1. flow'.armed = FALSE /\ entry = 0
      BY <1>1, <1>3, <1>4, <2>1, <2>3 DEF InService, Owing
    <3> QED
      BY <1>1, <2>1, <3>1 DEF Owing, Idling, Resting
  <2> QED
    BY <2>2, <2>3
<1> QED
  BY <1>1, <1>2, <1>3, <1>4 DEF FlagInv, BootInv

LEMMA StopAllFlag == ASSUME FlagInv, StopAll PROVE FlagInv'
<1>1. /\ maint = "entering" /\ maint' = "on"
      /\ UNCHANGED <<arm, tick, op, boot, disturbed>>
  BY DEF StopAll, callVars, histVars
<1>2. OneCall => OneCall'
  BY <1>1 DEF OneCall, Idling, Resting
<1> QED
  BY <1>1, <1>2 DEF FlagInv, BootInv, InService

LEMMA CrashFlag == ASSUME FlagInv, Crash PROVE FlagInv'
<1>1. /\ entry' = 0 /\ timers' = {} /\ op' = "none" /\ maint' = "off" /\ boot' = "restoring"
      /\ arm' = [a \in Arms |-> NoArm] /\ tick' = [t \in Ticks |-> Idle]
      /\ disturbed' = (disturbed \/ Calls # {})
  BY DEF Crash
<1>2. /\ \A a \in Arms : arm'[a].pc = "idle"
      /\ \A t \in Ticks : tick'[t].pc = "idle"
  BY <1>1 DEF NoArm, Idle
<1>3. BootInv' /\ OneCall' /\ ~InService'
  BY <1>1, <1>2 DEF BootInv, OneCall, InService, Idling, Resting
<1>4. disturbed' \in BOOLEAN
  BY <1>1 DEF FlagInv
<1> QED
  BY <1>3, <1>4 DEF FlagInv

LEMMA RestoreFlag == ASSUME FlagInv, ArmTyped, Restore PROVE FlagInv'
<1>1. /\ boot = "restoring" /\ boot' = "up"
      /\ UNCHANGED <<flow, entry, tick, op, maint>>
      /\ \/ /\ disturbed' = disturbed
            /\ IF flow.exists /\ flow.enabled /\ flow.armed THEN StartArm("silent")
                                                             ELSE UNCHANGED arm
         \/ disturbed' = TRUE
  BY DEF Restore, Goes, Refuse
<1>2. /\ entry = 0 /\ op = "none"
      /\ \A a \in Arms : Idling(a)
      /\ \A t \in Ticks : tick[t].pc = "idle"
  BY <1>1 DEF FlagInv, BootInv
<1>3. ASSUME ~disturbed' PROVE OneCall' /\ (InService' => Owing')
  <2>1. CASE flow.armed /\ StartArm("silent")
    <3>1. "silent" \in Modes
      BY DEF Modes
    <3> QED
      BY <1>1, <1>2, <2>1, <3>1, ArmBegins DEF Resting
  <2>2. CASE ~(flow.exists /\ flow.enabled /\ flow.armed) /\ UNCHANGED arm
    BY <1>1, <1>2, <2>2 DEF OneCall, Owing, InService, Idling, Resting
  <2> QED
    BY <1>1, <1>3, <2>1, <2>2
<1>4. disturbed' \in BOOLEAN
  BY <1>1 DEF FlagInv
<1> QED
  BY <1>1, <1>3, <1>4 DEF FlagInv, BootInv

LEMMA FlagStays == ASSUME FlagInv, TimerTyped, ArmTyped, [Next]_vars PROVE FlagInv'
<1>1. ASSUME NEW a \in Arms, ArmStep(a) PROVE FlagInv'
  BY <1>1, ArmReadsFlag, ArmActsFlag, ArmPersistsFlag DEF ArmStep
<1>2. ASSUME NEW t \in Ticks, TickStep(t) PROVE FlagInv'
  BY <1>2, TickReadsFlag, TickActsFlag, RunEndsFlag, TickPersistsFlag DEF TickStep
<1>3. ASSUME NEW t \in Ticks, NEW id \in Entries, TickFires(t, id) PROVE FlagInv'
  BY <1>3, TickFiresFlag
<1>4. CASE NodeArms
  <2>1. "auto" \in Modes /\ "auto" # "silent"
    BY DEF Modes
  <2> QED
    BY <1>4, <2>1, ArmBeginsFlag DEF NodeArms, modeVars
<1>5. CASE UNCHANGED vars
  <2>1. UNCHANGED <<flow, entry, timers, arm, tick, op, maint, boot, disturbed, nodeless>>
    BY <1>5 DEF vars, callVars, modeVars, histVars, marks
  <2>2. (OneCall => OneCall') /\ (Owing => Owing') /\ (BootInv => BootInv')
    BY <2>1 DEF OneCall, Owing, BootInv, Idling, Resting
  <2> QED
    BY <2>1, <2>2 DEF FlagInv, InService
<1> QED
  BY <1>1, <1>2, <1>3, <1>4, <1>5, OperatorFlag, DisarmPersistsFlag, StopAllFlag, CrashFlag,
     RestoreFlag DEF Next
-----------------------------------------------------------------------------
(* The theorems.                                                            *)

\* For any number of calls, ticks, intervals and mishaps the flow's document, its timers and
\* every call of TimerScheduler keep their types.
THEOREM TimerTypeCorrect == Spec => []TypeOK
<1> DEFINE ModeTyped == /\ op \in {"none", "persist"} /\ boot \in {"restoring", "up"}
                        /\ maint \in {"off", "entering", "on", "left"}
<1>1. Init => ModeTyped
  BY DEF Init
<1>2. ASSUME ModeTyped, [Next]_vars PROVE ModeTyped'
  <2>1. ASSUME NEW a \in Arms, ArmStep(a) PROVE ModeTyped'
    BY <1>2, <2>1 DEF ArmStep, ArmReads, ArmActs, ArmPersists, modeVars
  <2>2. ASSUME NEW t \in Ticks, TickStep(t) \/ \E id \in Entries : TickFires(t, id) PROVE ModeTyped'
    BY <1>2, <2>2 DEF TickStep, TickReads, TickActs, RunEnds, TickPersists, TickFires, modeVars
  <2>3. CASE NodeArms \/ Operator
    BY <1>2, <2>3 DEF NodeArms, Operator, OperatorArms, OperatorDisarms, OperatorSaves,
         OperatorDeletes, EnterMaintenance, LeaveMaintenance, modeVars, callVars
  <2>4. CASE DisarmPersists \/ StopAll \/ Crash \/ Restore
    BY <1>2, <2>4 DEF DisarmPersists, StopAll, Crash, Restore, modeVars, callVars
  <2>5. CASE UNCHANGED vars
    BY <1>2, <2>5 DEF vars, callVars, modeVars
  <2> QED
    BY <1>2, <2>1, <2>2, <2>3, <2>4, <2>5 DEF Next
<1>3. TimerInv /\ ArmTyped /\ ModeTyped => TypeOK
  BY DEF TimerInv, TimerTyped, ArmTyped, FlowDoc, Info, TypeOK
<1> HIDE DEF ModeTyped
<1> QED
  BY <1>1, <1>2, <1>3, TimerInvariant, PTL DEF Spec

\* However ticks, runs, disarms, maintenance, refused requests and restarts interleave
\* (TimerScheduler.tick(), disarm(), stopAll()), the flow has one live interval, that of its
\* entry, until a timer is armed afresh under a tick.
THEOREM TimerIsSole == Spec => []SoleTimer
<1>1. TimerInv => SoleTimer
  BY DEF TimerInv
<1> QED
  BY <1>1, TimerInvariant, PTL

\* Until then two timed runs of the flow never go on at once (tick()'s `running` flag, which
\* is tested before an await and set after it), unless a tick fired while an earlier one had
\* not decided.
THEOREM RunsDoNotOverlap == Spec => []OneTimedRun
<1>1. TimerInv => OneTimedRun
  <2> SUFFICES ASSUME TimerInv, ~replaced, ~crowded PROVE Cardinality(Running) <= 1
    BY DEF OneTimedRun
  <2>1. \A t, u \in Running : t = u
    BY DEF TimerInv, TickInv, Single, Running, Holding
  <2>2. CASE Running = {}
    BY <2>2, FS_EmptySet
  <2>3. CASE Running # {}
    <3>1. PICK t \in Running : TRUE
      BY <2>3
    <3>2. Running = {t}
      BY <2>1, <3>1
    <3> QED
      BY <3>2, FS_Singleton
  <2> QED
    BY <2>2, <2>3
<1> QED
  BY <1>1, TimerInvariant, PTL

\* Requests made one at a time, with none refused, keep the timer and `timer_armed` together
\* (arm(), disarm(), tick(), restore()), over any number of runs, failures, suspensions,
\* restarts and saves that take the Time node away or put it back: an enabled flow that ticks
\* says it is armed, and one that says so ticks or was refused by arm() for want of its node.
THEOREM FlagFollowsTimer == Spec => []FlagMatchesTimer
<1>1. ASSUME Init PROVE FlagInv
  <2>1. /\ entry = 0 /\ timers = {} /\ op = "none" /\ maint = "off" /\ boot = "restoring"
        /\ disturbed = FALSE
        /\ \A a \in Arms : arm[a].pc = "idle"
        /\ \A t \in Ticks : tick[t].pc = "idle"
    BY <1>1 DEF Init, NoArm, Idle
  <2>2. BootInv /\ OneCall /\ ~InService
    BY <2>1 DEF BootInv, OneCall, InService, Idling, Resting
  <2> QED
    BY <2>1, <2>2 DEF FlagInv
<1>2. TimerInv /\ ArmTyped /\ FlagInv /\ [Next]_vars => FlagInv'
  BY FlagStays DEF TimerInv
<1>3. FlagInv => FlagMatchesTimer
  <2> SUFFICES ASSUME FlagInv, ~disturbed, Calls = {}, InService, flow.enabled
               PROVE  /\ entry # 0 => flow.armed
                      /\ flow.armed => entry # 0 \/ nodeless
    BY DEF FlagMatchesTimer, InService
  <2>1. /\ Owing /\ op = "none"
        /\ \A a \in Arms : Idling(a)
        /\ \A t \in Ticks : Resting(t)
    BY NoCalls DEF FlagInv
  <2>2. flow.armed => entry # 0 \/ nodeless
    BY <2>1 DEF Owing, Idling, Resting
  <2>3. entry # 0 => flow.armed
    BY <2>1 DEF Owing, Idling
  <2> QED
    BY <2>2, <2>3
<1> QED
  BY <1>1, <1>2, <1>3, TimerInvariant, PTL DEF Spec
=============================================================================
