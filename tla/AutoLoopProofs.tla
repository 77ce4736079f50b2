--------------------------- MODULE AutoLoopProofs ---------------------------
(***************************************************************************)
(* Proofs about AutoLoop, for any number of chats, timers, failures, starts,*)
(* crashes and refused requests: the agent's lock is balanced, a loop that  *)
(* keeps failing is parked, and a loop that is done is not woken again.     *)
(***************************************************************************)
EXTENDS AutoLoop, FiniteSetTheorems, TLAPS

\* Where a tick has found the loop active and not yet parked it or gone.
OnLoop == {"wait", "claim", "message", "turn", "declare", "record", "fail", "reread", "arm",
           "schedule"}

\* The failures in a row that a loop may have behind it.
Allowed == MaxErrors + crashes + refused

\* Also a tick of a loop that was stopped under it, for its last write makes it active again.
StreakInv == tick # "park" /\ (status \in Active \/ tick \in OnLoop) => streak < Allowed

\* A loop becomes done in its own turn, past which the tick reads it again before it acts.
DoneInv == status = "done" => tick \notin {"wait", "claim", "message", "arm"}

Live == {c \in Chats : chat[c]}
Turn == IF tick \in InTurn THEN 1 ELSE 0

LoopInv == TypeOK /\ LockBalanced /\ StreakInv /\ DoneInv
-----------------------------------------------------------------------------
LEMMA InitInv == Init => LoopInv
<1> SUFFICES ASSUME Init PROVE LoopInv
  OBVIOUS
<1>1. TypeOK
  <2>1. qt \in [Ticks -> QtPc] /\ chat \in [Chats -> BOOLEAN]
    BY DEF Init, QtPc
  <2>2. /\ starts \in 0..MaxStarts /\ crashes \in 0..MaxCrashes /\ refused \in 0..MaxRefused
        /\ streak \in 0..(MaxErrors + crashes + refused)
    BY AutoLoopAssumption DEF Init
  <2> QED
    BY <2>1, <2>2 DEF Init, TypeOK, LoopStatus, TickPc, Requests
<1>2. LockBalanced
  <2>1. {c \in Chats : chat[c]} = {}
    BY DEF Init
  <2> QED
    BY <2>1, FS_EmptySet DEF Init, LockBalanced, InTurn
<1>3. StreakInv /\ DoneInv
  BY AutoLoopAssumption DEF Init, StreakInv, DoneInv, OnLoop, Active, Allowed
<1> QED
  BY <1>1, <1>2, <1>3 DEF LoopInv

\* The chats under way are counted by a natural number.
LEMMA LiveIsFinite == IsFiniteSet(Live) /\ Cardinality(Live) \in Nat
<1>1. Live \subseteq Chats
  BY DEF Live
<1> QED
  BY <1>1, AutoLoopAssumption, FS_Subset, FS_CardinalityType
-----------------------------------------------------------------------------
(* The lane and the tick.                                                   *)

\* What a step of the tick that is not refused does to the lock: it takes it for the turn,
\* gives it back, or leaves it.
LEMMA TickLock ==
  ASSUME LoopInv, chat' = chat,
         \/ /\ busy' = busy
            /\ (tick \in InTurn) <=> (tick' \in InTurn)
         \/ /\ busy' = busy + 1
            /\ tick \notin InTurn /\ tick' \in InTurn
         \/ /\ Release
            /\ tick \in InTurn /\ tick' \notin InTurn
  PROVE  LockBalanced'
<1>1. busy = Cardinality(Live) + Turn /\ Cardinality(Live) \in Nat
  BY LiveIsFinite DEF LoopInv, LockBalanced, Live, Turn
<1>2. busy' = Cardinality(Live) + Turn'
  BY <1>1 DEF Release, Turn
<1>3. Live' = Live
  BY DEF Live
<1> QED
  BY <1>2, <1>3 DEF LockBalanced, Live, Turn

LEMMA TickSteps ==
  ASSUME LoopInv, TickStep \/ LoopDoneReads \/ TakeRow PROVE LoopInv'
<1>1. TypeOK /\ StreakInv /\ DoneInv /\ streak \in Nat /\ MaxErrors \in Nat \ {0} /\ Allowed \in Nat
  BY AutoLoopAssumption DEF LoopInv, TypeOK, Allowed
<1>2. UNCHANGED <<histVars, chat, request, resumed, qt>>
  BY DEF TickStep, LoopDoneReads, TakeRow, TickReads, WaitTimesOut, TickClaims, TurnBegins,
         TurnEnds, LoopDoneWrites, RecordTurn, RecordError, Park, TickRereads, Arm, Schedule,
         RowFinished, memVars, lockVars
<1>3. CASE TakeRow \/ TickReads \/ WaitTimesOut \/ RowFinished \/ TickRereads
  <2>1. UNCHANGED <<docVars, timer, busy>>
    BY <1>3 DEF TakeRow, TickReads, WaitTimesOut, RowFinished, TickRereads, memVars, lockVars
  <2>2. waiting' \in Nat /\ tick' \in TickPc /\ tick \notin InTurn /\ tick' \notin InTurn
    BY <1>1, <1>3 DEF TakeRow, TickReads, WaitTimesOut, RowFinished, TickRereads, TickTo, TypeOK,
                      TickPc, InTurn
  <2>3. StreakInv' /\ DoneInv'
    BY <1>1, <1>2, <1>3, <2>1 DEF TakeRow, TickReads, WaitTimesOut, RowFinished, TickRereads,
         TickTo, StreakInv, DoneInv, OnLoop, Active, Allowed, docVars, histVars
  <2> QED
    BY <1>1, <1>2, <2>1, <2>2, <2>3, TickLock DEF LoopInv, TypeOK, docVars, histVars
<1>4. CASE TickClaims \/ Arm \/ Schedule
  <2>1. /\ UNCHANGED <<streak, waiting, busy>> /\ timer' \in {"off", "now", "later"}
        /\ status' \in LoopStatus /\ tick' \in TickPc /\ tick \notin InTurn /\ tick' \notin InTurn
    BY <1>1, <1>4 DEF TickClaims, Arm, Schedule, SetStatus, TickTo, memVars, lockVars, TypeOK,
                      LoopStatus, TickPc, InTurn, docVars
  <2>2. StreakInv' /\ DoneInv'
    BY <1>1, <1>2, <1>4, <2>1 DEF TickClaims, Arm, Schedule, SetStatus, TickTo, StreakInv, DoneInv,
         OnLoop, Active, Allowed, docVars, histVars
  <2> QED
    BY <1>1, <1>2, <2>1, <2>2, TickLock DEF LoopInv, TypeOK, histVars
<1>5. CASE TurnBegins \/ TurnEnds \/ LoopDoneReads \/ LoopDoneWrites
  <2>1. /\ UNCHANGED <<streak, waiting, timer>>
        /\ status' \in LoopStatus /\ tick' \in TickPc /\ busy' \in Nat
    BY <1>1, <1>5 DEF TurnBegins, TurnEnds, LoopDoneReads, LoopDoneWrites, SetStatus, TickTo,
                      memVars, lockVars, TypeOK, LoopStatus, TickPc, docVars
  <2>2. \/ busy' = busy /\ tick \in InTurn /\ tick' \in InTurn
        \/ busy' = busy + 1 /\ tick \notin InTurn /\ tick' \in InTurn
    BY <1>5 DEF TurnBegins, TurnEnds, LoopDoneReads, LoopDoneWrites, TickTo, lockVars, InTurn
  <2>3. StreakInv' /\ DoneInv'
    BY <1>1, <1>2, <1>5, <2>1 DEF TurnBegins, TurnEnds, LoopDoneReads, LoopDoneWrites, SetStatus,
         TickTo, StreakInv, DoneInv, OnLoop, Active, Allowed, docVars, histVars
  <2> QED
    BY <1>1, <1>2, <2>1, <2>2, <2>3, TickLock DEF LoopInv, TypeOK, histVars
<1>6. CASE RecordTurn \/ RecordError \/ Park
  <2>1. /\ UNCHANGED <<waiting, timer>>
        /\ status' \in LoopStatus /\ tick' \in TickPc /\ busy' \in Nat
    BY <1>1, <1>6 DEF RecordTurn, RecordError, Park, SetStatus, TickTo, Release, memVars, TypeOK,
                      LoopStatus, TickPc
  <2>2. \/ busy' = busy /\ tick \in InTurn /\ tick' \in InTurn
        \/ Release /\ tick \in InTurn /\ tick' \notin InTurn
    BY <1>6 DEF RecordTurn, RecordError, Park, TickTo, InTurn
  <2>3. streak' \in Nat /\ streak' <= Allowed /\ StreakInv'
    <3>1. CASE RecordTurn
      BY <1>1, <1>2, <3>1 DEF RecordTurn, TickTo, StreakInv, OnLoop, Active, Allowed, TypeOK, histVars
    <3>2. CASE RecordError
      <4>1. streak < Allowed /\ MaxErrors <= Allowed
        BY <1>1, <3>2 DEF RecordError, StreakInv, OnLoop, Allowed, TypeOK
      <4>2. streak' = (IF Exists THEN streak + 1 ELSE streak)
        BY <3>2 DEF RecordError
      <4>3. tick' = "park" \/ streak' = streak \/ streak' < MaxErrors
        BY <1>1, <3>2, <4>2 DEF RecordError, TickTo
      <4> QED
        BY <1>1, <1>2, <4>1, <4>2, <4>3 DEF StreakInv, Allowed, histVars
    <3>3. CASE Park
      BY <1>1, <1>2, <3>3 DEF Park, SetStatus, Exists, TickTo, StreakInv, OnLoop, Active, Allowed,
                              TypeOK, LoopStatus, histVars
    <3> QED
      BY <1>6, <3>1, <3>2, <3>3
  <2>4. DoneInv'
    BY <1>6 DEF RecordTurn, RecordError, Park, TickTo, DoneInv
  <2>5. LockBalanced'
    BY <1>2, <2>2, TickLock
  <2> QED
    BY <1>1, <1>2, <2>1, <2>3, <2>4, <2>5 DEF LoopInv, TypeOK, Allowed, histVars
<1> QED
  BY <1>3, <1>4, <1>5, <1>6 DEF TickStep
-----------------------------------------------------------------------------
(* The timer, the operator, and what goes wrong.                            *)

LEMMA SumGrows ==
  ASSUME NEW a \in Nat, NEW b \in Nat, NEW c \in Nat, NEW d \in Nat, d >= c
  PROVE  a + b + c \in Nat /\ a + b + d \in Nat /\ a + b + d >= a + b + c
  OBVIOUS

\* A step that concerns neither the tick nor the lock, nor makes the loop active.
LEMMA Aside ==
  ASSUME LoopInv, UNCHANGED <<docVars, tick, lockVars, crashes>>,
         waiting' \in Nat, timer' \in {"off", "now", "later"}, resumed' \in BOOLEAN,
         qt' \in [Ticks -> QtPc], request' \in Requests, starts' \in 0..MaxStarts,
         refused' \in refused..MaxRefused, dropped' \in BOOLEAN
  PROVE  LoopInv'
<1>1. /\ TypeOK /\ streak \in 0..Allowed /\ refused \in Nat /\ crashes \in Nat
      /\ MaxErrors \in Nat /\ MaxRefused \in Nat /\ crashes' = crashes
      /\ refused' \in Nat /\ refused' >= refused /\ refused' <= MaxRefused
  BY AutoLoopAssumption DEF LoopInv, TypeOK, Allowed, docVars, lockVars
<1>5. Allowed \in Nat /\ Allowed' \in Nat /\ Allowed' >= Allowed
  <2>1. Allowed' = MaxErrors + crashes + refused' /\ Allowed = MaxErrors + crashes + refused
    BY <1>1, Zenon DEF Allowed
  <2> QED
    BY <1>1, <2>1, SumGrows
<1>2. TypeOK'
  <2>1. UNCHANGED <<status, streak, tick, busy, chat, crashes>>
    BY DEF docVars, lockVars
  <2>2. refused' \in 0..MaxRefused
    BY <1>1
  <2>3. streak \in 0..(MaxErrors + crashes + refused')
    <3>1. Allowed' = MaxErrors + crashes + refused'
      BY <1>1, Zenon DEF Allowed
    <3>2. streak \in 0..Allowed'
      BY <1>1, <1>5
    <3> QED
      BY <3>1, <3>2, Zenon
  <2> QED
    BY <1>1, <2>1, <2>2, <2>3 DEF TypeOK
<1>3. StreakInv' /\ DoneInv'
  <2>1. UNCHANGED <<status, streak, tick>>
    BY DEF docVars
  <2> QED
    BY <1>1, <1>5, <2>1 DEF LoopInv, StreakInv, DoneInv
<1>4. LockBalanced'
  BY DEF LoopInv, LockBalanced, lockVars
<1> QED
  BY <1>2, <1>3, <1>4 DEF LoopInv

LEMMA TimerSteps ==
  ASSUME LoopInv, TimerFires \/ (\E q \in Ticks : QueueTickStep(q)) \/ CancelRow PROVE LoopInv'
<1>1. TypeOK /\ refused \in refused..MaxRefused
  BY AutoLoopAssumption DEF LoopInv, TypeOK
<1>2. CASE TimerFires
  <2>1. qt' \in [Ticks -> QtPc]
    BY <1>1, <1>2 DEF TimerFires, TypeOK, QtPc
  <2> QED
    BY <1>1, <1>2, <2>1, Aside DEF TimerFires, TypeOK, histVars
<1>3. ASSUME NEW q \in Ticks, QueueTickStep(q) PROVE LoopInv'
  <2>1. \E to \in QtPc : qt' = [qt EXCEPT ![q] = to]
    BY <1>3 DEF QueueTickStep, QueueTickReads, QueueTickChecks, QueueTickInserts, QtPc
  <2>2. qt' \in [Ticks -> QtPc]
    BY <1>1, <2>1 DEF TypeOK
  <2>3. /\ waiting' \in Nat
        /\ UNCHANGED <<docVars, timer, resumed, tick, lockVars, request, starts, crashes, refused>>
    BY <1>1, <1>3 DEF QueueTickStep, QueueTickReads, QueueTickChecks, QueueTickInserts, TypeOK,
                      histVars
  <2>4. dropped' \in BOOLEAN
    BY <1>1, <1>3 DEF QueueTickStep, QueueTickReads, QueueTickChecks, QueueTickInserts, TypeOK,
                      histVars
  <2> QED
    BY <1>1, <2>2, <2>3, <2>4, Aside DEF TypeOK
<1>4. CASE CancelRow
  <2>1. waiting' \in Nat
    BY <1>1, <1>4 DEF CancelRow, TypeOK
  <2> QED
    BY <1>1, <1>4, <2>1, Aside DEF CancelRow, TypeOK, memVars
<1> QED
  BY <1>2, <1>3, <1>4

\* start(), stop(), delete.
LEMMA RequestSteps ==
  ASSUME LoopInv, StartWrites \/ StartArms \/ StopClears \/ StopWrites \/ DeleteForgets \/ DeleteRemoves
  PROVE  LoopInv'
<1>1. TypeOK /\ refused \in refused..MaxRefused /\ Allowed \in Nat \ {0} /\ MaxStarts \in Nat
  BY AutoLoopAssumption DEF LoopInv, TypeOK, Allowed
<1>2. CASE StartArms \/ StopClears \/ DeleteForgets
  BY <1>1, <1>2, Aside DEF StartArms, StopClears, DeleteForgets, TypeOK, Requests, histVars
<1>3. CASE StartWrites \/ StopWrites \/ DeleteRemoves
  <2>1. UNCHANGED <<waiting, memVars, tick, lockVars, crashes, refused, dropped>>
    BY <1>3 DEF StartWrites, StopWrites, DeleteRemoves, histVars
  <2>2. /\ status' \in LoopStatus /\ request' \in Requests /\ starts' \in 0..MaxStarts
        /\ streak' \in 0..Allowed
    BY <1>1, <1>3 DEF StartWrites, StopWrites, DeleteRemoves, SetStatus, TypeOK, LoopStatus,
                      Requests, Allowed, histVars
  <2>3. TypeOK'
    BY <1>1, <2>1, <2>2 DEF TypeOK, Allowed, memVars, lockVars
  <2>4. StreakInv' /\ DoneInv'
    BY <1>1, <1>3, <2>1 DEF LoopInv, StartWrites, StopWrites, DeleteRemoves, SetStatus, StreakInv,
         DoneInv, Active, Allowed
  <2>5. LockBalanced'
    BY <2>1 DEF LoopInv, LockBalanced, lockVars
  <2> QED
    BY <2>3, <2>4, <2>5 DEF LoopInv
<1> QED
  BY <1>2, <1>3

LEMMA ChatSteps ==
  ASSUME LoopInv, NEW c \in Chats, ChatBegins(c) \/ ChatEnds(c) PROVE LoopInv'
<1>1. TypeOK /\ UNCHANGED <<docVars, waiting, memVars, request, histVars>>
  BY DEF LoopInv, ChatBegins, ChatEnds
<1>2. busy = Cardinality(Live) + Turn /\ Cardinality(Live) \in Nat /\ IsFiniteSet(Live)
  BY LiveIsFinite DEF LoopInv, LockBalanced, Live, Turn
<1>3. tick' \in TickPc /\ Turn' = Turn /\ (tick' = tick \/ (tick = "wait" /\ tick' = "claim"))
  BY <1>1 DEF ChatBegins, ChatEnds, TickTo, TypeOK, TickPc, Turn, InTurn
<1>4. StreakInv' /\ DoneInv'
  BY <1>1, <1>3 DEF LoopInv, StreakInv, DoneInv, OnLoop, Allowed, docVars, histVars
<1>5. chat' \in [Chats -> BOOLEAN] /\ busy' = Cardinality(Live') + Turn /\ busy' \in Nat
  <2>1. CASE ChatBegins(c)
    <3>1. Live' = Live \cup {c} /\ c \notin Live
      BY <1>1, <2>1 DEF ChatBegins, TypeOK, Live
    <3>2. Cardinality(Live') = Cardinality(Live) + 1
      BY <1>2, <3>1, FS_AddElement
    <3> QED
      BY <1>1, <1>2, <2>1, <3>2 DEF ChatBegins, TypeOK, Turn
  <2>2. CASE ChatEnds(c)
    <3>1. Live' = Live \ {c} /\ c \in Live
      BY <1>1, <2>2 DEF ChatEnds, TypeOK, Live
    <3>2. Cardinality(Live') = Cardinality(Live) - 1 /\ Cardinality(Live') \in Nat
      BY <1>2, <3>1, FS_RemoveElement, FS_CardinalityType
    <3> QED
      BY <1>1, <1>2, <2>2, <3>2 DEF ChatEnds, Release, TypeOK, Turn
  <2> QED
    BY <2>1, <2>2
<1>6. LockBalanced'
  BY <1>3, <1>5 DEF LockBalanced, Live, Turn
<1> QED
  BY <1>1, <1>3, <1>4, <1>5, <1>6 DEF LoopInv, TypeOK, docVars, memVars, histVars

LEMMA RefusedSteps == ASSUME LoopInv, RequestRefused PROVE LoopInv'
<1>1. TypeOK /\ refused' = refused + 1 /\ refused' \in refused..MaxRefused /\ Allowed \in Nat /\ Allowed' = Allowed + 1
  <2>1. TypeOK /\ refused' = refused + 1 /\ refused < MaxRefused /\ crashes' = crashes
    BY DEF LoopInv, RequestRefused, TurnRefused, FailureRefused, TickRefused, OutsideRefused
  <2> QED
    BY <2>1, AutoLoopAssumption DEF TypeOK, Allowed
<1>2. CASE OutsideRefused
  <2>1. qt' \in [Ticks -> QtPc] /\ request' \in Requests /\ resumed' \in BOOLEAN
    BY <1>1, <1>2 DEF OutsideRefused, TypeOK, QtPc, Requests
  <2> QED
    BY <1>1, <1>2, <2>1, Aside DEF OutsideRefused, TypeOK
<1>3. CASE TurnRefused \/ FailureRefused \/ TickRefused
  <2>1. /\ UNCHANGED <<docVars, waiting, memVars, chat, request, starts, crashes>>
        /\ tick' \in TickPc /\ dropped' \in BOOLEAN
    BY <1>1, <1>3 DEF TurnRefused, FailureRefused, TickRefused, TickTo, lockVars, TickPc, TypeOK
  <2>2. \/ busy' = busy /\ ((tick \in InTurn) <=> (tick' \in InTurn))
        \/ Release /\ tick \in InTurn /\ tick' \notin InTurn
    BY <1>3 DEF TurnRefused, FailureRefused, TickRefused, TickTo, lockVars, InTurn
  <2>3. busy' \in Nat
    BY <1>1, <2>2 DEF Release, TypeOK
  <2>4. LockBalanced'
    BY <2>1, <2>2, TickLock
  <2>5. StreakInv'
    BY <1>1, <2>1 DEF StreakInv, TypeOK, Allowed, docVars
  <2>6. DoneInv'
    BY <1>3, <2>1 DEF LoopInv, DoneInv, TurnRefused, FailureRefused, TickRefused, TickTo, docVars
  <2>7. TypeOK'
    BY <1>1, <2>1, <2>3 DEF TypeOK, Allowed, docVars, memVars
  <2> QED
    BY <2>4, <2>5, <2>6, <2>7 DEF LoopInv
<1> QED
  BY <1>2, <1>3 DEF RequestRefused

LEMMA CrashStep == ASSUME LoopInv, Crash PROVE LoopInv'
<1>1. TypeOK /\ crashes' = crashes + 1 /\ crashes' \in 0..MaxCrashes /\ Allowed \in Nat /\ Allowed' = Allowed + 1
  BY AutoLoopAssumption DEF LoopInv, TypeOK, Crash, Allowed
<1>2. qt' \in [Ticks -> QtPc] /\ chat' \in [Chats -> BOOLEAN]
  BY DEF Crash, QtPc
<1>3. TypeOK'
  <2>1. streak' \in 0..(MaxErrors + crashes' + refused')
    BY <1>1 DEF Crash, TypeOK, Allowed, docVars
  <2>2. tick' \in TickPc /\ request' \in Requests /\ UNCHANGED <<status, waiting, starts, refused, dropped>>
    BY DEF Crash, TickPc, Requests, docVars
  <2> QED
    BY <1>1, <1>2, <2>1, <2>2 DEF Crash, TypeOK
<1>4. StreakInv' /\ DoneInv'
  BY <1>1 DEF Crash, StreakInv, DoneInv, TypeOK, Allowed, docVars
<1>5. LockBalanced'
  <2>1. {c \in Chats : chat'[c]} = {}
    BY DEF Crash
  <2> QED
    BY <2>1, FS_EmptySet DEF Crash, LockBalanced, InTurn
<1> QED
  BY <1>3, <1>4, <1>5 DEF LoopInv

LEMMA NextInv == LoopInv /\ [Next]_vars => LoopInv'
<1> SUFFICES ASSUME LoopInv, [Next]_vars PROVE LoopInv'
  OBVIOUS
<1>1. TypeOK /\ refused \in refused..MaxRefused
  BY AutoLoopAssumption DEF LoopInv, TypeOK
<1>2. CASE Resume
  BY <1>1, <1>2, Aside DEF Resume, TypeOK, histVars
<1>3. CASE UNCHANGED vars
  BY <1>1, <1>3, Aside DEF vars, docVars, memVars, lockVars, histVars, TypeOK
<1> QED
  BY <1>2, <1>3, TickSteps, TimerSteps, RequestSteps, ChatSteps, RefusedSteps, CrashStep DEF Next

LEMMA LoopInvariant == Spec => []LoopInv
  BY InitInv, NextInv, PTL DEF Spec
-----------------------------------------------------------------------------
(* The theorems.                                                            *)

\* For any number of chats, starts, crashes and refused requests, the loop's document, its
\* timer, its rows and its tick keep their types, within the bounds their counters have.
THEOREM LoopTypeCorrect == Spec => []TypeOK
<1>1. LoopInv => TypeOK
  BY DEF LoopInv
<1> QED
  BY <1>1, LoopInvariant, PTL

\* On every path out of a turn - answered, failed, parked, refused, crashed - and for any
\* number of chats, the agent's session count is what is really going on (SessionLock).
THEOREM LockIsBalanced == Spec => []LockBalanced
<1>1. LoopInv => LockBalanced
  BY DEF LoopInv
<1> QED
  BY <1>1, LoopInvariant, PTL

\* A loop whose turns fail MAX_CONSECUTIVE_ERRORS times in a row does not stay active
\* (tick()), but for one more failure per crash and per refused request.
THEOREM FailingLoopParks == Spec => []FailingLoopIsParked
<1>1. LoopInv => FailingLoopIsParked
  BY DEF LoopInv, StreakInv, FailingLoopIsParked, Allowed
<1> QED
  BY <1>1, LoopInvariant, PTL

\* No tick, timer, restart or late write makes a loop active again that declared its goal
\* achieved (loop_done); only the operator's start does.
THEOREM DoneIsFinal == Spec => DoneStaysDone
<1>1. LoopInv /\ [Next]_vars => [status = "done" /\ starts' = starts => status' \notin Active]_vars
  <2> SUFFICES ASSUME LoopInv, Next, status = "done", starts' = starts PROVE status' \notin Active
    OBVIOUS
  <2>1. tick \notin {"claim", "arm"}
    BY DEF LoopInv, DoneInv
  <2>2. status' = status \/ status' \in {"done", "error", "stopped", "deleted"}
    <3>1. CASE TickStep
      BY <2>1, <3>1 DEF TickStep, TickReads, WaitTimesOut, TickClaims, TurnBegins, TurnEnds,
           LoopDoneWrites, RecordTurn, RecordError, Park, TickRereads, Arm, Schedule, RowFinished,
           SetStatus, docVars
    <3>2. CASE StartWrites
      BY <3>2 DEF StartWrites, LoopInv, TypeOK
    <3>3. CASE StopWrites \/ DeleteRemoves
      BY <3>3 DEF StopWrites, DeleteRemoves, SetStatus
    <3>4. CASE RequestRefused
      BY <3>4 DEF RequestRefused, TurnRefused, FailureRefused, TickRefused, OutsideRefused, docVars
    <3>5. CASE \E c \in Chats : ChatBegins(c) \/ ChatEnds(c)
      BY <3>5 DEF ChatBegins, ChatEnds, docVars
    <3>6. CASE TimerFires \/ \E q \in Ticks : QueueTickStep(q)
      BY <3>6 DEF TimerFires, QueueTickStep, QueueTickReads, QueueTickChecks, QueueTickInserts,
                  docVars
    <3>7. CASE TakeRow \/ LoopDoneReads \/ CancelRow \/ StartArms \/ StopClears \/ DeleteForgets
               \/ Crash \/ Resume
      BY <3>7 DEF TakeRow, LoopDoneReads, CancelRow, StartArms, StopClears, DeleteForgets, Crash,
                  Resume, docVars
    <3> QED
      BY <3>1, <3>2, <3>3, <3>4, <3>5, <3>6, <3>7 DEF Next
  <2> QED
    BY <2>2 DEF Active
<1> QED
  BY <1>1, LoopInvariant, PTL DEF Spec, DoneStaysDone
=============================================================================
