------------------------------ MODULE AutoLoop ------------------------------
(***************************************************************************)
(* An agent put on a standing goal: autonomy/AutoLoopRunner.ts, its document*)
(* in domain/auto-loops, the loop_done tool, and the lock of core/session   *)
(* by which a tick yields to an operator's chat with the same agent.        *)
(* One conversation; the fleet's run lane (RunQueue) appears as the rows of *)
(* this conversation, of which it runs one at a time.  A step ends where    *)
(* the code awaits: what was read before an await may be stale after it.    *)
(* The text of the turns and the recap are left out.                        *)
(***************************************************************************)
EXTENDS Naturals, FiniteSets

CONSTANTS Chats,      \* operator chats that may run with the loop's agent
          Ticks,      \* identities of queueTick() invocations
          MaxErrors,  \* MAX_CONSECUTIVE_ERRORS
          MaxStarts,  \* bound: how often the operator starts the loop
          MaxCrashes, \* bound: how often the process dies
          MaxRefused  \* bound: how many database requests are refused

ASSUME AutoLoopAssumption ==
    /\ IsFiniteSet(Chats) /\ Ticks # {}
    /\ MaxErrors \in Nat \ {0} /\ MaxStarts \in Nat
    /\ MaxCrashes \in Nat /\ MaxRefused \in Nat

VARIABLES
    status,   \* auto_loops.status; "none" before there is a document, "deleted" after
    streak,   \* auto_loops.consecutive_errors
    waiting,  \* rows of this loop queued in the lane
    timer,    \* the armed countdown: "off", "now" (start()) or "later" (an interval)
    resumed,  \* resume() has run since boot
    qt,       \* [Ticks -> QtPc]: queueTick() invocations
    tick,     \* TickPc: the lane's row of this loop, in the body of tick()
    busy,     \* SessionLock.active of the agent
    chat,     \* [Chats -> BOOLEAN]: operator chats under way
    request,  \* the operator's start, stop or delete in the middle of its await
    \* --- history: how often started, died, refused a request; whether the loop has
    \* lost its place: its row cancelled or taken for a duplicate, or a request refused
    \* outside the turn
    starts, crashes, refused, dropped

docVars  == <<status, streak>>
memVars  == <<timer, resumed, qt>>
lockVars == <<busy, chat>>
histVars == <<starts, crashes, refused, dropped>>
vars == <<docVars, waiting, memVars, tick, lockVars, request, histVars>>

LoopStatus == {"none", "waiting", "running", "stopped", "done", "error", "deleted"}
Active     == {"waiting", "running"}
QtPc       == {"idle", "read", "check", "insert"}
TickPc     == {"idle", "read", "wait", "claim", "message", "turn", "declare", "record",
               "fail", "park", "reread", "arm", "schedule", "return"}
\* Where the tick counts as a session of its agent.
InTurn     == {"turn", "declare", "record", "fail", "park"}
Requests   == {"none", "start", "stop", "delete"}

Init ==
    /\ status = "none" /\ streak = 0
    /\ waiting = 0
    /\ timer = "off" /\ resumed = FALSE
    /\ qt = [q \in Ticks |-> "idle"]
    /\ tick = "idle"
    /\ busy = 0 /\ chat = [c \in Chats |-> FALSE]
    /\ request = "none"
    /\ starts = 0 /\ crashes = 0 /\ refused = 0 /\ dropped = FALSE

\* There is a document to update.
Exists == status \notin {"none", "deleted"}

\* setStatus() and arm(): findOneAndUpdate without upsert, so a deleted loop stays so.
SetStatus(s) == status' = IF Exists THEN s ELSE status
-----------------------------------------------------------------------------
(* The timer and queueTick().                                               *)

\* The interval is at least 10 s (MIN_INTERVAL_SEC): the lane has recorded the row that
\* armed it by then.
TimerFires ==
    /\ timer = "now" \/ (timer = "later" /\ tick # "return")
    /\ timer' = "off"
    /\ \E q \in Ticks : qt[q] = "idle" /\ qt' = [qt EXCEPT ![q] = "read"]
    /\ UNCHANGED <<docVars, waiting, resumed, tick, lockVars, request, histVars>>

QueueTickReads(q) ==
    /\ qt[q] = "read"
    /\ qt' = [qt EXCEPT ![q] = IF status \in Active THEN "check" ELSE "idle"]
    /\ UNCHANGED <<docVars, waiting, timer, resumed, tick, lockVars, request, histVars>>

\* enqueue() drops the row when one of this loop is queued or running: also when that
\* one has done all it will do and only waits to be recorded.
QueueTickChecks(q) ==
    /\ qt[q] = "check"
    /\ qt' = [qt EXCEPT ![q] = IF waiting > 0 \/ tick # "idle" THEN "idle" ELSE "insert"]
    /\ dropped' = (dropped \/ (waiting = 0 /\ tick = "return"))
    /\ UNCHANGED <<docVars, waiting, timer, resumed, tick, lockVars, request,
                   starts, crashes, refused>>

QueueTickInserts(q) ==
    /\ qt[q] = "insert"
    /\ qt' = [qt EXCEPT ![q] = "idle"]
    /\ waiting' = waiting + 1
    /\ UNCHANGED <<docVars, timer, resumed, tick, lockVars, request, histVars>>

\* The operator cancels a waiting row of the lane: nothing tells the loop.
CancelRow ==
    /\ resumed /\ waiting > 0
    /\ waiting' = waiting - 1
    /\ dropped' = TRUE
    /\ UNCHANGED <<docVars, memVars, tick, lockVars, request, starts, crashes, refused>>
-----------------------------------------------------------------------------
(* tick(), from the lane's claim of the row to the handler's return.        *)

TickTo(next) == tick' = next

TakeRow ==
    /\ tick = "idle" /\ waiting > 0
    /\ waiting' = waiting - 1
    /\ TickTo("read")
    /\ UNCHANGED <<docVars, memVars, lockVars, request, histVars>>

\* The loop is read, and the tick yields to a live session of the agent.
TickReads ==
    /\ tick = "read"
    /\ TickTo(IF status \notin Active THEN "return" ELSE IF busy > 0 THEN "wait" ELSE "claim")
    /\ UNCHANGED <<docVars, waiting, memVars, lockVars, request, histVars>>

\* The agent was busy for the whole of YIELD_TIMEOUT_MS: try again an interval later.
WaitTimesOut ==
    /\ tick = "wait"
    /\ TickTo("arm")
    /\ UNCHANGED <<docVars, waiting, memVars, lockVars, request, histVars>>

\* The loop is marked running, whatever has become of it since it was read.
TickClaims ==
    /\ tick = "claim"
    /\ SetStatus("running")
    /\ TickTo("message")
    /\ UNCHANGED <<streak, waiting, memVars, lockVars, request, histVars>>

\* The user's message is stored; the tick registers as a session and runs the turn.
TurnBegins ==
    /\ tick = "message"
    /\ busy' = busy + 1
    /\ TickTo("turn")
    /\ UNCHANGED <<docVars, waiting, memVars, chat, request, histVars>>

\* loop_done, called during the turn: it reads the loop ...
LoopDoneReads ==
    /\ tick = "turn" /\ status \in Active
    /\ TickTo("declare")
    /\ UNCHANGED <<docVars, waiting, memVars, lockVars, request, histVars>>

\* ... and marks it done.
LoopDoneWrites ==
    /\ tick = "declare"
    /\ SetStatus("done")
    /\ TickTo("turn")
    /\ UNCHANGED <<streak, waiting, memVars, lockVars, request, histVars>>

\* The turn returns or throws (an operator's abort of it throws too).
TurnEnds ==
    /\ tick = "turn"
    /\ \E next \in {"record", "fail"} : TickTo(next)
    /\ UNCHANGED <<docVars, waiting, memVars, lockVars, request, histVars>>

\* releaseUserSession(): the last one out wakes whoever waits for the agent.
Release == busy' = IF busy = 0 THEN 0 ELSE busy - 1

RecordTurn ==
    /\ tick = "record"
    /\ streak' = IF Exists THEN 0 ELSE streak
    /\ Release
    /\ TickTo("reread")
    /\ UNCHANGED <<status, waiting, memVars, chat, request, histVars>>

\* Mutant of RecordError: one failure too many before the loop is parked.
RecordErrorLate ==
    /\ tick = "fail"
    /\ streak' = IF Exists THEN streak + 1 ELSE streak
    /\ IF Exists /\ streak' > MaxErrors
       THEN TickTo("park") /\ UNCHANGED busy
       ELSE TickTo("reread") /\ Release
    /\ UNCHANGED <<status, waiting, memVars, chat, request, histVars>>

RecordError ==
    /\ tick = "fail"
    /\ streak' = IF Exists THEN streak + 1 ELSE streak
    /\ IF Exists /\ streak' >= MaxErrors
       THEN TickTo("park") /\ UNCHANGED busy
       ELSE TickTo("reread") /\ Release
    /\ UNCHANGED <<status, waiting, memVars, chat, request, histVars>>

\* Mutant of Park: the early return is not covered by a `finally`.
ParkKeepsLock ==
    /\ tick = "park"
    /\ SetStatus("error")
    /\ TickTo("return")
    /\ UNCHANGED <<streak, waiting, memVars, lockVars, request, histVars>>

Park ==
    /\ tick = "park"
    /\ SetStatus("error")
    /\ Release
    /\ TickTo("return")
    /\ UNCHANGED <<streak, waiting, memVars, chat, request, histVars>>

\* Mutant of TickRereads: the loop is re-armed without looking at it again.
TickRearmsBlindly ==
    /\ tick = "reread"
    /\ TickTo("arm")
    /\ UNCHANGED <<docVars, waiting, memVars, lockVars, request, histVars>>

\* After the turn the loop is read again: it may be done, stopped or deleted.
TickRereads ==
    /\ tick = "reread"
    /\ TickTo(IF status \in Active THEN "arm" ELSE "return")
    /\ UNCHANGED <<docVars, waiting, memVars, lockVars, request, histVars>>

\* rearm(): the document first ...
Arm ==
    /\ tick = "arm"
    /\ SetStatus("waiting")
    /\ TickTo("schedule")
    /\ UNCHANGED <<streak, waiting, memVars, lockVars, request, histVars>>

\* Mutant of Schedule: the countdown is shown but no timer is armed.
ScheduleForgets ==
    /\ tick = "schedule"
    /\ TickTo("return")
    /\ UNCHANGED <<docVars, waiting, memVars, lockVars, request, histVars>>

\* ... then the timer, which replaces one that is armed.
Schedule ==
    /\ tick = "schedule"
    /\ timer' = "later"
    /\ TickTo("return")
    /\ UNCHANGED <<docVars, waiting, resumed, qt, lockVars, request, histVars>>

\* The handler has returned and the lane has recorded it: the row is live no more.
RowFinished ==
    /\ tick = "return"
    /\ TickTo("idle")
    /\ UNCHANGED <<docVars, waiting, memVars, lockVars, request, histVars>>
-----------------------------------------------------------------------------
(* The operator, who gets in once boot has come to listen(), after resume(). *)

ChatBegins(c) ==
    /\ resumed /\ ~chat[c]
    /\ chat' = [chat EXCEPT ![c] = TRUE]
    /\ busy' = busy + 1
    /\ UNCHANGED <<docVars, waiting, memVars, tick, request, histVars>>

ChatEnds(c) ==
    /\ chat[c]
    /\ chat' = [chat EXCEPT ![c] = FALSE]
    /\ Release
    /\ TickTo(IF tick = "wait" /\ busy' = 0 THEN "claim" ELSE tick)
    /\ UNCHANGED <<docVars, waiting, memVars, request, histVars>>

\* POST start, of a conversation that is still there: the document is created or reset ...
StartWrites ==
    /\ resumed /\ request = "none" /\ status # "deleted" /\ starts < MaxStarts
    /\ status' = "waiting" /\ streak' = 0
    /\ starts' = starts + 1
    /\ request' = "start"
    /\ UNCHANGED <<waiting, memVars, tick, lockVars, crashes, refused, dropped>>

\* ... and the first tick is scheduled for now.
StartArms ==
    /\ request = "start"
    /\ timer' = "now"
    /\ request' = "none"
    /\ UNCHANGED <<docVars, waiting, resumed, qt, tick, lockVars, histVars>>

\* stop(): the timer first, then the document.
StopClears ==
    /\ resumed /\ request = "none" /\ Exists
    /\ timer' = "off"
    /\ request' = "stop"
    /\ UNCHANGED <<docVars, waiting, resumed, qt, tick, lockVars, histVars>>

StopWrites ==
    /\ request = "stop"
    /\ SetStatus("stopped")
    /\ request' = "none"
    /\ UNCHANGED <<streak, waiting, memVars, tick, lockVars, histVars>>

\* The conversation is deleted: the timer first, then the document.
DeleteForgets ==
    /\ resumed /\ request = "none" /\ Exists
    /\ timer' = "off"
    /\ request' = "delete"
    /\ UNCHANGED <<docVars, waiting, resumed, qt, tick, lockVars, histVars>>

DeleteRemoves ==
    /\ request = "delete"
    /\ status' = "deleted" /\ streak' = 0
    /\ request' = "none"
    /\ UNCHANGED <<waiting, memVars, tick, lockVars, histVars>>
-----------------------------------------------------------------------------
(* A database request is refused.  Within the turn a `catch` and a `finally` *)
(* take care of it; anywhere else the step is given up with its timer off.  *)

\* loop_done tells the agent so, a record of the turn becomes a failure of the turn.
TurnRefused ==
    /\ \/ /\ tick = "declare"
          /\ TickTo("turn")
       \/ /\ tick = "record"
          /\ TickTo("fail")
    /\ UNCHANGED <<docVars, waiting, memVars, lockVars, request, starts, crashes, dropped>>

\* Recording a failure, or parking for it, is itself refused: only the lock is given back.
FailureRefused ==
    /\ tick \in {"fail", "park"}
    /\ Release
    /\ TickTo("return")
    /\ dropped' = TRUE
    /\ UNCHANGED <<docVars, waiting, memVars, chat, request, starts, crashes>>

\* The handler throws outside the turn: the lane fails the row, nothing arms a timer.
TickRefused ==
    /\ tick \in {"read", "claim", "message", "reread", "arm"}
    /\ TickTo("return")
    /\ dropped' = TRUE
    /\ UNCHANGED <<docVars, waiting, memVars, lockVars, request, starts, crashes>>

\* queueTick() rejects (caught and logged), or the operator's request does.
OutsideRefused ==
    /\ \/ /\ \E q \in Ticks : qt[q] # "idle" /\ qt' = [qt EXCEPT ![q] = "idle"]
          /\ UNCHANGED <<request, resumed>>
       \/ /\ request \in {"stop", "delete"}
          /\ request' = "none"
          /\ UNCHANGED <<qt, resumed>>
       \/ /\ ~resumed
          /\ resumed' = TRUE
          /\ UNCHANGED <<qt, request>>
    /\ dropped' = TRUE
    /\ UNCHANGED <<docVars, waiting, timer, tick, lockVars, starts, crashes>>

RequestRefused ==
    /\ refused < MaxRefused
    /\ refused' = refused + 1
    /\ TurnRefused \/ FailureRefused \/ TickRefused \/ OutsideRefused
-----------------------------------------------------------------------------
(* Death and boot.                                                          *)

\* The lane writes the running row off; queued rows and the document remain.
Crash ==
    /\ crashes < MaxCrashes
    /\ crashes' = crashes + 1
    /\ timer' = "off" /\ resumed' = FALSE
    /\ qt' = [q \in Ticks |-> "idle"]
    /\ tick' = "idle"
    /\ busy' = 0 /\ chat' = [c \in Chats |-> FALSE]
    /\ request' = "none"
    /\ UNCHANGED <<docVars, waiting, starts, refused, dropped>>

\* resume(): a loop that was active is re-armed.
Resume ==
    /\ ~resumed
    /\ resumed' = TRUE
    /\ timer' = IF status \in Active THEN "later" ELSE timer
    /\ UNCHANGED <<docVars, waiting, qt, tick, lockVars, request, histVars>>
-----------------------------------------------------------------------------
TickStep ==
    \/ TickReads \/ WaitTimesOut \/ TickClaims \/ TurnBegins
    \/ TurnEnds \/ LoopDoneWrites \/ RecordTurn \/ RecordError \/ Park
    \/ TickRereads \/ Arm \/ Schedule \/ RowFinished

QueueTickStep(q) == QueueTickReads(q) \/ QueueTickChecks(q) \/ QueueTickInserts(q)

Next ==
    \/ TimerFires \/ \E q \in Ticks : QueueTickStep(q)
    \/ TakeRow \/ TickStep \/ LoopDoneReads \/ CancelRow
    \/ \E c \in Chats : ChatBegins(c) \/ ChatEnds(c)
    \/ StartWrites \/ StartArms \/ StopClears \/ StopWrites
    \/ DeleteForgets \/ DeleteRemoves
    \/ RequestRefused \/ Crash \/ Resume

Spec == Init /\ [][Next]_vars

\* Timers fire, requests are answered, turns end (loop_done may be called again and
\* again, never for ever), the lane takes a waiting row, and boot gets to resume().
\* Nothing is assumed of the operator or of the crashes.
Fairness ==
    /\ WF_vars(TimerFires) /\ WF_vars(TakeRow) /\ WF_vars(Resume)
    /\ WF_vars(StartArms) /\ WF_vars(StopWrites) /\ WF_vars(DeleteRemoves)
    /\ \A q \in Ticks : WF_vars(QueueTickStep(q))
    /\ WF_vars(TickStep) /\ SF_vars(TurnEnds)

FairSpec == Spec /\ Fairness
-----------------------------------------------------------------------------
TypeOK ==
    /\ status \in LoopStatus /\ streak \in 0..(MaxErrors + crashes + refused)
    /\ waiting \in Nat
    /\ timer \in {"off", "now", "later"} /\ resumed \in BOOLEAN
    /\ qt \in [Ticks -> QtPc]
    /\ tick \in TickPc
    /\ busy \in Nat /\ chat \in [Chats -> BOOLEAN]
    /\ request \in Requests
    /\ starts \in 0..MaxStarts /\ crashes \in 0..MaxCrashes
    /\ refused \in 0..MaxRefused /\ dropped \in BOOLEAN

\* The agent is free only when every session has released it, and never stays busy
\* without one (SessionLock): the counter is the number of live chats plus the turn of
\* the loop, on every path out of the turn.
LockBalanced ==
    busy = Cardinality({c \in Chats : chat[c]}) + (IF tick \in InTurn THEN 1 ELSE 0)

\* A loop that keeps failing is parked (tick()): an active loop has fewer than MaxErrors
\* failures in a row behind it.  A crash or a refused request may cost one more each,
\* for the count and the parking are two writes.
FailingLoopIsParked ==
    status \in Active /\ tick # "park" => streak < MaxErrors + crashes + refused

\* An agent that declared its goal achieved is not woken again (loop_done): a loop
\* that is done does not become active but by the operator's start.
DoneStaysDone ==
    [][status = "done" /\ starts' = starts => status' \notin Active]_vars

\* An active loop goes on: it gets to the lane again and again until it ends, through
\* crashes, busy agents, failing turns and requests refused within a turn, unless the
\* operator cancels its row in the lane, the first tick of a loop started again is taken
\* for a duplicate of a row the lane is still recording, or a request outside the turn is
\* refused.
LoopGoesOn ==
    \/ <>[](status \notin Active)
    \/ []<>(tick = "read")
    \/ <>dropped

\* "Operator stop. Terminal: restarting means starting a new loop." (stop())
StopIsTerminal ==
    [][status = "stopped" /\ starts' = starts => status' \notin Active]_vars
=============================================================================
