------------------------------ MODULE RunQueue ------------------------------
(***************************************************************************)
(* The run lane of backend/src/domain/run-queue: a Mongo collection that is *)
(* the queue, and one drain loop per process that claims a row, runs its    *)
(* handler and records the outcome.  Every `await` is a step boundary: a    *)
(* request takes effect in the database in one step and its reply is acted  *)
(* on in a later one, with anything of the same process in between.         *)
(***************************************************************************)
EXTENDS Naturals, FiniteSets

CONSTANTS Rows,       \* one element per call of enqueue(): a row it may insert
          Keys,       \* dedupe keys
          NoKey,      \* "this call carries no dedupe key"
          KeyOf,      \* [Rows -> Keys \cup {NoKey}]: the key of each call
          BasePrio,   \* [Rows -> Nat]: the priority each call asks for
          Handled,    \* rows whose source has a registered handler
          EarlyRows,  \* rows of Agenda jobs, which may fire before start() ends
          Loops,      \* identities of drain() invocations
          Presses,    \* identities of setPaused() calls: how many may be under way at once
          NoRow,      \* "no row"
          MaxPrio,    \* bound: the highest priority promote() may hand out
          MaxCrashes, \* bound: how often the process dies
          DbMayFail   \* whether a database request may be refused

ASSUME ConstAssumption ==
    /\ NoRow \notin Rows
    /\ NoKey \notin Keys
    /\ KeyOf \in [Rows -> Keys \cup {NoKey}]
    /\ BasePrio \in [Rows -> Nat]
    /\ Handled \subseteq Rows
    /\ EarlyRows \subseteq Rows
    /\ Loops # {}
    /\ MaxPrio \in Nat
    /\ MaxCrashes \in Nat
    /\ DbMayFail \in BOOLEAN

VARIABLES
    \* --- the run_queue collection and the settings document: survive a crash
    status,        \* [Rows -> RowStatus]
    prio,          \* [Rows -> Nat]: the row's priority
    at,            \* [Rows -> Nat]: queued_at, read from the clock by the caller
    clock,
    pausedSetting, \* settings.run_queue_paused
    \* --- the RunQueue singleton: lost in a crash
    phase,         \* how far boot has come
    started, paused, held, draining,
    \* --- drain() invocations
    pc,            \* [Loops -> LoopPc]
    cur,           \* [Loops -> Rows \cup {NoRow}]: the row a loop is busy with
    out,           \* [Loops -> Outcomes]: what it is about to record
    \* --- callers in the middle of an await
    enq,           \* [Rows -> EnqPc]: the enqueue() call of each row
    promo,         \* [Rows -> Nat]: 1 + the top priority promote() read, 0 when idle
    press,         \* [Presses -> PressPc]: the setPaused() calls
    \* --- history
    runs,          \* [Rows -> Nat]: how often a row's handler was started
    lateStarts,    \* handlers started since the lane was last paused or held
    crossed,       \* the last press found another one's write under way
    crashes

mongoVars == <<status, prio, at, clock, pausedSetting>>
procVars  == <<phase, started, paused, held, draining>>
loopVars  == <<pc, cur, out>>
callVars  == <<enq, promo, press>>
histVars  == <<runs, lateStarts, crossed, crashes>>
vars == <<mongoVars, procVars, loopVars, callVars, histVars>>

RowStatus == {"absent", "queued", "running", "done", "failed", "cancelled", "interrupted"}
Live      == {"queued", "running"}
Terminal  == {"done", "failed", "cancelled", "interrupted"}
Phases    == {"down", "agenda", "settings", "recover", "count", "up"}
LoopPc    == {"idle", "claim", "empty", "got", "run", "finish"}
Outcomes  == {"none", "done", "failed"}
EnqPc     == {"idle", "insert", "kick", "returned", "dropped"}
PressPc   == {"idle", "pause", "resume", "kick"}

Busy(l) == pc[l] # "idle"
Queued  == {r \in Rows : status[r] = "queued"}
Writing == {b \in Presses : press[b] \in {"pause", "resume"}}

Init ==
    /\ status = [r \in Rows |-> "absent"]
    /\ prio = BasePrio
    /\ at = [r \in Rows |-> 0]
    /\ clock = 0
    /\ pausedSetting \in BOOLEAN
    /\ phase = "down"
    /\ started = FALSE /\ paused = FALSE /\ held = FALSE /\ draining = FALSE
    /\ pc = [l \in Loops |-> "idle"]
    /\ cur = [l \in Loops |-> NoRow]
    /\ out = [l \in Loops |-> "none"]
    /\ enq = [r \in Rows |-> "idle"]
    /\ promo = [r \in Rows |-> 0]
    /\ press = [b \in Presses |-> "idle"]
    /\ runs = [r \in Rows |-> 0]
    /\ lateStarts = 0
    /\ crossed = FALSE
    /\ crashes = 0

-----------------------------------------------------------------------------
(* drain(): the re-entrancy guard and the first test of the loop condition  *)
(* run synchronously in the caller, up to the claim request.  Given the     *)
(* values of `started`, `paused` and `held` at the call.                    *)

\* Mutant of Drain: no re-entrancy guard.
DrainReentrant(isStarted, isPaused, isHeld) ==
    IF ~isStarted \/ isPaused \/ isHeld
    THEN UNCHANGED <<draining, pc>>
    ELSE /\ draining' = TRUE
         /\ \E l \in Loops : /\ ~Busy(l)
                             /\ pc' = [pc EXCEPT ![l] = "claim"]

Drain(isStarted, isPaused, isHeld) ==
    IF draining \/ ~isStarted \/ isPaused \/ isHeld
    THEN UNCHANGED <<draining, pc>>
    ELSE /\ draining' = TRUE
         /\ \E l \in Loops : /\ ~Busy(l)
                             /\ pc' = [pc EXCEPT ![l] = "claim"]

\* The sort of claim(): higher priority first, then the older queued_at.
Ahead(a, b) == \/ prio[a] > prio[b]
               \/ prio[a] = prio[b] /\ at[a] <= at[b]

\* claim() takes effect in the database: the best queued row, or nothing.
Claim(l) ==
    /\ pc[l] = "claim"
    /\ \/ \E r \in Queued :
            /\ \A q \in Queued : Ahead(r, q)
            /\ status' = [status EXCEPT ![r] = "running"]
            /\ pc' = [pc EXCEPT ![l] = "got"]
            /\ cur' = [cur EXCEPT ![l] = r]
       \/ /\ Queued = {}
          /\ pc' = [pc EXCEPT ![l] = "empty"]
          /\ UNCHANGED <<status, cur>>
    /\ UNCHANGED <<prio, at, clock, pausedSetting, procVars, out, callVars, histVars>>

\* Mutant of DrainDone: the flag is not cleared in a `finally`.
DrainDoneKeepsFlag(l) ==
    /\ pc[l] = "empty"
    /\ pc' = [pc EXCEPT ![l] = "idle"]
    /\ UNCHANGED <<mongoVars, procVars, cur, out, callVars, histVars>>

\* The reply said null: break, and the `finally` clears the flag.
DrainDone(l) ==
    /\ pc[l] = "empty"
    /\ pc' = [pc EXCEPT ![l] = "idle"]
    /\ draining' = FALSE
    /\ UNCHANGED <<mongoVars, phase, started, paused, held, cur, out, callVars, histVars>>

\* Mutant of RunOne: a row whose source has no handler waits for one to register.
RunOneWaitsForHandler(l) ==
    /\ pc[l] = "got"
    /\ cur[l] \in Handled
    /\ pc' = [pc EXCEPT ![l] = "run"]
    /\ runs' = [runs EXCEPT ![cur[l]] = @ + 1]
    /\ lateStarts' = IF paused \/ held THEN lateStarts + 1 ELSE lateStarts
    /\ UNCHANGED <<mongoVars, procVars, cur, out, callVars, crossed, crashes>>

\* The reply carried a row: runOne() starts its handler, or fails the row
\* when its source never registered one.
RunOne(l) ==
    /\ pc[l] = "got"
    /\ \/ /\ cur[l] \in Handled
          /\ pc' = [pc EXCEPT ![l] = "run"]
          /\ runs' = [runs EXCEPT ![cur[l]] = @ + 1]
          /\ lateStarts' = IF paused \/ held THEN lateStarts + 1 ELSE lateStarts
          /\ UNCHANGED out
       \/ /\ cur[l] \notin Handled
          /\ pc' = [pc EXCEPT ![l] = "finish"]
          /\ out' = [out EXCEPT ![l] = "failed"]
          /\ UNCHANGED <<runs, lateStarts>>
    /\ UNCHANGED <<mongoVars, procVars, cur, callVars, crossed, crashes>>

\* The handler settles: it returned, or it threw.
HandlerEnds(l) ==
    /\ pc[l] = "run"
    /\ \E o \in {"done", "failed"} : out' = [out EXCEPT ![l] = o]
    /\ pc' = [pc EXCEPT ![l] = "finish"]
    /\ UNCHANGED <<mongoVars, procVars, cur, callVars, histVars>>

\* Mutant of Finish: the loop goes round without testing the switches again.
FinishGoesOn(l) ==
    /\ pc[l] = "finish"
    /\ status' = [status EXCEPT ![cur[l]] = out[l]]
    /\ cur' = [cur EXCEPT ![l] = NoRow]
    /\ out' = [out EXCEPT ![l] = "none"]
    /\ pc' = [pc EXCEPT ![l] = "claim"]
    /\ UNCHANGED <<prio, at, clock, pausedSetting, procVars, callVars, histVars>>

\* finish() overwrites the status whatever it was, and the loop goes round.
Finish(l) ==
    /\ pc[l] = "finish"
    /\ status' = [status EXCEPT ![cur[l]] = out[l]]
    /\ cur' = [cur EXCEPT ![l] = NoRow]
    /\ out' = [out EXCEPT ![l] = "none"]
    /\ IF paused \/ held
       THEN pc' = [pc EXCEPT ![l] = "idle"] /\ draining' = FALSE
       ELSE pc' = [pc EXCEPT ![l] = "claim"] /\ UNCHANGED draining
    /\ UNCHANGED <<prio, at, clock, pausedSetting, phase, started, paused, held, callVars, histVars>>

\* A refused write of "done" is caught by runOne() and retried as "failed";
\* a refused write of "failed", or a refused claim, ends the drain.
RequestFails(l) ==
    /\ DbMayFail
    /\ \/ /\ pc[l] = "finish" /\ out[l] = "done"
          /\ out' = [out EXCEPT ![l] = "failed"]
          /\ UNCHANGED <<pc, cur, draining>>
       \/ /\ pc[l] = "claim" \/ (pc[l] = "finish" /\ out[l] = "failed")
          /\ pc' = [pc EXCEPT ![l] = "idle"]
          /\ cur' = [cur EXCEPT ![l] = NoRow]
          /\ out' = [out EXCEPT ![l] = "none"]
          /\ draining' = FALSE
    /\ UNCHANGED <<mongoVars, phase, started, paused, held, callVars, histVars>>
-----------------------------------------------------------------------------
(* enqueue(): the duplicate check, the insert and the kick are three steps. *)

CanCall(r) == phase = "up" \/ (r \in EarlyRows /\ phase # "down")

IsPending(k) == k # NoKey /\ \E r \in Rows : KeyOf[r] = k /\ status[r] \in Live

EnqueueCheck(r) ==
    /\ enq[r] = "idle" /\ CanCall(r)
    /\ \/ /\ IsPending(KeyOf[r])
          /\ enq' = [enq EXCEPT ![r] = "dropped"]
          /\ UNCHANGED <<at, clock>>
       \/ /\ ~IsPending(KeyOf[r])
          /\ enq' = [enq EXCEPT ![r] = "insert"]
          /\ at' = [at EXCEPT ![r] = clock]
          /\ clock' = clock + 1
    /\ UNCHANGED <<status, prio, pausedSetting, procVars, loopVars, promo, press, histVars>>

EnqueueInsert(r) ==
    /\ enq[r] = "insert"
    /\ status' = [status EXCEPT ![r] = "queued"]
    /\ enq' = [enq EXCEPT ![r] = "kick"]
    /\ UNCHANGED <<prio, at, clock, pausedSetting, procVars, loopVars, promo, press, histVars>>

EnqueueKick(r) ==
    /\ enq[r] = "kick"
    /\ enq' = [enq EXCEPT ![r] = "returned"]
    /\ Drain(started, paused, held)
    /\ UNCHANGED <<mongoVars, phase, started, paused, held, cur, out, promo, press, histVars>>
-----------------------------------------------------------------------------
(* The operator's routes, and maintenance mode's hold().                    *)

\* Mutant of Cancel: the update is filtered on the id alone.
CancelById(r) ==
    /\ phase = "up"
    /\ status[r] # "absent"
    /\ status' = [status EXCEPT ![r] = "cancelled"]
    /\ UNCHANGED <<prio, at, clock, pausedSetting, procVars, loopVars, callVars, histVars>>

Cancel(r) ==
    /\ phase = "up"
    /\ status[r] = "queued"
    /\ status' = [status EXCEPT ![r] = "cancelled"]
    /\ UNCHANGED <<prio, at, clock, pausedSetting, procVars, loopVars, callVars, histVars>>

\* promote() reads the highest queued priority (0 when nothing is queued) ...
PromoteRead(r) ==
    /\ phase = "up" /\ promo[r] = 0 /\ status[r] = "queued"
    /\ \E q \in Queued : /\ \A p \in Queued : prio[q] >= prio[p]
                         /\ prio[q] < MaxPrio
                         /\ promo' = [promo EXCEPT ![r] = prio[q] + 1]
    /\ UNCHANGED <<mongoVars, procVars, loopVars, enq, press, histVars>>

\* ... and writes one above it, if the row is still queued.
PromoteWrite(r) ==
    /\ promo[r] # 0
    /\ promo' = [promo EXCEPT ![r] = 0]
    /\ prio' = IF status[r] = "queued" THEN [prio EXCEPT ![r] = promo[r]] ELSE prio
    /\ UNCHANGED <<status, at, clock, pausedSetting, procVars, loopVars, enq, press, histVars>>

\* setPaused(): the flag flips at once, and the settings write is sent.  Nothing keeps a
\* second press from being made before the first one's write has landed.
SetPaused(b, on) ==
    /\ phase = "up" /\ press[b] = "idle"
    /\ paused' = on
    /\ press' = [press EXCEPT ![b] = IF on THEN "pause" ELSE "resume"]
    /\ lateStarts' = IF on THEN 0 ELSE lateStarts
    /\ crossed' = (Writing # {})
    /\ UNCHANGED <<mongoVars, phase, started, held, draining, loopVars, enq, promo, runs, crashes>>

\* A write lands, in any order with the others ...
PressStored(b) ==
    /\ b \in Writing
    /\ pausedSetting' = (press[b] = "pause")
    /\ press' = [press EXCEPT ![b] = IF @ = "resume" THEN "kick" ELSE "idle"]
    /\ UNCHANGED <<status, prio, at, clock, procVars, loopVars, enq, promo, histVars>>

\* ... and a resume, once answered, kicks the lane.
PressAnswered(b) ==
    /\ press[b] = "kick"
    /\ press' = [press EXCEPT ![b] = "idle"]
    /\ Drain(started, paused, held)
    /\ UNCHANGED <<mongoVars, phase, started, paused, held, cur, out, enq, promo, histVars>>

\* The write is refused, or its reply is lost: setPaused() throws, the flag stays.
PressRefused(b) ==
    /\ DbMayFail /\ press[b] # "idle"
    /\ press' = [press EXCEPT ![b] = "idle"]
    /\ UNCHANGED <<mongoVars, procVars, loopVars, enq, promo, histVars>>

Hold(on) ==
    /\ phase = "up" /\ held # on
    /\ held' = on
    /\ lateStarts' = IF on THEN 0 ELSE lateStarts
    /\ IF on THEN UNCHANGED <<draining, pc>> ELSE Drain(started, paused, FALSE)
    /\ UNCHANGED <<mongoVars, phase, started, paused, cur, out, callVars, runs, crossed, crashes>>
-----------------------------------------------------------------------------
(* Boot and death of the process.                                           *)

\* Sources are imported and Agenda is live; the lane has not been started.
Boot ==
    /\ phase = "down"
    /\ phase' = "agenda"
    /\ UNCHANGED <<mongoVars, started, paused, held, draining, loopVars, callVars, histVars>>

\* start(): `started` is set before anything has been awaited.
StartBegins ==
    /\ phase = "agenda"
    /\ phase' = "settings"
    /\ started' = TRUE
    /\ UNCHANGED <<mongoVars, paused, held, draining, loopVars, callVars, histVars>>

\* Mutant of StartReadsPause: the stored switch is not loaded.
StartForgetsPause ==
    /\ phase = "settings"
    /\ phase' = "recover"
    /\ UNCHANGED <<mongoVars, started, paused, held, draining, loopVars, callVars, histVars>>

StartReadsPause ==
    /\ phase = "settings"
    /\ \/ phase' = "recover" /\ paused' = pausedSetting
       \/ DbMayFail /\ phase' = "up" /\ UNCHANGED paused  \* start() rejects; boot goes on
    /\ UNCHANGED <<mongoVars, started, held, draining, loopVars, callVars, histVars>>

\* Mutants of Recover: it re-queues what it finds, does nothing, or writes a status
\* the schema does not have.
RecoverRequeues ==
    /\ phase = "recover"
    /\ phase' = "count"
    /\ status' = [r \in Rows |-> IF status[r] = "running" THEN "queued" ELSE status[r]]
    /\ UNCHANGED <<prio, at, clock, pausedSetting, started, paused, held, draining, loopVars,
                   callVars, histVars>>

RecoverSkipped ==
    /\ phase = "recover"
    /\ phase' = "count"
    /\ UNCHANGED <<mongoVars, started, paused, held, draining, loopVars, callVars, histVars>>

RecoverAborts ==
    /\ phase = "recover"
    /\ phase' = "count"
    /\ status' = [r \in Rows |-> IF status[r] = "running" THEN "aborted" ELSE status[r]]
    /\ UNCHANGED <<prio, at, clock, pausedSetting, started, paused, held, draining, loopVars,
                   callVars, histVars>>

\* recover(): every row left "running" is written off, in one updateMany.
Recover ==
    /\ phase = "recover"
    /\ phase' = "count"
    /\ \/ status' = [r \in Rows |-> IF status[r] = "running" THEN "interrupted" ELSE status[r]]
       \/ DbMayFail /\ UNCHANGED status                    \* caught and logged
    /\ UNCHANGED <<prio, at, clock, pausedSetting, started, paused, held, draining, loopVars,
                   callVars, histVars>>

StartKicks ==
    /\ phase = "count"
    /\ phase' = "up"
    /\ Drain(started, paused, held)
    /\ UNCHANGED <<mongoVars, started, paused, held, cur, out, callVars, histVars>>

Crash ==
    /\ phase # "down" /\ crashes < MaxCrashes
    /\ crashes' = crashes + 1
    /\ phase' = "down"
    /\ started' = FALSE /\ paused' = FALSE /\ held' = FALSE /\ draining' = FALSE
    /\ pc' = [l \in Loops |-> "idle"]
    /\ cur' = [l \in Loops |-> NoRow]
    /\ out' = [l \in Loops |-> "none"]
    /\ enq' = [r \in Rows |-> IF enq[r] \in {"insert", "kick"} THEN "dropped" ELSE enq[r]]
    /\ promo' = [r \in Rows |-> 0]
    /\ press' = [b \in Presses |-> "idle"]
    /\ lateStarts' = 0
    /\ crossed' = FALSE
    /\ UNCHANGED <<mongoVars, runs>>
-----------------------------------------------------------------------------
LoopStep(l) == Claim(l) \/ DrainDone(l) \/ RunOne(l) \/ HandlerEnds(l) \/ Finish(l)

BootStep == Boot \/ StartBegins \/ StartReadsPause \/ Recover \/ StartKicks

Next ==
    \/ \E l \in Loops : LoopStep(l) \/ RequestFails(l)
    \/ \E r \in Rows : \/ EnqueueCheck(r) \/ EnqueueInsert(r) \/ EnqueueKick(r)
                       \/ Cancel(r) \/ PromoteRead(r) \/ PromoteWrite(r)
    \/ \E b \in Presses : \/ \E on \in BOOLEAN : SetPaused(b, on)
                          \/ PressStored(b) \/ PressAnswered(b) \/ PressRefused(b)
    \/ \E on \in BOOLEAN : Hold(on)
    \/ BootStep
    \/ Crash

Spec == Init /\ [][Next]_vars

\* Requests are answered, handlers end (a turn has an iteration ceiling and its
\* calls have timeouts), the container restarts, and a claim or a resume that is made
\* again and again is not refused every time.  Nothing is assumed of the sources, of the
\* operator or of the crashes.
Fairness ==
    /\ \A l \in Loops : WF_vars(LoopStep(l)) /\ SF_vars(Claim(l))
    /\ \A r \in Rows : WF_vars(EnqueueInsert(r)) /\ WF_vars(EnqueueKick(r))
    /\ \A b \in Presses : SF_vars(PressStored(b)) /\ SF_vars(PressAnswered(b))
    /\ WF_vars(BootStep)

FairSpec == Spec /\ Fairness
-----------------------------------------------------------------------------
TypeOK ==
    /\ status \in [Rows -> RowStatus]
    /\ prio \in [Rows -> Nat]
    /\ at \in [Rows -> Nat]
    /\ clock \in Nat
    /\ pausedSetting \in BOOLEAN
    /\ phase \in Phases
    /\ started \in BOOLEAN /\ paused \in BOOLEAN /\ held \in BOOLEAN /\ draining \in BOOLEAN
    /\ pc \in [Loops -> LoopPc]
    /\ cur \in [Loops -> Rows \cup {NoRow}]
    /\ out \in [Loops -> Outcomes]
    /\ enq \in [Rows -> EnqPc]
    /\ promo \in [Rows -> Nat]
    /\ press \in [Presses -> PressPc]
    /\ runs \in [Rows -> Nat]
    /\ lateStarts \in Nat
    /\ crossed \in BOOLEAN
    /\ crashes \in Nat

\* One turn at a time across every source (run-queue.service.ts, the class comment):
\* whatever kicks the lane, and however kicks and replies interleave, two drain loops
\* are never between a claim and the write of its outcome.
OneTurnAtATime == \A l, m \in Loops : Busy(l) /\ Busy(m) => l = m

\* A turn is not repeated: its handler is started at most once in the life of the
\* row, over any number of restarts (recover() writes off, it does not re-queue).
RunAtMostOnce == \A r \in Rows : runs[r] <= 1

\* The row a loop is busy with is "running" in the database for as long as the loop
\* has it: no cancel, promote, enqueue or recovery takes it away under the handler.
HeldRowIsRunning == \A l \in Loops : cur[l] # NoRow => status[cur[l]] = "running"

\* The holder the operator is shown is real (snapshot()): once boot has recovered, a
\* row that reads "running" is the row some loop of this process is busy with.
RunningIsHeld ==
    phase \in {"count", "up"} => \A r \in Rows : status[r] = "running" => \E l \in Loops : cur[l] = r

\* The operator's switch is what the lane obeys: with no write of it in flight, the
\* flag in memory equals the stored one, across restarts, unless the last press was
\* made while another's write was under way (setPaused() does not wait for it).
PauseInSync ==
    phase \in {"recover", "count", "up"} /\ Writing = {} /\ ~crossed => paused = pausedSetting

\* The same without the exception.  It does not hold: the writes of a pause and of a
\* resume may land in the other order, and the lane then runs with a stored pause (or
\* is shut with none) until the next press or restart.
SwitchIsObeyed ==
    phase \in {"recover", "count", "up"} /\ Writing = {} => paused = pausedSetting

\* What became of a turn is written once: a finished row never changes again.
TerminalIsFinal ==
    [][\A r \in Rows : status[r] \in Terminal => status'[r] = status[r]]_vars

\* A lane stored as paused stays shut, also through a restart: no drain starts while
\* the stored switch says paused, unless the operator is just lifting it, or pressed
\* last while another press was still being written.
PausedLaneStaysShut ==
    [][~draining /\ draining' => \/ ~pausedSetting'
                                \/ crossed
                                \/ \E b \in Presses : press[b] = "resume"]_vars

\* Shutting the lane lets at most one more turn through: the one whose claim was
\* already under way. The flags are tested again before every claim, so a restore or
\* a pause that has waited out one turn is not surprised by another.
ShutLetsOneThrough == paused \/ held => lateStarts <= 1

\* Nothing happens in the lane any more, and nothing under way will start it.
LaneAsleep ==
    /\ phase = "up" /\ started /\ ~paused /\ ~held /\ ~draining
    /\ \A l \in Loops : ~Busy(l)
    /\ \A r \in Rows : enq[r] \notin {"insert", "kick"}
    /\ \A b \in Presses : press[b] = "idle"

\* "One row at a time, for as long as there are rows. A re-entrant call returns; the
\* loop takes them" (drain()): an open, idle lane has no row waiting in it.
NoStrandedRow == LaneAsleep => Queued = {}

\* The lane is always given back: whatever a row's handler does and whichever request
\* is refused, no loop is busy with the same row for ever.
TurnSettles == \A r \in Rows : (\E l \in Loops : cur[l] = r) ~> (\A l \in Loops : cur[l] # r)

\* A waiting row of an open lane is taken, unless the lane fell asleep on it or the
\* operator shut the lane: a refused request never leaves the lane locked.
LaneKeepsMoving ==
    \A r \in Rows : status[r] = "queued" ~> \/ status[r] # "queued"
                                            \/ phase # "up" \/ paused \/ held
                                            \/ LaneAsleep

\* The abstract lane: its holder is the row some loop is busy with.
holder == IF \E l \in Loops : cur[l] # NoRow
          THEN cur[CHOOSE l \in Loops : cur[l] # NoRow] ELSE NoRow

Lane == INSTANCE RunLane
        WITH Rows <- Rows, NoRow <- NoRow, status <- status, holder <- holder

\* The lane promised by RunLane: exclusive, each turn taken at most once and its
\* outcome written once, whatever the interleaving of kicks, replies and crashes.
LaneIsImplemented == Lane!Spec
=============================================================================
