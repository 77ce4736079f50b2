----------------------------- MODULE FlowTimer ------------------------------
(***************************************************************************)
(* The Time trigger of one flow: flows/TimerScheduler.ts, its callers in    *)
(* the HTTP routes and the timer node, and what maintenance mode            *)
(* (domain/migration/maintenance-mode.ts) and a restart do to it.           *)
(* A step ends where the code awaits: arm() and tick() read the flow and    *)
(* act on the answer later, disarm() writes after it has acted.  The run a  *)
(* tick starts is FlowRunner's business: here it goes on, may reach its     *)
(* timer node, and ends well or badly.                                      *)
(***************************************************************************)
EXTENDS Naturals, FiniteSets

CONSTANTS Arms,        \* identities of arm() calls
          Ticks,       \* identities of tick() calls
          Intervals,   \* values of interval_seconds the operator may set
          NoTimer,     \* the interval of a flow without its Time node, outside Intervals
          MaxFailures, \* max_failures, in every version of the flow
          MaxEdits,    \* bound: requests of the operator
          MaxMishaps   \* bound: how often the process dies, or a database request is refused or
                       \* takes longer than the interval

ASSUME FlowTimerAssumption ==
    /\ IsFiniteSet(Arms) /\ IsFiniteSet(Ticks) /\ Intervals # {} /\ NoTimer \notin Intervals
    /\ MaxFailures \in Nat \ {0}
    /\ MaxEdits \in Nat /\ MaxMishaps \in Nat

VARIABLES
    flow,    \* the flow document: exists, enabled, armed (timer_armed), interval
    entry,   \* FlowTimerScheduler.armed: the ArmedTimer of this flow, 0 for none
    timers,  \* ArmedTimers whose setInterval is live
    info,    \* [Entries -> [interval, running, failures]]: the ArmedTimer objects
    arm,     \* [Arms -> [pc, mode, every]]: arm() calls, who called, the interval read
    tick,    \* [Ticks -> [pc, id]]: tick() calls and the entry in hand
    op,      \* the disarm() of a request of the operator: "none" or "persist"
    maint,   \* maintenance mode: "off", "entering", "on", "left" (off, after a failed restore)
    boot,    \* "restoring" until restore() has listed the flows
    \* --- history: the bounds; two calls overlapped, or one was refused; an entry was
    \* created while a tick was under way, in this process; a tick fired before an earlier
    \* one had decided, and ticks have been under way since; arm() found no Time node for
    \* an armed flow that was not ticking, and has created no entry since
    edits, upsets, refused, disturbed, replaced, crowded, nodeless

Entries == 1 .. Cardinality(Ticks)
callVars == <<arm, tick, op>>
modeVars == <<maint, boot>>
boundVars == <<edits, upsets, refused>>
marks == <<replaced, crowded, nodeless>>
histVars == <<boundVars, disturbed, marks>>
vars == <<flow, entry, timers, info, callVars, modeVars, histVars>>

Modes  == {"auto", "operator", "silent"}   \* the persist option: true, undefined, false
ArmPc  == {"idle", "read", "act", "persist"}
Saw    == {"gone", "disabled", "fine"}     \* what a tick has read
TickPc == {"idle", "read", "run", "persist"} \union Saw
Idle   == [pc |-> "idle", id |-> 0]

InFlight == {t \in Ticks : tick[t].pc # "idle"}
\* The calls that have something of the flow or its timer in hand.
Calls == {a \in Arms : arm[a].pc # "idle"} \union {t \in Ticks : tick[t].pc \notin {"idle", "run"}}
         \union (IF op = "none" THEN {} ELSE {"op"})
Overlap == disturbed' = (disturbed \/ Calls # {})

\* An ArmedTimer nothing refers to stands for a new one; Entries bounds how many there
\* are at a time.
Spare == {id \in Entries : id # entry /\ id \notin timers
                           /\ \A t \in Ticks : tick[t].id # id}
Fresh == CHOOSE id \in Spare : TRUE

Blank == [interval |-> CHOOSE i \in Intervals : TRUE, running |-> FALSE, failures |-> 0]
NoArm == [pc |-> "idle", mode |-> "auto", every |-> Blank.interval]

\* The objects nothing refers to any more are forgotten.
Keep(objects) ==
    info' = [id \in Entries |->
                IF id = entry' \/ id \in timers' \/ \E t \in Ticks : tick'[t].id = id
                THEN objects[id] ELSE Blank]

Init ==
    /\ flow \in [exists : {TRUE}, enabled : {TRUE}, armed : BOOLEAN, interval : {Blank.interval}]
    /\ entry = 0 /\ timers = {}
    /\ info = [id \in Entries |-> Blank]
    /\ arm = [a \in Arms |-> NoArm]
    /\ tick = [t \in Ticks |-> Idle]
    /\ op = "none" /\ maint = "off" /\ boot = "restoring"
    /\ edits = 0 /\ upsets = 0 /\ refused = 0
    /\ disturbed = FALSE /\ replaced = FALSE /\ crowded = FALSE /\ nodeless = FALSE

Goes   == UNCHANGED <<refused, disturbed>>
Refuse == refused + upsets < MaxMishaps /\ refused' = refused + 1 /\ disturbed' = TRUE
Upset  == refused + upsets < MaxMishaps /\ upsets' = upsets + 1

\* persist(): an update of a flow that may be gone; a refusal is logged.
Persist(value) ==
    \/ Goes /\ flow' = IF flow.exists THEN [flow EXCEPT !.armed = value] ELSE flow
    \/ Refuse /\ UNCHANGED flow

\* The part of disarm() before its write.
Forget == entry' = 0 /\ timers' = timers \ {entry}

HasTimer == flow.interval # NoTimer
OnAir    == flow.exists /\ flow.enabled /\ flow.armed /\ HasTimer
-----------------------------------------------------------------------------
(* arm().                                                                   *)

StartArm(mode) ==
    \E a \in Arms : /\ arm[a].pc = "idle"
                    /\ arm' = [arm EXCEPT ![a] = [NoArm EXCEPT !.pc = "read", !.mode = mode]]

\* The database answers; when the flow or its Time node is gone, or the read refused, arm()
\* throws.
ArmReads(a) ==
    /\ arm[a].pc = "read"
    /\ \/ /\ Goes /\ flow.exists /\ HasTimer
          /\ arm' = [arm EXCEPT ![a].pc = "act", ![a].every = flow.interval]
          /\ UNCHANGED nodeless
       \/ /\ \/ Goes /\ ~(flow.exists /\ HasTimer)
             \/ Refuse
          /\ arm' = [arm EXCEPT ![a] = NoArm]
          /\ nodeless' = (nodeless \/ (flow.armed /\ ~HasTimer /\ entry = 0))
    /\ UNCHANGED <<flow, entry, timers, info, tick, op, modeVars, edits, upsets, replaced, crowded>>

\* What is left of the call is its write, if it makes one.
WritesIf(a, writes) ==
    arm' = [arm EXCEPT ![a] = IF writes THEN [NoArm EXCEPT !.pc = "persist"] ELSE NoArm]

\* Mutant of ArmActs: the interval that is replaced is not cleared.
ArmActsLeaks(a) ==
    /\ arm[a].pc = "act"
    /\ UNCHANGED <<flow, tick, op, modeVars, boundVars, disturbed, crowded>>
    /\ ~(entry # 0 /\ info[entry].interval = arm[a].every)
    /\ Spare # {} /\ entry' = Fresh /\ timers' = timers \union {entry'}
    /\ Keep([info EXCEPT ![entry'] = [Blank EXCEPT !.interval = arm[a].every]])
    /\ replaced' = (replaced \/ InFlight # {}) /\ nodeless' = FALSE
    /\ WritesIf(a, arm[a].mode # "silent")

\* The map is looked at only now: a countdown of the same interval is left alone, any
\* other is replaced.
ArmActs(a) ==
    /\ arm[a].pc = "act"
    /\ UNCHANGED <<flow, tick, op, modeVars, boundVars, disturbed, crowded>>
    /\ \/ /\ entry # 0 /\ info[entry].interval = arm[a].every
          /\ WritesIf(a, arm[a].mode = "auto")
          /\ UNCHANGED <<entry, timers, info, replaced, nodeless>>
       \/ /\ ~(entry # 0 /\ info[entry].interval = arm[a].every)
          /\ Spare # {} /\ entry' = Fresh /\ timers' = (timers \ {entry}) \union {entry'}
          /\ Keep([info EXCEPT ![entry'] = [Blank EXCEPT !.interval = arm[a].every]])
          /\ replaced' = (replaced \/ InFlight # {}) /\ nodeless' = FALSE
          /\ WritesIf(a, arm[a].mode # "silent")

ArmPersists(a) ==
    /\ arm[a].pc = "persist"
    /\ Persist(TRUE)
    /\ arm' = [arm EXCEPT ![a] = NoArm]
    /\ UNCHANGED <<entry, timers, info, tick, op, modeVars, edits, upsets, marks>>

\* The timer node arms its flow in every run of it, which a tick, the operator, a schedule
\* or an agent may have started; the run does not wait for the arming.  (Runs that get
\* there before restore() has listed the flows are left out.)
NodeArms ==
    /\ flow.exists /\ boot = "up"
    /\ StartArm("auto") /\ Overlap
    /\ UNCHANGED <<flow, entry, timers, info, tick, op, modeVars, boundVars, marks>>
-----------------------------------------------------------------------------
(* tick().  The least interval is 5 s and a read may take longer: the next  *)
(* tick finds `running' not yet set.  A flow that has lost its Time node    *)
(* ticks on.                                                                *)

TickTo(t, pc, id) ==
    /\ tick' = [tick EXCEPT ![t] = [pc |-> pc, id |-> id]]
    /\ crowded' = (crowded /\ \E u \in Ticks : tick'[u].pc # "idle")

Undecided == {t \in Ticks : tick[t].pc \in {"read"} \union Saw}

TickFires(t, id) ==
    /\ id \in timers /\ tick[t].pc = "idle"
    /\ entry # 0 /\ ~info[entry].running
    /\ IF Undecided # {} /\ timers = {id} THEN Upset ELSE UNCHANGED upsets
    /\ tick' = [tick EXCEPT ![t] = [pc |-> "read", id |-> entry]]
    /\ crowded' = (crowded \/ Undecided # {})
    /\ Overlap
    /\ UNCHANGED <<flow, entry, timers, info, arm, op, modeVars, edits, refused, replaced, nodeless>>

\* The database answers; a refused read counts as a flow that is gone.
TickReads(t) ==
    /\ tick[t].pc = "read"
    /\ \/ Goes /\ tick' = [tick EXCEPT ![t].pc = IF ~flow.exists THEN "gone"
                                                   ELSE IF ~flow.enabled THEN "disabled" ELSE "fine"]
       \/ Refuse /\ tick' = [tick EXCEPT ![t].pc = "gone"]
    /\ UNCHANGED <<flow, entry, timers, info, arm, op, modeVars, edits, upsets, marks>>

\* Mutant of TickActs: a run does not mark its entry.
TickActsUnmarked(t) ==
    /\ \/ /\ tick[t].pc = "gone"
          /\ Forget /\ TickTo(t, "persist", 0)
       \/ /\ tick[t].pc = "disabled"
          /\ entry' = 0 /\ timers' = timers \ {tick[t].id}
          /\ TickTo(t, "idle", 0)
       \/ /\ tick[t].pc = "fine"
          /\ TickTo(t, "run", tick[t].id)
          /\ UNCHANGED <<entry, timers>>
    /\ Keep(info)
    /\ UNCHANGED <<flow, arm, op, modeVars, boundVars, disturbed, replaced, nodeless>>

\* Mutant of TickActs: a disabled flow's tick is only skipped.
TickActsSkipping(t) ==
    /\ \/ /\ tick[t].pc = "gone"
          /\ Forget /\ TickTo(t, "persist", 0)
       \/ /\ tick[t].pc = "disabled"
          /\ TickTo(t, "idle", 0)
          /\ UNCHANGED <<entry, timers>>
       \/ /\ tick[t].pc = "fine"
          /\ TickTo(t, "run", tick[t].id)
          /\ UNCHANGED <<entry, timers>>
    /\ Keep(IF tick[t].pc = "fine" THEN [info EXCEPT ![tick[t].id].running = TRUE] ELSE info)
    /\ UNCHANGED <<flow, arm, op, modeVars, boundVars, disturbed, replaced, nodeless>>

\* Gone: disarm.  Disabled: clear the interval of the entry in hand and delete the
\* flow's entry, whichever that is by now.  Else run.
TickActs(t) ==
    /\ \/ /\ tick[t].pc = "gone"
          /\ Forget /\ TickTo(t, "persist", 0)
       \/ /\ tick[t].pc = "disabled"
          /\ entry' = 0 /\ timers' = timers \ {tick[t].id}
          /\ TickTo(t, "idle", 0)
       \/ /\ tick[t].pc = "fine"
          /\ TickTo(t, "run", tick[t].id)
          /\ UNCHANGED <<entry, timers>>
    /\ Keep(IF tick[t].pc = "fine" THEN [info EXCEPT ![tick[t].id].running = TRUE] ELSE info)
    /\ UNCHANGED <<flow, arm, op, modeVars, boundVars, disturbed, replaced, nodeless>>

\* The entry of a tick whose run ends well (the count is reset) or badly.
Counted(t, failures) == [info EXCEPT ![tick[t].id].running = FALSE, ![tick[t].id].failures = failures]

\* The run ends; at the limit the timer is disarmed.
RunEnds(t) ==
    /\ tick[t].pc = "run"
    /\ \E failures \in {0, info[tick[t].id].failures + 1} :
         /\ \/ /\ failures < MaxFailures
               /\ TickTo(t, "idle", 0)
               /\ UNCHANGED <<entry, timers, disturbed>>
            \/ /\ failures >= MaxFailures
               /\ Forget /\ Overlap
               /\ TickTo(t, "persist", 0)
         /\ Keep(Counted(t, failures))
    /\ UNCHANGED <<flow, arm, op, modeVars, boundVars, replaced, nodeless>>

\* The write of disarm(); after repeated failures the stream is stopped next.
TickPersists(t) ==
    /\ tick[t].pc = "persist"
    /\ Persist(FALSE)
    /\ TickTo(t, "idle", 0)
    /\ UNCHANGED <<entry, timers, info, arm, op, modeVars, edits, upsets, replaced, nodeless>>
-----------------------------------------------------------------------------
(* The operator's requests; maintenance refuses them.                       *)

Request == /\ boot = "up" /\ maint \in {"off", "left"}
           /\ edits < MaxEdits /\ edits' = edits + 1

OperatorArms ==
    /\ Request /\ flow.exists
    /\ StartArm("operator") /\ Overlap
    /\ UNCHANGED <<flow, entry, timers, info, tick, op, modeVars, upsets, refused, marks>>

OperatorDisarms ==
    /\ Request /\ op = "none"
    /\ Forget /\ op' = "persist" /\ Overlap
    /\ UNCHANGED <<flow, arm, tick, modeVars, upsets, refused, marks>>
    /\ Keep(info)

DisarmPersists ==
    /\ op = "persist" /\ op' = "none"
    /\ Persist(FALSE)
    /\ UNCHANGED <<entry, timers, info, arm, tick, modeVars, edits, upsets, marks>>

\* A save of the flow's switch or of its graph (the page sends them one by one), which may
\* change the interval, take the Time node away or put it back.  The timer is armed again
\* when the request says enabled and the document armed.
OperatorSaves ==
    /\ Request /\ flow.exists
    /\ \/ \E i \in (Intervals \union {NoTimer}) \ {flow.interval} :
            flow' = [flow EXCEPT !.interval = i] /\ UNCHANGED arm
       \/ \E enabled \in BOOLEAN :
            /\ flow' = [flow EXCEPT !.enabled = enabled]
            /\ IF enabled /\ flow.armed THEN StartArm("silent")
                                         ELSE enabled # flow.enabled /\ UNCHANGED arm
    /\ Overlap
    /\ UNCHANGED <<entry, timers, info, tick, op, modeVars, upsets, refused, marks>>

\* Deleting the flow leaves its timer alone.
OperatorDeletes ==
    /\ Request /\ flow.exists
    /\ flow' = [flow EXCEPT !.exists = FALSE]
    /\ UNCHANGED <<entry, timers, info, callVars, modeVars, upsets, refused, disturbed, marks>>
-----------------------------------------------------------------------------
(* Maintenance and restart.                                                 *)

EnterMaintenance ==
    /\ Request /\ maint' = "entering"
    /\ UNCHANGED <<flow, entry, timers, info, callVars, boot, upsets, refused, disturbed,
                   marks>>

\* stopAll(): the intervals of the map, in memory only.
StopAll ==
    /\ maint = "entering" /\ maint' = "on"
    /\ Forget
    /\ UNCHANGED <<flow, callVars, boot, histVars>>
    /\ Keep(info)

LeaveMaintenance ==
    /\ maint = "on" /\ maint' = "left"
    /\ UNCHANGED <<flow, entry, timers, info, callVars, boot, histVars>>

\* The process dies, or a restore has ended and restarts it.
Crash ==
    /\ Upset
    /\ entry' = 0 /\ timers' = {}
    /\ info' = [id \in Entries |-> Blank]
    /\ arm' = [a \in Arms |-> NoArm]
    /\ tick' = [t \in Ticks |-> Idle]
    /\ op' = "none" /\ maint' = "off" /\ boot' = "restoring"
    /\ disturbed' = (disturbed \/ Calls # {}) /\ replaced' = FALSE /\ crowded' = FALSE
    /\ UNCHANGED <<flow, edits, refused, nodeless>>

\* Mutant of Restore: whatever is enabled is armed.
RestoreEnabled ==
    /\ boot = "restoring"
    /\ Goes /\ IF flow.exists /\ flow.enabled THEN StartArm("silent") ELSE UNCHANGED arm
    /\ boot' = "up"
    /\ UNCHANGED <<flow, entry, timers, info, tick, op, maint, edits, upsets, marks>>

\* Mutant of Restore: nothing is armed at boot.
RestoreNothing ==
    /\ boot = "restoring" /\ boot' = "up"
    /\ UNCHANGED <<flow, entry, timers, info, callVars, maint, histVars>>

\* restore(), before the HTTP server listens; a refused list arms nothing.
Restore ==
    /\ boot = "restoring"
    /\ \/ Goes /\ IF flow.exists /\ flow.enabled /\ flow.armed THEN StartArm("silent") ELSE UNCHANGED arm
       \/ Refuse /\ UNCHANGED arm
    /\ boot' = "up"
    /\ UNCHANGED <<flow, entry, timers, info, tick, op, maint, edits, upsets, marks>>
-----------------------------------------------------------------------------
ArmStep(a)  == ArmReads(a) \/ ArmActs(a) \/ ArmPersists(a)
TickStep(t) == TickReads(t) \/ TickActs(t) \/ RunEnds(t) \/ TickPersists(t)
Operator    == \/ OperatorArms \/ OperatorDisarms \/ OperatorSaves
               \/ OperatorDeletes \/ EnterMaintenance \/ LeaveMaintenance

Next ==
    \/ \E a \in Arms : ArmStep(a)
    \/ \E t \in Ticks : TickStep(t) \/ \E id \in Entries : TickFires(t, id)
    \/ NodeArms \/ Operator \/ DisarmPersists \/ StopAll \/ Crash \/ Restore

Spec == Init /\ [][Next]_vars

\* Intervals fire, calls are answered, runs end; the operator owes nothing.
FairSpec ==
    /\ Spec
    /\ \A a \in Arms : WF_vars(ArmStep(a))
    /\ \A t \in Ticks : WF_vars(TickStep(t))
    /\ WF_vars(\E t \in Ticks, id \in Entries : TickFires(t, id))
    /\ WF_vars(DisarmPersists) /\ WF_vars(StopAll) /\ WF_vars(Restore)
-----------------------------------------------------------------------------
(* Properties.                                                              *)

\* Ticks that overlap on one entry may count it past the limit.
TypeOK ==
    /\ flow \in [exists : BOOLEAN, enabled : BOOLEAN, armed : BOOLEAN,
                interval : Intervals \union {NoTimer}]
    /\ entry \in Entries \union {0} /\ timers \subseteq Entries
    /\ info \in [Entries -> [interval : Intervals, running : BOOLEAN, failures : Nat]]
    /\ arm \in [Arms -> [pc : ArmPc, mode : Modes, every : Intervals]]
    /\ tick \in [Ticks -> [pc : TickPc, id : Entries \union {0}]]
    /\ op \in {"none", "persist"}
    /\ maint \in {"off", "entering", "on", "left"} /\ boot \in {"restoring", "up"}

Running == {t \in Ticks : tick[t].pc = "run"}

\* Two timed runs of the flow go on at once only after its timer was armed afresh while
\* a tick of the old one was under way, or an interval went by before the tick before had
\* its answer: a long run, a short interval, maintenance, failures and refused reads alone
\* never do it.
OneTimedRun == ~replaced /\ ~crowded => Cardinality(Running) <= 1

\* No interval is left ticking that no disarm() can reach, and no entry looks armed and
\* never ticks, unless the timer was armed afresh under a tick.
SoleTimer == ~replaced => timers = IF entry = 0 THEN {} ELSE {entry}

\* Requests made one at a time keep the flow's timer and its document together, over
\* runs, failures, suspensions, restarts and the comings and goings of its Time node: an
\* enabled flow ticks exactly when its document says it is armed, or it has found no Time
\* node to start from.
FlagMatchesTimer ==
    (~disturbed /\ Calls = {} /\ boot = "up" /\ maint = "off"
        /\ flow.exists /\ flow.enabled)
    => /\ entry # 0 => flow.armed
       /\ flow.armed => entry # 0 \/ nodeless

\* A flow that was disabled or deleted stands its timer down, whatever runs of it were
\* still arming it.
SuspendedFallsSilent ==
    [](~(flow.exists /\ flow.enabled) => <>(entry = 0 \/ (flow.exists /\ flow.enabled)))

\* A flow that was on air when the process died, and has its Time node, is on air again
\* after the boot, unless a read was refused or the operator has changed its fate.
RestartResumes ==
    (boot = "restoring" /\ OnAir)
        ~> (entry # 0 \/ refused > 0 \/ ~OnAir \/ op # "none" \/ maint # "off")

\* (Not so.)  A tick that lands while the previous run is still going is skipped.
TicksNeverOverlap == Cardinality(Running) <= 1

\* (Not so.)  Leaving maintenance puts the flow back to work: an enabled flow whose
\* document is armed ticks again, unless its fate changes.
LeftMaintenanceResumes ==
    (maint = "left" /\ Calls = {} /\ OnAir)
        ~> (entry # 0 \/ maint # "left" \/ ~OnAir \/ boot = "restoring")

\* (Not so.)  A flow whose document is armed, and that has its Time node, ticks: the node
\* may have been put back after arm() looked for it.
ArmedTicks ==
    (~disturbed /\ Calls = {} /\ boot = "up" /\ maint = "off" /\ OnAir) => entry # 0
=============================================================================
