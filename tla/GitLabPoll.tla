----------------------------- MODULE GitLabPoll ------------------------------
(***************************************************************************)
(* From something that happened on GitLab to an agent's turn: the poller    *)
(* (domain/gitlab/gitlab-poll.service.ts), its cursors, the webhook route   *)
(* and the queue of wakes (gitlab-wake-runner.ts).  The lane the wakes wait *)
(* in is RunQueue's business: here a row waits, survives a restart, and has *)
(* its turn.                                                                *)
(*                                                                          *)
(* One account and one project are polled, for to-dos, for project events   *)
(* and for the pipelines of merge requests.  A step ends where the code     *)
(* awaits.  Items of a source are numbered in the order of their ids; every *)
(* pipeline is the head of a merge request of its own.                      *)
(***************************************************************************)
EXTENDS Naturals, Sequences, FiniteSets, FiniteSetsExt

CONSTANTS Ticks,       \* identities of pollOnce() calls: the Agenda job's and the button's
          Plan,        \* the sources polled, in order
          MaxWakes,    \* gitlab_poll_max_wakes
          Page,        \* EVENTS_PER_PROJECT
          TodoPage,    \* to-dos a listing holds at most: paginate
          PipePage,    \* failed pipelines a listing holds at most: per_page
          SeenCap,     \* deliveries `seen` holds before it is cleared
          MaxTodos, MaxEvents, MaxPipes,  \* bounds: what happens on GitLab
          MaxSends,    \* bound: webhook deliveries of one assignment
          MaxOrders,   \* bound: catch-ups and re-baselines of the operator
          MaxMishaps   \* bound: deaths of the process and refused requests

ASSUME GitLabPollAssumption ==
    /\ Plan \in Seq({"todos", "events", "pipes"}) /\ Plan # <<>>
    /\ {MaxWakes, Page, TodoPage, PipePage, SeenCap, MaxTodos} \subseteq Nat \ {0}
    /\ {MaxEvents, MaxPipes, MaxSends, MaxOrders, MaxMishaps} \subseteq Nat

VARIABLES
    \* --- GitLab (external)
    todos,   \* to-dos raised so far, oldest first, and what each is about
    done,    \* to-dos marked as done
    events,  \* number of project events so far
    failed,  \* pipelines that have failed
    sends,   \* [to-dos -> Nat]: webhook deliveries of an assignment
    \* --- this process
    seen,    \* delivery keys already handed to the queue
    tick,    \* [Ticks -> [pc, src, left, page, from, at]]
    hook,    \* [to-dos -> Nat]: deliveries the route is still deciding on
    enq,     \* keys whose enqueue() on the lane is under way
    \* --- Mongo
    cursor,  \* [Sources -> Nat or Never]: gitlab_poll_state
    rows,    \* [Keys -> Nat]: rows of the run lane, each one turn
    \* --- history and bounds
    base,    \* [Sources -> Nat]: what was left behind by the newest baseline
    lost,    \* keys whose enqueue() died with the process or was refused
    unlisted, \* to-dos that were pending when a poll listed them, and beyond its page
    orders, crashes, refused, cleared, crossed

gitlabVars == <<todos, done, events, failed, sends>>
procVars   == <<seen, tick, hook, enq>>
histVars   == <<base, lost, unlisted, orders, crashes, refused, cleared, crossed>>
vars == <<gitlabVars, procVars, cursor, rows, histVars>>

Sources == {"todos", "events", "pipes"}
Pipes   == 1 .. MaxPipes
Never   == MaxTodos + MaxEvents + MaxPipes + 1   \* no document: the source was never read

\* What a to-do is about: an assignment, something nobody armed (or the fleet's own doing,
\* or out of scope), or the failure of a pipeline.
Assigned == 0
Unarmed  == MaxPipes + 1
Abouts   == {Assigned, Unarmed} \union Pipes
Todo(i)  == <<"todo", i>>
Build(p) == <<"build", p>>
Hook(i)  == <<"hook", i>>
Keys == {Todo(i) : i \in 1 .. MaxTodos} \union {Hook(i) : i \in 1 .. MaxTodos}
        \union {<<"event", i>> : i \in 1 .. MaxEvents} \union {Build(p) : p \in Pipes}

Idle == [pc |-> "idle", src |-> 0, left |-> 0, page |-> {}, from |-> 0, at |-> 0]

Init ==
    /\ todos \in {<<>>, <<Assigned>>} /\ done = {} /\ events = 0 /\ failed = {}
    /\ sends = [i \in 1 .. MaxTodos |-> 0]
    /\ seen = {} /\ tick = [k \in Ticks |-> Idle]
    /\ hook = [i \in 1 .. MaxTodos |-> 0] /\ enq = {}
    /\ cursor = [s \in Sources |-> Never]
    /\ rows = [key \in Keys |-> 0]
    /\ base = [s \in Sources |-> 0]
    /\ orders = 0 /\ crashes = 0 /\ refused = 0
    /\ cleared = FALSE /\ lost = {} /\ unlisted = {} /\ crossed = FALSE

Goes   == UNCHANGED refused
Refuse == crashes + refused < MaxMishaps /\ refused' = refused + 1
-----------------------------------------------------------------------------
(* GitLab.  Things happen; the webhook of an assignment may be sent, and    *)
(* sent again.                                                              *)

RaiseTodo ==
    /\ Len(todos) < MaxTodos
    /\ \E what \in {Assigned, Unarmed} \union (failed \ {todos[i] : i \in DOMAIN todos}) :
         todos' = Append(todos, what)
    /\ UNCHANGED <<done, events, failed, sends, procVars, cursor, rows, histVars>>

EventHappens ==
    /\ events < MaxEvents /\ events' = events + 1
    /\ UNCHANGED <<todos, done, failed, sends, procVars, cursor, rows, histVars>>

PipelineFails ==
    /\ \E p \in Pipes \ failed : failed' = failed \union {p}
    /\ UNCHANGED <<todos, done, events, sends, procVars, cursor, rows, histVars>>

\* The route tests `seen` on arrival; decide() then reads settings and agents.
HookArrives(i) ==
    /\ i \in DOMAIN todos /\ todos[i] = Assigned /\ sends[i] < MaxSends
    /\ sends' = [sends EXCEPT ![i] = @ + 1]
    /\ hook' = IF Hook(i) \in seen THEN hook ELSE [hook EXCEPT ![i] = @ + 1]
    /\ crossed' = (crossed \/ hook[i] > 0)
    /\ UNCHANGED <<todos, done, events, failed, seen, tick, enq, cursor, rows, base,
                   orders, crashes, refused, cleared, lost, unlisted>>
-----------------------------------------------------------------------------
(* gitlabWakeQueue.enqueue() and the lane's enqueue(), which it does not    *)
(* wait for.                                                                *)

HandOver(key) ==
    LET full == Cardinality(seen \union {key}) > SeenCap IN
    /\ seen' = IF full THEN {} ELSE seen \union {key}
    /\ cleared' = (cleared \/ full)
    /\ enq' = enq \union {key}

HookWakes(i) ==
    /\ hook[i] > 0
    /\ hook' = [hook EXCEPT ![i] = @ - 1]
    /\ HandOver(Hook(i))
    /\ UNCHANGED <<gitlabVars, tick, cursor, rows, base, orders, crashes, refused, lost,
                   unlisted, crossed>>

\* The lane's enqueue(): nothing when an earlier row of the key still waits or runs; a
\* refusal is logged.
Enqueue(key) ==
    /\ key \in enq /\ enq' = enq \ {key}
    /\ \/ Goes /\ rows' = [rows EXCEPT ![key] = Min({2, @ + 1})] /\ UNCHANGED lost
       \/ Goes /\ rows[key] > 0 /\ UNCHANGED <<rows, lost>>
       \/ Refuse /\ UNCHANGED rows /\ lost' = lost \union {key}
    /\ UNCHANGED <<gitlabVars, seen, tick, hook, cursor, base, orders, crashes,
                   cleared, unlisted, crossed>>
-----------------------------------------------------------------------------
(* pollOnce().                                                              *)

Src(k) == Plan[tick[k].src]

\* The next source of the plan, unless the budget is spent.
NextSource(k) ==
    tick' = [tick EXCEPT ![k] = IF tick[k].left = 0 \/ tick[k].src = Len(Plan) THEN Idle
                                ELSE [Idle EXCEPT !.pc = "list", !.src = tick[k].src + 1, !.left = tick[k].left]]

\* GitLab answers newest first, and a listing is cut.
NewestOf(n, items) == {i \in items : Cardinality({j \in items : i < j}) < n}

\* Mutant of Listed: to-dos are listed whether they are done or not.
ListedAll(s) == CASE s = "todos"  -> NewestOf(TodoPage, DOMAIN todos)
                  [] s = "events" -> NewestOf(Page, 1 .. events)
                  [] s = "pipes"  -> NewestOf(PipePage, failed)

\* The newest of the pending to-dos, of the events, of the failed pipelines.
Listed(s) == CASE s = "todos"  -> NewestOf(TodoPage, DOMAIN todos \ done)
               [] s = "events" -> NewestOf(Page, 1 .. events)
               [] s = "pipes"  -> NewestOf(PipePage, failed)

\* What a listing leaves out is written down.
Cut(s) == unlisted' = IF s = "todos" THEN unlisted \union ((DOMAIN todos \ done) \ Listed(s)) ELSE unlisted

\* A poll begins with the first source and the whole budget.  (A first listing that is
\* refused does what a refused ReadCursor does.)
PollBegins(k) ==
    /\ tick[k].pc = "idle"
    /\ tick' = [tick EXCEPT ![k] = [Idle EXCEPT !.pc = "state", !.src = 1, !.left = MaxWakes,
                                                !.page = Listed(Plan[1])]]
    /\ Cut(Plan[1])
    /\ UNCHANGED <<gitlabVars, seen, hook, enq, cursor, rows, base, lost, orders, crashes,
                   refused, cleared, crossed>>

List(k) ==
    /\ tick[k].pc = "list"
    /\ \/ Goes /\ tick' = [tick EXCEPT ![k].pc = "state", ![k].page = Listed(Src(k))] /\ Cut(Src(k))
       \/ Refuse /\ NextSource(k) /\ UNCHANGED unlisted
    /\ UNCHANGED <<gitlabVars, seen, hook, enq, cursor, rows, base, orders, crashes,
                   cleared, lost, crossed>>

\* A source without a document is baselined: at the newest item listed, or at now.
Newest(k) == IF Src(k) = "events" THEN events ELSE Max(tick[k].page \union {0})

\* The poll once the document is read: a baseline, or the items above the cursor.
AtCursor(k) ==
    LET c == cursor[Src(k)] IN
    IF c = Never THEN [tick[k] EXCEPT !.pc = "baseline", !.page = {}, !.at = Newest(k)]
    ELSE [tick[k] EXCEPT !.pc = "items", !.page = {i \in @ : i > c}, !.from = c, !.at = c]

ReadCursor(k) ==
    /\ tick[k].pc = "state"
    /\ \/ Goes /\ tick' = [tick EXCEPT ![k] = AtCursor(k)]
       \/ Refuse /\ NextSource(k)
    /\ UNCHANGED <<gitlabVars, seen, hook, enq, cursor, rows, base, orders, crashes,
                   cleared, lost, unlisted, crossed>>

\* The items of the page an agent should see; the others are consumed on the way.
Armed(k) == {i \in tick[k].page : Src(k) = "todos" => todos[i] # Unarmed}
Item(k)  == Min(Armed(k))

\* The key of a wake: a build is named by its pipeline, unless the merge request of the
\* to-do could not be read.
KeyOf(k, detail) ==
    CASE Src(k) = "events" -> <<"event", Item(k)>>
      [] Src(k) = "pipes"  -> Build(Item(k))
      [] OTHER -> IF detail /\ todos[Item(k)] \in Pipes THEN Build(todos[Item(k)]) ELSE Todo(Item(k))

\* Past the item: it is what the cursor has reached.
Past(k) == [tick[k] EXCEPT !.at = Item(k), !.page = {i \in @ : i > Item(k)},
                           !.pc = IF Src(k) = "todos" THEN "mark" ELSE "items"]

\* Mutant of Wakes: duplicates are not looked for.
WakesTwice(k) ==
    /\ tick[k].pc = "items" /\ Armed(k) # {} /\ tick[k].left > 0
    /\ HandOver(KeyOf(k, TRUE))
    /\ tick' = [tick EXCEPT ![k] = [Past(k) EXCEPT !.left = @ - 1]]
    /\ UNCHANGED <<gitlabVars, hook, cursor, rows, base, orders, crashes, refused, lost,
                   unlisted, crossed>>

\* wake(): nothing past the budget; a duplicate is consumed; else one more turn is asked for.
Wakes(k) ==
    /\ tick[k].pc = "items" /\ Armed(k) # {} /\ tick[k].left > 0
    /\ \E detail \in BOOLEAN :
         /\ IF detail THEN Goes ELSE Src(k) = "todos" /\ todos[Item(k)] \in Pipes /\ Refuse
         /\ LET key == KeyOf(k, detail) IN
            IF key \in seen
            THEN /\ tick' = [tick EXCEPT ![k] = Past(k)]
                 /\ UNCHANGED <<seen, enq, cleared>>
            ELSE /\ tick' = [tick EXCEPT ![k] = [Past(k) EXCEPT !.left = @ - 1]]
                 /\ HandOver(key)
    /\ UNCHANGED <<gitlabVars, hook, cursor, rows, base, orders, crashes, lost, unlisted, crossed>>

\* Marking a to-do as done is best effort.
Marks(k) ==
    /\ tick[k].pc = "mark"
    /\ \/ Goes /\ done' = done \union {tick[k].at}
       \/ Refuse /\ UNCHANGED done
    /\ tick' = [tick EXCEPT ![k].pc = "items"]
    /\ UNCHANGED <<todos, events, failed, sends, seen, hook, enq, cursor, rows, base,
                   orders, crashes, cleared, lost, unlisted, crossed>>

\* Mutant of Reached: the newest item listed, the cap or not.
ReachedNewest(k) == Max(tick[k].page \union {tick[k].at})

\* Mutant of Reached: a baseline forgets what it has seen.
ReachedSinceRead(k) == Max({i \in tick[k].page : \A j \in Armed(k) : i < j} \union {tick[k].from})

\* What the cursor has reached when the loop is over: all of the page, or what lies before
\* the item the cap stopped.
Reached(k) == Max({i \in tick[k].page : \A j \in Armed(k) : i < j} \union {tick[k].at})

\* The cursor is written if it moved, whatever became of the document meanwhile.
Saves(k) ==
    /\ tick[k].pc = "baseline" \/ (tick[k].pc = "items" /\ (Armed(k) = {} \/ tick[k].left = 0))
    /\ LET baseline == tick[k].pc = "baseline"
           overtaken == cursor[Src(k)] # Never
           writes   == baseline \/ Reached(k) # tick[k].from IN
       \/ /\ Goes
          /\ cursor' = IF writes THEN [cursor EXCEPT ![Src(k)] = Reached(k)] ELSE cursor
          /\ base' = IF baseline THEN [base EXCEPT ![Src(k)] = Max({@, tick[k].at})] ELSE base
          /\ crossed' = (crossed \/ (baseline /\ overtaken))
       \/ /\ writes /\ Refuse
          /\ UNCHANGED <<cursor, base, crossed>>
    /\ NextSource(k)
    /\ UNCHANGED <<gitlabVars, seen, hook, enq, rows, orders, crashes, cleared, lost, unlisted>>

TickStep(k) == PollBegins(k) \/ List(k) \/ ReadCursor(k) \/ Wakes(k) \/ Marks(k) \/ Saves(k)
-----------------------------------------------------------------------------
(* The operator, and the death of the process.                              *)

Order == orders < MaxOrders /\ orders' = orders + 1

CatchUp ==
    /\ Order /\ cursor["todos"] # Never
    /\ cursor' = [cursor EXCEPT !["todos"] = 0]
    /\ UNCHANGED <<gitlabVars, procVars, rows, base, crashes, refused, cleared, lost,
                   unlisted, crossed>>

Rebaseline ==
    /\ Order
    /\ cursor' = [s \in Sources |-> Never]
    /\ UNCHANGED <<gitlabVars, procVars, rows, base, crashes, refused, cleared, lost,
                   unlisted, crossed>>

\* What is in memory is gone; the rows of the lane are not.
Crash ==
    /\ crashes + refused < MaxMishaps /\ crashes' = crashes + 1
    /\ lost' = lost \union enq
    /\ seen' = {} /\ tick' = [k \in Ticks |-> Idle]
    /\ hook' = [i \in 1 .. MaxTodos |-> 0] /\ enq' = {}
    /\ UNCHANGED <<gitlabVars, cursor, rows, base, orders, refused, cleared, unlisted,
                   crossed>>
-----------------------------------------------------------------------------
HookStep == \E i \in 1 .. MaxTodos : HookWakes(i)
LaneStep == \E key \in Keys : Enqueue(key)

Next ==
    \/ RaiseTodo \/ EventHappens \/ PipelineFails \/ \E i \in 1 .. MaxTodos : HookArrives(i)
    \/ \E k \in Ticks : TickStep(k)
    \/ HookStep \/ LaneStep \/ CatchUp \/ Rebaseline \/ Crash

Spec == Init /\ [][Next]_vars

\* The Agenda job comes round and requests are answered.
FairSpec ==
    /\ Spec
    /\ \A k \in Ticks : WF_vars(TickStep(k))
    /\ WF_vars(HookStep) /\ WF_vars(LaneStep)
-----------------------------------------------------------------------------
(* Properties.                                                              *)

\* What was ever given to the queue.
Handed == enq \union lost \union {key \in Keys : rows[key] > 0}

TypeOK ==
    /\ todos \in Seq(Abouts) /\ Len(todos) <= MaxTodos /\ done \subseteq DOMAIN todos
    /\ events \in 0 .. MaxEvents /\ failed \subseteq Pipes
    /\ sends \in [1 .. MaxTodos -> 0 .. MaxSends] /\ hook \in [1 .. MaxTodos -> 0 .. MaxSends]
    /\ seen \subseteq Keys /\ Cardinality(seen) <= SeenCap
    /\ \A k \in Ticks : /\ tick[k].left \in 0 .. MaxWakes
                        /\ tick[k].pc \in {"idle", "list", "state", "baseline", "items", "mark"}
    /\ cursor \in [Sources -> 0 .. Never] /\ enq \union lost \subseteq Keys
    /\ rows \in [Keys -> 0 .. 2] /\ base \in [Sources -> 0 .. Never]

\* One delivery is one turn for as long as the process lives, however the ticks of the job
\* and of the button overlap and whatever the operator rewinds; GitLab's retries are told
\* apart unless two of one delivery are being decided at once.
OneTurnPerDelivery ==
    (crashes = 0 /\ ~cleared /\ ~crossed) => \A key \in Keys : rows[key] <= 1

\* The to-dos an agent should see that the cursor has passed without handing them over.
PassedOver ==
    {i \in DOMAIN todos : /\ cursor["todos"] # Never /\ base["todos"] < i /\ i <= cursor["todos"]
                          /\ todos[i] # Unarmed /\ Todo(i) \notin Handed
                          /\ todos[i] \in Pipes => Build(todos[i]) \notin Handed}

\* The to-do cursor never passes a to-do an agent should see, unless a baseline left it
\* behind or a listing was cut above it: over the cap, over overlapping ticks, crashes and
\* refused requests.
NothingPassedOver == PassedOver \subseteq unlisted

\* Arming a source wakes nobody for what was there already, unless the operator has asked
\* for it since (a catch-up) or re-baselined under a running tick.
BaselineWakesNobody ==
    (orders = 0 /\ ~crossed) => \A i \in 1 .. base["todos"] : Todo(i) \notin Handed

\* An assignment whose to-do is marked as done is never handed over again: not by a tick
\* that listed it before, not after a restart.
AcknowledgedStaysQuiet ==
    [][~cleared' => \A i \in done : todos[i] = Assigned /\ Todo(i) \in enq' => Todo(i) \in enq]_vars

\* What was raised after the baseline gets its turn, cap or not, crash or not, unless the
\* request that was to queue it was lost, a listing was cut above it or the operator
\* re-baselined.
EveryAssignmentIsServed ==
    \A i \in 1 .. MaxTodos :
        (cursor["todos"] # Never /\ i \in DOMAIN todos /\ todos[i] = Assigned /\ i > base["todos"])
            ~> (rows[Todo(i)] > 0 \/ Todo(i) \in lost \/ i <= base["todos"] \/ i \in unlisted)

\* (Not so.)  The cursor leaves a contiguous tail of fresh to-dos behind it: none below it
\* is still to be handed over.
ContiguousTail == PassedOver = {}

\* (Not so.)  An event that arrives both ways wakes one agent once.
BothWaysWakeOnce ==
    (crashes = 0 /\ refused = 0 /\ ~cleared /\ ~crossed) =>
        \A i \in 1 .. MaxTodos : rows[Todo(i)] + rows[Hook(i)] <= 1

\* (Not so.)  The to-do source cannot double-wake even across a restart.
TodoWakesOnce == ~cleared => \A i \in 1 .. MaxTodos : rows[Todo(i)] <= 1

\* (Not so.)  The backlog of a source is left behind, not dropped: an event above the
\* baseline is handed over before the cursor passes it.
BacklogIsKept ==
    cursor["events"] # Never =>
        \A i \in 1 .. events : (base["events"] < i /\ i <= cursor["events"]) => <<"event", i>> \in Handed

\* (Not so.)  Nor is a red build passed over.
RedBuildIsSeen ==
    cursor["pipes"] # Never =>
        \A p \in failed : (base["pipes"] < p /\ p <= cursor["pipes"]) => Build(p) \in Handed
=============================================================================
