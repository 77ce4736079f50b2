---------------------------- MODULE ForumMention -----------------------------
(***************************************************************************)
(* From a post that names agents to the answers on its thread: recording    *)
(* (domain/forum/forum-mention.service.ts), waking (forum-wake-queue.ts),   *)
(* running (forum-mention-runner.ts), and the allowance of automatic runs   *)
(* (forum-thread.repository.ts).  The lane is RunQueue's business: here it  *)
(* takes the rows in order, one at a time, and keeps them over a restart.   *)
(*                                                                          *)
(* A step ends where the code awaits; a request and its answer are one step.*)
(* A turn is AgentRunner's: here the agent posts on the thread or not, and  *)
(* ends with something to say or without.                                   *)
(***************************************************************************)
EXTENDS Naturals, Sequences, FiniteSets

CONSTANTS Mentions, Threads, Agents,
          Posts,       \* posts that wake somebody
          Wakes,       \* [Posts -> Seq(Mentions)]: whom, in the order they are named
          ThreadOf,    \* [Mentions -> Threads]
          AgentOf,     \* [Mentions -> Agents]: target.agent_id
          HubOf,       \* [Threads -> Threads]: hub_thread_id, the thread itself for none
          Hands,       \* the operator's requests to run a mention, under way at a time
          Lane,        \* the run of the lane's handler
          None, Other, \* no post; a post of a session that is no run of a mention
          PerThread, PerProject, \* forum_auto_reply_max_per_thread, .._per_project
          Windowed,    \* forum_auto_reply_window_hours is not 0
          Limit        \* [Kinds -> Nat], bounds: Run pressed, windows aged, edits, mishaps

Kinds == {"press", "roll", "edit", "mishap"}

ASSUME ForumAssumption ==
    /\ Wakes \in [Posts -> Seq(Mentions)] /\ \A p \in Posts : Wakes[p] # <<>>
    /\ ThreadOf \in [Mentions -> Threads] /\ AgentOf \in [Mentions -> Agents]
    /\ HubOf \in [Threads -> Threads] /\ \A t \in Threads : HubOf[HubOf[t]] = HubOf[t]
    /\ Lane \notin Hands /\ {None, Other} \cap Mentions = {} /\ None # Other
    /\ PerThread \in Nat \ {0} /\ PerProject \in Nat \ {0} /\ Windowed \in BOOLEAN
    /\ Limit \in [Kinds -> Nat]

VARIABLES
    \* --- Mongo
    auto,     \* forum_auto_reply
    thread,   \* [Threads -> {"open", "closed", "gone"}]
    account,  \* [Threads -> [spent, window, told]]: auto_run_count, .._window_start, .._notified_at
    mention,  \* [Mentions -> [status, session, blocked, reply]]; the status is "none" before the
              \* row is there and "gone" after, the reply is whose run wrote reply_post_id
    rows,     \* Seq(Mentions): the waiting rows of the lane
    \* --- this process
    post,     \* [Posts -> Nat]: how far a post is recorded
    run,      \* [Runs -> [m, at, own, said]]: the mention, the await reached, the agent's newest
              \* post on its thread since the run began, and whether it has text to post back
    inFlight, \* mentions whose run has been started and has not finished
    \* --- history and bounds
    overlapped, \* mentions of which a run began while another was about to
    tally,    \* [Threads -> [started, alerts]] since the window opened: woken runs, alerts
    used      \* [Kinds -> Nat]

board == <<auto, thread>>
past  == <<overlapped, tally, used>>
vars  == <<board, account, mention, rows, post, run, inFlight, past>>

Runs   == Hands \union {Lane}
Who    == Mentions \union {None, Other}
Status == {"none", "pending", "answered", "dismissed", "gone"}

\* Where the lane's handler is before it runs the mention, and after it was refused.
Waking   == {"switch", "mention", "thread", "claim"}
Refusing == {"block", "notice", "alert"}
\* begin(), up to the entry in `inFlight`.
Opening  == {"check", "open", "link"}
\* drive(): what the agent posts in the first three counts as its answer.
Hearing  == {"first", "turn", "own"}
Closing  == {"reread", "reply", "mark"}
Driving  == Hearing \union Closing
Places   == {"idle"} \union Waking \union Refusing \union Opening \union Driving

\* A post that is not written, whose mentions are not stored yet, and whose mentions are
\* being handed to the lane: the switch is read, then row after row.
Unwritten == 0
Storing   == 1
Switch    == 2
Row(i)    == 2 + i
Recorded(p) == Row(Len(Wakes[p]) + 1)

Idle == [m |-> None, at |-> "idle", own |-> None, said |-> FALSE]

Init ==
    /\ auto \in BOOLEAN /\ thread = [t \in Threads |-> "open"]
    /\ account = [t \in Threads |-> [spent |-> 0, window |-> "none", told |-> FALSE]]
    /\ mention = [m \in Mentions |->
                    [status |-> "none", session |-> FALSE, blocked |-> FALSE, reply |-> None]]
    /\ rows = <<>> /\ post = [p \in Posts |-> Unwritten]
    /\ run = [r \in Runs |-> Idle] /\ inFlight = {} /\ overlapped = {}
    /\ tally = [t \in Threads |-> [started |-> 0, alerts |-> 0]]
    /\ used = [k \in Kinds |-> 0]

Named(p)  == {Wakes[p][i] : i \in DOMAIN Wakes[p]}
On(p, t)  == \A m \in Named(p) : ThreadOf[m] = t
Exists(m) == mention[m].status \notin {"none", "gone"}
Uses(k)   == used[k] < Limit[k] /\ used' = [used EXCEPT ![k] = @ + 1]
Mishap    == Uses("mishap") /\ UNCHANGED <<overlapped, tally>>
Fine      == UNCHANGED past
-----------------------------------------------------------------------------
(* A post: addPost(), record() and forumWakeQueue.enqueue().                *)

OperatorPosts(p) ==
    /\ post[p] = Unwritten /\ \E t \in Threads : thread[t] = "open" /\ On(p, t)
    /\ post' = [post EXCEPT ![p] = Storing]
    /\ UNCHANGED <<board, account, mention, rows, run, inFlight, past>>

\* What the agent posts on the thread counts for every run of it there that is listening.
Heard(a, t, who) ==
    [r \in Runs |-> IF run[r].at \in Hearing /\ AgentOf[run[r].m] = a /\ ThreadOf[run[r].m] = t
                    THEN [run[r] EXCEPT !.own = who] ELSE run[r]]

\* A turn posts with the forum tool, and may wake others as it does.
TurnPosts(r) ==
    LET m == run[r].m
        t == ThreadOf[m] IN
    /\ run[r].at = "turn" /\ thread[t] = "open"
    /\ run' = Heard(AgentOf[m], t, m)
    /\ \/ UNCHANGED post
       \/ \E p \in Posts : post[p] = Unwritten /\ On(p, t) /\ post' = [post EXCEPT ![p] = Storing]
    /\ UNCHANGED <<board, account, mention, rows, inFlight, past>>

\* A session of the agent that is no run of a mention: a chat, a cron job.
AgentPosts(a, t) ==
    /\ thread[t] = "open"
    /\ run' = Heard(a, t, Other)
    /\ UNCHANGED <<board, account, mention, rows, post, inFlight, past>>

\* createMany(): when one of the rows is refused, the others may be there, and nobody is woken.
Stores(p) ==
    /\ post[p] = Storing
    /\ \E kept \in SUBSET Named(p) :
         /\ mention' = [m \in Mentions |-> IF m \in kept THEN [mention[m] EXCEPT !.status = "pending"]
                                           ELSE mention[m]]
         /\ IF kept = Named(p) THEN Fine /\ post' = [post EXCEPT ![p] = Switch]
            ELSE Mishap /\ post' = [post EXCEPT ![p] = Recorded(p)]
    /\ UNCHANGED <<board, account, rows, run, inFlight>>

ReadsFleetSwitch(p) ==
    /\ post[p] = Switch
    /\ \/ Fine /\ post' = [post EXCEPT ![p] = IF auto THEN Row(1) ELSE Recorded(p)]
       \/ Mishap /\ post' = [post EXCEPT ![p] = Recorded(p)]
    /\ UNCHANGED <<board, account, mention, rows, run, inFlight>>

\* A row at a time; a refusal drops the rest.
HandsOver(p) ==
    \E i \in DOMAIN Wakes[p] :
        /\ post[p] = Row(i)
        /\ \/ Fine /\ rows' = Append(rows, Wakes[p][i]) /\ post' = [post EXCEPT ![p] = Row(i + 1)]
           \/ Mishap /\ UNCHANGED rows /\ post' = [post EXCEPT ![p] = Recorded(p)]
        /\ UNCHANGED <<board, account, mention, run, inFlight>>
-----------------------------------------------------------------------------
(* runOne(): the handler of the lane's `forum` rows.                        *)

Goes(r, place) == run' = [run EXCEPT ![r].at = place]
Leaves(r)      == run' = [run EXCEPT ![r] = Idle]
RunOnly        == UNCHANGED <<board, account, mention, rows, post, inFlight, past>>

TakesRow ==
    /\ run[Lane].at = "idle" /\ rows # <<>>
    /\ run' = [run EXCEPT ![Lane] = [Idle EXCEPT !.m = Head(rows), !.at = "switch"]]
    /\ rows' = Tail(rows)
    /\ UNCHANGED <<board, account, mention, post, inFlight, past>>

\* Nothing while the switch is off; nothing for a mention that was answered or dismissed,
\* withheld, or run before; nothing on a thread that is not open.
Wanted(m) == mention[m].status = "pending" /\ ~mention[m].blocked /\ ~mention[m].session

Looks ==
    LET m == run[Lane].m IN
    /\ \/ run[Lane].at = "switch" /\ (IF auto THEN Goes(Lane, "mention") ELSE Leaves(Lane))
       \/ run[Lane].at = "mention" /\ (IF Wanted(m) THEN Goes(Lane, "thread") ELSE Leaves(Lane))
       \/ /\ run[Lane].at = "thread"
          /\ IF thread[ThreadOf[m]] = "open" THEN Goes(Lane, "claim") ELSE Leaves(Lane)
    /\ RunOnly

\* budgetTargetFor(): the thread whose counter a run on t spends, and how far.
Carrier(t)   == HubOf[t]
Allowance(t) == IF HubOf[t] # t THEN PerProject ELSE PerThread

\* The thread charged for the mention the handler has in hand.
Charged == Carrier(ThreadOf[run[Lane].m])

\* Mutant of OpenWindow: nothing is spent in it yet.
OpenWindowUnspent == [spent |-> 0, window |-> "fresh", told |-> FALSE]

OpenWindow == [spent |-> 1, window |-> "fresh", told |-> FALSE]

\* claimAutoRun(): a window that has aged out is opened anew, whatever was spent in it; else
\* one more is spent, if there is one left.  A thread that is gone has none.
Claims ==
    LET c == Charged
        rolls == Windowed /\ account[c].window # "fresh" IN
    /\ run[Lane].at = "claim"
    /\ IF thread[c] = "gone" \/ (~rolls /\ account[c].spent >= Allowance(ThreadOf[run[Lane].m]))
       THEN Goes(Lane, "block") /\ UNCHANGED <<account, tally>>
       ELSE /\ Goes(Lane, "check")
            /\ account' = IF rolls THEN [account EXCEPT ![c] = OpenWindow]
                          ELSE [account EXCEPT ![c].spent = @ + 1]
            /\ tally' = IF rolls THEN [tally EXCEPT ![c] = [started |-> 0, alerts |-> 0]] ELSE tally
    /\ UNCHANGED <<board, mention, rows, post, inFlight, overlapped, used>>

\* Mutant of Blocks: the handler is done once the mention is withheld.
BlocksQuietly ==
    /\ run[Lane].at = "block"
    /\ mention' = [mention EXCEPT ![run[Lane].m].blocked = Exists(run[Lane].m)]
    /\ Leaves(Lane)
    /\ UNCHANGED <<board, account, rows, post, inFlight, past>>

Blocks ==
    /\ run[Lane].at = "block"
    /\ mention' = [mention EXCEPT ![run[Lane].m].blocked = Exists(run[Lane].m)]
    /\ Goes(Lane, "notice")
    /\ UNCHANGED <<board, account, rows, post, inFlight, past>>

\* claimAutoRunNotice(): one alert per window, while the thread is there.
Notices ==
    /\ run[Lane].at = "notice"
    /\ IF thread[Charged] # "gone" /\ ~account[Charged].told
       THEN account' = [account EXCEPT ![Charged].told = TRUE] /\ Goes(Lane, "alert")
       ELSE Leaves(Lane) /\ UNCHANGED account
    /\ UNCHANGED <<board, mention, rows, post, inFlight, past>>

Alerts ==
    /\ run[Lane].at = "alert" /\ Leaves(Lane)
    /\ tally' = [tally EXCEPT ![Charged].alerts = @ + 1]
    /\ UNCHANGED <<board, account, mention, rows, post, inFlight, overlapped, used>>

HandlerStep == Looks \/ Claims \/ Blocks \/ Notices \/ Alerts
-----------------------------------------------------------------------------
(* begin() and drive(): one run of a mention.                               *)

\* The operator's Run button.
Press(r, m) ==
    /\ r # Lane /\ run[r].at = "idle" /\ mention[m].status # "none"
    /\ Uses("press")
    /\ run' = [run EXCEPT ![r] = [Idle EXCEPT !.m = m, !.at = "check"]]
    /\ UNCHANGED <<board, account, mention, rows, post, inFlight, overlapped, tally>>

\* Mutant of Refuses: a run under way does not count.
RefusesAnswered(m) == mention[m].status \in {"gone", "answered"}

\* Nothing for a mention that was answered, or whose run is under way.
Refuses(m) == mention[m].status \in {"gone", "answered"} \/ m \in inFlight

Checks(r) ==
    LET m == run[r].m IN
    /\ run[r].at = "check"
    /\ IF Refuses(m)
       THEN Leaves(r) /\ UNCHANGED overlapped
       ELSE /\ Goes(r, "open")
            /\ overlapped' = IF \E q \in Runs : run[q].m = m /\ run[q].at \in {"open", "link"}
                             THEN overlapped \union {m} ELSE overlapped
    /\ UNCHANGED <<board, account, mention, rows, post, inFlight, tally, used>>

\* The agent and the post are read and the session is created.
Opens(r) ==
    LET m == run[r].m IN
    /\ run[r].at = "open"
    /\ IF Exists(m) /\ thread[ThreadOf[m]] # "gone" THEN Goes(r, "link") ELSE Leaves(r)
    /\ RunOnly

\* The session is written on the mention; only now does the run count as under way.
Links(r) ==
    LET m == run[r].m IN
    /\ run[r].at = "link" /\ Goes(r, "first")
    /\ mention' = [mention EXCEPT ![m].session = Exists(m)]
    /\ inFlight' = inFlight \union {m}
    /\ tally' = IF r = Lane THEN [tally EXCEPT ![Charged].started = @ + 1] ELSE tally
    /\ UNCHANGED <<board, account, rows, post, overlapped, used>>

\* The first message is stored; the turn waits for the agent, a minute at most.  It ends with
\* a text that is stored, or without: it failed, was stopped, said nothing.
Turns(r) ==
    /\ \/ run[r].at = "first" /\ Goes(r, "turn")
       \/ /\ run[r].at = "turn"
          /\ \E said \in BOOLEAN : run' = [run EXCEPT ![r].at = "own", ![r].said = said]
    /\ RunOnly

Ends(r) == Leaves(r) /\ inFlight' = inFlight \ {run[r].m}

\* Did the agent answer for itself?  If not, its text is posted back; without one the run
\* is over.
LooksForOwn(r) ==
    /\ run[r].at = "own"
    /\ \/ run[r].own # None /\ Goes(r, "mark") /\ UNCHANGED inFlight
       \/ run[r].own = None /\ run[r].said /\ Goes(r, "reread") /\ UNCHANGED inFlight
       \/ run[r].own = None /\ ~run[r].said /\ Ends(r)
    /\ UNCHANGED <<board, account, mention, rows, post, past>>

\* On a thread that was closed meanwhile nothing is posted and the mention is marked.
Rereads(r) ==
    /\ run[r].at = "reread"
    /\ Goes(r, IF thread[ThreadOf[run[r].m]] = "open" THEN "reply" ELSE "mark")
    /\ RunOnly

\* The post-back wakes nobody; it is refused when it repeats what the agent has said.
PostsBack(r) ==
    LET m == run[r].m IN
    /\ run[r].at = "reply"
    /\ \/ /\ run' = [Heard(AgentOf[m], ThreadOf[m], m) EXCEPT ![r] = [run[r] EXCEPT !.own = m, !.at = "mark"]]
          /\ UNCHANGED inFlight
       \/ Ends(r)
    /\ UNCHANGED <<board, account, mention, rows, post, past>>

Marks(r) ==
    LET m == run[r].m IN
    /\ run[r].at = "mark" /\ Ends(r)
    /\ mention' = IF ~Exists(m) THEN mention
                  ELSE [mention EXCEPT ![m].status = "answered",
                                       ![m].reply = IF run[r].own = None THEN @ ELSE run[r].own]
    /\ UNCHANGED <<board, account, rows, post, past>>

RunStep(r) ==
    \/ Checks(r) \/ Opens(r) \/ Links(r) \/ Turns(r)
    \/ LooksForOwn(r) \/ Rereads(r) \/ PostsBack(r) \/ Marks(r)

\* A request is refused.  The handler's row fails, begin() throws, drive() ends; when the
\* agent's own posts cannot be read, the run goes on as if there were none.
Refused(r) ==
    /\ Mishap
    /\ \/ run[r].at \in Waking \union Refusing \union Opening /\ Leaves(r) /\ UNCHANGED inFlight
       \/ (run[r].at \in {"first"} \union Closing \/ (run[r].at = "own" /\ ~run[r].said)) /\ Ends(r)
       \/ /\ run[r].at = "own" /\ run[r].said /\ UNCHANGED inFlight
          /\ run' = [run EXCEPT ![r].at = "reread", ![r].own = None]
    /\ UNCHANGED <<board, account, mention, rows, post>>
-----------------------------------------------------------------------------
(* The operator, time, and the death of the process.                        *)

FlipSwitch == auto' = ~auto /\ UNCHANGED <<thread, mention>>

Moderates ==
    /\ \E t \in Threads : /\ thread[t] # "gone"
                          /\ thread' = [thread EXCEPT ![t] = IF @ = "open" THEN "closed" ELSE "open"]
    /\ UNCHANGED <<auto, mention>>

Without(ms) == [m \in Mentions |-> IF m \in ms /\ Exists(m) THEN [mention[m] EXCEPT !.status = "gone"]
                                   ELSE mention[m]]

\* deleteThread() and deletePost(): the mentions go with the posts.
DeletesThread ==
    /\ \E t \in Threads : /\ thread[t] # "gone"
                          /\ thread' = [thread EXCEPT ![t] = "gone"]
                          /\ mention' = Without({m \in Mentions : ThreadOf[m] = t})
    /\ UNCHANGED auto

DeletesPost ==
    /\ \E p \in Posts : post[p] > Storing /\ mention' = Without(Named(p))
    /\ UNCHANGED board

\* setStatus(), whatever the row says.
Triages ==
    /\ \E m \in Mentions, s \in {"pending", "dismissed"} :
         Exists(m) /\ mention' = [mention EXCEPT ![m].status = s]
    /\ UNCHANGED board

Edits ==
    /\ Uses("edit")
    /\ FlipSwitch \/ Moderates \/ DeletesThread \/ DeletesPost \/ Triages
    /\ UNCHANGED <<account, rows, post, run, inFlight, overlapped, tally>>

WindowAges(t) ==
    /\ account[t].window = "fresh" /\ Uses("roll")
    /\ account' = [account EXCEPT ![t].window = "stale"]
    /\ UNCHANGED <<board, mention, rows, post, run, inFlight, overlapped, tally>>

\* The rows that wait survive; the one that ran is written off by the lane's recovery.
Crash ==
    /\ Mishap
    /\ run' = [r \in Runs |-> Idle] /\ inFlight' = {}
    /\ post' = [p \in Posts |-> IF post[p] = Unwritten THEN Unwritten ELSE Recorded(p)]
    /\ UNCHANGED <<board, account, mention, rows>>
-----------------------------------------------------------------------------
PostStep(p) == Stores(p) \/ ReadsFleetSwitch(p) \/ HandsOver(p)

Next ==
    \/ \E p \in Posts : OperatorPosts(p) \/ PostStep(p)
    \/ \E a \in Agents, t \in Threads : AgentPosts(a, t)
    \/ TakesRow \/ HandlerStep
    \/ \E r \in Runs : (\E m \in Mentions : Press(r, m)) \/ TurnPosts(r) \/ RunStep(r) \/ Refused(r)
    \/ Edits \/ (\E t \in Threads : WindowAges(t)) \/ Crash

Spec == Init /\ [][Next]_vars

\* Requests are answered, turns end, the lane goes on.
FairSpec ==
    /\ Spec
    /\ \A p \in Posts : WF_vars(PostStep(p))
    /\ WF_vars(TakesRow) /\ WF_vars(HandlerStep)
    /\ \A r \in Runs : WF_vars(RunStep(r))
-----------------------------------------------------------------------------
(* Properties.                                                              *)

Account == [spent : Nat, window : {"none", "fresh", "stale"}, told : BOOLEAN]
Mention == [status : Status, session : BOOLEAN, blocked : BOOLEAN, reply : Who]
Run     == [m : Mentions \union {None}, at : Places, own : Who, said : BOOLEAN]
Tally   == [started : Nat, alerts : Nat]

TypeOK ==
    /\ auto \in BOOLEAN /\ thread \in [Threads -> {"open", "closed", "gone"}]
    /\ account \in [Threads -> Account] /\ mention \in [Mentions -> Mention]
    /\ rows \in Seq(Mentions) /\ post \in [Posts -> Nat] /\ run \in [Runs -> Run]
    /\ inFlight \subseteq Mentions /\ overlapped \subseteq Mentions
    /\ tally \in [Threads -> Tally] /\ used \in [Kinds -> Nat]

\* The runs of m that have begun and have not finished.
Driven(m) == {r \in Runs : run[r].m = m /\ run[r].at \in Driving}

\* Unless two runs of it began at once, a mention has one run at most, and `inFlight` knows
\* whether; and no entry outlives its run, which would refuse the mention until a restart.
SoleRun ==
    /\ \A m \in inFlight : Driven(m) # {}
    /\ \A m \in Mentions \ overlapped :
          (\A r, q \in Driven(m) : r = q) /\ (Driven(m) # {} => m \in inFlight)

\* Nor is one that was answered run again, by hand or by a row of the lane that waited.
AnsweredIsNotRunAgain ==
    \A m \in Mentions \ overlapped : mention[m].status = "answered" => Driven(m) = {}

\* Runs on t and on the threads that have t for a hub spend the same counter.
Ceiling(t) == IF PerProject > PerThread /\ \E u \in Threads : HubOf[u] = t /\ u # t
              THEN PerProject ELSE PerThread

\* However many threads a project has, crashes, deletions and refusals included, the woken
\* runs of a window stay within one allowance.
BudgetHolds == \A t \in Threads : HubOf[t] = t => tally[t].started <= Ceiling(t)

\* One alert per window for a thread, or for all the threads of a project.
OneAlertPerWindow == \A t \in Threads : tally[t].alerts <= 1

\* The handler gets through with a mention it has withheld.
Withheld(m) ==
    run[Lane].m = m /\ run[Lane].at \in Refusing /\ run'[Lane].at = "idle" /\ used'["mishap"] = 0

\* By then the operator has been told, in this window: unless a request was refused or the
\* process died, or there is no thread to keep the account.
WithheldIsTold ==
    [][\A m \in Mentions : Withheld(m) =>
         LET c == Carrier(ThreadOf[m]) IN tally'[c].alerts > 0 \/ thread[c] = "gone"]_vars

Waiting(m) == \E i \in 1 .. Len(rows) : rows[i] = m

\* The agents a post wakes have their turns in the order they are named.
WokenInOrder ==
    \A p \in Posts : \A i, j \in DOMAIN Wakes[p] :
        i < j /\ run[Lane].m = Wakes[p][j] => ~Waiting(Wakes[p][i]) /\ post[p] > Row(i)

\* A run that is under way ends, and lets the next one in.
RunReleases == \A m \in Mentions : m \in inFlight ~> m \notin inFlight

\* What was handed to the lane is taken from it.
WakeSettles == \A m \in Mentions : Waiting(m) ~> ~Waiting(m)

\* (Not so.)  A mention has one run at a time.
OneRunPerMention == \A m \in Mentions : \A r, q \in Driven(m) : r = q

\* (Not so.)  A mention is answered by a post that one of its own runs wrote.
AnswerIsItsOwn == \A m \in Mentions : mention[m].reply \in {m, None}

\* (Not so.)  Of what the budget withheld the operator was told.
OperatorWasTold ==
    [][\A m \in Mentions : Withheld(m) => tally'[Carrier(ThreadOf[m])].alerts > 0]_vars
=============================================================================
