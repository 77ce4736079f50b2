------------------------- MODULE ForumMentionProofs --------------------------
(***************************************************************************)
(* Proofs about ForumMention, for any posts, mentions, threads, agents and  *)
(* requests of the operator: a mention is run once unless two runs of it    *)
(* began together, one that was answered is not run again, and a window     *)
(* starts no more runs than its allowance and tells the operator once; and, *)
(* while nothing fails, of a mention it withholds the operator is told.     *)
(***************************************************************************)
EXTENDS ForumMention, TLAPS

\* From the guard of begin() to the end of the run; the runs of m that are there.
OnWay    == {"open", "link"} \union Driving
Begun(m) == {r \in Runs : run[r].m = m /\ run[r].at \in OnWay}

\* A run that is not idle has a mention in hand.
HandInv == \A r \in Runs : run[r].at # "idle" => run[r].m \in Mentions

\* SoleRun from the guard on: a mention about to be run is not in flight, and is not answered.
BegunInv ==
    \A m \in Mentions \ overlapped :
        /\ \A r, q \in Begun(m) : r = q
        /\ mention[m].status = "answered" => Begun(m) = {}

RunsInv == TypeOK /\ HandInv /\ SoleRun /\ BegunInv

\* The lane has a unit of t's allowance in hand that has not started its run.
InHand(t) == IF run[Lane].at \in Opening /\ Charged = t THEN 1 ELSE 0

\* Every run of a window was paid for, and no more was spent than allowed.
SpentInv ==
    \A t \in Threads : HubOf[t] = t =>
        tally[t].started + InHand(t) <= account[t].spent /\ account[t].spent <= Ceiling(t)

\* Who alerts, or has alerted in this window, holds the stamp.
ToldInv ==
    \A t \in Threads :
        /\ tally[t].alerts <= 1
        /\ run[Lane].at = "alert" /\ Charged = t => account[t].told /\ tally[t].alerts = 0
        /\ ~account[t].told => tally[t].alerts = 0

ForumInv == RunsInv /\ SpentInv /\ ToldInv
-----------------------------------------------------------------------------
LEMMA InitInv == Init => ForumInv
<1> SUFFICES ASSUME Init PROVE ForumInv
  OBVIOUS
<1>1. \A r \in Runs : run[r] = Idle
  BY DEF Init
<1>2. TypeOK
  <2>1. run \in [Runs -> Run]
    BY DEF Init, Idle, Places, Who, Run
  <2>2. mention \in [Mentions -> Mention] /\ account \in [Threads -> Account]
        /\ tally \in [Threads -> Tally]
    BY DEF Init, Status, Who, Mention, Account, Tally
  <2>3. rows \in Seq(Mentions) /\ post \in [Posts -> Nat] /\ used \in [Kinds -> Nat]
    BY DEF Init, Unwritten
  <2>4. thread \in [Threads -> {"open", "closed", "gone"}]
    BY DEF Init
  <2> QED
    BY <2>1, <2>2, <2>3, <2>4 DEF Init, TypeOK
<1>3. HandInv /\ BegunInv /\ SoleRun
  <2>1. \A r \in Runs : run[r].at \notin OnWay \union Driving
    BY <1>1 DEF Idle, OnWay, Driving, Hearing, Closing
  <2>2. HandInv
    BY <1>1 DEF HandInv, Idle
  <2>3. BegunInv
    BY <2>1 DEF BegunInv, Begun
  <2>4. SoleRun
    BY <2>1 DEF Init, SoleRun, Driven
  <2> QED
    BY <2>2, <2>3, <2>4
<1>5. Lane \in Runs /\ run[Lane].at = "idle"
  BY <1>1 DEF Runs, Idle
<1>6. \A t \in Threads : Ceiling(t) \in Nat
  BY ForumAssumption DEF Ceiling
<1>7. SpentInv
  BY <1>5, <1>6 DEF Init, SpentInv, InHand, Opening
<1>8. ToldInv
  BY <1>5 DEF Init, ToldInv
<1> QED
  BY <1>2, <1>3, <1>7, <1>8 DEF ForumInv, RunsInv
-----------------------------------------------------------------------------
(* Types.                                                                   *)

Typed == TypeOK /\ HandInv

\* A bounded event is counted.
LEMMA UsesCounts ==
  ASSUME TypeOK, NEW k \in Kinds, Uses(k) PROVE used' \in [Kinds -> Nat]
BY DEF TypeOK, Uses

\* A post of the agent leaves every run where it is.
LEMMA HeardTyped ==
  ASSUME TypeOK, NEW who \in Who, NEW a, NEW t
  PROVE  /\ Heard(a, t, who) \in [Runs -> Run]
         /\ \A r \in Runs : /\ Heard(a, t, who)[r].m = run[r].m
                            /\ Heard(a, t, who)[r].at = run[r].at
BY DEF TypeOK, Heard, Run

LEMMA PostTypes ==
  ASSUME Typed, NEW p \in Posts, OperatorPosts(p) \/ PostStep(p) PROVE Typed'
<1> USE DEF Typed, HandInv
<1>1. CASE OperatorPosts(p)
  BY <1>1 DEF OperatorPosts, TypeOK, board, past, Storing
<1>2. CASE Stores(p)
  <2>1. PICK kept \in SUBSET Named(p) :
          /\ mention' = [m \in Mentions |-> IF m \in kept THEN [mention[m] EXCEPT !.status = "pending"]
                                            ELSE mention[m]]
          /\ IF kept = Named(p) THEN Fine /\ post' = [post EXCEPT ![p] = Switch]
             ELSE Mishap /\ post' = [post EXCEPT ![p] = Recorded(p)]
    BY <1>2 DEF Stores
  <2>2. mention' \in [Mentions -> Mention]
    BY <2>1 DEF TypeOK, Mention, Status
  <2>3. Switch \in Nat /\ Recorded(p) \in Nat
    BY ForumAssumption DEF Switch, Recorded, Row
  <2>4. /\ post' \in [Posts -> Nat] /\ used' \in [Kinds -> Nat]
        /\ overlapped' = overlapped /\ tally' = tally
    BY <2>1, <2>3, UsesCounts DEF TypeOK, Fine, past, Mishap, Kinds
  <2> QED
    BY <1>2, <2>2, <2>4 DEF Stores, TypeOK, board
<1>3. CASE ReadsFleetSwitch(p)
  <2>1. Row(1) \in Nat /\ Recorded(p) \in Nat
    BY ForumAssumption DEF Recorded, Row
  <2> QED
    BY <1>3, <2>1, UsesCounts DEF ReadsFleetSwitch, TypeOK, Fine, past, Mishap, Kinds, board
<1>4. CASE HandsOver(p)
  <2>1. PICK i \in DOMAIN Wakes[p] :
          /\ \/ Fine /\ rows' = Append(rows, Wakes[p][i]) /\ post' = [post EXCEPT ![p] = Row(i + 1)]
             \/ Mishap /\ UNCHANGED rows /\ post' = [post EXCEPT ![p] = Recorded(p)]
          /\ UNCHANGED <<board, account, mention, run, inFlight>>
    BY <1>4 DEF HandsOver
  <2>2. Wakes[p] \in Seq(Mentions)
    BY ForumAssumption
  <2>3. Wakes[p][i] \in Mentions /\ Row(i + 1) \in Nat /\ Recorded(p) \in Nat
    BY <2>2 DEF Recorded, Row
  <2>4. rows' \in Seq(Mentions)
    <3>1. rows \in Seq(Mentions) /\ Append(rows, Wakes[p][i]) \in Seq(Mentions)
      BY <2>3 DEF TypeOK
    <3> QED
      BY <2>1, <3>1
  <2>5. post' \in [Posts -> Nat]
    BY <2>1, <2>3 DEF TypeOK
  <2> QED
    BY <2>1, <2>4, <2>5, UsesCounts DEF TypeOK, Fine, past, Mishap, Kinds, board
<1> QED
  BY <1>1, <1>2, <1>3, <1>4 DEF PostStep

\* A run that goes on, and a run that is over.
LEMMA RunGoes ==
  ASSUME Typed, NEW r \in Runs, NEW place \in Places, run[r].at # "idle", Goes(r, place)
  PROVE  /\ run' \in [Runs -> Run] /\ HandInv'
         /\ run'[r].m = run[r].m /\ run'[r].at = place
         /\ \A q \in Runs : q # r => run'[q] = run[q]
<1>1. run \in [Runs -> Run] /\ run' = [run EXCEPT ![r].at = place]
  BY DEF Typed, TypeOK, Goes
<1>2. /\ run' \in [Runs -> Run]
      /\ run'[r].m = run[r].m /\ run'[r].at = place
      /\ \A q \in Runs : q # r => run'[q] = run[q]
  BY <1>1 DEF Run
<1> QED
  BY <1>2 DEF Typed, HandInv

LEMMA RunLeaves ==
  ASSUME Typed, NEW r \in Runs, Leaves(r)
  PROVE  /\ run' \in [Runs -> Run] /\ HandInv'
         /\ run'[r].at = "idle"
         /\ \A q \in Runs : q # r => run'[q] = run[q]
<1>1. run \in [Runs -> Run] /\ run' = [run EXCEPT ![r] = Idle]
  BY DEF Typed, TypeOK, Leaves
<1>2. Idle \in Run /\ Idle.at = "idle"
  BY DEF Idle, Run, Places, Who
<1>3. run' \in [Runs -> Run] /\ run'[r] = Idle /\ \A q \in Runs : q # r => run'[q] = run[q]
  BY <1>1, <1>2
<1> QED
  BY <1>2, <1>3 DEF Typed, HandInv

LEMMA PlacesThere ==
  /\ Waking \union Refusing \union Opening \union Driving \subseteq Places
  /\ "idle" \notin Waking \union Refusing \union Opening \union Driving
BY DEF Places, Waking, Refusing, Opening, Driving, Hearing, Closing

\* What a claim, an alert or a run writes to an account or a tally.
LEMMA WritesTyped ==
  ASSUME TypeOK, NEW c
  PROVE  /\ OpenWindow \in Account
         /\ \A v \in Account : [account EXCEPT ![c] = v] \in [Threads -> Account]
         /\ [account EXCEPT ![c].spent = @ + 1] \in [Threads -> Account]
         /\ [account EXCEPT ![c].told = TRUE] \in [Threads -> Account]
         /\ [account EXCEPT ![c].window = "stale"] \in [Threads -> Account]
         /\ \A v \in Tally : [tally EXCEPT ![c] = v] \in [Threads -> Tally]
         /\ [tally EXCEPT ![c].started = @ + 1] \in [Threads -> Tally]
         /\ [tally EXCEPT ![c].alerts = @ + 1] \in [Threads -> Tally]
<1>1. account \in [Threads -> Account] /\ tally \in [Threads -> Tally]
  BY DEF TypeOK
<1>2. OpenWindow \in Account
  BY DEF OpenWindow, Account
<1>3. \A x \in Account : /\ [x EXCEPT !.spent = @ + 1] \in Account
                         /\ [x EXCEPT !.told = TRUE] \in Account
                         /\ [x EXCEPT !.window = "stale"] \in Account
  <2>1. \A x \in Account : x.spent + 1 \in Nat
    BY DEF Account
  <2>2. \A x \in Account, n \in Nat : [x EXCEPT !.spent = n] \in Account
    BY DEF Account
  <2>3. \A x \in Account : [x EXCEPT !.told = TRUE] \in Account
    BY DEF Account
  <2>4. \A x \in Account : [x EXCEPT !.window = "stale"] \in Account
    BY DEF Account
  <2> QED
    BY <2>1, <2>2, <2>3, <2>4
<1>4. \A x \in Tally : /\ [x EXCEPT !.started = @ + 1] \in Tally
                       /\ [x EXCEPT !.alerts = @ + 1] \in Tally
  BY DEF Tally
<1> QED
  BY <1>1, <1>2, <1>3, <1>4

LEMMA HandlerTypes ==
  ASSUME Typed, TakesRow \/ HandlerStep PROVE Typed'
<1> DEFINE m == run[Lane].m
<1>1. Lane \in Runs
  BY DEF Runs
<1>2. CASE TakesRow
  <2>1. /\ rows \in Seq(Mentions) /\ rows # <<>> /\ rows' = Tail(rows)
        /\ run' = [run EXCEPT ![Lane] = [Idle EXCEPT !.m = Head(rows), !.at = "switch"]]
    BY <1>2 DEF TakesRow, Typed, TypeOK
  <2>2. Head(rows) \in Mentions /\ rows' \in Seq(Mentions)
    BY <2>1
  <2>3. run' \in [Runs -> Run] /\ run'[Lane].m \in Mentions
        /\ \A q \in Runs : q # Lane => run'[q] = run[q]
    BY <1>1, <2>1, <2>2 DEF Typed, TypeOK, Idle, Run, Places, Waking, Who
  <2> QED
    BY <1>1, <1>2, <2>2, <2>3 DEF TakesRow, Typed, TypeOK, HandInv, board, past
<1>3. CASE Looks
  <2>1. run[Lane].at \in Waking
    BY <1>3 DEF Looks, Waking
  <2>2. run' \in [Runs -> Run] /\ HandInv'
    <3>1. CASE \E place \in Waking : Goes(Lane, place)
      BY <1>1, <2>1, <3>1, RunGoes, PlacesThere
    <3>2. CASE Leaves(Lane)
      BY <1>1, <3>2, RunLeaves
    <3> QED
      BY <1>3, <3>1, <3>2 DEF Looks, Waking
  <2> QED
    BY <1>3, <2>2 DEF Looks, RunOnly, Typed, TypeOK, board, past
<1>4. CASE Claims
  <2>1. run[Lane].at # "idle"
    BY <1>4 DEF Claims
  <2>2. run' \in [Runs -> Run] /\ HandInv'
    <3>1. \E place \in {"block", "check"} : Goes(Lane, place)
      BY <1>4 DEF Claims
    <3> QED
      BY <1>1, <2>1, <3>1, RunGoes, PlacesThere DEF Refusing, Opening
  <2>3. account' \in [Threads -> Account] /\ tally' \in [Threads -> Tally]
    <3>1. [started |-> 0, alerts |-> 0] \in Tally /\ TypeOK
      BY DEF Tally, Typed
    <3>2. account' \in [Threads -> Account]
      <4>1. \/ account' = account \/ account' = [account EXCEPT ![Charged] = OpenWindow]
            \/ account' = [account EXCEPT ![Charged].spent = @ + 1]
        BY <1>4 DEF Claims
      <4>2. account \in [Threads -> Account] /\ TypeOK
        BY <3>1 DEF TypeOK
      <4>3. /\ [account EXCEPT ![Charged] = OpenWindow] \in [Threads -> Account]
            /\ [account EXCEPT ![Charged].spent = @ + 1] \in [Threads -> Account]
        BY <4>2, WritesTyped, Zenon
      <4> QED
        BY <4>1, <4>2, <4>3, Zenon
    <3>3. tally' \in [Threads -> Tally]
      BY <1>4, <3>1, WritesTyped DEF Claims, TypeOK
    <3> QED
      BY <3>2, <3>3
  <2> QED
    BY <1>4, <2>2, <2>3 DEF Claims, Typed, TypeOK, board
<1>5. CASE Blocks
  <2>1. run' \in [Runs -> Run] /\ HandInv'
    BY <1>1, <1>5, RunGoes, PlacesThere DEF Blocks, Refusing
  <2>2. mention' \in [Mentions -> Mention]
    BY <1>5 DEF Blocks, Typed, TypeOK, Mention, Exists
  <2> QED
    BY <1>5, <2>1, <2>2 DEF Blocks, Typed, TypeOK, board, past
<1>6. CASE Notices
  <2>1. run' \in [Runs -> Run] /\ HandInv'
    BY <1>1, <1>6, RunGoes, RunLeaves, PlacesThere DEF Notices, Refusing
  <2>2. account' \in [Threads -> Account]
    <3>1. account' = account \/ account' = [account EXCEPT ![Charged].told = TRUE]
      BY <1>6, Zenon DEF Notices
    <3>2. account \in [Threads -> Account] /\ TypeOK
      BY DEF Typed, TypeOK
    <3>3. [account EXCEPT ![Charged].told = TRUE] \in [Threads -> Account]
      BY <3>2, WritesTyped, Zenon
    <3> QED
      BY <3>1, <3>2, <3>3, Zenon
  <2> QED
    BY <1>6, <2>1, <2>2 DEF Notices, Typed, TypeOK, board, past
<1>7. CASE Alerts
  <2>1. run' \in [Runs -> Run] /\ HandInv'
    BY <1>1, <1>7, RunLeaves DEF Alerts
  <2>2. tally' \in [Threads -> Tally]
    BY <1>7, WritesTyped DEF Alerts, Typed
  <2> QED
    BY <1>7, <2>1, <2>2 DEF Alerts, Typed, TypeOK, board
<1> QED
  BY <1>2, <1>3, <1>4, <1>5, <1>6, <1>7 DEF HandlerStep

\* A run that ends takes its mention out of `inFlight` and stays out of the others' way.
LEMMA EndsTyped ==
  ASSUME Typed, NEW r \in Runs, Ends(r)
  PROVE  /\ run' \in [Runs -> Run] /\ HandInv' /\ inFlight' \subseteq Mentions
         /\ run'[r].at = "idle"
         /\ \A q \in Runs : q # r => run'[q] = run[q]
BY RunLeaves DEF Ends, Typed, TypeOK

LEMMA RunTypes ==
  ASSUME Typed, NEW r \in Runs, RunStep(r) \/ TurnPosts(r) \/ Refused(r) PROVE Typed'
<1> DEFINE m == run[r].m
<1>1. run[r].at # "idle" /\ m \in Mentions
  <2>1. run[r].at # "idle"
    BY DEF RunStep, TurnPosts, Refused, Checks, Opens, Links, Turns, LooksForOwn, Rereads, PostsBack,
           Marks, Waking, Refusing, Opening, Closing
  <2> QED
    BY <2>1 DEF Typed, HandInv
<1>2. CASE Checks(r)
  <2>1. run' \in [Runs -> Run] /\ HandInv'
    BY <1>1, <1>2, RunGoes, RunLeaves, PlacesThere DEF Checks, Opening
  <2>2. overlapped' \subseteq Mentions
    BY <1>1, <1>2 DEF Checks, Typed, TypeOK
  <2> QED
    BY <1>2, <2>1, <2>2 DEF Checks, Typed, TypeOK, board
<1>3. CASE Opens(r)
  <2>1. run' \in [Runs -> Run] /\ HandInv'
    BY <1>1, <1>3, RunGoes, RunLeaves, PlacesThere DEF Opens, Opening
  <2> QED
    BY <1>3, <2>1 DEF Opens, RunOnly, Typed, TypeOK, board, past
<1>4. CASE Links(r)
  <2>1. run' \in [Runs -> Run] /\ HandInv'
    BY <1>1, <1>4, RunGoes, PlacesThere DEF Links, Driving, Hearing
  <2>2. mention' \in [Mentions -> Mention]
    BY <1>4 DEF Links, Typed, TypeOK, Mention, Exists
  <2>3. tally' \in [Threads -> Tally] /\ inFlight' \subseteq Mentions
    BY <1>1, <1>4, WritesTyped DEF Links, Typed, TypeOK
  <2> QED
    BY <1>4, <2>1, <2>2, <2>3 DEF Links, Typed, TypeOK, board
<1>5. CASE Turns(r)
  <2>1. run' \in [Runs -> Run] /\ HandInv'
    <3>1. CASE Goes(r, "turn")
      BY <1>1, <3>1, RunGoes, PlacesThere DEF Driving, Hearing
    <3>2. CASE \E said \in BOOLEAN : run' = [run EXCEPT ![r].at = "own", ![r].said = said]
      <4>1. PICK said \in BOOLEAN : run' = [run EXCEPT ![r].at = "own", ![r].said = said]
        BY <3>2
      <4>2. run' \in [Runs -> Run] /\ \A q \in Runs : run'[q].m = run[q].m
        BY <4>1, PlacesThere DEF Typed, TypeOK, Run, Driving, Hearing
      <4>3. \A q \in Runs : q # r => run'[q] = run[q]
        BY <4>1 DEF Typed, TypeOK
      <4> QED
        BY <1>1, <4>2, <4>3 DEF Typed, HandInv
    <3> QED
      BY <1>5, <3>1, <3>2 DEF Turns
  <2> QED
    BY <1>5, <2>1 DEF Turns, RunOnly, Typed, TypeOK, board, past
<1>6. CASE LooksForOwn(r)
  <2>1. run' \in [Runs -> Run] /\ HandInv' /\ inFlight' \subseteq Mentions
    BY <1>1, <1>6, RunGoes, EndsTyped, PlacesThere DEF LooksForOwn, Driving, Closing, Typed, TypeOK
  <2> QED
    BY <1>6, <2>1 DEF LooksForOwn, Typed, TypeOK, board, past
<1>7. CASE Rereads(r)
  <2>1. run' \in [Runs -> Run] /\ HandInv'
    BY <1>1, <1>7, RunGoes, PlacesThere DEF Rereads, Driving, Closing
  <2> QED
    BY <1>7, <2>1 DEF Rereads, RunOnly, Typed, TypeOK, board, past
<1>8. CASE PostsBack(r)
  <2>1. run' \in [Runs -> Run] /\ HandInv' /\ inFlight' \subseteq Mentions
    <3>1. CASE Ends(r)
      BY <3>1, EndsTyped
    <3>2. CASE ~Ends(r)
      <4> DEFINE heard == Heard(AgentOf[m], ThreadOf[m], m)
      <4>1. /\ heard \in [Runs -> Run]
            /\ \A q \in Runs : heard[q].m = run[q].m /\ heard[q].at = run[q].at
        BY <1>1, HeardTyped DEF Typed, Who
      <4>2. run' = [heard EXCEPT ![r] = [run[r] EXCEPT !.own = m, !.at = "mark"]] /\ inFlight' = inFlight
        BY <1>8, <3>2 DEF PostsBack
      <4>3. [run[r] EXCEPT !.own = m, !.at = "mark"] \in Run
        BY <1>1, PlacesThere DEF Typed, TypeOK, Run, Driving, Closing, Who
      <4>4. run' \in [Runs -> Run]
        BY <4>1, <4>2, <4>3
      <4>5. run'[r].m = m /\ \A q \in Runs : q # r => run'[q] = heard[q]
        BY <1>1, <4>1, <4>2 DEF Typed, TypeOK, Run
      <4> QED
        BY <1>1, <4>1, <4>2, <4>4, <4>5 DEF Typed, TypeOK, HandInv
    <3> QED
      BY <3>1, <3>2
  <2> QED
    BY <1>8, <2>1 DEF PostsBack, Typed, TypeOK, board, past
<1>9. CASE Marks(r)
  <2>1. run' \in [Runs -> Run] /\ HandInv' /\ inFlight' \subseteq Mentions
    BY <1>9, EndsTyped DEF Marks
  <2>2. mention' \in [Mentions -> Mention]
    <3>1. run[r].own \in Who /\ mention \in [Mentions -> Mention]
      BY DEF Typed, TypeOK, Run
    <3>2. \A x \in Mention, w \in Who : [x EXCEPT !.status = "answered", !.reply = w] \in Mention
      BY DEF Mention, Status
    <3>3. mention[m].reply \in Who
      BY <1>1, <3>1 DEF Mention
    <3>4. \/ mention' = mention
          \/ \E w \in Who : mention' = [mention EXCEPT ![m].status = "answered", ![m].reply = w]
      BY <1>9, <3>1, <3>3 DEF Marks
    <3>5. ASSUME NEW w \in Who, mention' = [mention EXCEPT ![m].status = "answered", ![m].reply = w]
          PROVE  mention' \in [Mentions -> Mention]
      <4>1. mention'[m] = [mention[m] EXCEPT !.status = "answered", !.reply = w]
        BY <1>1, <3>1, <3>5
      <4>2. mention'[m] \in Mention /\ \A x \in Mentions : x # m => mention'[x] = mention[x]
        BY <1>1, <3>1, <3>2, <3>5, <4>1
      <4> QED
        BY <3>1, <3>5, <4>2
    <3> QED
      BY <3>1, <3>4, <3>5
  <2> QED
    BY <1>9, <2>1, <2>2 DEF Marks, Typed, TypeOK, board, past
<1>10. CASE TurnPosts(r)
  <2>1. run' = Heard(AgentOf[m], ThreadOf[m], m)
    BY <1>10 DEF TurnPosts
  <2>2. run' \in [Runs -> Run] /\ HandInv'
    BY <1>1, <2>1, HeardTyped DEF Typed, Who, HandInv
  <2>3. post' \in [Posts -> Nat]
    BY <1>10 DEF TurnPosts, Typed, TypeOK, Storing
  <2> QED
    BY <1>10, <2>2, <2>3 DEF TurnPosts, Typed, TypeOK, board, past
<1>11. CASE Refused(r)
  <2>1. run' \in [Runs -> Run] /\ HandInv' /\ inFlight' \subseteq Mentions
    <3>1. CASE Leaves(r) /\ UNCHANGED inFlight
      BY <3>1, RunLeaves DEF Typed, TypeOK
    <3>2. CASE Ends(r)
      BY <3>2, EndsTyped
    <3>3. CASE UNCHANGED inFlight /\ run' = [run EXCEPT ![r].at = "reread", ![r].own = None]
      <4>1. run' \in [Runs -> Run] /\ \A q \in Runs : run'[q].m = run[q].m
        BY <3>3, PlacesThere DEF Typed, TypeOK, Run, Driving, Closing, Who
      <4>2. \A q \in Runs : q # r => run'[q] = run[q]
        BY <3>3 DEF Typed, TypeOK
      <4> QED
        BY <1>1, <3>3, <4>1, <4>2 DEF Typed, TypeOK, HandInv
    <3> QED
      BY <1>11, <3>1, <3>2, <3>3 DEF Refused
  <2>2. used' \in [Kinds -> Nat] /\ overlapped' = overlapped /\ tally' = tally
    BY <1>11, UsesCounts DEF Refused, Mishap, Kinds, Typed
  <2> QED
    BY <1>11, <2>1, <2>2 DEF Refused, Typed, TypeOK, board
<1> QED
  BY <1>2, <1>3, <1>4, <1>5, <1>6, <1>7, <1>8, <1>9, <1>10, <1>11 DEF RunStep

LEMMA OthersTypes ==
  ASSUME Typed,
         \/ \E r \in Runs, m \in Mentions : Press(r, m)
         \/ \E a \in Agents, t \in Threads : AgentPosts(a, t)
         \/ Edits \/ (\E t \in Threads : WindowAges(t)) \/ Crash
  PROVE  Typed'
<1>1. ASSUME NEW r \in Runs, NEW m \in Mentions, Press(r, m) PROVE Typed'
  <2>1. used' \in [Kinds -> Nat]
    BY <1>1, UsesCounts DEF Press, Kinds, Typed
  <2>2. run' = [run EXCEPT ![r] = [Idle EXCEPT !.m = m, !.at = "check"]]
    BY <1>1 DEF Press
  <2>3. [Idle EXCEPT !.m = m, !.at = "check"] \in Run
    BY DEF Idle, Run, Places, Opening, Who
  <2>4. run' \in [Runs -> Run] /\ run'[r].m = m /\ \A q \in Runs : q # r => run'[q] = run[q]
    BY <2>2, <2>3 DEF Typed, TypeOK, Idle
  <2> QED
    BY <1>1, <2>1, <2>4 DEF Press, Typed, TypeOK, HandInv, board
<1>2. ASSUME NEW a \in Agents, NEW t \in Threads, AgentPosts(a, t) PROVE Typed'
  <2>1. run' \in [Runs -> Run] /\ HandInv'
    BY <1>2, HeardTyped DEF AgentPosts, Typed, Who, HandInv
  <2> QED
    BY <1>2, <2>1 DEF AgentPosts, Typed, TypeOK, board, past
<1>3. CASE Edits
  <2>1. used' \in [Kinds -> Nat]
    BY <1>3, UsesCounts DEF Edits, Kinds, Typed
  <2>2. /\ mention' \in [Mentions -> Mention] /\ auto' \in BOOLEAN
        /\ thread' \in [Threads -> {"open", "closed", "gone"}]
    <3>1. \A ms : Without(ms) \in [Mentions -> Mention]
      BY DEF Without, Typed, TypeOK, Mention, Status
    <3>2. CASE FlipSwitch
      BY <3>2 DEF FlipSwitch, Typed, TypeOK
    <3>3. CASE Moderates
      BY <3>3 DEF Moderates, Typed, TypeOK
    <3>4. CASE DeletesThread
      BY <3>1, <3>4 DEF DeletesThread, Typed, TypeOK
    <3>5. CASE DeletesPost
      BY <3>1, <3>5 DEF DeletesPost, Typed, TypeOK, board
    <3>6. CASE Triages
      BY <3>6 DEF Triages, Typed, TypeOK, board, Mention, Status
    <3> QED
      BY <1>3, <3>2, <3>3, <3>4, <3>5, <3>6 DEF Edits
  <2> QED
    BY <1>3, <2>1, <2>2 DEF Edits, Typed, TypeOK, HandInv
<1>4. ASSUME NEW t \in Threads, WindowAges(t) PROVE Typed'
  <2>1. used' \in [Kinds -> Nat]
    BY <1>4, UsesCounts DEF WindowAges, Kinds, Typed
  <2>2. account' \in [Threads -> Account]
    <3>1. TypeOK /\ account' = [account EXCEPT ![t].window = "stale"]
      BY <1>4 DEF Typed, WindowAges
    <3> QED
      BY <3>1, WritesTyped, Zenon
  <2> QED
    BY <1>4, <2>1, <2>2 DEF WindowAges, Typed, TypeOK, HandInv, board
<1>5. CASE Crash
  <2>1. used' \in [Kinds -> Nat] /\ overlapped' = overlapped /\ tally' = tally
    BY <1>5, UsesCounts DEF Crash, Mishap, Kinds, Typed
  <2>2. run' \in [Runs -> Run] /\ HandInv'
    BY <1>5 DEF Crash, HandInv, Idle, Run, Places, Who
  <2>3. post' \in [Posts -> Nat]
    <3>1. \A p \in Posts : Unwritten \in Nat /\ Recorded(p) \in Nat
      BY ForumAssumption DEF Unwritten, Recorded, Row
    <3> QED
      BY <1>5, <3>1 DEF Crash
  <2> QED
    BY <1>5, <2>1, <2>2, <2>3 DEF Crash, Typed, TypeOK, board
<1> QED
  BY <1>1, <1>2, <1>3, <1>4, <1>5

LEMMA NextTypes == Typed /\ [Next]_vars => Typed'
<1> SUFFICES ASSUME Typed, [Next]_vars PROVE Typed'
  OBVIOUS
<1>1. CASE Next
  BY <1>1, PostTypes, HandlerTypes, RunTypes, OthersTypes DEF Next
<1>2. CASE UNCHANGED vars
  BY <1>2 DEF vars, board, past, Typed, TypeOK, HandInv
<1> QED
  BY <1>1, <1>2

-----------------------------------------------------------------------------
(* The runs of a mention.                                                   *)

\* Seen from the mentions, a run stays where it is, or comes to nothing before it was driven.
Keeps(q) ==
    \/ run'[q].at \notin OnWay /\ run[q].at \notin Driving
    \/ /\ run'[q].m = run[q].m
       /\ run'[q].at \in OnWay <=> run[q].at \in OnWay
       /\ run'[q].at \in Driving <=> run[q].at \in Driving

\* No mention but x becomes answered.
NoAnswer(x) ==
    \A m \in Mentions : m # x /\ mention'[m].status = "answered" => mention[m].status = "answered"

\* A step in which the runs stay where they are.
LEMMA RunsAside ==
  ASSUME RunsInv, Typed', inFlight' = inFlight, overlapped' = overlapped,
         \A q \in Runs : Keeps(q), NoAnswer(None)
  PROVE  RunsInv'
<1>1. \A m \in Mentions : Begun(m)' \subseteq Begun(m) /\ Driven(m)' = Driven(m)
  <2> TAKE m \in Mentions
  <2>1. Driving \subseteq OnWay
    BY DEF OnWay
  <2>2. Begun(m)' \subseteq Begun(m)
    BY DEF Begun, Keeps
  <2>3. Driven(m)' = Driven(m)
    BY <2>1 DEF Driven, Keeps
  <2> QED
    BY <2>2, <2>3
<1>2. SoleRun'
  <2>1. inFlight \subseteq Mentions /\ SoleRun
    BY DEF RunsInv, TypeOK
  <2>2. \A m \in inFlight' : Driven(m)' # {}
    BY <1>1, <2>1 DEF SoleRun
  <2>3. \A m \in Mentions \ overlapped' :
           (\A r, q \in Driven(m)' : r = q) /\ (Driven(m)' # {} => m \in inFlight')
    BY <1>1, <2>1 DEF SoleRun
  <2> QED
    BY <2>2, <2>3 DEF SoleRun
<1>3. BegunInv'
  <2>1. \A m \in Mentions : mention'[m].status = "answered" => mention[m].status = "answered"
    BY ForumAssumption DEF NoAnswer
  <2>2. \A m \in Mentions \ overlapped' :
           /\ \A r, q \in Begun(m)' : r = q
           /\ mention'[m].status = "answered" => Begun(m)' = {}
    BY <1>1, <2>1 DEF RunsInv, BegunInv
  <2> QED
    BY <2>2 DEF BegunInv
<1> QED
  BY <1>2, <1>3 DEF RunsInv, Typed

\* A driven run of x ends, and may mark x as answered.
LEMMA RunEnds ==
  ASSUME RunsInv, Typed', NEW r \in Runs, NEW x \in Mentions, run[r].m = x, run[r].at \in Driving,
         Ends(r), overlapped' = overlapped, NoAnswer(x)
  PROVE  RunsInv'
<1>1. /\ inFlight' = inFlight \ {x} /\ inFlight \subseteq Mentions
      /\ run'[r].at = "idle" /\ \A q \in Runs : q # r => run'[q] = run[q]
  <2>1. Typed
    BY DEF RunsInv, Typed
  <2> QED
    BY <2>1, EndsTyped DEF Ends, RunsInv, TypeOK
<1>2. "idle" \notin OnWay /\ Driving \subseteq OnWay
  BY DEF OnWay, Driving, Hearing, Closing
<1>3. \A m \in Mentions : /\ Begun(m)' = Begun(m) \ {r}
                          /\ Driven(m)' = Driven(m) \ {r}
                          /\ Driven(m) \subseteq Begun(m)
                          /\ m # x => r \notin Begun(m)
  <2> TAKE m \in Mentions
  <2>1. Begun(m)' = {q \in Runs : run'[q].m = m /\ run'[q].at \in OnWay}
    BY DEF Begun
  <2>2. Driven(m)' = {q \in Runs : run'[q].m = m /\ run'[q].at \in Driving}
    BY DEF Driven
  <2>3. Begun(m)' = Begun(m) \ {r}
    BY <1>1, <1>2, <2>1 DEF Begun
  <2>4. Driven(m)' = Driven(m) \ {r}
    BY <1>1, <1>2, <2>2 DEF Driven
  <2> QED
    BY <1>2, <2>3, <2>4 DEF Begun, Driven
<1>4. r \in Begun(x)
  BY <1>2 DEF Begun
<1>5. x \notin overlapped => Begun(x)' = {} /\ Driven(x)' = {}
  BY <1>3, <1>4 DEF RunsInv, BegunInv
<1>6. SoleRun'
  <2>1. SoleRun
    BY DEF RunsInv
  <2>2. \A m \in inFlight' : Driven(m)' # {}
    <3> SUFFICES ASSUME NEW m \in inFlight' PROVE Driven(m)' # {}
      OBVIOUS
    <3>1. m \in inFlight /\ m # x /\ m \in Mentions
      BY <1>1
    <3>2. Driven(m)' = Driven(m)
      BY <1>3, <3>1
    <3> QED
      BY <2>1, <3>1, <3>2 DEF SoleRun
  <2>3. \A m \in Mentions \ overlapped' :
           (\A p, q \in Driven(m)' : p = q) /\ (Driven(m)' # {} => m \in inFlight')
    <3> SUFFICES ASSUME NEW m \in Mentions \ overlapped
                 PROVE  (\A p, q \in Driven(m)' : p = q) /\ (Driven(m)' # {} => m \in inFlight')
      OBVIOUS
    <3>1. CASE m = x
      BY <1>5, <3>1
    <3>2. CASE m # x
      BY <1>1, <1>3, <2>1, <3>2 DEF SoleRun
    <3> QED
      BY <3>1, <3>2
  <2> QED
    BY <2>2, <2>3 DEF SoleRun
<1>7. BegunInv'
  <2>1. \A m \in Mentions \ overlapped' :
           /\ \A p, q \in Begun(m)' : p = q
           /\ mention'[m].status = "answered" => Begun(m)' = {}
    <3> SUFFICES ASSUME NEW m \in Mentions \ overlapped
                 PROVE  /\ \A p, q \in Begun(m)' : p = q
                        /\ mention'[m].status = "answered" => Begun(m)' = {}
      OBVIOUS
    <3>1. CASE m = x
      BY <1>5, <3>1
    <3>2. CASE m # x
      BY <1>3, <3>2 DEF RunsInv, BegunInv, NoAnswer
    <3> QED
      BY <3>1, <3>2
  <2> QED
    BY <2>1 DEF BegunInv
<1> QED
  BY <1>6, <1>7 DEF RunsInv, Typed

LEMMA PlacesApart ==
  /\ Driving \subseteq OnWay /\ {"open", "link"} \subseteq OnWay
  /\ {"open", "link"} \cap Driving = {}
  /\ ({"idle", "check"} \union Waking \union Refusing) \cap OnWay = {}
BY DEF OnWay, Driving, Hearing, Closing, Waking, Refusing

\* A run that leaves before it was driven, or that goes to a place of the same kind.
LEMMA LeavesKeeps ==
  ASSUME Typed, NEW r \in Runs, Leaves(r), run[r].at \notin Driving
  PROVE  \A q \in Runs : Keeps(q)
BY RunLeaves, PlacesApart DEF Keeps

LEMMA GoesKeeps ==
  ASSUME Typed, NEW r \in Runs, NEW place \in Places, run[r].at # "idle", Goes(r, place),
         \/ run[r].at \in Driving /\ place \in Driving
         \/ run[r].at \in {"open", "link"} /\ place \in {"open", "link"}
         \/ run[r].at \notin Driving /\ place \notin OnWay
  PROVE  \A q \in Runs : Keeps(q)
BY RunGoes, PlacesApart DEF Keeps

LEMMA HeardKeeps ==
  ASSUME Typed, NEW who \in Who, NEW a, NEW t, run' = Heard(a, t, who)
  PROVE  \A q \in Runs : Keeps(q)
<1>1. \A q \in Runs : run'[q].m = run[q].m /\ run'[q].at = run[q].at
  BY HeardTyped DEF Typed
<1> QED
  BY <1>1 DEF Keeps

\* A mention about to be run: it has no run, or it is written down that two began together.
LEMMA ChecksRuns ==
  ASSUME RunsInv, Typed', NEW r \in Runs, Checks(r) PROVE RunsInv'
<1>1. PICK x \in Mentions : x = run[r].m
  BY DEF RunsInv, HandInv, Checks
<1>2. Typed /\ run[r].at = "check" /\ inFlight' = inFlight /\ mention' = mention
  BY DEF RunsInv, Typed, Checks
<1>3. CASE Refuses(x)
  <2>1. Leaves(r) /\ overlapped' = overlapped
    BY <1>1, <1>3 DEF Checks
  <2>2. \A q \in Runs : Keeps(q)
    BY <1>2, <2>1, LeavesKeeps, PlacesApart
  <2> QED
    BY <1>2, <2>1, <2>2, RunsAside DEF NoAnswer
<1>4. CASE ~Refuses(x)
  <2>1. /\ x \notin inFlight /\ mention[x].status # "answered" /\ Goes(r, "open")
        /\ overlapped' = IF \E q \in Runs : run[q].m = x /\ run[q].at \in {"open", "link"}
                         THEN overlapped \union {x} ELSE overlapped
    BY <1>1, <1>4 DEF Checks, Refuses
  <2>2. run'[r].m = x /\ run'[r].at = "open" /\ \A q \in Runs : q # r => run'[q] = run[q]
    <3>1. "open" \in Places
      BY PlacesThere DEF Opening
    <3> QED
      BY <1>1, <1>2, <2>1, <3>1, RunGoes
  <2>3. \A m \in Mentions : Driven(m)' = Driven(m)
    BY <1>2, <2>2, PlacesApart DEF Driven
  <2>4. \A m \in Mentions : m # x => Begun(m)' = Begun(m)
    BY <1>1, <1>2, <2>2, PlacesApart DEF Begun
  <2>5. x \notin overlapped' => Begun(x)' = {r}
    <3> SUFFICES ASSUME x \notin overlapped' PROVE Begun(x)' = {r}
      OBVIOUS
    <3>1. x \notin overlapped /\ \A q \in Runs : run[q].m = x => run[q].at \notin {"open", "link"}
      BY <2>1
    <3>2. Driven(x) = {}
      BY <2>1, <3>1 DEF RunsInv, SoleRun
    <3>3. Begun(x) = {}
      BY <3>1, <3>2 DEF Begun, Driven, OnWay
    <3>4. r \in Begun(x)'
      BY <2>2, PlacesApart DEF Begun
    <3>5. \A q \in Begun(x)' : q = r
      BY <2>2, <3>3 DEF Begun
    <3> QED
      BY <3>4, <3>5
  <2>6. overlapped \subseteq overlapped' /\ inFlight \subseteq Mentions
    BY <2>1 DEF RunsInv, TypeOK
  <2>7. SoleRun'
    <3>1. \A m \in inFlight' : Driven(m)' # {}
      BY <1>2, <2>3, <2>6 DEF RunsInv, SoleRun
    <3>2. \A m \in Mentions \ overlapped' :
             (\A p, q \in Driven(m)' : p = q) /\ (Driven(m)' # {} => m \in inFlight')
      BY <1>2, <2>3, <2>6 DEF RunsInv, SoleRun
    <3> QED
      BY <3>1, <3>2 DEF SoleRun
  <2>8. BegunInv'
    <3>1. \A m \in Mentions \ overlapped' :
             /\ \A p, q \in Begun(m)' : p = q
             /\ mention'[m].status = "answered" => Begun(m)' = {}
      <4> SUFFICES ASSUME NEW m \in Mentions \ overlapped'
                   PROVE  /\ \A p, q \in Begun(m)' : p = q
                          /\ mention'[m].status = "answered" => Begun(m)' = {}
        OBVIOUS
      <4>1. CASE m = x
        BY <1>2, <2>1, <2>5, <4>1
      <4>2. CASE m # x
        BY <1>2, <2>4, <2>6, <4>2 DEF RunsInv, BegunInv
      <4> QED
        BY <4>1, <4>2
    <3> QED
      BY <3>1 DEF BegunInv
  <2> QED
    BY <2>7, <2>8 DEF RunsInv, Typed
<1> QED
  BY <1>3, <1>4

\* The run is under way: it was the only one of its mention that had begun.
LEMMA LinksRuns ==
  ASSUME RunsInv, Typed', NEW r \in Runs, Links(r) PROVE RunsInv'
<1>1. PICK x \in Mentions : x = run[r].m
  BY DEF RunsInv, HandInv, Links
<1>2. /\ Typed /\ run[r].at = "link" /\ inFlight' = inFlight \union {x} /\ overlapped' = overlapped
      /\ inFlight \subseteq Mentions
  BY <1>1 DEF RunsInv, Typed, TypeOK, Links
<1>3. \A m \in Mentions : mention'[m].status = mention[m].status
  BY <1>1 DEF Links, RunsInv, TypeOK, Mention
<1>4. run'[r].m = x /\ run'[r].at = "first" /\ \A q \in Runs : q # r => run'[q] = run[q]
  <2>1. "first" \in Places /\ Goes(r, "first")
    BY PlacesThere DEF Driving, Hearing, Links
  <2> QED
    BY <1>1, <1>2, <2>1, RunGoes
<1>5. "first" \in Driving
  BY DEF Driving, Hearing
<1>6. \A m \in Mentions : Begun(m)' = Begun(m) /\ (m # x => Driven(m)' = Driven(m))
  <2> TAKE m \in Mentions
  <2>1. Begun(m)' = Begun(m)
    BY <1>1, <1>2, <1>4, <1>5, PlacesApart DEF Begun
  <2>2. m # x => Driven(m)' = Driven(m)
    BY <1>1, <1>2, <1>4, PlacesApart DEF Driven
  <2> QED
    BY <2>1, <2>2
<1>7. r \in Driven(x)' /\ Driven(x)' \subseteq Begun(x)'
  BY <1>4, <1>5, PlacesApart DEF Driven, Begun
<1>8. SoleRun'
  <2>1. \A m \in inFlight' : Driven(m)' # {}
    BY <1>2, <1>6, <1>7 DEF RunsInv, SoleRun
  <2>2. \A m \in Mentions \ overlapped' :
           (\A p, q \in Driven(m)' : p = q) /\ (Driven(m)' # {} => m \in inFlight')
    <3> SUFFICES ASSUME NEW m \in Mentions \ overlapped
                 PROVE  (\A p, q \in Driven(m)' : p = q) /\ (Driven(m)' # {} => m \in inFlight')
      BY <1>2
    <3>1. CASE m = x
      BY <1>2, <1>6, <1>7, <3>1 DEF RunsInv, BegunInv
    <3>2. CASE m # x
      BY <1>2, <1>6, <3>2 DEF RunsInv, SoleRun
    <3> QED
      BY <3>1, <3>2
  <2> QED
    BY <2>1, <2>2 DEF SoleRun
<1>9. BegunInv'
  <2>1. \A m \in Mentions \ overlapped' :
           /\ \A p, q \in Begun(m)' : p = q
           /\ mention'[m].status = "answered" => Begun(m)' = {}
    BY <1>2, <1>3, <1>6 DEF RunsInv, BegunInv
  <2> QED
    BY <2>1 DEF BegunInv
<1> QED
  BY <1>8, <1>9 DEF RunsInv, Typed

LEMMA RunStepRuns ==
  ASSUME RunsInv, Typed', NEW r \in Runs, RunStep(r) \/ TurnPosts(r) \/ Refused(r) PROVE RunsInv'
<1>1. Typed
  BY DEF RunsInv, Typed
<1>2. PICK x \in Mentions : x = run[r].m /\ run[r].at # "idle"
  <2>1. run[r].at # "idle"
    BY DEF RunStep, TurnPosts, Refused, Checks, Opens, Links, Turns, LooksForOwn, Rereads, PostsBack,
           Marks, Waking, Refusing, Opening, Closing
  <2> QED
    BY <1>1, <2>1 DEF Typed, HandInv
<1>3. CASE Opens(r)
  <2>1. \A q \in Runs : Keeps(q)
    BY <1>1, <1>2, <1>3, LeavesKeeps, GoesKeeps, PlacesApart, PlacesThere DEF Opens, Opening
  <2> QED
    BY <1>3, <2>1, RunsAside DEF Opens, RunOnly, past, NoAnswer
<1>4. CASE Turns(r)
  <2>1. "first" \in Driving /\ "turn" \in Driving /\ "own" \in Driving
    BY DEF Driving, Hearing
  <2>2. \A q \in Runs : Keeps(q)
    <3>1. CASE run[r].at = "first" /\ Goes(r, "turn")
      BY <1>1, <2>1, <3>1, GoesKeeps, PlacesThere
    <3>2. CASE run[r].at = "turn" /\ \E said \in BOOLEAN :
                 run' = [run EXCEPT ![r].at = "own", ![r].said = said]
      <4>1. PICK said \in BOOLEAN : run' = [run EXCEPT ![r].at = "own", ![r].said = said]
        BY <3>2
      <4>2. run \in [Runs -> Run]
        BY <1>1 DEF Typed, TypeOK
      <4>3. run'[r].m = run[r].m /\ run'[r].at = "own" /\ \A q \in Runs : q # r => run'[q] = run[q]
        BY <4>1, <4>2 DEF Run
      <4> QED
        BY <2>1, <3>2, <4>3, PlacesApart DEF Keeps
    <3> QED
      BY <1>4, <3>1, <3>2 DEF Turns
  <2> QED
    BY <1>4, <2>2, RunsAside DEF Turns, RunOnly, past, NoAnswer
<1>5. CASE LooksForOwn(r)
  <2>1. run[r].at \in Driving /\ "mark" \in Driving /\ "reread" \in Driving
    BY <1>5 DEF LooksForOwn, Driving, Hearing, Closing
  <2>2. mention' = mention /\ overlapped' = overlapped
    BY <1>5 DEF LooksForOwn, past
  <2>3. CASE Ends(r)
    BY <1>2, <2>1, <2>2, <2>3, RunEnds DEF NoAnswer
  <2>4. CASE ~Ends(r)
    <3>1. inFlight' = inFlight /\ (Goes(r, "mark") \/ Goes(r, "reread"))
      BY <1>5, <2>4 DEF LooksForOwn
    <3>2. \A q \in Runs : Keeps(q)
      BY <1>1, <1>2, <2>1, <3>1, GoesKeeps, PlacesThere
    <3> QED
      BY <2>2, <3>1, <3>2, RunsAside DEF NoAnswer
  <2> QED
    BY <2>3, <2>4
<1>6. CASE Rereads(r)
  <2>1. run[r].at \in Driving /\ "mark" \in Driving /\ "reply" \in Driving
    BY <1>6 DEF Rereads, Driving, Closing
  <2>2. \A q \in Runs : Keeps(q)
    BY <1>1, <1>2, <1>6, <2>1, GoesKeeps, PlacesThere DEF Rereads
  <2> QED
    BY <1>6, <2>2, RunsAside DEF Rereads, RunOnly, past, NoAnswer
<1>7. CASE PostsBack(r)
  <2>1. run[r].at \in Driving /\ "mark" \in Driving
    BY <1>7 DEF PostsBack, Driving, Closing
  <2>2. mention' = mention /\ overlapped' = overlapped
    BY <1>7 DEF PostsBack, past
  <2>3. CASE Ends(r)
    BY <1>2, <2>1, <2>2, <2>3, RunEnds DEF NoAnswer
  <2>4. CASE ~Ends(r)
    <3> DEFINE heard == Heard(AgentOf[x], ThreadOf[x], x)
    <3>1. inFlight' = inFlight /\ run' = [heard EXCEPT ![r] = [run[r] EXCEPT !.own = x, !.at = "mark"]]
      BY <1>2, <1>7, <2>4 DEF PostsBack
    <3>2. /\ heard \in [Runs -> Run] /\ run \in [Runs -> Run]
          /\ \A q \in Runs : heard[q].m = run[q].m /\ heard[q].at = run[q].at
      BY <1>1, HeardTyped DEF Typed, TypeOK, Who
    <3>3. run'[r] = [run[r] EXCEPT !.own = x, !.at = "mark"] /\ \A q \in Runs : q # r => run'[q] = heard[q]
      BY <3>1, <3>2
    <3>4. run'[r].m = run[r].m /\ run'[r].at = "mark"
      BY <3>2, <3>3 DEF Run
    <3>5. \A q \in Runs : Keeps(q)
      BY <2>1, <3>2, <3>3, <3>4, PlacesApart DEF Keeps
    <3> QED
      BY <2>2, <3>1, <3>5, RunsAside DEF NoAnswer
  <2> QED
    BY <2>3, <2>4
<1>8. CASE Marks(r)
  <2>1. run[r].at \in Driving /\ Ends(r) /\ overlapped' = overlapped
    BY <1>8 DEF Marks, Driving, Closing, past
  <2>2. NoAnswer(x)
    <3>1. \A m \in Mentions : m # x => mention'[m] = mention[m]
      BY <1>1, <1>2, <1>8 DEF Marks, Typed, TypeOK
    <3> QED
      BY <3>1 DEF NoAnswer
  <2> QED
    BY <1>2, <2>1, <2>2, RunEnds
<1>9. CASE TurnPosts(r)
  <2>1. run' = Heard(AgentOf[x], ThreadOf[x], x)
    BY <1>2, <1>9 DEF TurnPosts
  <2>2. \A q \in Runs : Keeps(q)
    BY <1>1, <2>1, HeardKeeps DEF Who
  <2> QED
    BY <1>9, <2>2, RunsAside DEF TurnPosts, past, NoAnswer
<1>10. CASE Refused(r)
  <2>1. mention' = mention /\ overlapped' = overlapped
    BY <1>10 DEF Refused, Mishap
  <2>2. CASE run[r].at \in Waking \union Refusing \union Opening /\ Leaves(r) /\ UNCHANGED inFlight
    <3>1. run[r].at \notin Driving
      BY <2>2 DEF Waking, Refusing, Opening, Driving, Hearing, Closing
    <3>2. \A q \in Runs : Keeps(q)
      BY <1>1, <2>2, <3>1, LeavesKeeps
    <3> QED
      BY <2>1, <2>2, <3>2, RunsAside DEF NoAnswer
  <2>3. CASE (run[r].at \in {"first"} \union Closing \/ (run[r].at = "own" /\ ~run[r].said)) /\ Ends(r)
    <3>1. run[r].at \in Driving
      BY <2>3 DEF Driving, Hearing
    <3> QED
      BY <1>2, <2>1, <2>3, <3>1, RunEnds DEF NoAnswer
  <2>4. CASE /\ run[r].at = "own" /\ UNCHANGED inFlight
             /\ run' = [run EXCEPT ![r].at = "reread", ![r].own = None]
    <3>1. run \in [Runs -> Run]
      BY <1>1 DEF Typed, TypeOK
    <3>2. run'[r].m = run[r].m /\ run'[r].at = "reread" /\ \A q \in Runs : q # r => run'[q] = run[q]
      BY <2>4, <3>1 DEF Run
    <3>3. "own" \in Driving /\ "reread" \in Driving
      BY DEF Driving, Hearing, Closing
    <3>4. \A q \in Runs : Keeps(q)
      BY <2>4, <3>2, <3>3, PlacesApart DEF Keeps
    <3> QED
      BY <2>1, <2>4, <3>4, RunsAside DEF NoAnswer
  <2> QED
    BY <1>10, <2>2, <2>3, <2>4 DEF Refused
<1> QED
  BY <1>3, <1>4, <1>5, <1>6, <1>7, <1>8, <1>9, <1>10, ChecksRuns, LinksRuns DEF RunStep

\* A post, the lane's handler, the operator, time, and the death of the process.
LEMMA OtherStepRuns ==
  ASSUME RunsInv, Typed',
         \/ \E p \in Posts : OperatorPosts(p) \/ PostStep(p)
         \/ TakesRow \/ HandlerStep
         \/ \E r \in Runs, m \in Mentions : Press(r, m)
         \/ \E a \in Agents, t \in Threads : AgentPosts(a, t)
         \/ Edits \/ (\E t \in Threads : WindowAges(t)) \/ UNCHANGED vars
  PROVE  RunsInv'
<1>1. Typed /\ Lane \in Runs
  BY DEF RunsInv, Typed, Runs
<1>2. inFlight' = inFlight /\ overlapped' = overlapped
  BY DEF OperatorPosts, PostStep, Stores, ReadsFleetSwitch, HandsOver, TakesRow, HandlerStep, Looks, RunOnly,
         Claims, Blocks, Notices, Alerts, Press, AgentPosts, Edits, WindowAges, Mishap, Fine, past, vars
<1>3. NoAnswer(None)
  <2>1. CASE mention' = mention
    BY <2>1 DEF NoAnswer
  <2>2. ASSUME NEW p \in Posts, Stores(p) PROVE NoAnswer(None)
    BY <1>1, <2>2 DEF Stores, NoAnswer, Typed, TypeOK, Mention
  <2>3. CASE Blocks
    BY <1>1, <2>3 DEF Blocks, NoAnswer, Typed, TypeOK, Mention
  <2>4. CASE Edits
    <3>1. \A ms : \A m \in Mentions : Without(ms)[m].status = "answered" => mention[m].status = "answered"
      BY <1>1 DEF Without, Typed, TypeOK, Mention
    <3>2. CASE Triages
      BY <1>1, <3>2 DEF Triages, NoAnswer, Typed, TypeOK, Mention
    <3> QED
      BY <2>4, <3>1, <3>2 DEF Edits, FlipSwitch, Moderates, DeletesThread, DeletesPost, NoAnswer
  <2> QED
    BY <2>1, <2>2, <2>3, <2>4 DEF OperatorPosts, PostStep, ReadsFleetSwitch, HandsOver, TakesRow, HandlerStep,
       Looks, RunOnly, Claims, Notices, Alerts, Press, AgentPosts, WindowAges, vars
<1>4. \A q \in Runs : Keeps(q)
  <2>1. CASE run' = run
    BY <2>1 DEF Keeps
  <2>2. ASSUME NEW r \in Runs, run[r].at = "idle", NEW v \in Run, v.at \in {"switch", "check"},
               run' = [run EXCEPT ![r] = v]
        PROVE  \A q \in Runs : Keeps(q)
    <3>1. run'[r] = v /\ \A q \in Runs : q # r => run'[q] = run[q]
      BY <1>1, <2>2 DEF Typed, TypeOK
    <3>2. v.at \notin OnWay /\ run[r].at \notin Driving
      BY <2>2, PlacesApart DEF Waking
    <3> QED
      BY <3>1, <3>2 DEF Keeps
  <2>3. CASE TakesRow
    <3>1. Head(rows) \in Mentions
      BY <1>1, <2>3 DEF TakesRow, Typed, TypeOK
    <3>2. [Idle EXCEPT !.m = Head(rows), !.at = "switch"] \in Run
          /\ [Idle EXCEPT !.m = Head(rows), !.at = "switch"].at = "switch"
      BY <3>1 DEF Idle, Run, Places, Waking, Who
    <3> QED
      BY <1>1, <2>2, <2>3, <3>2 DEF TakesRow
  <2>4. ASSUME NEW r \in Runs, NEW m \in Mentions, Press(r, m) PROVE \A q \in Runs : Keeps(q)
    <3>1. [Idle EXCEPT !.m = m, !.at = "check"] \in Run /\ [Idle EXCEPT !.m = m, !.at = "check"].at = "check"
      BY DEF Idle, Run, Places, Opening, Who
    <3> QED
      BY <2>2, <2>4, <3>1 DEF Press
  <2>5. CASE HandlerStep
    <3>1. run[Lane].at \in Waking \union Refusing /\ run[Lane].at # "idle" /\ run[Lane].at \notin Driving
      <4>1. run[Lane].at \in Waking \union Refusing
        BY <2>5 DEF HandlerStep, Looks, Claims, Blocks, Notices, Alerts, Waking, Refusing
      <4> QED
        BY <4>1, PlacesApart, PlacesThere
    <3>2. \/ Leaves(Lane)
          \/ \E place \in {"mention", "thread", "claim", "block", "check", "notice", "alert"} : Goes(Lane, place)
      BY <2>5 DEF HandlerStep, Looks, Claims, Blocks, Notices, Alerts
    <3>3. \A place \in {"mention", "thread", "claim", "block", "check", "notice", "alert"} :
             place \in Places /\ place \notin OnWay
      BY PlacesApart, PlacesThere DEF Waking, Refusing, Opening
    <3> QED
      BY <1>1, <3>1, <3>2, <3>3, LeavesKeeps, GoesKeeps
  <2>6. ASSUME NEW a \in Agents, NEW t \in Threads, AgentPosts(a, t) PROVE \A q \in Runs : Keeps(q)
    BY <1>1, <2>6, HeardKeeps DEF AgentPosts, Who
  <2> QED
    BY <2>1, <2>3, <2>4, <2>5, <2>6 DEF OperatorPosts, PostStep, Stores, ReadsFleetSwitch, HandsOver, Edits,
       WindowAges, vars
<1> QED
  BY <1>2, <1>3, <1>4, RunsAside

LEMMA CrashRuns == ASSUME RunsInv, Typed', Crash PROVE RunsInv'
<1>1. (\A r \in Runs : run'[r] = Idle) /\ inFlight' = {}
  BY DEF Crash
<1>2. Idle.at \notin OnWay /\ Idle.at \notin Driving
  BY PlacesApart DEF Idle
<1>3. \A m \in Mentions : Begun(m)' = {} /\ Driven(m)' = {}
  BY <1>1, <1>2 DEF Begun, Driven
<1> QED
  BY <1>1, <1>3 DEF RunsInv, Typed, SoleRun, BegunInv

LEMMA NextRuns == RunsInv /\ [Next]_vars => RunsInv'
<1> SUFFICES ASSUME RunsInv, [Next]_vars PROVE RunsInv'
  OBVIOUS
<1>1. Typed'
  BY NextTypes DEF RunsInv, Typed
<1> QED
  BY <1>1, RunStepRuns, OtherStepRuns, CrashRuns DEF Next
-----------------------------------------------------------------------------
(* The allowance.                                                           *)

\* The lane's run is where it was as to the allowance and the alert, or away from both.
LaneKeeps ==
    \/ run'[Lane].at \notin Opening \union {"alert"}
    \/ run'[Lane].m = run[Lane].m /\ run'[Lane].at = run[Lane].at
    \/ run'[Lane].m = run[Lane].m /\ run[Lane].at \in Opening /\ run'[Lane].at \in Opening

\* It is where it was.
LaneStays == run'[Lane].m = run[Lane].m /\ run'[Lane].at = run[Lane].at

\* What is spent and told is as it was.
AccountKeeps ==
    \A t \in Threads : account'[t].spent = account[t].spent /\ account'[t].told = account[t].told

LEMMA CountsNat ==
  ASSUME Typed
  PROVE  \A t \in Threads : /\ account[t].spent \in Nat /\ tally[t].started \in Nat /\ tally[t].alerts \in Nat
                            /\ Ceiling(t) \in Nat \ {0} /\ InHand(t) \in {0, 1}
BY ForumAssumption DEF Typed, TypeOK, Account, Tally, Ceiling, InHand

LEMMA SpendsAside ==
  ASSUME Typed, Typed', SpentInv, ToldInv, tally' = tally, AccountKeeps, LaneKeeps
  PROVE  SpentInv' /\ ToldInv'
<1>1. \A t \in Threads : InHand(t)' \in {0, 1} /\ (InHand(t)' = 1 => InHand(t) = 1)
  BY DEF InHand, LaneKeeps, Charged, Carrier, Opening
<1>2. SpentInv'
  <2> SUFFICES ASSUME NEW t \in Threads, HubOf[t] = t
               PROVE  tally'[t].started + InHand(t)' <= account'[t].spent /\ account'[t].spent <= Ceiling(t)
    BY DEF SpentInv, Ceiling
  <2>1. tally[t].started + InHand(t) <= account[t].spent /\ account[t].spent <= Ceiling(t)
    BY DEF SpentInv
  <2>2. account'[t].spent = account[t].spent /\ tally'[t].started = tally[t].started
    BY DEF AccountKeeps
  <2>3. InHand(t)' <= InHand(t)
    BY <1>1, CountsNat
  <2> QED
    BY <1>1, <2>1, <2>2, <2>3, CountsNat
<1>3. ToldInv'
  <2> SUFFICES ASSUME NEW t \in Threads
               PROVE  /\ tally'[t].alerts <= 1
                      /\ run'[Lane].at = "alert" /\ Charged' = t => account'[t].told /\ tally'[t].alerts = 0
                      /\ ~account'[t].told => tally'[t].alerts = 0
    BY DEF ToldInv
  <2>1. run'[Lane].at = "alert" /\ Charged' = t => run[Lane].at = "alert" /\ Charged = t
    BY DEF LaneKeeps, Opening, Charged, Carrier
  <2>2. account'[t].told = account[t].told /\ tally'[t] = tally[t]
    BY DEF AccountKeeps
  <2> QED
    BY <2>1, <2>2 DEF ToldInv
<1> QED
  BY <1>2, <1>3

\* The thread charged is a hub, or has none, and its ceiling is the allowance of its threads.
LEMMA ChargedKeepsAccount ==
  ASSUME Typed, run[Lane].at # "idle"
  PROVE  /\ Charged \in Threads /\ HubOf[Charged] = Charged
         /\ Allowance(ThreadOf[run[Lane].m]) \in Nat
         /\ Allowance(ThreadOf[run[Lane].m]) <= Ceiling(Charged)
<1>1. PICK x \in Mentions : x = run[Lane].m
  BY DEF Typed, HandInv, Runs
<1>2. ThreadOf[x] \in Threads /\ Charged = HubOf[ThreadOf[x]]
  BY <1>1, ForumAssumption DEF Charged, Carrier
<1>3. Charged \in Threads /\ HubOf[Charged] = Charged
  BY <1>2, ForumAssumption
<1>4. Allowance(ThreadOf[x]) \in Nat /\ Allowance(ThreadOf[x]) <= Ceiling(Charged)
  <2>1. CASE HubOf[ThreadOf[x]] # ThreadOf[x]
    BY <1>2, <2>1, ForumAssumption DEF Allowance, Ceiling
  <2>2. CASE HubOf[ThreadOf[x]] = ThreadOf[x]
    BY <1>2, <2>2, ForumAssumption DEF Allowance, Ceiling
  <2> QED
    BY <2>1, <2>2
<1> QED
  BY <1>1, <1>3, <1>4

\* A unit is spent, in this window or as the first of the next, and the handler has it in hand.
LEMMA ClaimsSpends ==
  ASSUME Typed, Typed', SpentInv, ToldInv, Claims PROVE SpentInv' /\ ToldInv'
<1>1. PICK c \in Threads : c = Charged
  BY ChargedKeepsAccount DEF Claims
<1>2. /\ Lane \in Runs /\ run[Lane].at = "claim" /\ HubOf[c] = c
      /\ account \in [Threads -> Account] /\ tally \in [Threads -> Tally]
  BY <1>1, ChargedKeepsAccount DEF Claims, Typed, TypeOK, Runs
<1>3. \A t \in Threads : InHand(t) = 0
  BY <1>2 DEF InHand, Opening
<1>4. CASE Goes(Lane, "block") /\ UNCHANGED <<account, tally>>
  <2>1. run'[Lane].at = "block"
    BY <1>2, <1>4, RunGoes, PlacesThere DEF Refusing
  <2>2. LaneKeeps /\ AccountKeeps
    BY <1>4, <2>1 DEF LaneKeeps, AccountKeeps, Opening
  <2> QED
    BY <1>4, <2>2, SpendsAside
<1>5. CASE Goes(Lane, "check")
  <2>1. run'[Lane].at = "check" /\ run'[Lane].m = run[Lane].m
    BY <1>2, <1>5, RunGoes, PlacesThere DEF Opening
  <2>2. Charged' = c /\ \A t \in Threads : InHand(t)' = IF t = c THEN 1 ELSE 0
    BY <1>1, <2>1 DEF Charged, Carrier, InHand, Opening
  <2>3. \/ account' = [account EXCEPT ![c] = OpenWindow] /\ tally' = [tally EXCEPT ![c] = [started |-> 0, alerts |-> 0]]
        \/ /\ account' = [account EXCEPT ![c].spent = @ + 1] /\ tally' = tally
           /\ ~(account[c].spent >= Allowance(ThreadOf[run[Lane].m]))
    <3>1. ~Goes(Lane, "block")
      BY <1>2, <1>5 DEF Goes, Typed, TypeOK, Run
    <3> QED
      BY <1>1, <3>1 DEF Claims
  <2>4. CASE /\ account' = [account EXCEPT ![c] = OpenWindow]
             /\ tally' = [tally EXCEPT ![c] = [started |-> 0, alerts |-> 0]]
    <3>1. account'[c] = OpenWindow /\ \A t \in Threads : t # c => account'[t] = account[t]
      BY <1>2, <2>4
    <3>2. tally'[c] = [started |-> 0, alerts |-> 0] /\ \A t \in Threads : t # c => tally'[t] = tally[t]
      BY <1>2, <2>4
    <3>3. account'[c].spent = 1
      BY <3>1 DEF OpenWindow
    <3>4. SpentInv'
      <4> SUFFICES ASSUME NEW t \in Threads, HubOf[t] = t
                   PROVE  tally'[t].started + InHand(t)' <= account'[t].spent /\ account'[t].spent <= Ceiling(t)
        BY DEF SpentInv, Ceiling
      <4>1. CASE t = c
        BY <2>2, <3>2, <3>3, <4>1, CountsNat
      <4>2. CASE t # c
        <5>1. tally[t].started + 0 <= account[t].spent /\ account[t].spent <= Ceiling(t)
          BY <1>3 DEF SpentInv
        <5> QED
          BY <2>2, <3>1, <3>2, <4>2, <5>1
      <4> QED
        BY <4>1, <4>2
    <3>5. ToldInv'
      <4> SUFFICES ASSUME NEW t \in Threads
                   PROVE  tally'[t].alerts <= 1 /\ (~account'[t].told => tally'[t].alerts = 0)
        BY <2>1 DEF ToldInv
      <4>1. CASE t = c
        BY <3>2, <4>1
      <4>2. CASE t # c
        BY <3>1, <3>2, <4>2 DEF ToldInv
      <4> QED
        BY <4>1, <4>2
    <3> QED
      BY <3>4, <3>5
  <2>5. CASE /\ account' = [account EXCEPT ![c].spent = @ + 1] /\ tally' = tally
             /\ ~(account[c].spent >= Allowance(ThreadOf[run[Lane].m]))
    <3>1. account'[c].spent = account[c].spent + 1 /\ \A t \in Threads : t # c => account'[t] = account[t]
      BY <1>2, <2>5 DEF Account
    <3>2. account'[c].told = account[c].told
      BY <1>2, <2>5 DEF Account
    <3>3. account[c].spent + 1 <= Ceiling(c)
      BY <1>1, <1>2, <2>5, ChargedKeepsAccount, CountsNat
    <3>4. SpentInv'
      <4> SUFFICES ASSUME NEW t \in Threads, HubOf[t] = t
                   PROVE  tally'[t].started + InHand(t)' <= account'[t].spent /\ account'[t].spent <= Ceiling(t)
        BY DEF SpentInv, Ceiling
      <4>1. tally[t].started + 0 <= account[t].spent /\ account[t].spent <= Ceiling(t)
        BY <1>3 DEF SpentInv
      <4>2. CASE t = c
        BY <2>2, <2>5, <3>1, <3>3, <4>1, <4>2, CountsNat
      <4>3. CASE t # c
        BY <2>2, <2>5, <3>1, <4>1, <4>3
      <4> QED
        BY <4>2, <4>3
    <3>5. ToldInv'
      <4>1. \A t \in Threads : account'[t].told = account[t].told /\ tally'[t] = tally[t]
        BY <2>5, <3>1, <3>2
      <4> QED
        BY <2>1, <4>1 DEF ToldInv
    <3> QED
      BY <3>4, <3>5
  <2> QED
    BY <2>3, <2>4, <2>5
<1> QED
  BY <1>4, <1>5 DEF Claims

\* The stamp of the alert is taken by one handler; it alerts once.
LEMMA NoticesSpends ==
  ASSUME Typed, Typed', SpentInv, ToldInv, Notices PROVE SpentInv' /\ ToldInv'
<1>1. PICK c \in Threads : c = Charged
  BY ChargedKeepsAccount DEF Notices
<1>2. /\ Lane \in Runs /\ run[Lane].at = "notice"
      /\ account \in [Threads -> Account] /\ tally' = tally
  BY DEF Notices, Typed, TypeOK, Runs, past
<1>3. CASE Leaves(Lane) /\ UNCHANGED account
  <2>1. run'[Lane].at = "idle"
    BY <1>2, <1>3, RunLeaves
  <2>2. LaneKeeps /\ AccountKeeps
    BY <1>3, <2>1 DEF LaneKeeps, AccountKeeps, Opening
  <2> QED
    BY <1>2, <2>2, SpendsAside
<1>4. CASE ~account[c].told /\ account' = [account EXCEPT ![c].told = TRUE] /\ Goes(Lane, "alert")
  <2>1. run'[Lane].at = "alert" /\ run'[Lane].m = run[Lane].m
    BY <1>2, <1>4, RunGoes, PlacesThere DEF Refusing
  <2>2. Charged' = c
    BY <1>1, <2>1 DEF Charged, Carrier
  <2>3. account'[c].told = TRUE /\ \A t \in Threads : t # c => account'[t] = account[t]
    BY <1>2, <1>4 DEF Account
  <2>4. \A t \in Threads : account'[t].spent = account[t].spent
    BY <1>2, <1>4 DEF Account
  <2>5. \A t \in Threads : InHand(t)' = 0 /\ InHand(t) = 0
    BY <1>2, <2>1 DEF InHand, Opening
  <2>6. SpentInv'
    <3> SUFFICES ASSUME NEW t \in Threads, HubOf[t] = t
                 PROVE  tally'[t].started + InHand(t)' <= account'[t].spent /\ account'[t].spent <= Ceiling(t)
      BY DEF SpentInv, Ceiling
    <3> QED
      BY <1>2, <2>4, <2>5 DEF SpentInv
  <2>7. tally[c].alerts = 0
    BY <1>4 DEF ToldInv
  <2>8. ToldInv'
    <3> SUFFICES ASSUME NEW t \in Threads
                 PROVE  /\ tally'[t].alerts <= 1
                        /\ run'[Lane].at = "alert" /\ Charged' = t => account'[t].told /\ tally'[t].alerts = 0
                        /\ ~account'[t].told => tally'[t].alerts = 0
      BY DEF ToldInv
    <3>1. CASE t = c
      BY <1>2, <2>3, <2>7, <3>1
    <3>2. CASE t # c
      BY <1>2, <2>2, <2>3, <3>2 DEF ToldInv
    <3> QED
      BY <3>1, <3>2
  <2> QED
    BY <2>6, <2>8
<1> QED
  BY <1>1, <1>3, <1>4 DEF Notices

LEMMA AlertsSpends ==
  ASSUME Typed, Typed', SpentInv, ToldInv, Alerts PROVE SpentInv' /\ ToldInv'
<1>1. PICK c \in Threads : c = Charged
  BY ChargedKeepsAccount DEF Alerts
<1>2. /\ Lane \in Runs /\ run[Lane].at = "alert" /\ run'[Lane].at = "idle" /\ account' = account
      /\ tally \in [Threads -> Tally] /\ tally' = [tally EXCEPT ![c].alerts = @ + 1]
  BY <1>1, RunLeaves DEF Alerts, Typed, TypeOK, Runs
<1>3. account[c].told /\ tally[c].alerts = 0
  BY <1>1, <1>2 DEF ToldInv
<1>4. /\ tally'[c].alerts = tally[c].alerts + 1 /\ \A t \in Threads : tally'[t].started = tally[t].started
      /\ \A t \in Threads : t # c => tally'[t] = tally[t]
  BY <1>2 DEF Tally
<1>5. SpentInv'
  <2>1. \A t \in Threads : InHand(t)' = 0 /\ InHand(t) = 0
    BY <1>2 DEF InHand, Opening
  <2> SUFFICES ASSUME NEW t \in Threads, HubOf[t] = t
               PROVE  tally'[t].started + InHand(t)' <= account'[t].spent /\ account'[t].spent <= Ceiling(t)
    BY DEF SpentInv, Ceiling
  <2> QED
    BY <1>2, <1>4, <2>1 DEF SpentInv
<1>6. ToldInv'
  <2> SUFFICES ASSUME NEW t \in Threads
               PROVE  tally'[t].alerts <= 1 /\ (~account'[t].told => tally'[t].alerts = 0)
    BY <1>2 DEF ToldInv
  <2>1. CASE t = c
    BY <1>2, <1>3, <1>4, <2>1
  <2>2. CASE t # c
    BY <1>2, <1>4, <2>2 DEF ToldInv
  <2> QED
    BY <2>1, <2>2
<1> QED
  BY <1>5, <1>6

\* The lane's run starts with the unit it had in hand.
LEMMA LinksSpends ==
  ASSUME Typed, Typed', SpentInv, ToldInv, Links(Lane) PROVE SpentInv' /\ ToldInv'
<1>1. PICK c \in Threads : c = Charged
  BY ChargedKeepsAccount DEF Links
<1>2. /\ Lane \in Runs /\ run[Lane].at = "link" /\ account' = account
      /\ tally \in [Threads -> Tally] /\ tally' = [tally EXCEPT ![c].started = @ + 1]
  BY <1>1 DEF Links, Typed, TypeOK, Runs
<1>3. run'[Lane].at = "first"
  BY <1>2, RunGoes, PlacesThere DEF Links, Driving, Hearing
<1>4. /\ tally'[c].started = tally[c].started + 1 /\ \A t \in Threads : tally'[t].alerts = tally[t].alerts
      /\ \A t \in Threads : t # c => tally'[t] = tally[t]
  BY <1>2 DEF Tally
<1>5. SpentInv'
  <2>1. InHand(c) = 1 /\ \A t \in Threads : InHand(t)' = 0 /\ (t # c => InHand(t) = 0)
    BY <1>1, <1>2, <1>3 DEF InHand, Opening
  <2> SUFFICES ASSUME NEW t \in Threads, HubOf[t] = t
               PROVE  tally'[t].started + InHand(t)' <= account'[t].spent /\ account'[t].spent <= Ceiling(t)
    BY DEF SpentInv, Ceiling
  <2>2. tally[t].started + InHand(t) <= account[t].spent /\ account[t].spent <= Ceiling(t)
    BY DEF SpentInv
  <2> QED
    BY <1>2, <1>4, <2>1, <2>2, CountsNat
<1>6. ToldInv'
  BY <1>2, <1>3, <1>4 DEF ToldInv
<1> QED
  BY <1>5, <1>6

\* A run of the operator's leaves the lane's alone, but for what it hears.
LEMMA OthersLane ==
  ASSUME Typed, NEW r \in Runs, r # Lane, RunStep(r) \/ Refused(r) PROVE LaneStays
<1>1. Lane \in Runs /\ run \in [Runs -> Run]
  BY DEF Typed, TypeOK, Runs
<1>2. CASE run'[Lane] = run[Lane]
  BY <1>2 DEF LaneStays
<1>3. CASE PostsBack(r) /\ ~Ends(r)
  <2>1. PICK x \in Mentions : x = run[r].m
    BY <1>3 DEF Typed, HandInv, PostsBack
  <2> DEFINE heard == Heard(AgentOf[x], ThreadOf[x], x)
  <2>2. run' = [heard EXCEPT ![r] = [run[r] EXCEPT !.own = x, !.at = "mark"]]
    BY <1>3, <2>1 DEF PostsBack
  <2>3. heard \in [Runs -> Run] /\ heard[Lane].m = run[Lane].m /\ heard[Lane].at = run[Lane].at
    BY <1>1, HeardTyped DEF Typed, Who
  <2> QED
    BY <1>1, <2>2, <2>3 DEF LaneStays
<1>4. \/ \E v : run' = [run EXCEPT ![r] = v]
      \/ PostsBack(r) /\ ~Ends(r)
  <2>1. CASE Ends(r) \/ Leaves(r) \/ \E place \in Places : Goes(r, place)
    BY <1>1, <2>1 DEF Ends, Leaves, Goes
  <2>2. CASE Turns(r)
    BY <1>1, <2>2 DEF Turns, Goes
  <2>3. {"open", "link", "first", "mark", "reread", "reply"} \subseteq Places
    BY PlacesThere DEF Opening, Driving, Hearing, Closing
  <2> QED
    BY <2>1, <2>2, <2>3 DEF RunStep, Refused, Checks, Opens, Links, LooksForOwn, Rereads, PostsBack, Marks
<1> QED
  BY <1>1, <1>2, <1>3, <1>4

\* The lane's own run: past the guard it is in the same hands until it starts.
LEMMA LaneMoves ==
  ASSUME Typed, RunStep(Lane) \/ Refused(Lane), ~Links(Lane) PROVE LaneKeeps
<1>1. Lane \in Runs /\ run \in [Runs -> Run] /\ run[Lane].at # "idle"
  BY DEF Typed, TypeOK, Runs, RunStep, Refused, Checks, Opens, Turns, LooksForOwn, Rereads, PostsBack,
         Marks, Waking, Refusing, Opening, Closing
<1>2. {"open", "link", "turn", "mark", "reread", "reply"} \subseteq Places
  BY PlacesThere DEF Opening, Driving, Hearing, Closing
<1>3. CASE Leaves(Lane) \/ Ends(Lane)
  BY <1>1, <1>3, RunLeaves DEF Ends, LaneKeeps, Opening
<1>4. ASSUME NEW place \in {"turn", "mark", "reread", "reply"}, Goes(Lane, place) PROVE LaneKeeps
  BY <1>1, <1>2, <1>4, RunGoes DEF LaneKeeps, Opening
<1>5. CASE Checks(Lane)
  <2>1. run[Lane].at \in Opening /\ "open" \in Opening
    BY <1>5 DEF Checks, Opening
  <2> QED
    BY <1>1, <1>2, <1>3, <1>5, <2>1, RunGoes DEF Checks, LaneKeeps
<1>6. CASE Opens(Lane)
  <2>1. run[Lane].at \in Opening /\ "link" \in Opening
    BY <1>6 DEF Opens, Opening
  <2> QED
    BY <1>1, <1>2, <1>3, <1>6, <2>1, RunGoes DEF Opens, LaneKeeps
<1>7. CASE \E said \in BOOLEAN : run' = [run EXCEPT ![Lane].at = "own", ![Lane].said = said]
  <2>1. run'[Lane].at = "own"
    BY <1>1, <1>7 DEF Run
  <2> QED
    BY <2>1 DEF LaneKeeps, Opening
<1>8. CASE run' = [run EXCEPT ![Lane].at = "reread", ![Lane].own = None]
  <2>1. run'[Lane].at = "reread"
    BY <1>1, <1>8 DEF Run
  <2> QED
    BY <2>1 DEF LaneKeeps, Opening
<1>9. CASE PostsBack(Lane) /\ ~Ends(Lane)
  <2>1. PICK x \in Mentions : x = run[Lane].m
    BY <1>1 DEF Typed, HandInv
  <2> DEFINE heard == Heard(AgentOf[x], ThreadOf[x], x)
  <2>2. run' = [heard EXCEPT ![Lane] = [run[Lane] EXCEPT !.own = x, !.at = "mark"]] /\ heard \in [Runs -> Run]
    BY <1>9, <2>1, HeardTyped DEF PostsBack, Typed, Who
  <2>3. run'[Lane].at = "mark"
    BY <1>1, <2>2 DEF Run
  <2> QED
    BY <2>3 DEF LaneKeeps, Opening
<1> QED
  BY <1>3, <1>4, <1>5, <1>6, <1>7, <1>8, <1>9 DEF RunStep, Refused, Turns, LooksForOwn, Rereads, PostsBack, Marks

LEMMA NextSpends == RunsInv /\ SpentInv /\ ToldInv /\ [Next]_vars => SpentInv' /\ ToldInv'
<1> SUFFICES ASSUME RunsInv, SpentInv, ToldInv, [Next]_vars PROVE SpentInv' /\ ToldInv'
  OBVIOUS
<1>1. Typed /\ Typed' /\ Lane \in Runs
  BY NextTypes DEF RunsInv, Typed, Runs
<1>2. CASE Claims \/ Notices \/ Alerts \/ Links(Lane)
  BY <1>1, <1>2, ClaimsSpends, NoticesSpends, AlertsSpends, LinksSpends
<1>3. CASE ~(Claims \/ Notices \/ Alerts \/ Links(Lane))
  <2>1. tally' = tally
    BY <1>3 DEF Next, OperatorPosts, PostStep, Stores, ReadsFleetSwitch, HandsOver, TakesRow, HandlerStep,
       Looks, RunOnly, Blocks, Press, AgentPosts, Edits, WindowAges, Mishap, Fine, past, vars, RunStep, TurnPosts,
       Refused, Checks, Opens, Links, Turns, LooksForOwn, Rereads, PostsBack, Marks, Crash
  <2>2. AccountKeeps
    <3>1. ASSUME NEW t \in Threads, WindowAges(t) PROVE AccountKeeps
      BY <1>1, <3>1 DEF WindowAges, AccountKeeps, Typed, TypeOK, Account
    <3>2. CASE account' = account
      BY <3>2 DEF AccountKeeps
    <3> QED
      BY <1>3, <3>1, <3>2 DEF Next, OperatorPosts, PostStep, Stores, ReadsFleetSwitch, HandsOver, TakesRow,
         HandlerStep, Looks, RunOnly, Blocks, Press, AgentPosts, Edits, vars, RunStep, TurnPosts,
         Refused, Checks, Opens, Links, Turns, LooksForOwn, Rereads, PostsBack, Marks, Crash
  <2>3. LaneKeeps
    <3>1. CASE run' = run
      BY <3>1 DEF LaneKeeps
    <3>2. ASSUME NEW who \in Who, NEW a, NEW t, run' = Heard(a, t, who) PROVE LaneKeeps
      BY <1>1, <3>2, HeardTyped DEF Typed, LaneKeeps
    <3>3. CASE TakesRow \/ Looks \/ Blocks
      <4>1. run[Lane].at = "idle" \/ run[Lane].at \in Waking \union Refusing
        BY <3>3 DEF TakesRow, Looks, Blocks, Waking, Refusing
      <4>2. CASE Leaves(Lane)
        BY <1>1, <4>2, RunLeaves DEF LaneKeeps, Opening
      <4>3. ASSUME NEW place \in {"mention", "thread", "claim", "notice"}, Goes(Lane, place), run[Lane].at # "idle"
            PROVE  LaneKeeps
        <5>1. place \in Places /\ place \notin Opening \union {"alert"}
          BY PlacesThere DEF Waking, Refusing, Opening
        <5> QED
          BY <1>1, <4>3, <5>1, RunGoes DEF LaneKeeps
      <4>4. CASE TakesRow
        <5>1. run'[Lane] = [Idle EXCEPT !.m = Head(rows), !.at = "switch"]
          BY <1>1, <4>4 DEF TakesRow, Typed, TypeOK
        <5> QED
          BY <5>1 DEF LaneKeeps, Idle, Opening
      <4> QED
        BY <3>3, <4>2, <4>3, <4>4 DEF Looks, Blocks
    <3>4. ASSUME NEW r \in Runs, r # Lane, RunStep(r) \/ Refused(r) PROVE LaneKeeps
      BY <1>1, <3>4, OthersLane DEF LaneStays, LaneKeeps
    <3>5. CASE RunStep(Lane) \/ Refused(Lane)
      BY <1>1, <1>3, <3>5, LaneMoves
    <3>6. ASSUME NEW r \in Runs, NEW m \in Mentions, Press(r, m) PROVE LaneKeeps
      <4>1. run'[Lane] = run[Lane]
        BY <1>1, <3>6 DEF Press, Typed, TypeOK
      <4> QED
        BY <4>1 DEF LaneKeeps
    <3>7. CASE Crash
      BY <1>1, <3>7 DEF Crash, LaneKeeps, Idle, Opening
    <3>8. ASSUME NEW r \in Runs, TurnPosts(r) PROVE LaneKeeps
      <4>1. run[r].m \in Mentions
        BY <1>1, <3>8 DEF TurnPosts, Typed, HandInv
      <4> QED
        BY <3>2, <3>8, <4>1 DEF TurnPosts, Who
    <3>9. ASSUME NEW a \in Agents, NEW t \in Threads, AgentPosts(a, t) PROVE LaneKeeps
      BY <3>2, <3>9 DEF AgentPosts, Who
    <3> QED
      BY <1>3, <3>1, <3>3, <3>4, <3>5, <3>6, <3>7, <3>8, <3>9 DEF Next, OperatorPosts, PostStep, Stores,
         ReadsFleetSwitch, HandsOver, HandlerStep, Edits, WindowAges, vars
  <2> QED
    BY <1>1, <2>1, <2>2, <2>3, SpendsAside
<1> QED
  BY <1>2, <1>3
-----------------------------------------------------------------------------
(* The alert.                                                               *)

\* While nothing has gone wrong, the stamp of a window stands for an alert that was sent, or
\* that the handler is about to send.
StampInv ==
    used["mishap"] = 0 =>
        \A t \in Threads : account[t].told =>
            tally[t].alerts > 0 \/ (run[Lane].at = "alert" /\ Charged = t)

\* What has gone wrong stays on the books.
LEMMA MishapsShow ==
  ASSUME TypeOK, [Next]_vars, used'["mishap"] = 0
  PROVE  used["mishap"] = 0 /\ ~Mishap
<1>1. used \in [Kinds -> Nat] /\ "mishap" \in Kinds
  BY DEF TypeOK, Kinds
<1>2. ~Uses("mishap")
  BY <1>1 DEF Uses
<1>3. ASSUME NEW k \in Kinds, Uses(k) PROVE used["mishap"] = 0
  <2>1. k # "mishap"
    BY <1>2, <1>3
  <2> QED
    BY <1>1, <1>3, <2>1 DEF Uses
<1>4. UNCHANGED used \/ \E k \in Kinds : Uses(k)
  <2>1. CASE \E r \in Runs, m \in Mentions : Press(r, m)
    BY <2>1 DEF Press, Kinds
  <2>2. CASE Edits \/ \E t \in Threads : WindowAges(t)
    BY <2>2 DEF Edits, WindowAges, Kinds
  <2>3. CASE Mishap
    BY <2>3, <1>1 DEF Mishap
  <2> QED
    BY <2>1, <2>2, <2>3 DEF Next, OperatorPosts, PostStep, Stores, ReadsFleetSwitch, HandsOver, TakesRow,
       HandlerStep, Looks, Claims, Blocks, Notices, Alerts, RunOnly, AgentPosts, Fine, past, vars, RunStep,
       TurnPosts, Refused, Checks, Opens, Links, Turns, LooksForOwn, Rereads, PostsBack, Marks, Crash
<1> QED
  BY <1>2, <1>3, <1>4 DEF Mishap

\* A handler that was refused goes on by its own steps only, unless something goes wrong.
LEMMA RefusingStays ==
  ASSUME Typed, [Next]_vars, run[Lane].at \in Refusing, ~Mishap, ~(Blocks \/ Notices \/ Alerts)
  PROVE  LaneStays
<1>1. Lane \in Runs /\ run \in [Runs -> Run]
  BY DEF Typed, TypeOK, Runs
<1>2. CASE UNCHANGED run
  BY <1>2 DEF LaneStays
<1>3. ASSUME NEW who \in Who, NEW a, NEW t, run' = Heard(a, t, who) PROVE LaneStays
  BY <1>1, <1>3, HeardTyped DEF Typed, LaneStays
<1>4. ~(TakesRow \/ Looks \/ Claims) /\ ~RunStep(Lane)
  BY DEF Refusing, TakesRow, Looks, Claims, RunStep, Checks, Opens, Links, Turns, LooksForOwn, Rereads,
         PostsBack, Marks
<1>5. ASSUME NEW r \in Runs, RunStep(r) PROVE LaneStays
  BY <1>4, <1>5, OthersLane
<1>6. ASSUME NEW r \in Runs, TurnPosts(r) PROVE LaneStays
  <2>1. run[r].m \in Mentions
    BY <1>6 DEF TurnPosts, Typed, HandInv
  <2> QED
    BY <1>3, <1>6, <2>1 DEF TurnPosts, Who
<1>7. ASSUME NEW a \in Agents, NEW t \in Threads, AgentPosts(a, t) PROVE LaneStays
  BY <1>3, <1>7 DEF AgentPosts, Who
<1>8. ASSUME NEW r \in Runs, NEW m \in Mentions, Press(r, m) PROVE LaneStays
  <2>1. run'[Lane] = run[Lane]
    BY <1>1, <1>8 DEF Press
  <2> QED
    BY <2>1 DEF LaneStays
<1> QED
  BY <1>2, <1>4, <1>5, <1>6, <1>7, <1>8 DEF Next, OperatorPosts, PostStep, Stores, ReadsFleetSwitch,
     HandsOver, HandlerStep, Refused, Edits, WindowAges, Crash, vars

\* Only the claim, the stamp and the alert touch what the stamp says.
LEMMA StampAside ==
  ASSUME Typed, [Next]_vars, ~(Claims \/ Notices \/ Alerts)
  PROVE  \A t \in Threads : account'[t].told = account[t].told /\ tally'[t].alerts = tally[t].alerts
<1>1. account \in [Threads -> Account] /\ tally \in [Threads -> Tally]
  BY DEF Typed, TypeOK
<1>2. ASSUME NEW t \in Threads, WindowAges(t)
      PROVE  \A u \in Threads : account'[u].told = account[u].told /\ tally' = tally
  BY <1>1, <1>2 DEF WindowAges, Account
<1>3. ASSUME NEW r \in Runs, Links(r)
      PROVE  \A u \in Threads : account' = account /\ tally'[u].alerts = tally[u].alerts
  BY <1>1, <1>3 DEF Links, Tally
<1>4. CASE UNCHANGED <<account, tally>>
  BY <1>4
<1>5. \/ UNCHANGED <<account, tally>>
      \/ \E t \in Threads : WindowAges(t)
      \/ \E r \in Runs : Links(r)
  BY DEF Next, OperatorPosts, PostStep, Stores, ReadsFleetSwitch, HandsOver, TakesRow, HandlerStep, Looks,
     RunOnly, Blocks, Press, AgentPosts, Edits, Mishap, Fine, past, vars, RunStep, TurnPosts,
     Refused, Checks, Opens, Turns, LooksForOwn, Rereads, PostsBack, Marks, Crash
<1> QED
  BY <1>2, <1>3, <1>4, <1>5

LEMMA NextStamp == ASSUME Typed, StampInv, [Next]_vars PROVE StampInv'
<1> SUFFICES ASSUME used'["mishap"] = 0, NEW t \in Threads, account'[t].told
             PROVE  tally'[t].alerts > 0 \/ (run'[Lane].at = "alert" /\ Charged' = t)
  BY DEF StampInv
<1>1. /\ ~Mishap /\ Lane \in Runs
      /\ account \in [Threads -> Account] /\ tally \in [Threads -> Tally]
  BY MishapsShow DEF Typed, TypeOK, Runs
<1>2. \A u \in Threads : account[u].told =>
          tally[u].alerts > 0 \/ (run[Lane].at = "alert" /\ Charged = u)
  BY MishapsShow DEF StampInv, Typed
<1>3. CASE Claims
  <2>1. run[Lane].at = "claim"
    BY <1>3 DEF Claims
  <2>2. CASE /\ account' = [account EXCEPT ![Charged] = OpenWindow]
             /\ tally' = [tally EXCEPT ![Charged] = [started |-> 0, alerts |-> 0]]
    <3>1. t # Charged
      BY <1>1, <2>2 DEF OpenWindow
    <3> QED
      BY <1>1, <1>2, <2>1, <2>2, <3>1
  <2>3. CASE /\ tally' = tally
             /\ account' \in {account, [account EXCEPT ![Charged].spent = @ + 1]}
    <3>1. tally' = tally
      BY <2>3
    <3>2. account[t].told
      BY <1>1, <2>3 DEF Account
    <3>3. tally[t].alerts > 0
      BY <1>2, <2>1, <3>2
    <3> QED
      BY <3>1, <3>3
  <2> QED
    BY <1>3, <2>2, <2>3 DEF Claims
<1>4. CASE Notices
  <2>1. run[Lane].at = "notice" /\ UNCHANGED tally
    BY <1>4 DEF Notices, past
  <2>2. CASE account[t].told
    BY <1>2, <2>1, <2>2
  <2>3. CASE ~account[t].told
    <3>1. account' = [account EXCEPT ![Charged].told = TRUE] /\ Goes(Lane, "alert")
      BY <1>4, <2>3 DEF Notices
    <3>2. Charged = t
      BY <1>1, <2>3, <3>1 DEF Account
    <3>3. run'[Lane].at = "alert" /\ run'[Lane].m = run[Lane].m
      BY <1>1, <2>1, <3>1, RunGoes, PlacesThere DEF Refusing
    <3> QED
      BY <3>2, <3>3 DEF Charged, Carrier
  <2> QED
    BY <2>2, <2>3
<1>5. CASE Alerts
  <2>1. account' = account /\ tally' = [tally EXCEPT ![Charged].alerts = @ + 1]
    BY <1>5 DEF Alerts
  <2>2. CASE Charged = t
    <3>1. tally[t].alerts \in Nat /\ tally'[t].alerts = tally[t].alerts + 1
      BY <1>1, <2>1, <2>2 DEF Tally
    <3> QED
      BY <3>1
  <2>3. CASE Charged # t
    BY <1>1, <1>2, <2>1, <2>3
  <2> QED
    BY <2>2, <2>3
<1>6. CASE ~(Claims \/ Notices \/ Alerts)
  <2>1. account[t].told /\ tally'[t].alerts = tally[t].alerts
    BY <1>6, StampAside
  <2>2. CASE tally[t].alerts > 0
    BY <2>1, <2>2
  <2>3. CASE run[Lane].at = "alert" /\ Charged = t
    <3>1. ~Blocks /\ run[Lane].at \in Refusing
      BY <2>3 DEF Blocks, Refusing
    <3>2. LaneStays
      BY <1>1, <1>6, <3>1, RefusingStays
    <3> QED
      BY <2>3, <3>2 DEF LaneStays, Charged, Carrier
  <2> QED
    BY <1>2, <2>1, <2>2, <2>3
<1> QED
  BY <1>3, <1>4, <1>5, <1>6
-----------------------------------------------------------------------------
LEMMA Inductive == Spec => []ForumInv
<1>1. ForumInv /\ [Next]_vars => ForumInv'
  BY NextRuns, NextSpends DEF ForumInv
<1> QED
  BY InitInv, <1>1, PTL DEF Spec

\* Every variable keeps its type, and a run that is under way has its mention.
THEOREM ForumTypeCorrect == Spec => []TypeOK
BY Inductive, PTL DEF ForumInv, RunsInv

\* A mention has one run at most and `inFlight` knows whether, unless two runs of it began
\* at once: whatever the operator, the lane, the agents and the restarts do.
THEOREM OneRunAtMost == Spec => []SoleRun
BY Inductive, PTL DEF ForumInv, RunsInv

\* With the same exception, a mention that reads answered has no run: neither the Run button
\* nor a row that waited in the lane starts one for it.
THEOREM AnsweredStaysQuiet == Spec => []AnsweredIsNotRunAgain
<1>1. ForumInv => AnsweredIsNotRunAgain
  <2>1. \A m \in Mentions : Driven(m) \subseteq Begun(m)
    BY PlacesApart DEF Driven, Begun
  <2> QED
    BY <2>1 DEF ForumInv, RunsInv, BegunInv, AnsweredIsNotRunAgain
<1> QED
  BY Inductive, <1>1, PTL

\* A window starts no more woken runs than the allowance of its thread or project, for any
\* number of threads, posts, deletions, refused requests and restarts.
THEOREM WindowKeepsBudget == Spec => []BudgetHolds
<1>1. ForumInv => BudgetHolds
  <2> SUFFICES ASSUME ForumInv, NEW t \in Threads, HubOf[t] = t PROVE tally[t].started <= Ceiling(t)
    BY DEF BudgetHolds
  <2>1. Typed
    BY DEF ForumInv, RunsInv, Typed
  <2>2. tally[t].started + InHand(t) <= account[t].spent /\ account[t].spent <= Ceiling(t)
    BY DEF ForumInv, SpentInv
  <2> QED
    BY <2>1, <2>2, CountsNat
<1> QED
  BY Inductive, <1>1, PTL

\* A window alerts the operator once at most, whichever threads of the project run out.
THEOREM WindowAlertsOnce == Spec => []OneAlertPerWindow
<1>1. ForumInv => OneAlertPerWindow
  BY DEF ForumInv, ToldInv, OneAlertPerWindow
<1> QED
  BY Inductive, <1>1, PTL

\* When the lane's handler is through with a mention it withheld, the operator has been told
\* in this window, by this handler or by another thread of the project, unless a request was
\* refused, the process died, or the thread that keeps the account is gone.
THEOREM OperatorHearsOfIt == Spec => WithheldIsTold
<1> DEFINE Told == \A m \in Mentions : Withheld(m) =>
                     LET c == Carrier(ThreadOf[m]) IN tally'[c].alerts > 0 \/ thread[c] = "gone"
<1>1. Init => StampInv
  BY DEF Init, StampInv
<1>2. ForumInv => Typed
  BY DEF ForumInv, RunsInv, Typed
<1>3. Typed /\ StampInv /\ [Next]_vars => StampInv'
  BY NextStamp
<1>4. ASSUME Typed, StampInv, [Next]_vars, NEW m \in Mentions, Withheld(m)
      PROVE  tally'[Carrier(ThreadOf[m])].alerts > 0 \/ thread[Carrier(ThreadOf[m])] = "gone"
  <2>1. /\ run[Lane].m = m /\ run[Lane].at \in Refusing /\ run'[Lane].at = "idle"
        /\ used["mishap"] = 0 /\ ~Mishap /\ Lane \in Runs
    BY <1>4, MishapsShow DEF Withheld, Typed, Runs
  <2>2. PICK c \in Threads : c = Charged
    BY <1>4, <2>1, ChargedKeepsAccount DEF Refusing
  <2>3. c = Carrier(ThreadOf[m])
    BY <2>1, <2>2 DEF Charged
  <2>4. CASE Blocks
    <3>1. run'[Lane].at = "notice"
      BY <1>4, <2>1, <2>4, RunGoes, PlacesThere DEF Blocks, Refusing
    <3> QED
      BY <2>1, <3>1
  <2>5. CASE Notices
    <3>1. run[Lane].at = "notice" /\ UNCHANGED tally
      BY <2>5 DEF Notices, past
    <3>2. CASE Goes(Lane, "alert")
      <4>1. run'[Lane].at = "alert"
        BY <1>4, <2>1, <3>1, <3>2, RunGoes, PlacesThere DEF Refusing
      <4> QED
        BY <2>1, <4>1
    <3>3. CASE thread[c] = "gone" \/ account[c].told
      BY <1>4, <2>1, <2>2, <2>3, <3>1, <3>3 DEF StampInv
    <3> QED
      BY <2>2, <2>5, <3>2, <3>3 DEF Notices
  <2>6. CASE Alerts
    <3>1. tally \in [Threads -> Tally] /\ tally' = [tally EXCEPT ![c].alerts = @ + 1]
      BY <1>4, <2>2, <2>6 DEF Alerts, Typed, TypeOK
    <3>2. tally[c].alerts \in Nat /\ tally'[c].alerts = tally[c].alerts + 1
      BY <3>1 DEF Tally
    <3> QED
      BY <2>3, <3>2
  <2>7. CASE ~(Blocks \/ Notices \/ Alerts)
    <3>1. LaneStays
      BY <1>4, <2>1, <2>7, RefusingStays
    <3> QED
      BY <2>1, <3>1 DEF LaneStays, Refusing
  <2> QED
    BY <2>4, <2>5, <2>6, <2>7
<1>5. Typed /\ StampInv /\ [Next]_vars => [Told]_vars
  BY <1>4
<1> QED
  BY <1>1, <1>2, <1>3, <1>5, Inductive, PTL DEF Spec, WithheldIsTold
=============================================================================
