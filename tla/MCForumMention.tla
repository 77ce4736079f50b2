--------------------------- MODULE MCForumMention ---------------------------
(* Small instances of ForumMention for TLC.                                 *)
EXTENDS ForumMention, TLC

CONSTANTS p1, p2, m1, m2, m3, m4, a, b, child, hub

\* On a thread of a project: a post that wakes two agents and one that wakes the first of
\* them again; or one post that wakes them by turns.
TwoAndOne == p1 :> <<m1, m2>> @@ p2 :> <<m3>>
FourNamed == p1 :> <<m1, m2, m3, m4>>
\* Two posts that wake the same agent, one each.
TwoAsk    == p1 :> <<m1>> @@ p2 :> <<m3>>
OneAsk    == p1 :> <<m1>>
OneEach   == p1 :> <<m1>> @@ p2 :> <<m2>>
Targets   == [m \in Mentions |-> IF m \in {m2, m4} THEN b ELSE a]
OnChild   == [m \in Mentions |-> child]
InProject == [t \in Threads |-> hub]
Alone     == [t \in Threads |-> t]

\* How often: Run pressed, windows aged, edits, mishaps.
Bounds(press, roll, edit, mishap) ==
    [k \in Kinds |-> CASE k = "press" -> press [] k = "roll" -> roll
                       [] k = "edit" -> edit [] OTHER -> mishap]
RunsLimit   == Bounds(2, 0, 1, 1)
WakesLimit  == Bounds(0, 1, 1, 1)
DoubleLimit == Bounds(2, 0, 0, 0)
OtherLimit  == Bounds(1, 0, 0, 0)
PassLimit   == Bounds(1, 1, 1, 1)
HubLimit    == Bounds(0, 0, 1, 0)
=============================================================================
