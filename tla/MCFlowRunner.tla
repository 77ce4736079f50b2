---------------------------- MODULE MCFlowRunner ----------------------------
(* Small flows for TLC.                                                     *)
EXTENDS FlowRunner

Wire(a, p, b, q) == [src |-> a, out |-> p, dst |-> b, in |-> q]
Value  == {{"default"}}
Branch == {{"true"}, {"false"}}

\* A condition around a loop, two nodes in a row fed by the loop's collect alone, and a
\* branch next to it that one of them quotes.  On the untaken side the two wait for a
\* collect that is never settled.
AroundALoop(items, width) ==
    [order |-> <<"if", "each", "b1", "b2", "collect", "join", "late", "side">>,
     edges |-> {Wire("if", "true", "each", "run"), Wire("each", "each", "b1", "run"),
                Wire("b1", "default", "b2", "in"), Wire("b2", "default", "collect", "value"),
                Wire("collect", "default", "join", "in"), Wire("join", "default", "late", "in")},
     quotes |-> {<<"join", "side">>},
     required |-> {<<"join", "in">>}, signals |-> {<<"each", "run">>, <<"b1", "run">>},
     outcomes |-> [n \in Nodes |-> IF n = "if" THEN Branch ELSE Value],
     gates |-> {}, loop |-> "each", body |-> {"b1", "b2"}, collect |-> "collect",
     items |-> items, width |-> width]

\* Two gates on parallel branches, a node gated by both verdicts and one by a rejection.
TwoGates ==
    [order |-> <<"late", "g1", "g2", "join", "no">>,
     edges |-> {Wire("g1", "approved", "join", "in"), Wire("g2", "approved", "join", "run"),
                Wire("g1", "rejected", "no", "run")},
     quotes |-> {<<"late", "g2">>},
     required |-> {<<"join", "in">>}, signals |-> {<<"join", "run">>, <<"no", "run">>},
     outcomes |-> [n \in Nodes |-> Value],
     gates |-> {"g1", "g2"}, loop |-> NoNode, body |-> {}, collect |-> NoNode, items |-> 0, width |-> 1]

\* An approval in a loop whose passes run two at a time.
GateInLoop ==
    [order |-> <<"each", "g1", "collect", "side">>,
     edges |-> {Wire("each", "each", "g1", "run"), Wire("g1", "approved", "collect", "value")},
     quotes |-> {<<"g1", "side">>},
     required |-> {}, signals |-> {<<"g1", "run">>},
     outcomes |-> [n \in Nodes |-> Value],
     gates |-> {"g1"}, loop |-> "each", body |-> {"g1"}, collect |-> "collect",
     items |-> 2, width |-> 2]

\* A loop's body that is wired from outside the loop as well.
WiredFromOutside ==
    [order |-> <<"each", "b1", "collect", "side">>,
     edges |-> {Wire("each", "each", "b1", "run"), Wire("side", "default", "b1", "in"),
                Wire("b1", "default", "collect", "value")},
     quotes |-> {},
     required |-> {<<"b1", "in">>}, signals |-> {<<"b1", "run">>},
     outcomes |-> [n \in Nodes |-> Value],
     gates |-> {}, loop |-> "each", body |-> {"b1"}, collect |-> "collect",
     items |-> 1, width |-> 1]

\* A condition whose sides join again: past a loop at one node, and past one node more at
\* another that the document lists before it.
Rejoining ==
    [order |-> <<"if", "each", "b1", "collect", "join", "late", "side">>,
     edges |-> {Wire("if", "true", "each", "run"), Wire("each", "each", "b1", "run"),
                Wire("b1", "default", "collect", "value"),
                Wire("collect", "default", "join", "in"), Wire("if", "false", "join", "in"),
                Wire("if", "true", "side", "run"),
                Wire("side", "default", "late", "in"), Wire("if", "false", "late", "in")},
     quotes |-> {},
     required |-> {<<"join", "in">>, <<"late", "in">>},
     signals |-> {<<"each", "run">>, <<"b1", "run">>, <<"side", "run">>},
     outcomes |-> [n \in Nodes |-> IF n = "if" THEN Branch ELSE Value],
     gates |-> {}, loop |-> "each", body |-> {"b1"}, collect |-> "collect",
     items |-> 1, width |-> 1]

AllNodes == {"if", "each", "b1", "b2", "collect", "join", "side", "g1", "g2", "no", "late"}
Sound    == {AroundALoop(2, 1), TwoGates, GateInLoop, WiredFromOutside}
Crossing == {WiredFromOutside}
Quoting  == {GateInLoop}
Joined   == {Rejoining}
=============================================================================
