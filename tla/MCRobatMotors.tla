--------------------------- MODULE MCRobatMotors ---------------------------
(* RobatMotors with a polled motor 0 and an interrupt motor 1, and a line  *)
(* for every branch of the dispatch.                                       *)
EXTENDS RobatMotors

L(verb, m) == [verb |-> verb, m |-> m]
MCLines == { L("f", 0), L("b", 1), L("s", 0), L("stop", 0), L("reset", 0),
             L("other", 0), L("f", 14) }
MCRunLines == { L("f", 0), L("reset", 0) }

(* For the counts: in each behaviour one of the two shafts turns, the      *)
(* polled one or the one with the interrupt.                               *)
OneShaftTurns ==
    \E m \in Motors : \A k \in Motors \ {m} : phase[k] = 0 /\ travel[k] = 0
=============================================================================
