------------------------------- MODULE MCRules -------------------------------
(* Small instances of RuleRuntime for TLC. *)
EXTENDS RuleRuntime, TLC

CONSTANTS c1, c2, t1

\* Both connections of one terminal: it counts across them.
OneTerminal == [c \in {c1, c2} |-> t1]

Symmetry == Permutations({c1, c2})

\* A rule for the second message, and a one-shot rule whose terminal action hides it.
Second == [enabled |-> TRUE, nth |-> 2, oneShot |-> FALSE, terminal |-> FALSE, priority |-> 2]
Once == [enabled |-> TRUE, nth |-> 0, oneShot |-> TRUE, terminal |-> TRUE, priority |-> 1]
TwoDrafts == {Second, Once}

\* One rule, which has been hit before, or both.
TwoFiles == {<<[Created(Second) EXCEPT !.hits = 1], Absent>>,
             <<Created(Second), Created(Once)>>}
==============================================================================
