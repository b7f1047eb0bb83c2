------------------------------ MODULE Verdicts ------------------------------
(***************************************************************************)
(* The finder's checkers name what they refuse: a list of conditions, of   *)
(* which all that hold are reported, or the first.                         *)
(***************************************************************************)
EXTENDS Integers, Sequences

CONSTANT None   \* null

Held(conditions) == {name \in DOMAIN conditions : conditions[name]}

(* checks is a list of pairs <<reason, does it apply>>.                    *)
FirstReason(checks) ==
    LET applying == {k \in DOMAIN checks : checks[k][2]}
    IN  IF applying = {} THEN None
        ELSE checks[CHOOSE k \in applying : \A j \in applying : k <= j][1]
=============================================================================
