--------------------------- MODULE MCResultAdmission ---------------------------
(* Plans of one warmup and two measured runs, and of two warmups and one   *)
(* measured run, with and without two fixed checks.  Every way a child can *)
(* end; of the completed ones every reading, and rows that are right, that *)
(* lack a shape, repeat one or add another.                                *)
EXTENDS ResultAdmission

ModelPlans ==
    [id : {"plan"}, warmups : {1}, measured : {2}, checks : {0, 2}]
      \cup {[id |-> "plan", warmups |-> 2, measured |-> 1, checks |-> 2]}

Reports ==
    [ended : {"completed"}, reading : {"unreadable", "mismatched"}, rows : {OnePair}]
      \cup [ended : {"completed"}, reading : {"matching"}, rows : Rows]

Ended == {Terminal(t) : t \in Terminations \ {"completed"}}

(* A killed child may have written a whole report before it was killed.    *)
EndedWithText == [ended : {"stopped", "timed-out"}, reading : {"matching"}, rows : {OnePair}]

ModelOutputs == Reports \cup Ended \cup EndedWithText

ModelChecks ==
    [ended : {"completed"}, admitted : {TRUE}, passed : BOOLEAN]
      \cup [ended : {"completed"}, admitted : {FALSE}, passed : {FALSE}]
      \cup {TerminalCheck(t) : t \in Terminations \ {"completed"}}
=============================================================================
