-------------------------- MODULE MCExecutionService --------------------------
(* A plan of one warmup, one measured run and two checks, one of a single  *)
(* measured run without checks, and one whose runtime names no build.  A   *)
(* report is accepted, refused, or refused for its shape.                  *)
EXTENDS ExecutionService

CONSTANTS gpu, b1

Run1 == [backend |-> gpu, build |-> b1]

Part(benchmark, quickCheck) ==
    [s \in Subplans |-> IF s = "benchmark" THEN benchmark ELSE quickCheck]

Combined ==
    [id |-> "combined", part |-> Part(Run1, Run1), warmups |-> 1, measured |-> 1, checks |-> 2]
SpeedOnly ==
    [id |-> "speed", part |-> Part(Run1, NoSubplan), warmups |-> 0, measured |-> 1, checks |-> 0]
Unbuilt ==
    [id |-> "unbuilt", part |-> Part([backend |-> gpu, build |-> NoBuild], NoSubplan),
     warmups |-> 0, measured |-> 1, checks |-> 0]

AllPlans == {Combined, SpeedOnly, Unbuilt}

Report1(reading, rows) == [ended |-> "completed", reading |-> reading, rows |-> rows]
Accepted1 == Report1("matching", OnePair)
ModelOutputs ==
    {Accepted1, Report1("mismatched", OnePair), Report1("matching", [OnePair EXCEPT !.other = 1])}

ModelChecks ==
    {[ended |-> "completed", admitted |-> TRUE, passed |-> TRUE],
     [ended |-> "completed", admitted |-> FALSE, passed |-> FALSE]}
=============================================================================
