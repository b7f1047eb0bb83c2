------------------------ MODULE MCExecutionLifecycle ------------------------
(***************************************************************************)
(* Values for checking the store: one backend, two builds of which one is  *)
(* planned, and a plan of each shape the store tells apart.                *)
(***************************************************************************)
EXTENDS ExecutionLifecycle

CONSTANTS gpu, b1, b2

Planned == [backend |-> gpu, build |-> b1]
Unbuilt == [backend |-> gpu, build |-> NoBuild]
PlanOf(id, benchmark, quick) ==
    [id |-> id, part |-> [s \in Subplans |-> IF s = "benchmark" THEN benchmark ELSE quick]]

BothPlans == PlanOf("both", Planned, Planned)
QuickOnly == PlanOf("quick-only", NoSubplan, Planned)
UnbuiltPlan == PlanOf("unbuilt", Unbuilt, NoSubplan)
EmptyPlan == PlanOf("empty", NoSubplan, NoSubplan)

AllPlans == {BothPlans, QuickOnly, UnbuiltPlan, EmptyPlan}

(* Progress once made, progress beyond it, and updates that fall behind    *)
(* what was made in one respect each, or are not in range.                 *)
Update(phase, current, total, series, checks, elapsed) ==
    [phase |-> phase, current |-> current, total |-> total,
     series |-> series, checks |-> checks, elapsed |-> elapsed]

AllUpdates ==
    {Update(3, 1, 2, 1, 1, 1), Update(6, 2, 2, 1, 1, 1),
     Update(3, 0, 2, 1, 1, 1), Update(3, 1, 1, 1, 1, 1),
     Update(6, 2, 2, 0, 1, 1), Update(6, 2, 2, 1, 0, 1), Update(6, 2, 2, 1, 1, 0),
     Update(6, 0, 0, 1, 1, 1), Update(6, 2, 1, 1, 1, 1)}
=============================================================================
