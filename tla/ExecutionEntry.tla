---------------------------- MODULE ExecutionEntry ----------------------------
(***************************************************************************)
(* ExecutionEntry of execution_lifecycle.rs: the record the store keeps of *)
(* one authorized run, and what each operation of the store asks of it and *)
(* makes of it.  ExecutionLifecycle runs these operations one at a time,   *)
(* in any order; ExecutionService composes them under its lock.            *)
(*                                                                         *)
(* Text fields (timestamps, ids, diagnostic codes, file hashes) are left   *)
(* out; the two ids a result is compared by are one abstract plan id.      *)
(***************************************************************************)
EXTENDS Integers, Sequences

CONSTANTS
    Backends,       \* accelerator backends a runtime may report
    Builds,         \* engine builds a runtime may report
    NoBuild,        \* the plan's runtime names no engine build
    NoSubplan,      \* the plan has no benchmark / quick-check part
    NoRecord        \* no terminal record yet

DomainStatuses == {"completed", "stopped", "cancelled", "failed", "timed-out", "oom"}
Subplans == {"benchmark", "quickCheck"}

Runtime == [backend : Backends, build : Builds \cup {NoBuild}]

(* ExecutionPhase derives Ord: its declaration order is the order here.    *)
QueuedPhase == 0
IntegrityRecheck == 1
ModelLoading == 2
BenchmarkWarmup == 3
BenchmarkMeasured == 4
QuickCheck == 5
Finalizing == 6
Complete == 7
Phases == 0..7

States == {"queued", "running", "stop-requested", "terminal"}
ActiveStates == {"running", "stop-requested"}

Codes(e) == {e.events[k].code : k \in DOMAIN e.events}

(* The evidence a caller hands over names a build: require_text refuses an *)
(* empty one.                                                              *)
ObservedRuntimes == [backend : Backends, build : Builds]

Event == [sequence : Nat, previous : States, state : States, phase : Phases,
          code : {"started", "progress", "stop-requested", "terminal"}]

Receipt == [subplan : Subplans, planned : Runtime, observed : Runtime]

TerminalRecord(results) ==
    [sequence : Nat, phase : Phases, loads : SUBSET Receipt, result : results]

(* An entry of a store whose plans and results are these.                  *)
Entry(plans, results) ==
    [plan : plans, state : States, phase : Phases, sequence : Nat,
     current : Nat, total : Nat, series : Nat, checks : Nat, elapsed : Nat,
     events : Seq(Event), loads : SUBSET Receipt, consumed : BOOLEAN,
     terminal : TerminalRecord(results) \cup {NoRecord}]
-----------------------------------------------------------------------------
(* The entry an authorization creates.                                     *)
NewEntry(plan) ==
    [plan |-> plan, state |-> "queued", phase |-> QueuedPhase, sequence |-> 0,
     current |-> 0, total |-> 1, series |-> 0, checks |-> 0, elapsed |-> 0,
     events |-> <<>>, loads |-> {}, consumed |-> FALSE, terminal |-> NoRecord]

(* Seeded fault: the event is logged with the number the snapshot had.     *)
TransitionReusesSequence(e, state, phase, code) ==
    [e EXCEPT !.sequence = @ + 1, !.state = state, !.phase = phase,
              !.events = Append(@, [sequence |-> e.sequence, previous |-> e.state,
                                    state |-> state, phase |-> phase, code |-> code])]

(* Every change of state numbers one event and moves the snapshot with it. *)
Transition(e, state, phase, code) ==
    [e EXCEPT !.sequence = @ + 1, !.state = state, !.phase = phase,
              !.events = Append(@, [sequence |-> e.sequence + 1, previous |-> e.state,
                                    state |-> state, phase |-> phase, code |-> code])]

Active(e) == e.state \in ActiveStates

(* Seeded fault: a run that is being stopped no longer occupies the runner.*)
HasRunningExecution(store) == \E id \in DOMAIN store : store[id].state = "running"

(* has_active_execution.                                                   *)
HasActiveExecution(store) == \E id \in DOMAIN store : Active(store[id])

(* Seeded fault: a run that is being stopped no longer counts.             *)
AnotherRunRunning(store, id) == \E other \in DOMAIN store \ {id} : store[other].state = "running"

(* The first refusal of start: it looks at every entry but its own.        *)
AnotherRunActive(store, id) == \E other \in DOMAIN store \ {id} : Active(store[other])

(* Seeded fault: only the lifecycle is advanced, the receipt stays usable. *)
StartedUnconsumed(e) == Transition(e, "running", IntegrityRecheck, "started")

StartedEntry(e) ==
    Transition([e EXCEPT !.consumed = TRUE], "running", IntegrityRecheck, "started")

MayStart(store, id) ==
    /\ ~AnotherRunActive(store, id)
    /\ ~store[id].consumed
    /\ store[id].state = "queued"

ProgressInRange(u) == u.total # 0 /\ u.current <= u.total

(* Seeded fault: what was retained is compared within a phase only.        *)
RetainedMayRegress(e, u) ==
    \/ u.phase < e.phase
    \/ u.elapsed < e.elapsed
    \/ u.phase = e.phase /\ (u.series < e.series \/ u.checks < e.checks)
    \/ u.phase = e.phase /\ (u.current < e.current \/ u.total # e.total)

ProgressRegresses(e, u) ==
    \/ u.phase < e.phase
    \/ u.elapsed < e.elapsed
    \/ u.series < e.series
    \/ u.checks < e.checks
    \/ u.phase = e.phase /\ (u.current < e.current \/ u.total # e.total)

MayProgress(e, u) ==
    /\ ProgressInRange(u)
    /\ Active(e)
    /\ ~ProgressRegresses(e, u)

ProgressedEntry(e, u) ==
    [e EXCEPT !.sequence = @ + 1, !.phase = u.phase, !.current = u.current,
              !.total = u.total, !.series = u.series, !.checks = u.checks,
              !.elapsed = u.elapsed,
              !.events = Append(@, [sequence |-> e.sequence + 1, previous |-> e.state,
                                    state |-> e.state, phase |-> u.phase, code |-> "progress"])]

(* Seeded fault: a stop that arrives late reopens the execution.           *)
StopReopensEntry(e) ==
    Transition([e EXCEPT !.consumed = TRUE], "stop-requested", e.phase, "stop-requested")

(* request_stop: a queued receipt is spent by it, a run keeps its phase.   *)
StopRequestedEntry(e) ==
    CASE e.state = "queued" ->
            Transition([e EXCEPT !.consumed = TRUE], "stop-requested", e.phase, "stop-requested")
      [] e.state = "running" -> Transition(e, "stop-requested", e.phase, "stop-requested")
      [] OTHER -> e

(* Seeded fault: evidence is still taken when the run is over.             *)
MayRecordLoadLate(e, subplan) ==
    /\ e.state # "queued"
    /\ \A r \in e.loads : r.subplan # subplan
    /\ e.plan.part[subplan] # NoSubplan /\ e.plan.part[subplan].build # NoBuild

(* Seeded fault: a subplan may be observed twice.                          *)
MayRecordLoadAgain(e, subplan) ==
    /\ Active(e)
    /\ e.plan.part[subplan] # NoSubplan /\ e.plan.part[subplan].build # NoBuild

(* record_runtime_load: once per subplan, of a plan that names its build.  *)
MayRecordLoad(e, subplan) ==
    /\ Active(e)
    /\ \A r \in e.loads : r.subplan # subplan
    /\ e.plan.part[subplan] # NoSubplan
    /\ e.plan.part[subplan].build # NoBuild

LoadedEntry(e, subplan, observed) ==
    [e EXCEPT !.loads = @ \cup {[subplan |-> subplan, planned |-> e.plan.part[subplan],
                                 observed |-> observed]}]

(* Seeded fault: any observation of the subplan will do.                   *)
AnyLoad(e, subplan) == \E r \in e.loads : r.subplan = subplan

(* backend_matches_plan and build_matches_plan.                            *)
MatchingLoad(e, subplan) ==
    \E r \in e.loads :
        /\ r.subplan = subplan
        /\ r.observed.backend = r.planned.backend
        /\ r.observed.build = r.planned.build

CompletionEvidenced(e) ==
    IF e.plan.part["benchmark"] # NoSubplan
    THEN MatchingLoad(e, "benchmark")
    ELSE e.plan.part["quickCheck"] # NoSubplan => MatchingLoad(e, "quickCheck")

(* Seeded fault: an existing record is overwritten by a later result.      *)
MayRefinalize(e, result) ==
    /\ e.consumed
    /\ result.plan = e.plan.id
    /\ result.status = "completed" => CompletionEvidenced(e)

(* finalize on an entry without a terminal record.                         *)
MayFinalize(e, result) ==
    /\ e.terminal = NoRecord
    /\ e.consumed
    /\ result.plan = e.plan.id
    /\ result.status = "completed" => CompletionEvidenced(e)

FinalizedEntry(e, result) ==
    LET closed == Transition(e, "terminal", Complete, "terminal")
    IN  [closed EXCEPT !.terminal = [sequence |-> closed.sequence, phase |-> closed.phase,
                                     loads |-> closed.loads, result |-> result]]

(* Where an execution stands with what the runner promises of it.          *)
EntryStatus(e) ==
    CASE e.state = "queued" -> "authorized"
      [] e.state = "running" -> "live"
      [] e.state = "stop-requested" -> IF "started" \in Codes(e) THEN "stopping" ELSE "withdrawn"
      [] e.state = "terminal" -> "closed"
=============================================================================
