--------------------------- MODULE ExecutionService ---------------------------
(***************************************************************************)
(* The coordinator of execution_service.rs: confirmations, the lifecycle   *)
(* store, the cancellation tokens and the terminal records behind one      *)
(* mutex, and one worker thread per started execution.  What a caller does *)
(* under the mutex is one action.  A worker reads its token, has its child *)
(* process checked and started and waits for it without the mutex, and     *)
(* takes it to report progress and to finish: each is a step of its own,   *)
(* so that start, stop and the child's end interleave between them.        *)
(*                                                                         *)
(* The store's entries are those of ExecutionEntry, the results those of   *)
(* ResultAdapter.  Elapsed time is left out.                               *)
(***************************************************************************)
EXTENDS ExecutionEntry, ResultAdapter

CONSTANTS
    Plans,             \* prepared plans: [id, part, warmups, measured, checks]
    BenchmarkOutputs,  \* what a benchmark child that completes may have written
    QuickOutputs,      \* what a fixed check that completes may have written
    MaxId,             \* bound on the executions that are started
    MaxConfirmations   \* bound of next_confirmation (u64::MAX in the code)

Results == NormalizedResults({p.id : p \in Plans})

ASSUME ServiceAssumption ==
    /\ \A p \in Plans : /\ p.part \in [Subplans -> Runtime \cup {NoSubplan}]
                        /\ p.warmups \in Nat /\ p.measured \in Nat \ {0} /\ p.checks \in Nat
                        /\ p.checks > 0 <=> p.part["quickCheck"] # NoSubplan
    /\ NoSubplan \notin Runtime
    /\ NoBuild \notin Builds
    /\ Refused \notin Results
    /\ NoObservation \notin QuickObservations
    /\ NoRecord \notin DomainStatuses \cup TerminalRecord(Results)
    /\ \A o \in BenchmarkOutputs : o \in BenchmarkOutput /\ o.ended = "completed"
    /\ \A o \in QuickOutputs : o \in QuickOutput /\ o.ended = "completed"
    /\ MaxId \in Nat /\ MaxConfirmations \in Nat

VARIABLES
    nextId,         \* lifecycle.next_id
    entries,        \* lifecycle.entries
    confirmed,      \* the plan each confirmation handed out was made for
    pending,        \* pending_confirmations
    requested,      \* the token each worker was given: has it been requested?
    cancellations,  \* the executions whose token the service still holds
    terminals,      \* terminals: execution id -> terminal record
    workers         \* the worker thread of each execution

vars == <<nextId, entries, confirmed, pending, requested, cancellations, terminals, workers>>

(* at: before reading the token ("poll"), while the process boundary       *)
(* checks paths and hashes ("checking"), with a child that was just        *)
(* started ("started") and one whose wait loop has seen no request yet     *)
(* ("running"), before reporting its progress ("report"), before taking    *)
(* the mutex for the last time ("finish"), gone ("gone").                  *)
NewWorker == [at |-> "poll", outputs |-> <<>>, checks |-> <<>>]

(* start_with_runner resolves every part of the plan before it takes the   *)
(* mutex: a benchmark part is required, and each part names its build.     *)
Startable(plan) ==
    /\ plan.part["benchmark"] # NoSubplan /\ plan.part["benchmark"].build # NoBuild
    /\ plan.part["quickCheck"] # NoSubplan => plan.part["quickCheck"].build # NoBuild

-----------------------------------------------------------------------------
Init ==
    /\ nextId = 0
    /\ entries = [id \in {} |-> NoRecord]
    /\ confirmed = <<>>
    /\ pending = {}
    /\ requested = [id \in {} |-> FALSE]
    /\ cancellations = {}
    /\ terminals = [id \in {} |-> NoRecord]
    /\ workers = [id \in {} |-> NewWorker]

(* confirm_prepared.                                                       *)
ConfirmPrepared(plan) ==
    /\ Len(confirmed) < MaxConfirmations
    /\ confirmed' = Append(confirmed, plan)
    /\ pending' = pending \cup {Len(confirmed) + 1}
    /\ UNCHANGED <<nextId, entries, requested, cancellations, terminals, workers>>

With(f, id, value) == [x \in DOMAIN f \cup {id} |-> IF x = id THEN value ELSE f[x]]

(* start_with_runner: authorize, start, insert the token, spawn.           *)
Start(plan, c) ==
    /\ c \in pending
    /\ confirmed[c] = plan
    /\ Startable(plan)
    /\ ~HasActiveExecution(entries)
    /\ nextId < MaxId
    /\ pending' = pending \ {c}
    /\ nextId' = nextId + 1
    /\ entries' = With(entries, nextId + 1, StartedEntry(NewEntry(plan)))
    /\ requested' = With(requested, nextId + 1, FALSE)
    /\ cancellations' = cancellations \cup {nextId + 1}
    /\ workers' = With(workers, nextId + 1, NewWorker)
    /\ UNCHANGED <<confirmed, terminals>>

(* The confirmation is spent before any check of start: an unreadable      *)
(* artifact, another plan's confirmation, an unresolvable plan or a run in *)
(* progress costs it.                                                      *)
StartRefused(plan, c) ==
    /\ c \in pending
    /\ \E artifactReadable \in BOOLEAN :
          \/ ~artifactReadable
          \/ confirmed[c] # plan
          \/ ~Startable(plan)
          \/ HasActiveExecution(entries)
    /\ pending' = pending \ {c}
    /\ UNCHANGED <<nextId, entries, confirmed, requested, cancellations, terminals, workers>>

(* Seeded fault: the token is requested, the lifecycle is not told.        *)
StopUnrecorded(id) ==
    /\ entries[id].state # "terminal"
    /\ id \in cancellations
    /\ requested' = [requested EXCEPT ![id] = TRUE]
    /\ UNCHANGED <<nextId, entries, confirmed, pending, cancellations, terminals, workers>>

(* stop: the lifecycle and the token under one lock.  On a terminal        *)
(* execution, and without a token, it changes nothing.                     *)
Stop(id) ==
    /\ entries[id].state # "terminal"
    /\ id \in cancellations
    /\ entries' = [entries EXCEPT ![id] = StopRequestedEntry(entries[id])]
    /\ requested' = [requested EXCEPT ![id] = TRUE]
    /\ UNCHANGED <<nextId, confirmed, pending, cancellations, terminals, workers>>

-----------------------------------------------------------------------------
Benchmark(id) == BenchmarkObservation(workers[id].outputs, entries[id].plan)

InChecks(w, plan) == Len(w.outputs) = Planned(plan) /\ w.outputs[Planned(plan)].ended = "completed"

(* Where the worker goes behind an output: to report it, or, behind one    *)
(* that did not complete, out of its loop -- and then to finish, since the *)
(* checks run behind a completed benchmark only.                           *)
After(output) == IF output.ended = "completed" THEN "report" ELSE "finish"

SetWorker(id, w) ==
    /\ workers' = [workers EXCEPT ![id] = w]
    /\ UNCHANGED <<nextId, confirmed, pending, requested, cancellations, terminals>>

(* An output joins the loop it belongs to.                                 *)
WithOutput(w, plan, output) ==
    IF InChecks(w, plan)
    THEN [w EXCEPT !.checks = Append(@, output), !.at = After(output)]
    ELSE [w EXCEPT !.outputs = Append(@, output), !.at = After(output)]

Ended(w, plan, ended) == IF InChecks(w, plan) THEN TerminalCheck(ended) ELSE Terminal(ended)

(* Seeded fault: the token is looked at before the first child only.       *)
PollsOnce(id) ==
    LET w == workers[id]
    IN  /\ w.at = "poll"
        /\ IF requested[id] /\ w.outputs = <<>>
           THEN SetWorker(id, WithOutput(w, entries[id].plan, Ended(w, entries[id].plan, "stopped")))
           ELSE SetWorker(id, [w EXCEPT !.at = "checking"])
        /\ UNCHANGED entries

(* The worker looks at its token: it records a stopped output without a    *)
(* child, or calls the process boundary.                                   *)
Poll(id) ==
    LET w == workers[id]
    IN  /\ w.at = "poll"
        /\ IF requested[id]
           THEN SetWorker(id, WithOutput(w, entries[id].plan, Ended(w, entries[id].plan, "stopped")))
           ELSE SetWorker(id, [w EXCEPT !.at = "checking"])
        /\ UNCHANGED entries

(* The boundary checks the argument list and the paths, hashes the tool    *)
(* and the whole model and starts the child, all without a look at the     *)
(* token: a stop meanwhile does not keep the child from being started.     *)
StartChild(id) ==
    /\ workers[id].at = "checking"
    /\ UNCHANGED entries
    /\ SetWorker(id, [workers[id] EXCEPT !.at = "started"])

(* One of those checks, or the start, fails.                               *)
ChildRefused(id) ==
    LET w == workers[id]
    IN  /\ w.at = "checking"
        /\ UNCHANGED entries
        /\ SetWorker(id, WithOutput(w, entries[id].plan, Ended(w, entries[id].plan, "failed")))

(* The first turn of the wait loop: a child that the stop overtook on its  *)
(* way is killed whatever it did so far.  Killing it, reading it to its    *)
(* end or hashing again may fail, and it may have written too much.        *)
FirstLook(id) ==
    LET w == workers[id]
        plan == entries[id].plan
    IN  /\ w.at = "started"
        /\ UNCHANGED entries
        /\ IF requested[id]
           THEN \E ended \in {"stopped", "failed"} :
                   SetWorker(id, WithOutput(w, plan, Ended(w, plan, ended)))
           ELSE SetWorker(id, [w EXCEPT !.at = "running"])

(* The child ends behind a turn that saw no request: by itself, with       *)
(* whatever it wrote, at its time limit, with an error (nonzero exit,      *)
(* output limit, process boundary), or killed because its token was        *)
(* requested.                                                              *)
ChildEnds(id, output) ==
    /\ workers[id].at = "running"
    /\ output.ended = "stopped" => requested[id]
    /\ UNCHANGED entries
    /\ SetWorker(id, WithOutput(workers[id], entries[id].plan, output))

Update(phase, current, total, series, checks) ==
    [phase |-> phase, current |-> current, total |-> total,
     series |-> series, checks |-> checks, elapsed |-> 0]

(* update_progress as the worker calls it: a refusal is ignored.           *)
Progressed(e, u) == IF MayProgress(e, u) THEN ProgressedEntry(e, u) ELSE e

(* Seeded fault: measured runs are numbered on from the warmups.           *)
ProgressOfOverallRun(w, plan) ==
    LET run == Len(w.outputs)
    IN  IF w.checks # <<>> THEN Update(QuickCheck, Len(w.checks), plan.checks, 0, 0)
        ELSE IF run <= plan.warmups THEN Update(BenchmarkWarmup, run, plan.warmups, 0, 0)
        ELSE Update(BenchmarkMeasured, run, plan.measured, 0, 0)

(* record_completed_progress and record_quick_progress: nothing is         *)
(* retained yet.                                                           *)
ProgressOf(w, plan) ==
    LET run == Len(w.outputs)
    IN  IF w.checks # <<>> THEN Update(QuickCheck, Len(w.checks), plan.checks, 0, 0)
        ELSE IF run <= plan.warmups THEN Update(BenchmarkWarmup, run, plan.warmups, 0, 0)
        ELSE Update(BenchmarkMeasured, run - plan.warmups, plan.measured, 0, 0)

(* Where the worker goes behind a completed child: to the next invocation, *)
(* to the first check if the benchmark completed, or to finish.            *)
BehindReport(id) ==
    LET w == workers[id]
        plan == entries[id].plan
    IN  IF Len(w.outputs) < Planned(plan) THEN "poll"
        ELSE IF Benchmark(id).status = "completed" /\ Len(w.checks) < plan.checks THEN "poll"
        ELSE "finish"

Report(id) ==
    LET w == workers[id]
    IN  /\ w.at = "report"
        /\ entries' = [entries EXCEPT ![id] = Progressed(@, ProgressOf(w, @.plan))]
        /\ SetWorker(id, [w EXCEPT !.at = BehindReport(id)])

-----------------------------------------------------------------------------
(* The series with a sample: both of the pair, or neither.                 *)
AdmittedSeries(bench) == IF bench.warmups \cup bench.measured = {} THEN 0 ELSE 2

QuickOf(id, bench) ==
    IF bench.status = "completed" /\ entries[id].plan.checks > 0
    THEN QuickObservation(workers[id].checks, entries[id].plan)
    ELSE NoObservation

(* Seeded fault: what the children completed is counted, not what was      *)
(* admitted.                                                               *)
FinalProgressOfCompleted(id, bench, normalized) ==
    IF workers[id].outputs[1].ended = "completed"
    THEN Progressed(entries[id],
                    Update(Finalizing, 1, 1, 2,
                           Cardinality({k \in DOMAIN workers[id].checks :
                                           workers[id].checks[k].ended = "completed"})))
    ELSE entries[id]

(* The last progress update: retained_series and retained_checks.          *)
FinalProgress(id, bench, normalized) ==
    LET retained == IF normalized = Refused THEN 0
                    ELSE Cardinality(normalized.passed \cup normalized.failed)
    IN  IF AdmittedSeries(bench) > 0
        THEN Progressed(entries[id], Update(Finalizing, 1, 1, AdmittedSeries(bench), retained))
        ELSE entries[id]

(* Seeded fault: the load is recorded only while nobody asked to stop.     *)
LoadWhileRunning(e, bench) == bench.load /\ e.state = "running"

(* The benchmark's load observation; its backend and build were checked    *)
(* against the plan by the adapter.                                        *)
LoadObserved(e, bench) == bench.load

(* Seeded fault: the token of an ended execution is kept.                  *)
CloseKeepsToken(id, e, result) ==
    /\ IF MayFinalize(e, result)
       THEN /\ entries' = [entries EXCEPT ![id] = FinalizedEntry(e, result)]
            /\ terminals' = With(terminals, id, FinalizedEntry(e, result).terminal)
       ELSE /\ entries' = [entries EXCEPT ![id] = e]
            /\ UNCHANGED terminals
    /\ workers' = [workers EXCEPT ![id].at = "gone"]
    /\ UNCHANGED <<nextId, confirmed, pending, requested, cancellations>>

(* A record the lifecycle refuses is dropped; the token is removed in any  *)
(* case.  (finish.)                                                        *)
Close(id, e, result) ==
    /\ IF MayFinalize(e, result)
       THEN /\ entries' = [entries EXCEPT ![id] = FinalizedEntry(e, result)]
            /\ terminals' = With(terminals, id, FinalizedEntry(e, result).terminal)
       ELSE /\ entries' = [entries EXCEPT ![id] = e]
            /\ UNCHANGED terminals
    /\ cancellations' = cancellations \ {id}
    /\ workers' = [workers EXCEPT ![id].at = "gone"]
    /\ UNCHANGED <<nextId, confirmed, pending, requested>>

(* The rest of run_worker under one lock: the last progress update, the    *)
(* load observation -- whose refusal fails the run -- and the result.      *)
Finish(id) ==
    /\ workers[id].at = "finish"
    /\ \E bench \in {Benchmark(id)} : \E quick \in {QuickOf(id, bench)} :
       \E normalized \in {VerificationResult(entries[id].plan, RunStatus(bench, quick),
                                             bench, quick)} :
       \E e \in {FinalProgress(id, bench, normalized)} :
          LET failed == FailedResult(e.plan)
              loaded == LoadedEntry(e, "benchmark", e.plan.part["benchmark"])
          IN  IF LoadObserved(e, bench)
              THEN IF MayRecordLoad(e, "benchmark")
                   THEN Close(id, loaded, IF normalized = Refused THEN failed ELSE normalized)
                   ELSE Close(id, e, failed)
              ELSE Close(id, e, IF normalized = Refused THEN failed ELSE normalized)

(* What a child can end with where the worker is.                          *)
ChildOutputs(id) ==
    LET w == workers[id]
        plan == entries[id].plan
    IN  (IF InChecks(w, plan) THEN QuickOutputs ELSE BenchmarkOutputs)
          \cup {Ended(w, plan, t) : t \in Terminations \ {"completed"}}

WorkerStep(id) ==
    \/ Poll(id)
    \/ StartChild(id)
    \/ ChildRefused(id)
    \/ FirstLook(id)
    \/ \E output \in ChildOutputs(id) : ChildEnds(id, output)
    \/ Report(id)
    \/ Finish(id)

Next ==
    \/ \E plan \in Plans : ConfirmPrepared(plan)
    \/ \E plan \in Plans, c \in 1..Len(confirmed) : Start(plan, c) \/ StartRefused(plan, c)
    \/ \E id \in DOMAIN entries : Stop(id) \/ WorkerStep(id)

Spec == Init /\ [][Next]_vars

(* The threads run: a worker is never held up for ever, and its child      *)
(* always ends -- run_native_process kills it at its time limit.           *)
FairSpec == Spec /\ \A id \in 1..MaxId : WF_vars(id \in DOMAIN entries /\ WorkerStep(id))
-----------------------------------------------------------------------------
TypeOK ==
    /\ nextId \in 0..MaxId /\ DOMAIN entries = 1..nextId
    /\ confirmed \in Seq(Plans) /\ pending \subseteq 1..Len(confirmed)
    /\ requested \in [1..nextId -> BOOLEAN]
    /\ cancellations \subseteq 1..nextId /\ DOMAIN terminals \subseteq 1..nextId
    /\ DOMAIN workers = 1..nextId
    /\ \A id \in 1..nextId :
          /\ workers[id].at \in {"poll", "checking", "started", "running",
                                 "report", "finish", "gone"}
          /\ Len(workers[id].outputs) <= Planned(entries[id].plan)
          /\ Len(workers[id].checks) <= entries[id].plan.checks
          /\ entries[id].state \in States /\ entries[id].phase \in Phases
    /\ \A id \in DOMAIN terminals : terminals[id].result \in Results

Alive(id) == workers[id].at # "gone"

(* One engine at a time: two workers are never alive together, also while  *)
(* one of them is being stopped or is past its last child.                 *)
(* (has_active_execution in start_with_runner.)                            *)
OneWorker == \A i, j \in DOMAIN workers : Alive(i) /\ Alive(j) => i = j

(* The three registries and the threads tell one story: an execution is    *)
(* active exactly while its worker lives and its token is held, and then   *)
(* terminal with its record published.  No execution is left active with   *)
(* nobody to end it, which would refuse every later start.  (finish.)      *)
RegistriesAgree ==
    \A id \in DOMAIN entries :
        /\ Active(entries[id]) <=> Alive(id)
        /\ id \in cancellations <=> Alive(id)
        /\ id \in DOMAIN terminals <=> ~Alive(id)
        /\ id \in DOMAIN terminals => terminals[id] = entries[id].terminal

(* What a worker recorded of a child that was killed, or never started,    *)
(* for a stop.                                                             *)
WasStopped(w) ==
    \/ \E k \in DOMAIN w.outputs : w.outputs[k].ended = "stopped"
    \/ \E k \in DOMAIN w.checks : w.checks[k].ended = "stopped"

(* A stop that the lifecycle recorded reached the worker's token, no       *)
(* worker stops without it, and only what the worker did about it decides  *)
(* how the run closes: one whose children all ended by themselves is not   *)
(* published as stopped, however late the stop came.  (stop, run_worker.)  *)
StopReachesTheWorker ==
    \A id \in DOMAIN entries :
        /\ requested[id] <=> "stop-requested" \in Codes(entries[id])
        /\ WasStopped(workers[id]) => requested[id]
        /\ id \in DOMAIN terminals =>
              (terminals[id].result.status = "stopped" => WasStopped(workers[id]))

(* The counts of the last snapshot are those of the published result: what *)
(* was only completed is not counted as retained.  (The comment of         *)
(* record_completed_progress.)                                             *)
RetainedCountsMatchTheResult ==
    \A id \in DOMAIN terminals :
        LET result == terminals[id].result
        IN  /\ entries[id].series = IF result.warmups \cup result.measured = {} THEN 0 ELSE 2
            /\ entries[id].series > 0 =>
                  entries[id].checks = Cardinality(result.passed \cup result.failed)

(* Evidence that the runtime loaded the model survives however the run     *)
(* ends: the record of a run with an accepted report has it.               *)
LoadEvidenceSurvives ==
    \A id \in DOMAIN terminals :
        (workers[id].outputs # <<>> /\ workers[id].outputs[1].ended = "completed"
           /\ ~ReportRefused(workers[id].outputs[1])) =>
              MatchingLoad(entries[id], "benchmark")

(* A worker between its token read and the end of that child.              *)
UnderWay(w) == w.at \in {"checking", "started", "running"}

(* Behind a stop no further invocation is begun, whatever the worker was   *)
(* about to do.  The one under way may still start its child, for the      *)
(* checks in front of it do not look at the token; but that child is ended *)
(* at the first look and its report is not taken.                          *)
NothingBeginsBehindAStop ==
    [][\A id \in DOMAIN entries :
          requested[id] =>
              /\ UnderWay(workers'[id]) => UnderWay(workers[id])
              /\ workers[id].at \in {"checking", "started"} =>
                    workers'[id].at \notin {"running", "report"}]_vars

(* The lifecycle never refuses a worker's progress, which the worker would *)
(* not notice: each report is a new snapshot.                              *)
ProgressIsNeverRefused ==
    [][\A id \in DOMAIN entries :
          workers[id].at = "report" /\ workers'[id].at # "report" =>
              entries'[id].sequence = entries[id].sequence + 1]_vars

(* Every started run ends with a published record, stopped or not.         *)
EveryRunEnds ==
    \A id \in 1..MaxId : id \in DOMAIN entries ~> id \in DOMAIN terminals

(* The service implements the promise; a run is authorized and begun in    *)
(* one step.                                                               *)
StatusOf == [x \in 1..MaxId |->
                IF x \in DOMAIN entries THEN EntryStatus(entries[x]) ELSE "unissued"]
OutcomeOf == [x \in 1..MaxId |->
                 IF x \in DOMAIN terminals THEN terminals[x].result.status ELSE NoRecord]
EvidencedOf == {x \in DOMAIN entries : CompletionEvidenced(entries[x])}

Promise == INSTANCE OneRunExecution WITH
    Executions <- 1..MaxId, Outcomes <- DomainStatuses, Undecided <- NoRecord,
    status <- StatusOf, outcome <- OutcomeOf, evidenced <- EvidencedOf

KeepsThePromise == Promise!Spec
=============================================================================
