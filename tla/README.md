# Local Arcade: verification project

TLA+ models of Local Arcade, the TLC configurations that check them and the
TLAPS proofs about them. Local Arcade recommends a local language model for a
machine (the *finder*, TypeScript, `src/lib`) and then measures the recommendation
on that machine (the *runner*, a desktop page in `src/runner/src` over Rust in
`src/runner/src-tauri/src`). The runner executes somebody's existing `llama.cpp`
programs: it takes consent, starts child processes, reads what they print and
publishes a record of it. There the program has threads, processes, cancellation,
one-use authority and partial results. The finder's difficulty is another: facts
that several checkers judge in turn, an awaited port between them, and results
that must not be mixed.

Contents: 1 the system, 2 the modules, 3 the runs, 4 the proofs,
5 what was found, 6 what is not modelled, 7 the plan.

## 1. The system

### The runner (Rust, `src/runner/src-tauri/src`)

| Component | State | Operations | Hard behaviour | What makes it correct |
|---|---|---|---|---|
| Execution lifecycle store (`execution_lifecycle.rs`) | identity counter; per execution: plan, state, phase, sequence, counts, events, load observations, authorization, terminal record | authorize, start, update_progress, request_stop, record_runtime_load, finalize, snapshot | long legal call sequences; late calls around finalize; competing executions | one live run, one use of an authorization, a log that replays, a terminal record that agrees and never changes, "completed" only with matching evidence |
| Execution service (`execution_service.rs`) | confirmations, lifecycle store, cancellation tokens, terminal records behind one mutex; one worker thread per run | confirm_prepared, start, stop, poll, terminal; `run_worker` | the worker reads its token and runs its child outside the mutex; stop and start arrive in between; refused updates are ignored | one worker, registries that agree, stops that arrive, nothing begun behind a stop, every run ends with a record |
| Result adapter (`execution_result_adapter.rs`) | none (a function of the outputs) | benchmark and quick-check observations, load observation, samples | a run may end early at any output, and one report may be refused after part of it was read | completed means the whole plan; only accepted reports count; the admitted prefix survives |
| Verification (`verification.rs`) | none | prepare, normalize results, aggregate, stability, exclusions | recomputes counts and statuses that the worker computed independently | it accepts what the worker hands over |
| Execution protocol (`execution_protocol.rs`) | none | resolve a benchmark or a quick-check plan to invocations; canonical checks | numbering of two phases; the argument shape is written twice | what resolves is accepted by the process boundary; the confirmed runtime and counts run |
| Process boundary (`execution_process.rs`) | job object, child, two reader threads, cancellation token, overflow flag, clock | run one child; validate arguments; quote a Windows command line | a child that floods, hangs, or leaves a descendant that holds the pipes; truncation racing the exit; failing system calls | the call returns, nothing runs on behind it, an outcome is earned, arguments arrive unchanged |
| Preview assembler (`preview_adapter.rs`) | handles, selected artifact, evaluated and confirmed hardware, tool probes, prepared verifications | import, evaluate and confirm hardware, probe a tool, select and hash, prepare, take prepared | changing one input must invalidate what was derived from it; prepared objects are used once | no stale input in a prepared plan |
| Transport and composition (`execution_transport.rs`, `lib.rs`) | the global `RunnerProcessState` mutex, held across each command | start, stop, poll, capture | a prepared object is taken before consent and start | one use, no lost consent |
| Fit-profile capture (`fit_profile_capture.rs`) | none | prepare six invocations, run them, parse, compare repeats, receipt | repeats must agree; nothing may be executed but the sealed invocations | a prepared capture runs |
| Hardware (`hardware*.rs`), preflight, tool probe, model store and inventory, legacy benchmark and quick task | evaluated target and nonce; probed tool; scan results | evaluate, confirm, probe, scan | facts that change between check and use | confirmations bind what was shown |
| Runner user interface (`src/runner/src/*.ts`) | `#state`: stage, status, the latest of each setup step, the last admitted snapshot and result; the poll timer | one method per control; the poll | methods interleave at each `await invoke`; the poll, Refresh and Stop are answered in any order; the stage decides which controls exist | setup steps stay alone, what is shown never goes back, a completed run is shown, the page does not wait for ever |

### The finder (TypeScript, `src/lib`, `src/research`)

| Component | State | Operations | Hard behaviour | What makes it correct |
|---|---|---|---|---|
| Collection of fit profiles (`assessment/runner-fit-profile-capture.ts`, `research/mf-profile-collection`) | none | validate a receipt or a raw bundle, derive a proposed record | repeats must agree; a line through the two shortest contexts, rounded up, must give back all of them | what is derived and reviewed is admitted |
| Assessment and admission (`assessment/admission.ts`, `index.ts`), fit (`fit`) | none | admit a profile, admit a capacity policy, assess | the same facts judged twice, in other words | what is admitted is assessed |
| Evidence adapters (`evidence`) | none | adapt a stored record or a prior | matches and methods must not be improved on the way | conflicting or unbound evidence is refused |
| Portfolio selection (`portfolio`) | brands of admitted entries | select up to five families from a universe | gaps, ranges that overlap, a sort whose comparison is no order | nothing fits only when it is known; no dominated representative; independence of the list's order |
| Orchestrator (`orchestrator`) | brands and bindings of frozen results | compile a request, find, detail, handoff, export; inspect, scan, select, preview | inputs change while a port is awaited; copies and results of different searches are combined; a bundle expires | a bundle, and a previewed plan, is of one evaluation |
| Context policy (`context-policy`) | none | a task and scope to a context length | | the bundle's length is the task's |

### Everything else

The `llmfit` adapter, the earlier recommendation engine, priors and accelerators,
battles rating, registry and discovery, candidate building, hardware resolution
and the localhost quick test are sequential and mostly pure; `src/app` and
`src/worker` render and serve. `PROJECT.json` lists every component with its
status.

### How the parts interact

A measured profile is derived, reviewed into a manifest by a person, and admitted with a
capacity policy; an assessment combines both with adapted evidence. The finder asks a
port for a universe of assessed entries, selects from it, and a visitor opens a detail,
hands it off and exports an import bundle. The preview assembler admits it, evaluates
hardware, hashes the selected artifact and prepares a plan under a handle. The transport
takes the prepared plan out of the assembler, obtains a confirmation from the service
(`confirm_prepared`) and starts it. `start` authorizes and starts an execution in the
lifecycle store, stores a cancellation token and spawns a worker. The worker resolved
its plan through the execution protocol; for each invocation it reads the token and
calls the process boundary, which validates the arguments again, quotes them into a
command line and runs the child. Behind the children the result adapter admits outputs,
verification normalizes them, and `finish` closes the execution and publishes the
record. The user interface polls snapshots and finally fetches the record, which it
checks against the plan it showed. The token is the only thing that crosses from the
command side to a running child.

## 2. The modules

| Module | Models | State |
|---|---|---|
| `OneRunExecution` | abstract: what the runner promises of an execution | status, outcome, evidenced |
| `ExecutionEntry` | an `ExecutionEntry` of the store and what each operation does to it, as operators | none |
| `ExecutionLemmas` | lemmas about the operations on an entry, and about admission and normalization, for any plans, outputs and results | none |
| `ExecutionLifecycle` | `ExecutionLifecycleStore`: one action per operation | `nextId`, `entries` |
| `ExecutionLifecycleProofs` | the theorems about the store | none |
| `ResultAdapter` | admission of outputs, normalization, statuses, as operators | none |
| `ResultAdmission` | the outputs a worker collects, one by one | plan, outputs, checks |
| `ResultAdmissionProofs` | the theorems about what is admitted | none |
| `ExecutionService` | the service and its workers; uses `ExecutionEntry` and `ResultAdapter` | confirmations, store, tokens, terminals, workers |
| `ExecutionServiceProofs` | the theorems about the service, over the lemmas of the entry and the adapter | none |
| `ExistingEngineProcess` | one call of `run_existing_engine_process` | controller, process tree, job, pipes, readers, flag, token, clock |
| `ExistingEngineProcessProofs` | the theorems about one call | none |
| `ExecutionProtocol` | plan resolvers, invocation lists, argument lists, capture preparation | none |
| `ProcessArguments` | the boundary's argument validators; a plan on its way through them | plan, status, invocations, crossed |
| `WindowsCommandLine` | quoting of a command line, and how a child takes it apart | none |
| `ChildArguments` | composes the two: behind a plan's invocations, a child's line is written down, built or refused | arguments, `built` for the line's status, line |
| `RunnerApplication` | the desktop page and its poll, beside a runner as `OneRunExecution` promises it | `ui`, `calls`, `shown`, `poll`, `remote` |
| `RunnerApplicationProofs` | the theorems about the page | none |
| `Verdicts`, `ArraySort` | named refusals; `Array.prototype.sort` on a comparison that may be no order | none |
| `MemoryFit` | `fit` and `fitMemoryPools` | none |
| `ProfileCollection` | receipts and raw bundles, and the record derived from them | none |
| `ProfileAdmission` | admission of profiles and capacity policies | none |
| `FitAssessment` | `assessFitEvidence` | none |
| `EvidenceAdapters` | evidence records and throughput priors | none |
| `TaskContext` | context policy, and the request compiled from a question | none |
| `PortfolioSelection` | `buildRecommendationPortfolio` | none |
| `FinderOrchestration` | finder results, detail, handoff and bundle, with their brands | none |
| `RunnerPreparation` | import, inventory, selection, verification preview | none |
| `Finder` | composes the last eight: one visit from its facts to a previewed plan | facts, results, the caller's inputs, the clock |
| `FinderProofs` | the theorems about a visit, and the lemmas about the modules it composes | none |
| `MC*` | values of the constants for TLC | none |

How they compose: `ExecutionLifecycle` and `ExecutionService` both EXTEND
`ExecutionEntry`, so what the store does to an entry is written once, and both are
shown to implement `OneRunExecution`. `ExecutionService` sees the process boundary
as the outcome of its child (`ChildEnds`); `ExistingEngineProcess` is that call in
detail. What `ExecutionService` assumes of the child, that it ends, and that it is
reported cancelled only if its token was requested, is what
`EveryCallReturns` and `OutcomeIsEarned` check. `RunnerApplication` sees the service
as a run whose snapshots are numbered and which ends with a record; the records
are computed by `ResultAdapter`, so that the page is checked against what the
worker really publishes. The modules of the finder are operators, one per exported
function; `Finder` has the actions.

### State and actions against the code

*Store.* `entries[id]` holds the fields of `ExecutionEntry` that decide anything:
texts, receipt identifiers and timestamps are left out. An operation that returns
`Err` changes nothing and is the absence of a step. One refusal does change the
store: `authorize_facts` counts the identity before it refuses a plan without a
phase, and `Authorize` does the same. Phases are numbers in the order of
`ExecutionPhase`, because the code compares them.

*Service.* What a caller does under the mutex is one action (`ConfirmPrepared`,
`Start`, `StartRefused`, `Stop`). A worker has a place: before reading its token
(`poll`), in the process boundary's checks in front of the child (`checking`), behind
the child's start (`started`), behind the first turn of the wait loop (`running`),
before reporting progress (`report`), before its last lock section (`finish`). The
checks hash the tool and the whole model and do not look at the token: a stop
meanwhile is followed by the start of a child (`StartChild`), which the first look at
the token ends (`FirstLook`). `ExistingEngineProcess` has the same call in detail.
Everything in the last lock section (the last
progress update, the load observation, whose refusal replaces the result by a
failure, finalization, publication, removal of the token) is one action,
`Finish`, as it is one critical section in `run_worker`. A progress update the
lifecycle refuses is ignored, as in the code. A confirmation is spent also by a
refused start.

*Results.* An output is how its child ended, what its report says against the
plan (`matching`, `mismatched`, `unreadable`) and which rows it has (of each
wanted shape none, one or two, and whether there are others). The text parsers are
abstracted to these readings; the loop over reports, where it breaks and what it
has already pushed is kept.

*Process.* The controlling thread's polls (token, overflow flag, clock, exit) are
steps of their own in the code's order. A system call that can fail may fail. A
terminated process is first `dying` (runs no further, still holds the pipes) and
then `gone`. A process holds both pipes until it is gone, so that a reader sees
the end of its pipe only when the whole tree is. Paths, hashes and identity guards
are one choice before the launch and one behind the end.

*Arguments.* An argument is a pair of kind and value, so that `parse::<u64>` can be
modelled. Positions count from zero as in the code. Prompts, sampler numbers and
issue texts are not told apart.

*Page.* A method runs to its first `await invoke` and from each answer to the next;
those are the steps, and every method writes to the same `ui`. An answer is
*served* (the runner decides what it says) and later *handled*, so that answers
overtake one another. A click is possible when the section of the stage shows its
control and `render` has not switched it off. A control that is off for want of
evidence can be clicked all the same, as `setBusy(false)` at the end of `render` turns
every button on again: `ConfirmHardware` and `SelectArtifact` therefore refuse
themselves, as the methods do, with a blocked or unavailable evaluation, with no path
chosen and without a scan. Which section shows a control is the
constant `Sections`: as in the shipped `index.html`, or (`TestedSections`) with the
one control visible behind the tool check that the class's tests use there.
`statusForReasons` looks for words in reason codes: refusals carry those words.

*Finder.* A content hash stands for the content. An object that the code freezes and
remembers in a `WeakMap` is `[content, brand, binding]`; a copy has lost its brand. The
caller's own objects (`input`, `preparation`) are mutable and may change between the
call and the answer of an awaited port. Schema checks (`validateContract`, exact keys)
are booleans of the object, or the set of parts with a missing or unknown key where the
order of refusals depends on it. Lengths are in units of 4096 tokens, sizes are small
integers under a scaled `MaxSafe`; the families, the lifetime of a handoff and the last
instant are constants.

Definitions with a comment that begins "Seeded fault" are plausible mistakes: each is put
in the place of the definition it stands beside to make sure that the property it
aims at would notice.

## 3. The runs

| Run | Configuration | Distinct states | Question |
|---|---|---|---|
| `lifecycle` | `MCExecutionLifecycle.cfg` | 655,712 | Do one and two executions keep log, record and evidence in agreement, compete correctly, and implement `OneRunExecution`? |
| `admission` | `MCResultAdmission.cfg` | 31,626 | What is admitted of every sequence of outputs, and does normalization accept it? |
| `admission_samples` | `MCResultAdmissionSamples.cfg` | violated | Do only accepted reports leave samples? |
| `service` | `MCExecutionService.cfg` | 37,087 | Do confirmations, starts, stops and two workers keep the registries together, implement `OneRunExecution`, and end with a record? |
| `process` | `MCExistingEngineProcess.cfg` | 52,452 | Does one call of the process boundary return, clean up and report the truth? |
| `protocol` | `MCExecutionProtocol.cfg` | 57,799 | Does the boundary accept what the resolvers accept, as confirmed, and does a child get the arguments it was started with? |
| `protocol_capture` | `MCExecutionProtocolCapture.cfg` | violated | Does a prepared fit-profile capture cross the boundary? |
| `ui` | `MCRunnerApplication.cfg` | 456,524 | Does the page, with clicks, a poll and late answers, show what the runner did? |
| `ui_partial` | `MCRunnerApplicationPartial.cfg` | violated | Does it show what a stopped run retained? |
| `ui_shipped` | `MCRunnerApplicationShipped.cfg` | violated | Does the shipped page offer the step behind the tool check? |
| `finder` | `MCFinder.cfg` | 101,471 | Do derivation, admission, assessment, selection, export and preview agree with one another? |
| `portfolio_order` | `MCFinderOrder.cfg` | violated | Does the selection depend on the order of the provider's list? |

The comments above the properties say what each means and which code it is about.

### Bounds, and why they are enough

- `lifecycle`: two executions suffice for exclusion, as `start` looks for any other
  active entry, and the store treats entries independently otherwise. Four plan
  shapes (both parts, quick check only, no build, empty), two phases a caller
  reports in (one before and one behind the quick check's own), two builds (the
  planned one and another), and logs of up to three events: every combination of
  start, progress, stop and terminal of that length. The updates are two good ones and
  seven that fall behind the first in one respect each (position, total, retained
  samples, retained checks, elapsed time) or are out of range, so that each part of
  `SnapshotsOnlyAdvance` has an update that would break it.
- `admission`: one warmup with two measured runs and two warmups with one, with
  zero and two checks; a run can end before, in and behind each phase, and behind
  an accepted prefix. Rows count up to two, one more than the code accepts.
- `service`: two confirmations and two runs of three plans: enough for a second
  start to arrive in every phase of the first run's end, for a confirmation of
  another plan, and for a plan that resolves to nothing.
- `process`: limit one byte, two written: one stream at its limit, one past it, or
  both. One descendant stands for any number: all that counts is whether somebody
  else holds the pipes or runs on.
- `protocol`: each field at its limits, one past them and missing, two fields at a
  time, around a good plan; every benchmark count up to one past each cap; every
  list of up to three checks, duplicates and an unknown one included. The limits
  are scaled down (six for 65,536 and so on); the conditions only compare them.
  Behind one of the plans, two arguments of three units over the five classes the
  quoting distinguishes (backslash, quote, space, NUL, letter), with a line limit
  that is hit exactly.
- `ui`: two clicks in flight beside the poll: a third could only repeat one of them,
  as a control is off while a setup step loads and Refresh and Stop are all that is
  offered in progress. Three snapshot numbers: one that is shown, one behind it and
  one that overtook it. The results are all that `ResultAdapter` makes of one warmup, two
  measured runs and one check, ended in every place.
- `finder`: each visit starts from a good configuration on a card or on a processor, and
  departs in one fact: of the candidate, receipt, hardware, record, policy, manifest,
  evidence, prior or question. The policies' reserves lie on both sides of the exact
  integers, which the run scales down to 100: the largest that is assessed as data and
  the next, on a processor and on a card, and one that is too large for the card's own
  pool. Some sixty receipts and twenty bundles are derived from: every way in which two
  contexts lie on a line, on one of fractions, or on none, a third context on the line
  and off it, and one departure of each part. A universe has up to three entries beside
  the assessed one, over two families shown; two searches suffice to combine results of
  different ones, one edit to change an input during a call. `reach` names how far a
  visit is followed, so that departures that are decided early are not multiplied by
  what comes later.

`CHECK_DEADLOCK FALSE` is set wherever a model can be finished: a run has ended, a
call has returned, the last authorization is spent. The configurations say which.

### Fairness

`service`: weak fairness of each worker's steps. The worker is an operating system
thread that waits for nothing but the mutex, which is only ever held for a short
section, and its child, which ends. Nothing is assumed of users: nobody need stop or
start. That the child ends is not an act of faith: `process` checks it
(`EveryCallReturns`) with weak fairness of the controlling thread and of the passing of
time only. The child may write for ever or never exit, the readers may stick, and
killing may take any time. The clock is needed: a child that is silent and never exits
is ended by the time limit alone.

`ui`: the poll's timer fires, the poll's calls are served and their answers are
handled (the runner's command handlers return, and the page's event loop runs),
and runs end, which is `EveryRunEnds` of the service. The answers to clicks may stay
out for ever, and nobody need click.

## 4. The proofs

Seven components have proofs, in modules of their own: the lifecycle store, the service
with its worker threads, the admission of results, the protocol's arguments, the process
boundary, the page and the finder. What the store and the service share, the operations on
one entry, and what the admission and the service share, the adapter, is in
`ExecutionLemmas`. Each theorem holds for every value of its module's constants,
so for any number of runs, plans, outputs, streams, clicks, entries and searches, where a
run of TLC has one instance.

### The store

`ExecutionLifecycleProofs` proves ten theorems about the lifecycle store, for every
set of plans, backends and builds and every bound:
`TypeCorrect`, `OneLiveRunHolds`, `AuthorizationSpentOnce`, `LogReplays`,
`CompletedIsEvidenced`, `TerminalAgrees`, `LoadsAreUnique` (invariants),
`TerminalIsForever`, `SnapshotsAdvance` (action properties), and
`ImplementsPromise` (`Spec => Promise!Spec`, the store implements
`OneRunExecution`). But for `LoadsAreUnique`, they state the properties of the
`lifecycle` run.

*Assumptions.* Only `LifecycleAssumption` of `ExecutionLifecycle`: a plan's parts
are runtimes or absent, the markers for "absent" are not values, the phases and
statuses callers use are ones the code has, the bounds are naturals. TLC evaluates
it in the `lifecycle` run.

*Argument.* The invariants are not inductive as they stand. "Completed has a matching
load", for instance, needs to know that a terminal record holds the loads of its entry;
"the authorization is spent once" needs to know that a queued entry has an empty log,
and that no event leads back to queued. The strengthening `IInv` says that identities
are counted without gaps, that two executions are never live together, and `EntryInv` of
each entry, which has four parts: its type, its log (`LogInv`), its receipts
(`ReceiptInv`) and its terminal record (`TerminalInv`), with the link between the state,
the spent authorization and the event codes. Because an operation touches one entry,
there is one lemma per operation on an entry (`StartedEntryInv`, `ProgressedEntryInv`,
`StopRequestedEntryInv`, `LoadedEntryInv`, ...), over `LogAppend` (what appending an
event does to a log) and `TransitionFields`. Each also says what the entry becomes in
the promise and that its snapshot does not go back, so that the action properties and
the refinement follow from the same lemmas, one step per action. These lemmas are in
`ExecutionLemmas`, with the plans and the results as parameters: the store takes them
with its own, the service with the results the adapter can make.

### The service

`ExecutionServiceProofs` proves every safety property of the `service` run, for every
set of plans, every output a child may write and any number of runs:
`OneWorkerHolds`, `RegistriesAlwaysAgree`, `StopsReachWorkers`, `RetainedCountsMatch`,
`LoadEvidenceAlwaysSurvives` (invariants), `NothingIsBegunBehindAStop`,
`ProgressIsAlwaysTaken` (action properties), `ServiceTypeCorrect`, and
`ServiceKeepsThePromise`: the service implements `OneRunExecution`, as the store does.

*Assumptions.* `ServiceAssumption`: a plan names the runtime of each part or has none,
counts its warmups, its measured runs (at least one) and its checks, and has checks
exactly when it has the part for them; outputs handed over as completed are completed;
the markers for "absent", "refused" and "not run" are not values. TLC evaluates it in
the `service` run.

*Argument.* What a worker may do next depends on its whole past. "The lifecycle takes
every report" needs to know that the snapshot is behind the worker: it shows no child
that has not completed, in no later phase than the loop the worker is in, and nothing
retained. "The registries agree" rests on a fact that is not about registries at all:
`finish` drops a record the lifecycle refuses, so that the lifecycle must never refuse
one. That is so because a completed result needs load evidence, a completed benchmark
has an accepted first report, and that report's load is recorded in the same lock
section, of a plan that is known to name its build since the run was startable. `IInv`
therefore says, besides `Registered` (the registries are over the same executions) and
`OneWorker`, of each run (`RunInv`):

- `StoredInv`: its entry is sound (`EntryInv`), was started, is startable, and its
  token is requested exactly when a stop is in the log;
- `AgreeInv`: the registries and the thread agree;
- `WorkerInv`: where the worker stands in its two loops (no more outputs than the plan
  has children, checks only behind a completed benchmark, a child left to run in front
  of one);
- `ProgressInv`, while the worker lives: the snapshot is behind it;
- a child was recorded as stopped only if the token was requested;
- `RetainedAgree`, `LoadKept` and `StopShown`, afterwards: the counts, the evidence and
  the status of the record.

TLC checked `IInv` on the instance of the `service` run before it was proved. A step
moves one run, so `RunMoves` reduces the invariant to that run for `StopInv`,
`EndedInv`, `PollInv`, `ChildInv` and `ReportInv`; `StartInv` and `FinishInv` add and end
one. `StoppedStatus` shows that a result is stopped only where a worker recorded a
stopped child.
`FinishEnds` is the step everything meets in: `FinishResult` (normalization takes what
the worker hands over, from `ExecutionLemmas`), `FinalEntry` (the last update of the
progress is admitted) and `LoadedEntryIs` (the load is recorded and matches) show that
`finish` always publishes. The refinement then has one step per action; a run is
authorized and begun in one.

### The results

`ResultAdmissionProofs` proves the four safety properties of the `admission` run, for
every plan and every sequence of outputs: `NormalizationAccepted`, `CompletedIsWhole`,
`LoadIsOfAcceptedReports` and, an action property, `PrefixSurvives`.

*Assumptions.* `AdmissionAssumption`: a plan counts its invocations, outputs have their
types, and the markers for "refused" and "not run" are not results or observations.

*Argument.* The invariant says only that a worker runs no more children than its plan
has. The content is in the lemmas of `ExecutionLemmas`: what is admitted is a prefix
of the outputs (`CleanIsPrefix`), a completed status means that all of them were
(`CompletedAdmission`), so that `BenchmarkIs` and `QuickIs` can say which samples and
scores an observation has, and the counts that `benchmark_result` and
`quick_check_result` ask for are those of intervals (`BenchmarkIsNormalized`,
`QuickIsNormalized`). A further output leaves the admitted prefix as it was
(`AppendKeepsClean`), hence the observations too. No recursion is needed: the adapter's
loops are modelled by the sets of indices they admit.

### The arguments

`ProcessArgumentsProofs` proves the four invariants of the `protocol` run: the two about
the resolver and the boundary, `ResolvedAlwaysCross` (`ResolvedPlansCross`) and
`ConfirmedRuntimeRuns` (`TheConfirmedRuntimeRuns`), for every plan and every limit, and
the two about the command line, `ArgumentsAlwaysArrive` (`ArgumentsArrive`) and
`LinesAlwaysFit` (`LinesFit`), for every program's path, every list of arguments of any
number and length, and every maximum. It also proves `NoCaptureRuns`: the capture that
the `protocol_capture` run finds refused is no exception, none is ever accepted.
`LinesComeBehind` carries the first two and `NoCaptureRuns` over to the specification of
the run, which goes on to write command lines.

*Assumptions.* `PlansAssumption`: a plan is of one of the three protocols, its numbers of
runs are naturals and its checks a list. `ExecutableAssumption`: the path of the program,
a file that was opened and hashed, has no quote and no NUL and does not end in a
backslash; the child takes the program's name off the line by other rules than its
arguments, under which a quote or a last backslash would move its border.
`MaxLineAssumption`: the maximum is a natural. TLC evaluates them in the two protocol
runs.

*Argument.* The invariant, which TLC checked on the instance of the run, says that the
list that crosses is that of the plan and resolved. The content is in the lemmas.
`IsBenchmarkArgv` and `IsQuickCheckArgv` say what stands at each of the 28 and 40
positions; that the boundary's description of the same positions agrees is
`BenchmarkIsAccepted` and `QuickCheckIsAccepted`, that runs are numbered as it recounts
them `BenchmarkRuns`. `BenchmarkFlags` and `QuickCheckFlags` show that the flag of a
runtime field stands in one place only, so that one value is behind it.

The invariant of the command line, `LineInv`, says that nothing is written behind a line
that was built. That the line is read as what it was built of is shown unit by unit.
`InStep` relates the two sides while an argument is quoted: the child has read what is
written of it, and what is not written yet is a run of backslashes, which
`QuoteKeepsInStep` shows to be halved by the child exactly where it was doubled.
`QuotedIsRead` adds the closing quote, `JoinedSpells` the space and the next argument,
`NameIsRead` the program's name in front (a path without quotes stands on the line as it
is, `Verbatim`). `JoinedIsPlain` says that a NUL on the line would be one of an argument,
which is refused. Both sides are loops, modelled by recursive functions; the finder's
section says how these are reasoned about.

### The process boundary

`ExistingEngineProcessProofs` proves, for any streams, limit and amount of output, the
two invariants of the `process` run: `NothingRunsOn` (`NothingRunsBehindTheCall`) and
`OutcomesAreEarned` (`OutcomeIsEarned`).

*Assumptions.* `ProcessAssumption`: there are finitely many streams and at least one, and
the limit is positive.

*Argument.* `IInv` has, besides the types, three parts. `TreeInv`: who runs is in the
job, nobody runs before the root is resumed, and nobody once the call goes to its end
(terminating the job is what makes that so). `StreamsInv`: a reader keeps what it read up
to the limit, the overflow flag says that somebody read more, and a reader has sent only
when nobody can write any more. `OutcomeInv`: what the outcome so far stands on. That
nothing a completed child wrote is lost needs all three: its readers have sent, so
everything written was read, and the flag, which is looked at again behind them, says
that it was kept.

### The page

`RunnerApplicationProofs` proves, for any number of clicks awaited at once, any
scans, plans, contexts and results and any length of a run:
`SetupStepsAreAlone` (the invariant `SetupStepsDoNotOverlap`), `ResultsStayShown`
(`AResultStaysShown`), `CompletedIsShown` (`CompletedRunsAreShown`) and
`ProgressIsMonotone` (the action property `SnapshotsNeverGoBack`), every safety
property of the `ui` run.

*Assumptions.* `RunnerAssumption` (every control stands in some sections, the poll is no
click, a plan has a check and a measured run) and `SectionsAssumption`: the controls of
a run are in the progress section, and no control of the setup is in a section shown
behind the start. That is how `index.html` lays them out. `CompletedIsShown` also needs
`ResultsAssumption`: a completed result is of the whole plan, which is what
`CompletedIsWhole` proves of the results the worker publishes. TLC evaluates them for
the shipped page and for the one the tests build, in all three runs of the page.

*Argument.* None of the four is inductive. A result that arrived stays because a
Refresh, which takes the page back to `progress`, will be told the end of the same
run and fetch the same result, although a Stop sent earlier may answer in between; so
one needs to know what every answer under way can still say. `IInv` has five parts:

- `TypeInv`;
- `SetupInv`: an invocation of the setup is the only one, the poll is off, the page
  shows itself busy and has no snapshot;
- `RunInv`: once a run is started (the poll is armed, a snapshot is there, or a call
  of the run is awaited) the page is in the stages of the run;
- `AnswersInv`: an answer is no later than the runner's snapshot, an answer that
  tells the end is the runner's present, and a refresh in its second invocation knows
  the end;
- `ResultInv`: a result that arrived is the runner's, was admitted, and goes with the
  runner's last snapshot; while the page is away from its stage, a refresh that
  delivers it again is awaited.

There are lemmas for what begins (`SetupBegins`, `RunBegins`), for a call that
goes on (`SetupContinues`, `RefreshContinues`), for a call that returns
(`SetupReturns`, `RunReturns`), for the answers of each method, for the
runner's own steps (`Serves`, `ExecutionGrows`), and one that joins the setup's
answers (`SetupStep`). `VerdictFacts` states what the page's check of a snapshot lets
through; the monotone progress follows from it and from `AnswersInv`.

That a completed run is shown needs more: that nothing on the way there is refused, and
that somebody is still waiting for it. On top of `IInv`, `PageInv` says that either no
run has begun (`Before`) or (`Begun`):

- `SeenInv`: the snapshots that are about, the runner's, the one shown and those of the
  answers under way, are of the plan that was shown, and two of one number are the same,
  so that the page's check refuses none of them;
- `HeardInv` and `WaitingInv`: until the page has the end, the poll is armed or awaited,
  or the answer of the start is;
- `StageInv`: the stages of a result and of a failure come only behind the end, and only
  that of the result when the run completed;
- `RemoteInv`: the result is of the plan of its run.

The counts the page then asks a completed result for are those of the plan, by
`ResultsAssumption`. TLC checked `PageInv` on the page instance of the runs before it was
proved (`PageIsSettled`).

### The finder

`FinderProofs` proves, for any facts a visit may start from, any number of searches, any
lists of entries and any questions, the six safety properties of the `finder` run:
`DerivedRecordsAreAdmittedAlways`, `AdmittedRecordsAreAssessedAlways`,
`NothingFitsIsKnownAlways`, `RepresentativesAreUndominatedAlways`,
`BundlesBindOneEvaluationAlways` and `PreparedPlansTraceBackAlways`, each of the property
of its name.

*Assumptions.* `VisitsAssumption` says of the facts of a visit what the types and the
shape checks in front of the calls leave: lists (the stored evidence, the contexts of a
collection, their attempts) are lists, a named record has an identity, a collection has
one and a hardware target. `ProvidersAssumption` says that the port names its entries,
and that candidates of one identity are one artifact. That last part is about data:
nothing in the code compares two candidates of the same identity, and were they
different, a handoff could bind another artifact than the one whose detail was shown.
`RecordReasonsAssumption`, `AttemptReasonsAssumption`, `PreviewReasonsAssumption` and
`HardwareReasonsAssumption` say that a reason is never the marker for "no reason",
`TimeAssumption` that instants are naturals, `FamiliesAssumption` that there is a
quality for each family. TLC evaluates them in the `finder` run.

*Argument.* A visit goes through six stages, each with an invariant over what the stages
before it left.

- `DerivingInv`: a proposal is what is derived from the visit's collection, once, and the
  profile of such a visit is the admission's answer to it. TLC checked it on the instance
  of the `finder` run first. The content is `DerivedRecordIsAdmitted`, see below.
- `AssessingInv`: what is admitted was checked against the facts of this visit
  (`SoundProfile`, `SoundPolicy`), and says of the candidate's context length what an
  observation submitted with it says (`ObservedProfile`). The content is that
  `assessFitEvidence`, which checks profile and policy again by rules of its own,
  refuses neither (`IdentitySpares`, ..., `EvidenceSpares`, one lemma per part), with
  two exceptions that the property names. A candidate of the processor beside a card is
  a run path mismatch. And the arithmetic may leave the exact integers, for a policy may
  keep any safe integer free: `AssessmentSpares` shows that this is said only when bytes
  that were observed at the candidate's context exceed them with reserve and margin
  (`ObservedProfileThrowsBeyond`, over `FitThrows` and `FitReturns`, which follow the
  exact arithmetic of both pools).
- `EvaluatedInv`: an evaluation that was returned shows what is chosen from that very
  universe for its request (`FoundFor`), whatever the caller did to its policy during the
  call, and the entries are a list in which an id names one artifact (`Listed`).
- `RequestsInv`: every request on its way, and of every evaluation, asks for the context
  length of the visit's question.
- `ExportInv`: an intact session, detail or handoff, and an exported bundle, is of one
  evaluation and one entry of it (`SessionInv`, `DetailInv`, `HandoffInv`, `BundleInv`).
- `PreparingInv`: what was imported is the exported bundle, what was selected a finding
  of the scan, the planner was asked about both, and the plan is bound to what it was
  asked.

An item is told by its id and a detail is looked up by it, so that the middle of the chain
needs `FirstEntryIsTheOneShown`: with one artifact for each id, the entry the detail is
taken from is one that was shown.

`NothingFitsIsKnown` is about the reasons (`ReasonsNameWhatFails`): each thing that is left
open about an entry has a reason of its own, and none of these reasons is one that lets
the portfolio say that nothing fits. `RepresentativesHold` is the central lemma of the
portfolio: no entry of the family that could be shown dominates the one that is. It
needs that domination among the entries cannot go round (`SomeIsUndominated`, as one that
dominates has more supported channels), that the first layer of evidence therefore holds
entries, undominated ones (`LayersHold`), and that sorting a layer
returns entries of this layer (`SortingPicksPlaces`, over `RunIsOfPlaces` and
`InsertionHolds`). The comparison is no order, so that nothing can be
said about the order of the result, and nothing need be.

A derived record is admitted because the derivation has already asked everything the
admission will (`DerivedRecordIsValid`, `DerivedRecordMatches`). The contexts by their
lengths are a list of all of them, each once, the longest last (`ByLengthSorts`, by
counting in `RanksAreNumbers` and `PlacesAreMembers`), so that the record has one
observation for each length and its longest is its limit. The two pools reproduce each
reading (`DerivedPoolReproduces`): the products and quotients of the fit are the very ones
the derivation has compared with the reading, and on a machine that lends all its memory
without a margin nothing is added to them. What is left of the property's exceptions is
needed: the collection does not compare the builds of receipt and candidate, and pools
without a model, or whose sum is no exact integer, are derived but not admitted.

The loops of these modules are recursive functions, and the library's induction theorems
take an operator as their parameter, which the provers cannot instantiate. `LeastOf`
(a set of naturals has a least element) and, from it, `Inductive` (a set that holds 0
and with each number the next holds all) state induction for *sets*, which they can.
`Iterated` gives from it that a step repeated over members of a set has results in it
(`IsIteration`), which is what a recursive function over `0..n` needs to have the values
its definition says.

### What is only model-checked

- The liveness properties (`EveryRunEnds`, `EveryCallReturns` and those of the page):
  fairness and ENABLED are beyond the prover.
- That the algorithms agree with a reference definition wherever a run says so only
  for its instance, and the five runs that expect a violation.

## 5. What was found

- **A refused report leaves its samples** (`admission_samples`,
  `execution_result_adapter.rs:754`). A report that raised a shape issue (a
  duplicate, extra or multi-sample row) still has its prompt/generation pair pushed
  before the loop breaks: the run fails, no load is recorded from the report, but
  its samples are in the result and are counted as retained. The names of two tests
  say the opposite; both use output that is not JSON at all.
- **No fit-profile capture can run** (`protocol_capture`,
  `execution_process.rs:342`). The validator wants position 19 of the arguments to
  be `-fitp` and also to be `0` or `1`. Each prepared capture ends with
  `u27.capture.process-spec-invalid`, while its documentation says that exactly the
  sealed invocations are executed. The condition looks like a remnant of an
  earlier argument list.

- **A stopped run's observations are refused by the page** (`ui_partial`,
  `runner-application.ts:1411`). `#assertResult` asks every result for all samples of
  the plan and for completed series, so each result that ended during the measured
  runs is refused as invalid. The page's own messages say that admitted partial
  observations remain visible.
- **The shipped page hides the next step** (`ui_shipped`,
  `runner-application.ts:584`). Checking the two programs moves the stage to `plan`,
  and the control that prepares the check stands in the section of the stage before.
  The class's tests call the methods directly and see no sections.
- **The selection depends on the list's order** (`portfolio_order`,
  `portfolio/index.ts:588`). The comparison of overlapping rate ranges is no order; of
  three configurations whose ranges overlap in a chain, the sorted order depends
  on the order in which they were listed. A test asserts the opposite, with ranges that do
  not chain.

Observed while modelling, and stated by no property: the evidence adapter never sets a
task family, so that the portfolio's quality priority and its contradictory-task
check decide nothing for adapted evidence; the poll ends for good behind one
refused refresh; a second execution started on the same page is refused, as its snapshots
are of another run; inside a bundle's envelope the status is not covered by the
content hash; a bundle inspected before it expired can still be imported behind
that; a selection outlives a new scan of the stores; a record derived from a
synthetic collection differs from a measured one only through the manifest's
reviewer, as admission does not read the classification.

## 6. What is not modelled, and why

- Worker panics and a poisoned mutex: a panicking worker would leave its execution
  active. The models' workers do not panic.
- Crashes and restarts of the runner: the store is process-local and nothing is
  persisted, so a restart begins at `Init`; the kill-on-close job is what ends
  the children (`NothingRunsBehindTheCall` has closing the job as a kill).
- The text parsers, the fixed-answer scorer, hashes and canonical JSON: modelled by
  what they decide.
- Elapsed time in the service: only its order matters, and the store's model has it.
- Overflow of the counters: `checked_add` refuses for `next_id` and
  `next_confirmation`, the 64-bit event sequence is out of a run's reach; the models
  stop at their bounds.
- The preview assembler, hardware confirmation, tool probe and model store (Rust):
  `RunnerApplication` takes their answers as choices, with every refusal. Their own
  rules (handles, invalidation, nonces) are next in the plan.
- `llmfit`, the earlier recommendation engine, priors' interpolation, accelerator
  lookup, registry and ingestion, candidate building: batch or pure code over
  catalogue data; the finder's visits start behind it.
- The schema validator and the canonical JSON: booleans and contents.
- Battles rating (floating point, behind a disabled flag), the localhost quick test,
  the legacy commands, rendering and serving: see the component list.
- In the finder: clocks that go back, more than one edit during a call, and a
  provider that changes between the searches of a visit other than by choosing
  another of its answers.

## 7. The plan

Order: what can hurt a user's machine or a published measurement first. Done are
steps 1 to 8 and the proofs of step 11.

1. Store: `ExecutionEntry`, `ExecutionLifecycle`, its promise and proofs.
2. Results: `ResultAdapter`, `ResultAdmission`.
3. Service: `ExecutionService` over both, refinement and liveness.
4. Process boundary: `ExistingEngineProcess`, `WindowsCommandLine`.
5. Protocol: `ExecutionProtocol`, `ProcessArguments`, `ChildArguments`.
6. Page: `RunnerApplication`.
7. Finder: `MemoryFit`, `ProfileAdmission`, `FitAssessment`, `EvidenceAdapters`,
   `PortfolioSelection`, `TaskContext`, `FinderOrchestration`, `RunnerPreparation`,
   `Finder`.
8. Collection: `ProfileCollection`.
9. `PreviewAssembler` with the transport: handles, invalidation of dependent state,
   one-use prepared objects, confirmation nonces, two windows issuing commands.
   Abstract specification: a prepared plan holds only current inputs, and each is
   executed at most once.
10. `VerificationPlanning`: prepare, aggregate, stability, calibration exclusions,
    against a reference definition over bounded samples.
11. Proofs, of which the store, the service, the results, the arguments, the process
    boundary, the page, the finder and the command line are done. Each safety property of a
    passing run has its theorem; further components bring their own.
