------------------------ MODULE ExecutionServiceProofs ------------------------
(***************************************************************************)
(* The properties of the service, for every set of plans, every output a   *)
(* child may write and any number of runs.  What holds of one run (RunInv) *)
(* relates its entry in the lifecycle, its worker, its token and its       *)
(* published record; a step changes one run only, so that the proof has    *)
(* one lemma per action on a run, over the lemmas on entries and on the    *)
(* adapter.                                                                *)
(***************************************************************************)
EXTENDS ExecutionService, ExecutionLemmas

(* The places of a worker in front of an output.                           *)
InFront == {"poll", "checking", "started", "running"}

Places == InFront \cup {"report", "finish", "gone"}

Worker == [at : Places, outputs : Seq(BenchmarkOutput), checks : Seq(QuickOutput)]

(* The registries are over the same executions.                            *)
Registered ==
    /\ nextId \in 0..MaxId
    /\ entries = [id \in 1..nextId |-> entries[id]]
    /\ workers = [id \in 1..nextId |-> workers[id]]
    /\ requested \in [1..nextId -> BOOLEAN]
    /\ cancellations \in SUBSET (1..nextId)
    /\ DOMAIN terminals \subseteq 1..nextId
    /\ confirmed \in Seq(Plans) /\ pending \in SUBSET (1..Len(confirmed))

(* The entry of a started run, and what its token knows of a stop.         *)
StoredInv(e, asked) ==
    /\ EntryInv(Plans, Results, e)
    /\ Startable(e.plan)
    /\ "started" \in Codes(e)
    /\ e.state # "queued"
    /\ asked <=> "stop-requested" \in Codes(e)
    /\ e.state = "stop-requested" => asked

(* RegistriesAgree of one run.                                             *)
AgreeInv(id) ==
    /\ Active(entries[id]) <=> Alive(id)
    /\ id \in cancellations <=> Alive(id)
    /\ id \in DOMAIN terminals <=> ~Alive(id)
    /\ id \in DOMAIN terminals => terminals[id] = entries[id].terminal

BenchmarkDone(w, plan) == BenchmarkObservation(w.outputs, plan).status = "completed"

(* Where a worker stands in its two loops: it has no more outputs than the *)
(* plan has children, checks are run behind a completed benchmark only,    *)
(* and in front of a child there is one left to run.                       *)
WorkerInv(w, plan) ==
    /\ w \in Worker
    /\ Len(w.outputs) <= Planned(plan)
    /\ Len(w.checks) <= plan.checks
    /\ w.checks # <<>> => BenchmarkDone(w, plan)
    /\ w.at \in InFront =>
          \/ Len(w.outputs) < Planned(plan)
          \/ BenchmarkDone(w, plan) /\ Len(w.checks) < plan.checks
    /\ w.at = "report" => w.outputs # <<>>

(* While the worker lives, the snapshot shows none of its outputs that it  *)
(* does not have, and nothing retained: a report of any later output is a  *)
(* step forward.                                                           *)
ProgressInv(e, w) ==
    /\ e.series = 0 /\ e.checks = 0 /\ e.elapsed = 0 /\ e.loads = {}
    /\ e.phase \in {IntegrityRecheck, BenchmarkWarmup, BenchmarkMeasured, QuickCheck}
    /\ e.phase = BenchmarkWarmup =>
          e.total = e.plan.warmups /\ e.current <= Len(w.outputs)
    /\ e.phase = BenchmarkMeasured =>
          /\ e.total = e.plan.measured
          /\ e.plan.warmups < Len(w.outputs)
          /\ e.current <= Len(w.outputs) - e.plan.warmups
    /\ e.phase = QuickCheck =>
          e.total = e.plan.checks /\ e.current <= Len(w.checks) /\ w.checks # <<>>

(* RetainedCountsMatchTheResult and LoadEvidenceSurvives of one run.       *)
RetainedAgree(e, result) ==
    /\ e.series = IF result.warmups \cup result.measured = {} THEN 0 ELSE 2
    /\ e.series > 0 => e.checks = Cardinality(result.passed \cup result.failed)

LoadKept(e, w) ==
    1 \in AcceptedReports(w.outputs) => MatchingLoad(e, "benchmark")

(* StopReachesTheWorker of a run that has ended.                           *)
StopShown(result, w) == result.status = "stopped" => WasStopped(w)

RunInv(id) ==
    /\ StoredInv(entries[id], requested[id])
    /\ AgreeInv(id)
    /\ WorkerInv(workers[id], entries[id].plan)
    /\ WasStopped(workers[id]) => requested[id]
    /\ Alive(id) => ProgressInv(entries[id], workers[id])
    /\ ~Alive(id) => /\ RetainedAgree(entries[id], entries[id].terminal.result)
                     /\ LoadKept(entries[id], workers[id])
                     /\ StopShown(entries[id].terminal.result, workers[id])

IInv ==
    /\ Registered
    /\ \A id \in 1..nextId : RunInv(id)
    /\ OneWorker

-----------------------------------------------------------------------------
(* The sets of the service are as the lemmas on entries and on the adapter *)
(* need them.                                                              *)
LEMMA ServiceSets ==
    /\ WellPlanned(Plans)
    /\ NoRecord \notin TerminalRecord(Results)
    /\ \A plan \in Plans : /\ Counted(plan) /\ plan.id \in {p.id : p \in Plans}
                           /\ Planned(plan) \in Nat \ {0}
  <1>1. WellPlanned(Plans) /\ NoRecord \notin TerminalRecord(Results)
    BY ServiceAssumption DEF WellPlanned
  <1>2. ASSUME NEW plan \in Plans
        PROVE  /\ Counted(plan) /\ plan.id \in {p.id : p \in Plans}
               /\ Planned(plan) \in Nat \ {0}
    <2>1. plan.warmups \in Nat /\ plan.measured \in Nat \ {0} /\ plan.checks \in Nat
      BY ServiceAssumption
    <2>2. QED
      BY <2>1 DEF Counted, Planned
  <1>3. QED
    BY <1>1, <1>2

(* Which loop a worker is in, in front of a child or behind one.           *)
LEMMA LoopOf ==
    ASSUME NEW plan \in Plans, NEW w, WorkerInv(w, plan)
    PROVE  /\ Len(w.outputs) \in Nat /\ Len(w.checks) \in Nat
           /\ w.outputs # <<>> <=> Len(w.outputs) > 0
           /\ w.checks # <<>> <=> Len(w.checks) > 0
           /\ Planned(plan) \in Nat \ {0}
           /\ plan.warmups \in Nat /\ plan.measured \in Nat \ {0} /\ plan.checks \in Nat
           /\ BenchmarkDone(w, plan) => InChecks(w, plan)
           /\ w.at \in InFront =>
                 \/ InChecks(w, plan) /\ BenchmarkDone(w, plan) /\ Len(w.checks) < plan.checks
                 \/ ~InChecks(w, plan) /\ Len(w.outputs) < Planned(plan) /\ w.checks = <<>>
  <1>1. /\ w.outputs \in Seq(BenchmarkOutput) /\ w.checks \in Seq(QuickOutput)
        /\ Len(w.outputs) <= Planned(plan) /\ Len(w.checks) <= plan.checks
        /\ w.checks # <<>> => BenchmarkDone(w, plan)
        /\ w.at \in InFront =>
              \/ Len(w.outputs) < Planned(plan)
              \/ BenchmarkDone(w, plan) /\ Len(w.checks) < plan.checks
    BY DEF WorkerInv, Worker
  <1>2. /\ Counted(plan) /\ Planned(plan) \in Nat \ {0}
        /\ plan.warmups \in Nat /\ plan.measured \in Nat \ {0} /\ plan.checks \in Nat
    BY ServiceSets DEF Counted
  <1>3. /\ Len(w.outputs) \in Nat /\ Len(w.checks) \in Nat
        /\ w.outputs # <<>> <=> Len(w.outputs) > 0
        /\ w.checks # <<>> <=> Len(w.checks) > 0
    BY <1>1, EmptySeq
  <1>4. BenchmarkDone(w, plan) => Len(w.outputs) = Planned(plan) /\ InChecks(w, plan)
    <2> SUFFICES ASSUME BenchmarkDone(w, plan)
                 PROVE  Len(w.outputs) = Planned(plan) /\ InChecks(w, plan)
      OBVIOUS
    <2>1. /\ Len(w.outputs) = Planned(plan)
          /\ \A k \in DOMAIN w.outputs : w.outputs[k].ended = "completed"
      BY <1>1, <1>2, BenchmarkIs DEF BenchmarkDone
    <2>2. Planned(plan) \in DOMAIN w.outputs
      BY <1>1, <1>2, <2>1
    <2>3. QED
      BY <2>1, <2>2 DEF InChecks
  <1>5. Len(w.outputs) < Planned(plan) => ~InChecks(w, plan) /\ w.checks = <<>>
    <2>1. Len(w.outputs) < Planned(plan) => ~InChecks(w, plan)
      BY <1>2, <1>3 DEF InChecks
    <2>2. QED
      BY <1>1, <1>4, <2>1
  <1>6. QED
    BY <1>1, <1>2, <1>3, <1>4, <1>5

(* An output that joins the loop the worker is in: its place is to report  *)
(* it or to finish, and the snapshot is still behind it.                   *)
LEMMA OutputJoins ==
    ASSUME NEW plan \in Plans, NEW w, WorkerInv(w, plan), w.at \in InFront,
           NEW output,
           InChecks(w, plan) => output \in QuickOutput,
           ~InChecks(w, plan) => output \in BenchmarkOutput,
           NEW e, e.plan = plan, e.current \in Nat, ProgressInv(e, w)
    PROVE  LET v == WithOutput(w, plan, output)
           IN  /\ WorkerInv(v, plan)
               /\ v.at \in {"report", "finish"}
               /\ ProgressInv(e, v)
               /\ WasStopped(v) => WasStopped(w) \/ output.ended = "stopped"
  <1> DEFINE v == WithOutput(w, plan, output)
  <1>1. /\ w \in Worker /\ After(output) \in {"report", "finish"}
        /\ After(output) \in Places
        /\ w.outputs \in Seq(BenchmarkOutput) /\ w.checks \in Seq(QuickOutput)
    BY DEF WorkerInv, Worker, After, Places
  <1>2. /\ Len(w.outputs) \in Nat /\ Len(w.checks) \in Nat
        /\ w.outputs # <<>> <=> Len(w.outputs) > 0
        /\ w.checks # <<>> <=> Len(w.checks) > 0
        /\ Planned(plan) \in Nat \ {0} /\ plan.checks \in Nat
        /\ plan.warmups \in Nat /\ plan.measured \in Nat \ {0}
    BY LoopOf
  <1>3. CASE InChecks(w, plan)
    <2>1. BenchmarkDone(w, plan) /\ Len(w.checks) < plan.checks
      BY <1>3, LoopOf
    <2>2. v = [w EXCEPT !.checks = Append(@, output), !.at = After(output)]
      BY <1>3 DEF WithOutput
    <2>3. /\ Append(w.checks, output) \in Seq(QuickOutput)
          /\ Append(w.checks, output) # <<>>
          /\ Len(Append(w.checks, output)) = Len(w.checks) + 1
      BY <1>1, <1>3, AppendProperties
    <2> HIDE DEF v
    <2>4. /\ v \in Worker /\ v.outputs = w.outputs /\ v.checks = Append(w.checks, output)
          /\ v.at = After(output)
      BY <1>1, <2>2, <2>3 DEF Worker
    <2>5. Len(w.outputs) = Planned(plan)
      BY <1>3 DEF InChecks
    <2>6. WorkerInv(v, plan)
      BY <1>1, <1>2, <2>1, <2>3, <2>4, <2>5 DEF WorkerInv, BenchmarkDone, InFront
    <2>7. ProgressInv(e, v)
      BY <1>2, <2>3, <2>4 DEF ProgressInv
    <2>8. WasStopped(v) => WasStopped(w) \/ output.ended = "stopped"
      <3>1. \A k \in DOMAIN v.checks :
               v.checks[k] = output \/ (k \in DOMAIN w.checks /\ v.checks[k] = w.checks[k])
        BY <1>1, <1>3, <2>4, AppendProperties
      <3>2. QED
        BY <2>4, <3>1 DEF WasStopped
    <2>9. QED
      BY <1>1, <2>4, <2>6, <2>7, <2>8 DEF v
  <1>4. CASE ~InChecks(w, plan)
    <2>1. Len(w.outputs) < Planned(plan) /\ w.checks = <<>>
      BY <1>4, LoopOf
    <2>2. v = [w EXCEPT !.outputs = Append(@, output), !.at = After(output)]
      BY <1>4 DEF WithOutput
    <2>3. /\ Append(w.outputs, output) \in Seq(BenchmarkOutput)
          /\ Append(w.outputs, output) # <<>>
          /\ Len(Append(w.outputs, output)) = Len(w.outputs) + 1
      BY <1>1, <1>4, AppendProperties
    <2> HIDE DEF v
    <2>4. /\ v \in Worker /\ v.outputs = Append(w.outputs, output) /\ v.checks = w.checks
          /\ v.at = After(output)
      BY <1>1, <2>2, <2>3 DEF Worker
    <2>5. WorkerInv(v, plan)
      <3>1. /\ Len(v.outputs) <= Planned(plan) /\ Len(v.checks) <= plan.checks
            /\ v.checks = <<>> /\ v.outputs # <<>> /\ v.at \notin InFront
        BY <1>1, <1>2, <2>1, <2>3, <2>4 DEF WorkerInv, InFront
      <3>2. QED
        BY <2>4, <3>1 DEF WorkerInv
    <2>6. ProgressInv(e, v)
      BY <1>2, <2>3, <2>4 DEF ProgressInv
    <2>7. WasStopped(v) => WasStopped(w) \/ output.ended = "stopped"
      <3>1. \A k \in DOMAIN v.outputs :
               v.outputs[k] = output \/ (k \in DOMAIN w.outputs /\ v.outputs[k] = w.outputs[k])
        BY <1>1, <1>4, <2>4, AppendProperties
      <3>2. QED
        BY <2>4, <3>1 DEF WasStopped
    <2>8. QED
      BY <1>1, <2>4, <2>5, <2>6, <2>7 DEF v
  <1>5. QED
    BY <1>3, <1>4

(* The lifecycle takes the report of every completed child.                *)
LEMMA ReportIsAdmitted ==
    ASSUME NEW plan \in Plans, NEW e, EntryInv(Plans, Results, e), e.plan = plan, Active(e),
           NEW w, WorkerInv(w, plan), w.at = "report", ProgressInv(e, w)
    PROVE  LET u == ProgressOf(w, plan)
           IN  u \in Progress /\ MayProgress(e, u) /\ ProgressInv(ProgressedEntry(e, u), w)
  <1> DEFINE u == ProgressOf(w, plan)
             n == Len(w.outputs)
             c == Len(w.checks)
  <1>1. /\ n \in Nat /\ c \in Nat /\ n > 0
        /\ w.checks # <<>> <=> c > 0
        /\ Planned(plan) \in Nat \ {0} /\ plan.checks \in Nat
        /\ plan.warmups \in Nat /\ plan.measured \in Nat \ {0}
        /\ Planned(plan) = plan.warmups + plan.measured
        /\ n <= Planned(plan) /\ c <= plan.checks
    BY LoopOf DEF WorkerInv, Planned
  <1>2. /\ e.phase \in Phases /\ e.current \in Nat /\ e.total \in Nat
    BY DEF EntryInv, Entry
  <1>a. /\ IntegrityRecheck = 1 /\ BenchmarkWarmup = 3 /\ BenchmarkMeasured = 4
        /\ QuickCheck = 5 /\ Phases = 0..7
    BY DEF IntegrityRecheck, BenchmarkWarmup, BenchmarkMeasured, QuickCheck, Phases
  <1>3. /\ u = Update(u.phase, u.current, u.total, 0, 0)
        /\ u.phase \in Phases /\ u.current \in Nat /\ u.total \in Nat \ {0}
        /\ u.current <= u.total
        /\ u.phase >= e.phase
        /\ u.phase = e.phase => u.current >= e.current /\ u.total = e.total
        /\ u.phase \in {BenchmarkWarmup, BenchmarkMeasured, QuickCheck}
        /\ u.phase = BenchmarkWarmup => u.total = plan.warmups /\ u.current <= n
        /\ u.phase = BenchmarkMeasured =>
              /\ u.total = plan.measured /\ plan.warmups < n
              /\ u.current <= n - plan.warmups
        /\ u.phase = QuickCheck => u.total = plan.checks /\ u.current <= c /\ w.checks # <<>>
    <2>1. CASE w.checks # <<>>
      <3>1. u = Update(QuickCheck, c, plan.checks, 0, 0)
        BY <2>1 DEF ProgressOf
      <3>2. /\ u.phase = QuickCheck /\ u.current = c /\ u.total = plan.checks
            /\ u = Update(u.phase, u.current, u.total, 0, 0)
        BY <3>1 DEF Update
      <3> HIDE DEF u
      <3>3. QED
        <4>1. /\ u.phase >= e.phase
              /\ u.phase = e.phase => u.current >= e.current /\ u.total = e.total
          BY <1>1, <1>2, <1>a, <2>1, <3>2 DEF ProgressInv
        <4>2. QED
          BY <1>1, <1>a, <2>1, <3>2, <4>1
    <2>2. CASE w.checks = <<>> /\ n <= plan.warmups
      <3>1. u = Update(BenchmarkWarmup, n, plan.warmups, 0, 0)
        BY <2>2 DEF ProgressOf
      <3>2. /\ u.phase = BenchmarkWarmup /\ u.current = n /\ u.total = plan.warmups
            /\ u = Update(u.phase, u.current, u.total, 0, 0)
        BY <3>1 DEF Update
      <3> HIDE DEF u
      <3>3. QED
        <4>1. /\ u.phase >= e.phase
              /\ u.phase = e.phase => u.current >= e.current /\ u.total = e.total
          BY <1>1, <1>2, <1>a, <2>2, <3>2 DEF ProgressInv
        <4>2. QED
          BY <1>1, <1>a, <2>2, <3>2, <4>1
    <2>3. CASE w.checks = <<>> /\ ~(n <= plan.warmups)
      <3>1. u = Update(BenchmarkMeasured, n - plan.warmups, plan.measured, 0, 0)
        BY <2>3 DEF ProgressOf
      <3>2. /\ u.phase = BenchmarkMeasured
            /\ u.current = n - plan.warmups /\ u.total = plan.measured
            /\ u = Update(u.phase, u.current, u.total, 0, 0)
        BY <3>1 DEF Update
      <3> HIDE DEF u
      <3>3. QED
        <4>1. /\ u.phase >= e.phase
              /\ u.phase = e.phase => u.current >= e.current /\ u.total = e.total
          BY <1>1, <1>2, <1>a, <2>3, <3>2 DEF ProgressInv
        <4>2. QED
          BY <1>1, <1>a, <2>3, <3>2, <4>1
    <2>4. QED
      BY <2>1, <2>2, <2>3
  <1> HIDE DEF u
  <1>4. u.series = 0 /\ u.checks = 0 /\ u.elapsed = 0
    BY <1>3 DEF Update
  <1>5. u \in Progress
    BY <1>3, <1>4 DEF Progress, Update
  <1>6. e.series = 0 /\ e.checks = 0 /\ e.elapsed = 0 /\ e.loads = {}
    BY DEF ProgressInv
  <1>7. ~ProgressRegresses(e, u)
    BY <1>2, <1>3, <1>4, <1>6, <1>a DEF ProgressRegresses
  <1>8. MayProgress(e, u)
    BY <1>3, <1>7 DEF MayProgress, ProgressInRange
  <1>9. LET f == ProgressedEntry(e, u)
        IN  /\ f.phase = u.phase /\ f.current = u.current /\ f.total = u.total
            /\ f.series = u.series /\ f.checks = u.checks /\ f.elapsed = u.elapsed
            /\ f.plan = e.plan /\ f.loads = e.loads
    BY <1>5, <1>8, ProgressedEntryInv
  <1>10. ProgressInv(ProgressedEntry(e, u), w)
    BY <1>3, <1>4, <1>6, <1>9 DEF ProgressInv
  <1>11. QED
    BY <1>5, <1>8, <1>10 DEF u

-----------------------------------------------------------------------------
(* A step that moves one live run leaves the others and the registries as  *)
(* they were.                                                              *)
LEMMA RunMoves ==
    ASSUME IInv, NEW id \in 1..nextId, Alive(id), NEW f, NEW v, NEW asked \in BOOLEAN,
           entries' = [entries EXCEPT ![id] = f],
           workers' = [workers EXCEPT ![id] = v],
           requested' = [requested EXCEPT ![id] = asked],
           UNCHANGED <<nextId, confirmed, pending, cancellations, terminals>>,
           StoredInv(f, asked), Active(f),
           WorkerInv(v, f.plan), v.at # "gone", ProgressInv(f, v),
           WasStopped(v) => asked
    PROVE  IInv'
  <1>1. Registered /\ OneWorker /\ \A x \in 1..nextId : RunInv(x)
    BY DEF IInv
  <1>2. /\ DOMAIN entries = 1..nextId /\ DOMAIN workers = 1..nextId
        /\ DOMAIN requested = 1..nextId
    BY <1>1 DEF Registered
  <1>3. /\ entries' = [x \in 1..nextId |-> entries'[x]]
        /\ workers' = [x \in 1..nextId |-> workers'[x]]
        /\ entries'[id] = f /\ workers'[id] = v /\ requested'[id] = asked
        /\ \A x \in 1..nextId \ {id} :
              /\ entries'[x] = entries[x] /\ workers'[x] = workers[x]
              /\ requested'[x] = requested[x]
    BY <1>2
  <1>4. Registered'
    BY <1>1, <1>3 DEF Registered
  <1>5. \A x \in 1..nextId : Alive(x)' <=> Alive(x)
    BY <1>3 DEF Alive
  <1>6. OneWorker'
    <2>1. DOMAIN workers' = 1..nextId
      BY <1>3
    <2>2. QED
      BY <1>1, <1>2, <1>5, <2>1 DEF OneWorker
  <1>7. ASSUME NEW x \in 1..nextId PROVE RunInv(x)'
    <2>1. CASE x = id
      <3>1. AgreeInv(id)'
        BY <1>1, <1>3, <1>5 DEF RunInv, AgreeInv
      <3>2. QED
        BY <1>3, <1>5, <2>1, <3>1 DEF RunInv
    <2>2. CASE x # id
      <3>1. /\ entries'[x] = entries[x] /\ workers'[x] = workers[x]
            /\ requested'[x] = requested[x] /\ RunInv(x)
        BY <1>1, <1>3, <2>2
      <3>2. AgreeInv(x)'
        BY <1>5, <3>1 DEF RunInv, AgreeInv
      <3>3. QED
        BY <1>5, <3>1, <3>2 DEF RunInv
    <2>3. QED
      BY <2>1, <2>2
  <1>8. QED
    BY <1>4, <1>6, <1>7 DEF IInv

(* What the invariant says of one live run.                                *)
LEMMA LiveRun ==
    ASSUME IInv, NEW id \in 1..nextId
    PROVE  /\ DOMAIN entries = 1..nextId /\ DOMAIN workers = 1..nextId
           /\ entries = [entries EXCEPT ![id] = entries[id]]
           /\ workers = [workers EXCEPT ![id] = workers[id]]
           /\ requested = [requested EXCEPT ![id] = requested[id]]
           /\ requested[id] \in BOOLEAN
           /\ StoredInv(entries[id], requested[id])
           /\ EntryInv(Plans, Results, entries[id])
           /\ entries[id].plan \in Plans /\ entries[id].state \in States
           /\ WorkerInv(workers[id], entries[id].plan)
           /\ WasStopped(workers[id]) => requested[id]
           /\ Alive(id) => /\ Active(entries[id]) /\ ProgressInv(entries[id], workers[id])
                           /\ id \in cancellations /\ id \notin DOMAIN terminals
           /\ ~Alive(id) => /\ entries[id].state = "terminal" /\ id \notin cancellations
                            /\ id \in DOMAIN terminals
                            /\ terminals[id] = entries[id].terminal
  <1>1. Registered /\ RunInv(id)
    BY DEF IInv
  <1>2. /\ DOMAIN entries = 1..nextId /\ DOMAIN workers = 1..nextId
        /\ entries = [entries EXCEPT ![id] = entries[id]]
        /\ workers = [workers EXCEPT ![id] = workers[id]]
        /\ requested = [requested EXCEPT ![id] = requested[id]]
        /\ requested[id] \in BOOLEAN
    BY <1>1 DEF Registered
  <1>3. /\ StoredInv(entries[id], requested[id]) /\ EntryInv(Plans, Results, entries[id])
        /\ WorkerInv(workers[id], entries[id].plan)
        /\ WasStopped(workers[id]) => requested[id]
    BY <1>1 DEF RunInv, StoredInv
  <1>4. entries[id].plan \in Plans /\ entries[id].state \in States
    BY <1>3 DEF EntryInv, Entry
  <1>5. entries[id].state # "queued"
    BY <1>3 DEF StoredInv
  <1>6. ~Active(entries[id]) => entries[id].state = "terminal"
    BY <1>4, <1>5 DEF Active, ActiveStates, States
  <1>7. QED
    BY <1>1, <1>2, <1>3, <1>4, <1>6 DEF RunInv, AgreeInv

(* stop.                                                                   *)
LEMMA StopInv ==
    ASSUME IInv, NEW id \in 1..nextId, Stop(id)
    PROVE  IInv'
  <1> DEFINE e == entries[id]
             f == StopRequestedEntry(e)
  <1>1. /\ id \in cancellations /\ e.state # "terminal"
        /\ entries' = [entries EXCEPT ![id] = f]
        /\ requested' = [requested EXCEPT ![id] = TRUE]
        /\ UNCHANGED <<nextId, confirmed, pending, cancellations, terminals, workers>>
    BY DEF Stop
  <1>2. Alive(id)
    BY <1>1, LiveRun
  <1>3. /\ StoredInv(e, requested[id]) /\ EntryInv(Plans, Results, e) /\ Active(e)
        /\ WorkerInv(workers[id], e.plan) /\ ProgressInv(e, workers[id])
        /\ workers' = [workers EXCEPT ![id] = workers[id]]
    BY <1>1, <1>2, LiveRun
  <1>4. /\ EntryInv(Plans, Results, f)
        /\ e.state = "stop-requested" => f = e
        /\ e.state = "running" =>
              f.state = "stop-requested" /\ Codes(f) = Codes(e) \cup {"stop-requested"}
        /\ f.phase = e.phase /\ f.series = e.series /\ f.checks = e.checks
        /\ f.elapsed = e.elapsed /\ f.current = e.current /\ f.total = e.total
        /\ f.plan = e.plan /\ f.loads = e.loads
    BY <1>3, StopRequestedEntryInv
  <1>5. e.state \in {"running", "stop-requested"}
    BY <1>3 DEF Active, ActiveStates
  <1> HIDE DEF f
  <1>6. Active(f) /\ StoredInv(f, TRUE)
    <2>1. CASE e.state = "running"
      BY <1>3, <1>4, <2>1 DEF StoredInv, Active, ActiveStates
    <2>2. CASE e.state = "stop-requested"
      BY <1>3, <1>4, <2>2 DEF StoredInv, Active, ActiveStates
    <2>3. QED
      BY <1>5, <2>1, <2>2
  <1>7. ProgressInv(f, workers[id]) /\ WorkerInv(workers[id], f.plan)
    BY <1>3, <1>4 DEF ProgressInv
  <1>8. workers[id].at # "gone"
    BY <1>2 DEF Alive
  <1>9. QED
    BY <1>1, <1>2, <1>3, <1>6, <1>7, <1>8, RunMoves

(* What joins the worker's loop is an output of that loop.                 *)
LEMMA ChildOutputsFit ==
    ASSUME NEW id, NEW output \in ChildOutputs(id)
    PROVE  /\ InChecks(workers[id], entries[id].plan) => output \in QuickOutput
           /\ ~InChecks(workers[id], entries[id].plan) => output \in BenchmarkOutput
  <1>1. \A ended \in Terminations : /\ TerminalCheck(ended) \in QuickOutput
                                    /\ Terminal(ended) \in BenchmarkOutput
    BY DEF TerminalCheck, Terminal, QuickOutput, BenchmarkOutput, Readings, NoRows, Rows
  <1>2. QuickOutputs \subseteq QuickOutput /\ BenchmarkOutputs \subseteq BenchmarkOutput
    BY ServiceAssumption
  <1>3. QED
    BY <1>1, <1>2 DEF ChildOutputs, Ended

(* A worker moves behind an output.                                        *)
LEMMA OutputInv ==
    ASSUME IInv, NEW id \in 1..nextId, workers[id].at \in InFront, NEW output,
           output.ended = "stopped" => requested[id],
           InChecks(workers[id], entries[id].plan) => output \in QuickOutput,
           ~InChecks(workers[id], entries[id].plan) => output \in BenchmarkOutput,
           SetWorker(id, WithOutput(workers[id], entries[id].plan, output)), UNCHANGED entries
    PROVE  IInv'
  <1> DEFINE e == entries[id]
             v == WithOutput(workers[id], e.plan, output)
  <1>1. Alive(id)
    BY DEF Alive, InFront
  <1>2. /\ StoredInv(e, requested[id]) /\ EntryInv(Plans, Results, e) /\ Active(e)
        /\ WorkerInv(workers[id], e.plan) /\ ProgressInv(e, workers[id])
        /\ WasStopped(workers[id]) => requested[id]
        /\ e.plan \in Plans /\ requested[id] \in BOOLEAN
        /\ entries' = [entries EXCEPT ![id] = e]
        /\ requested' = [requested EXCEPT ![id] = requested[id]]
    BY <1>1, LiveRun DEF SetWorker
  <1>3. e.current \in Nat
    BY <1>2 DEF EntryInv, Entry
  <1>4. /\ WorkerInv(v, e.plan) /\ v.at # "gone" /\ ProgressInv(e, v)
        /\ WasStopped(v) => requested[id]
    BY <1>2, <1>3, OutputJoins
  <1>5. /\ workers' = [workers EXCEPT ![id] = v]
        /\ UNCHANGED <<nextId, confirmed, pending, cancellations, terminals>>
    BY DEF SetWorker
  <1> HIDE DEF v, e
  <1>6. QED
    BY <1>1, <1>2, <1>4, <1>5, RunMoves

(* An early end of either loop is an output of that loop.                  *)
LEMMA EndedFits ==
    ASSUME NEW w, NEW plan, NEW ended \in Terminations
    PROVE  /\ InChecks(w, plan) => Ended(w, plan, ended) \in QuickOutput
           /\ ~InChecks(w, plan) => Ended(w, plan, ended) \in BenchmarkOutput
           /\ Ended(w, plan, ended).ended = ended
  BY DEF Ended, TerminalCheck, Terminal, QuickOutput, BenchmarkOutput, Readings, NoRows, Rows

(* A worker moves behind an early end.                                     *)
LEMMA EndedInv ==
    ASSUME IInv, NEW id \in 1..nextId, workers[id].at \in InFront, UNCHANGED entries,
           NEW ended \in Terminations, ended = "stopped" => requested[id],
           SetWorker(id, WithOutput(workers[id], entries[id].plan,
                                    Ended(workers[id], entries[id].plan, ended)))
    PROVE  IInv'
  <1> DEFINE w == workers[id]
             plan == entries[id].plan
             output == Ended(w, plan, ended)
  <1>1. /\ InChecks(w, plan) => output \in QuickOutput
        /\ ~InChecks(w, plan) => output \in BenchmarkOutput
        /\ output.ended = ended
    BY EndedFits
  <1>2. SetWorker(id, WithOutput(w, plan, output))
    OBVIOUS
  <1> HIDE DEF output
  <1>3. QED
    BY <1>1, <1>2, OutputInv

(* A worker moves in front of an output.                                   *)
LEMMA MovesInFront ==
    ASSUME IInv, NEW id \in 1..nextId, workers[id].at \in InFront, UNCHANGED entries,
           NEW place \in InFront, SetWorker(id, [workers[id] EXCEPT !.at = place])
    PROVE  IInv'
  <1> DEFINE w == workers[id]
             plan == entries[id].plan
             v == [w EXCEPT !.at = place]
  <1>1. SetWorker(id, v)
    OBVIOUS
  <1>2. Alive(id)
    BY DEF Alive, InFront
  <1>3. /\ StoredInv(entries[id], requested[id]) /\ Active(entries[id])
        /\ WorkerInv(w, plan) /\ ProgressInv(entries[id], w) /\ requested[id] \in BOOLEAN
        /\ WasStopped(w) => requested[id]
        /\ entries' = [entries EXCEPT ![id] = entries[id]]
        /\ requested' = [requested EXCEPT ![id] = requested[id]]
    BY <1>1, <1>2, LiveRun DEF SetWorker
  <1>4. w \in Worker
    BY <1>3 DEF WorkerInv
  <1>5. v \in Worker /\ v.at = place /\ v.outputs = w.outputs /\ v.checks = w.checks
    BY <1>4 DEF Worker, Places
  <1>6. /\ workers' = [workers EXCEPT ![id] = v]
        /\ UNCHANGED <<nextId, confirmed, pending, cancellations, terminals>>
    BY <1>1 DEF SetWorker
  <1> HIDE DEF v
  <1>7. WorkerInv(v, plan) /\ v.at # "gone"
    BY <1>3, <1>5 DEF WorkerInv, BenchmarkDone, InFront
  <1>8. ProgressInv(entries[id], v)
    BY <1>3, <1>5 DEF ProgressInv
  <1>9. WasStopped(v) => requested[id]
    BY <1>3, <1>5 DEF WasStopped
  <1>10. QED
    BY <1>2, <1>3, <1>6, <1>7, <1>8, <1>9, RunMoves

(* The worker looks at its token.                                          *)
LEMMA PollInv ==
    ASSUME IInv, NEW id \in 1..nextId, Poll(id)
    PROVE  IInv'
  <1>1. workers[id].at \in InFront /\ UNCHANGED entries
    BY DEF Poll, InFront
  <1>2. CASE requested[id]
    <2>1. SetWorker(id, WithOutput(workers[id], entries[id].plan,
                                   Ended(workers[id], entries[id].plan, "stopped")))
      BY <1>2 DEF Poll
    <2>2. "stopped" \in Terminations
      BY DEF Terminations
    <2>3. QED
      BY <1>1, <1>2, <2>1, <2>2, EndedInv
  <1>3. CASE ~requested[id]
    <2>1. SetWorker(id, [workers[id] EXCEPT !.at = "checking"]) /\ "checking" \in InFront
      BY <1>3 DEF Poll, InFront
    <2>2. QED
      BY <1>1, <2>1, MovesInFront
  <1>4. QED
    BY <1>2, <1>3

(* A step of the process boundary.                                         *)
ChildStep(id) ==
    \/ StartChild(id) \/ ChildRefused(id) \/ FirstLook(id)
    \/ \E output \in ChildOutputs(id) : ChildEnds(id, output)

LEMMA ChildInv ==
    ASSUME IInv, NEW id \in 1..nextId, ChildStep(id)
    PROVE  IInv'
  <1>a. "stopped" \in Terminations /\ "failed" \in Terminations
    BY DEF Terminations
  <1>1. CASE StartChild(id)
    <2>1. /\ workers[id].at \in InFront /\ UNCHANGED entries /\ "started" \in InFront
          /\ SetWorker(id, [workers[id] EXCEPT !.at = "started"])
      BY <1>1 DEF StartChild, InFront
    <2>2. QED
      BY <2>1, MovesInFront
  <1>2. CASE ChildRefused(id)
    <2>1. /\ workers[id].at \in InFront /\ UNCHANGED entries
          /\ SetWorker(id, WithOutput(workers[id], entries[id].plan,
                                      Ended(workers[id], entries[id].plan, "failed")))
      BY <1>2 DEF ChildRefused, InFront
    <2>2. QED
      BY <1>a, <2>1, EndedInv
  <1>3. CASE FirstLook(id)
    <2>1. workers[id].at \in InFront /\ UNCHANGED entries
      BY <1>3 DEF FirstLook, InFront
    <2>2. CASE requested[id]
      <3>1. PICK ended \in {"stopped", "failed"} :
               SetWorker(id, WithOutput(workers[id], entries[id].plan,
                                        Ended(workers[id], entries[id].plan, ended)))
        BY <1>3, <2>2 DEF FirstLook
      <3>2. QED
        BY <1>a, <2>1, <2>2, <3>1, EndedInv
    <2>3. CASE ~requested[id]
      <3>1. SetWorker(id, [workers[id] EXCEPT !.at = "running"]) /\ "running" \in InFront
        BY <1>3, <2>3 DEF FirstLook, InFront
      <3>2. QED
        BY <2>1, <3>1, MovesInFront
    <2>4. QED
      BY <2>2, <2>3
  <1>4. ASSUME NEW output \in ChildOutputs(id), ChildEnds(id, output)
        PROVE  IInv'
    <2>1. /\ workers[id].at \in InFront /\ UNCHANGED entries
          /\ output.ended = "stopped" => requested[id]
          /\ SetWorker(id, WithOutput(workers[id], entries[id].plan, output))
      BY <1>4 DEF ChildEnds, InFront
    <2>2. QED
      BY <2>1, ChildOutputsFit, OutputInv
  <1>5. QED
    BY <1>1, <1>2, <1>3, <1>4 DEF ChildStep

(* The worker reports a completed child.                                   *)
LEMMA ReportInv ==
    ASSUME IInv, NEW id \in 1..nextId, Report(id)
    PROVE  /\ IInv'
           /\ entries'[id].sequence = entries[id].sequence + 1
           /\ entries'[id].state = entries[id].state
           /\ Codes(entries'[id]) = Codes(entries[id]) \cup {"progress"}
           /\ CompletionEvidenced(entries'[id]) <=> CompletionEvidenced(entries[id])
  <1> DEFINE w == workers[id]
             e == entries[id]
             u == ProgressOf(w, e.plan)
             f == ProgressedEntry(e, u)
             v == [w EXCEPT !.at = BehindReport(id)]
  <1>1. /\ w.at = "report"
        /\ entries' = [entries EXCEPT ![id] = Progressed(@, ProgressOf(w, @.plan))]
        /\ SetWorker(id, v)
    BY DEF Report
  <1>2. Alive(id)
    BY <1>1 DEF Alive
  <1>3. /\ StoredInv(e, requested[id]) /\ EntryInv(Plans, Results, e) /\ Active(e)
        /\ e.plan \in Plans /\ requested[id] \in BOOLEAN
        /\ WorkerInv(w, e.plan) /\ ProgressInv(e, w)
        /\ WasStopped(w) => requested[id]
        /\ DOMAIN entries = 1..nextId
        /\ requested' = [requested EXCEPT ![id] = requested[id]]
    BY <1>1, <1>2, LiveRun DEF SetWorker
  <1>4. u \in Progress /\ MayProgress(e, u) /\ ProgressInv(f, w)
    BY <1>1, <1>3, ReportIsAdmitted
  <1>5. entries' = [entries EXCEPT ![id] = f] /\ entries'[id] = f
    BY <1>1, <1>3, <1>4 DEF Progressed
  <1> HIDE DEF u
  <1>6. /\ EntryInv(Plans, Results, f)
        /\ f.state = e.state /\ f.sequence = e.sequence + 1
        /\ f.plan = e.plan
        /\ Codes(f) = Codes(e) \cup {"progress"}
        /\ CompletionEvidenced(f) <=> CompletionEvidenced(e)
    BY <1>3, <1>4, ProgressedEntryInv
  <1> HIDE DEF f
  <1>7. Active(f) /\ StoredInv(f, requested[id])
    BY <1>3, <1>6 DEF StoredInv, Active
  <1>8. /\ w \in Worker /\ w.outputs # <<>>
        /\ BehindReport(id) \in {"poll", "finish"}
        /\ BehindReport(id) \in InFront =>
              \/ Len(w.outputs) < Planned(e.plan)
              \/ BenchmarkDone(w, e.plan) /\ Len(w.checks) < e.plan.checks
    BY <1>1, <1>3 DEF BehindReport, WorkerInv, BenchmarkDone, Benchmark, InFront
  <1>9. v \in Worker /\ v.at = BehindReport(id) /\ v.outputs = w.outputs /\ v.checks = w.checks
    BY <1>8 DEF Worker, Places, InFront
  <1>10. /\ workers' = [workers EXCEPT ![id] = v]
         /\ UNCHANGED <<nextId, confirmed, pending, cancellations, terminals>>
    BY <1>1 DEF SetWorker
  <1> HIDE DEF v
  <1>11. WorkerInv(v, f.plan)
    BY <1>3, <1>6, <1>8, <1>9 DEF WorkerInv, BenchmarkDone
  <1>12. /\ ProgressInv(f, v) /\ v.at # "gone"
         /\ WasStopped(v) => requested[id]
    BY <1>3, <1>4, <1>8, <1>9 DEF ProgressInv, WasStopped
  <1>13. IInv'
    BY <1>2, <1>3, <1>5, <1>7, <1>10, <1>11, <1>12, RunMoves
  <1>14. QED
    BY <1>5, <1>6, <1>13

-----------------------------------------------------------------------------
(* An admission is stopped only by an output that was.                     *)
LEMMA StoppedAdmission ==
    ASSUME NEW outputs, NEW planned, NEW clean,
           AdmissionStatus(outputs, planned, clean) = "stopped"
    PROVE  \E k \in DOMAIN outputs : outputs[k].ended = "stopped"
  <1>1. clean = DOMAIN outputs /\ TerminalIn(outputs, clean) # {}
    BY StatusByCase
  <1>2. PICK k \in TerminalIn(outputs, clean) : outputs[k].ended = "stopped"
    BY <1>1, StatusByCase
  <1>3. k \in DOMAIN outputs
    BY <1>1 DEF TerminalIn
  <1>4. QED
    BY <1>2, <1>3

(* The run's status is stopped only if its worker was.                     *)
LEMMA StoppedStatus ==
    ASSUME NEW id, RunStatus(Benchmark(id), QuickOf(id, Benchmark(id))) = "stopped"
    PROVE  WasStopped(workers[id])
  <1> DEFINE w == workers[id]
             plan == entries[id].plan
             bench == Benchmark(id)
             quick == QuickOf(id, bench)
  <1>1. CASE quick = NoObservation
    <2>1. bench.status = "stopped"
      BY <1>1 DEF RunStatus
    <2>2. AdmissionStatus(w.outputs, Planned(plan), Clean(w.outputs, RefusedReports(w.outputs)))
            = "stopped"
      BY <2>1 DEF Benchmark, BenchmarkObservation
    <2>3. QED
      BY <2>2, StoppedAdmission DEF WasStopped
  <1>2. CASE quick # NoObservation
    <2>1. quick = QuickObservation(w.checks, plan)
      BY <1>2 DEF QuickOf
    <2>2. quick.status = "stopped"
      BY <1>2 DEF RunStatus
    <2>3. AdmissionStatus(w.checks, plan.checks, Clean(w.checks, RefusedChecks(w.checks)))
            = "stopped"
      BY <2>1, <2>2 DEF QuickObservation
    <2>4. QED
      BY <2>3, StoppedAdmission DEF WasStopped
  <1>3. QED
    BY <1>1, <1>2

(* What run_worker normalizes when its loops are over: never a refusal, a  *)
(* completed result of a completed benchmark only, whose load was observed.*)
LEMMA FinishResult ==
    ASSUME IInv, NEW id \in 1..nextId, workers[id].at = "finish"
    PROVE  LET plan == entries[id].plan
               bench == Benchmark(id)
               quick == QuickOf(id, bench)
               result == VerificationResult(plan, RunStatus(bench, quick), bench, quick)
           IN  /\ result \in Results /\ result # Refused
               /\ result.plan = plan.id /\ result.status \in Terminations
               /\ result.warmups = bench.warmups /\ result.measured = bench.measured
               /\ Cardinality(result.passed \cup result.failed) \in Nat
               /\ result.status = "completed" => bench.load
               /\ bench.load \in BOOLEAN
               /\ bench.load <=> 1 \in AcceptedReports(workers[id].outputs)
               /\ StopShown(result, workers[id])
  <1> DEFINE w == workers[id]
             plan == entries[id].plan
             bench == Benchmark(id)
             quick == QuickOf(id, bench)
             result == VerificationResult(plan, RunStatus(bench, quick), bench, quick)
             ids == {p.id : p \in Plans}
  <1>1. /\ plan \in Plans /\ w.outputs \in Seq(BenchmarkOutput) /\ w.checks \in Seq(QuickOutput)
        /\ Len(w.outputs) <= Planned(plan) /\ Len(w.checks) <= plan.checks
    BY LiveRun DEF WorkerInv, Worker
  <1>2. /\ Counted(plan) /\ plan.id \in ids /\ Planned(plan) \in Nat \ {0}
        /\ plan.checks \in Nat
    BY <1>1, ServiceSets DEF Counted
  <1>3. /\ bench = BenchmarkObservation(w.outputs, plan)
        /\ bench.load \in BOOLEAN
        /\ bench.load <=> 1 \in AcceptedReports(w.outputs)
        /\ bench.status = "completed" => AcceptedReports(w.outputs) = 1..Planned(plan)
    BY <1>1, <1>2, BenchmarkIs DEF Benchmark
  <1>4. QuickIsOf(plan, bench, quick)
    <2>1. CASE bench.status = "completed" /\ plan.checks > 0
      <3>1. quick = QuickObservation(w.checks, plan)
        BY <2>1 DEF QuickOf
      <3>2. QED
        BY <1>1, <2>1, <3>1 DEF QuickIsOf
    <2>2. CASE ~(bench.status = "completed" /\ plan.checks > 0)
      BY <2>2 DEF QuickOf, QuickIsOf
    <2>3. QED
      BY <2>1, <2>2
  <1>5. Refused \notin NormalizedResults(ids) /\ NoObservation \notin QuickObservations
    BY ServiceAssumption DEF Results
  <1>a. result # Refused => result.status = RunStatus(bench, quick)
    BY DEF VerificationResult
  <1>b. RunStatus(bench, quick) = "stopped" => WasStopped(w)
    BY StoppedStatus
  <1> HIDE DEF bench, quick, ids
  <1>6. /\ result \in NormalizedResults(ids) /\ result # Refused /\ result.plan = plan.id
        /\ result.warmups = bench.warmups /\ result.measured = bench.measured
        /\ result.passed \cup result.failed \in SUBSET (1..plan.checks)
        /\ result.status = "completed" => bench.status = "completed"
    BY <1>1, <1>2, <1>3, <1>4, <1>5, NormalizationAccepts
  <1> HIDE DEF result
  <1>7. result \in Results /\ result.status \in Terminations
    BY <1>6 DEF Results, NormalizedResults, ids
  <1>8. Cardinality(result.passed \cup result.failed) \in Nat
    <2>1. 1 \in Int /\ plan.checks \in Int
      BY <1>2
    <2>2. IsFiniteSet(1..plan.checks)
      BY <2>1, FS_Interval
    <2>3. IsFiniteSet(result.passed \cup result.failed)
      BY <1>6, <2>2, FS_Subset
    <2>4. QED
      BY <2>3, FS_CardinalityType
  <1>9. result.status = "completed" => bench.load
    <2>1. 1 \in 1..Planned(plan)
      BY <1>2
    <2>2. QED
      BY <1>3, <1>6, <2>1
  <1>10. StopShown(result, w)
    BY <1>6, <1>a, <1>b DEF StopShown
  <1>11. QED
    BY <1>3, <1>6, <1>7, <1>8, <1>9, <1>10 DEF result, quick, bench

(* What the last progress update makes of the entry: its counts are those  *)
(* of the result.                                                          *)
LEMMA FinalEntry ==
    ASSUME IInv, NEW id \in 1..nextId, workers[id].at = "finish",
           NEW bench, NEW result, result # Refused,
           result.warmups = bench.warmups, result.measured = bench.measured,
           Cardinality(result.passed \cup result.failed) \in Nat
    PROVE  LET e == FinalProgress(id, bench, result)
           IN  /\ StoredInv(e, requested[id]) /\ Active(e)
               /\ e.plan = entries[id].plan /\ e.loads = {}
               /\ RetainedAgree(e, result)
  <1> DEFINE d == entries[id]
             retained == Cardinality(result.passed \cup result.failed)
             u == Update(Finalizing, 1, 1, AdmittedSeries(bench), retained)
             e == FinalProgress(id, bench, result)
  <1>1. /\ StoredInv(d, requested[id]) /\ EntryInv(Plans, Results, d) /\ Active(d)
        /\ ProgressInv(d, workers[id])
    BY LiveRun DEF Alive
  <1>2. /\ d.series = 0 /\ d.checks = 0 /\ d.elapsed = 0 /\ d.loads = {}
        /\ d.phase \in {1, 3, 4, 5}
    BY <1>1 DEF ProgressInv, IntegrityRecheck, BenchmarkWarmup, BenchmarkMeasured, QuickCheck
  <1>3. AdmittedSeries(bench) = IF result.warmups \cup result.measured = {} THEN 0 ELSE 2
    BY DEF AdmittedSeries
  <1>4. CASE AdmittedSeries(bench) = 0
    <2>1. e = d
      BY <1>4 DEF FinalProgress
    <2>2. QED
      BY <1>1, <1>2, <1>3, <1>4, <2>1 DEF RetainedAgree
  <1>5. CASE AdmittedSeries(bench) = 2
    <2>1. /\ u = [phase |-> 6, current |-> 1, total |-> 1,
                  series |-> 2, checks |-> retained, elapsed |-> 0]
          /\ retained \in Nat
      BY <1>5 DEF Update, Finalizing
    <2> HIDE DEF retained
    <2>2. /\ u.phase = 6 /\ u.current = 1 /\ u.total = 1 /\ u.series = 2
          /\ u.checks = retained /\ u.elapsed = 0
      BY <2>1
    <2>3. u \in Progress
      BY <2>1 DEF Progress, Phases
    <2>4. e = Progressed(d, u)
      BY <1>5 DEF FinalProgress, retained
    <2> HIDE DEF u
    <2>5. MayProgress(d, u)
      <3>1. ProgressInRange(u)
        BY <2>2 DEF ProgressInRange
      <3>2. ~ProgressRegresses(d, u)
        BY <1>2, <2>1, <2>2 DEF ProgressRegresses
      <3>3. QED
        BY <1>1, <3>1, <3>2 DEF MayProgress
    <2>6. e = ProgressedEntry(d, u)
      BY <2>4, <2>5 DEF Progressed
    <2> HIDE DEF e
    <2>7. /\ EntryInv(Plans, Results, e) /\ e.state = d.state
          /\ e.series = 2 /\ e.checks = retained
          /\ e.plan = d.plan /\ e.loads = d.loads
          /\ Codes(e) = Codes(d) \cup {"progress"}
      BY <1>1, <2>2, <2>3, <2>5, <2>6, ProgressedEntryInv
    <2>8. StoredInv(e, requested[id]) /\ Active(e)
      BY <1>1, <2>7 DEF StoredInv, Active
    <2>9. RetainedAgree(e, result)
      BY <1>3, <1>5, <2>7 DEF RetainedAgree, retained
    <2>10. QED
      BY <1>2, <2>7, <2>8, <2>9 DEF e
  <1>6. QED
    BY <1>3, <1>4, <1>5

(* What the load observation makes of it, if there is one: a load of the   *)
(* planned runtime, which the plan of a started run always names.          *)
LEMMA LoadedEntryIs ==
    ASSUME NEW e, NEW asked, StoredInv(e, asked), Active(e), e.loads = {}
    PROVE  LET f == LoadedEntry(e, "benchmark", e.plan.part["benchmark"])
           IN  /\ MayRecordLoad(e, "benchmark")
               /\ StoredInv(f, asked) /\ f.state = e.state
               /\ f.plan = e.plan /\ f.series = e.series /\ f.checks = e.checks
               /\ MatchingLoad(f, "benchmark")
               /\ CompletionEvidenced(f)
  <1> DEFINE part == e.plan.part["benchmark"]
             f == LoadedEntry(e, "benchmark", part)
             r == [subplan |-> "benchmark", planned |-> part, observed |-> part]
  <1>1. /\ EntryInv(Plans, Results, e) /\ e.plan \in Plans
        /\ part # NoSubplan /\ part.build # NoBuild
    BY DEF StoredInv, EntryInv, Entry, Startable
  <1>2. MayRecordLoad(e, "benchmark")
    BY <1>1 DEF MayRecordLoad
  <1>3. /\ part \in Runtime /\ "benchmark" \in Subplans
    BY <1>1, ServiceAssumption DEF Subplans
  <1> HIDE DEF part
  <1>4. part \in ObservedRuntimes
    BY <1>1, <1>3 DEF Runtime, ObservedRuntimes
  <1>5. f.loads = {r} /\ r.subplan = "benchmark" /\ r.observed = part /\ r.planned = part
    <2>1. f.loads = e.loads \cup {[subplan |-> "benchmark", planned |-> e.plan.part["benchmark"],
                                   observed |-> part]}
      BY <1>1, <1>2, <1>3, <1>4, ServiceSets, LoadedEntryInv
    <2>2. QED
      BY <2>1 DEF part
  <1>6. /\ EntryInv(Plans, Results, f) /\ f.state = e.state /\ f.plan = e.plan
        /\ f.series = e.series /\ f.checks = e.checks /\ Codes(f) = Codes(e)
    BY <1>1, <1>2, <1>3, <1>4, ServiceSets, LoadedEntryInv
  <1> HIDE DEF f, r
  <1>7. StoredInv(f, asked)
    BY <1>6 DEF StoredInv
  <1>8. MatchingLoad(f, "benchmark")
    BY <1>5 DEF MatchingLoad
  <1>9. CompletionEvidenced(f)
    BY <1>1, <1>6, <1>8 DEF CompletionEvidenced, part
  <1>10. QED
    BY <1>2, <1>6, <1>7, <1>8, <1>9 DEF f, part

(* What a run is left with: a record of its result, and every registry     *)
(* without it.                                                             *)
Ends(id, f) ==
    /\ entries' = [entries EXCEPT ![id] = f]
    /\ terminals' = With(terminals, id, f.terminal)
    /\ cancellations' = cancellations \ {id}
    /\ workers' = [workers EXCEPT ![id].at = "gone"]
    /\ UNCHANGED <<nextId, confirmed, pending, requested>>
    /\ StoredInv(f, requested[id]) /\ f.state = "terminal"
    /\ RetainedAgree(f, f.terminal.result)
    /\ LoadKept(f, workers[id])
    /\ StopShown(f.terminal.result, workers[id])
    /\ f.plan = entries[id].plan
    /\ f.terminal.result.status \in DomainStatuses
    /\ f.terminal.result.status = "completed" => CompletionEvidenced(f)

(* The last lock of run_worker: the lifecycle takes the result.            *)
LEMMA FinishEnds ==
    ASSUME IInv, NEW id \in 1..nextId, Finish(id)
    PROVE  \E f : Ends(id, f)
  <1> DEFINE plan == entries[id].plan
             bench == Benchmark(id)
             quick == QuickOf(id, bench)
             result == VerificationResult(plan, RunStatus(bench, quick), bench, quick)
             e == FinalProgress(id, bench, result)
             loaded == LoadedEntry(e, "benchmark", e.plan.part["benchmark"])
             asked == requested[id]
  <1>1. workers[id].at = "finish"
    BY DEF Finish
  <1>2. /\ result \in Results /\ result # Refused
        /\ result.plan = plan.id /\ result.status \in Terminations
        /\ result.warmups = bench.warmups /\ result.measured = bench.measured
        /\ Cardinality(result.passed \cup result.failed) \in Nat
        /\ result.status = "completed" => bench.load
        /\ bench.load \in BOOLEAN
        /\ bench.load <=> 1 \in AcceptedReports(workers[id].outputs)
        /\ StopShown(result, workers[id])
    BY <1>1, FinishResult
  <1>3. /\ bench.load => IF MayRecordLoad(e, "benchmark") THEN Close(id, loaded, result)
                         ELSE Close(id, e, FailedResult(e.plan))
        /\ ~bench.load => Close(id, e, result)
    BY <1>2 DEF Finish, LoadObserved
  <1> HIDE DEF bench, quick, result
  <1>4. /\ StoredInv(e, asked) /\ Active(e) /\ e.plan = plan /\ e.loads = {}
        /\ RetainedAgree(e, result)
    BY <1>1, <1>2, FinalEntry
  <1> HIDE DEF e
  <1>5. /\ MayRecordLoad(e, "benchmark")
        /\ StoredInv(loaded, asked) /\ loaded.state = e.state /\ loaded.plan = e.plan
        /\ loaded.series = e.series /\ loaded.checks = e.checks
        /\ MatchingLoad(loaded, "benchmark") /\ CompletionEvidenced(loaded)
    BY <1>4, LoadedEntryIs
  <1> HIDE DEF loaded
  <1>6. ASSUME NEW c, Close(id, c, result), StoredInv(c, asked), Active(c), c.plan = plan,
               RetainedAgree(c, result), bench.load => MatchingLoad(c, "benchmark"),
               result.status = "completed" => CompletionEvidenced(c)
        PROVE  \E f : Ends(id, f)
    <2> DEFINE f == FinalizedEntry(c, result)
    <2>1. EntryInv(Plans, Results, c) /\ c.terminal = NoRecord /\ c.consumed
      BY <1>6 DEF StoredInv, EntryInv, TerminalInv, Active, ActiveStates
    <2>2. MayFinalize(c, result)
      BY <1>2, <1>6, <2>1 DEF MayFinalize
    <2>3. /\ EntryInv(Plans, Results, f) /\ f.state = "terminal"
          /\ f.series = c.series /\ f.checks = c.checks /\ f.plan = c.plan /\ f.loads = c.loads
          /\ f.terminal.result = result /\ Codes(f) = Codes(c) \cup {"terminal"}
          /\ CompletionEvidenced(f) <=> CompletionEvidenced(c)
      BY <1>2, <2>1, <2>2, ServiceSets, FinalizedEntryInv
    <2>4. /\ entries' = [entries EXCEPT ![id] = f]
          /\ terminals' = With(terminals, id, f.terminal)
          /\ cancellations' = cancellations \ {id}
          /\ workers' = [workers EXCEPT ![id].at = "gone"]
          /\ UNCHANGED <<nextId, confirmed, pending, requested>>
      BY <1>6, <2>2 DEF Close
    <2> HIDE DEF f
    <2>5. StoredInv(f, asked)
      BY <1>6, <2>3 DEF StoredInv
    <2>6. RetainedAgree(f, f.terminal.result)
      BY <1>6, <2>3 DEF RetainedAgree
    <2>7. LoadKept(f, workers[id])
      BY <1>2, <1>6, <2>3 DEF LoadKept, MatchingLoad
    <2>8. f.terminal.result.status \in DomainStatuses
      BY <1>2, <2>3 DEF Terminations, DomainStatuses
    <2>9. f.terminal.result.status = "completed" => CompletionEvidenced(f)
      BY <1>6, <2>3
    <2>10. StopShown(f.terminal.result, workers[id])
      BY <1>2, <2>3
    <2>11. Ends(id, f)
      BY <1>6, <2>3, <2>4, <2>5, <2>6, <2>7, <2>8, <2>9, <2>10 DEF Ends
    <2>12. QED
      BY <2>11
  <1>7. CASE bench.load
    <2>1. Close(id, loaded, result)
      BY <1>3, <1>5, <1>7
    <2>2. Active(loaded) /\ RetainedAgree(loaded, result)
      BY <1>4, <1>5 DEF Active, RetainedAgree
    <2>3. QED
      BY <1>4, <1>5, <1>6, <2>1, <2>2
  <1>8. CASE ~bench.load
    BY <1>2, <1>3, <1>4, <1>6, <1>8
  <1>9. QED
    BY <1>7, <1>8

LEMMA FinishInv ==
    ASSUME IInv, NEW id \in 1..nextId, Alive(id), NEW f, Ends(id, f)
    PROVE  IInv'
  <1> DEFINE w == workers[id]
             v == [w EXCEPT !.at = "gone"]
  <1>1. Registered /\ OneWorker /\ \A x \in 1..nextId : RunInv(x)
    BY DEF IInv
  <1>2. /\ DOMAIN entries = 1..nextId /\ DOMAIN workers = 1..nextId
        /\ WorkerInv(w, f.plan) /\ id \notin DOMAIN terminals
        /\ WasStopped(w) => requested[id]
    BY LiveRun DEF Ends
  <1>3. /\ entries' = [entries EXCEPT ![id] = f] /\ workers' = [workers EXCEPT ![id] = v]
        /\ terminals' = With(terminals, id, f.terminal)
        /\ cancellations' = cancellations \ {id}
        /\ UNCHANGED <<nextId, confirmed, pending, requested>>
        /\ StoredInv(f, requested[id]) /\ f.state = "terminal"
        /\ RetainedAgree(f, f.terminal.result) /\ LoadKept(f, w)
        /\ StopShown(f.terminal.result, w)
    BY DEF Ends
  <1>4. v.at = "gone" /\ v.outputs = w.outputs /\ v.checks = w.checks /\ v \in Worker
    BY <1>2 DEF WorkerInv, Worker, Places
  <1>b. WasStopped(v) <=> WasStopped(w)
    BY <1>4 DEF WasStopped
  <1> HIDE DEF v
  <1>5. /\ entries' = [x \in 1..nextId |-> entries'[x]]
        /\ workers' = [x \in 1..nextId |-> workers'[x]]
        /\ entries'[id] = f /\ workers'[id] = v
        /\ \A x \in 1..nextId \ {id} : entries'[x] = entries[x] /\ workers'[x] = workers[x]
    BY <1>2, <1>3
  <1>6. /\ DOMAIN terminals' = DOMAIN terminals \cup {id}
        /\ terminals'[id] = f.terminal
        /\ \A x \in DOMAIN terminals : x # id => terminals'[x] = terminals[x]
    BY <1>3 DEF With
  <1>7. Registered'
    BY <1>1, <1>3, <1>5, <1>6 DEF Registered
  <1>8. /\ ~Alive(id)'
        /\ \A x \in 1..nextId \ {id} : Alive(x)' <=> Alive(x)
    BY <1>4, <1>5 DEF Alive
  <1>9. OneWorker'
    <2>1. DOMAIN workers' = 1..nextId
      BY <1>5
    <2>2. QED
      BY <1>1, <1>2, <1>8, <2>1 DEF OneWorker
  <1>10. ASSUME NEW x \in 1..nextId PROVE RunInv(x)'
    <2>1. CASE x = id
      <3>1. AgreeInv(id)'
        BY <1>3, <1>5, <1>6, <1>8 DEF AgreeInv, Active, ActiveStates
      <3>2. WorkerInv(v, f.plan)
        BY <1>2, <1>4 DEF WorkerInv, BenchmarkDone, InFront
      <3>3. /\ LoadKept(f, v) /\ StopShown(f.terminal.result, v)
            /\ WasStopped(v) => requested[id]
        BY <1>2, <1>3, <1>4, <1>b DEF LoadKept, StopShown
      <3>4. QED
        BY <1>3, <1>5, <1>8, <2>1, <3>1, <3>2, <3>3 DEF RunInv
    <2>2. CASE x # id
      <3>1. /\ entries'[x] = entries[x] /\ workers'[x] = workers[x]
            /\ requested'[x] = requested[x] /\ RunInv(x)
            /\ Alive(x)' <=> Alive(x)
        BY <1>1, <1>3, <1>5, <1>8, <2>2
      <3>2. AgreeInv(x)'
        BY <1>3, <1>6, <2>2, <3>1 DEF RunInv, AgreeInv
      <3>3. QED
        BY <3>1, <3>2 DEF RunInv
    <2>3. QED
      BY <2>1, <2>2
  <1>11. QED
    BY <1>3, <1>7, <1>9, <1>10 DEF IInv

-----------------------------------------------------------------------------
(* A run that starts has a sound entry, in front of its first child.       *)
LEMMA StartedRun ==
    ASSUME NEW plan \in Plans, Startable(plan)
    PROVE  LET f == StartedEntry(NewEntry(plan))
           IN  /\ StoredInv(f, FALSE) /\ Active(f) /\ f.state = "running"
               /\ f.plan = plan /\ f.loads = {}
               /\ WorkerInv(NewWorker, plan) /\ NewWorker.at # "gone"
               /\ ~WasStopped(NewWorker)
               /\ ProgressInv(f, NewWorker)
  <1> DEFINE e == NewEntry(plan)
             f == StartedEntry(e)
  <1>1. /\ e.plan = plan /\ e.loads = {} /\ e.series = 0 /\ e.checks = 0 /\ e.elapsed = 0
        /\ e.state = "queued"
    BY DEF NewEntry
  <1>2. EntryInv(Plans, Results, e)
    <2>1. ~(\A s \in Subplans : plan.part[s] = NoSubplan)
      BY DEF Startable, Subplans
    <2>2. QED
      BY <2>1, NewEntryInv
  <1> HIDE DEF e
  <1>3. /\ EntryInv(Plans, Results, f) /\ f.state = "running" /\ f.phase = IntegrityRecheck
        /\ f.series = 0 /\ f.checks = 0 /\ f.elapsed = 0
        /\ f.plan = plan /\ f.loads = {} /\ Codes(f) = {"started"}
    BY <1>1, <1>2, StartedEntryInv
  <1> HIDE DEF f
  <1>4. StoredInv(f, FALSE) /\ Active(f)
    BY <1>3 DEF StoredInv, Active, ActiveStates
  <1>5. /\ NewWorker.at = "poll" /\ NewWorker.outputs = <<>> /\ NewWorker.checks = <<>>
        /\ NewWorker \in Worker /\ ~WasStopped(NewWorker)
    BY DEF NewWorker, Worker, Places, InFront, WasStopped
  <1>6. WorkerInv(NewWorker, plan)
    <2>1. Planned(plan) \in Nat \ {0} /\ plan.checks \in Nat
      BY ServiceSets DEF Counted
    <2>2. Len(NewWorker.outputs) = 0 /\ Len(NewWorker.checks) = 0
      BY <1>5
    <2>3. QED
      BY <1>5, <2>1, <2>2 DEF WorkerInv
  <1>7. ProgressInv(f, NewWorker)
    BY <1>3 DEF ProgressInv, IntegrityRecheck, BenchmarkWarmup, BenchmarkMeasured, QuickCheck
  <1>8. QED
    BY <1>3, <1>4, <1>5, <1>6, <1>7 DEF f, e

(* start_with_runner.                                                      *)
LEMMA StartInv ==
    ASSUME IInv, NEW plan \in Plans, NEW c, Start(plan, c)
    PROVE  IInv'
  <1> DEFINE f == StartedEntry(NewEntry(plan))
  <1>a. PICK new : new = nextId + 1
    OBVIOUS
  <1>1. Registered /\ OneWorker /\ \A x \in 1..nextId : RunInv(x)
    BY DEF IInv
  <1>2. /\ nextId \in Nat /\ nextId < MaxId /\ MaxId \in Nat
        /\ new \notin 1..nextId /\ 1..new = 1..nextId \cup {new} /\ new \in 0..MaxId
    BY <1>1, <1>a, ServiceAssumption DEF Registered, Start
  <1>3. /\ DOMAIN entries = 1..nextId /\ DOMAIN workers = 1..nextId
        /\ DOMAIN requested = 1..nextId /\ cancellations \subseteq 1..nextId
        /\ DOMAIN terminals \subseteq 1..nextId
        /\ requested \in [1..nextId -> BOOLEAN]
    BY <1>1 DEF Registered
  <1>4. /\ nextId' = new /\ pending' = pending \ {c}
        /\ entries' = With(entries, new, f) /\ requested' = With(requested, new, FALSE)
        /\ cancellations' = cancellations \cup {new}
        /\ workers' = With(workers, new, NewWorker)
        /\ UNCHANGED <<confirmed, terminals>>
        /\ Startable(plan) /\ ~HasActiveExecution(entries)
    BY <1>a DEF Start
  <1>5. /\ StoredInv(f, FALSE) /\ Active(f) /\ f.plan = plan
        /\ WorkerInv(NewWorker, plan) /\ NewWorker.at # "gone" /\ ProgressInv(f, NewWorker)
        /\ ~WasStopped(NewWorker)
    BY <1>4, StartedRun
  <1> HIDE DEF f
  <1>6. /\ entries' = [x \in 1..new |-> entries'[x]]
        /\ workers' = [x \in 1..new |-> workers'[x]]
        /\ requested' \in [1..new -> BOOLEAN]
        /\ entries'[new] = f /\ workers'[new] = NewWorker /\ requested'[new] = FALSE
        /\ \A x \in 1..nextId : /\ entries'[x] = entries[x] /\ workers'[x] = workers[x]
                                /\ requested'[x] = requested[x]
    BY <1>2, <1>3, <1>4 DEF With
  <1>7. Registered'
    BY <1>1, <1>2, <1>3, <1>4, <1>6 DEF Registered
  <1>8. Alive(new)' /\ \A x \in 1..nextId : ~Alive(x) /\ ~Alive(x)'
    <2>1. \A x \in 1..nextId : ~Alive(x)
      BY <1>1, <1>3, <1>4 DEF HasActiveExecution, RunInv, AgreeInv
    <2>2. QED
      BY <1>5, <1>6, <2>1 DEF Alive
  <1>9. OneWorker'
    <2>1. DOMAIN workers' = 1..nextId \cup {new}
      BY <1>2, <1>6
    <2>2. QED
      BY <1>8, <2>1 DEF OneWorker
  <1>10. ASSUME NEW x \in 1..new PROVE RunInv(x)'
    <2>1. CASE x = new
      <3>1. AgreeInv(new)'
        BY <1>2, <1>3, <1>4, <1>5, <1>6, <1>8 DEF AgreeInv
      <3>2. QED
        BY <1>5, <1>6, <1>8, <2>1, <3>1 DEF RunInv
    <2>2. CASE x # new
      <3>1. /\ x \in 1..nextId
            /\ entries'[x] = entries[x] /\ workers'[x] = workers[x]
            /\ requested'[x] = requested[x] /\ RunInv(x)
            /\ Alive(x)' <=> Alive(x)
        BY <1>1, <1>2, <1>6, <1>8, <2>2
      <3>2. AgreeInv(x)'
        BY <1>4, <2>2, <3>1 DEF RunInv, AgreeInv
      <3>3. QED
        BY <3>1, <3>2 DEF RunInv
    <2>3. QED
      BY <2>1, <2>2
  <1>11. QED
    BY <1>4, <1>7, <1>9, <1>10 DEF IInv

(* A step on the confirmations alone.                                      *)
LEMMA ConfirmationsInv ==
    ASSUME IInv, UNCHANGED <<nextId, entries, requested, cancellations, terminals, workers>>,
           confirmed' \in Seq(Plans), pending' \in SUBSET (1..Len(confirmed'))
    PROVE  IInv'
  <1>1. Registered'
    BY DEF IInv, Registered
  <1>2. OneWorker' /\ \A x \in 1..nextId : RunInv(x)'
    BY DEF IInv, OneWorker, RunInv, AgreeInv, Alive
  <1>3. QED
    BY <1>1, <1>2 DEF IInv

(* One lemma for the disjuncts of Next, which the theorems share.          *)
LEMMA Steps ==
    ASSUME IInv, [Next]_vars
    PROVE  \/ \E plan \in Plans, c \in pending : Start(plan, c)
           \/ \E id \in 1..nextId : Stop(id) \/ Poll(id) \/ ChildStep(id) \/ Report(id)
                                      \/ Finish(id)
           \/ /\ UNCHANGED <<nextId, entries, requested, cancellations, terminals, workers>>
              /\ confirmed' \in Seq(Plans) /\ pending' \in SUBSET (1..Len(confirmed'))
  <1>1. Registered /\ DOMAIN entries = 1..nextId
    BY DEF IInv, Registered
  <1>2. confirmed \in Seq(Plans) /\ pending \in SUBSET (1..Len(confirmed))
    BY <1>1 DEF Registered
  <1>3. ASSUME NEW plan \in Plans, ConfirmPrepared(plan)
        PROVE  /\ UNCHANGED <<nextId, entries, requested, cancellations, terminals, workers>>
               /\ confirmed' \in Seq(Plans) /\ pending' \in SUBSET (1..Len(confirmed'))
    <2>1. confirmed' \in Seq(Plans) /\ Len(confirmed') = Len(confirmed) + 1
      BY <1>2, <1>3, AppendProperties DEF ConfirmPrepared
    <2>2. Len(confirmed) \in Nat
      BY <1>2
    <2>3. pending' \in SUBSET (1..Len(confirmed'))
      <3>1. pending' = pending \cup {Len(confirmed) + 1}
        BY <1>3 DEF ConfirmPrepared
      <3>2. 1..Len(confirmed') = 1..Len(confirmed) \cup {Len(confirmed) + 1}
        BY <2>1, <2>2
      <3>3. QED
        BY <1>2, <3>1, <3>2
    <2>4. QED
      BY <1>3, <2>1, <2>3 DEF ConfirmPrepared
  <1>4. ASSUME NEW plan \in Plans, NEW c \in 1..Len(confirmed), StartRefused(plan, c)
        PROVE  /\ UNCHANGED <<nextId, entries, requested, cancellations, terminals, workers>>
               /\ confirmed' \in Seq(Plans) /\ pending' \in SUBSET (1..Len(confirmed'))
    BY <1>2, <1>4 DEF StartRefused
  <1>5. ASSUME NEW plan \in Plans, NEW c \in 1..Len(confirmed), Start(plan, c)
        PROVE  c \in pending
    BY <1>5 DEF Start
  <1>6. ASSUME UNCHANGED vars
        PROVE  /\ UNCHANGED <<nextId, entries, requested, cancellations, terminals, workers>>
               /\ confirmed' \in Seq(Plans) /\ pending' \in SUBSET (1..Len(confirmed'))
    BY <1>2, <1>6 DEF vars
  <1>7. QED
    BY <1>1, <1>3, <1>4, <1>5, <1>6 DEF Next, WorkerStep, ChildStep

LEMMA InitInv == Init => IInv
  <1> SUFFICES ASSUME Init PROVE IInv
    OBVIOUS
  <1>1. /\ nextId = 0 /\ 1..nextId = {} /\ nextId \in 0..MaxId
        /\ entries = [id \in {} |-> NoRecord] /\ workers = [id \in {} |-> NewWorker]
        /\ requested = [id \in {} |-> FALSE] /\ terminals = [id \in {} |-> NoRecord]
        /\ cancellations = {} /\ confirmed = <<>> /\ pending = {}
    BY ServiceAssumption DEF Init
  <1>2. Registered
    BY <1>1 DEF Registered
  <1>3. QED
    BY <1>1, <1>2 DEF IInv, OneWorker

LEMMA NextInv == IInv /\ [Next]_vars => IInv'
  <1> SUFFICES ASSUME IInv, [Next]_vars PROVE IInv'
    OBVIOUS
  <1>1. ASSUME NEW plan \in Plans, NEW c \in pending, Start(plan, c) PROVE IInv'
    BY <1>1, StartInv
  <1>2. ASSUME NEW id \in 1..nextId, ChildStep(id) PROVE IInv'
    BY <1>2, ChildInv
  <1>3. ASSUME NEW id \in 1..nextId, Finish(id) PROVE IInv'
    <2>1. PICK f : Ends(id, f)
      BY <1>3, FinishEnds
    <2>2. Alive(id)
      BY <1>3 DEF Finish, Alive
    <2>3. QED
      BY <2>1, <2>2, FinishInv
  <1>4. ASSUME NEW id \in 1..nextId, Stop(id) \/ Poll(id) \/ Report(id) PROVE IInv'
    BY <1>4, StopInv, PollInv, ReportInv
  <1>5. QED
    BY <1>1, <1>2, <1>3, <1>4, Steps, ConfirmationsInv

LEMMA SpecInv == Spec => []IInv
  BY InitInv, NextInv, PTL DEF Spec
-----------------------------------------------------------------------------
(* For every set of plans, every output a child may write and any number   *)
(* of runs: the service has its type, and every published record holds a   *)
(* normalized result.                                                      *)
THEOREM ServiceTypeCorrect == Spec => []TypeOK
  <1>1. ASSUME IInv PROVE TypeOK
    <2>1. /\ Registered /\ DOMAIN entries = 1..nextId /\ DOMAIN workers = 1..nextId
      BY <1>1 DEF IInv, Registered
    <2>2. ASSUME NEW id \in 1..nextId
          PROVE  /\ workers[id].at \in {"poll", "checking", "started", "running",
                                        "report", "finish", "gone"}
                 /\ Len(workers[id].outputs) <= Planned(entries[id].plan)
                 /\ Len(workers[id].checks) <= entries[id].plan.checks
                 /\ entries[id].state \in States /\ entries[id].phase \in Phases
                 /\ id \in DOMAIN terminals => terminals[id].result \in Results
      <3>1. /\ WorkerInv(workers[id], entries[id].plan)
            /\ EntryInv(Plans, Results, entries[id])
            /\ id \in DOMAIN terminals =>
                  entries[id].state = "terminal" /\ terminals[id] = entries[id].terminal
        BY <1>1, LiveRun
      <3>2. /\ entries[id].state \in States /\ entries[id].phase \in Phases
            /\ entries[id].terminal \in TerminalRecord(Results) \cup {NoRecord}
        BY <3>1 DEF EntryInv, Entry
      <3>3. id \in DOMAIN terminals => terminals[id] \in TerminalRecord(Results)
        BY <3>1, <3>2 DEF EntryInv, TerminalInv
      <3>4. QED
        BY <3>1, <3>2, <3>3 DEF WorkerInv, Worker, Places, InFront, TerminalRecord
    <2>3. QED
      BY <2>1, <2>2 DEF TypeOK, Registered
  <1>2. QED
    BY <1>1, SpecInv, PTL

(* Two workers are never alive together, also while one of them is being   *)
(* stopped or is past its last child.                                      *)
THEOREM OneWorkerHolds == Spec => []OneWorker
  <1>1. IInv => OneWorker
    BY DEF IInv
  <1>2. QED
    BY <1>1, SpecInv, PTL

(* Store, tokens, records and threads tell one story: in no order of       *)
(* starts, stops and child ends is an execution left active without a      *)
(* worker to end it.                                                       *)
THEOREM RegistriesAlwaysAgree == Spec => []RegistriesAgree
  <1>1. IInv => RegistriesAgree
    BY DEF IInv, Registered, RunInv, AgreeInv, RegistriesAgree
  <1>2. QED
    BY <1>1, SpecInv, PTL

(* A worker's token is requested exactly when the lifecycle has logged a   *)
(* stop of its run, no worker stops without it, and a run is published as  *)
(* stopped only if its worker did.                                         *)
THEOREM StopsReachWorkers == Spec => []StopReachesTheWorker
  <1>1. ASSUME IInv, NEW id \in DOMAIN entries
        PROVE  /\ requested[id] <=> "stop-requested" \in Codes(entries[id])
               /\ WasStopped(workers[id]) => requested[id]
               /\ id \in DOMAIN terminals =>
                     (terminals[id].result.status = "stopped" => WasStopped(workers[id]))
    <2>1. id \in 1..nextId /\ RunInv(id)
      BY <1>1 DEF IInv, Registered
    <2>2. QED
      BY <2>1 DEF RunInv, StoredInv, AgreeInv, StopShown
  <1>a. IInv => StopReachesTheWorker
    BY <1>1 DEF StopReachesTheWorker
  <1>2. QED
    BY <1>a, SpecInv, PTL

(* The counts of a run's last snapshot are those of its published result,  *)
(* however far the run got.                                                *)
THEOREM RetainedCountsMatch == Spec => []RetainedCountsMatchTheResult
  <1>1. ASSUME IInv, NEW id \in DOMAIN terminals
        PROVE  RetainedAgree(entries[id], terminals[id].result)
    <2>1. id \in 1..nextId /\ RunInv(id)
      BY <1>1 DEF IInv, Registered
    <2>2. QED
      BY <2>1 DEF RunInv, AgreeInv
  <1>2. IInv => RetainedCountsMatchTheResult
    BY <1>1 DEF RetainedAgree, RetainedCountsMatchTheResult
  <1>3. QED
    BY <1>2, SpecInv, PTL

(* A run with an accepted report ends with a matching load observation in  *)
(* its record, stopped, failed or completed.                               *)
THEOREM LoadEvidenceAlwaysSurvives == Spec => []LoadEvidenceSurvives
  <1>1. ASSUME IInv, NEW id \in DOMAIN terminals,
               workers[id].outputs # <<>>, workers[id].outputs[1].ended = "completed",
               ~ReportRefused(workers[id].outputs[1])
        PROVE  MatchingLoad(entries[id], "benchmark")
    <2>1. id \in 1..nextId /\ RunInv(id)
      BY <1>1 DEF IInv, Registered
    <2>2. workers[id].outputs \in Seq(BenchmarkOutput)
      BY <2>1, LiveRun, <1>1 DEF WorkerInv, Worker
    <2>3. 1 \in AcceptedReports(workers[id].outputs)
      BY <1>1, <2>2, EmptySeq DEF AcceptedReports
    <2>4. QED
      BY <1>1, <2>1, <2>3 DEF RunInv, AgreeInv, LoadKept
  <1>2. IInv => LoadEvidenceSurvives
    BY <1>1 DEF LoadEvidenceSurvives
  <1>3. QED
    BY <1>2, SpecInv, PTL
-----------------------------------------------------------------------------
(* What a step of one run does to the workers and to the entries.          *)
LEMMA OthersStand ==
    ASSUME IInv, [Next]_vars, NEW id \in DOMAIN entries
    PROVE  \/ workers'[id] = workers[id]
           \/ Poll(id) \/ ChildStep(id) \/ Report(id) \/ Finish(id)
  <1>1. /\ DOMAIN entries = 1..nextId /\ DOMAIN workers = 1..nextId /\ nextId \in Nat
    BY DEF IInv, Registered
  <1>2. ASSUME NEW plan \in Plans, NEW c \in pending, Start(plan, c)
        PROVE  workers'[id] = workers[id]
    BY <1>1, <1>2 DEF Start, With
  <1>3. ASSUME NEW x \in 1..nextId, x # id,
               Stop(x) \/ Poll(x) \/ ChildStep(x) \/ Report(x) \/ Finish(x)
        PROVE  workers'[id] = workers[id]
    <2>1. CASE Stop(x)
      BY <2>1 DEF Stop
    <2>2. CASE Poll(x)
      BY <1>1, <1>3, <2>2 DEF Poll, SetWorker
    <2>3. CASE Report(x)
      BY <1>1, <1>3, <2>3 DEF Report, SetWorker
    <2>4. CASE Finish(x)
      <3>1. PICK f : Ends(x, f)
        BY <2>4, FinishEnds
      <3>2. QED
        BY <1>1, <1>3, <3>1 DEF Ends
    <2>5. CASE ChildStep(x)
      BY <1>1, <1>3, <2>5 DEF ChildStep, StartChild, ChildRefused, FirstLook, ChildEnds, SetWorker
    <2>6. QED
      BY <1>3, <2>1, <2>2, <2>3, <2>4, <2>5
  <1>4. Stop(id) => workers'[id] = workers[id]
    BY DEF Stop
  <1>5. QED
    BY <1>1, <1>2, <1>3, <1>4, Steps

(* Behind an output a worker is at the report or at the finish.            *)
LEMMA BehindAnOutput ==
    ASSUME NEW w \in Worker, NEW plan, NEW output
    PROVE  LET v == WithOutput(w, plan, output)
           IN  ~UnderWay(v) /\ (output.ended # "completed" => v.at = "finish")
  <1>1. After(output) \in {"report", "finish"}
        /\ (output.ended # "completed" => After(output) = "finish")
    BY DEF After
  <1>2. WithOutput(w, plan, output).at = After(output)
    BY DEF WithOutput, Worker
  <1>3. QED
    BY <1>1, <1>2 DEF UnderWay

(* Behind a stop no further invocation is begun, and a child that the stop *)
(* overtook on its way is neither waited for nor believed, whatever the    *)
(* worker was about to do when the stop came.                              *)
THEOREM NothingIsBegunBehindAStop == Spec => NothingBeginsBehindAStop
  <1>1. ASSUME IInv, [Next]_vars, NEW id \in DOMAIN entries, requested[id]
        PROVE  /\ UnderWay(workers'[id]) => UnderWay(workers[id])
               /\ workers[id].at \in {"checking", "started"} =>
                     workers'[id].at \notin {"running", "report"}
    <2> DEFINE w == workers[id]
               plan == entries[id].plan
    <2>1. DOMAIN workers = 1..nextId /\ id \in 1..nextId
      BY <1>1 DEF IInv, Registered
    <2>2. w \in Worker
      BY <1>1, <2>1, LiveRun DEF WorkerInv
    <2>3. ASSUME NEW ended \in {"stopped", "failed"},
                 SetWorker(id, WithOutput(w, plan, Ended(w, plan, ended)))
          PROVE  ~UnderWay(workers'[id]) /\ workers'[id].at = "finish"
      <3> DEFINE output == Ended(w, plan, ended)
      <3>1. output.ended # "completed"
        BY DEF Ended, Terminal, TerminalCheck
      <3>2. workers'[id] = WithOutput(w, plan, output)
        BY <2>1, <2>3 DEF SetWorker
      <3> HIDE DEF output
      <3>3. QED
        BY <2>2, <3>1, <3>2, BehindAnOutput
    <2>4. CASE Poll(id)
      <3>1. SetWorker(id, WithOutput(w, plan, Ended(w, plan, "stopped"))) /\ w.at = "poll"
        BY <1>1, <2>4 DEF Poll
      <3>2. QED
        BY <2>3, <3>1
    <2>5. CASE StartChild(id)
      BY <2>1, <2>2, <2>5 DEF StartChild, SetWorker, UnderWay, Worker
    <2>6. CASE ChildRefused(id)
      <3>1. SetWorker(id, WithOutput(w, plan, Ended(w, plan, "failed")))
        BY <2>6 DEF ChildRefused
      <3>2. QED
        BY <2>3, <3>1
    <2>7. CASE FirstLook(id)
      <3>1. \E ended \in {"stopped", "failed"} :
               SetWorker(id, WithOutput(w, plan, Ended(w, plan, ended)))
        BY <1>1, <2>7 DEF FirstLook
      <3>2. QED
        BY <2>3, <3>1
    <2>8. CASE \E output \in ChildOutputs(id) : ChildEnds(id, output)
      BY <2>8 DEF ChildEnds, UnderWay
    <2>9. CASE Report(id)
      BY <2>1, <2>2, <2>9 DEF Report, SetWorker, BehindReport, Worker, UnderWay
    <2>10. CASE Finish(id)
      <3>1. PICK f : Ends(id, f)
        BY <1>1, <2>1, <2>10, FinishEnds
      <3>2. workers'[id].at = "gone"
        BY <2>1, <2>2, <3>1 DEF Ends, Worker
      <3>3. QED
        BY <3>2 DEF UnderWay
    <2>11. CASE workers'[id] = workers[id]
      BY <2>11
    <2>12. QED
      BY <1>1, <2>4, <2>5, <2>6, <2>7, <2>8, <2>9, <2>10, <2>11, OthersStand DEF ChildStep
  <1>2. IInv /\ [Next]_vars =>
          [\A id \in DOMAIN entries :
              requested[id] =>
                  /\ UnderWay(workers'[id]) => UnderWay(workers[id])
                  /\ workers[id].at \in {"checking", "started"} =>
                        workers'[id].at \notin {"running", "report"}]_vars
    BY <1>1
  <1>3. QED
    BY <1>2, SpecInv, PTL DEF Spec, NothingBeginsBehindAStop

(* The lifecycle takes every report of a worker: each is a new snapshot.   *)
THEOREM ProgressIsAlwaysTaken == Spec => ProgressIsNeverRefused
  <1>1. ASSUME IInv, [Next]_vars, NEW id \in DOMAIN entries,
               workers[id].at = "report", workers'[id].at # "report"
        PROVE  entries'[id].sequence = entries[id].sequence + 1
    <2>1. id \in 1..nextId
      BY <1>1 DEF IInv, Registered
    <2>2. Report(id)
      BY <1>1, OthersStand
         DEF Poll, ChildStep, StartChild, ChildRefused, FirstLook, ChildEnds, Finish
    <2>3. QED
      BY <1>1, <2>1, <2>2, ReportInv
  <1>2. IInv /\ [Next]_vars =>
          [\A id \in DOMAIN entries :
              workers[id].at = "report" /\ workers'[id].at # "report" =>
                  entries'[id].sequence = entries[id].sequence + 1]_vars
    BY <1>1
  <1>3. QED
    BY <1>2, SpecInv, PTL DEF Spec, ProgressIsNeverRefused
-----------------------------------------------------------------------------
(* The service implements the promise.                                     *)
(* A live run is not evidenced: what its worker saw of the load is written *)
(* down in its last step.                                                  *)
LEMMA LiveIsUnevidenced ==
    ASSUME NEW e, NEW w, NEW asked, StoredInv(e, asked), ProgressInv(e, w)
    PROVE  ~CompletionEvidenced(e)
  <1>1. e.loads = {} /\ e.plan.part["benchmark"] # NoSubplan
    BY DEF StoredInv, ProgressInv, Startable
  <1>2. QED
    BY <1>1 DEF CompletionEvidenced, MatchingLoad

(* Where a started run stands follows from its state alone.                *)
LEMMA StartedStatus ==
    ASSUME NEW e, NEW asked, StoredInv(e, asked)
    PROVE  /\ e.state = "running" <=> EntryStatus(e) = "live"
           /\ e.state = "stop-requested" <=> EntryStatus(e) = "stopping"
           /\ e.state = "terminal" <=> EntryStatus(e) = "closed"
           /\ EntryStatus(e) \in {"live", "stopping", "closed"}
  <1>1. /\ EntryInv(Plans, Results, e) /\ "started" \in Codes(e) /\ e.state # "queued"
    BY DEF StoredInv
  <1>2. e.state \in States
    BY <1>1 DEF EntryInv, Entry
  <1>3. QED
    BY <1>1, <1>2, StatusCases DEF States

(* The image of a step on one entry.                                       *)
LEMMA EntryImage ==
    ASSUME IInv, NEW id \in 1..nextId, NEW f, entries' = [entries EXCEPT ![id] = f]
    PROVE  /\ id \in 1..MaxId
           /\ StatusOf' = [StatusOf EXCEPT ![id] = EntryStatus(f)]
           /\ StatusOf[id] = EntryStatus(entries[id])
           /\ EntryStatus(f) = EntryStatus(entries[id]) => StatusOf' = StatusOf
           /\ id \in EvidencedOf <=> CompletionEvidenced(entries[id])
           /\ id \in EvidencedOf' <=> CompletionEvidenced(f)
           /\ EvidencedOf' \ {id} = EvidencedOf \ {id}
           /\ (CompletionEvidenced(f) <=> CompletionEvidenced(entries[id])) =>
                 EvidencedOf' = EvidencedOf
  <1>1. DOMAIN entries = 1..nextId /\ nextId \in 0..MaxId
    BY DEF IInv, Registered
  <1>2. id \in 1..MaxId
    BY <1>1, ServiceAssumption
  <1>3. /\ DOMAIN entries' = DOMAIN entries /\ entries'[id] = f
        /\ \A x \in DOMAIN entries : x # id => entries'[x] = entries[x]
    BY <1>1
  <1>4. StatusOf' = [StatusOf EXCEPT ![id] = EntryStatus(f)]
    BY <1>1, <1>2, <1>3 DEF StatusOf
  <1>5. /\ id \in EvidencedOf' <=> CompletionEvidenced(f)
        /\ EvidencedOf' \ {id} = EvidencedOf \ {id}
    BY <1>1, <1>3 DEF EvidencedOf
  <1>6. /\ StatusOf[id] = EntryStatus(entries[id])
        /\ StatusOf = [x \in 1..MaxId |-> StatusOf[x]]
    BY <1>1, <1>2 DEF StatusOf
  <1>7. EntryStatus(f) = EntryStatus(entries[id]) => StatusOf' = StatusOf
    BY <1>4, <1>6
  <1>8. id \in EvidencedOf <=> CompletionEvidenced(entries[id])
    BY <1>1 DEF EvidencedOf
  <1>9. (CompletionEvidenced(f) <=> CompletionEvidenced(entries[id])) => EvidencedOf' = EvidencedOf
    BY <1>5, <1>8
  <1>10. QED
    BY <1>2, <1>4, <1>5, <1>6, <1>7, <1>8, <1>9

(* Every step of the service is a step of the promise, or leaves its image *)
(* alone.                                                                  *)
LEMMA StepImplements ==
    ASSUME IInv, [Next]_vars
    PROVE  Promise!Next \/ UNCHANGED <<StatusOf, OutcomeOf, EvidencedOf>>
  <1> USE DEF Promise!Occupying
  <1>0. /\ DOMAIN entries = 1..nextId /\ nextId \in 0..MaxId /\ MaxId \in Nat
        /\ DOMAIN terminals \subseteq 1..nextId
    BY ServiceAssumption DEF IInv, Registered
  <1>1. ASSUME NEW plan \in Plans, NEW c \in pending, Start(plan, c)
        PROVE  Promise!Next
    <2> DEFINE f == StartedEntry(NewEntry(plan))
    <2>a. PICK n : n = nextId + 1
      OBVIOUS
    <2>1. /\ StoredInv(f, FALSE) /\ f.state = "running"
          /\ ProgressInv(f, NewWorker)
      BY <1>1, StartedRun DEF Start
    <2>2. /\ entries' = With(entries, n, f) /\ UNCHANGED terminals
          /\ ~HasActiveExecution(entries) /\ n \in 1..MaxId /\ n \notin 1..nextId
      BY <1>0, <1>1, <2>a DEF Start
    <2> HIDE DEF f
    <2>3. /\ DOMAIN entries' = DOMAIN entries \cup {n} /\ entries'[n] = f
          /\ \A x \in DOMAIN entries : entries'[x] = entries[x]
      BY <1>0, <2>2 DEF With
    <2>4. EntryStatus(f) = "live" /\ ~CompletionEvidenced(f)
      BY <2>1, StartedStatus, LiveIsUnevidenced
    <2>5. StatusOf[n] = "unissued" /\ StatusOf' = [StatusOf EXCEPT ![n] = "live"]
      BY <1>0, <2>2, <2>3, <2>4 DEF StatusOf
    <2>6. OutcomeOf' = OutcomeOf
      BY <2>2 DEF OutcomeOf
    <2>7. EvidencedOf' = EvidencedOf
      BY <1>0, <2>2, <2>3, <2>4 DEF EvidencedOf
    <2>8. ASSUME NEW y \in 1..MaxId PROVE StatusOf[y] \notin {"withdrawn", "live", "stopping"}
      <3>1. CASE y \notin DOMAIN entries
        BY <3>1 DEF StatusOf
      <3>2. CASE y \in DOMAIN entries
        <4>1. StoredInv(entries[y], requested[y]) /\ ~Active(entries[y])
          BY <1>0, <2>2, <3>2, LiveRun DEF HasActiveExecution
        <4>2. EntryStatus(entries[y]) = "closed"
          BY <4>1, StartedStatus DEF Active, ActiveStates
        <4>3. QED
          BY <3>2, <4>2 DEF StatusOf
      <3>3. QED
        BY <3>1, <3>2
    <2>9. Promise!Begin(n)
      BY <2>5, <2>6, <2>7, <2>8 DEF Promise!Begin
    <2>10. QED
      BY <2>2, <2>9 DEF Promise!Next
  <1>2. ASSUME NEW id \in 1..nextId, Stop(id)
        PROVE  Promise!Next \/ UNCHANGED <<StatusOf, OutcomeOf, EvidencedOf>>
    <2> DEFINE e == entries[id]
               f == StopRequestedEntry(e)
    <2>1. /\ entries' = [entries EXCEPT ![id] = f] /\ UNCHANGED terminals
          /\ e.state # "terminal"
      BY <1>2 DEF Stop
    <2>2. /\ StoredInv(e, requested[id]) /\ EntryInv(Plans, Results, e)
          /\ e.state \in States /\ e.state # "queued"
      BY LiveRun DEF StoredInv
    <2>3. /\ CompletionEvidenced(f) <=> CompletionEvidenced(e)
          /\ e.state = "stop-requested" => f = e
          /\ e.state = "running" => /\ f.state = "stop-requested"
                                    /\ Codes(f) = Codes(e) \cup {"stop-requested"}
                                    /\ EntryInv(Plans, Results, f)
      BY <2>2, StopRequestedEntryInv
    <2> HIDE DEF f
    <2>4. OutcomeOf' = OutcomeOf /\ EvidencedOf' = EvidencedOf
      <3>1. OutcomeOf' = OutcomeOf
        BY <2>1 DEF OutcomeOf
      <3>2. EvidencedOf' = EvidencedOf
        <4>1. CompletionEvidenced(f) <=> CompletionEvidenced(entries[id])
          BY <2>3
        <4>2. QED
          BY <2>1, <4>1, EntryImage
      <3>3. QED
        BY <3>1, <3>2
    <2>5. CASE e.state = "running"
      <3>1. EntryStatus(e) = "live" /\ "started" \in Codes(f)
        BY <2>2, <2>3, <2>5, StartedStatus DEF StoredInv
      <3>2. EntryStatus(f) = "stopping"
        BY <2>3, <2>5, <3>1, StatusCases
      <3>3. /\ id \in 1..MaxId /\ StatusOf[id] = "live"
            /\ StatusOf' = [StatusOf EXCEPT ![id] = "stopping"]
        BY <2>1, <3>1, <3>2, EntryImage
      <3>4. Promise!RequestStop(id)
        BY <2>4, <3>3 DEF Promise!RequestStop
      <3>5. QED
        BY <3>3, <3>4 DEF Promise!Next
    <2>6. CASE e.state = "stop-requested"
      <3>1. EntryStatus(f) = EntryStatus(entries[id])
        BY <2>3, <2>6
      <3>2. StatusOf' = StatusOf
        BY <2>1, <3>1, EntryImage
      <3>3. QED
        BY <2>4, <3>2
    <2>7. QED
      BY <2>1, <2>2, <2>5, <2>6 DEF States
  <1>3. ASSUME NEW id \in 1..nextId, Report(id)
        PROVE  UNCHANGED <<StatusOf, OutcomeOf, EvidencedOf>>
    <2> DEFINE f == Progressed(entries[id], ProgressOf(workers[id], entries[id].plan))
    <2>1. entries' = [entries EXCEPT ![id] = f] /\ UNCHANGED terminals
      BY <1>3 DEF Report, SetWorker
    <2>2. entries'[id] = f
      BY <1>0, <2>1
    <2> HIDE DEF f
    <2>3. /\ f.state = entries[id].state
          /\ Codes(f) = Codes(entries[id]) \cup {"progress"}
          /\ CompletionEvidenced(f) <=> CompletionEvidenced(entries[id])
      BY <1>3, <2>2, ReportInv
    <2>4. EntryStatus(f) = EntryStatus(entries[id])
      BY <2>3 DEF EntryStatus
    <2>5. OutcomeOf' = OutcomeOf
      BY <2>1 DEF OutcomeOf
    <2>6. StatusOf' = StatusOf
      BY <2>1, <2>4, EntryImage
    <2>7. EvidencedOf' = EvidencedOf
      <3>1. CompletionEvidenced(f) <=> CompletionEvidenced(entries[id])
        BY <2>3
      <3>2. QED
        BY <2>1, <3>1, EntryImage
    <2>8. QED
      BY <2>5, <2>6, <2>7
  <1>4. ASSUME NEW id \in 1..nextId, Finish(id)
        PROVE  Promise!Next
    <2>1. PICK f : Ends(id, f)
      BY <1>4, FinishEnds
    <2>2. /\ StoredInv(entries[id], requested[id]) /\ Active(entries[id])
          /\ ProgressInv(entries[id], workers[id])
      BY <1>4, LiveRun DEF Finish, Alive
    <2>3. EntryStatus(entries[id]) \in {"live", "stopping"} /\ ~CompletionEvidenced(entries[id])
      BY <2>2, StartedStatus, LiveIsUnevidenced DEF Active, ActiveStates
    <2>4. EntryStatus(f) = "closed"
      BY <2>1, StartedStatus DEF Ends
    <2>5. entries' = [entries EXCEPT ![id] = f]
      BY <2>1 DEF Ends
    <2>6. /\ id \in 1..MaxId /\ StatusOf[id] \in {"live", "stopping"}
          /\ StatusOf' = [StatusOf EXCEPT ![id] = "closed"]
          /\ id \notin EvidencedOf
          /\ id \in EvidencedOf' <=> CompletionEvidenced(f)
          /\ EvidencedOf' \ {id} = EvidencedOf \ {id}
      BY <2>3, <2>4, <2>5, EntryImage
    <2>7. EvidencedOf' \in {EvidencedOf, EvidencedOf \cup {id}}
      BY <2>6
    <2>8. OutcomeOf' = [OutcomeOf EXCEPT ![id] = f.terminal.result.status]
      <3>1. terminals' = With(terminals, id, f.terminal)
        BY <2>1 DEF Ends
      <3>2. QED
        BY <2>6, <3>1 DEF With, OutcomeOf
    <2>9. /\ f.terminal.result.status \in DomainStatuses
          /\ f.terminal.result.status = "completed" => id \in EvidencedOf'
      BY <2>1, <2>6 DEF Ends
    <2>10. Promise!Close(id, f.terminal.result.status)
      BY <2>6, <2>7, <2>8, <2>9 DEF Promise!Close
    <2>11. QED
      BY <2>6, <2>9, <2>10 DEF Promise!Next
  <1>5. ASSUME NEW id \in 1..nextId,
               Poll(id) \/ ChildStep(id)
        PROVE  UNCHANGED <<StatusOf, OutcomeOf, EvidencedOf>>
    <2>1. UNCHANGED <<entries, terminals>>
      BY <1>5 DEF Poll, ChildStep, StartChild, ChildRefused, FirstLook, ChildEnds, SetWorker
    <2>2. QED
      BY <2>1 DEF StatusOf, OutcomeOf, EvidencedOf
  <1>6. CASE UNCHANGED <<nextId, entries, requested, cancellations, terminals, workers>>
    BY <1>6 DEF StatusOf, OutcomeOf, EvidencedOf
  <1>7. QED
    BY <1>1, <1>2, <1>3, <1>4, <1>5, <1>6, Steps

(* A service nobody has asked for anything has promised nothing.           *)
LEMMA InitImplements == Init => Promise!Init
  <1> SUFFICES ASSUME Init PROVE Promise!Init
    OBVIOUS
  <1>1. DOMAIN entries = {} /\ DOMAIN terminals = {}
    BY DEF Init
  <1>2. StatusOf = [x \in 1..MaxId |-> "unissued"] /\ OutcomeOf = [x \in 1..MaxId |-> NoRecord]
    BY <1>1 DEF StatusOf, OutcomeOf
  <1>3. EvidencedOf = {}
    BY <1>1 DEF EvidencedOf
  <1>4. QED
    BY <1>2, <1>3 DEF Promise!Init

(* The service -- callers, worker threads and tokens in any interleaving   *)
(* -- keeps the promise the store keeps: one run at a time, a stop that is *)
(* never withdrawn, one outcome, and "completed" only with evidence that   *)
(* the planned runtime loaded the model.                                   *)
THEOREM ServiceKeepsThePromise == Spec => KeepsThePromise
  <1>1. IInv /\ [Next]_vars => [Promise!Next]_(Promise!vars)
    BY StepImplements DEF Promise!vars
  <1>2. QED
    BY <1>1, InitImplements, SpecInv, PTL DEF Spec, KeepsThePromise, Promise!Spec
==============================================================================
