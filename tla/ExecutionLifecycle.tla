------------------------- MODULE ExecutionLifecycle -------------------------
(***************************************************************************)
(* ExecutionLifecycleStore of execution_lifecycle.rs: the process-local    *)
(* records of authorized verification runs.  One action per operation; an  *)
(* operation that returns Err leaves the store as it was (the one          *)
(* exception, authorize_facts on a plan with no phase, is an action) and   *)
(* is the absence of a step.                                               *)
(***************************************************************************)
EXTENDS ExecutionEntry

CONSTANTS
    Plans,          \* verification plans the runner has prepared
    Updates,        \* the progress updates a caller reports
    ResultStatuses, \* the domain statuses of the results a caller offers
    MaxId,          \* bound of next_id (u64::MAX in the code)
    MaxSequence     \* bound on the events of one execution

VARIABLES
    nextId,     \* next_id: the last identity issued
    entries     \* entries: execution id -> ExecutionEntry

vars == <<nextId, entries>>

Result == [plan : {p.id : p \in Plans}, status : ResultStatuses]

ProgressUpdate == [phase : Phases, current : Nat, total : Nat,
                   series : Nat, checks : Nat, elapsed : Nat]

ASSUME LifecycleAssumption ==
    /\ \A p \in Plans : p.part \in [Subplans -> Runtime \cup {NoSubplan}]
    /\ NoSubplan \notin Runtime
    /\ NoBuild \notin Builds
    /\ Updates \subseteq ProgressUpdate
    /\ ResultStatuses \subseteq DomainStatuses
    /\ NoRecord \notin DomainStatuses \cup TerminalRecord(Result)
    /\ MaxId \in Nat /\ MaxSequence \in Nat

-----------------------------------------------------------------------------
Init ==
    /\ nextId = 0
    /\ entries = [id \in {} |-> NoRecord]

Replace(id, e) == entries' = [entries EXCEPT ![id] = e]

CanStep(id) == entries[id].sequence < MaxSequence

(* Seeded fault: the identity is handed out without being counted.         *)
AuthorizeUncounted(plan) ==
    /\ nextId < MaxId
    /\ entries' = [id \in DOMAIN entries \cup {nextId + 1} |->
                      IF id = nextId + 1 THEN NewEntry(plan) ELSE entries[id]]
    /\ UNCHANGED nextId

(* authorize_facts: the identity is spent even when the plan has no phase. *)
Authorize(plan) ==
    /\ nextId < MaxId
    /\ nextId' = nextId + 1
    /\ IF \A s \in Subplans : plan.part[s] = NoSubplan
       THEN UNCHANGED entries
       ELSE entries' = [id \in DOMAIN entries \cup {nextId + 1} |->
                           IF id = nextId + 1 THEN NewEntry(plan) ELSE entries[id]]

Start(id) ==
    /\ CanStep(id)
    /\ MayStart(entries, id)
    /\ Replace(id, StartedEntry(entries[id]))
    /\ UNCHANGED nextId

UpdateProgress(id, u) ==
    /\ CanStep(id)
    /\ MayProgress(entries[id], u)
    /\ Replace(id, ProgressedEntry(entries[id], u))
    /\ UNCHANGED nextId

RequestStop(id) ==
    /\ CanStep(id)
    /\ Replace(id, StopRequestedEntry(entries[id]))
    /\ UNCHANGED nextId

RecordRuntimeLoad(id, subplan, observed) ==
    /\ MayRecordLoad(entries[id], subplan)
    /\ Replace(id, LoadedEntry(entries[id], subplan, observed))
    /\ UNCHANGED nextId

Finalize(id, result) ==
    /\ CanStep(id)
    /\ MayFinalize(entries[id], result)
    /\ Replace(id, FinalizedEntry(entries[id], result))
    /\ UNCHANGED nextId

Next ==
    \/ \E plan \in Plans : Authorize(plan)
    \/ \E id \in DOMAIN entries :
          \/ Start(id)
          \/ \E u \in Updates : UpdateProgress(id, u)
          \/ RequestStop(id)
          \/ \E s \in Subplans, observed \in ObservedRuntimes : RecordRuntimeLoad(id, s, observed)
          \/ \E result \in Result : Finalize(id, result)

Spec == Init /\ [][Next]_vars
-----------------------------------------------------------------------------
TypeOK ==
    /\ nextId \in 0..MaxId
    /\ DOMAIN entries \subseteq 1..nextId
    /\ entries \in [DOMAIN entries -> Entry(Plans, Result)]

(* It began, and it has not been closed.                                   *)
Live(e) == "started" \in Codes(e) /\ Active(e)

(* Two executions are never live at once, also while one of them is being  *)
(* stopped.  (start refuses while any other entry is active.)              *)
OneLiveRun ==
    \A i, j \in DOMAIN entries : Live(entries[i]) /\ Live(entries[j]) => i = j

(* An authorization is good for one run: an execution is started at most   *)
(* once, never after its stop was requested, and never while its receipt   *)
(* is still marked usable.  (authorization_consumed in start and           *)
(* request_stop.)                                                          *)
AuthorizationIsSpentOnce ==
    \A id \in DOMAIN entries :
        LET e == entries[id]
        IN  /\ \A k \in DOMAIN e.events : e.events[k].code = "started" => k = 1
            /\ e.state # "queued" => e.consumed

(* The event log replays to the snapshot: events are numbered without a    *)
(* gap, each begins in the state the one before it left, phases never go   *)
(* back, and the last one is where the snapshot stands.  (transition and   *)
(* update_progress.)                                                       *)
EventsReplayToSnapshot ==
    \A id \in DOMAIN entries :
        LET e == entries[id]
            n == Len(e.events)
        IN  /\ e.sequence = n
            /\ \A k \in 1..n : e.events[k].sequence = k
            /\ \A k \in 2..n : /\ e.events[k].previous = e.events[k - 1].state
                               /\ e.events[k].phase >= e.events[k - 1].phase
            /\ IF n = 0
               THEN e.state = "queued" /\ e.phase = QueuedPhase
               ELSE /\ e.events[1].previous = "queued"
                    /\ e.state = e.events[n].state
                    /\ e.phase = e.events[n].phase

(* Completed is only ever recorded with an observation, kept in the same   *)
(* record, of the planned backend and build loading the model -- of the    *)
(* benchmark when the plan has one.  (finalize.)                           *)
CompletedHasMatchingLoad ==
    \A id \in DOMAIN entries :
        LET e == entries[id]
        IN  (e.terminal # NoRecord /\ e.terminal.result.status = "completed") =>
               \E r \in e.terminal.loads :
                   /\ r.observed = r.planned
                   /\ r.planned = e.plan.part[r.subplan]
                   /\ r.subplan = IF e.plan.part["benchmark"] # NoSubplan
                                  THEN "benchmark" ELSE "quickCheck"

(* The terminal record is the closed entry: there is one exactly when the  *)
(* state is terminal, and what it copied is what the entry still says.     *)
(* Nothing arrives after it.  (finalize, and the state guards of           *)
(* update_progress, record_runtime_load and request_stop.)                 *)
TerminalRecordAgrees ==
    \A id \in DOMAIN entries :
        LET e == entries[id]
        IN  /\ e.state = "terminal" <=> e.terminal # NoRecord
            /\ e.terminal # NoRecord =>
                  /\ e.terminal.sequence = e.sequence
                  /\ e.terminal.phase = e.phase
                  /\ e.terminal.loads = e.loads
                  /\ e.terminal.result.plan = e.plan.id

(* A subplan is observed at most once, only when the plan has it, and with *)
(* what the plan said of it.  (record_runtime_load.)                       *)
OneLoadPerSubplan ==
    \A id \in DOMAIN entries :
        /\ \A r, q \in entries[id].loads : r.subplan = q.subplan => r = q
        /\ \A r \in entries[id].loads : r.planned = entries[id].plan.part[r.subplan]

(* A terminal entry never changes again, whatever is called on it.         *)
TerminalIsFinal ==
    [][\A id \in DOMAIN entries :
          entries[id].state = "terminal" => entries'[id] = entries[id]]_vars

(* A reader of snapshots never sees one go back: within a run sequence,    *)
(* phase, retained work and elapsed time only grow, within a phase the     *)
(* position does and its total stands, a step that shows anything new has  *)
(* a new sequence number, and no execution disappears.  (update_progress,  *)
(* transition.)                                                            *)
SnapshotsOnlyAdvance ==
    [][\A id \in DOMAIN entries :
          /\ id \in DOMAIN entries'
          /\ LET e == entries[id]
                 f == entries'[id]
                 shown(x) == <<x.state, x.phase, x.current, x.total, x.series, x.checks, x.elapsed>>
             IN  /\ f.sequence >= e.sequence
                 /\ f.phase >= e.phase
                 /\ f.phase = e.phase => f.current >= e.current /\ f.total = e.total
                 /\ f.series >= e.series /\ f.checks >= e.checks /\ f.elapsed >= e.elapsed
                 /\ shown(f) # shown(e) => f.sequence = e.sequence + 1]_vars

(* The store implements the abstract promise.                              *)
StatusOf == [x \in 1..MaxId |->
                IF x \in DOMAIN entries THEN EntryStatus(entries[x]) ELSE "unissued"]
OutcomeOf == [x \in 1..MaxId |->
                IF x \in DOMAIN entries /\ entries[x].terminal # NoRecord
                THEN entries[x].terminal.result.status ELSE NoRecord]
EvidencedOf == {x \in DOMAIN entries : CompletionEvidenced(entries[x])}

Promise == INSTANCE OneRunExecution WITH
    Executions <- 1..MaxId, Outcomes <- DomainStatuses, Undecided <- NoRecord,
    status <- StatusOf, outcome <- OutcomeOf, evidenced <- EvidencedOf

KeepsThePromise == Promise!Spec
=============================================================================
