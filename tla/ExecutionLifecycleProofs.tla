---------------------- MODULE ExecutionLifecycleProofs ----------------------
(***************************************************************************)
(* Every invariant of the store follows from an invariant of each entry    *)
(* (EntryInv) and from OneLiveRun.  An operation touches one entry, so the *)
(* proof has the lemmas on entries of ExecutionLemmas, and one step        *)
(* per action of the store.                                                *)
(***************************************************************************)
EXTENDS ExecutionLifecycle, ExecutionLemmas

(* The sets of this store are as the lemmas on entries need them.          *)
LEMMA StoreAssumptions ==
    /\ WellPlanned(Plans)
    /\ NoRecord \notin TerminalRecord(Result)
    /\ Updates \subseteq Progress
  <1>1. Updates \subseteq Progress
    BY LifecycleAssumption DEF ProgressUpdate, Progress
  <1>2. QED
    BY <1>1, LifecycleAssumption DEF WellPlanned

IInv ==
    /\ nextId \in 0..MaxId
    /\ DOMAIN entries \subseteq 1..nextId
    /\ entries = [id \in DOMAIN entries |-> entries[id]]
    /\ \A id \in DOMAIN entries : EntryInv(Plans, Result, entries[id])
    /\ OneLiveRun

-----------------------------------------------------------------------------
(* Replacing one entry keeps the invariant, unless it brings a second live *)
(* run.                                                                    *)
LEMMA ReplaceInv ==
    ASSUME IInv, NEW id \in DOMAIN entries, NEW f, EntryInv(Plans, Result, f),
           Replace(id, f), UNCHANGED nextId,
           Live(f) => \/ Live(entries[id])
                      \/ \A other \in DOMAIN entries \ {id} : ~Live(entries[other])
    PROVE  IInv'
  <1>1. /\ DOMAIN entries' = DOMAIN entries
        /\ entries'[id] = f
        /\ \A x \in DOMAIN entries : x # id => entries'[x] = entries[x]
        /\ entries' = [x \in DOMAIN entries' |-> entries'[x]]
    BY DEF Replace
  <1>2. \A x \in DOMAIN entries' : EntryInv(Plans, Result, entries'[x])
    BY <1>1 DEF IInv
  <1>3. OneLiveRun'
    BY <1>1 DEF IInv, OneLiveRun
  <1>4. QED
    BY <1>1, <1>2, <1>3 DEF IInv

(* The empty store has the invariant.                                      *)
LEMMA InitInv == Init => IInv
  BY LifecycleAssumption DEF Init, IInv, OneLiveRun

(* Each operation keeps the invariant.                                     *)
LEMMA NextInv == IInv /\ [Next]_vars => IInv'
  <1> SUFFICES ASSUME IInv, [Next]_vars PROVE IInv'
    OBVIOUS
  <1>1. ASSUME NEW plan \in Plans, Authorize(plan) PROVE IInv'
    <2>1. nextId' = nextId + 1 /\ nextId' \in 0..MaxId /\ nextId \in 0..MaxId
      BY <1>1, LifecycleAssumption DEF Authorize, IInv
    <2>2. CASE \A s \in Subplans : plan.part[s] = NoSubplan
      <3>1. entries' = entries
        BY <1>1, <2>2 DEF Authorize
      <3>2. QED
        BY <2>1, <3>1 DEF IInv, OneLiveRun
    <2>3. CASE ~(\A s \in Subplans : plan.part[s] = NoSubplan)
      <3>1. EntryInv(Plans, Result, NewEntry(plan)) /\ NewEntry(plan).state = "queued"
        BY <2>3, NewEntryInv
      <3>2. /\ DOMAIN entries' = DOMAIN entries \cup {nextId + 1}
            /\ nextId + 1 \notin DOMAIN entries
            /\ entries'[nextId + 1] = NewEntry(plan)
            /\ \A x \in DOMAIN entries : entries'[x] = entries[x]
            /\ entries' = [x \in DOMAIN entries' |-> entries'[x]]
        BY <1>1, <2>1, <2>3 DEF Authorize, IInv
      <3>3. DOMAIN entries' \subseteq 1..nextId'
        BY <2>1, <3>2 DEF IInv
      <3>4. \A x \in DOMAIN entries' : EntryInv(Plans, Result, entries'[x])
        BY <3>1, <3>2 DEF IInv
      <3>5. ~Live(NewEntry(plan))
        BY <3>1 DEF Live, Active, ActiveStates
      <3>6. OneLiveRun'
        BY <3>2, <3>5 DEF IInv, OneLiveRun
      <3>7. QED
        BY <2>1, <3>2, <3>3, <3>4, <3>6 DEF IInv
    <2>4. QED
      BY <2>2, <2>3
  <1>2. ASSUME NEW id \in DOMAIN entries, Start(id) PROVE IInv'
    <2>1. EntryInv(Plans, Result, entries[id]) /\ entries[id].state = "queued"
      BY <1>2 DEF Start, MayStart, IInv
    <2>2. EntryInv(Plans, Result, StartedEntry(entries[id]))
      BY <2>1, StartedEntryInv
    <2>3. \A other \in DOMAIN entries \ {id} : ~Live(entries[other])
      BY <1>2 DEF Start, MayStart, AnotherRunActive, Live
    <2>4. QED
      BY <1>2, <2>2, <2>3, ReplaceInv DEF Start
  <1>3. ASSUME NEW id \in DOMAIN entries, NEW u \in Updates, UpdateProgress(id, u)
        PROVE  IInv'
    <2>1. EntryInv(Plans, Result, entries[id]) /\ MayProgress(entries[id], u)
      BY <1>3 DEF UpdateProgress, IInv
    <2>2. /\ EntryInv(Plans, Result, ProgressedEntry(entries[id], u))
          /\ ProgressedEntry(entries[id], u).state = entries[id].state
          /\ Codes(ProgressedEntry(entries[id], u)) = Codes(entries[id]) \cup {"progress"}
      BY <2>1, ProgressedEntryInv, StoreAssumptions
    <2>3. Live(ProgressedEntry(entries[id], u)) => Live(entries[id])
      BY <2>2 DEF Live, Active
    <2>4. QED
      BY <1>3, <2>2, <2>3, ReplaceInv DEF UpdateProgress
  <1>4. ASSUME NEW id \in DOMAIN entries, RequestStop(id) PROVE IInv'
    <2>1. EntryInv(Plans, Result, entries[id])
      BY DEF IInv
    <2> DEFINE f == StopRequestedEntry(entries[id])
    <2>2. /\ EntryInv(Plans, Result, f)
          /\ entries[id].state \in {"stop-requested", "terminal"} => f = entries[id]
          /\ entries[id].state \in {"queued", "running"} =>
                Codes(f) = Codes(entries[id]) \cup {"stop-requested"}
      BY <2>1, StopRequestedEntryInv
    <2>3. Live(f) => Live(entries[id])
      <3>1. CASE entries[id].state \in {"stop-requested", "terminal"}
        BY <2>2, <3>1
      <3>2. CASE entries[id].state = "running"
        BY <2>2, <3>2 DEF Live, Active, ActiveStates
      <3>3. CASE entries[id].state = "queued"
        <4>1. Codes(entries[id]) = {}
          BY <2>1, <3>3, QueuedIsFresh DEF EntryInv
        <4>2. "started" \notin Codes(f)
          BY <2>2, <3>3, <4>1
        <4>3. QED
          BY <4>2 DEF Live
      <3>4. QED
        BY <2>1, <3>1, <3>2, <3>3 DEF EntryInv, Entry, States
    <2>4. Replace(id, f) /\ UNCHANGED nextId
      BY <1>4 DEF RequestStop
    <2> HIDE DEF f
    <2>5. QED
      BY <2>2, <2>3, <2>4, ReplaceInv
  <1>5. ASSUME NEW id \in DOMAIN entries, NEW s \in Subplans, NEW observed \in ObservedRuntimes,
               RecordRuntimeLoad(id, s, observed)
        PROVE  IInv'
    <2>1. EntryInv(Plans, Result, entries[id]) /\ MayRecordLoad(entries[id], s)
      BY <1>5 DEF RecordRuntimeLoad, IInv
    <2>2. /\ EntryInv(Plans, Result, LoadedEntry(entries[id], s, observed))
          /\ LoadedEntry(entries[id], s, observed).state = entries[id].state
          /\ Codes(LoadedEntry(entries[id], s, observed)) = Codes(entries[id])
      BY <2>1, LoadedEntryInv, StoreAssumptions
    <2>3. Live(LoadedEntry(entries[id], s, observed)) => Live(entries[id])
      BY <2>2 DEF Live, Active
    <2>4. QED
      BY <1>5, <2>2, <2>3, ReplaceInv DEF RecordRuntimeLoad
  <1>6. ASSUME NEW id \in DOMAIN entries, NEW result \in Result, Finalize(id, result)
        PROVE  IInv'
    <2>1. EntryInv(Plans, Result, entries[id]) /\ MayFinalize(entries[id], result)
      BY <1>6 DEF Finalize, IInv
    <2>2. /\ EntryInv(Plans, Result, FinalizedEntry(entries[id], result))
          /\ FinalizedEntry(entries[id], result).state = "terminal"
      BY <2>1, FinalizedEntryInv, StoreAssumptions
    <2>3. ~Live(FinalizedEntry(entries[id], result))
      BY <2>2 DEF Live, Active, ActiveStates
    <2>4. QED
      BY <1>6, <2>2, <2>3, ReplaceInv DEF Finalize
  <1>7. CASE UNCHANGED vars
    BY <1>7 DEF vars, IInv, OneLiveRun
  <1>8. QED
    BY <1>1, <1>2, <1>3, <1>4, <1>5, <1>6, <1>7 DEF Next

(* The inductive invariant holds of every reachable store.                 *)
LEMMA SpecInv == Spec => []IInv
  BY InitInv, NextInv, PTL DEF Spec
-----------------------------------------------------------------------------
(* For every number of executions, plans, runtimes and bounds: the store   *)
(* has its type.                                                           *)
THEOREM TypeCorrect == Spec => []TypeOK
  <1>1. IInv => TypeOK
    <2>1. IInv => \A id \in DOMAIN entries : entries[id] \in Entry(Plans, Result)
      BY DEF IInv, EntryInv
    <2>2. QED
      BY <2>1 DEF IInv, TypeOK
  <1>2. QED
    BY <1>1, SpecInv, PTL

(* Two executions are never live at once: start's look at every other      *)
(* entry suffices, also for entries that are being stopped.                *)
THEOREM OneLiveRunHolds == Spec => []OneLiveRun
  <1>1. IInv => OneLiveRun
    BY DEF IInv
  <1>2. QED
    BY <1>1, SpecInv, PTL

(* An authorization is good for one run: it is started at most once, and   *)
(* not after a stop, because both start and request_stop consume it.       *)
THEOREM AuthorizationSpentOnce == Spec => []AuthorizationIsSpentOnce
  <1>1. IInv => AuthorizationIsSpentOnce
    <2> SUFFICES ASSUME IInv, NEW id \in DOMAIN entries
                 PROVE  LET e == entries[id]
                        IN  /\ \A k \in DOMAIN e.events : e.events[k].code = "started" => k = 1
                            /\ e.state # "queued" => e.consumed
      BY DEF AuthorizationIsSpentOnce
    <2>1. EntryInv(Plans, Result, entries[id])
      BY DEF IInv
    <2>2. DOMAIN entries[id].events = 1..Len(entries[id].events)
      BY <2>1 DEF EntryInv, Entry
    <2>3. \A k \in DOMAIN entries[id].events : entries[id].events[k].code = "started" => k = 1
      BY <2>1, <2>2 DEF EntryInv, LogInv
    <2>4. entries[id].state # "queued" => entries[id].consumed
      BY <2>1 DEF EntryInv
    <2>5. QED
      BY <2>3, <2>4
  <1>2. QED
    BY <1>1, SpecInv, PTL

(* The event log of every execution replays to its snapshot.               *)
THEOREM LogReplays == Spec => []EventsReplayToSnapshot
  <1>1. IInv => EventsReplayToSnapshot
    <2> SUFFICES ASSUME IInv, NEW id \in DOMAIN entries
                 PROVE  LET e == entries[id]
                            n == Len(e.events)
                        IN  /\ e.sequence = n
                            /\ \A k \in 1..n : e.events[k].sequence = k
                            /\ \A k \in 2..n :
                                  /\ e.events[k].previous = e.events[k - 1].state
                                  /\ e.events[k].phase >= e.events[k - 1].phase
                            /\ IF n = 0
                               THEN e.state = "queued" /\ e.phase = QueuedPhase
                               ELSE /\ e.events[1].previous = "queued"
                                    /\ e.state = e.events[n].state
                                    /\ e.phase = e.events[n].phase
      BY DEF EventsReplayToSnapshot
    <2>1. LogInv(entries[id]) /\ entries[id].events \in Seq(Event)
      BY DEF IInv, EntryInv, Entry
    <2>2. Len(entries[id].events) \in Nat
      BY <2>1
    <2>3. QED
      BY <2>1, <2>2 DEF LogInv
  <1>2. QED
    BY <1>1, SpecInv, PTL

(* "completed" is never recorded without the planned runtime having been   *)
(* seen loading the model.                                                 *)
THEOREM CompletedIsEvidenced == Spec => []CompletedHasMatchingLoad
  <1>1. IInv => CompletedHasMatchingLoad
    <2> SUFFICES ASSUME IInv, NEW id \in DOMAIN entries,
                        entries[id].terminal # NoRecord,
                        entries[id].terminal.result.status = "completed"
                 PROVE  \E r \in entries[id].terminal.loads :
                            /\ r.observed = r.planned
                            /\ r.planned = entries[id].plan.part[r.subplan]
                            /\ r.subplan = IF entries[id].plan.part["benchmark"] # NoSubplan
                                           THEN "benchmark" ELSE "quickCheck"
      BY DEF CompletedHasMatchingLoad
    <2> DEFINE e == entries[id]
               sub == IF e.plan.part["benchmark"] # NoSubplan THEN "benchmark" ELSE "quickCheck"
    <2>1. EntryInv(Plans, Result, e)
      BY DEF IInv
    <2>2. e \in Entry(Plans, Result) /\ e.loads \subseteq Receipt
      BY <2>1 DEF EntryInv, Entry
    <2>3. CompletionEvidenced(e) /\ e.terminal.loads = e.loads
      BY <2>1 DEF EntryInv, TerminalInv
    <2>4. \E s \in Subplans : e.plan.part[s] # NoSubplan
      BY <2>1 DEF EntryInv
    <2>5. MatchingLoad(e, sub)
      BY <2>3, <2>4 DEF CompletionEvidenced, Subplans
    <2>6. PICK r \in e.loads : /\ r.subplan = sub
                               /\ r.observed.backend = r.planned.backend
                               /\ r.observed.build = r.planned.build
      BY <2>5 DEF MatchingLoad
    <2>7. r.planned \in Runtime /\ r.observed \in Runtime
      BY <2>2, <2>6 DEF Receipt
    <2>8. r.observed = r.planned
      BY <2>6, <2>7 DEF Runtime
    <2>9. r.planned = e.plan.part[r.subplan]
      BY <2>1 DEF EntryInv, ReceiptInv
    <2>10. QED
      BY <2>3, <2>6, <2>8, <2>9
  <1>2. QED
    BY <1>1, SpecInv, PTL

(* The terminal record and the entry it closed never disagree.             *)
THEOREM TerminalAgrees == Spec => []TerminalRecordAgrees
  <1>1. IInv => TerminalRecordAgrees
    BY DEF IInv, EntryInv, TerminalInv, TerminalRecordAgrees
  <1>2. QED
    BY <1>1, SpecInv, PTL

(* A subplan is observed at most once, and against its own plan.           *)
THEOREM LoadsAreUnique == Spec => []OneLoadPerSubplan
  <1>1. IInv => OneLoadPerSubplan
    BY DEF IInv, EntryInv, ReceiptInv, OneLoadPerSubplan
  <1>2. QED
    BY <1>1, SpecInv, PTL
-----------------------------------------------------------------------------
(* What a step may do to an entry, and the two action properties.          *)
Shown(e) == <<e.state, e.phase, e.current, e.total, e.series, e.checks, e.elapsed>>

Advances(e, f) ==
    /\ f.sequence >= e.sequence
    /\ f.phase >= e.phase
    /\ f.phase = e.phase => f.current >= e.current /\ f.total = e.total
    /\ f.series >= e.series /\ f.checks >= e.checks /\ f.elapsed >= e.elapsed
    /\ Shown(f) # Shown(e) => f.sequence = e.sequence + 1
    /\ e.state = "terminal" => f = e

(* An entry that is not touched advances, trivially.                       *)
LEMMA StandingStill == ASSUME NEW e, EntryInv(Plans, Result, e) PROVE Advances(e, e)
  <1>1. /\ e.sequence \in Nat /\ e.phase \in Phases /\ e.series \in Nat
        /\ e.checks \in Nat /\ e.elapsed \in Nat /\ e.current \in Nat
    BY DEF EntryInv, Entry
  <1>2. QED
    BY <1>1 DEF Advances, Phases

(* Replacing one entry by one it may advance to moves no other.            *)
LEMMA ReplaceAdvances ==
    ASSUME IInv, NEW id \in DOMAIN entries, NEW f, Replace(id, f), Advances(entries[id], f)
    PROVE  \A x \in DOMAIN entries : x \in DOMAIN entries' /\ Advances(entries[x], entries'[x])
  <1> TAKE x \in DOMAIN entries
  <1>1. x \in DOMAIN entries'
    BY DEF Replace
  <1>2. CASE x = id
    BY <1>1, <1>2 DEF Replace
  <1>3. CASE x # id
    <2>1. entries'[x] = entries[x]
      BY <1>3 DEF Replace
    <2>2. EntryInv(Plans, Result, entries[x])
      BY DEF IInv
    <2>3. QED
      BY <1>1, <2>1, <2>2, StandingStill
  <1>4. QED
    BY <1>2, <1>3

(* Every operation only lets entries advance.                              *)
LEMMA StepAdvances ==
    ASSUME IInv, [Next]_vars
    PROVE  \A x \in DOMAIN entries : x \in DOMAIN entries' /\ Advances(entries[x], entries'[x])
  <1> USE DEF EntryInv
  <1>1. ASSUME NEW plan \in Plans, Authorize(plan)
        PROVE  \A x \in DOMAIN entries : x \in DOMAIN entries' /\ Advances(entries[x], entries'[x])
    <2>1. nextId + 1 \notin DOMAIN entries
      BY LifecycleAssumption DEF IInv
    <2>2. \A x \in DOMAIN entries : x \in DOMAIN entries' /\ entries'[x] = entries[x]
      BY <1>1, <2>1 DEF Authorize
    <2>3. \A x \in DOMAIN entries : EntryInv(Plans, Result, entries[x])
      BY DEF IInv
    <2>4. QED
      BY <2>2, <2>3, StandingStill
  <1>2. ASSUME NEW id \in DOMAIN entries, Start(id)
        PROVE  \A x \in DOMAIN entries : x \in DOMAIN entries' /\ Advances(entries[x], entries'[x])
    <2>1. EntryInv(Plans, Result, entries[id]) /\ entries[id].state = "queued"
      BY <1>2 DEF Start, MayStart, IInv
    <2>2. Advances(entries[id], StartedEntry(entries[id]))
      <3> DEFINE e == entries[id]
      <3>1. /\ e.sequence \in Nat /\ e.series \in Nat /\ e.checks \in Nat /\ e.elapsed \in Nat
        BY <2>1 DEF Entry
      <3>2. e.phase = QueuedPhase
        BY <2>1, QueuedIsFresh
      <3>3. QED
        BY <2>1, <3>1, <3>2, StartedEntryInv DEF Advances, QueuedPhase, IntegrityRecheck
    <2>3. QED
      BY <1>2, <2>2, ReplaceAdvances DEF Start
  <1>3. ASSUME NEW id \in DOMAIN entries, NEW u \in Updates, UpdateProgress(id, u)
        PROVE  \A x \in DOMAIN entries : x \in DOMAIN entries' /\ Advances(entries[x], entries'[x])
    <2>1. EntryInv(Plans, Result, entries[id]) /\ MayProgress(entries[id], u) /\ Active(entries[id])
      BY <1>3 DEF UpdateProgress, MayProgress, IInv
    <2>2. entries[id].state # "terminal" /\ entries[id].sequence \in Nat
      BY <2>1 DEF Active, ActiveStates, Entry
    <2>3. Advances(entries[id], ProgressedEntry(entries[id], u))
      <3> DEFINE e == entries[id]
                 f == ProgressedEntry(e, u)
      <3>1. /\ f.sequence = e.sequence + 1 /\ f.phase >= e.phase /\ f.series >= e.series
            /\ f.checks >= e.checks /\ f.elapsed >= e.elapsed
            /\ f.phase = e.phase => f.current >= e.current /\ f.total = e.total
        BY <2>1, ProgressedEntryInv, StoreAssumptions
      <3>2. QED
        BY <2>2, <3>1 DEF Advances
    <2>4. QED
      BY <1>3, <2>3, ReplaceAdvances DEF UpdateProgress
  <1>4. ASSUME NEW id \in DOMAIN entries, RequestStop(id)
        PROVE  \A x \in DOMAIN entries : x \in DOMAIN entries' /\ Advances(entries[x], entries'[x])
    <2>1. EntryInv(Plans, Result, entries[id])
      BY DEF IInv
    <2>2. Advances(entries[id], StopRequestedEntry(entries[id]))
      <3> DEFINE e == entries[id]
                 f == StopRequestedEntry(e)
      <3>1. /\ e.sequence \in Nat /\ e.phase \in Phases /\ e.series \in Nat
            /\ e.checks \in Nat /\ e.elapsed \in Nat /\ e.state \in States
            /\ e.current \in Nat
        BY <2>1 DEF Entry
      <3>2. CASE e.state \in {"stop-requested", "terminal"}
        <4>1. f = e
          BY <2>1, <3>2, StopRequestedEntryInv
        <4>2. QED
          BY <2>1, <4>1, StandingStill
      <3>3. CASE e.state \in {"queued", "running"}
        <4>1. /\ f.sequence = e.sequence + 1 /\ f.phase = e.phase /\ f.series = e.series
              /\ f.checks = e.checks /\ f.elapsed = e.elapsed
              /\ f.current = e.current /\ f.total = e.total
          BY <2>1, <3>3, StopRequestedEntryInv
        <4>2. QED
          BY <3>1, <3>3, <4>1 DEF Advances, Phases
      <3>4. QED
        BY <3>1, <3>2, <3>3 DEF States
    <2>3. QED
      BY <1>4, <2>2, ReplaceAdvances DEF RequestStop
  <1>5. ASSUME NEW id \in DOMAIN entries, NEW s \in Subplans, NEW observed \in ObservedRuntimes,
               RecordRuntimeLoad(id, s, observed)
        PROVE  \A x \in DOMAIN entries : x \in DOMAIN entries' /\ Advances(entries[x], entries'[x])
    <2> DEFINE e == entries[id]
               f == LoadedEntry(e, s, observed)
    <2>1. EntryInv(Plans, Result, e) /\ MayRecordLoad(e, s) /\ Active(e)
      BY <1>5 DEF RecordRuntimeLoad, MayRecordLoad, IInv
    <2>2. /\ f.state = e.state /\ f.sequence = e.sequence /\ f.phase = e.phase
          /\ f.current = e.current /\ f.total = e.total /\ f.series = e.series
          /\ f.checks = e.checks /\ f.elapsed = e.elapsed
      BY <2>1, LoadedEntryInv, StoreAssumptions
    <2>3. Shown(f) = Shown(e)
      BY <2>2 DEF Shown
    <2>4. /\ e.sequence \in Nat /\ e.phase \in Phases /\ e.series \in Nat
          /\ e.checks \in Nat /\ e.elapsed \in Nat /\ e.state # "terminal"
          /\ e.current \in Nat
      BY <2>1 DEF Entry, Active, ActiveStates
    <2> HIDE DEF f
    <2>5. Advances(e, f)
      BY <2>2, <2>3, <2>4 DEF Advances, Phases
    <2>6. QED
      BY <1>5, <2>5, ReplaceAdvances DEF RecordRuntimeLoad, f
  <1>6. ASSUME NEW id \in DOMAIN entries, NEW result \in Result, Finalize(id, result)
        PROVE  \A x \in DOMAIN entries : x \in DOMAIN entries' /\ Advances(entries[x], entries'[x])
    <2> DEFINE e == entries[id]
               f == FinalizedEntry(e, result)
    <2>1. EntryInv(Plans, Result, e) /\ MayFinalize(e, result)
      BY <1>6 DEF Finalize, IInv
    <2>2. /\ e.state \in ActiveStates /\ f.sequence = e.sequence + 1
          /\ f.phase >= e.phase /\ f.series = e.series /\ f.checks = e.checks
          /\ f.elapsed = e.elapsed /\ f.current = e.current /\ f.total = e.total
      BY <2>1, FinalizedEntryInv, StoreAssumptions
    <2>3. /\ e.sequence \in Nat /\ e.series \in Nat /\ e.checks \in Nat /\ e.elapsed \in Nat
          /\ e.current \in Nat
      BY <2>1 DEF Entry
    <2> HIDE DEF f
    <2>4. Advances(e, f)
      BY <2>2, <2>3 DEF Advances, ActiveStates
    <2>5. QED
      BY <1>6, <2>4, ReplaceAdvances DEF Finalize, f
  <1>7. CASE UNCHANGED vars
    <2>1. entries' = entries
      BY <1>7 DEF vars
    <2>2. \A x \in DOMAIN entries : EntryInv(Plans, Result, entries[x])
      BY DEF IInv
    <2>3. QED
      BY <2>1, <2>2, StandingStill
  <1>8. QED
    BY <1>1, <1>2, <1>3, <1>4, <1>5, <1>6, <1>7 DEF Next

(* A terminal entry never changes again.                                   *)
THEOREM TerminalIsForever == Spec => TerminalIsFinal
  <1>1. IInv /\ [Next]_vars =>
            [\A id \in DOMAIN entries :
                entries[id].state = "terminal" => entries'[id] = entries[id]]_vars
    BY StepAdvances DEF Advances
  <1>2. QED
    BY <1>1, SpecInv, PTL DEF Spec, TerminalIsFinal

(* What a reader sees of an execution only advances, within a phase its    *)
(* position too, and anything new has a new sequence number.               *)
THEOREM SnapshotsAdvance == Spec => SnapshotsOnlyAdvance
  <1>1. IInv /\ [Next]_vars =>
          [\A id \in DOMAIN entries :
            /\ id \in DOMAIN entries'
            /\ LET e == entries[id]
                   f == entries'[id]
                   shown(x) == <<x.state, x.phase, x.current, x.total,
                                 x.series, x.checks, x.elapsed>>
               IN  /\ f.sequence >= e.sequence
                   /\ f.phase >= e.phase
                   /\ f.phase = e.phase => f.current >= e.current /\ f.total = e.total
                   /\ f.series >= e.series /\ f.checks >= e.checks /\ f.elapsed >= e.elapsed
                   /\ shown(f) # shown(e) => f.sequence = e.sequence + 1]_vars
    BY StepAdvances DEF Advances, Shown
  <1>2. QED
    BY <1>1, SpecInv, PTL DEF Spec, SnapshotsOnlyAdvance
-----------------------------------------------------------------------------
(* The store implements the promise.                                       *)
(* The image of replacing one entry: only that execution's place changes.  *)
LEMMA ReplaceImage ==
    ASSUME IInv, NEW id \in DOMAIN entries, NEW f, Replace(id, f)
    PROVE  /\ id \in 1..MaxId
           /\ StatusOf' = [StatusOf EXCEPT ![id] = EntryStatus(f)]
           /\ OutcomeOf' = [OutcomeOf EXCEPT ![id] =
                  IF f.terminal # NoRecord THEN f.terminal.result.status ELSE NoRecord]
           /\ EvidencedOf' = (EvidencedOf \ {id}) \cup (IF CompletionEvidenced(f) THEN {id} ELSE {})
           /\ StatusOf[id] = EntryStatus(entries[id])
           /\ OutcomeOf[id] = IF entries[id].terminal # NoRecord
                              THEN entries[id].terminal.result.status ELSE NoRecord
           /\ id \in EvidencedOf <=> CompletionEvidenced(entries[id])
  <1>1. /\ DOMAIN entries' = DOMAIN entries
        /\ entries'[id] = f
        /\ \A x \in DOMAIN entries : x # id => entries'[x] = entries[x]
    BY DEF Replace
  <1>2. id \in 1..MaxId
    BY LifecycleAssumption DEF IInv
  <1>3. StatusOf' = [StatusOf EXCEPT ![id] = EntryStatus(f)]
    BY <1>1, <1>2 DEF StatusOf
  <1>4. OutcomeOf' = [OutcomeOf EXCEPT ![id] =
                  IF f.terminal # NoRecord THEN f.terminal.result.status ELSE NoRecord]
    BY <1>1, <1>2 DEF OutcomeOf
  <1>5. EvidencedOf' = (EvidencedOf \ {id}) \cup (IF CompletionEvidenced(f) THEN {id} ELSE {})
    BY <1>1 DEF EvidencedOf
  <1>6. QED
    BY <1>2, <1>3, <1>4, <1>5 DEF StatusOf, OutcomeOf, EvidencedOf

(* A replacement that leaves an execution's place alone is a stutter.      *)
LEMMA ReplaceStutters ==
    ASSUME IInv, NEW id \in DOMAIN entries, NEW f, Replace(id, f),
           EntryStatus(f) = EntryStatus(entries[id]), f.terminal = entries[id].terminal,
           CompletionEvidenced(f) <=> CompletionEvidenced(entries[id])
    PROVE  UNCHANGED <<StatusOf, OutcomeOf, EvidencedOf>>
  <1>1. StatusOf = [x \in 1..MaxId |-> StatusOf[x]] /\ OutcomeOf = [x \in 1..MaxId |-> OutcomeOf[x]]
    BY DEF StatusOf, OutcomeOf
  <1>2. StatusOf' = StatusOf
    BY <1>1, ReplaceImage
  <1>3. OutcomeOf' = OutcomeOf
    BY <1>1, ReplaceImage
  <1>4. EvidencedOf' = EvidencedOf
    BY ReplaceImage
  <1>5. QED
    BY <1>2, <1>3, <1>4

(* A replacement that keeps the terminal record decides nothing.           *)
LEMMA ReplaceDecidesNothing ==
    ASSUME IInv, NEW id \in DOMAIN entries, NEW f, Replace(id, f),
           f.terminal = entries[id].terminal
    PROVE  OutcomeOf' = OutcomeOf
  <1>1. /\ DOMAIN entries' = DOMAIN entries
        /\ \A x \in DOMAIN entries : entries'[x].terminal = entries[x].terminal
    BY DEF Replace
  <1>2. QED
    BY <1>1 DEF OutcomeOf

(* Every operation is a step of the promise, or leaves its image alone.    *)
LEMMA StepImplements ==
    ASSUME IInv, [Next]_vars
    PROVE  Promise!Next \/ UNCHANGED <<StatusOf, OutcomeOf, EvidencedOf>>
  <1> USE DEF Promise!Occupying
  <1>1. ASSUME NEW plan \in Plans, Authorize(plan)
        PROVE  Promise!Next \/ UNCHANGED <<StatusOf, OutcomeOf, EvidencedOf>>
    <2>1. CASE \A s \in Subplans : plan.part[s] = NoSubplan
      BY <1>1, <2>1 DEF Authorize, StatusOf, OutcomeOf, EvidencedOf
    <2>2. CASE ~(\A s \in Subplans : plan.part[s] = NoSubplan)
      <3> DEFINE n == nextId + 1
      <3>1. /\ EntryInv(Plans, Result, NewEntry(plan)) /\ NewEntry(plan).state = "queued"
            /\ ~CompletionEvidenced(NewEntry(plan)) /\ NewEntry(plan).terminal = NoRecord
        BY <2>2, NewEntryInv DEF NewEntry
      <3>2. /\ DOMAIN entries' = DOMAIN entries \cup {n}
            /\ n \notin DOMAIN entries /\ n \in 1..MaxId
            /\ entries'[n] = NewEntry(plan)
            /\ \A x \in DOMAIN entries : entries'[x] = entries[x]
        BY <1>1, <2>2, LifecycleAssumption DEF Authorize, IInv
      <3> HIDE DEF n
      <3>3. EntryStatus(NewEntry(plan)) = "authorized"
        BY <3>1, StatusCases
      <3>4. StatusOf[n] = "unissued" /\ StatusOf' = [StatusOf EXCEPT ![n] = "authorized"]
        BY <3>2, <3>3 DEF StatusOf
      <3>5. OutcomeOf' = OutcomeOf
        BY <3>1, <3>2 DEF OutcomeOf
      <3>6. EvidencedOf' = EvidencedOf
        BY <3>1, <3>2 DEF EvidencedOf
      <3>7. Promise!Authorize(n)
        BY <3>4, <3>5, <3>6 DEF Promise!Authorize
      <3>8. QED
        BY <3>2, <3>7 DEF Promise!Next
    <2>3. QED
      BY <2>1, <2>2
  <1>2. ASSUME NEW id \in DOMAIN entries, Start(id)
        PROVE  Promise!Next
    <2> DEFINE f == StartedEntry(entries[id])
    <2>1. /\ EntryInv(Plans, Result, entries[id]) /\ entries[id].state = "queued"
          /\ ~AnotherRunActive(entries, id) /\ Replace(id, f)
      BY <1>2 DEF Start, MayStart, IInv
    <2>2. /\ EntryInv(Plans, Result, f) /\ f.state = "running" /\ f.terminal = entries[id].terminal
          /\ CompletionEvidenced(f) <=> CompletionEvidenced(entries[id])
      BY <2>1, StartedEntryInv
    <2> HIDE DEF f
    <2>3. EntryStatus(f) = "live" /\ EntryStatus(entries[id]) = "authorized"
      BY <2>1, <2>2, StatusCases
    <2>4. /\ id \in 1..MaxId /\ StatusOf[id] = "authorized"
          /\ StatusOf' = [StatusOf EXCEPT ![id] = "live"]
      BY <2>1, <2>3, ReplaceImage
    <2>5. OutcomeOf' = OutcomeOf
      BY <2>1, <2>2, ReplaceDecidesNothing
    <2>6. EvidencedOf' = EvidencedOf
      BY <2>1, <2>2, ReplaceImage
    <2>7. \A y \in 1..MaxId : StatusOf[y] \notin {"withdrawn", "live", "stopping"}
      <3> TAKE y \in 1..MaxId
      <3>1. CASE y \notin DOMAIN entries
        BY <3>1 DEF StatusOf
      <3>2. CASE y \in DOMAIN entries
        <4>1. CASE y = id
          BY <2>4, <4>1
        <4>2. CASE y # id
          <5>1. ~Active(entries[y])
            BY <2>1, <3>2, <4>2 DEF AnotherRunActive
          <5>2. EntryInv(Plans, Result, entries[y])
            BY <3>2 DEF IInv
          <5>3. EntryStatus(entries[y]) \in {"authorized", "closed"}
            <6>1. entries[y].state \in {"queued", "terminal"}
              BY <5>1, <5>2 DEF EntryInv, Entry, States, Active, ActiveStates
            <6>2. QED
              BY <5>2, <6>1, StatusCases
          <5>4. QED
            BY <3>2, <5>3 DEF StatusOf
        <4>3. QED
          BY <4>1, <4>2
      <3>3. QED
        BY <3>1, <3>2
    <2>8. Promise!Begin(id)
      BY <2>4, <2>5, <2>6, <2>7 DEF Promise!Begin
    <2>9. QED
      BY <2>4, <2>8 DEF Promise!Next
  <1>3. ASSUME NEW id \in DOMAIN entries, NEW u \in Updates, UpdateProgress(id, u)
        PROVE  UNCHANGED <<StatusOf, OutcomeOf, EvidencedOf>>
    <2> DEFINE e == entries[id]
               f == ProgressedEntry(e, u)
    <2>1. EntryInv(Plans, Result, e) /\ MayProgress(e, u) /\ Replace(id, f)
      BY <1>3 DEF UpdateProgress, IInv
    <2>2. /\ EntryInv(Plans, Result, f) /\ f.state = e.state /\ f.terminal = e.terminal
          /\ Codes(f) = Codes(e) \cup {"progress"}
          /\ CompletionEvidenced(f) <=> CompletionEvidenced(e)
      BY <2>1, ProgressedEntryInv, StoreAssumptions
    <2> HIDE DEF f
    <2>3. EntryStatus(f) = EntryStatus(e)
      BY <2>2 DEF EntryStatus
    <2>4. QED
      BY <2>1, <2>2, <2>3, ReplaceStutters
  <1>4. ASSUME NEW id \in DOMAIN entries, RequestStop(id)
        PROVE  Promise!Next \/ UNCHANGED <<StatusOf, OutcomeOf, EvidencedOf>>
    <2> DEFINE e == entries[id]
               f == StopRequestedEntry(e)
    <2>1. EntryInv(Plans, Result, e) /\ Replace(id, f)
      BY <1>4 DEF RequestStop, IInv
    <2>2. /\ EntryInv(Plans, Result, f) /\ f.terminal = e.terminal
          /\ e.state \in {"stop-requested", "terminal"} => f = e
          /\ e.state \in {"queued", "running"} =>
                /\ f.state = "stop-requested"
                /\ Codes(f) = Codes(e) \cup {"stop-requested"}
          /\ CompletionEvidenced(f) <=> CompletionEvidenced(e)
      BY <2>1, StopRequestedEntryInv
    <2> HIDE DEF f
    <2>3. CASE e.state \in {"stop-requested", "terminal"}
      BY <2>1, <2>2, <2>3, ReplaceStutters
    <2>4. CASE e.state \in {"queued", "running"}
      <3>1. OutcomeOf' = OutcomeOf
        BY <2>1, <2>2, ReplaceDecidesNothing
      <3>2. EvidencedOf' = EvidencedOf
        BY <2>1, <2>2, ReplaceImage
      <3>3. /\ StatusOf[id] = "authorized" => EntryStatus(f) = "withdrawn"
            /\ StatusOf[id] = "live" => EntryStatus(f) = "stopping"
            /\ StatusOf[id] \in {"authorized", "live"}
        <4>1. StatusOf[id] = EntryStatus(e)
          BY <2>1, ReplaceImage
        <4>2. CASE e.state = "queued"
          <5>1. Codes(e) = {}
            BY <2>1, <4>2, QueuedIsFresh DEF EntryInv
          <5>2. f.state = "stop-requested" /\ "started" \notin Codes(f)
            BY <2>2, <4>2, <5>1
          <5>3. EntryStatus(f) = "withdrawn" /\ EntryStatus(e) = "authorized"
            BY <2>1, <2>2, <4>2, <5>2, StatusCases
          <5>4. QED
            BY <4>1, <5>3
        <4>3. CASE e.state = "running"
          <5>1. "started" \in Codes(f) /\ f.state = "stop-requested"
            BY <2>1, <2>2, <4>3 DEF EntryInv
          <5>2. EntryStatus(f) = "stopping" /\ EntryStatus(e) = "live"
            BY <2>1, <2>2, <4>3, <5>1, StatusCases
          <5>3. QED
            BY <4>1, <5>2
        <4>4. QED
          BY <2>4, <4>2, <4>3
      <3>4. StatusOf' = [StatusOf EXCEPT ![id] = EntryStatus(f)] /\ id \in 1..MaxId
        BY <2>1, ReplaceImage
      <3>5. Promise!RequestStop(id)
        BY <3>1, <3>2, <3>3, <3>4 DEF Promise!RequestStop
      <3>6. QED
        BY <3>4, <3>5 DEF Promise!Next
    <2>5. QED
      BY <2>1, <2>3, <2>4 DEF EntryInv, Entry, States
  <1>5. ASSUME NEW id \in DOMAIN entries, NEW s \in Subplans, NEW observed \in ObservedRuntimes,
               RecordRuntimeLoad(id, s, observed)
        PROVE  Promise!Next \/ UNCHANGED <<StatusOf, OutcomeOf, EvidencedOf>>
    <2> DEFINE e == entries[id]
               f == LoadedEntry(e, s, observed)
    <2>1. EntryInv(Plans, Result, e) /\ MayRecordLoad(e, s) /\ Active(e) /\ Replace(id, f)
      BY <1>5 DEF RecordRuntimeLoad, MayRecordLoad, IInv
    <2>2. /\ f.state = e.state /\ f.terminal = e.terminal /\ Codes(f) = Codes(e)
          /\ CompletionEvidenced(e) => CompletionEvidenced(f)
      BY <2>1, LoadedEntryInv, StoreAssumptions
    <2> HIDE DEF f
    <2>3. EntryStatus(f) = EntryStatus(e)
      BY <2>2 DEF EntryStatus
    <2>4. CASE CompletionEvidenced(f) <=> CompletionEvidenced(e)
      BY <2>1, <2>2, <2>3, <2>4, ReplaceStutters
    <2>5. CASE CompletionEvidenced(f) /\ ~CompletionEvidenced(e)
      <3>1. EvidencedOf' = EvidencedOf \cup {id} /\ id \in 1..MaxId
        BY <2>1, <2>5, ReplaceImage
      <3>2. StatusOf' = StatusOf
        <4>1. StatusOf = [x \in 1..MaxId |-> StatusOf[x]]
          BY DEF StatusOf
        <4>2. QED
          BY <2>1, <2>3, <4>1, ReplaceImage
      <3>3. OutcomeOf' = OutcomeOf
        BY <2>1, <2>2, ReplaceDecidesNothing
      <3>4. StatusOf[id] \in {"withdrawn", "live", "stopping"}
        <4>1. StatusOf[id] = EntryStatus(e)
          BY <2>1, ReplaceImage
        <4>2. EntryStatus(e) \in {"withdrawn", "live", "stopping"}
          BY <2>1, StatusCases
        <4>3. QED
          BY <4>1, <4>2
      <3>5. Promise!Observe(id)
        BY <3>1, <3>2, <3>3, <3>4 DEF Promise!Observe
      <3>6. QED
        BY <3>1, <3>5 DEF Promise!Next
    <2>6. QED
      BY <2>2, <2>4, <2>5
  <1>6. ASSUME NEW id \in DOMAIN entries, NEW result \in Result, Finalize(id, result)
        PROVE  Promise!Next
    <2> DEFINE e == entries[id]
               f == FinalizedEntry(e, result)
    <2>1. EntryInv(Plans, Result, e) /\ MayFinalize(e, result) /\ Replace(id, f)
      BY <1>6 DEF Finalize, IInv
    <2>2. /\ EntryInv(Plans, Result, f) /\ e.state \in ActiveStates /\ f.state = "terminal"
          /\ f.terminal # NoRecord /\ f.terminal.result = result
          /\ CompletionEvidenced(f) <=> CompletionEvidenced(e)
      BY <2>1, FinalizedEntryInv, StoreAssumptions
    <2> HIDE DEF f
    <2>3. EntryStatus(f) = "closed" /\ EntryStatus(e) \in {"withdrawn", "live", "stopping"}
      BY <2>1, <2>2, StatusCases DEF Active
    <2>4. /\ id \in 1..MaxId
          /\ StatusOf[id] \in {"withdrawn", "live", "stopping"}
          /\ StatusOf' = [StatusOf EXCEPT ![id] = "closed"]
          /\ OutcomeOf' = [OutcomeOf EXCEPT ![id] = result.status]
          /\ EvidencedOf' = EvidencedOf
          /\ id \in EvidencedOf <=> CompletionEvidenced(e)
      BY <2>1, <2>2, <2>3, ReplaceImage
    <2>5. result.status = "completed" => id \in EvidencedOf'
      BY <2>1, <2>4 DEF MayFinalize
    <2>6. Promise!Close(id, result.status)
      BY <2>4, <2>5 DEF Promise!Close
    <2>7. result.status \in DomainStatuses
      BY LifecycleAssumption DEF Result
    <2>8. QED
      BY <2>4, <2>6, <2>7 DEF Promise!Next
  <1>7. CASE UNCHANGED vars
    BY <1>7 DEF vars, StatusOf, OutcomeOf, EvidencedOf
  <1>8. QED
    BY <1>1, <1>2, <1>3, <1>4, <1>5, <1>6, <1>7 DEF Next

(* The empty store stands for the promise's initial state.                 *)
LEMMA InitImplements == Init => Promise!Init
  <1> SUFFICES ASSUME Init PROVE Promise!Init
    OBVIOUS
  <1>1. DOMAIN entries = {}
    BY DEF Init
  <1>2. StatusOf = [x \in 1..MaxId |-> "unissued"] /\ OutcomeOf = [x \in 1..MaxId |-> NoRecord]
    BY <1>1 DEF StatusOf, OutcomeOf
  <1>3. EvidencedOf = {}
    BY <1>1 DEF EvidencedOf
  <1>4. QED
    BY <1>2, <1>3 DEF Promise!Init

(* The store keeps the runner's promise: its operations, in any order and  *)
(* for any plans, are steps of OneRunExecution or leave it standing.       *)
THEOREM ImplementsPromise == Spec => KeepsThePromise
  <1>1. IInv /\ [Next]_vars => [Promise!Next]_(Promise!vars)
    BY StepImplements DEF Promise!vars
  <1>2. QED
    BY <1>1, InitImplements, SpecInv, PTL DEF Spec, KeepsThePromise, Promise!Spec
=============================================================================
