--------------------------- MODULE ExecutionLemmas ---------------------------
(***************************************************************************)
(* What each operation of ExecutionEntry makes of a sound entry, one lemma *)
(* per operation, and what the operators of ResultAdapter give for every   *)
(* run of children.  The store (ExecutionLifecycleProofs), the admission   *)
(* (ResultAdmissionProofs) and the service (ExecutionServiceProofs) use    *)
(* them, each with its own plans P and results R.                          *)
(***************************************************************************)
EXTENDS ExecutionEntry, ResultAdapter, SequenceTheorems, FiniteSetTheorems, TLAPS

(* Every plan says of both subplans what their runtime is, or has none.    *)
WellPlanned(P) == \A p \in P : p.part \in [Subplans -> Runtime \cup {NoSubplan}]

(* The progress a caller may report, whatever its own bounds.              *)
Progress == [phase : Phases, current : Nat, total : Nat,
             series : Nat, checks : Nat, elapsed : Nat]

(* The log of an entry: what EventsReplayToSnapshot says, and that no      *)
(* event leads back to "queued": a queued entry is one with an empty log.  *)
LogInv(e) ==
    LET n == Len(e.events)
    IN  /\ e.sequence = n
        /\ \A k \in 1..n : e.events[k].sequence = k
        /\ \A k \in 2..n : /\ e.events[k].previous = e.events[k - 1].state
                           /\ e.events[k].phase >= e.events[k - 1].phase
        /\ \A k \in 1..n : e.events[k].state # "queued"
        /\ \A k \in 1..n : e.events[k].code = "started" => k = 1
        /\ n = 0 => e.state = "queued" /\ e.phase = QueuedPhase
        /\ n > 0 => /\ e.events[1].previous = "queued"
                    /\ e.state = e.events[n].state
                    /\ e.phase = e.events[n].phase

ReceiptInv(e) ==
    /\ \A r, q \in e.loads : r.subplan = q.subplan => r = q
    /\ \A r \in e.loads : r.planned = e.plan.part[r.subplan]

TerminalInv(e) ==
    /\ e.state = "terminal" <=> e.terminal # NoRecord
    /\ e.terminal # NoRecord =>
          /\ e.terminal.sequence = e.sequence
          /\ e.terminal.phase = e.phase
          /\ e.terminal.loads = e.loads
          /\ e.terminal.result.plan = e.plan.id
          /\ e.terminal.result.status = "completed" => CompletionEvidenced(e)

EntryInv(P, R, e) ==
    /\ e \in Entry(P, R)
    /\ LogInv(e)
    /\ ReceiptInv(e)
    /\ TerminalInv(e)
    /\ e.consumed = (e.state # "queued")
    /\ e.state = "running" => "started" \in Codes(e)
    /\ \E s \in Subplans : e.plan.part[s] # NoSubplan

-----------------------------------------------------------------------------
(* What appending one event does to the log.                               *)
LEMMA LogAppend ==
    ASSUME NEW P, NEW R, NEW e \in Entry(P, R), NEW f \in Entry(P, R),
           NEW ev \in Event, LogInv(e),
           f.events = Append(e.events, ev), f.sequence = e.sequence + 1,
           f.state = ev.state, f.phase = ev.phase,
           ev.sequence = e.sequence + 1, ev.previous = e.state,
           ev.phase >= e.phase, ev.state # "queued",
           ev.code = "started" => e.state = "queued"
    PROVE  LogInv(f) /\ Codes(f) = Codes(e) \cup {ev.code}
  <1> DEFINE n == Len(e.events)
  <1>1. /\ e.events \in Seq(Event)
        /\ f.events \in Seq(Event)
        /\ n \in Nat
        /\ Len(f.events) = n + 1
        /\ f.events[n + 1] = ev
        /\ \A k \in 1..n : f.events[k] = e.events[k]
    BY DEF Entry
  <1>2. e.state = "queued" <=> n = 0
    <2>1. n = 0 => e.state = "queued"
      BY DEF LogInv
    <2>2. ASSUME n # 0 PROVE e.state # "queued"
      <3>1. n > 0 /\ n \in 1..n
        BY <1>1, <2>2
      <3>2. e.state = e.events[n].state /\ e.events[n].state # "queued"
        BY <3>1 DEF LogInv
      <3> QED
        BY <3>2
    <2> QED
      BY <2>1, <2>2
  <1>3. \A k \in 1..(n + 1) : f.events[k].sequence = k
    BY <1>1 DEF LogInv
  <1>4. \A k \in 2..(n + 1) : /\ f.events[k].previous = f.events[k - 1].state
                              /\ f.events[k].phase >= f.events[k - 1].phase
    <2> TAKE k \in 2..(n + 1)
    <2>1. CASE k = n + 1
      BY <1>1, <2>1 DEF LogInv
    <2>2. CASE k # n + 1
      BY <1>1, <2>2 DEF LogInv
    <2>3. QED
      BY <2>1, <2>2
  <1>5. \A k \in 1..(n + 1) : /\ f.events[k].state # "queued"
                              /\ f.events[k].code = "started" => k = 1
    BY <1>1, <1>2 DEF LogInv
  <1>6. f.events[1].previous = "queued"
    <2>1. CASE n = 0
      BY <1>1, <1>2, <2>1
    <2>2. CASE n > 0
      BY <1>1, <2>2 DEF LogInv
    <2>3. QED
      BY <1>1, <2>1, <2>2
  <1>7. LogInv(f)
    BY <1>1, <1>3, <1>4, <1>5, <1>6 DEF LogInv
  <1>8. Codes(f) = Codes(e) \cup {ev.code}
    <2>1. DOMAIN f.events = 1..(n + 1) /\ DOMAIN e.events = 1..n
      BY <1>1
    <2>2. QED
      BY <1>1, <2>1 DEF Codes
  <1>9. QED
    BY <1>7, <1>8

(* A queued entry has an empty log, so it has not started.                 *)
LEMMA QueuedIsFresh ==
    ASSUME NEW P, NEW R, NEW e \in Entry(P, R), LogInv(e)
    PROVE  /\ e.state = "queued" <=> e.events = <<>>
           /\ e.state = "queued" => e.phase = QueuedPhase /\ Codes(e) = {}
  <1>1. e.events \in Seq(Event) /\ Len(e.events) \in Nat
    BY DEF Entry
  <1>2. e.state = "queued" <=> Len(e.events) = 0
    BY <1>1 DEF LogInv, Entry, Event
  <1>3. Len(e.events) = 0 <=> e.events = <<>>
    BY <1>1, EmptySeq
  <1>4. e.events = <<>> => Codes(e) = {}
    BY DEF Codes
  <1>5. QED
    BY <1>1, <1>2, <1>3, <1>4 DEF LogInv

(* A change of state keeps every field but the ones it names, and the log. *)
LEMMA TransitionFields ==
    ASSUME NEW P, NEW R, NEW e \in Entry(P, R), NEW state \in States, NEW phase \in Phases,
           NEW code \in {"started", "progress", "stop-requested", "terminal"},
           LogInv(e), phase >= e.phase, state # "queued",
           code = "started" => e.state = "queued"
    PROVE  LET f == Transition(e, state, phase, code)
           IN  /\ f \in Entry(P, R) /\ LogInv(f)
               /\ Codes(f) = Codes(e) \cup {code}
               /\ f.state = state /\ f.phase = phase /\ f.sequence = e.sequence + 1
               /\ f.plan = e.plan /\ f.loads = e.loads /\ f.consumed = e.consumed
               /\ f.terminal = e.terminal /\ f.series = e.series /\ f.checks = e.checks
               /\ f.elapsed = e.elapsed /\ f.current = e.current /\ f.total = e.total
  <1> DEFINE ev == [sequence |-> e.sequence + 1, previous |-> e.state,
                    state |-> state, phase |-> phase, code |-> code]
             f == Transition(e, state, phase, code)
  <1>1. ev \in Event
    BY DEF Event, Entry
  <1>2. Append(e.events, ev) \in Seq(Event)
    BY <1>1, AppendProperties DEF Entry
  <1>3. /\ ev.sequence = e.sequence + 1 /\ ev.previous = e.state
        /\ ev.state = state /\ ev.phase = phase /\ ev.code = code
    OBVIOUS
  <1>4. f = [e EXCEPT !.sequence = @ + 1, !.state = state, !.phase = phase,
                      !.events = Append(@, ev)]
    BY DEF Transition
  <1> HIDE DEF ev, f
  <1>5. e.sequence + 1 \in Nat
    BY DEF Entry
  <1>6. /\ f \in Entry(P, R)
        /\ f.state = state /\ f.phase = phase /\ f.sequence = e.sequence + 1
        /\ f.events = Append(e.events, ev)
        /\ f.plan = e.plan /\ f.loads = e.loads /\ f.consumed = e.consumed
        /\ f.terminal = e.terminal /\ f.series = e.series /\ f.checks = e.checks
        /\ f.elapsed = e.elapsed /\ f.current = e.current /\ f.total = e.total
    BY <1>2, <1>4, <1>5 DEF Entry
  <1>7. LogInv(f) /\ Codes(f) = Codes(e) \cup {ev.code}
    BY <1>1, <1>3, <1>6, LogAppend
  <1>8. QED
    BY <1>3, <1>6, <1>7 DEF f
-----------------------------------------------------------------------------
(* One lemma per operation on an entry.                                    *)
LEMMA NewEntryInv ==
    ASSUME NEW P, NEW R, NEW plan \in P, ~(\A s \in Subplans : plan.part[s] = NoSubplan)
    PROVE  /\ EntryInv(P, R, NewEntry(plan))
           /\ NewEntry(plan).state = "queued"
           /\ ~CompletionEvidenced(NewEntry(plan))
  <1> DEFINE e == NewEntry(plan)
  <1>1. e \in Entry(P, R)
    BY DEF NewEntry, Entry, States, Phases, QueuedPhase
  <1>2. Len(e.events) = 0
    BY DEF NewEntry
  <1>3. LogInv(e)
    BY <1>2 DEF LogInv, NewEntry, QueuedPhase
  <1>4. ReceiptInv(e) /\ TerminalInv(e)
    BY DEF ReceiptInv, TerminalInv, NewEntry
  <1>5. ~CompletionEvidenced(e)
    BY DEF CompletionEvidenced, MatchingLoad, NewEntry, Subplans
  <1>6. QED
    BY <1>1, <1>3, <1>4, <1>5 DEF EntryInv, NewEntry

(* What start makes of a queued entry.                                     *)
LEMMA StartedEntryInv ==
    ASSUME NEW P, NEW R, NEW e, EntryInv(P, R, e), e.state = "queued"
    PROVE  LET f == StartedEntry(e)
           IN  /\ EntryInv(P, R, f)
               /\ f.state = "running" /\ f.sequence = e.sequence + 1
               /\ f.phase = IntegrityRecheck /\ f.phase >= e.phase
               /\ f.series = e.series /\ f.checks = e.checks /\ f.elapsed = e.elapsed
               /\ f.plan = e.plan /\ f.loads = e.loads /\ f.terminal = e.terminal
               /\ Codes(f) = {"started"}
               /\ CompletionEvidenced(f) <=> CompletionEvidenced(e)
  <1> DEFINE d == [e EXCEPT !.consumed = TRUE]
             f == Transition(d, "running", IntegrityRecheck, "started")
  <1>0. e \in Entry(P, R) /\ LogInv(e)
    BY DEF EntryInv
  <1>1. /\ d \in Entry(P, R) /\ d.consumed = TRUE /\ d.events = e.events
        /\ d.state = e.state /\ d.phase = e.phase /\ d.sequence = e.sequence
        /\ d.plan = e.plan /\ d.loads = e.loads /\ d.terminal = e.terminal
        /\ d.series = e.series /\ d.checks = e.checks /\ d.elapsed = e.elapsed
    BY <1>0 DEF Entry
  <1> HIDE DEF d
  <1>a. LogInv(d) /\ Codes(d) = Codes(e)
    BY <1>0, <1>1 DEF LogInv, Codes
  <1>2. d.phase = QueuedPhase /\ Codes(e) = {}
    BY <1>0, <1>1, QueuedIsFresh
  <1>b. /\ "running" \in States /\ "running" # "queued"
        /\ IntegrityRecheck \in Phases /\ IntegrityRecheck >= d.phase
    BY <1>2 DEF States, Phases, IntegrityRecheck, QueuedPhase
  <1>3. /\ f \in Entry(P, R) /\ LogInv(f) /\ Codes(f) = Codes(d) \cup {"started"}
        /\ f.state = "running" /\ f.phase = IntegrityRecheck
        /\ f.sequence = d.sequence + 1
        /\ f.plan = d.plan /\ f.loads = d.loads /\ f.consumed = d.consumed
        /\ f.terminal = d.terminal /\ f.series = d.series /\ f.checks = d.checks
        /\ f.elapsed = d.elapsed
    BY <1>1, <1>a, <1>b, TransitionFields
  <1> HIDE DEF f
  <1>4. f = StartedEntry(e)
    BY DEF StartedEntry, d, f
  <1>5. CompletionEvidenced(f) <=> CompletionEvidenced(e)
    BY <1>1, <1>3 DEF CompletionEvidenced, MatchingLoad
  <1>c. e.terminal = NoRecord
    BY DEF EntryInv, TerminalInv
  <1>6. ReceiptInv(f) /\ TerminalInv(f)
    BY <1>1, <1>3, <1>c DEF EntryInv, ReceiptInv, TerminalInv
  <1>7. EntryInv(P, R, f)
    BY <1>1, <1>3, <1>6 DEF EntryInv
  <1>8. QED
    BY <1>1, <1>2, <1>a, <1>b, <1>3, <1>4, <1>5, <1>7

(* What an admitted progress update makes of an active entry.              *)
LEMMA ProgressedEntryInv ==
    ASSUME NEW P, NEW R, NEW e, EntryInv(P, R, e), NEW u \in Progress,
           MayProgress(e, u)
    PROVE  LET f == ProgressedEntry(e, u)
           IN  /\ EntryInv(P, R, f)
               /\ f.state = e.state /\ f.sequence = e.sequence + 1
               /\ f.phase >= e.phase /\ f.series >= e.series /\ f.checks >= e.checks
               /\ f.elapsed >= e.elapsed
               /\ f.phase = e.phase => f.current >= e.current /\ f.total = e.total
               /\ f.phase = u.phase /\ f.current = u.current /\ f.total = u.total
               /\ f.series = u.series /\ f.checks = u.checks /\ f.elapsed = u.elapsed
               /\ f.plan = e.plan /\ f.loads = e.loads /\ f.terminal = e.terminal
               /\ Codes(f) = Codes(e) \cup {"progress"}
               /\ CompletionEvidenced(f) <=> CompletionEvidenced(e)
  <1> DEFINE ev == [sequence |-> e.sequence + 1, previous |-> e.state,
                    state |-> e.state, phase |-> u.phase, code |-> "progress"]
             f == ProgressedEntry(e, u)
  <1>1. /\ e \in Entry(P, R) /\ LogInv(e) /\ e.state \in ActiveStates
        /\ u.phase \in Phases /\ u.current \in Nat /\ u.total \in Nat
        /\ u.series \in Nat /\ u.checks \in Nat /\ u.elapsed \in Nat
    BY DEF EntryInv, MayProgress, Active, Progress
  <1>2. ~ProgressRegresses(e, u)
    BY DEF MayProgress
  <1>0. e \in Entry(P, R)
    BY DEF EntryInv
  <1>a. /\ e.phase \in Phases /\ e.series \in Nat /\ e.checks \in Nat /\ e.elapsed \in Nat
        /\ e.sequence \in Nat /\ e.current \in Nat
    BY <1>0 DEF Entry
  <1>3. /\ u.phase >= e.phase /\ u.series >= e.series
        /\ u.checks >= e.checks /\ u.elapsed >= e.elapsed
        /\ u.phase = e.phase => u.current >= e.current /\ u.total = e.total
    BY <1>1, <1>2, <1>a DEF ProgressRegresses, Phases
  <1>4. ev \in Event
    BY <1>1 DEF Event, Entry
  <1>5. Append(e.events, ev) \in Seq(Event)
    BY <1>1, <1>4, AppendProperties DEF Entry
  <1>6. /\ ev.sequence = e.sequence + 1 /\ ev.previous = e.state
        /\ ev.state = e.state /\ ev.phase = u.phase /\ ev.code = "progress"
    OBVIOUS
  <1>7. f = [e EXCEPT !.sequence = @ + 1, !.phase = u.phase, !.current = u.current,
                      !.total = u.total, !.series = u.series, !.checks = u.checks,
                      !.elapsed = u.elapsed, !.events = Append(@, ev)]
    BY DEF ProgressedEntry
  <1> HIDE DEF ev, f
  <1>b. e.sequence + 1 \in Nat
    BY <1>a
  <1>8. /\ f \in Entry(P, R)
        /\ f.state = e.state /\ f.phase = u.phase /\ f.sequence = e.sequence + 1
        /\ f.events = Append(e.events, ev)
        /\ f.plan = e.plan /\ f.loads = e.loads /\ f.consumed = e.consumed
        /\ f.terminal = e.terminal /\ f.series = u.series /\ f.checks = u.checks
        /\ f.elapsed = u.elapsed /\ f.current = u.current /\ f.total = u.total
    BY <1>0, <1>b, <1>1, <1>5, <1>7 DEF Entry
  <1>9. LogInv(f) /\ Codes(f) = Codes(e) \cup {"progress"}
    <2>1. e.state # "queued" /\ ev.code # "started"
      BY <1>1, <1>6 DEF ActiveStates
    <2>2. QED
      BY <1>1, <1>3, <1>4, <1>6, <1>8, <2>1, LogAppend
  <1>10. CompletionEvidenced(f) <=> CompletionEvidenced(e)
    BY <1>8 DEF CompletionEvidenced, MatchingLoad
  <1>11. e.terminal = NoRecord
    BY <1>1 DEF EntryInv, TerminalInv, ActiveStates
  <1>12. ReceiptInv(f) /\ TerminalInv(f)
    BY <1>1, <1>8, <1>11 DEF EntryInv, ReceiptInv, TerminalInv, ActiveStates
  <1>13. EntryInv(P, R, f)
    BY <1>1, <1>8, <1>9, <1>12 DEF EntryInv, ActiveStates
  <1>14. QED
    BY <1>3, <1>8, <1>9, <1>10, <1>13 DEF f

(* What request_stop makes of an entry, whatever its state.                *)
LEMMA StopRequestedEntryInv ==
    ASSUME NEW P, NEW R, NEW e, EntryInv(P, R, e)
    PROVE  LET f == StopRequestedEntry(e)
           IN  /\ EntryInv(P, R, f)
               /\ e.state \in {"stop-requested", "terminal"} => f = e
               /\ e.state \in {"queued", "running"} =>
                     /\ f.state = "stop-requested" /\ f.sequence = e.sequence + 1
                     /\ Codes(f) = Codes(e) \cup {"stop-requested"}
               /\ f.phase = e.phase /\ f.series = e.series /\ f.checks = e.checks
               /\ f.elapsed = e.elapsed /\ f.current = e.current /\ f.total = e.total
               /\ f.plan = e.plan /\ f.loads = e.loads /\ f.terminal = e.terminal
               /\ CompletionEvidenced(f) <=> CompletionEvidenced(e)
  <1> DEFINE d == IF e.state = "queued" THEN [e EXCEPT !.consumed = TRUE] ELSE e
             f == Transition(d, "stop-requested", e.phase, "stop-requested")
  <1>1. e \in Entry(P, R) /\ LogInv(e) /\ e.state \in States /\ e.phase \in Phases
    BY DEF EntryInv, Entry
  <1>2. CASE e.state \in {"stop-requested", "terminal"}
    <2>1. StopRequestedEntry(e) = e
      BY <1>2 DEF StopRequestedEntry
    <2>2. QED
      BY <1>2, <2>1
  <1>3. CASE e.state \in {"queued", "running"}
    <2>1. /\ d \in Entry(P, R) /\ d.consumed = TRUE /\ d.events = e.events
          /\ d.state = e.state /\ d.phase = e.phase /\ d.sequence = e.sequence
          /\ d.plan = e.plan /\ d.loads = e.loads /\ d.terminal = e.terminal
          /\ d.series = e.series /\ d.checks = e.checks /\ d.elapsed = e.elapsed
          /\ d.current = e.current /\ d.total = e.total
      <3>1. CASE e.state = "queued"
        BY <1>1, <3>1 DEF Entry
      <3>2. CASE e.state = "running"
        BY <1>1, <3>2 DEF Entry, EntryInv
      <3>3. QED
        BY <1>3, <3>1, <3>2
    <2>2. f = StopRequestedEntry(e)
      BY <1>3 DEF StopRequestedEntry
    <2> HIDE DEF d
    <2>a. LogInv(d) /\ Codes(d) = Codes(e)
      BY <1>1, <2>1 DEF LogInv, Codes
    <2>b. "stop-requested" \in States /\ d.phase >= d.phase
      BY <2>1 DEF States, Entry, Phases
    <2>3. /\ f \in Entry(P, R) /\ LogInv(f) /\ Codes(f) = Codes(d) \cup {"stop-requested"}
          /\ f.state = "stop-requested" /\ f.phase = e.phase
          /\ f.sequence = d.sequence + 1
          /\ f.plan = d.plan /\ f.loads = d.loads /\ f.consumed = d.consumed
          /\ f.terminal = d.terminal /\ f.series = d.series /\ f.checks = d.checks
          /\ f.elapsed = d.elapsed /\ f.current = d.current /\ f.total = d.total
      BY <1>1, <2>1, <2>a, <2>b, TransitionFields
    <2> HIDE DEF f
    <2>4. CompletionEvidenced(f) <=> CompletionEvidenced(e)
      BY <2>1, <2>3 DEF CompletionEvidenced, MatchingLoad
    <2>5. e.terminal = NoRecord
      BY <1>3 DEF EntryInv, TerminalInv
    <2>6. ReceiptInv(f) /\ TerminalInv(f)
      BY <2>1, <2>3, <2>5 DEF EntryInv, ReceiptInv, TerminalInv
    <2>7. EntryInv(P, R, f)
      BY <2>1, <2>a, <2>3, <2>6 DEF EntryInv
    <2>8. QED
      BY <1>3, <2>1, <2>a, <2>2, <2>3, <2>4, <2>7
  <1>4. QED
    BY <1>1, <1>2, <1>3 DEF States

(* What an admitted load observation makes of an active entry.             *)
LEMMA LoadedEntryInv ==
    ASSUME NEW P, NEW R, NEW e, EntryInv(P, R, e), WellPlanned(P),
           NEW subplan \in Subplans, NEW observed \in ObservedRuntimes,
           MayRecordLoad(e, subplan)
    PROVE  LET f == LoadedEntry(e, subplan, observed)
           IN  /\ EntryInv(P, R, f)
               /\ f.state = e.state /\ f.sequence = e.sequence /\ f.phase = e.phase
               /\ f.current = e.current /\ f.total = e.total
               /\ f.series = e.series /\ f.checks = e.checks
               /\ f.elapsed = e.elapsed /\ f.terminal = e.terminal /\ f.plan = e.plan
               /\ f.loads = e.loads \cup {[subplan |-> subplan, planned |-> e.plan.part[subplan],
                                            observed |-> observed]}
               /\ Codes(f) = Codes(e)
               /\ CompletionEvidenced(e) => CompletionEvidenced(f)
  <1> DEFINE r == [subplan |-> subplan, planned |-> e.plan.part[subplan], observed |-> observed]
             f == LoadedEntry(e, subplan, observed)
  <1>1. e \in Entry(P, R) /\ e.plan \in P /\ Active(e)
    BY DEF EntryInv, Entry, MayRecordLoad
  <1>2. e.plan.part[subplan] \in Runtime
    BY <1>1 DEF MayRecordLoad, WellPlanned
  <1>3. r \in Receipt
    BY <1>2 DEF Receipt, ObservedRuntimes, Runtime
  <1>4. r.subplan = subplan /\ r.planned = e.plan.part[subplan]
    OBVIOUS
  <1>5. f = [e EXCEPT !.loads = @ \cup {r}]
    BY DEF LoadedEntry
  <1> HIDE DEF r, f
  <1>6. /\ f \in Entry(P, R) /\ f.loads = e.loads \cup {r}
        /\ f.state = e.state /\ f.sequence = e.sequence /\ f.phase = e.phase
        /\ f.current = e.current /\ f.total = e.total /\ f.events = e.events
        /\ f.series = e.series /\ f.checks = e.checks /\ f.consumed = e.consumed
        /\ f.elapsed = e.elapsed /\ f.terminal = e.terminal /\ f.plan = e.plan
    BY <1>1, <1>3, <1>5 DEF Entry
  <1>7. LogInv(f) /\ Codes(f) = Codes(e)
    BY <1>6 DEF EntryInv, LogInv, Codes
  <1>8. ReceiptInv(f)
    BY <1>4, <1>6 DEF EntryInv, ReceiptInv, MayRecordLoad
  <1>9. TerminalInv(f)
    BY <1>1, <1>6 DEF EntryInv, TerminalInv, Active, ActiveStates
  <1>10. CompletionEvidenced(e) => CompletionEvidenced(f)
    BY <1>6 DEF CompletionEvidenced, MatchingLoad
  <1>11. EntryInv(P, R, f)
    BY <1>6, <1>7, <1>8, <1>9 DEF EntryInv
  <1>12. QED
    BY <1>6, <1>7, <1>10, <1>11 DEF f, r

(* What finalize makes of an entry that has no record yet.                 *)
LEMMA FinalizedEntryInv ==
    ASSUME NEW P, NEW R, NEW e, EntryInv(P, R, e), NEW result \in R,
           NoRecord \notin TerminalRecord(R), MayFinalize(e, result)
    PROVE  LET f == FinalizedEntry(e, result)
           IN  /\ EntryInv(P, R, f)
               /\ e.state \in ActiveStates
               /\ f.state = "terminal" /\ f.sequence = e.sequence + 1
               /\ f.phase >= e.phase /\ f.series = e.series /\ f.checks = e.checks
               /\ f.elapsed = e.elapsed /\ f.current = e.current /\ f.total = e.total
               /\ f.plan = e.plan /\ f.loads = e.loads
               /\ f.terminal # NoRecord /\ f.terminal.result = result
               /\ Codes(f) = Codes(e) \cup {"terminal"}
               /\ CompletionEvidenced(f) <=> CompletionEvidenced(e)
  <1> DEFINE c == Transition(e, "terminal", Complete, "terminal")
             t == [sequence |-> c.sequence, phase |-> c.phase, loads |-> c.loads, result |-> result]
             f == FinalizedEntry(e, result)
  <1>a. e \in Entry(P, R) /\ LogInv(e) /\ e.phase \in Phases
    BY DEF EntryInv, Entry
  <1>1. /\ e.terminal = NoRecord
        /\ e.consumed /\ result.plan = e.plan.id
        /\ result.status = "completed" => CompletionEvidenced(e)
    BY DEF MayFinalize
  <1>2. e.state # "terminal"
    BY <1>1 DEF EntryInv, TerminalInv
  <1>3. e.state \in ActiveStates
    BY <1>a, <1>1, <1>2 DEF EntryInv, Entry, States, ActiveStates
  <1>4. /\ c \in Entry(P, R) /\ LogInv(c) /\ Codes(c) = Codes(e) \cup {"terminal"}
        /\ c.state = "terminal" /\ c.phase = Complete /\ c.sequence = e.sequence + 1
        /\ c.plan = e.plan /\ c.loads = e.loads /\ c.consumed = e.consumed
        /\ c.series = e.series /\ c.checks = e.checks /\ c.elapsed = e.elapsed
        /\ c.current = e.current /\ c.total = e.total
    <2>1. "terminal" \in States /\ Complete \in Phases /\ Complete >= e.phase
      BY <1>a DEF States, Phases, Complete
    <2>2. QED
      BY <1>a, <2>1, TransitionFields
  <1>5. f = [c EXCEPT !.terminal = t]
    BY DEF FinalizedEntry
  <1> HIDE DEF c
  <1>6. t \in TerminalRecord(R)
    BY <1>4 DEF TerminalRecord, Entry
  <1>7. /\ t # NoRecord /\ t.sequence = c.sequence /\ t.phase = c.phase
        /\ t.loads = c.loads /\ t.result = result
    BY <1>6
  <1> HIDE DEF t, f
  <1>8. /\ f \in Entry(P, R) /\ f.terminal = t /\ f.events = c.events
        /\ f.state = c.state /\ f.phase = c.phase /\ f.sequence = c.sequence
        /\ f.plan = c.plan /\ f.loads = c.loads /\ f.consumed = c.consumed
        /\ f.series = c.series /\ f.checks = c.checks /\ f.elapsed = c.elapsed
        /\ f.current = c.current /\ f.total = c.total
    BY <1>4, <1>5, <1>6 DEF Entry
  <1>9. CompletionEvidenced(f) <=> CompletionEvidenced(e)
    BY <1>4, <1>8 DEF CompletionEvidenced, MatchingLoad
  <1>10. LogInv(f) /\ ReceiptInv(f) /\ Codes(f) = Codes(c)
    <2>1. LogInv(f) /\ Codes(f) = Codes(c)
      <3>1. /\ f.events = c.events /\ f.state = c.state /\ f.phase = c.phase
            /\ f.sequence = c.sequence /\ LogInv(c)
        BY <1>4, <1>8
      <3>2. QED
        BY <3>1 DEF LogInv, Codes
    <2>2. ReceiptInv(f)
      BY <1>4, <1>8 DEF EntryInv, ReceiptInv
    <2>3. QED
      BY <2>1, <2>2
  <1>11. TerminalInv(f)
    BY <1>1, <1>4, <1>7, <1>8, <1>9 DEF TerminalInv
  <1>12. EntryInv(P, R, f)
    BY <1>a, <1>1, <1>3, <1>4, <1>8, <1>10, <1>11 DEF EntryInv, ActiveStates
  <1>13. QED
    BY <1>a, <1>3, <1>4, <1>7, <1>8, <1>9, <1>10, <1>12 DEF f, Phases, Complete
-----------------------------------------------------------------------------
(* Where an execution stands follows from its state and its log.           *)
LEMMA StatusCases ==
    ASSUME NEW P, NEW R, NEW e, EntryInv(P, R, e)
    PROVE  /\ e.state = "queued" <=> EntryStatus(e) = "authorized"
           /\ e.state = "running" <=> EntryStatus(e) = "live"
           /\ e.state = "stop-requested" /\ "started" \in Codes(e) <=> EntryStatus(e) = "stopping"
           /\ e.state = "stop-requested" /\ "started" \notin Codes(e) <=> EntryStatus(e) = "withdrawn"
           /\ e.state = "terminal" <=> EntryStatus(e) = "closed"
           /\ Active(e) <=> EntryStatus(e) \in {"withdrawn", "live", "stopping"}
  <1>1. e.state \in States
    BY DEF EntryInv, Entry
  <1>2. CASE e.state = "queued"
    BY <1>2 DEF EntryStatus, Active, ActiveStates
  <1>3. CASE e.state = "running"
    BY <1>3 DEF EntryStatus, Active, ActiveStates
  <1>4. CASE e.state = "stop-requested"
    BY <1>4 DEF EntryStatus, Active, ActiveStates
  <1>5. CASE e.state = "terminal"
    BY <1>5 DEF EntryStatus, Active, ActiveStates
  <1>6. QED
    BY <1>1, <1>2, <1>3, <1>4, <1>5 DEF States

-----------------------------------------------------------------------------

(* The plan counts its invocations and its checks.                         *)
Counted(plan) ==
    /\ plan.warmups \in Nat /\ plan.measured \in Nat \ {0} /\ plan.checks \in Nat

(* The outputs that were admitted as reports.                              *)
AcceptedReports(outputs) ==
    {k \in DOMAIN outputs : outputs[k].ended = "completed" /\ ~ReportRefused(outputs[k])}

(* The admitted outputs are those of a prefix, and none of them is refused.*)
LEMMA CleanIsPrefix ==
    ASSUME NEW S, NEW outputs \in Seq(S), NEW refused
    PROVE  /\ Clean(outputs, refused) \subseteq DOMAIN outputs
           /\ DOMAIN outputs = 1..Len(outputs)
           /\ Len(outputs) \in Nat
           /\ \A k \in Clean(outputs, refused) :
                 \A j \in 1..k : j \in Clean(outputs, refused) /\ j \notin refused
           /\ 1 \in Clean(outputs, refused) <=> 1 \in DOMAIN outputs /\ 1 \notin refused
  <1>1. Len(outputs) \in Nat /\ DOMAIN outputs = 1..Len(outputs)
    OBVIOUS
  <1>2. ~AfterTerminal(outputs, 1)
    BY DEF AfterTerminal
  <1>3. 1 \in Clean(outputs, refused) <=> 1 \in DOMAIN outputs /\ 1 \notin refused
    BY <1>1, <1>2 DEF Clean
  <1>4. QED
    BY <1>1, <1>3 DEF Clean

(* The three ways an admission gets its status.                            *)
LEMMA StatusByCase ==
    ASSUME NEW outputs, NEW planned, NEW clean
    PROVE  /\ clean # DOMAIN outputs => AdmissionStatus(outputs, planned, clean) = "failed"
           /\ clean = DOMAIN outputs /\ TerminalIn(outputs, clean) # {} =>
                 \E k \in TerminalIn(outputs, clean) :
                    AdmissionStatus(outputs, planned, clean) = outputs[k].ended
           /\ clean = DOMAIN outputs /\ TerminalIn(outputs, clean) = {} =>
                 AdmissionStatus(outputs, planned, clean)
                   = IF Len(outputs) < planned THEN "failed" ELSE "completed"
  <1> DEFINE T == TerminalIn(outputs, clean)
             status == AdmissionStatus(outputs, planned, clean)
  <1>1. CASE clean # DOMAIN outputs
    <2>1. status = "failed"
      BY <1>1, Zenon DEF AdmissionStatus
    <2>2. QED
      BY <1>1, <2>1
  <1>2. CASE clean = DOMAIN outputs /\ T # {}
    <2>1. status = outputs[CHOOSE k \in T : TRUE].ended
      BY <1>2, Zenon DEF AdmissionStatus
    <2>2. (CHOOSE k \in T : TRUE) \in T
      BY <1>2
    <2>3. QED
      BY <1>2, <2>1, <2>2
  <1>3. CASE clean = DOMAIN outputs /\ T = {}
    <2>1. status = IF Len(outputs) < planned THEN "failed" ELSE "completed"
      BY <1>3, Zenon DEF AdmissionStatus
    <2>2. QED
      BY <1>3, <2>1
  <1>4. QED
    BY <1>1, <1>2, <1>3

(* An admission is completed exactly when every planned output was taken.  *)
(* and completed.                                                          *)
LEMMA CompletedAdmission ==
    ASSUME NEW S, \A o \in S : o.ended \in Terminations,
           NEW outputs \in Seq(S), NEW planned \in Nat, NEW clean \in SUBSET (DOMAIN outputs)
    PROVE  /\ AdmissionStatus(outputs, planned, clean) \in Terminations
           /\ AdmissionStatus(outputs, planned, clean) = "completed" <=>
                 /\ clean = DOMAIN outputs
                 /\ \A k \in DOMAIN outputs : outputs[k].ended = "completed"
                 /\ planned <= Len(outputs)
  <1> DEFINE status == AdmissionStatus(outputs, planned, clean)
  <1>1. /\ DOMAIN outputs = 1..Len(outputs) /\ Len(outputs) \in Nat
        /\ \A k \in DOMAIN outputs : outputs[k].ended \in Terminations
    OBVIOUS
  <1>2. CASE clean # DOMAIN outputs
    BY <1>2, StatusByCase DEF Terminations
  <1>3. CASE clean = DOMAIN outputs /\ TerminalIn(outputs, clean) # {}
    <2>1. PICK k \in TerminalIn(outputs, clean) : status = outputs[k].ended
      BY <1>3, StatusByCase
    <2>2. k \in DOMAIN outputs /\ outputs[k].ended # "completed"
      BY DEF TerminalIn
    <2>3. QED
      BY <1>1, <2>1, <2>2
  <1>4. CASE clean = DOMAIN outputs /\ TerminalIn(outputs, clean) = {}
    <2>1. status = IF Len(outputs) < planned THEN "failed" ELSE "completed"
      BY <1>4, StatusByCase
    <2>2. \A k \in DOMAIN outputs : outputs[k].ended = "completed"
      BY <1>4 DEF TerminalIn
    <2>3. QED
      BY <1>1, <1>4, <2>1, <2>2 DEF Terminations
  <1>5. QED
    BY <1>2, <1>3, <1>4
-----------------------------------------------------------------------------
(* What the benchmark is observed to be, for every run of its children.    *)
LEMMA BenchmarkIs ==
    ASSUME NEW plan, Counted(plan), NEW outputs \in Seq(BenchmarkOutput),
           Len(outputs) <= Planned(plan)
    PROVE  LET bench == BenchmarkObservation(outputs, plan)
           IN  /\ bench.status \in Terminations
               /\ bench.warmups \in SUBSET (1..plan.warmups)
               /\ bench.measured \in SUBSET ((plan.warmups + 1)..Planned(plan))
               /\ bench.load \in BOOLEAN
               /\ bench.load <=> 1 \in AcceptedReports(outputs)
               /\ bench.status = "completed" =>
                     /\ Len(outputs) = Planned(plan)
                     /\ \A k \in DOMAIN outputs : outputs[k].ended = "completed"
                     /\ AcceptedReports(outputs) = 1..Planned(plan)
                     /\ bench.warmups = 1..plan.warmups
                     /\ bench.measured = (plan.warmups + 1)..Planned(plan)
                     /\ bench.load
  <1> DEFINE bench == BenchmarkObservation(outputs, plan)
             refused == RefusedReports(outputs)
             clean == Clean(outputs, refused)
             pushed == Pushed(outputs)
             n == Len(outputs)
             w == plan.warmups
             p == Planned(plan)
  <1>1. /\ w \in Nat /\ plan.measured \in Nat \ {0} /\ p \in Nat /\ p = w + plan.measured
        /\ n \in Nat /\ n <= p /\ DOMAIN outputs = 1..n
        /\ clean \in SUBSET (DOMAIN outputs)
        /\ \A k \in DOMAIN outputs : outputs[k] \in BenchmarkOutput
    BY CleanIsPrefix DEF Counted, Planned
  <1>2. /\ bench.status = AdmissionStatus(outputs, p, clean)
        /\ bench.warmups = {k \in pushed : k <= w}
        /\ bench.measured = {k \in pushed : k > w}
        /\ bench.load = \E k \in clean : outputs[k].ended = "completed"
    BY DEF BenchmarkObservation, Planned
  <1>3. /\ bench.status \in Terminations
        /\ bench.status = "completed" <=>
              /\ clean = DOMAIN outputs
              /\ \A k \in DOMAIN outputs : outputs[k].ended = "completed"
              /\ p <= n
    <2>1. \A o \in BenchmarkOutput : o.ended \in Terminations
      BY DEF BenchmarkOutput
    <2>2. QED
      BY <1>1, <1>2, <2>1, CompletedAdmission
  <1>4. pushed \subseteq 1..n
    BY <1>1 DEF Pushed
  <1>5. /\ bench.warmups \in SUBSET (1..w)
        /\ bench.measured \in SUBSET ((w + 1)..p)
    BY <1>1, <1>2, <1>4
  <1>6. bench.load <=> 1 \in AcceptedReports(outputs)
    <2>1. ASSUME NEW k \in clean, outputs[k].ended = "completed"
          PROVE  1 \in AcceptedReports(outputs)
      <3>1. 1 \in clean /\ 1 \notin refused /\ 1 \in DOMAIN outputs /\ k \in 1..n
        BY <1>1, CleanIsPrefix
      <3>2. outputs[1].ended = "completed"
        <4>1. CASE k = 1
          BY <2>1, <4>1
        <4>2. CASE k # 1
          <5>1. 1 \in 1..(k - 1) /\ k \in 1..k
            BY <3>1, <4>2
          <5>2. ~AfterTerminal(outputs, k)
            BY <5>1 DEF Clean
          <5>3. QED
            BY <5>1, <5>2 DEF AfterTerminal
        <4>3. QED
          BY <4>1, <4>2
      <3>3. QED
        BY <3>1, <3>2 DEF AcceptedReports, RefusedReports
    <2>2. ASSUME 1 \in AcceptedReports(outputs) PROVE bench.load
      <3>1. 1 \in DOMAIN outputs /\ outputs[1].ended = "completed" /\ 1 \notin refused
        BY <2>2 DEF AcceptedReports, RefusedReports
      <3>2. 1 \in clean
        BY <3>1, CleanIsPrefix
      <3>3. QED
        BY <1>2, <3>1, <3>2
    <2>3. QED
      BY <1>2, <2>1, <2>2
  <1>7. ASSUME bench.status = "completed"
        PROVE  /\ n = p
               /\ \A k \in DOMAIN outputs : outputs[k].ended = "completed"
               /\ AcceptedReports(outputs) = 1..p
               /\ pushed = 1..p
    <2>1. /\ clean = 1..p /\ n = p /\ DOMAIN outputs = 1..p
          /\ \A k \in 1..p : outputs[k].ended = "completed"
      BY <1>1, <1>3, <1>7
    <2>2. \A k \in 1..p : k \notin refused /\ ~ReportRefused(outputs[k])
      <3>1. \A k \in 1..p : k \in 1..k
        BY <1>1
      <3>2. \A k \in 1..p : k \notin refused
        BY <2>1, <3>1, CleanIsPrefix
      <3>3. QED
        BY <2>1, <3>2 DEF RefusedReports
    <2>3. AcceptedReports(outputs) = 1..p
      BY <2>1, <2>2 DEF AcceptedReports
    <2>4. \A k \in 1..p : PushedBy(outputs, k)
      <3> TAKE k \in 1..p
      <3>1. /\ outputs[k].ended = "completed" /\ outputs[k].reading = "matching"
            /\ outputs[k].rows.prompt = 1 /\ outputs[k].rows.generation = 1
        BY <2>1, <2>2 DEF ReportRefused, ShapeIssue
      <3>2. QED
        BY <3>1 DEF PushedBy, HasPair
    <2>5. \A k \in 1..p : \A j \in 1..(k - 1) : j \in 1..p
      BY <1>1
    <2>6. \A k \in 1..p : ~AfterTerminal(outputs, k)
      BY <2>1, <2>5 DEF AfterTerminal
    <2>7. pushed = 1..p
      BY <2>1, <2>4, <2>5, <2>6 DEF Pushed
    <2>8. QED
      BY <2>1, <2>3, <2>7
  <1>8. ASSUME bench.status = "completed"
        PROVE  bench.warmups = 1..w /\ bench.measured = (w + 1)..p /\ bench.load
    <2>1. bench.warmups = 1..w
      BY <1>1, <1>2, <1>7, <1>8
    <2>2. bench.measured = (w + 1)..p
      BY <1>1, <1>2, <1>7, <1>8
    <2>3. 1 \in 1..p
      BY <1>1
    <2>4. bench.load
      BY <1>6, <1>7, <1>8, <2>3
    <2>5. QED
      BY <2>1, <2>2, <2>4
  <1>9. bench.load \in BOOLEAN
    BY <1>2
  <1> HIDE DEF bench
  <1>10. QED
    BY <1>3, <1>5, <1>6, <1>7, <1>8, <1>9 DEF bench

(* What the fixed checks are observed to be.                               *)
LEMMA QuickIs ==
    ASSUME NEW plan, Counted(plan), NEW checks \in Seq(QuickOutput),
           Len(checks) <= plan.checks
    PROVE  LET quick == QuickObservation(checks, plan)
           IN  /\ quick \in QuickObservations
               /\ quick.passed \cup quick.failed \in SUBSET (1..plan.checks)
               /\ quick.status = "completed" => quick.passed \cup quick.failed = 1..plan.checks
  <1> DEFINE quick == QuickObservation(checks, plan)
             clean == Clean(checks, RefusedChecks(checks))
             scored == {k \in clean : checks[k].ended = "completed"}
             n == Len(checks)
  <1>1. /\ n \in Nat /\ plan.checks \in Nat /\ n <= plan.checks /\ DOMAIN checks = 1..n
        /\ clean \in SUBSET (DOMAIN checks)
    BY CleanIsPrefix DEF Counted
  <1>2. /\ quick.status = AdmissionStatus(checks, plan.checks, clean)
        /\ quick.passed = {k \in scored : checks[k].passed}
        /\ quick.failed = {k \in scored : ~checks[k].passed}
        /\ quick = [status |-> quick.status, passed |-> quick.passed, failed |-> quick.failed]
    BY DEF QuickObservation
  <1>3. /\ quick.status \in Terminations
        /\ quick.status = "completed" <=>
              /\ clean = DOMAIN checks
              /\ \A k \in DOMAIN checks : checks[k].ended = "completed"
              /\ plan.checks <= n
    <2>1. \A o \in QuickOutput : o.ended \in Terminations
      BY DEF QuickOutput
    <2>2. QED
      BY <1>1, <1>2, <2>1, CompletedAdmission
  <1>4. quick.passed \cup quick.failed = scored
    BY <1>2
  <1>5. scored \in SUBSET (1..plan.checks) /\ scored \in SUBSET Nat
    BY <1>1
  <1>6. quick \in QuickObservations
    BY <1>2, <1>3, <1>5 DEF QuickObservations
  <1>7. ASSUME quick.status = "completed" PROVE scored = 1..plan.checks
    BY <1>1, <1>3, <1>7
  <1>8. QED
    BY <1>4, <1>5, <1>6, <1>7
-----------------------------------------------------------------------------
(* The worst of two statuses, where verification_result asks for it: of a  *)
(* status and itself, and of a completed benchmark and its checks.         *)
LEMMA WorstIs ==
    ASSUME NEW status \in Terminations
    PROVE  Worst(status, status) = status /\ Worst("completed", status) = status
  <1>1. Severity("completed") = 0
    BY Zenon DEF Severity
  <1>2. CASE status = "completed"
    BY <1>2 DEF Worst
  <1>3. CASE status = "stopped"
    <2>1. Severity("stopped") = 1
      BY Zenon DEF Severity
    <2>2. QED
      BY <1>1, <1>3, <2>1 DEF Worst
  <1>4. CASE status = "failed"
    <2>1. Severity("failed") = 3
      BY Zenon DEF Severity
    <2>2. QED
      BY <1>1, <1>4, <2>1 DEF Worst
  <1>5. CASE status = "timed-out"
    <2>1. Severity("timed-out") = 4
      BY Zenon DEF Severity
    <2>2. QED
      BY <1>1, <1>5, <2>1 DEF Worst
  <1>6. QED
    BY <1>2, <1>3, <1>4, <1>5 DEF Terminations

(* The samples of any run are as many as the plan allows, and of a         *)
(* completed one as many as it asks for.                                   *)
LEMMA BenchmarkIsNormalized ==
    ASSUME NEW plan, Counted(plan), NEW outputs \in Seq(BenchmarkOutput),
           Len(outputs) <= Planned(plan)
    PROVE  BenchmarkNormalizes(plan, BenchmarkObservation(outputs, plan))
  <1> DEFINE bench == BenchmarkObservation(outputs, plan)
             w == plan.warmups
             p == Planned(plan)
  <1>1. /\ w \in Nat /\ plan.measured \in Nat \ {0} /\ p = w + plan.measured /\ w + 1 \in Int
        /\ w \in Int /\ p \in Int
    BY DEF Counted, Planned
  <1>2. /\ bench.warmups \in SUBSET (1..w) /\ bench.measured \in SUBSET ((w + 1)..p)
        /\ bench.status = "completed" =>
              bench.warmups = 1..w /\ bench.measured = (w + 1)..p
    BY BenchmarkIs
  <1>3. IsFiniteSet(1..w) /\ Cardinality(1..w) = w
    <2>1. /\ IsFiniteSet(1..w)
          /\ Cardinality(1..w) = IF 1 > w THEN 0 ELSE w - 1 + 1
      BY <1>1, 1 \in Int, FS_Interval
    <2>2. QED
      BY <1>1, <2>1
  <1>4. IsFiniteSet((w + 1)..p) /\ Cardinality((w + 1)..p) = plan.measured
    <2>1. IsFiniteSet((w + 1)..p)
          /\ Cardinality((w + 1)..p) = IF w + 1 > p THEN 0 ELSE p - (w + 1) + 1
      BY <1>1, FS_Interval
    <2>2. QED
      BY <1>1, <2>1
  <1>5. Cardinality(bench.warmups) <= w /\ Cardinality(bench.measured) <= plan.measured
    BY <1>2, <1>3, <1>4, FS_Subset
  <1> HIDE DEF bench
  <1>6. BenchmarkNormalizes(plan, bench)
    BY <1>1, <1>2, <1>3, <1>4, <1>5 DEF BenchmarkNormalizes
  <1>7. QED
    BY <1>6 DEF bench

(* The checks of a completed suite are as many as the plan has.            *)
LEMMA QuickIsNormalized ==
    ASSUME NEW plan, Counted(plan), NEW checks \in Seq(QuickOutput),
           Len(checks) <= plan.checks
    PROVE  QuickNormalizes(plan, QuickObservation(checks, plan))
  <1> DEFINE quick == QuickObservation(checks, plan)
  <1>1. quick.status = "completed" => quick.passed \cup quick.failed = 1..plan.checks
    BY QuickIs
  <1>2. Cardinality(1..plan.checks) = plan.checks
    BY FS_Interval DEF Counted
  <1>3. QED
    BY <1>1, <1>2 DEF QuickNormalizes

(* What the worker hands over of the checks: nothing, when the benchmark   *)
(* did not complete or the plan has none, else what the adapter observed.  *)
QuickIsOf(plan, bench, quick) ==
    \/ /\ quick = NoObservation
       /\ plan.checks > 0 => bench.status # "completed"
    \/ /\ plan.checks > 0 /\ bench.status = "completed"
       /\ \E checks \in Seq(QuickOutput) :
             Len(checks) <= plan.checks /\ quick = QuickObservation(checks, plan)

(* verification_result takes whatever a worker hands it, and keeps it as   *)
(* it is.                                                                  *)
LEMMA NormalizationAccepts ==
    ASSUME NEW ids, Refused \notin NormalizedResults(ids), NoObservation \notin QuickObservations,
           NEW plan, plan.id \in ids, Counted(plan),
           NEW outputs \in Seq(BenchmarkOutput), Len(outputs) <= Planned(plan),
           NEW quick, QuickIsOf(plan, BenchmarkObservation(outputs, plan), quick)
    PROVE  LET bench == BenchmarkObservation(outputs, plan)
               result == VerificationResult(plan, RunStatus(bench, quick), bench, quick)
           IN  /\ result \in NormalizedResults(ids)
               /\ result # Refused
               /\ result.plan = plan.id
               /\ result.warmups = bench.warmups /\ result.measured = bench.measured
               /\ result.passed \cup result.failed \in SUBSET (1..plan.checks)
               /\ result.status = "completed" =>
                     /\ bench.status = "completed"
                     /\ result.passed \cup result.failed = 1..plan.checks
  <1> DEFINE bench == BenchmarkObservation(outputs, plan)
             status == RunStatus(bench, quick)
             checks == QuickOutcome(plan, status, quick)
             result == VerificationResult(plan, status, bench, quick)
             passed == IF checks = NoObservation THEN {} ELSE checks.passed
             failed == IF checks = NoObservation THEN {} ELSE checks.failed
             kept == [plan |-> plan.id, status |-> status, warmups |-> bench.warmups,
                      measured |-> bench.measured, passed |-> passed, failed |-> failed]
             worst == IF checks = NoObservation THEN bench.status
                      ELSE Worst(bench.status, checks.status)
  <1>1. /\ bench.status \in Terminations
        /\ bench.warmups \in SUBSET Nat /\ bench.measured \in SUBSET Nat
        /\ BenchmarkNormalizes(plan, bench)
        /\ plan.checks \in Nat
    <2>1. /\ bench.warmups \in SUBSET (1..plan.warmups)
          /\ bench.measured \in SUBSET ((plan.warmups + 1)..Planned(plan))
          /\ bench.status \in Terminations
      BY BenchmarkIs
    <2>2. BenchmarkNormalizes(plan, bench)
      BY BenchmarkIsNormalized
    <2>3. QED
      BY <2>1, <2>2 DEF Counted, Planned
  <1> HIDE DEF bench
  <1>2. /\ status \in Terminations /\ worst = status
        /\ quick # NoObservation => plan.checks > 0 /\ QuickNormalizes(plan, quick)
        /\ quick = NoObservation /\ plan.checks > 0 => status # "completed"
        /\ passed \in SUBSET Nat /\ failed \in SUBSET Nat
        /\ passed \cup failed \in SUBSET (1..plan.checks)
        /\ status = "completed" =>
              bench.status = "completed" /\ passed \cup failed = 1..plan.checks
    <2>1. CASE /\ quick = NoObservation
               /\ plan.checks > 0 => bench.status # "completed"
      <3>1. status = bench.status
        BY <2>1 DEF RunStatus
      <3>2. CASE plan.checks > 0
        <4>1. checks = [status |-> status, passed |-> {}, failed |-> {}]
          BY <2>1, <3>2 DEF QuickOutcome
        <4>2. checks \in QuickObservations
          BY <1>1, <3>1, <4>1 DEF QuickObservations
        <4>3. checks # NoObservation
          BY <4>2
        <4>4. passed = {} /\ failed = {} /\ worst = status
          BY <1>1, <3>1, <4>1, <4>3, WorstIs
        <4>5. QED
          BY <1>1, <2>1, <3>1, <3>2, <4>4
      <3>3. CASE ~(plan.checks > 0)
        <4>1. checks = NoObservation
          BY <2>1, <3>3 DEF QuickOutcome
        <4>2. passed = {} /\ failed = {} /\ worst = status /\ 1..plan.checks = {}
          BY <1>1, <3>1, <3>3, <4>1
        <4>3. QED
          BY <1>1, <2>1, <3>1, <3>3, <4>2
      <3>4. QED
        BY <3>2, <3>3
    <2>2. CASE /\ plan.checks > 0 /\ bench.status = "completed"
               /\ \E seen \in Seq(QuickOutput) :
                     Len(seen) <= plan.checks /\ quick = QuickObservation(seen, plan)
      <3>1. PICK seen \in Seq(QuickOutput) :
               Len(seen) <= plan.checks /\ quick = QuickObservation(seen, plan)
        BY <2>2
      <3>2. /\ quick \in QuickObservations
            /\ quick.passed \cup quick.failed \in SUBSET (1..plan.checks)
            /\ quick.status = "completed" => quick.passed \cup quick.failed = 1..plan.checks
            /\ QuickNormalizes(plan, quick)
        BY <3>1, QuickIs, QuickIsNormalized
      <3>3. quick # NoObservation /\ status = quick.status /\ status \in Terminations
        BY <3>2 DEF RunStatus, QuickObservations
      <3>4. checks = quick /\ worst = status
        <4>1. checks = quick
          BY <3>3 DEF QuickOutcome
        <4>2. QED
          BY <2>2, <3>3, <4>1, WorstIs
      <3>5. passed = quick.passed /\ failed = quick.failed
        BY <3>3, <3>4
      <3>6. QED
        BY <2>2, <3>2, <3>3, <3>4, <3>5 DEF QuickObservations
    <2>3. QED
      BY <2>1, <2>2 DEF QuickIsOf, bench
  <1>3. result = kept
    BY <1>1, <1>2 DEF VerificationResult
  <1>4. kept \in NormalizedResults(ids)
    BY <1>1, <1>2 DEF NormalizedResults
  <1> HIDE DEF result, status, passed, failed
  <1>5. /\ kept.plan = plan.id /\ kept.status = status
        /\ kept.warmups = bench.warmups /\ kept.measured = bench.measured
        /\ kept.passed = passed /\ kept.failed = failed
    OBVIOUS
  <1>6. QED
    BY <1>2, <1>3, <1>4, <1>5 DEF result, status, bench
-----------------------------------------------------------------------------
(* A further output: what was admitted before it stays admitted.           *)
LEMMA AppendKeepsClean ==
    ASSUME NEW S, NEW outputs \in Seq(S), NEW o \in S, NEW refused, NEW later,
           \A j \in 1..Len(outputs) : j \in later => j \in refused
    PROVE  LET more == Append(outputs, o)
           IN  /\ DOMAIN outputs = 1..Len(outputs) /\ Len(outputs) \in Nat
               /\ DOMAIN outputs \subseteq DOMAIN more
               /\ \A k \in DOMAIN outputs : more[k] = outputs[k]
               /\ \A k \in DOMAIN outputs : AfterTerminal(more, k) <=> AfterTerminal(outputs, k)
               /\ Clean(outputs, refused) \subseteq Clean(more, later)
  <1> DEFINE n == Len(outputs)
             more == Append(outputs, o)
  <1>1. /\ n \in Nat /\ DOMAIN outputs = 1..n /\ DOMAIN more = 1..(n + 1)
        /\ \A k \in 1..n : more[k] = outputs[k]
    BY AppendProperties
  <1> HIDE DEF more
  <1>2. ASSUME NEW k \in 1..n PROVE AfterTerminal(more, k) <=> AfterTerminal(outputs, k)
    <2>1. \A j \in 1..(k - 1) : more[j] = outputs[j]
      BY <1>1
    <2>2. QED
      BY <2>1 DEF AfterTerminal
  <1>3. Clean(outputs, refused) \subseteq Clean(more, later)
    <2> SUFFICES ASSUME NEW k \in Clean(outputs, refused) PROVE k \in Clean(more, later)
      OBVIOUS
    <2>1. k \in 1..n /\ \A j \in 1..k : j \notin refused /\ ~AfterTerminal(outputs, j)
      BY <1>1 DEF Clean
    <2>2. \A j \in 1..k : j \in 1..n
      BY <1>1, <2>1
    <2>3. k \in DOMAIN more
      BY <1>1, <2>1
    <2>4. \A j \in 1..k : j \notin later /\ ~AfterTerminal(more, j)
      BY <1>2, <2>1, <2>2
    <2>5. QED
      BY <2>3, <2>4 DEF Clean
  <1>4. QED
    BY <1>1, <1>2, <1>3 DEF more

(* ... of the benchmark: its samples and its load observation,             *)
LEMMA AppendKeepsBenchmark ==
    ASSUME NEW plan, Counted(plan), NEW outputs \in Seq(BenchmarkOutput),
           NEW o \in BenchmarkOutput
    PROVE  LET seen == BenchmarkObservation(outputs, plan)
               then == BenchmarkObservation(Append(outputs, o), plan)
           IN  /\ seen.warmups \subseteq then.warmups
               /\ seen.measured \subseteq then.measured
               /\ seen.load => then.load
  <1> DEFINE more == Append(outputs, o)
             refused == RefusedReports(outputs)
             later == RefusedReports(more)
             n == Len(outputs)
  <1>1. /\ n \in Nat /\ DOMAIN outputs = 1..n /\ DOMAIN more = 1..(n + 1)
        /\ \A k \in 1..n : more[k] = outputs[k]
    BY AppendProperties
  <1>2. \A j \in 1..n : j \in later => j \in refused
    BY <1>1 DEF RefusedReports
  <1>3. /\ \A k \in 1..n : AfterTerminal(more, k) <=> AfterTerminal(outputs, k)
        /\ Clean(outputs, refused) \subseteq Clean(more, later)
    BY <1>1, <1>2, AppendKeepsClean
  <1> HIDE DEF more
  <1>4. Pushed(outputs) \subseteq Pushed(more)
    <2> SUFFICES ASSUME NEW k \in Pushed(outputs) PROVE k \in Pushed(more)
      OBVIOUS
    <2>1. /\ k \in 1..n /\ PushedBy(outputs, k) /\ ~AfterTerminal(outputs, k)
          /\ \A j \in 1..(k - 1) : j \in Clean(outputs, refused)
      BY <1>1 DEF Pushed
    <2>2. k \in DOMAIN more /\ PushedBy(more, k)
      BY <1>1, <2>1 DEF PushedBy
    <2>3. ~AfterTerminal(more, k) /\ \A j \in 1..(k - 1) : j \in Clean(more, later)
      BY <1>3, <2>1
    <2>4. QED
      BY <2>2, <2>3 DEF Pushed
  <1>5. ASSUME NEW k \in Clean(outputs, refused), outputs[k].ended = "completed"
        PROVE  k \in Clean(more, later) /\ more[k].ended = "completed"
    <2>1. k \in 1..n
      BY <1>1 DEF Clean
    <2>2. QED
      BY <1>1, <1>3, <1>5, <2>1
  <1>6. QED
    BY <1>4, <1>5 DEF BenchmarkObservation, more

(* ... and of the checks: their scores.                                    *)
LEMMA AppendKeepsQuick ==
    ASSUME NEW plan, Counted(plan), NEW checks \in Seq(QuickOutput), NEW o \in QuickOutput
    PROVE  LET seen == QuickObservation(checks, plan)
               then == QuickObservation(Append(checks, o), plan)
           IN  seen.passed \subseteq then.passed /\ seen.failed \subseteq then.failed
  <1> DEFINE more == Append(checks, o)
             refused == RefusedChecks(checks)
             later == RefusedChecks(more)
             n == Len(checks)
  <1>1. /\ n \in Nat /\ DOMAIN checks = 1..n /\ DOMAIN more = 1..(n + 1)
        /\ \A k \in 1..n : more[k] = checks[k]
    BY AppendProperties
  <1>2. \A j \in 1..n : j \in later => j \in refused
    BY <1>1 DEF RefusedChecks
  <1>3. Clean(checks, refused) \subseteq Clean(more, later)
    BY <1>1, <1>2, AppendKeepsClean
  <1> HIDE DEF more
  <1>4. \A k \in Clean(checks, refused) : k \in Clean(more, later) /\ more[k] = checks[k]
    BY <1>1, <1>3 DEF Clean
  <1>5. QED
    BY <1>4 DEF QuickObservation, more
=============================================================================
