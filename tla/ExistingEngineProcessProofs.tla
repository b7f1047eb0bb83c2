--------------------- MODULE ExistingEngineProcessProofs ---------------------
(***************************************************************************)
(* One call of the process boundary, for any streams, limit and amount of  *)
(* output: it leaves nothing running behind it, and it reports only what   *)
(* happened.                                                               *)
(***************************************************************************)
EXTENDS ExistingEngineProcess, TLAPS

-----------------------------------------------------------------------------
Counts == [Streams -> Nat]
Launching == {"launch", "assign", "resume"}
Polling == {"poll-cancellation", "poll-output", "poll-time", "poll-exit"}
Ending == {"wait", "receive", "returned"}

TypeInv ==
    /\ at \in Places /\ termination \in Outcomes \cup {"none"}
    /\ process \in [Processes -> ProcessStates] /\ job \subseteq Processes
    /\ exitCode \in {0, 1}
    /\ written \in Counts /\ read \in Counts /\ retained \in Counts
    /\ reader \in [Streams -> {"none", "reading", "sent", "failed"}]
    /\ exceeded \in BOOLEAN /\ requested \in BOOLEAN /\ timeUp \in BOOLEAN

(* The tree: who runs is in the job, nobody runs before the root is        *)
(* resumed or once the call goes to its end.                               *)
TreeInv ==
    /\ \A p \in Processes : process[p] = "running" => p \in job
    /\ process["descendant"] # "suspended"
    /\ at = "launch" => process["root"] = "unborn"
    /\ at \in {"assign", "resume"} => process["root"] = "suspended"
    /\ at = "resume" => "root" \in job
    /\ at \in Launching => process["descendant"] = "unborn"
    /\ at \in Polling => process["root"] \in {"running", "gone"}
    /\ at \in Ending => \A p \in Processes : process[p] # "running"
    /\ at = "receive" => process["root"] = "gone"

(* A reader keeps what it read up to the limit; it has sent only when      *)
(* nobody can write any more.                                              *)
Silent == process["root"] = "gone" /\ process["descendant"] \in {"unborn", "gone"}

StreamsInv ==
    /\ \A s \in Streams :
          /\ read[s] <= written[s] /\ written[s] <= MaxWritten
          /\ retained[s] = IF read[s] <= Limit THEN read[s] ELSE Limit
          /\ reader[s] # "none" => process["root"] \in {"running", "dying", "gone"}
          /\ reader[s] = "sent" => read[s] = written[s] /\ Silent
    /\ exceeded <=> \E s \in Streams : read[s] > Limit

(* What the outcome so far stands on.                                      *)
OutcomeInv ==
    /\ at = "wait" => termination \in {"cancelled", "timed-out", "output-limit-exceeded"}
    /\ at = "receive" => termination \in Outcomes \ {"error"}
    /\ at = "returned" => termination \in Outcomes
    /\ at \in Ending =>
          /\ termination = "cancelled" => requested
          /\ termination = "timed-out" => timeUp
          /\ termination = "output-limit-exceeded" => exceeded
          /\ termination \in {"completed", "non-zero-exit"} =>
                process["root"] = "gone" /\ (termination = "completed" <=> exitCode = 0)
    /\ at = "returned" /\ termination # "error" =>
          /\ \A s \in Streams : reader[s] = "sent"
          /\ termination \in {"completed", "non-zero-exit"} => ~exceeded

IInv == TypeInv /\ TreeInv /\ StreamsInv /\ OutcomeInv

-----------------------------------------------------------------------------
(* A call begins with nothing.                                             *)
LEMMA Initially == Init => IInv
  <1> SUFFICES ASSUME Init PROVE IInv
    OBVIOUS
  <1>1. TypeInv
    BY DEF Init, TypeInv, Counts, Places, Outcomes, Processes, ProcessStates
  <1>2. TreeInv
    BY DEF Init, TreeInv, Processes, Launching, Polling, Ending
  <1>3. StreamsInv
    BY ProcessAssumption DEF Init, StreamsInv, Launching
  <1>4. OutcomeInv
    BY DEF Init, OutcomeInv, Ending
  <1> QED
    BY <1>1, <1>2, <1>3, <1>4 DEF IInv

(* The validation, and a child created suspended.                          *)
LEMMA LaunchKeeps ==
    ASSUME IInv, Launch
    PROVE  IInv'
  <1> USE ProcessAssumption DEF IInv
  <1>1. TypeInv'
    BY DEF TypeInv, Launch, Return, Goto, world, Counts, Places, Outcomes, Processes,
       ProcessStates
  <1>2. TreeInv'
    BY DEF TypeInv, TreeInv, Launch, Return, Goto, world, Processes, Launching, Polling,
       Ending
  <1>3. StreamsInv'
    BY DEF TypeInv, TreeInv, StreamsInv, Silent, Launch, Return, Goto, world, Processes,
       Counts, Launching, Polling, Ending
  <1>4. OutcomeInv'
    BY DEF TypeInv, TreeInv, StreamsInv, OutcomeInv, Launch, Return, Goto, world,
       Processes, Outcomes, Launching, Polling, Ending
  <1> QED
    BY <1>1, <1>2, <1>3, <1>4

(* Nothing has run yet; a child left outside the job never will.           *)
LEMMA AssignKeeps ==
    ASSUME IInv, Assign
    PROVE  IInv'
  <1> USE ProcessAssumption DEF IInv
  <1>1. TypeInv'
    BY DEF TypeInv, Assign, Return, Goto, world, Counts, Places, Outcomes, Processes,
       ProcessStates
  <1>2. TreeInv'
    BY DEF TypeInv, TreeInv, Assign, Return, Goto, world, Processes, Launching, Polling,
       Ending
  <1>3. StreamsInv'
    BY DEF TypeInv, TreeInv, StreamsInv, Silent, Assign, Return, Goto, world, Processes,
       Counts, Launching, Polling, Ending
  <1>4. OutcomeInv'
    BY DEF TypeInv, TreeInv, StreamsInv, OutcomeInv, Assign, Return, Goto, world,
       Processes, Outcomes, Launching, Polling, Ending
  <1> QED
    BY <1>1, <1>2, <1>3, <1>4

(* The root runs in the job, and so will whoever it starts.                *)
LEMMA ResumeKeeps ==
    ASSUME IInv, Resume
    PROVE  IInv'
  <1> USE ProcessAssumption DEF IInv
  <1>1. TypeInv'
    BY DEF TypeInv, Resume, Return, Goto, Killed, world, Counts, Places, Outcomes,
       Processes, ProcessStates
  <1>2. TreeInv'
    BY DEF TypeInv, TreeInv, Resume, Return, Goto, Killed, world, Processes, Launching,
       Polling, Ending
  <1>3. StreamsInv'
    BY DEF TypeInv, TreeInv, StreamsInv, Silent, Resume, Return, Goto, Killed, world,
       Processes, Counts, Launching, Polling, Ending
  <1>4. OutcomeInv'
    BY DEF TypeInv, TreeInv, StreamsInv, OutcomeInv, Resume, Return, Goto, Killed,
       world, Processes, Outcomes, Launching, Polling, Ending
  <1> QED
    BY <1>1, <1>2, <1>3, <1>4

(* A poll goes on, or kills and notes what it saw.                         *)
LEMMA PollsKeep ==
    ASSUME IInv, PollCancellation \/ PollOutput \/ PollTime
    PROVE  IInv'
  <1> USE ProcessAssumption DEF IInv
  <1>1. TypeInv'
    BY DEF TypeInv, PollCancellation, PollOutput, PollTime, PollNext, KillFor, Return,
       Goto, Killed, world, Counts, Places, Outcomes, Processes, ProcessStates
  <1>2. TreeInv'
    BY DEF TypeInv, TreeInv, PollCancellation, PollOutput, PollTime, PollNext, KillFor,
       Return, Goto, Killed, world, Processes, Launching, Polling, Ending
  <1>3. StreamsInv'
    BY DEF TypeInv, TreeInv, StreamsInv, Silent, PollCancellation, PollOutput, PollTime,
       PollNext, KillFor, Return, Goto, Killed, world, Processes, Counts, Launching,
       Polling, Ending
  <1>4. OutcomeInv'
    BY DEF TypeInv, TreeInv, StreamsInv, OutcomeInv, PollCancellation, PollOutput,
       PollTime, PollNext, KillFor, Return, Goto, Killed, world, Processes, Outcomes,
       Launching, Polling, Ending
  <1> QED
    BY <1>1, <1>2, <1>3, <1>4

(* Behind an exit the descendants are killed.                              *)
LEMMA PollExitKeeps ==
    ASSUME IInv, PollExit
    PROVE  IInv'
  <1> USE ProcessAssumption DEF IInv
  <1>1. TypeInv'
    BY DEF TypeInv, PollExit, Return, Goto, Killed, world, Counts, Places, Outcomes,
       Processes, ProcessStates
  <1>2. TreeInv'
    BY DEF TypeInv, TreeInv, PollExit, Return, Goto, Killed, world, Processes,
       Launching, Polling, Ending
  <1>3. StreamsInv'
    BY DEF TypeInv, TreeInv, StreamsInv, Silent, PollExit, Return, Goto, Killed, world,
       Processes, Counts, Launching, Polling, Ending
  <1>4. OutcomeInv'
    BY DEF TypeInv, TreeInv, StreamsInv, OutcomeInv, PollExit, Return, Goto, Killed,
       world, Processes, Outcomes, Launching, Polling, Ending
  <1> QED
    BY <1>1, <1>2, <1>3, <1>4

(* The wait for what was killed.                                           *)
LEMMA WaitKeeps ==
    ASSUME IInv, Wait
    PROVE  IInv'
  <1> USE ProcessAssumption DEF IInv
  <1>1. TypeInv'
    BY DEF TypeInv, Wait, Return, Goto, world, Counts, Places, Outcomes, Processes,
       ProcessStates
  <1>2. TreeInv'
    BY DEF TypeInv, TreeInv, Wait, Return, Goto, world, Processes, Launching, Polling,
       Ending
  <1>3. StreamsInv'
    BY DEF TypeInv, TreeInv, StreamsInv, Silent, Wait, Return, Goto, world, Processes,
       Counts, Launching, Polling, Ending
  <1>4. OutcomeInv'
    BY DEF TypeInv, TreeInv, StreamsInv, OutcomeInv, Wait, Return, Goto, world,
       Processes, Outcomes, Launching, Polling, Ending
  <1> QED
    BY <1>1, <1>2, <1>3, <1>4

(* The outcome that is returned.                                           *)
LEMMA ReceiveKeeps ==
    ASSUME IInv, Receive
    PROVE  IInv'
  <1> USE ProcessAssumption DEF IInv
  <1>1. TypeInv'
    BY DEF TypeInv, Receive, Return, world, Counts, Places, Outcomes, Processes,
       ProcessStates
  <1>2. TreeInv'
    BY DEF TypeInv, TreeInv, Receive, Return, world, Processes, Launching, Polling,
       Ending
  <1>3. StreamsInv'
    BY DEF TypeInv, TreeInv, StreamsInv, Silent, Receive, Return, world, Processes,
       Counts, Launching, Polling, Ending
  <1>4. OutcomeInv'
    BY DEF TypeInv, TreeInv, StreamsInv, OutcomeInv, Receive, Return, world, Processes,
       Outcomes, Launching, Polling, Ending
  <1> QED
    BY <1>1, <1>2, <1>3, <1>4

-----------------------------------------------------------------------------
(* A reader keeps of what it takes what fits, and raises the flag over the *)
(* rest; it goes on until nobody can write.                                *)
LEMMA ReadSomeKeeps ==
    ASSUME IInv, NEW s \in Streams, ReadSome(s)
    PROVE  IInv'
  <1> USE ProcessAssumption DEF IInv
  <1>1. PICK count \in 1..(written[s] - read[s]) :
          /\ read' = [read EXCEPT ![s] = read[s] + count]
          /\ retained' = [retained EXCEPT ![s] =
                retained[s] + IF count < Limit - retained[s] THEN count ELSE Limit - retained[s]]
          /\ exceeded' = (exceeded \/ count > Limit - retained[s])
    BY DEF ReadSome
  <1>2. /\ UNCHANGED <<at, termination, process, job, exitCode, written, reader, requested, timeUp>>
        /\ reader[s] = "reading"
    BY DEF ReadSome
  <1>3. /\ read[s] \in Nat /\ written[s] \in Nat /\ retained[s] \in Nat /\ Limit \in Nat
        /\ count \in Nat /\ read[s] + count <= written[s] /\ read[s] + count \in Nat
    BY <1>1 DEF TypeInv, Counts
  <1>4. retained[s] = IF read[s] <= Limit THEN read[s] ELSE Limit
    BY DEF StreamsInv
  <1>5. \A x \in Streams : read'[x] = IF x = s THEN read[s] + count ELSE read[x]
    BY <1>1 DEF TypeInv, Counts
  <1>6. \A x \in Streams : retained'[x] =
           IF x = s THEN IF read[s] + count <= Limit THEN read[s] + count ELSE Limit
                    ELSE retained[x]
    BY <1>1, <1>3, <1>4 DEF TypeInv, Counts
  <1>7. exceeded' <=> exceeded \/ read[s] + count > Limit
    <2>1. exceeded' <=> exceeded \/ count > Limit - retained[s]
      BY <1>1
    <2>2. count > Limit - retained[s] <=> read[s] + count > Limit
      BY <1>1, <1>3, <1>4
    <2> QED
      BY <2>1, <2>2
  <1>8. TypeInv'
    <2>1. read' \in Counts /\ retained' \in Counts
      BY <1>1, <1>3, <1>4 DEF TypeInv, Counts
    <2>2. exceeded' \in BOOLEAN
      BY <1>1
    <2> QED
      BY <1>2, <2>1, <2>2 DEF TypeInv
  <1>9. TreeInv'
    BY <1>2 DEF TreeInv
  <1>10. StreamsInv'
    <2>1. \A x \in Streams : read[x] \in Nat
      BY DEF TypeInv, Counts
    <2>2. (\E x \in Streams : read'[x] > Limit)
             <=> read[s] + count > Limit \/ \E x \in Streams : read[x] > Limit
      BY <1>3, <1>5, <2>1
    <2>3. exceeded' <=> \E x \in Streams : read'[x] > Limit
      BY <1>7, <2>2 DEF StreamsInv
    <2>4. \A x \in Streams :
             /\ read'[x] <= written'[x] /\ written'[x] <= MaxWritten
             /\ retained'[x] = IF read'[x] <= Limit THEN read'[x] ELSE Limit
             /\ reader'[x] # "none" => process'["root"] \in {"running", "dying", "gone"}
             /\ reader'[x] = "sent" => read'[x] = written'[x] /\ Silent'
      BY <1>2, <1>3, <1>5, <1>6 DEF StreamsInv, Silent
    <2> QED
      BY <2>3, <2>4 DEF StreamsInv
  <1>11. OutcomeInv'
    <2>1. at = "returned" => termination = "error"
      BY <1>2 DEF OutcomeInv
    <2> QED
      BY <1>2, <1>7, <2>1 DEF OutcomeInv
  <1> QED
    BY <1>8, <1>9, <1>10, <1>11

(* A reader sends only when nobody is left to write.                       *)
LEMMA ReadEndsKeeps ==
    ASSUME IInv, NEW s \in Streams, ReadEnds(s)
    PROVE  IInv'
  <1> USE DEF IInv
  <1>1. /\ UNCHANGED <<at, termination, process, job, exitCode, written, read, retained, exceeded,
                       requested, timeUp>>
        /\ reader[s] = "reading"
    BY DEF ReadEnds
  <1>2. PICK end \in {"sent", "failed"} :
          /\ reader' = [reader EXCEPT ![s] = end]
          /\ end = "sent" => read[s] = written[s] /\ \A p \in Processes : ~HoldsPipes(p)
    BY DEF ReadEnds
  <1>3. process["root"] \in {"running", "dying", "gone"}
    BY <1>1 DEF StreamsInv
  <1>4. end = "sent" => Silent
    <2>1. ASSUME end = "sent" PROVE process["root"] # "unborn" /\ Silent
      <3>1. \A p \in Processes : process[p] \in {"unborn", "gone"}
        BY <1>2, <2>1 DEF HoldsPipes, TypeInv, ProcessStates
      <3>2. process["root"] # "unborn"
        BY <1>3
      <3> QED
        BY <3>1, <3>2 DEF Silent, Processes
    <2> QED
      BY <2>1
  <1>5. \A x \in Streams : reader'[x] = IF x = s THEN end ELSE reader[x]
    BY <1>2 DEF TypeInv
  <1>6. TypeInv' /\ TreeInv'
    BY <1>1, <1>2 DEF TypeInv, TreeInv
  <1>7. StreamsInv'
    BY <1>1, <1>2, <1>3, <1>4, <1>5 DEF StreamsInv, Silent
  <1>8. OutcomeInv'
    BY <1>1, <1>5 DEF OutcomeInv
  <1> QED
    BY <1>6, <1>7, <1>8

(* Whoever writes is alive, so no reader has sent.                         *)
LEMMA WriteKeeps ==
    ASSUME IInv, NEW p \in Processes, NEW s \in Streams, Write(p, s)
    PROVE  IInv'
  <1> USE ProcessAssumption DEF IInv
  <1>1. TypeInv'
    BY DEF TypeInv, Write, world, Counts, Places, Outcomes, Processes, ProcessStates
  <1>2. TreeInv'
    BY DEF TypeInv, TreeInv, Write, world, Processes, Launching, Polling, Ending
  <1>3. StreamsInv'
    BY DEF TypeInv, TreeInv, StreamsInv, Silent, Write, world, Processes, Counts,
       Launching, Polling, Ending
  <1>4. OutcomeInv'
    BY DEF TypeInv, TreeInv, StreamsInv, OutcomeInv, Write, world, Processes, Outcomes,
       Launching, Polling, Ending
  <1> QED
    BY <1>1, <1>2, <1>3, <1>4

(* A descendant is born into the job.                                      *)
LEMMA SpawnKeeps ==
    ASSUME IInv, SpawnDescendant
    PROVE  IInv'
  <1> USE ProcessAssumption DEF IInv
  <1>1. TypeInv'
    BY DEF TypeInv, SpawnDescendant, world, Counts, Places, Outcomes, Processes,
       ProcessStates
  <1>2. TreeInv'
    BY DEF TypeInv, TreeInv, SpawnDescendant, world, Processes, Launching, Polling,
       Ending
  <1>3. StreamsInv'
    BY DEF TypeInv, TreeInv, StreamsInv, Silent, SpawnDescendant, world, Processes,
       Counts, Launching, Polling, Ending
  <1>4. OutcomeInv'
    BY DEF TypeInv, TreeInv, StreamsInv, OutcomeInv, SpawnDescendant, world, Processes,
       Outcomes, Launching, Polling, Ending
  <1> QED
    BY <1>1, <1>2, <1>3, <1>4

(* A process exits, or is gone behind a kill.                              *)
LEMMA EndsKeep ==
    ASSUME IInv, NEW p \in Processes, Exit(p) \/ Die(p)
    PROVE  IInv'
  <1> USE ProcessAssumption DEF IInv
  <1>1. TypeInv'
    <2>1. exitCode' \in {0, 1}
      BY DEF TypeInv, Exit, Die
    <2>2. process' \in [Processes -> ProcessStates] /\ UNCHANGED <<at, termination, job, world>>
      BY DEF TypeInv, Exit, Die, ProcessStates
    <2> QED
      BY <2>1, <2>2 DEF TypeInv, world
  <1>2. TreeInv'
    BY DEF TypeInv, TreeInv, Exit, Die, world, Processes, Launching, Polling, Ending
  <1>3. StreamsInv'
    BY DEF TypeInv, TreeInv, StreamsInv, Silent, Exit, Die, world, Processes, Counts,
       Launching, Polling, Ending
  <1>4. OutcomeInv'
    BY DEF TypeInv, TreeInv, StreamsInv, OutcomeInv, Exit, Die, world, Processes,
       Outcomes, Launching, Polling, Ending
  <1> QED
    BY <1>1, <1>2, <1>3, <1>4

(* A stop is requested, time passes, or nothing happens.                   *)
LEMMA OutsideKeeps ==
    ASSUME IInv, RequestStop \/ TimePasses \/ UNCHANGED vars
    PROVE  IInv'
  <1> USE DEF IInv
  <1>1. UNCHANGED <<at, termination, process, job, exitCode, written, read, retained, reader,
                    exceeded>>
    BY DEF RequestStop, TimePasses, vars, world
  <1>2. /\ requested' \in BOOLEAN /\ timeUp' \in BOOLEAN
        /\ (requested => requested') /\ (timeUp => timeUp')
    <2>1. requested \in BOOLEAN /\ timeUp \in BOOLEAN
      BY DEF TypeInv
    <2>2. CASE RequestStop
      BY <2>1, <2>2 DEF RequestStop
    <2>3. CASE TimePasses
      BY <2>1, <2>3 DEF TimePasses
    <2>4. CASE UNCHANGED vars
      BY <2>1, <2>4 DEF vars, world
    <2> QED
      BY <2>2, <2>3, <2>4
  <1>3. TypeInv' /\ TreeInv'
    BY <1>1, <1>2 DEF TypeInv, TreeInv
  <1>4. StreamsInv'
    BY <1>1 DEF StreamsInv, Silent
  <1>5. OutcomeInv'
    <2>1. ASSUME at' \in Ending
          PROVE  /\ termination' = "cancelled" => requested'
                 /\ termination' = "timed-out" => timeUp'
      <3>1. at \in Ending /\ termination' = termination
        BY <1>1, <2>1
      <3>2. /\ termination = "cancelled" => requested
            /\ termination = "timed-out" => timeUp
        BY <3>1 DEF OutcomeInv
      <3>3. termination' = "cancelled" => requested'
        BY <1>2, <3>1, <3>2
      <3>4. termination' = "timed-out" => timeUp'
        BY <1>2, <3>1, <3>2
      <3> QED
        BY <3>3, <3>4
    <2>2. exceeded' <=> exceeded
      BY <1>1
    <2>3. (at \in Ending => (termination = "output-limit-exceeded" => exceeded))'
      BY <1>1, <2>2 DEF OutcomeInv
    <2>4. (at = "returned" /\ termination # "error" =>
             /\ \A s \in Streams : reader[s] = "sent"
             /\ termination \in {"completed", "non-zero-exit"} => ~exceeded)'
      BY <1>1, <2>2 DEF OutcomeInv
    <2> QED
      BY <1>1, <2>1, <2>3, <2>4 DEF OutcomeInv
  <1> QED
    BY <1>3, <1>4, <1>5

-----------------------------------------------------------------------------
(* In every reachable state the tree is in the job, the streams are read   *)
(* as far as they say, and the outcome stands on what happened.            *)
THEOREM Invariance == Spec => []IInv
  <1>1. IInv /\ [Next]_vars => IInv'
    <2> SUFFICES ASSUME IInv, [Next]_vars PROVE IInv'
      OBVIOUS
    <2>1. CASE Controller
      BY <2>1, LaunchKeeps, AssignKeeps, ResumeKeeps, PollsKeep, PollExitKeeps, WaitKeeps,
         ReceiveKeeps DEF Controller
    <2>2. ASSUME NEW s \in Streams, Reader(s) PROVE IInv'
      BY <2>2, ReadSomeKeeps, ReadEndsKeeps DEF Reader
    <2>3. ASSUME NEW p \in Processes, Exit(p) \/ Die(p) PROVE IInv'
      BY <2>3, EndsKeep
    <2>4. ASSUME NEW p \in Processes, NEW s \in Streams, Write(p, s) PROVE IInv'
      BY <2>4, WriteKeeps
    <2>5. CASE SpawnDescendant
      BY <2>5, SpawnKeeps
    <2>6. CASE RequestStop \/ TimePasses \/ UNCHANGED vars
      BY <2>6, OutsideKeeps
    <2> QED
      BY <2>1, <2>2, <2>3, <2>4, <2>5, <2>6 DEF Next
  <1> QED
    BY Initially, <1>1, PTL DEF Spec

(* Whichever way the call returns, nothing of the tree runs on, and behind *)
(* an outcome everybody who could write to the pipes is gone.              *)
THEOREM NothingRunsOn == Spec => []NothingRunsBehindTheCall
  <1>1. IInv => NothingRunsBehindTheCall
    <2> SUFFICES ASSUME IInv, at = "returned" PROVE NothingRunsBehindTheCall
      BY DEF NothingRunsBehindTheCall
    <2>1. \A p \in Processes : process[p] # "running"
      BY DEF IInv, TreeInv, Ending
    <2>2. ASSUME termination # "error" PROVE \A p \in Processes : ~HoldsPipes(p)
      <3>1. PICK s \in Streams : reader[s] = "sent"
        BY <2>2, ProcessAssumption DEF IInv, OutcomeInv
      <3>2. Silent
        BY <3>1 DEF IInv, StreamsInv
      <3> QED
        BY <3>2 DEF Silent, HoldsPipes, Processes
    <2> QED
      BY <2>1, <2>2 DEF NothingRunsBehindTheCall
  <1> QED
    BY <1>1, Invariance, PTL

(* What the call reports is what happened: the output of a child that      *)
(* ended by itself is whole, and each other outcome has its cause.         *)
THEOREM OutcomesAreEarned == Spec => []OutcomeIsEarned
  <1>1. IInv => OutcomeIsEarned
    <2> SUFFICES ASSUME IInv, at = "returned" PROVE OutcomeIsEarned
      BY DEF OutcomeIsEarned
    <2>1. \A s \in Streams : read[s] \in Nat /\ written[s] \in Nat /\ Limit \in Nat
      BY ProcessAssumption DEF IInv, TypeInv, Counts
    <2>2. ASSUME termination \in {"completed", "non-zero-exit"}
          PROVE  /\ \A s \in Streams : retained[s] = written[s]
                 /\ termination = "completed" <=> exitCode = 0
      <3>1. ~exceeded /\ \A s \in Streams : reader[s] = "sent"
        BY <2>2 DEF IInv, OutcomeInv
      <3>2. \A s \in Streams : read[s] = written[s] /\ read[s] <= Limit
        BY <2>1, <3>1 DEF IInv, StreamsInv
      <3>3. \A s \in Streams : retained[s] = written[s]
        BY <3>2 DEF IInv, StreamsInv
      <3>4. termination = "completed" <=> exitCode = 0
        BY <2>2 DEF IInv, OutcomeInv, Ending
      <3> QED
        BY <3>3, <3>4
    <2>3. /\ termination = "cancelled" => requested
          /\ termination = "timed-out" => timeUp
      BY DEF IInv, OutcomeInv, Ending
    <2>4. termination = "output-limit-exceeded" => \E s \in Streams : written[s] > Limit
      BY <2>1 DEF IInv, OutcomeInv, StreamsInv, Ending
    <2> QED
      BY <2>2, <2>3, <2>4 DEF OutcomeIsEarned
  <1> QED
    BY <1>1, Invariance, PTL
=============================================================================
