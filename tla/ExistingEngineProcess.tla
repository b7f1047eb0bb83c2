------------------------ MODULE ExistingEngineProcess ------------------------
(***************************************************************************)
(* run_existing_engine_process of execution_process.rs: one child process  *)
(* under a kill-on-close job, two threads that drain its pipes, and the    *)
(* controlling thread, which polls the cancellation token, the overflow    *)
(* flag, the clock and the process, in this order.  Each poll is a step of *)
(* its own, and the child, its descendants, the readers, the clock and the *)
(* holder of the token move between them.                                  *)
(*                                                                         *)
(* The operating system is modelled from how the code uses it: a call that *)
(* can fail may fail.  What the paths, hashes and arguments are checked    *)
(* for is one choice, made before the launch and again after the end.      *)
(***************************************************************************)
EXTENDS Integers, FiniteSets

CONSTANTS
    Streams,     \* stdout and stderr
    Limit,       \* bytes retained of a stream (stdout_bytes, stderr_bytes)
    MaxWritten   \* bound on the bytes written to a stream

ASSUME ProcessAssumption ==
    /\ IsFiniteSet(Streams) /\ Streams # {}
    /\ Limit \in Nat \ {0}
    /\ MaxWritten \in Nat

VARIABLES
    at,            \* where the controlling thread is
    termination,   \* the outcome so far
    process,       \* the selected program ("root") and a descendant of it
    job,           \* the processes that are in the job object
    exitCode,      \* of the root, when it ended by itself
    written,       \* bytes written to each pipe
    read,          \* bytes its reader has taken out
    retained,      \* bytes its reader has kept
    reader,        \* each reader thread
    exceeded,      \* output_exceeded
    requested,     \* the cancellation token
    timeUp         \* wall_time has passed

world == <<written, read, retained, reader, exceeded, requested, timeUp>>
vars == <<at, termination, process, job, exitCode, world>>

Processes == {"root", "descendant"}
ProcessStates == {"unborn", "suspended", "running", "dying", "gone"}
Outcomes == {"completed", "non-zero-exit", "cancelled", "timed-out", "output-limit-exceeded",
             "error"}
Places == {"launch", "assign", "resume", "poll-cancellation", "poll-output", "poll-time",
           "poll-exit", "wait", "receive", "returned"}

(* A process of the tree holds both pipes until it is gone.                *)
HoldsPipes(p) == process[p] \in {"suspended", "running", "dying"}

(* Seeded fault: the selected program is terminated, not its job.          *)
KilledRootOnly ==
    IF process["root"] \in {"suspended", "running"}
    THEN [process EXCEPT !["root"] = "dying"] ELSE process

(* TerminateJobObject, and what closing the job does: whoever is in it     *)
(* runs no further, and is gone some time later.                           *)
Killed == [p \in Processes |->
              IF p \in job /\ process[p] \in {"suspended", "running"} THEN "dying" ELSE process[p]]

-----------------------------------------------------------------------------
Init ==
    /\ at = "launch" /\ termination = "none"
    /\ process = [p \in Processes |-> "unborn"] /\ job = {}
    /\ exitCode = 0
    /\ written = [s \in Streams |-> 0]
    /\ read = [s \in Streams |-> 0]
    /\ retained = [s \in Streams |-> 0]
    /\ reader = [s \in Streams |-> "none"]
    /\ exceeded = FALSE /\ requested = FALSE /\ timeUp = FALSE

Goto(place) == at' = place /\ UNCHANGED termination

(* The call returns and drops the job.                                     *)
Return(outcome) == at' = "returned" /\ termination' = outcome

(* Validation, both hashes, the job object, and a child that is created    *)
(* suspended.                                                              *)
Launch ==
    /\ at = "launch"
    /\ \/ Return("error") /\ UNCHANGED process
       \/ Goto("assign") /\ process' = [process EXCEPT !["root"] = "suspended"]
    /\ UNCHANGED <<job, exitCode, world>>

(* A child that cannot be put into the job is terminated directly; if that *)
(* fails too it stays suspended.                                           *)
Assign ==
    /\ at = "assign"
    /\ \/ /\ job' = job \cup {"root"}
          /\ Goto("resume") /\ UNCHANGED process
       \/ /\ Return("error") /\ UNCHANGED job
          /\ process' \in {process, [process EXCEPT !["root"] = "dying"]}
    /\ UNCHANGED <<exitCode, world>>

Resume ==
    /\ at = "resume"
    /\ \/ /\ process["root"] = "suspended"
          /\ process' = [process EXCEPT !["root"] = "running"]
          /\ reader' = [s \in Streams |-> "reading"]
          /\ Goto("poll-cancellation")
       \/ /\ Return("error")
          /\ process' = Killed /\ UNCHANGED reader
    /\ UNCHANGED <<job, exitCode, written, read, retained, exceeded, requested, timeUp>>

(* terminate_native_and_wait; when the job cannot be terminated the call   *)
(* fails, and closing the job kills.                                       *)
KillFor(outcome) ==
    /\ process' = Killed
    /\ \/ at' = "wait" /\ termination' = outcome
       \/ Return("error")
    /\ UNCHANGED <<job, exitCode, world>>

PollNext(place) == Goto(place) /\ UNCHANGED <<process, job, exitCode, world>>

PollCancellation ==
    /\ at = "poll-cancellation"
    /\ IF requested THEN KillFor("cancelled") ELSE PollNext("poll-output")

PollOutput ==
    /\ at = "poll-output"
    /\ IF exceeded THEN KillFor("output-limit-exceeded") ELSE PollNext("poll-time")

(* Seeded fault: the clock is not looked at.                               *)
PollNoTime == at = "poll-time" /\ PollNext("poll-exit")

PollTime ==
    /\ at = "poll-time"
    /\ IF timeUp THEN KillFor("timed-out") ELSE PollNext("poll-exit")

(* exit_code_if_finished, which may fail.  Behind an exit the job is       *)
(* terminated, for the descendants.                                        *)
PollExit ==
    /\ at = "poll-exit"
    /\ UNCHANGED <<job, exitCode, world>>
    /\ \/ /\ process["root"] # "gone"
          /\ Goto("poll-cancellation") /\ UNCHANGED process
       \/ /\ process["root"] = "gone"
          /\ at' = "receive"
          /\ termination' = IF exitCode = 0 THEN "completed" ELSE "non-zero-exit"
          /\ process' = Killed
       \/ Return("error") /\ process' = Killed

(* wait_for_exit, five seconds.                                            *)
Wait ==
    /\ at = "wait"
    /\ \/ process["root"] = "gone" /\ Goto("receive")
       \/ process["root"] # "gone" /\ Return("error")
    /\ UNCHANGED <<process, job, exitCode, world>>

(* Seeded fault: the flag is not looked at again behind the readers.       *)
ReceiveUnchecked ==
    /\ at = "receive"
    /\ \/ /\ \A s \in Streams : reader[s] = "sent"
          /\ Return(termination)
       \/ Return("error")
    /\ UNCHANGED <<process, job, exitCode, world>>

(* Both readers within their grace time, then the flag again, then both    *)
(* hashes again.                                                           *)
Receive ==
    /\ at = "receive"
    /\ \/ /\ \A s \in Streams : reader[s] = "sent"
          /\ Return(IF exceeded THEN "output-limit-exceeded" ELSE termination)
       \/ Return("error")
    /\ UNCHANGED <<process, job, exitCode, world>>

Controller ==
    \/ Launch \/ Assign \/ Resume
    \/ PollCancellation \/ PollOutput \/ PollTime \/ PollExit
    \/ Wait \/ Receive

-----------------------------------------------------------------------------
(* spawn_bounded_reader: it goes on draining behind the limit.             *)
ReadSome(s) ==
    /\ reader[s] = "reading"
    /\ read[s] < written[s]
    /\ \E count \in 1..(written[s] - read[s]) :
          LET remaining == Limit - retained[s]
          IN  /\ read' = [read EXCEPT ![s] = @ + count]
              /\ retained' = [retained EXCEPT ![s] =
                                 @ + IF count < remaining THEN count ELSE remaining]
              /\ exceeded' = (exceeded \/ count > remaining)
    /\ UNCHANGED <<at, termination, process, job, exitCode, written, reader, requested, timeUp>>

(* The end of the pipe comes when nobody can write to it any more.         *)
ReadEnds(s) ==
    /\ reader[s] = "reading"
    /\ \/ /\ read[s] = written[s]
          /\ \A p \in Processes : ~HoldsPipes(p)
          /\ reader' = [reader EXCEPT ![s] = "sent"]
       \/ reader' = [reader EXCEPT ![s] = "failed"]
    /\ UNCHANGED <<at, termination, process, job, exitCode, written, read, retained, exceeded,
                   requested, timeUp>>

Reader(s) == ReadSome(s) \/ ReadEnds(s)

(* What the child does, and what the system does to it.                    *)
Write(p, s) ==
    /\ process[p] = "running"
    /\ written[s] < MaxWritten
    /\ written' = [written EXCEPT ![s] = @ + 1]
    /\ UNCHANGED <<at, termination, process, job, exitCode, read, retained, reader, exceeded,
                   requested, timeUp>>

SpawnDescendant ==
    /\ process["root"] = "running" /\ process["descendant"] = "unborn"
    /\ process' = [process EXCEPT !["descendant"] = "running"]
    /\ job' = IF "root" \in job THEN job \cup {"descendant"} ELSE job
    /\ UNCHANGED <<at, termination, exitCode, world>>

Exit(p) ==
    /\ process[p] = "running"
    /\ process' = [process EXCEPT ![p] = "gone"]
    /\ IF p = "root" THEN exitCode' \in {0, 1} ELSE UNCHANGED exitCode
    /\ UNCHANGED <<at, termination, job, world>>

Die(p) ==
    /\ process[p] = "dying"
    /\ process' = [process EXCEPT ![p] = "gone"]
    /\ UNCHANGED <<at, termination, job, exitCode, world>>

RequestStop ==
    /\ ~requested /\ requested' = TRUE
    /\ UNCHANGED <<at, termination, process, job, exitCode, written, read, retained, reader,
                   exceeded, timeUp>>

TimePasses ==
    /\ ~timeUp /\ timeUp' = TRUE
    /\ UNCHANGED <<at, termination, process, job, exitCode, written, read, retained, reader,
                   exceeded, requested>>

Next ==
    \/ Controller
    \/ \E s \in Streams : Reader(s)
    \/ \E p \in Processes : Exit(p) \/ Die(p) \/ \E s \in Streams : Write(p, s)
    \/ SpawnDescendant \/ RequestStop \/ TimePasses

(* The controlling thread runs and time passes.  Nothing is assumed of the *)
(* child, of the reader threads or of how long the system takes to kill.   *)
Spec == Init /\ [][Next]_vars /\ WF_vars(Controller) /\ WF_vars(TimePasses)
-----------------------------------------------------------------------------
TypeOK ==
    /\ at \in Places /\ termination \in Outcomes \cup {"none"}
    /\ process \in [Processes -> ProcessStates] /\ job \subseteq Processes
    /\ exitCode \in {0, 1}
    /\ \A s \in Streams : /\ written[s] \in 0..MaxWritten
                          /\ read[s] \in 0..written[s]
                          /\ retained[s] \in 0..Limit /\ retained[s] <= read[s]
    /\ reader \in [Streams -> {"none", "reading", "sent", "failed"}]
    /\ {exceeded, requested, timeUp} \subseteq BOOLEAN

(* Nothing runs behind the call: whichever way it returns, no process of   *)
(* the tree runs on, and behind an outcome everybody who could write to    *)
(* the pipes is gone.  (CREATE_SUSPENDED, assign before resume,            *)
(* kill-on-close, the termination behind an exit.)                         *)
NothingRunsBehindTheCall ==
    at = "returned" =>
        /\ \A p \in Processes : process[p] # "running"
        /\ termination # "error" => \A p \in Processes : ~HoldsPipes(p)

(* An outcome is earned: a completed child ended by itself with code 0 and *)
(* everything it and its descendants wrote is in the output; a cancelled   *)
(* one was requested, a timed out one had its time, and only a stream that *)
(* outgrew its limit is reported as one.                                   *)
OutcomeIsEarned ==
    at = "returned" =>
        /\ termination \in {"completed", "non-zero-exit"} =>
              /\ \A s \in Streams : retained[s] = written[s]
              /\ termination = "completed" <=> exitCode = 0
        /\ termination = "cancelled" => requested
        /\ termination = "timed-out" => timeUp
        /\ termination = "output-limit-exceeded" => \E s \in Streams : written[s] > Limit

(* The call returns, whatever the child does: it may write for ever, never *)
(* exit, or leave a descendant that holds the pipes.                       *)
EveryCallReturns == <>(at = "returned")
=============================================================================
