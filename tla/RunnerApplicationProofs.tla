----------------------- MODULE RunnerApplicationProofs -----------------------
(***************************************************************************)
(* The page of the runner, for any number of clicks awaited at once, any   *)
(* scans, plans and results: a step of the setup is alone, the progress    *)
(* shown never goes back, a result that arrived stays shown, and the       *)
(* result of a completed run arrives.                                      *)
(***************************************************************************)
EXTENDS RunnerApplication, FiniteSetTheorems, TLAPS

-----------------------------------------------------------------------------
(* What the page and the messages are made of.                             *)
PlanIds == {p.id : p \in Plans} \cup {None}
Snapshot ==
    [sequence : Nat \cup {-1}, plan : PlanIds,
     state : {None, "queued", "running", "stop-requested", "terminal"},
     phase : {None, "queued", "integrity-recheck", "quick-check", "complete"}]
Runs == [snapshot : Snapshot, result : WorkerResults \cup {NoObservation}]

(* One invocation; its argument is not looked at here.                     *)
IsCall(c) ==
    /\ DOMAIN c = {"by", "method", "step", "arg", "answer"}
    /\ c.by \in Clicks \cup {"poll"}
    /\ c.method \in Methods
    /\ c.by = "poll" => c.method = "refreshExecution"
    /\ c.step \in Nat
    /\ c.answer \in Runs

IsPage(u) ==
    /\ DOMAIN u = DOMAIN Fresh
    /\ u.execution \in BOOLEAN
    /\ u.plan \in PlanIds
    /\ u.lifecycle \in Snapshot

TypeInv ==
    /\ IsPage(ui)
    /\ \A c \in calls : IsCall(c)
    /\ remote \in Runs
    /\ poll \in {"off", "armed"}

(* A step of the setup is alone, behind controls that are off.             *)
SetupInv ==
    \A c \in calls :
        c.method \notin RunMethods =>
            /\ calls = {c} /\ poll = "off"
            /\ shown.busy = TRUE
            /\ shown.stage = StageOf[c.method] /\ ui.stage = StageOf[c.method]
            /\ ui.lifecycle = NoLifecycle

(* Once a run is started the page stays in the stages of the run.          *)
Started ==
    \/ poll = "armed" \/ ui.lifecycle # NoLifecycle
    \/ \E c \in calls : c.method \in RunMethods
RunInv == Started => ui.execution = TRUE /\ ui.stage \in RunStages /\ shown.stage \in RunStages

(* An answer on its way is of the past of the runner's execution, and one  *)
(* that tells the end is of its present.                                   *)
AnswerInv(c) ==
    /\ c.answer.snapshot.sequence <= remote.snapshot.sequence
    /\ c.answer.snapshot.state = "terminal" => c.answer.snapshot = remote.snapshot
    /\ c.method = "refreshExecution" /\ c.step # 1 =>
          remote.snapshot.state = "terminal" /\ c.answer \in {NoRun, remote}

AnswersInv ==
    /\ remote = NoRun \/ remote.snapshot.sequence >= 1
    /\ \A c \in calls : AnswerInv(c)

(* A refresh that will find the end of the run and show its result again.  *)
Delivers(c) ==
    c.method = "refreshExecution" /\ (c.answer = NoRun \/ c.answer.snapshot = remote.snapshot)

(* A result that arrived is the runner's and was admitted; the stage is    *)
(* away from it only while a refresh is awaited that brings it back.       *)
ResultInv ==
    ui.result # NoObservation =>
        /\ remote.snapshot.state = "terminal" /\ LifecycleWellFormed(remote.snapshot)
        /\ ui.lifecycle = remote.snapshot
        /\ ui.result = remote.result
        /\ ResultAdmitted(ShownPlan, remote.result)
        /\ remote.result.plan = remote.snapshot.plan
        /\ "progress" \in {ui.stage, shown.stage} => \E c \in calls : Delivers(c)

IInv == TypeInv /\ SetupInv /\ RunInv /\ AnswersInv /\ ResultInv

-----------------------------------------------------------------------------
(* A setup method shows a stage of the setup.                              *)
LEMMA StagesApart ==
    ASSUME NEW method \in Methods \ RunMethods
    PROVE  StageOf[method] \in Stages \ RunStages
  BY DEF Methods, RunMethods, StageOf, Stages, RunStages

(* A runner that started nothing is a runner.                              *)
LEMMA NoRunTyped == NoRun \in Runs /\ NoLifecycle \in Snapshot
  BY DEF NoRun, NoLifecycle, Runs, Snapshot, PlanIds, None

(* The page is blank when it is created.                                   *)
LEMMA FreshTyped ==
    /\ IsPage(Fresh) /\ Fresh.lifecycle = NoLifecycle /\ Fresh.result = NoObservation
    /\ Fresh.stage = "welcome" /\ Fresh.status = "idle" /\ Fresh.plan = None
  BY NoRunTyped DEF Fresh, IsPage, PlanIds

(* What the verdict on a snapshot says of it and of the one shown.         *)
LEMMA VerdictFacts ==
    ASSUME NEW v \in Snapshot, ui.lifecycle \in Snapshot
    PROVE  /\ Verdict(v) \in Objections \cup {"older", "newer"}
           /\ Verdict(v) = "newer" =>
                 /\ LifecycleWellFormed(v)
                 /\ v.sequence >= ui.lifecycle.sequence
                 /\ \/ v = ui.lifecycle \/ ui.lifecycle = NoLifecycle
                    \/ v.sequence > ui.lifecycle.sequence
           /\ v = ui.lifecycle /\ LifecycleWellFormed(v) => Verdict(v) = "newer"
  <1>1. CASE ~LifecycleWellFormed(v)
    BY <1>1 DEF Verdict, Objections
  <1>2. CASE LifecycleWellFormed(v) /\ ui.lifecycle = NoLifecycle
    <2>1. v.sequence >= 0 /\ v.sequence \in Int
      BY <1>2 DEF LifecycleWellFormed, Snapshot
    <2>2. Verdict(v) = "newer"
      BY <1>2 DEF Verdict
    <2> QED
      BY <1>2, <2>1, <2>2 DEF NoLifecycle
  <1>3. CASE LifecycleWellFormed(v) /\ ui.lifecycle # NoLifecycle
    <2>1. v.sequence \in Int /\ ui.lifecycle.sequence \in Int
      BY DEF Snapshot
    <2>2. Verdict(v) = CASE v.plan # ui.lifecycle.plan -> "mismatch"
              [] v.plan = ui.lifecycle.plan /\ v.sequence < ui.lifecycle.sequence -> "older"
              [] v.plan = ui.lifecycle.plan /\ v.sequence > ui.lifecycle.sequence -> "newer"
              [] OTHER -> IF v = ui.lifecycle THEN "newer" ELSE "mutation"
      BY <1>3 DEF Verdict
    <2> QED
      BY <1>3, <2>1, <2>2 DEF Objections
  <1> QED
    BY <1>1, <1>2, <1>3

-----------------------------------------------------------------------------
(* A control of the setup is offered only while nothing is awaited.        *)
LEMMA SetupOffered ==
    ASSUME IInv, NEW by \in Clicks, NEW method \in Methods \ RunMethods, Clicked(by, method)
    PROVE  calls = {} /\ poll = "off" /\ ui.lifecycle = NoLifecycle /\ UNCHANGED <<poll, remote>>
  <1>1. shown.stage \notin RunStages
    BY SectionsAssumption DEF Clicked, Offered
  <1>2. shown.busy # TRUE
    BY DEF Clicked, Offered
  <1>3. \A c \in calls : c.method \in RunMethods
    BY <1>2 DEF IInv, SetupInv
  <1>4. ~Started
    BY <1>1 DEF IInv, RunInv
  <1>5. calls = {} /\ poll # "armed" /\ ui.lifecycle = NoLifecycle
    BY <1>3, <1>4 DEF Started
  <1> QED
    BY <1>5 DEF Clicked, IInv, TypeInv

(* Nothing has arrived where no progress was shown.                        *)
LEMMA NothingArrived ==
    ASSUME IInv, ui.lifecycle = NoLifecycle
    PROVE  ui.result = NoObservation
  BY DEF IInv, ResultInv, NoLifecycle, None

(* A click that begins a step of the setup keeps the invariant.            *)
LEMMA SetupBegins ==
    ASSUME IInv, NEW by \in Clicks, NEW method \in Methods \ RunMethods, NEW arg, NEW words,
           Clicked(by, method), Attempt(by, method, arg, words)
    PROVE  IInv'
  <1> DEFINE u == [ui EXCEPT !.stage = StageOf[method], !.status = "loading"]
             d == [by |-> by, method |-> method, step |-> 1, arg |-> arg, answer |-> NoRun]
  <1>1. /\ calls = {} /\ poll = "off" /\ UNCHANGED <<poll, remote>>
        /\ ui.lifecycle = NoLifecycle /\ ui.result = NoObservation
    BY SetupOffered, NothingArrived
  <1>2. by # "poll" /\ method \in Methods /\ method \notin RunMethods
    BY RunnerAssumption
  <1>3. IsPage(ui)
    BY DEF IInv, TypeInv
  <1>4. /\ IsPage(u) /\ u.lifecycle = NoLifecycle /\ u.result = NoObservation
        /\ u.stage = StageOf[method] /\ u.status = "loading"
    BY <1>1, <1>3 DEF IsPage, Fresh
  <1>5. \A word : /\ IsPage(Thrown(u, word))
                  /\ Thrown(u, word).lifecycle = NoLifecycle
                  /\ Thrown(u, word).result = NoObservation
    BY <1>4 DEF IsPage, Fresh, Thrown
  <1>6. remote \in Runs /\ (remote = NoRun \/ remote.snapshot.sequence >= 1)
    BY DEF IInv, TypeInv, AnswersInv
  <1>7. CASE words = {}
    <2>1. ui' = u /\ calls' = {d} /\ shown' = Rendered(u)
      BY <1>1, <1>2, <1>7 DEF Attempt
    <2>2. d.method = method /\ d.by = by /\ d.step = 1 /\ d.answer = NoRun
      OBVIOUS
    <2>3. IsCall(d)
      BY <1>2, NoRunTyped DEF IsCall
    <2>4. TypeInv'
      BY <1>1, <1>4, <1>6, <2>1, <2>3 DEF TypeInv
    <2>5. shown'.busy = TRUE /\ shown'.stage = StageOf[method]
      BY <1>2, <1>4, <2>1, StagesApart DEF Rendered, RunStages
    <2>6. SetupInv'
      BY <1>1, <1>4, <2>1, <2>2, <2>5 DEF SetupInv
    <2>7. RunInv'
      BY <1>1, <1>2, <1>4, <2>1, <2>2 DEF RunInv, Started
    <2>8. AnswerInv(d)'
      <3>1. d.answer.snapshot.sequence = -1 /\ d.answer.snapshot.state # "terminal"
        BY <2>2 DEF NoRun, NoLifecycle, None
      <3>2. remote.snapshot.sequence >= -1
        BY <1>6 DEF NoRun, NoLifecycle, Runs, Snapshot
      <3> QED
        BY <1>1, <1>2, <2>2, <3>1, <3>2 DEF AnswerInv, RunMethods
    <2>9. AnswersInv'
      BY <1>1, <1>6, <2>1, <2>8 DEF AnswersInv
    <2>10. ResultInv'
      BY <1>4, <2>1 DEF ResultInv
    <2> QED
      BY <2>4, <2>6, <2>7, <2>9, <2>10 DEF IInv
  <1>8. CASE words # {}
    <2>1. ui' = Thrown(u, words) /\ calls' = {}
      BY <1>1, <1>8 DEF Attempt
    <2>2. TypeInv' /\ SetupInv' /\ RunInv'
      BY <1>1, <1>5, <1>6, <2>1 DEF TypeInv, SetupInv, RunInv, Started
    <2>3. AnswersInv' /\ ResultInv'
      BY <1>1, <1>5, <1>6, <2>1 DEF AnswersInv, ResultInv
    <2> QED
      BY <2>2, <2>3 DEF IInv
  <1> QED
    BY <1>7, <1>8

-----------------------------------------------------------------------------
(* A step of the setup that ends, in whatever way, keeps it.               *)
LEMMA SetupReturns ==
    ASSUME IInv, NEW c \in calls, c.method \notin RunMethods, NEW u, IsPage(u),
           u.lifecycle = NoLifecycle, u.result = NoObservation,
           u.execution = TRUE \/ u.stage # "progress",
           Return(c, u), UNCHANGED remote
    PROVE  IInv'
  <1>1. calls' = {} /\ ui' = u /\ shown' = Rendered(u) /\ shown'.stage = u.stage
    BY DEF IInv, SetupInv, Return, Rendered
  <1>2. c.by # "poll" /\ poll = "off"
    BY DEF IInv, TypeInv, IsCall, SetupInv, RunMethods
  <1>3. poll' = IF c.method = "startExecution" /\ u.stage = "progress" THEN "armed" ELSE poll
    BY <1>2 DEF Return
  <1>4. TypeInv'
    BY <1>1, <1>2, <1>3 DEF IInv, TypeInv
  <1>5. SetupInv' /\ AnswersInv' /\ ResultInv'
    BY <1>1 DEF IInv, SetupInv, AnswersInv, ResultInv
  <1>6. RunInv'
    BY <1>1, <1>2, <1>3 DEF RunInv, Started, RunStages
  <1> QED
    BY <1>4, <1>5, <1>6 DEF IInv

(* A step of the setup that goes on to its next invocation keeps it.       *)
LEMMA SetupContinues ==
    ASSUME IInv, NEW c \in calls, c.method \notin RunMethods, InvokeNext(c, ui), UNCHANGED remote
    PROVE  IInv'
  <1> DEFINE d == [c EXCEPT !.step = @ + 1, !.answer = NoRun]
  <1>1. /\ calls' = {d} /\ UNCHANGED <<ui, shown, poll, remote>>
        /\ poll = "off" /\ shown.busy = TRUE /\ ui.lifecycle = NoLifecycle
        /\ shown.stage = StageOf[c.method] /\ ui.stage = StageOf[c.method]
    BY DEF IInv, SetupInv, InvokeNext
  <1>2. IsCall(c)
    BY DEF IInv, TypeInv
  <1>3. IsCall(d) /\ d.method = c.method /\ d.answer = NoRun
    BY <1>2, NoRunTyped DEF IsCall
  <1>4. TypeInv'
    BY <1>1, <1>3 DEF IInv, TypeInv
  <1>5. SetupInv' /\ RunInv'
    BY <1>1, <1>3 DEF SetupInv, RunInv, Started
  <1>6. AnswerInv(d)'
    <2>1. d.answer.snapshot.sequence = -1 /\ d.answer.snapshot.state # "terminal"
      BY <1>3 DEF NoRun, NoLifecycle, None
    <2>2. remote.snapshot.sequence >= -1
      BY DEF IInv, TypeInv, AnswersInv, NoRun, NoLifecycle, Runs, Snapshot
    <2> QED
      BY <1>1, <1>3, <2>1, <2>2 DEF AnswerInv, RunMethods
  <1>7. AnswersInv'
    BY <1>1, <1>6 DEF IInv, AnswersInv
  <1>8. ResultInv'
    BY <1>1, NothingArrived DEF ResultInv
  <1> QED
    BY <1>4, <1>5, <1>7, <1>8 DEF IInv

-----------------------------------------------------------------------------
(* A method of the run begins, at its control or at the timer: a refresh   *)
(* that begins will find what has arrived, a stop needs one that does.     *)
LEMMA RunBegins ==
    ASSUME IInv, NEW by, NEW method \in RunMethods,
           Attempt(by, method, None, Unless(ui.execution, "required")), UNCHANGED remote,
           \/ by \in Clicks /\ shown.stage = "progress" /\ UNCHANGED poll
           \/ by = "poll" /\ method = "refreshExecution" /\ poll = "armed" /\ poll' = "off"
    PROVE  IInv'
  <1> DEFINE u == [ui EXCEPT !.stage = StageOf[method], !.status = "loading"]
             d == [by |-> by, method |-> method, step |-> 1, arg |-> None, answer |-> NoRun]
             words == Unless(ui.execution, "required")
  <1>1. StageOf[method] = "progress" /\ method \in Methods
    BY DEF RunMethods, StageOf, Methods
  <1>2. TypeInv /\ IsPage(ui) /\ remote \in Runs /\ ui.execution \in BOOLEAN
    BY DEF IInv, TypeInv, IsPage
  <1>3. \A c \in calls : c.method \in RunMethods
    <2>1. CASE by \in Clicks /\ shown.stage = "progress"
      <3> SUFFICES ASSUME NEW c \in calls, c.method \notin RunMethods PROVE FALSE
        OBVIOUS
      <3>1. shown.stage = StageOf[c.method] /\ c.method \in Methods
        BY <1>2 DEF IInv, SetupInv, TypeInv, IsCall
      <3> QED
        BY <2>1, <3>1, StagesApart DEF RunStages
    <2>2. CASE poll = "armed"
      BY <2>2 DEF IInv, SetupInv
    <2> QED
      BY <2>1, <2>2
  <1>4. words = {} <=> ui.execution = TRUE
    BY <1>2 DEF Unless
  <1>5. /\ IsPage(u) /\ u.stage = "progress" /\ u.execution = ui.execution
        /\ u.lifecycle = ui.lifecycle /\ u.result = ui.result /\ u.plan = ui.plan
    BY <1>1, <1>2 DEF IsPage, Fresh
  <1>6. ui.result # NoObservation =>
          ui.execution = TRUE /\ (by \in Clicks => \E c \in calls : Delivers(c))
    <2>1. ui.result # NoObservation => ui.lifecycle # NoLifecycle
      BY NothingArrived
    <2> QED
      BY <2>1, RunnerAssumption DEF IInv, RunInv, Started, ResultInv
  <1>7. poll = "armed" => ui.execution = TRUE /\ shown.stage \in RunStages
    BY DEF IInv, RunInv, Started
  <1>8. remote = NoRun \/ remote.snapshot.sequence >= 1
    BY DEF IInv, AnswersInv
  <1>9. CASE words = {}
    <2>1. /\ ui' = u /\ calls' = calls \cup {d} /\ remote' = remote
          /\ shown' = IF by = "poll" THEN shown ELSE Rendered(u)
      BY <1>9 DEF Attempt
    <2>2. d.method = method /\ d.by = by /\ d.step = 1 /\ d.answer = NoRun
      OBVIOUS
    <2>3. IsCall(d)
      BY <1>1, NoRunTyped, RunnerAssumption DEF IsCall
    <2>4. shown'.stage \in RunStages
      BY <1>5, <1>7, <2>1, RunnerAssumption DEF Rendered, RunStages
    <2>5. TypeInv'
      BY <1>2, <1>5, <2>1, <2>3 DEF TypeInv
    <2>6. SetupInv'
      BY <1>3, <2>1, <2>2 DEF SetupInv
    <2>7. RunInv'
      BY <1>4, <1>5, <1>9, <2>1, <2>4 DEF RunInv, RunStages
    <2>8. AnswerInv(d)'
      <3>1. d.answer.snapshot.sequence = -1 /\ d.answer.snapshot.state # "terminal"
        BY <2>2 DEF NoRun, NoLifecycle, None
      <3>2. remote.snapshot.sequence >= -1
        BY <1>2, <1>8 DEF NoRun, NoLifecycle, Runs, Snapshot
      <3> QED
        BY <2>1, <2>2, <3>1, <3>2 DEF AnswerInv
    <2>9. AnswersInv'
      BY <1>8, <2>1, <2>8 DEF IInv, AnswersInv, AnswerInv
    <2>10. ResultInv'
      <3> SUFFICES ASSUME ui'.result # NoObservation PROVE ResultInv'
        BY DEF ResultInv
      <3>1. ui.result # NoObservation
        BY <1>5, <2>1
      <3>2. ShownPlan' = ShownPlan
        BY <1>5, <2>1 DEF ShownPlan
      <3>3. \E c \in calls' : Delivers(c)'
        <4>1. CASE method = "refreshExecution"
          BY <2>1, <2>2, <4>1 DEF Delivers
        <4>2. CASE method # "refreshExecution"
          <5>1. PICK c \in calls : Delivers(c)
            BY <1>6, <3>1, <4>2
          <5> QED
            BY <2>1, <5>1 DEF Delivers
        <4> QED
          BY <4>1, <4>2
      <3> QED
        BY <1>5, <2>1, <3>1, <3>2, <3>3 DEF IInv, ResultInv
    <2> QED
      BY <2>5, <2>6, <2>7, <2>9, <2>10 DEF IInv
  <1>10. CASE words # {}
    <2>1. /\ ui' = Thrown(u, words) /\ calls' = calls /\ remote' = remote
          /\ shown' = Rendered(Thrown(u, words))
      BY <1>10 DEF Attempt
    <2>2. ui.execution # TRUE /\ ui.result = NoObservation /\ poll # "armed"
      BY <1>4, <1>6, <1>7, <1>10
    <2>3. /\ IsPage(ui') /\ ui'.lifecycle = ui.lifecycle /\ ui'.result = ui.result
      BY <1>5, <2>1 DEF Thrown, IsPage, Fresh
    <2>4. ~Started
      BY <2>2 DEF IInv, RunInv
    <2>5. poll' = "off"
      BY <1>2, <2>2 DEF TypeInv
    <2>6. TypeInv' /\ SetupInv' /\ RunInv'
      BY <1>2, <1>3, <2>1, <2>3, <2>4, <2>5 DEF TypeInv, SetupInv, RunInv, Started
    <2>7. AnswersInv' /\ ResultInv'
      BY <2>1, <2>2, <2>3 DEF IInv, AnswersInv, AnswerInv, ResultInv
    <2> QED
      BY <2>6, <2>7 DEF IInv
  <1> QED
    BY <1>9, <1>10

(* A method of the run returns with the page u: what has arrived is kept,  *)
(* and the last refresh that would bring it back has done so.              *)
LEMMA RunReturns ==
    ASSUME IInv, NEW c \in calls, c.method \in RunMethods, NEW u, Return(c, u), UNCHANGED remote,
           IsPage(u), u.execution = ui.execution, u.plan = ui.plan, u.stage \in RunStages,
           u.result # NoObservation =>
              /\ remote.snapshot.state = "terminal" /\ LifecycleWellFormed(remote.snapshot)
              /\ u.lifecycle = remote.snapshot
              /\ u.result = remote.result
              /\ ResultAdmitted(ShownPlan, remote.result)
              /\ remote.result.plan = remote.snapshot.plan
              /\ u.stage = "progress" => \E d \in calls \ {c} : Delivers(d)
    PROVE  IInv'
  <1>1. /\ ui' = u /\ calls' = calls \ {c} /\ shown'.stage = u.stage
        /\ remote' = remote
    BY DEF Return, Rendered
  <1>2. /\ ui.execution = TRUE /\ poll \in {"off", "armed"} /\ remote \in Runs
        /\ \A d \in calls : IsCall(d)
    BY DEF IInv, RunInv, Started, TypeInv
  <1>3. poll' \in {"off", "armed"}
    BY <1>2, Zenon DEF Return
  <1>4. \A d \in calls : d.method \in RunMethods
    BY DEF IInv, SetupInv
  <1>5. TypeInv'
    BY <1>1, <1>2, <1>3 DEF TypeInv
  <1>6. SetupInv' /\ RunInv'
    BY <1>1, <1>2, <1>4 DEF SetupInv, RunInv
  <1>7. AnswersInv'
    BY <1>1 DEF IInv, AnswersInv, AnswerInv
  <1>8. ResultInv'
    <2> SUFFICES ASSUME u.result # NoObservation PROVE ResultInv'
      BY <1>1 DEF ResultInv
    <2>1. ShownPlan' = ShownPlan
      BY <1>1 DEF ShownPlan
    <2>2. "progress" \in {u.stage, u.stage} => \E d \in calls' : Delivers(d)'
      BY <1>1 DEF Delivers
    <2> QED
      BY <1>1, <2>1, <2>2 DEF ResultInv
  <1> QED
    BY <1>5, <1>6, <1>7, <1>8 DEF IInv

(* What is known where an answer of the run is handled.                    *)
LEMMA RunPage ==
    ASSUME IInv, NEW c \in calls, c.method \in RunMethods
    PROVE  /\ IsCall(c) /\ c.answer.snapshot \in Snapshot /\ AnswerInv(c)
           /\ IsPage(ui) /\ ui.execution = TRUE /\ ui.stage \in RunStages
           /\ ui.result # NoObservation =>
                 /\ remote.snapshot.state = "terminal" /\ LifecycleWellFormed(remote.snapshot)
                 /\ ui.lifecycle = remote.snapshot /\ ui.result = remote.result
                 /\ ResultAdmitted(ShownPlan, remote.result)
                 /\ remote.result.plan = remote.snapshot.plan
                 /\ ui.stage = "progress" => \E d \in calls : Delivers(d)
  <1>1. IsCall(c) /\ IsPage(ui) /\ AnswerInv(c)
    BY DEF IInv, TypeInv, AnswersInv
  <1>2. c.answer.snapshot \in Snapshot
    BY <1>1 DEF IsCall, Runs
  <1>3. ui.execution = TRUE /\ ui.stage \in RunStages
    BY DEF IInv, RunInv, Started
  <1> QED
    BY <1>1, <1>2, <1>3 DEF IInv, ResultInv

(* Once a result arrived, an answer is no news but where it tells the end. *)
LEMMA VerdictBehindTheResult ==
    ASSUME IInv, NEW c \in calls, c.method \in RunMethods, ui.result # NoObservation
    PROVE  /\ Verdict(c.answer.snapshot) = "newer" => c.answer.snapshot = remote.snapshot
           /\ Delivers(c) /\ c.answer # NoRun =>
                 /\ Verdict(c.answer.snapshot) = "newer"
                 /\ c.answer.snapshot.state = "terminal"
  <1> DEFINE v == c.answer.snapshot
  <1>1. /\ v \in Snapshot /\ ui.lifecycle = remote.snapshot /\ ui.lifecycle \in Snapshot
        /\ remote.snapshot.state = "terminal" /\ LifecycleWellFormed(remote.snapshot)
        /\ v.sequence <= remote.snapshot.sequence
    BY RunPage DEF AnswerInv, IsPage
  <1>2. ui.lifecycle # NoLifecycle
    BY <1>1 DEF NoLifecycle, None
  <1>3. v.sequence \in Int /\ ui.lifecycle.sequence \in Int
    BY <1>1 DEF Snapshot
  <1>4. Verdict(v) = "newer" => v = remote.snapshot
    BY <1>1, <1>2, <1>3, VerdictFacts
  <1>5. Delivers(c) /\ c.answer # NoRun => v = remote.snapshot
    BY DEF Delivers
  <1> QED
    BY <1>1, <1>4, <1>5, VerdictFacts

-----------------------------------------------------------------------------
(* An error changes the status and reasons only.                           *)
LEMMA ThrownKeeps ==
    ASSUME NEW u, IsPage(u), NEW words
    PROVE  /\ IsPage(Thrown(u, words)) /\ Thrown(u, words).execution = u.execution
           /\ Thrown(u, words).stage = u.stage /\ Thrown(u, words).plan = u.plan
           /\ Thrown(u, words).lifecycle = u.lifecycle /\ Thrown(u, words).result = u.result
  BY DEF IsPage, Fresh, Thrown

(* A return that leaves stage, snapshot and result as they were.           *)
LEMMA RunReturnsUnchanged ==
    ASSUME IInv, NEW c \in calls, c.method \in RunMethods, NEW u, Return(c, u), UNCHANGED remote,
           IsPage(u), u.execution = ui.execution, u.plan = ui.plan, u.stage = ui.stage,
           u.lifecycle = ui.lifecycle, u.result = ui.result,
           ui.result # NoObservation => ~Delivers(c)
    PROVE  IInv'
  <1>1. ui.stage \in RunStages
    BY RunPage
  <1>2. u.result # NoObservation =>
           /\ remote.snapshot.state = "terminal" /\ LifecycleWellFormed(remote.snapshot)
           /\ u.lifecycle = remote.snapshot
           /\ u.result = remote.result
           /\ ResultAdmitted(ShownPlan, remote.result)
           /\ remote.result.plan = remote.snapshot.plan
           /\ u.stage = "progress" => \E d \in calls \ {c} : Delivers(d)
    BY RunPage
  <1> QED
    BY <1>1, <1>2, RunReturns

(* The answer to a stop keeps the invariant.                               *)
LEMMA StopAnswers ==
    ASSUME IInv, NEW c \in calls, c.method = "stopExecution", StopAnswered(c), UNCHANGED remote
    PROVE  IInv'
  <1> DEFINE v == c.answer.snapshot
  <1>1. c.method \in RunMethods /\ ~Delivers(c)
    BY DEF RunMethods, Delivers
  <1>2. IsPage(ui) /\ v \in Snapshot /\ ui.lifecycle \in Snapshot
    BY <1>1, RunPage DEF IsPage
  <1>3. CASE Verdict(v) \in Objections
    <2>1. Return(c, Thrown(ui, {Verdict(v)}))
      BY <1>3 DEF StopAnswered, Objections
    <2> QED
      BY <1>1, <1>2, <2>1, ThrownKeeps, RunReturnsUnchanged
  <1>4. CASE Verdict(v) = "older"
    <2> DEFINE u == [ui EXCEPT !.status = "partial"]
    <2>1. Return(c, u)
      BY <1>4 DEF StopAnswered, Objections
    <2>2. /\ IsPage(u) /\ u.execution = ui.execution /\ u.plan = ui.plan
          /\ u.stage = ui.stage /\ u.lifecycle = ui.lifecycle /\ u.result = ui.result
      BY <1>2 DEF IsPage, Fresh
    <2> QED
      BY <1>1, <2>1, <2>2, RunReturnsUnchanged
  <1>5. CASE Verdict(v) = "newer"
    <2> DEFINE u == [ui EXCEPT !.lifecycle = v,
                               !.status = IF v.state = "terminal" THEN "partial" ELSE "loading"]
    <2>1. Return(c, u)
      BY <1>5 DEF StopAnswered, Objections
    <2>2. /\ IsPage(u) /\ u.execution = ui.execution /\ u.plan = ui.plan
          /\ u.stage = ui.stage /\ u.lifecycle = v /\ u.result = ui.result
      BY <1>2 DEF IsPage, Fresh
    <2>3. ui.result # NoObservation => v = remote.snapshot
      BY <1>1, <1>5, VerdictBehindTheResult
    <2>4. u.result # NoObservation =>
             /\ remote.snapshot.state = "terminal" /\ LifecycleWellFormed(remote.snapshot)
             /\ u.lifecycle = remote.snapshot
             /\ u.result = remote.result
             /\ ResultAdmitted(ShownPlan, remote.result)
             /\ remote.result.plan = remote.snapshot.plan
             /\ u.stage = "progress" => \E d \in calls \ {c} : Delivers(d)
      BY <1>1, <2>2, <2>3, RunPage
    <2> QED
      BY <1>1, <2>1, <2>2, <2>4, RunPage, RunReturns
  <1> QED
    BY <1>2, <1>3, <1>4, <1>5, VerdictFacts

(* A refresh goes on to its second invocation where it was told the end.   *)
LEMMA RefreshContinues ==
    ASSUME IInv, NEW c \in calls, c.method = "refreshExecution", c.step = 1,
           Verdict(c.answer.snapshot) = "newer", c.answer.snapshot.state = "terminal",
           InvokeNext(c, [ui EXCEPT !.lifecycle = c.answer.snapshot]), UNCHANGED remote
    PROVE  IInv'
  <1> DEFINE v == c.answer.snapshot
             u == [ui EXCEPT !.lifecycle = v]
             d == [c EXCEPT !.step = @ + 1, !.answer = NoRun]
  <1>1. c.method \in RunMethods
    BY DEF RunMethods
  <1>2. /\ IsCall(c) /\ v \in Snapshot /\ v = remote.snapshot
        /\ IsPage(ui) /\ ui.execution = TRUE /\ ui.stage \in RunStages
    BY <1>1, RunPage DEF AnswerInv
  <1>3. /\ ui' = u /\ calls' = (calls \ {c}) \cup {d} /\ UNCHANGED <<shown, poll, remote>>
    BY DEF InvokeNext
  <1>4. /\ IsPage(u) /\ u.execution = TRUE /\ u.stage = ui.stage /\ u.plan = ui.plan
        /\ u.lifecycle = v /\ u.result = ui.result
    BY <1>2 DEF IsPage, Fresh
  <1>5. /\ IsCall(d) /\ d.method = c.method /\ d.by = c.by /\ d.answer = NoRun
    BY <1>2, NoRunTyped DEF IsCall
  <1>6. shown.stage \in RunStages /\ \A e \in calls : e.method \in RunMethods
    BY <1>1 DEF IInv, RunInv, Started, SetupInv
  <1>7. TypeInv'
    BY <1>3, <1>4, <1>5 DEF IInv, TypeInv
  <1>8. SetupInv' /\ RunInv'
    BY <1>1, <1>2, <1>3, <1>4, <1>5, <1>6 DEF SetupInv, RunInv
  <1>9. AnswerInv(d)'
    <2>1. d.answer.snapshot.sequence = -1 /\ d.answer.snapshot.state # "terminal"
      BY <1>5 DEF NoRun, NoLifecycle, None
    <2>2. remote.snapshot.sequence >= -1
      BY DEF IInv, TypeInv, AnswersInv, NoRun, NoLifecycle, Runs, Snapshot
    <2> QED
      BY <1>2, <1>3, <1>5, <2>1, <2>2 DEF AnswerInv
  <1>10. AnswersInv'
    BY <1>3, <1>9 DEF IInv, AnswersInv, AnswerInv
  <1>11. ResultInv'
    <2> SUFFICES ASSUME ui.result # NoObservation PROVE ResultInv'
      BY <1>3, <1>4 DEF ResultInv
    <2>1. ShownPlan' = ShownPlan
      BY <1>3, <1>4 DEF ShownPlan
    <2>2. d \in calls' /\ Delivers(d)'
      BY <1>3, <1>5 DEF Delivers
    <2> QED
      BY <1>1, <1>2, <1>3, <1>4, <2>1, <2>2, RunPage DEF ResultInv
  <1> QED
    BY <1>7, <1>8, <1>10, <1>11 DEF IInv

(* So does the first answer to a refresh, the status,                      *)
LEMMA StatusAnswers ==
    ASSUME IInv, NEW c \in calls, c.method = "refreshExecution", c.step = 1, c.answer # NoRun,
           StatusAnswered(c), UNCHANGED remote
    PROVE  IInv'
  <1> DEFINE v == c.answer.snapshot
             u == [ui EXCEPT !.lifecycle = v]
  <1>1. c.method \in RunMethods
    BY DEF RunMethods
  <1>2. IsPage(ui) /\ v \in Snapshot /\ ui.lifecycle \in Snapshot
    BY <1>1, RunPage DEF IsPage
  <1>3. ui.result # NoObservation /\ Delivers(c) => Verdict(v) = "newer" /\ v.state = "terminal"
    BY <1>1, VerdictBehindTheResult
  <1>4. CASE Verdict(v) \in Objections
    <2>1. Return(c, Thrown(ui, {Verdict(v)}))
      BY <1>4 DEF StatusAnswered, Objections
    <2>2. Verdict(v) # "newer"
      BY <1>4 DEF Objections
    <2> QED
      BY <1>1, <1>2, <1>3, <2>1, <2>2, ThrownKeeps, RunReturnsUnchanged
  <1>5. CASE Verdict(v) = "older"
    <2>1. Return(c, Delayed(ui))
      BY <1>5 DEF StatusAnswered, Objections
    <2>2. /\ IsPage(Delayed(ui)) /\ Delayed(ui).execution = ui.execution
          /\ Delayed(ui).plan = ui.plan /\ Delayed(ui).stage = ui.stage
          /\ Delayed(ui).lifecycle = ui.lifecycle /\ Delayed(ui).result = ui.result
      BY <1>2 DEF Delayed, IsPage, Fresh
    <2> QED
      BY <1>1, <1>3, <1>5, <2>1, <2>2, RunReturnsUnchanged
  <1>6. CASE Verdict(v) = "newer" /\ v.state # "terminal"
    <2> DEFINE w == [u EXCEPT !.status = IF v.state = "stop-requested" THEN "partial"
                                         ELSE "loading"]
    <2>1. Return(c, w)
      BY <1>6 DEF StatusAnswered, Objections
    <2>2. /\ IsPage(w) /\ w.execution = ui.execution /\ w.plan = ui.plan
          /\ w.stage = ui.stage /\ w.lifecycle = v /\ w.result = ui.result
      BY <1>2 DEF IsPage, Fresh
    <2>3. ui.result = NoObservation
      <3> SUFFICES ASSUME ui.result # NoObservation PROVE FALSE
        OBVIOUS
      <3>1. v = remote.snapshot /\ remote.snapshot.state = "terminal"
        BY <1>1, <1>6, VerdictBehindTheResult, RunPage
      <3> QED
        BY <1>6, <3>1
    <2> QED
      BY <1>1, <2>1, <2>2, <2>3, RunPage, RunReturns
  <1>7. CASE Verdict(v) = "newer" /\ v.state = "terminal"
    <2>1. InvokeNext(c, u)
      BY <1>7 DEF StatusAnswered, Objections
    <2> QED
      BY <1>7, <2>1, RefreshContinues
  <1> QED
    BY <1>2, <1>4, <1>5, <1>6, <1>7, VerdictFacts

(* and its second answer, the result.                                      *)
LEMMA ResultAnswers ==
    ASSUME IInv, NEW c \in calls, c.method = "refreshExecution", c.step # 1, c.answer # NoRun,
           ResultAnswered(c), UNCHANGED remote
    PROVE  IInv'
  <1> DEFINE v == c.answer.snapshot
             r == c.answer.result
             u == [ui EXCEPT !.lifecycle = v]
  <1>1. c.method \in RunMethods
    BY DEF RunMethods
  <1>2. /\ IsPage(ui) /\ v \in Snapshot /\ ui.lifecycle \in Snapshot
        /\ c.answer = remote /\ v.state = "terminal" /\ v = remote.snapshot /\ r = remote.result
        /\ ui.execution = TRUE /\ ui.stage \in RunStages
    BY <1>1, RunPage DEF IsPage, AnswerInv
  <1>3. ui.result # NoObservation => Verdict(v) = "newer"
    BY <1>1, <1>2, VerdictBehindTheResult DEF Delivers
  <1>4. CASE Verdict(v) \in Objections
    <2>1. Return(c, Thrown(ui, {Verdict(v)}))
      BY <1>4 DEF ResultAnswered, Objections
    <2>2. Verdict(v) # "newer"
      BY <1>4 DEF Objections
    <2> QED
      BY <1>1, <1>2, <1>3, <2>1, <2>2, ThrownKeeps, RunReturnsUnchanged
  <1>5. CASE Verdict(v) = "older"
    <2> DEFINE w == [ui EXCEPT !.status = "blocked"]
    <2>1. Return(c, w)
      BY <1>5 DEF ResultAnswered, Objections
    <2>2. /\ IsPage(w) /\ w.execution = ui.execution /\ w.plan = ui.plan
          /\ w.stage = ui.stage /\ w.lifecycle = ui.lifecycle /\ w.result = ui.result
      BY <1>2 DEF IsPage, Fresh
    <2> QED
      BY <1>1, <1>3, <1>5, <2>1, <2>2, RunReturnsUnchanged
  <1>6. CASE Verdict(v) = "newer"
    <2>1. LifecycleWellFormed(v) /\ v.phase = "complete"
      BY <1>2, <1>6, VerdictFacts DEF LifecycleWellFormed
    <2>2. /\ IsPage(u) /\ u.execution = ui.execution /\ u.plan = ui.plan
          /\ u.stage = ui.stage /\ u.lifecycle = v /\ u.result = ui.result
      BY <1>2 DEF IsPage, Fresh
    <2>3. CASE r = NoObservation
      <3> DEFINE w == [u EXCEPT !.stage = "failure", !.status = "error"]
      <3>1. Return(c, w)
        BY <1>2, <1>6, <2>1, <2>3 DEF ResultAnswered, Objections
      <3>2. /\ IsPage(w) /\ w.execution = ui.execution /\ w.plan = ui.plan
            /\ w.stage = "failure" /\ w.result = ui.result
        BY <2>2 DEF IsPage, Fresh
      <3>3. ui.result = NoObservation
        BY <1>1, <1>2, <2>3, RunPage
      <3> QED
        BY <1>1, <3>1, <3>2, <3>3, RunReturns DEF RunStages
    <2>4. CASE r # NoObservation /\ (~ResultAdmitted(ShownPlan, r) \/ r.plan # v.plan)
      <3>1. PICK words : Return(c, Thrown(u, words))
        <4>1. CASE ~ResultAdmitted(ShownPlan, r)
          BY <1>2, <1>6, <2>1, <2>4, <4>1 DEF ResultAnswered, Objections
        <4>2. CASE ResultAdmitted(ShownPlan, r)
          BY <1>2, <1>6, <2>1, <2>4, <4>2 DEF ResultAnswered, Objections
        <4> QED
          BY <4>1, <4>2
      <3>2. ui.result = NoObservation
        BY <1>1, <1>2, <2>4, RunPage
      <3> HIDE DEF u
      <3>3. /\ IsPage(Thrown(u, words)) /\ Thrown(u, words).execution = ui.execution
            /\ Thrown(u, words).plan = ui.plan /\ Thrown(u, words).stage \in RunStages
            /\ Thrown(u, words).result = NoObservation
        BY <1>2, <2>2, <3>2, ThrownKeeps
      <3> QED
        BY <1>1, <3>1, <3>3, RunReturns
    <2>5. CASE r # NoObservation /\ ResultAdmitted(ShownPlan, r) /\ r.plan = v.plan
      <3>1. Return(c, ResultShown(u, r))
        BY <1>2, <1>6, <2>1, <2>5 DEF ResultAnswered, Objections
      <3>2. /\ IsPage(ResultShown(u, r)) /\ ResultShown(u, r).execution = ui.execution
            /\ ResultShown(u, r).plan = ui.plan /\ ResultShown(u, r).lifecycle = v
            /\ ResultShown(u, r).result = r
            /\ ResultShown(u, r).stage \in {"result", "failure"}
        BY <2>2 DEF IsPage, Fresh, ResultShown
      <3>3. ResultShown(u, r).stage # "progress" /\ ResultShown(u, r).stage \in RunStages
        BY <3>2 DEF RunStages
      <3> HIDE DEF u
      <3> QED
        BY <1>1, <1>2, <2>1, <2>5, <3>1, <3>2, <3>3, RunReturns
    <2> QED
      BY <2>3, <2>4, <2>5
  <1> QED
    BY <1>2, <1>4, <1>5, <1>6, VerdictFacts

(* The run starts: the page goes to the stages of the run.                 *)
LEMMA StartAnswers ==
    ASSUME IInv, NEW c \in calls, c.method = "startExecution", StartAnswered(c), UNCHANGED remote
    PROVE  IInv'
  <1> DEFINE v == c.answer.snapshot
             u == [ui EXCEPT !.execution = TRUE]
  <1>1. /\ c.method \in Methods \ RunMethods /\ calls = {c}
        /\ ui.lifecycle = NoLifecycle /\ poll = "off" /\ ui.result = NoObservation
    <2>1. c.method \in Methods \ RunMethods
      BY DEF Methods, StageOf, RunMethods
    <2>2. calls = {c} /\ poll = "off" /\ ui.lifecycle = NoLifecycle
      BY <2>1 DEF IInv, SetupInv
    <2> QED
      BY <2>1, <2>2, NothingArrived
  <1>2. /\ IsPage(ui) /\ ui.lifecycle \in Snapshot /\ v \in Snapshot
        /\ IsCall(c) /\ remote \in Runs
    BY DEF IInv, TypeInv, IsCall, Runs, IsPage
  <1>3. /\ IsPage(u) /\ u.stage = ui.stage /\ u.execution = TRUE
        /\ u.lifecycle = NoLifecycle /\ u.result = NoObservation
    BY <1>1, <1>2 DEF IsPage, Fresh
  <1>4. CASE Verdict(v) \in Objections
    <2>1. Return(c, Thrown(u, {Verdict(v)}))
      BY <1>4 DEF StartAnswered
    <2> HIDE DEF u
    <2>2. PICK w : w = Thrown(u, {Verdict(v)})
      OBVIOUS
    <2>3. Return(c, w) /\ IsPage(w) /\ w.execution = TRUE /\ w.lifecycle = NoLifecycle
          /\ w.result = NoObservation
      BY <1>3, <2>1, <2>2, ThrownKeeps
    <2> QED
      BY <1>1, <2>3, SetupReturns
  <1>5. CASE Verdict(v) \notin Objections
    <2> DEFINE w == [u EXCEPT !.lifecycle = IF Verdict(v) = "newer" THEN v ELSE @,
                              !.stage = "progress", !.status = "loading"]
    <2>1. Return(c, w)
      BY <1>5 DEF StartAnswered
    <2>2. /\ IsPage(w) /\ w.stage = "progress" /\ w.execution = TRUE /\ w.result = NoObservation
      BY <1>2, <1>3 DEF IsPage, Fresh
    <2> HIDE DEF w
    <2>3. /\ ui' = w /\ calls' = {} /\ shown'.stage = "progress" /\ remote' = remote
      BY <1>1, <2>1, <2>2 DEF Return, Rendered
    <2>4. poll' = "armed"
      <3>1. c.by # "poll"
        BY <1>2 DEF IsCall
      <3> QED
        BY <2>1, <2>2, <3>1, Zenon DEF Return
    <2>5. TypeInv' /\ SetupInv' /\ RunInv'
      BY <1>2, <2>2, <2>3, <2>4 DEF TypeInv, SetupInv, RunInv, RunStages
    <2>6. AnswersInv' /\ ResultInv'
      BY <2>2, <2>3 DEF IInv, AnswersInv, ResultInv
    <2> QED
      BY <2>5, <2>6 DEF IInv
  <1> QED
    BY <1>4, <1>5

-----------------------------------------------------------------------------
(* The runner answers c, whose execution is then r: it is at rest once it  *)
(* has ended, and otherwise only grows.                                    *)
LEMMA Serves ==
    ASSUME IInv, NEW c \in calls, c.answer = NoRun, NEW r \in Runs, NEW a \in Runs,
           UNCHANGED <<ui, shown, poll>>, remote' = r,
           calls' = (calls \ {c}) \cup {[c EXCEPT !.answer = a]},
           a.snapshot = r.snapshot,
           c.method = "refreshExecution" /\ c.step # 1 => a = r,
           r.snapshot.sequence >= 1 \/ r = NoRun,
           r.snapshot.sequence >= remote.snapshot.sequence,
           remote.snapshot.state = "terminal" => r = remote
    PROVE  IInv'
  <1> DEFINE d == [c EXCEPT !.answer = a]
  <1>1. IsCall(c) /\ AnswerInv(c) /\ remote \in Runs /\ IsPage(ui)
    BY DEF IInv, TypeInv, AnswersInv
  <1>2. IsCall(d) /\ d.method = c.method /\ d.by = c.by /\ d.step = c.step /\ d.answer = a
    BY <1>1 DEF IsCall
  <1> HIDE DEF d
  <1>3. calls' = (calls \ {c}) \cup {d}
    BY DEF d
  <1>4. TypeInv'
    BY <1>2, <1>3 DEF IInv, TypeInv
  <1>5. SetupInv'
    <2> SUFFICES ASSUME NEW e \in calls', e.method \notin RunMethods
                 PROVE  /\ calls' = {e} /\ poll' = "off"
                        /\ shown'.busy = TRUE
                        /\ shown'.stage = StageOf[e.method] /\ ui'.stage = StageOf[e.method]
                        /\ ui'.lifecycle = NoLifecycle
      BY DEF SetupInv
    <2>1. CASE e = d
      BY <1>2, <1>3, <2>1 DEF IInv, SetupInv
    <2>2. CASE e # d
      BY <1>3, <2>2 DEF IInv, SetupInv
    <2> QED
      BY <2>1, <2>2
  <1>6. RunInv'
    BY <1>2, <1>3 DEF IInv, RunInv, Started
  <1>7. AnswersInv'
    <2>1. AnswerInv(d)'
      <3>1. r.snapshot.sequence \in Int
        BY DEF Runs, Snapshot
      <3> QED
        BY <1>1, <1>2, <3>1 DEF AnswerInv
    <2>2. ASSUME NEW e \in calls PROVE AnswerInv(e)'
      <3>1. /\ IsCall(e) /\ AnswerInv(e) /\ e.answer.snapshot.sequence \in Int
            /\ r.snapshot.sequence \in Int /\ remote.snapshot.sequence \in Int
        BY <1>1 DEF IInv, TypeInv, AnswersInv, IsCall, Runs, Snapshot
      <3> QED
        BY <3>1 DEF AnswerInv
    <2> QED
      BY <1>3, <2>1, <2>2 DEF AnswersInv
  <1>8. ResultInv'
    <2> SUFFICES ASSUME ui.result # NoObservation PROVE ResultInv'
      BY DEF ResultInv
    <2>1. remote' = remote /\ ShownPlan' = ShownPlan
      BY DEF IInv, ResultInv, ShownPlan
    <2>2. ASSUME NEW e \in calls, Delivers(e) PROVE \E f \in calls' : Delivers(f)'
      <3>1. CASE e = c
        BY <1>2, <1>3, <2>1, <2>2, <3>1 DEF Delivers
      <3>2. CASE e # c
        BY <1>3, <2>1, <2>2, <3>2 DEF Delivers
      <3> QED
        BY <3>1, <3>2
    <2> QED
      BY <2>1, <2>2 DEF IInv, ResultInv
  <1> QED
    BY <1>4, <1>5, <1>6, <1>7, <1>8 DEF IInv

(* The execution goes on by itself.                                        *)
LEMMA ExecutionGrows ==
    ASSUME IInv, Running, NEW r \in Runs, remote' = r, UNCHANGED <<ui, calls, shown, poll>>,
           r.snapshot.sequence = remote.snapshot.sequence + 1
    PROVE  IInv'
  <1>1. remote.snapshot.state # "terminal" /\ remote # NoRun
    BY DEF Running, NoRun, NoLifecycle, None
  <1>2. /\ remote \in Runs /\ remote.snapshot.sequence \in Int /\ remote.snapshot.sequence >= 1
        /\ r.snapshot.sequence \in Int
    BY <1>1 DEF IInv, TypeInv, AnswersInv, Runs, Snapshot
  <1>3. TypeInv' /\ SetupInv' /\ RunInv'
    BY DEF IInv, TypeInv, SetupInv, RunInv, Started
  <1>4. ASSUME NEW e \in calls PROVE AnswerInv(e)'
    <2>1. IsCall(e) /\ AnswerInv(e) /\ e.answer.snapshot.sequence \in Int
      BY DEF IInv, TypeInv, AnswersInv, IsCall, Runs, Snapshot
    <2> QED
      BY <1>1, <1>2, <2>1 DEF AnswerInv
  <1>5. AnswersInv'
    BY <1>2, <1>4 DEF AnswersInv
  <1>6. ResultInv'
    BY <1>1 DEF IInv, ResultInv
  <1> QED
    BY <1>3, <1>5, <1>6 DEF IInv

(* What the execution does without the page keeps the invariant.           *)
LEMMA RunnerSteps ==
    ASSUME IInv, RunProgresses \/ RunEnds
    PROVE  IInv'
  <1> DEFINE s == remote.snapshot
  <1>1. /\ remote \in Runs /\ s \in Snapshot /\ s.sequence \in Int
        /\ remote.result \in WorkerResults \cup {NoObservation}
    BY DEF IInv, TypeInv, Runs, Snapshot
  <1>2. CASE RunProgresses
    <2> DEFINE q == Advanced(s, s.state, "quick-check")
    <2>1. q \in Snapshot /\ q.sequence = s.sequence + 1
      BY <1>1 DEF Advanced, Snapshot
    <2>2. remote' = [remote EXCEPT !.snapshot = q]
      BY <1>2 DEF RunProgresses
    <2> HIDE DEF q
    <2>3. remote' \in Runs /\ remote'.snapshot.sequence = s.sequence + 1
      BY <1>1, <2>1, <2>2 DEF Runs
    <2> QED
      BY <1>2, <2>3, ExecutionGrows DEF RunProgresses
  <1>3. CASE RunEnds
    <2> DEFINE q == Advanced(s, "terminal", "complete")
    <2>1. PICK w \in WorkerResults : remote' = [snapshot |-> q, result |-> w]
      BY <1>3 DEF RunEnds
    <2>2. q \in Snapshot /\ q.sequence = s.sequence + 1
      BY <1>1 DEF Advanced, Snapshot
    <2> HIDE DEF q
    <2>3. remote' \in Runs /\ remote'.snapshot.sequence = s.sequence + 1
      BY <2>1, <2>2 DEF Runs
    <2> QED
      BY <1>3, <2>3, ExecutionGrows DEF RunEnds
  <1> QED
    BY <1>2, <1>3

(* Serving one invocation keeps it.                                        *)
LEMMA ServeStep ==
    ASSUME IInv, NEW c \in calls, Serve(c)
    PROVE  IInv'
  <1> DEFINE s == remote.snapshot
  <1>1. /\ remote \in Runs /\ s \in Snapshot /\ s.sequence \in Int
        /\ remote.result \in WorkerResults \cup {NoObservation}
        /\ remote = NoRun \/ s.sequence >= 1
        /\ c.answer = NoRun /\ UNCHANGED <<ui, shown, poll>> /\ ui.plan \in PlanIds
    BY DEF IInv, TypeInv, AnswersInv, Runs, Snapshot, Serve, IsPage
  <1>2. CASE c.method = "startExecution"
    <2> DEFINE r == [snapshot |-> [sequence |-> 1, plan |-> ui.plan, state |-> "running",
                                   phase |-> "integrity-recheck"],
                     result |-> NoObservation]
    <2>1. remote = NoRun /\ remote' = r /\ Served(c, r)
      BY <1>2, Zenon DEF Serve
    <2>2. r \in Runs /\ r.snapshot.sequence = 1
      BY <1>1 DEF Runs, Snapshot
    <2>3. s.sequence = -1 /\ s.state # "terminal"
      BY <2>1 DEF NoRun, NoLifecycle, None
    <2> HIDE DEF r
    <2> QED
      BY <1>1, <1>2, <2>1, <2>2, <2>3, Serves DEF Served
  <1>3. CASE c.method = "refreshExecution"
    <2> DEFINE a == IF c.step = 1 THEN [remote EXCEPT !.result = NoObservation] ELSE remote
    <2>1. remote' = remote /\ Served(c, a)
      BY <1>3, Zenon DEF Serve
    <2>2. a \in Runs /\ a.snapshot = s /\ (c.step # 1 => a = remote)
      BY <1>1 DEF Runs
    <2> HIDE DEF a
    <2> QED
      BY <1>1, <2>1, <2>2, Serves DEF Served
  <1>4. CASE c.method = "stopExecution"
    <2> DEFINE q == Advanced(s, "stop-requested", s.phase)
    <2>0. q \in Snapshot /\ q.sequence = s.sequence + 1
      BY <1>1 DEF Advanced, Snapshot
    <2>1. /\ remote' = IF s.state = "running" THEN [remote EXCEPT !.snapshot = q] ELSE remote
          /\ Served(c, [remote' EXCEPT !.result = NoObservation])
      BY <1>4, Zenon DEF Serve
    <2> HIDE DEF q
    <2>2. s.state = "running" => s.sequence >= 1
      BY <1>1 DEF NoRun, NoLifecycle, None
    <2>3. /\ remote' \in Runs
          /\ remote'.snapshot.sequence >= s.sequence
          /\ remote'.snapshot.sequence >= 1 \/ remote' = NoRun
          /\ s.state = "terminal" => remote' = remote
      BY <1>1, <2>0, <2>1, <2>2 DEF Runs
    <2>4. PICK r : r = remote'
      OBVIOUS
    <2> DEFINE a == [r EXCEPT !.result = NoObservation]
    <2>5. a \in Runs /\ a.snapshot = r.snapshot
      BY <2>3, <2>4 DEF Runs
    <2>6. calls' = (calls \ {c}) \cup {[c EXCEPT !.answer = a]}
      BY <2>1, <2>4 DEF Served
    <2> HIDE DEF a
    <2> QED
      BY <1>1, <1>4, <2>3, <2>4, <2>5, <2>6, Serves
  <1> QED
    BY <1>2, <1>3, <1>4 DEF Serve, RunMethods

-----------------------------------------------------------------------------
(* A control begins a method of the setup; the start needs a plan.         *)
Begins(by, method, arg, words) ==
    /\ Clicked(by, method) /\ Attempt(by, method, arg, words)
    /\ method = "startExecution" /\ words = {} => ui.plan # None

SetupBegun(by) ==
    \E method \in Methods \ RunMethods : \E arg, words : Begins(by, method, arg, words)

(* Every control of the setup begins one of its methods.                   *)
LEMMA SetupClicked ==
    ASSUME NEW by, Setup(by)
    PROVE  SetupBegun(by)
  <1>1. CASE StartManualSetup(by)
    <2>1. "startManualSetup" \in Methods \ RunMethods
      BY DEF Methods, StageOf, RunMethods
    <2>2. \E words : Begins(by, "startManualSetup", None, words)
      BY <1>1 DEF StartManualSetup, Begins
    <2> QED
      BY <2>1, <2>2 DEF SetupBegun
  <1>2. ASSUME NEW blank \in BOOLEAN, ImportBundle(by, blank) PROVE SetupBegun(by)
    <2>1. "importBundle" \in Methods \ RunMethods
      BY DEF Methods, StageOf, RunMethods
    <2>2. \E words : Begins(by, "importBundle", None, words)
      BY <1>2 DEF ImportBundle, Begins
    <2> QED
      BY <2>1, <2>2 DEF SetupBegun
  <1>3. CASE EvaluateHardware(by)
    <2>1. "evaluateHardware" \in Methods \ RunMethods
      BY DEF Methods, StageOf, RunMethods
    <2>2. \E words : Begins(by, "evaluateHardware", None, words)
      BY <1>3 DEF EvaluateHardware, Begins
    <2> QED
      BY <2>1, <2>2 DEF SetupBegun
  <1>4. ASSUME NEW ack \in BOOLEAN, ConfirmHardware(by, ack) PROVE SetupBegun(by)
    <2>1. "confirmHardware" \in Methods \ RunMethods
      BY DEF Methods, StageOf, RunMethods
    <2>2. \E words : Begins(by, "confirmHardware", None, words)
      BY <1>4 DEF ConfirmHardware, Begins
    <2> QED
      BY <2>1, <2>2 DEF SetupBegun
  <1>5. CASE ScanInventory(by)
    <2>1. "scanInventory" \in Methods \ RunMethods
      BY DEF Methods, StageOf, RunMethods
    <2>2. \E words : Begins(by, "scanInventory", None, words)
      BY <1>5 DEF ScanInventory, Begins
    <2> QED
      BY <2>1, <2>2 DEF SetupBegun
  <1>6. ASSUME NEW both \in BOOLEAN, ProbeTools(by, both) PROVE SetupBegun(by)
    <2>1. "probeTools" \in Methods \ RunMethods
      BY DEF Methods, StageOf, RunMethods
    <2>2. \E words : Begins(by, "probeTools", None, words)
      BY <1>6 DEF ProbeTools, Begins
    <2> QED
      BY <2>1, <2>2 DEF SetupBegun
  <1>7. ASSUME NEW tool \in BOOLEAN, PrepareFitProfileCapture(by, tool) PROVE SetupBegun(by)
    <2>1. "prepareFitProfileCapture" \in Methods \ RunMethods
      BY DEF Methods, StageOf, RunMethods
    <2>2. \E words : Begins(by, "prepareFitProfileCapture", None, words)
      BY <1>7 DEF PrepareFitProfileCapture, Begins
    <2> QED
      BY <2>1, <2>2 DEF SetupBegun
  <1>8. ASSUME NEW ack \in BOOLEAN, ExecuteFitProfileCapture(by, ack) PROVE SetupBegun(by)
    <2>1. "executeFitProfileCapture" \in Methods \ RunMethods
      BY DEF Methods, StageOf, RunMethods
    <2>2. \E words : Begins(by, "executeFitProfileCapture", None, words)
      BY <1>8 DEF ExecuteFitProfileCapture, Begins
    <2> QED
      BY <2>1, <2>2 DEF SetupBegun
  <1>9. CASE PrepareVerification(by)
    <2>1. "prepareVerification" \in Methods \ RunMethods
      BY DEF Methods, StageOf, RunMethods
    <2>2. \E words : Begins(by, "prepareVerification", None, words)
      BY <1>9 DEF PrepareVerification, Begins
    <2> QED
      BY <2>1, <2>2 DEF SetupBegun
  <1>10. ASSUME NEW consents \in BOOLEAN, StartExecution(by, consents) PROVE SetupBegun(by)
    <2>1. "startExecution" \in Methods \ RunMethods
      BY DEF Methods, StageOf, RunMethods
    <2>2. \E words : Begins(by, "startExecution", None, words)
      BY <1>10 DEF StartExecution, Begins, Unless
    <2> QED
      BY <2>1, <2>2 DEF SetupBegun
  <1>11. ASSUME NEW path, SelectArtifact(by, path) PROVE SetupBegun(by)
    <2>1. "selectArtifact" \in Methods \ RunMethods
      BY DEF Methods, StageOf, RunMethods
    <2>2. \E arg, words : Begins(by, "selectArtifact", arg, words)
      BY <1>11 DEF SelectArtifact, Begins
    <2> QED
      BY <2>1, <2>2 DEF SetupBegun
  <1> QED
    BY <1>1, <1>2, <1>3, <1>4, <1>5, <1>6, <1>7, <1>8, <1>9, <1>10, <1>11 DEF Setup

-----------------------------------------------------------------------------
(* What an answer of the setup may leave the page in.                      *)
SetupLeaves(u) ==
    /\ IsPage(u) /\ u.lifecycle = NoLifecycle /\ u.result = NoObservation
    /\ u.stage # "progress"

(* While a step of the setup is awaited, the page is the setup's.          *)
LEMMA SetupPage ==
    ASSUME IInv, NEW c \in calls, c.method \notin RunMethods
    PROVE  SetupLeaves(ui) /\ \A words : SetupLeaves(Thrown(ui, words))
  <1>1. IsPage(ui) /\ ui.lifecycle = NoLifecycle /\ ui.result = NoObservation
    BY NothingArrived DEF IInv, TypeInv, SetupInv
  <1>2. ui.stage # "progress"
    <2>1. c.method \in Methods /\ ui.stage = StageOf[c.method]
      BY DEF IInv, TypeInv, IsCall, SetupInv
    <2> QED
      BY <2>1, StagesApart DEF RunStages
  <1> QED
    BY <1>1, <1>2, ThrownKeeps DEF SetupLeaves

(* An answer of the setup ends its step, or the step goes on.              *)
SetupGoesOn(c) ==
    /\ c \in calls /\ c.method \notin RunMethods
    /\ InvokeNext(c, ui) \/ \E u : SetupLeaves(u) /\ Return(c, u)

Answered == \E c : SetupGoesOn(c)

(* It ends with the page the method made, or with an error on the old one. *)
LEMMA SetupAnswers ==
    ASSUME IInv, NEW c \in calls, c.method \notin RunMethods,
           NEW u, SetupLeaves(u), NEW words, Return(c, u) \/ Return(c, Thrown(ui, words))
    PROVE  Answered
  <1>1. PICK w : SetupLeaves(w) /\ Return(c, w)
    BY SetupPage
  <1> QED
    BY <1>1 DEF Answered, SetupGoesOn

(* Either way the invariant is kept.                                       *)
LEMMA SetupKeeps ==
    ASSUME IInv, Answered, UNCHANGED remote
    PROVE  IInv'
  <1>1. PICK c : SetupGoesOn(c)
    BY DEF Answered
  <1>2. c \in calls /\ c.method \notin RunMethods
    BY <1>1 DEF SetupGoesOn
  <1> QED
    BY <1>1, <1>2, SetupReturns, SetupContinues DEF SetupGoesOn, SetupLeaves

(* Every answer of the setup is one of these, or goes on to the next.      *)
LEMMA SetupStep ==
    ASSUME IInv, SetupAnswered
    PROVE  Answered
  <1>1. ASSUME NEW c, NEW method \in Methods \ RunMethods, NEW step, c \in Awaiting(method, step)
        PROVE  c \in calls /\ c.method \notin RunMethods
    BY <1>1 DEF Awaiting
  <1>2. Methods \ RunMethods =
          {"startManualSetup", "importBundle", "evaluateHardware", "confirmHardware",
           "scanInventory", "selectArtifact", "probeTools", "prepareFitProfileCapture",
           "executeFitProfileCapture", "prepareVerification", "startExecution"}
    BY DEF Methods, StageOf, RunMethods
  <1>3. ASSUME NEW c \in Awaiting("startManualSetup", 1), NEW v \in Evaluations,
               ManualSetupAnswered(c, v)
        PROVE  Answered
    <2> DEFINE u == [Fresh EXCEPT !.status = EvaluationStatus(v.state), !.stage = "hardware",
                              !.journey = "manual", !.evaluation = v.state]
    <2>1. c \in calls /\ c.method \notin RunMethods
      BY <1>1, <1>2
    <2>2. SetupLeaves(u)
      BY FreshTyped DEF SetupLeaves, IsPage, Fresh
    <2>3. \E words : Return(c, u) \/ Return(c, Thrown(ui, words))
      BY <1>3 DEF ManualSetupAnswered
    <2> HIDE DEF u
    <2> QED
      BY <2>1, <2>2, <2>3, SetupAnswers
  <1>4. ASSUME NEW c \in Awaiting("importBundle", 1), NEW v \in Imports,
               ImportAnswered(c, v)
        PROVE  Answered
    <2> DEFINE u == [Fresh EXCEPT !.status = IF v.expired THEN "partial" ELSE "ready",
                              !.stage = "hardware", !.journey = "website-import",
                              !.expired = v.expired]
    <2>1. c \in calls /\ c.method \notin RunMethods
      BY <1>1, <1>2
    <2>2. SetupLeaves(u)
      BY FreshTyped DEF SetupLeaves, IsPage, Fresh
    <2>3. \E words : Return(c, u) \/ Return(c, Thrown(ui, words))
      BY <1>4 DEF ImportAnswered
    <2> HIDE DEF u
    <2> QED
      BY <2>1, <2>2, <2>3, SetupAnswers
  <1>5. ASSUME NEW c \in Awaiting("evaluateHardware", 1), NEW v \in Evaluations,
               EvaluationAnswered(c, v)
        PROVE  Answered
    <2> DEFINE u == [ui EXCEPT !.evaluation = v.state, !.status = EvaluationStatus(v.state)]
    <2>1. c \in calls /\ c.method \notin RunMethods
      BY <1>1, <1>2
    <2>2. SetupLeaves(u)
      BY <2>1, SetupPage DEF SetupLeaves, IsPage, Fresh
    <2>3. \E words : Return(c, u) \/ Return(c, Thrown(ui, words))
      BY <1>5 DEF EvaluationAnswered
    <2> HIDE DEF u
    <2> QED
      BY <2>1, <2>2, <2>3, SetupAnswers
  <1>6. ASSUME NEW c \in Awaiting("confirmHardware", 1), NEW v \in Preview,
               ConfirmationAnswered(c, v)
        PROVE  Answered
    <2> DEFINE u == [ui EXCEPT !.hardware = TRUE, !.stage = "inventory", !.status = "ready"]
    <2>1. c \in calls /\ c.method \notin RunMethods
      BY <1>1, <1>2
    <2>2. SetupLeaves(u)
      BY <2>1, SetupPage DEF SetupLeaves, IsPage, Fresh
    <2>3. \E words : Return(c, u) \/ Return(c, Thrown(ui, words))
      BY <1>6 DEF ConfirmationAnswered
    <2> HIDE DEF u
    <2> QED
      BY <2>1, <2>2, <2>3, SetupAnswers
  <1>7. ASSUME NEW c \in Awaiting("scanInventory", 1), NEW v \in Scans,
               ScanAnswered(c, v)
        PROVE  Answered
    <2> DEFINE u == [ui EXCEPT !.scanned = TRUE, !.scan = v.scan,
                           !.status = IF v.status = "ok" THEN "ready" ELSE v.status]
    <2>1. c \in calls /\ c.method \notin RunMethods
      BY <1>1, <1>2
    <2>2. SetupLeaves(u)
      BY <2>1, SetupPage DEF SetupLeaves, IsPage, Fresh
    <2>3. \E words : Return(c, u) \/ Return(c, Thrown(ui, words))
      BY <1>7 DEF ScanAnswered
    <2> HIDE DEF u
    <2> QED
      BY <2>1, <2>2, <2>3, SetupAnswers
  <1>8. ASSUME NEW c \in Awaiting("selectArtifact", 1), NEW v \in Preview,
               SelectionAnswered(c, v)
        PROVE  Answered
    <2> DEFINE u == [ui EXCEPT !.selection = TRUE, !.status = "ready"]
    <2>1. c \in calls /\ c.method \notin RunMethods
      BY <1>1, <1>2
    <2>2. SetupLeaves(u)
      BY <2>1, SetupPage DEF SetupLeaves, IsPage, Fresh
    <2>3. \E words : Return(c, u) \/ Return(c, Thrown(ui, words))
      BY <1>8 DEF SelectionAnswered
    <2> HIDE DEF u
    <2> QED
      BY <2>1, <2>2, <2>3, SetupAnswers
  <1>9. ASSUME NEW c \in Awaiting("probeTools", 2), NEW v \in Tools,
               QuickCheckToolAnswered(c, v)
        PROVE  Answered
    <2> DEFINE u == [ui EXCEPT !.benchmarkTool = TRUE, !.quickCheckTool = TRUE, !.status = "ready"]
    <2>1. c \in calls /\ c.method \notin RunMethods
      BY <1>1, <1>2
    <2>2. SetupLeaves(u)
      BY <2>1, SetupPage DEF SetupLeaves, IsPage, Fresh
    <2>3. \E words : Return(c, u) \/ Return(c, Thrown(ui, words))
      BY <1>9 DEF QuickCheckToolAnswered
    <2> HIDE DEF u
    <2> QED
      BY <2>1, <2>2, <2>3, SetupAnswers
  <1>10. ASSUME NEW c \in Awaiting("prepareFitProfileCapture", 2), NEW v \in Captures,
               CapturePreviewAnswered(c, v)
        PROVE  Answered
    <2> DEFINE u == [ui EXCEPT !.capture = TRUE, !.stage = "fit-capture-permission",
                           !.status = "ready"]
    <2>1. c \in calls /\ c.method \notin RunMethods
      BY <1>1, <1>2
    <2>2. SetupLeaves(u)
      BY <2>1, SetupPage DEF SetupLeaves, IsPage, Fresh
    <2>3. \E words : Return(c, u) \/ Return(c, Thrown(ui, words))
      BY <1>10 DEF CapturePreviewAnswered
    <2> HIDE DEF u
    <2> QED
      BY <2>1, <2>2, <2>3, SetupAnswers
  <1>11. ASSUME NEW c \in Awaiting("executeFitProfileCapture", 1), NEW v \in Preview,
               ReceiptAnswered(c, v)
        PROVE  Answered
    <2> DEFINE u == [ui EXCEPT !.receipt = TRUE, !.stage = "fit-capture-result",
                           !.status = "partial"]
    <2>1. c \in calls /\ c.method \notin RunMethods
      BY <1>1, <1>2
    <2>2. SetupLeaves(u)
      BY <2>1, SetupPage DEF SetupLeaves, IsPage, Fresh
    <2>3. \E words : Return(c, u) \/ Return(c, Thrown(ui, words))
      BY <1>11 DEF ReceiptAnswered
    <2> HIDE DEF u
    <2> QED
      BY <2>1, <2>2, <2>3, SetupAnswers
  <1>12. ASSUME NEW c \in Awaiting("prepareVerification", 1), NEW v \in PlanPreviews,
               PlanAnswered(c, v)
        PROVE  Answered
    <2> DEFINE u == [ui EXCEPT !.plan = v.plan, !.stage = "permission", !.status = "ready"]
    <2>1. c \in calls /\ c.method \notin RunMethods
      BY <1>1, <1>2
    <2>2. SetupLeaves(u)
      BY <2>1, SetupPage DEF SetupLeaves, IsPage, Fresh, PlanPreviews, PlanIds
    <2>3. \E words : Return(c, u) \/ Return(c, Thrown(ui, words))
      BY <1>12 DEF PlanAnswered
    <2> HIDE DEF u
    <2> QED
      BY <2>1, <2>2, <2>3, SetupAnswers
  <1>13. ASSUME NEW c \in Awaiting("probeTools", 1), NEW v \in Tools, BenchmarkToolAnswered(c, v)
        PROVE  Answered
    <2>1. c \in calls /\ c.method \notin RunMethods
      BY <1>1, <1>2
    <2>2. InvokeNext(c, ui) \/ \E words : Return(c, Thrown(ui, words))
      BY <1>13 DEF BenchmarkToolAnswered
    <2> QED
      BY <2>1, <2>2, SetupPage, SetupAnswers DEF Answered, SetupGoesOn
  <1>14. ASSUME NEW c \in Awaiting("prepareFitProfileCapture", 1), NEW v \in Tools,
               CaptureToolAnswered(c, v)
        PROVE  Answered
    <2>1. c \in calls /\ c.method \notin RunMethods
      BY <1>1, <1>2
    <2>2. InvokeNext(c, ui) \/ \E words : Return(c, Thrown(ui, words))
      BY <1>14, Zenon DEF CaptureToolAnswered
    <2> QED
      BY <2>1, <2>2, SetupPage, SetupAnswers DEF Answered, SetupGoesOn
  <1> QED
    BY <1>3, <1>4, <1>5, <1>6, <1>7, <1>8, <1>9, <1>10, <1>11, <1>12, <1>13, <1>14 DEF SetupAnswered

-----------------------------------------------------------------------------
(* The invariant holds of a new page.                                      *)
LEMMA Initially == Init => IInv
  <1> SUFFICES ASSUME Init PROVE IInv
    OBVIOUS
  <1>1. TypeInv
    BY NoRunTyped, FreshTyped DEF Init, TypeInv
  <1>2. SetupInv /\ ResultInv
    BY FreshTyped DEF Init, SetupInv, ResultInv
  <1>3. RunInv /\ AnswersInv
    BY FreshTyped DEF Init, RunInv, Started, AnswersInv
  <1> QED
    BY <1>1, <1>2, <1>3 DEF IInv

(* Every step of the page, the poll and the runner keeps it.               *)
LEMMA Steps ==
    ASSUME IInv, Next
    PROVE  IInv'
  <1>1. ASSUME NEW by \in Clicks, RefreshExecution(by) \/ StopExecution(by) PROVE IInv'
    <2>1. PICK method \in RunMethods :
            Clicked(by, method) /\ Attempt(by, method, None, Unless(ui.execution, "required"))
      BY <1>1 DEF RefreshExecution, StopExecution, RunMethods
    <2>2. shown.stage = "progress" /\ UNCHANGED <<poll, remote>>
      BY <2>1, SectionsAssumption DEF Clicked, Offered
    <2> QED
      BY <2>1, <2>2, RunBegins
  <1>2. ASSUME NEW c \in calls, SetupRefused(c) PROVE IInv'
    <2>1. PICK words : Return(c, Thrown(ui, words))
      BY <1>2 DEF SetupRefused
    <2>2. c.method \notin RunMethods /\ UNCHANGED remote
      BY <1>2 DEF SetupRefused
    <2>3. Answered
      BY <2>1, <2>2, SetupPage DEF Answered, SetupGoesOn
    <2> QED
      BY <2>1, <2>2, <2>3, SetupKeeps
  <1>3. ASSUME NEW c \in calls, RunAnswered(c) PROVE IInv'
    BY <1>3, StartAnswers, StatusAnswers, ResultAnswers, StopAnswers DEF RunAnswered
  <1>4. CASE Poll
    <2>1. "refreshExecution" \in RunMethods
      BY DEF RunMethods
    <2> QED
      BY <1>4, <2>1, RunBegins DEF Poll
  <1>5. ASSUME NEW by \in Clicks, Setup(by) PROVE IInv'
    BY <1>5, SetupClicked, SetupBegins DEF SetupBegun, Begins
  <1>6. ASSUME SetupAnswered, UNCHANGED remote PROVE IInv'
    BY <1>6, SetupStep, SetupKeeps
  <1> QED
    BY <1>1, <1>2, <1>3, <1>4, <1>5, <1>6, ServeStep, RunnerSteps DEF Next

(* In every reachable state a step of the setup is alone, a run that is    *)
(* started keeps the page in its stages, and every answer is of the past.  *)
THEOREM Invariance == Spec => []IInv
  <1>1. IInv /\ UNCHANGED vars => IInv'
    <2> SUFFICES ASSUME IInv, UNCHANGED vars PROVE IInv'
      OBVIOUS
    <2>1. TypeInv' /\ SetupInv' /\ RunInv'
      BY DEF vars, IInv, TypeInv, SetupInv, RunInv, Started
    <2>2. AnswersInv'
      BY DEF vars, IInv, AnswersInv, AnswerInv
    <2>3. ResultInv'
      BY DEF vars, IInv, ResultInv, ShownPlan, Delivers
    <2> QED
      BY <2>1, <2>2, <2>3 DEF IInv
  <1>2. IInv /\ [Next]_vars => IInv'
    BY <1>1, Steps
  <1> QED
    BY Initially, <1>2, PTL DEF Spec

-----------------------------------------------------------------------------
(* The controls keep every step of the setup alone, from its first         *)
(* invocation to its last answer, however many clicks are awaited.         *)
THEOREM SetupStepsAreAlone == Spec => []SetupStepsDoNotOverlap
  <1>1. IInv => SetupStepsDoNotOverlap
    BY DEF IInv, SetupInv, SetupStepsDoNotOverlap
  <1> QED
    BY Invariance, <1>1, PTL

(* Whatever is late, once nothing is awaited a result that arrived is what *)
(* the page shows: a method of the run leaves the result's stage only with *)
(* a refresh under way that shows the same result again.                   *)
THEOREM ResultsStayShown == Spec => []AResultStaysShown
  <1> SUFFICES ASSUME IInv PROVE AResultStaysShown
    BY Invariance, PTL
  <1> SUFFICES ASSUME Quiet, ui.result # NoObservation
               PROVE  shown.stage \in {"result", "failure"}
    BY DEF AResultStaysShown
  <1>1. calls = {}
    BY DEF Quiet
  <1>2. shown.stage # "progress"
    BY <1>1 DEF IInv, ResultInv
  <1>3. ui.lifecycle # NoLifecycle
    BY NothingArrived
  <1>4. shown.stage \in RunStages
    BY <1>3 DEF IInv, RunInv, Started
  <1> QED
    BY <1>2, <1>4 DEF RunStages

(* An answer of the run never takes the progress shown back.               *)
LEMMA AnswersAreNewer ==
    ASSUME IInv, NEW c \in calls, RunAnswered(c), c.method \in RunMethods
    PROVE  ui'.lifecycle.sequence >= ui.lifecycle.sequence
  <1> DEFINE v == c.answer.snapshot
  <1>1. /\ IsPage(ui) /\ v \in Snapshot /\ ui.lifecycle \in Snapshot
        /\ ui.lifecycle.sequence \in Int
    <2>1. IsPage(ui) /\ v \in Snapshot
      BY RunPage
    <2>2. ui.lifecycle \in Snapshot
      BY <2>1 DEF IsPage
    <2> QED
      BY <2>1, <2>2 DEF Snapshot
  <1>2. SUFFICES \/ ui'.lifecycle = ui.lifecycle
                 \/ Verdict(v) = "newer" /\ ui'.lifecycle = v
    BY <1>1, VerdictFacts
  <1>3. \A words : Thrown(ui, words).lifecycle = ui.lifecycle
    BY <1>1, ThrownKeeps
  <1>4. CASE Verdict(v) \in Objections
    <2>1. PICK words : ui' = Thrown(ui, words)
      <3>1. CASE c.method = "stopExecution"
        BY <1>4, <3>1 DEF RunAnswered, StopAnswered, Objections, Return
      <3>2. CASE c.method = "refreshExecution" /\ StatusAnswered(c)
        BY <1>4, <3>2 DEF StatusAnswered, Objections, Return
      <3>3. CASE c.method = "refreshExecution" /\ ResultAnswered(c)
        BY <1>4, <3>3 DEF ResultAnswered, Objections, Return
      <3> QED
        BY <3>1, <3>2, <3>3 DEF RunAnswered, RunMethods
    <2> QED
      BY <1>3, <2>1
  <1>5. CASE Verdict(v) = "older"
    <2>1. PICK status : ui' = [ui EXCEPT !.status = status]
      <3>1. CASE c.method = "stopExecution"
        BY <1>5, <3>1 DEF RunAnswered, StopAnswered, Objections, Return
      <3>2. CASE c.method = "refreshExecution" /\ StatusAnswered(c)
        BY <1>5, <3>2 DEF StatusAnswered, Objections, Return, Delayed
      <3>3. CASE c.method = "refreshExecution" /\ ResultAnswered(c)
        BY <1>5, <3>3 DEF ResultAnswered, Objections, Return
      <3> QED
        BY <3>1, <3>2, <3>3 DEF RunAnswered, RunMethods
    <2> QED
      BY <1>1, <2>1 DEF IsPage, Fresh
  <1>6. CASE Verdict(v) = "newer"
    <2> DEFINE u == [ui EXCEPT !.lifecycle = v]
    <2>1. IsPage(u) /\ u.lifecycle = v
      BY <1>1 DEF IsPage, Fresh
    <2>2. CASE c.method = "stopExecution"
      <3>1. PICK status : ui' = [ui EXCEPT !.lifecycle = v, !.status = status]
        BY <1>6, <2>2 DEF RunAnswered, StopAnswered, Objections, Return
      <3> QED
        BY <1>1, <1>6, <3>1 DEF IsPage, Fresh
    <2>3. CASE c.method = "refreshExecution" /\ StatusAnswered(c)
      <3>1. \/ \E status : ui' = [u EXCEPT !.status = status]
            \/ ui' = u
        BY <1>6, <2>3 DEF StatusAnswered, Objections, Return, InvokeNext
      <3> HIDE DEF u
      <3> QED
        BY <1>6, <2>1, <3>1 DEF IsPage, Fresh
    <2>4. CASE c.method = "refreshExecution" /\ ResultAnswered(c)
      <3>0. v.state = "terminal" <=> v.phase = "complete"
        BY <1>1, <1>6, VerdictFacts DEF LifecycleWellFormed
      <3>1. CASE v.state # "terminal"
        <4>1. Return(c, Thrown(u, {"other"}))
          BY <1>6, <2>4, <3>1 DEF ResultAnswered, Objections
        <4>2. ui' = Thrown(u, {"other"})
          BY <4>1 DEF Return
        <4> HIDE DEF u
        <4> QED
          BY <1>6, <2>1, <4>2, ThrownKeeps
      <3>2. CASE v.state = "terminal" /\ v.phase = "complete" /\ c.answer.result = NoObservation
        <4>1. ui' = [u EXCEPT !.stage = "failure", !.status = "error"]
          BY <1>6, <2>4, <3>2 DEF ResultAnswered, Objections, Return
        <4> HIDE DEF u
        <4> QED
          BY <1>6, <2>1, <4>1 DEF IsPage, Fresh
      <3>3. CASE v.state = "terminal" /\ v.phase = "complete" /\ c.answer.result # NoObservation
        <4>1. (\E words : ui' = Thrown(u, words)) \/ ui' = ResultShown(u, c.answer.result)
          BY <1>6, <2>4, <3>3 DEF ResultAnswered, Objections, Return
        <4> HIDE DEF u
        <4>2. ResultShown(u, c.answer.result).lifecycle = u.lifecycle
          BY <2>1 DEF IsPage, Fresh, ResultShown
        <4> QED
          BY <1>6, <2>1, <4>1, <4>2, ThrownKeeps
      <3> QED
        BY <3>0, <3>1, <3>2, <3>3
    <2> QED
      BY <2>2, <2>3, <2>4 DEF RunAnswered, RunMethods
  <1> QED
    BY <1>1, <1>4, <1>5, <1>6, VerdictFacts

(* Answers of the poll, of Refresh and of Stop may overtake one another:   *)
(* the progress shown never goes back.                                     *)
THEOREM ProgressIsMonotone == Spec => SnapshotsNeverGoBack
  <1>1. ASSUME IInv, IInv', Next
        PROVE  ui'.lifecycle.sequence >= ui.lifecycle.sequence
    <2>1. /\ IsPage(ui) /\ ui.lifecycle \in Snapshot /\ ui'.lifecycle \in Snapshot
          /\ ui.lifecycle.sequence \in Int
      <3>1. ui.lifecycle \in Snapshot /\ ui'.lifecycle \in Snapshot /\ IsPage(ui)
        BY <1>1 DEF IInv, TypeInv, IsPage
      <3> QED
        BY <3>1 DEF Snapshot
    <2>2. CASE ui.lifecycle = NoLifecycle
      BY <2>1, <2>2 DEF NoLifecycle, Snapshot
    <2>3. CASE ui.lifecycle # NoLifecycle
      <3>1. \A c \in calls : c.method \in RunMethods
        BY <1>1, <2>3 DEF IInv, SetupInv
      <3>2. \A by \in Clicks, method \in Methods \ RunMethods : ~Clicked(by, method)
        BY <1>1, <2>3, SetupOffered
      <3>3. ASSUME NEW by, NEW method, NEW arg, NEW words, Attempt(by, method, arg, words)
            PROVE  ui'.lifecycle = ui.lifecycle
        BY <2>1, <3>3 DEF Attempt, Thrown, IsPage, Fresh
      <3>4. ASSUME NEW c \in calls, RunAnswered(c)
            PROVE  ui'.lifecycle.sequence >= ui.lifecycle.sequence
        BY <1>1, <3>1, <3>4, AnswersAreNewer
      <3>5. ASSUME NEW by \in Clicks, RefreshExecution(by) \/ StopExecution(by)
            PROVE  ui'.lifecycle = ui.lifecycle
        BY <3>3, <3>5 DEF RefreshExecution, StopExecution
      <3>6. ASSUME NEW by \in Clicks, Setup(by) PROVE FALSE
        <4>1. Methods \ RunMethods =
                {"startManualSetup", "importBundle", "evaluateHardware", "confirmHardware",
                 "scanInventory", "selectArtifact", "probeTools", "prepareFitProfileCapture",
                 "executeFitProfileCapture", "prepareVerification", "startExecution"}
          BY DEF Methods, StageOf, RunMethods
        <4> QED
          BY <3>2, <3>6, <4>1 DEF Setup, StartManualSetup, ImportBundle, EvaluateHardware,
             ConfirmHardware, ScanInventory, SelectArtifact, ProbeTools,
             PrepareFitProfileCapture, ExecuteFitProfileCapture, PrepareVerification,
             StartExecution
      <3>7. ASSUME SetupAnswered PROVE FALSE
        BY <3>1, <3>7 DEF SetupAnswered, Awaiting, RunMethods
      <3>8. CASE Poll
        BY <2>1, <3>3, <3>8 DEF Poll
      <3>9. ASSUME NEW c \in calls, SetupRefused(c) PROVE FALSE
        BY <3>1, <3>9 DEF SetupRefused
      <3>10. ASSUME (\E c \in calls : Serve(c)) \/ RunProgresses \/ RunEnds
             PROVE  ui'.lifecycle = ui.lifecycle
        BY <3>10 DEF Serve, RunProgresses, RunEnds
      <3> QED
        BY <1>1, <2>1, <3>4, <3>5, <3>6, <3>7, <3>8, <3>9, <3>10 DEF Next
    <2> QED
      BY <2>2, <2>3
  <1>2. ASSUME IInv, UNCHANGED vars
        PROVE  ui'.lifecycle.sequence >= ui.lifecycle.sequence
    <2>1. ui.lifecycle \in Snapshot
      BY <1>2 DEF IInv, TypeInv, IsPage
    <2>2. ui.lifecycle.sequence \in Int /\ ui' = ui
      BY <1>2, <2>1 DEF Snapshot, vars
    <2> QED
      BY <2>2
  <1>3. IInv /\ IInv' /\ [Next]_vars =>
           [ui'.lifecycle.sequence >= ui.lifecycle.sequence]_vars
    BY <1>1, <1>2
  <1> QED
    BY Invariance, <1>3, PTL DEF Spec, SnapshotsNeverGoBack
-----------------------------------------------------------------------------
(* Until the runner has answered the start, nothing of a run is there.     *)
Before ==
    /\ remote = NoRun /\ ui.lifecycle = NoLifecycle /\ poll = "off"
    /\ shown.stage # "progress"
    /\ \A c \in calls :
          /\ c.method \notin RunMethods /\ c.answer = NoRun
          /\ c.method = "startExecution" => ui.plan # None

(* The snapshots of the run that are about: the runner's, the one shown    *)
(* and those on their way.                                                 *)
Seen ==
    ({ui.lifecycle, remote.snapshot} \cup {c.answer.snapshot : c \in calls}) \ {NoLifecycle}

(* They are of the plan that was shown, and two of a number are the same.  *)
SeenInv ==
    /\ remote.snapshot \in Seen
    /\ \A s \in Seen : /\ LifecycleWellFormed(s) /\ s.plan = ui.plan
                       /\ s.sequence <= remote.snapshot.sequence
    /\ \A s, t \in Seen : s.sequence = t.sequence => s = t

(* Some snapshot is shown, or the first is on its way; none is empty.      *)
HeardInv ==
    /\ \/ ui.lifecycle # NoLifecycle
       \/ \E c \in calls : c.method = "startExecution" /\ c.answer # NoRun
    /\ \A c \in calls : c.answer # NoRun => c.answer.snapshot # NoLifecycle

(* The run ended as completed.                                             *)
Completed == Ended /\ remote.result # NoObservation /\ remote.result.status = "completed"

(* The poll is armed or awaited, or the first answer is.                   *)
Waiting == poll = "armed" \/ \E c \in calls : c.by = "poll" \/ c.method = "startExecution"

(* The page waits until it has the result of a completed run, and then it  *)
(* is not in the stage of a failure.                                       *)
WaitingInv == Waiting \/ ui.result # NoObservation \/ (Ended /\ ~Completed)

StageInv ==
    \A stage \in {ui.stage, shown.stage} :
        stage \in {"result", "failure"} =>
            Ended /\ (Completed => stage = "result" /\ ui.result # NoObservation)

(* A result is of the plan of its run.                                     *)
RemoteInv == remote.result # NoObservation => Ended /\ remote.result.plan = remote.snapshot.plan

Begun == SeenInv /\ HeardInv /\ WaitingInv /\ StageInv /\ RemoteInv

-----------------------------------------------------------------------------
(* What is seen is typed, and numbered.                                    *)
LEMMA SeenTyped ==
    ASSUME IInv
    PROVE  /\ \A s \in Seen : s \in Snapshot /\ s.sequence \in Int /\ s # NoLifecycle
           /\ remote.snapshot \in Snapshot /\ remote.snapshot.sequence \in Int
           /\ ui.lifecycle \in Snapshot /\ IsPage(ui)
  <1>1. IsPage(ui) /\ remote \in Runs /\ \A c \in calls : IsCall(c)
    BY DEF IInv, TypeInv
  <1>2. ui.lifecycle \in Snapshot /\ remote.snapshot \in Snapshot
    BY <1>1 DEF IsPage, Runs
  <1>3. \A c \in calls : c.answer.snapshot \in Snapshot
    BY <1>1 DEF IsCall, Runs
  <1>4. \A s \in Snapshot : s.sequence \in Int
    BY DEF Snapshot
  <1> QED
    BY <1>1, <1>2, <1>3, <1>4 DEF Seen

(* A well-formed snapshot is some snapshot.                                *)
LEMMA WellFormedIsSome ==
    ASSUME NEW s, LifecycleWellFormed(s)
    PROVE  s # NoLifecycle
  BY DEF LifecycleWellFormed, NoLifecycle

(* A step that shows and sends nothing new keeps what is seen consistent,  *)
LEMMA SeenShrinks ==
    ASSUME SeenInv, UNCHANGED remote, ui'.plan = ui.plan, Seen' \subseteq Seen
    PROVE  SeenInv'
  <1>1. remote'.snapshot \in Seen'
    BY DEF SeenInv, Seen
  <1> QED
    BY <1>1 DEF SeenInv, LifecycleWellFormed

(* and so does one by which the execution advances.                        *)
LEMMA SeenGrows ==
    ASSUME IInv, SeenInv, ui'.plan = ui.plan, NEW state, NEW phase,
           remote'.snapshot = Advanced(remote.snapshot, state, phase),
           LifecycleWellFormed(Advanced(remote.snapshot, state, phase)),
           Seen' \subseteq Seen \cup {remote'.snapshot}
    PROVE  SeenInv'
  <1> DEFINE old == remote.snapshot
             new == Advanced(old, state, phase)
  <1>1. /\ new.sequence = old.sequence + 1 /\ new.plan = old.plan /\ old.sequence \in Int
        /\ old \in Seen
    BY SeenTyped DEF Advanced, SeenInv
  <1> HIDE DEF new
  <1>2. new # NoLifecycle /\ remote'.snapshot = new
    BY WellFormedIsSome DEF new
  <1>3. new \in Seen'
    BY <1>2 DEF Seen
  <1>4. ASSUME NEW s \in Seen
        PROVE  /\ LifecycleWellFormed(s) /\ s.plan = ui.plan
               /\ s.sequence < new.sequence /\ s.sequence \in Int
    BY <1>1, SeenTyped DEF SeenInv
  <1>5. LifecycleWellFormed(new) /\ new.plan = ui.plan
    BY <1>1, <1>4 DEF new
  <1>6. \A s \in Seen' : /\ LifecycleWellFormed(s) /\ s.plan = ui'.plan
                         /\ s.sequence <= remote'.snapshot.sequence
    BY <1>1, <1>2, <1>4, <1>5
  <1>7. \A s, t \in Seen' : s.sequence = t.sequence => s = t
    <2> TAKE s, t \in Seen'
    <2>1. s \in Seen \cup {new} /\ t \in Seen \cup {new} /\ new.sequence \in Int
      BY <1>1, <1>2
    <2>2. s \in Seen /\ t \in Seen => (s.sequence = t.sequence => s = t)
      BY DEF SeenInv
    <2> QED
      BY <1>4, <2>1, <2>2
  <1> QED
    BY <1>2, <1>3, <1>6, <1>7 DEF SeenInv, LifecycleWellFormed

-----------------------------------------------------------------------------
(* Before the run: a step of the setup begins,                             *)
LEMMA SetupBeginsBefore ==
    ASSUME IInv, Before, NEW by \in Clicks, SetupBegun(by)
    PROVE  Before'
  <1>0. PICK method \in Methods \ RunMethods : \E arg, words : Begins(by, method, arg, words)
    BY DEF SetupBegun
  <1>1. PICK arg, words : Begins(by, method, arg, words)
    BY <1>0
  <1> DEFINE u == [ui EXCEPT !.stage = StageOf[method], !.status = "loading"]
             d == [by |-> by, method |-> method, step |-> 1, arg |-> arg, answer |-> NoRun]
  <1>2. calls = {} /\ UNCHANGED <<poll, remote>> /\ ui.lifecycle = NoLifecycle
    BY <1>1, SetupOffered DEF Begins
  <1>3. IsPage(ui) /\ StageOf[method] # "progress" /\ by # "poll"
    BY StagesApart, RunnerAssumption DEF IInv, TypeInv, RunStages
  <1>4. IsPage(u) /\ u.lifecycle = NoLifecycle /\ u.stage # "progress" /\ u.plan = ui.plan
    BY <1>2, <1>3 DEF IsPage, Fresh
  <1>5. d.method = method /\ d.answer = NoRun
    OBVIOUS
  <1>6. CASE words = {}
    <2>1. ui' = u /\ calls' = {d} /\ shown' = Rendered(u)
      BY <1>1, <1>2, <1>3, <1>6 DEF Begins, Attempt
    <2>2. method = "startExecution" => ui.plan # None
      BY <1>1, <1>6 DEF Begins
    <2> HIDE DEF u, d
    <2> QED
      BY <1>2, <1>4, <1>5, <2>1, <2>2 DEF Before, Rendered
  <1>7. CASE words # {}
    <2>1. ui' = Thrown(u, words) /\ calls' = {} /\ shown' = Rendered(Thrown(u, words))
      BY <1>1, <1>2, <1>7 DEF Begins, Attempt
    <2> HIDE DEF u
    <2> QED
      BY <1>2, <1>4, <2>1, ThrownKeeps DEF Before, Rendered
  <1> QED
    BY <1>6, <1>7

(* goes on or ends.                                                        *)
LEMMA SetupGoesOnBefore ==
    ASSUME IInv, Before, Answered, UNCHANGED remote
    PROVE  Before'
  <1>1. PICK c : SetupGoesOn(c)
    BY DEF Answered
  <1>2. /\ c \in calls /\ c.method \notin RunMethods /\ calls = {c} /\ c.by # "poll"
        /\ c.method = "startExecution" => ui.plan # None
        /\ IsCall(c)
    BY <1>1 DEF SetupGoesOn, IInv, SetupInv, TypeInv, IsCall, RunMethods, Before
  <1>3. CASE InvokeNext(c, ui)
    <2> DEFINE d == [c EXCEPT !.step = @ + 1, !.answer = NoRun]
    <2>1. calls' = {d} /\ UNCHANGED <<ui, shown, poll, remote>>
      BY <1>2, <1>3 DEF InvokeNext
    <2>2. d.method = c.method /\ d.answer = NoRun
      BY <1>2 DEF IsCall
    <2> HIDE DEF d
    <2> QED
      BY <1>2, <2>1, <2>2 DEF Before
  <1>4. ASSUME NEW u, SetupLeaves(u), Return(c, u) PROVE Before'
    <2>1. /\ ui' = u /\ calls' = {} /\ shown'.stage = u.stage /\ u.stage # "progress"
          /\ u.lifecycle = NoLifecycle
      BY <1>2, <1>4 DEF Return, Rendered, SetupLeaves
    <2>2. poll' = poll
      BY <1>2, <1>4, <2>1, Zenon DEF Return
    <2> QED
      BY <2>1, <2>2 DEF Before
  <1> QED
    BY <1>1, <1>3, <1>4 DEF SetupGoesOn

(* The runner takes up the run.                                            *)
LEMMA RunIsTakenUp ==
    ASSUME IInv, Before, NEW c \in calls, Serve(c)
    PROVE  Begun'
  <1> DEFINE s == [sequence |-> 1, plan |-> ui.plan, state |-> "running",
                   phase |-> "integrity-recheck"]
             r == [snapshot |-> s, result |-> NoObservation]
             d == [c EXCEPT !.answer = r]
  <1>1. /\ c.method = "startExecution" /\ c.method \in Methods \ RunMethods
        /\ ui.plan # None /\ IsCall(c)
    BY DEF Before, Serve, IInv, TypeInv, IsCall
  <1>2. /\ calls = {c} /\ ui.lifecycle = NoLifecycle
        /\ ui.stage = "permission" /\ shown.stage = "permission"
    BY <1>1 DEF IInv, SetupInv, StageOf
  <1>3. remote' = r /\ Served(c, r) /\ UNCHANGED <<ui, shown, poll>>
    BY <1>1, Zenon DEF Serve
  <1>4. calls' = {d} /\ d.method = "startExecution" /\ d.answer = r
    BY <1>1, <1>2, <1>3 DEF Served, IsCall
  <1>5. LifecycleWellFormed(s) /\ s # NoLifecycle /\ s.plan = ui.plan /\ s.sequence = 1
    BY <1>1 DEF LifecycleWellFormed, NoLifecycle
  <1> HIDE DEF s, d
  <1>6. r.snapshot = s /\ r.result = NoObservation /\ r # NoRun
    BY <1>5 DEF NoRun
  <1> HIDE DEF r
  <1>7. Seen' = {s}
    BY <1>2, <1>3, <1>4, <1>5, <1>6 DEF Seen
  <1>8. SeenInv'
    BY <1>3, <1>5, <1>6, <1>7 DEF SeenInv, LifecycleWellFormed
  <1>9. HeardInv' /\ WaitingInv'
    BY <1>4, <1>5, <1>6 DEF HeardInv, WaitingInv, Waiting
  <1>10. StageInv' /\ RemoteInv'
    BY <1>2, <1>3, <1>6 DEF StageInv, RemoteInv
  <1> QED
    BY <1>8, <1>9, <1>10 DEF Begun

-----------------------------------------------------------------------------
(* During the run no step of the setup is awaited but the start, answered. *)
LEMMA OnlyTheStart ==
    ASSUME IInv, Begun
    PROVE  /\ \A c \in calls : c.method \notin RunMethods =>
                 c.method = "startExecution" /\ c.answer # NoRun /\ calls = {c}
           /\ calls = {} => ui.lifecycle # NoLifecycle
           /\ \A c \in calls : c.method \in RunMethods => ui.lifecycle # NoLifecycle
           /\ "progress" = shown.stage \/ poll = "armed" => ui.lifecycle # NoLifecycle
           /\ remote # NoRun
  <1>1. ASSUME NEW c \in calls, c.method \notin RunMethods
        PROVE  /\ calls = {c} /\ ui.lifecycle = NoLifecycle /\ poll = "off"
               /\ shown.stage # "progress"
               /\ c.method = "startExecution" /\ c.answer # NoRun
    <2>1. /\ calls = {c} /\ ui.lifecycle = NoLifecycle /\ poll = "off"
          /\ shown.stage = StageOf[c.method] /\ c.method \in Methods
      BY <1>1 DEF IInv, SetupInv, TypeInv, IsCall
    <2>2. shown.stage # "progress"
      BY <1>1, <2>1, StagesApart DEF RunStages
    <2> QED
      BY <2>1, <2>2 DEF Begun, HeardInv
  <1>2. ui.lifecycle = NoLifecycle => \E c \in calls : c.method \notin RunMethods
    BY DEF Begun, HeardInv, RunMethods
  <1>3. remote # NoRun
    BY DEF Begun, SeenInv, Seen, NoRun
  <1> QED
    BY <1>1, <1>2, <1>3

(* So no step of the setup begins, is answered or is refused.              *)
LEMMA NoSetupDuringTheRun ==
    ASSUME IInv, Begun
    PROVE  /\ \A by \in Clicks : ~SetupBegun(by)
           /\ ~SetupAnswered
           /\ \A c \in calls : ~SetupRefused(c)
  <1>1. ASSUME NEW by \in Clicks, SetupBegun(by) PROVE FALSE
    <2>1. PICK method \in Methods \ RunMethods : Clicked(by, method)
      BY <1>1 DEF SetupBegun, Begins
    <2>2. calls = {} /\ ui.lifecycle = NoLifecycle
      BY <2>1, SetupOffered
    <2> QED
      BY <2>2, OnlyTheStart
  <1>2. ASSUME SetupAnswered PROVE FALSE
    BY <1>2, OnlyTheStart DEF SetupAnswered, Awaiting, RunMethods
  <1>3. ASSUME NEW c \in calls, SetupRefused(c) PROVE FALSE
    BY <1>3, OnlyTheStart DEF SetupRefused
  <1> QED
    BY <1>1, <1>2, <1>3

(* A method of the run begins.                                             *)
LEMMA RunBeginsBegun ==
    ASSUME IInv, Begun, NEW by, NEW method \in RunMethods,
           Attempt(by, method, None, Unless(ui.execution, "required")), UNCHANGED remote,
           \/ by \in Clicks /\ shown.stage = "progress" /\ UNCHANGED poll
           \/ by = "poll" /\ method = "refreshExecution" /\ poll = "armed" /\ poll' = "off"
    PROVE  Begun'
  <1> DEFINE u == [ui EXCEPT !.stage = StageOf[method], !.status = "loading"]
             d == [by |-> by, method |-> method, step |-> 1, arg |-> None, answer |-> NoRun]
  <1>1. IsPage(ui) /\ StageOf[method] = "progress" /\ ui.lifecycle # NoLifecycle
    BY SeenTyped, OnlyTheStart DEF RunMethods, StageOf
  <1>2. ui.execution = TRUE
    BY <1>1 DEF IInv, RunInv, Started
  <1>3. /\ ui' = u /\ calls' = calls \cup {d}
        /\ shown' = IF by = "poll" THEN shown ELSE Rendered(u)
    BY <1>2 DEF Attempt, Unless
  <1>4. /\ u.stage = "progress" /\ u.lifecycle = ui.lifecycle /\ u.result = ui.result
        /\ u.plan = ui.plan
    BY <1>1 DEF IsPage, Fresh
  <1>5. d.by = by /\ d.answer = NoRun /\ NoRun.snapshot = NoLifecycle
    BY DEF NoRun
  <1> HIDE DEF u, d
  <1>6. Seen' = Seen
    BY <1>3, <1>4, <1>5 DEF Seen
  <1>7. SeenInv'
    BY <1>3, <1>4, <1>6, SeenShrinks DEF Begun
  <1>8. HeardInv'
    BY <1>1, <1>3, <1>4, <1>5 DEF Begun, HeardInv
  <1>9. WaitingInv'
    BY <1>3, <1>4, <1>5 DEF Begun, WaitingInv, Waiting, Ended, Completed
  <1>10. StageInv'
    <2>1. shown'.stage \in {shown.stage, "progress"} /\ ui'.stage = "progress"
      BY <1>3, <1>4 DEF Rendered
    <2> QED
      BY <1>3, <1>4, <2>1 DEF Begun, StageInv, Ended, Completed
  <1> QED
    BY <1>7, <1>8, <1>9, <1>10 DEF Begun, RemoteInv, Ended

-----------------------------------------------------------------------------
(* An answer of the run is never refused: it is of the run that is shown.  *)
LEMMA NoObjections ==
    ASSUME IInv, Begun, NEW c \in calls, c.method \in RunMethods, c.answer # NoRun
    PROVE  /\ Verdict(c.answer.snapshot) \in {"older", "newer"}
           /\ c.answer.snapshot = remote.snapshot => Verdict(c.answer.snapshot) = "newer"
           /\ c.answer.snapshot \in Seen /\ ui.lifecycle \in Seen
  <1> DEFINE v == c.answer.snapshot
             shownNow == ui.lifecycle
  <1>1. v \in Seen /\ shownNow \in Seen
    BY OnlyTheStart DEF Begun, HeardInv, Seen
  <1>2. /\ LifecycleWellFormed(v) /\ v.plan = shownNow.plan
        /\ v.sequence = shownNow.sequence => v = shownNow
        /\ v.sequence \in Int /\ shownNow.sequence \in Int /\ shownNow # NoLifecycle
        /\ shownNow.sequence <= remote.snapshot.sequence
    BY <1>1, SeenTyped DEF Begun, SeenInv
  <1>3. Verdict(v) = CASE v.plan # ui.lifecycle.plan -> "mismatch"
            [] v.plan = ui.lifecycle.plan /\ v.sequence < ui.lifecycle.sequence -> "older"
            [] v.plan = ui.lifecycle.plan /\ v.sequence > ui.lifecycle.sequence -> "newer"
            [] OTHER -> IF v = ui.lifecycle THEN "newer" ELSE "mutation"
    BY <1>2 DEF Verdict
  <1>4. v.sequence < shownNow.sequence => Verdict(v) = "older"
    BY <1>2, <1>3
  <1>5. v.sequence >= shownNow.sequence => Verdict(v) = "newer"
    BY <1>2, <1>3
  <1> QED
    BY <1>1, <1>2, <1>4, <1>5

(* A method of the run returns with the page u: if it was the poll's and   *)
(* the poll goes no further, the page has what it waits for.               *)
LEMMA BegunReturns ==
    ASSUME IInv, Begun, NEW c \in calls, c.method \in RunMethods, NEW u, Return(c, u),
           UNCHANGED remote,
           u.plan = ui.plan, u.lifecycle \in Seen,
           ui.result # NoObservation => u.result # NoObservation,
           u.stage \in {"result", "failure"} =>
               Ended /\ (Completed => u.stage = "result" /\ u.result # NoObservation),
           c.by = "poll" /\ Settled(u) => u.result # NoObservation \/ (Ended /\ ~Completed)
    PROVE  Begun'
  <1>1. /\ ui' = u /\ calls' = calls \ {c} /\ shown'.stage = u.stage
        /\ poll' = CASE c.by = "poll" -> IF Settled(u) THEN "off" ELSE "armed"
                     [] c.method = "startExecution" /\ u.stage = "progress" -> "armed"
                     [] OTHER -> poll
    BY DEF Return, Rendered
  <1>2. \A d \in calls : d.method # "startExecution"
    BY OnlyTheStart DEF RunMethods
  <1>3. Seen' \subseteq Seen
    BY <1>1 DEF Seen
  <1>4. SeenInv'
    BY <1>1, <1>3, SeenShrinks DEF Begun
  <1>5. HeardInv'
    BY <1>1 DEF Begun, HeardInv, Seen
  <1>6. WaitingInv'
    <2>1. CASE c.by = "poll"
      <3>1. c.method # "startExecution"
        BY <1>2
      <3>2. poll' = IF Settled(u) THEN "off" ELSE "armed"
        BY <1>1, <2>1, <3>1, Zenon
      <3> QED
        BY <1>1, <2>1, <3>2 DEF WaitingInv, Waiting, Ended, Completed
    <2>2. CASE c.by # "poll"
      <3>1. poll' = poll
        BY <1>1, <1>2, <2>2, Zenon
      <3>2. Waiting => Waiting'
        BY <1>1, <1>2, <2>2, <3>1 DEF Waiting
      <3> QED
        BY <1>1, <3>2 DEF Begun, WaitingInv, Ended, Completed
    <2> QED
      BY <2>1, <2>2
  <1>7. StageInv' /\ RemoteInv'
    BY <1>1 DEF Begun, StageInv, RemoteInv, Ended, Completed
  <1> QED
    BY <1>4, <1>5, <1>6, <1>7 DEF Begun

(* A page that only took over a snapshot and a status ...                  *)
TakesOver(u, v, status) ==
    u \in {[ui EXCEPT !.status = status], [ui EXCEPT !.lifecycle = v, !.status = status]}

(* ... has the stage and the result it had.                                *)
LEMMA StatusPage ==
    ASSUME IInv, Begun, NEW v \in Seen, NEW status, NEW u, TakesOver(u, v, status)
    PROVE  /\ u.plan = ui.plan /\ u.lifecycle \in {ui.lifecycle, v} /\ u.result = ui.result
           /\ u.stage = ui.stage /\ u.status = status
           /\ u.stage \in {"result", "failure"} =>
                 Ended /\ (Completed => u.stage = "result" /\ u.result # NoObservation)
  <1>1. IsPage(ui)
    BY SeenTyped
  <1>2. /\ u.plan = ui.plan /\ u.lifecycle \in {ui.lifecycle, v} /\ u.result = ui.result
        /\ u.stage = ui.stage /\ u.status = status
    BY <1>1 DEF IsPage, Fresh, TakesOver
  <1> QED
    BY <1>2 DEF Begun, StageInv

(* The answer to a stop,                                                   *)
LEMMA StopAnswersBegun ==
    ASSUME IInv, Begun, NEW c \in calls, c.method = "stopExecution", c.answer # NoRun,
           StopAnswered(c), UNCHANGED remote
    PROVE  Begun'
  <1> DEFINE v == c.answer.snapshot
  <1>1. c.method \in RunMethods /\ c.by # "poll"
    BY DEF RunMethods, IInv, TypeInv, IsCall
  <1>2. Verdict(v) \in {"older", "newer"} /\ v \in Seen /\ ui.lifecycle \in Seen
    BY <1>1, NoObjections
  <1>3. PICK status, u : Return(c, u) /\ TakesOver(u, v, status)
    <2>1. CASE Verdict(v) = "older"
      <3>1. Return(c, [ui EXCEPT !.status = "partial"])
        BY <2>1 DEF StopAnswered, Objections
      <3> QED
        BY <3>1 DEF TakesOver
    <2>2. CASE Verdict(v) = "newer"
      <3>1. PICK status : status = IF v.state = "terminal" THEN "partial" ELSE "loading"
        OBVIOUS
      <3>2. Return(c, [ui EXCEPT !.lifecycle = v, !.status = status])
        BY <2>2, <3>1 DEF StopAnswered, Objections
      <3> QED
        BY <3>2 DEF TakesOver
    <2> QED
      BY <1>2, <2>1, <2>2
  <1>4. /\ u.plan = ui.plan /\ u.lifecycle \in Seen /\ u.result = ui.result
        /\ u.stage \in {"result", "failure"} =>
              Ended /\ (Completed => u.stage = "result" /\ u.result # NoObservation)
    BY <1>2, <1>3, StatusPage
  <1> QED
    BY <1>1, <1>3, <1>4, BegunReturns

(* the first answer to a refresh,                                          *)
LEMMA StatusAnswersBegun ==
    ASSUME IInv, Begun, NEW c \in calls, c.method = "refreshExecution", c.answer # NoRun,
           StatusAnswered(c), UNCHANGED remote
    PROVE  Begun'
  <1> DEFINE v == c.answer.snapshot
  <1>1. c.method \in RunMethods
    BY DEF RunMethods
  <1>2. Verdict(v) \in {"older", "newer"} /\ v \in Seen /\ ui.lifecycle \in Seen
    BY <1>1, NoObjections
  <1>3. CASE Verdict(v) = "older" \/ v.state # "terminal"
    <2>0. PICK status \in {"loading", "partial"} :
             \E u : Return(c, u) /\ TakesOver(u, v, status)
      <3>1. CASE Verdict(v) = "older"
        <4>1. Return(c, [ui EXCEPT !.status = "loading"])
          BY <3>1 DEF StatusAnswered, Objections, Delayed
        <4> QED
          BY <4>1 DEF TakesOver
      <3>2. CASE Verdict(v) = "newer" /\ v.state # "terminal"
        <4>1. PICK status \in {"loading", "partial"} :
                 status = IF v.state = "stop-requested" THEN "partial" ELSE "loading"
          OBVIOUS
        <4>2. Return(c, [[ui EXCEPT !.lifecycle = v] EXCEPT !.status = status])
          BY <3>2, <4>1 DEF StatusAnswered, Objections
        <4>3. [[ui EXCEPT !.lifecycle = v] EXCEPT !.status = status]
                = [ui EXCEPT !.lifecycle = v, !.status = status]
          OBVIOUS
        <4> QED
          BY <4>2, <4>3 DEF TakesOver
      <3> QED
        BY <1>2, <1>3, <3>1, <3>2
    <2>1. PICK u : Return(c, u) /\ TakesOver(u, v, status)
      BY <2>0
    <2>2. /\ u.plan = ui.plan /\ u.lifecycle \in Seen /\ u.result = ui.result
          /\ u.stage = ui.stage /\ u.status = status
          /\ u.stage \in {"result", "failure"} =>
                Ended /\ (Completed => u.stage = "result" /\ u.result # NoObservation)
      BY <1>2, <2>1, StatusPage
    <2>3. Settled(u) => u.stage \in {"result", "failure"}
      BY <2>2 DEF Settled
    <2> QED
      BY <1>1, <2>1, <2>2, <2>3, BegunReturns
  <1>4. CASE Verdict(v) = "newer" /\ v.state = "terminal"
    <2> DEFINE u == [ui EXCEPT !.lifecycle = v]
               d == [c EXCEPT !.step = @ + 1, !.answer = NoRun]
    <2>1. InvokeNext(c, u)
      BY <1>4 DEF StatusAnswered, Objections
    <2>2. IsPage(ui) /\ IsCall(c)
      BY SeenTyped DEF IInv, TypeInv
    <2>3. /\ u.plan = ui.plan /\ u.lifecycle = v /\ u.result = ui.result /\ u.stage = ui.stage
      BY <2>2 DEF IsPage, Fresh
    <2>4. d.by = c.by /\ d.answer = NoRun /\ NoRun.snapshot = NoLifecycle
      BY <2>2 DEF IsCall, NoRun
    <2>5. ui' = u /\ calls' = (calls \ {c}) \cup {d} /\ UNCHANGED <<shown, poll, remote>>
      BY <2>1 DEF InvokeNext
    <2> HIDE DEF u, d
    <2>6. Seen' \subseteq Seen
      BY <1>2, <2>3, <2>4, <2>5 DEF Seen
    <2>7. SeenInv'
      BY <2>3, <2>5, <2>6, SeenShrinks DEF Begun
    <2>8. HeardInv'
      BY <1>2, <2>3, <2>4, <2>5 DEF Begun, HeardInv, Seen
    <2>9. WaitingInv'
      <3>1. Waiting => Waiting'
        BY <2>4, <2>5 DEF Waiting
      <3> QED
        BY <2>3, <2>5, <3>1 DEF Begun, WaitingInv, Ended, Completed
    <2>10. StageInv' /\ RemoteInv'
      BY <2>3, <2>5 DEF Begun, StageInv, RemoteInv, Ended, Completed
    <2> QED
      BY <2>7, <2>8, <2>9, <2>10 DEF Begun
  <1> QED
    BY <1>2, <1>3, <1>4

(* The result of a completed run is admitted, since its samples and its    *)
(* checks are all the plan's.                                              *)
LEMMA CompletedIsAdmitted ==
    ASSUME IInv, Begun, Completed
    PROVE  /\ ResultAdmitted(ShownPlan, remote.result)
           /\ remote.result.plan = remote.snapshot.plan
  <1> DEFINE r == remote.result
             p == ShownPlan
  <1>1. r # NoObservation /\ r.status = "completed" /\ r.plan = remote.snapshot.plan
    BY DEF Completed, Begun, RemoteInv
  <1>2. r \in WorkerResults
    BY <1>1 DEF IInv, TypeInv, Runs
  <1>3. remote.snapshot.plan = ui.plan /\ ui.plan # None /\ ui.plan \in PlanIds
    BY SeenTyped DEF Begun, SeenInv, LifecycleWellFormed, IsPage
  <1>4. p \in Plans /\ p.id = ui.plan
    BY <1>3 DEF PlanIds, ShownPlan
  <1> HIDE DEF p
  <1>5. /\ p.warmups \in Nat /\ p.measured \in Nat \ {0} /\ p.checks \in Nat \ {0}
        /\ r.observed /\ r.completion = "completed"
        /\ r.warmups = 1..p.warmups
        /\ r.measured = (p.warmups + 1)..Planned(p)
        /\ r.passed \cup r.failed = 1..p.checks
    BY <1>1, <1>2, <1>3, <1>4, ResultsAssumption, RunnerAssumption
  <1> DEFINE w == p.warmups
             n == Planned(p)
  <1>6. /\ n \in Int /\ w + 1 \in Int /\ n = w + p.measured /\ w + 1 <= n
        /\ n - (w + 1) + 1 = p.measured
    BY <1>5 DEF Planned
  <1>7. Cardinality(1..w) = w
    <2>1. 1 \in Int /\ w \in Int
      BY <1>5
    <2>2. Cardinality(1..w) = IF 1 > w THEN 0 ELSE w - 1 + 1
      BY <2>1, FS_Interval
    <2> QED
      BY <1>5, <2>2
  <1>8. Cardinality((w + 1)..n) = p.measured
    <2> HIDE DEF n
    <2>1. Cardinality((w + 1)..n) = IF w + 1 > n THEN 0 ELSE n - (w + 1) + 1
      BY <1>6, FS_Interval
    <2> QED
      BY <1>5, <1>6, <2>1
  <1>9. CountsMatch(p, r)
    BY <1>5, <1>6, <1>7, <1>8 DEF CountsMatch
  <1>10. SeriesAdmitted(r)
    <2>1. w + 1 \in (w + 1)..n
      BY <1>6
    <2> QED
      BY <1>5, <1>6, <2>1 DEF SeriesAdmitted
  <1> QED
    BY <1>1, <1>5, <1>9, <1>10 DEF ResultAdmitted, p

(* and the second answer to a refresh, the result.                         *)
LEMMA ResultAnswersBegun ==
    ASSUME IInv, Begun, NEW c \in calls, c.method = "refreshExecution", c.step # 1,
           c.answer # NoRun, ResultAnswered(c), UNCHANGED remote
    PROVE  Begun'
  <1> DEFINE v == c.answer.snapshot
             r == c.answer.result
             u == [ui EXCEPT !.lifecycle = v]
  <1>1. c.method \in RunMethods
    BY DEF RunMethods
  <1>2. c.answer = remote /\ v = remote.snapshot /\ r = remote.result /\ v.state = "terminal"
    BY DEF IInv, AnswersInv, AnswerInv
  <1>3. Verdict(v) = "newer" /\ v \in Seen /\ LifecycleWellFormed(v) /\ v.phase = "complete"
    BY <1>1, <1>2, NoObjections DEF Begun, SeenInv, LifecycleWellFormed
  <1>4. Ended /\ (Completed <=> r # NoObservation /\ r.status = "completed")
    BY <1>2 DEF Ended, Completed
  <1>5. IsPage(ui)
    BY SeenTyped
  <1>6. /\ IsPage(u) /\ u.plan = ui.plan /\ u.lifecycle = v /\ u.result = ui.result
        /\ u.stage = ui.stage
    BY <1>2, <1>5, SeenTyped DEF IsPage, Fresh
  <1>7. CASE r = NoObservation
    <2> DEFINE w == [u EXCEPT !.stage = "failure", !.status = "error"]
    <2>1. Return(c, w)
      BY <1>2, <1>3, <1>7 DEF ResultAnswered, Objections
    <2>2. w.plan = ui.plan /\ w.lifecycle = v /\ w.result = ui.result
      BY <1>6 DEF IsPage, Fresh
    <2> HIDE DEF u, w
    <2> QED
      BY <1>1, <1>3, <1>4, <1>7, <2>1, <2>2, BegunReturns
  <1>8. CASE r # NoObservation /\ (~ResultAdmitted(ShownPlan, r) \/ r.plan # v.plan)
    <2>1. PICK words : Return(c, Thrown(u, words))
      <3>1. CASE ~ResultAdmitted(ShownPlan, r)
        BY <1>2, <1>3, <1>8, <3>1 DEF ResultAnswered, Objections
      <3>2. CASE ResultAdmitted(ShownPlan, r)
        BY <1>2, <1>3, <1>8, <3>2 DEF ResultAnswered, Objections
      <3> QED
        BY <3>1, <3>2
    <2>2. ~Completed
      BY <1>2, <1>8, CompletedIsAdmitted
    <2> HIDE DEF u
    <2>3. /\ Thrown(u, words).plan = ui.plan /\ Thrown(u, words).lifecycle = v
          /\ Thrown(u, words).result = ui.result
      BY <1>6, ThrownKeeps
    <2> QED
      BY <1>1, <1>3, <1>4, <2>1, <2>2, <2>3, BegunReturns
  <1>9. CASE r # NoObservation /\ ResultAdmitted(ShownPlan, r) /\ r.plan = v.plan
    <2> DEFINE w == ResultShown(u, r)
    <2>1. Return(c, w)
      BY <1>2, <1>3, <1>9 DEF ResultAnswered, Objections
    <2>2. /\ w.plan = ui.plan /\ w.lifecycle = v /\ w.result = r
          /\ r.status = "completed" => w.stage = "result"
      BY <1>6 DEF IsPage, Fresh, ResultShown
    <2> HIDE DEF u, w
    <2> QED
      BY <1>1, <1>3, <1>4, <1>9, <2>1, <2>2, BegunReturns
  <1> QED
    BY <1>7, <1>8, <1>9

(* The start's answer: the first snapshot is shown, and the poll armed.    *)
LEMMA StartAnswersBegun ==
    ASSUME IInv, Begun, NEW c \in calls, c.method = "startExecution", c.answer # NoRun,
           StartAnswered(c), UNCHANGED remote
    PROVE  Begun'
  <1> DEFINE v == c.answer.snapshot
             w == [[ui EXCEPT !.execution = TRUE] EXCEPT !.lifecycle = v,
                                 !.stage = "progress", !.status = "loading"]
  <1>1. /\ c.method \in Methods \ RunMethods /\ calls = {c} /\ ui.lifecycle = NoLifecycle
        /\ c.by # "poll" /\ IsPage(ui)
    <2>1. c.method \in Methods \ RunMethods
      BY DEF Methods, StageOf, RunMethods
    <2> QED
      BY <2>1, SeenTyped DEF IInv, SetupInv, TypeInv, IsCall
  <1>2. v \in Seen /\ LifecycleWellFormed(v)
    BY DEF Begun, HeardInv, SeenInv, Seen
  <1>3. Verdict(v) = "newer"
    BY <1>1, <1>2 DEF Verdict
  <1>4. Return(c, w)
    BY <1>3 DEF StartAnswered, Objections
  <1>5. w.plan = ui.plan /\ w.lifecycle = v /\ w.stage = "progress"
    BY <1>1 DEF IsPage, Fresh
  <1> HIDE DEF w
  <1>6. ui' = w /\ calls' = {} /\ shown'.stage = "progress"
    BY <1>1, <1>4, <1>5 DEF Return, Rendered
  <1>7. poll' = "armed"
    BY <1>1, <1>4, <1>5, Zenon DEF Return
  <1>8. Seen' \subseteq Seen
    BY <1>2, <1>5, <1>6 DEF Seen
  <1>9. SeenInv'
    BY <1>5, <1>6, <1>8, SeenShrinks DEF Begun
  <1>10. HeardInv'
    BY <1>2, <1>5, <1>6 DEF HeardInv, Seen
  <1>11. WaitingInv' /\ StageInv' /\ RemoteInv'
    BY <1>5, <1>6, <1>7 DEF Begun, WaitingInv, Waiting, StageInv, RemoteInv, Ended
  <1> QED
    BY <1>9, <1>10, <1>11 DEF Begun

-----------------------------------------------------------------------------
(* The runner answers an invocation, at rest or recording a stop,          *)
LEMMA ServesBegun ==
    ASSUME IInv, Begun, NEW c \in calls, c.answer = NoRun, NEW a,
           UNCHANGED <<ui, shown, poll>>, Served(c, a), SeenInv',
           a.snapshot = remote'.snapshot,
           remote' = remote \/ (Running /\ ~Ended' /\ remote'.result = NoObservation)
    PROVE  Begun'
  <1> DEFINE d == [c EXCEPT !.answer = a]
  <1>1. d.by = c.by /\ d.method = c.method /\ d.answer = a
    BY DEF IInv, TypeInv, IsCall
  <1>2. calls' = (calls \ {c}) \cup {d}
    BY DEF Served
  <1> HIDE DEF d
  <1>3. a.snapshot # NoLifecycle
    BY DEF SeenInv, Seen
  <1>4. HeardInv'
    BY <1>1, <1>2, <1>3 DEF Begun, HeardInv
  <1>5. Waiting => Waiting'
    BY <1>1, <1>2 DEF Waiting
  <1>6. CASE remote' = remote
    BY <1>4, <1>5, <1>6 DEF Begun, WaitingInv, StageInv, RemoteInv, Ended, Completed
  <1>7. CASE Running /\ ~Ended' /\ remote'.result = NoObservation
    <2>1. ~Ended
      BY <1>7 DEF Running, Ended
    <2> QED
      BY <1>4, <1>5, <1>7, <2>1 DEF Begun, WaitingInv, StageInv, RemoteInv
  <1> QED
    BY <1>6, <1>7

(* as its commands do,                                                     *)
LEMMA ServeStepBegun ==
    ASSUME IInv, Begun, NEW c \in calls, Serve(c)
    PROVE  Begun'
  <1> DEFINE s == remote.snapshot
  <1>1. /\ c.answer = NoRun /\ UNCHANGED <<ui, shown, poll>> /\ remote # NoRun /\ remote \in Runs
        /\ IsCall(c) /\ s \in Seen
    BY OnlyTheStart DEF Serve, IInv, TypeInv, Begun, SeenInv
  <1>2. ASSUME NEW a, calls' = (calls \ {c}) \cup {[c EXCEPT !.answer = a]}
        PROVE  Seen' \subseteq Seen \cup {remote'.snapshot, a.snapshot}
    <2> DEFINE d == [c EXCEPT !.answer = a]
    <2>1. d.answer = a
      BY <1>1 DEF IsCall
    <2> HIDE DEF d
    <2> QED
      BY <1>1, <1>2, <2>1 DEF Seen, d
  <1>3. ASSUME NEW a, Served(c, a), remote' = remote, a.snapshot = s PROVE Begun'
    <2>1. Seen' \subseteq Seen
      BY <1>1, <1>2, <1>3 DEF Served
    <2>2. SeenInv'
      BY <1>1, <1>3, <2>1, SeenShrinks DEF Begun
    <2> QED
      BY <1>1, <1>3, <2>2, ServesBegun
  <1>4. CASE c.method = "startExecution"
    BY <1>1, <1>4, Zenon DEF Serve
  <1>5. CASE c.method = "refreshExecution"
    <2> DEFINE a == IF c.step = 1 THEN [remote EXCEPT !.result = NoObservation] ELSE remote
    <2>1. remote' = remote /\ Served(c, a)
      BY <1>5, Zenon DEF Serve
    <2>2. a.snapshot = s
      BY <1>1 DEF Runs
    <2> HIDE DEF a
    <2> QED
      BY <1>3, <2>1, <2>2
  <1>6. CASE c.method = "stopExecution"
    <2>1. /\ remote' = IF s.state = "running"
                       THEN [remote EXCEPT !.snapshot = Advanced(s, "stop-requested", s.phase)]
                       ELSE remote
          /\ Served(c, [remote' EXCEPT !.result = NoObservation])
      BY <1>6, Zenon DEF Serve
    <2>2. PICK r : r = remote'
      OBVIOUS
    <2> DEFINE a == [r EXCEPT !.result = NoObservation]
    <2>3. Served(c, a)
      BY <2>1, <2>2
    <2>4. CASE s.state # "running"
      <3>1. remote' = remote /\ r = remote
        BY <2>1, <2>2, <2>4
      <3>2. a.snapshot = s
        BY <1>1, <3>1 DEF Runs
      <3> HIDE DEF a
      <3> QED
        BY <1>3, <2>3, <3>1, <3>2
    <2>5. CASE s.state = "running"
      <3> DEFINE q == Advanced(s, "stop-requested", s.phase)
      <3>1. LifecycleWellFormed(s)
        BY <1>1 DEF Begun, SeenInv
      <3>2. s.sequence \in Int /\ s.sequence >= 0
        BY <3>1, SeenTyped DEF LifecycleWellFormed
      <3>3. LifecycleWellFormed(q) /\ q.state = "stop-requested"
        BY <2>5, <3>1, <3>2 DEF LifecycleWellFormed, Advanced
      <3>4. Running /\ remote.result = NoObservation
        BY <2>5 DEF Running, Begun, RemoteInv, Ended
      <3> HIDE DEF q
      <3>5. /\ remote' = r /\ r.snapshot = q /\ r.result = NoObservation
            /\ a.snapshot = q
        BY <1>1, <2>1, <2>2, <2>5, <3>4 DEF Runs, q
      <3> HIDE DEF a
      <3>6. calls' = (calls \ {c}) \cup {[c EXCEPT !.answer = a]}
        BY <2>3 DEF Served
      <3>7. Seen' \subseteq Seen \cup {remote'.snapshot}
        BY <1>2, <3>5, <3>6
      <3>8. SeenInv'
        BY <1>1, <3>3, <3>5, <3>7, SeenGrows DEF Begun, q
      <3>9. ~Ended'
        BY <3>3, <3>5 DEF Ended
      <3> QED
        BY <1>1, <2>3, <3>4, <3>5, <3>8, <3>9, ServesBegun
    <2> QED
      BY <2>4, <2>5
  <1> QED
    BY <1>4, <1>5, <1>6 DEF Serve, RunMethods

(* or the execution goes on or ends, while the page waits for it.          *)
LEMMA RunnerStepsBegun ==
    ASSUME IInv, Begun, RunProgresses \/ RunEnds
    PROVE  Begun'
  <1> DEFINE s == remote.snapshot
  <1>1. /\ remote \in Runs /\ s \in Seen /\ LifecycleWellFormed(s)
        /\ s.sequence \in Int /\ s.sequence >= 0
    <2>1. remote \in Runs /\ s \in Seen /\ LifecycleWellFormed(s)
      BY DEF IInv, TypeInv, Begun, SeenInv
    <2> QED
      BY <2>1, SeenTyped DEF LifecycleWellFormed
  <1>2. /\ Running /\ ~Ended /\ remote.result = NoObservation
        /\ UNCHANGED <<ui, calls, shown, poll>>
    BY DEF RunProgresses, RunEnds, Running, Ended, Begun, RemoteInv
  <1>3. Seen' \subseteq Seen \cup {remote'.snapshot}
    BY <1>2 DEF Seen
  <1>4. HeardInv' /\ (Waiting => Waiting')
    BY <1>2 DEF Begun, HeardInv, Waiting
  <1>5. WaitingInv' /\ StageInv'
    BY <1>2, <1>4 DEF Begun, WaitingInv, StageInv
  <1>6. CASE RunProgresses
    <2> DEFINE q == Advanced(s, s.state, "quick-check")
    <2>1. LifecycleWellFormed(q)
      BY <1>1, <1>2 DEF LifecycleWellFormed, Advanced, Running
    <2>2. remote' = [remote EXCEPT !.snapshot = q]
      BY <1>6 DEF RunProgresses
    <2> HIDE DEF q
    <2>3. remote'.snapshot = q /\ remote'.result = NoObservation
      BY <1>1, <1>2, <2>2 DEF Runs
    <2>4. SeenInv'
      BY <1>2, <1>3, <2>1, <2>3, SeenGrows DEF Begun, q
    <2> QED
      BY <1>4, <1>5, <2>3, <2>4 DEF Begun, RemoteInv
  <1>7. CASE RunEnds
    <2> DEFINE q == Advanced(s, "terminal", "complete")
    <2>1. LifecycleWellFormed(q) /\ q.state = "terminal" /\ q.plan = s.plan
      BY <1>1 DEF LifecycleWellFormed, Advanced
    <2>2. PICK r \in WorkerResults : r.plan = s.plan /\ remote' = [snapshot |-> q, result |-> r]
      BY <1>7 DEF RunEnds
    <2> HIDE DEF q
    <2>3. remote'.snapshot = q /\ remote'.result = r
      BY <2>2
    <2>4. SeenInv'
      BY <1>2, <1>3, <2>1, <2>3, SeenGrows DEF Begun, q
    <2> QED
      BY <1>4, <1>5, <2>1, <2>2, <2>3, <2>4 DEF Begun, RemoteInv, Ended
  <1> QED
    BY <1>6, <1>7

-----------------------------------------------------------------------------
(* Either the run has not begun, or the page waits for its end.            *)
PageInv == Before \/ Begun

(* A new page has begun no run.                                            *)
LEMMA PageInitially == Init => PageInv
  <1> SUFFICES ASSUME Init PROVE Before
    BY DEF PageInv
  <1> QED
    BY FreshTyped DEF Init, Before, Rendered

(* Every step of the page, the poll and the runner keeps it.               *)
LEMMA PageSteps ==
    ASSUME IInv, PageInv, Next
    PROVE  PageInv'
  <1>1. CASE Before
    <2>1. ASSUME NEW by \in Clicks, Setup(by) PROVE Before'
      BY <1>1, <2>1, SetupClicked, SetupBeginsBefore
    <2>2. ASSUME NEW by \in Clicks, RefreshExecution(by) \/ StopExecution(by) PROVE FALSE
      BY <1>1, <2>2, SectionsAssumption
         DEF Before, RefreshExecution, StopExecution, Clicked, Offered, RunMethods
    <2>3. ASSUME SetupAnswered, UNCHANGED remote PROVE Before'
      BY <1>1, <2>3, SetupStep, SetupGoesOnBefore
    <2>4. ASSUME NEW c \in calls, SetupRefused(c) PROVE Before'
      <3>1. PICK words : Return(c, Thrown(ui, words))
        BY <2>4 DEF SetupRefused
      <3>2. c.method \notin RunMethods /\ UNCHANGED remote
        BY <2>4 DEF SetupRefused
      <3>3. Answered
        BY <3>1, <3>2, SetupPage DEF Answered, SetupGoesOn
      <3> QED
        BY <1>1, <3>2, <3>3, SetupGoesOnBefore
    <2>5. ASSUME NEW c \in calls, RunAnswered(c) PROVE FALSE
      BY <1>1, <2>5 DEF Before, RunAnswered
    <2>6. ~Poll /\ ~RunProgresses /\ ~RunEnds
      BY <1>1 DEF Before, Poll, RunProgresses, RunEnds, Running, NoRun, NoLifecycle, None
    <2> QED
      BY <1>1, <2>1, <2>2, <2>3, <2>4, <2>5, <2>6, RunIsTakenUp DEF Next, PageInv
  <1>2. CASE Begun
    <2>1. ASSUME NEW by \in Clicks, Setup(by) PROVE FALSE
      BY <1>2, <2>1, SetupClicked, NoSetupDuringTheRun
    <2>2. ASSUME NEW by \in Clicks, RefreshExecution(by) \/ StopExecution(by) PROVE Begun'
      <3>1. PICK method \in RunMethods :
              Clicked(by, method)
              /\ Attempt(by, method, None, Unless(ui.execution, "required"))
        BY <2>2 DEF RefreshExecution, StopExecution, RunMethods
      <3>2. shown.stage = "progress" /\ UNCHANGED <<poll, remote>>
        BY <3>1, SectionsAssumption DEF Clicked, Offered
      <3> QED
        BY <1>2, <3>1, <3>2, RunBeginsBegun
    <2>3. ASSUME Poll PROVE Begun'
      <3>1. "refreshExecution" \in RunMethods
        BY DEF RunMethods
      <3> QED
        BY <1>2, <2>3, <3>1, RunBeginsBegun DEF Poll
    <2>4. ASSUME NEW c \in calls, RunAnswered(c) PROVE Begun'
      BY <1>2, <2>4, StartAnswersBegun, StatusAnswersBegun, ResultAnswersBegun,
         StopAnswersBegun DEF RunAnswered
    <2> QED
      BY <1>2, <2>1, <2>2, <2>3, <2>4, NoSetupDuringTheRun, ServeStepBegun, RunnerStepsBegun
         DEF Next, PageInv
  <1> QED
    BY <1>1, <1>2 DEF PageInv

(* In every reachable state the snapshots that are about are of one run,   *)
(* and until the end is shown the poll is armed or awaited.                *)
THEOREM PageIsSettled == Spec => []PageInv
  <1>1. PageInv /\ UNCHANGED vars => PageInv'
    <2> SUFFICES ASSUME PageInv, UNCHANGED vars PROVE PageInv'
      OBVIOUS
    <2>1. Before => Before'
      BY DEF vars, Before
    <2>2. Seen' = Seen
      BY DEF vars, Seen
    <2>3. SeenInv => SeenInv'
      BY <2>2 DEF vars, SeenInv, LifecycleWellFormed
    <2>4. HeardInv /\ WaitingInv /\ StageInv /\ RemoteInv =>
            HeardInv' /\ WaitingInv' /\ StageInv' /\ RemoteInv'
      BY DEF vars, HeardInv, WaitingInv, Waiting, StageInv, RemoteInv, Ended, Completed
    <2> QED
      BY <2>1, <2>3, <2>4 DEF PageInv, Begun
  <1>2. IInv /\ PageInv /\ [Next]_vars => PageInv'
    BY <1>1, PageSteps
  <1> QED
    BY Invariance, PageInitially, <1>2, PTL DEF Spec

(* What the worker calls completed is never refused: once nothing is       *)
(* awaited, the page shows the result of a completed run.                  *)
THEOREM CompletedIsShown == Spec => []CompletedRunsAreShown
  <1>1. IInv /\ PageInv => CompletedRunsAreShown
    <2> SUFFICES ASSUME IInv, PageInv, Quiet, Completed
                 PROVE  ui.result = remote.result /\ shown.stage = "result"
      BY DEF CompletedRunsAreShown, Completed
    <2>1. Begun
      BY DEF PageInv, Before, Completed, NoRun
    <2>2. ui.result # NoObservation
      BY <2>1 DEF Begun, WaitingInv, Waiting, Quiet
    <2>3. ui.result = remote.result
      BY <2>2 DEF IInv, ResultInv
    <2>4. shown.stage # "progress" /\ ui.lifecycle # NoLifecycle
      BY <2>2, NothingArrived DEF IInv, ResultInv, Quiet
    <2>5. shown.stage \in {"result", "failure"}
      BY <2>4 DEF IInv, RunInv, Started, RunStages
    <2> QED
      BY <2>1, <2>3, <2>5 DEF Begun, StageInv
  <1> QED
    BY Invariance, PageIsSettled, <1>1, PTL
=============================================================================
