---------------------------- MODULE TaskContext ----------------------------
(***************************************************************************)
(* lib/context-policy and lib/orchestrator/context.ts: what a visitor asks *)
(* for becomes a recommendation request.  A task and its scope fix the     *)
(* context length; an expert states one.                                   *)
(*                                                                         *)
(* Lengths are in units of 4096 tokens, the shortest the policy knows.     *)
(* .exact: the known keys and no others; .settled: the preferences and the *)
(* advanced fields, taken as they are, pass the M-A schema.                *)
(***************************************************************************)
EXTENDS Verdicts, SequencesExt

CONSTANT LongestContext    \* what a context length can be at most

ASSUME LongestContextAssumption == LongestContext \in Nat \ {0}

NoviceRules ==
    [coding |-> [snippet |-> 1, single_file |-> 2, few_files |-> 4, repository |-> 8],
     writing |-> [short_form |-> 1, document |-> 2, long_document |-> 8],
     extraction |-> [single_record |-> 1, document |-> 2, document_set |-> 8],
     general |-> [quick_question |-> 1, conversation |-> 2, reference_material |-> 4]]

TaskFamilies == DOMAIN NoviceRules \cup {"other"}

NoContext(status, reason) == [status |-> status, reason |-> reason]
InvalidContext == NoContext("blocked", "context-policy.invalid-input")

Derived(family, tokens) == [status |-> "ok", family |-> family, tokens |-> tokens]

NoviceContext(task) ==
    IF ~task.exact THEN InvalidContext
    ELSE IF /\ task.family \in DOMAIN NoviceRules
            /\ task.scope \in DOMAIN NoviceRules[task.family]
         THEN Derived(task.family, NoviceRules[task.family][task.scope])
         ELSE NoContext("unavailable", "context-policy.unsupported-task-scope")

ExpertContext(task, tokens) ==
    IF task.exact /\ task.family \in TaskFamilies /\ task.labelled /\ tokens \in 1..LongestContext
    THEN Derived(task.family, tokens)
    ELSE InvalidContext

DeriveTaskContext(input) ==
    IF ~input.exact \/ input.version # 1 THEN InvalidContext
    ELSE CASE input.mode = "novice" -> NoviceContext(input.task)
           [] input.mode = "expert-override" -> ExpertContext(input.task, input.tokens)
           [] OTHER -> InvalidContext

-----------------------------------------------------------------------------
NoRequest(reason) == [status |-> "blocked", reason |-> reason, valid |-> TRUE]

CompiledRequest(input, context) ==
    [status |-> "ok", valid |-> TRUE, id |-> input.id, target |-> input.target,
     family |-> context.family, context |-> context.tokens, needs |-> ToSet(input.needs),
     priority |-> input.priority, cpuOffload |-> input.cpuOffload,
     installedOnly |-> input.installedOnly, forcedRuntime |-> input.forcedRuntime,
     maximumBytes |-> input.maximumBytes, task |-> context.family]

CompileRecommendationRequest(input) ==
    LET context == DeriveTaskContext(input.context)
    IN  IF ~input.plain THEN NoRequest("orchestrator.request-input-invalid")
        ELSE IF context.status # "ok"
             THEN [status |-> context.status, reason |-> context.reason, valid |-> TRUE]
        ELSE IF \/ None \in {input.id, input.target}
                \/ input.style \notin {"interactive", "batch"}
                \/ ~IsInjective(input.needs)
                \/ ~input.attributed
             THEN NoRequest("orchestrator.request-input-invalid")
        ELSE IF ~input.settled THEN NoRequest("orchestrator.request-output-invalid")
        ELSE CompiledRequest(input, context)
=============================================================================
