------------------------------- MODULE TaskPlan -------------------------------
(***************************************************************************)
(* From a task to its answer: create_execution_plan and run of             *)
(* core/orchestrator.py, with core/task_decomposer.py,                     *)
(* core/smart_decomposer_module.py and core/result_merger.py.              *)
(*                                                                         *)
(* A plan comes from a model that lists tasks, from a local model's draft  *)
(* of layers, or from neither.  Tasks and layers name what they depend on; *)
(* a name may be unknown, used twice, or come later in the list.  Drafts   *)
(* of layers are for callers that hand one to decompose, as its tests do:  *)
(* the profile that create_execution_plan hands on has none at this commit.*)
(***************************************************************************)
EXTENDS Naturals, Sequences, FiniteSets

CONSTANTS
    Names,      \* of layers
    Unknown,    \* a name no layer has
    MaxLayers,
    None

VARIABLES
    way,        \* how the task was split: "single", "default", "smart" or "layers"
    draft,      \* the answer of a model: a sequence of layers
    needs,      \* of each task of the plan: the tasks it depends on
    step,       \* where the run is
    ready,      \* tasks of this round that have not run yet
    completed,
    results     \* their statuses, in order

vars == <<way, draft, needs, step, ready, completed, results>>

Layer == [name : Names, after : SUBSET (Names \cup {Unknown})]

Drafts == UNION {[1..n -> Layer] : n \in 0..MaxLayers}

Tasks == DOMAIN needs

-----------------------------------------------------------------------------
(* Decomposition *)

\* The task a name stands for: of two layers with one name, the later one
Named(d, name) == {i \in DOMAIN d : d[i].name = name /\ \A j \in DOMAIN d : j > i => d[j].name # name}

NamedSoFar(d, k, name) == Named([i \in 1..k |-> d[i]], name)

\* Names are resolved when all tasks exist, so that they may refer to a later one
ResolvedInOnePass(d, k) == (UNION {NamedSoFar(d, k, name) : name \in d[k].after}) \ {k}

Resolved(d, k) == (UNION {Named(d, name) : name \in d[k].after}) \ {k}

\* A layer that names none follows the one before it
Chained(d, k) ==
    IF d[k].after # {} THEN Resolved(d, k) ELSE {k - 1} \ {0}

\* plan, code, test, review
DefaultPlan == [k \in 1..4 |-> {k - 1} \ {0}]

Planned(w, d, n) ==
    /\ step = "new"
    /\ way' = w /\ draft' = d /\ needs' = n
    /\ step' = "round"
    /\ UNCHANGED <<ready, completed, results>>

\* A task of any type but plan is its own plan
Single == Planned("single", <<>>, [k \in {1} |-> {}])

\* The answer of the reasoning model, which may list no task at all
Smart(d) == Planned("smart", d, [k \in DOMAIN d |-> Resolved(d, k)])

\* It has no client, gives no answer or fails: then the local model's draft, if it has layers
Fallback(d) ==
    IF d = <<>> THEN Planned("default", d, DefaultPlan)
    ELSE Planned("layers", d, [k \in DOMAIN d |-> Chained(d, k)])

-----------------------------------------------------------------------------
(* Execution *)

Pending == Tasks \ completed

CanRun(k) == needs[k] \subseteq completed

CanRunAny(k) == needs[k] = {} \/ needs[k] \cap completed # {}

\* The loop looks for tasks that can run; where none can, run raises
Round ==
    /\ step = "round"
    /\ ready' = {k \in Pending : CanRun(k)}
    /\ step' = IF Pending = {} THEN "done" ELSE IF ready' = {} THEN "raised" ELSE "tasks"
    /\ UNCHANGED <<way, draft, needs, completed, results>>

\* Tasks of a round run one after the other, in the order of the plan
RunTask(k, status) ==
    /\ step = "tasks"
    /\ k \in ready /\ \A j \in ready : k <= j
    /\ results' = Append(results, status)
    /\ IF status = "done"
       THEN /\ completed' = completed \cup {k}
            /\ ready' = ready \ {k}
            /\ step' = IF ready' = {} THEN "round" ELSE "tasks"
       ELSE /\ step' = "failed"
            /\ UNCHANGED <<completed, ready>>
    /\ UNCHANGED <<way, draft, needs>>

Merged == IF \A i \in DOMAIN results : results[i] = "done" THEN "done" ELSE "failed"

-----------------------------------------------------------------------------

Init ==
    /\ way = None /\ draft = <<>> /\ needs = <<>>
    /\ step = "new"
    /\ ready = {} /\ completed = {} /\ results = <<>>

Next ==
    \/ Single
    \/ step = "new" /\ \E d \in Drafts : Smart(d) \/ Fallback(d)
    \/ Round
    \/ \E k \in Tasks, status \in {"done", "failed"} : RunTask(k, status)

Spec == Init /\ [][Next]_vars /\ WF_vars(Next)

-----------------------------------------------------------------------------

TypeOK ==
    /\ way \in {None, "single", "default", "smart", "layers"}
    /\ DOMAIN needs = 1..Len(needs) /\ \A k \in Tasks : needs[k] \subseteq Tasks
    /\ step \in {"new", "round", "tasks", "done", "failed", "raised"}
    /\ ready \subseteq Tasks /\ completed \subseteq Tasks
    /\ \A i \in DOMAIN results : results[i] \in {"done", "failed"}

\* Layer k asks for layer j by a name no other layer has
Asks(k, j) ==
    /\ k # j /\ draft[j].name \in draft[k].after
    /\ \A i \in DOMAIN draft : draft[i].name = draft[j].name => i = j

\* What a model asked to be done first is done first, also where it comes later in the
\* list: a task whose layer names another layer, and no second one has that name, is
\* completed only after it (decompose_task, _draft_layers_to_plan, run).
AskedOrderKept ==
    [][\A k \in completed' \ completed : way \in {"smart", "layers"} =>
        \A j \in DOMAIN draft : Asks(k, j) => j \in completed]_vars

=============================================================================
