---------------------------- MODULE KernelModules ----------------------------
(***************************************************************************)
(* The modules of the kernel and their hooks: kernel_module_manager.py,    *)
(* the hooks run_task of orchestrator.py calls, and the modules that keep  *)
(* a record of tasks, ai_activity_module.py and model_usage_module.py.     *)
(*                                                                         *)
(* Each task runs in a thread of its own.  Its thread calls the hooks of   *)
(* the modules that were loaded when the loop began, one after the other;  *)
(* the API loads and unloads modules meanwhile.                            *)
(***************************************************************************)
EXTENDS Naturals, FiniteSets

CONSTANTS
    Modules,
    Order,          \* their order by name
    Trackers,       \* those that keep the current task and a list of past ones
    Usage,          \* the one of them that counts requests by model
    Tasks,          \* each run by one thread
    Models,
    None,
    MaxSwitches     \* bounds loads and unloads, for model checking

HooksAssumption ==
    /\ Usage \in Trackers
    /\ IsFiniteSet(Tasks)
    /\ None \notin Tasks \cup Nat
    /\ MaxSwitches \in Nat

VARIABLES
    loaded,
    current,        \* of each tracker: the task it shows as running
    records,        \* of each tracker: the tasks it has recorded
    requests,       \* requests_count of each model, or None before the first
    run,            \* of each task: its step, its model, and the hooks still to be called
    began, ended,   \* history: modules whose hooks were called for a task
    gone,           \* history: modules unloaded while a task ran
    met,            \* history: models whose first requests were counted at once
    switches

hooks == <<began, ended, gone>>
vars == <<loaded, current, records, requests, run, hooks, met, switches>>

New == [at |-> "new", model |-> None, todo |-> {}, missed |-> FALSE]

IsNext(m, S) == m \in S /\ \A n \in S : Order[m] <= Order[n]

Active == {t \in Tasks : run[t].at \notin {"new", "done", "raised"}}

-----------------------------------------------------------------------------
(* Loading *)

Load(m) ==
    /\ m \notin loaded
    /\ loaded' = loaded \cup {m}
    /\ UNCHANGED <<current, gone>>

Cleared(m) == [n \in Trackers |-> IF n = m THEN None ELSE current[n]]

\* on_unload of a tracker forgets the current task, and keeps the records
Unload(m) ==
    /\ m \in loaded
    /\ loaded' = loaded \ {m}
    /\ current' = Cleared(m)
    /\ gone' = [t \in Tasks |-> IF t \in Active THEN gone[t] \cup {m} ELSE gone[t]]

\* A request to the API: another action, no name or an unknown one changes nothing
ManageModule(m) ==
    /\ switches < MaxSwitches
    /\ Load(m) \/ Unload(m)
    /\ switches' = switches + 1
    /\ UNCHANGED <<records, requests, run, began, ended, met>>

-----------------------------------------------------------------------------
(* Hooks *)

\* run_task picks the model and begins the loop over the modules loaded now
Begin(t, model) ==
    /\ run[t].at = "new"
    /\ run' = [run EXCEPT ![t] = [New EXCEPT !.at = "before", !.model = model, !.todo = loaded]]
    /\ UNCHANGED <<loaded, current, records, requests, hooks, met, switches>>

BeforeTask(t) ==
    /\ run[t].at = "before"
    /\ \E m \in run[t].todo :
        /\ IsNext(m, run[t].todo)
        /\ run' = [run EXCEPT ![t].todo = @ \ {m}]
        /\ current' = IF m \in Trackers THEN [current EXCEPT ![m] = t] ELSE current
        /\ began' = [began EXCEPT ![t] = @ \cup {m}]
    /\ UNCHANGED <<loaded, records, requests, ended, gone, met, switches>>

\* The agent has run, or there was none to run the task: all ways to an answer call
\* the hooks once.  An exception calls none.
EndRun(t) ==
    /\ run[t].at = "before" /\ run[t].todo = {}
    /\ \/ run' = [run EXCEPT ![t].at = "after", ![t].todo = loaded]
       \/ run' = [run EXCEPT ![t].at = "raised"]
    /\ UNCHANGED <<loaded, current, records, requests, hooks, met, switches>>

\* What a tracker shows once a task has ended
Kept(m) == current[m]

Forgotten(m) == None

Recorded(t, m) ==
    /\ run' = [run EXCEPT ![t] = [run[t] EXCEPT !.at = "after", !.todo = @ \ {m}, !.missed = FALSE]]
    /\ ended' = [ended EXCEPT ![t] = @ \cup {m}]
    /\ IF m \in Trackers
       THEN /\ current' = [current EXCEPT ![m] = Forgotten(m)]
            /\ records' = [records EXCEPT ![m] = @ \cup {t}]
       ELSE UNCHANGED <<current, records>>

AfterTask(t) ==
    /\ run[t].at = "after"
    /\ \E m \in run[t].todo : m # Usage /\ IsNext(m, run[t].todo) /\ Recorded(t, m)
    /\ UNCHANGED <<loaded, requests, began, gone, met, switches>>

\* _get_or_create_stats: the model is looked up ...
MissedAlways(model) == TRUE

Missed(model) == requests[model] = None

FindStats(t) ==
    /\ run[t].at = "after" /\ IsNext(Usage, run[t].todo)
    /\ run' = [run EXCEPT ![t].at = "count", ![t].missed = Missed(run[t].model)]
    /\ met' = IF \E o \in Tasks \ {t} : run[o].at = "count" /\ run[o].model = run[t].model
              THEN met \cup {run[t].model} ELSE met
    /\ UNCHANGED <<loaded, current, records, requests, hooks, switches>>

\* ... and, if it was missed, put in, over what another thread has put in meanwhile
\* (model_usage_module.py:91).  The record of the task, which follows at line 103 and which no
\* other thread reads or writes, is put in by the same step.
CountRequest(t) ==
    LET model == run[t].model
    IN  /\ run[t].at = "count"
        /\ requests' = [requests EXCEPT ![model] = IF run[t].missed THEN 1 ELSE @ + 1]
        /\ Recorded(t, Usage)
        /\ UNCHANGED <<loaded, began, gone, met, switches>>

Answer(t) ==
    /\ run[t].at = "after" /\ run[t].todo = {}
    /\ run' = [run EXCEPT ![t].at = "done"]
    /\ UNCHANGED <<loaded, current, records, requests, hooks, met, switches>>

-----------------------------------------------------------------------------

Init ==
    /\ loaded = Modules
    /\ current = [m \in Trackers |-> None]
    /\ records = [m \in Trackers |-> {}]
    /\ requests = [model \in Models |-> None]
    /\ run = [t \in Tasks |-> New]
    /\ began = [t \in Tasks |-> {}] /\ ended = [t \in Tasks |-> {}] /\ gone = [t \in Tasks |-> {}]
    /\ met = {}
    /\ switches = 0

Next ==
    \/ \E m \in Modules : ManageModule(m)
    \/ \E t \in Tasks :
        \/ \E model \in Models : Begin(t, model)
        \/ BeforeTask(t) \/ EndRun(t) \/ AfterTask(t)
        \/ FindStats(t) \/ CountRequest(t) \/ Answer(t)

Spec == Init /\ [][Next]_vars

-----------------------------------------------------------------------------

TypeOK ==
    /\ loaded \subseteq Modules
    /\ current \in [Trackers -> Tasks \cup {None}]
    /\ records \in [Trackers -> SUBSET Tasks]
    /\ requests \in [Models -> Nat \cup {None}]
    /\ run \in [Tasks ->
            [at : {"new", "before", "after", "count", "done", "raised"},
             model : Models \cup {None}, todo : SUBSET Modules, missed : BOOLEAN]]
    /\ began \in [Tasks -> SUBSET Modules] /\ ended \in [Tasks -> SUBSET Modules]
    /\ gone \in [Tasks -> SUBSET Modules]
    /\ met \subseteq Models
    /\ switches \in 0..MaxSwitches

\* A module that was told of the start of a task is told of its end once the task is
\* answered, and does not go on to show it as running: unless the module was unloaded in
\* between, although modules come and go while the threads walk through them.  Only an
\* exception of the run leaves a task without an end (before_task, after_task, run_task).
HooksPaired ==
    \A t \in Tasks : run[t].at = "done" =>
        /\ began[t] \subseteq ended[t] \cup gone[t]
        /\ \A m \in Trackers : current[m] = t => m \in gone[t]

\* The requests counted for a model are the tasks recorded with it, as long as no two
\* threads counted one of that model at once; else there may be fewer, and never more
\* (_get_or_create_stats).
RequestsAgree ==
    \A model \in Models :
        LET counted == IF requests[model] = None THEN 0 ELSE requests[model]
            recorded == Cardinality({t \in records[Usage] : run[t].model = model})
        IN  /\ counted <= recorded
            /\ model \notin met => counted = recorded

=============================================================================
