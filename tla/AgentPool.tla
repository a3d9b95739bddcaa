----------------------------- MODULE AgentPool -----------------------------
(***************************************************************************)
(* The agents of the kernel and the threads that share them: the task loop *)
(* of core/orchestrator.py with the registry, the router, the balancer,    *)
(* the autoscaler and the life cycle of agents it calls.                   *)
(*                                                                         *)
(* Each submitted task is run by the caller's thread (the API's pool, the  *)
(* voice thread, the queue listener), without a lock: a thread may be      *)
(* preempted anywhere.  A step ends where it leaves a decision that the    *)
(* next step acts on.  A counter is read and written back: with `torn`     *)
(* the value written may rest on a read before another thread's write.     *)
(*                                                                         *)
(* A frame is one activation of run_task: <<t, 1>> runs a task of the      *)
(* plan, <<t, 2>> the fix task that the feedback made of its result.       *)
(***************************************************************************)
EXTENDS Integers, FiniteSets, Sequences

CONSTANTS
    Agents,          \* the registry
    Position,        \* its order, that of list_agents()
    Executors,       \* local_agents: those the kernel can run itself
    Remote,          \* those whose endpoint is asked for their health
    Skills,          \* what a task may ask for
    Provider, Capabilities, Limit,     \* of an agent's record
    Critical,        \* is_critical
    Providers,
    Reports,         \* what an endpoint may answer: status and counters
    Threads,
    Plans,           \* execution plans: sequences of tasks
    FixOrder,        \* the base order of providers of a fix task
    Imported,        \* whether orchestrator.py knows the name AgentStatus: at
                     \* this commit {FALSE}; TRUE is the code after line 691
    Tearing,         \* whether counter updates may be torn
    None,
    RetryLimit,      \* of fix tasks for the tasks of one plan
    MaxCalls         \* bounds the submissions, for model checking

Levels == {1, 2}
Frames == Threads \X Levels

ASSUME PoolAssumption ==
    /\ Executors \subseteq Agents /\ Remote \subseteq Agents /\ Critical \subseteq Agents
    /\ IsFiniteSet(Agents) /\ IsFiniteSet(Threads)
    /\ Position \in [Agents -> Nat]
    /\ \A a, b \in Agents : Position[a] = Position[b] => a = b
    /\ Provider \in [Agents -> Providers]
    /\ Capabilities \in [Agents -> SUBSET Skills] /\ "fix" \in Skills
    /\ Limit \in [Agents -> Nat \ {0}]
    /\ None \notin Agents \cup Providers /\ "orchestrator" \notin Agents
    /\ Imported \subseteq BOOLEAN /\ Tearing \subseteq BOOLEAN
    /\ RetryLimit \in Nat /\ MaxCalls \in Nat

\* A task: its capability and priority, the base order of its providers and of the
\* groups of the economy policy, whether it is easy (of low or medium complexity, with no
\* word of risk), whether it is about the repository, the provider the selector chose
Task ==
    [cap : Skills, prio : {"low", "normal", "high"}, order : Seq(Providers),
     groups : Seq(Providers), easy : BOOLEAN, repo : BOOLEAN, model : Providers]

ASSUME PlanAssumption == Plans \subseteq Seq(Task) \ {<<>>} /\ FixOrder \in Seq(Providers)

Statuses == {"ready", "idle", "busy", "degraded", "offline", "overloaded", "disabled", "failed"}

ASSUME ReportsAssumption == Reports \subseteq [status : Statuses, active : Nat, queued : Nat]

Unroutable == {"offline", "disabled", "failed", "overloaded"}

\* What run() of an agent ends in: done; done with errors or little confidence;
\* failed, by a spent quota, a timeout or otherwise; or an exception
Outcomes == {"done", "poor", "failed", "quota", "timeout", "raised"}
Status(r) == IF r \in {"done", "poor"} THEN "done" ELSE IF r = "raised" THEN r ELSE "failed"

VARIABLES
    status, active, queued,   \* of each agent: status, active_tasks, queue_depth
    idle,                     \* idle_since: None, set, or longer ago than idle_shutdown_sec
    exhausted,                \* the session's providers in their recovery time
    plan,                     \* per thread, the tasks of its plan not done yet
    retries,                  \* per thread, the fix tasks made for its plan
    frame, calls, imported, torn

pool == <<status, active, queued, idle>>
modes == <<imported, torn>>
vars == <<pool, exhausted, plan, retries, frame, calls, modes>>

-----------------------------------------------------------------------------

Steps == {"off", "start", "prefer", "route", "reserve", "preflight", "fallback", "take",
          "busy", "call", "again", "fixing", "idle", "idled", "scale", "disable", "return"}

NoFrame == [at |-> "off", task |-> None, agent |-> None, seen |-> 0, todo |-> {}, result |-> None]
Started(k) == [NoFrame EXCEPT !.at = "start", !.task = k]
FixOf(k) == [k EXCEPT !.cap = "fix", !.order = FixOrder, !.repo = FALSE]

Become(f, new) == frame' = [frame EXCEPT ![f] = new]
Goto(f, step) == Become(f, [frame[f] EXCEPT !.at = step])
End(f, step, r) == Become(f, [frame[f] EXCEPT !.at = step, !.result = r])

\* A counter's update starts from what the counter is, or from what it was at Note
Note(now) == IF torn THEN now ELSE 0
Read(f, now) == IF torn THEN {now, frame[f].seen} ELSE {now}

\* A decrement that is not bounded
LessFree(n) == n - 1

\* A bounded decrement: max(0, n - 1)
Less(n) == IF n = 0 THEN 0 ELSE n - 1

-----------------------------------------------------------------------------
(* Choosing an agent *)

Able(cap) == {a \in Agents : cap \in Capabilities[a]}

Overrun(a) == active[a] + queued[a] > Limit[a]

Routable(a, prio) ==
    /\ status[a] \notin Unroutable
    /\ ~Overrun(a)
    /\ status[a] = "busy" => prio = "low"

\* is_agent_routable also marks each agent over its limit that it looks at
Marked(seen) ==
    [a \in Agents |->
        IF a \in seen /\ status[a] \notin Unroutable /\ Overrun(a) THEN "overloaded" ELSE status[a]]

\* The base order without those that are exhausted, which leave their places empty
Preferred(k, ex) ==
    IF \A i \in DOMAIN k.order : ex[k.order[i]]
    THEN <<"antigravity", "mistral", "local", "openai">>
    ELSE [i \in DOMAIN k.order |-> IF ex[k.order[i]] THEN None ELSE k.order[i]]

\* The preference's order: by provider, then as registered
Precedes(order, a, b) ==
    \E i \in DOMAIN order :
        /\ order[i] = Provider[a]
        /\ \A j \in 1..i : order[j] = Provider[b] => j = i /\ Position[a] < Position[b]

Listed(cap, order, skip) ==
    {a \in Able(cap) \ skip : \E i \in DOMAIN order : order[i] = Provider[a]}

Found(cap, order, skip, prio) ==
    LET fit == {a \in Listed(cap, order, skip) \cap Executors : Routable(a, prio)}
    IN  IF fit = {} THEN None
        ELSE CHOOSE a \in fit : \A b \in fit \ {a} : Precedes(order, a, b)

\* The agents the search looks at before it finds one
Visited(cap, order, skip, prio) ==
    LET found == Found(cap, order, skip, prio)
    IN  {a \in Listed(cap, order, skip) : found = None \/ ~Precedes(order, found, a)}

\* Neither complexity, nor risk, nor priority calls for openai
Simple(k) == k.easy /\ k.prio # "high"

\* The economy policy: openai only for what is not simple, or if there is nothing else
Economy(k, candidates) ==
    LET openai == {a \in candidates : Provider[a] = "openai"}
        others == candidates \ openai
        Rank(a) == {i \in DOMAIN k.groups : k.groups[i] = Provider[a]}
        first == {a \in others : \A b \in others : \A i \in Rank(b) : \E j \in Rank(a) : j <= i}
    IN  IF Simple(k) /\ others # {} THEN first
        ELSE IF openai # {} THEN openai ELSE candidates

\* The balancer takes the best score; most of its terms rest on what is left out here, so
\* that it may be that of any routable agent
Balanced(cap, prio, candidates) ==
    {a \in candidates : cap \in Capabilities[a] /\ Routable(a, prio)}

-----------------------------------------------------------------------------
(* Orchestrator.run: check the agents, then the tasks of the plan in turn *)

\* What an agent's record becomes: the report of its endpoint, or what it was
Updated(a, r) ==
    IF a \in Remote THEN r[a]
    ELSE [status |-> status[a], active |-> active[a], queued |-> queued[a]]

CheckAll(r) ==
    /\ status' = [a \in Agents |-> Updated(a, r).status]
    /\ active' = [a \in Agents |-> Updated(a, r).active]
    /\ queued' = [a \in Agents |-> Updated(a, r).queued]

Submit(t, p) ==
    /\ calls < MaxCalls
    /\ frame[<<t, 1>>].at = "off"
    /\ calls' = calls + 1
    /\ \E r \in [Remote -> Reports] : CheckAll(r)
    /\ plan' = [plan EXCEPT ![t] = p]
    /\ Become(<<t, 1>>, Started(Head(p)))
    /\ UNCHANGED <<idle, exhausted, retries, modes>>

\* A task that is not done ends the plan; the retries of an ended plan are not read again
RunNext(t) ==
    LET f == <<t, 1>>
        rest == IF frame[f].result = "done" THEN Tail(plan[t]) ELSE <<>>
    IN  /\ frame[f].at = "return"
        /\ plan' = [plan EXCEPT ![t] = rest]
        /\ retries' = [retries EXCEPT ![t] = IF rest = <<>> THEN 0 ELSE @]
        /\ Become(f, IF rest = <<>> THEN NoFrame ELSE Started(Head(rest)))
        /\ UNCHANGED <<pool, exhausted, calls, modes>>

-----------------------------------------------------------------------------
(* Orchestrator.run_task: up to the choice of an agent *)

\* The autoscaler: if no agent with the capability is ready, enable a disabled one
EnsureCapacity(f) ==
    LET able == Able(frame[f].task.cap)
        off == {a \in able : status[a] = "disabled"}
    IN  /\ frame[f].at = "start"
        /\ IF off = {} \/ \E a \in able : status[a] \in {"ready", "idle", "degraded"}
           THEN UNCHANGED <<status, idle>>
           ELSE \E a \in off :
                    /\ \A b \in off : Position[a] <= Position[b]
                    /\ status' = [status EXCEPT ![a] = "ready"]
                    /\ idle' = [idle EXCEPT ![a] = "none"]
        /\ Goto(f, "prefer")
        /\ UNCHANGED <<active, queued, exhausted, plan, retries, calls, modes>>

\* The preference of providers, which reserves nothing
Prefer(f) ==
    LET k == frame[f].task
        order == Preferred(k, exhausted)
        found == Found(k.cap, order, {}, k.prio)
    IN  /\ frame[f].at = "prefer"
        /\ status' = Marked(Visited(k.cap, order, {}, k.prio))
        /\ Become(f, [frame[f] EXCEPT !.at = IF found = None THEN "route" ELSE "preflight",
                                      !.agent = found])
        /\ UNCHANGED <<active, queued, idle, exhausted, plan, retries, calls, modes>>

\* The router; only its choice reserves
Route(f) ==
    LET k == frame[f].task
        cap == IF k.repo THEN "sourcecraft" ELSE k.cap
        routable == {a \in Able(cap) : Routable(a, k.prio)}
    IN  /\ frame[f].at = "route"
        /\ status' = Marked(Able(cap))
        /\ \/ \E a \in Balanced(cap, k.prio, Economy(k, routable)) :
                Become(f, [frame[f] EXCEPT !.at = "reserve", !.agent = a,
                                           !.seen = Note(queued[a])])
           \/ /\ routable = {} /\ k.repo
              /\ Become(f, [frame[f] EXCEPT !.at = "preflight", !.agent = "orchestrator"])
           \/ /\ routable = {} /\ ~k.repo
              /\ End(f, "return", "failed")
        /\ UNCHANGED <<active, queued, idle, exhausted, plan, retries, calls, modes>>

Reserve(f) ==
    LET a == frame[f].agent
    IN  /\ frame[f].at = "reserve"
        /\ \E n \in Read(f, queued[a]) : queued' = [queued EXCEPT ![a] = n + 1]
        /\ Become(f, [frame[f] EXCEPT !.at = "preflight", !.seen = 0])
        /\ UNCHANGED <<status, active, idle, exhausted, plan, retries, calls, modes>>

-----------------------------------------------------------------------------
(* The provider's readiness *)

\* The agent that takes over is checked like the first one
AssignChecked(f, a) ==
    Become(f, [frame[f] EXCEPT !.at = IF a \notin Agents THEN "call"
                                      ELSE IF a = frame[f].agent THEN "take" ELSE "preflight",
                               !.agent = a,
                               !.seen = IF a = frame[f].agent THEN Note(queued[a]) ELSE 0])

\* A task for the orchestrator itself has no record: nothing is taken or released
Assign(f, a) ==
    Become(f, [frame[f] EXCEPT !.at = IF a \in Agents THEN "take" ELSE "call",
                               !.agent = a,
                               !.seen = IF a \in Agents THEN Note(queued[a]) ELSE 0])

\* check_provider: the local provider is taken to be ready, the others are asked
Preflight(f) ==
    LET a == frame[f].agent
        p == IF a \in Agents THEN Provider[a] ELSE frame[f].task.model
    IN  /\ frame[f].at = "preflight"
        /\ \/ Assign(f, a)
           \/ p # "local" /\ Goto(f, "fallback")
        /\ UNCHANGED <<pool, exhausted, plan, retries, calls, modes>>

\* The next provider with another agent that is ready takes the task; the reservation
\* of the first agent stays
Fallback(f) ==
    LET k == frame[f].task
        order == Preferred(k, exhausted)
        skip == {frame[f].agent}
        With(i) == Found(k.cap, <<order[i]>>, skip, k.prio)
        Seen(n) == UNION {Visited(k.cap, <<order[i]>>, skip, k.prio) : i \in 1..n}
        Unready(n) == \A i \in 1..n : With(i) # None => order[i] # "local"
    IN  /\ frame[f].at = "fallback"
        /\ \/ \E i \in DOMAIN order :
                /\ Unready(i - 1)
                /\ With(i) # None
                /\ status' = Marked(Seen(i))
                /\ Assign(f, With(i))
           \/ /\ Unready(Len(order))
              /\ status' = Marked(Seen(Len(order)))
              /\ End(f, "return", "failed")
        /\ UNCHANGED <<active, queued, idle, exhausted, plan, retries, calls, modes>>

-----------------------------------------------------------------------------
(* The run *)

\* A reservation is taken back, also one that was never made; then mark_busy
Take(f) ==
    LET a == frame[f].agent
    IN  /\ frame[f].at = "take"
        /\ \E n \in Read(f, queued[a]) : queued' = [queued EXCEPT ![a] = Less(n)]
        /\ status' = [status EXCEPT ![a] = "busy"]
        /\ Become(f, [frame[f] EXCEPT !.at = "busy", !.seen = Note(active[a])])
        /\ UNCHANGED <<active, idle, exhausted, plan, retries, calls, modes>>

MarkBusy(f) ==
    LET a == frame[f].agent
    IN  /\ frame[f].at = "busy"
        /\ \E n \in Read(f, active[a]) : active' = [active EXCEPT ![a] = n + 1]
        /\ idle' = [idle EXCEPT ![a] = "none"]
        /\ Become(f, [frame[f] EXCEPT !.at = "call", !.seen = 0])
        /\ UNCHANGED <<status, queued, exhausted, plan, retries, calls, modes>>

\* No finally clause: an exception leaves run_task at once
LeaveNormally(f) == IF frame[f].agent \in Agents /\ imported THEN "idle" ELSE "return"

\* The finally clause releases an agent that has a record
Leave(f) == IF frame[f].agent \in Agents THEN "idle" ELSE "return"

\* No executor, or a name that is not bound: agent.run is not reached
NoRun(f) ==
    /\ frame[f].at = "call"
    /\ \/ frame[f].agent \notin Executors /\ End(f, Leave(f), "failed")
       \/ frame[f].agent \in Executors /\ ~imported /\ End(f, Leave(f), "raised")
    /\ UNCHANGED <<pool, exhausted, plan, retries, calls, modes>>

\* The feedback makes a fix task of what is not done well, but none of a fix task and
\* no more than the limit for one plan
Settle(f, r) ==
    IF \/ r \in {"done", "raised"}
       \/ f[2] = 2 \/ frame[f].task.cap = "fix" \/ retries[f[1]] >= RetryLimit
    THEN End(f, Leave(f), Status(r)) /\ UNCHANGED retries
    ELSE /\ frame' = [frame EXCEPT ![f] = [frame[f] EXCEPT !.at = "fixing", !.result = Status(r)],
                                   ![<<f[1], 2>>] = Started(FixOf(frame[f].task))]
         /\ retries' = [retries EXCEPT ![f[1]] = @ + 1]

\* A spent quota exhausts the provider for a while, an answer makes it available again
Budget(p, r) ==
    [exhausted EXCEPT ![p] = r = "quota" \/ (@ /\ r \in {"failed", "timeout"})]

\* The agent's run and what follows from its result: after some failures another agent
\* runs the task, and is not marked busy
Run(f) ==
    LET k == frame[f].task
        p == Provider[frame[f].agent]
        skip == {frame[f].agent}
    IN  /\ frame[f].at = "call"
        /\ frame[f].agent \in Executors /\ imported
        /\ \E r \in Outcomes :
            LET ex == IF r = "raised" THEN exhausted ELSE Budget(p, r)
                again == r \in {"quota", "timeout"} \/ (r = "failed" /\ k.prio = "high")
                order == Preferred(k, ex)
            IN  /\ exhausted' = ex
                /\ status' = IF again THEN Marked(Visited(k.cap, order, skip, k.prio)) ELSE status
                /\ IF again /\ Found(k.cap, order, skip, k.prio) # None
                   THEN Goto(f, "again") /\ UNCHANGED retries
                   ELSE Settle(f, r)
        /\ UNCHANGED <<active, queued, idle, plan, calls, modes>>

RunAgain(f) ==
    /\ frame[f].at = "again"
    /\ \E r \in Outcomes : Settle(f, r)
    /\ UNCHANGED <<pool, exhausted, plan, calls, modes>>

Fixed(t) ==
    LET f == <<t, 1>>
        r == frame[<<t, 2>>].result
    IN  /\ frame[<<t, 2>>].at = "return"
        /\ frame' = [frame EXCEPT ![f] = [frame[f] EXCEPT !.at = Leave(f),
                                                   !.result = IF r = "failed" THEN @ ELSE r],
                                  ![<<t, 2>>] = NoFrame]
        /\ UNCHANGED <<pool, exhausted, plan, retries, calls, modes>>

-----------------------------------------------------------------------------
(* The finally clause: mark_idle, then scale_down_idle *)

MarkIdle(f) ==
    LET a == frame[f].agent
    IN  /\ frame[f].at = "idle"
        /\ status' = [status EXCEPT ![a] = "idle"]
        /\ Become(f, [frame[f] EXCEPT !.at = "idled", !.seen = Note(active[a])])
        /\ UNCHANGED <<active, queued, idle, exhausted, plan, retries, calls, modes>>

\* The count is set back instead of counted down
CountDownReset(f) ==
    LET a == frame[f].agent
    IN  /\ frame[f].at = "idled"
        /\ active' = [active EXCEPT ![a] = 0]
        /\ idle' = [idle EXCEPT ![a] = "set"]
        /\ Become(f, [NoFrame EXCEPT !.at = "scale", !.todo = Agents, !.result = frame[f].result])
        /\ UNCHANGED <<status, queued, exhausted, plan, retries, calls, modes>>

CountDown(f) ==
    LET a == frame[f].agent
    IN  /\ frame[f].at = "idled"
        /\ \E n \in Read(f, active[a]) : active' = [active EXCEPT ![a] = Less(n)]
        /\ idle' = [idle EXCEPT ![a] = "set"]
        /\ Become(f, [NoFrame EXCEPT !.at = "scale", !.todo = Agents, !.result = frame[f].result])
        /\ UNCHANGED <<status, queued, exhausted, plan, retries, calls, modes>>

IsFirst(a, S) == a \in S /\ \A b \in S : Position[a] <= Position[b]

Spare(a) ==
    /\ a \notin Critical
    /\ active[a] = 0 /\ queued[a] = 0
    /\ status[a] \in {"idle", "ready"}

\* disable_if_idle looks at an agent ...
ScaleDown(f) ==
    /\ frame[f].at = "scale"
    /\ \/ /\ frame[f].todo = {}
          /\ Goto(f, "return")
          /\ UNCHANGED idle
       \/ \E a \in frame[f].todo :
            /\ IsFirst(a, frame[f].todo)
            /\ IF Spare(a) /\ idle[a] = "long"
               THEN Goto(f, "disable")
               ELSE Become(f, [frame[f] EXCEPT !.todo = @ \ {a}])
            /\ idle' = [idle EXCEPT ![a] = IF Spare(a) /\ @ = "none" THEN "set" ELSE @]
    /\ UNCHANGED <<status, active, queued, exhausted, plan, retries, calls, modes>>

\* ... and disables it, whatever has become of it
Disable(f) ==
    /\ frame[f].at = "disable"
    /\ \E a \in frame[f].todo :
        /\ IsFirst(a, frame[f].todo)
        /\ status' = [status EXCEPT ![a] = "disabled"]
        /\ Become(f, [frame[f] EXCEPT !.at = "scale", !.todo = @ \ {a}])
    /\ UNCHANGED <<active, queued, idle, exhausted, plan, retries, calls, modes>>

-----------------------------------------------------------------------------
(* Time *)

IdleLong(a) ==
    /\ idle[a] = "set"
    /\ idle' = [idle EXCEPT ![a] = "long"]
    /\ UNCHANGED <<status, active, queued, exhausted, plan, retries, frame, calls, modes>>

Recovered(p) ==
    /\ exhausted[p]
    /\ exhausted' = [exhausted EXCEPT ![p] = FALSE]
    /\ UNCHANGED <<pool, plan, retries, frame, calls, modes>>

-----------------------------------------------------------------------------

\* The record of an agent that was just attached
Fresh == [status |-> "ready", active |-> 0, queued |-> 0, idle |-> "none"]

Init ==
    /\ status = [a \in Agents |-> Fresh.status]
    /\ active = [a \in Agents |-> Fresh.active]
    /\ queued = [a \in Agents |-> Fresh.queued]
    /\ idle = [a \in Agents |-> Fresh.idle]
    /\ exhausted = [p \in Providers |-> FALSE]
    /\ plan = [t \in Threads |-> <<>>]
    /\ retries = [t \in Threads |-> 0]
    /\ frame = [f \in Frames |-> NoFrame]
    /\ calls = 0
    /\ imported \in Imported
    /\ torn \in Tearing

FrameStep(f) ==
    \/ EnsureCapacity(f) \/ Prefer(f) \/ Route(f) \/ Reserve(f)
    \/ Preflight(f) \/ Fallback(f)
    \/ Take(f) \/ MarkBusy(f) \/ NoRun(f) \/ Run(f) \/ RunAgain(f)
    \/ MarkIdle(f) \/ CountDown(f) \/ ScaleDown(f) \/ Disable(f)

ThreadStep(t) ==
    RunNext(t) \/ Fixed(t) \/ \E l \in Levels : FrameStep(<<t, l>>)

\* Nobody submits: the kernel may rest
Rest ==
    /\ \A f \in Frames : frame[f].at = "off"
    /\ UNCHANGED vars

Next ==
    \/ \E t \in Threads : ThreadStep(t) \/ \E p \in Plans : Submit(t, p)
    \/ \E a \in Agents : IdleLong(a)
    \/ \E p \in Providers : Recovered(p)
    \/ Rest

Spec == Init /\ [][Next]_vars /\ \A t \in Threads : WF_vars(ThreadStep(t))

-----------------------------------------------------------------------------

\* Types.  A thread has one frame that runs; below a fix task it waits.
TypeOK ==
    /\ status \in [Agents -> Statuses]
    /\ active \in [Agents -> Nat]
    /\ queued \in [Agents -> Nat]
    /\ idle \in [Agents -> {"none", "set", "long"}]
    /\ plan \in [Threads -> Seq(Task)]
    /\ frame \in [Frames ->
            [at : Steps, task : Task \cup {None}, agent : Agents \cup {None, "orchestrator"},
             seen : Nat, todo : SUBSET Agents, result : {None, "done", "failed", "raised"}]]
    /\ retries \in [Threads -> Nat]
    /\ \A t \in Threads : frame[<<t, 1>>].at = "fixing" <=> frame[<<t, 2>>].at # "off"

\* Frames that have marked a busy and have not yet marked it idle
Holding == {"busy", "call", "again", "fixing", "idle"}
Holds(f, a) == frame[f].agent = a /\ frame[f].at \in Holding

\* Frames that are counted in active_tasks
Counting == {"call", "again", "fixing", "idle", "idled"}
Counted(a) == {f \in Frames : frame[f].agent = a /\ frame[f].at \in Counting}

\* An agent of this process is BUSY only while some task runs on it, whatever ended the
\* others: a result, an exception, a missing executor, a fallback to another agent
\* or a fix task inside the task.  No agent is left BUSY, which would shut it to all
\* but low priorities for good (mark_busy at orchestrator.py:678, finally at 845).
BusyMeansRunning ==
    \A a \in Agents \ Remote : status[a] = "busy" => \E f \in Frames : Holds(f, a)

\* As long as no counter update is torn, active_tasks of such an agent is the number of
\* tasks on it, although the agent of a task is replaced by a fallback on the way,
\* fix tasks nest, and max(0, ..) hides a release too many.
CountsAgree ==
    ~torn => \A a \in Agents \ Remote : active[a] = Cardinality(Counted(a))

\* The steps a frame may still take: along its path, then two for each agent that
\* scale_down_idle has not looked at
Path == <<"start", "prefer", "route", "reserve", "preflight", "fallback", "take", "busy",
          "call", "again", "fixing", "idle", "idled">>
Scaling == 2 * Cardinality(Agents) + 2
FrameLeft(f) ==
    CASE frame[f].at = "off" -> 0
      [] frame[f].at = "return" -> 1
      [] frame[f].at = "scale" -> 2 * Cardinality(frame[f].todo) + 2
      [] frame[f].at = "disable" -> 2 * Cardinality(frame[f].todo) + 1
      [] OTHER -> Scaling + 14 - CHOOSE i \in DOMAIN Path : Path[i] = frame[f].at

\* The steps until a call returns: a fix task and the rest of the plan are still to come
CallLeft(t) ==
    LET task == Scaling + 14
        before == frame[<<t, 1>>].at \in {"start", "prefer", "route", "reserve", "preflight",
                                          "fallback", "take", "busy", "call", "again"}
    IN  FrameLeft(<<t, 1>>) + FrameLeft(<<t, 2>>) + (IF before THEN task ELSE 0)
            + 2 * task * Len(plan[t])

\* What is submitted is answered after a bounded number of steps of its thread: no
\* preflight, fallback, exception or fix task leads back to where it came from.
CallsEnd ==
    [][\A t \in Threads :
        /\ frame[<<t, 1>>].at # "off"
        /\ \E l \in Levels : frame'[<<t, l>>] # frame[<<t, l>>]
        => CallLeft(t)' < CallLeft(t)]_vars

\* The steps in which a frame's agent works on its task
Running == {"call", "again"}

\* README.md:562 of ai_bridge: "busy - only low-priority tasks can be assigned".  An
\* agent that runs a task is given no other task but one of low priority.
BusyTakesOnlyLow ==
    [][\A f \in Frames, a \in Agents \ Remote :
        (frame'[f].agent = a /\ frame[f].agent # a /\ frame'[f].task.prio # "low")
            => \A g \in Frames : frame[g].agent = a => frame[g].at \notin Running]_vars

=============================================================================
