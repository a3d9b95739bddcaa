--------------------------- MODULE AgentPoolProofs ---------------------------
(***************************************************************************)
(* Proofs about AgentPool: its types, that no agent is left BUSY, that the *)
(* counts of tasks agree with the tasks, and that every call ends.  They   *)
(* hold for every set of agents, threads and plans.  Where a task is, is   *)
(* where its frame is: the invariants relate what is recorded of an agent  *)
(* to the frames that have it, and each action moves one frame, or two     *)
(* where a fix task is nested.                                             *)
(***************************************************************************)
EXTENDS AgentPool, FiniteSetTheorems, WellFoundedInduction, TLAPS

\* A set of numbers that is not empty has a least one: the intervals up to its members are
\* finite sets, which inclusion orders well
LEMMA Least ==
    ASSUME NEW S \in SUBSET Nat, S # {}
    PROVE  \E m \in S : \A n \in S : m <= n
  <1> DEFINE below == {0..n : n \in S}
  <1>1. below \subseteq FiniteSubsetsOf(Nat) /\ below # {}
    <2>1. ASSUME NEW n \in S PROVE 0..n \in FiniteSubsetsOf(Nat)
      <3>1. IsFiniteSet(0..n)
        BY FS_Interval
      <3>2. 0..n \in SUBSET Nat
        OBVIOUS
      <3> QED BY <3>1, <3>2 DEF FiniteSubsetsOf
    <2> QED BY <2>1
  <1>2. PICK x \in below : \A y \in below : <<y, x>> \notin StrictSubsetOrdering(Nat)
    BY <1>1, FS_StrictSubsetOrderingWellFounded, WFMin
  <1>3. PICK m \in S : x = 0..m
    OBVIOUS
  <1>4. ASSUME NEW n \in S, n < m PROVE FALSE
    <2>1. <<0..n, 0..m>> \notin StrictSubsetOrdering(Nat)
      BY <1>2, <1>3
    <2>2. 0..n \subseteq 0..m /\ m \in 0..m /\ m \notin 0..n /\ 0..m \subseteq Nat
      BY <1>4
    <2> QED BY <2>1, <2>2 DEF StrictSubsetOrdering
  <1> QED BY <1>4

\* The search by a preference ends with an agent or with none
LEMMA FoundType ==
    ASSUME NEW cap, NEW order, NEW n \in Nat, DOMAIN order = 1..n, NEW skip, NEW prio
    PROVE  Found(cap, order, skip, prio) \in Agents \cup {None}
  <1> DEFINE fit == {a \in Listed(cap, order, skip) \cap Executors : Routable(a, prio)}
             ranks == {i \in DOMAIN order : \E a \in fit : order[i] = Provider[a]}
  <1> SUFFICES ASSUME fit # {} PROVE \E a \in fit : \A b \in fit \ {a} : Precedes(order, a, b)
    BY PoolAssumption DEF Found
  <1>1. fit \subseteq Agents /\ \A a \in fit : \E i \in DOMAIN order : order[i] = Provider[a]
    BY DEF Listed, Able
  <1>2. ranks \in SUBSET Nat /\ ranks # {}
    BY <1>1
  <1>3. PICK i \in ranks : \A j \in ranks : i <= j
    BY <1>2, Least
  <1> DEFINE there == {Position[a] : a \in {b \in fit : Provider[b] = order[i]}}
  <1>4. there \in SUBSET Nat /\ there # {}
    <2>1. PICK a \in fit : Provider[a] = order[i]
      BY <1>3
    <2>2. Position[a] \in there
      BY <2>1
    <2>3. \A b \in fit : Position[b] \in Nat
      BY <1>1, PoolAssumption
    <2> QED BY <2>2, <2>3
  <1> HIDE DEF there
  <1>5. PICK p \in there : \A q \in there : p <= q
    BY <1>4, Least
  <1>6. PICK a \in fit : Provider[a] = order[i] /\ p = Position[a]
    BY <1>5 DEF there
  <1>7. ASSUME NEW b \in fit \ {a} PROVE Precedes(order, a, b)
    <2>1. \A j \in 1..i : order[j] = Provider[b] => j \in ranks
      BY <1>2, <1>3
    <2>2. \A j \in 1..i : order[j] = Provider[b] => j = i
      BY <2>1, <1>2, <1>3
    <2>3. Provider[b] = order[i] => Position[a] < Position[b]
      <3>1. Position[a] \in Nat /\ Position[b] \in Nat /\ Position[a] # Position[b]
        BY <1>1, <1>7, PoolAssumption
      <3>2. Provider[b] = order[i] => Position[a] <= Position[b]
        BY <1>5, <1>6, <1>7 DEF there
      <3> QED BY <3>1, <3>2
    <2> QED BY <1>3, <1>6, <2>2, <2>3 DEF Precedes
  <1> QED BY <1>7

\* A preference is an order of providers
LEMMA PreferredType ==
    ASSUME NEW k \in Task, NEW ex
    PROVE  \E n \in Nat : DOMAIN Preferred(k, ex) = 1..n
  <1>1. k.order \in Seq(Providers)
    BY DEF Task
  <1>2. DOMAIN k.order = 1..Len(k.order) /\ Len(k.order) \in Nat
    BY <1>1
  <1>3. DOMAIN <<"antigravity", "mistral", "local", "openai">> = 1..4
    OBVIOUS
  <1> QED BY <1>2, <1>3 DEF Preferred

\* What the next agent is, by a preference
LEMMA FoundByPreference ==
    ASSUME NEW k \in Task, NEW cap, NEW ex, NEW skip, NEW prio
    PROVE  Found(cap, Preferred(k, ex), skip, prio) \in Agents \cup {None}
  BY PreferredType, FoundType

\* The search for the agents of one provider
LEMMA FoundByProvider ==
    ASSUME NEW cap, NEW p, NEW skip, NEW prio
    PROVE  Found(cap, <<p>>, skip, prio) \in Agents \cup {None}
  <1>1. DOMAIN <<p>> = 1..1
    OBVIOUS
  <1> QED BY <1>1, FoundType

\* What the balancer's checks mark is a status
LEMMA MarkedType ==
    ASSUME status \in [Agents -> Statuses], NEW seen
    PROVE  /\ Marked(seen) \in [Agents -> Statuses]
           /\ \A a \in Agents : Marked(seen)[a] \in {status[a], "overloaded"}
  BY DEF Marked, Statuses

-----------------------------------------------------------------------------

\* A frame of the pool, as TypeOK has it
Frame ==
    [at : Steps, task : Task \cup {None}, agent : Agents \cup {None, "orchestrator"},
     seen : Nat, todo : SUBSET Agents, result : {None, "done", "failed", "raised"}]

\* A frame that counts an agent has one, and one that runs has a task
FrameOK(r) ==
    /\ r.at \in {"reserve", "take", "busy", "idle", "idled"} => r.agent \in Agents
    /\ r.at \notin {"off", "scale", "disable", "return"} => r.task \in Task

\* Where a call runs there is a task left of its plan
Planned == \A t \in Threads : frame[<<t, 1>>].at # "off" => plan[t] # <<>>

PoolInv == TypeOK /\ (\A f \in Frames : FrameOK(frame[f])) /\ Planned /\ torn \in BOOLEAN

\* The frames have their type
LEMMA FrameType == TypeOK => frame \in [Frames -> Frame]
  BY DEF TypeOK, Frame

\* A frame of a thread is at one of the levels
LEMMA TheFrames ==
    /\ \A t \in Threads : <<t, 1>> \in Frames /\ <<t, 2>> \in Frames
    /\ \A f \in Frames : f[1] \in Threads /\ (f = <<f[1], 1>> \/ f = <<f[1], 2>>)
    /\ \A t, u : <<t, 1>> # <<u, 2>> /\ (<<t, 1>> = <<u, 1>> => t = u)
  BY DEF Frames, Levels

\* The invariant holds at the beginning
LEMMA PoolInit == Init => PoolInv
  <1> SUFFICES ASSUME Init PROVE PoolInv
    OBVIOUS
  <1>1. NoFrame \in Frame /\ FrameOK(NoFrame) /\ NoFrame.at = "off"
    BY DEF NoFrame, Frame, FrameOK, Steps
  <1>2. \A t \in Threads : plan[t] \in Seq(Task)
    BY DEF Init
  <1>3. torn \in BOOLEAN
    BY PoolAssumption DEF Init
  <1>4. status \in [Agents -> Statuses] /\ active \in [Agents -> Nat]
        /\ queued \in [Agents -> Nat]
        /\ idle \in [Agents -> {"none", "set", "long"}] /\ retries \in [Threads -> Nat]
    BY DEF Init, Fresh, Statuses
  <1>5. plan \in [Threads -> Seq(Task)] /\ frame \in [Frames -> Frame]
        /\ \A f \in Frames : frame[f] = NoFrame
    BY <1>1, <1>2 DEF Init
  <1> QED BY <1>1, <1>3, <1>4, <1>5, TheFrames DEF PoolInv, TypeOK, Frame, Planned

\* The records of agents and threads, as TypeOK has them
Records ==
    /\ status \in [Agents -> Statuses]
    /\ active \in [Agents -> Nat]
    /\ queued \in [Agents -> Nat]
    /\ idle \in [Agents -> {"none", "set", "long"}]
    /\ plan \in [Threads -> Seq(Task)]
    /\ retries \in [Threads -> Nat]

\* One frame changes, the others stay
LEMMA BecomeFrames ==
    ASSUME PoolInv, NEW f \in Frames, NEW new, Become(f, new)
    PROVE  /\ frame'[f] = new /\ \A g \in Frames : g # f => frame'[g] = frame[g]
           /\ new \in Frame => frame' \in [Frames -> Frame]
  BY FrameType DEF PoolInv, Become

\* A frame goes on by itself: it neither starts a fix task nor ends one
LEMMA BecomeInv ==
    ASSUME PoolInv, Records', UNCHANGED <<plan, torn>>, NEW f \in Frames, NEW new \in Frame,
           Become(f, new), FrameOK(new),
           new.at = "fixing" <=> frame[f].at = "fixing",
           new.at = "off" <=> frame[f].at = "off"
    PROVE  PoolInv'
  <1>1. frame' \in [Frames -> Frame] /\ frame'[f] = new
        /\ \A g \in Frames : g # f => frame'[g] = frame[g]
    BY BecomeFrames
  <1>2. \A g \in Frames : FrameOK(frame'[g])
    BY <1>1 DEF PoolInv
  <1>3. \A t \in Threads : frame'[<<t, 1>>].at = "fixing" <=> frame'[<<t, 2>>].at # "off"
    BY <1>1, TheFrames DEF PoolInv, TypeOK
  <1>4. Planned'
    BY <1>1, TheFrames DEF PoolInv, Planned
  <1> QED BY <1>1, <1>2, <1>3, <1>4 DEF PoolInv, TypeOK, Records, Frame

\* A call is submitted
LEMMA SubmitInv ==
    ASSUME PoolInv, NEW t \in Threads, NEW p \in Plans, Submit(t, p)
    PROVE  PoolInv'
  <1>1. p \in Seq(Task) /\ p # <<>> /\ Head(p) \in Task
    BY PlanAssumption
  <1>2. PICK r \in [Remote -> Reports] : CheckAll(r)
    BY DEF Submit
  <1>3. Records'
    <2>1. \A a \in Remote : /\ r[a].status \in Statuses
                             /\ r[a].active \in Nat /\ r[a].queued \in Nat
      BY ReportsAssumption
    <2>2. \A a \in Agents : /\ Updated(a, r).status \in Statuses
                             /\ Updated(a, r).active \in Nat /\ Updated(a, r).queued \in Nat
      BY <2>1 DEF Updated, PoolInv, TypeOK
    <2> QED BY <1>1, <1>2, <2>2 DEF CheckAll, Submit, Records, PoolInv, TypeOK
  <1> DEFINE f == <<t, 1>>
             new == Started(Head(p))
  <1>4. new \in Frame /\ FrameOK(new) /\ new.at = "start"
    BY <1>1 DEF Started, NoFrame, Frame, Steps, FrameOK
  <1>5. f \in Frames /\ frame[f].at = "off" /\ Become(f, new)
    BY TheFrames DEF Submit
  <1> HIDE DEF f, new
  <1>6. frame' \in [Frames -> Frame] /\ frame'[f] = new
        /\ \A g \in Frames : g # f => frame'[g] = frame[g]
    BY <1>4, <1>5, BecomeFrames
  <1>7. \A u \in Threads : frame'[<<u, 1>>].at = "fixing" <=> frame'[<<u, 2>>].at # "off"
    <2> SUFFICES ASSUME NEW u \in Threads
                 PROVE  frame'[<<u, 1>>].at = "fixing" <=> frame'[<<u, 2>>].at # "off"
      OBVIOUS
    <2>1. frame[<<u, 1>>].at = "fixing" <=> frame[<<u, 2>>].at # "off"
      BY DEF PoolInv, TypeOK
    <2>2. <<u, 2>> \in Frames /\ <<u, 2>> # f /\ frame'[<<u, 2>>] = frame[<<u, 2>>]
      BY <1>6, TheFrames DEF f
    <2>3. <<u, 1>> \in Frames /\ (<<u, 1>> = f \/ frame'[<<u, 1>>] = frame[<<u, 1>>])
      BY <1>6, TheFrames
    <2> QED BY <1>4, <1>5, <1>6, <2>1, <2>2, <2>3
  <1>8. Planned'
    <2>1. plan' = [plan EXCEPT ![t] = p] /\ plan \in [Threads -> Seq(Task)]
      BY DEF Submit, PoolInv, TypeOK
    <2>2. \A u \in Threads : u # t => frame'[<<u, 1>>] = frame[<<u, 1>>]
      BY <1>6, TheFrames DEF f
    <2> QED BY <1>1, <2>1, <2>2 DEF PoolInv, Planned
  <1> QED BY <1>3, <1>4, <1>6, <1>7, <1>8 DEF Submit, modes, PoolInv, TypeOK, Records, Frame

\* An agent is chosen, by preference or by the router
LEMMA ChoiceInv ==
    ASSUME PoolInv, NEW f \in Frames,
           EnsureCapacity(f) \/ Prefer(f) \/ Route(f) \/ Reserve(f)
    PROVE  PoolInv'
  <1>1. frame[f] \in Frame /\ FrameOK(frame[f])
    BY FrameType DEF PoolInv
  <1>2. CASE EnsureCapacity(f)
    <2>1. Records' /\ UNCHANGED <<plan, torn>> /\ frame[f].at = "start"
          /\ Become(f, [frame[f] EXCEPT !.at = "prefer"])
      BY <1>2 DEF EnsureCapacity, Goto, modes, PoolInv, TypeOK, Records, Statuses
    <2> QED BY <1>1, <2>1, BecomeInv DEF Frame, FrameOK, Steps
  <1>3. CASE Prefer(f)
    <2> DEFINE k == frame[f].task
               found == Found(k.cap, Preferred(k, exhausted), {}, k.prio)
               new == [frame[f] EXCEPT !.at = IF found = None THEN "route" ELSE "preflight",
                                       !.agent = found]
    <2>1. found \in Agents \cup {None}
      BY <1>1, <1>3, FoundByPreference DEF Prefer, FrameOK
    <2>2. Records' /\ UNCHANGED <<plan, torn>> /\ frame[f].at = "prefer" /\ Become(f, new)
      BY <1>3, MarkedType DEF Prefer, modes, PoolInv, TypeOK, Records
    <2>3. new \in Frame /\ FrameOK(new) /\ new.at \in {"route", "preflight"}
      <3> HIDE DEF found
      <3> QED BY <1>1, <2>1, <2>2 DEF Frame, FrameOK, Steps
    <2> QED BY <2>2, <2>3, BecomeInv
  <1>4. CASE Route(f)
    <2>1. Records' /\ UNCHANGED <<plan, torn>> /\ frame[f].at = "route"
      BY <1>4, MarkedType DEF Route, modes, PoolInv, TypeOK, Records
    <2>2. \A k, candidates : Economy(k, candidates) \subseteq candidates
      BY DEF Economy
    <2>3. CASE \E a \in Agents : Become(f, [frame[f] EXCEPT !.at = "reserve", !.agent = a,
                                                            !.seen = Note(queued[a])])
      <3>1. PICK a \in Agents : Become(f, [frame[f] EXCEPT !.at = "reserve", !.agent = a,
                                                           !.seen = Note(queued[a])])
        BY <2>3
      <3>2. Note(queued[a]) \in Nat
        BY DEF Note, PoolInv, TypeOK
      <3> QED BY <1>1, <2>1, <3>1, <3>2, BecomeInv DEF Frame, FrameOK, Steps
    <2>4. CASE Become(f, [frame[f] EXCEPT !.at = "preflight", !.agent = "orchestrator"])
      BY <1>1, <2>1, <2>4, BecomeInv DEF Frame, FrameOK, Steps
    <2>5. CASE End(f, "return", "failed")
      BY <1>1, <2>1, <2>5, BecomeInv DEF End, Frame, FrameOK, Steps
    <2> QED BY <1>4, <2>2, <2>3, <2>4, <2>5 DEF Route, Balanced, Able
  <1>5. CASE Reserve(f)
    <2>1. frame[f].agent \in Agents /\ frame[f].seen \in Nat
      BY <1>1, <1>5 DEF Reserve, Frame, FrameOK
    <2>2. Records' /\ UNCHANGED <<plan, torn>> /\ frame[f].at = "reserve"
          /\ Become(f, [frame[f] EXCEPT !.at = "preflight", !.seen = 0])
      BY <1>5, <2>1 DEF Reserve, Read, modes, PoolInv, TypeOK, Records
    <2> QED BY <1>1, <2>2, BecomeInv DEF Frame, FrameOK, Steps
  <1> QED BY <1>2, <1>3, <1>4, <1>5

\* A check before the task, and the fallback to another agent
LEMMA PreflightInv ==
    ASSUME PoolInv, NEW f \in Frames, Preflight(f) \/ Fallback(f)
    PROVE  PoolInv'
  <1>1. frame[f] \in Frame /\ FrameOK(frame[f]) /\ frame[f].at \in {"preflight", "fallback"}
        /\ UNCHANGED <<plan, torn>>
    BY FrameType DEF PoolInv, Preflight, Fallback, modes
  <1>2. Records'
    BY MarkedType DEF Preflight, Fallback, pool, PoolInv, TypeOK, Records
  <1>3. ASSUME NEW a \in Agents \cup {None, "orchestrator"}, Assign(f, a) PROVE PoolInv'
    <2> DEFINE new == [frame[f] EXCEPT !.at = IF a \in Agents THEN "take" ELSE "call",
                                       !.agent = a,
                                       !.seen = IF a \in Agents THEN Note(queued[a]) ELSE 0]
    <2>1. a \in Agents => Note(queued[a]) \in Nat
      BY DEF Note, PoolInv, TypeOK
    <2>2. new \in Frame /\ FrameOK(new) /\ new.at \in {"take", "call"}
      BY <1>1, <1>3, <2>1 DEF Frame, FrameOK, Steps
    <2>3. Become(f, new)
      BY <1>3 DEF Assign
    <2> QED BY <1>1, <1>2, <2>2, <2>3, BecomeInv
  <1>4. ASSUME Goto(f, "fallback") PROVE PoolInv'
    BY <1>1, <1>2, <1>4, BecomeInv DEF Goto, Frame, FrameOK, Steps
  <1>5. ASSUME End(f, "return", "failed") PROVE PoolInv'
    BY <1>1, <1>2, <1>5, BecomeInv DEF End, Frame, FrameOK, Steps
  <1>6. ASSUME Preflight(f) PROVE PoolInv'
    BY <1>1, <1>3, <1>4, <1>6 DEF Preflight, Frame
  <1>7. ASSUME Fallback(f) PROVE PoolInv'
    BY <1>3, <1>5, <1>7, FoundByProvider DEF Fallback
  <1> QED BY <1>6, <1>7

\* The agent is taken and marked, and let go after the task
LEMMA TakeInv ==
    ASSUME PoolInv, NEW f \in Frames,
           Take(f) \/ MarkBusy(f) \/ MarkIdle(f) \/ CountDown(f)
    PROVE  PoolInv'
  <1>1. frame[f] \in Frame /\ FrameOK(frame[f]) /\ frame[f].agent \in Agents
        /\ frame[f].seen \in Nat
        /\ frame[f].at \in {"take", "busy", "idle", "idled"} /\ UNCHANGED <<plan, torn>>
    BY FrameType DEF PoolInv, Take, MarkBusy, MarkIdle, CountDown, modes, FrameOK, Frame
  <1>2. Note(active[frame[f].agent]) \in Nat
    BY <1>1 DEF Note, PoolInv, TypeOK
  <1>3. Records'
    <2>1. CASE Take(f)
      BY <1>1, <2>1 DEF Take, Read, Less, PoolInv, TypeOK, Records, Statuses
    <2>2. CASE MarkBusy(f)
      BY <1>1, <2>2 DEF MarkBusy, Read, PoolInv, TypeOK, Records
    <2>3. CASE MarkIdle(f)
      BY <1>1, <2>3 DEF MarkIdle, PoolInv, TypeOK, Records, Statuses
    <2>4. CASE CountDown(f)
      BY <1>1, <2>4 DEF CountDown, Read, Less, PoolInv, TypeOK, Records
    <2> QED BY <2>1, <2>2, <2>3, <2>4
  <1>4. CASE Take(f)
    BY <1>1, <1>2, <1>3, <1>4, BecomeInv DEF Take, Frame, FrameOK, Steps
  <1>5. CASE MarkBusy(f)
    BY <1>1, <1>3, <1>5, BecomeInv DEF MarkBusy, Frame, FrameOK, Steps
  <1>6. CASE MarkIdle(f)
    BY <1>1, <1>2, <1>3, <1>6, BecomeInv DEF MarkIdle, Frame, FrameOK, Steps
  <1>7. CASE CountDown(f)
    BY <1>1, <1>3, <1>7, BecomeInv DEF CountDown, NoFrame, Frame, FrameOK, Steps
  <1> QED BY <1>4, <1>5, <1>6, <1>7

\* The way back: agents are scaled down
LEMMA ScaleInv ==
    ASSUME PoolInv, NEW f \in Frames, ScaleDown(f) \/ Disable(f)
    PROVE  PoolInv'
  <1>1. frame[f] \in Frame /\ FrameOK(frame[f]) /\ frame[f].at \in {"scale", "disable"}
        /\ UNCHANGED <<plan, torn>>
    BY FrameType DEF PoolInv, ScaleDown, Disable, modes
  <1>2. Records'
    BY DEF ScaleDown, Disable, PoolInv, TypeOK, Records, Statuses
  <1>3. ASSUME NEW a, Become(f, [frame[f] EXCEPT !.todo = @ \ {a}]) PROVE PoolInv'
    BY <1>1, <1>2, <1>3, BecomeInv DEF Frame, FrameOK, Steps
  <1>4. ASSUME NEW a, Become(f, [frame[f] EXCEPT !.at = "scale", !.todo = @ \ {a}]) PROVE PoolInv'
    BY <1>1, <1>2, <1>4, BecomeInv DEF Frame, FrameOK, Steps
  <1>5. ASSUME NEW step \in {"return", "disable"}, Goto(f, step) PROVE PoolInv'
    BY <1>1, <1>2, <1>5, BecomeInv DEF Goto, Frame, FrameOK, Steps
  <1> QED BY <1>3, <1>4, <1>5 DEF ScaleDown, Disable

\* A frame starts a fix task, or ends one
LEMMA NestInv ==
    ASSUME PoolInv, Records', UNCHANGED <<plan, torn>>,
           NEW t \in Threads, frame[<<t, 1>>].at # "off",
           NEW new \in Frame, NEW inner \in Frame, FrameOK(new), FrameOK(inner),
           new.at = "fixing" <=> inner.at # "off",
           frame' = [frame EXCEPT ![<<t, 1>>] = new, ![<<t, 2>>] = inner]
    PROVE  PoolInv'
  <1>1. /\ frame' \in [Frames -> Frame]
        /\ frame'[<<t, 1>>] = new /\ frame'[<<t, 2>>] = inner
        /\ \A g \in Frames : g \notin {<<t, 1>>, <<t, 2>>} => frame'[g] = frame[g]
    BY FrameType, TheFrames DEF PoolInv
  <1>2. \A g \in Frames : FrameOK(frame'[g])
    BY <1>1 DEF PoolInv
  <1>3. \A u \in Threads : frame'[<<u, 1>>].at = "fixing" <=> frame'[<<u, 2>>].at # "off"
    <2> SUFFICES ASSUME NEW u \in Threads
                 PROVE  frame'[<<u, 1>>].at = "fixing" <=> frame'[<<u, 2>>].at # "off"
      OBVIOUS
    <2>1. frame[<<u, 1>>].at = "fixing" <=> frame[<<u, 2>>].at # "off"
      BY DEF PoolInv, TypeOK
    <2>2. CASE u = t
      BY <1>1, <2>2
    <2>3. CASE u # t
      BY <1>1, <2>1, <2>3, TheFrames
    <2> QED BY <2>2, <2>3
  <1>4. Planned'
    <2>1. plan[t] # <<>>
      BY DEF PoolInv, Planned
    <2>2. \A u \in Threads : u # t => frame'[<<u, 1>>] = frame[<<u, 1>>]
      BY <1>1, TheFrames
    <2> QED BY <2>1, <2>2 DEF PoolInv, Planned
  <1> QED BY <1>1, <1>2, <1>3, <1>4 DEF PoolInv, TypeOK, Records, Frame

\* What a fix task is
LEMMA FixType ==
    ASSUME NEW k \in Task
    PROVE  Started(FixOf(k)) \in Frame /\ FrameOK(Started(FixOf(k)))
           /\ Started(FixOf(k)).at = "start"
  <1>1. FixOf(k) \in Task
    BY PoolAssumption, PlanAssumption DEF FixOf, Task
  <1> QED BY <1>1 DEF Started, NoFrame, Frame, FrameOK, Steps

\* A task ends, with a fix task or without
LEMMA SettleInv ==
    ASSUME PoolInv, NEW f \in Frames, frame[f].at \in {"call", "again"},
           NEW r \in Outcomes, Settle(f, r),
           status' \in [Agents -> Statuses], UNCHANGED <<active, queued, idle, plan, torn>>
    PROVE  PoolInv'
  <1>1. frame[f] \in Frame /\ FrameOK(frame[f]) /\ frame[f].task \in Task
    BY FrameType DEF PoolInv, FrameOK
  <1>2. Status(r) \in {"done", "failed", "raised"}
    BY DEF Status, Outcomes
  <1>3. Records'
    <2>1. retries' \in [Threads -> Nat]
      <3>1. CASE UNCHANGED retries
        BY <3>1 DEF PoolInv, TypeOK
      <3>2. CASE retries' = [retries EXCEPT ![f[1]] = @ + 1]
        BY <3>2, TheFrames DEF PoolInv, TypeOK
      <3> QED BY <3>1, <3>2 DEF Settle
    <2> QED BY <2>1 DEF PoolInv, TypeOK, Records
  <1>4. CASE End(f, Leave(f), Status(r))
    <2> DEFINE new == [frame[f] EXCEPT !.at = Leave(f), !.result = Status(r)]
    <2>1. new \in Frame /\ FrameOK(new) /\ new.at \in {"idle", "return"}
      BY <1>1, <1>2 DEF Leave, Frame, FrameOK, Steps
    <2>2. Become(f, new)
      BY <1>4 DEF End
    <2> QED BY <1>1, <1>3, <2>1, <2>2, BecomeInv
  <1>5. CASE ~End(f, Leave(f), Status(r))
    <2> DEFINE new == [frame[f] EXCEPT !.at = "fixing", !.result = Status(r)]
               inner == Started(FixOf(frame[f].task))
    <2>1. f[2] # 2 /\ frame' = [frame EXCEPT ![f] = new, ![<<f[1], 2>>] = inner]
      BY <1>5 DEF Settle
    <2>2. f[1] \in Threads /\ f = <<f[1], 1>>
      BY <2>1, TheFrames
    <2>3. new \in Frame /\ FrameOK(new) /\ new.at = "fixing"
      BY <1>1, <1>2 DEF Frame, FrameOK, Steps
    <2>4. inner \in Frame /\ FrameOK(inner) /\ inner.at = "start"
      BY <1>1, FixType
    <2> HIDE DEF new, inner
    <2> QED BY <1>3, <2>1, <2>2, <2>3, <2>4, NestInv
  <1> QED BY <1>4, <1>5

\* What becomes of the frames by it
LEMMA SettleFrames ==
    ASSUME PoolInv, NEW f \in Frames, frame[f].at \in {"call", "again"}, NEW r, Settle(f, r)
    PROVE  /\ frame'[f].agent = frame[f].agent /\ frame'[f].at \in {Leave(f), "fixing"}
           /\ \A g \in Frames : \/ g = f \/ frame'[g] = frame[g]
                                \/ frame[g].at = "off" /\ frame'[g].at = "start"
  <1>1. frame[f] \in Frame /\ frame[f].task \in Task
    BY FrameType DEF PoolInv, FrameOK
  <1>2. CASE End(f, Leave(f), Status(r))
    <2> DEFINE new == [frame[f] EXCEPT !.at = Leave(f), !.result = Status(r)]
    <2>1. new.at = Leave(f) /\ new.agent = frame[f].agent
      BY <1>1 DEF Frame
    <2>2. Become(f, new)
      BY <1>2 DEF End
    <2> HIDE DEF new
    <2> QED BY <2>1, <2>2, BecomeFrames
  <1>3. CASE ~End(f, Leave(f), Status(r))
    <2> DEFINE new == [frame[f] EXCEPT !.at = "fixing", !.result = Status(r)]
               g == <<f[1], 2>>
               inner == Started(FixOf(frame[f].task))
    <2>1. frame' = [frame EXCEPT ![f] = new, ![g] = inner] /\ f[2] # 2
      BY <1>3 DEF Settle
    <2>2. f[1] \in Threads /\ f = <<f[1], 1>> /\ g \in Frames /\ g # f /\ frame[g].at = "off"
      BY <2>1, TheFrames DEF PoolInv, TypeOK
    <2>3. new.at = "fixing" /\ new.agent = frame[f].agent
      BY <1>1 DEF Frame
    <2>4. inner.at = "start"
      BY <1>1, FixType
    <2> HIDE DEF new, inner, g
    <2>5. frame'[f] = new /\ frame'[g] = inner /\ \A h \in Frames : h \notin {f, g}
          => frame'[h] = frame[h]
      BY <2>1, <2>2, FrameType DEF PoolInv
    <2> QED BY <2>2, <2>3, <2>4, <2>5
  <1> QED BY <1>2, <1>3

\* A task runs, or cannot
LEMMA RunInv ==
    ASSUME PoolInv, NEW f \in Frames, NoRun(f) \/ Run(f) \/ RunAgain(f)
    PROVE  PoolInv'
  <1>1. frame[f] \in Frame /\ FrameOK(frame[f]) /\ UNCHANGED <<plan, torn>>
    BY FrameType DEF PoolInv, NoRun, Run, RunAgain, modes
  <1>2. CASE NoRun(f)
    <2>1. Records'
      BY <1>2 DEF NoRun, pool, PoolInv, TypeOK, Records
    <2>2. PICK r \in {"failed", "raised"} : End(f, Leave(f), r) /\ frame[f].at = "call"
      BY <1>2 DEF NoRun
    <2> DEFINE new == [frame[f] EXCEPT !.at = Leave(f), !.result = r]
    <2>3. new \in Frame /\ FrameOK(new) /\ new.at \in {"idle", "return"}
      BY <1>1, <2>2 DEF Leave, Frame, FrameOK, Steps
    <2> QED BY <1>1, <2>1, <2>2, <2>3, BecomeInv DEF End
  <1>3. CASE Run(f)
    <2>1. frame[f].at = "call" /\ UNCHANGED <<active, queued, idle, plan, torn>>
          /\ status' \in [Agents -> Statuses]
      BY <1>3, MarkedType DEF Run, modes, PoolInv, TypeOK
    <2>2. ASSUME Goto(f, "again"), UNCHANGED retries PROVE PoolInv'
      <3>1. Records'
        BY <2>1, <2>2 DEF PoolInv, TypeOK, Records
      <3> QED BY <1>1, <2>1, <2>2, <3>1, BecomeInv DEF Goto, Frame, FrameOK, Steps
    <2>3. ASSUME NEW r \in Outcomes, Settle(f, r) PROVE PoolInv'
      BY <2>1, <2>3, SettleInv
    <2> QED BY <1>3, <2>2, <2>3 DEF Run
  <1>4. CASE RunAgain(f)
    <2>1. frame[f].at = "again" /\ UNCHANGED <<active, queued, idle, plan, torn>>
          /\ status' \in [Agents -> Statuses]
      BY <1>4 DEF RunAgain, pool, modes, PoolInv, TypeOK
    <2>2. PICK r \in Outcomes : Settle(f, r)
      BY <1>4 DEF RunAgain
    <2> QED BY <2>1, <2>2, SettleInv
  <1> QED BY <1>2, <1>3, <1>4

\* A fix task has ended
LEMMA FixedInv ==
    ASSUME PoolInv, NEW t \in Threads, Fixed(t)
    PROVE  PoolInv'
  <1> DEFINE f == <<t, 1>>
             r == frame[<<t, 2>>].result
             new == [frame[f] EXCEPT !.at = Leave(f), !.result = IF r = "failed" THEN @ ELSE r]
  <1>1. f \in Frames /\ frame[f] \in Frame /\ frame[<<t, 2>>] \in Frame
        /\ frame[<<t, 2>>].at = "return" /\ frame[f].at = "fixing"
    BY FrameType, TheFrames DEF PoolInv, TypeOK, Fixed
  <1>2. new \in Frame /\ FrameOK(new) /\ new.at \in {"idle", "return"}
    <2>1. FrameOK(frame[f])
      BY <1>1 DEF PoolInv
    <2> QED BY <1>1, <2>1 DEF Leave, Frame, FrameOK, Steps
  <1>3. NoFrame \in Frame /\ FrameOK(NoFrame) /\ NoFrame.at = "off"
    BY DEF NoFrame, Frame, FrameOK, Steps
  <1>4. Records' /\ UNCHANGED <<plan, torn>>
    BY DEF Fixed, pool, modes, PoolInv, TypeOK, Records
  <1>5. frame' = [frame EXCEPT ![f] = new, ![<<t, 2>>] = NoFrame]
    BY DEF Fixed
  <1> HIDE DEF new
  <1> QED BY <1>1, <1>2, <1>3, <1>4, <1>5, NestInv

\* The next task of a plan
LEMMA RunNextInv ==
    ASSUME PoolInv, NEW t \in Threads, RunNext(t)
    PROVE  PoolInv'
  <1> DEFINE f == <<t, 1>>
             rest == IF frame[f].result = "done" THEN Tail(plan[t]) ELSE <<>>
             new == IF rest = <<>> THEN NoFrame ELSE Started(Head(rest))
  <1>1. f \in Frames /\ frame[f].at = "return" /\ plan[t] \in Seq(Task) /\ plan[t] # <<>>
    BY TheFrames DEF RunNext, PoolInv, TypeOK, Planned
  <1>2. rest \in Seq(Task) /\ (rest # <<>> => Head(rest) \in Task)
    BY <1>1
  <1>3. new \in Frame /\ FrameOK(new)
        /\ (rest = <<>> => new.at = "off") /\ (rest # <<>> => new.at = "start")
    BY <1>2 DEF NoFrame, Started, Frame, FrameOK, Steps
  <1>4. /\ plan' = [plan EXCEPT ![t] = rest]
        /\ retries' = [retries EXCEPT ![t] = IF rest = <<>> THEN 0 ELSE @]
        /\ Become(f, new) /\ UNCHANGED <<pool, modes>>
    BY DEF RunNext
  <1> HIDE DEF rest, new
  <1>5. Records' /\ UNCHANGED torn
    BY <1>2, <1>4 DEF pool, modes, PoolInv, TypeOK, Records
  <1>6. /\ frame' \in [Frames -> Frame] /\ frame'[f] = new
        /\ \A g \in Frames : g # f => frame'[g] = frame[g]
    BY <1>1, <1>3, <1>4, BecomeFrames
  <1>7. \A u \in Threads : frame'[<<u, 1>>].at = "fixing" <=> frame'[<<u, 2>>].at # "off"
    <2> SUFFICES ASSUME NEW u \in Threads
                 PROVE  frame'[<<u, 1>>].at = "fixing" <=> frame'[<<u, 2>>].at # "off"
      OBVIOUS
    <2>1. frame[<<u, 1>>].at = "fixing" <=> frame[<<u, 2>>].at # "off"
      BY DEF PoolInv, TypeOK
    <2>2. <<u, 2>> \in Frames /\ <<u, 2>> # f /\ frame'[<<u, 2>>] = frame[<<u, 2>>]
      BY <1>6, TheFrames
    <2>3. <<u, 1>> \in Frames /\ (<<u, 1>> = f \/ frame'[<<u, 1>>] = frame[<<u, 1>>])
      BY <1>6, TheFrames
    <2> QED BY <1>1, <1>3, <1>6, <2>1, <2>2, <2>3
  <1>8. Planned'
    <2>1. plan \in [Threads -> Seq(Task)]
      BY DEF PoolInv, TypeOK
    <2>2. \A u \in Threads : u # t => frame'[<<u, 1>>] = frame[<<u, 1>>]
      BY <1>6, TheFrames
    <2> QED BY <1>3, <1>4, <1>6, <2>1, <2>2 DEF PoolInv, Planned
  <1> QED BY <1>3, <1>5, <1>6, <1>7, <1>8 DEF PoolInv, TypeOK, Records, Frame

\* Every step of the pool keeps the invariant
LEMMA PoolStep == PoolInv /\ [Next]_vars => PoolInv'
  <1> SUFFICES ASSUME PoolInv, [Next]_vars PROVE PoolInv'
    OBVIOUS
  <1>1. ASSUME NEW t \in Threads, ThreadStep(t) PROVE PoolInv'
    <2>1. ASSUME NEW l \in Levels, FrameStep(<<t, l>>) PROVE PoolInv'
      <3>1. <<t, l>> \in Frames
        BY DEF Frames
      <3> QED BY <2>1, <3>1, ChoiceInv, PreflightInv, TakeInv, ScaleInv, RunInv DEF FrameStep
    <2> QED BY <1>1, <2>1, RunNextInv, FixedInv DEF ThreadStep
  <1>2. ASSUME NEW t \in Threads, NEW p \in Plans, Submit(t, p) PROVE PoolInv'
    BY <1>2, SubmitInv
  <1>3. ASSUME NEW a \in Agents, IdleLong(a) PROVE PoolInv'
    BY <1>3 DEF IdleLong, modes, PoolInv, TypeOK, Planned
  <1>4. ASSUME NEW p \in Providers, Recovered(p) PROVE PoolInv'
    BY <1>4 DEF Recovered, pool, modes, PoolInv, TypeOK, Planned
  <1>5. CASE UNCHANGED vars
    BY <1>5 DEF vars, pool, modes, PoolInv, TypeOK, Planned
  <1> QED BY <1>1, <1>2, <1>3, <1>4, <1>5 DEF Next, Rest

\* Every state has its type, whatever the agents, plans, threads and reports (TypeOK)
THEOREM TypeCorrect == Spec => []TypeOK
  <1>1. PoolInv => TypeOK
    BY DEF PoolInv
  <1> QED BY PoolInit, PoolStep, <1>1, PTL DEF Spec

-----------------------------------------------------------------------------
(* BusyMeansRunning.  Each step that ends a frame's hold of an agent comes after the one *)
(* that marks it idle, and nothing else makes an agent busy but the start of a hold.     *)

\* The invariant of the types and the property together are inductive
BusyInv == PoolInv /\ BusyMeansRunning

\* The busy agents after a step: they were, and are held by the same frames, or by a new one
LEMMA StillHeld ==
    ASSUME BusyMeansRunning,
           \A a \in Agents \ Remote : status'[a] = "busy" =>
               \/ \E f \in Frames : Holds(f, a)'
               \/ status[a] = "busy" /\ \A f \in Frames : Holds(f, a) => Holds(f, a)'
    PROVE  BusyMeansRunning'
  BY DEF BusyMeansRunning

\* One frame goes on: an agent that is busy after it is the frame's, or was busy and not held
\* by it
LEMMA BusyBecome ==
    ASSUME BusyInv, NEW f \in Frames, NEW new, Become(f, new),
           \A a \in Agents \ Remote : status'[a] = "busy" =>
               \/ new.agent = a /\ new.at \in Holding
               \/ status[a] = "busy" /\ ~Holds(f, a)
    PROVE  BusyMeansRunning'
  <1>1. frame'[f] = new /\ \A g \in Frames : g # f => frame'[g] = frame[g]
    BY BecomeFrames DEF BusyInv
  <1>2. \A g \in Frames : \A a : g # f => (Holds(g, a)' <=> Holds(g, a))
    BY <1>1 DEF Holds
  <1>3. \A a : new.agent = a /\ new.at \in Holding => Holds(f, a)'
    BY <1>1 DEF Holds
  <1> QED BY <1>2, <1>3, StillHeld DEF BusyInv

\* What the steps of choosing have in common
LEMMA BusyMarked ==
    ASSUME BusyInv, NEW f \in Frames, frame[f].at \notin Holding, NEW new, Become(f, new),
           (\E seen : status' = Marked(seen)) \/ UNCHANGED status
    PROVE  BusyMeansRunning'
  <1>1. \A a \in Agents : status'[a] = "busy" => status[a] = "busy"
    BY MarkedType DEF BusyInv, PoolInv, TypeOK
  <1> QED BY <1>1, BusyBecome DEF Holds

\* A task that ends leaves its agent to be marked idle
LEMMA BusySettle ==
    ASSUME BusyInv, NEW f \in Frames, frame[f].at \in {"call", "again"}, NEW r, Settle(f, r),
           \A a \in Agents : status'[a] = "busy" => status[a] = "busy"
    PROVE  BusyMeansRunning'
  <1>1. \A g \in Frames, a \in Agents : Holds(g, a) => Holds(g, a)'
    BY SettleFrames DEF BusyInv, Holds, Holding, Leave
  <1> QED BY <1>1, StillHeld DEF BusyInv

\* Every step keeps it that a busy agent is held
LEMMA BusyStep == BusyInv /\ [Next]_vars => BusyMeansRunning'
  <1> SUFFICES ASSUME BusyInv, [Next]_vars PROVE BusyMeansRunning'
    OBVIOUS
  <1>0. \A f \in Frames : frame[f] \in Frame
    BY FrameType DEF BusyInv, PoolInv
  <1>1. ASSUME NEW f \in Frames, FrameStep(f) PROVE BusyMeansRunning'
    <2>1. CASE EnsureCapacity(f)
      <3>1. \A a \in Agents : status'[a] = "busy" => status[a] = "busy"
        BY <2>1 DEF EnsureCapacity, BusyInv, PoolInv, TypeOK
      <3> QED BY <2>1, <3>1, BusyBecome DEF EnsureCapacity, Goto, Holds, Holding
    <2>2. CASE Prefer(f)
      BY <2>2, BusyMarked DEF Prefer, Holding
    <2>3. CASE Route(f)
      BY <2>3, BusyMarked DEF Route, End, Holding
    <2>4. CASE Reserve(f)
      BY <2>4, BusyMarked DEF Reserve, Holding
    <2>5. CASE Preflight(f)
      BY <2>5, BusyMarked DEF Preflight, Assign, Goto, pool, Holding
    <2>6. CASE Fallback(f)
      BY <2>6, BusyMarked DEF Fallback, Assign, End, Holding
    <2>7. CASE Take(f)
      <3> DEFINE a == frame[f].agent
                 new == [frame[f] EXCEPT !.at = "busy", !.seen = Note(active[a])]
      <3>1. new.at \in Holding /\ new.agent = a
        BY <1>0 DEF Frame, Holding
      <3>2. frame[f].at = "take" /\ Become(f, new)
            /\ \A b \in Agents : b # a => status'[b] = status[b]
        BY <2>7 DEF Take, BusyInv, PoolInv, TypeOK
      <3> HIDE DEF new
      <3> QED BY <3>1, <3>2, BusyBecome DEF Holds, Holding
    <2>8. CASE MarkBusy(f)
      <3> DEFINE new == [frame[f] EXCEPT !.at = "call", !.seen = 0]
      <3>1. new.at \in Holding /\ new.agent = frame[f].agent /\ Become(f, new) /\ UNCHANGED status
        BY <1>0, <2>8 DEF MarkBusy, Frame, Holding
      <3> HIDE DEF new
      <3> QED BY <3>1, BusyBecome DEF Holds
    <2>9. CASE NoRun(f)
      <3>1. PICK r : End(f, Leave(f), r)
        BY <2>9 DEF NoRun
      <3> DEFINE new == [frame[f] EXCEPT !.at = Leave(f), !.result = r]
      <3>2. new.at = Leave(f) /\ new.agent = frame[f].agent /\ Become(f, new) /\ UNCHANGED status
        BY <1>0, <2>9, <3>1 DEF NoRun, pool, End, Frame
      <3> HIDE DEF new
      <3> QED BY <3>2, BusyBecome DEF Holds, Holding, Leave
    <2>10. CASE Run(f)
      <3>1. frame[f].at = "call" /\ \A a \in Agents : status'[a] = "busy" => status[a] = "busy"
        BY <2>10, MarkedType DEF Run, BusyInv, PoolInv, TypeOK
      <3>2. ASSUME Goto(f, "again") PROVE BusyMeansRunning'
        <4> DEFINE new == [frame[f] EXCEPT !.at = "again"]
        <4>1. new.at \in Holding /\ new.agent = frame[f].agent /\ Become(f, new)
          BY <1>0, <3>2 DEF Goto, Frame, Holding
        <4> HIDE DEF new
        <4> QED BY <3>1, <4>1, BusyBecome DEF Holds
      <3>3. ASSUME NEW r, Settle(f, r) PROVE BusyMeansRunning'
        BY <3>1, <3>3, BusySettle
      <3> QED BY <2>10, <3>2, <3>3 DEF Run
    <2>11. CASE RunAgain(f)
      BY <2>11, BusySettle DEF RunAgain, pool
    <2>12. CASE MarkIdle(f)
      <3>1. status' = [status EXCEPT ![frame[f].agent] = "idle"]
            /\ \E new : Become(f, new)
        BY <2>12 DEF MarkIdle
      <3> QED BY <3>1, BusyBecome DEF Holds, BusyInv, PoolInv, TypeOK
    <2>13. CASE CountDown(f)
      BY <2>13, BusyMarked DEF CountDown, Holding
    <2>14. CASE ScaleDown(f)
      BY <2>14, BusyMarked DEF ScaleDown, Goto, Holding
    <2>15. CASE Disable(f)
      <3>1. frame[f].at = "disable" /\ \E new : Become(f, new)
        BY <2>15 DEF Disable
      <3>2. \A a \in Agents : status'[a] = "busy" => status[a] = "busy"
        BY <2>15 DEF Disable, BusyInv, PoolInv, TypeOK
      <3> QED BY <3>1, <3>2, BusyBecome DEF Holds, Holding
    <2> QED BY <1>1, <2>1, <2>2, <2>3, <2>4, <2>5, <2>6, <2>7, <2>8, <2>9, <2>10, <2>11,
               <2>12, <2>13, <2>14, <2>15 DEF FrameStep
  <1>2. ASSUME NEW t \in Threads, RunNext(t) PROVE BusyMeansRunning'
    BY <1>2, TheFrames, BusyMarked DEF RunNext, pool, Holding
  <1>3. ASSUME NEW t \in Threads, Fixed(t) PROVE BusyMeansRunning'
    <2> DEFINE f == <<t, 1>>
    <2>1. f \in Frames /\ <<t, 2>> \in Frames /\ f # <<t, 2>> /\ frame[<<t, 2>>].at = "return"
      BY <1>3, TheFrames DEF Fixed
    <2>2. /\ frame'[f].agent = frame[f].agent /\ frame'[f].at = Leave(f)
          /\ \A g \in Frames : g \notin {f, <<t, 2>>} => frame'[g] = frame[g]
      BY <1>3, <2>1, FrameType DEF Fixed, BusyInv, PoolInv, Frame
    <2>3. \A g \in Frames, a \in Agents : Holds(g, a) => Holds(g, a)'
      BY <2>1, <2>2 DEF Holds, Holding, Leave
    <2> QED BY <1>3, <2>3, StillHeld DEF Fixed, pool, BusyInv
  <1>4. ASSUME NEW t \in Threads, NEW p \in Plans, Submit(t, p) PROVE BusyMeansRunning'
    <2>1. PICK r \in [Remote -> Reports] : CheckAll(r)
      BY <1>4 DEF Submit
    <2>2. \A a \in Agents \ Remote : status'[a] = status[a]
      BY <2>1 DEF CheckAll, Updated
    <2> QED BY <1>4, <2>2, TheFrames, BusyBecome DEF Submit, Holds, Holding
  <1>5. CASE UNCHANGED <<status, frame>>
    BY <1>5 DEF BusyInv, BusyMeansRunning, Holds
  <1>6. ASSUME NEW t \in Threads, ThreadStep(t) PROVE BusyMeansRunning'
    BY <1>1, <1>2, <1>3, <1>6 DEF ThreadStep, Frames
  <1> QED BY <1>4, <1>5, <1>6 DEF Next, Rest, IdleLong, Recovered, vars, pool

\* Whatever ended its tasks, an agent of this process is left BUSY by none of them
\* (mark_busy and the finally clause of run_task, BusyMeansRunning)
THEOREM BusyMeansRunningCorrect == Spec => []BusyMeansRunning
  <1>1. Init => BusyInv
    BY PoolInit DEF Init, Fresh, BusyInv, BusyMeansRunning
  <1>2. BusyInv /\ [Next]_vars => BusyInv'
    BY PoolStep, BusyStep DEF BusyInv
  <1>3. BusyInv => BusyMeansRunning
    BY DEF BusyInv
  <1> QED BY <1>1, <1>2, <1>3, PTL DEF Spec

-----------------------------------------------------------------------------
(* CountsAgree.  A step adds a frame to those that count an agent, or takes one from     *)
(* them, exactly when it counts up or down; max(0, ..) never hides anything, as the frame *)
(* that counts down is one of those counted.                                             *)

\* The counts, with the types, are inductive as well
CountInv == PoolInv /\ CountsAgree

\* The frames counted of an agent are finitely many
LEMMA CountedFinite == \A a : IsFiniteSet(Counted(a)) /\ Cardinality(Counted(a)) \in Nat
  <1>1. IsFiniteSet(Levels)
    <2>1. IsFiniteSet({1}) /\ IsFiniteSet({1} \cup {2})
      BY FS_Singleton, FS_AddElement
    <2>2. Levels = {1} \cup {2}
      BY DEF Levels
    <2> QED BY <2>1, <2>2
  <1>2. IsFiniteSet(Frames)
    BY <1>1, PoolAssumption, FS_Product DEF Frames
  <1>3. \A a : Counted(a) \subseteq Frames
    BY DEF Counted
  <1> QED BY <1>2, <1>3, FS_Subset, FS_CardinalityType

\* The same frames are counted
LEMMA CountSame ==
    ASSUME CountInv, UNCHANGED torn, \A a \in Agents \ Remote : active'[a] = active[a],
           \A f \in Frames, a \in Agents : f \in Counted(a) <=> f \in Counted(a)'
    PROVE  CountsAgree'
  <1>1. \A a \in Agents : Counted(a) = Counted(a)'
    BY DEF Counted
  <1> QED BY <1>1 DEF CountInv, CountsAgree

\* One frame goes on, and is counted as before
LEMMA CountBecome ==
    ASSUME CountInv, NEW f \in Frames, NEW new, Become(f, new), UNCHANGED torn,
           \A a \in Agents \ Remote : active'[a] = active[a],
           \/ frame[f].at \notin Counting /\ new.at \notin Counting
           \/ frame[f].at \in Counting /\ new.at \in Counting /\ new.agent = frame[f].agent
           \/ frame[f].agent \notin Agents /\ new.agent \notin Agents
           \/ frame[f].at \notin Counting /\ new.agent \notin Agents
           \/ frame[f].agent \notin Agents /\ new.at \notin Counting
    PROVE  CountsAgree'
  <1>1. frame'[f] = new /\ \A g \in Frames : g # f => frame'[g] = frame[g]
    BY BecomeFrames DEF CountInv
  <1>2. \A g \in Frames, a \in Agents : g \in Counted(a) <=> g \in Counted(a)'
    BY <1>1 DEF Counted
  <1> QED BY <1>2, CountSame

\* A frame takes an agent: one more is counted
LEMMA CountUp ==
    ASSUME CountInv, NEW f \in Frames, MarkBusy(f)
    PROVE  CountsAgree'
  <1> DEFINE new == [frame[f] EXCEPT !.at = "call", !.seen = 0]
  <1>0. frame[f] \in Frame /\ frame[f].agent \in Agents /\ frame[f].at = "busy"
    BY FrameType DEF CountInv, PoolInv, MarkBusy, FrameOK
  <1>1. PICK b \in Agents : b = frame[f].agent
    BY <1>0
  <1>2. new.at = "call" /\ new.agent = b /\ Become(f, new)
    BY <1>0, <1>1 DEF MarkBusy, Frame
  <1> HIDE DEF new
  <1>3. frame'[f] = new /\ \A g \in Frames : g # f => frame'[g] = frame[g]
    BY <1>2, BecomeFrames DEF CountInv
  <1>4. f \notin Counted(b) /\ Counted(b)' = Counted(b) \cup {f}
    BY <1>0, <1>1, <1>2, <1>3 DEF Counted, Counting
  <1>5. Cardinality(Counted(b)') = Cardinality(Counted(b)) + 1
    BY <1>4, CountedFinite, FS_AddElement
  <1>6. \A a \in Agents : a # b => Counted(a)' = Counted(a)
    BY <1>0, <1>1, <1>2, <1>3 DEF Counted, Counting
  <1>7. UNCHANGED torn /\ (~torn => active' = [active EXCEPT ![b] = active[b] + 1])
    BY <1>1 DEF MarkBusy, Read, modes
  <1> QED BY <1>1, <1>5, <1>6, <1>7 DEF CountInv, CountsAgree, PoolInv, TypeOK

\* A frame marks its agent idle: one less is counted
LEMMA CountedDown ==
    ASSUME CountInv, NEW f \in Frames, CountDown(f)
    PROVE  CountsAgree'
  <1> DEFINE new == [NoFrame EXCEPT !.at = "scale", !.todo = Agents, !.result = frame[f].result]
  <1>0. frame[f].agent \in Agents /\ frame[f].at = "idled"
    BY DEF CountInv, PoolInv, CountDown, FrameOK
  <1>1. PICK b \in Agents : b = frame[f].agent
    BY <1>0
  <1>2. new.at = "scale" /\ Become(f, new)
    BY DEF CountDown, NoFrame
  <1> HIDE DEF new
  <1>3. frame'[f] = new /\ \A g \in Frames : g # f => frame'[g] = frame[g]
    BY <1>2, BecomeFrames DEF CountInv
  <1>4. f \in Counted(b) /\ Counted(b)' = Counted(b) \ {f}
    BY <1>0, <1>1, <1>2, <1>3 DEF Counted, Counting
  <1>5. /\ Cardinality(Counted(b)') = Cardinality(Counted(b)) - 1
        /\ Cardinality(Counted(b)) \in Nat /\ Cardinality(Counted(b)') \in Nat
    <2>1. IsFiniteSet(Counted(b)) /\ IsFiniteSet(Counted(b) \ {f})
      BY CountedFinite, FS_RemoveElement
    <2> QED BY <1>4, <2>1, FS_RemoveElement, FS_CardinalityType
  <1>6. \A a \in Agents : a # b => Counted(a)' = Counted(a)
    BY <1>0, <1>1, <1>2, <1>3 DEF Counted, Counting
  <1>7. UNCHANGED torn /\ (~torn => active' = [active EXCEPT ![b] = Less(active[b])])
    BY <1>1 DEF CountDown, Read, modes
  <1>8. ASSUME ~torn, b \notin Remote PROVE Less(active[b]) = Cardinality(Counted(b)')
    BY <1>1, <1>5, <1>8 DEF Less, CountInv, CountsAgree
  <1> QED BY <1>6, <1>7, <1>8 DEF CountInv, CountsAgree, PoolInv, TypeOK

\* A task that ends is still counted
LEMMA CountSettle ==
    ASSUME CountInv, NEW f \in Frames, frame[f].at \in {"call", "again"}, NEW r, Settle(f, r),
           UNCHANGED <<active, torn>>
    PROVE  CountsAgree'
  <1>1. \A g \in Frames, a \in Agents : g \in Counted(a) <=> g \in Counted(a)'
    BY SettleFrames DEF CountInv, Counted, Counting, Leave
  <1> QED BY <1>1, CountSame

\* Every step keeps the counts
LEMMA CountStep == CountInv /\ [Next]_vars => CountsAgree'
  <1> SUFFICES ASSUME CountInv, [Next]_vars PROVE CountsAgree'
    OBVIOUS
  <1>0. \A f \in Frames : frame[f] \in Frame /\ FrameOK(frame[f])
    BY FrameType DEF CountInv, PoolInv
  <1>1. ASSUME NEW f \in Frames, FrameStep(f) PROVE CountsAgree'
    <2>1. CASE EnsureCapacity(f)
      BY <1>0, <2>1, CountBecome DEF EnsureCapacity, Goto, modes, Counting, Frame
    <2>2. CASE Prefer(f)
      <3> DEFINE found == Found(frame[f].task.cap, Preferred(frame[f].task, exhausted), {},
                                frame[f].task.prio)
                 new == [frame[f] EXCEPT !.at = IF found = None THEN "route" ELSE "preflight",
                                         !.agent = found]
      <3>1. new.at \in {"route", "preflight"}
        BY <1>0 DEF Frame
      <3>2. frame[f].at = "prefer" /\ Become(f, new) /\ UNCHANGED <<active, torn>>
        BY <2>2 DEF Prefer, modes
      <3> HIDE DEF new
      <3> QED BY <3>1, <3>2, CountBecome DEF Counting
    <2>3. CASE Route(f)
      <3>1. frame[f].at = "route" /\ UNCHANGED <<active, torn>>
        BY <2>3 DEF Route, modes
      <3>2. ASSUME NEW a, Become(f, [frame[f] EXCEPT !.at = "reserve", !.agent = a,
                                                     !.seen = Note(queued[a])])
            PROVE  CountsAgree'
        BY <1>0, <3>1, <3>2, CountBecome DEF Frame, Counting
      <3>3. ASSUME Become(f, [frame[f] EXCEPT !.at = "preflight", !.agent = "orchestrator"])
            PROVE  CountsAgree'
        BY <1>0, <3>1, <3>3, CountBecome DEF Frame, Counting
      <3>4. ASSUME End(f, "return", "failed") PROVE CountsAgree'
        BY <1>0, <3>1, <3>4, CountBecome DEF End, Frame, Counting
      <3> QED BY <2>3, <3>2, <3>3, <3>4 DEF Route
    <2>4. CASE Reserve(f)
      BY <1>0, <2>4, CountBecome DEF Reserve, modes, Counting, Frame
    <2>5. CASE Preflight(f) \/ Fallback(f)
      <3>1. frame[f].at \in {"preflight", "fallback"} /\ UNCHANGED <<active, torn>>
        BY <2>5 DEF Preflight, Fallback, pool, modes
      <3>2. ASSUME NEW a, Assign(f, a) PROVE CountsAgree'
        <4> DEFINE new == [frame[f] EXCEPT !.at = IF a \in Agents THEN "take" ELSE "call",
                                           !.agent = a,
                                           !.seen = IF a \in Agents THEN Note(queued[a]) ELSE 0]
        <4>1. new.agent = a /\ (a \in Agents => new.at = "take")
          BY <1>0 DEF Frame
        <4>2. Become(f, new)
          BY <3>2 DEF Assign
        <4> HIDE DEF new
        <4> QED BY <3>1, <4>1, <4>2, CountBecome DEF Counting
      <3>3. ASSUME Goto(f, "fallback") PROVE CountsAgree'
        BY <1>0, <3>1, <3>3, CountBecome DEF Goto, Counting, Frame
      <3>4. ASSUME End(f, "return", "failed") PROVE CountsAgree'
        BY <1>0, <3>1, <3>4, CountBecome DEF End, Counting, Frame
      <3> QED BY <2>5, <3>2, <3>3, <3>4 DEF Preflight, Fallback
    <2>6. CASE Take(f)
      BY <1>0, <2>6, CountBecome DEF Take, modes, Counting, Frame
    <2>7. CASE NoRun(f)
      <3>1. PICK r : End(f, Leave(f), r) /\ frame[f].at = "call" /\ UNCHANGED <<active, torn>>
        BY <2>7 DEF NoRun, pool, modes
      <3> DEFINE new == [frame[f] EXCEPT !.at = Leave(f), !.result = r]
      <3>2. new.at = Leave(f) /\ new.agent = frame[f].agent /\ Become(f, new)
        BY <1>0, <3>1 DEF End, Frame
      <3> HIDE DEF new
      <3> QED BY <3>1, <3>2, CountBecome DEF Leave, Counting
    <2>8. CASE Run(f)
      <3>1. frame[f].at = "call" /\ UNCHANGED <<active, torn>>
        BY <2>8 DEF Run, modes
      <3>2. ASSUME Goto(f, "again") PROVE CountsAgree'
        BY <1>0, <3>1, <3>2, CountBecome DEF Goto, Counting, Frame
      <3>3. ASSUME NEW r, Settle(f, r) PROVE CountsAgree'
        BY <3>1, <3>3, CountSettle
      <3> QED BY <2>8, <3>2, <3>3 DEF Run
    <2>9. CASE RunAgain(f)
      BY <2>9, CountSettle DEF RunAgain, pool, modes
    <2>10. CASE MarkIdle(f)
      BY <1>0, <2>10, CountBecome DEF MarkIdle, modes, Counting, Frame
    <2>11. CASE ScaleDown(f) \/ Disable(f)
      <3>1. frame[f].at \in {"scale", "disable"} /\ UNCHANGED <<active, torn>>
        BY <2>11 DEF ScaleDown, Disable, modes
      <3>2. ASSUME NEW a, Become(f, [frame[f] EXCEPT !.todo = @ \ {a}]) PROVE CountsAgree'
        BY <1>0, <3>1, <3>2, CountBecome DEF Frame, Counting
      <3>3. ASSUME NEW a, Become(f, [frame[f] EXCEPT !.at = "scale", !.todo = @ \ {a}])
            PROVE  CountsAgree'
        BY <1>0, <3>1, <3>3, CountBecome DEF Frame, Counting
      <3>4. ASSUME NEW step \in {"return", "disable"}, Goto(f, step) PROVE CountsAgree'
        BY <1>0, <3>1, <3>4, CountBecome DEF Goto, Frame, Counting
      <3> QED BY <2>11, <3>2, <3>3, <3>4 DEF ScaleDown, Disable
    <2> QED BY <1>1, <2>1, <2>2, <2>3, <2>4, <2>5, <2>6, <2>7, <2>8, <2>9, <2>10, <2>11,
               CountUp, CountedDown DEF FrameStep
  <1>2. ASSUME NEW t \in Threads, RunNext(t) PROVE CountsAgree'
    <2> DEFINE rest == IF frame[<<t, 1>>].result = "done" THEN Tail(plan[t]) ELSE <<>>
               new == IF rest = <<>> THEN NoFrame ELSE Started(Head(rest))
    <2>1. Become(<<t, 1>>, new) /\ frame[<<t, 1>>].at = "return" /\ UNCHANGED <<active, torn>>
      BY <1>2 DEF RunNext, pool, modes
    <2>2. new.at \in {"off", "start"}
      BY DEF NoFrame, Started
    <2> HIDE DEF new
    <2> QED BY <2>1, <2>2, TheFrames, CountBecome DEF Counting
  <1>3. ASSUME NEW t \in Threads, Fixed(t) PROVE CountsAgree'
    <2> DEFINE f == <<t, 1>>
    <2>1. f \in Frames /\ <<t, 2>> \in Frames /\ f # <<t, 2>> /\ frame[<<t, 2>>].at = "return"
          /\ frame[f].at = "fixing"
      BY <1>3, TheFrames DEF Fixed, CountInv, PoolInv, TypeOK
    <2>2. /\ frame'[f].agent = frame[f].agent /\ frame'[f].at = Leave(f)
          /\ frame'[<<t, 2>>].at = "off"
          /\ \A g \in Frames : g \notin {f, <<t, 2>>} => frame'[g] = frame[g]
      BY <1>3, <2>1, FrameType DEF Fixed, NoFrame, CountInv, PoolInv, Frame
    <2>3. \A g \in Frames, a \in Agents : g \in Counted(a) <=> g \in Counted(a)'
      BY <2>1, <2>2 DEF Counted, Counting, Leave
    <2> QED BY <1>3, <2>3, CountSame DEF Fixed, pool, modes
  <1>4. ASSUME NEW t \in Threads, NEW p \in Plans, Submit(t, p) PROVE CountsAgree'
    <2>1. PICK r \in [Remote -> Reports] : CheckAll(r)
      BY <1>4 DEF Submit
    <2>2. \A a \in Agents \ Remote : active'[a] = active[a]
      BY <2>1 DEF CheckAll, Updated
    <2>3. Become(<<t, 1>>, Started(Head(p))) /\ frame[<<t, 1>>].at = "off" /\ UNCHANGED torn
      BY <1>4 DEF Submit, modes
    <2>4. Started(Head(p)).at = "start"
      BY DEF NoFrame, Started
    <2> QED BY <2>2, <2>3, <2>4, TheFrames, CountBecome DEF Counting
  <1>5. CASE UNCHANGED <<active, frame, torn>>
    BY <1>5 DEF CountInv, CountsAgree, Counted
  <1>6. ASSUME NEW t \in Threads, ThreadStep(t) PROVE CountsAgree'
    BY <1>1, <1>2, <1>3, <1>6 DEF ThreadStep, Frames
  <1> QED BY <1>4, <1>5, <1>6 DEF Next, Rest, IdleLong, Recovered, vars, pool, modes

\* Where no counter is torn, active_tasks is the number of tasks on the agent, after any
\* fallbacks, fix tasks, exceptions and failures (mark_busy, mark_idle, CountsAgree)
THEOREM CountsAgreeCorrect == Spec => []CountsAgree
  <1>1. Init => CountInv
    <2> SUFFICES ASSUME Init PROVE CountsAgree
      BY PoolInit DEF CountInv
    <2>1. \A a : Counted(a) = {}
      BY DEF Init, NoFrame, Counted, Counting
    <2> QED BY <2>1, FS_EmptySet DEF Init, Fresh, CountsAgree
  <1>2. CountInv /\ [Next]_vars => CountInv'
    BY PoolStep, CountStep DEF CountInv
  <1>3. CountInv => CountsAgree
    BY DEF CountInv
  <1> QED BY <1>1, <1>2, <1>3, PTL DEF Spec

-----------------------------------------------------------------------------
(* Every call ends: what is left of it, CallLeft, is a number that each step of its        *)
(* thread makes smaller                                                                    *)

\* A step of a call's thread brings its end nearer: the body of CallsEnd
Nearer ==
    \A t \in Threads :
        /\ frame[<<t, 1>>].at # "off"
        /\ \E l \in Levels : frame'[<<t, l>>] # frame[<<t, l>>]
        => CallLeft(t)' < CallLeft(t)

\* FrameLeft, of a frame that may be any
Left(r) ==
    CASE r.at = "off" -> 0
      [] r.at = "return" -> 1
      [] r.at = "scale" -> 2 * Cardinality(r.todo) + 2
      [] r.at = "disable" -> 2 * Cardinality(r.todo) + 1
      [] OTHER -> Scaling + 14 - CHOOSE i \in DOMAIN Path : Path[i] = r.at

\* The steps after which a fix task may follow
Before == {"start", "prefer", "route", "reserve", "preflight", "fallback", "take", "busy",
           "call", "again"}

\* The steps along the path, in its order
LEMMA ThePath ==
    /\ DOMAIN Path = 1..13
    /\ Path[1] = "start" /\ Path[2] = "prefer" /\ Path[3] = "route" /\ Path[4] = "reserve"
    /\ Path[5] = "preflight" /\ Path[6] = "fallback" /\ Path[7] = "take" /\ Path[8] = "busy"
    /\ Path[9] = "call" /\ Path[10] = "again" /\ Path[11] = "fixing" /\ Path[12] = "idle"
    /\ Path[13] = "idled"
  BY DEF Path

\* No step is on it twice
LEMMA PathPlace ==
    ASSUME NEW n \in 1..13
    PROVE  (CHOOSE i \in DOMAIN Path : Path[i] = Path[n]) = n
  <1>1. \A i \in 1..13 : Path[i] = Path[n] => i = n
    BY ThePath
  <1> QED BY <1>1, ThePath

\* There are as many agents to look at as there are agents at most
LEMMA ScalingType ==
    /\ Cardinality(Agents) \in Nat /\ Scaling \in Nat
    /\ \A todo \in SUBSET Agents :
        /\ Cardinality(todo) \in Nat /\ Cardinality(todo) <= Cardinality(Agents)
        /\ \A a \in todo : Cardinality(todo \ {a}) = Cardinality(todo) - 1
  <1>1. IsFiniteSet(Agents) /\ Cardinality(Agents) \in Nat
    BY PoolAssumption, FS_CardinalityType
  <1>2. ASSUME NEW todo \in SUBSET Agents
        PROVE  /\ Cardinality(todo) \in Nat /\ Cardinality(todo) <= Cardinality(Agents)
               /\ \A a \in todo : Cardinality(todo \ {a}) = Cardinality(todo) - 1
    <2>1. IsFiniteSet(todo) /\ Cardinality(todo) <= Cardinality(Agents)
      BY <1>1, FS_Subset
    <2> QED BY <2>1, FS_CardinalityType, FS_RemoveElement
  <1> QED BY <1>1, <1>2 DEF Scaling

\* What is left of a frame that is on the path
LEMMA LeftOnPath ==
    ASSUME NEW r, NEW n \in 1..13, r.at = Path[n]
    PROVE  Left(r) = Scaling + 14 - n
  <1>1. Path[n] \notin {"off", "return", "scale", "disable"}
    BY ThePath
  <1>2. (CHOOSE i \in DOMAIN Path : Path[i] = Path[n]) = n
    BY PathPlace
  <1> QED BY <1>1, <1>2 DEF Left

\* Every step is on the path, or after it, or at its end
LEMMA WhereFramesAre ==
    ASSUME NEW r \in Frame
    PROVE  \/ r.at \in {"off", "return", "scale", "disable"}
           \/ \E n \in 1..13 : r.at = Path[n]
  <1>1. r.at \in Steps
    BY DEF Frame
  <1>2. \A n \in 1..13 : Path[n] = r.at => \E m \in 1..13 : r.at = Path[m]
    OBVIOUS
  <1> QED BY <1>1, <1>2, ThePath DEF Steps

\* The last steps of a frame are fewer than those of one on its path
LEMMA LeftType ==
    ASSUME NEW r \in Frame
    PROVE  /\ Left(r) \in Nat
           /\ r.at = "off" => Left(r) = 0
           /\ r.at = "return" => Left(r) = 1
           /\ r.at = "scale" => Left(r) = 2 * Cardinality(r.todo) + 2
           /\ r.at = "disable" => Left(r) = 2 * Cardinality(r.todo) + 1
  <1>1. Cardinality(r.todo) \in Nat
    BY ScalingType DEF Frame
  <1>2. CASE r.at \in {"off", "return", "scale", "disable"}
    <2>1. Left(r) = CASE r.at = "off" -> 0
                      [] r.at = "return" -> 1
                      [] r.at = "scale" -> 2 * Cardinality(r.todo) + 2
                      [] r.at = "disable" -> 2 * Cardinality(r.todo) + 1
      BY <1>2 DEF Left
    <2> QED BY <1>1, <1>2, <2>1
  <1>3. CASE \E n \in 1..13 : r.at = Path[n]
    <2>1. PICK n \in 1..13 : r.at = Path[n]
      BY <1>3
    <2>2. Left(r) = Scaling + 14 - n
      BY <2>1, LeftOnPath
    <2>3. r.at \notin {"off", "return", "scale", "disable"}
      BY <2>1, ThePath
    <2> QED BY <2>2, <2>3, ScalingType
  <1> QED BY <1>2, <1>3, WhereFramesAre

\* CallLeft, by what is left of the frames
LEMMA CallLeftIs ==
    ASSUME NEW t
    PROVE  /\ CallLeft(t) = Left(frame[<<t, 1>>]) + Left(frame[<<t, 2>>])
                            + (IF frame[<<t, 1>>].at \in Before THEN Scaling + 14 ELSE 0)
                            + 2 * (Scaling + 14) * Len(plan[t])
           /\ CallLeft(t)' = Left(frame'[<<t, 1>>]) + Left(frame'[<<t, 2>>])
                             + (IF frame'[<<t, 1>>].at \in Before THEN Scaling + 14 ELSE 0)
                             + 2 * (Scaling + 14) * Len(plan'[t])
  <1>1. \A f : FrameLeft(f) = Left(frame[f]) /\ FrameLeft(f)' = Left(frame'[f])
    BY DEF FrameLeft, Left
  <1> QED BY <1>1 DEF CallLeft, Before

\* The frames of a thread are its own
LEMMA OtherFrames ==
    \A t, u \in Threads, l \in Levels :
        <<u, l>> \in Frames /\ (u # t => <<u, l>> # <<t, 1>> /\ <<u, l>> # <<t, 2>>)
  BY DEF Frames

\* The products that a plan's length is in
LEMMA Products ==
    /\ \A i, j \in Nat : 2 * (i + 14) * j \in Nat
    /\ \A i, j, k \in Nat : j + 1 <= k => 2 * (i + 14) * j + 2 * (i + 14) <= 2 * (i + 14) * k
  OBVIOUS

\* What is left is a number
LEMMA CallNumbers ==
    ASSUME PoolInv, NEW t \in Threads
    PROVE  /\ Left(frame[<<t, 1>>]) \in Nat /\ Left(frame[<<t, 2>>]) \in Nat
           /\ Len(plan[t]) \in Nat /\ 2 * (Scaling + 14) * Len(plan[t]) \in Nat
  <1>1. Len(plan[t]) \in Nat
    BY DEF PoolInv, TypeOK
  <1>2. Left(frame[<<t, 1>>]) \in Nat /\ Left(frame[<<t, 2>>]) \in Nat
    BY FrameType, TheFrames, LeftType DEF PoolInv
  <1> QED BY <1>1, <1>2, Products, ScalingType

\* A frame that comes nearer to its end brings its call nearer
LEMMA Advance ==
    ASSUME PoolInv, UNCHANGED plan, NEW f \in Frames, NEW new \in Frame, Become(f, new),
           Left(new) < Left(frame[f]), new.at \in Before => frame[f].at \in Before
    PROVE  Nearer
  <1>1. frame'[f] = new /\ \A g \in Frames : g # f => frame'[g] = frame[g]
    BY BecomeFrames
  <1> SUFFICES ASSUME NEW t \in Threads, \E l \in Levels : frame'[<<t, l>>] # frame[<<t, l>>]
               PROVE  CallLeft(t)' < CallLeft(t)
    BY DEF Nearer
  <1>2. f[1] = t /\ (f = <<t, 1>> \/ f = <<t, 2>>)
    <2>1. \A l \in Levels : <<t, l>> \in Frames
      BY DEF Frames
    <2>2. PICK l \in Levels : f = <<t, l>>
      BY <1>1, <2>1
    <2> QED BY <2>2 DEF Levels
  <1> DEFINE rest == 2 * (Scaling + 14) * Len(plan[t])
  <1>3. /\ CallLeft(t) = Left(frame[<<t, 1>>]) + Left(frame[<<t, 2>>])
                         + (IF frame[<<t, 1>>].at \in Before THEN Scaling + 14 ELSE 0) + rest
        /\ CallLeft(t)' = Left(frame'[<<t, 1>>]) + Left(frame'[<<t, 2>>])
                          + (IF frame'[<<t, 1>>].at \in Before THEN Scaling + 14 ELSE 0) + rest
    BY CallLeftIs
  <1>4. Left(frame[<<t, 1>>]) \in Nat /\ Left(frame[<<t, 2>>]) \in Nat /\ rest \in Nat
        /\ Left(new) \in Nat /\ Scaling \in Nat
    BY CallNumbers, LeftType, ScalingType
  <1> HIDE DEF rest
  <1>5. CASE f = <<t, 1>>
    <2>1. frame'[<<t, 1>>] = new /\ frame'[<<t, 2>>] = frame[<<t, 2>>]
      BY <1>1, <1>5, TheFrames
    <2> QED BY <1>3, <1>4, <1>5, <2>1
  <1>6. CASE f = <<t, 2>>
    <2>1. frame'[<<t, 2>>] = new /\ frame'[<<t, 1>>] = frame[<<t, 1>>]
      BY <1>1, <1>6, TheFrames
    <2> QED BY <1>3, <1>4, <1>6, <2>1
  <1> QED BY <1>2, <1>5, <1>6

\* A frame goes on along its path
LEMMA Onward ==
    ASSUME PoolInv, UNCHANGED plan, NEW f \in Frames, NEW new \in Frame, Become(f, new),
           NEW i \in 1..13, NEW j \in 1..13, i < j, frame[f].at = Path[i], new.at = Path[j]
    PROVE  Nearer
  <1>1. Left(new) < Left(frame[f])
    BY LeftOnPath, ScalingType
  <1>2. new.at \in Before => frame[f].at \in Before
    BY ThePath DEF Before
  <1> QED BY <1>1, <1>2, Advance

\* A frame leaves its path for the way back
LEMMA Leaves ==
    ASSUME PoolInv, UNCHANGED plan, NEW f \in Frames, NEW new \in Frame, Become(f, new),
           NEW i \in 1..13, frame[f].at = Path[i],
           new.at = "return" \/ (new.at = "scale" /\ new.todo = Agents)
    PROVE  Nearer
  <1>1. Left(new) < Left(frame[f])
    <2>1. Left(frame[f]) = Scaling + 14 - i
      BY LeftOnPath
    <2>2. Left(new) <= Scaling
      BY LeftType, ScalingType DEF Scaling
    <2> QED BY <2>1, <2>2, LeftType, ScalingType
  <1>2. new.at \notin Before
    BY DEF Before
  <1> QED BY <1>1, <1>2, Advance

\* An agent is chosen
LEMMA ChoiceNearer ==
    ASSUME PoolInv, NEW f \in Frames,
           EnsureCapacity(f) \/ Prefer(f) \/ Route(f) \/ Reserve(f)
    PROVE  Nearer
  <1>1. frame[f] \in Frame /\ FrameOK(frame[f])
    BY FrameType DEF PoolInv
  <1>2. UNCHANGED plan
    BY DEF EnsureCapacity, Prefer, Route, Reserve
  <1>3. CASE EnsureCapacity(f)
    <2> DEFINE new == [frame[f] EXCEPT !.at = "prefer"]
    <2>1. Become(f, new) /\ frame[f].at = Path[1]
      BY <1>3, ThePath DEF EnsureCapacity, Goto
    <2>2. new \in Frame /\ new.at = Path[2]
      BY <1>1, ThePath DEF Frame, Steps
    <2> HIDE DEF new
    <2> QED BY <1>2, <2>1, <2>2, Onward
  <1>4. CASE Prefer(f)
    <2> DEFINE k == frame[f].task
               found == Found(k.cap, Preferred(k, exhausted), {}, k.prio)
               new == [frame[f] EXCEPT !.at = IF found = None THEN "route" ELSE "preflight",
                                       !.agent = found]
    <2>1. found \in Agents \cup {None}
      BY <1>1, <1>4, FoundByPreference DEF Prefer, FrameOK
    <2>2. Become(f, new) /\ frame[f].at = Path[2]
      BY <1>4, ThePath DEF Prefer
    <2>3. new \in Frame /\ (new.at = Path[3] \/ new.at = Path[5])
      <3> HIDE DEF found
      <3>1. new \in Frame /\ new.at \in {"route", "preflight"}
        BY <1>1, <2>1 DEF Frame, Steps
      <3> QED BY <3>1, ThePath
    <2> HIDE DEF new
    <2> QED BY <1>2, <2>2, <2>3, Onward
  <1>5. CASE Route(f)
    <2>1. frame[f].at = Path[3]
      BY <1>5, ThePath DEF Route
    <2>2. \A k, candidates : Economy(k, candidates) \subseteq candidates
      BY DEF Economy
    <2>3. ASSUME NEW a \in Agents,
                 Become(f, [frame[f] EXCEPT !.at = "reserve", !.agent = a,
                                            !.seen = Note(queued[a])])
          PROVE  Nearer
      <3> DEFINE new == [frame[f] EXCEPT !.at = "reserve", !.agent = a, !.seen = Note(queued[a])]
      <3>1. Note(queued[a]) \in Nat
        BY DEF Note, PoolInv, TypeOK
      <3>2. new \in Frame /\ new.at = Path[4]
        BY <1>1, <3>1, ThePath DEF Frame, Steps
      <3>3. Become(f, new)
        BY <2>3
      <3> HIDE DEF new
      <3> QED BY <1>2, <2>1, <3>2, <3>3, Onward
    <2>4. ASSUME Become(f, [frame[f] EXCEPT !.at = "preflight", !.agent = "orchestrator"])
          PROVE  Nearer
      <3> DEFINE new == [frame[f] EXCEPT !.at = "preflight", !.agent = "orchestrator"]
      <3>1. new \in Frame /\ new.at = Path[5]
        BY <1>1, ThePath DEF Frame, Steps
      <3>2. Become(f, new)
        BY <2>4
      <3> HIDE DEF new
      <3> QED BY <1>2, <2>1, <3>1, <3>2, Onward
    <2>5. ASSUME End(f, "return", "failed") PROVE Nearer
      <3> DEFINE new == [frame[f] EXCEPT !.at = "return", !.result = "failed"]
      <3>1. new \in Frame /\ new.at = "return"
        BY <1>1 DEF Frame, Steps
      <3>2. Become(f, new)
        BY <2>5 DEF End
      <3> HIDE DEF new
      <3> QED BY <1>2, <2>1, <3>1, <3>2, Leaves
    <2> QED BY <1>5, <2>2, <2>3, <2>4, <2>5 DEF Route, Balanced, Able
  <1>6. CASE Reserve(f)
    <2> DEFINE new == [frame[f] EXCEPT !.at = "preflight", !.seen = 0]
    <2>1. Become(f, new) /\ frame[f].at = Path[4]
      BY <1>6, ThePath DEF Reserve
    <2>2. new \in Frame /\ new.at = Path[5]
      BY <1>1, ThePath DEF Frame, Steps
    <2> HIDE DEF new
    <2> QED BY <1>2, <2>1, <2>2, Onward
  <1> QED BY <1>3, <1>4, <1>5, <1>6

\* A check before the task, and the fallback to another agent
LEMMA PreflightNearer ==
    ASSUME PoolInv, NEW f \in Frames, Preflight(f) \/ Fallback(f)
    PROVE  Nearer
  <1>1. frame[f] \in Frame /\ FrameOK(frame[f]) /\ UNCHANGED plan
        /\ \E i \in {5, 6} : frame[f].at = Path[i] /\ (Preflight(f) => i = 5)
    BY FrameType, ThePath DEF PoolInv, Preflight, Fallback
  <1>2. PICK i \in {5, 6} : frame[f].at = Path[i] /\ (Preflight(f) => i = 5)
    BY <1>1
  <1>3. ASSUME NEW a \in Agents \cup {None, "orchestrator"}, Assign(f, a) PROVE Nearer
    <2> DEFINE new == [frame[f] EXCEPT !.at = IF a \in Agents THEN "take" ELSE "call",
                                       !.agent = a,
                                       !.seen = IF a \in Agents THEN Note(queued[a]) ELSE 0]
    <2>1. a \in Agents => Note(queued[a]) \in Nat
      BY DEF Note, PoolInv, TypeOK
    <2>2. new \in Frame /\ (new.at = Path[7] \/ new.at = Path[9])
      BY <1>1, <1>3, <2>1, ThePath DEF Frame, Steps
    <2>3. Become(f, new)
      BY <1>3 DEF Assign
    <2> HIDE DEF new
    <2> QED BY <1>1, <1>2, <2>2, <2>3, Onward
  <1>4. ASSUME Preflight(f), Goto(f, "fallback") PROVE Nearer
    <2> DEFINE new == [frame[f] EXCEPT !.at = "fallback"]
    <2>1. new \in Frame /\ new.at = Path[6]
      BY <1>1, ThePath DEF Frame, Steps
    <2>2. Become(f, new) /\ frame[f].at = Path[5]
      BY <1>2, <1>4 DEF Goto
    <2> HIDE DEF new
    <2> QED BY <1>1, <2>1, <2>2, Onward
  <1>5. ASSUME End(f, "return", "failed") PROVE Nearer
    <2> DEFINE new == [frame[f] EXCEPT !.at = "return", !.result = "failed"]
    <2>1. new \in Frame /\ new.at = "return"
      BY <1>1 DEF Frame, Steps
    <2>2. Become(f, new)
      BY <1>5 DEF End
    <2> HIDE DEF new
    <2> QED BY <1>1, <1>2, <2>1, <2>2, Leaves
  <1>6. ASSUME Preflight(f) PROVE Nearer
    BY <1>1, <1>3, <1>4, <1>6 DEF Preflight, Frame
  <1>7. ASSUME Fallback(f) PROVE Nearer
    BY <1>3, <1>5, <1>7, FoundByProvider DEF Fallback
  <1> QED BY <1>6, <1>7

\* The agent is taken and marked, and let go after the task
LEMMA TakeNearer ==
    ASSUME PoolInv, NEW f \in Frames,
           Take(f) \/ MarkBusy(f) \/ MarkIdle(f) \/ CountDown(f)
    PROVE  Nearer
  <1>1. frame[f] \in Frame /\ FrameOK(frame[f]) /\ frame[f].agent \in Agents /\ UNCHANGED plan
    BY FrameType DEF PoolInv, Take, MarkBusy, MarkIdle, CountDown, FrameOK
  <1>2. Note(active[frame[f].agent]) \in Nat
    BY <1>1 DEF Note, PoolInv, TypeOK
  <1>3. CASE Take(f)
    <2> DEFINE new == [frame[f] EXCEPT !.at = "busy", !.seen = Note(active[frame[f].agent])]
    <2>1. Become(f, new) /\ frame[f].at = Path[7]
      BY <1>3, ThePath DEF Take
    <2>2. new \in Frame /\ new.at = Path[8]
      BY <1>1, <1>2, ThePath DEF Frame, Steps
    <2> HIDE DEF new
    <2> QED BY <1>1, <2>1, <2>2, Onward
  <1>4. CASE MarkBusy(f)
    <2> DEFINE new == [frame[f] EXCEPT !.at = "call", !.seen = 0]
    <2>1. Become(f, new) /\ frame[f].at = Path[8]
      BY <1>4, ThePath DEF MarkBusy
    <2>2. new \in Frame /\ new.at = Path[9]
      BY <1>1, ThePath DEF Frame, Steps
    <2> HIDE DEF new
    <2> QED BY <1>1, <2>1, <2>2, Onward
  <1>5. CASE MarkIdle(f)
    <2> DEFINE new == [frame[f] EXCEPT !.at = "idled", !.seen = Note(active[frame[f].agent])]
    <2>1. Become(f, new) /\ frame[f].at = Path[12]
      BY <1>5, ThePath DEF MarkIdle
    <2>2. new \in Frame /\ new.at = Path[13]
      BY <1>1, <1>2, ThePath DEF Frame, Steps
    <2> HIDE DEF new
    <2> QED BY <1>1, <2>1, <2>2, Onward
  <1>6. CASE CountDown(f)
    <2> DEFINE new == [NoFrame EXCEPT !.at = "scale", !.todo = Agents, !.result = frame[f].result]
    <2>1. Become(f, new) /\ frame[f].at = Path[13]
      BY <1>6, ThePath DEF CountDown
    <2>2. new \in Frame /\ new.at = "scale" /\ new.todo = Agents
      BY <1>1 DEF NoFrame, Frame, Steps
    <2> HIDE DEF new
    <2> QED BY <1>1, <2>1, <2>2, Leaves
  <1> QED BY <1>3, <1>4, <1>5, <1>6

\* The way back: each agent is looked at once, and disabled once
LEMMA ScaleNearer ==
    ASSUME PoolInv, NEW f \in Frames, ScaleDown(f) \/ Disable(f)
    PROVE  Nearer
  <1>1. frame[f] \in Frame /\ frame[f].todo \in SUBSET Agents
    BY FrameType DEF PoolInv, Frame
  <1>2. Cardinality(frame[f].todo) \in Nat
        /\ \A a \in frame[f].todo : Cardinality(frame[f].todo \ {a}) = Cardinality(frame[f].todo) - 1
    BY <1>1, ScalingType
  <1>3. UNCHANGED plan
    BY Zenon DEF ScaleDown, Disable
  <1>4. ASSUME NEW a \in frame[f].todo, frame[f].at \in {"scale", "disable"},
               NEW new \in Frame, Become(f, new), new.at = "scale",
               new.todo = frame[f].todo \ {a}
        PROVE  Nearer
    <2>1. Left(frame[f]) \in {2 * Cardinality(frame[f].todo) + 2, 2 * Cardinality(frame[f].todo) + 1}
      BY <1>1, <1>4, LeftType
    <2>2. Left(new) = 2 * (Cardinality(frame[f].todo) - 1) + 2
      BY <1>2, <1>4, LeftType
    <2>3. Left(new) < Left(frame[f])
      BY <1>2, <2>1, <2>2
    <2> QED BY <1>3, <1>4, <2>3, Advance DEF Before
  <1>5. ASSUME frame[f].at = "scale", NEW step \in {"return", "disable"}, Goto(f, step)
        PROVE  Nearer
    <2> DEFINE new == [frame[f] EXCEPT !.at = step]
    <2>1. new \in Frame /\ new.at = step /\ new.todo = frame[f].todo
      BY <1>1 DEF Frame, Steps
    <2>2. Become(f, new)
      BY <1>5 DEF Goto
    <2> HIDE DEF new
    <2>3. Left(new) < Left(frame[f])
      BY <1>1, <1>2, <1>5, <2>1, LeftType
    <2> QED BY <1>3, <2>1, <2>2, <2>3, Advance DEF Before
  <1>6. ASSUME frame[f].at = "scale", NEW a \in frame[f].todo,
               Become(f, [frame[f] EXCEPT !.todo = frame[f].todo \ {a}])
        PROVE  Nearer
    <2> DEFINE new == [frame[f] EXCEPT !.todo = frame[f].todo \ {a}]
    <2>1. new \in Frame /\ new.at = "scale" /\ new.todo = frame[f].todo \ {a}
      BY <1>1, <1>6 DEF Frame
    <2>2. Become(f, new)
      BY <1>6
    <2> HIDE DEF new
    <2> QED BY <1>4, <1>6, <2>1, <2>2
  <1>7. CASE ScaleDown(f)
    <2>1. /\ frame[f].at = "scale"
          /\ \/ Goto(f, "return") \/ Goto(f, "disable")
             \/ \E a \in frame[f].todo :
                    Become(f, [frame[f] EXCEPT !.todo = frame[f].todo \ {a}])
      BY <1>7 DEF ScaleDown
    <2> QED BY <1>5, <1>6, <2>1
  <1>8. CASE Disable(f)
    <2>1. PICK a \in frame[f].todo :
            /\ frame[f].at = "disable"
            /\ Become(f, [frame[f] EXCEPT !.at = "scale", !.todo = @ \ {a}])
      BY <1>8, Zenon DEF Disable
    <2> DEFINE new == [frame[f] EXCEPT !.at = "scale", !.todo = @ \ {a}]
    <2>2. new \in Frame /\ new.at = "scale" /\ new.todo = frame[f].todo \ {a}
      BY <1>1 DEF Frame, Steps
    <2>3. Become(f, new)
      BY <2>1
    <2> HIDE DEF new
    <2> QED BY <1>4, <2>1, <2>2, <2>3
  <1> QED BY <1>7, <1>8

\* A task ends, or a fix task is made of it: the steps of a fix task are still to come for a
\* frame of the plan until then
LEMMA SettleNearer ==
    ASSUME PoolInv, UNCHANGED plan, NEW f \in Frames, frame[f].at \in {"call", "again"},
           NEW r \in Outcomes, Settle(f, r)
    PROVE  Nearer
  <1>1. frame[f] \in Frame /\ frame[f].task \in Task
    BY FrameType DEF PoolInv, FrameOK
  <1>2. Status(r) \in {"done", "failed", "raised"}
    BY DEF Status, Outcomes
  <1>3. PICK i \in {9, 10} : frame[f].at = Path[i]
    BY ThePath
  <1>4. CASE End(f, Leave(f), Status(r))
    <2> DEFINE new == [frame[f] EXCEPT !.at = Leave(f), !.result = Status(r)]
    <2>1. new \in Frame /\ new.at \in {"idle", "return"}
      BY <1>1, <1>2 DEF Leave, Frame, Steps
    <2>2. Become(f, new)
      BY <1>4 DEF End
    <2> HIDE DEF new
    <2>3. CASE new.at = "idle"
      BY <1>3, <2>1, <2>2, <2>3, ThePath, Onward
    <2>4. CASE new.at = "return"
      BY <1>3, <2>1, <2>2, <2>4, Leaves
    <2> QED BY <2>1, <2>3, <2>4
  <1>5. CASE ~End(f, Leave(f), Status(r))
    <2> DEFINE new == [frame[f] EXCEPT !.at = "fixing", !.result = Status(r)]
               inner == Started(FixOf(frame[f].task))
    <2>1. f[2] # 2 /\ frame' = [frame EXCEPT ![f] = new, ![<<f[1], 2>>] = inner]
      BY <1>5 DEF Settle
    <2>2. PICK t \in Threads : f = <<t, 1>>
      BY <2>1, TheFrames
    <2>3. new \in Frame /\ new.at = Path[11]
      BY <1>1, <1>2, ThePath DEF Frame, Steps
    <2>4. inner \in Frame /\ inner.at = Path[1]
      BY <1>1, FixType, ThePath
    <2> HIDE DEF new, inner
    <2>5. /\ frame'[<<t, 1>>] = new /\ frame'[<<t, 2>>] = inner
          /\ \A g \in Frames : g \notin {<<t, 1>>, <<t, 2>>} => frame'[g] = frame[g]
      BY <2>1, <2>2, TheFrames, FrameType DEF PoolInv
    <2> SUFFICES ASSUME NEW u \in Threads, \E l \in Levels : frame'[<<u, l>>] # frame[<<u, l>>]
                 PROVE  CallLeft(u)' < CallLeft(u)
      BY DEF Nearer
    <2>6. u = t
      BY <2>5, OtherFrames
    <2> DEFINE rest == 2 * (Scaling + 14) * Len(plan[t])
    <2>7. frame[<<t, 2>>].at = "off" /\ frame[<<t, 1>>].at = Path[i]
      BY <1>3, <2>2, ThePath DEF PoolInv, TypeOK
    <2>8. Left(frame[<<t, 2>>]) = 0 /\ Left(frame[<<t, 1>>]) = Scaling + 14 - i
          /\ Left(new) = Scaling + 14 - 11 /\ Left(inner) = Scaling + 14 - 1
      BY <2>3, <2>4, <2>7, TheFrames, FrameType, LeftType, LeftOnPath DEF PoolInv
    <2>9. frame[<<t, 1>>].at \in Before /\ new.at \notin Before
      BY <2>3, <2>7, ThePath DEF Before
    <2>10. CallLeft(t) = Left(frame[<<t, 1>>]) + Left(frame[<<t, 2>>]) + (Scaling + 14) + rest
           /\ CallLeft(t)' = Left(new) + Left(inner) + 0 + rest
      BY <2>5, <2>9, CallLeftIs
    <2>11. rest \in Nat
      BY CallNumbers
    <2> HIDE DEF rest
    <2> QED BY <2>6, <2>8, <2>10, <2>11, ScalingType
  <1> QED BY <1>4, <1>5

\* A task runs, or cannot
LEMMA RunNearer ==
    ASSUME PoolInv, NEW f \in Frames, NoRun(f) \/ Run(f) \/ RunAgain(f)
    PROVE  Nearer
  <1>1. frame[f] \in Frame /\ FrameOK(frame[f])
    BY FrameType DEF PoolInv
  <1>2. CASE NoRun(f)
    <2>1. PICK r \in {"failed", "raised"} : End(f, Leave(f), r) /\ frame[f].at = Path[9]
      BY <1>2, ThePath DEF NoRun
    <2> DEFINE new == [frame[f] EXCEPT !.at = Leave(f), !.result = r]
    <2>2. new \in Frame /\ new.at \in {"idle", "return"}
      BY <1>1, <2>1 DEF Leave, Frame, Steps
    <2>3. Become(f, new) /\ UNCHANGED plan
      BY <1>2, <2>1 DEF End, NoRun
    <2> HIDE DEF new
    <2>4. CASE new.at = "idle"
      BY <2>1, <2>2, <2>3, <2>4, ThePath, Onward
    <2>5. CASE new.at = "return"
      BY <2>1, <2>2, <2>3, <2>5, Leaves
    <2> QED BY <2>2, <2>4, <2>5
  <1>3. CASE Run(f)
    <2>1. frame[f].at = "call" /\ UNCHANGED plan
      BY <1>3 DEF Run
    <2>2. ASSUME Goto(f, "again") PROVE Nearer
      <3> DEFINE new == [frame[f] EXCEPT !.at = "again"]
      <3>1. new \in Frame /\ new.at = Path[10]
        BY <1>1, ThePath DEF Frame, Steps
      <3>2. Become(f, new) /\ frame[f].at = Path[9]
        BY <2>1, <2>2, ThePath DEF Goto
      <3> HIDE DEF new
      <3> QED BY <2>1, <3>1, <3>2, Onward
    <2>3. ASSUME NEW r \in Outcomes, Settle(f, r) PROVE Nearer
      BY <2>1, <2>3, SettleNearer
    <2> QED BY <1>3, <2>2, <2>3 DEF Run
  <1>4. CASE RunAgain(f)
    <2>1. PICK r \in Outcomes : Settle(f, r)
      BY <1>4 DEF RunAgain
    <2> QED BY <1>4, <2>1, SettleNearer DEF RunAgain
  <1> QED BY <1>2, <1>3, <1>4

\* A fix task has ended: its frame had a step left, and that of its task goes on
LEMMA FixedNearer ==
    ASSUME PoolInv, NEW t \in Threads, Fixed(t)
    PROVE  Nearer
  <1> DEFINE f == <<t, 1>>
             g == <<t, 2>>
  <1>1. f \in Frames /\ g \in Frames /\ f # g /\ frame[g].at = "return" /\ frame[f].at = Path[11]
        /\ frame[f] \in Frame /\ frame[g] \in Frame /\ UNCHANGED plan
    <2>1. f \in Frames /\ g \in Frames /\ f # g /\ frame[f] \in Frame /\ frame[g] \in Frame
      BY TheFrames, FrameType DEF PoolInv
    <2>2. frame[g].at = "return" /\ UNCHANGED plan
      BY DEF Fixed
    <2>3. frame[f].at = "fixing"
      BY <2>2 DEF PoolInv, TypeOK
    <2> QED BY <2>1, <2>2, <2>3, ThePath
  <1>2. frame'[f].at = Leave(f) /\ frame'[g] = NoFrame
        /\ \A h \in Frames : h \notin {f, g} => frame'[h] = frame[h]
    BY <1>1, FrameType DEF Fixed, PoolInv, Frame
  <1>3. frame'[f].at \in {"idle", "return"} /\ frame'[f] \in Frame /\ frame'[g] \in Frame
        /\ frame'[g].at = "off"
    <2>1. PoolInv'
      BY FixedInv
    <2> QED BY <1>1, <1>2, <2>1, FrameType DEF PoolInv, TypeOK, Frame, Leave, NoFrame
  <1> HIDE DEF f, g
  <1> SUFFICES ASSUME NEW u \in Threads, \E l \in Levels : frame'[<<u, l>>] # frame[<<u, l>>]
               PROVE  CallLeft(u)' < CallLeft(u)
    BY DEF Nearer
  <1>4. u = t
    BY <1>2, OtherFrames DEF f, g
  <1> DEFINE rest == 2 * (Scaling + 14) * Len(plan[t])
  <1>5. Left(frame[f]) = Scaling + 3 /\ Left(frame[g]) = 1 /\ Left(frame'[g]) = 0
    BY <1>1, <1>3, LeftOnPath, LeftType, ScalingType
  <1>6. Left(frame'[f]) \in {Scaling + 2, 1}
    <2>1. CASE frame'[f].at = "idle"
      BY <2>1, LeftOnPath, ThePath, ScalingType
    <2>2. CASE frame'[f].at = "return"
      BY <1>3, <2>2, LeftType
    <2> QED BY <1>3, <2>1, <2>2
  <1>7. CallLeft(t) = Left(frame[f]) + Left(frame[g]) + 0 + rest
        /\ CallLeft(t)' = Left(frame'[f]) + Left(frame'[g]) + 0 + rest
    BY <1>1, <1>3, CallLeftIs, ThePath DEF f, g, Before
  <1>8. rest \in Nat
    BY CallNumbers
  <1> HIDE DEF rest
  <1> QED BY <1>4, <1>5, <1>6, <1>7, <1>8, ScalingType

\* The next task of a plan takes no more steps than a task was to take, or the call is over
LEMMA RunNextNearer ==
    ASSUME PoolInv, NEW t \in Threads, RunNext(t)
    PROVE  Nearer
  <1> DEFINE f == <<t, 1>>
             g == <<t, 2>>
             rest == IF frame[f].result = "done" THEN Tail(plan[t]) ELSE <<>>
             new == IF rest = <<>> THEN NoFrame ELSE Started(Head(rest))
  <1>1. f \in Frames /\ g \in Frames /\ f # g /\ frame[f].at = "return" /\ Become(f, new)
        /\ plan' = [plan EXCEPT ![t] = rest] /\ plan[t] \in Seq(Task) /\ plan[t] # <<>>
    BY TheFrames DEF RunNext, PoolInv, TypeOK, Planned
  <1>2. rest \in Seq(Task) /\ Len(rest) <= Len(plan[t]) - 1 /\ plan'[t] = rest
    BY <1>1 DEF PoolInv, TypeOK
  <1>3. new \in Frame /\ (new.at = "off" \/ new.at = Path[1])
    <2>1. rest # <<>> => Head(rest) \in Task
      BY <1>2
    <2> HIDE DEF rest
    <2> QED BY <2>1, ThePath DEF Started, NoFrame, Frame, Steps
  <1> HIDE DEF f, g, rest, new
  <1>4. frame'[f] = new /\ \A h \in Frames : h # f => frame'[h] = frame[h]
    BY <1>1, BecomeFrames
  <1> SUFFICES ASSUME NEW u \in Threads, \E l \in Levels : frame'[<<u, l>>] # frame[<<u, l>>]
               PROVE  CallLeft(u)' < CallLeft(u)
    BY DEF Nearer
  <1>5. u = t
    BY <1>4, OtherFrames DEF f
  <1>6. Left(frame[f]) = 1 /\ Left(frame[g]) \in Nat
    BY <1>1, FrameType, LeftType DEF PoolInv
  <1>7. new.at \in Before => new.at = Path[1]
    BY <1>3, ThePath DEF Before
  <1>8. Left(new) + (IF new.at \in Before THEN Scaling + 14 ELSE 0) \in 0..(2 * (Scaling + 14) - 1)
    BY <1>3, <1>7, LeftType, LeftOnPath, ScalingType
  <1>9. CallLeft(t) = 1 + Left(frame[g]) + 0 + 2 * (Scaling + 14) * Len(plan[t])
        /\ CallLeft(t)' = Left(new) + Left(frame[g])
                          + (IF new.at \in Before THEN Scaling + 14 ELSE 0)
                          + 2 * (Scaling + 14) * Len(rest)
    <2>1. frame[f].at \notin Before /\ frame'[f] = new /\ frame'[g] = frame[g]
      BY <1>1, <1>4 DEF Before
    <2>2. CallLeft(t) = Left(frame[f]) + Left(frame[g])
                        + (IF frame[f].at \in Before THEN Scaling + 14 ELSE 0)
                        + 2 * (Scaling + 14) * Len(plan[t])
          /\ CallLeft(t)' = Left(frame'[f]) + Left(frame'[g])
                            + (IF frame'[f].at \in Before THEN Scaling + 14 ELSE 0)
                            + 2 * (Scaling + 14) * Len(plan'[t])
      BY CallLeftIs, Zenon DEF f, g
    <2> QED BY <1>2, <1>6, <2>1, <2>2, Zenon
  <1>10. 2 * (Scaling + 14) * Len(rest) + 2 * (Scaling + 14) <= 2 * (Scaling + 14) * Len(plan[t])
    <2>1. Len(rest) \in Nat /\ Len(plan[t]) \in Nat /\ Len(rest) + 1 <= Len(plan[t])
      BY <1>1, <1>2
    <2> QED BY <2>1, Products, ScalingType
  <1>11. Len(rest) \in Nat /\ Len(plan[t]) \in Nat
    BY <1>1, <1>2
  <1> DEFINE start == IF new.at \in Before THEN Scaling + 14 ELSE 0
             cost == 2 * (Scaling + 14)
             after == 2 * (Scaling + 14) * Len(rest)
             before == 2 * (Scaling + 14) * Len(plan[t])
  <1>12. after \in Nat /\ before \in Nat /\ cost \in Nat
    <2>1. after \in Nat /\ before \in Nat
      BY <1>11, Products, ScalingType, Zenon
    <2>2. cost \in Nat
      BY ScalingType
    <2> QED BY <2>1, <2>2
  <1>13. Left(new) \in Nat /\ start \in Nat
    BY <1>3, LeftType, ScalingType
  <1>14. /\ CallLeft(t) = 1 + Left(frame[g]) + 0 + before
         /\ CallLeft(t)' = Left(new) + Left(frame[g]) + start + after
         /\ after + cost <= before /\ Left(new) + start \in 0..(cost - 1)
    BY <1>8, <1>9, <1>10, Zenon
  <1> HIDE DEF start, cost, after, before
  <1> QED BY <1>5, <1>6, <1>12, <1>13, <1>14

\* No step of a call's thread leads away from its end
LEMMA NearerStep == PoolInv /\ [Next]_vars => Nearer
  <1> SUFFICES ASSUME PoolInv, [Next]_vars PROVE Nearer
    OBVIOUS
  <1>1. ASSUME NEW f \in Frames, FrameStep(f) PROVE Nearer
    BY <1>1, ChoiceNearer, PreflightNearer, TakeNearer, ScaleNearer, RunNearer DEF FrameStep
  <1>2. ASSUME NEW t \in Threads, ThreadStep(t) PROVE Nearer
    BY <1>1, <1>2, FixedNearer, RunNextNearer DEF ThreadStep, Frames
  <1>3. ASSUME NEW t \in Threads, NEW p \in Plans, Submit(t, p) PROVE Nearer
    <2>1. Become(<<t, 1>>, Started(Head(p))) /\ frame[<<t, 1>>].at = "off"
      BY <1>3 DEF Submit
    <2>2. \A g \in Frames : g # <<t, 1>> => frame'[g] = frame[g]
      BY <2>1, TheFrames, BecomeFrames
    <2>3. \A u \in Threads, l \in Levels : u # t => frame'[<<u, l>>] = frame[<<u, l>>]
      BY <2>2, OtherFrames
    <2> QED BY <2>1, <2>3 DEF Nearer
  <1>4. CASE UNCHANGED frame
    BY <1>4 DEF Nearer
  <1> QED BY <1>2, <1>3, <1>4 DEF Next, Rest, IdleLong, Recovered, vars

\* What is submitted is answered after a bounded number of steps of its thread, whatever the
\* agents answer and however the threads interleave: no preflight, fallback, exception or fix
\* task leads back (run_task, run)
THEOREM CallsEndCorrect == Spec => CallsEnd
  <1>1. Init => PoolInv
    BY PoolInit
  <1>2. PoolInv /\ [Next]_vars => PoolInv'
    BY PoolStep
  <1>3. PoolInv /\ [Next]_vars =>
            [\A t \in Threads :
                /\ frame[<<t, 1>>].at # "off"
                /\ \E l \in Levels : frame'[<<t, l>>] # frame[<<t, l>>]
                => CallLeft(t)' < CallLeft(t)]_vars
    BY NearerStep DEF Nearer
  <1> QED BY <1>1, <1>2, <1>3, PTL DEF Spec, CallsEnd

=============================================================================
