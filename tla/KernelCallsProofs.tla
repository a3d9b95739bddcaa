------------------------- MODULE KernelCallsProofs --------------------------
(***************************************************************************)
(* Proofs about the parts of KernelState that decide whom the kernel calls *)
(* for a task, and what may be run for it: the choice of a provider, the   *)
(* calls of outside models, the local model, the providers' probes, the    *)
(* commands on the machine and the gate before a deployment.  They hold    *)
(* for every set of threads, models, texts and reports, and every bound.   *)
(*                                                                         *)
(* Of each part there is an inductive invariant, a lemma that says what it *)
(* shows, one that it holds at the beginning, one for every action, and    *)
(* one for the step of the part.  As the parts share no state, a step of   *)
(* the kernel is a step of one of them and leaves the others as they are.  *)
(***************************************************************************)
EXTENDS KernelState, Sequences, SequenceTheorems, FiniteSetTheorems, TLAPS

-----------------------------------------------------------------------------
(* ModelSelection.  A risky task is critical from its classification on, so *)
(* that it is sent elsewhere than to the local model, and in the order of  *)
(* the providers made afterwards the others come first.                    *)

SelectionTypes ==
    /\ stage \in {"new", "classified", "selected", "ordered"}
    /\ task \in [type : Selection!Types, prio : Selection!Priorities, band : Selection!Bands,
                 risk : BOOLEAN]
    /\ choice \in [provider : Selection!Providers, review : BOOLEAN]
    /\ exhausted \subseteq Selection!Providers

\* Of the other providers only OpenAI's needs a key
RiskyOrder(o) ==
    "local" \in DOMAIN o =>
        \A p \in {"antigravity", "mistral"} \ exhausted :
            p \in DOMAIN o /\ o[p] < o["local"]

SelectionInv ==
    /\ SelectionTypes
    /\ DOMAIN order \subseteq Selection!Providers
    /\ \A p \in DOMAIN order : order[p] \in 0..6
    /\ (stage # "new" /\ task.risk) => task.band = "critical"
    /\ (stage \in {"selected", "ordered"} /\ task.risk)
       => (choice.provider # "local" /\ choice.review)
    /\ (stage = "ordered" /\ task.risk) => RiskyOrder(order)

\* The invariant says of the choice what the run checks
LEMMA SelectionShows == SelectionInv => Selection!TypeOK /\ Selection!RiskKeptFromLocal
  BY DEF SelectionInv, SelectionTypes, RiskyOrder, Selection!TypeOK, Selection!RiskKeptFromLocal

\* Nothing is chosen at the beginning
LEMMA SelectionInit ==
    ASSUME Selection!Init
    PROVE  SelectionInv
  BY DEF Selection!Init, SelectionInv, SelectionTypes, Selection!To, Selection!Types,
         Selection!Priorities, Selection!Bands, Selection!Providers, Selection!Usual

\* The order of the providers: for a critical task that is not the local model's two others
\* come before the local model
LEMMA OrderTyped ==
    ASSUME SelectionInv, NEW force \in BOOLEAN
    PROVE  /\ DOMAIN Selection!Base(force) = Selection!Providers
           /\ \A p \in Selection!Providers : Selection!Base(force)[p] \in 0..6
           /\ task.band = "critical" /\ choice.provider # "local" =>
                /\ Selection!Base(force)["antigravity"] < Selection!Base(force)["local"]
                /\ Selection!Base(force)["mistral"] < Selection!Base(force)["local"]
  <1> DEFINE p == choice.provider
  <1> USE DEF Selection!Usual, Selection!MistralFirst, Selection!OpenAIFirst, Selection!Providers
  <1>1. p \in Selection!Providers
    BY DEF SelectionInv, SelectionTypes
  <1>2. \A q \in Selection!Providers : Selection!First(q,
        Selection!Usual) \in [Selection!Providers -> 0..5]
    BY DEF Selection!First
  <1>3. Selection!First("antigravity",
        Selection!First(p, Selection!Usual)) \in [Selection!Providers -> 0..6]
    BY <1>1, <1>2 DEF Selection!First
  <1>4. p # "local"
        => /\ Selection!First(p, Selection!Usual)["antigravity"] < Selection!First(p,
            Selection!Usual)["local"]
                       /\ Selection!First(p, Selection!Usual)["mistral"] < Selection!First(p,
                          Selection!Usual)["local"]
    BY <1>1 DEF Selection!First
  <1>5. \/ Selection!Base(force) \in {Selection!Usual, Selection!OpenAIFirst,
           Selection!MistralFirst}
        \/ Selection!Base(force) = Selection!First(p, Selection!Usual)
        \/ Selection!Base(force)
           = Selection!First("antigravity", Selection!First(p, Selection!Usual))
    BY DEF Selection!Base
  <1>6. task.band = "critical"
        => Selection!Base(force) \in {Selection!OpenAIFirst, Selection!First(p, Selection!Usual)}
    BY DEF Selection!Base
  <1>7. DOMAIN Selection!Base(force) = Selection!Providers
        /\ \A q \in Selection!Providers : Selection!Base(force)[q] \in 0..6
    BY <1>1, <1>2, <1>3, <1>5
  <1> QED BY <1>4, <1>6, <1>7

\* Every step of the choice keeps its invariant
LEMMA SelectionStep ==
    ASSUME SelectionInv, [Selection!Next]_selectionVars
    PROVE  SelectionInv'
  <1>1. CASE UNCHANGED selectionVars
    BY <1>1 DEF selectionVars, SelectionInv, SelectionTypes, RiskyOrder
  <1>2. CASE Selection!Classify
    <2>1. PICK type \in Selection!Types, prio \in Selection!Priorities :
             \/ \E wanted \in Selection!Bands :
                  task' = [type |-> type, prio |-> prio, band |-> wanted, risk |-> FALSE]
             \/ \E words \in Selection!Words, wide, short, advised \in BOOLEAN :
                  task' = [type |-> type, prio |-> prio,
                     band |-> Selection!Classified(type, prio, words, wide, short, advised),
                     risk |-> "risk" \in words \/ prio = "critical"]
      BY <1>2 DEF Selection!Classify
    <2>2. /\ task' \in [type : Selection!Types, prio : Selection!Priorities,
             band : Selection!Bands,
                      risk : BOOLEAN]
          /\ task'.risk => task'.band = "critical"
      <3>1. ASSUME NEW words \in Selection!Words, NEW wide \in BOOLEAN, NEW short \in BOOLEAN,
                       NEW advised \in BOOLEAN
            PROVE  /\ Selection!Classified(type, prio, words, wide, short,
                      advised) \in Selection!Bands
                   /\ ("risk" \in words \/ prio = "critical") =>
                        Selection!Classified(type, prio, words, wide, short, advised) = "critical"
        BY <3>1 DEF Selection!Classified, Selection!HighRisk, Selection!Bands
      <3>2. CASE \E wanted \in Selection!Bands :
                  task' = [type |-> type, prio |-> prio, band |-> wanted, risk |-> FALSE]
        BY <3>2
      <3>3. ASSUME NEW words \in Selection!Words, NEW wide \in BOOLEAN, NEW short \in BOOLEAN,
                       NEW advised \in BOOLEAN,
                   task' = [type |-> type, prio |-> prio,
                     band |-> Selection!Classified(type, prio, words, wide, short, advised),
                     risk |-> "risk" \in words \/ prio = "critical"]
            PROVE  /\ task' \in [type : Selection!Types, prio : Selection!Priorities,
                                 band : Selection!Bands, risk : BOOLEAN]
                   /\ task'.risk => task'.band = "critical"
        BY <3>1, <3>3
      <3> QED BY <2>1, <3>2, <3>3
    <2> QED BY <2>2, <1>2 DEF Selection!Classify, SelectionInv, SelectionTypes
  <1>3. CASE Selection!Select
    <2>1. PICK auto \in BOOLEAN, keys \in SUBSET {"openai", "mistral"},
               advice \in Selection!Advice :
             \/ choice' \in Selection!LocalChoice(advice)
             \/ choice' = Selection!Strict(auto, keys)
             \/ choice' = Selection!Legacy(auto, keys)
      BY <1>3 DEF Selection!Select
    <2>2. \A review \in BOOLEAN :
          /\ Selection!OpenAI(auto, keys,
             review) \in [provider : Selection!Providers \ {"local"}, review : BOOLEAN]
                                  /\ Selection!OpenAI(auto, keys, review).review = review
      BY DEF Selection!OpenAI, Selection!To, Selection!Providers
    <2>3. /\ choice' \in [provider : Selection!Providers, review : BOOLEAN]
          /\ task.band = "critical" => choice'.provider # "local" /\ choice'.review
      <3>1. CASE choice' \in Selection!LocalChoice(advice)
        <4>1. /\ choice' = Selection!To("local", task.type = "plan")
              /\ task.band \in {"low", "medium"}
          BY <3>1 DEF Selection!LocalChoice
        <4>2. (task.type = "plan") \in BOOLEAN
          OBVIOUS
        <4>3. \A b \in BOOLEAN : Selection!To("local", b) \in [provider : Selection!Providers,
              review : BOOLEAN]
          BY DEF Selection!To, Selection!Providers
        <4> QED BY <4>1, <4>2, <4>3
      <3>2. CASE choice' = Selection!Strict(auto, keys)
        BY <3>2, <2>2 DEF Selection!Strict, Selection!To, Selection!Providers
      <3>3. CASE choice' = Selection!Legacy(auto, keys)
        BY <3>3, <2>2 DEF Selection!Legacy, Selection!To, Selection!Providers
      <3> QED BY <2>1, <3>1, <3>2, <3>3
    <2> QED BY <2>3, <1>3 DEF Selection!Select, SelectionInv, SelectionTypes
  <1>4. CASE Selection!Rank
    <2>1. PICK force \in BOOLEAN : /\ exhausted' \subseteq Selection!Providers
                                   /\ order' = Selection!Left(Selection!Base(force))
      BY <1>4 DEF Selection!Rank
    <2>2. /\ stage = "selected" /\ stage' = "ordered" /\ UNCHANGED <<strict, task, choice>>
      BY <1>4 DEF Selection!Rank
    <2>3. CASE Selection!Providers \subseteq exhausted'
      <3>1. order' = Selection!Usual
        BY <2>1, <2>3 DEF Selection!Left
      <3>2. RiskyOrder(order)'
        BY <3>1 DEF RiskyOrder, Selection!Usual
      <3> QED BY <3>1, <3>2, <2>1, <2>2 DEF SelectionInv, SelectionTypes, Selection!Usual,
                 Selection!Providers
    <2>4. CASE ~(Selection!Providers \subseteq exhausted')
      <3>1. order' = [p \in Selection!Providers \ exhausted' |-> Selection!Base(force)[p]]
        BY <2>1, <2>4 DEF Selection!Left
      <3>2. task.band = "critical" /\ choice.provider # "local" => RiskyOrder(order)'
        BY <3>1, OrderTyped DEF RiskyOrder, Selection!Providers
      <3>3. DOMAIN order' \subseteq Selection!Providers
            /\ \A p \in DOMAIN order' : order'[p] \in 0..6
        BY <3>1, OrderTyped
      <3> QED BY <3>2, <3>3, <2>1, <2>2 DEF SelectionInv, SelectionTypes
    <2> QED BY <2>3, <2>4
  <1> QED BY <1>1, <1>2, <1>3, <1>4 DEF Selection!Next

\* A step of the kernel is one of the part, or leaves it as it is
LEMMA SelectionSteps == [Next]_vars => [Selection!Next]_selectionVars
  BY DEF Next, Still, vars, selectionVars

\* The invariant of the part holds in every behaviour of the kernel
LEMMA SelectionAlways == Spec => []SelectionInv
  <1>1. Init => SelectionInv
    BY SelectionInit DEF Init
  <1>2. SelectionInv /\ [Next]_vars => SelectionInv'
    BY SelectionSteps, SelectionStep
  <1> QED BY <1>1, <1>2, PTL DEF Spec

\* A task whose text is risky gets a provider that is not the local model, is reviewed, and has
\* the local model behind the others in the order that a failure falls back on.
THEOREM RiskNotLocal == Spec => []RiskKeptFromLocal
  <1>1. SelectionInv => RiskKeptFromLocal
    BY SelectionShows DEF RiskKeptFromLocal
  <1> QED BY <1>1, SelectionAlways, PTL

-----------------------------------------------------------------------------
(* ModelCalls.  What a thread still has of its plan is without the models  *)
(* that were given up since it made the plan, except by others: so a model *)
(* is given up at most once by each thread that holds it.  What a thread has *)
(* read of the sum, with the answers that are not in it yet, is no more than *)
(* what was spent.                                                         *)

CallsTypes ==
    /\ kind \in {"retrying", "loop", "openai"}
    /\ blocked \subseteq Calls!Models /\ given \in [Calls!Models -> Nat]
    /\ used \in Nat /\ spent \in Nat /\ begun \in 0..MaxCalls /\ lost \in BOOLEAN
    /\ call \in [Threads -> Calls!Call]

Asking(c) ==
    c.at = "asking" => c.model \in Calls!Heads(c.rest) /\ c.tries < Retries

Holders(m) == {t \in Threads : call[t].at = "asking" /\ m \in Calls!ModelsOf(call[t].rest)}

\* A model is given up once by each thread that holds a plan with it, and a plan made since
\* is without it
GivenUpOnce(m) ==
    /\ m \notin blocked => given[m] = 0
    /\ m \in blocked => given[m] + Cardinality(Holders(m)) <= Cardinality(Threads)

\* What a thread read of the sum is no more than what was spent on the answers that are
\* registered; as long as no two threads were at it, the one at it has the sum as it is
Sums ==
    /\ used + Cardinality(Calls!Counting) <= spent
    /\ \A t \in Threads : call[t].at = "writing"
       => call[t].sum + Cardinality(Calls!Counting) <= spent
    /\ ~lost => /\ used + Cardinality(Calls!Counting) = spent
                /\ \A t \in Threads : call[t].at = "writing" => call[t].sum = used
                /\ \A t, u \in Threads : call[t].at = "writing" /\ call[u].at = "writing" => t = u

CallsInv ==
    /\ CallsTypes
    /\ \A t \in Threads : Asking(call[t])
    /\ \A m \in Calls!Models \ Extra : GivenUpOnce(m)
    /\ Sums

\* There are finitely many threads, and ModelCalls counts them as the library does
LEMMA CallsCardinality ==
    /\ IsFiniteSet(Threads)
    /\ \A S \in SUBSET Threads : IsFiniteSet(S) /\ Calls!Cardinality(S) = Cardinality(S)
                              /\ Cardinality(S) \in Nat /\ Cardinality(S) <= Cardinality(Threads)
  <1>1. \A S : Calls!Cardinality(S) = Cardinality(S)
    BY DEF Calls!Cardinality, Cardinality
  <1>2. IsFiniteSet(Threads)
    BY KernelAssumption DEF Calls!CallsAssumption, Calls!IsFiniteSet, IsFiniteSet
  <1> QED BY <1>1, <1>2, FS_Subset, FS_CardinalityType

\* The invariant says of the calls what the run checks
LEMMA CallsShow == CallsInv => Calls!TypeOK /\ Calls!GivenUpStaysOut /\ Calls!TokensAreOfAnswers
  <1> SUFFICES ASSUME CallsInv PROVE Calls!TypeOK /\ Calls!GivenUpStaysOut
                      /\ Calls!TokensAreOfAnswers
    OBVIOUS
  <1>1. Calls!TypeOK
    BY DEF CallsInv, CallsTypes, Asking, Calls!TypeOK
  <1>2. \A m \in Calls!Models \ Extra : given[m] <= Calls!Cardinality(Threads)
    <2> SUFFICES ASSUME NEW m \in Calls!Models \ Extra PROVE given[m] <= Calls!Cardinality(Threads)
      OBVIOUS
    <2>1. Cardinality(Holders(m)) \in Nat /\ Cardinality(Threads) \in Nat /\ given[m] \in Nat
      BY CallsCardinality DEF Holders, CallsInv, CallsTypes
    <2>2. GivenUpOnce(m) /\ Calls!Cardinality(Threads) = Cardinality(Threads)
      BY CallsCardinality DEF CallsInv
    <2> QED BY <2>1, <2>2 DEF GivenUpOnce
  <1>3. Calls!TokensAreOfAnswers
    <2>1. Calls!Counting \in SUBSET Threads
      BY DEF Calls!Counting
    <2>2. Cardinality(Calls!Counting) \in Nat
          /\ Calls!Cardinality(Calls!Counting) = Cardinality(Calls!Counting)
      BY <2>1, CallsCardinality
    <2> QED BY <2>2 DEF CallsInv, CallsTypes, Sums, Calls!TokensAreOfAnswers
  <1> QED BY <1>1, <1>2, <1>3 DEF Calls!GivenUpStaysOut

\* A thread without a call
LEMMA CallsIdle == Calls!Idle \in Calls!Call /\ Calls!Idle.at = "idle"
  <1>1. <<>> \in Seq(SUBSET Calls!Models)
    OBVIOUS
  <1> QED BY <1>1 DEF Calls!Idle, Calls!Call

\* No call is made, no model is given up and no token is spent at the beginning
LEMMA CallsInit ==
    ASSUME Calls!Init
    PROVE  CallsInv
  <1>1. CallsTypes
    <2>1. MaxCalls \in Nat
      BY KernelAssumption DEF Calls!CallsAssumption
    <2>2. call \in [Threads -> Calls!Call]
      BY CallsIdle DEF Calls!Init
    <2>3. given \in [Calls!Models -> Nat]
      BY DEF Calls!Init
    <2>4. kind \in {"retrying", "loop", "openai"} /\ blocked \subseteq Calls!Models
      BY DEF Calls!Init
    <2>5. used \in Nat /\ spent \in Nat /\ begun \in 0..MaxCalls
      BY <2>1 DEF Calls!Init
    <2>6. lost \in BOOLEAN
      BY Zenon DEF Calls!Init
    <2> QED BY <2>2, <2>3, <2>4, <2>5, <2>6, Zenon DEF CallsTypes
  <1>2. \A t \in Threads : call[t] = Calls!Idle /\ call[t].at = "idle"
    BY CallsIdle DEF Calls!Init
  <1>3. Calls!Counting = {}
    BY <1>2 DEF Calls!Counting
  <1>4. Cardinality({}) = 0
    BY FS_EmptySet
  <1>5. Sums
    BY <1>2, <1>3, <1>4 DEF Calls!Init, Sums
  <1> QED BY <1>1, <1>2, <1>5 DEF CallsInv, Asking, GivenUpOnce, Calls!Init

-----------------------------------------------------------------------------
(* Plans *)

\* Two plans one after the other are a plan of the models of both
LEMMA PlansJoined ==
    ASSUME NEW S, NEW s \in Seq(SUBSET S), NEW r \in Seq(SUBSET S)
    PROVE  /\ s \o r \in Seq(SUBSET S)
           /\ Calls!ModelsOf(s \o r) \subseteq Calls!ModelsOf(s) \cup Calls!ModelsOf(r)
  <1>1. s \o r \in Seq(SUBSET S) /\ Len(s \o r) = Len(s) + Len(r)
    BY ConcatProperties
  <1>2. ASSUME NEW i \in DOMAIN (s \o r)
        PROVE  (s \o r)[i] \subseteq Calls!ModelsOf(s) \cup Calls!ModelsOf(r)
    <2>1. CASE i <= Len(s)
      <3>1. i \in DOMAIN s /\ (s \o r)[i] = s[i]
        BY <1>1, <2>1, ConcatProperties
      <3> QED BY <3>1 DEF Calls!ModelsOf
    <2>2. CASE i > Len(s)
      <3>1. i - Len(s) \in DOMAIN r /\ (s \o r)[i] = r[i - Len(s)]
        BY <1>1, <2>2, ConcatProperties
      <3> QED BY <3>1 DEF Calls!ModelsOf
    <2> QED BY <2>1, <2>2, <1>1
  <1> QED BY <1>1, <1>2 DEF Calls!ModelsOf

\* A plan of one rank
LEMMA OneSet ==
    ASSUME NEW S, NEW x \in SUBSET S
    PROVE  <<x>> \in Seq(SUBSET S) /\ Calls!ModelsOf(<<x>>) \subseteq x
  BY DEF Calls!ModelsOf

\* A plan that names one model a rank
LEMMA EachTyped ==
    ASSUME NEW S, NEW s \in Seq(S)
    PROVE  Calls!Each(s) \in Seq(SUBSET S)
  BY DEF Calls!Each

\* A model that a plan may try next is of the plan
LEMMA HeadsIn ==
    ASSUME NEW plan, NEW m \in Calls!Heads(plan)
    PROVE  m \in Calls!ModelsOf(plan)
  BY DEF Calls!Heads, Calls!ModelsOf

\* A plan without a model is a plan, of the others
LEMMA WithoutOne ==
    ASSUME NEW plan \in Seq(SUBSET Calls!Models), NEW m
    PROVE  /\ Calls!Without(plan, m) \in Seq(SUBSET Calls!Models)
           /\ Calls!ModelsOf(Calls!Without(plan, m)) \subseteq Calls!ModelsOf(plan) \ {m}
  BY DEF Calls!Without, Calls!ModelsOf

\* What is left of a plan has no model that the session gave up
LEMMA UsableOnes ==
    ASSUME NEW plan \in Seq(SUBSET Calls!Models)
    PROVE  /\ Calls!Usable(plan) \in Seq(SUBSET Calls!Models)
           /\ Calls!ModelsOf(Calls!Usable(plan)) \cap blocked = {}
  BY DEF Calls!Usable, Calls!ModelsOf

\* A plan is made of known models, and of none that was given up but the extra one, which
\* openai_model_registry.py appends whatever the session says
LEMMA PlanTyped ==
    ASSUME NEW c, NEW names \in Calls!Listings
    PROVE  /\ Calls!PlanOf(c, names) \in Seq(SUBSET Calls!Models)
           /\ Calls!ModelsOf(Calls!PlanOf(c, names)) \cap blocked \subseteq Extra
  <1> DEFINE M == Calls!Models
  <1>1. /\ "lite" \in M /\ "flash" \in M /\ "pro" \in M /\ "thinking" \in M /\ "nano" \in M
           /\ "mini" \in M
        /\ Extra \subseteq M /\ DOMAIN Class \subseteq M
    BY DEF Calls!Models, Calls!Fixed
  <1> HIDE DEF M
  <1>2. ASSUME NEW band PROVE Calls!Fallbacks(band) \in Seq(M)
    BY <1>1 DEF Calls!Fallbacks
  <1>3. ASSUME NEW band PROVE Calls!Listed(band, names) \in Seq(SUBSET M)
    <2>1. Calls!Wanted(band) \in Seq(M)
      BY <1>1 DEF Calls!Wanted
    <2> QED BY <2>1, <1>1 DEF Calls!Listed, Calls!Listings
  <1>4. ASSUME NEW band PROVE Calls!Ranked(band, names) \in Seq(SUBSET M)
    <2>1. Calls!Each(Calls!Fallbacks(band)) \in Seq(SUBSET M)
      BY <1>2, EachTyped
    <2>2. <<Extra>> \in Seq(SUBSET M)
      BY <1>1, OneSet
    <2>3. Calls!Listed(band, names) \o Calls!Each(Calls!Fallbacks(band)) \in Seq(SUBSET M)
      BY <2>1, <1>3, PlansJoined
    <2>4. (Calls!Listed(band,
          names) \o Calls!Each(Calls!Fallbacks(band))) \o <<Extra>> \in Seq(SUBSET M)
      BY <2>2, <2>3, PlansJoined
    <2> QED BY <2>1, <2>4, <1>3 DEF Calls!Ranked
  <1>5. Calls!Affordable(c, names) \in Seq(SUBSET M)
    <2>1. <<{"nano"}>> \in Seq(SUBSET M) /\ <<{"nano"},
          {"mini"}>> \in Seq(SUBSET M) /\ <<{"lite"}, {"flash"}>> \in Seq(SUBSET M)
      BY <1>1
    <2>2. Calls!Ranked(c.band, names) \in Seq(SUBSET M)
      BY <1>4
    <2>3. <<{"nano"}, {"mini"}>> \o Calls!Ranked(c.band, names) \in Seq(SUBSET M)
      BY <2>1, <2>2, PlansJoined
    <2> QED BY <2>1, <2>2, <2>3 DEF Calls!Affordable
  <1>6. /\ Calls!Usable(Calls!Affordable(c, names)) \in Seq(SUBSET M)
        /\ Calls!ModelsOf(Calls!Usable(Calls!Affordable(c, names))) \cap blocked = {}
    BY <1>5, UsableOnes DEF M
  <1>7. <<>> \in Seq(SUBSET M) /\ Calls!ModelsOf(<<>>) = {}
    BY DEF Calls!ModelsOf
  <1>8. <<Extra>> \in Seq(SUBSET M) /\ Calls!ModelsOf(<<Extra>>) \subseteq Extra
    BY <1>1, OneSet
  <1>9. CASE kind = "openai"
    <2>1. Calls!PlanOf(c, names) = Calls!Usable(Calls!Affordable(c, names)) \o <<>>
      BY <1>9 DEF Calls!PlanOf
    <2>2. Calls!PlanOf(c, names) = Calls!Usable(Calls!Affordable(c, names))
      BY <2>1, <1>6, ConcatEmptySeq
    <2> QED BY <2>2, <1>6 DEF M
  <1>10. CASE kind # "openai"
    <2>1. Calls!PlanOf(c, names) = Calls!Usable(Calls!Affordable(c, names)) \o <<Extra>>
      BY <1>10 DEF Calls!PlanOf
    <2>2. Calls!PlanOf(c, names) \in Seq(SUBSET M)
      BY <2>1, <1>6, <1>8, PlansJoined
    <2>3. Calls!ModelsOf(Calls!PlanOf(c, names))
          \subseteq Calls!ModelsOf(Calls!Usable(Calls!Affordable(c,
              names))) \cup Calls!ModelsOf(<<Extra>>)
      BY <2>1, <1>6, <1>8, PlansJoined
    <2> QED BY <2>2, <2>3, <1>6, <1>8 DEF M
  <1> QED BY <1>9, <1>10

-----------------------------------------------------------------------------
(* Steps *)

\* One thread's call goes on, the others' stay
LEMMA CallsMove ==
    ASSUME CallsTypes, NEW t \in Threads, NEW c \in Calls!Call, call' = [call EXCEPT ![t] = c]
    PROVE  /\ call' \in [Threads -> Calls!Call]
           /\ call'[t] = c /\ \A u \in Threads \ {t} : call'[u] = call[u]
  BY DEF CallsTypes

\* A thread moves and gives up nothing
LEMMA PlansStay ==
    ASSUME CallsTypes, \A m \in Calls!Models \ Extra : GivenUpOnce(m), UNCHANGED <<blocked,
           given>>,
           NEW t \in Threads, NEW c \in Calls!Call, call' = [call EXCEPT ![t] = c],
           \A m \in Calls!Models \ Extra :
                c.at = "asking" /\ m \in Calls!ModelsOf(c.rest) /\ m \in blocked
                    => t \in Holders(m)
    PROVE  \A m \in Calls!Models \ Extra : GivenUpOnce(m)'
  <1> SUFFICES ASSUME NEW m \in Calls!Models \ Extra PROVE GivenUpOnce(m)'
    OBVIOUS
  <1>1. CASE m \notin blocked
    BY <1>1 DEF GivenUpOnce
  <1>2. CASE m \in blocked
    <2>1. Holders(m)' \subseteq Holders(m) /\ Holders(m) \subseteq Threads
      BY <1>2, CallsMove DEF Holders
    <2>2. Cardinality(Holders(m)') <= Cardinality(Holders(m))
      BY <2>1, CallsCardinality, FS_Subset
    <2>3. /\ Cardinality(Holders(m)') \in Nat /\ Cardinality(Holders(m)) \in Nat
          /\ Cardinality(Threads) \in Nat /\ given[m] \in Nat
      BY <2>1, CallsCardinality DEF CallsTypes
    <2> QED BY <1>2, <2>2, <2>3 DEF GivenUpOnce
  <1> QED BY <1>1, <1>2

\* A thread moves that is not at the sum before and after
LEMMA SumsStay ==
    ASSUME CallsTypes, Sums, UNCHANGED <<used, spent, lost>>,
           NEW t \in Threads, NEW c \in Calls!Call, call' = [call EXCEPT ![t] = c],
           call[t].at \notin {"counting", "writing"}, c.at \notin {"counting", "writing"}
    PROVE  Sums'
  <1>1. Calls!Counting' = Calls!Counting
    BY CallsMove DEF Calls!Counting
  <1>2. \A u \in Threads : call'[u].at = "writing" => call[u].at = "writing" /\ call'[u] = call[u]
    BY CallsMove
  <1> QED BY <1>1, <1>2 DEF Sums

\* A call begins, if the session's budget is not spent
LEMMA CallsBegin ==
    ASSUME CallsInv, NEW t \in Threads, Calls!Begin(t)
    PROVE  CallsInv'
  <1>1. CallsTypes /\ call[t].at = "idle" /\ UNCHANGED <<kind, used, blocked, spent, lost, given>>
    BY DEF CallsInv, Calls!Begin
  <1>2. PICK est \in {1, 3}, band \in ModelBands :
           call' = [call EXCEPT ![t] = [Calls!Idle EXCEPT !.at = "planning", !.band = band,
                                                          !.purse = Calls!Purse(est)]]
    BY DEF Calls!Begin
  <1> DEFINE c == [Calls!Idle EXCEPT !.at = "planning", !.band = band, !.purse = Calls!Purse(est)]
  <1>3. c \in Calls!Call /\ c.at = "planning"
    <2>1. Calls!Purse(est) \in {"empty", "short", "tight", "all"}
      BY <1>1 DEF Calls!Purse, CallsTypes
    <2> QED BY <2>1, CallsIdle DEF Calls!Idle, Calls!Call
  <1>4. call' = [call EXCEPT ![t] = c]
    BY <1>2
  <1> HIDE DEF c
  <1>5. begun' \in 0..MaxCalls
    BY <1>1, KernelAssumption DEF Calls!Begin, CallsTypes, Calls!CallsAssumption
  <1>6. CallsTypes'
    BY <1>1, <1>3, <1>4, <1>5, CallsMove DEF CallsTypes
  <1>7. (\A u \in Threads : Asking(call[u]))'
    BY <1>1, <1>3, <1>4, CallsMove DEF CallsInv, Asking
  <1>8. (\A m \in Calls!Models \ Extra : GivenUpOnce(m))'
    BY <1>1, <1>3, <1>4, PlansStay DEF CallsInv
  <1>9. Sums'
    BY <1>1, <1>3, <1>4, SumsStay DEF CallsInv
  <1> QED BY <1>6, <1>7, <1>8, <1>9 DEF CallsInv

\* A call that ends or goes on without an answer
LEMMA CallsGo ==
    ASSUME CallsInv, NEW t \in Threads, NEW c \in Calls!Call, call' = [call EXCEPT ![t] = c],
           UNCHANGED <<kind, used, blocked, begun, spent, lost, given>>,
           call[t].at \notin {"counting", "writing"}, c.at \notin {"counting", "writing"},
           Asking(c),
           \A m \in Calls!Models \ Extra :
                c.at = "asking" /\ m \in Calls!ModelsOf(c.rest) /\ m \in blocked
                    => t \in Holders(m)
    PROVE  CallsInv'
  <1>1. CallsTypes
    BY DEF CallsInv
  <1>2. CallsTypes'
    BY <1>1, CallsMove DEF CallsTypes
  <1>3. (\A u \in Threads : Asking(call[u]))'
    BY <1>1, CallsMove DEF CallsInv
  <1>4. (\A m \in Calls!Models \ Extra : GivenUpOnce(m))'
    BY <1>1, PlansStay DEF CallsInv
  <1>5. Sums'
    BY <1>1, SumsStay DEF CallsInv
  <1> QED BY <1>2, <1>3, <1>4, <1>5 DEF CallsInv

\* A call that tries a model of its plan
LEMMA TryTyped ==
    ASSUME NEW plan \in Seq(SUBSET Calls!Models), NEW m \in Calls!Heads(plan)
    PROVE  /\ Calls!Try(plan, m) \in Calls!Call /\ Asking(Calls!Try(plan, m))
           /\ Calls!Try(plan, m).rest = plan /\ Calls!Try(plan, m).at = "asking"
           /\ Calls!Try(plan, m).model = m
  <1>1. m \in Calls!Models
    BY HeadsIn DEF Calls!ModelsOf
  <1>2. Retries > 0
    BY KernelAssumption DEF Calls!CallsAssumption
  <1> QED BY <1>1, <1>2, CallsIdle DEF Calls!Try, Asking, Calls!Idle, Calls!Call

\* A call gets its plan, or its provider lists nothing
LEMMA CallsPlan ==
    ASSUME CallsInv, NEW t \in Threads, Calls!Plan(t) \/ Calls!NoListing(t)
    PROVE  CallsInv'
  <1>1. call[t].at = "planning" /\ UNCHANGED <<kind, used, blocked, begun, spent, lost, given>>
    BY DEF Calls!Plan, Calls!NoListing
  <1>2. ASSUME call' = [call EXCEPT ![t] = Calls!Idle] PROVE CallsInv'
    BY <1>1, <1>2, CallsIdle, CallsGo DEF Asking
  <1>3. ASSUME NEW names \in Calls!Listings, NEW m \in Calls!Heads(Calls!PlanOf(call[t], names)),
               call' = [call EXCEPT ![t] =
                   Calls!Try(IF kind = "openai" THEN <<{m}>> ELSE Calls!PlanOf(call[t], names),
                       m)]
        PROVE  CallsInv'
    <2> DEFINE plan == Calls!PlanOf(call[t], names)
               taken_ == IF kind = "openai" THEN <<{m}>> ELSE plan
    <2>1. /\ plan \in Seq(SUBSET Calls!Models)
             /\ Calls!ModelsOf(plan) \cap blocked \subseteq Extra
          /\ m \in Calls!Heads(plan) /\ m \in Calls!ModelsOf(plan)
      BY <1>3, PlanTyped, HeadsIn
    <2>2. m \in Calls!Models
      BY <2>1 DEF Calls!ModelsOf
    <2>3. <<{m}>> \in Seq(SUBSET Calls!Models) /\ Calls!ModelsOf(<<{m}>>) \subseteq {m}
      BY <2>2, OneSet
    <2>4. m \in Calls!Heads(<<{m}>>)
      BY DEF Calls!Heads
    <2>5. /\ taken_ \in Seq(SUBSET Calls!Models) /\ m \in Calls!Heads(taken_)
          /\ Calls!ModelsOf(taken_) \subseteq Calls!ModelsOf(plan)
      BY <2>1, <2>3, <2>4
    <2>6. call' = [call EXCEPT ![t] = Calls!Try(taken_, m)]
      BY <1>3
    <2> HIDE DEF taken_, plan
    <2>7. /\ Calls!Try(taken_, m) \in Calls!Call /\ Asking(Calls!Try(taken_, m))
          /\ Calls!Try(taken_, m).rest = taken_ /\ Calls!Try(taken_, m).at = "asking"
      BY <2>5, TryTyped
    <2> QED BY <1>1, <2>1, <2>5, <2>6, <2>7, CallsGo
  <1> QED BY <1>2, <1>3 DEF Calls!Plan, Calls!NoListing

\* What an attempt leaves of the call of a thread
LEMMA AfterTyped ==
    ASSUME NEW c \in Calls!Call, Asking(c), c.at = "asking", NEW o \in Calls!Outcomes,
           NEW after \in Calls!AfterAttempt(c, o)
    PROVE  /\ after \in Calls!Call /\ Asking(after)
           /\ after.at \in {"counting", "asking", "idle"}
           /\ (after.at = "counting") <=> (o = "answer")
           /\ after.at = "asking" => Calls!ModelsOf(after.rest) \subseteq Calls!ModelsOf(c.rest)
           /\ after.at = "asking" /\ Calls!GivenUp(c, o) =>
                    c.model \notin Calls!ModelsOf(after.rest)
  <1> DEFINE left == Calls!Without(c.rest, c.model)
  <1>1. /\ c.rest \in Seq(SUBSET Calls!Models) /\ c.tries \in Nat /\ Retries \in Nat
        /\ c.model \in Calls!Heads(c.rest)
    BY KernelAssumption DEF Calls!Call, Asking, Calls!CallsAssumption
  <1>2. left \in Seq(SUBSET Calls!Models)
        /\ Calls!ModelsOf(left) \subseteq Calls!ModelsOf(c.rest) \ {c.model}
    BY <1>1, WithoutOne
  <1> HIDE DEF left
  <1>3. CASE o = "answer" /\ after = [Calls!Idle EXCEPT !.at = "counting"]
    BY <1>3, CallsIdle DEF Calls!Idle, Calls!Call, Asking
  <1>4. CASE o # "answer" /\ c.tries + 1 < Retries /\ after = [c EXCEPT !.tries = c.tries + 1]
    <2>1. after \in Calls!Call /\ after.at = c.at /\ after.rest = c.rest /\ after.model = c.model
          /\ after.tries < Retries
      BY <1>1, <1>4 DEF Calls!Call
    <2>2. ~Calls!GivenUp(c, o)
      BY <1>1, <1>4 DEF Calls!GivenUp
    <2> QED BY <1>1, <1>4, <2>1, <2>2 DEF Asking
  <1>5. ASSUME NEW m \in Calls!Heads(left), o # "answer", after = Calls!Try(left, m)
        PROVE  /\ after \in Calls!Call /\ Asking(after) /\ after.at = "asking"
                  /\ after.rest = left
    BY <1>5, <1>2, TryTyped
  <1>6. CASE o # "answer" /\ after = Calls!Idle
    BY <1>6, CallsIdle DEF Asking
  <1>7. \/ o = "answer" /\ after = [Calls!Idle EXCEPT !.at = "counting"]
        \/ o # "answer" /\ c.tries + 1 < Retries /\ after = [c EXCEPT !.tries = c.tries + 1]
        \/ o # "answer" /\ \E m \in Calls!Heads(left) : after = Calls!Try(left, m)
        \/ o # "answer" /\ after = Calls!Idle
    BY DEF Calls!AfterAttempt, Calls!IsAnswer, left
  <1> QED BY <1>2, <1>3, <1>4, <1>5, <1>6, <1>7

\* A model is given up by a thread whose plan it was in, and is so no more
LEMMA PlansGive ==
    ASSUME CallsInv, NEW t \in Threads, NEW c \in Calls!Call, call' = [call EXCEPT ![t] = c],
           NEW x \in Calls!Models, t \in Holders(x),
           blocked' = blocked \cup {x}, given' = [given EXCEPT ![x] = given[x] + 1],
           c.at = "asking" =>
               Calls!ModelsOf(c.rest) \subseteq Calls!ModelsOf(call[t].rest) \ {x}
    PROVE  \A m \in Calls!Models \ Extra : GivenUpOnce(m)'
  <1> SUFFICES ASSUME NEW m \in Calls!Models \ Extra PROVE GivenUpOnce(m)'
    OBVIOUS
  <1>1. CallsTypes /\ GivenUpOnce(m) /\ given \in [Calls!Models -> Nat]
    BY DEF CallsInv, CallsTypes
  <1>2. /\ Holders(m) \subseteq Threads /\ Holders(m)' \subseteq Holders(m)
        /\ call[t].at = "asking"
    BY <1>1, CallsMove DEF Holders
  <1>3. /\ Cardinality(Holders(m)') \in Nat /\ Cardinality(Holders(m)) \in Nat
        /\ Cardinality(Threads) \in Nat /\ given[m] \in Nat
        /\ Cardinality(Holders(m)') <= Cardinality(Holders(m))
        /\ IsFiniteSet(Holders(m)) /\ IsFiniteSet(Threads)
    BY <1>1, <1>2, CallsCardinality, FS_Subset
  <1>4. CASE m # x
    BY <1>1, <1>3, <1>4 DEF GivenUpOnce
  <1>5. CASE m = x
    <2>1. t \notin Holders(m)' /\ given'[m] = given[m] + 1 /\ m \in blocked'
      BY <1>1, <1>5, CallsMove DEF Holders
    <2>2. CASE m \in blocked
      <3>1. Holders(m)' \subseteq Holders(m) \ {t} /\ t \in Holders(m)
        BY <1>2, <1>5, <2>1
      <3>2. Cardinality(Holders(m) \ {t}) = Cardinality(Holders(m)) - 1
            /\ IsFiniteSet(Holders(m) \ {t})
        BY <3>1, <1>3, FS_RemoveElement
      <3>3. Cardinality(Holders(m)') <= Cardinality(Holders(m)) - 1
        BY <3>1, <3>2, FS_Subset
      <3> QED BY <1>1, <1>3, <2>1, <2>2, <3>3 DEF GivenUpOnce
    <2>3. CASE m \notin blocked
      <3>1. Holders(m)' \subseteq Threads \ {t}
        BY <1>2, <2>1
      <3>2. Cardinality(Threads \ {t}) = Cardinality(Threads) - 1 /\ IsFiniteSet(Threads \ {t})
        BY <1>3, FS_RemoveElement
      <3>3. Cardinality(Holders(m)') <= Cardinality(Threads) - 1
        BY <3>1, <3>2, FS_Subset
      <3> QED BY <1>1, <1>3, <2>1, <2>3, <3>3 DEF GivenUpOnce
    <2> QED BY <2>2, <2>3
  <1> QED BY <1>4, <1>5

\* An attempt answers, fails, or gives its model up
LEMMA CallsAttempt ==
    ASSUME CallsInv, NEW t \in Threads, Calls!Attempt(t)
    PROVE  CallsInv'
  <1>1. /\ CallsTypes /\ call[t] \in Calls!Call /\ call[t].at = "asking" /\ Asking(call[t])
        /\ UNCHANGED <<kind, used, begun, lost>>
    BY DEF CallsInv, CallsTypes, Calls!Attempt
  <1>2. PICK o \in Calls!Outcomes :
          /\ \E after \in Calls!AfterAttempt(call[t], o) : call' = [call EXCEPT ![t] = after]
          /\ spent' = IF o = "answer" THEN spent + 1 ELSE spent
          /\ IF Calls!GivenUp(call[t], o)
             THEN /\ blocked' = blocked \cup {call[t].model}
                  /\ given' = [given EXCEPT ![call[t].model] = @ + 1]
             ELSE UNCHANGED <<blocked, given>>
    BY DEF Calls!Attempt
  <1>3. PICK c \in Calls!AfterAttempt(call[t], o) : call' = [call EXCEPT ![t] = c]
    BY <1>2
  <1>4. /\ c \in Calls!Call /\ Asking(c) /\ c.at \in {"counting", "asking", "idle"}
        /\ (c.at = "counting") <=> (o = "answer")
        /\ c.at = "asking" => Calls!ModelsOf(c.rest) \subseteq Calls!ModelsOf(call[t].rest)
        /\ c.at = "asking" /\ Calls!GivenUp(call[t], o)
           => call[t].model \notin Calls!ModelsOf(c.rest)
    BY <1>1, AfterTyped
  <1>5. /\ call[t].model \in Calls!Models /\ t \in Holders(call[t].model)
        /\ \A m : m \in Calls!ModelsOf(call[t].rest) => t \in Holders(m)
    <2>1. call[t].model \in Calls!ModelsOf(call[t].rest)
          /\ call[t].rest \in Seq(SUBSET Calls!Models)
      BY <1>1, HeadsIn DEF Asking, Calls!Call
    <2>2. call[t].model \in Calls!Models
      BY <2>1 DEF Calls!ModelsOf
    <2> QED BY <1>1, <2>1, <2>2 DEF Holders
  <1>6. (\A m \in Calls!Models \ Extra : GivenUpOnce(m))'
    <2>1. CASE Calls!GivenUp(call[t], o)
      BY <2>1, <1>1, <1>2, <1>3, <1>4, <1>5, PlansGive
    <2>2. CASE ~Calls!GivenUp(call[t], o)
      BY <2>2, <1>1, <1>2, <1>3, <1>4, <1>5, PlansStay DEF CallsInv
    <2> QED BY <2>1, <2>2
  <1>7. CallsTypes'
    <2>1. blocked' \subseteq Calls!Models /\ given' \in [Calls!Models -> Nat]
      BY <1>1, <1>2, <1>5 DEF CallsTypes
    <2>2. spent' \in Nat
      BY <1>1, <1>2 DEF CallsTypes
    <2>3. call' \in [Threads -> Calls!Call]
      BY <1>1, <1>3, <1>4, CallsMove
    <2> QED BY <1>1, <2>1, <2>2, <2>3 DEF CallsTypes
  <1>8. (\A u \in Threads : Asking(call[u]))'
    BY <1>1, <1>3, <1>4, CallsMove DEF CallsInv
  <1>9. Sums'
    <2>1. CASE o # "answer"
      BY <2>1, <1>1, <1>2, <1>3, <1>4, SumsStay DEF CallsInv
    <2>2. CASE o = "answer"
      <3>1. Calls!Counting' = Calls!Counting \cup {t} /\ t \notin Calls!Counting
            /\ Calls!Counting \subseteq Threads
        BY <2>2, <1>1, <1>3, <1>4, CallsMove DEF Calls!Counting
      <3>2. Cardinality(Calls!Counting') = Cardinality(Calls!Counting) + 1
            /\ Cardinality(Calls!Counting) \in Nat
        BY <3>1, CallsCardinality, FS_AddElement
      <3>3. spent' = spent + 1 /\ spent \in Nat /\ used \in Nat
        BY <2>2, <1>1, <1>2 DEF CallsTypes
      <3>4. \A u \in Threads : call'[u].at = "writing"
            => call[u].at = "writing" /\ call'[u] = call[u]
        BY <2>2, <1>1, <1>3, <1>4, CallsMove
      <3>5. \A u \in Threads : call[u].sum \in Nat
        BY <1>1 DEF CallsTypes, Calls!Call
      <3> QED BY <1>1, <3>2, <3>3, <3>4, <3>5 DEF CallsInv, Sums
    <2> QED BY <2>1, <2>2
  <1> QED BY <1>6, <1>7, <1>8, <1>9 DEF CallsInv

\* The tokens of the session are read
LEMMA CallsReadSum ==
    ASSUME CallsInv, NEW t \in Threads, Calls!ReadSum(t)
    PROVE  CallsInv'
  <1> DEFINE c == [call[t] EXCEPT !.at = "writing", !.sum = used]
  <1>1. /\ CallsTypes /\ call[t] \in Calls!Call /\ call[t].at = "counting"
           /\ call' = [call EXCEPT ![t] = c]
        /\ UNCHANGED <<kind, used, blocked, begun, spent, given>> /\ used \in Nat /\ spent \in Nat
        /\ lost' = (lost \/ \E u \in Threads : call[u].at = "writing")
    BY DEF CallsInv, CallsTypes, Calls!ReadSum
  <1>2. c \in Calls!Call /\ c.at = "writing" /\ c.sum = used
    BY <1>1 DEF Calls!Call
  <1> HIDE DEF c
  <1>3. lost' \in BOOLEAN
    BY <1>1, Zenon
  <1>4. CallsTypes'
    BY <1>1, <1>2, <1>3, CallsMove DEF CallsTypes
  <1>5. (\A u \in Threads : Asking(call[u]))'
    BY <1>1, <1>2, CallsMove DEF CallsInv, Asking
  <1>6. (\A m \in Calls!Models \ Extra : GivenUpOnce(m))'
    BY <1>1, <1>2, PlansStay DEF CallsInv
  <1>7. Calls!Counting' = Calls!Counting
    BY <1>1, <1>2, CallsMove DEF Calls!Counting
  <1>8. Sums'
    <2>1. used + Cardinality(Calls!Counting) <= spent
          /\ used + Cardinality(Calls!Counting)' <= spent'
      BY <1>1, <1>7 DEF CallsInv, Sums
    <2>2. ASSUME NEW u \in Threads, call'[u].at = "writing"
          PROVE  call'[u].sum + Cardinality(Calls!Counting)' <= spent'
      BY <1>1, <1>2, <1>7, <2>1, <2>2, CallsMove DEF CallsInv, Sums
    <2>3. ASSUME ~lost'
          PROVE  ~lost /\ \A u \in Threads : call[u].at # "writing"
      BY <1>1, <2>3, Zenon
    <2>4. ASSUME ~lost'
          PROVE  \A u \in Threads : call'[u].at = "writing" => u = t
      BY <1>1, <1>2, <2>3, <2>4, CallsMove
    <2>5. ASSUME ~lost' PROVE used' + Cardinality(Calls!Counting)' = spent'
      BY <1>1, <1>7, <2>3, <2>5 DEF CallsInv, Sums
    <2> QED BY <1>1, <1>2, <2>1, <2>2, <2>4, <2>5, CallsMove DEF Sums
  <1> QED BY <1>4, <1>5, <1>6, <1>8 DEF CallsInv

\* The tokens of the session are written, with those of the answer
LEMMA CallsWriteSum ==
    ASSUME CallsInv, NEW t \in Threads, Calls!WriteSum(t)
    PROVE  CallsInv'
  <1>1. /\ CallsTypes /\ call[t] \in Calls!Call /\ call[t].at = "writing"
           /\ call' = [call EXCEPT ![t] = Calls!Idle]
        /\ UNCHANGED <<kind, blocked, begun, spent, lost, given>> /\ used \in Nat /\ spent \in Nat
        /\ used' = call[t].sum + 1 /\ call[t].sum \in Nat
    BY DEF CallsInv, CallsTypes, Calls!WriteSum, Calls!Call
  <1>2. Calls!Idle \in Calls!Call /\ Calls!Idle.at = "idle"
    BY CallsIdle
  <1>3. CallsTypes'
    BY <1>1, <1>2, CallsMove DEF CallsTypes
  <1>4. (\A u \in Threads : Asking(call[u]))'
    BY <1>1, <1>2, CallsMove DEF CallsInv, Asking
  <1>5. (\A m \in Calls!Models \ Extra : GivenUpOnce(m))'
    BY <1>1, <1>2, PlansStay DEF CallsInv
  <1>6. Calls!Counting' = Calls!Counting \ {t} /\ t \in Calls!Counting
        /\ Calls!Counting \subseteq Threads
    BY <1>1, <1>2, CallsMove DEF Calls!Counting
  <1>7. Cardinality(Calls!Counting') = Cardinality(Calls!Counting) - 1
        /\ Cardinality(Calls!Counting) \in Nat
    BY <1>6, CallsCardinality, FS_RemoveElement
  <1>8. \A u \in Threads : call'[u].at = "writing"
        => call[u].at = "writing" /\ call'[u] = call[u] /\ u # t
    BY <1>1, <1>2, CallsMove
  <1>9. Sums'
    <2>1. used' + Cardinality(Calls!Counting') <= spent
      BY <1>1, <1>7 DEF CallsInv, Sums
    <2>2. ASSUME NEW u \in Threads, call'[u].at = "writing"
          PROVE  call'[u].sum + Cardinality(Calls!Counting') <= spent
      <3>1. call'[u].sum + Cardinality(Calls!Counting) <= spent /\ call'[u].sum \in Nat
        BY <2>2, <1>1, <1>8 DEF CallsInv, CallsTypes, Calls!Call, Sums
      <3> QED BY <3>1, <1>1, <1>7
    <2>3. ASSUME ~lost PROVE used' = used + 1 /\ used + Cardinality(Calls!Counting) = spent
      BY <1>1, <2>3 DEF CallsInv, Sums
    <2>4. ASSUME ~lost PROVE \A u \in Threads : call'[u].at # "writing"
      BY <1>1, <1>8, <2>4 DEF CallsInv, Sums
    <2> QED BY <1>1, <1>7, <2>1, <2>2, <2>3, <2>4 DEF Sums
  <1> QED BY <1>3, <1>4, <1>5, <1>9 DEF CallsInv

\* Every step of the calls keeps their invariant
LEMMA CallsStep ==
    ASSUME CallsInv, [Calls!Next]_callsVars
    PROVE  CallsInv'
  <1>1. CASE UNCHANGED callsVars
    <2>1. CallsTypes' /\ Sums' /\ (\A t \in Threads : Asking(call[t]))'
      BY <1>1 DEF callsVars, CallsInv, CallsTypes, Sums, Asking, Calls!Counting
    <2>2. (\A m \in Calls!Models \ Extra : GivenUpOnce(m))'
      BY <1>1 DEF callsVars, CallsInv, GivenUpOnce, Holders
    <2> QED BY <2>1, <2>2 DEF CallsInv
  <1> QED BY <1>1, CallsBegin, CallsPlan, CallsAttempt, CallsReadSum, CallsWriteSum DEF Calls!Next

\* A step of the kernel is one of the part, or leaves it as it is
LEMMA CallsSteps == [Next]_vars => [Calls!Next]_callsVars
  BY DEF Next, Still, vars, callsVars

\* The invariant of the part holds in every behaviour of the kernel
LEMMA CallsAlways == Spec => []CallsInv
  <1>1. Init => CallsInv
    BY CallsInit DEF Init
  <1>2. CallsInv /\ [Next]_vars => CallsInv'
    BY CallsSteps, CallsStep
  <1> QED BY <1>1, <1>2, PTL DEF Spec

\* A model that a session gave up, because it was refused or its quota is spent, is tried again
\* by no plan made afterwards: what it is given up for later was planned before.
THEOREM GivenUpCorrect == Spec => []GivenUpStaysOut
  <1>1. CallsInv => GivenUpStaysOut
    BY CallsShow DEF GivenUpStaysOut
  <1> QED BY <1>1, CallsAlways, PTL

\* The tokens registered for a session are never more than those of the answers it got, and all
\* of them unless two threads were at the sum at once.
THEOREM TokensCorrect == Spec => []TokensAreOfAnswers
  <1>1. CallsInv => TokensAreOfAnswers
    BY CallsShow DEF TokensAreOfAnswers
  <1> QED BY <1>1, CallsAlways, PTL

-----------------------------------------------------------------------------
(* LocalModel.  An address is put into the module only once it has answered, *)
(* so that whoever has seen an answer goes on to an address that has       *)
(* answered, be it the one that it saw or another thread's.                *)

LocalUse(u, a) ==
    /\ u.at \in {"listing", "trying", "answered"} => u.urls # <<>>
    /\ u.at = "answered" => Head(u.urls) \in a

LocalUses ==
    /\ use \in [Local!Users -> Local!Use]
    /\ \A u \in Local!Users : LocalUse(use[u], answered)
    /\ \A u \in Local!Users : use[u].at \in {"query", "post"} => endpoint \in answered

LocalMakers ==
    /\ box \subseteq Local!Facts
    /\ at \in [Local!Makers ->
                {"none", "cold_boot", "load", "autostart", "exists", "create", "install",
                 "start", "verify", "boot", "probe", "list", "done"}]
    /\ told \in [Local!Makers -> {"nothing", "off", "not", "ready"}]

LocalInv ==
    /\ endpoint \in Local!Names /\ reach \subseteq Local!Names
    /\ shown \in {"none", "ready", "degraded", "error"}
    /\ uses \in 0..MaxUses
    /\ LocalMakers /\ LocalUses
    /\ Local!AskedWhereAnswered

\* The invariant says of the local model what the run checks
LEMMA LocalShows == LocalInv => Local!TypeOK /\ Local!AskedWhereAnswered
  BY DEF LocalInv, LocalMakers, LocalUses, LocalUse, Local!TypeOK

\* Nothing is asked at the beginning, and the address configured is the one tried first
LEMMA LocalInit ==
    ASSUME Local!Init
    PROVE  LocalInv
  <1>1. Local!NoUse \in Local!Use /\ LocalUse(Local!NoUse, answered)
    BY DEF Local!NoUse, Local!Use, LocalUse
  <1>2. LocalUses
    BY <1>1 DEF Local!Init, LocalUses, Local!NoUse
  <1>3. LocalMakers
    BY DEF Local!Init, LocalMakers, Local!Facts
  <1>4. reach \subseteq Local!Names /\ endpoint \in Local!Names
    BY DEF Local!Init, Local!Names
  <1> QED BY <1>2, <1>3, <1>4, KernelAssumption
          DEF Local!Init, LocalInv, Local!AskedWhereAnswered, Local!UsesAssumption

\* One thread goes on to a probe or a question, at addresses that have answered
LEMMA LocalMove ==
    ASSUME LocalUses, NEW u \in Local!Users, NEW c \in Local!Use, use' = [use EXCEPT ![u] = c],
           LocalUse(c, answered'), c.at \in {"query", "post"} => endpoint' \in answered',
           answered \subseteq answered', endpoint' = endpoint \/ endpoint' \in answered'
    PROVE  LocalUses'
  <1>1. use' \in [Local!Users -> Local!Use] /\ use'[u] = c
    BY DEF LocalUses
  <1>2. \A v \in Local!Users : v # u => use'[v] = use[v]
    BY DEF LocalUses
  <1>3. ASSUME NEW v \in Local!Users
        PROVE  LocalUse(use[v], answered)'
               /\ (use'[v].at \in {"query", "post"} => endpoint' \in answered')
    <2>1. CASE v = u
      BY <1>1, <2>1 DEF LocalUse
    <2>2. CASE v # u
      BY <1>2, <2>2 DEF LocalUses, LocalUse
    <2> QED BY <2>1, <2>2
  <1> QED BY <1>1, <1>3 DEF LocalUses

\* A sequence of one address
LEMMA OneItem ==
    ASSUME NEW S, NEW x \in S
    PROVE  <<x>> \in Seq(S) /\ <<x>> # <<>> /\ Head(<<x>>) = x
  OBVIOUS

\* What is left of the addresses after the first
LEMMA TailOf ==
    ASSUME NEW S, NEW s \in Seq(S), s # <<>>
    PROVE  Tail(s) \in Seq(S) /\ (Len(s) > 1 => Tail(s) # <<>>)
  <1>1. PICK r \in Seq(S) : r = Tail(s) /\ Len(r) = Len(s) - 1
    BY HeadTailProperties
  <1>2. Len(r) = Len(s) - 1
    BY <1>1
  <1>3. Len(s) > 1 => r # <<>>
    BY <1>2
  <1> QED BY <1>1, <1>3, Zenon

\* The other address of an endpoint, if it has one
LEMMA Alternatives ==
    ASSUME NEW e
    PROVE  Local!Alternative(e) \in Seq(Local!Names)
  <1>1. "loop" \in Local!Names /\ "containers" \in Local!Names
    BY DEF Local!Names
  <1>2. <<"loop">> \in Seq(Local!Names) /\ <<"containers">> \in Seq(Local!Names)
    BY <1>1, OneItem
  <1>3. <<>> \in Seq(Local!Names)
    OBVIOUS
  <1> QED BY <1>2, <1>3 DEF Local!Alternative

\* A thread that asks nothing
LEMMA LocalNothing == Local!NoUse \in Local!Use /\ \A a : LocalUse(Local!NoUse, a)
    /\ Local!NoUse.at = "none"
  BY DEF Local!NoUse, Local!Use, LocalUse

\* Each step of a probe or a question
LEMMA LocalFirstUrl ==
    ASSUME LocalInv, NEW u \in Local!Users, Local!FirstUrl(u)
    PROVE  LocalUses'
  <1> DEFINE c == [Local!NoUse EXCEPT !.at = "listing", !.urls = <<endpoint>>]
  <1>1. c \in Local!Use /\ LocalUse(c, answered) /\ c.at = "listing"
    <2>1. <<endpoint>> \in Seq(Local!Names) /\ <<endpoint>> # <<>>
      BY OneItem DEF LocalInv
    <2> QED BY <2>1 DEF Local!NoUse, Local!Use, LocalUse
  <1>2. use' = [use EXCEPT ![u] = c] /\ UNCHANGED <<endpoint, answered>>
    BY DEF Local!FirstUrl
  <1> HIDE DEF c
  <1> QED BY <1>1, <1>2, LocalMove DEF LocalInv

\* The first address of a question did not answer, the next one is tried
LEMMA LocalOtherUrl ==
    ASSUME LocalInv, NEW u \in Local!Users, Local!OtherUrl(u)
    PROVE  LocalUses'
  <1> DEFINE urls == use[u].urls \o Local!Alternative(endpoint)
             c == [use[u] EXCEPT !.at = "trying", !.urls = urls]
  <1>1. use[u] \in Local!Use /\ use[u].urls # <<>> /\ use[u].urls \in Seq(Local!Names)
    BY DEF Local!OtherUrl, LocalInv, LocalUses, LocalUse, Local!Use
  <1>2. urls \in Seq(Local!Names) /\ urls # <<>>
    BY <1>1, Alternatives
  <1>3. c \in Local!Use /\ LocalUse(c, answered) /\ c.at = "trying"
    BY <1>1, <1>2 DEF Local!Use, LocalUse
  <1>4. use' = [use EXCEPT ![u] = c] /\ UNCHANGED <<endpoint, answered>>
    BY DEF Local!OtherUrl, LocalInv, LocalUses
  <1> HIDE DEF c
  <1> QED BY <1>3, <1>4, LocalMove DEF LocalInv

\* An address is tried: it answers, or the next one is left
LEMMA LocalTry ==
    ASSUME LocalInv, NEW u \in Local!Users, Local!Try(u)
    PROVE  LocalUses' /\ answered \subseteq answered' /\ UNCHANGED endpoint
  <1> DEFINE url == Head(use[u].urls)
  <1>1. /\ use[u] \in Local!Use /\ use[u].urls # <<>> /\ use[u].urls \in Seq(Local!Names)
        /\ UNCHANGED endpoint
    BY DEF Local!Try, Local!KeptBefore, LocalInv, LocalUses, LocalUse, Local!Use
  <1>2. ASSUME NEW f \in {"ready", "degraded"}, answered' = answered \cup {url},
               use' = [use EXCEPT ![u].at = "answered", ![u].found = f]
        PROVE  LocalUses'
    <2> DEFINE c == [use[u] EXCEPT !.at = "answered", !.found = f]
    <2>1. c \in Local!Use /\ LocalUse(c, answered') /\ c.at = "answered"
      BY <1>1, <1>2 DEF Local!Use, LocalUse
    <2>2. use' = [use EXCEPT ![u] = c]
      BY <1>2 DEF LocalInv, LocalUses
    <2> HIDE DEF c
    <2> QED BY <1>1, <1>2, <2>1, <2>2, LocalMove DEF LocalInv
  <1>3. ASSUME NEW a \in {"trying", "found"}, a = "trying" => Len(use[u].urls) > 1,
                   UNCHANGED answered,
               use' = [use EXCEPT ![u].urls = Tail(@), ![u].found = "error", ![u].at = a]
        PROVE  LocalUses'
    <2> DEFINE c == [use[u] EXCEPT !.urls = Tail(use[u].urls), !.found = "error", !.at = a]
    <2>1. Tail(use[u].urls) \in Seq(Local!Names) /\ (a = "trying" => Tail(use[u].urls) # <<>>)
      BY <1>1, <1>3, TailOf
    <2>2. c \in Local!Use /\ c.at = a /\ c.urls = Tail(use[u].urls)
      BY <1>1, <2>1 DEF Local!Use
    <2>3. use' = [use EXCEPT ![u] = c]
      BY <1>3 DEF LocalInv, LocalUses
    <2> HIDE DEF c
    <2>4. LocalUse(c, answered')
      BY <2>1, <2>2 DEF LocalUse
    <2> QED BY <1>1, <1>3, <2>2, <2>3, <2>4, LocalMove DEF LocalInv
  <1>4. LocalUses'
    BY <1>2, <1>3 DEF Local!Try
  <1>5. answered \subseteq answered'
    BY DEF Local!Try
  <1> QED BY <1>1, <1>4, <1>5

\* The address that answered is kept
LEMMA LocalKeep ==
    ASSUME LocalInv, NEW u \in Local!Users, Local!Keep(u)
    PROVE  LocalUses' /\ endpoint' \in Local!Names
  <1> DEFINE c == [use[u] EXCEPT !.at = "found"]
  <1>1. /\ use[u] \in Local!Use /\ use[u].urls # <<>> /\ use[u].urls \in Seq(Local!Names)
        /\ Head(use[u].urls) \in answered
    BY DEF Local!Keep, LocalInv, LocalUses, LocalUse, Local!Use
  <1>2. c \in Local!Use /\ c.at = "found"
    BY <1>1 DEF Local!Use
  <1>3. use' = [use EXCEPT ![u] = c] /\ endpoint' \in answered /\ UNCHANGED answered
    BY <1>1 DEF Local!Keep, LocalInv, LocalUses
  <1>4. endpoint' \in Local!Names
    BY <1>1 DEF Local!Keep
  <1> HIDE DEF c
  <1>5. LocalUse(c, answered')
    BY <1>2 DEF LocalUse
  <1> QED BY <1>2, <1>3, <1>4, <1>5, LocalMove DEF LocalInv

\* A thread is done
LEMMA LocalEnd ==
    ASSUME LocalInv, NEW u \in Local!Users, use' = [use EXCEPT ![u] = Local!NoUse],
           UNCHANGED <<endpoint, answered>>
    PROVE  LocalUses'
  BY LocalNothing, LocalMove DEF LocalInv

\* A question goes on if the model is ready
LEMMA LocalReady ==
    ASSUME LocalInv, NEW u \in Local!Users, NEW next \in {"query", "post"},
           Local!IsReady(next, u), UNCHANGED endpoint
    PROVE  LocalUses' /\ answered \subseteq answered'
  <1> DEFINE c == [use[u] EXCEPT !.at = next]
  <1>1. CASE answered' = answered \cup {endpoint} /\ use' = [use EXCEPT ![u].at = next]
    <2>1. use[u] \in Local!Use
      BY DEF LocalInv, LocalUses
    <2>2. c \in Local!Use /\ c.at = next
      BY <2>1 DEF Local!Use
    <2>3. use' = [use EXCEPT ![u] = c]
      BY <1>1 DEF LocalInv, LocalUses
    <2> HIDE DEF c
    <2>4. LocalUse(c, answered')
      BY <2>2 DEF LocalUse
    <2> QED BY <1>1, <2>2, <2>3, <2>4, LocalMove DEF LocalInv
  <1>2. CASE UNCHANGED answered /\ use' = [use EXCEPT ![u] = Local!NoUse]
    BY <1>2, LocalEnd
  <1> QED BY <1>1, <1>2 DEF Local!IsReady

\* The steps of the threads and of the module's loading
LEMMA LocalUser ==
    ASSUME LocalInv,
           \/ \E u \in Local!Users : Local!OtherUrl(u) \/ Local!Try(u) \/ Local!Keep(u)
           \/ \E t \in Threads : \/ Local!BeginProbe(t) \/ Local!EndProbe(t)
                                 \/ Local!BeginQuestion(t) \/ Local!QueryReady(t) \/ Local!Post(t)
           \/ Local!Load \/ Local!EndLoad
    PROVE  LocalInv'
  <1>1. Threads \subseteq Local!Users /\ Local!Loader \in Local!Users
    BY DEF Local!Users
  <1>2. LocalUses' /\ answered \subseteq answered' /\ endpoint' \in Local!Names
    <2>1. ASSUME NEW u \in Local!Users, Local!OtherUrl(u) \/ Local!Try(u) \/ Local!Keep(u)
          PROVE  LocalUses' /\ answered \subseteq answered' /\ endpoint' \in Local!Names
      <3>1. CASE Local!OtherUrl(u)
        BY <3>1, LocalOtherUrl DEF Local!OtherUrl, LocalInv
      <3>2. CASE Local!Try(u)
        BY <3>2, LocalTry DEF LocalInv
      <3>3. CASE Local!Keep(u)
        BY <3>3, LocalKeep DEF Local!Keep
      <3> QED BY <2>1, <3>1, <3>2, <3>3
    <2>2. ASSUME NEW t \in Threads,
                 \/ Local!BeginProbe(t) \/ Local!EndProbe(t)
                 \/ Local!BeginQuestion(t) \/ Local!QueryReady(t) \/ Local!Post(t)
          PROVE  LocalUses' /\ answered \subseteq answered' /\ endpoint' \in Local!Names
      <3>1. CASE Local!BeginProbe(t)
        BY <1>1, <3>1, LocalFirstUrl DEF Local!BeginProbe, Local!FirstUrl, LocalInv
      <3>2. CASE Local!EndProbe(t)
        BY <1>1, <3>2, LocalEnd DEF Local!EndProbe, LocalInv
      <3>3. CASE Local!BeginQuestion(t)
        BY <1>1, <3>3, LocalReady DEF Local!BeginQuestion, LocalInv
      <3>4. CASE Local!QueryReady(t)
        BY <1>1, <3>4, LocalReady DEF Local!QueryReady, LocalInv
      <3>5. CASE Local!Post(t)
        BY <1>1, <3>5, LocalEnd DEF Local!Post, LocalInv
      <3> QED BY <2>2, <3>1, <3>2, <3>3, <3>4, <3>5
    <2>3. CASE Local!Load
      BY <1>1, <2>3, LocalFirstUrl DEF Local!Load, Local!FirstUrl, LocalInv
    <2>4. CASE Local!EndLoad
      BY <1>1, <2>4, LocalEnd DEF Local!EndLoad, LocalInv
    <2> QED BY <2>1, <2>2, <2>3, <2>4
  <1>3. /\ UNCHANGED <<reach, box, told>>
        /\ at' = at \/ at' = [at EXCEPT !["kernel"] = "autostart"]
        /\ uses' = uses \/ (uses < MaxUses /\ uses' = uses + 1)
        /\ shown' = shown \/ (shown' = use[Local!Loader].found /\ use[Local!Loader].at = "found")
    BY DEF Local!OtherUrl, Local!Try, Local!Keep, Local!BeginProbe, Local!EndProbe,
           Local!BeginQuestion, Local!QueryReady, Local!Post, Local!Load, Local!EndLoad,
           Local!FirstUrl
  <1>4. LocalMakers'
    BY <1>3 DEF LocalInv, LocalMakers
  <1>5. Local!AskedWhereAnswered'
    <2>1. ASSUME NEW t \in Threads, Local!Post(t) PROVE asked' \subseteq answered'
      BY <1>1, <2>1 DEF Local!Post, LocalInv, LocalUses, Local!AskedWhereAnswered
    <2>2. asked' = asked \/ \E t \in Threads : Local!Post(t)
      BY DEF Local!OtherUrl, Local!Try, Local!Keep, Local!BeginProbe, Local!EndProbe,
             Local!BeginQuestion, Local!QueryReady, Local!Load, Local!EndLoad, Local!FirstUrl
    <2> QED BY <1>2, <2>1, <2>2 DEF LocalInv, Local!AskedWhereAnswered
  <1>6. uses' \in 0..MaxUses
    BY <1>3, KernelAssumption DEF LocalInv, Local!UsesAssumption
  <1>7. use[Local!Loader].found \in {"none", "error", "degraded", "ready"}
    BY <1>1 DEF LocalInv, LocalUses, Local!Use
  <1>8. shown' \in {"none", "ready", "degraded", "error"} /\ UNCHANGED reach
    BY <1>3, <1>7 DEF LocalInv
  <1> QED BY <1>2, <1>4, <1>5, <1>6, <1>8 DEF LocalInv

\* What is installed in the box, and where those are that install it
LEMMA LocalGoTo ==
    ASSUME LocalMakers, NEW m \in Local!Makers,
           NEW next \in {"load", "exists", "create", "install", "start", "verify", "boot",
               "probe",
                         "list"},
           \/ Local!GoTo(m, next) /\ UNCHANGED told
           \/ \E w \in {"off", "not", "ready"} : Local!Tell(m, w),
           box' \subseteq Local!Facts
    PROVE  LocalMakers'
  <1>1. \E a \in {next, "done"} : at' = [at EXCEPT ![m] = a]
    BY DEF Local!Tell, Local!GoTo
  <1>2. told' = told \/ \E w \in {"off", "not", "ready"} : told' = [told EXCEPT ![m] = w]
    BY DEF Local!Tell
  <1>3. at' \in [Local!Makers ->
                {"none", "cold_boot", "load", "autostart", "exists", "create", "install",
                 "start", "verify", "boot", "probe", "list", "done"}]
    BY <1>1 DEF LocalMakers
  <1>4. told' \in [Local!Makers -> {"nothing", "off", "not", "ready"}]
    BY <1>2 DEF LocalMakers
  <1> QED BY <1>3, <1>4 DEF LocalMakers

\* A command of the set-up, that works, works in part or fails
LEMMA LocalCommand ==
    ASSUME LocalMakers, NEW m \in Local!Makers, NEW fits, NEW half \in SUBSET Local!Facts,
           NEW makes \in SUBSET Local!Facts,
           NEW next \in {"install", "start", "verify", "boot"},
           Local!Command(m, fits, half, makes, next)
    PROVE  LocalMakers'
  <1>1. box' \subseteq Local!Facts
    BY DEF Local!Command, LocalMakers
  <1>2. \/ Local!GoTo(m, next) /\ UNCHANGED told
        \/ \E w \in {"off", "not", "ready"} : Local!Tell(m, w)
    BY DEF Local!Command
  <1> QED BY <1>1, <1>2, LocalGoTo

\* The steps of the set-up, in the kernel and in the script
LEMMA LocalSetUp ==
    ASSUME LocalInv,
           \/ Local!ColdBoot \/ Local!Boot \/ Local!HostProbe \/ Local!Stops
           \/ \E m \in Local!Makers : \/ Local!Start(m) \/ Local!Exists(m) \/ Local!Create(m)
                                      \/ Local!Install(m) \/ Local!StartService(m)
                                      \/ Local!Verify(m)
    PROVE  LocalInv'
  <1>1. LocalMakers /\ box \subseteq Local!Facts /\ "kernel" \in Local!Makers
    BY DEF LocalInv, LocalMakers, Local!Makers
  <1>2. {"serving"} \in SUBSET Local!Facts /\ {"model"} \in SUBSET Local!Facts
        /\ {} \in SUBSET Local!Facts
        /\ {"made"} \in SUBSET Local!Facts /\ {"program"} \in SUBSET Local!Facts
    BY DEF Local!Facts
  <1>3. ASSUME Local!ColdBoot PROVE LocalMakers'
    BY <1>1, <1>2, <1>3, LocalGoTo DEF Local!ColdBoot
  <1>4. ASSUME Local!Boot PROVE LocalMakers'
    <2>1. box' \subseteq Local!Facts
      BY <1>1, <1>2, <1>4 DEF Local!Boot
    <2> QED BY <1>1, <1>4, <2>1, LocalGoTo DEF Local!Boot
  <1>5. ASSUME Local!HostProbe PROVE LocalMakers'
    BY <1>1, <1>5, LocalGoTo DEF Local!HostProbe
  <1>6. ASSUME Local!Stops PROVE LocalMakers'
    BY <1>1, <1>6 DEF Local!Stops, LocalMakers
  <1>7. ASSUME NEW m \in Local!Makers, Local!Start(m) PROVE LocalMakers'
    BY <1>1, <1>7, LocalGoTo DEF Local!Start
  <1>8. ASSUME NEW m \in Local!Makers, Local!Exists(m) PROVE LocalMakers'
    BY <1>1, <1>8, LocalGoTo DEF Local!Exists
  <1>9. ASSUME NEW m \in Local!Makers, Local!Create(m) PROVE LocalMakers'
    BY <1>1, <1>2, <1>9, LocalCommand DEF Local!Create
  <1>10. ASSUME NEW m \in Local!Makers, Local!Install(m) PROVE LocalMakers'
    BY <1>1, <1>2, <1>10, LocalCommand DEF Local!Install
  <1>11. ASSUME NEW m \in Local!Makers, Local!StartService(m) PROVE LocalMakers'
    BY <1>1, <1>2, <1>11, LocalCommand DEF Local!StartService
  <1>12. ASSUME NEW m \in Local!Makers, Local!Verify(m) PROVE LocalMakers'
    BY <1>1, <1>12, LocalGoTo DEF Local!Verify
  <1>13. LocalMakers'
    BY <1>3, <1>4, <1>5, <1>6, <1>7, <1>8, <1>9, <1>10, <1>11, <1>12
  <1>14. UNCHANGED <<endpoint, reach, use, uses, shown, asked>> /\ answered \subseteq answered'
    BY DEF Local!Setting, Local!ColdBoot, Local!Boot, Local!HostProbe, Local!Stops, Local!Start,
           Local!Exists, Local!Create, Local!Install, Local!StartService, Local!Verify
  <1>15. LocalUses'
    <2>1. \A u \in Local!Users : LocalUse(use[u], answered')
      BY <1>14 DEF LocalInv, LocalUses, LocalUse
    <2> QED BY <1>14, <2>1 DEF LocalInv, LocalUses
  <1> QED BY <1>13, <1>14, <1>15 DEF LocalInv, Local!AskedWhereAnswered

\* Every step of the local model keeps its invariant
LEMMA LocalStep ==
    ASSUME LocalInv, [Local!Next]_localVars
    PROVE  LocalInv'
  <1>1. CASE UNCHANGED localVars
    BY <1>1 DEF localVars, LocalInv, LocalMakers, LocalUses, LocalUse, Local!AskedWhereAnswered
  <1> QED BY <1>1, LocalUser, LocalSetUp DEF Local!Next

\* A step of the kernel is one of the part, or leaves it as it is
LEMMA LocalSteps == [Next]_vars => [Local!Next]_localVars
  BY DEF Next, Still, vars, localVars

\* The invariant of the part holds in every behaviour of the kernel
LEMMA LocalAlways == Spec => []LocalInv
  <1>1. Init => LocalInv
    BY LocalInit DEF Init
  <1>2. LocalInv /\ [Next]_vars => LocalInv'
    BY LocalSteps, LocalStep
  <1> QED BY <1>1, <1>2, PTL DEF Spec

\* No question was sent to an address that had not answered a probe.
THEOREM AskedCorrect == Spec => []AskedWhereAnswered
  <1>1. LocalInv => AskedWhereAnswered
    BY LocalShows DEF AskedWhereAnswered
  <1> QED BY <1>1, LocalAlways, PTL

-----------------------------------------------------------------------------
(* HostCommands.  Where gh is does not change while a command looks for it, *)
(* unless a lookup misses it; wherever it was found, it stays; and a place *)
(* that was seen logged in stays one of those since the command began.     *)

Caller ==
    [at : {"idle", "open list", "fill list", "read list", "find gh", "find box",
           "create box", "find gh in box", "install gh", "status", "login", "run"},
     command : Commands!Commands \cup {None}, place : Commands!Places \cup {None},
     tried : BOOLEAN]

GhPlace == IF "gh" \in tools THEN "host" ELSE "box"

\* gh is at the place p, while the box is g
HasGh(p, g) == p \in Commands!Places /\ IF p = "host" THEN "gh" \in tools ELSE g = "with gh"

\* The caller c of the thread t, who has seen the logins s since it began, while those are l,
\* the box is g, and the threads m have missed the gh of the host
Prepared(t, c, s, l, g, m) ==
    /\ c.at \in {"idle", "open list", "fill list", "read list"} => c.place = None
    /\ c.at # "idle" => l \subseteq s
    /\ c.at \in {"find box", "create box", "find gh in box", "install gh"}
        => "gh" \notin tools \/ t \in m
    /\ c.at \in {"status", "login"} => HasGh(c.place, g) /\ (c.place = GhPlace \/ t \in m)
    /\ c.at \notin {"status", "login"} /\ c.place # None
        => HasGh(c.place, g) /\ s # {} /\ ((c.place = GhPlace /\ c.place \in s) \/ t \in m)
    /\ c.at = "run" /\ c.command = "gh" => c.place # None

HostSettled ==
    /\ spawn \in {"flatpak-spawn", "container", "direct"}
    /\ tools \in Toolsets /\ token \in BOOLEAN
    /\ listed \in {"missing", "empty", "full"}
    /\ gate \in {"none", "bare", "with gh"}
    /\ login \subseteq Commands!Places

HostCallers ==
    /\ caller \in [Threads -> Caller]
    /\ seen \in [Threads -> SUBSET Commands!Places]
    /\ misled \subseteq Threads
    /\ \A t \in Threads : Prepared(t, caller[t], seen[t], login, gate, misled)

HostInv == HostSettled /\ HostCallers

\* The invariant says of the commands what the run checks
LEMMA HostShows == HostInv => Commands!TypeOK /\ Commands!GhRunsPrepared
  <1> SUFFICES ASSUME HostInv PROVE Commands!TypeOK /\ Commands!GhRunsPrepared
    OBVIOUS
  <1>1. Commands!TypeOK
    BY DEF HostInv, HostSettled, HostCallers, Caller, Commands!TypeOK
  <1>2. ASSUME NEW t \in Threads, caller[t].at = "run", caller[t].command = "gh"
        PROVE  /\ IF caller[t].place = "host" THEN "gh" \in tools ELSE gate = "with gh"
               /\ seen[t] # {}
               /\ caller[t].place \in seen[t] \/ t \in misled
    BY <1>2 DEF HostInv, HostCallers, Prepared, HasGh
  <1> QED BY <1>1, <1>2 DEF Commands!GhRunsPrepared

\* Nobody runs a command at the beginning
LEMMA HostIdle ==
    ASSUME NEW t, NEW s, NEW l, NEW g, NEW m
    PROVE  Commands!NoCaller \in Caller /\ Prepared(t, Commands!NoCaller, s, l, g, m)
  BY DEF Commands!NoCaller, Caller, Prepared

LEMMA HostInit ==
    ASSUME Commands!Init
    PROVE  HostInv
  <1>1. HostSettled
    BY DEF Commands!Init, HostSettled
  <1>2. HostCallers
    BY HostIdle DEF Commands!Init, HostCallers
  <1> QED BY <1>1, <1>2 DEF HostInv

\* gh stays in the box, and what one thread misses misleads no other
BoxKept == gate = "with gh" => gate' = "with gh"
OthersLed(t) ==
    misled' \subseteq Threads /\ \A u \in Threads : u # t => (u \in misled' <=> u \in misled)

\* One thread's command goes on
LEMMA HostMove ==
    ASSUME HostCallers, NEW t \in Threads, NEW c \in Caller, caller' = [caller EXCEPT ![t] = c],
           Prepared(t, c, seen[t], login, gate', misled'), UNCHANGED <<seen, login, tools>>,
           BoxKept, OthersLed(t)
    PROVE  HostCallers'
  <1>1. caller' \in [Threads -> Caller] /\ caller'[t] = c
    BY DEF HostCallers
  <1>2. \A u \in Threads : u # t => caller'[u] = caller[u]
    BY DEF HostCallers
  <1>3. GhPlace' = GhPlace
    BY DEF GhPlace
  <1>4. ASSUME NEW u \in Threads, u # t
        PROVE  Prepared(u, caller[u], seen[u], login, gate, misled)'
    <2>1. Prepared(u, caller[u], seen[u], login, gate, misled)
      BY DEF HostCallers
    <2>2. caller'[u] = caller[u] /\ (u \in misled' <=> u \in misled)
      BY <1>2, <1>4 DEF OthersLed
    <2> QED BY <1>3, <2>1, <2>2 DEF Prepared, HasGh, BoxKept
  <1>5. Prepared(t, caller[t], seen[t], login, gate, misled)'
    BY <1>1, <1>3 DEF Prepared, HasGh
  <1>6. seen' \in [Threads -> SUBSET Commands!Places] /\ misled' \subseteq Threads
    BY DEF HostCallers, OthersLed
  <1> QED BY <1>1, <1>4, <1>5, <1>6 DEF HostCallers

\* ... to its next step
LEMMA HostGo ==
    ASSUME HostCallers, NEW t \in Threads, UNCHANGED <<seen, login, tools>>,
           BoxKept, OthersLed(t),
           NEW a \in {"fill list", "read list", "find gh", "run", "find box", "find gh in box",
                      "create box", "install gh", "login"},
           Commands!Go(t, a),
           Prepared(t, [caller[t] EXCEPT !.at = a], seen[t], login, gate', misled')
    PROVE  HostCallers'
  <1>1. [caller[t] EXCEPT !.at = a] \in Caller
    BY DEF HostCallers, Caller
  <1> QED BY <1>1, HostMove DEF Commands!Go

\* ... to its end
LEMMA HostReturn ==
    ASSUME HostCallers, NEW t \in Threads, UNCHANGED <<seen, login, tools>>,
           BoxKept, OthersLed(t), Commands!Return(t)
    PROVE  HostCallers'
  BY HostIdle, HostMove DEF Commands!Return

\* ... to the login, with gh found on the host or in the box
LEMMA HostFound ==
    ASSUME HostCallers, NEW t \in Threads, UNCHANGED <<seen, login, tools, misled>>, BoxKept,
           caller[t].at \in {"find gh", "find gh in box", "install gh"},
           NEW place \in Commands!Places, HasGh(place, gate'), place = GhPlace \/ t \in misled,
           Commands!Found(t, place)
    PROVE  HostCallers'
  <1>1. caller[t] \in Caller /\ Prepared(t, caller[t], seen[t], login, gate, misled)
        /\ caller \in [Threads -> Caller]
    BY DEF HostCallers
  <1>2. OthersLed(t) /\ place # None
    BY KernelAssumption DEF HostCallers, OthersLed, Commands!CommandsAssumption
  <1>3. CASE caller[t].place = None
    <2> DEFINE c == [caller[t] EXCEPT !.at = "status", !.place = place]
    <2>1. c \in Caller /\ c.at = "status" /\ c.place = place
      BY <1>1 DEF Caller
    <2>2. login \subseteq seen[t]
      BY <1>1 DEF Prepared
    <2>3. caller' = [caller EXCEPT ![t] = c]
      BY <1>1, <1>3 DEF Commands!Found
    <2> HIDE DEF c
    <2>4. Prepared(t, c, seen[t], login, gate', misled')
      BY <2>1, <2>2 DEF Prepared
    <2> QED BY <1>2, <2>1, <2>3, <2>4, HostMove
  <1>4. CASE caller[t].place # None
    <2> DEFINE c == [caller[t] EXCEPT !.at = "run", !.place = place]
    <2>1. c \in Caller /\ c.at = "run" /\ c.place = place
      BY <1>1 DEF Caller
    <2>2. /\ login \subseteq seen[t] /\ seen[t] # {}
          /\ (caller[t].place = GhPlace /\ GhPlace \in seen[t]) \/ t \in misled
      BY <1>1, <1>4 DEF Prepared
    <2>3. caller' = [caller EXCEPT ![t] = c]
      BY <1>1, <1>4 DEF Commands!Found
    <2> HIDE DEF c
    <2>4. Prepared(t, c, seen[t], login, gate', misled')
      BY <1>2, <2>1, <2>2 DEF Prepared
    <2> QED BY <1>2, <2>1, <2>3, <2>4, HostMove
  <1> QED BY <1>3, <1>4

\* The steps of one command
LEMMA HostThread ==
    ASSUME HostInv, NEW t \in Threads, Commands!ThreadStep(t)
    PROVE  HostCallers'
  <1>1. HostCallers /\ caller[t] \in Caller
        /\ Prepared(t, caller[t], seen[t], login, gate, misled)
    BY DEF HostInv, HostCallers
  <1>2. login \subseteq Commands!Places /\ GhPlace \in Commands!Places
        /\ None \notin Commands!Places
    BY KernelAssumption DEF HostInv, HostSettled, GhPlace, Commands!Places,
       Commands!CommandsAssumption
  <1>3. UNCHANGED gate => BoxKept
    BY DEF BoxKept
  <1>4. UNCHANGED misled => OthersLed(t)
    BY <1>1 DEF OthersLed, HostCallers
  <1> USE DEF Commands!machine
  <1>5. ASSUME NEW k \in Commands!Commands, Commands!Call(t, k) PROVE HostCallers'
    <2> DEFINE c == [caller[t] EXCEPT
                        !.at = IF listed = "missing" THEN "open list" ELSE "read list",
                        !.command = k]
    <2>1. c \in Caller /\ c.at \in {"open list", "read list"} /\ c.place = None
      BY <1>1, <1>5 DEF Caller, Prepared, Commands!Call
    <2>2. caller' = [caller EXCEPT ![t] = c] /\ seen' = [seen EXCEPT ![t] = login]
      BY <1>1, <1>5 DEF Commands!Call, HostCallers
    <2> HIDE DEF c
    <2>3. caller' \in [Threads -> Caller] /\ seen' \in [Threads -> SUBSET Commands!Places]
      BY <1>1, <1>2, <2>1, <2>2 DEF HostCallers
    <2>4. caller'[t] = c /\ seen'[t] = login
      BY <1>1, <2>2 DEF HostCallers
    <2>5. \A u \in Threads : u # t => caller'[u] = caller[u] /\ seen'[u] = seen[u]
      BY <1>1, <2>2 DEF HostCallers
    <2>6. /\ UNCHANGED <<login, tools, gate>> /\ GhPlace' = GhPlace
          /\ misled' = misled \ {t} /\ misled' \subseteq Threads
      BY <1>1, <1>5 DEF Commands!Call, GhPlace, HostCallers
    <2>7. ASSUME NEW u \in Threads, u # t
          PROVE  Prepared(u, caller[u], seen[u], login, gate, misled)'
      <3>1. Prepared(u, caller[u], seen[u], login, gate, misled)
        BY <1>1 DEF HostCallers
      <3>2. u \in misled' <=> u \in misled
        BY <2>6, <2>7
      <3> QED BY <2>5, <2>6, <2>7, <3>1, <3>2 DEF Prepared, HasGh
    <2>8. Prepared(t, caller[t], seen[t], login, gate, misled)'
      BY <2>1, <2>4, <2>6 DEF Prepared
    <2> QED BY <2>3, <2>6, <2>7, <2>8 DEF HostCallers
  <1>6. ASSUME Commands!MakeList(t) PROVE HostCallers'
    BY <1>1, <1>3, <1>4, <1>6, HostGo DEF Commands!MakeList, Prepared, Caller
  <1>7. ASSUME Commands!ReadList(t) PROVE HostCallers'
    BY <1>1, <1>3, <1>4, <1>7, HostGo, HostReturn DEF Commands!ReadList, Prepared, Caller
  <1>8. ASSUME Commands!FindGh(t) PROVE HostCallers'
    <2>1. caller[t].at = "find gh" /\ UNCHANGED <<seen, login, tools, gate>> /\ BoxKept
      BY <1>3, <1>8 DEF Commands!FindGh
    <2>2. CASE "gh" \in tools /\ Commands!Found(t, "host") /\ UNCHANGED misled
      <3>1. "host" \in Commands!Places /\ HasGh("host", gate') /\ "host" = GhPlace
        BY <2>2 DEF Commands!Places, HasGh, GhPlace
      <3> QED BY <1>1, <2>1, <2>2, <3>1, HostFound
    <2>3. CASE /\ Commands!Return(t) \/ Commands!Go(t, "find box")
               /\ misled' = misled \cup (IF "gh" \in tools THEN {t} ELSE {})
      <3>1. OthersLed(t) /\ misled \subseteq misled' /\ ("gh" \in tools => t \in misled')
        BY <1>1, <2>3 DEF OthersLed, HostCallers
      <3> DEFINE c == [caller[t] EXCEPT !.at = "find box"]
      <3>2. c.at = "find box" /\ c.place = caller[t].place
        BY <1>1 DEF Caller
      <3> HIDE DEF c
      <3>3. Prepared(t, c, seen[t], login, gate', misled')
        BY <1>1, <2>1, <3>1, <3>2 DEF Prepared
      <3> QED BY <1>1, <2>1, <2>3, <3>1, <3>3, HostGo, HostReturn DEF c
    <2> QED BY <1>8, <2>2, <2>3 DEF Commands!FindGh
  <1>9. ASSUME Commands!FindBox(t) PROVE HostCallers'
    <2>1. \A a \in {"find gh in box", "create box"} :
            Prepared(t, [caller[t] EXCEPT !.at = a], seen[t], login, gate, misled)
      BY <1>1, <1>9 DEF Commands!FindBox, Prepared, Caller
    <2>2. UNCHANGED <<seen, login, tools, gate, misled>>
      BY <1>9 DEF Commands!FindBox
    <2> QED BY <1>1, <1>3, <1>4, <1>9, <2>1, <2>2, HostGo DEF Commands!FindBox
  <1>10. ASSUME Commands!CreateBox(t) PROVE HostCallers'
    <2>1. BoxKept /\ UNCHANGED <<seen, login, tools, misled>> /\ caller[t].at = "create box"
      BY <1>3, <1>10 DEF Commands!CreateBox, BoxKept
    <2>2. Prepared(t, [caller[t] EXCEPT !.at = "find gh in box"], seen[t], login, gate', misled)
      BY <1>1, <2>1 DEF Prepared, Caller, HasGh, BoxKept
    <2> QED BY <1>1, <1>4, <1>10, <2>1, <2>2, HostGo, HostReturn DEF Commands!CreateBox
  <1>11. ASSUME Commands!FindGhInBox(t) PROVE HostCallers'
    <2>1. caller[t].at = "find gh in box" /\ UNCHANGED <<seen, login, tools, gate, misled>>
      BY <1>11 DEF Commands!FindGhInBox
    <2>2. Prepared(t, [caller[t] EXCEPT !.at = "install gh"], seen[t], login, gate, misled)
          /\ (GhPlace = "box" \/ t \in misled)
      BY <1>1, <2>1 DEF Prepared, Caller, GhPlace
    <2>3. CASE gate = "with gh" /\ Commands!Found(t, "box")
      <3>1. "box" \in Commands!Places /\ HasGh("box", gate')
        BY <2>1, <2>3 DEF Commands!Places, HasGh
      <3> QED BY <1>1, <1>3, <2>1, <2>2, <2>3, <3>1, HostFound
    <2>4. CASE Commands!Go(t, "install gh")
      BY <1>1, <1>3, <1>4, <2>1, <2>2, <2>4, HostGo
    <2> QED BY <1>11, <2>3, <2>4 DEF Commands!FindGhInBox
  <1>12. ASSUME Commands!InstallGh(t) PROVE HostCallers'
    <2>1. caller[t].at = "install gh" /\ UNCHANGED <<seen, login, tools, misled>> /\ BoxKept
      BY <1>3, <1>12 DEF Commands!InstallGh, BoxKept
    <2>2. GhPlace = "box" \/ t \in misled
      BY <1>1, <2>1 DEF Prepared, GhPlace
    <2>3. CASE gate' = "with gh" /\ Commands!Found(t, "box")
      <3>1. "box" \in Commands!Places /\ HasGh("box", gate')
        BY <2>3 DEF Commands!Places, HasGh
      <3> QED BY <1>1, <2>1, <2>2, <2>3, <3>1, HostFound
    <2>4. CASE Commands!Return(t)
      BY <1>1, <1>4, <2>1, <2>4, HostReturn
    <2> QED BY <1>12, <2>3, <2>4 DEF Commands!InstallGh
  <1>13. ASSUME Commands!Status(t) PROVE HostCallers'
    <2>1. caller[t].at = "status" /\ UNCHANGED <<seen, login, tools, gate, misled>>
      BY <1>13 DEF Commands!Status
    <2>2. Prepared(t, [caller[t] EXCEPT !.at = "login"], seen[t], login, gate, misled)
      BY <1>1, <2>1 DEF Prepared, Caller
    <2>3. caller[t].place \in login
          => Prepared(t, [caller[t] EXCEPT !.at = "find gh"], seen[t], login, gate, misled)
      BY <1>1, <2>1 DEF Prepared, Caller
    <2> QED BY <1>1, <1>3, <1>4, <1>13, <2>1, <2>2, <2>3, HostGo, HostReturn DEF Commands!Status
  <1>14. ASSUME Commands!Login(t) PROVE HostCallers'
    <2>1. caller[t].at = "login" /\ UNCHANGED <<tools, gate, misled>>
          /\ seen' = [u \in Threads |-> seen[u] \cup login']
      BY <1>14 DEF Commands!Login
    <2>2. login \subseteq login' /\ login' \subseteq Commands!Places
      BY <1>1, <1>2, <1>14, <2>1 DEF Commands!Login, Prepared, HasGh
    <2>3. PICK c \in Caller : caller' = [caller EXCEPT ![t] = c]
               /\ Prepared(t, c, seen[t] \cup login, login, gate, misled)
      <3>1. CASE Commands!Return(t)
        BY <3>1, HostIdle DEF Commands!Return
      <3>2. CASE caller' = [caller EXCEPT ![t].at = "status", ![t].tried = TRUE]
        <4> DEFINE c == [caller[t] EXCEPT !.at = "status", !.tried = TRUE]
        <4>1. c \in Caller
          BY <1>1 DEF Caller
        <4>2. Prepared(t, c, seen[t] \cup login, login, gate, misled)
          BY <1>1, <2>1 DEF Prepared, Caller
        <4>3. caller' = [caller EXCEPT ![t] = c]
          BY <1>1, <3>2 DEF HostCallers
        <4> QED BY <4>1, <4>2, <4>3
      <3> QED BY <1>14, <3>1, <3>2 DEF Commands!Login
    <2>4. caller' \in [Threads -> Caller] /\ seen' \in [Threads -> SUBSET Commands!Places]
      BY <1>1, <2>1, <2>2, <2>3 DEF HostCallers
    <2>5. caller'[t] = c /\ GhPlace' = GhPlace
      BY <1>1, <2>1, <2>3 DEF HostCallers, GhPlace
    <2>6. \A u \in Threads : (u # t => caller'[u] = caller[u]) /\ seen'[u] = seen[u] \cup login'
      BY <1>1, <2>1, <2>3 DEF HostCallers
    <2>7. ASSUME NEW u \in Threads, u # t
          PROVE  Prepared(u, caller[u], seen[u], login, gate, misled)'
      <3>1. Prepared(u, caller[u], seen[u], login, gate, misled)
        BY <1>1 DEF HostCallers
      <3> QED BY <2>1, <2>5, <2>6, <2>7, <3>1 DEF Prepared, HasGh
    <2>8. Prepared(t, caller[t], seen[t], login, gate, misled)'
      <3>1. caller'[t] = c /\ seen'[t] = seen[t] \cup login'
        BY <2>5, <2>6
      <3> QED BY <2>1, <2>2, <2>3, <2>5, <3>1 DEF Prepared, HasGh
    <2> QED BY <1>1, <2>1, <2>4, <2>7, <2>8 DEF HostCallers
  <1>15. ASSUME Commands!Run(t) PROVE HostCallers'
    BY <1>1, <1>3, <1>4, <1>15, HostReturn DEF Commands!Run
  <1> QED BY <1>5, <1>6, <1>7, <1>8, <1>9, <1>10, <1>11, <1>12, <1>13, <1>14, <1>15
          DEF Commands!ThreadStep

\* Every step of the commands, and every change of the machine, keeps their invariant
LEMMA HostStep ==
    ASSUME HostInv, [Commands!Next]_commandsVars
    PROVE  HostInv'
  <1> USE DEF Commands!machine
  <1>1. HostSettled /\ HostCallers
    BY DEF HostInv
  <1>2. ASSUME NEW t \in Threads, Commands!ThreadStep(t) PROVE HostInv'
    <2>1. HostSettled'
      <3>1. /\ UNCHANGED <<spawn, tools, token>> /\ listed' \in {listed, "empty", "full"}
            /\ gate' \in {gate, "bare", "with gh"}
        BY <1>2 DEF Commands!ThreadStep, Commands!Call, Commands!MakeList, Commands!ReadList,
           Commands!FindGh, Commands!FindBox, Commands!CreateBox, Commands!FindGhInBox,
           Commands!InstallGh, Commands!Status, Commands!Login, Commands!Run
      <3>2. login' \subseteq login \cup {caller[t].place}
            /\ (caller[t].at # "login" => login' = login)
        BY <1>2 DEF Commands!ThreadStep, Commands!Call, Commands!MakeList, Commands!ReadList,
           Commands!FindGh, Commands!FindBox, Commands!CreateBox, Commands!FindGhInBox,
           Commands!InstallGh, Commands!Status, Commands!Login, Commands!Run
      <3>3. caller[t].at = "login" => caller[t].place \in Commands!Places
        BY <1>1 DEF HostCallers, Prepared, HasGh
      <3> QED BY <1>1, <3>1, <3>2, <3>3 DEF HostSettled
    <2> QED BY <1>2, <2>1, HostThread DEF HostInv
  <1>3. ASSUME NEW p \in Commands!Places, Commands!Logout(p) PROVE HostInv'
    <2>1. login' \subseteq login
          /\ UNCHANGED <<spawn, tools, token, listed, gate, caller, seen, misled>>
      BY <1>3 DEF Commands!Logout
    <2>2. HostSettled'
      BY <1>1, <2>1 DEF HostSettled
    <2>3. HostCallers'
      BY <1>1, <2>1 DEF HostCallers, Prepared, HasGh, GhPlace
    <2> QED BY <2>2, <2>3 DEF HostInv
  <1>4. ASSUME UNCHANGED commandsVars PROVE HostInv'
    BY <1>1, <1>4 DEF commandsVars, HostInv, HostSettled, HostCallers, Prepared, HasGh, GhPlace
  <1> QED BY <1>2, <1>3, <1>4 DEF Commands!Next

\* A step of the kernel is one of the part, or leaves it as it is
LEMMA HostSteps == [Next]_vars => [Commands!Next]_commandsVars
  BY DEF Next, Still, vars, commandsVars

\* The invariant of the part holds in every behaviour of the kernel
LEMMA HostAlways == Spec => []HostInv
  <1>1. Init => HostInv
    BY HostInit DEF Init
  <1>2. HostInv /\ [Next]_vars => HostInv'
    BY HostSteps, HostStep
  <1> QED BY <1>1, <1>2, PTL DEF Spec

\* gh runs nowhere but where it is, and only after a login was seen since the command began: at
\* that place, unless one of the two lookups missed the gh of the host (host_bridge.py:82),
\* whoever makes the box, logs in and out meanwhile.
THEOREM PreparedCorrect == Spec => []GhRunsPrepared
  <1>1. HostInv => GhRunsPrepared
    BY HostShows DEF GhRunsPrepared
  <1> QED BY <1>1, HostAlways, PTL

-----------------------------------------------------------------------------
(* ProviderHealth.  A check that is about to call a provider healthy, and   *)
(* one that writes a catalog, was given the last thing that it asked for.  *)

HealthCheck ==
    [at : {"idle", "connect", "list", "fetch", "open catalog", "write catalog",
           "look up", "fall back", "models", "models again", "generation", "key", "verify",
           "log in", "wait", "confirm", "cache", "cache failure"},
     provider : Health!Providers \cup {None}, live : BOOLEAN,
     status : Health!Statuses \cup {None}]

Earned(c, s) ==
    /\ c.at = "cache" /\ c.status = "healthy" /\ c.provider \in Health!Probed => s
    /\ c.at \in {"open catalog", "write catalog"} => s

HealthSettled == keyed \subseteq Health!Probed /\ agy \in BOOLEAN /\ autologin \in BOOLEAN
    /\ catalog \in {"none", "torn", "fresh", "old"}
HealthCached ==
    /\ checks \in 0 .. MaxChecks
    /\ health \in [Health!Providers -> Health!Statuses \cup {None}]
    /\ failure \in [Health!Providers -> Health!Failures \cup {None}]
HealthLearnt ==
    /\ check \in [Threads -> HealthCheck]
    /\ served \in [Threads -> BOOLEAN]
    /\ \A t \in Threads : Earned(check[t], served[t])

HealthInv == HealthSettled /\ HealthCached /\ HealthLearnt

\* The invariant says of the probes what the run checks: a provider that is probed is
\* found healthy by a check whose last request was granted
LEMMA HealthShows == HealthInv => Health!TypeOK /\ Health!HealthyMeansTried
  BY DEF HealthInv, Health!TypeOK, HealthSettled, HealthCached, HealthLearnt, HealthCheck,
         Health!HealthyMeansTried, Earned

\* One thread's check goes on, with what the provider has answered to it
LEMMA HealthMove ==
    ASSUME HealthLearnt, NEW t \in Threads, NEW c \in HealthCheck,
           check' = [check EXCEPT ![t] = c],
           NEW s \in BOOLEAN, served' = [served EXCEPT ![t] = s], Earned(c, s)
    PROVE  HealthLearnt'
  <1>1. check \in [Threads -> HealthCheck] /\ served \in [Threads -> BOOLEAN]
    BY DEF HealthLearnt
  <1>2. check' \in [Threads -> HealthCheck]
    BY <1>1
  <1>3. served' \in [Threads -> BOOLEAN]
    BY <1>1, Zenon
  <1>4. \A u \in Threads : u # t => check'[u] = check[u] /\ served'[u] = served[u]
    BY <1>1
  <1>5. check'[t] = c /\ served'[t] = s
    BY <1>1
  <1> QED BY <1>2, <1>3, <1>4, <1>5, Zenon DEF HealthLearnt, Earned

\* What a check has learnt stays, or is replaced by the outcome of a request
Learns(t) == UNCHANGED served \/ Health!Answered(t) \/ Health!Unanswered(t)

LEMMA HealthServed ==
    ASSUME HealthLearnt, NEW t \in Threads, Learns(t)
    PROVE  \E s \in BOOLEAN : /\ served' = [served EXCEPT ![t] = s]
                              /\ served' = served => s = served[t]
                              /\ Health!Answered(t) => s
  <1>1. CASE UNCHANGED served
    <2>1. served' = [served EXCEPT ![t] = served[t]] /\ served[t] \in BOOLEAN
      BY <1>1 DEF HealthLearnt
    <2>2. Health!Answered(t) => served[t]
      BY <1>1 DEF HealthLearnt, Health!Answered
    <2> QED BY <2>1, <2>2, Zenon
  <1>2. CASE served' # served /\ Health!Answered(t)
    BY <1>2, Zenon DEF Health!Answered
  <1>3. CASE served' # served /\ Health!Unanswered(t) /\ ~Health!Answered(t)
    BY <1>3, Zenon DEF Health!Unanswered
  <1> QED BY <1>1, <1>2, <1>3 DEF Learns

\* A check goes on to its next question; it writes a catalog only after an answer
LEMMA HealthGo ==
    ASSUME HealthLearnt, NEW t \in Threads,
           Learns(t),
           \/ \E a \in {"list", "fetch", "look up", "fall back", "models", "models again",
              "generation", "key",
                "verify", "log in", "wait", "confirm", "cache failure"} : Health!Go(t, a)
           \/ Health!Go(t, "open catalog") /\ Health!Answered(t)
           \/ Health!Go(t, "write catalog") /\ check[t].at = "open catalog" /\ UNCHANGED served
    PROVE  HealthLearnt'
  <1>1. check[t] \in HealthCheck /\ served[t] \in BOOLEAN /\ Earned(check[t], served[t])
    BY DEF HealthLearnt
  <1>2. PICK s \in BOOLEAN :
            /\ served' = [served EXCEPT ![t] = s]
            /\ served' = served => s = served[t]
            /\ Health!Answered(t) => s
    BY HealthServed, Zenon
  <1>3. ASSUME NEW a \in {"list", "fetch", "look up", "fall back", "models", "models again",
                   "generation", "key",
                "verify", "log in", "wait", "confirm", "cache failure"}, Health!Go(t, a)
        PROVE  HealthLearnt'
    <2>1. [check[t] EXCEPT !.at = a] \in HealthCheck
          /\ check' = [check EXCEPT ![t] = [check[t] EXCEPT !.at = a]]
      BY <1>1, <1>3 DEF HealthCheck, Health!Go
    <2>2. Earned([check[t] EXCEPT !.at = a], s)
      BY <1>1, <1>3 DEF HealthCheck, Earned
    <2> QED BY <1>2, <2>1, <2>2, HealthMove
  <1>4. ASSUME Health!Go(t, "open catalog"), Health!Answered(t)
        PROVE  HealthLearnt'
    <2>1. [check[t] EXCEPT !.at = "open catalog"] \in HealthCheck
          /\ check' = [check EXCEPT ![t] = [check[t] EXCEPT !.at = "open catalog"]]
      BY <1>1, <1>4 DEF HealthCheck, Health!Go
    <2>2. Earned([check[t] EXCEPT !.at = "open catalog"], TRUE)
          /\ served' = [served EXCEPT ![t] = TRUE]
      BY <1>1, <1>4 DEF HealthCheck, Earned, Health!Answered
    <2> QED BY <2>1, <2>2, HealthMove
  <1>5. ASSUME Health!Go(t, "write catalog"), check[t].at = "open catalog", UNCHANGED served
        PROVE  HealthLearnt'
    <2>1. [check[t] EXCEPT !.at = "write catalog"] \in HealthCheck
          /\ check' = [check EXCEPT ![t] = [check[t] EXCEPT !.at = "write catalog"]]
      BY <1>1, <1>5 DEF HealthCheck, Health!Go
    <2>2. served[t]
      BY <1>1, <1>5 DEF Earned
    <2>3. s
      BY <1>2, <1>5, <2>2, Zenon
    <2>4. Earned([check[t] EXCEPT !.at = "write catalog"], s)
      BY <1>1, <2>3 DEF HealthCheck, Earned
    <2> QED BY <1>2, <2>1, <2>4, HealthMove
  <1> QED BY <1>3, <1>4, <1>5

\* A check comes to a status, which is "healthy" only after an answer
LEMMA HealthJudge ==
    ASSUME HealthLearnt, NEW t \in Threads, NEW st \in Health!Statuses, Health!Judge(t, st),
           Learns(t),
           st = "healthy" => Health!Answered(t) \/ (served[t] /\ UNCHANGED served)
    PROVE  HealthLearnt'
  <1>1. check[t] \in HealthCheck /\ served[t] \in BOOLEAN /\ Earned(check[t], served[t])
    BY DEF HealthLearnt
  <1>2. PICK s \in BOOLEAN :
            /\ served' = [served EXCEPT ![t] = s]
            /\ served' = served => s = served[t]
            /\ Health!Answered(t) => s
    BY HealthServed, Zenon
  <1> DEFINE c == [check[t] EXCEPT !.at = "cache", !.status = st]
  <1>3. c \in HealthCheck /\ c.at = "cache" /\ c.status = st
    BY <1>1 DEF HealthCheck
  <1>4. check' = [check EXCEPT ![t] = c]
    BY DEF Health!Judge
  <1>5. st = "healthy" => s
    BY <1>2, Zenon
  <1>6. Earned(c, s)
    BY <1>3, <1>5 DEF Earned
  <1> QED BY <1>2, <1>3, <1>4, <1>6, HealthMove

\* A check that is over has nothing to show
LEMMA HealthEnd ==
    ASSUME HealthLearnt, NEW t \in Threads, check' = [check EXCEPT ![t] = Health!NoCheck],
           UNCHANGED served
    PROVE  HealthLearnt'
  <1>1. served' = [served EXCEPT ![t] = served[t]] /\ served[t] \in BOOLEAN
    BY DEF HealthLearnt
  <1>2. Health!NoCheck \in HealthCheck /\ Earned(Health!NoCheck, served[t])
    BY DEF Health!NoCheck, HealthCheck, Earned
  <1> QED BY <1>1, <1>2, HealthMove

\* No provider is checked at the beginning
LEMMA HealthInit ==
    ASSUME Health!Init, MaxChecks \in Nat
    PROVE  HealthInv
  <1>1. HealthSettled
    BY DEF Health!Init, HealthSettled
  <1>2. HealthCached
    BY DEF Health!Init, HealthCached
  <1>3. Health!NoCheck \in HealthCheck /\ Earned(Health!NoCheck, FALSE)
    BY DEF Health!NoCheck, HealthCheck, Earned
  <1>4. HealthLearnt
    BY <1>3 DEF Health!Init, HealthLearnt
  <1> QED BY <1>1, <1>2, <1>4 DEF HealthInv

\* The steps of one check
LEMMA HealthThread ==
    ASSUME HealthInv, NEW t \in Threads, Health!ThreadStep(t), MaxChecks \in Nat
    PROVE  HealthLearnt'
  <1>1. HealthLearnt
    BY DEF HealthInv
  <1> USE DEF Health!Statuses, Health!Failures, Learns
  <1>2. ASSUME NEW p \in Health!Providers, NEW live \in BOOLEAN, Health!Begin(t, p, live)
        PROVE  HealthLearnt'
    <2> DEFINE c == [Health!NoCheck EXCEPT !.provider = p, !.live = live,
                            !.at = IF p \in Health!Probed THEN "connect" ELSE "cache",
                            !.status = IF p \in Health!Probed THEN None ELSE "healthy"]
    <2>1. c \in HealthCheck /\ Earned(c, FALSE)
      BY DEF Health!NoCheck, HealthCheck, Earned
    <2>2. check' = [check EXCEPT ![t] = c] /\ served' = [served EXCEPT ![t] = FALSE]
      BY <1>2 DEF Health!Begin
    <2> QED BY <1>1, <2>1, <2>2, HealthMove
  <1>3. ASSUME NEW p \in Health!Providers, NEW s \in Health!Failures,
                   Health!RecordFailure(t, p, s)
        PROVE  HealthLearnt'
    <2> DEFINE c == [Health!NoCheck EXCEPT !.at = "cache", !.provider = p, !.status = s]
    <2>1. c \in HealthCheck /\ Earned(c, served[t])
      BY DEF Health!NoCheck, HealthCheck, Earned
    <2>2. check' = [check EXCEPT ![t] = c] /\ UNCHANGED served
      BY <1>3 DEF Health!RecordFailure
    <2>3. served' = [served EXCEPT ![t] = served[t]] /\ served[t] \in BOOLEAN
      BY <1>1, <2>2 DEF HealthLearnt
    <2> QED BY <1>1, <2>1, <2>2, <2>3, HealthMove
  <1>4. ASSUME Health!Connect(t) PROVE HealthLearnt'
    BY <1>1, <1>4, HealthGo, HealthJudge
       DEF Health!Connect, Health!AskAntigravity, Health!AskMistral, Health!AskOpenAI
  <1>5. ASSUME Health!ListMistral(t) PROVE HealthLearnt'
    BY <1>1, <1>5, HealthGo, HealthJudge DEF Health!ListMistral
  <1>6. ASSUME Health!FetchLive(t) PROVE HealthLearnt'
    BY <1>1, <1>6, HealthGo, HealthJudge DEF Health!FetchLive
  <1>7. ASSUME Health!Models(t) PROVE HealthLearnt'
    BY <1>1, <1>7, HealthGo, HealthJudge DEF Health!Models
  <1>8. ASSUME Health!Generation(t) PROVE HealthLearnt'
    BY <1>1, <1>8, HealthGo, HealthJudge DEF Health!Generation
  <1>9. ASSUME Health!Key(t) PROVE HealthLearnt'
    BY <1>1, <1>9, HealthGo, HealthJudge DEF Health!Key
  <1>10. ASSUME Health!Verify(t) PROVE HealthLearnt'
    BY <1>1, <1>10, HealthGo, HealthJudge DEF Health!Verify
  <1>11. ASSUME Health!LogIn(t) PROVE HealthLearnt'
    BY <1>1, <1>11, HealthGo, HealthJudge DEF Health!LogIn
  <1>12. ASSUME Health!Confirm(t) PROVE HealthLearnt'
    BY <1>1, <1>12, HealthGo, HealthJudge DEF Health!Confirm
  <1>13. ASSUME Health!SaveCatalog(t) PROVE HealthLearnt'
    <2>1. check[t].at \in {"open catalog", "write catalog"} => served[t]
      BY <1>1 DEF HealthLearnt, Earned
    <2> QED BY <1>1, <1>13, <2>1, HealthGo, HealthJudge, HealthEnd DEF Health!SaveCatalog
  <1>14. ASSUME Health!LoadCatalog(t) PROVE HealthLearnt'
    <2>1. CASE catalog = "fresh"
      <3>1. Health!Answered(t)
        BY <1>14, <2>1 DEF Health!LoadCatalog, Health!Answered
      <3> QED BY <1>1, <1>14, <2>1, <3>1, HealthJudge DEF Health!LoadCatalog
    <2>2. CASE catalog # "fresh"
      <3>1. Health!Unanswered(t)
        BY <1>14, <2>2 DEF Health!LoadCatalog, Health!Unanswered
      <3> QED BY <1>1, <1>14, <2>2, <3>1, HealthGo, HealthJudge DEF Health!LoadCatalog
    <2> QED BY <2>1, <2>2
  <1>15. ASSUME Health!Wait(t) PROVE HealthLearnt'
    BY <1>1, <1>15, HealthGo, HealthJudge DEF Health!Wait
  <1>16. ASSUME Health!CacheHealth(t) PROVE HealthLearnt'
    BY <1>1, <1>16, HealthGo DEF Health!CacheHealth
  <1>17. ASSUME Health!CacheFailure(t) PROVE HealthLearnt'
    BY <1>1, <1>17, HealthEnd DEF Health!CacheFailure
  <1> QED BY <1>2, <1>3, <1>4, <1>5, <1>6, <1>7, <1>8, <1>9, <1>10, <1>11, <1>12, <1>13, <1>14,
             <1>15, <1>16, <1>17 DEF Health!ThreadStep

\* Every step of the probes keeps their invariant
LEMMA HealthStep ==
    ASSUME HealthInv, [Health!Next]_healthVars, MaxChecks \in Nat
    PROVE  HealthInv'
  <1>1. HealthSettled /\ HealthCached /\ HealthLearnt
    BY DEF HealthInv
  <1>2. ASSUME NEW t \in Threads, Health!ThreadStep(t) PROVE HealthSettled'
    BY <1>1, <1>2 DEF HealthSettled, Health!ThreadStep, Health!settings, Health!Begin,
       Health!RecordFailure, Health!Connect, Health!ListMistral, Health!FetchLive,
           Health!SaveCatalog, Health!LoadCatalog, Health!Models, Health!Generation, Health!Key,
               Health!Verify, Health!LogIn, Health!Wait, Health!Confirm, Health!CacheHealth,
                   Health!CacheFailure
  <1>3. ASSUME NEW t \in Threads, Health!ThreadStep(t) PROVE HealthCached'
    <2>1. check[t].status \in Health!Statuses \cup {None}
      BY <1>1 DEF HealthLearnt, HealthCheck
    <2>2. \/ UNCHANGED <<checks, health, failure>>
          \/ Health!MayStart(t) /\ UNCHANGED <<health, failure>>
          \/ Health!CacheHealth(t) \/ Health!CacheFailure(t)
      BY <1>3 DEF Health!ThreadStep, Health!settings, Health!caches, Health!Begin,
              Health!RecordFailure, Health!Connect, Health!ListMistral, Health!FetchLive,
                  Health!SaveCatalog, Health!LoadCatalog, Health!Models, Health!Generation,
                      Health!Key, Health!Verify, Health!LogIn, Health!Wait, Health!Confirm
    <2>3. CASE Health!MayStart(t) /\ UNCHANGED <<health, failure>>
      BY <1>1, <2>3 DEF HealthCached, Health!MayStart
    <2>4. CASE Health!CacheHealth(t)
      BY <1>1, <2>1, <2>4 DEF HealthCached, Health!CacheHealth, Health!settings
    <2>5. CASE Health!CacheFailure(t)
      BY <1>1, <2>1, <2>5 DEF HealthCached, Health!CacheFailure, Health!settings, Health!Statuses
    <2> QED BY <1>1, <2>2, <2>3, <2>4, <2>5 DEF HealthCached
  <1>4. ASSUME Health!Age \/ UNCHANGED healthVars PROVE HealthInv'
    <2>1. HealthSettled'
      BY <1>1, <1>4 DEF HealthSettled, Health!Age, healthVars, Health!settings
    <2>2. UNCHANGED <<checks, health, failure, check, served>>
      BY <1>4 DEF Health!Age, healthVars, Health!settings, Health!caches
    <2>3. HealthCached' /\ HealthLearnt'
      BY <1>1, <2>2 DEF HealthCached, HealthLearnt, Earned
    <2> QED BY <2>1, <2>3 DEF HealthInv
  <1> QED BY <1>2, <1>3, <1>4, HealthThread DEF Health!Next, HealthInv

\* A step of the kernel is one of the part, or leaves it as it is
LEMMA HealthSteps == [Next]_vars => [Health!Next]_healthVars
  BY DEF Next, Still, vars, healthVars

\* The invariant of the part holds in every behaviour of the kernel
LEMMA HealthAlways == Spec => []HealthInv
  <1>1. Init => HealthInv
    BY HealthInit, KernelAssumption DEF Init, Health!ChecksAssumption
  <1>2. HealthInv /\ [Next]_vars => HealthInv'
    BY HealthSteps, HealthStep, KernelAssumption DEF Health!ChecksAssumption
  <1> QED BY <1>1, <1>2, PTL DEF Spec

\* A provider that is probed is found healthy only by a check whose last request was granted: a
\* list by a key, a generation of agy that exited with 0 (antigravity_manager.py:141), or a list
\* within six hours, and never from a connection or after a failure.
THEOREM HealthyCorrect == Spec => []HealthyMeansTried
  <1>1. HealthInv => HealthyMeansTried
    BY HealthShows DEF HealthyMeansTried
  <1> QED BY <1>1, HealthAlways, PTL

-----------------------------------------------------------------------------
(* DeployGate.  What was said in grave words is an issue or has blocked, a *)
(* scanner that is required and missing as well, and whoever comes to the  *)
(* verdict came past the guard and the authorization.                      *)

Running == {"authorize", "audit", "scan", "dependabot", "tools", "verdict"}
Authorized == Running \ {"authorize"}

\* The guard and the authorization have had their say
Admitted ==
    /\ phase \in Running \/ result = "allowed" => local
    /\ phase \in Authorized \/ result = "allowed" =>
            (user /\ pass # "wrong") \/ "authorization" \in barred

\* What was said in grave words is kept as an issue, or has blocked
Heeded == said \cap Gate!Grave # {} => issues \cap Gate!Grave # {} \/ barred # {}

\* A required scanner that is not there is an issue, or has blocked
Required ==
    enabled /\ needed =>
        /\ phase = "tools"
           => \A tool \in Gate!Tools \ todo : tool \in installed \/ "high" \in issues
        /\ phase = "verdict" \/ result = "allowed" => installed = Gate!Tools \/ barred # {}

\* At the verdict no issue is left to decide about
Decided ==
    /\ phase = "verdict" => issues = {}
    /\ result = "allowed" => phase = "end" /\ barred = {} /\ issues = {}
    /\ result # "none" => phase = "end"

GateInv == Gate!TypeOK /\ Admitted /\ Heeded /\ Required /\ Decided

\* The gate begins with nothing admitted, found or decided
LEMMA GateInit == Gate!Init => GateInv
  BY DEF Gate!Init, GateInv, Gate!TypeOK, Admitted, Heeded, Required, Decided, Running, Authorized

\* The severities that a tool's words are counted with keep the grave ones
LEMMA GraveStaysGrave ==
    ASSUME NEW tool \in Gate!Tools, NEW named \in SUBSET Gate!Words, named \cap Gate!Grave # {}
    PROVE  /\ {Gate!Severity(tool, w) : w \in named} \cap Gate!Grave # {}
           /\ {Gate!Severity(tool, w) : w \in named} \subseteq Gate!Words
  <1>1. PICK g \in named : g \in Gate!Grave
    OBVIOUS
  <1>2. Gate!Severity(tool, g) \in Gate!Grave
    BY <1>1 DEF Gate!Severity, Gate!Grave, Gate!Ordered
  <1>3. \A w \in Gate!Words : Gate!Severity(tool, w) \in Gate!Words
    BY DEF Gate!Severity, Gate!Words, Gate!Ordered, Gate!Grave
  <1> QED BY <1>1, <1>2, <1>3

\* A severity is one of the gate's words
LEMMA SeverityType ==
    ASSUME NEW tool \in Gate!Tools, NEW named \in SUBSET Gate!Words
    PROVE  {Gate!Severity(tool, w) : w \in named} \subseteq Gate!Words
  <1>1. \A w \in Gate!Words : Gate!Severity(tool, w) \in Gate!Words
    BY DEF Gate!Severity, Gate!Words, Gate!Ordered, Gate!Grave
  <1> QED BY <1>1

\* What a pattern says is what it is counted with
LEMMA MatchesType ==
    ASSUME NEW found \in SUBSET DOMAIN Gate!Patterns, NEW reviewed \in BOOLEAN
    PROVE  Gate!Matches(found, reviewed) \subseteq Gate!Words
  BY DEF Gate!Matches, Gate!Patterns, Gate!Words, Gate!Ordered, Gate!Grave

\* What is counted is one of the gate's words
LEMMA CountedType ==
    ASSUME NEW named \in SUBSET Gate!Words PROVE Gate!Counted(named) \subseteq Gate!Words
  BY DEF Gate!Counted, Gate!Words, Gate!Ordered, Gate!Grave

\* What is found is heeded if its grave words are among its severities
LEMMA FoundHeeded ==
    ASSUME GateInv, NEW severities \in SUBSET Gate!Words, NEW words \in SUBSET Gate!Words,
           words \cap Gate!Grave # {} => severities \cap Gate!Grave # {},
           Gate!Found(severities, words), UNCHANGED barred
    PROVE  Heeded' /\ issues' \subseteq Gate!Words /\ said' \subseteq Gate!Words
           /\ issues \subseteq issues'
  BY DEF GateInv, Gate!TypeOK, Heeded, Gate!Found

\* Where nothing is found the issues stay, and what was said of them
LEMMA NothingHeeded ==
    ASSUME GateInv, Gate!Nothing, UNCHANGED barred
    PROVE  Heeded' /\ issues' \subseteq Gate!Words /\ said' \subseteq Gate!Words
           /\ issues \subseteq issues'
  BY DEF GateInv, Gate!TypeOK, Heeded, Gate!Nothing

\* A check that raises ends the gate without letting anything through
LEMMA RaisedKeeps == GateInv /\ Gate!Raised => GateInv'
  BY DEF GateInv, Gate!Raised, Gate!settings, Gate!TypeOK, Admitted, Heeded, Required, Decided,
     Running,
         Authorized

\* Of the end of a check
LEMMA ConcludeKeeps ==
    ASSUME GateInv, phase \in {"audit", "scan", "tools"}, result = "none",
           NEW name \in {"dependencies", "static", "external"},
           NEW next \in {"scan", "dependabot", "verdict"},
           NEW things \in SUBSET (Files \cup Gate!Tools),
           Gate!Conclude(name, Gate!Grave, next, things),
           enabled /\ needed /\ next = "verdict" => phase = "tools" /\ todo = {}
    PROVE  GateInv'
  <1>1. Gate!TypeOK' /\ Admitted' /\ Decided'
    BY DEF GateInv, Gate!Conclude, Gate!settings, Gate!TypeOK, Admitted, Decided, Running,
       Authorized
  <1>2. Heeded'
    BY DEF GateInv, Gate!Conclude, Heeded
  <1>3. Required'
    <2>1. ASSUME enabled, needed, next = "verdict" PROVE installed = Gate!Tools \/ barred' # {}
      <3>1. \A tool \in Gate!Tools : tool \in installed \/ "high" \in issues
        BY <2>1 DEF GateInv, Required
      <3>2. CASE "high" \in issues
        BY <3>2 DEF Gate!Conclude, Gate!Grave
      <3>3. CASE "high" \notin issues
        BY <3>1, <3>3 DEF GateInv, Gate!TypeOK
      <3> QED BY <3>2, <3>3
    <2> QED BY <2>1 DEF GateInv, Required, Gate!Conclude, Gate!settings
  <1> QED BY <1>1, <1>2, <1>3 DEF GateInv

\* Every step of the gate keeps its invariant
LEMMA GateNext == Gate!ReportsAssumption /\ GateInv /\ [Gate!Next]_gateVars => GateInv'
  <1> SUFFICES ASSUME Gate!ReportsAssumption, GateInv, [Gate!Next]_gateVars PROVE GateInv'
    OBVIOUS
  <1>1. CASE Gate!Guard
    BY <1>1 DEF GateInv, Gate!Guard, Gate!settings, Gate!TypeOK, Admitted, Heeded, Required,
            Decided,
                Running, Authorized
  <1>2. CASE Gate!Authorize
    BY <1>2 DEF GateInv, Gate!Authorize, Gate!settings, Gate!TypeOK, Admitted, Heeded, Required,
            Decided,
                Running, Authorized
  <1>3. ASSUME NEW target \in Targets, Gate!Audit(target) PROVE GateInv'
    <2>1. CASE Gate!Raised
      BY <2>1, RaisedKeeps
    <2>2. CASE ~Gate!Raised
      <3>1. /\ phase = "audit" /\ todo' = todo \ {target}
            /\ UNCHANGED <<Gate!settings, phase, barred, result>>
        BY <1>3, <2>2 DEF Gate!Audit
      <3>2. Heeded' /\ issues' \subseteq Gate!Words /\ said' \subseteq Gate!Words
        <4>1. CASE Gate!Nothing
          BY <3>1, <4>1, NothingHeeded
        <4>2. ASSUME NEW named \in Reports, Gate!Found(named \cup Gate!Counted(named), named)
              PROVE  Heeded' /\ issues' \subseteq Gate!Words /\ said' \subseteq Gate!Words
          <5>1. named \in SUBSET Gate!Words
                /\ named \cup Gate!Counted(named) \in SUBSET Gate!Words
            BY CountedType DEF Gate!ReportsAssumption
          <5> QED BY <3>1, <4>2, <5>1, FoundHeeded
        <4> QED BY <1>3, <2>2, <4>1, <4>2 DEF Gate!Audit
      <3> QED BY <3>1, <3>2 DEF GateInv, Gate!settings, Gate!TypeOK, Admitted, Required, Decided,
                                Running, Authorized
    <2> QED BY <2>1, <2>2
  <1>4. ASSUME NEW one \in Files, Gate!Scan(one) PROVE GateInv'
    <2>1. /\ phase = "scan" /\ todo' = todo \ {one}
          /\ UNCHANGED <<Gate!settings, phase, barred, result>>
      BY <1>4 DEF Gate!Scan
    <2>2. Heeded' /\ issues' \subseteq Gate!Words /\ said' \subseteq Gate!Words
      <3>1. CASE Gate!Nothing
        BY <2>1, <3>1, NothingHeeded
      <3>2. ASSUME NEW found \in SUBSET DOMAIN Gate!Patterns, NEW reviewed \in BOOLEAN,
                   Gate!Found(Gate!Matches(found, reviewed), Gate!Matches(found, reviewed))
            PROVE  Heeded' /\ issues' \subseteq Gate!Words /\ said' \subseteq Gate!Words
        BY <2>1, <3>2, MatchesType, FoundHeeded
      <3> QED BY <1>4, <3>1, <3>2 DEF Gate!Scan
    <2> QED BY <2>1, <2>2 DEF GateInv, Gate!settings, Gate!TypeOK, Admitted, Required, Decided,
                              Running, Authorized
  <1>5. ASSUME NEW tool \in Gate!Tools, Gate!RunTool(tool) PROVE GateInv'
    <2>1. CASE Gate!Raised
      BY <2>1, RaisedKeeps
    <2>2. CASE ~Gate!Raised
      <3>1. /\ phase = "tools" /\ tool \in todo /\ todo' = todo \ {tool}
            /\ UNCHANGED <<Gate!settings, phase, barred, result>>
            /\ Gate!Missing(tool) \/ (tool \in installed /\ Gate!Report(tool))
        BY <1>5, <2>2 DEF Gate!RunTool
      <3>2. /\ Heeded' /\ issues' \subseteq Gate!Words /\ said' \subseteq Gate!Words
            /\ issues \subseteq issues'
        <4>1. CASE Gate!Nothing
          BY <3>1, <4>1, NothingHeeded
        <4>2. CASE Gate!Found({"high"}, {})
          BY <3>1, <4>2, FoundHeeded, {"high"} \in SUBSET Gate!Words DEF Gate!Words,
             Gate!Ordered, Gate!Grave
        <4>3. ASSUME Gate!Report(tool), ~Gate!Nothing
              PROVE  /\ Heeded' /\ issues' \subseteq Gate!Words /\ said' \subseteq Gate!Words
                     /\ issues \subseteq issues'
          <5>1. ASSUME NEW word \in Gate!Ordered, Gate!Found({word}, {word})
                PROVE  /\ Heeded' /\ issues' \subseteq Gate!Words /\ said' \subseteq Gate!Words
                       /\ issues \subseteq issues'
            <6>1. {word} \in SUBSET Gate!Words
              BY <5>1 DEF Gate!Words
            <6> QED BY <3>1, <5>1, <6>1, FoundHeeded
          <5>2. ASSUME NEW named \in Reports,
                       Gate!Found({Gate!Severity(tool, w) : w \in named},
                             IF tool = "gitleaks" THEN {Gate!Severity(tool, w) : w \in named}
                             ELSE named)
                PROVE  /\ Heeded' /\ issues' \subseteq Gate!Words /\ said' \subseteq Gate!Words
                       /\ issues \subseteq issues'
            <6> DEFINE severities == {Gate!Severity(tool, w) : w \in named}
                       words == IF tool = "gitleaks" THEN severities ELSE named
            <6>1. named \in SUBSET Gate!Words
              BY DEF Gate!ReportsAssumption
            <6>2. severities \in SUBSET Gate!Words /\ words \in SUBSET Gate!Words
              BY <6>1, SeverityType
            <6>3. words \cap Gate!Grave # {} => severities \cap Gate!Grave # {}
              BY <6>1, GraveStaysGrave
            <6>4. Gate!Found(severities, words)
              BY <5>2
            <6> HIDE DEF severities, words
            <6> QED BY <3>1, <6>2, <6>3, <6>4, FoundHeeded
          <5>3. CASE Gate!Found({"medium"}, {})
            BY <3>1, <5>3, FoundHeeded, {"medium"} \in SUBSET Gate!Words DEF Gate!Words,
               Gate!Ordered, Gate!Grave
          <5> QED BY <4>3, <5>1, <5>2, <5>3 DEF Gate!Report
        <4> QED BY <3>1, <4>1, <4>2, <4>3 DEF Gate!Missing
      <3>3. needed => tool \in installed \/ "high" \in issues'
        BY <3>1 DEF Gate!Missing, Gate!Found
      <3>4. Gate!TypeOK' /\ Admitted' /\ Decided'
        BY <3>1, <3>2 DEF GateInv, Gate!settings, Gate!TypeOK, Admitted, Decided, Running,
           Authorized
      <3>5. Required'
        BY <3>1, <3>2, <3>3 DEF GateInv, Gate!settings, Required, Decided
      <3> QED BY <3>2, <3>4, <3>5 DEF GateInv
    <2> QED BY <2>1, <2>2
  <1>6. CASE Gate!EndAudit
    BY <1>6, ConcludeKeeps DEF Gate!EndAudit, GateInv, Decided
  <1>7. CASE Gate!EndScan
    <2>1. PICK next \in {"dependabot", "verdict"} :
            /\ next = IF enabled THEN "dependabot" ELSE "verdict"
            /\ Gate!Conclude("static", Gate!Grave, next, {})
      BY <1>7 DEF Gate!EndScan
    <2> QED BY <1>7, <2>1, ConcludeKeeps DEF Gate!EndScan, GateInv, Decided
  <1>8. CASE Gate!Dependabot
    <2>1. Heeded' /\ issues' \subseteq Gate!Words /\ said' \subseteq Gate!Words
      <3>1. CASE Gate!Nothing
        BY <1>8, <3>1, NothingHeeded DEF Gate!Dependabot
      <3>2. CASE Gate!Found({"medium"}, {})
        BY <1>8, <3>2, FoundHeeded, {"medium"} \in SUBSET Gate!Words
           DEF Gate!Dependabot, Gate!Words, Gate!Ordered, Gate!Grave
      <3> QED BY <1>8, <3>1, <3>2 DEF Gate!Dependabot
    <2> QED BY <1>8, <2>1 DEF Gate!Dependabot, GateInv, Gate!settings, Gate!TypeOK, Admitted,
               Required,
                              Decided, Running, Authorized
  <1>9. CASE Gate!EndTools
    BY <1>9, ConcludeKeeps DEF Gate!EndTools, GateInv, Decided
  <1>10. CASE Gate!Verdict
    BY <1>10 DEF GateInv, Gate!Verdict, Gate!settings, Gate!TypeOK, Admitted, Heeded, Required,
             Decided,
                 Running, Authorized
  <1>11. CASE UNCHANGED gateVars
    BY <1>11 DEF gateVars, GateInv, Gate!TypeOK, Admitted, Heeded, Required, Decided
  <1> QED BY <1>1, <1>2, <1>3, <1>4, <1>5, <1>6, <1>7, <1>8, <1>9, <1>10, <1>11 DEF Gate!Next

\* A step of the kernel is one of the part, or leaves it as it is
LEMMA GateSteps == [Next]_vars => [Gate!Next]_gateVars
  BY DEF Next, Still, vars, gateVars

\* The invariant of the part holds in every behaviour of the kernel
LEMMA GateAlways == Spec => []GateInv
  <1>1. Init => GateInv
    BY GateInit DEF Init
  <1>2. GateInv /\ [Next]_vars => GateInv'
    BY GateSteps, GateNext, KernelAssumption
  <1> QED BY <1>1, <1>2, PTL DEF Spec

\* A deployment that the gate lets through was authorized on this machine, and no report of its
\* checks was grave, with every scanner there where all are required.
THEOREM LetThroughClean == Spec => []LetThroughIsClean
  <1>1. GateInv => LetThroughIsClean
    BY DEF GateInv, Admitted, Heeded, Required, Decided, LetThroughIsClean,
           Gate!LetThroughIsClean
  <1> QED BY <1>1, GateAlways, PTL

=============================================================================
