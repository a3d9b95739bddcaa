----------------------------- MODULE ModelCalls -----------------------------
(***************************************************************************)
(* Calls of outside models by the agents, in one session: the plan of      *)
(* models of core/gemini_runtime_router.py and core/openai_runtime_router  *)
(* .py, the attempts of core/external_ai_bridge.py and of the agent of     *)
(* OpenAI, and the session's tokens and given-up models, which are         *)
(* dictionaries of the router's class that all threads share.              *)
(*                                                                         *)
(* A call reads the tokens spent, then asks the registry for the models    *)
(* there are (a file, a process or a request, which takes seconds), and    *)
(* only then leaves out the models given up.  Tokens are registered by     *)
(* reading and writing the sum.                                            *)
(***************************************************************************)
EXTENDS Naturals, Sequences, FiniteSets

CONSTANTS
    None,
    Threads,    \* threads of the kernel that run agents
    Class,      \* function: a model the provider may list |-> its class
    Bands,      \* how hard tasks are: "low", "medium", "high"
    Extra,      \* models the settings add at the end of a plan, in any order
    Retries,    \* attempts with one model (EXTERNAL_AI_RETRIES)
    Budget,     \* tokens of a session
    MaxCalls    \* bound on the calls begun

VARIABLES
    kind,       \* "retrying": the bridge with tenacity; "loop": without; "openai"
    used,       \* tokens registered for the session
    blocked,    \* models given up for the session
    call,       \* the call of each thread: what of its plan is left, attempts with its model
    begun,      \* calls begun
    spent,      \* history: tokens of the answers
    lost,       \* history: whether two threads were at their sums at once
    given       \* history: how often each model was given up

vars == <<kind, used, blocked, call, begun, spent, lost, given>>

Fixed == {"lite", "flash", "pro", "thinking", "nano", "mini"}
Models == DOMAIN Class \cup Fixed \cup Extra

CallsAssumption == None \notin Models /\ Retries \in Nat \ {0} /\ MaxCalls \in Nat /\ IsFiniteSet(Threads)

Idle == [at |-> "idle", band |-> "low", purse |-> "all", rest |-> <<>>, model |-> None,
         tries |-> 0, sum |-> 0]

-----------------------------------------------------------------------------
(* The plan *)

\* What the budget leaves for a call that is estimated at `est` tokens
Purse(est) ==
    LET left == IF used < Budget THEN Budget - used ELSE 0
    IN  CASE left = 0 -> "empty"
          [] left > 0 /\ est > 2 * left -> "short"
          [] left > 0 /\ est > left /\ est <= 2 * left -> "tight"
          [] OTHER -> "all"

\* Classes of models in the order a task of that band wants them
Wanted(band) ==
    IF kind = "openai"
    THEN CASE band = "low" -> <<"nano", "mini">>
           [] band = "medium" -> <<"mini", "nano">>
           [] OTHER -> <<"pro">>
    ELSE CASE band = "low" -> <<"lite", "flash", "pro", "thinking">>
           [] band = "medium" -> <<"flash", "pro", "lite", "thinking">>
           [] OTHER -> <<"thinking", "pro", "flash", "lite">>

Fallbacks(band) ==
    IF kind = "openai"
    THEN CASE band = "low" -> <<"nano">> [] band = "medium" -> <<"mini">> [] OTHER -> <<"pro">>
    ELSE CASE band = "low" -> <<"lite", "flash", "pro">>
           [] band = "medium" -> <<"flash", "lite", "pro">>
           [] OTHER -> <<"pro", "flash", "lite", "thinking">>

\* A plan is a sequence of sets of models: those of a set are listed in any order, and
\* after those of the sets before it.  A model is tried where it comes first.
Each(models) == [i \in DOMAIN models |-> {models[i]}]

ModelsOf(plan) == UNION {plan[i] : i \in DOMAIN plan}

Heads(plan) ==
    UNION {{m \in plan[i] : \A j \in 1..(i - 1) : plan[j] = {}} : i \in DOMAIN plan}

Listed(band, listed) ==
    [i \in DOMAIN Wanted(band) |-> {m \in listed : Class[m] = Wanted(band)[i]}]

\* OpenAI's fallbacks follow what is listed; the others replace an empty list
Ranked(band, listed) ==
    IF kind = "openai" THEN Listed(band, listed) \o Each(Fallbacks(band)) \o <<Extra>>
    ELSE IF ModelsOf(Listed(band, listed)) = {} THEN Each(Fallbacks(band))
    ELSE Listed(band, listed)

\* With nothing left of the budget, or with not enough for this call, cheap models
Affordable(c, listed) ==
    CASE kind = "openai" /\ c.purse = "empty" -> <<{"nano"}>>
      [] kind = "openai" /\ c.purse \in {"short", "tight"} ->
            <<{"nano"}, {"mini"}>> \o Ranked(c.band, listed)
      [] kind # "openai" /\ c.purse \in {"empty", "short"} -> <<{"lite"}, {"flash"}>>
      [] OTHER -> Ranked(c.band, listed)

\* The plan if the models given up stay in it
Tried(plan) == plan

Usable(plan) == [i \in DOMAIN plan |-> plan[i] \ blocked]

\* Antigravity's extra models come after the others and are never left out
PlanOf(c, listed) ==
    Usable(Affordable(c, listed)) \o (IF kind = "openai" THEN <<>> ELSE <<Extra>>)

-----------------------------------------------------------------------------
(* A call *)

\* build_plan, first half
Begin(t) ==
    /\ call[t].at = "idle" /\ begun < MaxCalls
    /\ \E est \in {1, 3}, band \in Bands :
        call' = [call EXCEPT ![t] = [Idle EXCEPT !.at = "planning", !.band = band,
                                                 !.purse = Purse(est)]]
    /\ begun' = begun + 1
    /\ UNCHANGED <<kind, used, blocked, spent, lost, given>>

\* get_models: what the registry's file holds while it is fresh, what the provider lists
\* now, or the file after all, which may be missing
Listings == SUBSET DOMAIN Class

\* The attempts with the first model of a plan; those of the others follow
Try(plan, m) == [Idle EXCEPT !.at = "asking", !.rest = plan, !.model = m]

\* build_plan, second half.  An empty plan is an exception, which ends the call.  The agent
\* of OpenAI takes the first model only.
Plan(t) ==
    /\ call[t].at = "planning"
    /\ \E listed \in Listings :
        LET plan == PlanOf(call[t], listed)
        IN  \/ Heads(plan) = {} /\ call' = [call EXCEPT ![t] = Idle]
            \/ \E m \in Heads(plan) :
                call' = [call EXCEPT ![t] = Try(IF kind = "openai" THEN <<{m}>> ELSE plan, m)]
    /\ UNCHANGED <<kind, used, blocked, begun, spent, lost, given>>

\* The request for Google's list fails: an exception, unlike OpenAI's, that nobody catches
NoListing(t) ==
    /\ call[t].at = "planning" /\ kind # "openai" /\ call[t].purse \in {"tight", "all"}
    /\ call' = [call EXCEPT ![t] = Idle]
    /\ UNCHANGED <<kind, used, blocked, begun, spent, lost, given>>

\* How an attempt may end.  "refused": capacity or tokens; "signin": the output is a
\* request to sign in; "auth": an exit code with an error of authorisation; "error": any
\* other, as when there is no program to run.
Outcomes == {"answer", "signin", "refused", "auth", "timeout", "error"}

\* An exit code of zero is an answer, whatever the output
IsExitZero(o) == o \in {"answer", "signin"}

IsAnswer(o) == o = "answer"

Again(o) ==
    CASE kind = "retrying" -> o \in {"refused", "timeout"}
      [] kind = "loop" -> o \in {"refused", "auth"}
      [] OTHER -> FALSE

\* After the last attempt with a model it is given up, but a timeout ends the call
GivenUp(c, o) == Again(o) /\ o # "timeout" /\ c.tries + 1 = Retries

Without(plan, m) == [i \in DOMAIN plan |-> plan[i] \ {m}]

\* What follows an attempt of the call c that ended in o: nothing more with this model,
\* once it was tried often enough
AfterAttempt(c, o) ==
    LET left == Without(c.rest, c.model)
    IN  IF IsAnswer(o) THEN {[Idle EXCEPT !.at = "counting"]}
        ELSE IF Again(o) /\ c.tries + 1 < Retries THEN {[c EXCEPT !.tries = c.tries + 1]}
        ELSE IF GivenUp(c, o) /\ Heads(left) # {} THEN {Try(left, m) : m \in Heads(left)}
        ELSE {Idle}

\* One attempt with the model that it is the turn of
Attempt(t) ==
    LET c == call[t]
    IN  /\ c.at = "asking"
        /\ \E o \in Outcomes :
            /\ \E after \in AfterAttempt(c, o) : call' = [call EXCEPT ![t] = after]
            /\ spent' = IF o = "answer" THEN spent + 1 ELSE spent
            /\ IF GivenUp(c, o)
               THEN /\ blocked' = blocked \cup {c.model}
                    /\ given' = [given EXCEPT ![c.model] = @ + 1]
               ELSE UNCHANGED <<blocked, given>>
        /\ UNCHANGED <<kind, used, begun, lost>>

\* register_usage reads the sum ...
ReadSum(t) ==
    /\ call[t].at = "counting"
    /\ call' = [call EXCEPT ![t] = [call[t] EXCEPT !.at = "writing", !.sum = used]]
    /\ lost' = (lost \/ \E u \in Threads : call[u].at = "writing")
    /\ UNCHANGED <<kind, used, blocked, begun, spent, given>>

\* ... and writes it
WriteSum(t) ==
    /\ call[t].at = "writing"
    /\ used' = call[t].sum + 1
    /\ call' = [call EXCEPT ![t] = Idle]
    /\ UNCHANGED <<kind, blocked, begun, spent, lost, given>>

-----------------------------------------------------------------------------

Init ==
    /\ kind \in {"retrying", "loop", "openai"}
    /\ used = 0 /\ blocked = {}
    /\ call = [t \in Threads |-> Idle]
    /\ begun = 0 /\ spent = 0 /\ lost = FALSE
    /\ given = [m \in Models |-> 0]

Next ==
    \E t \in Threads :
        Begin(t) \/ Plan(t) \/ NoListing(t) \/ Attempt(t) \/ ReadSum(t) \/ WriteSum(t)

Spec == Init /\ [][Next]_vars

-----------------------------------------------------------------------------

Counting == {t \in Threads : call[t].at \in {"counting", "writing"}}

Call ==
    [at : {"idle", "planning", "asking", "counting", "writing"}, band : Bands \cup {"low"},
     purse : {"empty", "short", "tight", "all"}, rest : Seq(SUBSET Models),
     model : Models \cup {None}, tries : Nat, sum : Nat]

TypeOK ==
    /\ kind \in {"retrying", "loop", "openai"}
    /\ blocked \subseteq Models /\ given \in [Models -> Nat]
    /\ used \in Nat /\ spent \in Nat /\ begun \in 0..MaxCalls /\ lost \in BOOLEAN
    /\ call \in [Threads -> Call]
    /\ \A t \in Threads : call[t].at = "asking" =>
            call[t].model \in Heads(call[t].rest) /\ call[t].tries < Retries

\* A model that a session gave up stays given up: another call may give it up again only
\* if it was planned before, so that no model, but the extra ones of the settings, is
\* given up more often than there are threads (build_plan, block_model).
GivenUpStaysOut ==
    \A m \in Models \ Extra : given[m] <= Cardinality(Threads)

\* The tokens registered for a session are those of its answers, which are registered
\* once and only if the output is one; fewer, once two threads have added theirs at the
\* same time, and never more (register_usage, _cli_output_error).
TokensAreOfAnswers ==
    /\ used <= spent
    /\ ~lost => used + Cardinality(Counting) = spent

=============================================================================
