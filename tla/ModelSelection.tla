--------------------------- MODULE ModelSelection ---------------------------
(***************************************************************************)
(* Which provider gets a task: classify and select of                      *)
(* core/model_selector.py, the advice of core/local_llm_module.py they     *)
(* take, and the order of core/provider_budget_router.py.                  *)
(*                                                                         *)
(* The steps follow run_task.  A description is the set of the kinds of    *)
(* words in it; settings of the environment and what modules answer are    *)
(* chosen at the step that looks at them.                                  *)
(***************************************************************************)
EXTENDS Naturals

VARIABLES
    strict,     \* the policy mode
    stage,      \* "new", "classified", "selected", "ordered"
    task,       \* type, priority, complexity, and whether the risk rules hold for it
    choice,     \* the selector's provider, and whether it wants a second review
    exhausted,  \* providers that wait for the end of their recovery time
    order       \* the place of each provider in the order they are tried

vars == <<strict, stage, task, choice, exhausted, order>>

Types == {"plan", "code", "review", "test", "docs", "fix", "research"}
Priorities == {"low", "normal", "high", "critical"}
Bands == {"low", "medium", "high", "critical"}
Providers == {"openai", "antigravity", "mistral", "local"}

\* Kinds of words: those that are a risk anywhere, "permission", those that are a risk
\* beside it, phrases that exempt it, and words of hard tasks.  An exempt phrase has
\* the word permission in it.
Words == {w \in SUBSET {"risk", "permission", "context", "exempt", "hard"} :
            "exempt" \in w => "permission" \in w}

-----------------------------------------------------------------------------
(* Classification *)

PermissionRisk(words) == {"permission", "context"} \subseteq words

ExemptsAll(words) == ("risk" \in words \/ PermissionRisk(words)) /\ "exempt" \notin words

\* evaluate_risk_context: an exemption takes back the rules about permissions only
HighRisk(words) ==
    \/ "risk" \in words
    \/ PermissionRisk(words) /\ "exempt" \notin words

\* The first rule that holds.  `wide` tells more than two files, `short` a short text,
\* `advised` a score of the risk advisor above its limit.
Classified(type, prio, words, wide, short, advised) ==
    IF advised \/ prio = "critical" \/ HighRisk(words) THEN "critical"
    ELSE IF type \in {"plan", "review"} \/ "hard" \in words THEN "high"
    ELSE IF "exempt" \in words /\ type \in {"docs", "fix"} /\ ~wide /\ short THEN "low"
    ELSE "medium"

\* A complexity the task came with is kept
Classify ==
    /\ stage = "new"
    /\ \E type \in Types, prio \in Priorities :
        \/ \E given \in Bands :
            task' = [type |-> type, prio |-> prio, band |-> given, risk |-> FALSE]
        \/ \E words \in Words, wide, short, advised \in BOOLEAN :
            task' = [type |-> type, prio |-> prio,
                     band |-> Classified(type, prio, words, wide, short, advised),
                     risk |-> "risk" \in words \/ prio = "critical"]
    /\ stage' = "classified"
    /\ UNCHANGED <<strict, choice, exhausted, order>>

-----------------------------------------------------------------------------
(* Selection *)

To(provider, review) == [provider |-> provider, review |-> review]

\* With automatic choice of models and no key for OpenAI, another provider is taken
OpenAI(auto, keys, review) ==
    To(IF ~auto \/ "openai" \in keys THEN "openai"
       ELSE IF "mistral" \in keys THEN "mistral" ELSE "antigravity", review)

\* The local model sorts a task by its own lists of words, for families and for risk, and
\* offers to take those of some families
Offered == {"docs_workflow", "verification", "planning", "analysis"}
Families == Offered \cup {"repo_ops", "general"}

Delegated(family, risky) == family \in Offered /\ ~risky /\ task.prio # "critical"

\* What the selector is told of the local model: nothing of use if the module is absent,
\* fails or does not reach its model
Advice ==
    {[ready |-> FALSE, delegate |-> FALSE]} \cup
    {[ready |-> TRUE, delegate |-> Delegated(family, risky)] : family \in Families, risky \in BOOLEAN}

\* _local_llm_choice: the local model or nothing.  For a plan it must have offered.
LocalChoice(advice) ==
    IF /\ advice.ready
       /\ task.prio # "critical" /\ task.band \in {"low", "medium"}
       /\ task.type \in {"docs", "research", "review"} \/ (task.type = "plan" /\ advice.delegate)
    THEN {To("local", task.type = "plan")}
    ELSE {}

\* Nothing sets prefer_openai, which would send code to OpenAI
Legacy(auto, keys) ==
    IF task.band = "critical" THEN OpenAI(auto, keys, TRUE)
    ELSE IF task.band = "high" /\ task.type \in {"plan", "review"} THEN OpenAI(auto, keys, TRUE)
    ELSE IF task.band = "high" THEN To("antigravity", TRUE)
    ELSE IF task.band = "low" THEN To("local", FALSE)
    ELSE IF task.type = "review" THEN OpenAI(auto, keys, FALSE)
    ELSE IF task.type = "plan" THEN To("local", FALSE)
    ELSE To("antigravity", FALSE)

Strict(auto, keys) ==
    IF task.band = "critical" THEN OpenAI(auto, keys, TRUE)
    ELSE IF task.band = "high"
    THEN To(IF task.type \in {"plan", "review"} THEN "antigravity" ELSE "mistral", TRUE)
    ELSE To(IF task.type \in {"code", "fix", "test"} THEN "mistral" ELSE "antigravity", FALSE)

Select ==
    /\ stage = "classified"
    /\ \E auto \in BOOLEAN, keys \in SUBSET {"openai", "mistral"}, advice \in Advice :
        LET local == IF strict /\ task.type = "plan" THEN {} ELSE LocalChoice(advice)
        IN  IF local # {} THEN choice' \in local
            ELSE choice' = IF strict THEN Strict(auto, keys) ELSE Legacy(auto, keys)
    /\ stage' = "selected"
    /\ UNCHANGED <<strict, task, exhausted, order>>

-----------------------------------------------------------------------------
(* Order *)

\* An order gives each provider its place.  Usual is that of most tasks.
Usual == [antigravity |-> 1, mistral |-> 2, local |-> 3, openai |-> 4]
MistralFirst == [mistral |-> 1, antigravity |-> 2, local |-> 3, openai |-> 4]
OpenAIFirst == [openai |-> 1, antigravity |-> 2, mistral |-> 3, local |-> 4]

\* The order with p before all others
First(p, places) == [q \in Providers |-> IF q = p THEN 0 ELSE places[q] + 1]

\* The order before exhausted providers are left out
Base(force) ==
    LET p == choice.provider
        critical == task.prio = "critical" \/ task.band = "critical"
        forced == ~strict /\ force /\ task.type # "plan"
        high == task.prio = "high" \/ task.band = "high"
    IN  IF critical /\ p = "openai" THEN OpenAIFirst
        ELSE IF critical THEN First(p, Usual)
        ELSE IF forced \/ task.type \in {"code", "review"} THEN Usual
        ELSE IF task.type \in {"test", "fix"} THEN MistralFirst
        ELSE IF ~strict /\ task.type = "plan" /\ high THEN First("antigravity", First(p, Usual))
        ELSE First(p, Usual)

\* The usual list if all are exhausted
Left(base) ==
    IF Providers \subseteq exhausted' THEN Usual
    ELSE [p \in Providers \ exhausted' |-> base[p]]

\* preferred_providers
Rank ==
    /\ stage = "selected"
    /\ \E force \in BOOLEAN, ex \in SUBSET Providers :
        /\ exhausted' = ex
        /\ order' = Left(Base(force))
    /\ stage' = "ordered"
    /\ UNCHANGED <<strict, task, choice>>

-----------------------------------------------------------------------------

Init ==
    /\ strict \in BOOLEAN
    /\ stage = "new"
    /\ task = [type |-> "code", prio |-> "normal", band |-> "medium", risk |-> FALSE]
    /\ choice = To("local", FALSE)
    /\ exhausted = {} /\ order = Usual

Next == Classify \/ Select \/ Rank

Spec == Init /\ [][Next]_vars

-----------------------------------------------------------------------------

TypeOK ==
    /\ stage \in {"new", "classified", "selected", "ordered"}
    /\ task \in [type : Types, prio : Priorities, band : Bands, risk : BOOLEAN]
    /\ choice \in [provider : Providers, review : BOOLEAN]
    /\ exhausted \subseteq Providers
    /\ DOMAIN order \subseteq Providers /\ \A p \in DOMAIN order : order[p] \in 0..6

\* A task with a risky word or of critical priority is not for the local model, whatever
\* the policy, the keys, the exemptions and the advice of that model say: it is reviewed
\* a second time, and the local model comes only after the other two providers that need
\* no OpenAI key, unless those wait to recover (classify, select, preferred_providers).
RiskKeptFromLocal ==
    /\ task.risk /\ stage \in {"selected", "ordered"} => choice.provider # "local" /\ choice.review
    /\ task.risk /\ stage = "ordered" /\ "local" \in DOMAIN order =>
        \A p \in {"antigravity", "mistral"} \ exhausted :
            p \in DOMAIN order /\ order[p] < order["local"]

=============================================================================
