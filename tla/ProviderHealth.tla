--------------------------- MODULE ProviderHealth ---------------------------
(***************************************************************************)
(* Whether a provider of models can be used: the probes that a task waits  *)
(* for before it is run (core/availability.py, the managers of             *)
(* core/integrations, core/openai_model_registry.py), and the script that  *)
(* signs in to Antigravity (scripts/antigravity_login.py).                 *)
(*                                                                         *)
(* The threads that run tasks share two caches of results and the list of  *)
(* OpenAI's models in a file.  A step is one request, command or access to *)
(* the file.  Each request may fail, and whatever raises in a command      *)
(* counts as a failure of it.  Of the Antigravity command, agy, only the   *)
(* exit code is looked at, which may be 0 although it asks to sign in, as  *)
(* _cli_output_error of external_ai_bridge.py knows: whether its session   *)
(* is signed in decides nothing here.                                      *)
(***************************************************************************)
EXTENDS Naturals

CONSTANTS
    Threads,
    MaxChecks,  \* bounds the checks and the failures recorded, for model checking
    None

Probed == {"antigravity", "mistral", "openai"}
Providers == Probed \cup {"local"}
Failures == {"timeout", "auth_failed", "quota_exceeded", "offline"}
Statuses == Failures \cup {"healthy", "degraded"}

ChecksAssumption == MaxChecks \in Nat

VARIABLES
    keyed,      \* the providers that a key is set for
    agy,        \* the Antigravity command is installed
    autologin,  \* auto_login_enabled
    catalog,    \* the file of OpenAI's models: "none", "torn", "fresh" or "old"
    check,      \* of each thread: the step of its check, and what it has learnt
    checks,     \* how many there were
    health, failure,    \* _health_cache and _failure_cache
    served      \* history: the last list or generation it asked for succeeded

vars == <<keyed, agy, autologin, catalog, check, checks, health, failure, served>>
settings == <<keyed, agy, autologin, checks>>
caches == <<health, failure>>

NoCheck == [at |-> "idle", provider |-> None, live |-> FALSE, status |-> None]

Go(t, at) == check' = [check EXCEPT ![t].at = at]

\* The status is known, and is put into the caches next
Judge(t, status) == check' = [check EXCEPT ![t].at = "cache", ![t].status = status]

Answered(t) == served' = [served EXCEPT ![t] = TRUE]
Unanswered(t) == served' = [served EXCEPT ![t] = FALSE]

MayStart(t) ==
    /\ check[t].at = "idle"
    /\ checks < MaxChecks /\ checks' = checks + 1

-----------------------------------------------------------------------------
(* check_provider *)

\* A provider that is not probed is assumed to be healthy
Begin(t, p, live) ==
    /\ MayStart(t)
    /\ check' = [check EXCEPT ![t] =
            [NoCheck EXCEPT !.provider = p, !.live = live,
                            !.at = IF p \in Probed THEN "connect" ELSE "cache",
                            !.status = IF p \in Probed THEN None ELSE "healthy"]]
    /\ served' = [served EXCEPT ![t] = FALSE]
    /\ UNCHANGED <<keyed, agy, autologin, catalog, caches>>

\* check_antigravity, check_mistral, check_openai: what follows when a host was reached
AskAntigravity(t) == Go(t, "models")
AskMistral(t) == IF "mistral" \in keyed THEN Go(t, "list") ELSE Judge(t, "degraded")
AskOpenAI(t) ==
    IF "openai" \in keyed THEN Go(t, IF check[t].live THEN "fetch" ELSE "look up")
    ELSE Judge(t, "auth_failed")

\* _tcp_probe: any of the provider's hosts is enough
Connect(t) ==
    LET p == check[t].provider
    IN  /\ check[t].at = "connect"
        /\ \/ Judge(t, "timeout")
           \/ p = "antigravity" /\ AskAntigravity(t)
           \/ p = "mistral" /\ AskMistral(t)
           \/ p = "openai" /\ AskOpenAI(t)
        /\ UNCHANGED <<settings, catalog, caches, served>>

\* MistralManager.probe_models: also an empty list is an answer
ListMistral(t) ==
    /\ check[t].at = "list"
    /\ \/ Answered(t) /\ Judge(t, "healthy")
       \/ Unanswered(t) /\ Judge(t, "degraded")
    /\ UNCHANGED <<settings, catalog, caches>>

\* _fetch_live: a list without a model of text, or none, leaves the one of the file
FetchLive(t) ==
    /\ check[t].at = "fetch"
    /\ \/ Answered(t) /\ Go(t, "open catalog")
       \/ Unanswered(t) /\ Go(t, "fall back")
    /\ UNCHANGED <<settings, catalog, caches>>

\* _save_cache: a file that cannot be written raises, and the check gives no status
SaveCatalog(t) ==
    /\ \/ check[t].at = "open catalog" /\ catalog' = "torn" /\ Go(t, "write catalog")
       \/ check[t].at = "write catalog" /\ catalog' = "fresh" /\ Judge(t, "healthy")
       \/ check[t].at \in {"open catalog", "write catalog"} /\ UNCHANGED catalog
            /\ check' = [check EXCEPT ![t] = NoCheck]
    /\ UNCHANGED <<settings, caches, served>>

\* _load_cache, before a request and after one that failed
LoadCatalog(t) ==
    LET c == check[t]
    IN  /\ c.at \in {"look up", "fall back"}
        /\ IF catalog = "fresh" THEN Judge(t, "healthy")
           ELSE IF c.at = "look up" THEN Go(t, "fetch")
           ELSE Judge(t, "degraded")
        /\ served' = [served EXCEPT ![t] = (catalog = "fresh")]
        /\ UNCHANGED <<settings, catalog, caches>>

-----------------------------------------------------------------------------
(* AntigravityManager.status *)

\* agy models: with a list, a generation is tried; without, the list by a key
Models(t) ==
    /\ check[t].at \in {"models", "models again"}
    /\ \/ agy /\ Go(t, "generation")
       \/ IF check[t].at = "models" THEN Go(t, "key") ELSE Judge(t, "degraded")
    /\ UNCHANGED <<settings, catalog, caches, served>>

\* The list of models is taken for readiness
GenerationUntried(t) ==
    /\ check[t].at = "generation"
    /\ Judge(t, "healthy")
    /\ UNCHANGED <<settings, catalog, caches, served>>

Generation(t) ==
    /\ check[t].at = "generation"
    /\ \/ agy /\ Answered(t) /\ Judge(t, "healthy")
       \/ Unanswered(t) /\ Judge(t, "degraded")
    /\ UNCHANGED <<settings, catalog, caches>>

\* probe_api_key_models; a missing command ends the probes, any other failure of it
\* is taken for one of its session
Key(t) ==
    /\ check[t].at = "key"
    /\ \/ "antigravity" \in keyed /\ Answered(t) /\ Judge(t, "healthy")
       \/ Unanswered(t) /\ IF agy THEN Go(t, "verify") ELSE Judge(t, "degraded")
    /\ UNCHANGED <<settings, catalog, caches>>

\* ensure_authorized: the script's --verify, a generation whose exit code is all that is
\* looked at, and its --login unless that is turned off
Verify(t) ==
    /\ check[t].at = "verify"
    /\ \/ Go(t, "models again")
       \/ IF autologin THEN Go(t, "log in") ELSE Judge(t, "degraded")
    /\ UNCHANGED <<settings, catalog, caches, served>>

\* login_interactive: not needed if models and generation exit with 0; else the script waits
\* for the user.  The command that runs it gives up after login_timeout and 20 seconds,
\* wherever the script is by then.
LogIn(t) ==
    /\ check[t].at = "log in"
    /\ Go(t, "models again") \/ Go(t, "wait") \/ Judge(t, "degraded")
    /\ UNCHANGED <<settings, catalog, caches, served>>

\* _interactive_pty ends with the user's authorization, the command's end or a timeout
Wait(t) ==
    /\ check[t].at = "wait"
    /\ Go(t, "confirm") \/ Judge(t, "degraded")
    /\ UNCHANGED <<settings, catalog, caches, served>>

\* Models and generation are tried once more, whatever the command returned
Confirm(t) ==
    /\ check[t].at = "confirm"
    /\ Go(t, "models again") \/ Judge(t, "degraded")
    /\ UNCHANGED <<settings, catalog, caches, served>>

-----------------------------------------------------------------------------
(* The caches *)

\* _cache: one cache after the other
CacheHealth(t) ==
    LET c == check[t]
    IN  /\ c.at = "cache"
        /\ health' = [health EXCEPT ![c.provider] = c.status]
        /\ Go(t, "cache failure")
        /\ UNCHANGED <<settings, catalog, failure, served>>

\* The task is told of the status, or the run has noted its failure
CacheFailure(t) ==
    LET c == check[t]
    IN  /\ c.at = "cache failure"
        /\ failure' = [failure EXCEPT ![c.provider] =
                            IF c.status \in {"healthy", "degraded"} THEN None ELSE c.status]
        /\ check' = [check EXCEPT ![t] = NoCheck]
        /\ UNCHANGED <<settings, catalog, health, served>>

\* record_failure, after a run that failed
RecordFailure(t, p, status) ==
    /\ MayStart(t)
    /\ check' = [check EXCEPT ![t] = [NoCheck EXCEPT !.at = "cache", !.provider = p,
                                                     !.status = status]]
    /\ UNCHANGED <<keyed, agy, autologin, catalog, caches, served>>

\* Six hours pass
Age ==
    /\ catalog = "fresh" /\ catalog' = "old"
    /\ UNCHANGED <<settings, check, caches, served>>

-----------------------------------------------------------------------------

Init ==
    /\ keyed \in SUBSET Probed /\ agy \in BOOLEAN /\ autologin \in BOOLEAN
    /\ catalog \in {"none", "fresh", "old"}
    /\ check = [t \in Threads |-> NoCheck] /\ checks = 0
    /\ health = [p \in Providers |-> None] /\ failure = [p \in Providers |-> None]
    /\ served = [t \in Threads |-> FALSE]

ThreadStep(t) ==
    \/ \E p \in Providers, live \in BOOLEAN : Begin(t, p, live)
    \/ \E p \in Providers, s \in Failures : RecordFailure(t, p, s)
    \/ Connect(t) \/ ListMistral(t) \/ FetchLive(t) \/ SaveCatalog(t) \/ LoadCatalog(t)
    \/ Models(t) \/ Generation(t) \/ Key(t)
    \/ Verify(t) \/ LogIn(t) \/ Wait(t) \/ Confirm(t)
    \/ CacheHealth(t) \/ CacheFailure(t)

Next ==
    \/ \E t \in Threads : ThreadStep(t)
    \/ Age

Spec == Init /\ [][Next]_vars

-----------------------------------------------------------------------------

TypeOK ==
    /\ keyed \subseteq Probed /\ agy \in BOOLEAN /\ autologin \in BOOLEAN
    /\ catalog \in {"none", "torn", "fresh", "old"}
    /\ check \in [Threads ->
            [at : {"idle", "connect", "list", "fetch", "open catalog", "write catalog",
                   "look up", "fall back", "models", "models again", "generation", "key", "verify",
                   "log in", "wait", "confirm", "cache", "cache failure"},
             provider : Providers \cup {None}, live : BOOLEAN,
             status : Statuses \cup {None}]]
    /\ checks \in 0 .. MaxChecks
    /\ health \in [Providers -> Statuses \cup {None}]
    /\ failure \in [Providers -> Failures \cup {None}]
    /\ served \in [Threads -> BOOLEAN]

\* A check finds a provider healthy only if the last thing it asked for was given: a list
\* of models by a key, a generation of agy that exited with 0, or for OpenAI the list of an
\* answer within the last six hours.  A connection, agy's list of models, or what the script
\* reports of a login is not enough, and a failure after a success counts (status at
\* antigravity_manager.py:141, check_openai at availability.py:324).
HealthyMeansTried ==
    \A t \in Threads :
        check[t].at = "cache" /\ check[t].status = "healthy" /\ check[t].provider \in Probed
            => served[t]

=============================================================================
