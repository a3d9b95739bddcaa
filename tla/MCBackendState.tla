---------------------------- MODULE MCBackendState ----------------------------
(***************************************************************************)
(* The instances of BackendState for TLC: the bounds of each part.  The    *)
(* account has one group of behaviours per group of requests, as what two  *)
(* requests do to each other does not depend on a third.                   *)
(***************************************************************************)
EXTENDS BackendState, FiniteSets, TLC

CONSTANTS q1, q2, p1, p2, a1, a2

VARIABLE group

\* Requests per group
Operations ==
    [password |-> {"login", "password"}, lock |-> {"login", "lock", "unlock"}, guess |-> {"login"},
     delete |-> {"login", "delete", "restore"}, move |-> {"login", "move", "delete"},
     create |-> {"login", "create"}, profile |-> Accounts!Views \cup {"delete"},
     shown |-> {"login", "view", "delete"}, learning |-> {}]

MCInit ==
    /\ group \in DOMAIN Operations
    /\ Init
    /\ part = "learning" <=> group = "learning"
    /\ user = None <=> group = "create"
    /\ user # None => user = CHOOSE u \in Accounts!NewUser : TRUE

Asked == {req'[q] : q \in Requests}

\* Copies of a profile are asked for where profiles are, and those of the row elsewhere.
\* Guesses miss where accounts are locked, and until they lock them where logins are all
\* that there is.  One address is enough where the account keeps it, and one password
\* where that is all that is asked about
Bounded ==
    /\ \A r \in Asked : r.op \in Operations[group] \cup {"none"}
    /\ clock' <= IF group = "shown" THEN MaxClock ELSE 3
    /\ changes' <= IF group \in {"password", "lock"} THEN 1 ELSE 2
    /\ group \notin {"profile", "shown"} => profileCache' = None
    /\ group # "guess" /\ user' # None => user'.failed <= IF group = "lock" THEN 1 ELSE 0
    /\ group # "move" =>
        Cardinality({r.address : r \in Asked} \cup
                    {IF user' = None THEN None ELSE user'.address} \cup {None}) <= 2
    /\ group \in {"move", "delete", "shown"} => \A r \in Asked : r.password \in {None, user.password}

MCNext == Next /\ (part = "account" => Bounded) /\ UNCHANGED group

MCVars == <<vars, group>>

MCSpec == MCInit /\ [][MCNext]_MCVars

Symmetry == Permutations({q1, q2}) \cup Permutations({p1, p2}) \cup Permutations({a1, a2})

=============================================================================
