---------------------------- MODULE MCKernelState ----------------------------
(***************************************************************************)
(* The instances of KernelState for TLC: values of its constants, and the  *)
(* bounds of each part.                                                    *)
(***************************************************************************)
EXTENDS KernelState, TLC

CONSTANTS k1, k2, th, t1, t2

MCOrder == [activity |-> 1, other |-> 2, usage |-> 3]
MCClass == [m |-> "flash", n |-> "mini"]

\* Queue files: one of good tasks, one whose second is refused, one that raises
MCBatches == {<<"good", "empty">>, <<"good", "good">>, <<"good", "cut">>}

-----------------------------------------------------------------------------
(* Where a part may begin in several ways, the behaviours of the others begin in one *)

MCInit ==
    /\ part \in Parts
    /\ Memory!Init /\ (mode = "run" => alone) /\ (part # "memory" => mode = "run")
    /\ Bus!Init /\ (part # "bus" => broker = "none")
    /\ Plan!Init
    /\ Hooks!Init
    /\ Selection!Init /\ (part # "selection" => strict)
    /\ Calls!Init /\ (part # "calls" => kind = "openai")
    /\ Local!Init /\ (part # "local" => endpoint = "other" /\ reach = {"other"} /\ box = {})
    /\ Toolkit!Init
    /\ Commands!Init
    /\ (part # "commands" =>
            spawn = "direct" /\ tools = {} /\ ~token /\ listed = "full" /\ gate = "none" /\ login = {})
    /\ Health!Init /\ keyed \in {{}, Health!Probed}
    /\ (part # "health" => keyed = {} /\ ~agy /\ ~autologin /\ catalog = "none")
    /\ Gate!Init /\ installed \in {{}, {"semgrep"}, Gate!Tools}
    /\ user \/ pass = "right"
    /\ ~enabled => ~needed /\ installed = {}
    /\ (part # "gate" =>
            local /\ user /\ pass = "right" /\ ~enabled /\ ~needed /\ installed = {})
    /\ Intake!Init /\ (part \notin {"chat", "queue"} => fielded)
    /\ Voice!Init /\ (part # "voice" => ~remote /\ ~offline)

\* Of two threads that interleave at the store, two requests are enough
MaxTogether == 2
FewTogether == ~alone => requests' <= MaxTogether

\* The two checks are of one provider: different ones share nothing.  A run that failed is
\* recorded with one status: nothing is decided by it.
OneProvider ==
    LET checked == {check'[t].provider : t \in {t1, t2}} \ {None}
        cached == {p \in Health!Providers : health'[p] # None}
    IN  /\ Cardinality(checked \cup cached) <= 1
        /\ \A t \in {t1, t2} :
                check[t].at = "idle" /\ check'[t].at = "cache"
                    => check'[t].status \in {"offline", "healthy"}

\* The local model is asked while the kernel sets it up at a host with two names, where it
\* was installed before, or set up by the kernel and the script while nobody asks
AskedOrSetUp ==
    \/ uses' = 0
    \/ /\ at'["script"] = "none" /\ \A m \in Local!Makers : told'[m] = "nothing"
       /\ Local!Facts \ {"serving"} \subseteq box /\ endpoint # "other" /\ "other" \notin reach

\* Tasks of the chat and those of a queue file have keys of their own: both share no more
\* than the traces.  Of two clients of the chat one asks only what is accepted, and only
\* that is sent again.
ChatOrQueue ==
    /\ part = "chat" =>
            /\ file' = None
            /\ client'[k2].text \in {None, "good"}
            /\ client'[k1].sent = 2 => client'[k1].text = "good"
    /\ part = "queue" => \A c \in Clients : client'[c] = Intake!Away

\* Of names that may be swapped, the first that is used is always the same
SameFirst ==
    /\ past'[k2] # {} => past'[k1] # {}
    /\ pods' # {"a2"}
    /\ draft' # <<>> => draft'[1].name = "x"

MCNext ==
    /\ Next
    /\ SameFirst
    /\ ChatOrQueue
    /\ FewTogether
    /\ part = "health" => OneProvider
    /\ part = "local" => AskedOrSetUp

MCSpec == MCInit /\ [][MCNext]_vars

Symmetry == Permutations({t1, t2})

=============================================================================
