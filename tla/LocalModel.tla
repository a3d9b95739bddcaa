----------------------------- MODULE LocalModel -----------------------------
(***************************************************************************)
(* The model that runs on the machine itself: core/local_llm_module.py,    *)
(* which finds and asks it, and the two that set it up, the kernel as it   *)
(* starts (core/local_llm_bridge.py) and an operator's script              *)
(* (scripts/deploy_local_llm.py).                                          *)
(*                                                                         *)
(* The address is an attribute of the module that all threads share.  A    *)
(* probe tries it and the other name of the same machine, and leaves in it *)
(* the one that answered; a question reads it again for each request.      *)
(***************************************************************************)
EXTENDS Naturals, Sequences, FiniteSets

CONSTANTS
    Threads,    \* threads of the kernel with tasks that probe or ask
    MaxUses     \* bound on the probes and questions begun

VARIABLES
    endpoint,   \* the module's address, by the name of the host
    reach,      \* the names by which this process reaches the service
    box,        \* what is done of the box: see Facts
    at,         \* where each of the two that set it up is
    told,       \* what each of them said in the end
    use,        \* what each thread is about
    uses,
    shown,      \* last_probe, as finalize shows it
    answered,   \* history: the addresses that answered a request
    asked       \* history: the addresses that were sent a question

vars == <<endpoint, reach, box, at, told, use, uses, shown, answered, asked>>

Names == {"containers", "loop", "other"}
Facts == {"made", "program", "serving", "model"}
Makers == {"kernel", "script"}

\* The loading of the local_llm module is a probe of its own
Loader == "loader"
Users == Threads \cup {Loader}

UsesAssumption == MaxUses \in Nat

\* host.containers.internal and 127.0.0.1 stand for each other
Alternative(e) ==
    CASE e = "containers" -> <<"loop">>
      [] e = "loop" -> <<"containers">>
      [] OTHER -> <<>>

Answers(e) == "serving" \in box /\ e \in reach

NoUse == [at |-> "none", urls |-> <<>>, found |-> "none"]

-----------------------------------------------------------------------------
(* Finding the service: _probe *)

\* The list's first address, and later, by another read, its alternative
FirstUrl(u) ==
    /\ use' = [use EXCEPT ![u] = [NoUse EXCEPT !.at = "listing", !.urls = <<endpoint>>]]
    /\ UNCHANGED <<endpoint, reach, box, at, told, shown, answered, asked>>

OtherUrl(u) ==
    /\ use[u].at = "listing"
    /\ use' = [use EXCEPT ![u].at = "trying", ![u].urls = @ \o Alternative(endpoint)]
    /\ UNCHANGED <<endpoint, reach, box, at, told, uses, shown, answered, asked>>

\* Where an address that was tried is kept: not yet, and once it answered
KeptEarly(u) == endpoint' = Head(use[u].urls)
KeptBefore(u) == UNCHANGED endpoint

\* One request.  Also a service that runs may not answer within timeout_sec.
Try(u) ==
    /\ use[u].at = "trying"
    /\ KeptBefore(u)
    /\ LET url == Head(use[u].urls)
       IN  \/ /\ Answers(url)
              /\ answered' = answered \cup {url}
              /\ use' = [use EXCEPT ![u].at = "answered",
                            ![u].found = IF "model" \in box THEN "ready" ELSE "degraded"]
           \/ /\ UNCHANGED answered
              /\ use' = [use EXCEPT ![u].urls = Tail(@), ![u].found = "error",
                            ![u].at = IF Len(use[u].urls) > 1 THEN "trying" ELSE "found"]
    /\ UNCHANGED <<reach, box, at, told, uses, shown, asked>>

\* The address that answered is kept
Keep(u) ==
    /\ use[u].at = "answered"
    /\ endpoint' = Head(use[u].urls)
    /\ use' = [use EXCEPT ![u].at = "found"]
    /\ UNCHANGED <<reach, box, at, told, uses, shown, answered, asked>>

\* before_task and create_execution_plan do not record what they find ...
EndProbe(t) ==
    /\ use[t].at = "found"
    /\ use' = [use EXCEPT ![t] = NoUse]
    /\ UNCHANGED <<endpoint, reach, box, at, told, uses, shown, answered, asked>>

\* ... the loading of the module does, so that the kernel's status goes on showing it
EndLoad ==
    /\ use[Loader].at = "found"
    /\ use' = [use EXCEPT ![Loader] = NoUse]
    /\ shown' = use[Loader].found
    /\ at' = [at EXCEPT !["kernel"] = "autostart"]
    /\ UNCHANGED <<endpoint, reach, box, told, uses, answered, asked>>

BeginProbe(t) ==
    /\ use[t].at = "none" /\ uses < MaxUses
    /\ uses' = uses + 1
    /\ FirstUrl(t)

-----------------------------------------------------------------------------
(* Asking it: structured_call and diagnose_error look whether it is ready, query does so
   again, and then sends the question, each time to the address as it is then *)

IsReady(next, u) ==
    \/ /\ Answers(endpoint)
       /\ answered' = answered \cup {endpoint}
       /\ use' = [use EXCEPT ![u].at = next]
    \/ /\ UNCHANGED answered
       /\ use' = [use EXCEPT ![u] = NoUse]

BeginQuestion(t) ==
    /\ use[t].at = "none" /\ uses < MaxUses
    /\ uses' = uses + 1
    /\ IsReady("query", t)
    /\ UNCHANGED <<endpoint, reach, box, at, told, shown, asked>>

QueryReady(t) ==
    /\ use[t].at = "query"
    /\ IsReady("post", t)
    /\ UNCHANGED <<endpoint, reach, box, at, told, uses, shown, asked>>

\* The answer, or an empty one after any failure
Post(t) ==
    /\ use[t].at = "post"
    /\ asked' = asked \cup {endpoint}
    /\ use' = [use EXCEPT ![t] = NoUse]
    /\ UNCHANGED <<endpoint, reach, box, at, told, uses, shown, answered>>

-----------------------------------------------------------------------------
(* Setting it up.  The kernel's commands go through the host bridge without `check`, so
   that one that failed is followed by the next; the script stops at it *)

Checked(m) == m = "script"

GoTo(m, step) == at' = [at EXCEPT ![m] = step]
Tell(m, what) == GoTo(m, "done") /\ told' = [told EXCEPT ![m] = what]

Setting(m) == UNCHANGED <<endpoint, reach, use, uses, shown, answered, asked>>

\* cold_boot's on_load: if the service does not answer, or the container is not up, the
\* script that starts the whole stack is run
ColdBoot ==
    /\ at["kernel"] = "cold_boot"
    /\ \E b \in {box, box \cup {"serving"}} : box' = b
    /\ answered' = IF Answers(endpoint) THEN answered \cup {endpoint} ELSE answered
    /\ GoTo("kernel", "load")
    /\ UNCHANGED <<endpoint, reach, told, use, uses, shown, asked>>

\* on_load of the local_llm module probes, before the kernel sets anything up
Load ==
    /\ at["kernel"] = "load"
    /\ use[Loader].at = "none"
    /\ FirstUrl(Loader)
    /\ UNCHANGED uses

\* The setting AI_BRIDGE_AUTOSTART_LOCAL_LLM; the script is an operator's
Start(m) ==
    /\ at[m] = IF m = "kernel" THEN "autostart" ELSE "none"
    /\ \/ GoTo(m, "exists") /\ UNCHANGED told
       \/ m = "kernel" /\ Tell(m, "off")
    /\ UNCHANGED box /\ Setting(m)

\* A list of boxes that cannot be had is one without the box.  The kernel goes on with a
\* box that is there, whatever is in it, the script installs in any case.
Exists(m) ==
    /\ at[m] = "exists"
    /\ \/ "made" \in box /\ UNCHANGED told
          /\ GoTo(m, IF m = "kernel" THEN "boot" ELSE "install")
       \/ GoTo(m, "create") /\ UNCHANGED told
       \/ m = "kernel" /\ Tell(m, "not")
    /\ UNCHANGED box /\ Setting(m)

\* A command does what it should, or fails halfway: then whoever checks stops, as does
\* the kernel if there was no program to run
Command(m, needs, half, makes, next) ==
    LET done == needs \subseteq box
    IN  \/ /\ done /\ box' = box \cup half \cup makes
           /\ GoTo(m, next) /\ UNCHANGED told
        \/ /\ box' \in {box, IF done THEN box \cup half ELSE box}
           /\ \/ Tell(m, "not")
              \/ ~Checked(m) /\ GoTo(m, next) /\ UNCHANGED told

\* A box of that name is not made again: the kernel, which lists the boxes once more, or
\* does not check, goes on
Create(m) ==
    /\ at[m] = "create"
    /\ Command(m, {}, {}, {"made"}, "install")
    /\ "made" \in box => ~(Checked(m) /\ at'[m] = "install")
    /\ Setting(m)

Install(m) ==
    /\ at[m] = "install"
    /\ Command(m, {"made"}, {}, {"program"}, "start")
    /\ Setting(m)

\* start_service: the service runs in the background, and the model is pulled
StartService(m) ==
    /\ at[m] = "start"
    /\ Command(m, {"program"}, {"serving"}, {"model"}, IF m = "kernel" THEN "boot" ELSE "verify")
    /\ Setting(m)

\* The kernel's own start of the service and pull of the model, whose failure it sees
Boot ==
    /\ at["kernel"] = "boot"
    /\ \/ /\ "program" \in box
          /\ box' = box \cup {"serving", "model"}
          /\ GoTo("kernel", "probe") /\ UNCHANGED told
       \/ /\ box' \in {box, IF "program" \in box THEN box \cup {"serving"} ELSE box}
          /\ Tell("kernel", "not")
    /\ Setting("kernel")

\* _host_probe: by either name
HostProbe ==
    /\ at["kernel"] = "probe"
    /\ \/ /\ \E e \in {"containers", "loop"} : Answers(e)
          /\ GoTo("kernel", "list") /\ UNCHANGED told
       \/ Tell("kernel", "not")
    /\ UNCHANGED box /\ Setting("kernel")

\* What is looked at in the end: the kernel lists the models in the box, the script asks
\* the service for them
SeenReady(m) ==
    IF m = "kernel" THEN {"program", "serving", "model"} \subseteq box
    ELSE {"serving", "model"} \subseteq box

Verify(m) ==
    /\ at[m] = IF m = "kernel" THEN "list" ELSE "verify"
    /\ \/ SeenReady(m) /\ Tell(m, "ready")
       \/ Tell(m, "not")
    /\ UNCHANGED box /\ Setting(m)

\* The service stops: a crash, a stopped box, a restarted machine
Stops ==
    /\ "serving" \in box
    /\ box' = box \ {"serving"}
    /\ UNCHANGED <<endpoint, reach, at, told, use, uses, shown, answered, asked>>

-----------------------------------------------------------------------------

Init ==
    /\ endpoint \in Names
    /\ reach \in (SUBSET {"containers", "loop"}) \cup {{"other"}}
    /\ box \in {{}, {"made"}, {"made", "program", "model"}, Facts}
    /\ at = [m \in Makers |-> IF m = "kernel" THEN "cold_boot" ELSE "none"]
    /\ told = [m \in Makers |-> "nothing"]
    /\ use = [u \in Users |-> NoUse] /\ uses = 0
    /\ shown = "none"
    /\ answered = {} /\ asked = {}

Next ==
    \/ \E u \in Users : OtherUrl(u) \/ Try(u) \/ Keep(u)
    \/ \E t \in Threads : BeginProbe(t) \/ EndProbe(t) \/ BeginQuestion(t) \/ QueryReady(t) \/ Post(t)
    \/ ColdBoot \/ Load \/ EndLoad \/ Boot \/ HostProbe
    \/ \E m \in Makers :
        Start(m) \/ Exists(m) \/ Create(m) \/ Install(m) \/ StartService(m) \/ Verify(m)
    \/ Stops

Spec == Init /\ [][Next]_vars

-----------------------------------------------------------------------------

Use == [at : {"none", "listing", "trying", "answered", "found", "query", "post"},
        urls : Seq(Names), found : {"none", "error", "degraded", "ready"}]

TypeOK ==
    /\ endpoint \in Names /\ reach \subseteq Names
    /\ box \subseteq Facts
    /\ at \in [Makers -> {"none", "cold_boot", "load", "autostart", "exists", "create", "install",
                          "start", "verify", "boot", "probe", "list", "done"}]
    /\ told \in [Makers -> {"nothing", "off", "not", "ready"}]
    /\ shown \in {"none", "ready", "degraded", "error"}
    /\ use \in [Users -> Use] /\ uses \in 0..MaxUses
    /\ \A u \in Users : use[u].at \in {"listing", "trying", "answered"} => use[u].urls # <<>>

\* A question is sent to an address only if a request was answered there before, although
\* other threads' probes change the address between the check and the question, and try
\* addresses where nobody listens (_probe, ready, query).
AskedWhereAnswered == asked \subseteq answered

=============================================================================
