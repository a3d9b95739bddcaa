---------------------------- MODULE HostCommands ----------------------------
(***************************************************************************)
(* Commands that the kernel runs on the machine (core/host_bridge.py,      *)
(* execute), with the box that gh is run in where the host has none        *)
(* (core/distrobox_bridge.py) and its login (core/gh_auth_bridge.py).      *)
(*                                                                         *)
(* Threads of several processes share the file of the allowed commands,    *)
(* the box and the logins.  Each command of the machine is a step, and may *)
(* fail: also a question, which counts as an answer of no.  What the       *)
(* machine has installed does not change meanwhile, the box apart; a login *)
(* may be lost at any time.                                                *)
(***************************************************************************)
EXTENDS Sequences

CONSTANTS
    Threads,
    Toolsets,   \* what the machine may have installed, sets of names
    None

\* A command of each kind: by its name, or not among the allowed ones
Commands == {"gh", "compose", "other", "unlisted"}
Places == {"host", "box"}

CommandsAssumption == None \notin Places

VARIABLES
    spawn,      \* detect_mode: "flatpak-spawn", "container" or "direct"
    tools,      \* what the machine has installed
    token,      \* a token for gh is in the environment
    listed,     \* the file of the allowed commands: "missing", "empty" or "full"
    gate,       \* the box for gh: "none", "bare" or "with gh"
    login,      \* the places where gh is logged in
    caller,     \* of each thread: the step it is at, its command and where gh is
    seen,       \* history: the places logged in at some time since its command began
    misled      \* history: threads whose command did not find the gh that the host has

vars == <<spawn, tools, token, listed, gate, login, caller, seen, misled>>
machine == <<spawn, tools, token>>

NoCaller == [at |-> "idle", command |-> None, place |-> None, tried |-> FALSE]

Go(t, at) == caller' = [caller EXCEPT ![t].at = at]

\* The command was refused, or an exception went to who asked for it, or it has run
Return(t) == caller' = [caller EXCEPT ![t] = NoCaller]

-----------------------------------------------------------------------------
(* validate *)

\* ensure_whitelist: a file that is there is left alone
Call(t, c) ==
    /\ caller[t].at = "idle"
    /\ caller' = [caller EXCEPT ![t].at = IF listed = "missing" THEN "open list" ELSE "read list",
                                ![t].command = c]
    /\ seen' = [seen EXCEPT ![t] = login]
    /\ misled' = misled \ {t}
    /\ UNCHANGED <<machine, listed, gate, login>>

\* write_text empties the file, whatever another thread has put there since, and fills it
MakeList(t) ==
    /\ \/ caller[t].at = "open list" /\ listed' = "empty" /\ Go(t, "fill list")
       \/ caller[t].at = "fill list" /\ listed' = "full" /\ Go(t, "read list")
    /\ UNCHANGED <<machine, gate, login, seen, misled>>

\* The first program the machine has, of those that can do podman's compose
Composers == <<"docker", "docker-compose", "podman-compose">>
Composer == SelectSeq(Composers, LAMBDA p : p \in tools)

\* allowlist, detect_mode and translate.  The host is asked for gh through flatpak-spawn
\* in every mode, which raises FileNotFoundError where that is not installed; it is asked
\* for each composer as well, in vain if the questions fail.
ReadList(t) ==
    LET c == caller[t].command
        refused == \/ listed # "full" \/ c = "unlisted"
                   \/ c = "gh" /\ spawn # "flatpak-spawn"
                   \/ c = "compose" /\ spawn # "container" /\ Composer = <<>>
    IN  /\ caller[t].at = "read list"
        /\ \/ ~refused /\ Go(t, IF c = "gh" THEN "find gh" ELSE "run")
           \/ (refused \/ (c = "compose" /\ spawn = "flatpak-spawn")) /\ Return(t)
        /\ UNCHANGED <<machine, listed, gate, login, seen, misled>>

-----------------------------------------------------------------------------
(* gh: where it is, looked for before the login is asked about and again after  *)

\* `place` is None until the login at a place has been seen
Found(t, p) ==
    IF caller[t].place = None THEN caller' = [caller EXCEPT ![t].at = "status", ![t].place = p]
    ELSE caller' = [caller EXCEPT ![t].at = "run", ![t].place = p]

\* _host_has_binary, then ensure_box, which asks for distrobox: a question that fails is
\* one of a host without either
FindGh(t) ==
    /\ caller[t].at = "find gh"
    /\ \/ /\ "gh" \in tools /\ Found(t, "host")
          /\ UNCHANGED misled
       \/ /\ Return(t) \/ ("distrobox" \in tools /\ Go(t, "find box"))
          /\ misled' = misled \cup (IF "gh" \in tools THEN {t} ELSE {})
    /\ UNCHANGED <<machine, listed, gate, login, seen>>

\* box_exists: a list that fails is a list without the box
FindBox(t) ==
    /\ caller[t].at = "find box"
    /\ \/ gate # "none" /\ Go(t, "find gh in box")
       \/ Go(t, "create box")
    /\ UNCHANGED <<machine, listed, gate, login, seen, misled>>

\* distrobox create may fail, as when another thread has made the box meanwhile
CreateBox(t) ==
    /\ caller[t].at = "create box"
    /\ \/ Return(t) /\ UNCHANGED gate
       \/ gate' = (IF gate = "none" THEN "bare" ELSE gate) /\ Go(t, "find gh in box")
    /\ UNCHANGED <<machine, listed, login, seen, misled>>

\* ensure_gh_installed: a question that fails is answered by installing once more
FindGhInBox(t) ==
    /\ caller[t].at = "find gh in box"
    /\ \/ gate = "with gh" /\ Found(t, "box")
       \/ Go(t, "install gh")
    /\ UNCHANGED <<machine, listed, gate, login, seen, misled>>

InstallGh(t) ==
    /\ caller[t].at = "install gh"
    /\ \/ Return(t) /\ UNCHANGED gate
       \/ gate' = "with gh" /\ Found(t, "box")
    /\ UNCHANGED <<machine, listed, login, seen, misled>>

-----------------------------------------------------------------------------
(* ensure_authenticated *)

\* _status_host, _status_box: asked once more after a login
Status(t) ==
    LET c == caller[t]
    IN  /\ c.at = "status"
        /\ \/ c.place \in login /\ Go(t, "find gh")
           \/ IF token /\ ~c.tried THEN Go(t, "login") ELSE Return(t)
        /\ UNCHANGED <<machine, listed, gate, login, seen, misled>>

\* Whether the login succeeded is not asked
LoginBlind(t) ==
    /\ caller[t].at = "login"
    /\ Go(t, "find gh")
    /\ \/ login' = login \cup {caller[t].place}
       \/ UNCHANGED login
    /\ seen' = [u \in Threads |-> seen[u] \cup login']
    /\ UNCHANGED <<machine, listed, gate, misled>>

\* _login_host, _login_box
Login(t) ==
    /\ caller[t].at = "login"
    /\ \/ login' = login \cup {caller[t].place}
          /\ caller' = [caller EXCEPT ![t].at = "status", ![t].tried = TRUE]
       \/ Return(t) /\ UNCHANGED login
    /\ seen' = [u \in Threads |-> seen[u] \cup login']
    /\ UNCHANGED <<machine, listed, gate, misled>>

-----------------------------------------------------------------------------

\* execute: the command runs, or does not return before its timeout
Run(t) ==
    /\ caller[t].at = "run"
    /\ Return(t)
    /\ UNCHANGED <<machine, listed, gate, login, seen, misled>>

\* A login ends: the operator's, or the token's
Logout(p) ==
    /\ p \in login
    /\ login' = login \ {p}
    /\ UNCHANGED <<machine, listed, gate, caller, seen, misled>>

Init ==
    /\ spawn \in {"flatpak-spawn", "container", "direct"}
    /\ tools \in Toolsets /\ token \in BOOLEAN
    /\ listed \in {"missing", "full"}
    /\ gate \in {"none", "bare", "with gh"}
    /\ login \in SUBSET Places
    /\ "host" \in login => "gh" \in tools
    /\ "box" \in login => gate = "with gh"
    /\ caller = [t \in Threads |-> NoCaller]
    /\ seen = [t \in Threads |-> {}]
    /\ misled = {}

ThreadStep(t) ==
    \/ \E c \in Commands : Call(t, c)
    \/ MakeList(t) \/ ReadList(t)
    \/ FindGh(t) \/ FindBox(t) \/ CreateBox(t) \/ FindGhInBox(t) \/ InstallGh(t)
    \/ Status(t) \/ Login(t)
    \/ Run(t)

Next ==
    \/ \E t \in Threads : ThreadStep(t)
    \/ \E p \in Places : Logout(p)

Spec == Init /\ [][Next]_vars

-----------------------------------------------------------------------------

TypeOK ==
    /\ spawn \in {"flatpak-spawn", "container", "direct"}
    /\ tools \in Toolsets /\ token \in BOOLEAN
    /\ listed \in {"missing", "empty", "full"}
    /\ gate \in {"none", "bare", "with gh"}
    /\ login \subseteq Places
    /\ caller \in [Threads ->
            [at : {"idle", "open list", "fill list", "read list", "find gh", "find box",
                   "create box", "find gh in box", "install gh", "status", "login", "run"},
             command : Commands \cup {None}, place : Places \cup {None}, tried : BOOLEAN]]
    /\ seen \in [Threads -> SUBSET Places]
    /\ misled \subseteq Threads

\* Where a command of gh is about to run there is gh, and since the command was asked for
\* a login was seen; it was seen there, unless one of the two lookups (ensure_authenticated
\* and _translate_gh at host_bridge.py:154-158) missed the gh of the host.  Meanwhile other
\* threads make the box, install gh in it and log in.
GhRunsPrepared ==
    \A t \in Threads :
        LET p == caller[t].place
        IN  caller[t].at = "run" /\ caller[t].command = "gh" =>
                /\ IF p = "host" THEN "gh" \in tools ELSE gate = "with gh"
                /\ seen[t] # {}
                /\ p \in seen[t] \/ t \in misled

=============================================================================
