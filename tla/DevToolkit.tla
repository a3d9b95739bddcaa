----------------------------- MODULE DevToolkit -----------------------------
(***************************************************************************)
(* The planning chat of core/dev_toolkit_module.py: its sessions, their    *)
(* messages, clipboards and audit log, behind the routes of                *)
(* core/api_bridge_module.py.                                              *)
(*                                                                         *)
(* A chat runs in a thread of the pool, and there may be several for one   *)
(* session; the other routes run in the event loop, one at a time.  None   *)
(* takes a lock.  A session is an object of a table, which whoever looks   *)
(* for it before it is in the table makes again.                           *)
(***************************************************************************)
EXTENDS Naturals, Sequences, FiniteSets, SequencesExt

CONSTANTS
    Sessions,   \* ids that clients send; a blank one stands for a new id
    Blank,
    Modes,      \* those _normalize_mode knows, with "plan" for any other
    Threads,    \* of the pool
    Loop,       \* the event loop
    None,
    MaxCalls    \* bound on the requests that reach the module

VARIABLES
    api,        \* whether the module has the kernel's API: it is loaded
    table,      \* _sessions: the object of an id
    object,     \* of each object of a session: mode and message_count
    messages,   \* _messages
    clipboard,  \* _clipboard: how many items
    audit,      \* _audit_logs: how each request ended
    chat,       \* what each thread is about
    calls

vars == <<api, table, object, messages, clipboard, audit, chat, calls>>

ToolkitAssumption == MaxCalls \in Nat /\ "plan" \in Modes

\* A new id, and a new object, is named after the call that makes it
Calls == 1..MaxCalls
Ids == Sessions \cup Calls
Runners == Threads \cup {Loop}

NoChat == [at |-> "none", id |-> None, mode |-> "plan", call |-> 0, own |-> 0]

IdOf(session, call) == IF session = Blank THEN call ELSE session

-----------------------------------------------------------------------------

\* An id's list is kept if there is one, or begun anew
Renewed(list) == <<>>
Kept(list) == list

\* load_or_create_session looks for the session; one that is there takes the mode
Look(r, id, mode) ==
    IF table[id] # None
    THEN /\ object' = [object EXCEPT ![table[id]] = [mode |-> mode, count |-> Len(messages[id])]]
         /\ chat' = [chat EXCEPT ![r] = [at |-> "found", id |-> id, mode |-> mode,
                                         call |-> calls + 1, own |-> table[id]]]
    ELSE /\ object' = [object EXCEPT ![calls + 1] = [mode |-> mode, count |-> 0]]
         /\ chat' = [chat EXCEPT ![r] = [at |-> "making", id |-> id, mode |-> mode,
                                         call |-> calls + 1, own |-> calls + 1]]

\* ... and puts the one it made into the table
Make(r) ==
    /\ chat[r].at = "making"
    /\ table' = [table EXCEPT ![chat[r].id] = chat[r].own]
    /\ messages' = [messages EXCEPT ![chat[r].id] = Kept(@)]
    /\ chat' = [chat EXCEPT ![r].at = "found"]
    /\ UNCHANGED <<api, object, clipboard, audit, calls>>

\* _append_message: to the list of the id, and counted in the object in the table
Say(r, role) ==
    LET id == chat[r].id
    IN  /\ messages' = [messages EXCEPT ![id] = Append(@, <<chat[r].call, role>>)]
        /\ object' = IF table[id] = None THEN object
                     ELSE [object EXCEPT ![table[id]].count = Len(messages[id]) + 1]

Log(status) == audit' = Append(audit, status)

End(r) == chat' = [chat EXCEPT ![r] = NoChat]

-----------------------------------------------------------------------------
(* handle_devtoolkit_chat, in a thread *)

\* Without the kernel's API the request is answered at once
BeginChat(t) ==
    /\ chat[t].at = "none" /\ calls < MaxCalls
    /\ calls' = calls + 1
    /\ IF api
       THEN \E s \in Sessions \cup {Blank}, m \in Modes : Look(t, IdOf(s, calls + 1), m)
       ELSE UNCHANGED <<object, chat>>
    /\ UNCHANGED <<api, table, messages, clipboard, audit>>

Ask(t) ==
    /\ chat[t].at = "found"
    /\ Say(t, "user")
    /\ chat' = [chat EXCEPT ![t].at = "planning"]
    /\ UNCHANGED <<api, table, clipboard, audit, calls>>

\* The kernel's planner fails, or is gone with its API: the user's message stays
NoPlan(t) ==
    /\ chat[t].at = "planning"
    /\ End(t)
    /\ UNCHANGED <<api, table, object, messages, clipboard, audit, calls>>

Answer(t) ==
    /\ chat[t].at = "planning"
    /\ Say(t, "assistant")
    /\ chat' = [chat EXCEPT ![t].at = "answered"]
    /\ UNCHANGED <<api, table, clipboard, audit, calls>>

\* The thread's own object goes into the table again
Touch(t) ==
    LET id == chat[t].id
    IN  /\ chat[t].at = "answered"
        /\ table' = [table EXCEPT ![id] = chat[t].own]
        /\ object' = [object EXCEPT ![chat[t].own].count = Len(messages[id])]
        /\ Log("planned")
        /\ End(t)
        /\ UNCHANGED <<api, messages, clipboard, calls>>

-----------------------------------------------------------------------------
(* The routes of the event loop *)

LoopIsFree == chat[Loop].at = "none" /\ calls < MaxCalls

\* POST /devtoolkit/sessions and /devtoolkit/execute: the latter does nothing else but
\* note that it did not
BeginLoop(at) ==
    /\ LoopIsFree
    /\ calls' = calls + 1
    /\ \E s \in Sessions \cup {Blank}, m \in Modes : Look(Loop, IdOf(s, calls + 1), m)
    /\ audit' = IF at = "execute" THEN Append(audit, "blocked") ELSE audit
    /\ UNCHANGED <<api, table, messages, clipboard>>

EndLoop ==
    /\ chat[Loop].at = "found"
    /\ End(Loop)
    /\ UNCHANGED <<api, table, object, messages, clipboard, audit, calls>>

\* GET /devtoolkit/sessions counts the messages of each session
List ==
    /\ LoopIsFree
    /\ object' = [o \in DOMAIN object |->
                    IF \E id \in Ids : table[id] = o
                    THEN [object[o] EXCEPT !.count =
                            Len(messages[CHOOSE id \in Ids : table[id] = o])]
                    ELSE object[o]]
    /\ UNCHANGED <<api, table, messages, clipboard, audit, chat, calls>>

\* POST /devtoolkit/clipboard, which makes no session
Clip ==
    /\ LoopIsFree
    /\ calls' = calls + 1
    /\ \E s \in Sessions \cup {Blank} :
        clipboard' = [clipboard EXCEPT ![IdOf(s, calls + 1)] = @ + 1]
    /\ UNCHANGED <<api, table, object, messages, audit, chat>>

\* POST /modules/load and /modules/unload: on_load and on_unload
Switch ==
    /\ LoopIsFree
    /\ calls' = calls + 1
    /\ api' = ~api
    /\ UNCHANGED <<table, object, messages, clipboard, audit, chat>>

-----------------------------------------------------------------------------

Init ==
    /\ api = TRUE
    /\ table = [id \in Ids |-> None]
    /\ object = [c \in Calls |-> [mode |-> "plan", count |-> 0]]
    /\ messages = [id \in Ids |-> <<>>]
    /\ clipboard = [id \in Ids |-> 0]
    /\ audit = <<>>
    /\ chat = [r \in Runners |-> NoChat]
    /\ calls = 0

Next ==
    \/ \E t \in Threads : BeginChat(t) \/ Ask(t) \/ NoPlan(t) \/ Answer(t) \/ Touch(t)
    \/ \E r \in Runners : Make(r)
    \/ \E at \in {"session", "execute"} : BeginLoop(at)
    \/ EndLoop \/ List \/ Clip \/ Switch

Spec == Init /\ [][Next]_vars

-----------------------------------------------------------------------------

Message == Calls \X {"user", "assistant"}

Chatting ==
    [at : {"none", "making", "found", "planning", "answered"}, id : Ids \cup {None},
     mode : Modes, call : 0..MaxCalls, own : 0..MaxCalls]

TypeOK ==
    /\ api \in BOOLEAN /\ calls \in 0..MaxCalls
    /\ table \in [Ids -> Calls \cup {None}]
    /\ object \in [Calls -> [mode : Modes, count : Nat]]
    /\ messages \in [Ids -> Seq(Message)]
    /\ clipboard \in [Ids -> Nat]
    /\ audit \in Seq({"planned", "blocked"})
    /\ chat \in [Runners -> Chatting]

\* Nothing that was said in a session is lost, though two chats may begin the session at
\* once and each put an object of its own into the table, once when it begins and once when
\* it ends (load_or_create_session, handle_devtoolkit_chat).
NothingSaidIsLost == [][\A id \in Ids : IsPrefix(messages[id], messages[id]')]_vars

=============================================================================
