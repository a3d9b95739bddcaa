------------------------------ MODULE TaskIntake ------------------------------
(***************************************************************************)
(* How tasks reach the kernel: the chat of api_bridge_module.py, the queue *)
(* file of task_listener.py, and submit_user_task of orchestrator.py with  *)
(* its idempotency cache and the rows of orchestrator_control_module.py.   *)
(*                                                                         *)
(* A submission runs in a thread of its own: a worker of the server's      *)
(* pool, the server's event loop (for a full trace), or the listener.  A   *)
(* client that waits too long sends its text again while the first         *)
(* submission goes on.  Answers are told apart by their status only.       *)
(*                                                                         *)
(* create_standard_task gives TaskContext no project, a field that models  *)
(* .py requires: as the code stands, every task that is not refused raises *)
(* there.  `fielded` is false for this code, and true for one that gives   *)
(* the field, in which the rest of the intake is reached.                  *)
(***************************************************************************)
EXTENDS Naturals, Sequences, FiniteSets

CONSTANTS
    Texts,          \* what users ask for
    Empty,          \* those with no meaningful description
    Foreign,        \* those whose letters are no letters to the kernel, as Hebrew ones
    Cut,            \* those that mean nothing once the trigger word is taken off
    Batches,        \* what is written to the queue file: sequences of texts
    Workers, Loop, Listener,    \* the threads that submit
    Clients,
    Fielded,        \* whether create_standard_task gives a project: which cases to check
    None,
    MaxTrace        \* runs whose events fit into a stored answer

Actors == Workers \cup {Loop, Listener}

\* The queue file: its tasks, whether it is written to its end, whether the listener has
\* read it, and whether it was written while the listener worked on an earlier one
QueueFile == [tasks : Batches, whole : BOOLEAN, read : BOOLEAN, during : BOOLEAN]

IntakeAssumption ==
    /\ None \notin Texts \cup QueueFile /\ Batches \subseteq Seq(Texts)
    /\ Listener \notin Workers \cup {Loop}
    /\ MaxTrace \in Nat
    /\ Fielded \subseteq BOOLEAN

VARIABLES
    fielded,    \* create_standard_task gives its tasks all the fields they need
    cache,      \* of each text and way it came: the stored status, or None
    thread,     \* of each thread: its step, its text, its client, its status
    row,        \* of the task each thread works on: its status in submissions
    trace,      \* runs since the start, counted up to MaxTrace + 1
    client,     \* of each client: its text, and how often it has sent it
    file,       \* the queue file, or None
    listener    \* tasks read from the file and not yet answered, and how many were

vars == <<fielded, cache, thread, row, trace, client, file, listener>>

Idle == [at |-> "idle", text |-> None, client |-> None, status |-> None]
Away == [text |-> None, sent |-> 0]
Asleep == [at |-> "sleep", rest |-> <<>>, filed |-> 0]

Ended == {"done", "failed"}

-----------------------------------------------------------------------------
(* A submission *)

\* The kernel knows Latin and Cyrillic letters, and digits
Meaningful(text) == text \notin Empty \cup Foreign

\* validate_normalized_payload
Accepted(text) == Meaningful(text)

\* The chat's own check knows every letter there is
ChatAccepts(text) == text \notin Empty

\* process_chat_input replaces the description by what follows the trigger word, if
\* anything does; it may be too short, or not of the kernel's letters
Asks(text) == text \notin Cut

\* create_standard_task, which validates once more
Standard(text) == fielded /\ Accepted(text)

\* The same, of what is left of a text after the trigger word
Created(text) == Standard(text) /\ Asks(text)

\* The payload of the chat names its source, so that the same text has another key there
\* than in the queue file
Key(x, text) == <<text, IF x = Listener THEN "queue" ELSE "chat">>

\* Only an answer that ended well would be a hit
HitDoneOnly(key) == cache[key] = "done"

\* A hit is an answer that ended, well or not
Hit(key) == cache[key] \in Ended

\* The first half of submit_user_task: an answer, an exception, or a task that is
\* registered.  A plan may split it into tasks with ids of their own: their rows come
\* with the hooks, and its own row is never touched again.
Submit(x, text, c) ==
    LET key == Key(x, text)
        to(at, status) ==
            thread' = [thread EXCEPT ![x] =
                        [at |-> at, text |-> text, client |-> c, status |-> status]]
    IN  /\ thread[x].at = "idle"
        /\ \/ /\ ~Accepted(text) /\ to("answered", "rejected")
              /\ UNCHANGED row
           \/ /\ Accepted(text) /\ Hit(key) /\ to("answered", cache[key])
              /\ UNCHANGED row
           \/ /\ Accepted(text) /\ ~Hit(key) /\ ~Created(text) /\ to("raised", None)
              /\ UNCHANGED row
           \/ /\ Created(text) /\ ~Hit(key) /\ to("submitted", None)
              /\ \E status \in {"submitted", "none"} : row' = [row EXCEPT ![x] = status]

\* Hook before_task of orchestrator_control
BeforeTask(x) ==
    /\ thread[x].at = "submitted"
    /\ thread' = [thread EXCEPT ![x].at = "running"]
    /\ row' = [row EXCEPT ![x] = "running"]
    /\ UNCHANGED <<fielded, cache, trace, client, file, listener>>

\* An answer holds the events and decisions since the start: once they are too large,
\* set raises, and nobody gets the answer of the task that has run
Store(x, status) ==
    IF trace' > MaxTrace
    THEN thread' = [thread EXCEPT ![x].at = "raised"] /\ UNCHANGED cache
    ELSE /\ thread' = [thread EXCEPT ![x].at = "answered", ![x].status = status]
         /\ cache' = [cache EXCEPT ![Key(x, thread[x].text)] = status]

\* The row of a task that has ended
EndOf(old, status) == status

\* Hook after_task, the end of run, and the second half of submit_user_task
AfterTask(x, status) ==
    /\ thread[x].at = "running"
    /\ row' = [row EXCEPT ![x] = EndOf(@, status)]
    /\ trace' = IF trace > MaxTrace THEN trace ELSE trace + 1
    /\ Store(x, status)
    /\ UNCHANGED <<fielded, client, file, listener>>

\* run raises before a hook or between the two: nothing is written to the row
Raise(x) ==
    /\ thread[x].at \in {"submitted", "running"}
    /\ thread' = [thread EXCEPT ![x].at = "raised"]
    /\ UNCHANGED <<fielded, cache, row, trace, client, file, listener>>

\* The thread is free again: nobody works on its row any more
Leave(x) ==
    /\ thread' = [thread EXCEPT ![x] = Idle]
    /\ row' = [row EXCEPT ![x] = "none"]

-----------------------------------------------------------------------------
(* Clients of the chat *)

\* Anything but a full trace is submitted in a worker of the server's pool
Chat(c, text) == \E x \in Workers : Submit(x, text, c)

\* A full trace is submitted in the event loop, which first creates the task itself, for
\* what the answer says of it, and fails where that raises
Traced(c, text) ==
    IF Standard(text) THEN Submit(Loop, text, c)
    ELSE /\ thread' = [thread EXCEPT ![Loop] =
                        [at |-> "raised", text |-> text, client |-> c, status |-> None]]
         /\ UNCHANGED row

\* The event loop must be free
Arrive(c, text) ==
    /\ thread[Loop].at = "idle"
    /\ IF ChatAccepts(text) THEN Chat(c, text) \/ Traced(c, text)
       ELSE UNCHANGED <<thread, row>>
    /\ UNCHANGED <<fielded, cache, trace, file, listener>>

Send(c, text) ==
    /\ client[c] = Away
    /\ Arrive(c, text)
    /\ client' = [client EXCEPT ![c] = IF ChatAccepts(text) THEN [text |-> text, sent |-> 1] ELSE @]

\* After 40 seconds the websocket is given up for the second transport, HTTP, and after
\* as many again the text is given up.  What was submitted goes on.
TimeOut(c) ==
    /\ client[c].sent > 0
    /\ IF client[c].sent = 1
       THEN /\ Arrive(c, client[c].text)
            /\ client' = [client EXCEPT ![c].sent = 2]
       ELSE /\ client' = [client EXCEPT ![c] = Away]
            /\ UNCHANGED <<fielded, cache, thread, row, trace, file, listener>>

Answer(x) ==
    /\ thread[x].at \in {"answered", "raised"}
    /\ Leave(x)
    /\ LET c == thread[x].client
       IN  client' = [client EXCEPT ![c] = IF @.text = thread[x].text THEN Away ELSE @]
    /\ UNCHANGED <<fielded, cache, trace, file, listener>>

\* Every answer is "completed" to the chat, also one that failed or was refused
Reply(x) == x \in Workers /\ Answer(x)

\* With the row of the task and what was traced of it since; the loop serves others again
ReplyTraced == Answer(Loop)

-----------------------------------------------------------------------------
(* The queue file *)

\* A writer truncates the file, whoever wrote it before, and then fills it
OpenFile(b) ==
    /\ file' = [tasks |-> b, whole |-> FALSE, read |-> FALSE,
                during |-> listener.at # "sleep"]
    /\ UNCHANGED <<fielded, cache, thread, row, trace, client, listener>>

CloseFile ==
    /\ file # None
    /\ file' = [file EXCEPT !.whole = TRUE]
    /\ UNCHANGED <<fielded, cache, thread, row, trace, client, listener>>

\* The listener's turn; what it cannot parse it leaves for the next turn
ReadFile ==
    /\ listener.at = "sleep" /\ file # None /\ file.whole
    /\ listener' = [at |-> "tasks", rest |-> file.tasks, filed |-> 0]
    /\ file' = [file EXCEPT !.read = TRUE]
    /\ UNCHANGED <<fielded, cache, thread, row, trace, client>>

\* An exception ends the turn, and the file stays
AbandonedTask == [listener EXCEPT !.rest = Tail(@)]

Abandoned == Asleep

ExceptedOrFailed(t) == t.at = "raised" \/ t.status = "failed"

Excepted(t) == t.at = "raised"

\* The listener creates the task itself too, for its id
TakeTask ==
    /\ listener.at = "tasks" /\ listener.rest # <<>> /\ thread[Listener].at = "idle"
    /\ IF Standard(Head(listener.rest))
       THEN Submit(Listener, Head(listener.rest), None) /\ UNCHANGED listener
       ELSE listener' = Abandoned /\ UNCHANGED <<thread, row>>
    /\ UNCHANGED <<fielded, cache, trace, client, file>>

\* The result goes into a file named by the task's id
WriteResult ==
    /\ thread[Listener].at \in {"answered", "raised"}
    /\ Leave(Listener)
    /\ listener' = IF Excepted(thread[Listener]) THEN Abandoned
                   ELSE [listener EXCEPT !.rest = Tail(@), !.filed = @ + 1]
    /\ UNCHANGED <<fielded, cache, trace, client, file>>

\* os.remove takes what is there, also what was written since
RemoveFile ==
    /\ listener.at = "tasks" /\ listener.rest = <<>> /\ thread[Listener].at = "idle"
    /\ file' = None
    /\ listener' = Asleep
    /\ UNCHANGED <<fielded, cache, thread, row, trace, client>>

-----------------------------------------------------------------------------

\* An hour passes; or the memory evicts the answer, which comes back as a text, no dict
Expire(key) ==
    /\ cache[key] # None
    /\ cache' = [cache EXCEPT ![key] = None]
    /\ UNCHANGED <<fielded, thread, row, trace, client, file, listener>>

\* The process dies and is started again: only the file is left
Restart ==
    /\ cache' = [key \in Texts \X {"chat", "queue"} |-> None]
    /\ thread' = [x \in Actors |-> Idle]
    /\ row' = [x \in Actors |-> "none"]
    /\ trace' = 0
    /\ client' = [c \in Clients |-> Away]
    /\ file' = IF file = None THEN None ELSE [file EXCEPT !.read = FALSE, !.during = FALSE]
    /\ listener' = Asleep
    /\ UNCHANGED fielded

Init ==
    /\ fielded \in Fielded
    /\ cache = [key \in Texts \X {"chat", "queue"} |-> None]
    /\ thread = [x \in Actors |-> Idle]
    /\ row = [x \in Actors |-> "none"]
    /\ trace = 0
    /\ client = [c \in Clients |-> Away]
    /\ file = None
    /\ listener = Asleep

Run(x) ==
    \/ BeforeTask(x) \/ Raise(x)
    \/ \E status \in Ended : AfterTask(x, status)

ListenerStep == ReadFile \/ TakeTask \/ WriteResult \/ RemoveFile

Next ==
    \/ \E x \in Actors : Run(x)
    \/ ReplyTraced \/ \E x \in Workers : Reply(x)
    \/ \E c \in Clients : TimeOut(c) \/ \E text \in Texts : Send(c, text)
    \/ ListenerStep
    \/ CloseFile \/ \E b \in Batches : OpenFile(b)
    \/ \E key \in DOMAIN cache : Expire(key)
    \/ Restart

\* Threads are scheduled and the listener's loop wakes up; nobody has to send anything
Fairness ==
    /\ \A x \in Actors : WF_vars(Run(x))
    /\ WF_vars(ReplyTraced) /\ \A x \in Workers : WF_vars(Reply(x))
    /\ WF_vars(ListenerStep)

Spec == Init /\ [][Next]_vars /\ Fairness

-----------------------------------------------------------------------------

Submission ==
    [at : {"idle", "submitted", "running", "answered", "raised"}, text : Texts \cup {None},
     client : Clients \cup {None}, status : Ended \cup {"rejected", None}]

TypeOK ==
    /\ fielded \in BOOLEAN
    /\ cache \in [Texts \X {"chat", "queue"} -> Ended \cup {None}]
    /\ thread \in [Actors -> Submission]
    /\ row \in [Actors -> Ended \cup {"none", "submitted", "running"}]
    /\ trace \in 0..(MaxTrace + 1)
    /\ client \in [Clients -> [text : Texts \cup {None}, sent : 0..2]]
    /\ \A c \in Clients : client[c].text = None <=> client[c].sent = 0
    /\ file \in {None} \cup QueueFile
    /\ listener \in [at : {"sleep", "tasks"}, rest : Seq(Texts), filed : Nat]

Works(key) == {x \in Actors : thread[x].at \in {"submitted", "running"}
                               /\ Key(x, thread[x].text) = key}

\* Once an answer to a text is stored, and until it expires or the process ends, only
\* submissions that had begun before go on to run it: a retry after a timeout, or the
\* next turn of the listener over a file one of whose tasks it refused, gets the answer
\* (submit_user_task).
AnsweredRunsOnce ==
    [][\A key \in DOMAIN cache :
        cache[key] # None /\ cache'[key] # None => Works(key)' \subseteq Works(key)]_vars

\* The listener removes a queue file only when it has read that file and answered every
\* task in it; the one file it may remove unread is one that was written while it worked
\* on another (TaskListener.start).
RemovedWhenAnswered ==
    [][file # None /\ file' = None =>
        \/ file.read /\ listener.filed = Len(file.tasks)
        \/ file.during]_vars

\* What holds a queue file back: a task that cannot be created, whose run raises, or whose
\* answer is too large to store
HeldBack ==
    \/ listener.rest # <<>> /\ ~Standard(Head(listener.rest))
    \/ thread[Listener].at = "raised"

\* Whatever becomes of the tasks of a file, the listener comes back to its next turn; and
\* when the process is no longer restarted, a whole queue file leaves the queue, unless a
\* writer replaces it or it is held back: a task that has failed does not hold it back
\* (TaskListener.start).  As the code stands, only a file without tasks leaves it.
QueueDrains ==
    <>[][~Restart]_vars =>
        /\ []<>(listener.at = "sleep")
        /\ \A b \in Batches :
            (file # None /\ file.whole /\ file.tasks = b)
                ~> (file = None \/ file.tasks # b \/ ~file.whole \/ HeldBack)

=============================================================================
