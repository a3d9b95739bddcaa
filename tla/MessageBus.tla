------------------------------ MODULE MessageBus ------------------------------
(***************************************************************************)
(* The bus between agents: core/message_bus.py, and core/rabbitmq_bus.py,  *)
(* which replaces the queues by a broker.                                  *)
(*                                                                         *)
(* Threads share the bus without a lock.  A send ends in an append to a    *)
(* queue and the acknowledgement SENT after it; a receive looks into the   *)
(* inbox of the pod, then takes from the queue, then acknowledges.         *)
(*                                                                         *)
(* Only the receiver of an envelope sends it on.  Callbacks are left out:  *)
(* nothing subscribes, and MessageBus has no method to.                    *)
(***************************************************************************)
EXTENDS Naturals, Sequences, FiniteSets

CONSTANTS
    Agents,
    Messages,       \* P2P messages
    Silent,         \* those of them with requires_ack off
    Envelopes,      \* of tasks
    MaxHops,        \* max_hops of an envelope
    Threads,
    None,
    MaxSends        \* bounds the sends of a P2P message, for model checking

VARIABLES
    broker,     \* "none", or where the callers of the broker run: "loop" or "thread"
    pods,       \* registered agents
    inbox,      \* of each pod: its direct inbox
    queue,      \* of each agent: its topic
    acks,       \* of each message: the history of its acknowledgements
    unacked,    \* messages taken and not acknowledged
    dead,       \* dead letters
    hops,       \* hop_count of each envelope
    holder,     \* who may send an envelope: "sender", an agent, or None while it travels
    thread,     \* of each thread: the step it is at, its message and its agent
    taken, sends    \* history: what was taken from the queues and sent, by message

vars == <<broker, pods, inbox, queue, acks, unacked, dead, hops, holder, thread, taken, sends>>

All == Messages \cup Envelopes
Idle == [at |-> "idle", msg |-> None, agent |-> None]

Count(s, m) == Cardinality({i \in DOMAIN s : s[i] = m})

Goto(t, at, m, a) == thread' = [thread EXCEPT ![t] = [at |-> at, msg |-> m, agent |-> a]]

\* A second registration keeps the inbox
RegisterPod(a) ==
    /\ a \notin pods
    /\ pods' = pods \cup {a}
    /\ UNCHANGED <<broker, inbox, queue, acks, unacked, dead, hops, holder, thread, taken, sends>>

-----------------------------------------------------------------------------
(* Sending *)

\* asdict, which serialises a message for the broker, refuses what is no dataclass
Stored == broker = "none"

\* The caller gets that exception, or in a running loop it ends a task nobody waits for
Thrown == broker = "thread"

Publish(t, m, a) ==
    /\ queue' = [queue EXCEPT ![a] = IF Stored THEN Append(@, m) ELSE @]
    /\ IF Thrown THEN UNCHANGED thread ELSE Goto(t, "ack", m, a)

\* send_p2p: a registered pod gets the message twice, directly and by its topic
SendP2P(t, m, a) ==
    /\ thread[t].at = "idle"
    /\ sends[m] < MaxSends
    /\ sends' = [sends EXCEPT ![m] = @ + 1]
    /\ inbox' = [inbox EXCEPT ![a] = IF a \in pods THEN Append(@, m) ELSE @]
    /\ Publish(t, m, a)
    /\ UNCHANGED <<broker, pods, acks, unacked, dead, hops, holder, taken>>

\* An envelope whose hops are used up is not sent
Spent(hop) == hop >= MaxHops

SendEnvelope(t, e, a) ==
    /\ thread[t].at = "idle"
    /\ holder[e] # None
    /\ hops' = [hops EXCEPT ![e] = @ + 1]
    /\ holder' = [holder EXCEPT ![e] = IF Thrown /\ ~Spent(hops'[e]) THEN @ ELSE None]
    /\ IF Spent(hops'[e])
       THEN /\ dead' = dead \cup {e}
            /\ Goto(t, "fail", e, a)
            /\ UNCHANGED queue
       ELSE Publish(t, e, a) /\ UNCHANGED dead
    /\ UNCHANGED <<broker, pods, inbox, acks, unacked, taken, sends>>

\* SENT, FAILED, RECEIVED and ACCEPTED all end the tracking of the message
Settles(status) == status \in {"sent", "failed", "received"}

Ack(t) ==
    LET m == thread[t].msg
        status == CASE thread[t].at = "ack" -> "sent"
                    [] thread[t].at = "fail" -> "failed"
                    [] thread[t].at = "taken" -> "received"
    IN  /\ thread[t].at \in {"ack", "fail"} \/ (thread[t].at = "taken" /\ m \notin Silent)
        /\ acks' = [acks EXCEPT ![m] = Append(@, status)]
        /\ unacked' = IF Settles(status) THEN unacked \ {m} ELSE unacked
        /\ holder' = [e \in Envelopes |-> IF e = m /\ thread[t].at = "taken"
                                           THEN thread[t].agent ELSE holder[e]]
        /\ thread' = [thread EXCEPT ![t] = Idle]
        /\ UNCHANGED <<broker, pods, inbox, queue, dead, hops, taken, sends>>

-----------------------------------------------------------------------------
(* Receiving *)

\* Nothing is acknowledged when the inbox gives a message
ReceiveDirect(t, a) ==
    /\ thread[t].at = "idle"
    /\ a \in pods /\ inbox[a] # <<>>
    /\ inbox' = [inbox EXCEPT ![a] = Tail(@)]
    /\ UNCHANGED <<broker, pods, queue, acks, unacked, dead, hops, holder, thread, taken, sends>>

LookedInto(t, a) ==
    /\ thread[t].at = "idle"
    /\ a \in pods => inbox[a] = <<>>
    /\ Goto(t, "consume", None, a)
    /\ UNCHANGED <<broker, pods, inbox, queue, acks, unacked, dead, hops, holder, taken, sends>>

\* What consume looks at: in a running loop nothing is asked of a broker
Waiting(a) == IF broker = "loop" THEN <<>> ELSE queue[a]

\* A receiver takes one message
LeftOfAll(topic) == <<>>

Left(topic) == Tail(topic)

\* What is taken is tracked until it is acknowledged
Consume(t) ==
    LET a == thread[t].agent
        m == Head(queue[a])
    IN  /\ thread[t].at = "consume"
        /\ Waiting(a) # <<>>
        /\ queue' = [queue EXCEPT ![a] = Left(@)]
        /\ unacked' = unacked \cup {m}
        /\ taken' = [taken EXCEPT ![m] = @ + 1]
        /\ Goto(t, "taken", m, a)
        /\ UNCHANGED <<broker, pods, inbox, acks, dead, hops, holder, sends>>

\* An empty topic, or a message that asks for no acknowledgement: it stays tracked
NoAck(t) ==
    /\ \/ thread[t].at = "consume" /\ Waiting(thread[t].agent) = <<>>
       \/ thread[t].at = "taken" /\ thread[t].msg \in Silent
    /\ thread' = [thread EXCEPT ![t] = Idle]
    /\ UNCHANGED <<broker, pods, inbox, queue, acks, unacked, dead, hops, holder, taken, sends>>

-----------------------------------------------------------------------------

Init ==
    /\ broker \in {"none", "loop", "thread"}
    /\ pods = {}
    /\ inbox = [a \in Agents |-> <<>>] /\ queue = [a \in Agents |-> <<>>]
    /\ acks = [m \in All |-> <<>>]
    /\ unacked = {} /\ dead = {}
    /\ hops = [e \in Envelopes |-> 0]
    /\ holder = [e \in Envelopes |-> "sender"]
    /\ thread = [t \in Threads |-> Idle]
    /\ taken = [m \in All |-> 0] /\ sends = [m \in Messages |-> 0]

ThreadStep(t) ==
    \/ \E a \in Agents :
        \/ \E m \in Messages : SendP2P(t, m, a)
        \/ \E e \in Envelopes : SendEnvelope(t, e, a)
        \/ ReceiveDirect(t, a) \/ LookedInto(t, a)
    \/ Ack(t) \/ Consume(t) \/ NoAck(t)

Next ==
    \/ \E t \in Threads : ThreadStep(t)
    \/ \E a \in Agents : RegisterPod(a)

Spec == Init /\ [][Next]_vars

-----------------------------------------------------------------------------

TypeOK ==
    /\ broker \in {"none", "loop", "thread"}
    /\ pods \subseteq Agents
    /\ inbox \in [Agents -> Seq(Messages)] /\ queue \in [Agents -> Seq(All)]
    /\ acks \in [All -> Seq({"sent", "failed", "received"})]
    /\ unacked \subseteq All /\ dead \subseteq Envelopes
    /\ hops \in [Envelopes -> Nat]
    /\ holder \in [Envelopes -> Agents \cup {"sender", None}]
    /\ thread \in [Threads -> [at : {"idle", "ack", "fail", "consume", "taken"},
                               msg : All \cup {None}, agent : Agents \cup {None}]]
    /\ taken \in [All -> Nat] /\ sends \in [Messages -> Nat]

\* Where a message is in the topics
Places(m) == UNION {{a} \X {i \in DOMAIN queue[a] : queue[a][i] = m} : a \in Agents}

\* What was acknowledged as SENT is in a topic or was taken from it by a receiver, once
\* for each acknowledgement, as long as the bus has no broker (send_p2p, send_envelope).
SentIsKept ==
    broker = "none" =>
        \A m \in All : Count(acks[m], "sent") <= Cardinality(Places(m)) + taken[m]

=============================================================================
