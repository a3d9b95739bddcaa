--------------------------- MODULE MCKernelThreads ---------------------------
(***************************************************************************)
(* Instances for TLC of the parts of the kernel that promise that          *)
(* something happens: the checkpoints of tasks, the queue file by which    *)
(* tasks come in, and the listener to voices.  As in KernelState, which    *)
(* has what the last two promise besides, a behaviour is one of one part.  *)
(***************************************************************************)
EXTENDS MCVirtualFileSystem, FiniteSets

CONSTANTS None, w1, w2

VARIABLES
    part,
    \* TaskIntake
    fielded, cache, submitter, row, trace, client, queued, listener,
    \* VoiceListener
    remote, local, running, hears, recorder, speaker, remoteOff, refineOff

Intake ==
    INSTANCE TaskIntake
    WITH Texts <- {"good", "empty", "cut"}, Empty <- {"empty"}, Foreign <- {}, Cut <- {"cut"},
         Batches <- {<<>>, <<"good", "empty">>, <<"good", "good">>, <<"good", "cut">>},
         Workers <- {w1, w2}, Loop <- "loop", Listener <- "listener",
         Clients <- {}, Fielded <- BOOLEAN, MaxTrace <- 2, thread <- submitter, file <- queued

Voice ==
    INSTANCE VoiceListener
    WITH Listeners <- {"l1", "l2"}, Speakers <- {"s"}, MinSpeech <- 2, Silence <- 1

intakeVars == <<fielded, cache, submitter, row, trace, client, queued, listener>>
voiceVars == <<remote, local, running, hears, recorder, speaker, remoteOff, refineOff>>
allVars == <<part, vars, intakeVars, voiceVars>>

PartInit ==
    /\ part \in {"files", "queue", "voice"}
    /\ Init
    /\ Intake!Init /\ (part # "queue" => fielded)
    /\ Voice!Init /\ (part # "voice" => ~remote /\ ~local)

\* Where no file is queued and nobody listens any more, nothing has to happen
PartNext ==
    \/ part = "files" /\ Next /\ UNCHANGED <<part, intakeVars, voiceVars>>
    \/ part = "queue" /\ Intake!Next /\ UNCHANGED <<part, vars, voiceVars>>
    \/ part = "voice" /\ Voice!Next /\ UNCHANGED <<part, vars, intakeVars>>
    \/ part # "files" /\ UNCHANGED allVars

\* That of each part; no call of the store is in progress in another part
PartFairness ==
    /\ Fairness
    /\ WF_intakeVars(part = "queue" /\ Intake!Run("listener"))
    /\ WF_intakeVars(part = "queue" /\ Intake!ListenerStep)
    /\ \A l \in {"l1", "l2"} : WF_voiceVars(part = "voice" /\ Voice!Step(l))
    /\ WF_voiceVars(part = "voice" /\ Voice!Handle("s"))

PartSpec == PartInit /\ [][PartNext]_allVars /\ PartFairness

\* TaskIntake: a queue file leaves the queue, or a task of it holds it back
QueueDrains == part = "queue" => Intake!QueueDrains

\* VoiceListener: a listener that was asked to stop stops
ListenerStops == part = "voice" => Voice!ListenerStops

=============================================================================
