----------------------------- MODULE KernelState -----------------------------
(***************************************************************************)
(* The parts of the kernel whose promises are safety properties, side by   *)
(* side.  They share no state, so that a behaviour is one of one part,     *)
(* which `part` names, while the others stay as they begin: for a checker  *)
(* the states are those of each part, added up and not multiplied.         *)
(*                                                                         *)
(* MCKernelState gives the constants values, KernelStateProofs and         *)
(* KernelCallsProofs take them as they are.                                *)
(***************************************************************************)
EXTENDS Naturals, FiniteSets

CONSTANTS
    None, Torn,
    Threads,    \* of the kernel
    Loop, Listener,     \* the event loop, and the thread that reads the queue file
    \* HybridMemory
    Keys, Volatile, Stores, MaxHot, MaxRequests,
    \* MessageBus
    Agents, Messages, Silent, Envelopes, MaxHops, MaxSends,
    \* TaskPlan
    LayerNames, Unknown, MaxLayers,
    \* KernelModules
    Modules, Order, Trackers, Usage, HookTasks, HookModels, MaxSwitches,
    \* ModelCalls
    Class, ModelBands, Extra, Retries, Budget, MaxCalls,
    \* LocalModel
    MaxUses,
    \* DevToolkit
    Sessions, Blank, Modes, MaxChats,
    \* HostCommands
    Toolsets,
    \* ProviderHealth
    MaxChecks,
    \* DeployGate
    Targets, Files, Reports,
    \* TaskIntake
    Texts, Empty, Foreign, Cut, Batches, Clients, Fielded, MaxTrace,
    \* VoiceListener
    Listeners, Speakers, MinSpeech, Silence

VARIABLES
    part,
    \* HybridMemory
    mode, alone, hot, latest, newest, row, disk, thread, requests, past, removed,
    \* MessageBus
    broker, pods, inbox, queue, acks, unacked, dead, hops, holder, actor, taken, sends,
    \* TaskPlan
    way, draft, needs, step, ready, completed, results,
    \* KernelModules
    loaded, current, records, counts, run, began, ended, gone, met, switches,
    \* ModelSelection
    strict, stage, task, choice, exhausted, order,
    \* ModelCalls
    kind, used, blocked, call, begun, spent, lost, given,
    \* LocalModel
    endpoint, reach, box, at, told, use, uses, shown, answered, asked,
    \* DevToolkit
    api, table, object, messages, clipboard, audit, chat, calls,
    \* HostCommands
    spawn, tools, token, listed, gate, login, caller, seen, misled,
    \* ProviderHealth
    keyed, agy, autologin, catalog, check, checks, health, failure, served,
    \* DeployGate
    local, user, pass, enabled, needed, installed, phase, todo, issues, barred, result, said,
    \* TaskIntake
    fielded, cache, submitter, entry, trace, client, file, listener,
    \* VoiceListener
    remote, offline, running, hears, recorder, speaker, remoteOff, refineOff

Memory == INSTANCE HybridMemory WITH Modes <- Stores

Bus == INSTANCE MessageBus WITH thread <- actor

Plan == INSTANCE TaskPlan WITH Names <- LayerNames

Hooks ==
    INSTANCE KernelModules
    WITH Tasks <- HookTasks, Models <- HookModels, requests <- counts

Selection == INSTANCE ModelSelection

Calls == INSTANCE ModelCalls WITH Bands <- ModelBands

Local == INSTANCE LocalModel

Toolkit == INSTANCE DevToolkit WITH MaxCalls <- MaxChats

Commands == INSTANCE HostCommands

Health == INSTANCE ProviderHealth

\* Tasks come from the chat and from the queue file
Intake == INSTANCE TaskIntake WITH Workers <- Threads, thread <- submitter, row <- entry

Voice == INSTANCE VoiceListener WITH local <- offline

Gate ==
    INSTANCE DeployGate
    WITH token <- pass, strict <- needed, at <- phase, blocked <- barred

ASSUME KernelAssumption ==
    /\ Memory!MemoryAssumption /\ Hooks!HooksAssumption /\ Local!UsesAssumption
    /\ Commands!CommandsAssumption /\ Health!ChecksAssumption /\ Gate!ReportsAssumption
    /\ Calls!CallsAssumption /\ Toolkit!ToolkitAssumption /\ Intake!IntakeAssumption
    /\ Voice!VoiceAssumption

memoryVars == <<mode, alone, hot, latest, newest, row, disk, thread, requests, past, removed>>
busVars == <<broker, pods, inbox, queue, acks, unacked, dead, hops, holder, actor, taken, sends>>
planVars == <<way, draft, needs, step, ready, completed, results>>
hooksVars == <<loaded, current, records, counts, run, began, ended, gone, met, switches>>
selectionVars == <<strict, stage, task, choice, exhausted, order>>
callsVars == <<kind, used, blocked, call, begun, spent, lost, given>>
localVars == <<endpoint, reach, box, at, told, use, uses, shown, answered, asked>>
toolkitVars == <<api, table, object, messages, clipboard, audit, chat, calls>>
commandsVars == <<spawn, tools, token, listed, gate, login, caller, seen, misled>>
healthVars == <<keyed, agy, autologin, catalog, check, checks, health, failure, served>>
gateVars == <<local, user, pass, enabled, needed, installed, phase, todo, issues, barred,
              result, said>>
intakeVars == <<fielded, cache, submitter, entry, trace, client, file, listener>>
voiceVars == <<remote, offline, running, hears, recorder, speaker, remoteOff, refineOff>>
vars == <<part, memoryVars, busVars, planVars, hooksVars, selectionVars, callsVars,
          localVars, toolkitVars, commandsVars, healthVars,
          gateVars, intakeVars, voiceVars>>

Parts == {"memory", "bus", "plan", "hooks", "selection", "calls", "local", "toolkit",
          "commands", "health", "gate", "chat", "queue", "voice"}

Init ==
    /\ part \in Parts
    /\ Memory!Init /\ Bus!Init /\ Plan!Init /\ Hooks!Init /\ Selection!Init /\ Calls!Init
    /\ Local!Init /\ Toolkit!Init /\ Commands!Init /\ Health!Init /\ Gate!Init /\ Intake!Init
    /\ Voice!Init

\* What is not of the part that a behaviour is of
Still(p) ==
    /\ part = p /\ UNCHANGED part
    /\ p # "memory" => UNCHANGED memoryVars
    /\ p # "bus" => UNCHANGED busVars
    /\ p # "plan" => UNCHANGED planVars
    /\ p # "hooks" => UNCHANGED hooksVars
    /\ p # "selection" => UNCHANGED selectionVars
    /\ p # "calls" => UNCHANGED callsVars
    /\ p # "local" => UNCHANGED localVars
    /\ p # "toolkit" => UNCHANGED toolkitVars
    /\ p # "commands" => UNCHANGED commandsVars
    /\ p # "health" => UNCHANGED healthVars
    /\ p # "gate" => UNCHANGED gateVars
    /\ p \notin {"chat", "queue"} => UNCHANGED intakeVars
    /\ p # "voice" => UNCHANGED voiceVars

Next ==
    \/ Still("memory") /\ Memory!Next
    \/ Still("bus") /\ Bus!Next
    \/ Still("plan") /\ Plan!Next
    \/ Still("hooks") /\ Hooks!Next
    \/ Still("selection") /\ Selection!Next
    \/ Still("calls") /\ Calls!Next
    \/ Still("local") /\ Local!Next
    \/ Still("toolkit") /\ Toolkit!Next
    \/ Still("commands") /\ Commands!Next
    \/ Still("health") /\ Health!Next
    \/ Still("gate") /\ Gate!Next
    \/ (Still("chat") \/ Still("queue")) /\ Intake!Next
    \/ Still("voice") /\ Voice!Next

Spec == Init /\ [][Next]_vars

\* Each variable of each part has its type
TypeOK ==
    CASE part = "memory" -> Memory!TypeOK
      [] part = "bus" -> Bus!TypeOK
      [] part = "plan" -> Plan!TypeOK
      [] part = "hooks" -> Hooks!TypeOK
      [] part = "selection" -> Selection!TypeOK
      [] part = "calls" -> Calls!TypeOK
      [] part = "local" -> Local!TypeOK
      [] part = "toolkit" -> Toolkit!TypeOK
      [] part = "commands" -> Commands!TypeOK
      [] part = "health" -> Health!TypeOK
      [] part = "gate" -> Gate!TypeOK
      [] part \in {"chat", "queue"} -> Intake!TypeOK
      [] part = "voice" -> Voice!TypeOK

\* HybridMemory: the index file says what the records in memory say
DiskCurrent == part = "memory" => Memory!DiskCurrent

\* HybridMemory: what a reader is shown changes only as KeyValue allows
KeepsPromise == Memory!KeepsPromise

\* MessageBus: what was acknowledged as sent is in a topic or was taken from it
SentIsKept == part = "bus" => Bus!SentIsKept

\* TaskPlan: what a model asked to be done first is done first
AskedOrderKept == Plan!AskedOrderKept

\* KernelModules: who was told of the start of a task is told of its end
HooksPaired == part = "hooks" => Hooks!HooksPaired

\* KernelModules: the requests counted for a model are the tasks recorded with it
RequestsAgree == part = "hooks" => Hooks!RequestsAgree

\* ModelSelection: a risky task is reviewed, and is not for the local model
RiskKeptFromLocal == part = "selection" => Selection!RiskKeptFromLocal

\* ModelCalls: a model that a session gave up is left out of the plans made afterwards
GivenUpStaysOut == part = "calls" => Calls!GivenUpStaysOut

\* ModelCalls: the tokens registered are those of the answers, each once
TokensAreOfAnswers == part = "calls" => Calls!TokensAreOfAnswers

\* LocalModel: a question is sent only to an address that has answered
AskedWhereAnswered == Local!AskedWhereAnswered

\* HostCommands: where gh is run it is installed, and a login to it was there
GhRunsPrepared == Commands!GhRunsPrepared

\* ProviderHealth: a provider is found healthy only after the last request to it succeeded
HealthyMeansTried == Health!HealthyMeansTried

\* DeployGate: what is deployed was let through by every check that counts
LetThroughIsClean == Gate!LetThroughIsClean

\* TaskIntake: a text whose answer is stored is not run again
AnsweredRunsOnce == Intake!AnsweredRunsOnce

\* TaskIntake: a queue file is removed when all its tasks were answered
RemovedWhenAnswered == Intake!RemovedWhenAnswered

\* VoiceListener: pauses do not cut an utterance
WholeUtterance == Voice!WholeUtterance

\* DevToolkit: nothing that was said in a session is lost
NothingSaidIsLost == Toolkit!NothingSaidIsLost

=============================================================================
