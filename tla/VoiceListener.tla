---------------------------- MODULE VoiceListener ----------------------------
(***************************************************************************)
(* Voice commands: core/voice_listener_module.py.                          *)
(*                                                                         *)
(* A listener thread reads frames from a recorder process, cuts them into  *)
(* utterances, and gives each to a thread of its own, which asks a remote  *)
(* model for the text, or a local one if that fails, looks for the wake    *)
(* word, has the command refined and submits it.  Loading the module       *)
(* starts a listener, unloading it asks the listener to stop and waits for *)
(* it no longer than two seconds.                                          *)
(***************************************************************************)
EXTENDS Naturals, FiniteSets

CONSTANTS
    Listeners, Speakers,    \* threads that listen, and that handle an utterance
    MinSpeech,              \* frames an utterance must have
    Silence                 \* silent frames it may have in a row

VoiceAssumption == MinSpeech \in Nat /\ Silence \in Nat

VARIABLES
    remote, local,      \* whether there is a remote and a local model
    running,            \* _running
    hears,              \* of each listener: its step and what it has accumulated
    recorder,           \* listeners with a recorder process
    speaker,            \* of each speaker thread: its step and its utterance
    remoteOff, refineOff    \* remote models given up

vars == <<remote, local, running, hears, recorder, speaker,
          remoteOff, refineOff>>

Config == <<remote, local>>

\* A number of frames, as large as makes a difference
Cap == MinSpeech + Silence + 1
Frames(n) == IF n > Cap THEN Cap ELSE n

Fresh == [speaking |-> FALSE, silence |-> 0, frames |-> 0, span |-> 0, quiet |-> 0]
Off == [at |-> "none", heard |-> Fresh]
NoSpeech == [at |-> "none", span |-> 0, quiet |-> 0]

-----------------------------------------------------------------------------
(* Life of the listener *)

\* Loading starts a listener whether or not an earlier one has stopped
Load(l) ==
    /\ ~running
    /\ hears[l].at = "none"
    /\ running' = TRUE
    /\ hears' = [hears EXCEPT ![l].at = "start"]
    /\ UNCHANGED <<Config, recorder, speaker, remoteOff, refineOff>>

Unload ==
    /\ running
    /\ running' = FALSE
    /\ UNCHANGED <<Config, hears, recorder, speaker, remoteOff, refineOff>>

\* With neither model there is nothing to listen for
BuildTranscriber(l) ==
    /\ hears[l].at = "start"
    /\ hears' = [hears EXCEPT ![l].at = IF remote \/ local THEN "open" ELSE "none"]
    /\ UNCHANGED <<Config, running, recorder, speaker, remoteOff, refineOff>>

\* The first recorder command that does not exit within a quarter of a second, or none
OpenStream(l) ==
    /\ hears[l].at = "open"
    /\ \/ /\ hears' = [hears EXCEPT ![l] = [at |-> "read", heard |-> Fresh]]
          /\ recorder' = recorder \cup {l}
       \/ /\ hears' = [hears EXCEPT ![l] = Off]
          /\ UNCHANGED recorder
    /\ UNCHANGED <<Config, running, speaker, remoteOff, refineOff>>

\* The end of the thread, whatever it was: the recorder is terminated
Close(l) ==
    /\ hears' = [hears EXCEPT ![l] = Off]
    /\ recorder' = recorder \ {l}
    /\ UNCHANGED <<Config, running, speaker, remoteOff, refineOff>>

\* The recorder ends by itself, or the thread fails
Interrupted(l) == hears[l].at = "read" /\ Close(l)

GoesOnAlways == TRUE

\* The flag is looked at before each frame
GoesOn == running

Stop(l) == hears[l].at = "read" /\ ~GoesOn /\ Close(l)

-----------------------------------------------------------------------------
(* Frames *)

SilenceKept(h) == h.silence

SilenceAfterSpeech(h) == 0

\* What is accumulated once one more frame is read.  span and quiet tell what was heard:
\* the frames up to the last one with speech, and the silent ones in a row since.
After(h, speech) ==
    IF speech
    THEN [speaking |-> TRUE, silence |-> SilenceAfterSpeech(h),
          frames |-> Frames(h.frames + 1), span |-> Frames(h.frames + 1), quiet |-> 0]
    ELSE IF h.speaking
         THEN [h EXCEPT !.silence = @ + 1, !.frames = Frames(@ + 1), !.quiet = @ + 1]
         ELSE h

Ended(h) == h.silence > Silence

LongEnough(h) == h.frames - h.silence >= MinSpeech

ReadFrame(l, speech) ==
    LET h == After(hears[l].heard, speech)
    IN  /\ hears[l].at = "read" /\ GoesOn
        /\ hears' = [hears EXCEPT ![l].heard = IF Ended(h) THEN Fresh ELSE h]
        /\ IF Ended(h) /\ LongEnough(h)
           THEN \E s \in Speakers :
                    /\ speaker[s].at = "none"
                    /\ speaker' = [speaker EXCEPT ![s] =
                            [at |-> "heard", span |-> h.span, quiet |-> h.quiet]]
           ELSE UNCHANGED speaker
        /\ UNCHANGED <<Config, running, recorder, remoteOff, refineOff>>

-----------------------------------------------------------------------------
(* Utterances *)

Move(s, at) ==
    speaker' = [speaker EXCEPT ![s] = IF at = "none" THEN NoSpeech ELSE [@ EXCEPT !.at = at]]

Others == <<remote, local, running, hears, recorder>>

\* A remote model that was given up is asked again only where there is no local one
Transcribe(s) ==
    /\ speaker[s].at = "heard"
    /\ Move(s, IF remote /\ ~(remoteOff /\ local) THEN "remote" ELSE "local")
    /\ UNCHANGED <<Others, remoteOff, refineOff>>

\* Want of credit or of a valid key turns the remote model off for good
RemoteFails(s, fatal) ==
    /\ speaker[s].at = "remote"
    /\ remoteOff' = (remoteOff \/ fatal)
    /\ Move(s, IF local THEN "local" ELSE "none")
    /\ UNCHANGED <<Others, refineOff>>

\* A text with the wake word in it, said clearly or not, or none of that
Transcribed(s, wake) ==
    /\ speaker[s].at \in {"remote", "local"}
    /\ Move(s, IF wake THEN "refine" ELSE "none")
    /\ UNCHANGED <<Others, remoteOff, refineOff>>

\* The command is refined, which may fail, and submitted
Dispatch(s, fatal) ==
    /\ speaker[s].at = "refine"
    /\ fatal => ~refineOff
    /\ refineOff' = (refineOff \/ fatal)
    /\ Move(s, "none")
    /\ UNCHANGED <<Others, remoteOff>>

-----------------------------------------------------------------------------

Init ==
    /\ remote \in BOOLEAN /\ local \in BOOLEAN
    /\ running = FALSE
    /\ hears = [l \in Listeners |-> Off]
    /\ recorder = {}
    /\ speaker = [s \in Speakers |-> NoSpeech]
    /\ remoteOff = FALSE /\ refineOff = FALSE

Step(l) ==
    \/ BuildTranscriber(l) \/ OpenStream(l) \/ Stop(l)
    \/ \E speech \in BOOLEAN : ReadFrame(l, speech)

Handle(s) ==
    \/ Transcribe(s)
    \/ \E b \in BOOLEAN : RemoteFails(s, b) \/ Transcribed(s, b) \/ Dispatch(s, b)

Next ==
    \/ \E l \in Listeners : Load(l) \/ Step(l) \/ Interrupted(l)
    \/ Unload
    \/ \E s \in Speakers : Handle(s)

\* Threads are scheduled, a recorder goes on delivering frames, and calls of models end
Fairness ==
    /\ \A l \in Listeners : WF_vars(Step(l))
    /\ \A s \in Speakers : WF_vars(Handle(s))

Spec == Init /\ [][Next]_vars /\ Fairness

-----------------------------------------------------------------------------

TypeOK ==
    /\ recorder \subseteq Listeners
    /\ \A l \in Listeners :
        /\ hears[l].at \in {"none", "start", "open", "read"}
        /\ hears[l].heard.silence \in 0..Silence /\ hears[l].heard.frames \in 0..Cap
    /\ \A s \in Speakers :
        speaker[s].at \in {"none", "heard", "remote", "local", "refine"}

\* Whatever is given to a speaker thread ended with more silent frames in a row than an
\* utterance may contain, and the frames before them are as many as it must have: pauses
\* do not cut an utterance in two (_listen_loop).
WholeUtterance ==
    \A s \in Speakers : speaker[s].at # "none" =>
        speaker[s].quiet > Silence /\ speaker[s].span >= MinSpeech

\* A listener that was asked to stop does stop, unless the module is loaded again before
\* it looks: then it goes on beside the new listener (on_unload, _listen_loop).
ListenerStops == ~running ~> (running \/ \A l \in Listeners : hears[l].at = "none")

=============================================================================
