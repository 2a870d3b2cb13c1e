------------------------------- MODULE ToyPage -------------------------------
(***************************************************************************)
(* The child's page (web/static/toy.js) with the server's voice: a press   *)
(* asks for the microphone, a release or twelve seconds stop the           *)
(* recording, and a chain of promises sends it and plays the answer.       *)
(* The button takes any number of fingers: no handler asks which pointer   *)
(* an event is of.  Callbacks of several presses interleave at every       *)
(* await; they share state.recorder, state.recording, the meter's timer    *)
(* and the phase, from which state.busy follows.  Dictation by the browser *)
(* is left out.                                                            *)
(***************************************************************************)
EXTENDS Naturals

CONSTANTS
    MaxPresses      \* presses that ask for the microphone, in a behaviour

ASSUME PageAssumption == MaxPresses \in Nat

VARIABLES
    phase,                       \* the page's phase
    held,                        \* presses that wait for the microphone, finger down
    recording, recorder, meter,  \* state; 0 for no recorder; the timer is set
    presses, mic,                \* the microphone of each press
    stage,                       \* where the chain of each press is
    answered,                    \* presses whose reply has come
    streaming,                   \* health.tts_streaming
    hasty   \* presses that were let go, or met another press, while one waited
            \* for its microphone

button == <<held, presses>>
vars == <<phase, button, recording, recorder, meter, mic, stage, answered, streaming, hasty>>

Presses == 1..MaxPresses
None == 0   \* a finger of no press that waits
busy == phase \in {"thinking", "speaking"}
Waiting == {p \in Presses : mic[p] \in {"asked", "open"}}
Live == {p \in Presses : mic[p] \in {"open", "live", "leaked"}}
Playing == {p \in Presses : stage[p] \in {"playFile", "playSpeech", "browser"}}

Init ==
    /\ phase = "idle" /\ held = {}
    /\ recording = FALSE /\ recorder = 0 /\ meter = FALSE
    /\ presses = 0 /\ mic = [p \in Presses |-> "off"]
    /\ stage = [p \in Presses |-> "none"] /\ answered = {}
    /\ streaming \in BOOLEAN /\ hasty = {}

-----------------------------------------------------------------------------
(* The button and the microphone                                           *)

\* Nothing is asked of the fingers that are already down.
startRecording ==
    \/ (busy \/ recording) /\ UNCHANGED vars
    \/ /\ ~busy /\ ~recording /\ presses < MaxPresses
       /\ presses' = presses + 1 /\ held' = held \union {presses + 1}
       /\ mic' = [mic EXCEPT ![presses + 1] = "asked"]
       /\ hasty' = IF Waiting = {} THEN hasty ELSE hasty \union Waiting \union {presses + 1}
       /\ UNCHANGED <<phase, recording, recorder, meter, stage, answered, streaming>>

\* getUserMedia() resolves: its track is live.
MicGranted(p) ==
    /\ mic[p] = "asked" /\ mic' = [mic EXCEPT ![p] = "open"]
    /\ UNCHANGED <<phase, button, recording, recorder, meter, stage, answered, streaming, hasty>>

\* Mutant: no timer bounds the recording.
RecorderStarts_Untimed(p) ==
    /\ mic[p] = "open" /\ mic' = [mic EXCEPT ![p] = "live"] /\ held' = held \ {p}
    /\ recorder' = p /\ recording' = TRUE /\ phase' = "listening"
    /\ UNCHANGED <<presses, meter, stage, answered, streaming, hasty>>

\* Neither busy nor recording is looked at again.
RecorderStarts(p) ==
    /\ mic[p] = "open" /\ mic' = [mic EXCEPT ![p] = "live"] /\ held' = held \ {p}
    /\ recorder' = p /\ recording' = TRUE /\ meter' = TRUE /\ phase' = "listening"
    /\ UNCHANGED <<presses, stage, answered, streaming, hasty>>

\* The recorder cannot be created or the microphone is refused.
NoRecorder(p) ==
    /\ \/ mic[p] = "asked" /\ mic' = [mic EXCEPT ![p] = "off"]
       \/ mic[p] = "open" /\ mic' = [mic EXCEPT ![p] = "leaked"]
    /\ held' = held \ {p} /\ UNCHANGED <<presses, streaming, hasty>>

\* Mutant: a refused microphone leaves recording as it was.
MicFails_KeepsRecording(p) ==
    /\ NoRecorder(p)
    /\ meter' = FALSE /\ phase' = "speaking" /\ stage' = [stage EXCEPT ![p] = "fetchSpeech"]
    /\ UNCHANGED <<recording, recorder, answered>>

\* setPointerCapture() throws when the finger is no longer down.
CaptureFails(p) ==
    /\ mic[p] = "open" /\ p \notin held /\ mic' = [mic EXCEPT ![p] = "live"]
    /\ recorder' = p /\ recording' = FALSE /\ meter' = FALSE
    /\ phase' = "speaking" /\ stage' = [stage EXCEPT ![p] = "fetchSpeech"]
    /\ UNCHANGED <<button, answered, streaming, hasty>>

\* The catch: a track that is already live is not stopped, a recorder that is
\* already in the state is left there.
MicFails(p) ==
    /\ NoRecorder(p)
    /\ recording' = FALSE /\ meter' = FALSE
    /\ phase' = "speaking" /\ stage' = [stage EXCEPT ![p] = "fetchSpeech"]
    /\ UNCHANGED <<recorder, answered>>

\* Mutants: the track is left on; the recorder is left in the state.
stopRecording_KeepsTrack ==
    IF recording /\ recorder # 0
    THEN /\ recorder' = 0 /\ recording' = FALSE /\ meter' = FALSE /\ phase' = "thinking"
         /\ stage' = [stage EXCEPT ![recorder] = "stopping"]
         /\ UNCHANGED <<mic, answered>>
    ELSE UNCHANGED <<recorder, recording, meter, phase, mic, stage, answered>>
stopRecording_KeepsRecorder ==
    IF recording /\ recorder # 0
    THEN /\ recording' = FALSE /\ meter' = FALSE /\ phase' = "thinking"
         /\ mic' = [mic EXCEPT ![recorder] = "off"]
         /\ stage' = [stage EXCEPT ![recorder] = "stopping"]
         /\ UNCHANGED <<recorder, answered>>
    ELSE UNCHANGED <<recorder, recording, meter, phase, mic, stage, answered>>

stopRecording ==
    IF recording /\ recorder # 0
    THEN /\ recorder' = 0 /\ recording' = FALSE /\ meter' = FALSE /\ phase' = "thinking"
         /\ mic' = [mic EXCEPT ![recorder] = "off"]
         /\ stage' = [stage EXCEPT ![recorder] = "stopping"]
         /\ UNCHANGED answered
    ELSE UNCHANGED <<recorder, recording, meter, phase, mic, stage, answered>>

\* The finger of a press that waits, or any other: one that is recorded, one
\* that did nothing, a pointer that leaves the button.
Release ==
    /\ \E f \in held \union {None} :
        /\ f = None => recording
        /\ held' = held \ {f} /\ hasty' = hasty \union (Waiting \intersect {f})
    /\ stopRecording /\ UNCHANGED <<presses, streaming>>
TimeIsUp == meter /\ stopRecording /\ UNCHANGED <<button, streaming, hasty>>

-----------------------------------------------------------------------------
(* The chain of a press                                                    *)

Moves(p, from, to) ==
    /\ stage[p] = from /\ stage' = [stage EXCEPT ![p] = to]
    /\ UNCHANGED <<button, recording, recorder, meter, mic, streaming, hasty>>

speakStatus(p, from) == Moves(p, from, "fetchSpeech") /\ phase' = "speaking" /\ UNCHANGED answered

\* Mutant: too short a recording is dropped without a word.
sendRecording_Drops(p) ==
    \/ Moves(p, "stopping", "done") /\ UNCHANGED <<phase, answered>>
    \/ Moves(p, "stopping", "asking") /\ phase' = "thinking" /\ UNCHANGED answered

sendRecording(p) ==
    \/ speakStatus(p, "stopping")
    \/ Moves(p, "stopping", "asking") /\ phase' = "thinking" /\ UNCHANGED answered

\* fetch("/api/voice"), and the start of handleDogResponse().
VoiceAnswers(p) ==
    \/ speakStatus(p, "asking")
    \/ /\ answered' = answered \union {p}
       /\ IF streaming THEN Moves(p, "asking", "fetchFile") /\ UNCHANGED phase
          ELSE Moves(p, "asking", "fetchSpeech") /\ phase' = "speaking"

\* playSpeechFile(), playSpeechStream(); the fallback is speak().
FetchFile(p) ==
    \/ Moves(p, "fetchFile", "playFile") /\ phase' = "speaking" /\ UNCHANGED answered
    \/ speakStatus(p, "fetchFile")

\* speakWithServerVoice(); the fallback is speakInBrowser().
FetchSpeech(p) ==
    /\ Moves(p, "fetchSpeech", "playSpeech") \/ Moves(p, "fetchSpeech", "browser")
    /\ UNCHANGED <<phase, answered>>

Finish(p, from) == Moves(p, from, "done") /\ phase' = "idle" /\ UNCHANGED answered

\* The audio element or the synthesizer ends or fails for this press, also
\* because another press takes it over.
PlaybackEnds(p) ==
    \/ \E from \in {"playFile", "playSpeech", "browser"} : Finish(p, from)
    \/ speakStatus(p, "playFile")
    \/ Moves(p, "playSpeech", "browser") /\ UNCHANGED <<phase, answered>>

Chain(p) ==
    \/ sendRecording(p) \/ VoiceAnswers(p) \/ FetchFile(p) \/ FetchSpeech(p) \/ PlaybackEnds(p)

\* The presses are used up.
Rests == presses = MaxPresses /\ held = {} /\ ~busy /\ ~recording /\ UNCHANGED vars

Next ==
    \/ Rests \/ startRecording \/ Release \/ TimeIsUp
    \/ \E p \in Presses : MicGranted(p) \/ RecorderStarts(p) \/ CaptureFails(p) \/ MicFails(p)
                            \/ Chain(p)

Spec == Init /\ [][Next]_vars

\* The timer fires; every request and every playback comes to an end.  The
\* microphone's permission may stay open for ever.
FairSpec == Spec /\ WF_vars(TimeIsUp) /\ \A p \in Presses : WF_vars(Chain(p))

-----------------------------------------------------------------------------
\* A recorder in the state is one that records.
TypeOK ==
    /\ phase \in {"idle", "listening", "thinking", "speaking"}
    /\ {recording, meter, streaming} \subseteq BOOLEAN
    /\ held \subseteq Waiting /\ Waiting \union hasty \subseteq 1..presses
    /\ recorder \in 0..presses /\ presses \in 0..MaxPresses
    /\ mic \in [Presses -> {"off", "asked", "open", "live", "leaked"}]
    /\ stage \in [Presses -> {"none", "stopping", "asking", "fetchFile", "playFile",
                              "fetchSpeech", "playSpeech", "browser", "done"}]
    /\ answered \subseteq 1..presses
    /\ recorder # 0 => mic[recorder] = "live"

\* A recording in progress always has a recorder with a live microphone and the
\* timer that will stop it, however the callbacks of several presses fall.
RecordingIsTimed == recording => meter /\ recorder # 0 /\ mic[recorder] = "live"

\* The button never stays locked: whatever fails, the page becomes free again.
ButtonComesBack == busy ~> ~busy

\* "The microphone track is stopped before reply playback" (README.md).
MicOffInReplies == answered \intersect Playing # {} => Live = {}

\* It is, as long as every press waits for its microphone alone and with its
\* finger down.  All that may be on then is the track of a failed recorder.
MicOffUnlessHasty ==
    hasty = {} /\ answered \intersect Playing # {} => \A p \in Live : mic[p] = "leaked"

\* And the microphone of every recording of such a press is released, whatever
\* the others do.
MicReleased == \A p \in Presses : mic[p] = "live" ~> mic[p] = "off" \/ p \in hasty
=============================================================================
