---------------------------- MODULE VoiceDetector ----------------------------
(***************************************************************************)
(* Listening without a button on the ESP32 board (firmware/                *)
(* esp32-s3-audio-board/main/main.cc): CaptureAutomaticUtterance() reads    *)
(* the microphone frame by frame.  Until speech starts the head of the     *)
(* recording is a ring that keeps the last frames; then it is rotated and  *)
(* what follows is appended.  A frame is the number of its reading, and    *)
(* loud enough or not: how the threshold follows the noise is left open.   *)
(***************************************************************************)
EXTENDS Integers

CONSTANTS
    PreRoll,         \* kVADPreRollSamples, in frames like all lengths here
    StartFrames,     \* kVADStartFrames
    EndSilence,      \* kVADEndSilenceFrames
    Trailing,        \* kVADTrailingSilenceFrames
    MinimumActive,   \* kVADMinimumActiveFrames
    MaxFrames        \* kMaxSamples

ASSUME DetectorAssumption ==
    /\ PreRoll \in Nat /\ StartFrames \in Nat /\ EndSilence \in Nat
    /\ Trailing \in Nat /\ MinimumActive \in Nat /\ MaxFrames \in Nat
    /\ 2 <= StartFrames /\ StartFrames <= PreRoll /\ PreRoll <= MaxFrames
    /\ 1 <= Trailing /\ Trailing <= EndSilence

VARIABLES
    capture,                        \* "off", "listening", or the AutoCaptureResult
    wait,                           \* wait_limit_samples
    recording, recorded,
    listened,                       \* listened_samples
    preRoll, preRollWrite,          \* pre_roll_samples, pre_roll_write
    consecutive, active, quiet,     \* counts of frames
    speechStarted,
    onset, lastActive               \* history: first and last loud frame of the speech

ear == <<capture, wait, recording, recorded, listened, preRoll, preRollWrite, consecutive,
         active, quiet, speechStarted, onset, lastActive>>
counts == <<consecutive, active, quiet>>

Positions == 0..(MaxFrames - 1)

DetectorInit ==
    /\ capture = "off" /\ wait = 0
    /\ recording = [i \in Positions |-> 0] /\ recorded = 0
    /\ listened = 0 /\ preRoll = 0 /\ preRollWrite = 0
    /\ consecutive = 0 /\ active = 0 /\ quiet = 0 /\ speechStarted = FALSE
    /\ onset = 0 /\ lastActive = 0

\* SetInputEnabled(true).
Listen(limit) ==
    /\ capture = "off" /\ capture' = "listening" /\ wait' = limit
    /\ UNCHANGED <<recording, recorded, listened, preRoll, preRollWrite, counts,
                   speechStarted, onset, lastActive>>

-----------------------------------------------------------------------------
(* A frame before speech has started                                       *)

Listening == capture = "listening" /\ listened' = listened + 1 /\ UNCHANGED wait

Rolled == [recording EXCEPT ![preRollWrite] = listened + 1]
NextWrite == (preRollWrite + 1) % PreRoll
RollLength == IF preRoll < PreRoll THEN preRoll + 1 ELSE PreRoll
ActiveRun(heard) == IF heard THEN consecutive + 1 ELSE 0

\* Mutant: the ring is taken for the recording as it is.
Unrolled_AsIs == Rolled

\* std::rotate(): the oldest frame comes first.
Unrolled ==
    IF RollLength = PreRoll /\ NextWrite # 0
    THEN [i \in Positions |->
            IF i < PreRoll - NextWrite THEN Rolled[i + NextWrite]
            ELSE IF i < PreRoll THEN Rolled[i - (PreRoll - NextWrite)] ELSE Rolled[i]]
    ELSE Rolled

PreRolls(heard) ==
    /\ Listening /\ ~speechStarted
    /\ preRollWrite' = NextWrite /\ preRoll' = RollLength
    /\ consecutive' = ActiveRun(heard)
    /\ onset' = IF ~heard THEN 0 ELSE IF consecutive = 0 THEN listened + 1 ELSE onset
    /\ lastActive' = IF heard THEN listened + 1 ELSE lastActive

SpeechStarts(heard) ==
    /\ PreRolls(heard) /\ ActiveRun(heard) >= StartFrames
    /\ recording' = Unrolled /\ recorded' = RollLength
    /\ speechStarted' = TRUE /\ active' = ActiveRun(heard) /\ quiet' = 0
    /\ UNCHANGED capture

\* Mutant: the limit is missed when a sound was being recorded at that moment.
StillWaiting_Exactly(heard) ==
    /\ PreRolls(heard) /\ ActiveRun(heard) < StartFrames
    /\ recording' = Rolled /\ recorded' = 0
    /\ capture' = IF listened + 1 = wait THEN "timeout" ELSE "listening"
    /\ UNCHANGED <<active, quiet, speechStarted>>

StillWaiting(heard) ==
    /\ PreRolls(heard) /\ ActiveRun(heard) < StartFrames
    /\ recording' = Rolled /\ recorded' = 0
    /\ capture' = IF listened + 1 >= wait THEN "timeout" ELSE "listening"
    /\ UNCHANGED <<active, quiet, speechStarted>>

-----------------------------------------------------------------------------
(* A frame of speech                                                       *)

\* The buffer is full and the frame is dropped.
Full ==
    /\ Listening /\ speechStarted /\ recorded + 1 > MaxFrames
    /\ IF active < MinimumActive
       THEN capture' = "timeout" /\ recorded' = 0
       ELSE capture' = "speech" /\ UNCHANGED recorded
    /\ UNCHANGED <<recording, preRoll, preRollWrite, counts, speechStarted, onset, lastActive>>

QuietRun(heard) == IF heard THEN 0 ELSE quiet + 1
ActiveTotal(heard) == IF heard THEN active + 1 ELSE active

Records(heard) ==
    /\ Listening /\ speechStarted /\ recorded + 1 <= MaxFrames
    /\ recording' = [recording EXCEPT ![recorded] = listened + 1]
    /\ lastActive' = IF heard THEN listened + 1 ELSE lastActive

Appends(heard) ==
    /\ Records(heard) /\ QuietRun(heard) < EndSilence
    /\ recorded' = recorded + 1
    /\ active' = ActiveTotal(heard) /\ quiet' = QuietRun(heard)
    /\ UNCHANGED <<capture, preRoll, preRollWrite, consecutive, speechStarted, onset>>

\* A sound too short to be speech is forgotten; the wait goes on.
Ignored(heard) ==
    /\ Records(heard)
    /\ QuietRun(heard) >= EndSilence /\ ActiveTotal(heard) < MinimumActive
    /\ recorded' = 0 /\ speechStarted' = FALSE /\ preRoll' = 0 /\ preRollWrite' = 0
    /\ consecutive' = 0 /\ active' = 0 /\ quiet' = 0
    /\ onset' = 0 /\ UNCHANGED capture

\* The silence that ended the speech is cut down to its first frames.
SpeechEnds(heard) ==
    /\ Records(heard)
    /\ QuietRun(heard) >= EndSilence /\ ActiveTotal(heard) >= MinimumActive
    /\ LET removable == QuietRun(heard) - Trailing
       IN  recorded' = IF removable < recorded + 1 THEN recorded + 1 - removable ELSE 0
    /\ active' = ActiveTotal(heard) /\ quiet' = QuietRun(heard)
    /\ capture' = "speech"
    /\ UNCHANGED <<preRoll, preRollWrite, consecutive, speechStarted, onset>>

Frame(heard) ==
    \/ SpeechStarts(heard) \/ StillWaiting(heard)
    \/ Full \/ Appends(heard) \/ Ignored(heard) \/ SpeechEnds(heard)

-----------------------------------------------------------------------------
\* K2 is pressed.
Cancel ==
    /\ capture = "listening" /\ capture' = "canceled" /\ recorded' = 0
    /\ UNCHANGED <<wait, recording, listened, preRoll, preRollWrite, counts, speechStarted,
                   onset, lastActive>>

\* The caller is done with the recording: nothing of it is read again.
Forget ==
    /\ capture' = "off" /\ wait' = 0
    /\ recording' = [i \in Positions |-> 0] /\ recorded' = 0
    /\ listened' = 0 /\ preRoll' = 0 /\ preRollWrite' = 0
    /\ consecutive' = 0 /\ active' = 0 /\ quiet' = 0 /\ speechStarted' = FALSE
    /\ onset' = 0 /\ lastActive' = 0

DetectorNext ==
    \/ \E limit \in Nat \ {0} : Listen(limit)
    \/ \E heard \in BOOLEAN : Frame(heard)
    \/ Cancel \/ Forget

DetectorSpec == DetectorInit /\ [][DetectorNext]_ear

-----------------------------------------------------------------------------
\* What is taken for speech is one piece of what was heard, frame after frame.
\* It has the speech's first loud frame and its last one, and ends with as much
\* silence as is kept, unless the buffer was full.
CapturedWhole == capture = "speech" =>
    /\ 1 <= recorded /\ recorded <= MaxFrames
    /\ \A i \in 0..(recorded - 1) : recording[i] = recording[0] + i
    /\ recording[0] <= onset /\ lastActive <= recording[recorded - 1]
    /\ recorded = MaxFrames \/ recording[recorded - 1] = lastActive + Trailing

\* Noise cannot keep the microphone open: listening ends within the wait and one
\* recording, however many sounds were ignored, and the buffer is never exceeded.
ListeningBounded == listened <= wait + MaxFrames /\ recorded <= MaxFrames
=============================================================================
