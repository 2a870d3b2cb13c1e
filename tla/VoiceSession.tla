----------------------------- MODULE VoiceSession -----------------------------
(***************************************************************************)
(* The main task of the ESP32 board (firmware/esp32-s3-audio-board/main/   *)
(* main.cc): app_main() waits for K2, listens (VoiceDetector, or while K2  *)
(* is held), uploads the recording and plays the reply (VoicePlayback),    *)
(* and in a conversation listens again.  Cues are part of the step they    *)
(* introduce: nothing else runs while the main task writes to the codec.   *)
(* What ESP_ERROR_CHECK() finds reboots the board.                         *)
(***************************************************************************)
EXTENDS VoiceDetector, VoicePlayback

CONSTANTS
    InitialWait,    \* kInitialWaitSeconds, in frames
    FollowupWait    \* kFollowupWaitSeconds

ASSUME SessionAssumption == InitialWait \in Nat \ {0} /\ FollowupWait \in Nat \ {0}

VARIABLES
    stage,          \* where app_main() is
    conversation,   \* conversation_mode
    followUp,       \* in the loop of follow-ups
    farewell        \* EndsConversation(reply)

session == <<stage, conversation, followUp, farewell>>
board == <<session, ear, vars>>

\* Between two calls of StreamVoiceReply() the tasks are at the end of one.
SessionInit ==
    /\ stage = "idle" /\ conversation = FALSE /\ followUp = FALSE /\ farewell = FALSE
    /\ DetectorInit
    /\ hp = "returned" /\ pb = "ended" /\ producerDone = TRUE /\ notified = TRUE
    /\ error = Ok /\ streamDone = FALSE /\ lines = 0 /\ result = Ok /\ transport = Ok
    /\ sent = 0 /\ taken = 0 /\ audio = 0 /\ outputStarted = FALSE /\ played = 0
    /\ broken = FALSE

\* state = {}: nothing is left of the reply before.
FreshReply ==
    /\ error' = Ok /\ streamDone' = FALSE /\ lines' = 0 /\ result' = Ok /\ transport' = Ok
    /\ sent' = 0 /\ taken' = 0 /\ audio' = 0 /\ outputStarted' = FALSE /\ played' = 0
    /\ broken' = FALSE

\* StreamVoiceReply() starts both tasks.
StartReply ==
    /\ hp' = "receive" /\ pb' = "prebuffer" /\ producerDone' = FALSE /\ notified' = FALSE
    /\ FreshReply
NoReply ==
    /\ hp' = "returned" /\ pb' = "ended" /\ producerDone' = TRUE /\ notified' = TRUE
    /\ FreshReply

MainAt(from, to) == stage = from /\ stage' = to

-----------------------------------------------------------------------------
\* K2 is pressed: a fresh session, and the microphone is on while it is held.
PressK2 == MainAt("idle", "hold") /\ UNCHANGED <<conversation, followUp, farewell, ear, vars>>

\* K2 is lifted, the buffer is full, or a read failed: a tap or push-to-talk.
K2Held ==
    /\ \/ MainAt("hold", "cue") /\ conversation' = TRUE
       \/ MainAt("hold", "upload") /\ conversation' = FALSE
    /\ followUp' = FALSE /\ farewell' = FALSE /\ UNCHANGED <<ear, vars>>

\* The cue, and CaptureAutomaticUtterance() begins.
StartListening ==
    /\ MainAt("cue", "capture")
    /\ Listen(IF followUp THEN FollowupWait ELSE InitialWait)
    /\ UNCHANGED <<conversation, followUp, farewell, vars>>

Hears(heard) == stage = "capture" /\ Frame(heard) /\ UNCHANGED <<session, vars>>
K2Cancels == stage = "capture" /\ Cancel /\ UNCHANGED <<session, vars>>

Canceled ==
    /\ MainAt("capture", "release") /\ capture = "canceled" /\ Forget
    /\ UNCHANGED <<conversation, followUp, farewell, vars>>

Heard ==
    /\ MainAt("capture", "upload") /\ capture = "speech"
    /\ UNCHANGED <<conversation, followUp, farewell, ear, vars>>

FirstTimeout ==
    /\ MainAt("capture", "idle") /\ capture = "timeout" /\ ~followUp /\ Forget
    /\ UNCHANGED <<conversation, followUp, farewell, vars>>

\* Mutant: the follow-up's timeout listens once more.
FollowUpTimeout_ListensOn ==
    /\ followUp /\ capture = "timeout" /\ Forget
    /\ MainAt("capture", "cue") /\ UNCHANGED <<conversation, followUp, farewell, vars>>

\* PlaySessionFarewell(): spoken, or the local cue without Wi-Fi.
FollowUpTimeout ==
    /\ followUp /\ capture = "timeout" /\ Forget
    /\ \/ MainAt("capture", "farewell") /\ StartReply
       \/ MainAt("capture", "idle") /\ UNCHANGED vars
    /\ UNCHANGED <<conversation, followUp, farewell>>

-----------------------------------------------------------------------------
\* RunVoiceTurn(): offline, the upload fails, or the reply cannot be started;
\* otherwise the reply is streamed, and it may be the farewell.
Upload ==
    /\ \/ MainAt("upload", "reply") /\ farewell' \in BOOLEAN /\ StartReply
       \/ MainAt("upload", "idle") /\ UNCHANGED <<farewell, vars>>
    /\ Forget /\ UNCHANGED <<conversation, followUp>>

Plays_ ==
    /\ stage \in {"reply", "farewell"}
    /\ Response \/ HTTPTask \/ PlaybackTask
    /\ UNCHANGED <<session, ear>>

\* A failed turn and a farewell end the session.
ReplyOver ==
    /\ Returned
    /\ \/ ~Success /\ MainAt("reply", "idle") /\ UNCHANGED followUp
       \/ Success /\ ~conversation /\ MainAt("reply", "release") /\ UNCHANGED followUp
       \/ Success /\ conversation /\ farewell /\ MainAt("reply", "idle") /\ UNCHANGED followUp
       \/ Success /\ conversation /\ ~farewell /\ MainAt("reply", "cue") /\ followUp' = TRUE
    /\ NoReply /\ UNCHANGED <<conversation, farewell, ear>>

FarewellOver ==
    /\ MainAt("farewell", "idle") /\ Returned /\ NoReply
    /\ UNCHANGED <<conversation, followUp, farewell, ear>>

\* WaitForButtonRelease().
K2Released ==
    /\ MainAt("release", "idle") /\ UNCHANGED <<conversation, followUp, farewell, ear, vars>>

\* A button, the microphone, or the codec fails in the main task.
Reboot ==
    /\ stage \notin {"reply", "farewell"} /\ stage' = "idle"
    /\ conversation' = FALSE /\ followUp' = FALSE /\ farewell' = FALSE
    /\ Forget /\ NoReply

-----------------------------------------------------------------------------
Listens == \E heard \in BOOLEAN : Hears(heard)
MainTask ==
    \/ K2Held \/ StartListening \/ Listens \/ Canceled \/ Heard
    \/ FirstTimeout \/ FollowUpTimeout \/ Upload \/ ReplyOver \/ FarewellOver

SessionNext == PressK2 \/ K2Cancels \/ MainTask \/ Plays_ \/ K2Released \/ Reboot

SessionSpec == SessionInit /\ [][SessionNext]_board

\* The microphone delivers frames, the requests end by their timeouts, and both
\* tasks are scheduled.  K2 need not be pressed nor released.
FairSession ==
    /\ SessionSpec /\ WF_board(MainTask)
    /\ WF_board(Plays_ /\ HTTPTask) /\ WF_board(Plays_ /\ PlaybackTask)

-----------------------------------------------------------------------------
\* When the child has fallen silent, the board comes back to waiting for K2,
\* whatever the microphone took for speech before and whatever fails.
QuietEndsSession ==
    []<>(stage \in {"idle", "release"}) \/ []<><<Hears(TRUE)>>_board
=============================================================================
