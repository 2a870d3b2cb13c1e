---------------------------- MODULE VoicePlayback ----------------------------
(***************************************************************************)
(* A spoken reply on the ESP32 board (firmware/esp32-s3-audio-board/main/  *)
(* voice_client.cc): StreamVoiceReply() performs the request, whose event  *)
(* handler decodes lines of NDJSON into a stream buffer, while             *)
(* PlaybackTask() drains it into the codec.  The two tasks share           *)
(* state.error, which each reads and overwrites without a lock.  A line of *)
(* audio is one unit of the buffer; the server sends one line per chunk,   *)
(* so that the handler's data ends with the line.                          *)
(***************************************************************************)
EXTENDS Naturals

CONSTANTS
    MaxLines,    \* lines of a response
    Capacity,    \* kPlaybackBufferCapacity
    Prebuffer,   \* kPlaybackPrebufferBytes
    Rebuffer     \* kPlaybackRebufferBytes

ASSUME PlaybackAssumption ==
    /\ MaxLines \in Nat \ {0} /\ Capacity \in Nat
    /\ Prebuffer \in Nat \ {0} /\ Rebuffer \in Nat \ {0}
    /\ Rebuffer <= Prebuffer /\ Prebuffer <= Capacity

VARIABLES
    error, producerDone, streamDone,   \* state
    hp, lines, result, transport,      \* the HTTP task; transport is perform()'s result
    sent, taken,                       \* units written to the buffer, read from it
    pb, outputStarted, played,         \* the playback task
    notified,
    audio, broken                      \* lines of audio that came; something failed

http == <<producerDone, streamDone, hp, lines, result, transport, sent, audio>>
playback == <<taken, pb, outputStarted, played, notified>>
vars == <<error, http, playback, broken>>

Ok == "ESP_OK"
Fail == "ESP_FAIL"
Available == sent - taken

Init ==
    /\ error = Ok /\ producerDone = FALSE /\ streamDone = FALSE
    /\ hp = "receive" /\ lines = 0 /\ result = Ok /\ transport = Ok
    /\ sent = 0 /\ taken = 0 /\ audio = 0
    /\ pb = "prebuffer" /\ outputStarted = FALSE /\ played = 0 /\ notified = FALSE
    /\ broken = FALSE

-----------------------------------------------------------------------------
(* The HTTP task: HandleHTTPEvent() and ProcessSpeechLine()                *)

HTTP(from, to) == hp = from /\ hp' = to /\ UNCHANGED <<playback, transport>>

\* The server sends nothing after the line that says it is done.
AnotherLine == ~streamDone /\ lines < MaxLines /\ lines' = lines + 1

\* A line after an error is dropped.
Drop ==
    /\ error # Ok /\ AnotherLine
    /\ HTTP("receive", "receive")
    /\ UNCHANGED <<error, producerDone, streamDone, result, sent, audio, broken>>

AudioLine ==
    /\ error = Ok /\ AnotherLine /\ audio' = audio + 1
    /\ HTTP("receive", "send")
    /\ UNCHANGED <<error, producerDone, streamDone, result, sent, broken>>

DoneLine ==
    /\ error = Ok /\ AnotherLine
    /\ streamDone' = TRUE /\ result' = Ok /\ HTTP("receive", "assign")
    /\ UNCHANGED <<error, producerDone, sent, audio, broken>>

\* An error line, or one that cannot be decoded.
BadLine ==
    /\ error = Ok /\ AnotherLine
    /\ result' = Fail /\ broken' = TRUE /\ HTTP("receive", "assign")
    /\ UNCHANGED <<error, producerDone, streamDone, sent, audio>>

\* Mutant: the buffer's capacity is not respected.
Send_Overfills ==
    /\ sent' = sent + 1 /\ result' = Ok /\ HTTP("send", "assign")
    /\ UNCHANGED <<error, producerDone, streamDone, lines, audio, broken>>

Send ==
    /\ Available < Capacity /\ sent' = sent + 1 /\ result' = Ok /\ HTTP("send", "assign")
    /\ UNCHANGED <<error, producerDone, streamDone, lines, audio, broken>>

\* Mutant: the line is tried again for ever.
SendTimeout_Retries ==
    /\ Available = Capacity /\ pb \in {"complete", "ended"} /\ HTTP("send", "send")
    /\ UNCHANGED <<error, producerDone, streamDone, lines, result, sent, audio, broken>>

\* Five seconds without room: nobody drains the buffer.
SendTimeout ==
    /\ Available = Capacity /\ pb \in {"complete", "ended"}
    /\ result' = Fail /\ broken' = TRUE /\ HTTP("send", "assign")
    /\ UNCHANGED <<error, producerDone, streamDone, lines, sent, audio>>

\* The line's result overwrites whatever the playback stored meanwhile.
Assign ==
    /\ error' = result /\ HTTP("assign", "receive")
    /\ UNCHANGED <<producerDone, streamDone, lines, result, sent, audio, broken>>

PerformEnds ==
    /\ hp = "receive" /\ hp' = "finish"
    /\ transport' \in {Ok, Fail} /\ broken' = (broken \/ transport' = Fail)
    /\ UNCHANGED <<error, producerDone, streamDone, lines, result, sent, audio, playback>>

Finish ==
    /\ producerDone' = TRUE /\ HTTP("finish", "wait")
    /\ UNCHANGED <<error, streamDone, lines, result, sent, audio, broken>>

\* Mutant: the storage is freed without waiting for the playback.
Return_Hasty ==
    /\ HTTP("wait", "returned")
    /\ UNCHANGED <<error, producerDone, streamDone, lines, result, sent, audio, broken>>

\* ulTaskNotifyTake(), and the storage is freed.
Return ==
    /\ notified /\ HTTP("wait", "returned")
    /\ UNCHANGED <<error, producerDone, streamDone, lines, result, sent, audio, broken>>

-----------------------------------------------------------------------------
(* PlaybackTask()                                                          *)

Plays(from, to) == pb = from /\ pb' = to /\ UNCHANGED http

\* Enough came, or all of it; a slow reply is buffered completely.
Prebuffered ==
    /\ \/ producerDone /\ Plays("prebuffer", "open")
       \/ /\ ~producerDone /\ Available >= Prebuffer
          /\ Plays("prebuffer", "open") \/ Plays("prebuffer", "complete")
    /\ UNCHANGED <<error, taken, outputStarted, played, notified, broken>>

Completed ==
    /\ producerDone /\ Plays("complete", "open")
    /\ UNCHANGED <<error, taken, outputStarted, played, notified, broken>>

\* SetOutputEnabled(), SetOutputVolume(): their result overwrites error.
Open ==
    /\ \/ Available = 0 /\ Plays("open", "close") /\ UNCHANGED <<error, outputStarted, broken>>
       \/ /\ Available > 0 /\ error' = Ok /\ outputStarted' = TRUE
          /\ Plays("open", "check") /\ UNCHANGED broken
       \/ /\ Available > 0 /\ error' = Fail /\ broken' = TRUE
          /\ Plays("open", "close") /\ UNCHANGED outputStarted
    /\ UNCHANGED <<taken, played, notified>>

Receive ==
    /\ \/ error # Ok /\ Plays("check", "close") /\ UNCHANGED taken
       \/ error = Ok /\ Available > 0 /\ Plays("check", "write") /\ taken' = taken + 1
       \/ error = Ok /\ Available = 0 /\ Plays("check", "empty") /\ UNCHANGED taken
    /\ UNCHANGED <<error, outputStarted, played, notified, broken>>

\* Mutant: what came in the meantime is not looked at.
Empty_Hasty ==
    /\ IF producerDone THEN Plays("empty", "close") ELSE Plays("empty", "rebuffer")
    /\ UNCHANGED <<error, taken, outputStarted, played, notified, broken>>

Empty ==
    /\ IF producerDone /\ Available = 0 THEN Plays("empty", "close") ELSE Plays("empty", "rebuffer")
    /\ UNCHANGED <<error, taken, outputStarted, played, notified, broken>>

Rebuffered ==
    /\ producerDone \/ Available >= Rebuffer
    /\ Plays("rebuffer", "check")
    /\ UNCHANGED <<error, taken, outputStarted, played, notified, broken>>

\* The codec's result overwrites whatever the HTTP task stored meanwhile.
Write ==
    /\ Plays("write", "check")
    /\ \/ error' = Ok /\ played' = played + 1 /\ UNCHANGED broken
       \/ error' = Fail /\ broken' = TRUE /\ UNCHANGED played
    /\ UNCHANGED <<taken, outputStarted, notified>>

\* The output is closed and the waiter notified.
Close ==
    /\ Plays("close", "ended") /\ notified' = TRUE
    /\ \/ UNCHANGED <<error, broken>>
       \/ outputStarted /\ error = Ok /\ error' = Fail /\ broken' = TRUE
    /\ UNCHANGED <<taken, outputStarted, played>>

-----------------------------------------------------------------------------
Response == Drop \/ AudioLine \/ DoneLine \/ BadLine
HTTPTask == Send \/ SendTimeout \/ Assign \/ PerformEnds \/ Finish \/ Return
PlaybackTask ==
    \/ Prebuffered \/ Completed \/ Open \/ Receive \/ Empty \/ Rebuffered \/ Write \/ Close

Returned == hp = "returned"
Next == Response \/ HTTPTask \/ PlaybackTask \/ (Returned /\ pb = "ended" /\ UNCHANGED vars)

Spec == Init /\ [][Next]_vars

\* Both tasks are scheduled; a response ends, at the latest by its timeout.
FairSpec == Spec /\ WF_vars(HTTPTask) /\ WF_vars(PlaybackTask)

\* StreamVoiceReply() returns ESP_OK.
Success == Returned /\ transport = Ok /\ error = Ok /\ streamDone /\ sent > 0

-----------------------------------------------------------------------------
\* Strengthenings for the proofs: a line is sent at most once; the notification
\* is the playback's last step.  And while nothing failed, both results are ESP_OK,
\* every line but the one in a task's hands was sent and played, and the playback
\* closes an empty buffer after the producer.
InHand(here) == IF here THEN 1 ELSE 0
SentOnce ==
    /\ sent + InHand(hp = "send") <= audio /\ audio <= lines
    /\ played + InHand(pb = "write") <= taken
NotifiedLast == (notified => pb = "ended") /\ (Returned => notified)
CleanSoFar == ~broken =>
    /\ error = Ok /\ result = Ok /\ transport = Ok
    /\ sent + InHand(hp = "send") = audio /\ played + InHand(pb = "write") = taken
    /\ producerDone <=> hp \in {"wait", "returned"}
    /\ pb = "open" => producerDone \/ Available > 0
    /\ pb \in {"close", "ended"} => producerDone /\ Available = 0

FlagsOK ==
    /\ producerDone \in BOOLEAN /\ streamDone \in BOOLEAN
    /\ outputStarted \in BOOLEAN /\ notified \in BOOLEAN /\ broken \in BOOLEAN

\* The buffer never holds more than its storage.
TypeOK ==
    /\ error \in {Ok, Fail} /\ result \in {Ok, Fail} /\ transport \in {Ok, Fail}
    /\ FlagsOK
    /\ hp \in {"receive", "send", "assign", "finish", "wait", "returned"}
    /\ pb \in {"prebuffer", "complete", "open", "check", "write", "empty", "rebuffer",
               "close", "ended"}
    /\ lines \in 0..MaxLines /\ audio \in 0..MaxLines
    /\ sent \in 0..MaxLines /\ taken \in 0..MaxLines /\ played \in 0..MaxLines
    /\ taken <= sent /\ Available <= Capacity

\* A complete reply of which nothing failed is played to its last line and
\* reported as such, however receiving and playing overlap.
CleanReplyPlayed ==
    Returned /\ ~broken /\ streamDone /\ audio > 0 => Success /\ played = audio

\* The buffer's storage is not freed under the playback task, nor a recording
\* started while it plays.
PlaybackEndsFirst == Returned => pb = "ended"

\* Every call returns although the playback may refuse to drain a full buffer.
ReplyEnds == []<>Returned

\* A turn of which a step failed is reported as failed, so that the session
\* ends after it.
FailureReported == Returned /\ broken => ~Success
=============================================================================
