--------------------------- MODULE XiaozhiSession ---------------------------
(***************************************************************************)
(* One WebSocket connection between a Xiaozhi toy and the server           *)
(* (internal/server/xiaozhi.go).  Three goroutines share the connection:   *)
(*   - the reader: run(), which reads the device's messages;               *)
(*   - the recogniser: StreamTranscribeOpus(), which drains the audio      *)
(*     channel and calls handleTranscript() synchronously for every        *)
(*     utterance the recognition service completes (a "turn");             *)
(*   - the watcher: watchProductIdle(), which sends the device to standby  *)
(*     or says farewell when nobody talks.                                 *)
(* The device is external: messages to it take effect when written (a      *)
(* delay there cannot be told from a delay of the device's own messages),  *)
(* messages from it wait in toServer.                                      *)
(***************************************************************************)
EXTENDS Naturals, Sequences, FiniteSets

CONSTANTS
    ActiveTicks,     \* activeTimeout, in ticks of the model's clock
    IdleTicks,       \* idleTimeout
    AudioCap,        \* capacity of the audio channel (128 in the code)
    MaxSentences,    \* sentences of one reply
    MaxSent          \* [audio, wake, abort |-> how many the device may send]

ASSUME TicksAssumption == ActiveTicks \in Nat \ {0} /\ IdleTicks \in Nat \ {0}
ASSUME SizesAssumption == AudioCap \in Nat \ {0} /\ MaxSentences \in Nat
ASSUME SentAssumption  == MaxSent \in [{"audio", "wake", "abort"} -> Nat]

VARIABLES
    \* activityMu
    age,             \* ticks since lastActive, up to IdleTicks
    turnActive, idleClosing, standbySent, responseRefresh,
    \* turnMu
    turnCancel,      \* c.turnCancel is set
    cancelled,       \* the context of the latest turn is cancelled
    \* goroutines
    rpc,             \* reader
    apc,             \* recogniser
    wpc,             \* watcher
    audio,           \* packets in c.audio
    ctxDone,         \* c.ctx is cancelled (and c.audio closed)
    asrDone,         \* the asrDone channel
    heard,           \* the service has audio it has not transcribed yet
    kind,            \* what the current transcript is
    left,            \* sentences the reply still has
    \* connection and device
    link,            \* "up", "lost" (device gone), "closed" (by the server)
    toServer,        \* device messages not yet read
    dev,             \* device state
    ttsOpen,         \* speech streams begun and not yet stopped at the device
    sent,            \* device messages sent, against MaxSent
    \* history, read by no action
    quiet,           \* ticks since a meaningful turn began or ended
    late             \* sentences announced after the turn was cancelled

activity == <<age, turnActive, idleClosing, standbySent, responseRefresh>>
turn     == <<turnCancel, cancelled>>
wire     == <<link, toServer, dev, ttsOpen>>
talk     == <<heard, kind, left>>
history  == <<quiet, late>>
vars == <<activity, turn, rpc, apc, wpc, audio, ctxDone, asrDone, talk, wire,
          sent, history>>

Kinds     == {"meaningful", "babble", "ending"}
Messages  == {"hello", "badHello", "audio", "wake", "relisten", "abort"}
ReaderPC  == {"hello", "read", "push", "check", "return", "done"}
AsrPC     == {"off", "recv", "begin", "setTurn", "stt", "start", "speak",
              "stream", "doomed", "stop", "sleep", "grace", "clear", "end",
              "fail", "failEnd", "done"}
WatchPC   == {"off", "tick", "standby", "start", "sentence", "speech", "stop",
              "sleep", "grace", "done"}

\* The turn is between beginResponse() and endResponse().
InTurn == apc \in AsrPC \ {"off", "recv", "begin", "done"}
\* sayFarewellAndClose() is running.
InFarewell == wpc \in {"start", "sentence", "speech", "stop", "sleep", "grace"}

Init ==
    /\ age = 0 /\ turnActive = FALSE /\ idleClosing = FALSE
    /\ standbySent = FALSE /\ responseRefresh = FALSE
    /\ turnCancel = FALSE /\ cancelled = FALSE
    /\ rpc = "hello" /\ apc = "off" /\ wpc = "off"
    /\ audio = 0 /\ ctxDone = FALSE /\ asrDone = "none"
    /\ heard = FALSE /\ kind = "babble" /\ left = 0
    /\ link = "up" /\ toServer \in {<<"hello", "wake">>, <<"badHello">>}
    /\ dev = "listening" /\ ttsOpen = {}
    /\ sent = [m \in {"audio", "wake", "abort"} |-> 0]
    /\ quiet = 0 /\ late = 0

-----------------------------------------------------------------------------
(* The device, and what a message does to it.                              *)

\* tts start makes the device play; tts stop makes it listen again, which it
\* announces; standby (patch 0002: StopListening) acts on a listening device
\* only; every other message leaves its state alone.
React(m, owner) ==
    CASE m = "ttsStart" ->
           /\ dev' = "speaking" /\ ttsOpen' = ttsOpen \union {owner}
           /\ UNCHANGED toServer
      [] m = "ttsStop" ->
           /\ ttsOpen' = ttsOpen \ {owner}
           /\ dev' = IF dev = "speaking" THEN "listening" ELSE dev
           /\ toServer' = IF dev = "speaking" THEN Append(toServer, "relisten")
                          ELSE toServer
      [] m = "standby" ->
           /\ dev' = IF dev = "listening" THEN "standby" ELSE dev
           /\ UNCHANGED <<toServer, ttsOpen>>
      [] OTHER -> UNCHANGED <<dev, toServer, ttsOpen>>

\* writeJSON() returning nil, and returning an error.  A write to a device
\* that is gone may still succeed.
Write(m, owner) ==
    \/ link = "up"   /\ React(m, owner) /\ UNCHANGED link
    \/ link = "lost" /\ UNCHANGED wire
WriteFails == link # "up" /\ UNCHANGED wire

\* conn.Close(), or the device vanishing.
LinkDown(how) == link' = how /\ dev' = "standby" /\ ttsOpen' = {}
CloseConn ==
    IF link = "up" THEN LinkDown("closed") /\ UNCHANGED toServer
    ELSE link' = "closed" /\ UNCHANGED <<dev, ttsOpen, toServer>>

DeviceSends(m) ==
    /\ link = "up" /\ rpc # "hello" /\ sent[m] < MaxSent[m]
    /\ CASE m = "audio" -> dev = "listening" /\ UNCHANGED dev
         [] m = "wake"  -> dev = "standby" /\ dev' = "listening"
         [] m = "abort" -> dev = "speaking" /\ UNCHANGED dev
    /\ toServer' = Append(toServer, m)
    /\ sent' = [sent EXCEPT ![m] = @ + 1]
    /\ UNCHANGED <<activity, turn, rpc, apc, wpc, audio, ctxDone, asrDone, talk,
                   link, ttsOpen, history>>

DeviceLost ==
    /\ link = "up" /\ LinkDown("lost")
    /\ UNCHANGED <<activity, turn, rpc, apc, wpc, audio, ctxDone, asrDone, talk,
                   toServer, sent, history>>

Tick ==
    /\ age' = IF age < IdleTicks THEN age + 1 ELSE age
    /\ quiet' = IF quiet < IdleTicks THEN quiet + 1 ELSE quiet
    /\ <<age, quiet>>' # <<age, quiet>>
    /\ UNCHANGED <<turnActive, idleClosing, standbySent, responseRefresh, turn,
                   rpc, apc, wpc, audio, ctxDone, asrDone, talk, wire, sent, late>>

-----------------------------------------------------------------------------
(* The reader: run().                                                      *)

\* touchActivity() and the two goroutines start once the hello is answered.
HelloAccepted ==
    /\ rpc = "hello" /\ toServer # <<>> /\ Head(toServer) = "hello"
    /\ toServer' = Tail(toServer) /\ UNCHANGED <<link, dev, ttsOpen>>
    /\ \/ link # "closed" /\ rpc' = "read" /\ apc' = "recv" /\ wpc' = "tick"
       \/ link # "up" /\ rpc' = "return" /\ UNCHANGED <<apc, wpc>>
    /\ age' = 0 /\ standbySent' = FALSE
    /\ UNCHANGED <<turnActive, idleClosing, responseRefresh, turn, audio,
                   ctxDone, asrDone, talk, sent, history>>

HelloRefused ==
    /\ rpc = "hello" /\ toServer # <<>> /\ Head(toServer) = "badHello"
    /\ toServer' = Tail(toServer) /\ rpc' = "return"
    /\ UNCHANGED <<activity, turn, apc, wpc, audio, ctxDone, asrDone, talk,
                   link, dev, ttsOpen, sent, history>>

\* The next message; "wake" and "relisten" are both "listen start".
Reads(m) ==
    /\ rpc = "read" /\ toServer # <<>> /\ Head(toServer) = m
    /\ toServer' = Tail(toServer)
    /\ UNCHANGED <<apc, wpc, audio, ctxDone, asrDone, talk, link, dev, ttsOpen,
                   sent, history>>

ReadAudio ==
    /\ Reads("audio") /\ rpc' = "push" /\ UNCHANGED <<activity, turn>>

\* Mutant: the wake word leaves standbySent set.
resumeFromStandby_Forgets ==
    /\ age' = IF standbySent THEN 0 ELSE age
    /\ UNCHANGED <<turnActive, idleClosing, standbySent, responseRefresh>>

resumeFromStandby ==
    /\ age' = IF standbySent THEN 0 ELSE age
    /\ standbySent' = FALSE
    /\ UNCHANGED <<turnActive, idleClosing, responseRefresh>>

ReadListen ==
    /\ Reads("wake") \/ Reads("relisten")
    /\ rpc' = "check" /\ resumeFromStandby /\ UNCHANGED turn

cancelCurrentTurn ==
    /\ cancelled' = IF turnCancel THEN TRUE ELSE cancelled
    /\ turnCancel' = FALSE

ReadAbort ==
    /\ Reads("abort") /\ rpc' = "check"
    /\ cancelCurrentTurn /\ UNCHANGED activity

ReadFails ==
    /\ rpc \in {"hello", "read"} /\ link # "up" /\ rpc' = "return"
    /\ UNCHANGED <<activity, turn, apc, wpc, audio, ctxDone, asrDone, talk, wire,
                   sent, history>>

\* Mutant: no bound on the queued audio.
PushAudio_Unbounded ==
    /\ rpc = "push" /\ audio' = audio + 1 /\ rpc' = "check"
    /\ UNCHANGED <<activity, turn, apc, wpc, ctxDone, asrDone, talk, wire, sent,
                   history>>

PushAudio ==
    /\ rpc = "push" /\ audio < AudioCap
    /\ audio' = audio + 1 /\ rpc' = "check"
    /\ UNCHANGED <<activity, turn, apc, wpc, ctxDone, asrDone, talk, wire, sent,
                   history>>

\* asrDone is looked at while an audio packet waits for room and after every
\* message; handleASRError() tells the device, whose state does not change.
NoticeASREnd ==
    /\ rpc \in {"push", "check"} /\ asrDone # "none"
    /\ rpc' = "return" /\ asrDone' = "none"
    /\ UNCHANGED <<activity, turn, apc, wpc, audio, ctxDone, talk, wire, sent,
                   history>>

KeepReading ==
    /\ rpc = "check" /\ asrDone = "none" /\ rpc' = "read"
    /\ UNCHANGED <<activity, turn, apc, wpc, audio, ctxDone, asrDone, talk, wire,
                   sent, history>>

\* run()'s deferred calls.
Return ==
    /\ rpc = "return" /\ rpc' = "done"
    /\ cancelCurrentTurn /\ ctxDone' = TRUE /\ CloseConn
    /\ UNCHANGED <<activity, apc, wpc, audio, asrDone, talk, sent, history>>

-----------------------------------------------------------------------------
(* The recogniser: StreamTranscribeOpus() and handleTranscript().          *)

\* A step of this goroutine alone from one program point to another.
AsrGoes(from, to) ==
    /\ apc = from /\ apc' = to
    /\ UNCHANGED <<rpc, wpc, audio, ctxDone, sent>>

TakeAudio ==
    /\ apc = "recv" /\ audio > 0 /\ audio' = audio - 1 /\ heard' = TRUE
    /\ UNCHANGED <<activity, turn, rpc, apc, wpc, ctxDone, asrDone, kind, left,
                   wire, sent, history>>

\* A blank transcript is dropped; any other starts a turn.
Transcript ==
    /\ heard /\ heard' = FALSE
    /\ \/ AsrGoes("recv", "recv") /\ UNCHANGED kind
       \/ AsrGoes("recv", "begin") /\ kind' \in Kinds
    /\ UNCHANGED <<activity, turn, asrDone, left, wire, history>>

\* The context is cancelled, the channel closed, or the service fails.
AsrEnds ==
    /\ AsrGoes("recv", "done")
    /\ asrDone' \in (IF ctxDone THEN {"quiet"} ELSE {"failed"})
    /\ UNCHANGED <<activity, turn, talk, wire, history>>

contextEligible == kind # "babble"

beginResponse ==
    /\ AsrGoes("begin", "setTurn")
    /\ responseRefresh' = contextEligible /\ turnActive' = TRUE
    /\ age' = IF contextEligible THEN 0 ELSE age
    /\ standbySent' = IF contextEligible THEN FALSE ELSE standbySent
    /\ quiet' = IF contextEligible THEN 0 ELSE quiet
    /\ UNCHANGED <<idleClosing, turn, asrDone, talk, wire, late>>

\* turnCtx is a child of c.ctx.
setCurrentTurn ==
    /\ AsrGoes("setTurn", "stt")
    /\ turnCancel' = TRUE /\ cancelled' = ctxDone /\ late' = 0
    /\ UNCHANGED <<activity, asrDone, talk, wire, quiet>>

WriteStt ==
    /\ \/ AsrGoes("stt", "start") /\ Write("stt", "turn")
       \/ AsrGoes("stt", "fail") /\ WriteFails
    /\ UNCHANGED <<activity, turn, asrDone, talk, history>>

\* The reply goroutine starts after this write: left sentences will come.
WriteTtsStart ==
    /\ \/ AsrGoes("start", "speak") /\ Write("ttsStart", "turn")
          /\ left' \in 0..MaxSentences
       \/ AsrGoes("start", "fail") /\ WriteFails /\ UNCHANGED left
    /\ UNCHANGED <<activity, turn, asrDone, heard, kind, history>>

\* A sentence whose synthesis starts under a cancelled context is doomed.
SentenceStart ==
    /\ left > 0 /\ left' = left - 1
    /\ \/ AsrGoes("speak", IF cancelled THEN "doomed" ELSE "stream")
          /\ Write("sentence", "turn") /\ UNCHANGED turn
       \/ AsrGoes("speak", "stop") /\ WriteFails
          /\ cancelled' = TRUE /\ UNCHANGED turnCancel
    /\ late' = IF cancelled THEN late + 1 ELSE late
    /\ UNCHANGED <<activity, asrDone, heard, kind, quiet>>

\* sentences is closed: the reply is complete, or its goroutine saw the
\* cancelled context.
SentencesEnd ==
    /\ AsrGoes("speak", "stop") /\ (left = 0 \/ cancelled)
    /\ UNCHANGED <<activity, turn, asrDone, talk, wire, history>>

SentenceSpoken ==
    /\ AsrGoes("stream", "speak")
    /\ UNCHANGED <<activity, turn, asrDone, talk, wire, history>>

\* Mutants: the failure returns without the tts stop, or goes on with the reply.
SentenceFails_Returns ==
    /\ AsrGoes("stream", "clear") \/ AsrGoes("doomed", "clear")
    /\ cancelled' = TRUE
    /\ UNCHANGED <<activity, turnCancel, asrDone, talk, wire, history>>
SentenceFails_Continues ==
    /\ AsrGoes("stream", "speak") \/ AsrGoes("doomed", "speak")
    /\ UNCHANGED <<activity, turn, asrDone, talk, wire, history>>

\* The synthesis fails, the context is cancelled or a packet cannot be
\* written: the loop is left and the reply cancelled.
SentenceFails ==
    /\ AsrGoes("stream", "stop") \/ AsrGoes("doomed", "stop")
    /\ cancelled' = TRUE
    /\ UNCHANGED <<activity, turnCancel, asrDone, talk, wire, history>>

WriteTtsStop ==
    /\ AsrGoes("stop", IF kind = "ending" THEN "sleep" ELSE "clear")
    /\ Write("ttsStop", "turn") \/ WriteFails
    /\ UNCHANGED <<activity, turn, asrDone, talk, history>>

\* closeProductSession() after a reply that ends the session.
TurnSleep ==
    /\ AsrGoes("sleep", "grace")
    /\ Write("sleep", "turn") \/ WriteFails
    /\ UNCHANGED <<activity, turn, asrDone, talk, history>>

TurnGrace ==
    /\ AsrGoes("grace", "clear")
    /\ CloseConn \/ (ctxDone /\ UNCHANGED wire)
    /\ UNCHANGED <<activity, turn, asrDone, talk, history>>

\* The deferred cancel() and clearCurrentTurn(); "fail" is the early return
\* after a failed write.
clearCurrentTurn ==
    /\ AsrGoes("clear", "end") \/ AsrGoes("fail", "failEnd")
    /\ turnCancel' = FALSE /\ cancelled' = TRUE
    /\ UNCHANGED <<activity, asrDone, talk, wire, history>>

\* Mutants: the reply's end does not count as activity; turnActive stays set.
endResponse_NoRefresh ==
    /\ \/ AsrGoes("end", "recv") /\ UNCHANGED asrDone
       \/ AsrGoes("failEnd", "done") /\ asrDone' = "failed"
    /\ quiet' = IF responseRefresh THEN 0 ELSE quiet
    /\ responseRefresh' = FALSE /\ turnActive' = FALSE
    /\ UNCHANGED <<age, idleClosing, standbySent, turn, talk, wire, late>>
endResponse_HoldsTurn ==
    /\ \/ AsrGoes("end", "recv") /\ UNCHANGED asrDone
       \/ AsrGoes("failEnd", "done") /\ asrDone' = "failed"
    /\ age' = IF responseRefresh THEN 0 ELSE age
    /\ quiet' = IF responseRefresh THEN 0 ELSE quiet
    /\ responseRefresh' = FALSE
    /\ UNCHANGED <<turnActive, idleClosing, standbySent, turn, talk, wire, late>>

\* The other deferred call.  An error of the callback ends the recogniser.
endResponse ==
    /\ \/ AsrGoes("end", "recv") /\ UNCHANGED asrDone
       \/ AsrGoes("failEnd", "done") /\ asrDone' = "failed"
    /\ age' = IF responseRefresh THEN 0 ELSE age
    /\ quiet' = IF responseRefresh THEN 0 ELSE quiet
    /\ responseRefresh' = FALSE /\ turnActive' = FALSE
    /\ UNCHANGED <<idleClosing, standbySent, turn, talk, wire, late>>

-----------------------------------------------------------------------------
(* The watcher: watchProductIdle().                                        *)

WatchGoes(from, to) ==
    /\ wpc = from /\ wpc' = to
    /\ UNCHANGED <<rpc, apc, turn, audio, ctxDone, asrDone, talk, sent, history>>

\* Mutant: the farewell does not wait for the reply.
IdleCloseDue_DuringTurn == ~idleClosing /\ age >= IdleTicks

IdleCloseDue   == ~idleClosing /\ ~turnActive /\ age >= IdleTicks
VoiceStandbyDue == ~standbySent /\ ~idleClosing /\ ~turnActive /\ age >= ActiveTicks

claimIdleClose ==
    /\ WatchGoes("tick", "start") /\ IdleCloseDue
    /\ idleClosing' = TRUE /\ turnActive' = TRUE
    /\ UNCHANGED <<age, standbySent, responseRefresh, wire>>

\* The claim is made under activityMu, the message written after its release.
claimVoiceStandby ==
    /\ WatchGoes("tick", "standby") /\ ~IdleCloseDue /\ VoiceStandbyDue
    /\ standbySent' = TRUE
    /\ UNCHANGED <<age, turnActive, idleClosing, responseRefresh, wire>>

sendVoiceStandby ==
    /\ WatchGoes("standby", "tick") /\ (Write("standby", "watcher") \/ WriteFails)
    /\ UNCHANGED activity

\* sayFarewellAndClose() ignores every write error; its speech may fail too.
FarewellWrites(from, to, m) ==
    /\ WatchGoes(from, to) /\ (Write(m, "farewell") \/ WriteFails)
    /\ UNCHANGED activity

FarewellStart    == FarewellWrites("start", "sentence", "ttsStart")
FarewellSentence == FarewellWrites("sentence", "speech", "sentence")
FarewellSpeech   == WatchGoes("speech", "stop") /\ UNCHANGED <<activity, wire>>
FarewellStop     == FarewellWrites("stop", "sleep", "ttsStop")
FarewellSleep    == FarewellWrites("sleep", "grace", "sleep")

\* The 250 ms wait of closeProductSession(), cut short by the context.
FarewellClose ==
    /\ WatchGoes("grace", "done") /\ (CloseConn \/ (ctxDone /\ UNCHANGED wire))
    /\ UNCHANGED activity

WatchEnds ==
    /\ WatchGoes("tick", "done") /\ ctxDone /\ UNCHANGED <<activity, wire>>

-----------------------------------------------------------------------------
Device == DeviceLost \/ \E m \in {"audio", "wake", "abort"}: DeviceSends(m)

Reader ==
    \/ HelloAccepted \/ HelloRefused \/ ReadAudio \/ ReadListen \/ ReadAbort
    \/ ReadFails \/ PushAudio \/ NoticeASREnd \/ KeepReading \/ Return

Recogniser ==
    \/ TakeAudio \/ Transcript \/ AsrEnds \/ beginResponse \/ setCurrentTurn
    \/ WriteStt \/ WriteTtsStart \/ SentenceStart \/ SentencesEnd
    \/ SentenceSpoken \/ SentenceFails \/ WriteTtsStop \/ TurnSleep
    \/ TurnGrace \/ clearCurrentTurn \/ endResponse

Watcher ==
    \/ claimIdleClose \/ claimVoiceStandby \/ sendVoiceStandby
    \/ FarewellStart \/ FarewellSentence \/ FarewellSpeech \/ FarewellStop
    \/ FarewellSleep \/ FarewellClose \/ WatchEnds

\* All three goroutines have returned.
Ended == rpc = "done" /\ apc \in {"off", "done"} /\ wpc \in {"off", "done"}

Next ==
    \/ Device \/ Tick \/ Reader \/ Recogniser \/ Watcher
    \/ Ended /\ UNCHANGED vars

Spec == Init /\ [][Next]_vars

\* Each goroutine keeps running, its calls return, the clock advances, and the
\* services answer; the recognition service need not transcribe anything, and
\* the device need not do anything.
Fairness ==
    /\ WF_vars(Tick) /\ WF_vars(Reader) /\ WF_vars(Watcher)
    /\ WF_vars(TakeAudio \/ (Recogniser /\ apc # "recv"))
    /\ WF_vars(ctxDone /\ AsrEnds)
FairSpec == Spec /\ Fairness

-----------------------------------------------------------------------------
FlagsOK ==
    /\ turnActive \in BOOLEAN /\ idleClosing \in BOOLEAN
    /\ standbySent \in BOOLEAN /\ responseRefresh \in BOOLEAN
    /\ turnCancel \in BOOLEAN /\ cancelled \in BOOLEAN
    /\ ctxDone \in BOOLEAN /\ heard \in BOOLEAN

WireOK ==
    /\ link \in {"up", "lost", "closed"} /\ toServer \in Seq(Messages)
    /\ dev \in {"standby", "listening", "speaking"}
    /\ ttsOpen \subseteq {"turn", "farewell"}

TypeOK ==
    /\ age \in 0..IdleTicks /\ quiet \in 0..IdleTicks
    /\ FlagsOK
    /\ rpc \in ReaderPC /\ apc \in AsrPC /\ wpc \in WatchPC
    /\ audio \in 0..AudioCap
    /\ asrDone \in {"none", "quiet", "failed"}
    /\ kind \in Kinds /\ left \in 0..MaxSentences
    /\ WireOK
    /\ sent \in [{"audio", "wake", "abort"} -> Nat]
    /\ late \in Nat

\* The strengthenings the proofs need: turnActive is set during the whole turn;
\* lastActive is never older than the last meaningful turn; a sentence is
\* announced to a cancelled turn only on its way out.
TurnHoldsSession == InTurn => turnActive
AgeWithinQuiet   == age <= quiet
LateOnlyLeaving  == late <= 1 /\ (apc \in {"stt", "start", "speak", "stream"} => late = 0)

\* No goroutine runs before the hello is answered.
StartsAfterHello == rpc = "hello" => apc = "off" /\ wpc = "off"

\* Neither standby nor the farewell is ever claimed while a reply is being
\* prepared or spoken: turnActive, which both claims test, covers the whole
\* turn although three goroutines write it and endResponse() may also clear
\* the watcher's own claim.
ClaimsOnlyBetweenTurns ==
    [][ (~idleClosing /\ idleClosing') \/ (~standbySent /\ standbySent')
          => ~InTurn ]_vars

\* The farewell is claimed only after IdleTicks without a meaningful turn
\* beginning or ending (activeTimeout and idleTimeout are measured from
\* lastActive, which resumeFromStandby() moves as well).
FarewellAfterQuiet ==
    [][ ~idleClosing /\ idleClosing' => quiet >= IdleTicks ]_vars

\* The device plays, deaf to the child, only while some goroutine has still to
\* write the tts stop that lets it listen again: no early return, failed
\* sentence or cancelled turn leaves it speaking.
SpeakingHasAnEnd ==
    link = "up" /\ dev = "speaking" =>
        \/ apc \in {"speak", "stream", "doomed", "stop"}
        \/ wpc \in {"sentence", "speech", "stop"}

\* A "listen start" is on its way.
ListenPending == \E i \in DOMAIN toServer : toServer[i] \in {"wake", "relisten"}

\* A listening device the server believes in standby is about to be told so or
\* has already said it listens: claimVoiceStandby() tests standbySent, so
\* without this it would never be sent to standby again.
StandbyNotForgotten ==
    link = "up" /\ dev = "listening" /\ standbySent =>
        \/ wpc = "standby"
        \/ ListenPending

\* After the device's abort at most one more sentence is announced: the one
\* whose synthesis then fails under the cancelled context.
AbortStopsReply == late <= 1

\* Whatever the device does or fails to do, the connection ends and leaves no
\* goroutine behind.
SessionEnds == <>Ended

\* deploy-r2s-xiaozhi.md:164: ambient sound, babble and overheard speech do not
\* refresh the active time; when such a turn was the last one, only a wake word
\* moves lastActive.  (resumeFromStandby() cannot tell the wake word from the
\* device listening again by itself after the reply.)
BabbleDoesNotRefresh ==
    [][ age' < age /\ kind = "babble" =>
          idleClosing \/ Head(toServer) \in {"wake", "hello"} ]_vars
=============================================================================
