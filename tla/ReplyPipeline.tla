---------------------------- MODULE ReplyPipeline ----------------------------
(***************************************************************************)
(* How one reply reaches the toy: the replier goroutine of                 *)
(* handleTranscript() emits sentences as the model produces them, the      *)
(* sentence loop announces each and plays its speech                       *)
(* (streamSpeechOpus(), playBufferedOpus()), and a speaker goroutine per   *)
(* sentence fetches the speech (StreamSpeakOpus()).  Bounded channels      *)
(* connect them, and the context of the turn is all that stops them        *)
(* (internal/server/xiaozhi.go, xiaozhi_device.go, streaming_reply.go).    *)
(***************************************************************************)
EXTENDS Naturals, Sequences, SequencesExt

CONSTANTS
    MaxSentences,   \* sentences of a reply, the volume answer included
    MaxPackets,     \* packets of a sentence's speech
    SentenceCap,    \* capacity of sentences, 8
    PacketCap,      \* capacity of packets, 64
    PrebufferPackets  \* xiaozhiSpeechPrebufferPackets, 4

ASSUME PipelineAssumption ==
    /\ MaxSentences \in Nat /\ MaxPackets \in Nat
    /\ {SentenceCap, PacketCap, PrebufferPackets} \subseteq Nat \ {0}

VARIABLES
    cancelled, link,    \* turnCtx is done; the connection still takes writes
    \* replier
    rp, plan,           \* where it is; sentences the reply has (a prophecy)
    volume,             \* the first of them answers a volume command
    produced, chatErr,
    sentences, closed,  \* the channel, and whether it is closed
    replied,            \* resultCh has the result
    \* sentence loop
    lp, current, buffered, piped, ttsErr,
    \* speaker of the current sentence
    sp, made, speechErr, packets, packetsClosed, reported,
    doomed,             \* it began under a cancelled context
    \* history
    wire,               \* <<sentence, k>>: its announcement (k = 0), its packet k
    whole               \* packets of each sentence whose speech ended well

context == <<cancelled, link>>
replier == <<rp, plan, volume, produced, chatErr, closed, replied>>
loop    == <<lp, current, buffered, piped, ttsErr>>
speaker == <<sp, made, speechErr, packetsClosed, reported, doomed, whole>>
vars == <<context, replier, sentences, loop, speaker, packets, wire>>

Init ==
    /\ cancelled = FALSE /\ link = TRUE
    /\ rp = "produce" /\ plan \in 0..MaxSentences /\ volume \in BOOLEAN
    /\ produced = 0 /\ chatErr = FALSE
    /\ sentences = <<>> /\ closed = FALSE /\ replied = FALSE
    /\ lp = "recv" /\ current = 0 /\ buffered = <<>> /\ piped = FALSE /\ ttsErr = FALSE
    /\ sp = "off" /\ made = 0 /\ speechErr = FALSE /\ packets = <<>>
    /\ packetsClosed = FALSE /\ reported = FALSE /\ doomed = FALSE
    /\ wire = <<>> /\ whole = [s \in 1..MaxSentences |-> 0]

\* An abort, or the connection's own context; the device's link breaks.
Cancel == ~cancelled /\ cancelled' = TRUE /\ UNCHANGED <<link, replier, sentences, loop, speaker, packets, wire>>
LinkLost == link /\ link' = FALSE /\ UNCHANGED <<cancelled, replier, sentences, loop, speaker, packets, wire>>

-----------------------------------------------------------------------------
(* The replier                                                             *)

Replies(from, to) ==
    /\ rp = from /\ rp' = to
    /\ UNCHANGED <<context, plan, volume, loop, speaker, packets, wire>>

\* The next complete sentence of the model's answer, or the fallback.
Produce ==
    /\ produced < plan /\ produced' = produced + 1 /\ Replies("produce", "emit")
    /\ UNCHANGED <<chatErr, sentences, closed, replied>>

\* Mutant: emitSentence does not look at the context.
emitSentence_Deaf ==
    /\ Len(sentences) < SentenceCap /\ sentences' = Append(sentences, produced)
    /\ Replies("emit", "produce")
    /\ UNCHANGED <<produced, chatErr, closed, replied>>

\* select: whichever of the channel and the context is ready.  The error of a
\* volume answer is kept and the reply goes on; any other ends it.
emitSentence ==
    /\ \/ /\ Len(sentences) < SentenceCap /\ sentences' = Append(sentences, produced)
          /\ Replies("emit", "produce") /\ UNCHANGED chatErr
       \/ /\ cancelled /\ chatErr' = TRUE /\ UNCHANGED sentences
          /\ Replies("emit", IF volume /\ produced = 1 THEN "produce" ELSE "result")
    /\ UNCHANGED <<produced, closed, replied>>

\* streamReply() returns; under a cancelled context the model's stream breaks.
ReplyEnds ==
    /\ Replies("produce", "result")
    /\ \/ produced = plan /\ chatErr' \in {chatErr, TRUE}
       \/ cancelled /\ chatErr' = TRUE
    /\ UNCHANGED <<produced, sentences, closed, replied>>

SendResult ==
    /\ Replies("result", "close") /\ replied' = TRUE
    /\ UNCHANGED <<produced, chatErr, sentences, closed>>

CloseSentences ==
    /\ Replies("close", "done") /\ closed' = TRUE
    /\ UNCHANGED <<produced, chatErr, sentences, replied>>

-----------------------------------------------------------------------------
(* The sentence loop                                                       *)

Loops(from, to) == lp = from /\ lp' = to /\ UNCHANGED <<link, replier>>

\* Mutant: the loop goes on with the next sentence.
SpeechFails_GoesOn(from) ==
    /\ Loops(from, "recv") /\ ttsErr' = TRUE /\ cancelled' = TRUE
    /\ UNCHANGED <<current, buffered, piped, sentences, speaker, packets, wire>>

\* cancel(), break
SpeechFails(from) ==
    /\ Loops(from, "await") /\ ttsErr' = TRUE /\ cancelled' = TRUE
    /\ UNCHANGED <<current, buffered, piped, sentences, speaker, packets, wire>>

\* sentence_start is written and the speaker started.
Announce ==
    /\ link /\ sentences # <<>> /\ Loops("recv", "prebuffer")
    /\ current' = Head(sentences) /\ sentences' = Tail(sentences)
    /\ wire' = Append(wire, <<Head(sentences), 0>>)
    /\ buffered' = <<>> /\ piped' = FALSE
    /\ sp' = "fetch" /\ made' = 0 /\ speechErr' = FALSE /\ packets' = <<>>
    /\ packetsClosed' = FALSE /\ reported' = FALSE /\ doomed' = cancelled
    /\ UNCHANGED <<cancelled, ttsErr, whole>>

AnnounceFails ==
    /\ ~link /\ sentences # <<>> /\ Loops("recv", "await")
    /\ current' = Head(sentences) /\ sentences' = Tail(sentences)
    /\ ttsErr' = TRUE /\ cancelled' = TRUE
    /\ UNCHANGED <<buffered, piped, speaker, packets, wire>>

NoMoreSentences ==
    /\ sentences = <<>> /\ closed /\ Loops("recv", "await")
    /\ UNCHANGED <<cancelled, current, buffered, piped, ttsErr, sentences, speaker, packets, wire>>

Prebuffer ==
    /\ packets # <<>>
    /\ buffered' = Append(buffered, Head(packets)) /\ packets' = Tail(packets)
    /\ IF Len(buffered') < PrebufferPackets
       THEN Loops("prebuffer", "prebuffer") /\ UNCHANGED piped
       ELSE Loops("prebuffer", "play") /\ piped' = TRUE
    /\ UNCHANGED <<cancelled, current, ttsErr, sentences, speaker, wire>>

\* A speech shorter than the prebuffer.
PrebufferEnds ==
    /\ packets = <<>> /\ packetsClosed /\ Loops("prebuffer", "play")
    /\ UNCHANGED <<cancelled, current, buffered, piped, ttsErr, sentences, speaker, packets, wire>>

\* Mutant: the channel is played before the prebuffer.
WritePacket_PipeFirst ==
    /\ link /\ Loops("play", "play")
    /\ \/ /\ piped /\ packets # <<>> /\ packets' = Tail(packets) /\ UNCHANGED buffered
          /\ wire' = Append(wire, <<current, Head(packets)>>)
       \/ /\ ~(piped /\ packets # <<>>) /\ buffered # <<>>
          /\ buffered' = Tail(buffered) /\ UNCHANGED packets
          /\ wire' = Append(wire, <<current, Head(buffered)>>)
    /\ UNCHANGED <<cancelled, current, piped, ttsErr, sentences, speaker>>

WritePacket ==
    /\ link /\ Loops("play", "play")
    /\ \/ /\ buffered # <<>> /\ buffered' = Tail(buffered) /\ UNCHANGED packets
          /\ wire' = Append(wire, <<current, Head(buffered)>>)
       \/ /\ buffered = <<>> /\ piped /\ packets # <<>>
          /\ packets' = Tail(packets) /\ UNCHANGED buffered
          /\ wire' = Append(wire, <<current, Head(packets)>>)
    /\ UNCHANGED <<cancelled, current, piped, ttsErr, sentences, speaker>>

\* Only the first packet is written without waiting.
PacketWaiting == buffered # <<>> \/ (piped /\ packets # <<>>)
PacketFails ==
    /\ PacketWaiting
    /\ ~link \/ (cancelled /\ Last(wire)[2] > 0)
    /\ SpeechFails("play")

PlayEnds ==
    /\ buffered = <<>> /\ (piped => packets = <<>> /\ packetsClosed)
    /\ Loops("play", "result")
    /\ UNCHANGED <<cancelled, current, buffered, piped, ttsErr, sentences, speaker, packets, wire>>

\* Mutant: the result of the speech is not looked at.
SentenceSpoken_Ignores ==
    /\ reported /\ Loops("result", "recv")
    /\ UNCHANGED <<cancelled, current, buffered, piped, ttsErr, sentences, speaker, packets, wire>>

\* The speech ended well and had packets.
SentenceSpoken ==
    /\ reported /\ ~speechErr /\ Last(wire)[2] > 0 /\ Loops("result", "recv")
    /\ UNCHANGED <<cancelled, current, buffered, piped, ttsErr, sentences, speaker, packets, wire>>

SentenceBroken ==
    \/ cancelled /\ SpeechFails("prebuffer")
    \/ reported /\ (speechErr \/ Last(wire)[2] = 0) /\ SpeechFails("result")

AwaitResult ==
    /\ replied /\ Loops("await", "stop")
    /\ UNCHANGED <<cancelled, current, buffered, piped, ttsErr, sentences, speaker, packets, wire>>

\* tts stop, the records of the turn, and the deferred cancel().
TurnEnds ==
    /\ Loops("stop", "done") /\ cancelled' = TRUE
    /\ UNCHANGED <<current, buffered, piped, ttsErr, sentences, speaker, packets, wire>>

-----------------------------------------------------------------------------
(* The speaker                                                             *)

Speaks(from, to) ==
    /\ sp = from /\ sp' = to
    /\ UNCHANGED <<context, replier, sentences, loop, doomed, wire>>

FetchPacket ==
    /\ ~doomed /\ made < MaxPackets /\ made' = made + 1 /\ Speaks("fetch", "push")
    /\ UNCHANGED <<speechErr, packets, packetsClosed, reported, whole>>

PushPacket ==
    /\ \/ /\ Len(packets) < PacketCap /\ packets' = Append(packets, made)
          /\ Speaks("push", "fetch") /\ UNCHANGED speechErr
       \/ /\ cancelled /\ speechErr' = TRUE /\ Speaks("push", "close") /\ UNCHANGED packets
    /\ UNCHANGED <<made, packetsClosed, reported, whole>>

\* A finished stream with audio; anything else is an error.
SpeechEnds ==
    /\ Speaks("fetch", "close")
    /\ \/ made > 0 /\ UNCHANGED speechErr /\ whole' = [whole EXCEPT ![current] = made]
       \/ speechErr' = TRUE /\ UNCHANGED whole
    /\ UNCHANGED <<made, packets, packetsClosed, reported>>

ClosePackets ==
    /\ Speaks("close", "report") /\ packetsClosed' = TRUE
    /\ UNCHANGED <<made, speechErr, packets, reported, whole>>

ReportSpeech ==
    /\ Speaks("report", "done") /\ reported' = TRUE
    /\ UNCHANGED <<made, speechErr, packets, packetsClosed, whole>>

-----------------------------------------------------------------------------
Loop ==
    \/ Announce \/ AnnounceFails \/ NoMoreSentences \/ Prebuffer \/ PrebufferEnds
    \/ WritePacket \/ PacketFails \/ PlayEnds \/ SentenceSpoken \/ SentenceBroken
    \/ AwaitResult \/ TurnEnds

\* Steps the services decide on, and the goroutines' own.
Services == Produce \/ ReplyEnds \/ FetchPacket \/ SpeechEnds
Handovers == emitSentence \/ SendResult \/ CloseSentences
Deliveries == PushPacket \/ ClosePackets \/ ReportSpeech

Ended == lp = "done" /\ rp = "done" /\ sp \in {"off", "done"}

Next ==
    \/ Cancel \/ LinkLost \/ Loop \/ Services \/ Handovers \/ Deliveries
    \/ Ended /\ UNCHANGED vars

Spec == Init /\ [][Next]_vars

\* The goroutines run; a service may hang for as long as the context lives, and
\* returns once it is cancelled.
FairSpec ==
    /\ Spec /\ WF_vars(Loop) /\ WF_vars(Handovers) /\ WF_vars(Deliveries)
    /\ WF_vars(cancelled /\ (Produce \/ ReplyEnds))
    /\ WF_vars(cancelled /\ (FetchPacket \/ SpeechEnds))

-----------------------------------------------------------------------------
TypeOK ==
    /\ rp \in {"produce", "emit", "result", "close", "done"}
    /\ lp \in {"recv", "prebuffer", "play", "result", "await", "stop", "done"}
    /\ sp \in {"off", "fetch", "push", "close", "report", "done"}
    /\ {cancelled, link, volume, chatErr, closed, replied, piped, ttsErr, speechErr,
        packetsClosed, reported, doomed} \subseteq BOOLEAN
    /\ plan \in 0..MaxSentences /\ produced \in 0..plan /\ current \in 0..plan
    /\ sentences \in Seq(1..plan) /\ Len(sentences) <= SentenceCap
    /\ made \in 0..MaxPackets
    /\ packets \in Seq(1..MaxPackets) /\ Len(packets) <= PacketCap
    /\ buffered \in Seq(1..MaxPackets) /\ Len(buffered) <= PrebufferPackets
    /\ wire \in Seq((1..plan) \X (0..MaxPackets))
    /\ whole \in [1..MaxSentences -> 0..MaxPackets]

\* The toy hears the packets of a sentence in order, after its announcement and
\* before the next one, which comes only when the whole speech was written; a
\* sentence is passed over only in a cancelled turn.
SpokenInOrder ==
    \A i \in 1..(Len(wire) - 1) :
        LET a == wire[i]  b == wire[i + 1] IN
        \/ b = <<a[1], a[2] + 1>>
        \/ /\ b[2] = 0 /\ b[1] > a[1] /\ a[2] = whole[a[1]] /\ a[2] > 0
           /\ b[1] = a[1] + 1 \/ cancelled

\* A turn that is recorded without an error has spoken every sentence of its
\* reply to the last packet.
NoSilentLoss ==
    lp = "done" /\ ~ttsErr /\ ~chatErr =>
        /\ (plan = 0) = (wire = <<>>)
        /\ wire # <<>> => wire[1] = <<1, 0>> /\ Last(wire) = <<plan, whole[plan]>>

\* The loop that XiaozhiSession embeds.
Phase == CASE lp = "recv" -> "speak"
           [] lp \in {"prebuffer", "play", "result"} -> IF doomed THEN "doomed" ELSE "stream"
           [] OTHER -> "stop"
Abstract == INSTANCE SentenceLoop WITH
                phase <- Phase, left <- plan - current, cancelled <- cancelled
ImplementsLoop == Abstract!Spec

\* Once the turn is cancelled (an abort, a lost connection, a failed sentence)
\* it ends and leaves no goroutine blocked on a channel.
CancelledTurnEnds == cancelled ~> Ended
=============================================================================
