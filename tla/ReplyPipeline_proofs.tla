------------------------ MODULE ReplyPipeline_proofs ------------------------
(***************************************************************************)
(* What ReplyPipeline guarantees for every number of sentences and packets *)
(* and every capacity of its channels, and that it implements the loop     *)
(* XiaozhiSession embeds.                                                  *)
(***************************************************************************)
EXTENDS ReplyPipeline, SequenceTheorems, TLAPS

Speaking == {"prebuffer", "play", "result"}
Leaving == {"await", "stop", "done"}

\* The types the arguments below need.
PipeTypes ==
    /\ rp \in {"produce", "emit", "result", "close", "done"}
    /\ lp \in Speaking \union Leaving \union {"recv"}
    /\ sp \in {"off", "fetch", "push", "close", "report", "done"}
    /\ plan \in 0 .. MaxSentences /\ produced \in 0 .. plan /\ current \in 0 .. produced
    /\ made \in Nat /\ sentences \in Seq(Nat) /\ packets \in Seq(Nat) /\ buffered \in Seq(Nat)
    /\ wire \in Seq(Nat \X Nat) /\ whole \in [1 .. MaxSentences -> Nat]

\* The sentence that was announced last, and its packet that was written last.
Told == Last(wire)[1]
Sent == Last(wire)[2]

\* What is emitted comes in order, and none is missing until one is dropped: a
\* turn that is not cancelled, or whose reply has no error, drops none.
InOrder ==
    /\ \A i \in 1 .. Len(sentences) : current < sentences[i] /\ sentences[i] <= produced
    /\ rp = "emit" =>
           current < produced /\ \A i \in 1 .. Len(sentences) : sentences[i] < produced
    /\ \A i, j \in 1 .. Len(sentences) : i < j => sentences[i] < sentences[j]
NoneMissing ==
    /\ \A i \in 1 .. Len(sentences) : sentences[i] = current + i
    /\ current + Len(sentences) = IF rp = "emit" THEN produced - 1 ELSE produced
    /\ wire # <<>> => wire[1] = <<1, 0>>
Complete == ~chatErr \/ ~cancelled
QueueInv ==
    /\ InOrder /\ (Complete => NoneMissing)
    /\ rp \in {"result", "close", "done"} => produced = plan \/ (cancelled /\ chatErr)
    /\ closed <=> rp = "done"

\* The speaker is the one of the sentence announced last.  A speech that ended
\* well was fetched whole; one begun under a cancelled context fetches nothing.
SpeakerInv ==
    /\ packetsClosed <=> sp \in {"report", "done"}
    /\ reported <=> sp = "done"
    /\ sp \notin {"off", "done"} \/ lp \in Speaking => wire # <<>> /\ Told = current
    /\ lp \in Speaking => sp # "off"
    /\ doomed => cancelled /\ made = 0
    /\ sp \in {"fetch", "push"} => ~speechErr
    /\ sp = "push" => made > 0
    /\ sp \in {"close", "report", "done"} /\ ~speechErr =>
           wire # <<>> /\ made > 0 /\ whole[Told] = made

\* What was written, the prebuffer and the channel are consecutive packets up
\* to the one fetched last.
Feed ==
    /\ \A i \in 1 .. Len(buffered) : buffered[i] = Sent + i
    /\ \A i \in 1 .. Len(packets) : packets[i] = Sent + Len(buffered) + i
    /\ sp = "fetch" \/ (sp \in {"close", "report", "done"} /\ ~speechErr) =>
           Sent + Len(buffered) + Len(packets) = made
    /\ sp = "push" => Sent + Len(buffered) + Len(packets) + 1 = made
    /\ lp = "play" /\ ~piped => packets = <<>> /\ packetsClosed
    /\ lp = "result" => buffered = <<>> /\ packets = <<>> /\ packetsClosed
FeedInv == lp \in Speaking => Feed

\* Between two sentences, and after the last one of a loop that did not fail,
\* the sentence announced last was spoken whole.
AtRest ==
    /\ sp \in {"off", "done"}
    /\ wire = <<>> => current = 0
    /\ wire # <<>> => Told = current /\ Sent = whole[current] /\ Sent > 0
RestInv ==
    /\ lp = "recv" => AtRest
    /\ lp \in Leaving /\ ~ttsErr => AtRest /\ sentences = <<>> /\ rp = "done"

\* b is what may follow a on the wire.
Follows(a, b) ==
    \/ b = <<a[1], a[2] + 1>>
    \/ /\ b[2] = 0 /\ b[1] > a[1] /\ a[2] = whole[a[1]] /\ a[2] > 0
       /\ b[1] = a[1] + 1 \/ cancelled
WireInv ==
    /\ \A i \in 1 .. Len(wire) : wire[i][1] >= 1 /\ wire[i][1] <= Told
    /\ wire # <<>> => Told <= current
    /\ \A i \in 1 .. (Len(wire) - 1) : Follows(wire[i], wire[i + 1])

PipeInv == PipeTypes /\ QueueInv /\ SpeakerInv /\ FeedInv /\ RestInv /\ WireInv

PartVars == <<cancelled, sp, lp, packetsClosed, reported, wire, current, doomed, made,
              speechErr, whole, buffered, packets, piped>>

\* What is said of the speaker and of the wire does not depend on the replier.
LEMMA PartsUnchanged ==
    ASSUME SpeakerInv, FeedInv, WireInv, UNCHANGED PartVars
    PROVE  SpeakerInv' /\ FeedInv' /\ WireInv'
<1> USE DEF PartVars, Told, Sent, Last
<1>1. SpeakerInv' BY DEF SpeakerInv
<1>2. FeedInv' BY DEF FeedInv, Feed
<1>3. WireInv' BY DEF WireInv, Follows
<1>4. QED BY <1>1, <1>2, <1>3

\* The invariant holds before the first sentence.
LEMMA PipeInit == Init => PipeInv
<1> SUFFICES ASSUME Init PROVE PipeInv
    OBVIOUS
<1> USE DEF Init
<1>1. PipeTypes BY PipelineAssumption, SMT DEF PipeTypes, Speaking, Leaving
<1>2. QueueInv BY PipelineAssumption, SMT DEF QueueInv, InOrder, NoneMissing, Complete
<1>3. SpeakerInv /\ FeedInv /\ RestInv
    BY SMT DEF SpeakerInv, FeedInv, RestInv, AtRest, Speaking, Leaving
<1>4. WireInv BY SMT DEF WireInv
<1>5. QED BY <1>1, <1>2, <1>3, <1>4 DEF PipeInv

-----------------------------------------------------------------------------
(* The replier                                                             *)

\* What the types say of the sentences.
LEMMA Bounds ==
    ASSUME PipeTypes
    PROVE  /\ Len(sentences) \in Nat
           /\ \A i \in 1 .. Len(sentences) : sentences[i] \in Nat
           /\ plan \in Nat /\ produced \in Nat /\ current \in Nat
           /\ current <= produced /\ produced <= plan /\ plan <= MaxSentences
BY PipelineAssumption, ElementOfSeq, LenProperties, SMT DEF PipeTypes

\* The next sentence is produced.
LEMMA ProduceStep == ASSUME PipeInv, Produce PROVE PipeInv'
<1>0. /\ UNCHANGED <<cancelled, plan, current, wire, chatErr, sentences, closed>>
      /\ UNCHANGED <<link, lp, ttsErr, sp, made, packets, buffered, whole>>
      /\ UNCHANGED PartVars
      /\ rp = "produce" /\ rp' = "emit" /\ produced' = produced + 1 /\ produced < plan
    BY DEF Produce, Replies, context, loop, speaker, PartVars
<1>1. PipeTypes' BY <1>0, PipelineAssumption, SMT DEF PipeInv, PipeTypes
<1>2. QueueInv'
    <2>1. PipeTypes /\ QueueInv BY DEF PipeInv
    <2>2. InOrder'
        BY <1>0, <2>1, Bounds, SMT DEF QueueInv, InOrder
    <2>3. NoneMissing => NoneMissing'
        BY <1>0, <2>1, PipelineAssumption, SMT DEF NoneMissing, PipeTypes
    <2>4. QED BY <1>0, <2>1, <2>2, <2>3 DEF QueueInv, Complete
<1>3. SpeakerInv' /\ FeedInv' /\ WireInv' BY <1>0, PartsUnchanged DEF PipeInv
<1>4. RestInv'
    BY <1>0 DEF PipeInv, RestInv, AtRest, Told, Sent, Last, Speaking, Leaving
<1>5. QED BY <1>1, <1>2, <1>3, <1>4 DEF PipeInv

\* A sentence goes to the loop, or the cancelled reply drops it.
LEMMA EmitStep == ASSUME PipeInv, emitSentence PROVE PipeInv'
<1>0. /\ UNCHANGED <<cancelled, plan, current, wire, closed, produced>>
      /\ UNCHANGED <<link, lp, ttsErr, sp, made, packets, buffered, whole>>
      /\ UNCHANGED PartVars
      /\ rp = "emit" /\ rp' \in {"produce", "result"}
    BY DEF emitSentence, Replies, context, loop, speaker, PartVars
<1>1. /\ PipeTypes /\ QueueInv
      /\ rp # "done" /\ rp' # "done" /\ rp' # "emit"
    BY <1>0, SMT DEF PipeInv
<1>2. PipeTypes' /\ QueueInv'
    <2>1. CASE sentences' = Append(sentences, produced) /\ UNCHANGED chatErr /\ rp' = "produce"
        <3>1. /\ sentences' \in Seq(Nat) /\ Len(sentences') = Len(sentences) + 1
              /\ \A i \in 1 .. Len(sentences) : sentences'[i] = sentences[i]
              /\ sentences'[Len(sentences) + 1] = produced
            BY <1>1, <2>1, Bounds, AppendProperties DEF PipeTypes
        <3>2. PipeTypes' BY <1>0, <1>1, <3>1, SMT DEF PipeTypes
        <3>3. InOrder'
            BY <1>0, <1>1, <2>1, <3>1, Bounds, SMT DEF QueueInv, InOrder
        <3>4. NoneMissing => NoneMissing'
            <4> SUFFICES ASSUME NoneMissing PROVE NoneMissing'
                OBVIOUS
            <4>1. current + Len(sentences) = produced - 1
                BY <1>0, SMT DEF NoneMissing
            <4>2. Len(sentences) \in Nat /\ produced \in Nat /\ current \in Nat
                BY <1>1, Bounds
            <4>3. current + Len(sentences') = produced
                BY <3>1, <4>1, <4>2, SMT
            <4>5. \A i \in 1 .. Len(sentences') : sentences'[i] = current + i
                <5>1. SUFFICES ASSUME NEW i \in 1 .. Len(sentences')
                               PROVE  sentences'[i] = current + i
                    OBVIOUS
                <5>2. i \in 1 .. Len(sentences) \/ i = Len(sentences) + 1
                    BY <3>1, <4>2, SMT
                <5>3. QED BY <3>1, <4>1, <4>2, <5>2, SMT DEF NoneMissing
            <4>4. QED BY <1>0, <1>1, <4>5, <4>3 DEF NoneMissing
        <3>5. rp' \notin {"result", "close", "done"} BY <2>1, SMT
        <3>6. QueueInv' BY <1>0, <1>1, <2>1, <3>3, <3>4, <3>5 DEF QueueInv, Complete
        <3>7. QED BY <3>2, <3>6
    <2>2. CASE cancelled /\ chatErr' = TRUE /\ UNCHANGED sentences
        <3>1. PipeTypes' BY <1>0, <1>1, <2>2, SMT DEF PipeTypes
        <3>2. InOrder'
            BY <1>0, <1>1, <2>2, Bounds, SMT DEF QueueInv, InOrder
        <3>3. QueueInv' BY <1>0, <1>1, <2>2, <3>2 DEF QueueInv, Complete
        <3>4. QED BY <3>1, <3>3
    <2>3. QED BY <2>1, <2>2 DEF emitSentence, Replies
<1>5. SpeakerInv' /\ FeedInv' /\ WireInv' BY <1>0, PartsUnchanged DEF PipeInv
<1>6. RestInv'
    BY <1>0 DEF PipeInv, RestInv, AtRest, Told, Sent, Last, Speaking, Leaving
<1>7. QED BY <1>2, <1>5, <1>6 DEF PipeInv

\* The reply ends, its result is handed over and the channel closed.
LEMMA ReplyEndsStep ==
    ASSUME PipeInv, ReplyEnds \/ SendResult \/ CloseSentences
    PROVE  PipeInv'
<1>0. /\ UNCHANGED <<cancelled, plan, current, wire, produced, sentences>>
      /\ UNCHANGED <<link, lp, ttsErr, sp, made, packets, buffered, whole>>
      /\ UNCHANGED PartVars
      /\ rp \in {"produce", "result", "close"} /\ rp' \in {"result", "close", "done"}
    BY DEF ReplyEnds, SendResult, CloseSentences, Replies, context, loop, speaker, PartVars
<1>1. PipeTypes /\ QueueInv BY DEF PipeInv
<1>2. PipeTypes' BY <1>0, <1>1, SMT DEF PipeTypes
<1>3. InOrder' BY <1>0, <1>1, Bounds, SMT DEF QueueInv, InOrder
<1>4. NoneMissing => NoneMissing' BY <1>0, <1>1, Bounds, SMT DEF NoneMissing
<1>5. Complete' => Complete
    BY <1>0 DEF ReplyEnds, SendResult, CloseSentences, Complete
<1>6. produced' = plan' \/ (cancelled' /\ chatErr')
    BY <1>0, <1>1 DEF ReplyEnds, SendResult, CloseSentences, Replies, QueueInv
<1>7. closed' <=> rp' = "done"
    <2>1. CASE ReplyEnds BY <1>1, <2>1 DEF ReplyEnds, Replies, QueueInv
    <2>2. CASE SendResult BY <1>1, <2>2 DEF SendResult, Replies, QueueInv
    <2>3. CASE CloseSentences BY <1>1, <2>3 DEF CloseSentences, Replies, QueueInv
    <2>4. QED BY <2>1, <2>2, <2>3
<1>8. QueueInv' BY <1>1, <1>3, <1>4, <1>5, <1>6, <1>7 DEF QueueInv
<1>9. SpeakerInv' /\ FeedInv' /\ WireInv' BY <1>0, PartsUnchanged DEF PipeInv
<1>10. RestInv'
    BY <1>0 DEF PipeInv, RestInv, AtRest, Told, Sent, Last, Speaking, Leaving
<1>11. QED BY <1>2, <1>8, <1>9, <1>10 DEF PipeInv

-----------------------------------------------------------------------------
(* The speaker                                                             *)

QueueVars == <<cancelled, current, produced, sentences, rp, plan, chatErr, closed, wire>>

\* What is said of the sentences to come depends on neither loop nor speaker.
LEMMA QueueUnchanged ==
    ASSUME QueueInv, UNCHANGED QueueVars
    PROVE  QueueInv'
BY DEF QueueVars, QueueInv, InOrder, NoneMissing, Complete

\* A speaker at work speaks the sentence announced last, and the loop does not
\* rest meanwhile.
LEMMA AtWork ==
    ASSUME PipeInv, sp \notin {"off", "done"}
    PROVE  /\ wire # <<>> /\ Told = current /\ current \in 1 .. MaxSentences
           /\ Len(wire) \in Nat /\ Len(wire) > 0 /\ \A i \in 1 .. Len(wire) : wire[i] \in Nat \X Nat
           /\ Told \in Nat /\ Sent \in Nat /\ Len(buffered) \in Nat /\ Len(packets) \in Nat
           /\ lp # "recv" /\ (lp \in Leaving => ttsErr)
<1>1. wire # <<>> /\ Told = current BY DEF PipeInv, SpeakerInv
<1>2. Len(wire) \in Nat /\ Len(wire) > 0 /\ Last(wire) \in Nat \X Nat
    BY <1>1, EmptySeq, ElementOfSeq, LenProperties, SMT DEF PipeInv, PipeTypes, Last
<1>3. Told >= 1 BY <1>1, <1>2, SMT DEF PipeInv, WireInv, Told, Last
<1>4. current \in 1 .. MaxSentences
    BY <1>1, <1>3, Bounds, PipelineAssumption, SMT DEF PipeInv
<1>5. Len(buffered) \in Nat /\ Len(packets) \in Nat
    BY LenProperties DEF PipeInv, PipeTypes
<1>6. lp # "recv" /\ (lp \in Leaving => ttsErr) BY DEF PipeInv, RestInv, AtRest
<1>7. \A i \in 1 .. Len(wire) : wire[i] \in Nat \X Nat
    BY ElementOfSeq DEF PipeInv, PipeTypes
<1>8. QED BY <1>1, <1>2, <1>4, <1>5, <1>6, <1>7, SMT DEF Told, Sent

\* A packet is fetched.
LEMMA FetchStep == ASSUME PipeInv, FetchPacket PROVE PipeInv'
<1>0. /\ UNCHANGED QueueVars
      /\ UNCHANGED <<lp, ttsErr, buffered, piped, packets, whole, speechErr, packetsClosed,
                     reported, doomed>>
      /\ sp = "fetch" /\ sp' = "push" /\ made' = made + 1 /\ ~doomed
    BY DEF FetchPacket, Speaks, context, replier, loop, QueueVars
<1>1. UNCHANGED <<cancelled, current, produced, sentences, rp, plan, closed, wire>>
    BY <1>0 DEF QueueVars
<1>2. PipeTypes /\ QueueInv /\ SpeakerInv /\ FeedInv /\ RestInv /\ WireInv
    BY DEF PipeInv
<1>3. PipeTypes' BY <1>0, <1>1, <1>2, SMT DEF PipeTypes
<1>4. QueueInv' BY <1>0, <1>2, QueueUnchanged
<1>5. SpeakerInv'
    <2>1. made' > 0 BY <1>0, <1>2, SMT DEF PipeTypes
    <2>2. QED BY <1>0, <1>1, <1>2, <2>1, SMT DEF SpeakerInv, Told, Last
<1>6. FeedInv' BY <1>0, <1>1, <1>2, AtWork, SMT DEF FeedInv, Feed, Sent, Last, PipeTypes
<1>7. RestInv'
    BY <1>0, <1>1, <1>2, AtWork, SMT DEF RestInv
<1>8. WireInv' BY <1>0, <1>1, <1>2 DEF WireInv, Follows, Told, Last
<1>9. QED BY <1>3, <1>4, <1>5, <1>6, <1>7, <1>8 DEF PipeInv

\* A packet goes to the player, or the cancelled speech gives up.
LEMMA PushStep == ASSUME PipeInv, PushPacket PROVE PipeInv'
<1>0. /\ UNCHANGED QueueVars
      /\ UNCHANGED <<lp, ttsErr, buffered, piped, whole, made, packetsClosed,
                     reported, doomed>>
      /\ sp = "push"
    BY DEF PushPacket, Speaks, context, replier, loop, QueueVars
<1>1. UNCHANGED <<cancelled, current, produced, sentences, rp, plan, closed, wire>>
    BY <1>0 DEF QueueVars
<1>2. PipeTypes /\ QueueInv /\ SpeakerInv /\ FeedInv /\ RestInv /\ WireInv
    BY DEF PipeInv
<1>3. QueueInv' BY <1>0, <1>2, QueueUnchanged
<1>4. WireInv' BY <1>0, <1>1, <1>2 DEF WireInv, Follows, Told, Last
<1>5. PipeTypes' /\ SpeakerInv' /\ FeedInv' /\ RestInv'
    <2>1. CASE packets' = Append(packets, made) /\ sp' = "fetch" /\ UNCHANGED speechErr
        <3>1. /\ packets' \in Seq(Nat) /\ Len(packets') = Len(packets) + 1
              /\ \A i \in 1 .. Len(packets) : packets'[i] = packets[i]
              /\ packets'[Len(packets) + 1] = made
            BY <1>2, <2>1, AppendProperties DEF PipeTypes
        <3>2. PipeTypes' BY <1>0, <1>1, <1>2, <2>1, <3>1, SMT DEF PipeTypes
        <3>3. SpeakerInv' BY <1>0, <1>1, <1>2, <2>1, SMT DEF SpeakerInv, Told, Last
        <3>4. FeedInv'
            <4> SUFFICES ASSUME lp \in Speaking PROVE Feed'
                BY <1>0 DEF FeedInv
            <4>1. Feed BY <1>2 DEF FeedInv
            <4>2. Sent' = Sent BY <1>1 DEF Sent, Last
            <4>3. /\ Sent \in Nat /\ Len(buffered) \in Nat /\ Len(packets) \in Nat
                  /\ Sent + Len(buffered) + Len(packets) + 1 = made
                BY <1>0, <4>1, AtWork, SMT DEF Feed
            <4>4. \A i \in 1 .. Len(packets') : packets'[i] = Sent + Len(buffered) + i
                <5> SUFFICES ASSUME NEW i \in 1 .. Len(packets')
                             PROVE  packets'[i] = Sent + Len(buffered) + i
                    OBVIOUS
                <5>1. i \in 1 .. Len(packets) \/ i = Len(packets) + 1
                    BY <3>1, <4>3, SMT
                <5>2. QED BY <3>1, <4>1, <4>3, <5>1, SMT DEF Feed
            <4>5. ~packetsClosed BY <1>0, <1>2, SMT DEF SpeakerInv
            <4>6. QED BY <1>0, <2>1, <3>1, <4>1, <4>2, <4>3, <4>4, <4>5, SMT DEF Feed
        <3>5. RestInv' BY <1>0, <1>1, <1>2, AtWork, SMT DEF RestInv
        <3>6. QED BY <3>2, <3>3, <3>4, <3>5
    <2>2. CASE cancelled /\ speechErr' = TRUE /\ sp' = "close" /\ UNCHANGED packets
        <3>1. PipeTypes' BY <1>0, <1>1, <1>2, <2>2, SMT DEF PipeTypes
        <3>2. SpeakerInv' BY <1>0, <1>1, <1>2, <2>2, SMT DEF SpeakerInv, Told, Last
        <3>3. FeedInv' BY <1>0, <1>1, <1>2, <2>2, SMT DEF FeedInv, Feed, Sent, Last
        <3>4. RestInv' BY <1>0, <1>1, <1>2, AtWork, SMT DEF RestInv
        <3>5. QED BY <3>1, <3>2, <3>3, <3>4
    <2>3. QED BY <2>1, <2>2 DEF PushPacket, Speaks
<1>6. QED BY <1>3, <1>4, <1>5 DEF PipeInv

\* The speech ends, well or not.
LEMMA SpeechEndsStep == ASSUME PipeInv, SpeechEnds PROVE PipeInv'
<1>0. /\ UNCHANGED QueueVars
      /\ UNCHANGED <<lp, ttsErr, buffered, piped, packets, made, packetsClosed,
                     reported, doomed>>
      /\ sp = "fetch" /\ sp' = "close"
    BY DEF SpeechEnds, Speaks, context, replier, loop, QueueVars
<1>1. UNCHANGED <<cancelled, current, produced, sentences, rp, plan, closed, wire>>
    BY <1>0 DEF QueueVars
<1>2. PipeTypes /\ QueueInv /\ SpeakerInv /\ FeedInv /\ RestInv /\ WireInv
    BY DEF PipeInv
<1>3. QueueInv' BY <1>0, <1>2, QueueUnchanged
<1>4. \/ made > 0 /\ UNCHANGED speechErr /\ whole' = [whole EXCEPT ![current] = made]
      \/ speechErr' = TRUE /\ UNCHANGED whole
    BY DEF SpeechEnds
<1>5. PipeTypes' BY <1>0, <1>1, <1>2, <1>4, SMT DEF PipeTypes
<1>6. SpeakerInv'
    <2>1. UNCHANGED Told /\ wire # <<>> /\ Told = current /\ current \in 1 .. MaxSentences
        BY <1>0, <1>1, AtWork DEF Told, Last
    <2>2. CASE made > 0 /\ UNCHANGED speechErr /\ whole' = [whole EXCEPT ![current] = made]
        <3>1. whole'[current] = made BY <1>2, <2>1, <2>2 DEF PipeTypes
        <3>2. QED BY <1>0, <1>1, <1>2, <2>1, <2>2, <3>1, SMT DEF SpeakerInv
    <2>3. CASE speechErr' = TRUE /\ UNCHANGED whole
        BY <1>0, <1>1, <1>2, <2>1, <2>3, SMT DEF SpeakerInv
    <2>4. QED BY <1>4, <2>2, <2>3
<1>7. FeedInv' BY <1>0, <1>1, <1>2, SMT DEF FeedInv, Feed, Sent, Last
<1>8. RestInv' BY <1>0, <1>1, <1>2, AtWork, SMT DEF RestInv
<1>9. WireInv'
    <2>0. current \in 1 .. MaxSentences
        BY <1>0, AtWork
    <2>1. \A a, b \in Nat : a >= 1 /\ b <= current /\ b > a => whole'[a] = whole[a]
        BY <1>2, <1>4, <2>0, PipelineAssumption, SMT DEF PipeTypes
    <2>2. ASSUME NEW i \in 1 .. (Len(wire) - 1)
          PROVE  Follows(wire[i], wire[i + 1])'
        <3>1. Follows(wire[i], wire[i + 1]) BY <1>2 DEF WireInv
        <3>2. /\ wire[i][1] \in Nat /\ wire[i][1] >= 1
              /\ wire[i + 1][1] \in Nat /\ wire[i + 1][1] <= current
            BY <1>0, <1>2, AtWork, SMT DEF WireInv
        <3>3. wire[i + 1][1] > wire[i][1] => whole'[wire[i][1]] = whole[wire[i][1]]
            BY <2>1, <3>2
        <3>4. QED BY <1>1, <3>1, <3>3 DEF Follows
    <2>3. QED BY <1>1, <1>2, <2>2 DEF WireInv, Told, Last
<1>10. QED BY <1>3, <1>5, <1>6, <1>7, <1>8, <1>9 DEF PipeInv

\* The channel is closed, and the outcome handed over.
LEMMA SpeechReportsStep ==
    ASSUME PipeInv, ClosePackets \/ ReportSpeech
    PROVE  PipeInv'
<1>0. /\ UNCHANGED QueueVars
      /\ UNCHANGED <<lp, ttsErr, buffered, piped, packets, made, whole, speechErr, doomed>>
      /\ \/ sp = "close" /\ sp' = "report" /\ packetsClosed' = TRUE /\ UNCHANGED reported
         \/ sp = "report" /\ sp' = "done" /\ reported' = TRUE /\ UNCHANGED packetsClosed
    BY DEF ClosePackets, ReportSpeech, Speaks, context, replier, loop, QueueVars
<1>1. /\ UNCHANGED <<cancelled, current, produced, sentences, rp, plan, closed, wire>>
      /\ sp \in {"close", "report"}
    BY <1>0 DEF QueueVars
<1>2. PipeTypes /\ QueueInv /\ SpeakerInv /\ FeedInv /\ RestInv /\ WireInv
    BY DEF PipeInv
<1>3. QueueInv' BY <1>0, <1>2, QueueUnchanged
<1>4. PipeTypes' BY <1>0, <1>1, <1>2, SMT DEF PipeTypes
<1>5. SpeakerInv' BY <1>0, <1>1, <1>2, SMT DEF SpeakerInv, Told, Last
<1>6. FeedInv' BY <1>0, <1>1, <1>2, SMT DEF FeedInv, Feed, Sent, Last, SpeakerInv
<1>7. RestInv' BY <1>0, <1>1, <1>2, AtWork, SMT DEF RestInv
<1>8. WireInv' BY <1>0, <1>1, <1>2 DEF WireInv, Follows, Told, Last
<1>9. QED BY <1>3, <1>4, <1>5, <1>6, <1>7, <1>8 DEF PipeInv

-----------------------------------------------------------------------------
(* The sentence loop                                                       *)

\* A turn is cancelled, or its loop gives up or comes to its end; nothing is
\* heard.
LEMMA QuietStep ==
    ASSUME PipeInv,
           UNCHANGED <<replier, sentences, speaker, packets, wire, current, buffered, piped>>,
           cancelled => cancelled',
           \/ UNCHANGED <<lp, ttsErr>>
           \/ lp' \in Leaving /\ (ttsErr' \/ (lp \in Leaving /\ UNCHANGED ttsErr))
    PROVE  PipeInv'
<1>0. /\ UNCHANGED <<rp, plan, chatErr, produced, closed, sp, made, whole>>
      /\ UNCHANGED <<speechErr, packetsClosed, reported, doomed>>
      /\ UNCHANGED <<sentences, packets, wire, current, buffered, piped>>
    BY DEF replier, speaker
<1>1. PipeTypes /\ QueueInv /\ SpeakerInv /\ FeedInv /\ RestInv /\ WireInv
    BY DEF PipeInv
<1>2. lp' \in Speaking => UNCHANGED lp
    BY SMT DEF Speaking, Leaving
<1>3. lp' \in Speaking \union Leaving \union {"recv"}
    BY <1>1 DEF PipeTypes
<1>4. PipeTypes' BY <1>0, <1>1, <1>3, SMT DEF PipeTypes
<1>5. QueueInv' BY <1>0, <1>1 DEF QueueInv, InOrder, NoneMissing, Complete
<1>6. SpeakerInv' BY <1>0, <1>1, <1>2, Zenon DEF SpeakerInv, Told, Last
<1>7. FeedInv'
    <2>1. Feed => (lp' = lp => Feed') BY <1>0 DEF Feed, Sent, Last
    <2>2. QED BY <1>1, <1>2, <2>1 DEF FeedInv
<1>8. RestInv'
    <2>1. AtRest => AtRest' BY <1>0 DEF AtRest, Told, Sent, Last
    <2>2. lp' = "recv" => UNCHANGED lp BY SMT DEF Leaving
    <2>3. QED BY <1>0, <1>1, <2>1, <2>2 DEF RestInv
<1>9. WireInv' BY <1>0, <1>1 DEF WireInv, Follows, Told, Last
<1>10. QED BY <1>4, <1>5, <1>6, <1>7, <1>8, <1>9 DEF PipeInv

\* What may follow on the wire is appended to it.
LEMMA WireExtends ==
    ASSUME PipeTypes, WireInv, NEW e \in Nat \X Nat, wire' = Append(wire, e),
           UNCHANGED <<whole, cancelled>>, e[1] >= 1, e[1] <= current', current' \in Nat,
           wire # <<>> => Told <= e[1] /\ Follows(Last(wire), e)
    PROVE  /\ WireInv' /\ Told' = e[1] /\ Sent' = e[2]
           /\ wire' \in Seq(Nat \X Nat) /\ wire' # <<>>
           /\ wire # <<>> => wire'[1] = wire[1]
<1>1. /\ wire \in Seq(Nat \X Nat) /\ Len(wire) \in Nat
      /\ wire' \in Seq(Nat \X Nat) /\ Len(wire') = Len(wire) + 1 /\ wire' # <<>>
      /\ \A i \in 1 .. Len(wire) : wire'[i] = wire[i]
      /\ wire'[Len(wire) + 1] = e
    BY LenProperties, AppendProperties DEF PipeTypes
<1>2. Told' = e[1] /\ Sent' = e[2] BY <1>1 DEF Told, Sent, Last
<1>3. wire # <<>> => Len(wire) > 0 /\ wire'[1] = wire[1]
    BY <1>1, EmptySeq, SMT
<1>4. \A i \in 1 .. Len(wire) : wire[i][1] \in Nat /\ Told \in Nat
    <2>1. \A i \in 1 .. Len(wire) : wire[i] \in Nat \X Nat BY <1>1, ElementOfSeq
    <2>2. \A i \in 1 .. Len(wire) : Len(wire) \in 1 .. Len(wire) BY <1>1, SMT
    <2>3. QED BY <2>1, <2>2 DEF Told, Last
<1>5. ASSUME NEW i \in 1 .. Len(wire')
      PROVE  wire'[i][1] >= 1 /\ wire'[i][1] <= Told'
    <2>1. CASE i \in 1 .. Len(wire)
        <3>1. wire # <<>> BY <1>1, <2>1, EmptySeq, SMT
        <3>2. wire'[i] = wire[i] BY <1>1, <2>1
        <3>3. wire[i][1] >= 1 /\ wire[i][1] <= Told BY <2>1 DEF WireInv
        <3>4. Told \in Nat /\ wire[i][1] \in Nat /\ e[1] \in Nat BY <1>4, <2>1
        <3>5. QED BY <1>2, <3>1, <3>2, <3>3, <3>4, SMT
    <2>2. CASE i = Len(wire) + 1
        <3>1. wire'[i][1] = e[1] /\ e[1] \in Nat BY <1>1, <2>2
        <3>2. QED BY <1>2, <3>1, SMT
    <2>3. QED BY <1>1, <2>1, <2>2, SMT
<1>6. ASSUME NEW i \in 1 .. (Len(wire') - 1)
      PROVE  Follows(wire[i], wire[i + 1])'
    <2>1. CASE i \in 1 .. (Len(wire) - 1)
        <3>1. Follows(wire[i], wire[i + 1]) BY <2>1 DEF WireInv
        <3>2. wire'[i] = wire[i] /\ wire'[i + 1] = wire[i + 1]
            BY <1>1, <2>1, SMT
        <3>3. QED BY <3>1, <3>2 DEF Follows
    <2>2. CASE i = Len(wire)
        <3>1. wire # <<>> /\ i \in 1 .. Len(wire) BY <1>1, <2>2, EmptySeq, SMT
        <3>2. wire'[i] = Last(wire) /\ wire'[i + 1] = e
            BY <1>1, <2>2, <3>1 DEF Last
        <3>3. QED BY <3>1, <3>2 DEF Follows
    <2>3. QED BY <1>1, <2>1, <2>2, SMT
<1>7. WireInv' BY <1>1, <1>2, <1>5, <1>6 DEF WireInv
<1>8. QED BY <1>1, <1>2, <1>3, <1>7

\* The loop takes the next sentence.
LEMMA SentenceTaken ==
    ASSUME PipeTypes, QueueInv, sentences # <<>>, current' = Head(sentences),
           sentences' = Tail(sentences), UNCHANGED replier
    PROVE  /\ current' \in Nat /\ current' > current /\ current' <= produced
           /\ sentences' \in Seq(Nat) /\ InOrder'
           /\ NoneMissing => current' = current + 1
           /\ NoneMissing /\ (wire' # <<>> => wire'[1] = <<1, 0>>) => NoneMissing'
<1>1. UNCHANGED <<rp, plan, chatErr, produced, closed>>
    BY DEF replier
<1>2. /\ Len(sentences) \in Nat /\ Len(sentences) >= 1
      /\ produced \in Nat /\ current \in Nat
      /\ \A i \in 1 .. Len(sentences) : sentences[i] \in Nat
    BY Bounds, EmptySeq, SMT DEF PipeTypes
<1>3. /\ current' = sentences[1] /\ sentences' \in Seq(Nat)
      /\ Len(sentences') = Len(sentences) - 1
      /\ \A i \in 1 .. Len(sentences') : sentences'[i] = sentences[i + 1]
    BY HeadTailProperties DEF PipeTypes
<1>4. /\ \A i \in 1 .. Len(sentences') : i + 1 \in 1 .. Len(sentences)
      /\ 1 \in 1 .. Len(sentences)
    BY <1>2, <1>3, SMT
<1>5. InOrder BY DEF QueueInv
<1>6. current' \in Nat /\ current' > current /\ current' <= produced
    BY <1>2, <1>3, <1>4, <1>5, SMT DEF InOrder
<1>7. InOrder'
    <2>1. ASSUME NEW i \in 1 .. Len(sentences')
          PROVE  /\ current' < sentences'[i] /\ sentences'[i] <= produced
                 /\ rp = "emit" => sentences'[i] < produced
        BY <1>2, <1>3, <1>4, <1>5, SMT DEF InOrder
    <2>2. rp = "emit" => current' < produced
        BY <1>2, <1>3, <1>4, <1>5, SMT DEF InOrder
    <2>3. ASSUME NEW i \in 1 .. Len(sentences'), NEW j \in 1 .. Len(sentences'), i < j
          PROVE  sentences'[i] < sentences'[j]
        <3>1. i + 1 < j + 1 BY <1>2, <1>3, <2>3, SMT
        <3>2. QED BY <1>3, <1>4, <1>5, <3>1 DEF InOrder
    <2>4. QED BY <1>1, <2>1, <2>2, <2>3 DEF InOrder
<1>8. NoneMissing => current' = current + 1
    BY <1>2, <1>3, <1>4 DEF NoneMissing
<1>9. ASSUME NoneMissing, wire' # <<>> => wire'[1] = <<1, 0>>
      PROVE  NoneMissing'
    <2>1. \A i \in 1 .. Len(sentences') : sentences'[i] = current' + i
        BY <1>2, <1>3, <1>4, <1>8, <1>9, SMT DEF NoneMissing
    <2>2. current' + Len(sentences') = IF rp = "emit" THEN produced - 1 ELSE produced
        <3>1. current' + Len(sentences') = current + Len(sentences)
            BY <1>2, <1>3, <1>8, <1>9, SMT
        <3>2. QED BY <1>9, <3>1 DEF NoneMissing
    <2>3. QED BY <1>1, <1>9, <2>1, <2>2 DEF NoneMissing
<1>10. QED BY <1>3, <1>6, <1>7, <1>8, <1>9

\* A sentence is announced and its speaker started.
LEMMA AnnounceStep == ASSUME PipeInv, Announce PROVE PipeInv'
<1>0. /\ UNCHANGED replier /\ UNCHANGED <<cancelled, whole>>
      /\ sentences # <<>> /\ current' = Head(sentences) /\ sentences' = Tail(sentences)
      /\ lp = "recv" /\ lp' = "prebuffer" /\ wire' = Append(wire, <<current', 0>>)
      /\ buffered' = <<>> /\ packets' = <<>> /\ made' = 0 /\ sp' = "fetch"
      /\ piped' = FALSE /\ speechErr' = FALSE /\ packetsClosed' = FALSE
      /\ reported' = FALSE /\ doomed' = cancelled
    BY DEF Announce, Loops
<1>1. PipeTypes /\ QueueInv /\ SpeakerInv /\ FeedInv /\ RestInv /\ WireInv /\ AtRest
    BY <1>0 DEF PipeInv, RestInv
<1>2. /\ current' \in Nat /\ current' > current /\ current' <= produced
      /\ sentences' \in Seq(Nat) /\ InOrder'
      /\ NoneMissing => current' = current + 1
      /\ NoneMissing /\ (wire' # <<>> => wire'[1] = <<1, 0>>) => NoneMissing'
    BY <1>0, <1>1, SentenceTaken
<1>3. current \in Nat /\ current' >= 1 /\ produced \in Nat
    BY <1>1, <1>2, Bounds, SMT
<1>4. wire # <<>> => Told <= current' /\ Follows(Last(wire), <<current', 0>>)
    <2> SUFFICES ASSUME wire # <<>> PROVE Told <= current' /\ Follows(Last(wire), <<current', 0>>)
        OBVIOUS
    <2>1. Told = current /\ Sent = whole[current] /\ Sent > 0 BY <1>1 DEF AtRest
    <2>2. Told <= current' BY <1>2, <1>3, <2>1, SMT
    <2>3. current' = current + 1 \/ cancelled BY <1>1, <1>2 DEF QueueInv, Complete
    <2>4. QED BY <1>2, <2>1, <2>2, <2>3 DEF Follows, Told, Sent
<1>5. /\ WireInv' /\ Told' = current' /\ Sent' = 0
      /\ wire' \in Seq(Nat \X Nat) /\ wire' # <<>>
      /\ wire # <<>> => wire'[1] = wire[1]
    <2>1. <<current', 0>> \in Nat \X Nat /\ <<current', 0>>[1] = current' /\ <<current', 0>>[2] = 0
        BY <1>2
    <2>2. DEFINE e == <<current', 0>>
    <2>3. e \in Nat \X Nat /\ e[1] = current' /\ e[2] = 0 /\ wire' = Append(wire, e)
        BY <1>0, <2>1
    <2>4. wire # <<>> => Told <= e[1] /\ Follows(Last(wire), e) BY <1>4, <2>3
    <2>5. current' <= current' BY <1>2, SMT
    <2> HIDE DEF e
    <2>6. QED BY <1>0, <1>1, <1>2, <1>3, <2>3, <2>4, <2>5, WireExtends
<1>6. PipeTypes'
    <2>1. UNCHANGED <<rp, plan, produced>> BY <1>0 DEF replier
    <2>2. buffered' \in Seq(Nat) /\ packets' \in Seq(Nat) BY <1>0, EmptySeq
    <2>3. lp' \in Speaking BY <1>0 DEF Speaking
    <2>4. QED BY <1>0, <1>1, <1>2, <1>3, <1>5, <2>1, <2>2, <2>3, SMT DEF PipeTypes
<1>7. QueueInv'
    <2>1. UNCHANGED <<rp, plan, chatErr, produced, closed>> BY <1>0 DEF replier
    <2>2. NoneMissing => wire'[1] = <<1, 0>>
        <3>1. CASE wire = <<>>
            <4>1. Len(wire) = 0 /\ wire'[Len(wire) + 1] = <<current', 0>>
                BY <1>0, <1>2, <3>1, EmptySeq, AppendProperties DEF PipeTypes
            <4>2. current = 0 BY <1>1, <3>1 DEF AtRest
            <4>3. QED BY <1>2, <4>1, <4>2, SMT
        <3>2. CASE wire # <<>> BY <1>5, <3>2 DEF NoneMissing
        <3>3. QED BY <3>1, <3>2
    <2>3. QED BY <1>0, <1>1, <1>2, <2>1, <2>2 DEF QueueInv, Complete
<1>8. SpeakerInv' BY <1>0, <1>5, SMT DEF SpeakerInv
<1>9. FeedInv'
    <2>1. Len(<<>>) = 0 OBVIOUS
    <2>2. QED BY <1>0, <1>5, <2>1, SMT DEF FeedInv, Feed
<1>10. RestInv' BY <1>0, SMT DEF RestInv, Leaving
<1>11. QED BY <1>5, <1>6, <1>7, <1>8, <1>9, <1>10 DEF PipeInv

\* The announcement cannot be written.
LEMMA AnnounceFailsStep == ASSUME PipeInv, AnnounceFails PROVE PipeInv'
<1>0. /\ UNCHANGED replier /\ UNCHANGED speaker /\ UNCHANGED <<buffered, piped, packets, wire>>
      /\ sentences # <<>> /\ current' = Head(sentences) /\ sentences' = Tail(sentences)
      /\ lp = "recv" /\ lp' = "await" /\ ttsErr' = TRUE /\ cancelled' = TRUE
    BY DEF AnnounceFails, Loops
<1>1. PipeTypes /\ QueueInv /\ SpeakerInv /\ FeedInv /\ RestInv /\ WireInv /\ AtRest
    BY <1>0 DEF PipeInv, RestInv
<1>2. /\ current' \in Nat /\ current' > current /\ current' <= produced
      /\ sentences' \in Seq(Nat) /\ InOrder'
      /\ NoneMissing /\ (wire' # <<>> => wire'[1] = <<1, 0>>) => NoneMissing'
    BY <1>0, <1>1, SentenceTaken
<1>3. current \in Nat /\ produced \in Nat
    BY <1>1, Bounds
<1>4. /\ UNCHANGED <<rp, plan, chatErr, produced, closed>>
      /\ UNCHANGED <<sp, made, speechErr, packetsClosed, reported, doomed, whole>>
    BY <1>0 DEF replier, speaker
<1>5. lp' \in Leaving /\ lp' \notin Speaking /\ lp' # "recv"
    BY <1>0, SMT DEF Speaking, Leaving
<1>6. PipeTypes' BY <1>0, <1>1, <1>2, <1>3, <1>4, <1>5, SMT DEF PipeTypes
<1>7. QueueInv'
    <2>1. NoneMissing => NoneMissing' BY <1>0, <1>2 DEF NoneMissing
    <2>2. QED BY <1>0, <1>1, <1>2, <1>4, <2>1 DEF QueueInv, Complete
<1>8. SpeakerInv'
    BY <1>0, <1>1, <1>4, <1>5, SMT DEF SpeakerInv, AtRest, Told, Last
<1>9. FeedInv' BY <1>5 DEF FeedInv
<1>10. RestInv' BY <1>0, <1>5 DEF RestInv
<1>11. WireInv'
    <2>1. wire # <<>> => Told <= current' BY <1>1, <1>2, <1>3, SMT DEF AtRest
    <2>2. QED BY <1>0, <1>1, <1>4, <2>1 DEF WireInv, Follows, Told, Last
<1>12. QED BY <1>6, <1>7, <1>8, <1>9, <1>10, <1>11 DEF PipeInv

\* A step of the loop that neither takes a sentence nor writes.
LEMMA LoopKeeps ==
    ASSUME PipeInv, UNCHANGED <<replier, speaker, cancelled, sentences, wire, current>>
    PROVE  /\ QueueInv' /\ WireInv'
           /\ PipeTypes /\ QueueInv /\ SpeakerInv /\ FeedInv /\ RestInv /\ WireInv
           /\ UNCHANGED <<sp, made, speechErr, packetsClosed, reported, doomed, whole>>
           /\ UNCHANGED <<Told, Sent, rp, plan, produced>>
<1>1. UNCHANGED <<rp, plan, chatErr, produced, closed, whole>> BY DEF replier, speaker
<1>2. QueueInv' BY <1>1, QueueUnchanged DEF QueueVars, PipeInv
<1>3. WireInv' BY <1>1 DEF PipeInv, WireInv, Follows, Told, Last
<1>4. UNCHANGED <<sp, made, speechErr, packetsClosed, reported, doomed>> BY DEF speaker
<1>5. QED BY <1>1, <1>2, <1>3, <1>4 DEF PipeInv, Told, Sent, Last

\* The loop learns that no sentence comes any more, has prebuffered a short
\* speech, or has played a speech to its end.
LEMMA LoopEndsStep ==
    ASSUME PipeInv, NoMoreSentences \/ PrebufferEnds \/ PlayEnds
    PROVE  PipeInv'
<1>0. /\ UNCHANGED <<replier, speaker, cancelled, sentences, wire, current>>
      /\ UNCHANGED <<buffered, piped, packets, ttsErr>>
    BY DEF NoMoreSentences, PrebufferEnds, PlayEnds, Loops
<1>1. /\ QueueInv' /\ WireInv'
      /\ PipeTypes /\ QueueInv /\ SpeakerInv /\ FeedInv /\ RestInv /\ WireInv
      /\ UNCHANGED <<sp, made, speechErr, packetsClosed, reported, doomed, whole>>
      /\ UNCHANGED <<Told, Sent, rp, plan, produced>>
    BY <1>0, LoopKeeps
<1>2. CASE NoMoreSentences
    <2>1. lp = "recv" /\ lp' = "await" /\ sentences = <<>> /\ closed
        BY <1>2 DEF NoMoreSentences, Loops
    <2>2. lp' \in Leaving /\ lp' \notin Speaking /\ lp' # "recv"
        BY <2>1, SMT DEF Speaking, Leaving
    <2>3. AtRest /\ rp = "done" BY <1>1, <2>1 DEF RestInv, QueueInv
    <2>4. PipeTypes' BY <1>0, <1>1, <2>2, SMT DEF PipeTypes
    <2>5. SpeakerInv' BY <1>0, <1>1, <2>2, <2>3 DEF SpeakerInv, AtRest
    <2>6. FeedInv' BY <2>2 DEF FeedInv
    <2>7. RestInv' BY <1>0, <1>1, <2>1, <2>2, <2>3 DEF RestInv, AtRest
    <2>8. QED BY <1>1, <2>4, <2>5, <2>6, <2>7 DEF PipeInv
<1>3. CASE PrebufferEnds \/ PlayEnds
    <2>1. /\ lp \in {"prebuffer", "play"} /\ lp' \in {"play", "result"}
          /\ packets = <<>> /\ packetsClosed /\ (lp' = "result" => buffered = <<>>)
        <3>1. CASE PrebufferEnds BY <1>3, <3>1, SMT DEF PrebufferEnds, Loops
        <3>2. CASE PlayEnds
            <4>1. lp = "play" /\ lp' = "result" /\ buffered = <<>>
                  /\ (piped => packets = <<>> /\ packetsClosed)
                BY <3>2 DEF PlayEnds, Loops
            <4>2. ~piped => packets = <<>> /\ packetsClosed
                BY <1>1, <4>1 DEF FeedInv, Feed, Speaking
            <4>3. QED BY <4>1, <4>2
        <3>3. QED BY <1>3, <3>1, <3>2
    <2>2. lp \in Speaking /\ lp' \in Speaking /\ lp' \notin Leaving /\ lp' # "recv"
        BY <2>1, SMT DEF Speaking, Leaving
    <2>3. PipeTypes' BY <1>0, <1>1, <2>2, SMT DEF PipeTypes
    <2>4. SpeakerInv' BY <1>0, <1>1, <2>2 DEF SpeakerInv
    <2>5. FeedInv'
        <3>1. Feed BY <1>1, <2>2 DEF FeedInv
        <3>2. QED BY <1>0, <1>1, <2>1, <3>1, SMT DEF FeedInv, Feed
    <2>6. RestInv' BY <2>2 DEF RestInv
    <2>7. QED BY <1>1, <2>3, <2>4, <2>5, <2>6 DEF PipeInv
<1>4. QED BY <1>2, <1>3

\* A packet is prebuffered.
LEMMA PrebufferStep == ASSUME PipeInv, Prebuffer PROVE PipeInv'
<1>0. /\ UNCHANGED <<replier, speaker, cancelled, sentences, wire, current, ttsErr>>
      /\ packets # <<>> /\ buffered' = Append(buffered, Head(packets))
      /\ packets' = Tail(packets) /\ lp = "prebuffer"
      /\ \/ lp' = "prebuffer"
         \/ lp' = "play" /\ piped' = TRUE
    BY DEF Prebuffer, Loops
<1>1. /\ QueueInv' /\ WireInv'
      /\ PipeTypes /\ QueueInv /\ SpeakerInv /\ FeedInv /\ RestInv /\ WireInv
      /\ UNCHANGED <<sp, made, speechErr, packetsClosed, reported, doomed, whole>>
      /\ UNCHANGED <<Told, Sent, rp, plan, produced>>
    BY <1>0, LoopKeeps
<1>2. lp \in Speaking /\ lp' \in Speaking /\ lp' \notin Leaving /\ lp' # "recv"
    BY <1>0, SMT DEF Speaking, Leaving
<1>3. /\ Len(packets) \in Nat /\ Len(packets) >= 1 /\ Head(packets) = packets[1]
      /\ Head(packets) \in Nat /\ packets' \in Seq(Nat)
      /\ Len(packets') = Len(packets) - 1
      /\ \A i \in 1 .. Len(packets') : packets'[i] = packets[i + 1]
    BY <1>0, <1>1, EmptySeq, HeadTailProperties, SMT DEF PipeTypes
<1>4. /\ Len(buffered) \in Nat /\ buffered' \in Seq(Nat)
      /\ Len(buffered') = Len(buffered) + 1
      /\ \A i \in 1 .. Len(buffered) : buffered'[i] = buffered[i]
      /\ buffered'[Len(buffered) + 1] = packets[1]
    BY <1>0, <1>1, <1>3, LenProperties, AppendProperties DEF PipeTypes
<1>5. PipeTypes' BY <1>0, <1>1, <1>2, <1>3, <1>4, SMT DEF PipeTypes
<1>6. SpeakerInv' BY <1>0, <1>1, <1>2 DEF SpeakerInv
<1>7. FeedInv'
    <2>1. Feed BY <1>1, <1>2 DEF FeedInv
    <2>2. Sent \in Nat
        <3>1. wire # <<>> BY <1>1, <1>2 DEF SpeakerInv
        <3>2. Last(wire) \in Nat \X Nat
            BY <1>1, <3>1, EmptySeq, ElementOfSeq, LenProperties, SMT DEF PipeTypes, Last
        <3>3. QED BY <3>2 DEF Sent
    <2>3. packets[1] = Sent + Len(buffered) + 1 BY <1>3, <2>1, SMT DEF Feed
    <2>4. \A i \in 1 .. Len(buffered') : buffered'[i] = Sent + i
        <3> SUFFICES ASSUME NEW i \in 1 .. Len(buffered') PROVE buffered'[i] = Sent + i
            OBVIOUS
        <3>1. i \in 1 .. Len(buffered) \/ i = Len(buffered) + 1 BY <1>4, SMT
        <3>2. CASE i \in 1 .. Len(buffered) BY <1>4, <2>1, <3>2 DEF Feed
        <3>3. CASE i = Len(buffered) + 1
            <4>1. buffered'[i] = Sent + Len(buffered) + 1 BY <1>4, <2>3, <3>3
            <4>2. QED BY <1>4, <2>2, <3>3, <4>1, SMT
        <3>4. QED BY <3>1, <3>2, <3>3
    <2>5. \A i \in 1 .. Len(packets') : packets'[i] = Sent + Len(buffered') + i
        <3> SUFFICES ASSUME NEW i \in 1 .. Len(packets')
                     PROVE  packets'[i] = Sent + Len(buffered') + i
            OBVIOUS
        <3>1. i + 1 \in 1 .. Len(packets) BY <1>3, SMT
        <3>2. packets'[i] = Sent + Len(buffered) + (i + 1) BY <1>3, <2>1, <3>1 DEF Feed
        <3>3. QED BY <1>3, <1>4, <2>2, <3>2, SMT
    <2>6. Len(buffered') + Len(packets') = Len(buffered) + Len(packets)
        BY <1>3, <1>4, SMT
    <2>7. Sent + Len(buffered') + Len(packets') = Sent + Len(buffered) + Len(packets)
        BY <1>3, <1>4, <2>2, <2>6, SMT
    <2>8. QED BY <1>0, <1>1, <2>1, <2>4, <2>5, <2>7, SMT DEF FeedInv, Feed
<1>8. RestInv' BY <1>2 DEF RestInv
<1>9. QED BY <1>1, <1>5, <1>6, <1>7, <1>8 DEF PipeInv

\* A packet of the prebuffer, or of the channel after it, is written.
LEMMA WriteStep == ASSUME PipeInv, WritePacket PROVE PipeInv'
<1>0. /\ UNCHANGED <<replier, speaker, cancelled, sentences, current, piped, ttsErr, lp>>
      /\ lp = "play"
    BY DEF WritePacket, Loops
<1>1. /\ PipeTypes /\ QueueInv /\ SpeakerInv /\ FeedInv /\ RestInv /\ WireInv
      /\ UNCHANGED <<rp, plan, chatErr, produced, closed>>
      /\ UNCHANGED <<sp, made, speechErr, packetsClosed, reported, doomed, whole>>
    BY <1>0 DEF PipeInv, replier, speaker
<1>2. lp \in Speaking /\ lp' \in Speaking /\ lp' \notin Leaving /\ lp' # "recv"
      /\ lp # "result" /\ lp' # "result"
    BY <1>0, SMT DEF Speaking, Leaving
<1>3. wire # <<>> /\ Told = current /\ Feed
    BY <1>1, <1>2 DEF SpeakerInv, FeedInv
<1>4. /\ Told \in Nat /\ Sent \in Nat /\ Told >= 1 /\ current \in Nat
      /\ Len(buffered) \in Nat /\ Len(packets) \in Nat
    <2>1. Len(wire) \in 1 .. Len(wire) /\ Last(wire) \in Nat \X Nat
        BY <1>1, <1>3, EmptySeq, ElementOfSeq, LenProperties, SMT DEF PipeTypes, Last
    <2>2. QED BY <1>1, <1>3, <2>1, LenProperties DEF WireInv, Told, Sent, Last, PipeTypes
<1>5. /\ wire' = Append(wire, <<current, Sent + 1>>)
      /\ buffered' \in Seq(Nat) /\ packets' \in Seq(Nat)
      /\ \A i \in 1 .. Len(buffered') : buffered'[i] = Sent + 1 + i
      /\ \A i \in 1 .. Len(packets') : packets'[i] = Sent + 1 + Len(buffered') + i
      /\ Sent + 1 + Len(buffered') + Len(packets') = Sent + Len(buffered) + Len(packets)
      /\ packets = <<>> => packets' = <<>>
    <2>1. CASE /\ buffered # <<>> /\ buffered' = Tail(buffered) /\ UNCHANGED packets
               /\ wire' = Append(wire, <<current, Head(buffered)>>)
        <3>1. /\ Len(buffered) >= 1 /\ Head(buffered) = buffered[1]
              /\ buffered' \in Seq(Nat) /\ Len(buffered') = Len(buffered) - 1
              /\ \A i \in 1 .. Len(buffered') : buffered'[i] = buffered[i + 1]
            BY <1>1, <2>1, EmptySeq, HeadTailProperties, SMT DEF PipeTypes
        <3>2. Head(buffered) = Sent + 1 BY <1>3, <1>4, <3>1, SMT DEF Feed
        <3>3. \A i \in 1 .. Len(buffered') : buffered'[i] = Sent + 1 + i
            <4> SUFFICES ASSUME NEW i \in 1 .. Len(buffered')
                         PROVE  buffered'[i] = Sent + 1 + i
                OBVIOUS
            <4>1. i + 1 \in 1 .. Len(buffered) BY <1>4, <3>1, SMT
            <4>2. buffered'[i] = Sent + (i + 1) BY <1>3, <3>1, <4>1 DEF Feed
            <4>3. QED BY <1>4, <3>1, <4>2, SMT
        <3>4. /\ Sent + 1 + Len(buffered') = Sent + Len(buffered)
              /\ packets' = packets /\ packets \in Seq(Nat)
            BY <1>1, <1>4, <2>1, <3>1, SMT DEF PipeTypes
        <3>5. QED BY <1>3, <2>1, <3>1, <3>2, <3>3, <3>4 DEF Feed
    <2>2. CASE /\ buffered = <<>> /\ packets # <<>> /\ packets' = Tail(packets)
               /\ UNCHANGED buffered /\ wire' = Append(wire, <<current, Head(packets)>>)
        <3>1. /\ Len(packets) >= 1 /\ Head(packets) = packets[1]
              /\ packets' \in Seq(Nat) /\ Len(packets') = Len(packets) - 1
              /\ \A i \in 1 .. Len(packets') : packets'[i] = packets[i + 1]
            BY <1>1, <2>2, EmptySeq, HeadTailProperties, SMT DEF PipeTypes
        <3>2. Len(buffered) = 0 /\ Len(buffered') = 0 /\ buffered' \in Seq(Nat)
            BY <2>2, EmptySeq
        <3>3. Head(packets) = Sent + 1 BY <1>3, <1>4, <3>1, <3>2, SMT DEF Feed
        <3>4. \A i \in 1 .. Len(packets') : packets'[i] = Sent + 1 + Len(buffered') + i
            <4> SUFFICES ASSUME NEW i \in 1 .. Len(packets')
                         PROVE  packets'[i] = Sent + 1 + Len(buffered') + i
                OBVIOUS
            <4>1. i + 1 \in 1 .. Len(packets) BY <1>4, <3>1, SMT
            <4>2. packets'[i] = Sent + Len(buffered) + (i + 1) BY <1>3, <3>1, <4>1 DEF Feed
            <4>3. QED BY <1>4, <3>1, <3>2, <4>2, SMT
        <3>5. Sent + 1 + Len(buffered') + Len(packets') = Sent + Len(buffered) + Len(packets)
            BY <1>4, <3>1, <3>2, SMT
        <3>6. \A i \in 1 .. Len(buffered') : buffered'[i] = Sent + 1 + i
            BY <3>2, SMT
        <3>7. QED BY <2>2, <3>1, <3>2, <3>3, <3>4, <3>5, <3>6
    <2>3. QED BY <2>1, <2>2 DEF WritePacket
<1>6. /\ WireInv' /\ Told' = current /\ Sent' = Sent + 1
      /\ wire' \in Seq(Nat \X Nat) /\ wire' # <<>> /\ wire'[1] = wire[1]
    <2> DEFINE e == <<current, Sent + 1>>
    <2>1. e \in Nat \X Nat /\ e[1] = current /\ e[2] = Sent + 1 BY <1>4, SMT
    <2>2. Told <= e[1] /\ e[1] >= 1 /\ e[1] <= current' /\ current' \in Nat
        BY <1>0, <1>3, <1>4, <2>1, SMT
    <2>3. Follows(Last(wire), e) BY <1>3 DEF Follows, Told, Sent
    <2>4. wire' = Append(wire, e) BY <1>5
    <2> HIDE DEF e
    <2>5. QED BY <1>0, <1>1, <1>3, <2>1, <2>2, <2>3, <2>4, WireExtends
<1>7. PipeTypes' BY <1>0, <1>1, <1>5, <1>6, SMT DEF PipeTypes
<1>8. QueueInv'
    BY <1>0, <1>1, <1>3, <1>6 DEF QueueInv, InOrder, NoneMissing, Complete
<1>9. SpeakerInv' BY <1>0, <1>1, <1>3, <1>6 DEF SpeakerInv
<1>10. FeedInv'
    <2>1. Sent' + Len(buffered') + Len(packets') = Sent + Len(buffered) + Len(packets)
        BY <1>5, <1>6
    <2>2. QED BY <1>0, <1>1, <1>2, <1>3, <1>5, <1>6, <2>1 DEF FeedInv, Feed
<1>11. RestInv' BY <1>2 DEF RestInv
<1>12. QED BY <1>6, <1>7, <1>8, <1>9, <1>10, <1>11 DEF PipeInv

\* The sentence is spoken to its last packet.
LEMMA SpokenStep == ASSUME PipeInv, SentenceSpoken PROVE PipeInv'
<1>0. /\ UNCHANGED <<replier, speaker, cancelled, sentences, wire, current, ttsErr>>
      /\ UNCHANGED <<buffered, piped, packets>>
      /\ lp = "result" /\ lp' = "recv" /\ reported /\ ~speechErr /\ Sent > 0
    BY DEF SentenceSpoken, Loops, Sent
<1>1. /\ QueueInv' /\ WireInv'
      /\ PipeTypes /\ QueueInv /\ SpeakerInv /\ FeedInv /\ RestInv /\ WireInv
      /\ UNCHANGED <<sp, made, speechErr, packetsClosed, reported, doomed, whole>>
      /\ UNCHANGED <<Told, Sent, rp, plan, produced>>
    BY <1>0, LoopKeeps
<1>2. lp \in Speaking /\ lp' \notin Speaking /\ lp' \notin Leaving
      /\ lp' \in Speaking \union Leaving \union {"recv"}
    BY <1>0, SMT DEF Speaking, Leaving
<1>3. sp = "done" /\ wire # <<>> /\ Told = current /\ whole[Told] = made
    BY <1>0, <1>1, <1>2, SMT DEF SpeakerInv
<1>4. Sent = made
    <2>1. Feed BY <1>1, <1>2 DEF FeedInv
    <2>2. Len(buffered) = 0 /\ Len(packets) = 0 BY <1>0, <2>1, EmptySeq DEF Feed
    <2>3. Sent \in Nat
        <3>1. Last(wire) \in Nat \X Nat
            BY <1>1, <1>3, EmptySeq, ElementOfSeq, LenProperties, SMT DEF PipeTypes, Last
        <3>2. QED BY <3>1 DEF Sent
    <2>4. Sent + Len(buffered) + Len(packets) = made BY <1>0, <1>3, <2>1 DEF Feed
    <2>5. QED BY <2>2, <2>3, <2>4, SMT
<1>5. PipeTypes' BY <1>0, <1>1, <1>2, SMT DEF PipeTypes
<1>6. SpeakerInv' BY <1>0, <1>1, <1>2, <1>3 DEF SpeakerInv
<1>7. FeedInv' BY <1>2 DEF FeedInv
<1>8. RestInv' BY <1>0, <1>1, <1>2, <1>3, <1>4 DEF RestInv, AtRest
<1>9. QED BY <1>1, <1>5, <1>6, <1>7, <1>8 DEF PipeInv

\* Every step keeps the invariant.
LEMMA PipeNext == PipeInv /\ [Next]_vars => PipeInv'
<1> SUFFICES ASSUME PipeInv, [Next]_vars PROVE PipeInv'
    OBVIOUS
<1>1. CASE Cancel BY <1>1, QuietStep DEF Cancel, loop
<1>2. CASE LinkLost BY <1>2, QuietStep DEF LinkLost, loop
<1>3. CASE Loop
    <2>1. CASE Announce BY <2>1, AnnounceStep
    <2>2. CASE AnnounceFails BY <2>2, AnnounceFailsStep
    <2>3. CASE NoMoreSentences \/ PrebufferEnds \/ PlayEnds BY <2>3, LoopEndsStep
    <2>4. CASE Prebuffer BY <2>4, PrebufferStep
    <2>5. CASE WritePacket BY <2>5, WriteStep
    <2>6. CASE PacketFails \/ SentenceBroken
        BY <2>6, QuietStep DEF PacketFails, SentenceBroken, SpeechFails, Loops, Leaving
    <2>7. CASE SentenceSpoken BY <2>7, SpokenStep
    <2>8. CASE AwaitResult \/ TurnEnds
        BY <2>8, QuietStep DEF AwaitResult, TurnEnds, Loops, Leaving
    <2>9. QED
        BY <1>3, <2>1, <2>2, <2>3, <2>4, <2>5, <2>6, <2>7, <2>8 DEF Loop
<1>4. CASE Services
    BY <1>4, ProduceStep, ReplyEndsStep, FetchStep, SpeechEndsStep DEF Services
<1>5. CASE Handovers BY <1>5, EmitStep, ReplyEndsStep DEF Handovers
<1>6. CASE Deliveries BY <1>6, PushStep, SpeechReportsStep DEF Deliveries
<1>7. CASE UNCHANGED vars
    BY <1>7, QuietStep DEF vars, context, replier, loop, speaker
<1>8. QED BY <1>1, <1>2, <1>3, <1>4, <1>5, <1>6, <1>7 DEF Next

-----------------------------------------------------------------------------
(* What holds in every turn                                                *)

\* PipeInv is an invariant, however the services and the connection behave.
THEOREM PipeCorrect == Spec => []PipeInv
BY PipeInit, PipeNext, PTL DEF Spec

\* The toy hears each sentence in order, whole, and before the next one; only a
\* cancelled turn passes a sentence over (streamSpeechOpus(), playBufferedOpus()).
THEOREM InOrderOnTheWire == Spec => []SpokenInOrder
<1>1. PipeInv => SpokenInOrder
    BY DEF PipeInv, WireInv, Follows, SpokenInOrder
<1>2. QED BY <1>1, PipeCorrect, PTL

\* A turn recorded without an error has spoken its whole reply
\* (handleTranscript()).
THEOREM NothingLostSilently == Spec => []NoSilentLoss
<1>1. ASSUME PipeInv PROVE NoSilentLoss
    <2> SUFFICES ASSUME lp = "done", ~ttsErr, ~chatErr
                 PROVE  /\ (plan = 0) = (wire = <<>>)
                        /\ wire # <<>> => wire[1] = <<1, 0>> /\ Last(wire) = <<plan, whole[plan]>>
        BY DEF NoSilentLoss
    <2>1. AtRest /\ sentences = <<>> /\ rp = "done"
        BY <1>1 DEF PipeInv, RestInv, Leaving
    <2>2. produced = plan /\ NoneMissing
        BY <1>1, <2>1 DEF PipeInv, QueueInv, Complete
    <2>3. rp # "emit" BY <2>1, SMT
    <2>4. current = plan
        <3>1. Len(sentences) = 0 /\ current \in Nat BY <1>1, <2>1, EmptySeq, Bounds DEF PipeInv
        <3>2. QED BY <2>2, <2>3, <3>1, SMT DEF NoneMissing
    <2>5. wire = <<>> => plan = 0 BY <2>1, <2>4 DEF AtRest
    <2>6. ASSUME wire # <<>>
          PROVE  plan # 0 /\ wire[1] = <<1, 0>> /\ Last(wire) = <<plan, whole[plan]>>
        <3>1. Len(wire) \in 1 .. Len(wire) /\ Last(wire) \in Nat \X Nat
            BY <1>1, <2>6, EmptySeq, ElementOfSeq, LenProperties, SMT
            DEF PipeInv, PipeTypes, Last
        <3>2. Told = plan /\ Sent = whole[plan] BY <2>1, <2>4, <2>6 DEF AtRest
        <3>3. Told >= 1 /\ Told \in Nat BY <1>1, <3>1 DEF PipeInv, WireInv, Told, Last
        <3>4. plan # 0 BY <3>2, <3>3, SMT
        <3>5. Last(wire) = <<Told, Sent>> BY <3>1 DEF Told, Sent
        <3>6. QED BY <2>2, <2>6, <3>2, <3>4, <3>5 DEF NoneMissing
    <2>7. QED BY <2>5, <2>6, Zenon
<1>2. QED BY <1>1, PipeCorrect, PTL

-----------------------------------------------------------------------------
(* The pipeline implements the loop XiaozhiSession embeds.                 *)

\* The context is done or not.
LEMMA ContextDone == Spec => [](cancelled \in BOOLEAN)
<1>1. Init => cancelled \in BOOLEAN BY DEF Init
<1>2. cancelled \in BOOLEAN /\ [Next]_vars => (cancelled \in BOOLEAN)'
    <2> SUFFICES ASSUME cancelled \in BOOLEAN, [Next]_vars PROVE cancelled' \in BOOLEAN
        OBVIOUS
    <2>1. cancelled' = cancelled \/ cancelled' = TRUE
        <3>1. CASE Cancel BY <3>1 DEF Cancel
        <3>2. CASE LinkLost BY <3>2 DEF LinkLost
        <3>3. CASE Loop
            BY <3>3 DEF Loop, Announce, AnnounceFails, NoMoreSentences, Prebuffer,
                        PrebufferEnds, WritePacket, PacketFails, PlayEnds, SentenceSpoken,
                        SentenceBroken, AwaitResult, TurnEnds, SpeechFails
        <3>4. CASE Services
            BY <3>4 DEF Services, Produce, ReplyEnds, FetchPacket, SpeechEnds, Replies,
                        Speaks, context
        <3>5. CASE Handovers
            BY <3>5 DEF Handovers, emitSentence, SendResult, CloseSentences, Replies, context
        <3>6. CASE Deliveries
            BY <3>6 DEF Deliveries, PushPacket, ClosePackets, ReportSpeech, Speaks, context
        <3>7. CASE UNCHANGED vars BY <3>7 DEF vars, context
        <3>8. QED BY <3>1, <3>2, <3>3, <3>4, <3>5, <3>6, <3>7 DEF Next
    <2>2. QED BY <2>1
<1>3. QED BY <1>1, <1>2, PTL DEF Spec

\* The phase of the abstract loop at a place of the pipeline's loop.
PhaseOf(place, isDoomed) ==
    CASE place = "recv" -> "speak"
      [] place \in Speaking -> IF isDoomed THEN "doomed" ELSE "stream"
      [] OTHER -> "stop"

\* Which places of the loop make up which phase.
LEMMA Phases ==
    ASSUME NEW place, NEW isDoomed
    PROVE  /\ place = "recv" => PhaseOf(place, isDoomed) = "speak"
           /\ place \in Speaking =>
                  PhaseOf(place, isDoomed) = IF isDoomed THEN "doomed" ELSE "stream"
           /\ place \in Leaving => PhaseOf(place, isDoomed) = "stop"
BY DEF PhaseOf, Speaking, Leaving

\* The phase is told by the place alone.
LEMMA PhaseIs == Phase = PhaseOf(lp, doomed) /\ Phase' = PhaseOf(lp', doomed')
BY DEF Phase, PhaseOf, Speaking

\* What the steps of the two loops are told by.
AbsVars == <<Phase, plan - current, cancelled>>

\* A step that moves neither the loop nor the context stutters.
LEMMA AbstractStutters ==
    ASSUME UNCHANGED <<plan, current, cancelled, doomed>>,
           lp' = lp \/ {lp, lp'} \subseteq Speaking \/ {lp, lp'} \subseteq Leaving
    PROVE  UNCHANGED AbsVars
<1>1. Phase' = Phase BY PhaseIs, Phases
<1>2. QED BY <1>1 DEF AbsVars

\* The next sentence starts, or cannot be announced.
LEMMA StartsSentence ==
    ASSUME PipeInv, cancelled \in BOOLEAN, Announce \/ AnnounceFails
    PROVE  Abstract!Start
<1>0. /\ sentences # <<>> /\ current' = Head(sentences) /\ sentences' = Tail(sentences)
      /\ UNCHANGED replier /\ lp = "recv"
    BY DEF Announce, AnnounceFails, Loops
<1>1. PipeTypes /\ QueueInv BY DEF PipeInv
<1>2. /\ current' \in Nat /\ current' > current /\ current' <= produced
      /\ NoneMissing => current' = current + 1
    BY <1>0, <1>1, SentenceTaken
<1>3. plan \in Nat /\ produced \in Nat /\ current \in Nat /\ produced <= plan /\ plan' = plan
    BY <1>0, <1>1, Bounds DEF replier
<1>4. plan - current > 0 /\ plan' - current' \in 0 .. (plan - current - 1)
    <2>1. \A p, m, c, d \in Nat : c < d /\ d <= m /\ m <= p =>
              p - c > 0 /\ p - d \in 0 .. (p - c - 1)
        BY SMT
    <2>2. current < current' BY <1>2, <1>3, SMT
    <2>3. QED BY <1>2, <1>3, <2>1, <2>2
<1>5. ~cancelled => plan' - current' = plan - current - 1
    <2>1. ~cancelled => current' = current + 1 BY <1>1, <1>2 DEF QueueInv, Complete
    <2>2. QED BY <1>2, <1>3, <2>1, SMT
<1>6. Phase = "speak" BY <1>0, PhaseIs, Phases
<1>7. \/ Phase' = (IF cancelled THEN "doomed" ELSE "stream") /\ UNCHANGED cancelled
      \/ Phase' = "stop" /\ cancelled' = TRUE
    <2>1. CASE Announce
        <3>1. lp' \in Speaking /\ doomed' = cancelled /\ UNCHANGED cancelled
            BY <2>1 DEF Announce, Loops, Speaking
        <3>2. QED BY <3>1, PhaseIs, Phases
    <2>2. CASE AnnounceFails
        <3>1. lp' \in Leaving /\ cancelled' = TRUE
            BY <2>2 DEF AnnounceFails, Loops, Leaving
        <3>2. QED BY <3>1, PhaseIs, Phases
    <2>3. QED BY <2>1, <2>2
<1>8. QED BY <1>4, <1>5, <1>6, <1>7 DEF Abstract!Start, Abstract!Goes

\* The loop ends with the last sentence, or early in a cancelled turn.
LEMMA EndsLoop ==
    ASSUME PipeInv, NoMoreSentences
    PROVE  Abstract!End
<1>0. /\ sentences = <<>> /\ closed /\ lp = "recv" /\ lp' \in Leaving
      /\ UNCHANGED <<cancelled, current, plan>>
    BY DEF NoMoreSentences, Loops, replier, Leaving
<1>1. PipeTypes /\ QueueInv BY DEF PipeInv
<1>2. rp = "done" /\ (produced = plan \/ (cancelled /\ chatErr))
    BY <1>0, <1>1 DEF QueueInv
<1>3. ~cancelled => plan - current = 0
    <2> SUFFICES ASSUME ~cancelled PROVE plan - current = 0
        OBVIOUS
    <2>1. NoneMissing /\ produced = plan BY <1>1, <1>2 DEF QueueInv, Complete
    <2>2. Len(sentences) = 0 /\ current \in Nat /\ produced \in Nat /\ rp # "emit"
        BY <1>0, <1>1, <1>2, EmptySeq, Bounds, SMT
    <2>3. QED BY <2>1, <2>2, SMT DEF NoneMissing
<1>4. Phase = "speak" /\ Phase' = "stop" BY <1>0, PhaseIs, Phases
<1>5. QED BY <1>0, <1>3, <1>4 DEF Abstract!End, Abstract!Goes

\* A speech that was not doomed from its start is spoken.
LEMMA SpeaksSentence ==
    ASSUME PipeInv, SentenceSpoken
    PROVE  Abstract!Spoken
<1>0. /\ lp = "result" /\ lp' = "recv" /\ reported /\ ~speechErr
      /\ UNCHANGED <<cancelled, current, plan, doomed>>
    BY DEF SentenceSpoken, Loops, replier, speaker
<1>1. SpeakerInv /\ made \in Nat BY DEF PipeInv, PipeTypes
<1>2. sp = "done" BY <1>0, <1>1 DEF SpeakerInv
<1>3. made > 0 BY <1>0, <1>1, <1>2 DEF SpeakerInv
<1>4. ~doomed
    <2>1. made # 0 BY <1>1, <1>3, SMT
    <2>2. QED BY <1>1, <2>1 DEF SpeakerInv
<1>5. Phase = "stream" BY <1>0, <1>4, PhaseIs, Phases DEF Speaking
<1>6. Phase' = "speak" BY <1>0, PhaseIs, Phases
<1>7. QED BY <1>0, <1>5, <1>6 DEF Abstract!Spoken, Abstract!Goes

\* A sentence that fails ends the loop and cancels the turn.
LEMMA FailsSentence ==
    ASSUME PacketFails \/ SentenceBroken
    PROVE  Abstract!Fails
<1>0. /\ lp \in Speaking /\ lp' \in Leaving /\ cancelled' = TRUE
      /\ UNCHANGED <<current, plan>>
    BY DEF PacketFails, SentenceBroken, SpeechFails, Loops, replier, Speaking, Leaving
<1>1. Phase = "doomed" \/ Phase = "stream" BY <1>0, PhaseIs, Phases
<1>2. Phase' = "stop" BY <1>0, PhaseIs, Phases
<1>3. QED BY <1>0, <1>1, <1>2 DEF Abstract!Fails, Abstract!Goes

\* Every step of the pipeline is a step of the loop, or none.
LEMMA AbstractStep ==
    ASSUME PipeInv, cancelled \in BOOLEAN, [Next]_vars
    PROVE  [Abstract!Next]_AbsVars
<1>1. CASE Cancel
    <2>1. UNCHANGED <<lp, doomed, plan, current>> BY <1>1 DEF Cancel, loop, speaker, replier
    <2>2. Phase' = Phase BY <2>1, PhaseIs
    <2>3. QED BY <1>1, <2>1, <2>2 DEF Cancel, Abstract!Cancel, Abstract!Next
<1>2. CASE LinkLost
    BY <1>2, AbstractStutters DEF LinkLost, loop, speaker, replier
<1>3. CASE Loop
    <2>1. CASE Announce \/ AnnounceFails BY <2>1, StartsSentence DEF Abstract!Next
    <2>2. CASE NoMoreSentences BY <2>2, EndsLoop DEF Abstract!Next
    <2>3. CASE SentenceSpoken BY <2>3, SpeaksSentence DEF Abstract!Next
    <2>4. CASE PacketFails \/ SentenceBroken BY <2>4, FailsSentence DEF Abstract!Next
    <2>5. CASE Prebuffer \/ PrebufferEnds \/ WritePacket \/ PlayEnds \/ AwaitResult
        <3>1. UNCHANGED <<plan, current, cancelled, doomed>>
            BY <2>5 DEF Prebuffer, PrebufferEnds, WritePacket, PlayEnds, AwaitResult,
                        Loops, replier, speaker
        <3>2. \/ lp \in Speaking /\ lp' \in Speaking
              \/ lp \in Leaving /\ lp' \in Leaving
            BY <2>5 DEF Prebuffer, PrebufferEnds, WritePacket, PlayEnds, AwaitResult,
                        Loops, Speaking, Leaving
        <3>3. QED BY <3>1, <3>2, AbstractStutters
    <2>6. CASE TurnEnds
        <3>1. /\ UNCHANGED <<plan, current, doomed>> /\ cancelled' = TRUE
              /\ lp \in Leaving /\ lp' \in Leaving
            BY <2>6 DEF TurnEnds, Loops, replier, speaker, Leaving
        <3>2. CASE cancelled BY <3>1, <3>2, AbstractStutters
        <3>3. CASE ~cancelled
            <4>1. Phase' = Phase BY <3>1, PhaseIs, Phases
            <4>2. QED BY <3>1, <3>3, <4>1 DEF Abstract!Cancel, Abstract!Next
        <3>4. QED BY <3>2, <3>3
    <2>7. QED BY <1>3, <2>1, <2>2, <2>3, <2>4, <2>5, <2>6 DEF Loop
<1>4. CASE Services
    BY <1>4, AbstractStutters DEF Services, Produce, ReplyEnds, FetchPacket, SpeechEnds,
        Replies, Speaks, context, loop, speaker, replier
<1>5. CASE Handovers
    BY <1>5, AbstractStutters DEF Handovers, emitSentence, SendResult, CloseSentences,
        Replies, context, loop, speaker
<1>6. CASE Deliveries
    BY <1>6, AbstractStutters DEF Deliveries, PushPacket, ClosePackets, ReportSpeech,
        Speaks, context, loop, replier
<1>7. CASE UNCHANGED vars
    BY <1>7, AbstractStutters DEF vars, context, replier, loop, speaker
<1>8. QED BY <1>1, <1>2, <1>3, <1>4, <1>5, <1>6, <1>7 DEF Next

\* The sentence loop of a connection, with its goroutines, channels and packets,
\* behaves as the loop that XiaozhiSession embeds.
THEOREM LoopImplemented == Spec => ImplementsLoop
<1>1. Init => Abstract!Init
    <2> SUFFICES ASSUME Init PROVE Abstract!Init
        OBVIOUS
    <2>1. plan \in 0 .. MaxSentences /\ plan - current = plan /\ cancelled = FALSE
        BY PipelineAssumption, SMT DEF Init
    <2>2. Phase = "speak" BY PhaseIs, Phases DEF Init
    <2>3. QED BY <2>1, <2>2 DEF Abstract!Init
<1>2. PipeInv /\ cancelled \in BOOLEAN /\ [Next]_vars => [Abstract!Next]_(Abstract!vars)
    BY AbstractStep DEF AbsVars, Abstract!vars
<1>3. QED BY <1>1, <1>2, PipeCorrect, ContextDone, PTL DEF Spec, ImplementsLoop, Abstract!Spec
=============================================================================
