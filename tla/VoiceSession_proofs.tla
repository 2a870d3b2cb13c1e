------------------------- MODULE VoiceSession_proofs -------------------------
(***************************************************************************)
(* What VoicePlayback guarantees for every length of a response and every  *)
(* size of the buffer and its thresholds, what VoiceDetector guarantees    *)
(* for every length of its ring, its silences and its buffer, and that     *)
(* both keep their guarantees in the session that uses them.               *)
(***************************************************************************)
EXTENDS VoiceSession, TLAPS

-----------------------------------------------------------------------------
(* One reply                                                               *)

\* The part of the types that needs arithmetic; FlagsOK is the other.
Counted ==
    /\ error \in {Ok, Fail} /\ result \in {Ok, Fail} /\ transport \in {Ok, Fail}
    /\ hp \in {"receive", "send", "assign", "finish", "wait", "returned"}
    /\ pb \in {"prebuffer", "complete", "open", "check", "write", "empty", "rebuffer",
               "close", "ended"}
    /\ lines \in 0..MaxLines /\ audio \in 0..MaxLines
    /\ sent \in 0..MaxLines /\ taken \in 0..MaxLines /\ played \in 0..MaxLines
    /\ taken <= sent /\ Available <= Capacity
    /\ SentOnce

\* The two parts make up the type invariant and its strengthening.
LEMMA TypeParts == TypeOK /\ SentOnce <=> FlagsOK /\ Counted
BY DEF TypeOK, Counted

\* The initial state has its types and nothing in hand.
LEMMA InitSafe == Init => FlagsOK /\ Counted
<1> SUFFICES ASSUME Init PROVE FlagsOK /\ Counted
    OBVIOUS
<1>1. FlagsOK BY Zenon DEF Init, FlagsOK
<1>2. Counted
    BY PlaybackAssumption, SMT DEF Init, Counted, SentOnce, InHand, Available, Ok, Fail
<1>3. QED BY <1>1, <1>2

\* Flags stay flags.
LEMMA FlagsStep == FlagsOK /\ [Next]_vars => FlagsOK'
<1> SUFFICES ASSUME FlagsOK, [Next]_vars PROVE FlagsOK'
    OBVIOUS
<1> USE DEF FlagsOK, HTTP, Plays, http, playback
<1>1. CASE Response BY <1>1, Zenon DEF Response, Drop, AudioLine, DoneLine, BadLine
<1>2. CASE Send \/ SendTimeout \/ Assign BY <1>2, Zenon DEF Send, SendTimeout, Assign
<1>3. CASE PerformEnds
    <2>1. broken' \in BOOLEAN BY <1>3, Zenon DEF PerformEnds
    <2>2. QED BY <2>1, <1>3, Zenon DEF PerformEnds
<1>4. CASE Finish \/ Return BY <1>4, Zenon DEF Finish, Return
<1>5. CASE Prebuffered \/ Completed BY <1>5, Zenon DEF Prebuffered, Completed
<1>6. CASE Open BY <1>6, Zenon DEF Open
<1>7. CASE Receive BY <1>7, Zenon DEF Receive
<1>8. CASE Empty \/ Rebuffered BY <1>8, Zenon DEF Empty, Rebuffered
<1>9. CASE Write \/ Close BY <1>9, Zenon DEF Write, Close
<1>10. CASE UNCHANGED vars BY <1>10, Zenon DEF vars
<1>11. QED
    BY <1>1, <1>2, <1>3, <1>4, <1>5, <1>6, <1>7, <1>8, <1>9, <1>10
    DEF Next, HTTPTask, PlaybackTask

\* The HTTP task never puts more into the buffer than there is room for, nor a
\* line that did not come; the playback takes only what is in it.
LEMMA CountedStep == Counted /\ [Next]_vars => Counted'
<1> SUFFICES ASSUME Counted, [Next]_vars PROVE Counted'
    OBVIOUS
<1> USE PlaybackAssumption
    DEF Counted, SentOnce, InHand, Available, Ok, Fail, HTTP, Plays, AnotherLine, http, playback
<1>1. CASE Drop BY <1>1, SMT DEF Drop
<1>2. CASE AudioLine BY <1>2, SMT DEF AudioLine
<1>3. CASE DoneLine BY <1>3, SMT DEF DoneLine
<1>4. CASE BadLine BY <1>4, SMT DEF BadLine
<1>5. CASE Send BY <1>5, SMT DEF Send
<1>6. CASE SendTimeout BY <1>6, SMT DEF SendTimeout
<1>7. CASE Assign BY <1>7, SMT DEF Assign
<1>8. CASE PerformEnds BY <1>8, SMT DEF PerformEnds
<1>9. CASE Finish BY <1>9, SMT DEF Finish
<1>10. CASE Return BY <1>10, SMT DEF Return
<1>11. CASE Prebuffered BY <1>11, SMT DEF Prebuffered
<1>12. CASE Completed BY <1>12, SMT DEF Completed
<1>13. CASE Open BY <1>13, SMT DEF Open
<1>14. CASE Receive BY <1>14, SMT DEF Receive
<1>15. CASE Empty BY <1>15, SMT DEF Empty
<1>16. CASE Rebuffered BY <1>16, SMT DEF Rebuffered
<1>17. CASE Write BY <1>17, SMT DEF Write
<1>18. CASE Close BY <1>18, SMT DEF Close
<1>19. CASE UNCHANGED vars BY <1>19, SMT DEF vars
<1>20. QED
    BY <1>1, <1>2, <1>3, <1>4, <1>5, <1>6, <1>7, <1>8, <1>9, <1>10, <1>11, <1>12, <1>13,
       <1>14, <1>15, <1>16, <1>17, <1>18, <1>19
    DEF Next, Response, HTTPTask, PlaybackTask

\* The buffer holds no more than its storage, nor less than was taken from it,
\* whatever the response, the codec and the scheduler do (xStreamBufferSend()).
THEOREM TypeCorrect == Spec => []TypeOK
<1>1. Init => FlagsOK /\ Counted BY InitSafe
<1>2. FlagsOK /\ Counted /\ [Next]_vars => (FlagsOK /\ Counted)' BY FlagsStep, CountedStep
<1>3. FlagsOK /\ Counted => TypeOK BY TypeParts
<1>4. QED BY <1>1, <1>2, <1>3, PTL DEF Spec

-----------------------------------------------------------------------------
\* A notification is the last thing the playback does.
LEMMA NotifiedStep == NotifiedLast /\ [Next]_vars => NotifiedLast'
<1> SUFFICES ASSUME NotifiedLast, [Next]_vars PROVE NotifiedLast'
    OBVIOUS
<1> USE DEF NotifiedLast, Returned, HTTP, Plays, http, playback
<1>1. CASE Response BY <1>1 DEF Response, Drop, AudioLine, DoneLine, BadLine
<1>2. CASE HTTPTask
    BY <1>2 DEF HTTPTask, Send, SendTimeout, Assign, PerformEnds, Finish, Return
<1>3. CASE Prebuffered \/ Completed BY <1>3 DEF Prebuffered, Completed
<1>4. CASE Open \/ Receive BY <1>4 DEF Open, Receive
<1>5. CASE Empty \/ Rebuffered BY <1>5 DEF Empty, Rebuffered
<1>6. CASE Write \/ Close BY <1>6 DEF Write, Close
<1>7. CASE UNCHANGED vars BY <1>7 DEF vars
<1>8. QED BY <1>1, <1>2, <1>3, <1>4, <1>5, <1>6, <1>7 DEF Next, PlaybackTask

\* StreamVoiceReply() frees the buffer's storage and returns only when the
\* playback task has ended.
THEOREM StorageOutlivesPlayback == Spec => []PlaybackEndsFirst
<1>1. Init => NotifiedLast BY DEF Init, NotifiedLast, Returned
<1>2. NotifiedLast => PlaybackEndsFirst BY DEF NotifiedLast, PlaybackEndsFirst
<1>3. QED BY <1>1, <1>2, NotifiedStep, PTL DEF Spec

-----------------------------------------------------------------------------
\* While nothing fails, a step of either task neither loses a line nor ends the
\* playback early.
LEMMA CleanStep == FlagsOK /\ Counted /\ CleanSoFar /\ [Next]_vars => CleanSoFar'
<1> SUFFICES ASSUME FlagsOK, Counted, CleanSoFar, [Next]_vars, ~broken' PROVE CleanSoFar'
    BY DEF CleanSoFar
<1> USE PlaybackAssumption
    DEF FlagsOK, Counted, SentOnce, CleanSoFar, InHand, Available, Ok, Fail, HTTP, Plays,
        AnotherLine, http, playback
<1>1. CASE Drop BY <1>1, SMT DEF Drop
<1>2. CASE AudioLine BY <1>2, SMT DEF AudioLine
<1>3. CASE DoneLine BY <1>3, SMT DEF DoneLine
<1>4. CASE BadLine BY <1>4, SMT DEF BadLine
<1>5. CASE Send BY <1>5, SMT DEF Send
<1>6. CASE SendTimeout BY <1>6, SMT DEF SendTimeout
<1>7. CASE Assign BY <1>7, SMT DEF Assign
<1>8. CASE PerformEnds
    <2>1. ~broken /\ transport' = Ok BY <1>8, Zenon DEF PerformEnds
    <2>2. hp = "receive" /\ hp' = "finish" BY <1>8, Zenon DEF PerformEnds
    <2>3. UNCHANGED <<error, producerDone, result, sent, audio, playback>>
        BY <1>8, Zenon DEF PerformEnds
    <2>4. QED BY <2>1, <2>2, <2>3, SMT
<1>9. CASE Finish BY <1>9, SMT DEF Finish
<1>10. CASE Return BY <1>10, SMT DEF Return
<1>11. CASE Prebuffered BY <1>11, SMT DEF Prebuffered
<1>12. CASE Completed BY <1>12, SMT DEF Completed
<1>13. CASE Open BY <1>13, SMT DEF Open
<1>14. CASE Receive BY <1>14, SMT DEF Receive
<1>15. CASE Empty BY <1>15, SMT DEF Empty
<1>16. CASE Rebuffered BY <1>16, SMT DEF Rebuffered
<1>17. CASE Write BY <1>17, SMT DEF Write
<1>18. CASE Close BY <1>18, SMT DEF Close
<1>19. CASE UNCHANGED vars BY <1>19, SMT DEF vars
<1>20. QED
    BY <1>1, <1>2, <1>3, <1>4, <1>5, <1>6, <1>7, <1>8, <1>9, <1>10, <1>11, <1>12, <1>13,
       <1>14, <1>15, <1>16, <1>17, <1>18, <1>19
    DEF Next, Response, HTTPTask, PlaybackTask

\* A complete reply of which nothing failed was played to its last line when
\* StreamVoiceReply() returns, and is reported as played: an empty buffer ends
\* PlaybackTask() only after the producer.
THEOREM CleanReplyIsPlayed == Spec => []CleanReplyPlayed
<1> DEFINE Inv == FlagsOK /\ Counted /\ NotifiedLast /\ CleanSoFar
<1>1. Init => Inv
    <2> SUFFICES ASSUME Init PROVE NotifiedLast /\ CleanSoFar
        BY InitSafe
    <2>1. NotifiedLast BY DEF Init, NotifiedLast, Returned
    <2>2. CleanSoFar BY SMT DEF Init, CleanSoFar, InHand, Available
    <2>3. QED BY <2>1, <2>2
<1>2. Inv /\ [Next]_vars => Inv' BY FlagsStep, CountedStep, NotifiedStep, CleanStep
<1>3. Inv => CleanReplyPlayed
    BY SMT DEF Counted, NotifiedLast, CleanSoFar, CleanReplyPlayed, Success, Returned,
               InHand, Available
<1>4. QED BY <1>1, <1>2, <1>3, PTL DEF Spec

-----------------------------------------------------------------------------
(* Listening                                                               *)

DetectorTypes ==
    /\ capture \in {"off", "listening", "speech", "timeout", "canceled"}
    /\ wait \in Nat /\ recording \in [Positions -> Nat] /\ recorded \in Nat
    /\ listened \in Nat /\ preRoll \in 0..PreRoll /\ preRollWrite \in 0..(PreRoll - 1)
    /\ consecutive \in Nat /\ active \in Nat /\ quiet \in Nat
    /\ onset \in Nat /\ lastActive \in Nat

FlagOK == speechStarted \in BOOLEAN

\* A ring with len frames, the newest of which is number n, written next at w.
RingOf(rec, n, len, w) ==
    /\ len < PreRoll => w = len /\ \A i \in 0..(len - 1) : rec[i] = n - len + 1 + i
    /\ len = PreRoll => \A i \in 0..(PreRoll - 1) :
                           rec[i] = IF i < w THEN n - w + 1 + i ELSE n - w - PreRoll + 1 + i

\* A recording of len consecutive frames, the newest of which is number n.
PieceOf(rec, n, len) == \A i \in 0..(len - 1) : rec[i] = n - len + 1 + i

Waiting == capture = "listening" /\ ~speechStarted
Speaking == capture = "listening" /\ speechStarted

BeforeSpeech == Waiting =>
    /\ RingOf(recording, listened, preRoll, preRollWrite) /\ preRoll <= listened
    /\ recorded = 0 /\ consecutive <= preRoll /\ consecutive < StartFrames
    /\ consecutive > 0 => onset = listened - consecutive + 1 /\ lastActive = listened
    /\ \/ listened < wait
       \/ consecutive = 0 /\ listened <= wait + MaxFrames - StartFrames

InSpeech == Speaking =>
    /\ PieceOf(recording, listened, recorded)
    /\ StartFrames <= recorded /\ recorded <= MaxFrames /\ recorded <= listened
    /\ listened - recorded + 1 <= onset /\ onset <= lastActive
    /\ lastActive = listened - quiet /\ quiet < EndSilence
    /\ listened <= wait + recorded - StartFrames

Off == capture = "off" =>
    /\ listened = 0 /\ recorded = 0 /\ preRoll = 0 /\ preRollWrite = 0
    /\ consecutive = 0 /\ speechStarted = FALSE

Over == capture \in {"speech", "timeout", "canceled"} =>
    /\ listened <= wait + MaxFrames /\ recorded <= MaxFrames

DetectorInv ==
    /\ DetectorTypes /\ FlagOK
    /\ BeforeSpeech /\ InSpeech /\ Off /\ Over /\ CapturedWhole

\* The position after the last one of the ring is its first one.
LEMMA WriteWraps ==
    ASSUME preRollWrite \in 0..(PreRoll - 1)
    PROVE  NextWrite = IF preRollWrite + 1 = PreRoll THEN 0 ELSE preRollWrite + 1
BY DetectorAssumption, SMT DEF NextWrite

\* Writing the next frame keeps the ring a ring (kVADPreRollSamples).
LEMMA RingRolls ==
    ASSUME DetectorTypes, RingOf(recording, listened, preRoll, preRollWrite)
    PROVE  /\ RingOf(Rolled, listened + 1, RollLength, NextWrite)
           /\ RollLength \in 0..PreRoll /\ NextWrite \in 0..(PreRoll - 1)
           /\ Rolled \in [Positions -> Nat]
<1> USE DetectorAssumption DEF DetectorTypes, Positions
<1>0. NextWrite = IF preRollWrite + 1 = PreRoll THEN 0 ELSE preRollWrite + 1
    BY WriteWraps
<1>1. RollLength \in 0..PreRoll /\ NextWrite \in 0..(PreRoll - 1)
    BY <1>0, SMT DEF RollLength
<1>2. Rolled \in [Positions -> Nat] BY SMT DEF Rolled
<1>3. ASSUME NEW i \in 0..(PreRoll - 1)
      PROVE Rolled[i] = IF i = preRollWrite THEN listened + 1 ELSE recording[i]
    BY <1>3, SMT DEF Rolled
<1>4. CASE preRoll + 1 < PreRoll
    <2>1. RollLength = preRoll + 1 /\ NextWrite = preRoll + 1 /\ preRollWrite = preRoll
        BY <1>0, <1>4, SMT DEF RollLength, RingOf
    <2>2. ASSUME NEW i \in 0..preRoll
          PROVE  Rolled[i] = (listened + 1) - (preRoll + 1) + 1 + i
        BY <1>3, <1>4, <2>1, SMT DEF RingOf
    <2>3. QED BY <1>1, <1>2, <1>4, <2>1, <2>2, SMT DEF RingOf
<1>5. CASE preRoll + 1 = PreRoll
    <2>1. RollLength = PreRoll /\ NextWrite = 0 /\ preRollWrite = preRoll
        BY <1>0, <1>5, SMT DEF RollLength, RingOf
    <2>2. ASSUME NEW i \in 0..(PreRoll - 1)
          PROVE  Rolled[i] = (listened + 1) - PreRoll + 1 + i
        BY <1>3, <1>5, <2>1, SMT DEF RingOf
    <2>3. QED BY <1>1, <1>2, <1>5, <2>1, <2>2, SMT DEF RingOf
<1>6. CASE preRoll = PreRoll
    <2>1. RollLength = PreRoll BY <1>6, SMT DEF RollLength
    <2>2. ASSUME NEW i \in 0..(PreRoll - 1)
          PROVE  Rolled[i] = IF i < NextWrite THEN (listened + 1) - NextWrite + 1 + i
                             ELSE (listened + 1) - NextWrite - PreRoll + 1 + i
        <3>1. recording[i] = IF i < preRollWrite THEN listened - preRollWrite + 1 + i
                             ELSE listened - preRollWrite - PreRoll + 1 + i
            BY <1>6, Zenon DEF RingOf
        <3>2. CASE preRollWrite + 1 = PreRoll BY <1>0, <1>3, <3>1, <3>2, SMT
        <3>3. CASE preRollWrite + 1 # PreRoll BY <1>0, <1>3, <3>1, <3>3, SMT
        <3>4. QED BY <3>2, <3>3
    <2>3. QED BY <1>1, <1>2, <1>6, <2>1, <2>2, SMT DEF RingOf
<1>7. QED BY <1>4, <1>5, <1>6, SMT

\* The rotation puts the frames of a full ring in order.
LEMMA RotationOrders ==
    ASSUME DetectorTypes, RingOf(recording, listened, preRoll, preRollWrite)
    PROVE  PieceOf(Unrolled, listened + 1, RollLength) /\ Unrolled \in [Positions -> Nat]
<1> USE DetectorAssumption DEF DetectorTypes, Positions
<1>1. /\ RingOf(Rolled, listened + 1, RollLength, NextWrite)
      /\ RollLength \in 0..PreRoll /\ NextWrite \in 0..(PreRoll - 1)
      /\ Rolled \in [Positions -> Nat]
    BY RingRolls
<1>2. CASE RollLength = PreRoll /\ NextWrite # 0
    <2>1. Unrolled \in [Positions -> Nat] BY <1>1, <1>2, SMT DEF Unrolled
    <2>2. ASSUME NEW i \in 0..(PreRoll - 1)
          PROVE  Unrolled[i] = IF i < PreRoll - NextWrite THEN Rolled[i + NextWrite]
                              ELSE Rolled[i - (PreRoll - NextWrite)]
        <3>1. i \in Positions /\ i < PreRoll BY SMT
        <3>2. QED BY <1>2, <3>1, Zenon DEF Unrolled
    <2>3. ASSUME NEW i \in 0..(PreRoll - 1)
          PROVE  Unrolled[i] = (listened + 1) - PreRoll + 1 + i
        <3>1. CASE i < PreRoll - NextWrite BY <1>1, <1>2, <2>2, <3>1, SMT DEF RingOf
        <3>2. CASE ~(i < PreRoll - NextWrite)
            <4> DEFINE j == i - (PreRoll - NextWrite)
            <4>1. j \in 0..(PreRoll - 1) /\ j < NextWrite BY <1>1, <3>2, SMT
            <4>2. Rolled[j] = (listened + 1) - NextWrite + 1 + j
                BY <1>1, <1>2, <4>1, Zenon DEF RingOf
            <4>3. Unrolled[i] = Rolled[j] BY <2>2, <3>2
            <4>4. QED BY <1>1, <4>1, <4>2, <4>3, SMT
        <3>3. QED BY <3>1, <3>2
    <2>4. QED BY <1>2, <2>1, <2>3 DEF PieceOf
<1>3. CASE ~(RollLength = PreRoll /\ NextWrite # 0)
    <2>1. Unrolled = Rolled BY <1>3 DEF Unrolled
    <2>2. PieceOf(Rolled, listened + 1, RollLength)
        BY <1>1, <1>3, SMT DEF RingOf, PieceOf
    <2>3. QED BY <1>1, <2>1, <2>2
<1>4. QED BY <1>2, <1>3
-----------------------------------------------------------------------------
\* Before speech, a frame either starts it or is waited past.
LEMMA PreRollStep ==
    ASSUME DetectorInv, NEW heard \in BOOLEAN, SpeechStarts(heard) \/ StillWaiting(heard)
    PROVE  DetectorTypes' /\ BeforeSpeech' /\ InSpeech' /\ Off' /\ Over' /\ CapturedWhole'
<1> USE DetectorAssumption
<1>1. capture = "listening" /\ speechStarted = FALSE /\ DetectorTypes /\ wait' = wait
    BY DEF SpeechStarts, StillWaiting, PreRolls, Listening, DetectorInv, FlagOK
<1>2. /\ RingOf(recording, listened, preRoll, preRollWrite) /\ preRoll <= listened
      /\ recorded = 0 /\ consecutive <= preRoll /\ consecutive < StartFrames
      /\ consecutive > 0 => onset = listened - consecutive + 1 /\ lastActive = listened
      /\ \/ listened < wait
         \/ consecutive = 0 /\ listened <= wait + MaxFrames - StartFrames
    BY <1>1 DEF DetectorInv, BeforeSpeech, Waiting
<1>3. /\ RingOf(Rolled, listened + 1, RollLength, NextWrite)
      /\ RollLength \in 0..PreRoll /\ NextWrite \in 0..(PreRoll - 1)
      /\ Rolled \in [Positions -> Nat]
    BY <1>1, <1>2, RingRolls
<1>4. PieceOf(Unrolled, listened + 1, RollLength) /\ Unrolled \in [Positions -> Nat]
    BY <1>1, <1>2, RotationOrders
<1>5. /\ listened' = listened + 1 /\ preRollWrite' = NextWrite /\ preRoll' = RollLength
      /\ consecutive' = ActiveRun(heard)
      /\ onset' = IF ~heard THEN 0 ELSE IF consecutive = 0 THEN listened + 1 ELSE onset
      /\ lastActive' = IF heard THEN listened + 1 ELSE lastActive
    BY DEF SpeechStarts, StillWaiting, PreRolls, Listening
<1>6. /\ ActiveRun(heard) \in Nat /\ ActiveRun(heard) <= RollLength
      /\ ActiveRun(heard) <= consecutive + 1 /\ RollLength <= listened + 1
      /\ ActiveRun(heard) > 0 =>
            /\ heard /\ onset' = (listened + 1) - ActiveRun(heard) + 1
            /\ lastActive' = listened + 1
    <2>1. CASE heard
        BY <1>1, <1>2, <1>5, <2>1, SMT DEF DetectorTypes, ActiveRun, RollLength
    <2>2. CASE ~heard
        BY <1>1, <1>2, <1>5, <2>2, SMT DEF DetectorTypes, ActiveRun, RollLength
    <2>3. QED BY <2>1, <2>2
<1>7. onset' \in Nat /\ lastActive' \in Nat
    BY <1>1, <1>5, SMT DEF DetectorTypes
<1>8. CASE SpeechStarts(heard)
    <2>1. /\ ActiveRun(heard) >= StartFrames /\ recording' = Unrolled
          /\ recorded' = RollLength /\ speechStarted' = TRUE
          /\ active' = ActiveRun(heard) /\ quiet' = 0 /\ capture' = "listening"
        BY <1>1, <1>8 DEF SpeechStarts
    <2>2. DetectorTypes'
        BY <1>1, <1>3, <1>4, <1>5, <1>6, <1>7, <2>1, SMT DEF DetectorTypes, Positions
    <2>3. listened < wait BY <1>1, <1>2, <1>6, <2>1, SMT DEF DetectorTypes
    <2>4. PieceOf(recording', listened', recorded') BY <1>4, <1>5, <2>1
    <2>5. InSpeech'
        BY <1>1, <1>2, <1>3, <1>5, <1>6, <2>1, <2>3, <2>4, SMT
        DEF InSpeech, Speaking, DetectorTypes
    <2>6. BeforeSpeech' /\ Off' /\ Over' /\ CapturedWhole'
        BY <2>1 DEF BeforeSpeech, Waiting, Off, Over, CapturedWhole
    <2>7. QED BY <2>2, <2>5, <2>6
<1>9. CASE StillWaiting(heard)
    <2>1. /\ ActiveRun(heard) < StartFrames /\ recording' = Rolled /\ recorded' = 0
          /\ capture' = IF listened + 1 >= wait THEN "timeout" ELSE "listening"
          /\ UNCHANGED <<active, quiet>> /\ speechStarted' = FALSE
        BY <1>1, <1>9 DEF StillWaiting
    <2>2. DetectorTypes'
        <3>1. capture' \in {"timeout", "listening"} BY <2>1
        <3>2. QED
            BY <1>1, <1>3, <1>5, <1>6, <1>7, <2>1, <3>1, SMT DEF DetectorTypes, Positions
    <2>3. RingOf(recording', listened', preRoll', preRollWrite') BY <1>3, <1>5, <2>1
    <2>4. CASE listened + 1 >= wait
        <3>1. capture' = "timeout" BY <2>1, <2>4
        <3>2. listened' <= wait' + MaxFrames /\ recorded' <= MaxFrames
            BY <1>1, <1>2, <1>5, <2>1, SMT DEF DetectorTypes
        <3>3. QED
            BY <2>2, <3>1, <3>2
            DEF BeforeSpeech, InSpeech, Waiting, Speaking, Off, Over, CapturedWhole
    <2>5. CASE ~(listened + 1 >= wait)
        <3>1. capture' = "listening" BY <2>1, <2>5
        <3>2. listened' < wait' BY <1>1, <1>5, <2>5, SMT DEF DetectorTypes
        <3>3. BeforeSpeech'
            BY <1>1, <1>5, <1>6, <2>1, <2>3, <3>2, SMT DEF BeforeSpeech, DetectorTypes
        <3>4. QED
            BY <2>1, <2>2, <3>1, <3>3 DEF InSpeech, Speaking, Off, Over, CapturedWhole
    <2>6. QED BY <2>4, <2>5
<1>10. QED BY <1>8, <1>9

\* In speech, a frame is appended, ends it, or is one too many; a sound too
\* short for speech leaves an empty ring.
LEMMA SpeechStep ==
    ASSUME DetectorInv, NEW heard \in BOOLEAN,
           Full \/ Appends(heard) \/ Ignored(heard) \/ SpeechEnds(heard)
    PROVE  DetectorTypes' /\ BeforeSpeech' /\ InSpeech' /\ Off' /\ Over' /\ CapturedWhole'
<1> USE DetectorAssumption
<1>1. /\ capture = "listening" /\ speechStarted = TRUE /\ DetectorTypes
      /\ wait' = wait /\ listened' = listened + 1
    BY DEF Full, Appends, Ignored, SpeechEnds, Records, Listening, DetectorInv, FlagOK
<1>2. /\ PieceOf(recording, listened, recorded)
      /\ StartFrames <= recorded /\ recorded <= MaxFrames /\ recorded <= listened
      /\ listened - recorded + 1 <= onset /\ onset <= lastActive
      /\ lastActive = listened - quiet /\ quiet < EndSilence
      /\ listened <= wait + recorded - StartFrames
    BY <1>1 DEF DetectorInv, InSpeech, Speaking
<1>3. ASSUME Records(heard)
      PROVE  /\ recorded + 1 <= MaxFrames /\ recording' \in [Positions -> Nat]
             /\ PieceOf(recording', listened + 1, recorded + 1)
             /\ lastActive' \in Nat /\ lastActive' = listened + 1 - QuietRun(heard)
             /\ onset <= lastActive' /\ QuietRun(heard) \in Nat /\ ActiveTotal(heard) \in Nat
    <2>1. /\ recorded + 1 <= MaxFrames
          /\ recording' = [recording EXCEPT ![recorded] = listened + 1]
          /\ lastActive' = IF heard THEN listened + 1 ELSE lastActive
        BY <1>3 DEF Records
    <2>2. recording' \in [Positions -> Nat] /\ recorded \in Positions
        BY <1>1, <2>1, SMT DEF DetectorTypes, Positions
    <2>3. ASSUME NEW i \in 0..recorded
          PROVE  recording'[i] = (listened + 1) - (recorded + 1) + 1 + i
        <3>1. i \in Positions BY <1>1, <2>1, SMT DEF DetectorTypes, Positions
        <3>2. recording'[i] = IF i = recorded THEN listened + 1 ELSE recording[i]
            BY <1>1, <2>1, <3>1 DEF DetectorTypes
        <3>3. i # recorded => recording[i] = listened - recorded + 1 + i
            BY <1>1, <1>2, SMT DEF DetectorTypes, PieceOf
        <3>4. QED BY <1>1, <3>2, <3>3, SMT DEF DetectorTypes
    <2>4. PieceOf(recording', listened + 1, recorded + 1)
        BY <1>1, <2>3, SMT DEF PieceOf, DetectorTypes
    <2>5. /\ lastActive' \in Nat /\ lastActive' = listened + 1 - QuietRun(heard)
          /\ onset <= lastActive' /\ QuietRun(heard) \in Nat /\ ActiveTotal(heard) \in Nat
        <3>1. CASE heard
            BY <1>1, <1>2, <2>1, <3>1, SMT DEF DetectorTypes, QuietRun, ActiveTotal
        <3>2. CASE ~heard
            BY <1>1, <1>2, <2>1, <3>2, SMT DEF DetectorTypes, QuietRun, ActiveTotal
        <3>3. QED BY <3>1, <3>2
    <2>6. QED BY <2>1, <2>2, <2>4, <2>5
<1>4. CASE Full
    <2>1. /\ UNCHANGED <<recording, preRoll, preRollWrite, consecutive, active, quiet,
                         speechStarted, onset, lastActive>>
          /\ recorded + 1 > MaxFrames
          /\ \/ capture' = "timeout" /\ recorded' = 0
             \/ capture' = "speech" /\ recorded' = recorded
        BY <1>4 DEF Full, counts
    <2>2. capture' \in {"timeout", "speech"} BY <2>1
    <2>3. recorded = MaxFrames BY <1>1, <1>2, <2>1, SMT DEF DetectorTypes
    <2>4. DetectorTypes' BY <1>1, <2>1, <2>2, SMT DEF DetectorTypes
    <2>5. listened' <= wait' + MaxFrames /\ recorded' <= MaxFrames
        BY <1>1, <1>2, <2>1, <2>3, SMT DEF DetectorTypes
    <2>6. CapturedWhole'
        <3>1. SUFFICES ASSUME capture' = "speech" PROVE CapturedWhole'
            BY DEF CapturedWhole
        <3>2. recorded' = recorded /\ UNCHANGED <<recording, onset, lastActive>>
            BY <2>1, <3>1
        <3>3. ASSUME NEW i \in 0..(recorded - 1)
              PROVE  recording[i] = listened - recorded + 1 + i
            BY <1>2 DEF PieceOf
        <3>4. 1 <= recorded BY <1>1, <1>2, SMT DEF DetectorTypes
        <3>5. recording[0] = listened - recorded + 1 /\ recording[recorded - 1] = listened
            BY <1>1, <3>3, <3>4, SMT DEF DetectorTypes
        <3>6. \A i \in 0..(recorded - 1) : recording[i] = recording[0] + i
            BY <1>1, <3>3, <3>5, SMT DEF DetectorTypes
        <3>7. recording[0] <= onset /\ lastActive <= recording[recorded - 1]
            BY <1>1, <1>2, <3>5, SMT DEF DetectorTypes
        <3>8. QED BY <2>3, <3>2, <3>4, <3>6, <3>7, SMT DEF CapturedWhole
    <2>7. QED
        BY <2>2, <2>4, <2>5, <2>6 DEF BeforeSpeech, InSpeech, Waiting, Speaking, Off, Over
<1>5. CASE Appends(heard)
    <2>1. /\ Records(heard) /\ QuietRun(heard) < EndSilence /\ recorded' = recorded + 1
          /\ active' = ActiveTotal(heard) /\ quiet' = QuietRun(heard)
          /\ UNCHANGED <<capture, preRoll, preRollWrite, consecutive, speechStarted, onset>>
        BY <1>5 DEF Appends
    <2>2. DetectorTypes' BY <1>1, <1>3, <2>1, SMT DEF DetectorTypes
    <2>3. PieceOf(recording', listened', recorded') BY <1>1, <1>3, <2>1
    <2>4. /\ StartFrames <= recorded' /\ recorded' <= MaxFrames /\ recorded' <= listened'
          /\ listened' - recorded' + 1 <= onset' /\ onset' <= lastActive'
          /\ lastActive' = listened' - quiet' /\ quiet' < EndSilence
          /\ listened' <= wait' + recorded' - StartFrames
        BY <1>1, <1>2, <1>3, <2>1, SMT DEF DetectorTypes
    <2>5. QED
        BY <1>1, <2>1, <2>2, <2>3, <2>4
        DEF InSpeech, BeforeSpeech, Waiting, Off, Over, CapturedWhole
<1>6. CASE Ignored(heard)
    <2>1. /\ Records(heard) /\ recorded' = 0 /\ speechStarted' = FALSE /\ preRoll' = 0
          /\ preRollWrite' = 0 /\ consecutive' = 0 /\ active' = 0 /\ quiet' = 0
          /\ onset' = 0 /\ capture' = "listening"
        BY <1>1, <1>6 DEF Ignored
    <2>2. DetectorTypes' BY <1>1, <1>3, <2>1, SMT DEF DetectorTypes
    <2>3. RingOf(recording', listened', preRoll', preRollWrite')
        BY <2>1, SMT DEF RingOf
    <2>4. preRoll' <= listened' /\ listened' <= wait' + MaxFrames - StartFrames
        BY <1>1, <1>2, <1>3, <2>1, SMT DEF DetectorTypes
    <2>5. consecutive' <= preRoll' /\ consecutive' < StartFrames /\ ~(consecutive' > 0)
        BY <2>1, SMT
    <2>6. QED
        BY <2>1, <2>2, <2>3, <2>4, <2>5
        DEF BeforeSpeech, InSpeech, Speaking, Off, Over, CapturedWhole
<1>7. CASE SpeechEnds(heard)
    <2> DEFINE removable == QuietRun(heard) - Trailing
    <2>1. /\ Records(heard) /\ QuietRun(heard) >= EndSilence
          /\ recorded' = IF removable < recorded + 1 THEN recorded + 1 - removable ELSE 0
          /\ active' = ActiveTotal(heard) /\ quiet' = QuietRun(heard) /\ capture' = "speech"
          /\ UNCHANGED <<preRoll, preRollWrite, consecutive, speechStarted, onset>>
        BY <1>7 DEF SpeechEnds
    <2>0. /\ recorded + 1 <= MaxFrames /\ QuietRun(heard) \in Nat
          /\ lastActive' = listened + 1 - QuietRun(heard) /\ onset <= lastActive'
        BY <1>3, <2>1
    <2>2. removable \in Int /\ removable < recorded + 1 /\ removable >= 0
        BY <1>1, <1>2, <2>0, <2>1, SMT DEF DetectorTypes
    <2>3. recorded' = recorded + 1 - removable /\ recorded' \in Nat
        BY <1>1, <1>3, <2>1, <2>2, SMT DEF DetectorTypes
    <2>4. DetectorTypes' BY <1>1, <1>3, <2>1, <2>3, SMT DEF DetectorTypes
    <2>5. listened' <= wait' + MaxFrames /\ recorded' <= MaxFrames
        <3> HIDE DEF removable
        <3>1. listened + 1 <= wait + MaxFrames
            BY <1>1, <1>2, <2>0, SMT DEF DetectorTypes
        <3>2. QED BY <1>1, <2>0, <2>2, <2>3, <3>1, SMT DEF DetectorTypes
    <2>6. CapturedWhole'
        <3>1. ASSUME NEW i \in 0..recorded
              PROVE  recording'[i] = (listened + 1) - (recorded + 1) + 1 + i
            BY <1>1, <1>3, <2>1, SMT DEF PieceOf, DetectorTypes
        <3>2. 1 <= recorded' /\ recorded' <= recorded + 1
            <4> HIDE DEF removable
            <4>1. QED BY <1>1, <2>2, <2>3, SMT DEF DetectorTypes
        <3>3. /\ recording'[0] = listened - recorded + 1
              /\ recording'[recorded' - 1] = listened - recorded + recorded'
            BY <1>1, <2>3, <3>1, <3>2, SMT DEF DetectorTypes
        <3>4. \A i \in 0..(recorded' - 1) : recording'[i] = recording'[0] + i
            BY <1>1, <2>3, <3>1, <3>2, <3>3, SMT DEF DetectorTypes
        <3>5. recording'[0] <= onset'
            <4>1. onset' = onset BY <2>1
            <4>2. QED BY <1>1, <1>2, <3>3, <4>1, SMT DEF DetectorTypes
        <3>6. recording'[recorded' - 1] = lastActive' + Trailing
            BY <1>1, <1>3, <2>1, <2>3, <3>3, SMT DEF DetectorTypes
        <3>7. lastActive' <= recording'[recorded' - 1]
            BY <1>3, <2>1, <3>6, SMT
        <3>8. QED BY <2>5, <3>2, <3>4, <3>5, <3>6, <3>7 DEF CapturedWhole
    <2>7. QED
        BY <2>1, <2>4, <2>5, <2>6 DEF BeforeSpeech, InSpeech, Waiting, Speaking, Off, Over
<1>8. QED BY <1>4, <1>5, <1>6, <1>7

\* Every step sets the detector's flag to a truth value.
LEMMA FlagStep == DetectorInv /\ [DetectorNext]_ear => FlagOK'
<1> SUFFICES ASSUME FlagOK, [DetectorNext]_ear PROVE FlagOK'
    BY DEF DetectorInv
<1> USE DEF FlagOK
<1>1. ASSUME NEW heard \in BOOLEAN, Frame(heard) PROVE FlagOK'
    BY <1>1, Zenon
    DEF Frame, SpeechStarts, StillWaiting, Full, Appends, Ignored, SpeechEnds
<1>2. QED BY <1>1, Zenon DEF DetectorNext, Listen, Cancel, Forget, ear

\* Nothing the microphone, the child or the caller does breaks the invariant.
LEMMA DetectorStep == DetectorInv /\ [DetectorNext]_ear => DetectorInv'
<1> SUFFICES ASSUME DetectorInv, [DetectorNext]_ear PROVE DetectorInv'
    OBVIOUS
<1> USE DetectorAssumption
<1>0. FlagOK' BY FlagStep
<1> DEFINE Rest == DetectorTypes /\ BeforeSpeech /\ InSpeech /\ Off /\ Over /\ CapturedWhole
<1>1. ASSUME NEW limit \in Nat \ {0}, Listen(limit) PROVE Rest'
    <2>1. /\ capture = "off" /\ capture' = "listening" /\ wait' = limit
          /\ UNCHANGED <<recording, recorded, listened, preRoll, preRollWrite, consecutive,
                         active, quiet, speechStarted, onset, lastActive>>
        BY <1>1 DEF Listen, counts
    <2>2. /\ listened = 0 /\ recorded = 0 /\ preRoll = 0 /\ preRollWrite = 0
          /\ consecutive = 0 /\ speechStarted = FALSE /\ DetectorTypes
        BY <2>1 DEF DetectorInv, Off
    <2>3. DetectorTypes' BY <2>1, <2>2, SMT DEF DetectorTypes
    <2>4. RingOf(recording', listened', preRoll', preRollWrite')
        BY <2>1, <2>2, SMT DEF RingOf
    <2>5. /\ preRoll' <= listened' /\ recorded' = 0 /\ consecutive' <= preRoll'
          /\ consecutive' < StartFrames /\ ~(consecutive' > 0) /\ listened' < wait'
        BY <2>1, <2>2, SMT
    <2>6. QED
        BY <2>1, <2>2, <2>3, <2>4, <2>5
        DEF BeforeSpeech, InSpeech, Speaking, Off, Over, CapturedWhole
<1>2. ASSUME NEW heard \in BOOLEAN, Frame(heard) PROVE Rest'
    BY <1>2, PreRollStep, SpeechStep DEF Frame
<1>3. CASE Cancel
    <2>1. /\ capture = "listening" /\ capture' = "canceled" /\ recorded' = 0
          /\ UNCHANGED <<wait, recording, listened, preRoll, preRollWrite, consecutive,
                         active, quiet, speechStarted, onset, lastActive>>
        BY <1>3 DEF Cancel, counts
    <2>2. DetectorTypes' BY <2>1, SMT DEF DetectorInv, DetectorTypes
    <2>3. listened <= wait + MaxFrames
        <3>1. CASE speechStarted
            BY <2>1, <3>1, SMT DEF DetectorInv, DetectorTypes, InSpeech, Speaking
        <3>2. CASE ~speechStarted
            BY <2>1, <3>2, SMT DEF DetectorInv, DetectorTypes, BeforeSpeech, Waiting
        <3>3. QED BY <3>1, <3>2
    <2>4. listened' <= wait' + MaxFrames /\ recorded' <= MaxFrames BY <2>1, <2>3, SMT
    <2>5. capture' # "listening" /\ capture' # "off" /\ capture' # "speech" BY <2>1
    <2>6. BeforeSpeech' /\ InSpeech' BY <2>5 DEF BeforeSpeech, InSpeech, Waiting, Speaking
    <2>7. Off' /\ CapturedWhole' BY <2>5 DEF Off, CapturedWhole
    <2>8. Over' BY <2>4 DEF Over
    <2>9. QED BY <1>0, <2>2, <2>6, <2>7, <2>8 DEF DetectorInv
<1>4. CASE Forget
    <2>1. DetectorTypes' BY <1>4, SMT DEF Forget, DetectorTypes, Positions
    <2>2. /\ capture' = "off" /\ listened' = 0 /\ recorded' = 0 /\ preRoll' = 0
          /\ preRollWrite' = 0 /\ consecutive' = 0 /\ speechStarted' = FALSE
        BY <1>4 DEF Forget
    <2>3. capture' # "listening" /\ capture' # "speech" /\ Over'
        BY <2>2 DEF Over
    <2>4. BeforeSpeech' /\ InSpeech' BY <2>3 DEF BeforeSpeech, InSpeech, Waiting, Speaking
    <2>5. Off' /\ CapturedWhole' BY <2>2, <2>3 DEF Off, CapturedWhole
    <2>6. QED BY <1>0, <2>1, <2>3, <2>4, <2>5 DEF DetectorInv
<1>5. CASE UNCHANGED ear
    <2> USE <1>5 DEF ear, counts, DetectorInv
    <2>0. FlagOK' BY <1>0
    <2>1. DetectorTypes' BY Zenon DEF DetectorTypes
    <2>2. BeforeSpeech' BY Zenon DEF BeforeSpeech, Waiting, RingOf
    <2>3. InSpeech' BY Zenon DEF InSpeech, Speaking, PieceOf
    <2>4. Off' /\ Over' BY Zenon DEF Off, Over
    <2>5. CapturedWhole' BY SMT DEF CapturedWhole
    <2>6. QED BY <2>0, <2>1, <2>2, <2>3, <2>4, <2>5
<1>6. QED BY <1>0, <1>1, <1>2, <1>3, <1>4, <1>5 DEF DetectorNext, DetectorInv

\* A detector starts with nothing heard.
LEMMA DetectorStarts == DetectorInit => DetectorInv
<1> SUFFICES ASSUME DetectorInit PROVE DetectorInv
    OBVIOUS
<1>1. DetectorTypes BY DetectorAssumption, SMT DEF DetectorInit, DetectorTypes, Positions
<1>2. QED
    BY <1>1
    DEF DetectorInit, DetectorInv, FlagOK, BeforeSpeech, InSpeech, Waiting, Speaking, Off,
        Over, CapturedWhole

\* Its counts bound how long it listens.
LEMMA DetectorBounded == DetectorInv => ListeningBounded
<1> SUFFICES ASSUME DetectorInv PROVE ListeningBounded
    OBVIOUS
<1> USE DetectorAssumption DEF DetectorInv, DetectorTypes
<1>1. CASE Waiting BY <1>1, SMT DEF BeforeSpeech, ListeningBounded
<1>2. CASE Speaking BY <1>2, SMT DEF InSpeech, ListeningBounded
<1>3. CASE capture = "off" BY <1>3, SMT DEF Off, ListeningBounded
<1>4. CASE capture \in {"speech", "timeout", "canceled"}
    BY <1>4 DEF Over, ListeningBounded
<1>5. QED BY <1>1, <1>2, <1>3, <1>4 DEF Waiting, Speaking

-----------------------------------------------------------------------------
\* Every step of the main task is one of the detector's or leaves it alone.
LEMMA SessionHears == [SessionNext]_board => [DetectorNext]_ear
<1> SUFFICES ASSUME [SessionNext]_board PROVE [DetectorNext]_ear
    OBVIOUS
<1>1. CASE PressK2 \/ K2Held \/ K2Released BY <1>1 DEF PressK2, K2Held, K2Released
<1>2. CASE StartListening
    <2>1. (IF followUp THEN FollowupWait ELSE InitialWait) \in Nat \ {0}
        BY SessionAssumption
    <2>2. QED BY <1>2, <2>1 DEF StartListening, DetectorNext
<1>3. ASSUME NEW heard \in BOOLEAN, Hears(heard) PROVE [DetectorNext]_ear
    BY <1>3 DEF Hears, DetectorNext
<1>4. CASE K2Cancels BY <1>4 DEF K2Cancels, DetectorNext
<1>5. CASE Canceled \/ FirstTimeout \/ FollowUpTimeout \/ Upload \/ Reboot
    BY <1>5 DEF Canceled, FirstTimeout, FollowUpTimeout, Upload, Reboot, DetectorNext
<1>6. CASE Heard \/ Plays_ \/ ReplyOver \/ FarewellOver
    BY <1>6 DEF Heard, Plays_, ReplyOver, FarewellOver
<1>7. CASE UNCHANGED board BY <1>7 DEF board
<1>8. QED
    BY <1>1, <1>2, <1>3, <1>4, <1>5, <1>6, <1>7 DEF SessionNext, MainTask, Listens

\* Every session's detector keeps the detector's invariant.
LEMMA SessionDetects == SessionSpec => []DetectorInv
<1>1. SessionInit => DetectorInv BY DetectorStarts DEF SessionInit
<1>2. DetectorInv /\ [SessionNext]_board => DetectorInv' BY SessionHears, DetectorStep
<1>3. QED BY <1>1, <1>2, PTL DEF SessionSpec

\* What is uploaded is one piece of what was heard, from its first loud frame to its
\* last one, for every size of the ring and every pattern of sound and silence: the
\* ring is rotated when it is full, and only then (CaptureAutomaticUtterance()).
THEOREM SpeechIsCapturedWhole == SessionSpec => []CapturedWhole
<1>1. DetectorInv => CapturedWhole BY DEF DetectorInv
<1>2. QED BY <1>1, SessionDetects, PTL

\* Listening ends within the wait and one recording, and never exceeds its buffer:
\* an ignored sound gives nothing back of the wait (wait_limit_samples).
THEOREM ListeningEnds == SessionSpec => []ListeningBounded
BY SessionDetects, DetectorBounded, PTL

-----------------------------------------------------------------------------
PlaybackInv == FlagsOK /\ Counted /\ NotifiedLast /\ CleanSoFar

\* A step of the session is one of the playback, or begins or clears a reply.
LEMMA SessionPlays == [SessionNext]_board => [Next]_vars \/ StartReply \/ NoReply
<1> SUFFICES ASSUME [SessionNext]_board PROVE [Next]_vars \/ StartReply \/ NoReply
    OBVIOUS
<1>1. CASE PressK2 \/ K2Held \/ K2Released \/ StartListening \/ Listens \/ K2Cancels
    BY <1>1 DEF PressK2, K2Held, K2Released, StartListening, Listens, Hears, K2Cancels
<1>2. CASE Canceled \/ FirstTimeout \/ FollowUpTimeout \/ Upload \/ Heard
    BY <1>2 DEF Canceled, FirstTimeout, FollowUpTimeout, Upload, Heard
<1>3. CASE Plays_ BY <1>3 DEF Plays_, Next
<1>4. CASE ReplyOver \/ FarewellOver \/ Reboot
    BY <1>4 DEF ReplyOver, FarewellOver, Reboot
<1>5. CASE UNCHANGED board BY <1>5 DEF board
<1>6. QED BY <1>1, <1>2, <1>3, <1>4, <1>5 DEF SessionNext, MainTask

\* Playback begins afresh in every turn.
LEMMA FreshPlayback == StartReply \/ NoReply => PlaybackInv'
<1> SUFFICES ASSUME StartReply \/ NoReply PROVE PlaybackInv'
    OBVIOUS
<1> USE DEF FreshReply
<1>1. FlagsOK' BY Zenon DEF StartReply, NoReply, FlagsOK
<1>2. Counted'
    <2> USE PlaybackAssumption DEF Counted, SentOnce, InHand, Available, Ok, Fail
    <2>1. CASE StartReply BY <2>1, SMT DEF StartReply
    <2>2. CASE NoReply BY <2>2, SMT DEF NoReply
    <2>3. QED BY <2>1, <2>2
<1>3. NotifiedLast' BY DEF StartReply, NoReply, NotifiedLast, Returned
<1>4. CleanSoFar'
    BY PlaybackAssumption, SMT DEF StartReply, NoReply, CleanSoFar, InHand, Available
<1>5. QED BY <1>1, <1>2, <1>3, <1>4 DEF PlaybackInv

\* Every session's playback keeps the playback's invariant.
LEMMA SessionPlayback == SessionSpec => []PlaybackInv
<1>1. SessionInit => PlaybackInv
    <2> SUFFICES ASSUME SessionInit PROVE PlaybackInv
        OBVIOUS
    <2>1. FlagsOK BY Zenon DEF SessionInit, FlagsOK
    <2>2. Counted
        BY PlaybackAssumption, SMT
        DEF SessionInit, Counted, SentOnce, InHand, Available, Ok, Fail
    <2>3. NotifiedLast BY DEF SessionInit, NotifiedLast, Returned
    <2>4. CleanSoFar
        BY PlaybackAssumption, SMT DEF SessionInit, CleanSoFar, InHand, Available
    <2>5. QED BY <2>1, <2>2, <2>3, <2>4 DEF PlaybackInv
<1>2. PlaybackInv /\ [SessionNext]_board => PlaybackInv'
    BY SessionPlays, FreshPlayback, FlagsStep, CountedStep, NotifiedStep, CleanStep
    DEF PlaybackInv
<1>3. QED BY <1>1, <1>2, PTL DEF SessionSpec

\* In a session of any number of turns, no recording is started and no buffer freed
\* while a reply plays: whatever ended the turn before, StreamVoiceReply() has
\* waited for its playback.
THEOREM TurnsDoNotOverlap == SessionSpec => []PlaybackEndsFirst
<1>1. PlaybackInv => PlaybackEndsFirst
    BY DEF PlaybackInv, NotifiedLast, PlaybackEndsFirst
<1>2. QED BY <1>1, SessionPlayback, PTL

\* A complete reply is played whole in every turn: nothing of an earlier reply is
\* left in the state the tasks share (state = {}).
THEOREM EveryReplyIsPlayed == SessionSpec => []CleanReplyPlayed
<1>1. PlaybackInv => CleanReplyPlayed
    BY SMT DEF PlaybackInv, Counted, NotifiedLast, CleanSoFar, CleanReplyPlayed, Success,
               Returned, InHand, Available
<1>2. QED BY <1>1, SessionPlayback, PTL
=============================================================================
