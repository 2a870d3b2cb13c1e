--------------------------- MODULE ToyPage_proofs ---------------------------
(***************************************************************************)
(* What the child's page guarantees for any number of presses.             *)
(***************************************************************************)
EXTENDS ToyPage, TLAPS

\* What a press is in the middle of, once its recording has stopped.
Active == {"stopping", "asking", "fetchFile", "playFile", "fetchSpeech",
           "playSpeech", "browser"}

Flags == recording \in BOOLEAN /\ meter \in BOOLEAN

\* The part of TypeOK that the presses depend on.
PageTypes ==
    /\ phase \in {"idle", "listening", "thinking", "speaking"}
    /\ held \subseteq Presses /\ hasty \subseteq Presses
    /\ presses \in 0 .. MaxPresses /\ recorder \in 0 .. presses
    /\ mic \in [Presses -> {"off", "asked", "open", "live", "leaked"}]
    /\ stage \in [Presses -> Active \union {"none", "done"}]
    /\ recorder # 0 => mic[recorder] = "live"

\* Only a press that was made has a microphone or a chain.
Begun == \A p \in Presses : mic[p] # "off" \/ stage[p] # "none" => p <= presses

PageInv == Flags /\ PageTypes /\ RecordingIsTimed /\ Begun

Busy == {"thinking", "speaking"}

\* Without haste only one thing goes on: a press that waits for its microphone
\* is held and no other waits, a live microphone is the one being recorded, and
\* one chain at most is on its way, for which the page is busy.
OneAtATime ==
    /\ \A p \in Waiting : p \in held /\ ~recording /\ phase \notin Busy
    /\ \A p, q \in Waiting : p = q
    /\ \A p \in Presses : mic[p] = "live" => recording /\ recorder = p
    /\ recording => phase = "listening"
    /\ \A p \in Presses : stage[p] \in Active =>
           phase \in Busy /\ \A q \in Presses : stage[q] \in Active => q = p

CalmInv == PageInv /\ (hasty = {} => OneAtATime)

-----------------------------------------------------------------------------
\* The page starts with nothing going on.
LEMMA CalmStart ==
    ASSUME Init
    PROVE  CalmInv
<1> USE PageAssumption DEF Init, Presses, Active
<1>1. Flags /\ PageTypes
    <2>1. Flags BY DEF Flags
    <2>2. PageTypes BY SMT DEF PageTypes
    <2>3. QED BY <2>1, <2>2
<1>2. RecordingIsTimed /\ Begun BY DEF RecordingIsTimed, Begun
<1>3. OneAtATime BY DEF OneAtATime, Waiting
<1>4. QED BY <1>1, <1>2, <1>3 DEF CalmInv, PageInv

\* A press that begins while another waits is haste.
LEMMA StartStep ==
    ASSUME CalmInv, startRecording
    PROVE  CalmInv'
<1>1. CASE UNCHANGED vars
    BY <1>1, SMT DEF vars, button, CalmInv, PageInv, Flags, PageTypes, RecordingIsTimed,
        Begun, OneAtATime, Waiting
<1>2. CASE ~ UNCHANGED vars
    <2> DEFINE p == presses + 1
    <2>1. /\ ~busy /\ ~recording /\ presses < MaxPresses
          /\ presses' = p /\ held' = held \union {p}
          /\ mic' = [mic EXCEPT ![p] = "asked"]
          /\ hasty' = IF Waiting = {} THEN hasty ELSE hasty \union Waiting \union {p}
          /\ UNCHANGED <<phase, recording, recorder, meter, stage>>
        BY <1>2 DEF startRecording
    <2>2. Flags /\ PageTypes /\ Begun BY DEF CalmInv, PageInv
    <2>3. p \in Presses /\ Waiting \subseteq Presses
        BY <2>1, <2>2, PageAssumption, SMT DEF PageTypes, Presses, Waiting
    <2>4. PageTypes'
        <3>1. held' \subseteq Presses /\ hasty' \subseteq Presses
            BY <2>1, <2>2, <2>3 DEF PageTypes
        <3>2. QED
            BY <2>1, <2>2, <2>3, <3>1, PageAssumption, SMT DEF PageTypes, Presses
    <2>5. Flags' /\ RecordingIsTimed' BY <2>1, <2>2 DEF Flags, RecordingIsTimed
    <2>6. Begun'
        BY <2>1, <2>2, <2>3, PageAssumption, SMT DEF PageTypes, Begun, Presses
    <2>7. ASSUME hasty' = {} PROVE OneAtATime'
        <3>1. Waiting = {} /\ hasty = {} BY <2>1, <2>7
        <3>2. \A q \in Presses : mic'[q] = IF q = p THEN "asked" ELSE mic[q]
            BY <2>1, <2>2, <2>3 DEF PageTypes
        <3>3. Waiting' = {p} BY <2>3, <3>1, <3>2 DEF Waiting
        <3>4. phase \notin Busy BY <2>1 DEF busy, Busy
        <3>5. OneAtATime BY <3>1 DEF CalmInv
        <3>6. QED BY <2>1, <3>2, <3>3, <3>4, <3>5 DEF OneAtATime
    <2>8. QED BY <2>4, <2>5, <2>6, <2>7 DEF CalmInv, PageInv
<1>3. QED BY <1>1, <1>2

\* Stopping does nothing, or ends the recording of the press in the state.
LEMMA StopCases ==
    ASSUME CalmInv, stopRecording, UNCHANGED <<presses, streaming>>,
           held' \subseteq held, hasty' \subseteq Presses, hasty \subseteq hasty',
           hasty' = {} => \A p \in Waiting : p \in held => p \in held'
    PROVE  CalmInv'
<1>1. CASE recording /\ recorder # 0
    <2>1. recorder \in Presses
        BY <1>1, PageAssumption, SMT
        DEF CalmInv, PageInv, Flags, PageTypes, Presses, Active, Busy
    <2>2. /\ recorder' = 0 /\ recording' = FALSE /\ meter' = FALSE /\ phase' = "thinking"
          /\ mic' = [mic EXCEPT ![recorder] = "off"]
          /\ stage' = [stage EXCEPT ![recorder] = "stopping"]
        BY <1>1 DEF stopRecording
    <2>3. PageTypes /\ Begun BY DEF CalmInv, PageInv
    <2>4. Flags' BY <2>2 DEF Flags
    <2>5. PageTypes'
        BY <2>1, <2>2, <2>3, PageAssumption, SMT DEF PageTypes, Active
    <2>6. RecordingIsTimed' BY <2>2 DEF RecordingIsTimed
    <2>7. recorder <= presses
        BY <2>3, PageAssumption, SMT DEF PageTypes
    <2>8. Begun'
        BY <2>1, <2>2, <2>3, <2>7, SMT DEF PageTypes, Begun
    <2>9. ASSUME hasty' = {} PROVE OneAtATime'
        BY <1>1, <2>1, <2>9, PageAssumption, SMT
        DEF stopRecording, CalmInv, PageInv, Flags, PageTypes,
            OneAtATime, Waiting, Active, Busy, Presses
    <2>10. QED BY <2>4, <2>5, <2>6, <2>8, <2>9 DEF CalmInv, PageInv
<1>2. CASE ~(recording /\ recorder # 0)
    <2>1. UNCHANGED <<recorder, recording, meter, phase, mic, stage, answered>>
        BY <1>2 DEF stopRecording
    <2>2. PageInv'
        BY <2>1, PageAssumption, SMT DEF CalmInv, PageInv, Flags, PageTypes,
            RecordingIsTimed, Begun, Presses
    <2>3. ASSUME hasty' = {} PROVE OneAtATime'
        <3>1. Waiting' = Waiting BY <2>1 DEF Waiting
        <3>2. OneAtATime BY <2>3 DEF CalmInv
        <3>3. QED BY <2>1, <2>3, <3>1, <3>2 DEF OneAtATime
    <2>4. QED BY <2>2, <2>3 DEF CalmInv
<1>3. QED BY <1>1, <1>2

\* A lifted finger is haste if a press still waits.
LEMMA ReleaseStep ==
    ASSUME CalmInv, Release
    PROVE  CalmInv'
<1>1. PICK f \in held \union {None} :
          held' = held \ {f} /\ hasty' = hasty \union (Waiting \intersect {f})
    BY DEF Release
<1>2. held' \subseteq held /\ hasty' \subseteq Presses /\ hasty \subseteq hasty'
    BY <1>1 DEF CalmInv, PageInv, PageTypes, Waiting
<1>3. hasty' = {} => \A p \in Waiting : p \in held => p \in held'
    BY <1>1
<1>4. stopRecording /\ UNCHANGED <<presses, streaming>> BY DEF Release
<1>5. QED BY <1>2, <1>3, <1>4, StopCases

\* The timer stops a recording, and nobody lifts a finger.
LEMMA TimeStep ==
    ASSUME CalmInv, TimeIsUp
    PROVE  CalmInv'
<1>1. stopRecording /\ UNCHANGED <<held, presses, streaming, hasty>>
    BY DEF TimeIsUp, button
<1>2. held' \subseteq held /\ hasty' \subseteq Presses
    BY <1>1 DEF CalmInv, PageInv, PageTypes
<1>3. QED BY <1>1, <1>2, StopCases

\* What becomes of a press that asked for its microphone.
LEMMA MicStep ==
    ASSUME CalmInv, NEW p \in Presses,
           MicGranted(p) \/ RecorderStarts(p) \/ CaptureFails(p) \/ MicFails(p)
    PROVE  CalmInv'
<1> USE PageAssumption
<1>1. CASE MicGranted(p)
    BY <1>1, SMT
    DEF MicGranted, button, CalmInv, PageInv, Flags, PageTypes, RecordingIsTimed, Begun,
        OneAtATime, Waiting, Presses, Active, Busy
<1>2. CASE RecorderStarts(p)
    BY <1>2, SMT
    DEF RecorderStarts, button, CalmInv, PageInv, Flags, PageTypes, RecordingIsTimed,
        Begun, OneAtATime, Waiting, Presses, Active, Busy
<1>3. CASE CaptureFails(p)
    <2>1. p <= presses /\ Flags /\ PageTypes /\ Begun
        BY <1>3, SMT DEF CaptureFails, CalmInv, PageInv, Begun
    <2>2. Flags'
        BY <1>3, <2>1 DEF CaptureFails, button, Flags
    <2>3. PageTypes'
        BY <1>3, <2>1, SMT DEF CaptureFails, button, PageTypes, Active, Presses
    <2>4. RecordingIsTimed' BY <1>3 DEF CaptureFails, RecordingIsTimed
    <2>5. Begun'
        BY <1>3, <2>1, SMT DEF CaptureFails, button, PageTypes, Begun
    <2>6. ASSUME hasty' = {} PROVE OneAtATime'
        BY <1>3, <2>1, <2>6, SMT DEF CaptureFails, button, CalmInv,
            PageTypes, OneAtATime, Waiting, Active, Busy
    <2>7. QED BY <2>2, <2>3, <2>4, <2>5, <2>6 DEF CalmInv, PageInv
<1>4. CASE MicFails(p)
    <2>1. p <= presses /\ Flags /\ PageTypes /\ Begun
        BY <1>4, SMT DEF MicFails, NoRecorder, CalmInv, PageInv, Begun
    <2>2. Flags'
        BY <1>4, <2>1 DEF MicFails, NoRecorder, button, Flags
    <2>3. PageTypes'
        BY <1>4, <2>1, SMT DEF MicFails, NoRecorder, button, PageTypes, Active, Presses
    <2>4. RecordingIsTimed' BY <1>4 DEF MicFails, NoRecorder, RecordingIsTimed
    <2>5. Begun'
        BY <1>4, <2>1, SMT DEF MicFails, NoRecorder, button, PageTypes, Begun
    <2>6. ASSUME hasty' = {} PROVE OneAtATime'
        BY <1>4, <2>1, <2>6, SMT DEF MicFails, NoRecorder, button, CalmInv,
            PageTypes, OneAtATime, Waiting, Active, Busy
    <2>7. QED BY <2>2, <2>3, <2>4, <2>5, <2>6 DEF CalmInv, PageInv
<1>5. QED BY <1>1, <1>2, <1>3, <1>4

\* A chain moves on within its press, and keeps the page busy until it is done.
LEMMA ChainMoves ==
    ASSUME CalmInv, NEW p \in Presses, NEW from \in Active, NEW to \in Active \union {"done"},
           Moves(p, from, to), answered' = answered \/ answered' = answered \union {p},
           phase' = phase \/ phase' \in Busy \/ (to = "done" /\ phase' = "idle"),
           to = "done" => phase' = "idle"
    PROVE  CalmInv'
<1>1. PageInv'
    BY PageAssumption, SMT
    DEF Moves, button, CalmInv, PageInv, Flags, PageTypes, RecordingIsTimed,
        Begun, Presses, Active, Busy
<1>2. ASSUME hasty' = {} PROVE OneAtATime'
    <2>1. /\ hasty = {} /\ UNCHANGED <<held, recording, recorder, mic>>
          /\ stage' = [stage EXCEPT ![p] = to] /\ stage[p] \in Active
        BY <1>2 DEF Moves, button
    <2>2. /\ phase \in Busy /\ OneAtATime
          /\ stage \in [Presses -> Active \union {"none", "done"}]
        BY <2>1, SMT DEF CalmInv, PageInv, Flags, PageTypes, OneAtATime, Waiting, Active, Busy
    <2>3. ~recording BY <2>2, SMT DEF OneAtATime, Waiting, Busy
    <2>4. \A q \in Presses : mic[q] \notin {"asked", "open"} BY <2>2 DEF OneAtATime, Waiting
    <2>5. \A q \in Presses : stage[q] \in Active => q = p
        BY <2>1, <2>2 DEF OneAtATime, Waiting
    <2>6. \A q \in Presses : stage'[q] \in Active => q = p /\ to # "done"
        BY <2>1, <2>2, <2>5, SMT DEF Active
    <2>7. to # "done" => phase' \in Busy BY <2>2
    <2>8. QED BY <2>1, <2>2, <2>3, <2>4, <2>6, <2>7 DEF OneAtATime, Waiting
<1>3. QED BY <1>1, <1>2 DEF CalmInv

\* Every step of a chain is such a move.
LEMMA ChainStep ==
    ASSUME CalmInv, NEW p \in Presses, Chain(p)
    PROVE  CalmInv'
<1> USE DEF Active, Busy
<1> DEFINE Step(from, to) ==
        /\ Moves(p, from, to)
        /\ answered' = answered \/ answered' = answered \union {p}
        /\ phase' = phase \/ phase' \in Busy \/ (to = "done" /\ phase' = "idle")
        /\ to = "done" => phase' = "idle"
<1>1. ASSUME NEW from \in Active, NEW to \in Active \union {"done"}, Step(from, to)
      PROVE  CalmInv'
    BY <1>1, ChainMoves
<1>2. ASSUME NEW from \in Active, speakStatus(p, from) PROVE CalmInv'
    <2>1. Step(from, "fetchSpeech") BY <1>2 DEF speakStatus
    <2>2. QED BY <2>1, <1>1
<1>3. CASE sendRecording(p)
    <2>1. speakStatus(p, "stopping") \/ Step("stopping", "asking")
        BY <1>3 DEF sendRecording
    <2>2. QED BY <2>1, <1>1, <1>2
<1>4. CASE VoiceAnswers(p)
    <2>1. speakStatus(p, "asking") \/ Step("asking", "fetchFile") \/ Step("asking", "fetchSpeech")
        BY <1>4 DEF VoiceAnswers
    <2>2. QED BY <2>1, <1>1, <1>2
<1>5. CASE FetchFile(p)
    <2>1. speakStatus(p, "fetchFile") \/ Step("fetchFile", "playFile")
        BY <1>5 DEF FetchFile
    <2>2. QED BY <2>1, <1>1, <1>2
<1>6. CASE FetchSpeech(p)
    <2>1. Step("fetchSpeech", "playSpeech") \/ Step("fetchSpeech", "browser")
        BY <1>6 DEF FetchSpeech
    <2>2. QED BY <2>1, <1>1
<1>7. CASE PlaybackEnds(p)
    <2>1. \/ Step("playFile", "done") \/ Step("playSpeech", "done") \/ Step("browser", "done")
          \/ speakStatus(p, "playFile") \/ Step("playSpeech", "browser")
        BY <1>7 DEF PlaybackEnds, Finish
    <2>2. QED BY <2>1, <1>1, <1>2
<1>8. QED BY <1>3, <1>4, <1>5, <1>6, <1>7 DEF Chain

\* No step of the page breaks the invariant.
LEMMA CalmKept ==
    ASSUME CalmInv, [Next]_vars
    PROVE  CalmInv'
<1>1. CASE UNCHANGED vars
    BY <1>1, SMT DEF vars, button, CalmInv, PageInv, Flags, PageTypes, RecordingIsTimed, Begun,
        OneAtATime, Waiting, Active, Busy
<1>2. CASE Rests BY <1>1, <1>2 DEF Rests
<1>3. CASE startRecording BY <1>3, StartStep
<1>4. CASE Release BY <1>4, ReleaseStep
<1>5. CASE TimeIsUp BY <1>5, TimeStep
<1>6. ASSUME NEW p \in Presses,
             MicGranted(p) \/ RecorderStarts(p) \/ CaptureFails(p) \/ MicFails(p)
      PROVE  CalmInv'
    BY <1>6, MicStep
<1>7. ASSUME NEW p \in Presses, Chain(p) PROVE CalmInv'
    BY <1>7, ChainStep
<1>8. QED BY <1>1, <1>2, <1>3, <1>4, <1>5, <1>6, <1>7 DEF Next

\* Presses that wait alone and with the finger down never overlap later either,
\* whatever fails on the page.
THEOREM AlwaysCalm == Spec => []CalmInv
BY CalmStart, CalmKept, PTL DEF Spec

-----------------------------------------------------------------------------
\* A recording in progress has a live microphone and the timer that stops it,
\* whatever other presses do (startRecording(), stopRecording()).
THEOREM RecordingsEnd == Spec => []RecordingIsTimed
<1>1. CalmInv => RecordingIsTimed BY DEF CalmInv, PageInv
<1>2. QED BY <1>1, AlwaysCalm, PTL

\* No microphone is on while a reply is played, but for the track of a recorder
\* that failed, if every press waits for its microphone alone and with its finger
\* down, whatever fails on the page.
THEOREM MicIsOffInReplies == Spec => []MicOffUnlessHasty
<1>1. ASSUME CalmInv, hasty = {}, answered \intersect Playing # {}, NEW q \in Live
      PROVE  mic[q] = "leaked"
    <2>1. PICK p \in Presses : stage[p] \in Active
        BY <1>1 DEF Playing, Active
    <2>2. OneAtATime BY <1>1 DEF CalmInv
    <2>3. phase \in Busy BY <2>1, <2>2 DEF OneAtATime
    <2>4. ~recording BY <2>2, <2>3, SMT DEF OneAtATime, Busy
    <2>5. QED BY <1>1, <2>2, <2>3, <2>4 DEF OneAtATime, Live, Waiting
<1>2. CalmInv => MicOffUnlessHasty
    BY <1>1 DEF MicOffUnlessHasty
<1>3. QED BY <1>2, AlwaysCalm, PTL
=============================================================================
