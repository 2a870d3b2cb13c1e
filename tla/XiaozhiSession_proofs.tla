----------------------- MODULE XiaozhiSession_proofs ------------------------
(***************************************************************************)
(* Proofs about a toy's connection: about XiaozhiSession, for every        *)
(* timeout, channel capacity, length of reply and number of device         *)
(* messages, and about DeviceVolume, the connection's volume, for every    *)
(* range of it and number of commands.                                     *)
(***************************************************************************)
EXTENDS XiaozhiSession, DeviceVolume, TLAPS

USE TicksAssumption, SizesAssumption, SentAssumption

(* Writing, closing and reading keep the connection's part of the type. *)

\* A write that succeeds or fails leaves the connection well typed.
LEMMA WriteWire ==
    ASSUME WireOK, NEW m, NEW owner,
           m = "ttsStart" => owner \in {"turn", "farewell"},
           Write(m, owner) \/ WriteFails
    PROVE  WireOK'
<1> USE DEF WireOK, Write, WriteFails, React, wire, Messages
<1>1. CASE WriteFails \/ link = "lost"
  BY <1>1
<1>2. CASE m = "ttsStart" BY <1>2
<1>3. CASE m = "ttsStop"
  <2>1. CASE link = "up" /\ dev = "speaking"
    <3>1. toServer' = Append(toServer, "relisten") BY <1>3, <2>1
    <3>2. toServer' \in Seq(Messages) BY <3>1
    <3> QED BY <1>3, <2>1, <3>2
  <2> QED BY <1>3, <2>1
<1>4. CASE m = "standby" BY <1>4
<1> QED BY <1>1, <1>2, <1>3, <1>4

\* So does closing it,
LEMMA CloseWire == ASSUME WireOK, CloseConn PROVE WireOK'
  BY DEF WireOK, CloseConn, LinkDown, Messages

\* reading the next message,
LEMMA ReadWire ==
    ASSUME WireOK, toServer # <<>>, toServer' = Tail(toServer),
           UNCHANGED <<link, dev, ttsOpen>>
    PROVE  WireOK'
  BY DEF WireOK

\* and leaving it alone.
LEMMA SameWire == ASSUME WireOK, UNCHANGED wire PROVE WireOK'
  BY DEF WireOK, wire

-----------------------------------------------------------------------------
\* A connection starts well typed.
LEMMA InitType == Init => TypeOK
<1> SUFFICES ASSUME Init PROVE TypeOK OBVIOUS
<1>1. FlagsOK
  BY Zenon DEF Init, FlagsOK
<1>2. toServer \in Seq(Messages)
  <2>1. <<"hello", "wake">> \in Seq(Messages) /\ <<"badHello">> \in Seq(Messages)
    BY DEF Messages
  <2> QED BY <2>1 DEF Init
<1>3. WireOK
  BY <1>2 DEF Init, WireOK
<1> QED
  BY <1>1, <1>3 DEF Init, TypeOK, ReaderPC, AsrPC, WatchPC, Kinds

\* Every step keeps the type invariant.
LEMMA TypeStep == TypeOK /\ [Next]_vars => TypeOK'
<1> SUFFICES ASSUME TypeOK, [Next]_vars PROVE TypeOK' OBVIOUS
<1> USE DEF TypeOK, ReaderPC, AsrPC, WatchPC, Kinds,
      activity, turn, talk, history
<1>1. CASE DeviceLost
  BY <1>1 DEF DeviceLost, LinkDown, WireOK, FlagsOK
<1>2. ASSUME NEW m \in {"audio", "wake", "abort"}, DeviceSends(m) PROVE TypeOK'
  <2>1. toServer' = Append(toServer, m) /\ m \in Messages
    BY <1>2 DEF DeviceSends, Messages
  <2>2. WireOK'
    <3>1. dev' \in {"standby", "listening", "speaking"}
      BY <1>2 DEF DeviceSends, WireOK
    <3>2. toServer' \in Seq(Messages)
      BY <2>1 DEF WireOK
    <3> QED
      BY <1>2, <3>1, <3>2 DEF DeviceSends, WireOK
  <2>3. FlagsOK'
    BY <1>2 DEF DeviceSends, FlagsOK
  <2>4. sent' \in [{"audio", "wake", "abort"} -> Nat]
    BY <1>2 DEF DeviceSends
  <2> QED
    BY <1>2, <2>2, <2>3, <2>4 DEF DeviceSends
<1>3. CASE Tick
  <2>1. WireOK'
    BY <1>3, SameWire DEF Tick
  <2>2. FlagsOK'
    BY <1>3, Zenon DEF FlagsOK, Tick
  <2> QED
    BY <1>3, <2>1, <2>2 DEF Tick
<1>4. CASE HelloAccepted
  <2>1. WireOK'
    BY <1>4, ReadWire DEF HelloAccepted
  <2>2. FlagsOK'
    BY <1>4, Zenon DEF FlagsOK, HelloAccepted
  <2> QED
    BY <1>4, <2>1, <2>2 DEF HelloAccepted
<1>5. CASE HelloRefused
  <2>1. WireOK'
    BY <1>5, ReadWire DEF HelloRefused
  <2>2. FlagsOK'
    BY <1>5, Zenon DEF FlagsOK, HelloRefused
  <2> QED
    BY <1>5, <2>1, <2>2 DEF HelloRefused
<1>6. CASE ReadAudio
  <2>1. WireOK'
    BY <1>6, ReadWire DEF ReadAudio, Reads
  <2>2. FlagsOK'
    BY <1>6, Zenon DEF FlagsOK, ReadAudio, Reads
  <2> QED
    BY <1>6, <2>1, <2>2 DEF ReadAudio, Reads
<1>7. CASE ReadListen
  <2>1. WireOK'
    BY <1>7, ReadWire DEF ReadListen, Reads, resumeFromStandby
  <2>2. FlagsOK'
    BY <1>7, Zenon DEF FlagsOK, ReadListen, Reads, resumeFromStandby
  <2> QED
    BY <1>7, <2>1, <2>2 DEF ReadListen, Reads, resumeFromStandby
<1>8. CASE ReadAbort
  <2>1. WireOK'
    BY <1>8, ReadWire DEF ReadAbort, Reads, cancelCurrentTurn
  <2>2. FlagsOK'
    BY <1>8, Zenon DEF FlagsOK, ReadAbort, Reads, cancelCurrentTurn
  <2> QED
    BY <1>8, <2>1, <2>2 DEF ReadAbort, Reads, cancelCurrentTurn
<1>9. CASE ReadFails
  <2>1. WireOK'
    BY <1>9, SameWire DEF ReadFails
  <2>2. FlagsOK'
    BY <1>9, Zenon DEF FlagsOK, ReadFails
  <2> QED
    BY <1>9, <2>1, <2>2 DEF ReadFails
<1>10. CASE PushAudio
  <2>1. WireOK'
    BY <1>10, SameWire DEF PushAudio
  <2>2. FlagsOK'
    BY <1>10, Zenon DEF FlagsOK, PushAudio
  <2> QED
    BY <1>10, <2>1, <2>2 DEF PushAudio
<1>11. CASE NoticeASREnd
  <2>1. WireOK'
    BY <1>11, SameWire DEF NoticeASREnd
  <2>2. FlagsOK'
    BY <1>11, Zenon DEF FlagsOK, NoticeASREnd
  <2> QED
    BY <1>11, <2>1, <2>2 DEF NoticeASREnd
<1>12. CASE KeepReading
  <2>1. WireOK'
    BY <1>12, SameWire DEF KeepReading
  <2>2. FlagsOK'
    BY <1>12, Zenon DEF FlagsOK, KeepReading
  <2> QED
    BY <1>12, <2>1, <2>2 DEF KeepReading
<1>13. CASE Return
  <2>1. WireOK'
    BY <1>13, CloseWire DEF Return, cancelCurrentTurn
  <2>2. FlagsOK'
    BY <1>13, Zenon DEF FlagsOK, Return, cancelCurrentTurn
  <2> QED
    BY <1>13, <2>1, <2>2 DEF Return, cancelCurrentTurn
<1>14. CASE TakeAudio
  <2>1. WireOK'
    BY <1>14, SameWire DEF TakeAudio
  <2>2. FlagsOK'
    BY <1>14, Zenon DEF FlagsOK, TakeAudio
  <2> QED
    BY <1>14, <2>1, <2>2 DEF TakeAudio
<1>15. CASE Transcript
  <2>1. WireOK'
    BY <1>15, SameWire DEF Transcript, AsrGoes
  <2>2. FlagsOK'
    BY <1>15, Zenon DEF FlagsOK, Transcript, AsrGoes
  <2> QED
    BY <1>15, <2>1, <2>2 DEF Transcript, AsrGoes
<1>16. CASE AsrEnds
  <2>1. WireOK'
    BY <1>16, SameWire DEF AsrEnds, AsrGoes
  <2>2. FlagsOK'
    BY <1>16, Zenon DEF FlagsOK, AsrEnds, AsrGoes
  <2> QED
    BY <1>16, <2>1, <2>2 DEF AsrEnds, AsrGoes
<1>17. CASE beginResponse
  <2>1. WireOK'
    BY <1>17, SameWire DEF beginResponse, AsrGoes, contextEligible
  <2>2. FlagsOK'
    BY <1>17, Zenon DEF FlagsOK, beginResponse, AsrGoes, contextEligible
  <2> QED
    BY <1>17, <2>1, <2>2 DEF beginResponse, AsrGoes, contextEligible
<1>18. CASE setCurrentTurn
  <2>1. WireOK'
    BY <1>18, SameWire DEF setCurrentTurn, AsrGoes
  <2>2. FlagsOK'
    BY <1>18, Zenon DEF FlagsOK, setCurrentTurn, AsrGoes
  <2> QED
    BY <1>18, <2>1, <2>2 DEF setCurrentTurn, AsrGoes
<1>19. CASE WriteStt
  <2>1. WireOK'
    BY <1>19, WriteWire DEF WriteStt, AsrGoes
  <2>2. FlagsOK'
    BY <1>19, Zenon DEF FlagsOK, WriteStt, AsrGoes
  <2> QED
    BY <1>19, <2>1, <2>2 DEF WriteStt, AsrGoes
<1>20. CASE WriteTtsStart
  <2>1. WireOK'
    BY <1>20, WriteWire DEF WriteTtsStart, AsrGoes
  <2>2. FlagsOK'
    BY <1>20, Zenon DEF FlagsOK, WriteTtsStart, AsrGoes
  <2> QED
    BY <1>20, <2>1, <2>2 DEF WriteTtsStart, AsrGoes
<1>21. CASE SentenceStart
  <2>1. WireOK'
    BY <1>21, WriteWire DEF SentenceStart, AsrGoes
  <2>2. FlagsOK'
    BY <1>21, Zenon DEF FlagsOK, SentenceStart, AsrGoes
  <2> QED
    BY <1>21, <2>1, <2>2 DEF SentenceStart, AsrGoes
<1>22. CASE SentencesEnd
  <2>1. WireOK'
    BY <1>22, SameWire DEF SentencesEnd, AsrGoes
  <2>2. FlagsOK'
    BY <1>22, Zenon DEF FlagsOK, SentencesEnd, AsrGoes
  <2> QED
    BY <1>22, <2>1, <2>2 DEF SentencesEnd, AsrGoes
<1>23. CASE SentenceSpoken
  <2>1. WireOK'
    BY <1>23, SameWire DEF SentenceSpoken, AsrGoes
  <2>2. FlagsOK'
    BY <1>23, Zenon DEF FlagsOK, SentenceSpoken, AsrGoes
  <2> QED
    BY <1>23, <2>1, <2>2 DEF SentenceSpoken, AsrGoes
<1>24. CASE SentenceFails
  <2>1. WireOK'
    BY <1>24, SameWire DEF SentenceFails, AsrGoes
  <2>2. FlagsOK'
    BY <1>24, Zenon DEF FlagsOK, SentenceFails, AsrGoes
  <2> QED
    BY <1>24, <2>1, <2>2 DEF SentenceFails, AsrGoes
<1>25. CASE WriteTtsStop
  <2>1. WireOK'
    BY <1>25, WriteWire DEF WriteTtsStop, AsrGoes
  <2>2. FlagsOK'
    BY <1>25, Zenon DEF FlagsOK, WriteTtsStop, AsrGoes
  <2> QED
    BY <1>25, <2>1, <2>2 DEF WriteTtsStop, AsrGoes
<1>26. CASE TurnSleep
  <2>1. WireOK'
    BY <1>26, WriteWire DEF TurnSleep, AsrGoes
  <2>2. FlagsOK'
    BY <1>26, Zenon DEF FlagsOK, TurnSleep, AsrGoes
  <2> QED
    BY <1>26, <2>1, <2>2 DEF TurnSleep, AsrGoes
<1>27. CASE TurnGrace
  <2>1. WireOK'
    BY <1>27, CloseWire, SameWire DEF TurnGrace, AsrGoes
  <2>2. FlagsOK'
    BY <1>27, Zenon DEF FlagsOK, TurnGrace, AsrGoes
  <2> QED
    BY <1>27, <2>1, <2>2 DEF TurnGrace, AsrGoes
<1>28. CASE clearCurrentTurn
  <2>1. WireOK'
    BY <1>28, SameWire DEF clearCurrentTurn, AsrGoes
  <2>2. FlagsOK'
    BY <1>28, Zenon DEF FlagsOK, clearCurrentTurn, AsrGoes
  <2> QED
    BY <1>28, <2>1, <2>2 DEF clearCurrentTurn, AsrGoes
<1>29. CASE endResponse
  <2>1. WireOK'
    BY <1>29, SameWire DEF endResponse, AsrGoes
  <2>2. FlagsOK'
    BY <1>29, Zenon DEF FlagsOK, endResponse, AsrGoes
  <2> QED
    BY <1>29, <2>1, <2>2 DEF endResponse, AsrGoes
<1>30. CASE claimIdleClose
  <2>1. WireOK'
    BY <1>30, SameWire DEF claimIdleClose, WatchGoes
  <2>2. FlagsOK'
    BY <1>30, Zenon DEF FlagsOK, claimIdleClose, WatchGoes
  <2> QED
    BY <1>30, <2>1, <2>2 DEF claimIdleClose, WatchGoes
<1>31. CASE claimVoiceStandby
  <2>1. WireOK'
    BY <1>31, SameWire DEF claimVoiceStandby, WatchGoes
  <2>2. FlagsOK'
    BY <1>31, Zenon DEF FlagsOK, claimVoiceStandby, WatchGoes
  <2> QED
    BY <1>31, <2>1, <2>2 DEF claimVoiceStandby, WatchGoes
<1>32. CASE sendVoiceStandby
  <2>1. WireOK'
    BY <1>32, WriteWire DEF sendVoiceStandby, WatchGoes
  <2>2. FlagsOK'
    BY <1>32, Zenon DEF FlagsOK, sendVoiceStandby, WatchGoes
  <2> QED
    BY <1>32, <2>1, <2>2 DEF sendVoiceStandby, WatchGoes
<1>33. CASE FarewellStart
  <2>1. WireOK'
    BY <1>33, WriteWire DEF FarewellStart, WatchGoes, FarewellWrites
  <2>2. FlagsOK'
    BY <1>33, Zenon DEF FlagsOK, FarewellStart, WatchGoes, FarewellWrites
  <2> QED
    BY <1>33, <2>1, <2>2 DEF FarewellStart, WatchGoes, FarewellWrites
<1>34. CASE FarewellSentence
  <2>1. WireOK'
    BY <1>34, WriteWire DEF FarewellSentence, WatchGoes, FarewellWrites
  <2>2. FlagsOK'
    BY <1>34, Zenon DEF FlagsOK, FarewellSentence, WatchGoes, FarewellWrites
  <2> QED
    BY <1>34, <2>1, <2>2 DEF FarewellSentence, WatchGoes, FarewellWrites
<1>35. CASE FarewellSpeech
  <2>1. WireOK'
    BY <1>35, SameWire DEF FarewellSpeech, WatchGoes
  <2>2. FlagsOK'
    BY <1>35, Zenon DEF FlagsOK, FarewellSpeech, WatchGoes
  <2> QED
    BY <1>35, <2>1, <2>2 DEF FarewellSpeech, WatchGoes
<1>36. CASE FarewellStop
  <2>1. WireOK'
    BY <1>36, WriteWire DEF FarewellStop, WatchGoes, FarewellWrites
  <2>2. FlagsOK'
    BY <1>36, Zenon DEF FlagsOK, FarewellStop, WatchGoes, FarewellWrites
  <2> QED
    BY <1>36, <2>1, <2>2 DEF FarewellStop, WatchGoes, FarewellWrites
<1>37. CASE FarewellSleep
  <2>1. WireOK'
    BY <1>37, WriteWire DEF FarewellSleep, WatchGoes, FarewellWrites
  <2>2. FlagsOK'
    BY <1>37, Zenon DEF FlagsOK, FarewellSleep, WatchGoes, FarewellWrites
  <2> QED
    BY <1>37, <2>1, <2>2 DEF FarewellSleep, WatchGoes, FarewellWrites
<1>38. CASE FarewellClose
  <2>1. WireOK'
    BY <1>38, CloseWire, SameWire DEF FarewellClose, WatchGoes
  <2>2. FlagsOK'
    BY <1>38, Zenon DEF FlagsOK, FarewellClose, WatchGoes
  <2> QED
    BY <1>38, <2>1, <2>2 DEF FarewellClose, WatchGoes
<1>39. CASE WatchEnds
  <2>1. WireOK'
    BY <1>39, SameWire DEF WatchEnds, WatchGoes
  <2>2. FlagsOK'
    BY <1>39, Zenon DEF FlagsOK, WatchEnds, WatchGoes
  <2> QED
    BY <1>39, <2>1, <2>2 DEF WatchEnds, WatchGoes
<1>40. CASE UNCHANGED vars
  BY <1>40, SameWire DEF vars, FlagsOK
<1>41. QED
  BY <1>1, <1>2, <1>3, <1>4, <1>5, <1>6, <1>7, <1>8, <1>9, <1>10, <1>11, <1>12, <1>13,
      <1>14, <1>15, <1>16, <1>17, <1>18, <1>19, <1>20, <1>21, <1>22, <1>23, <1>24, <1>25,
      <1>26, <1>27, <1>28, <1>29, <1>30, <1>31, <1>32, <1>33, <1>34, <1>35, <1>36, <1>37,
      <1>38, <1>39, <1>40
  DEF Next, Device, Reader, Recogniser, Watcher

\* Type correctness: every variable of a connection stays in its type.
THEOREM TypeCorrect == Spec => []TypeOK
  BY InitType, TypeStep, PTL DEF Spec

-----------------------------------------------------------------------------
(* Claims and turns.  Three goroutines write turnActive; the only step that *)
(* clears it is the one that leaves the turn.                               *)

\* Every step keeps turnActive set while a turn runs.
LEMMA TurnHoldsStep ==
    TypeOK /\ TurnHoldsSession /\ [Next]_vars => TurnHoldsSession'
<1> SUFFICES ASSUME TypeOK, TurnHoldsSession, [Next]_vars PROVE TurnHoldsSession'
  OBVIOUS
<1> USE DEF TurnHoldsSession, InTurn, AsrPC, activity
<1>1. CASE Device \/ Tick
  BY <1>1 DEF Device, DeviceLost, DeviceSends, Tick
<1>2. CASE Reader
  BY <1>2 DEF Reader, HelloAccepted, HelloRefused, ReadAudio, ReadListen, ReadAbort,
     ReadFails, PushAudio, NoticeASREnd, KeepReading, Return, Reads, resumeFromStandby
<1>3. CASE Recogniser
  <2>1. CASE endResponse
    BY <2>1 DEF endResponse, AsrGoes
  <2>2. CASE beginResponse
    BY <2>2 DEF beginResponse, AsrGoes
  <2>3. CASE TakeAudio \/ Transcript \/ AsrEnds \/ setCurrentTurn
    BY <2>3 DEF TakeAudio, Transcript, AsrEnds, setCurrentTurn, AsrGoes
  <2>4. CASE WriteStt \/ WriteTtsStart \/ SentenceStart \/ SentencesEnd \/ SentenceSpoken
    BY <2>4 DEF WriteStt, WriteTtsStart, SentenceStart, SentencesEnd, SentenceSpoken, AsrGoes
  <2>5. CASE SentenceFails \/ WriteTtsStop \/ TurnSleep \/ TurnGrace \/ clearCurrentTurn
    BY <2>5 DEF SentenceFails, WriteTtsStop, TurnSleep, TurnGrace, clearCurrentTurn, AsrGoes
  <2> QED BY <1>3, <2>1, <2>2, <2>3, <2>4, <2>5 DEF Recogniser
<1>4. CASE Watcher
  BY <1>4 DEF Watcher, claimIdleClose, claimVoiceStandby, sendVoiceStandby, WatchGoes,
     FarewellStart, FarewellSentence, FarewellSpeech, FarewellStop, FarewellSleep,
     FarewellWrites, FarewellClose, WatchEnds
<1>5. CASE UNCHANGED vars
  BY <1>5 DEF vars
<1> QED BY <1>1, <1>2, <1>3, <1>4, <1>5 DEF Next

\* Only the watcher's two claims raise idleClosing or standbySent, and each
\* claim needs turnActive clear.
LEMMA OnlyClaimsRaise ==
    ASSUME TypeOK, Next
    PROVE  (~idleClosing /\ idleClosing') \/ (~standbySent /\ standbySent')
             => ~turnActive
<1> USE DEF activity
<1>1. CASE Device \/ Tick
  BY <1>1 DEF Device, DeviceLost, DeviceSends, Tick
<1>2. CASE Reader
  BY <1>2 DEF Reader, HelloAccepted, HelloRefused, ReadAudio, ReadListen, ReadAbort,
     ReadFails, PushAudio, NoticeASREnd, KeepReading, Return, Reads, resumeFromStandby
<1>3. CASE Recogniser
  BY <1>3 DEF Recogniser, TakeAudio, Transcript, AsrEnds, beginResponse, setCurrentTurn,
     WriteStt, WriteTtsStart, SentenceStart, SentencesEnd, SentenceSpoken, SentenceFails,
     WriteTtsStop, TurnSleep, TurnGrace, clearCurrentTurn, endResponse
<1>4. CASE Watcher
  BY <1>4 DEF Watcher, claimIdleClose, claimVoiceStandby, sendVoiceStandby, WatchGoes,
     FarewellStart, FarewellSentence, FarewellSpeech, FarewellStop, FarewellSleep,
     FarewellWrites, FarewellClose, WatchEnds, IdleCloseDue, VoiceStandbyDue
<1> QED BY <1>1, <1>2, <1>3, <1>4 DEF Next, vars

\* Neither standby nor the farewell is claimed while a turn runs.
THEOREM ClaimsNeverInterruptTurns == Spec => ClaimsOnlyBetweenTurns
<1>1. Init => TypeOK /\ TurnHoldsSession
  BY InitType DEF Init, TurnHoldsSession, InTurn
<1>2. TypeOK /\ TurnHoldsSession /\ [Next]_vars =>
        [(~idleClosing /\ idleClosing') \/ (~standbySent /\ standbySent') => ~InTurn]_vars
  BY OnlyClaimsRaise DEF TurnHoldsSession
<1> QED
  BY <1>1, <1>2, TypeStep, TurnHoldsStep, PTL DEF Spec, ClaimsOnlyBetweenTurns

-----------------------------------------------------------------------------
(* Timeouts: lastActive moves at every step that moves the last meaningful *)
(* turn, so it is never the older of the two.                              *)

\* Every step keeps lastActive at least as recent as the last meaningful turn.
LEMMA AgeStep ==
    TypeOK /\ AgeWithinQuiet /\ [Next]_vars => AgeWithinQuiet'
<1> SUFFICES ASSUME TypeOK, AgeWithinQuiet, [Next]_vars PROVE AgeWithinQuiet' OBVIOUS
<1> USE DEF AgeWithinQuiet, TypeOK, activity, history
<1>1. CASE DeviceLost \/ Tick
  BY <1>1 DEF DeviceLost, Tick, LinkDown
<1>2. CASE \E m \in {"audio", "wake", "abort"} : DeviceSends(m)
  BY <1>2 DEF DeviceSends
<1>3. CASE Reader
  BY <1>3 DEF Reader, HelloAccepted, HelloRefused, ReadAudio, ReadListen, ReadAbort,
     ReadFails, PushAudio, NoticeASREnd, KeepReading, Return, Reads,
     resumeFromStandby
<1>4. CASE Recogniser
  <2>1. CASE TakeAudio \/ Transcript \/ AsrEnds
    BY <2>1 DEF TakeAudio, Transcript, AsrEnds, AsrGoes
  <2>2. CASE beginResponse
    BY <2>2 DEF beginResponse, AsrGoes
  <2>3. CASE setCurrentTurn
    BY <2>3 DEF setCurrentTurn, AsrGoes
  <2>4. CASE WriteStt
    BY <2>4 DEF WriteStt, AsrGoes
  <2>5. CASE WriteTtsStart
    BY <2>5 DEF WriteTtsStart, AsrGoes
  <2>6. CASE SentenceStart
    BY <2>6 DEF SentenceStart, AsrGoes
  <2>7. CASE SentencesEnd \/ SentenceSpoken
    BY <2>7 DEF SentencesEnd, SentenceSpoken, AsrGoes
  <2>8. CASE SentenceFails
    BY <2>8 DEF SentenceFails, AsrGoes
  <2>9. CASE WriteTtsStop
    BY <2>9 DEF WriteTtsStop, AsrGoes
  <2>10. CASE TurnSleep
    BY <2>10 DEF TurnSleep, AsrGoes
  <2>11. CASE TurnGrace
    BY <2>11 DEF TurnGrace, AsrGoes
  <2>12. CASE clearCurrentTurn
    BY <2>12 DEF clearCurrentTurn, AsrGoes
  <2>13. CASE endResponse
    BY <2>13 DEF endResponse, AsrGoes
  <2> QED
      BY <1>4, <2>1, <2>2, <2>3, <2>4, <2>5, <2>6, <2>7, <2>8, <2>9, <2>10, <2>11, <2>12,
          <2>13
      DEF Recogniser
<1>5. CASE Watcher
  BY <1>5 DEF Watcher, claimIdleClose, claimVoiceStandby, sendVoiceStandby, WatchGoes,
     FarewellStart, FarewellSentence, FarewellSpeech, FarewellStop, FarewellSleep,
     FarewellWrites, FarewellClose, WatchEnds
<1>6. CASE UNCHANGED vars
  BY <1>6 DEF vars
<1> QED BY <1>1, <1>2, <1>3, <1>4, <1>5, <1>6 DEF Next, Device

\* Only claimIdleClose() raises idleClosing, when the timeout has passed.
LEMMA OnlyIdleClaimRaises ==
    ASSUME TypeOK, Next, ~idleClosing, idleClosing'
    PROVE  age >= IdleTicks
<1> USE DEF activity
<1>1. CASE Device \/ Tick
  BY <1>1 DEF Device, DeviceLost, DeviceSends, Tick
<1>2. CASE Reader
  BY <1>2 DEF Reader, HelloAccepted, HelloRefused, ReadAudio, ReadListen, ReadAbort,
     ReadFails, PushAudio, NoticeASREnd, KeepReading, Return, Reads, resumeFromStandby
<1>3. CASE Recogniser
  BY <1>3 DEF Recogniser, TakeAudio, Transcript, AsrEnds, beginResponse, setCurrentTurn,
     WriteStt, WriteTtsStart, SentenceStart, SentencesEnd, SentenceSpoken, SentenceFails,
     WriteTtsStop, TurnSleep, TurnGrace, clearCurrentTurn, endResponse, AsrGoes
<1>4. CASE Watcher
  BY <1>4 DEF Watcher, claimIdleClose, claimVoiceStandby, sendVoiceStandby, WatchGoes,
     FarewellStart, FarewellSentence, FarewellSpeech, FarewellStop, FarewellSleep,
     FarewellWrites, FarewellClose, WatchEnds, IdleCloseDue
<1> QED BY <1>1, <1>2, <1>3, <1>4 DEF Next, vars

\* The farewell is claimed only after IdleTicks without a meaningful turn.
THEOREM FarewellOnlyAfterQuiet == Spec => FarewellAfterQuiet
<1>1. Init => TypeOK /\ AgeWithinQuiet
  BY InitType DEF Init, AgeWithinQuiet
<1>2. ASSUME TypeOK, AgeWithinQuiet, Next, ~idleClosing, idleClosing'
      PROVE  quiet >= IdleTicks
  <2>1. age >= IdleTicks
    BY <1>2, OnlyIdleClaimRaises
  <2> QED BY <1>2, <2>1 DEF AgeWithinQuiet, TypeOK
<1>3. TypeOK /\ AgeWithinQuiet /\ [Next]_vars =>
        [~idleClosing /\ idleClosing' => quiet >= IdleTicks]_vars
  BY <1>2
<1> QED
  BY <1>1, <1>3, TypeStep, AgeStep, PTL DEF Spec, FarewellAfterQuiet

-----------------------------------------------------------------------------
(* Aborts.                                                                 *)

\* Every step keeps the count of sentences announced to a cancelled turn.
LEMMA LateStep ==
    TypeOK /\ LateOnlyLeaving /\ [Next]_vars => LateOnlyLeaving'
<1> SUFFICES ASSUME TypeOK, LateOnlyLeaving, [Next]_vars PROVE LateOnlyLeaving' OBVIOUS
<1> USE DEF LateOnlyLeaving, history
<1>1. CASE DeviceLost \/ Tick
  BY <1>1 DEF DeviceLost, Tick, LinkDown
<1>2. CASE \E m \in {"audio", "wake", "abort"} : DeviceSends(m)
  BY <1>2 DEF DeviceSends
<1>3. CASE Reader
  BY <1>3 DEF Reader, HelloAccepted, HelloRefused, ReadAudio, ReadListen, ReadAbort,
     ReadFails, PushAudio, NoticeASREnd, KeepReading, Return, Reads
<1>4. CASE Recogniser
  <2>1. CASE TakeAudio \/ Transcript \/ AsrEnds
    BY <2>1 DEF TakeAudio, Transcript, AsrEnds, AsrGoes
  <2>2. CASE beginResponse
    BY <2>2 DEF beginResponse, AsrGoes
  <2>3. CASE setCurrentTurn
    BY <2>3 DEF setCurrentTurn, AsrGoes
  <2>4. CASE WriteStt
    BY <2>4 DEF WriteStt, AsrGoes
  <2>5. CASE WriteTtsStart
    BY <2>5 DEF WriteTtsStart, AsrGoes
  <2>6. CASE SentenceStart
    BY <2>6 DEF SentenceStart, AsrGoes
  <2>7. CASE SentencesEnd \/ SentenceSpoken
    BY <2>7 DEF SentencesEnd, SentenceSpoken, AsrGoes
  <2>8. CASE SentenceFails
    BY <2>8 DEF SentenceFails, AsrGoes
  <2>9. CASE WriteTtsStop
    BY <2>9 DEF WriteTtsStop, AsrGoes
  <2>10. CASE TurnSleep
    BY <2>10 DEF TurnSleep, AsrGoes
  <2>11. CASE TurnGrace
    BY <2>11 DEF TurnGrace, AsrGoes
  <2>12. CASE clearCurrentTurn
    BY <2>12 DEF clearCurrentTurn, AsrGoes
  <2>13. CASE endResponse
    BY <2>13 DEF endResponse, AsrGoes
  <2> QED
      BY <1>4, <2>1, <2>2, <2>3, <2>4, <2>5, <2>6, <2>7, <2>8, <2>9, <2>10, <2>11, <2>12,
          <2>13
      DEF Recogniser
<1>5. CASE Watcher
  BY <1>5 DEF Watcher, claimIdleClose, claimVoiceStandby, sendVoiceStandby, WatchGoes,
     FarewellStart, FarewellSentence, FarewellSpeech, FarewellStop, FarewellSleep,
     FarewellWrites, FarewellClose, WatchEnds
<1>6. CASE UNCHANGED vars
  BY <1>6 DEF vars
<1> QED BY <1>1, <1>2, <1>3, <1>4, <1>5, <1>6 DEF Next, Device

\* A cancelled reply announces at most one more sentence.
THEOREM AbortStopsTheReply == Spec => []AbortStopsReply
<1>1. Init => TypeOK /\ LateOnlyLeaving
  BY InitType DEF Init, LateOnlyLeaving
<1>2. LateOnlyLeaving => AbortStopsReply
  BY DEF LateOnlyLeaving, AbortStopsReply
<1> QED
  BY <1>1, <1>2, TypeStep, LateStep, PTL DEF Spec

-----------------------------------------------------------------------------
(* The device is never left deaf.                                          *)

\* Every step keeps the other goroutines waiting for the hello.
LEMMA HelloStep == StartsAfterHello /\ [Next]_vars => StartsAfterHello'
<1> SUFFICES ASSUME StartsAfterHello, [Next]_vars PROVE StartsAfterHello' OBVIOUS
<1> USE DEF StartsAfterHello
<1>1. CASE Device \/ Tick
  BY <1>1 DEF Device, DeviceLost, DeviceSends, Tick
<1>2. CASE Reader
  BY <1>2 DEF Reader, HelloAccepted, HelloRefused, ReadAudio, ReadListen, ReadAbort,
     ReadFails, PushAudio, NoticeASREnd, KeepReading, Return
<1>3. CASE Recogniser
  BY <1>3 DEF Recogniser, TakeAudio, Transcript, AsrEnds, beginResponse, setCurrentTurn,
     WriteStt, WriteTtsStart, SentenceStart, SentencesEnd, SentenceSpoken, SentenceFails,
     WriteTtsStop, TurnSleep, TurnGrace, clearCurrentTurn, endResponse, AsrGoes
<1>4. CASE Watcher
  BY <1>4 DEF Watcher, claimIdleClose, claimVoiceStandby, sendVoiceStandby, WatchGoes,
     FarewellStart, FarewellSentence, FarewellSpeech, FarewellStop, FarewellSleep,
     FarewellWrites, FarewellClose, WatchEnds
<1>5. CASE UNCHANGED vars
  BY <1>5 DEF vars
<1> QED BY <1>1, <1>2, <1>3, <1>4, <1>5 DEF Next

\* Every step keeps a tts stop due while the device speaks.
LEMMA SpeakingStep ==
    TypeOK /\ StartsAfterHello /\ SpeakingHasAnEnd /\ [Next]_vars => SpeakingHasAnEnd'
<1> SUFFICES ASSUME TypeOK, StartsAfterHello, SpeakingHasAnEnd, [Next]_vars
             PROVE  SpeakingHasAnEnd'
  OBVIOUS
<1> USE DEF SpeakingHasAnEnd, wire, Write, WriteFails, React
<1>1. CASE DeviceLost \/ Tick
  BY <1>1 DEF DeviceLost, Tick, LinkDown
<1>2. CASE \E m \in {"audio", "wake", "abort"} : DeviceSends(m)
  BY <1>2 DEF DeviceSends
<1>3. CASE Reader
  <2>1. CASE HelloAccepted \/ HelloRefused
    BY <2>1 DEF HelloAccepted, HelloRefused, StartsAfterHello
  <2>2. CASE ReadAudio \/ ReadListen \/ ReadAbort
    BY <2>2 DEF ReadAudio, ReadListen, ReadAbort, Reads
  <2>3. CASE ReadFails \/ PushAudio \/ NoticeASREnd \/ KeepReading
    BY <2>3 DEF ReadFails, PushAudio, NoticeASREnd, KeepReading
  <2>4. CASE Return
    BY <2>4 DEF Return, CloseConn, LinkDown
  <2> QED BY <1>3, <2>1, <2>2, <2>3, <2>4 DEF Reader
<1>4. CASE Recogniser
  <2>1. CASE TakeAudio \/ Transcript \/ AsrEnds
    BY <2>1 DEF TakeAudio, Transcript, AsrEnds, AsrGoes
  <2>2. CASE beginResponse
    BY <2>2 DEF beginResponse, AsrGoes
  <2>3. CASE setCurrentTurn
    BY <2>3 DEF setCurrentTurn, AsrGoes
  <2>4. CASE WriteStt
    BY <2>4 DEF WriteStt, AsrGoes
  <2>5. CASE WriteTtsStart
    BY <2>5 DEF WriteTtsStart, AsrGoes
  <2>6. CASE SentenceStart
    BY <2>6 DEF SentenceStart, AsrGoes
  <2>7. CASE SentencesEnd \/ SentenceSpoken
    BY <2>7 DEF SentencesEnd, SentenceSpoken, AsrGoes
  <2>8. CASE SentenceFails
    BY <2>8 DEF SentenceFails, AsrGoes
  <2>9. CASE WriteTtsStop
    BY <2>9 DEF WriteTtsStop, AsrGoes
  <2>10. CASE TurnSleep
    BY <2>10 DEF TurnSleep, AsrGoes
  <2>11. CASE TurnGrace
    BY <2>11 DEF TurnGrace, AsrGoes, CloseConn, LinkDown
  <2>12. CASE clearCurrentTurn
    BY <2>12 DEF clearCurrentTurn, AsrGoes
  <2>13. CASE endResponse
    BY <2>13 DEF endResponse, AsrGoes
  <2> QED
      BY <1>4, <2>1, <2>2, <2>3, <2>4, <2>5, <2>6, <2>7, <2>8, <2>9, <2>10, <2>11, <2>12,
          <2>13
      DEF Recogniser
<1>5. CASE Watcher
  BY <1>5 DEF Watcher, claimIdleClose, claimVoiceStandby, sendVoiceStandby, WatchGoes,
     FarewellStart, FarewellSentence, FarewellSpeech, FarewellStop, FarewellSleep,
     FarewellWrites, FarewellClose, WatchEnds, CloseConn, LinkDown
<1>6. CASE UNCHANGED vars
  BY <1>6 DEF vars
<1> QED BY <1>1, <1>2, <1>3, <1>4, <1>5, <1>6 DEF Next, Device

\* While the device speaks, some goroutine has still to write the tts stop.
THEOREM SpeakingAlwaysEnds == Spec => []SpeakingHasAnEnd
<1>1. Init => TypeOK /\ StartsAfterHello /\ SpeakingHasAnEnd
  BY InitType DEF Init, StartsAfterHello, SpeakingHasAnEnd
<1> QED
  BY <1>1, TypeStep, HelloStep, SpeakingStep, PTL DEF Spec

-----------------------------------------------------------------------------
(* Standby: the server's flag and the device's state part only while a     *)
(* message that will bring them together is on its way.                    *)

\* A "listen start" stays on its way when another message is sent,
LEMMA PendingAppend ==
    ASSUME toServer \in Seq(Messages), NEW m \in Messages,
           toServer' = Append(toServer, m),
           ListenPending \/ m \in {"wake", "relisten"}
    PROVE  ListenPending'
<1>1. CASE ListenPending
  <2>1. PICK i \in DOMAIN toServer : toServer[i] \in {"wake", "relisten"}
    BY <1>1 DEF ListenPending
  <2>2. i \in DOMAIN toServer' /\ toServer'[i] = toServer[i]
    BY <2>1
  <2> QED BY <2>1, <2>2 DEF ListenPending
<1>2. CASE m \in {"wake", "relisten"}
  <2>1. Len(toServer) + 1 \in DOMAIN toServer' /\ toServer'[Len(toServer) + 1] = m
    OBVIOUS
  <2> QED BY <1>2, <2>1 DEF ListenPending
<1> QED BY <1>1, <1>2

\* and when one that is not a "listen start" is read.
LEMMA PendingTail ==
    ASSUME toServer \in Seq(Messages), toServer # <<>>, toServer' = Tail(toServer),
           ListenPending, Head(toServer) \notin {"wake", "relisten"}
    PROVE  ListenPending'
<1>1. PICK i \in DOMAIN toServer : toServer[i] \in {"wake", "relisten"}
  BY DEF ListenPending
<1>2. i # 1
  BY <1>1
<1>3. i - 1 \in DOMAIN toServer' /\ toServer'[i - 1] = toServer[i]
  BY <1>1, <1>2
<1> QED BY <1>1, <1>3 DEF ListenPending

\* Leaving the connection, the flag and the watcher alone keeps the agreement.
LEMMA StandbyUndisturbed ==
    ASSUME StandbyNotForgotten, UNCHANGED wire,
           standbySent' => standbySent, wpc = "standby" => wpc' = "standby"
    PROVE  StandbyNotForgotten'
  BY DEF StandbyNotForgotten, ListenPending, wire

\* So does a write by another goroutine.
LEMMA StandbyWrite ==
    ASSUME WireOK, StandbyNotForgotten, NEW m, NEW owner, m # "standby",
           Write(m, owner) \/ WriteFails,
           UNCHANGED standbySent, wpc = "standby" => wpc' = "standby"
    PROVE  StandbyNotForgotten'
<1>1. CASE WriteFails \/ link = "lost"
  BY <1>1, StandbyUndisturbed DEF Write, WriteFails
<1> SUFFICES ASSUME link = "up", React(m, owner) PROVE StandbyNotForgotten'
  BY <1>1 DEF Write, WriteFails, WireOK
<1>2. CASE m = "ttsStart"
  BY <1>2 DEF React, StandbyNotForgotten
<1>3. CASE m = "ttsStop" /\ dev = "speaking"
  <2>1. toServer' = Append(toServer, "relisten")
    BY <1>3 DEF React
  <2>2. ListenPending'
    BY <2>1, PendingAppend DEF WireOK, Messages
  <2> QED BY <2>2 DEF StandbyNotForgotten
<1>4. CASE m # "ttsStart" /\ ~(m = "ttsStop" /\ dev = "speaking")
  <2>1. UNCHANGED <<dev, toServer>>
    BY <1>4 DEF React
  <2> QED BY <2>1 DEF StandbyNotForgotten, ListenPending
<1> QED BY <1>2, <1>3, <1>4

\* Every step keeps the agreement about standby.
LEMMA StandbyStep == TypeOK /\ StandbyNotForgotten /\ [Next]_vars => StandbyNotForgotten'
<1> SUFFICES ASSUME TypeOK, StandbyNotForgotten, [Next]_vars
             PROVE  StandbyNotForgotten'
  OBVIOUS
<1>0. WireOK
  BY DEF TypeOK
<1>1. CASE DeviceLost
  BY <1>1 DEF DeviceLost, LinkDown, StandbyNotForgotten
<1>2. ASSUME NEW m \in {"audio", "wake", "abort"}, DeviceSends(m)
      PROVE  StandbyNotForgotten'
  <2>1. toServer' = Append(toServer, m) /\ UNCHANGED <<standbySent, wpc, link>>
    BY <1>2 DEF DeviceSends, activity
  <2>2. m # "wake" => UNCHANGED dev
    BY <1>2 DEF DeviceSends
  <2>3. ListenPending \/ m = "wake" => ListenPending'
    BY <2>1, <1>0, PendingAppend DEF Messages, WireOK
  <2> QED BY <2>1, <2>2, <2>3 DEF StandbyNotForgotten
<1>3. CASE Tick
  BY <1>3, StandbyUndisturbed DEF Tick
<1>4. CASE HelloAccepted \/ ReadListen
  BY <1>4 DEF HelloAccepted, ReadListen, resumeFromStandby, StandbyNotForgotten
<1>5. CASE HelloRefused \/ ReadAudio \/ ReadAbort
  <2>1. /\ toServer # <<>> /\ toServer' = Tail(toServer)
        /\ Head(toServer) \notin {"wake", "relisten"}
        /\ UNCHANGED <<standbySent, wpc, link, dev>>
    BY <1>5 DEF HelloRefused, ReadAudio, ReadAbort, Reads, activity
  <2>2. ListenPending => ListenPending'
    BY <2>1, <1>0, PendingTail DEF WireOK
  <2> QED BY <2>1, <2>2 DEF StandbyNotForgotten
<1>6. CASE ReadFails \/ PushAudio \/ NoticeASREnd \/ KeepReading
  BY <1>6, StandbyUndisturbed DEF ReadFails, PushAudio, NoticeASREnd, KeepReading, activity
<1>7. CASE Return
  BY <1>7 DEF Return, CloseConn, LinkDown, StandbyNotForgotten
<1>8. CASE TakeAudio \/ Transcript \/ AsrEnds \/ beginResponse \/ setCurrentTurn
  <2>1. UNCHANGED <<wire, wpc>>
    BY <1>8 DEF TakeAudio, Transcript, AsrEnds, beginResponse, setCurrentTurn, AsrGoes
  <2>2. CASE beginResponse
    <3>1. standbySent' => standbySent
      BY <2>2 DEF beginResponse
    <3> QED BY <2>1, <3>1, StandbyUndisturbed
  <2>3. CASE TakeAudio \/ Transcript \/ AsrEnds \/ setCurrentTurn
    <3>1. UNCHANGED standbySent
      BY <2>3 DEF TakeAudio, Transcript, AsrEnds, setCurrentTurn, activity
    <3> QED BY <2>1, <3>1, StandbyUndisturbed
  <2> QED BY <1>8, <2>2, <2>3
<1>9. CASE SentencesEnd \/ SentenceSpoken \/ SentenceFails \/ clearCurrentTurn \/ endResponse
  BY <1>9, StandbyUndisturbed
  DEF SentencesEnd, SentenceSpoken, SentenceFails, clearCurrentTurn, endResponse, AsrGoes,
      activity
<1>10. CASE WriteStt \/ WriteTtsStart \/ SentenceStart \/ WriteTtsStop \/ TurnSleep
  BY <1>10, <1>0, StandbyWrite
  DEF WriteStt, WriteTtsStart, SentenceStart, WriteTtsStop, TurnSleep, AsrGoes, activity
<1>11. CASE TurnGrace
  BY <1>11, StandbyUndisturbed
  DEF TurnGrace, CloseConn, LinkDown, AsrGoes, activity, StandbyNotForgotten
<1>12. CASE claimIdleClose \/ FarewellSpeech \/ WatchEnds
  BY <1>12, StandbyUndisturbed
  DEF claimIdleClose, FarewellSpeech, WatchEnds, WatchGoes, activity
<1>13. CASE claimVoiceStandby
  BY <1>13 DEF claimVoiceStandby, WatchGoes, StandbyNotForgotten
<1>14. CASE sendVoiceStandby
  BY <1>14, <1>0 DEF sendVoiceStandby, Write, WriteFails, React, WireOK, wire,
     StandbyNotForgotten
<1>15. CASE FarewellStart \/ FarewellSentence \/ FarewellStop \/ FarewellSleep
  BY <1>15, <1>0, StandbyWrite
  DEF FarewellStart, FarewellSentence, FarewellStop, FarewellSleep, FarewellWrites, WatchGoes,
      activity
<1>16. CASE FarewellClose
  BY <1>16, StandbyUndisturbed
  DEF FarewellClose, CloseConn, LinkDown, WatchGoes, activity, StandbyNotForgotten
<1>17. CASE UNCHANGED vars
  BY <1>17, StandbyUndisturbed DEF vars, activity
<1> QED
  BY <1>1, <1>2, <1>3, <1>4, <1>5, <1>6, <1>7, <1>8, <1>9, <1>10, <1>11, <1>12, <1>13,
     <1>14, <1>15, <1>16, <1>17
  DEF Next, Device, Reader, Recogniser, Watcher

\* A listening device never stays in standby for the server.
THEOREM StandbyAgreed == Spec => []StandbyNotForgotten
<1>1. Init => TypeOK /\ StandbyNotForgotten
  BY InitType DEF Init, StandbyNotForgotten
<1> QED BY <1>1, TypeStep, StandbyStep, PTL DEF Spec

-----------------------------------------------------------------------------
(* The volume, which reader and replier of the connection set; it is a     *)
(* specification of its own.                                               *)

\* A volume that is corrected is in range.
LEMMA Clamped == \A v \in Int : clampDeviceVolume(v) \in Safe
BY VolumeAssumption, SMT DEF clampDeviceVolume, Safe

\* What the bounds and the default are taken to be.
LEMMA VolumeBounds ==
    /\ Top \in Nat /\ VolumeMin \in Nat /\ VolumeMax \in Nat /\ DefaultVolume \in Nat
    /\ Step \in Nat /\ MaxCommands \in Nat /\ MaxKeys \in Nat /\ MaxLate \in Nat
    /\ Safe \subseteq Scale /\ Scale \subseteq Nat
BY VolumeAssumption, SMT DEF Safe, Scale

\* Requests and answers that are added are of their type.
LEMMA MessagesTyped ==
    /\ \A v \in Scale : Status(v) \in Asked /\ Status(v).kind = "status"
    /\ \A v \in Scale : Set(v) \in Asked /\ Set(v).value = v
    /\ 0 \in Scale
BY VolumeBounds, SMT DEF Status, Set, Asked, Scale

\* An outdated queue asks for what it asked for.
LEMMA OutdatedAsks ==
    ASSUME NEW q \in Seq(Asked)
    PROVE  /\ Outdated(q) \in Seq(Asked) /\ DOMAIN Outdated(q) = DOMAIN q
           /\ \A i \in DOMAIN q : /\ Outdated(q)[i].kind = q[i].kind
                                  /\ Outdated(q)[i].value = q[i].value
<1>1. q \in [1 .. Len(q) -> Asked] /\ Len(q) \in Nat /\ DOMAIN q = 1 .. Len(q) OBVIOUS
<1>2. ASSUME NEW m \in Asked
      PROVE  /\ [m EXCEPT !.latest = FALSE] \in Asked
             /\ [m EXCEPT !.latest = FALSE].kind = m.kind
             /\ [m EXCEPT !.latest = FALSE].value = m.value
    BY <1>2 DEF Asked
<1>3. Outdated(q) = [i \in 1 .. Len(q) |-> [q[i] EXCEPT !.latest = FALSE]]
    BY <1>1 DEF Outdated
<1>4. Outdated(q) \in [1 .. Len(q) -> Asked] BY <1>1, <1>2, <1>3
<1>5. Outdated(q) \in Seq(Asked) BY <1>1, <1>4, SMT
<1>6. QED BY <1>1, <1>2, <1>3, <1>5

\* What is asked for last is added to what was asked for.
LEMMA AskedLast ==
    ASSUME NEW q \in Seq(Asked), NEW m \in Asked
    PROVE  /\ Append(q, m) \in Seq(Asked) /\ DOMAIN Append(q, m) = 1 .. Len(q) + 1
           /\ \A i \in 1 .. Len(q) : Append(q, m)[i] = q[i]
           /\ Append(q, m)[Len(q) + 1] = m
           /\ DOMAIN q = 1 .. Len(q) /\ Len(q) \in Nat
BY SMT

\* What remains of a queue was in it.
LEMMA AskedFirst ==
    ASSUME NEW q \in Seq(Asked), q # <<>>
    PROVE  /\ Tail(q) \in Seq(Asked) /\ Head(q) \in Asked
           /\ Head(q) = q[1] /\ 1 \in DOMAIN q
           /\ \A i \in DOMAIN Tail(q) : i + 1 \in DOMAIN q /\ Tail(q)[i] = q[i + 1]
BY SMT

\* The ticker asks for the status, not for a volume.
LEMMA PollInRange ==
    ASSUME VolumeInRange, requestDeviceStatus
    PROVE  VolumeInRange'
<1>1. /\ down' = down \/ down' = Append(Outdated(down), Status(0))
      /\ up' = Outdated(up) /\ latePolls' \in {latePolls, latePolls + 1}
      /\ latePolls' = latePolls \/ latePolls < MaxLate
      /\ UNCHANGED <<volume, volumeKnown, wants, pc, device, broken, commands, keys>>
    BY DEF requestDeviceStatus
<1>2. up' \in Seq(Asked) BY <1>1, OutdatedAsks DEF VolumeInRange
<1>3. latePolls' \in 0..MaxLate
    BY <1>1, VolumeBounds, SMT DEF VolumeInRange
<1>4. /\ down' \in Seq(Asked)
      /\ \A i \in DOMAIN down' : down'[i].kind = "set" => down'[i].value \in Safe
    <2>1. CASE down' = down BY <2>1 DEF VolumeInRange
    <2>2. CASE down' = Append(Outdated(down), Status(0))
        <3> DEFINE q == Outdated(down)
        <3>1. /\ q \in Seq(Asked)
              /\ \A i \in DOMAIN q : q[i].kind = "set" => q[i].value \in Safe
            BY OutdatedAsks DEF VolumeInRange
        <3>2. Status(0) \in Asked /\ Status(0).kind = "status" BY MessagesTyped
        <3> HIDE DEF q
        <3>3. down' = Append(q, Status(0)) BY <2>2 DEF q
        <3>4. /\ down' \in Seq(Asked) /\ DOMAIN down' = 1 .. Len(q) + 1
              /\ \A i \in 1 .. Len(q) : down'[i] = q[i]
              /\ down'[Len(q) + 1] = Status(0) /\ DOMAIN q = 1 .. Len(q) /\ Len(q) \in Nat
            BY <3>1, <3>2, <3>3, AskedLast
        <3>5. \A i \in 1 .. Len(q) + 1 : i \in 1 .. Len(q) \/ i = Len(q) + 1
            BY <3>4
        <3>6. QED BY <3>1, <3>2, <3>4, <3>5
    <2>3. QED BY <1>1, <2>1, <2>2
<1>5. QED BY <1>1, <1>2, <1>3, <1>4 DEF VolumeInRange

\* One of the two goroutines goes on with setDeviceVolume().
LEMMA WriterGoes ==
    ASSUME VolumeInRange, NEW w \in Writers, NEW from,
           NEW to \in {"idle", "write", "store"}, Goes(w, from, to)
    PROVE  /\ pc' \in [Writers -> {"idle", "write", "store"}]
           /\ pc[w] = from /\ pc'[w] = to
           /\ \A v \in Writers \ {w} : pc'[v] = pc[v]
BY DEF VolumeInRange, Goes

\* It writes only what it wants to set,
LEMMA WriteInRange ==
    ASSUME VolumeInRange, NEW w \in Writers, WriteVolume(w)
    PROVE  VolumeInRange'
<1>1. UNCHANGED <<volume, volumeKnown, wants, up, device, broken, commands, keys, latePolls>>
    BY DEF WriteVolume, budgets
<1>2. wants[w] \in Safe /\ wants[w] \in Scale
    <2>1. pc[w] = "write" BY DEF WriteVolume, Goes
    <2>2. QED BY <2>1, VolumeBounds DEF VolumeInRange
<1>3. /\ pc' \in [Writers -> {"idle", "write", "store"}] /\ pc[w] = "write"
      /\ \A v \in Writers \ {w} : pc'[v] = pc[v]
    BY WriterGoes DEF WriteVolume
<1>4. \A v \in Writers : pc'[v] # "idle" => wants'[v] \in Safe
    BY <1>1, <1>2, <1>3 DEF VolumeInRange
<1>5. /\ down' \in Seq(Asked)
      /\ \A i \in DOMAIN down' : down'[i].kind = "set" => down'[i].value \in Safe
    <2>1. CASE down' = down BY <2>1 DEF VolumeInRange
    <2>2. CASE down' = Append(down, Set(wants[w]))
        <3>1. /\ down \in Seq(Asked) /\ Set(wants[w]) \in Asked
              /\ Set(wants[w]).value \in Safe
            BY <1>2, MessagesTyped DEF VolumeInRange
        <3>2. /\ down' \in Seq(Asked) /\ DOMAIN down' = 1 .. Len(down) + 1
              /\ \A i \in 1 .. Len(down) : down'[i] = down[i]
              /\ down'[Len(down) + 1] = Set(wants[w])
              /\ DOMAIN down = 1 .. Len(down) /\ Len(down) \in Nat
            BY <2>2, <3>1, AskedLast
        <3>3. \A i \in 1 .. Len(down) + 1 : i \in 1 .. Len(down) \/ i = Len(down) + 1
            BY <3>2
        <3>4. QED BY <3>1, <3>2, <3>3 DEF VolumeInRange
    <2>3. QED BY <2>1, <2>2 DEF WriteVolume
<1>6. QED BY <1>1, <1>3, <1>4, <1>5 DEF VolumeInRange

\* and stores it.
LEMMA StoreInRange ==
    ASSUME VolumeInRange, NEW w \in Writers, StoreVolume(w)
    PROVE  VolumeInRange'
<1>1. /\ UNCHANGED <<wants, down, up, device, broken, commands, keys, latePolls>>
      /\ volume' = wants[w] /\ volumeKnown' = TRUE /\ Goes(w, "store", "idle")
    BY DEF StoreVolume, budgets
<1>2. /\ pc' \in [Writers -> {"idle", "write", "store"}] /\ pc[w] = "store"
      /\ pc'[w] = "idle" /\ \A v \in Writers \ {w} : pc'[v] = pc[v]
    BY <1>1, WriterGoes
<1>3. wants[w] \in Safe BY <1>2 DEF VolumeInRange
<1>4. \A v \in Writers : pc'[v] # "idle" => wants'[v] \in Safe
    BY <1>1, <1>2 DEF VolumeInRange
<1>5. QED BY <1>1, <1>2, <1>3, <1>4 DEF VolumeInRange

\* A command is corrected before it is carried out.
LEMMA CommandInRange ==
    ASSUME VolumeInRange, Command
    PROVE  VolumeInRange'
<1>1. /\ UNCHANGED <<volume, volumeKnown, down, up, device, broken, keys, latePolls>>
      /\ Goes("replier", "idle", "write") /\ commands' = commands + 1
      /\ commands < MaxCommands
    BY DEF Command
<1>2. PICK v \in Targets : wants' = [wants EXCEPT !["replier"] = clampDeviceVolume(v)]
    BY DEF Command
<1>3. clampDeviceVolume(v) \in Safe
    <2>1. currentDeviceVolume \in Int
        BY VolumeBounds DEF VolumeInRange, currentDeviceVolume, Safe
    <2>2. Targets \subseteq Int
        BY <2>1, VolumeBounds DEF Targets, Scale
    <2>3. QED BY <2>2, Clamped
<1>4. "replier" \in Writers /\ Writers = {"reader", "replier"} BY DEF Writers
<1>5. /\ wants' \in [Writers -> {0} \union Safe] /\ wants'["replier"] \in Safe
      /\ \A w \in Writers \ {"replier"} : wants'[w] = wants[w]
    BY <1>2, <1>3, <1>4 DEF VolumeInRange
<1>6. /\ pc' \in [Writers -> {"idle", "write", "store"}]
      /\ \A w \in Writers \ {"replier"} : pc'[w] = pc[w]
    BY <1>1, <1>4, WriterGoes
<1>7. \A w \in Writers : pc'[w] # "idle" => wants'[w] \in Safe
    BY <1>5, <1>6 DEF VolumeInRange
<1>8. commands' \in 0..MaxCommands BY <1>1, VolumeBounds, SMT DEF VolumeInRange
<1>9. QED BY <1>1, <1>5, <1>6, <1>7, <1>8 DEF VolumeInRange

\* A volume that the device reports is corrected before it is stored.
LEMMA ResponseInRange ==
    ASSUME VolumeInRange, handleMCPResponse
    PROVE  VolumeInRange'
<1> DEFINE raw == Head(up).value
           safe == clampDeviceVolume(raw)
<1>1. /\ UNCHANGED <<down, device, broken, commands, keys, latePolls>>
      /\ up # <<>> /\ up' = Tail(up) /\ pc["reader"] = "idle"
    BY DEF handleMCPResponse, budgets
<1>2. up' \in Seq(Asked) /\ Head(up) \in Asked BY <1>1, AskedFirst DEF VolumeInRange
<1>3. safe \in Safe
    <2>1. raw \in Scale BY <1>2 DEF Asked
    <2>2. raw \in Int
        <3> HIDE DEF raw
        <3>1. QED BY <2>1, VolumeBounds
    <2>3. QED BY <2>2, Clamped
<1> HIDE DEF raw, safe
<1>4. \/ UNCHANGED <<volume, volumeKnown, wants, pc>>
      \/ volume' = safe /\ volumeKnown' = TRUE /\ UNCHANGED <<wants, pc>>
      \/ /\ volume' = safe /\ volumeKnown' = TRUE
         /\ wants' = [wants EXCEPT !["reader"] = safe] /\ Goes("reader", "idle", "write")
    BY DEF handleMCPResponse, raw, safe
<1>5. CASE UNCHANGED <<volume, volumeKnown, wants, pc>>
    BY <1>1, <1>2, <1>5 DEF VolumeInRange
<1>6. CASE volume' = safe /\ volumeKnown' = TRUE /\ UNCHANGED <<wants, pc>>
    BY <1>1, <1>2, <1>3, <1>6 DEF VolumeInRange
<1>7. CASE /\ volume' = safe /\ volumeKnown' = TRUE
           /\ wants' = [wants EXCEPT !["reader"] = safe] /\ Goes("reader", "idle", "write")
    <2>1. "reader" \in Writers BY DEF Writers
    <2>2. /\ wants' \in [Writers -> {0} \union Safe] /\ wants'["reader"] \in Safe
          /\ \A w \in Writers \ {"reader"} : wants'[w] = wants[w]
        BY <1>3, <1>7, <2>1 DEF VolumeInRange
    <2>3. /\ pc' \in [Writers -> {"idle", "write", "store"}]
          /\ \A w \in Writers \ {"reader"} : pc'[w] = pc[w]
        BY <1>7, <2>1, WriterGoes
    <2>4. \A w \in Writers : pc'[w] # "idle" => wants'[w] \in Safe
        BY <2>2, <2>3 DEF VolumeInRange
    <2>5. QED BY <1>1, <1>2, <1>3, <1>7, <2>2, <2>3, <2>4 DEF VolumeInRange
<1>8. QED BY <1>4, <1>5, <1>6, <1>7

\* What the device does to its queue.
LEMMA DeviceInRange ==
    ASSUME VolumeInRange, DeviceServes \/ DeviceKey \/ LinkLost
    PROVE  VolumeInRange'
<1>1. CASE DeviceServes
    <2>1. /\ UNCHANGED <<volume, volumeKnown, wants, pc, broken, commands, keys, latePolls>>
          /\ down # <<>> /\ down' = Tail(down)
          /\ \/ device' = Head(down).value /\ up' = up
             \/ device' = device /\ up' = Append(up, [Head(down) EXCEPT !.value = device])
        BY <1>1 DEF DeviceServes, budgets
    <2>2. /\ down' \in Seq(Asked) /\ Head(down) \in Asked
          /\ \A i \in DOMAIN down' : i + 1 \in DOMAIN down /\ down'[i] = down[i + 1]
        BY <2>1, AskedFirst DEF VolumeInRange
    <2>3. \A i \in DOMAIN down' : down'[i].kind = "set" => down'[i].value \in Safe
        BY <2>2 DEF VolumeInRange
    <2>4. device' \in Scale BY <2>1, <2>2 DEF VolumeInRange, Asked
    <2>5. up' \in Seq(Asked)
        <3>1. [Head(down) EXCEPT !.value = device] \in Asked
            BY <2>2 DEF VolumeInRange, Asked
        <3>2. up \in Seq(Asked) BY DEF VolumeInRange
        <3>3. \A m \in Asked : Append(up, m) \in Seq(Asked) BY <3>2, AskedLast
        <3>4. QED BY <2>1, <3>1, <3>2, <3>3
    <2>6. QED BY <2>1, <2>2, <2>3, <2>4, <2>5 DEF VolumeInRange
<1>2. CASE DeviceKey
    <2>1. /\ UNCHANGED <<volume, volumeKnown, wants, pc, down, up, broken>>
          /\ UNCHANGED <<commands, latePolls>> /\ device' \in Scale
          /\ keys < MaxKeys /\ keys' = keys + 1
        BY <1>2 DEF DeviceKey
    <2>2. keys' \in 0..MaxKeys BY <2>1, VolumeBounds, SMT DEF VolumeInRange
    <2>3. QED BY <2>1, <2>2 DEF VolumeInRange
<1>3. CASE LinkLost
    <2>1. /\ UNCHANGED <<volume, volumeKnown, wants, pc, device, commands, keys, latePolls>>
          /\ broken' = TRUE /\ down' = <<>> /\ up' = <<>>
        BY <1>3 DEF LinkLost, budgets
    <2>2. <<>> \in Seq(Asked) /\ DOMAIN <<>> = {} BY SMT
    <2>3. QED BY <2>1, <2>2 DEF VolumeInRange
<1>4. QED BY <1>1, <1>2, <1>3

\* The server never takes the volume to be out of range once it knows it, nor
\* asks the device for one that is, whichever volumes the device reports,
\* whatever is said, and in whatever order reader and replier write and store.
THEOREM VolumeStaysInRange == VolumeSpec => []VolumeInRange
<1>1. VolumeInit => VolumeInRange
    <2> SUFFICES ASSUME VolumeInit PROVE VolumeInRange
        OBVIOUS
    <2>1. /\ Status(0) \in Asked /\ Status(0).kind = "status" BY MessagesTyped
    <2>2. /\ <<Status(0)>> \in Seq(Asked) /\ <<>> \in Seq(Asked)
          /\ \A i \in DOMAIN <<Status(0)>> : <<Status(0)>>[i] = Status(0)
        BY <2>1, SMT
    <2>3. 0 \in 0..MaxCommands /\ 0 \in 0..MaxKeys /\ 0 \in 0..MaxLate
        BY VolumeBounds, SMT
    <2>4. QED BY <2>1, <2>2, <2>3 DEF VolumeInit, VolumeInRange
<1>2. VolumeInRange /\ [VolumeNext]_volumeVars => VolumeInRange'
    <2> SUFFICES ASSUME VolumeInRange, [VolumeNext]_volumeVars PROVE VolumeInRange'
        OBVIOUS
    <2>1. CASE requestDeviceStatus BY <2>1, PollInRange
    <2>2. CASE Command BY <2>2, CommandInRange
    <2>3. CASE handleMCPResponse BY <2>3, ResponseInRange
    <2>4. CASE DeviceServes \/ DeviceKey \/ LinkLost BY <2>4, DeviceInRange
    <2>5. ASSUME NEW w \in Writers, WriteVolume(w) \/ StoreVolume(w) PROVE VolumeInRange'
        BY <2>5, WriteInRange, StoreInRange
    <2>6. CASE UNCHANGED volumeVars
        BY <2>6 DEF volumeVars, budgets, VolumeInRange
    <2>7. QED BY <2>1, <2>2, <2>3, <2>4, <2>5, <2>6 DEF VolumeNext
<1>3. QED BY <1>1, <1>2, PTL DEF VolumeSpec
=============================================================================
