# Formal models of Pupbox

TLA+ modules that model the concurrent and failure-prone parts of Pupbox, the
TLC configurations that check them on small instances, and proofs checked by
TLAPS. Every definition is a translation of code under `src/`; `PROJECT.json`
maps each one to the lines it stands for (`map`), lists the runs, the mutant
that shows each property can fail, the hazards, and the theorems.

To check one run or one module's proofs, from this directory:

    tlc -workers 2 -config MCEventStore.cfg MCEventStore.tla
    tlapm EventStore_proofs.tla

## 1. The system

Pupbox is a talking toy dog for small children. A child talks through one of
three front ends: a Xiaozhi device over a WebSocket, the project's own ESP32
board over HTTP, or a web page. The Go server transcribes, answers with a
language model, synthesizes speech and keeps a log that a parent reads and
rates.

| Component | State it keeps | Operations | Talks to | What is hard | What makes it correct |
|---|---|---|---|---|---|
| Xiaozhi connection `xiaozhi.go` | `lastActive`, `turnActive`, `idleClosing`, `standbySent`, `responseRefresh`, the turn's `cancel`, the audio channel | hello, listen, abort, audio; a transcript's turn; standby, farewell, close | device (WebSocket), recogniser (callback), reply pipeline | three goroutines, two mutexes, claims made under a lock and carried out after it; aborts at any moment; a device that vanishes | no claim interrupts a turn; a device is never left speaking, nor forgotten in standby; an abort silences the reply; every goroutine ends |
| Reply pipeline `streaming_reply.go`, `xiaozhi.go`, `xiaozhi_device.go` | channels of sentences and packets, their errors, the turn's context | produce, announce, prebuffer, play, cancel, record | chat and speech services, device | three goroutines on bounded channels that only a context stops | sentences in order and whole; nothing lost in a turn recorded as good; nobody stays blocked |
| Realtime speech client `dashscopeapi` | one socket, an events channel, an Ogg page parser | transcribe, synthesize | cloud service | reader goroutine against consumer; partial pages | as part of the two above |
| Device volume `xiaozhi_device.go` | `volume`, `volumeKnown`, `statusMCPID` | poll, answer, spoken command | device | written to the device first and stored later, by two goroutines; late answers | server and device come to agree, in range |
| Event log `events.go` | the JSONL file, a cached line count | append, rate, prune, recent | request handlers | torn writes, crashes, failing close and rename | an acknowledged event survives, ratings stick, the file keeps to its limit |
| Speech cache `speech_cache.go`, `server.go` | memory map, calls in progress, files | lookup, follow, synthesize, store, prune | speech service, disk | followers of a leader that fails or leaves; damaged files | one leader a text; bounded caches; everybody is answered |
| Toy page `toy.js` | phase, recorder, meter timer, microphone tracks | press, release, time-out, send, play | server, browser | callbacks of several presses interleave at every `await` | a recording ends, the button comes back, the microphone is off in replies |
| ESP32 voice client `voice_client.cc` | stream buffer, shared `state.error` | receive lines, play, notify | server, codec | two tasks without a lock, a bounded buffer, timeouts | a clean reply is played whole; the buffer outlives its reader; the call returns |
| ESP32 main loop `main.cc` | recording buffer, voice detector, session | tap, hold, listen, upload, play, follow up, farewell | voice client, codec | ring buffer, short sounds at the end of the wait, error exits of every kind | a recording is one whole piece of what was heard; listening ends; it does not overlap with playing; silence ends the session |
| Session memory `session.go` | recent turns per session | history, append, prune | reply handlers | requests of one session that overlap, turns that expire while a game goes on | bounded; a request is answered knowing every turn the child had an answer to |
| Recording store `recordings.go` | a directory of audio files | save, find, prune | upload handler, parent page | concurrent prunes by an old listing, temporary files of killed saves | a saved recording is found until enough newer ones came; the directory stays small |
| Device telemetry `device_telemetry.go` | a JSONL file and its count | append, recent, prune | status poll, parent page | the same file format as the event log, one mutex | the newest samples are kept |
| HTTP API `server.go` | none of its own | handlers | all of the above | which component is called in which order | |
| Audio trimming, Ogg parsing | none | pure functions | recogniser | boundaries | agree with a reference definition |
| Dog behaviour `internal/dog` | none: what goes on is read off the session's turns | plan, continue, offer, route, surprise, clarify | reply handlers, session memory | games and offers carried by a history of four turns, with babble, failures and expiry in between; the order in which rules are tried | answers are judged against the question heard; stop is heard; no story comes twice; surprises keep their distance |
| Parent page `app.js` | list of events, audio element | poll, rate, play | server | stale answers | |

`PROJECT.json` lists the files of each component and whether it is modelled.

## 2. The modules

| Module | Models | Checked by |
|---|---|---|
| `XiaozhiSession` | one connection: reader, recogniser, watcher and the device | `MCXiaozhiSession`, `MCXiaozhiRefresh` |
| `XiaozhiSession_proofs` | the theorems about it, and one about `DeviceVolume` | TLAPS |
| `ReplyPipeline` | the reply of one turn: replier, sentence loop, speaker | `MCReplyPipeline` |
| `ReplyPipeline_proofs` | theorems about it | TLAPS |
| `SentenceLoop` | what `XiaozhiSession` assumes about that reply | as `ImplementsLoop` |
| `DeviceVolume` | volume and status over the device's MCP server | `MCDeviceVolume` |
| `EventStore` | the conversation log on disk | `MCEventStore` |
| `EventStore_proofs` | theorems about it | TLAPS |
| `EventLog` | what that log promises | as `ImplementsLog` |
| `SpeechCache` | both speech caches and the coalescing of requests | `MCSpeechCache` |
| `SpeechCache_proofs` | theorems about them | TLAPS |
| `ToyPage` | press-to-talk on the child's page | `MCToyPage`, `MCToyPageMic` |
| `ToyPage_proofs` | theorems about it | TLAPS |
| `VoicePlayback` | receiving and playing a reply on the ESP32 board | `MCVoiceSession`, `MCVoicePlaybackLost` |
| `VoiceDetector` | listening on that board without a button | `MCVoiceSession` |
| `VoiceSession` | the board's sessions; composes the two | `MCVoiceSession` |
| `VoiceSession_proofs` | theorems about the playback, the detector and the composition | TLAPS |
| `DogActivity` | the rules a reply is found by, as operators on an utterance and the turns before | `MCConversation` |
| `Conversation` | the turns of one session under these rules | `MCConversation` |
| `Conversation_proofs` | theorems about them | TLAPS |
| `RecordingStore` | saving and pruning recordings on disk | `MCVoiceUpload` |
| `VoiceUpload` | concurrent voice requests of one session; composes that store and the session's turns | `MCVoiceUpload` |
| `VoiceUpload_proofs` | theorems about the turns and the recordings of overlapping requests | TLAPS |

How they fit together: `XiaozhiSession` embeds the sentence loop of a turn as
the actions `SentenceStart`, `SentencesEnd`, `SentenceSpoken` and
`SentenceFails`, without channels. `ReplyPipeline` models the channels and is
checked and proved to implement `SentenceLoop`, which has the same four steps, so that
what is shown of the connection does not rest on an idealised pipeline.
`EventLog` plays the same role for `EventStore`. `VoiceSession` extends
`VoiceDetector` and `VoicePlayback`, which both run inside the main task's steps,
and `VoiceUpload` extends `RecordingStore`. `Conversation` extends
`DogActivity`, which has no state of its own: what the dog does next is a
function of the text and of the turns the session remembers. The other modules
model components that share no state with these.

### XiaozhiSession

Three program counters stand for the goroutines: `rpc` for `run()`, `apc` for
`StreamTranscribeOpus()` with `handleTranscript()` inside it, `wpc` for
`watchProductIdle()` with `sayFarewellAndClose()` inside it. The variables
between them carry the names of the struct's fields. A step ends where the code
releases a mutex, writes to the socket, or blocks on a channel; what happens
under one lock is one action, and what happens after its release is another.
That is what lets a wake word come between `claimVoiceStandby()` and the
standby message.

The device is external. It is modelled from the messages it sends and obeys
(patch 0002 of its firmware): `tts start` makes it speak, `tts stop` makes it
listen again and say so, `standby` stops a listening device. A message to it
takes effect when written, since a delay there cannot be told apart from a delay
of its own messages, which wait in `toServer`. A write to a device that is gone
may still succeed.

Time is a clock of ticks: `age` is the time since `lastActive`, counted up to
`IdleTicks`, beyond which no comparison in the code can tell values apart. `quiet` and `late`
are history variables that no action reads.

### ReplyPipeline and SentenceLoop

The three goroutines of a reply with their channels `sentences` and `packets`.
`plan` is a prophecy: how many sentences the model's answer will have. `wire`
records what the toy receives, announcements and packets in one sequence.
`select` statements are disjunctions, so that under a cancelled context either
branch may be taken. The fallback that speaks a canned reply counts as a
sentence of the plan.

### DeviceVolume

`WriteVolume` and `StoreVolume` are the two halves of `setDeviceVolume()`, run
by the reader (correcting a reported volume) and by the replier (a command).
`latest` marks the request whose id is `statusMCPID`; sending a newer one turns
it off for everything on its way.

### EventStore and EventLog

`mu` is the mutex, `file` the lines on disk, `count` the cached number of lines.
`Torn` is a write that stopped early: nothing, a fragment, or a complete line without
its newline, which the next write then continues. `Fails` is an error of any
other step on the disk, `CloseFails` the one after a complete write. `Crash`
may come between any two steps and empties the memory only. `missed`
is a history variable: the complete lines that the count does not know of.

### SpeechCache

A request is a goroutine that looks up `memory` and `calls` under `speechMu`,
leads or follows, and stores what it got. `disk` lists the cache files, oldest
first, damaged ones included; audio is identified with its text.
`streaming` says which kind of provider is configured and never changes.

### ToyPage

Each press has its microphone (`mic`) and its chain of promises (`stage`); they
share `phase`, `recorder`, `recording` and the meter's timer. A step ends at
every `await`. `busy` follows from the phase as in `setPhase()`. The button takes several
fingers, since no handler asks which pointer an event is of: `held` are the presses
that wait for their microphone with the finger down, and a finger of no waiting
press may come or go at any time. `hasty` is a history variable: the presses that
were let go while they waited, and those that waited together with another one, of
the same finger or a second one.

### VoicePlayback

`hp` and `pb` are the two tasks. The unit of the buffer is one line of audio.
`error` is `state.error`, read and written by both without a lock: a step of
one task is one access. `broken` records that something failed.

### VoiceDetector and VoiceSession

A frame of 240 samples is the unit of all lengths, which the code's constants
are multiples of, and is identified with the number of its reading. Whether it is
loud is left open, so that the threshold may follow the noise in any way. The
`recording` array is the ring first and the recording later, as in the code;
`onset` and `lastActive` are history variables. One action is one turn of the
loop of `CaptureAutomaticUtterance()`.

`stage` is where `app_main()` is. Cues and melodies belong to the step they
introduce: the main task writes them itself, with the microphone off, and nothing else
runs. An upload is its outcome. What is recorded while K2 is held is not looked
at: a hold is recorded from its first frame to its last one by a plain loop. When a
recording has been uploaded, and when a reply is over, the model clears what
nobody reads again, as the code does at the start of the next one
(`*recorded_samples = 0`, `state = {}`). `Reboot` is a failed
`ESP_ERROR_CHECK()`, of a button, the microphone or a cue.

### DogActivity and Conversation

An utterance is a record of what the word lists see in it: its `word`, such as a
wish for a story, a yes or a babble, and the animal or number it names. A reply is
a record of its activity, its variant, the question it asks and the cues in its
wording that later turns look for ("要不要", "两个都", ...). Operators have
the names of the functions; each returns the set of its outcomes, since most
variants come from a rotating counter shared by all sessions. The empty set
stands for `ok == false`.

`Conversation` is `Server.reply()` with `SessionStore` around it. `Turn(u)` is a
whole request: rules in their order, then the model, which may choose an activity,
chat, be uncertain, or fail; then the remembered turn. `SceneExpires` drops what is
older than 90 s, `Forget` is the eviction of a session or a restart. The history
variable `asked` is the question the child heard last. It is `Mismatch` when that
question is not what the session remembers, because the reply was uncertain input
or was aborted; `JudgedRound` claims nothing then.

### RecordingStore and VoiceUpload

`dir` is the directory, `modified` the modification time of each upload's file, by a
`clock` that every creation and every write moves on. A step of
`Save()` is one call to the operating system; no mutex orders the steps of two
saves, and prune's listing (`List`) and its removals (`RemoveOldest`) are separate
steps. `VoiceUpload` adds what `handleVoice()` does around it: the history is read
after the recording is saved and transcribed, and the turn appended after the reply was
synthesized. `answered` is a history variable: the turns the child had an
answer to when the request was sent. `turns` keeps every turn ever appended and
`lost` those the server no longer has: `SceneExpires` is the 90 seconds after a
turn, `Forget` the session's own time limit and its eviction for another session, and
`Crash` empties the memory and leaves the directory with whatever was begun.
`Append()` takes the time before the lock (session.go:79), so that turns may expire in
another order than they were appended; a history begins after the last one expired.

## 3. The runs, and what they show

| Run | Bounds | Shows |
|---|---|---|
| `MCXiaozhiSession` | 2 packets of audio, or 1 and a wake word, and 1 abort sent by the device; replies of up to 2 sentences; timeouts of 1 and 2 ticks | `SpeakingHasAnEnd`, `StandbyNotForgotten`, `AbortStopsReply`, `ClaimsOnlyBetweenTurns`, `FarewellAfterQuiet`, for every interleaving of the three goroutines and the device; `SessionEnds`: every connection ends with all of its goroutines |
| `MCXiaozhiRefresh` | 1 packet, 1 wake word, 1 abort | a divergence, see 5 |
| `MCReplyPipeline` | 3 sentences of 3 packets, channels of capacity 1, a prebuffer of 2 | `SpokenInOrder`, `NoSilentLoss`, `ImplementsLoop`, `CancelledTurnEnds` |
| `MCDeviceVolume` | a scale of 5 with 3 allowed volumes, 2 commands, 1 key, 1 late answer | `VolumeInRange`, `VolumesAgree` |
| `MCEventStore` | 2 threads, 3 events, a limit of 2, 2 torn writes or crashes; any number of other errors | `OneLossPerTear`, `RatingsStick`, `RetainsAtMostLimit`, `ImplementsLog` |
| `MCSpeechCache` | 3 requests, 2 texts, 1 entry in memory, 2 files, 1 restart | `OneLeaderPerCall`, `CachesBounded`, `EveryRequestAnswered` |
| `MCToyPage` | 3 presses | `RecordingIsTimed`, `ButtonComesBack`, `MicOffUnlessHasty`, `MicReleased` |
| `MCToyPageMic` | 3 presses | a divergence, see 5 |
| `MCVoiceSession` | replies of 6 lines, a buffer of 3, a prebuffer of 2; a ring of 4 frames, 3 to start, 6 to count, 3 quiet ones to end of which 1 is kept, a recording of 10, waits of 6 and 8; sessions and turns without end | `CleanReplyPlayed`, `PlaybackEndsFirst`, `ReplyEnds`, `CapturedWhole`, `ListeningBounded`, `QuietEndsSession` |
| `MCVoicePlaybackLost` | one reply as above | a bug, see 5 |
| `MCConversation` | 24 kinds of utterance; a history of 3 turns (4 in the code), 3 rounds of animals (8), 2 of counting (5), 4 stories (16), 2 guide choices; dialogues without end | `JudgedRound`, `StopAlwaysHeard`, `StoriesDiffer`, `SurprisesSpaced` |
| `MCVoiceUpload` | 3 requests, 1 recording kept (20 in the code), a history of 1 turn (4), 1 crash; turns expire and the session is dropped at any time | `SavedIsFound`, `DirectoryBounded`, `SeesAnsweredTurns` |

The runs of `XiaozhiSession`, `EventStore`, `VoiceSession` and `Conversation`
also check `TypeOK`; where it would only repeat the variables' types it
is left as the module's list of them.

Why the bounds are enough. What matters in each model is the order of a few
events, and the bounds let every relevant pair of them meet. Two packets are
needed for the reader to find the channel of capacity 1 full; two sentences for
a turn that is cancelled between two; two ticks for a standby before a farewell.
Channels of capacity 1 are full after one element and still allow the next
sender to wait; a prebuffer of 2 with speeches of 1, 2 and 3 packets covers the shorter,
the equal and the longer speech. Three events with a limit of 2 force a prune, and two tears
allow a crash on top of a torn write. Three requests give a leader and two
followers, or a leader after a leader. Three presses give an orphaned recorder
and a third press that meets it. The buffer of 3 can fill before 6 lines are
sent, and empty again. A recording of 10 frames can end by silence, fill up with
speech, and fill up with too little of it, and a sound that is ignored can
outlast the wait. In a dialogue, a game of 3 rounds has a first, a middle and a last
one that leads back to the first; a history of 3 turns can hold a question, what came in
between and the answer; 4 stories are one more than it holds, as 16 are more
than 4 (`StoryAssumption`). Three uploads with one recording kept prune each other's
files by listings of any age; with a history of one turn, a second turn already
pushes out the first.

The runs with liveness properties cannot use symmetry. `MCEventStore` and
`MCVoiceUpload`, which have none, are symmetric in threads and in requests.
`MCSpeechCache` starts from one representative of each choice of texts
instead (`Representative`): the texts of the requests never change, and
permuting requests or texts turns one choice into the other.

### Fairness

  - Goroutines, tasks and promise chains that can take a step take one (weak
    fairness on each): the Go scheduler, FreeRTOS and the browser's event loop
    do that, and the calls to the services inside them have timeouts or end
    when their context does.
  - `MCXiaozhiSession` also lets the clock advance and the recogniser return when
    its context is done. The recognition service need not transcribe anything and
    the device need not do anything.
  - `MCReplyPipeline` lets a service hang as long as the turn lives; only a
    cancelled call must return.
  - `MCDeviceVolume` lets the ticker, the goroutines and the device go on. Key
    presses, commands and the loss of the link are never forced.
  - `MCToyPage` lets the timer fire and every fetch and playback end. The
    microphone's permission may stay open for ever, and a finger down.
  - `MCVoiceSession` lets both tasks go on, frames come in, and requests end,
    at the latest by the client's timeout. K2 need not be pressed, nor
    released; that is why `QuietEndsSession` counts waiting for its release as an end.
  - `MCConversation` and `MCVoiceUpload` check safety only.

## 4. What is proved

`XiaozhiSession_proofs` proves for every value of the constants (timeouts,
capacity of the audio channel, sentences of a reply, messages of the device):

| Theorem | Says | Rests on |
|---|---|---|
| `TypeCorrect` | `[]TypeOK` | itself inductive; one step per action, with lemmas for what a write, a read and a close do to the wire |
| `ClaimsNeverInterruptTurns` | no claim of standby or farewell during a turn | `TurnHoldsSession`: `turnActive` is set during the whole turn. Needed because the claims test `turnActive` while the property speaks of the turn itself, and because `endResponse()` clears a flag the watcher may have set |
| `FarewellOnlyAfterQuiet` | the farewell comes only after `IdleTicks` of quiet | `AgeWithinQuiet`: `lastActive` is never older than the last meaningful turn |
| `AbortStopsTheReply` | at most one sentence is announced after a cancellation | `LateOnlyLeaving`: where the loop can still announce another one, none was announced late |
| `SpeakingAlwaysEnds` | a speaking device has a `tts stop` coming | `StartsAfterHello`, and that a device speaks only while a goroutine is between its two writes |
| `StandbyAgreed` | server and device do not disagree about standby for good | the invariant itself, with lemmas on what remains pending in `toServer` when it is appended to and read |

The same module holds the theorem about `DeviceVolume`, for any scale, allowed
range and step, and any number of commands, keys and late answers:

| Theorem | Says | Rests on |
|---|---|---|
| `VolumeStaysInRange` | `[]VolumeInRange` | itself inductive. It names what reader and replier hold in their hands (`wants`) as well as `volume`: the two halves of `setDeviceVolume()` are two steps, and what is stored was clamped some steps earlier |

`ReplyPipeline_proofs`, for any number of sentences, lengths of speech, capacities
of the two channels and prebuffer:

| Theorem | Says | Rests on |
|---|---|---|
| `InOrderOnTheWire` | `[]SpokenInOrder` | `PipeInv`. `QueueInv`: the sentences in the channel are the next ones, and none is missing unless the turn is cancelled and its answer has an error. `FeedInv`: what was written, the prebuffer and the channel of packets are consecutive packets up to the one fetched last. `RestInv`: between two sentences the one announced last was spoken whole. Needed because the property speaks of the wire, while order and completeness are decided two channels earlier |
| `NothingLostSilently` | `[]NoSilentLoss` | the same invariant: a reply that ends without an error has emptied the channel of sentences, and none of them is missing |
| `LoopImplemented` | `ImplementsLoop`: each step is one of `SentenceLoop` or a stutter | the same invariant, one lemma for each kind of step. Needed for `SentenceStart`, which must count the sentences not announced yet, and for `SentencesEnd`, which may leave some over only when the turn is cancelled |

`EventStore_proofs`, for any threads, limit, number of events and number of
torn writes and crashes:

| Theorem | Says | Rests on |
|---|---|---|
| `LogKeepsToItsLimit` | `RetainsAtMostLimit` | `CountCovers`: the count covers the file but for the lines whose `close()` failed and an unfinished one. Needed because `Append()` decides by the count, never by the file. `CallsInOrder`: no thread gets to writing before the log was counted, and a prune renames at most `Limit` lines |
| `RatingsAreKept` | `[]RatingsStick` | `RatingsKept`: the lines a thread is about to rename over the file hold every rating. Needed because they were read some steps earlier; that no rating is stored in between is `Exclusive`, the mutex |
| `LogImplemented` | `ImplementsLog`: each step is one of `EventLog` or a stutter | `LogInv`. `LinesInHand`: what a thread will rename over the file is still made of the file. `IdsInv`: the lines are in the order in which their events were appended, and the one being appended is newer than all of them (`Own`). Lemmas on what the newest lines of a log are after a line is appended, spoilt or rated |
| `LossesAreTears` | `[]OneLossPerTear` | `LossInv` and the invariants above: the acknowledged events missing from the newest lines (`LostOf`) number no more than the tears, and are fewer while an unfinished line, or an append behind one (`Pending`), still has a loss to come. Needed because a tear costs an event only when a later append has continued the fragment and is acknowledged |
| `LogTypes` | `[]TypeOK` | `LogInv`, and `Counted`: the lines whose `close()` failed belong to as many different events, one of which is still being appended at most |

`SpeechCache_proofs`, for any requests, texts and cache sizes:

| Theorem | Says | Rests on |
|---|---|---|
| `CallsAreLed` | `[]OneLeaderPerCall` | itself inductive with the types of `pc`, `text` and `calls`. `NotLeading` covers every step that neither begins nor ends a call |
| `CachesStayBounded` | `[]CachesBounded` | `PrunedHasRoom`: a prune leaves room for the file that comes; `WithoutOne`: a file that is replaced leaves its place |

`VoiceSession_proofs`, first of the playback of one reply, for any length of a
response and any capacity and thresholds with `Rebuffer <= Prebuffer <= Capacity`:

| Theorem | Says | Rests on |
|---|---|---|
| `TypeCorrect` | `[]TypeOK`, the buffer's bounds with it | `SentOnce`: a line is sent and played at most once, counting the one in a task's hands |
| `StorageOutlivesPlayback` | `[]PlaybackEndsFirst` | `NotifiedLast`: the notification is the playback's last step |
| `CleanReplyIsPlayed` | `[]CleanReplyPlayed` | `CleanSoFar`: while nothing failed, no line was lost and the playback closes an empty buffer only after the producer. Needed because `Empty` tests `producer_done` and the buffer after the receive that found it empty |

Then of whole sessions, for any lengths of ring, silences, waits and buffer with
`2 <= StartFrames <= PreRoll <= MaxFrames` and `1 <= Trailing <= EndSilence`, as
the code's constants are, and any reply:

| Theorem | Says | Rests on |
|---|---|---|
| `SpeechIsCapturedWhole` | `[]CapturedWhole` | `DetectorInv`. Before speech the array is a ring (`RingOf`): which frame lies where depends on whether it is full yet, and `RotationOrders` shows that the rotation puts them in order. During speech it is one piece (`PieceOf`) that ends with the frame just read, and `lastActive` lies `quiet` frames before it, so that what is cut off is silence |
| `ListeningEnds` | `[]ListeningBounded` | the same invariant: speech that has started did so within the wait, and an ignored sound starts again with no loud frame counted. Needed because the wait is only looked at before speech |
| `TurnsDoNotOverlap` | `[]PlaybackEndsFirst` for sessions | `SessionPlays`: a step of the session is a step of the playback, begins a reply or clears one; with the invariants of one reply |
| `EveryReplyIsPlayed` | `[]CleanReplyPlayed` for sessions | the same: nothing of one reply is left for the next |

`Conversation_proofs`, for any rounds, replies, utterances and length of the
history, with fewer turns than stories:

| Theorem | Says | Rests on |
|---|---|---|
| `TypeCorrect` | `[]TypeOK` | lemmas on what each operator of `DogActivity` returns |
| `AnswersJudgedFairly` | `[]JudgedRound` | `GameHeard`: if the last turn is one of a game, its question is the one the child heard, unless that is a mismatch. Needed because a game is carried on from the remembered turns while the property speaks of what was heard |
| `StopHeard` | `[]StopAlwaysHeard` | that none of the continuations, offers and clarifications that are tried before takes a stop for its answer, but for a stop that names an animal where one may be the answer (`AnimalExpected`, see 5) |
| `SurprisesKeepDistance` | `[]SurprisesSpaced` | `SurpriseCounted`: a recent surprise is still among the turns, or a mark of it is, although they are cut and expire |
| `StoriesNotRepeated` | `[]StoriesDiffer` | a pigeonhole: with fewer turns than stories one is left over, so that the choice never falls back to all |

`ToyPage_proofs`, for any number of presses:

| Theorem | Says | Rests on |
|---|---|---|
| `RecordingsEnd` | `[]RecordingIsTimed` | `PageTypes` and `Begun`: the recorder in the state is that of a press whose microphone is live, also when another press's microphone is refused |
| `MicIsOffInReplies` | `[]MicOffUnlessHasty` | `OneAtATime`: without haste a waiting press is held and waits alone, and the page is then neither busy nor recording; a live microphone is the one being recorded, or the track of a recorder that failed, which the property allows; and one chain at most is on its way. Needed because `Finish` sets the phase to idle for all presses, so that `busy` alone would not show that no chain is left |

`VoiceUpload_proofs`, for any requests, limits and number of restarts:

| Theorem | Says | Rests on |
|---|---|---|
| `TurnsAreSeen` | `[]SeesAnsweredTurns` | `Known`: a request's history is the turns m + 1 to n for some m and n, the turns it must know are among the first n, and turn m is lost unless it is pushed out by a full history. Needed because turns are appended, expire and are dropped between `History()` and `Append()`; it stays true since turns are only added and lost ones stay lost. `Appended` says that no turn comes twice, so that places can be compared; `LastTurnsIs` says where a history begins, with `MaxIsGreatest` |
| `RecordingsAreFound` | `[]SavedIsFound` | `Owned`: whose file is in the directory, by the step its save is at, and no two files have one time. `Chosen`: a prune has condemned a recording only if `Limit` others are newer. Needed because the removal comes steps after the listing; it stays true since files only get newer |
| `DirectoryIsBounded` | `[]DirectoryBounded` | `Pruned`: the prunes can be ranked by their listings so that each leaves at most `Limit` recordings of those listed before it, and a save that is done has the last listing of all that are done. Needed because no state shows which prune saw which files: a save may be done while an older listing still waits to remove. `NewestKept` counts what a listing leaves; `LeastTime` shows that a prune always has an oldest file to remove |

The assumptions are those of the modules: timeouts, capacities and limits are
positive, and the numbers of sentences, messages, events and failures are natural
numbers. Each proof is `Init => Inv`, `Inv /\ [Next]_vars => Inv'` with one step
per action, and a last step by temporal logic. Strengthenings
that a run checks too are in the modules next to the properties, the others in the
proof modules.

Every safety invariant and action property that a passing run checks is stated by
a theorem, and so are the two refinements. Only model-checked is liveness, since
the prover has no rules for fairness and ENABLED: `SessionEnds`,
`CancelledTurnEnds`, `VolumesAgree`, `EveryRequestAnswered`, `ButtonComesBack`,
`MicReleased`, `ReplyEnds` and `QuietEndsSession`.

## 5. Where code and documents disagree

  - `MCXiaozhiRefresh`: docs/deploy-r2s-xiaozhi.md:164 says that babble does not
    refresh the active time. `resumeFromStandby()` takes the device's own "listen
    start" after a reply for a wake word when standby was claimed while the babble
    was being transcribed.
  - `MCToyPageMic`: README.md:305 says that the microphone's track is stopped
    before a reply is played. Two presses during the permission prompt, one finger
    after the other or two at once, start two recorders, and the second one records
    during the first one's reply. `MicOffUnlessHasty` shows that it takes two presses
    that wait together or a finger lifted while its press waits; apart from these
    only the track of a recorder that failed is left on.
  - `MCVoicePlaybackLost`: both tasks of the board assign `state.error`
    unconditionally, so that the codec's failure to open is overwritten by the
    next line's ESP_OK. The reply is then reported as played although nothing was
    heard, and the session goes on (firmware/esp32-s3-audio-board/README.md:19:
    a session also ends after a failed turn).

Met while modelling, without a run of their own:

  - README.md:464 promises stories "without repeating within the current session".
    `storyReply()` excludes those of the remembered turns, at most four and 90
    seconds old, and the mock engine excludes none. `StoriesDiffer` says what holds.
  - README.md:261 says that a leading 豆豆 or 小狗小狗 is stripped, and
    dog_test.go:67 and 76 take 小狗晚安 for a goodbye and 小狗别说了 for a stop.
    `continueRecentActivity()` gets the text with that address (activity.go:303), so
    that after a turn of the animal game or a spell the dog in it is judged as an
    answer (activity.go:618, 579) before any stop is looked for, as a rabbit or a fish is
    in a journey or a shop. That is the exception of `StopAlwaysHeard`
    (`AnimalExpected`), and the only one: the utterances `bye` and `hush` name an animal.
  - firmware/esp32-s3-audio-board/README.md:26 describes a cue at the end of
    a capture; the automatic captures of follow-up turns play none.
  - `ClarificationReply()` has a clause for a babble among the remembered turns,
    which `shouldRememberConversation()` keeps out of them, and `PlanSceneSurprise()`
    a limit of two surprises, which a history of four turns with three between
    surprises cannot hold: neither is reached from the server.
  - A reply aborted half-way, and a response whose client has left, are
    remembered as if they had been heard (hazards `xiaozhi.go:523` and
    `JudgedRound`'s exception `Mismatch`).

## 6. What is not modelled, and why

  - The content of speech, transcripts, prompts and replies; the classification
    of a transcript is a choice among the kinds that lead to different control
    flow.
  - Provider clients, start-up, the replay tool: sequential code without shared
    state, external to the modelled components. Their results appear as the
    outcomes the callers tell apart.
  - Device telemetry: the same append, count and prune as the event log, without
    ratings. Audio trimming and the parent page: pure functions, and a page that
    redraws what it polls.
  - The board's drivers and Wi-Fi: SDK calls. A codec call may fail wherever the
    code looks at its result.
  - A panic of a handler, which `net/http` recovers; a codec that blocks for
    longer than the 120 s the voice client waits for it.
  - Several connections of one device. They share `xiaozhiInfo.Connected`, which
    is listed as a hazard.
  - A process killed in `SpeechCache.Put()` between `CreateTemp()` and the deferred
    removal: it leaves a `.speech-*.tmp` file that `entriesLocked()` never lists
    (speech_cache.go:106, 185). `PutFile` is one step, and `CachesBounded` counts
    the `.tts` files only. (`RecordingStore` does model the same of recordings.)
  - The 10 s deadline of a write to a Xiaozhi device that is still connected
    (xiaozhi.go:756): `WriteFails` only when the link is gone. The two locked
    claims of `claimVoiceStandby()` (xiaozhi.go:603, 607) are one step.
  - Files with one modification time: `RecordingStore` gives every creation and
    write a time of its own.
  - What some properties leave uncaught, as the notes of the hazards say: an
    abort that waits behind the audio for the end of the reply (`SessionEnds`
    sees only a block for ever), a volume whose second step is lost
    (`VolumesAgree`), an answer to a question the session does not remember
    (`Mismatch` in `JudgedRound`).

## 7. Plan

What is left, in this order:

 1. Several Xiaozhi connections of one device, and the recogniser's socket
    reader (`readRealtimeEvents()`), the two hazards at the connection that no
    property covers.
 2. `DeviceTelemetry` as a second implementation of the abstract log.
 3. Pure functions against reference definitions: `audio_trim.go`, the Ogg page
    parser, `resampleVoiceRecording()`.
 4. The parent page's polling and rating.
 5. Proofs: the safety that the liveness properties rest on, such as that a
    cancelled turn always has a goroutine that can go on, so that TLC is left with
    fairness alone.
