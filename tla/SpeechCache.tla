----------------------------- MODULE SpeechCache ----------------------------
(***************************************************************************)
(* Synthesis of reply audio: synthesizeSpeechWithCache(), which coalesces  *)
(* concurrent requests for one text behind a leader, the streaming variant *)
(* of handleSpeechStream(), the memory cache under speechMu and the disk   *)
(* cache under its own mutex (internal/server/server.go, speech_cache.go). *)
(* Audio is identified with its text.                                      *)
(***************************************************************************)
EXTENDS Naturals, SequencesExt, FiniteSets

CONSTANTS
    Requests, Texts, NoOne,
    MemoryLimit,      \* maxSpeechCacheEntries, 128
    DiskLimit,        \* PUPBOX_TTS_CACHE_LIMIT
    MaxCrashes        \* process restarts in a behaviour

ASSUME CacheAssumption ==
    /\ NoOne \notin Requests
    /\ MemoryLimit \in Nat \ {0} /\ DiskLimit \in Nat \ {0} /\ MaxCrashes \in Nat

VARIABLES
    pc, text,    \* where each request is, and its text
    live,        \* its client is still there
    outcome,     \* "audio", "error" or "cancelled" once it is known
    waits,       \* the leader whose call a coalesced request waits for
    memory,      \* speechCache
    calls,       \* speechCalls: the leader of each text being synthesized
    disk,        \* cache files, oldest first; a damaged one does not decode
    crashes,
    streaming    \* the configured provider can stream speech

request == <<text, live, waits, streaming>>
vars == <<pc, request, outcome, memory, calls, disk, crashes>>

Forms == {"complete", "stream"}
File(t, f, sound) == [text |-> t, form |-> f, sound |-> sound]
IsFile(e, t, f) == e.text = t /\ e.form = f
Stored(t, f) == \E i \in DOMAIN disk : IsFile(disk[i], t, f)
Sound(t, f)  == \E i \in DOMAIN disk : IsFile(disk[i], t, f) /\ disk[i].sound
\* A key has one path, and so one file at most.
Without(files, t, f) ==
    IF \E i \in DOMAIN files : IsFile(files[i], t, f)
    THEN RemoveAt(files, CHOOSE i \in DOMAIN files : IsFile(files[i], t, f))
    ELSE files

Init ==
    /\ pc = [r \in Requests |-> "idle"] /\ text \in [Requests -> Texts]
    /\ live = [r \in Requests |-> TRUE]
    /\ outcome = [r \in Requests |-> "none"] /\ waits = [r \in Requests |-> NoOne]
    /\ memory = {} /\ calls = [t \in Texts |-> NoOne] /\ disk = <<>> /\ crashes = 0
    /\ streaming \in BOOLEAN

Goes(r, from, to) == pc[r] = from /\ pc' = [pc EXCEPT ![r] = to]
Ends(r, from, how) == Goes(r, from, "done") /\ outcome' = [outcome EXCEPT ![r] = how]

\* handleSpeech(), a reply or the prewarming ask for complete audio, the page
\* for a stream.
Start(r) ==
    /\ Goes(r, "idle", "lookup") \/ Goes(r, "idle", "streamLookup")
    /\ UNCHANGED <<request, outcome, memory, calls, disk, crashes>>

ClientLeaves(r) ==
    /\ pc[r] \notin {"idle", "done"} /\ live[r] /\ live' = [live EXCEPT ![r] = FALSE]
    /\ UNCHANGED <<pc, text, waits, streaming, outcome, memory, calls, disk, crashes>>

-----------------------------------------------------------------------------
(* synthesizeSpeechWithCache()                                             *)

\* Under speechMu: memory, then a call in progress, else lead one.
Lookup(r) ==
    LET t == text[r] IN
    /\ \/ t \in memory /\ Ends(r, "lookup", "audio") /\ UNCHANGED <<waits, calls>>
       \/ /\ t \notin memory /\ calls[t] # NoOne /\ Goes(r, "lookup", "wait")
          /\ waits' = [waits EXCEPT ![r] = calls[t]] /\ UNCHANGED <<outcome, calls>>
       \/ /\ t \notin memory /\ calls[t] = NoOne /\ Goes(r, "lookup", "disk")
          /\ calls' = [calls EXCEPT ![t] = r] /\ UNCHANGED <<outcome, waits>>
    /\ UNCHANGED <<text, live, streaming, memory, disk, crashes>>

\* call.done is closed when the call is unregistered; a follower takes the
\* leader's outcome, error included, or leaves.
Follow(r) ==
    /\ pc[r] = "wait"
    /\ \/ calls[text[r]] # waits[r] /\ Ends(r, "wait", outcome[waits[r]])
       \/ ~live[r] /\ Ends(r, "wait", "cancelled")
    /\ UNCHANGED <<request, memory, calls, disk, crashes>>

\* SpeechDiskCache.Get(): a damaged file is removed; a read error is a miss.
DiskGet(r) ==
    LET t == text[r] IN
    /\ \/ /\ Sound(t, "complete") /\ Goes(r, "disk", "complete")
          /\ outcome' = [outcome EXCEPT ![r] = "audio"] /\ UNCHANGED disk
       \/ /\ Goes(r, "disk", "speak") /\ UNCHANGED outcome
          /\ disk' \in {disk} \union (IF Sound(t, "complete") THEN {}
                                      ELSE {Without(disk, t, "complete")})
    /\ UNCHANGED <<request, memory, calls, crashes>>

\* Mutant: an error returns without completing the call.
Speak_Abandons(r) ==
    /\ \/ Goes(r, "speak", "put") /\ outcome' = [outcome EXCEPT ![r] = "audio"]
       \/ Ends(r, "speak", "error")
    /\ UNCHANGED <<request, memory, calls, disk, crashes>>

\* voice.Speak() under the leader's own context.
Speak(r) ==
    /\ \/ Goes(r, "speak", "put") /\ outcome' = [outcome EXCEPT ![r] = "audio"]
       \/ Goes(r, "speak", "complete") /\ outcome' = [outcome EXCEPT ![r] = "error"]
       \/ ~live[r] /\ Goes(r, "speak", "complete")
          /\ outcome' = [outcome EXCEPT ![r] = "cancelled"]
    /\ UNCHANGED <<request, memory, calls, disk, crashes>>

\* pruneLocked(): make room for one file, unless it only replaces another.
\* Mutant: it leaves no room for the new one.
Pruned_OneShort(t, f) ==
    IF Stored(t, f) \/ Len(disk) <= DiskLimit THEN disk
    ELSE SubSeq(disk, Len(disk) - DiskLimit + 1, Len(disk))

Pruned(t, f) ==
    IF Stored(t, f) \/ Len(disk) < DiskLimit THEN disk
    ELSE SubSeq(disk, Len(disk) - DiskLimit + 2, Len(disk))

\* SpeechDiskCache.Put(): prune, then a temporary file renamed into place; it
\* may fail before pruning or after.
PutFile(t, f) ==
    disk' \in {disk, Pruned(t, f),
               Append(Without(Pruned(t, f), t, f), File(t, f, TRUE))}

Put(r) ==
    /\ Goes(r, "put", "complete") /\ PutFile(text[r], "complete")
    /\ UNCHANGED <<request, outcome, memory, calls, crashes>>

\* A full memory cache evicts an arbitrary entry, even to store one it has.
Remember(t) ==
    IF Cardinality(memory) >= MemoryLimit
    THEN \E victim \in memory : memory' = (memory \ {victim}) \union {t}
    ELSE memory' = memory \union {t}

\* Mutant: the finished call stays registered.
Complete_Keeps(r) ==
    /\ Goes(r, "complete", "done")
    /\ IF outcome[r] = "audio" THEN Remember(text[r]) ELSE UNCHANGED memory
    /\ UNCHANGED <<request, outcome, calls, disk, crashes>>

\* completeSpeechCall()
Complete(r) ==
    /\ Goes(r, "complete", "done")
    /\ IF outcome[r] = "audio" THEN Remember(text[r]) ELSE UNCHANGED memory
    /\ calls' = [calls EXCEPT ![text[r]] = NoOne]
    /\ UNCHANGED <<request, outcome, disk, crashes>>

-----------------------------------------------------------------------------
(* handleSpeechStream() and cachedSpeechForStream()                        *)

StreamLookup(r) ==
    LET t == text[r]
        f == IF streaming THEN "stream" ELSE "complete"
    IN
    /\ \/ /\ ~streaming /\ t \in memory
          /\ Ends(r, "streamLookup", "audio") /\ UNCHANGED disk
       \/ /\ streaming /\ Sound(t, f)
          /\ Ends(r, "streamLookup", "audio") /\ UNCHANGED disk
       \/ /\ ~streaming /\ t \notin memory /\ Sound(t, f)
          /\ Goes(r, "streamLookup", "remember") /\ UNCHANGED <<outcome, disk>>
       \/ /\ streaming \/ t \notin memory
          /\ Goes(r, "streamLookup", IF streaming THEN "stream" ELSE "lookup")
          /\ disk' \in {disk} \union (IF Sound(t, f) THEN {} ELSE {Without(disk, t, f)})
          /\ UNCHANGED outcome
    /\ UNCHANGED <<request, memory, calls, crashes>>

\* The complete audio found on disk is kept in memory.
StreamRemember(r) ==
    /\ Ends(r, "remember", "audio") /\ Remember(text[r])
    /\ UNCHANGED <<request, calls, disk, crashes>>

\* The stream ends well and is cached unless it is too long; breaks after audio
\* was sent; or fails before, and complete audio is the fallback.
Stream(r) ==
    /\ \/ Goes(r, "stream", "streamPut") /\ UNCHANGED outcome
       \/ Ends(r, "stream", "audio")
       \/ Ends(r, "stream", IF live[r] THEN "error" ELSE "cancelled")
       \/ Goes(r, "stream", "lookup") /\ UNCHANGED outcome
    /\ UNCHANGED <<request, memory, calls, disk, crashes>>

StreamPut(r) ==
    /\ Ends(r, "streamPut", "audio") /\ PutFile(text[r], "stream")
    /\ UNCHANGED <<request, memory, calls, crashes>>

-----------------------------------------------------------------------------
\* The process restarts: only the files survive, and the newest, renamed but not
\* synced, may be damaged.
Crash ==
    /\ crashes < MaxCrashes /\ crashes' = crashes + 1
    /\ pc' = [r \in Requests |-> IF pc[r] = "idle" THEN "idle" ELSE "done"]
    /\ outcome' = [r \in Requests |-> IF pc[r] \in {"idle", "done"} THEN outcome[r] ELSE "error"]
    /\ memory' = {} /\ calls' = [t \in Texts |-> NoOne]
    /\ \/ UNCHANGED disk
       \/ disk # <<>> /\ disk' = [disk EXCEPT ![Len(disk)].sound = FALSE]
    /\ UNCHANGED request

Serve(r) ==
    \/ Lookup(r) \/ Follow(r) \/ DiskGet(r) \/ Speak(r) \/ Put(r) \/ Complete(r)
    \/ StreamLookup(r) \/ StreamRemember(r) \/ Stream(r) \/ StreamPut(r)

AllServed == \A r \in Requests : pc[r] = "done"

Next ==
    \/ Crash
    \/ \E r \in Requests : Start(r) \/ ClientLeaves(r) \/ Serve(r)
    \/ AllServed /\ UNCHANGED vars

Spec == Init /\ [][Next]_vars

\* Each request's goroutine runs and its calls return.
Serves == \A r \in Requests : WF_vars(Serve(r))
FairSpec == Spec /\ Serves

-----------------------------------------------------------------------------
Leading == {"disk", "speak", "put", "complete"}

TypeOK ==
    /\ pc \in [Requests -> Leading \union {"idle", "lookup", "wait", "streamLookup",
                 "remember", "stream", "streamPut", "done"}]
    /\ text \in [Requests -> Texts] /\ live \in [Requests -> BOOLEAN]
    /\ outcome \in [Requests -> {"none", "audio", "error", "cancelled"}]
    /\ waits \in [Requests -> Requests \union {NoOne}]
    /\ \A r \in Requests : pc[r] = "wait" => waits[r] # NoOne
    /\ memory \subseteq Texts /\ calls \in [Texts -> Requests \union {NoOne}]
    /\ disk \in Seq([text : Texts, form : Forms, sound : BOOLEAN])
    /\ \A r \in Requests : pc[r] = "done" => outcome[r] # "none"
    /\ crashes \in 0..MaxCrashes /\ streaming \in BOOLEAN

\* A text is synthesized by one request at a time, and a registered call always
\* has a leader that will complete it: no request joins a call nobody serves.
OneLeaderPerCall ==
    /\ \A r \in Requests : pc[r] \in Leading => calls[text[r]] = r
    /\ \A t \in Texts : calls[t] # NoOne =>
           pc[calls[t]] \in Leading /\ text[calls[t]] = t

\* deploy-vps.md:248: PUPBOX_TTS_CACHE_LIMIT bounds the number of files, streams
\* and complete audio together, replaced, damaged and half-failed writes
\* included; the memory cache has its own bound.
CachesBounded == Len(disk) <= DiskLimit /\ Cardinality(memory) <= MemoryLimit

\* Every request is answered, whoever else fails, leaves or restarts the text.
EveryRequestAnswered ==
    \A r \in Requests : pc[r] # "idle" ~> pc[r] = "done"
=============================================================================
