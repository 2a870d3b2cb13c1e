------------------------- MODULE SpeechCache_proofs -------------------------
(***************************************************************************)
(* What SpeechCache guarantees for any number of requests and texts and    *)
(* any size of its caches.                                                 *)
(***************************************************************************)
EXTENDS SpeechCache, SequenceTheorems, FiniteSetTheorems, TLAPS

\* The part of TypeOK that the calls in progress depend on.
CallTypes ==
    /\ pc \in [Requests -> Leading \union {"idle", "lookup", "wait", "streamLookup",
                 "remember", "stream", "streamPut", "done"}]
    /\ text \in [Requests -> Texts]
    /\ calls \in [Texts -> Requests \union {NoOne}]

Led == CallTypes /\ OneLeaderPerCall

\* A request that neither begins nor ceases to lead leaves the calls as they are.
LEMMA NotLeading ==
    ASSUME Led, NEW r \in Requests, NEW from, NEW to,
           from \in Leading <=> to \in Leading,
           to \in Leading \union {"idle", "lookup", "wait", "streamLookup",
                 "remember", "stream", "streamPut", "done"},
           Goes(r, from, to), UNCHANGED <<text, calls>>
    PROVE  Led'
BY CacheAssumption, SMT DEF Led, CallTypes, OneLeaderPerCall, Goes, Leading

\* Only a text nobody synthesizes gets a leader.
LEMMA LookupStep ==
    ASSUME Led, NEW r \in Requests, Lookup(r)
    PROVE  Led'
<1>1. CASE calls' = calls
    <2>1. Goes(r, "lookup", "done") \/ Goes(r, "lookup", "wait")
        BY <1>1, CacheAssumption, SMT
        DEF Lookup, Ends, Goes, Led, CallTypes, OneLeaderPerCall
    <2>2. UNCHANGED text BY DEF Lookup
    <2>3. QED BY <1>1, <2>1, <2>2, NotLeading DEF Leading
<1>2. CASE calls' # calls
    <2>1. /\ Goes(r, "lookup", "disk") /\ UNCHANGED text
          /\ calls[text[r]] = NoOne /\ calls' = [calls EXCEPT ![text[r]] = r]
        BY <1>2 DEF Lookup
    <2>2. QED
        BY <2>1, CacheAssumption, SMT DEF Led, CallTypes, OneLeaderPerCall, Goes, Leading
<1>3. QED BY <1>1, <1>2

\* Only its leader unregisters a call.
LEMMA CompleteStep ==
    ASSUME Led, NEW r \in Requests, Complete(r)
    PROVE  Led'
<1>1. /\ Goes(r, "complete", "done") /\ UNCHANGED text
      /\ calls' = [calls EXCEPT ![text[r]] = NoOne]
    BY DEF Complete, request
<1>2. QED BY <1>1, CacheAssumption, SMT DEF Led, CallTypes, OneLeaderPerCall, Goes, Leading

\* Every other step of a request.
LEMMA ServeStep ==
    ASSUME Led, NEW r \in Requests, Start(r) \/ ClientLeaves(r) \/ Serve(r)
    PROVE  Led'
<1> USE DEF Leading, Ends, request
<1>1. CASE Start(r) BY <1>1, NotLeading DEF Start
<1>2. CASE ClientLeaves(r)
    BY <1>2 DEF ClientLeaves, Led, CallTypes, OneLeaderPerCall
<1>3. CASE Lookup(r) BY <1>3, LookupStep
<1>4. CASE Follow(r) BY <1>4, NotLeading DEF Follow
<1>5. CASE DiskGet(r) BY <1>5, NotLeading DEF DiskGet
<1>6. CASE Speak(r) BY <1>6, NotLeading DEF Speak
<1>7. CASE Put(r) BY <1>7, NotLeading DEF Put
<1>8. CASE Complete(r) BY <1>8, CompleteStep
<1>9. CASE StreamLookup(r) BY <1>9, NotLeading DEF StreamLookup
<1>10. CASE StreamRemember(r) BY <1>10, NotLeading DEF StreamRemember
<1>11. CASE Stream(r) BY <1>11, NotLeading DEF Stream
<1>12. CASE StreamPut(r) BY <1>12, NotLeading DEF StreamPut
<1>13. QED
    BY <1>1, <1>2, <1>3, <1>4, <1>5, <1>6, <1>7, <1>8, <1>9, <1>10, <1>11, <1>12 DEF Serve

\* A text is synthesized by one request at a time, and nobody joins a call that
\* has no leader (synthesizeSpeechWithCache(), completeSpeechCall()), whatever
\* fails, leaves or restarts.
THEOREM CallsAreLed == Spec => []OneLeaderPerCall
<1>1. Init => Led
    BY CacheAssumption, SMT DEF Init, Led, CallTypes, OneLeaderPerCall, Leading
<1>2. Led /\ [Next]_vars => Led'
    <2> SUFFICES ASSUME Led, [Next]_vars PROVE Led'
        OBVIOUS
    <2>1. CASE Crash
        BY <2>1, CacheAssumption, SMT
        DEF Crash, request, Led, CallTypes, OneLeaderPerCall, Leading
    <2>2. CASE \E r \in Requests : Start(r) \/ ClientLeaves(r) \/ Serve(r)
        BY <2>2, ServeStep
    <2>3. CASE UNCHANGED vars
        BY <2>3 DEF vars, request, Led, CallTypes, OneLeaderPerCall
    <2>4. QED BY <2>1, <2>2, <2>3 DEF Next
<1>3. QED BY <1>1, <1>2, PTL DEF Spec, Led

-----------------------------------------------------------------------------
(* The bounds of the caches                                                *)

CacheFiles == [text : Texts, form : Forms, sound : BOOLEAN]

\* The part of TypeOK that the bounds depend on, and the bounds.
Bounded ==
    /\ text \in [Requests -> Texts] /\ disk \in Seq(CacheFiles)
    /\ IsFiniteSet(memory) /\ CachesBounded

\* Removing the file of a key removes one file, if there is one.
LEMMA WithoutOne ==
    ASSUME NEW s \in Seq(CacheFiles), NEW t, NEW f
    PROVE  /\ Without(s, t, f) \in Seq(CacheFiles)
           /\ Len(Without(s, t, f)) =
                  IF \E i \in DOMAIN s : IsFile(s[i], t, f) THEN Len(s) - 1 ELSE Len(s)
<1>1. CASE ~\E i \in DOMAIN s : IsFile(s[i], t, f) BY <1>1 DEF Without
<1>2. CASE \E i \in DOMAIN s : IsFile(s[i], t, f)
    <2> DEFINE k == CHOOSE i \in DOMAIN s : IsFile(s[i], t, f)
               a == SubSeq(s, 1, k - 1)
               b == SubSeq(s, k + 1, Len(s))
    <2>1. k \in 1 .. Len(s) /\ Len(s) \in Nat BY <1>2, LenProperties
    <2>2. Without(s, t, f) = a \o b BY <1>2 DEF Without, RemoveAt
    <2> HIDE DEF k
    <2>3. /\ a \in Seq(CacheFiles) /\ Len(a) = k - 1
          /\ b \in Seq(CacheFiles) /\ Len(b) = Len(s) - k
        BY <2>1, SMT
    <2> HIDE DEF a, b
    <2>4. a \o b \in Seq(CacheFiles) /\ Len(a \o b) = Len(a) + Len(b)
        BY <2>3, ConcatProperties
    <2>5. Len(a \o b) = Len(s) - 1 BY <2>1, <2>3, <2>4, SMT
    <2>6. QED BY <1>2, <2>2, <2>4, <2>5
<1>3. QED BY <1>1, <1>2

\* prune() leaves room for the file to come, or for the one it replaces.
LEMMA PrunedHasRoom ==
    ASSUME Bounded, NEW t, NEW f
    PROVE  /\ Pruned(t, f) \in Seq(CacheFiles) /\ Len(Pruned(t, f)) <= DiskLimit
           /\ Len(Without(Pruned(t, f), t, f)) < DiskLimit
           /\ Without(Pruned(t, f), t, f) \in Seq(CacheFiles)
<1>1. /\ disk \in Seq(CacheFiles) /\ Len(disk) \in Nat /\ Len(disk) <= DiskLimit
      /\ DiskLimit \in Nat /\ DiskLimit >= 1
    BY CacheAssumption, LenProperties, SMT DEF Bounded, CachesBounded
<1>2. CASE Stored(t, f)
    <2>1. Pruned(t, f) = disk BY <1>2 DEF Pruned
    <2>2. Len(Without(disk, t, f)) = Len(disk) - 1 BY <1>1, <1>2, WithoutOne DEF Stored
    <2>3. Len(disk) - 1 < DiskLimit BY <1>1, SMT
    <2>4. QED BY <1>1, <2>1, <2>2, <2>3, WithoutOne
<1>3. CASE ~Stored(t, f) /\ Len(disk) < DiskLimit
    <2>1. Pruned(t, f) = disk BY <1>3 DEF Pruned
    <2>2. Len(Without(disk, t, f)) = Len(disk) BY <1>1, <1>3, WithoutOne DEF Stored
    <2>3. QED BY <1>1, <1>3, <2>1, <2>2, WithoutOne
<1>4. CASE ~Stored(t, f) /\ ~(Len(disk) < DiskLimit)
    <2> DEFINE p == SubSeq(disk, Len(disk) - DiskLimit + 2, Len(disk))
    <2>1. Pruned(t, f) = p BY <1>4 DEF Pruned
    <2>2. p \in Seq(CacheFiles) /\ Len(p) = DiskLimit - 1 BY <1>1, <1>4, SMT
    <2> HIDE DEF p
    <2>3. /\ Without(p, t, f) \in Seq(CacheFiles)
          /\ Len(Without(p, t, f)) = Len(p) \/ Len(Without(p, t, f)) = Len(p) - 1
        BY <2>2, WithoutOne
    <2>4. Len(p) <= DiskLimit /\ Len(Without(p, t, f)) < DiskLimit
        BY <1>1, <2>2, <2>3, SMT
    <2>5. QED BY <2>1, <2>2, <2>3, <2>4
<1>5. QED BY <1>2, <1>3, <1>4

\* What a request leaves on the disk.
DiskKept == disk' \in Seq(CacheFiles) /\ Len(disk') <= DiskLimit

\* A file that was stored, not stored, or lost in between keeps the bound.
LEMMA PutKeeps ==
    ASSUME Bounded, NEW t \in Texts, NEW f \in Forms, PutFile(t, f)
    PROVE  DiskKept
<1> DEFINE w == Without(Pruned(t, f), t, f)
<1>1. CASE disk' = disk BY <1>1 DEF Bounded, CachesBounded, DiskKept
<1>2. CASE disk' = Pruned(t, f) BY <1>2, PrunedHasRoom DEF DiskKept
<1>3. CASE disk' = Append(w, File(t, f, TRUE))
    <2>1. w \in Seq(CacheFiles) /\ Len(w) < DiskLimit BY PrunedHasRoom
    <2>2. File(t, f, TRUE) \in CacheFiles BY DEF File, CacheFiles
    <2> HIDE DEF w
    <2>3. disk' \in Seq(CacheFiles) /\ Len(disk') = Len(w) + 1 /\ Len(w) \in Nat
        BY <1>3, <2>1, <2>2, AppendProperties, LenProperties
    <2>4. Len(disk') <= DiskLimit BY <2>1, <2>3, CacheAssumption, SMT
    <2>5. QED BY <2>3, <2>4 DEF DiskKept
<1>4. QED BY <1>1, <1>2, <1>3 DEF PutFile

\* So does the removal of a damaged file.
LEMMA RemovalKeeps ==
    ASSUME Bounded, NEW t, NEW f, disk' = disk \/ disk' = Without(disk, t, f)
    PROVE  DiskKept
<1>1. disk \in Seq(CacheFiles) /\ Len(disk) <= DiskLimit /\ Len(disk) \in Nat
    BY LenProperties DEF Bounded, CachesBounded
<1>2. /\ Without(disk, t, f) \in Seq(CacheFiles)
      /\ \/ Len(Without(disk, t, f)) = Len(disk)
         \/ Len(Without(disk, t, f)) = Len(disk) - 1
    BY <1>1, WithoutOne
<1>3. Len(disk') <= DiskLimit BY <1>1, <1>2, CacheAssumption, SMT
<1>4. QED BY <1>1, <1>2, <1>3 DEF DiskKept

MemoryKept == IsFiniteSet(memory') /\ Cardinality(memory') <= MemoryLimit

\* An entry takes the place of another when the memory cache is full.
LEMMA RememberKeeps ==
    ASSUME Bounded, NEW t, Remember(t)
    PROVE  MemoryKept
<1>1. /\ IsFiniteSet(memory) /\ Cardinality(memory) \in Nat
      /\ Cardinality(memory) <= MemoryLimit /\ MemoryLimit \in Nat
    BY CacheAssumption, FS_CardinalityType DEF Bounded, CachesBounded
<1>2. ASSUME NEW m, IsFiniteSet(m), Cardinality(m) \in Nat, Cardinality(m) < MemoryLimit,
             memory' = m \union {t}
      PROVE  MemoryKept
    <2>1. /\ IsFiniteSet(memory')
          /\ Cardinality(memory') = Cardinality(m) \/ Cardinality(memory') = Cardinality(m) + 1
        BY <1>2, FS_AddElement
    <2>2. Cardinality(memory') <= MemoryLimit BY <1>1, <1>2, <2>1, SMT
    <2>3. QED BY <2>1, <2>2 DEF MemoryKept
<1>3. CASE Cardinality(memory) >= MemoryLimit
    <2>1. PICK victim \in memory : memory' = (memory \ {victim}) \union {t}
        BY <1>3 DEF Remember
    <2>2. /\ IsFiniteSet(memory \ {victim})
          /\ Cardinality(memory \ {victim}) = Cardinality(memory) - 1
        BY <1>1, FS_RemoveElement
    <2>3. Cardinality(memory \ {victim}) \in Nat BY <2>2, FS_CardinalityType
    <2>4. Cardinality(memory \ {victim}) < MemoryLimit BY <1>1, <2>2, SMT
    <2>5. QED BY <1>2, <2>1, <2>2, <2>3, <2>4
<1>4. CASE ~(Cardinality(memory) >= MemoryLimit)
    <2>1. Cardinality(memory) < MemoryLimit BY <1>1, <1>4, SMT
    <2>2. QED BY <1>1, <1>2, <1>4, <2>1 DEF Remember
<1>5. QED BY <1>3, <1>4

\* Every step keeps both caches within their bounds.
LEMMA BoundedStep == Bounded /\ [Next]_vars => Bounded'
<1> SUFFICES ASSUME Bounded, [Next]_vars PROVE Bounded'
    OBVIOUS
<1> USE DEF request
<1>a. ASSUME DiskKept, MemoryKept, UNCHANGED text PROVE Bounded'
    BY <1>a DEF Bounded, CachesBounded, DiskKept, MemoryKept
<1>d. ASSUME UNCHANGED disk PROVE DiskKept
    BY <1>d DEF Bounded, CachesBounded, DiskKept
<1>m. ASSUME UNCHANGED memory PROVE MemoryKept
    BY <1>m DEF Bounded, CachesBounded, MemoryKept
<1>t. \A r \in Requests : text[r] \in Texts BY DEF Bounded
<1>1. ASSUME NEW r \in Requests,
             Start(r) \/ ClientLeaves(r) \/ Lookup(r) \/ Follow(r) \/ Speak(r) \/ Stream(r)
      PROVE  Bounded'
    <2>1. UNCHANGED <<text, memory, disk>>
        BY <1>1, Zenon DEF Start, ClientLeaves, Lookup, Follow, Speak, Stream
    <2>2. QED BY <2>1, <1>a, <1>d, <1>m
<1>2. ASSUME NEW r \in Requests, DiskGet(r) \/ StreamLookup(r) PROVE Bounded'
    <2>1. UNCHANGED <<text, memory>> BY <1>2 DEF DiskGet, StreamLookup
    <2>2. PICK f : disk' = disk \/ disk' = Without(disk, text[r], f)
        <3>1. CASE DiskGet(r) BY <3>1 DEF DiskGet
        <3>2. CASE StreamLookup(r) BY <3>2 DEF StreamLookup
        <3>3. QED BY <1>2, <3>1, <3>2
    <2>3. DiskKept BY <2>2, RemovalKeeps
    <2>4. QED BY <2>1, <2>3, <1>a, <1>m
<1>3. ASSUME NEW r \in Requests, Put(r) \/ StreamPut(r) PROVE Bounded'
    <2>1. UNCHANGED <<text, memory>> BY <1>3 DEF Put, StreamPut
    <2>2. PICK f \in Forms : PutFile(text[r], f) BY <1>3 DEF Put, StreamPut, Forms
    <2>3. DiskKept BY <2>2, <1>t, PutKeeps
    <2>4. QED BY <2>1, <2>3, <1>a, <1>m
<1>4. ASSUME NEW r \in Requests, Complete(r) \/ StreamRemember(r) PROVE Bounded'
    <2>1. UNCHANGED <<text, disk>> BY <1>4 DEF Complete, StreamRemember
    <2>2. Remember(text[r]) \/ UNCHANGED memory BY <1>4 DEF Complete, StreamRemember
    <2>3. MemoryKept BY <2>2, <1>m, RememberKeeps
    <2>4. QED BY <2>1, <2>3, <1>a, <1>d
<1>5. CASE Crash
    <2>1. memory' = {} /\ text' = text BY <1>5 DEF Crash
    <2>2. MemoryKept BY <2>1, FS_EmptySet, CacheAssumption, SMT DEF MemoryKept
    <2>3. CASE UNCHANGED disk BY <2>1, <2>2, <2>3, <1>a, <1>d
    <2>4. CASE disk # <<>> /\ disk' = [disk EXCEPT ![Len(disk)].sound = FALSE]
        <3> DEFINE e == [disk[Len(disk)] EXCEPT !.sound = FALSE]
        <3>1. disk \in Seq(CacheFiles) /\ Len(disk) <= DiskLimit
            BY DEF Bounded, CachesBounded
        <3>2. Len(disk) \in 1 .. Len(disk) /\ Len(disk) \in Nat BY <2>4, <3>1, SMT
        <3>3. disk[Len(disk)] \in CacheFiles BY <3>1, <3>2, ElementOfSeq
        <3>4. e \in CacheFiles BY <3>3 DEF CacheFiles
        <3>5. disk' = [disk EXCEPT ![Len(disk)] = e] BY <2>4
        <3> HIDE DEF e
        <3>6. disk' \in Seq(CacheFiles) /\ Len(disk') = Len(disk)
            BY <3>1, <3>2, <3>4, <3>5, ExceptSeq
        <3>7. QED BY <2>1, <2>2, <3>1, <3>6, <1>a DEF DiskKept
    <2>5. QED BY <1>5, <2>3, <2>4 DEF Crash
<1>6. CASE UNCHANGED vars BY <1>6, <1>a, <1>d, <1>m DEF vars
<1>7. QED BY <1>1, <1>2, <1>3, <1>4, <1>5, <1>6 DEF Next, Serve

\* The directory of speech files and the memory cache keep to their limits,
\* whichever files are replaced or damaged, whichever writes fail halfway and
\* however many requests store at once (SpeechDiskCache.Put(), pruneLocked(),
\* completeSpeechCall()).
THEOREM CachesStayBounded == Spec => []CachesBounded
<1>1. Init => Bounded
    <2> SUFFICES ASSUME Init PROVE Bounded
        OBVIOUS
    <2>1. disk = <<>> /\ memory = {} BY DEF Init
    <2>2. disk \in Seq(CacheFiles) /\ Len(disk) = 0 BY <2>1, EmptySeq
    <2>3. IsFiniteSet(memory) /\ Cardinality(memory) = 0 BY <2>1, FS_EmptySet
    <2>4. CachesBounded BY <2>2, <2>3, CacheAssumption, SMT DEF CachesBounded
    <2>5. QED BY <2>2, <2>3, <2>4 DEF Init, Bounded
<1>2. Bounded => CachesBounded BY DEF Bounded
<1>3. QED BY <1>1, <1>2, BoundedStep, PTL DEF Spec
=============================================================================
