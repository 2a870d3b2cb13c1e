-------------------------- MODULE EventStore_proofs -------------------------
(***************************************************************************)
(* What EventStore guarantees for any number of requests and events, any   *)
(* limit and any number of failures and crashes.                           *)
(***************************************************************************)
EXTENDS EventStore, FiniteSetTheorems, SequenceTheorems, TLAPS

Traces == 0 .. MaxEvents
Entries == [id : Traces, rated : BOOLEAN]

\* The types the arguments below need; those of the threads' control are in Exclusive.
Typed ==
    /\ file \in Seq(Entries) /\ lines \in [Threads -> Seq(Entries)]
    /\ (torn => file # <<>>)
    /\ id \in [Threads -> Traces] /\ next \in 1 .. (MaxEvents + 1)
    /\ count \in Nat /\ missed \in Nat

Busy == {"ensure", "trim", "append", "prune", "update", "rename"}

\* The mutex is held during a call.
Exclusive ==
    /\ pc \in [Threads -> Busy \union {"idle"}] /\ op \in [Threads -> {"append", "update"}]
    /\ mu \in Threads \union {None}
    /\ \A t \in Threads : pc[t] # "idle" <=> mu = t

\* An encoded event is a line, and so is a fragment of one.
LEMMA EntryIs ==
    /\ Bad \in Entries
    /\ \A i \in Traces : Entry(i, TRUE) \in Entries /\ Entry(i, FALSE) \in Entries
<1>1. 0 \in Traces BY BoundsAssumption, SMT DEF Traces
<1>2. QED BY <1>1, Zenon DEF Bad, Entry, Entries

\* The newest lines are lines, and no more than asked for.
LEMMA LastOfLines ==
    ASSUME NEW s \in Seq(Entries), NEW n \in Nat
    PROVE  /\ LastOf(s, n) \in Seq(Entries) /\ Len(LastOf(s, n)) <= n
           /\ \A j \in DOMAIN LastOf(s, n) : \E k \in DOMAIN s : LastOf(s, n)[j] = s[k]
<1>1. CASE Len(s) <= n BY <1>1, SMT DEF LastOf
<1>2. CASE ~(Len(s) <= n)
    <2> DEFINE m == Len(s) - n + 1
               l == SubSeq(s, m, Len(s))
    <2>1. LastOf(s, n) = l BY <1>2 DEF LastOf
    <2>2. m \in Nat /\ m >= 1 /\ Len(s) \in Nat BY <1>2, SMT
    <2>3. l \in Seq(Entries) /\ Len(l) = n BY <1>2, <2>2, SMT
    <2>4. \A j \in 1..n : l[j] = s[m + j - 1] /\ m + j - 1 \in 1..Len(s) BY <1>2, <2>2, SMT
    <2>5. DOMAIN l = 1..n /\ DOMAIN s = 1..Len(s) BY <2>3, SMT
    <2> HIDE DEF l, m
    <2>6. QED BY <2>1, <2>3, <2>4, <2>5
<1>3. QED BY <1>1, <1>2

\* Spoiling the last line keeps the others.
LEMMA SpoiltLine ==
    ASSUME NEW s \in Seq(Entries), s # <<>>
    PROVE  /\ [s EXCEPT ![Len(s)] = Bad] \in Seq(Entries)
           /\ Len([s EXCEPT ![Len(s)] = Bad]) = Len(s)
           /\ [s EXCEPT ![Len(s)] = Bad] # <<>>
           /\ \A j \in DOMAIN s : [s EXCEPT ![Len(s)] = Bad][j] \in {s[j], Bad}
           /\ DOMAIN [s EXCEPT ![Len(s)] = Bad] = DOMAIN s
<1>1. Bad \in Entries BY EntryIs
<1>2. Len(s) \in Nat /\ Len(s) > 0 /\ DOMAIN s = 1..Len(s) BY SMT
<1> DEFINE u == [s EXCEPT ![Len(s)] = Bad]
<1>3. u \in [1..Len(s) -> Entries] BY <1>1, <1>2, SMT
<1>4. u \in Seq(Entries) /\ Len(u) = Len(s) BY <1>2, <1>3, SMT
<1>5. u # <<>> BY <1>2, <1>4, SMT
<1>6. QED BY <1>2, <1>3, <1>4, <1>5

\* Appending a line keeps the others.
LEMMA AppendedLine ==
    ASSUME NEW s \in Seq(Entries), NEW d \in Entries
    PROVE  /\ Append(s, d) \in Seq(Entries) /\ Append(s, d) # <<>>
           /\ Len(Append(s, d)) = Len(s) + 1
           /\ \A j \in DOMAIN Append(s, d) :
                  Append(s, d)[j] = d \/ \E k \in DOMAIN s : Append(s, d)[j] = s[k]
<1>1. Append(s, d) \in Seq(Entries) /\ Len(Append(s, d)) = Len(s) + 1 /\ Len(s) \in Nat BY SMT
<1>2. Append(s, d) # <<>> BY <1>1, SMT
<1>3. \A j \in 1..(Len(s) + 1) : IF j = Len(s) + 1 THEN Append(s, d)[j] = d
                                                 ELSE j \in 1..Len(s) /\ Append(s, d)[j] = s[j]
    BY SMT
<1>4. DOMAIN Append(s, d) = 1..(Len(s) + 1) /\ DOMAIN s = 1..Len(s) BY <1>1, SMT
<1>5. QED BY <1>1, <1>2, <1>3, <1>4

\* A written line is appended, or continues the unfinished last one.
LEMMA WrittenLine ==
    ASSUME Typed, NEW e \in Entries, Written(e)
    PROVE  /\ file' \in Seq(Entries) /\ torn' = FALSE
           /\ Len(file') = Len(file) + (IF torn THEN 0 ELSE 1)
           /\ \A j \in DOMAIN file' :
                  file'[j] \in {Bad, e} \/ \E k \in DOMAIN file : file'[j] = file[k]
<1> USE DEF Typed
<1>1. CASE torn BY <1>1, SpoiltLine, SMT DEF Written
<1>2. CASE ~torn BY <1>2, SMT DEF Written
<1>3. QED BY <1>1, <1>2

\* A write that stops early adds at most one line, an unfinished one.
LEMMA TornLine ==
    ASSUME Typed, NEW e \in Entries, Torn(e)
    PROVE  /\ file' \in Seq(Entries) /\ (torn' => file' # <<>>)
           /\ Len(file') + (IF torn THEN 1 ELSE 0) <= Len(file) + (IF torn' THEN 1 ELSE 0)
           /\ \A j \in DOMAIN file' :
                  file'[j] \in {Bad, e} \/ \E k \in DOMAIN file : file'[j] = file[k]
<1> USE DEF Typed
<1>1. CASE UNCHANGED disk BY <1>1, SMT DEF disk
<1>2. CASE torn /\ file' = [file EXCEPT ![Len(file)] = Bad] /\ UNCHANGED torn
    BY <1>2, SpoiltLine, SMT
<1>3. CASE ~torn /\ torn' = TRUE /\ (file' = Append(file, Bad) \/ file' = Append(file, e))
    <2>1. ASSUME NEW d \in {Bad, e}, file' = Append(file, d)
          PROVE  /\ file' \in Seq(Entries) /\ file' # <<>> /\ Len(file') = Len(file) + 1
                 /\ \A j \in DOMAIN file' :
                        file'[j] \in {Bad, e} \/ \E k \in DOMAIN file : file'[j] = file[k]
        <3>1. d \in Entries BY EntryIs
        <3>2. QED BY <2>1, <3>1, AppendedLine
    <2>2. QED BY <1>3, <2>1, SMT
<1>4. QED BY <1>1, <1>2, <1>3 DEF Torn

\* Update() rewrites the lines of its trace in place.
LEMMA RatedLines ==
    ASSUME Typed, Exclusive, NEW t \in Threads, UpdateRead(t), pc'[t] = "rename"
    PROVE  \E s \in Seq(Entries) :
               /\ lines' = [lines EXCEPT ![t] = s]
               /\ Len(s) = Len(file)
               /\ \A j \in DOMAIN s : s[j] = file[j] \/ s[j] = Entry(id[t], TRUE)
               /\ \A j \in DOMAIN s : s[j].id = id[t] => s[j].rated
<1> DEFINE s == [j \in DOMAIN file |-> IF file[j].id = id[t] THEN Entry(id[t], TRUE) ELSE file[j]]
<1> HIDE DEF s
<1>1. lines' = [lines EXCEPT ![t] = s]
    <2>1. ~Returns(t, "update") BY SMT DEF Returns, Exclusive
    <2>2. QED BY <2>1, Zenon DEF UpdateRead, s
<1>2. DOMAIN file = 1..Len(file) /\ Len(file) \in Nat BY SMT DEF Typed
<1>3. s \in [1..Len(file) -> Entries]
    <2>1. id[t] \in Traces BY Zenon DEF Typed
    <2>2. Entry(id[t], TRUE) \in Entries BY <2>1, EntryIs
    <2>3. \A j \in 1..Len(file) : file[j] \in Entries BY <1>2, SMT DEF Typed
    <2>4. QED BY <1>2, <2>2, <2>3, Zenon DEF s
<1>4. s \in Seq(Entries) /\ Len(s) = Len(file) BY <1>2, <1>3, SMT
<1>5. \A j \in DOMAIN s : s[j] = file[j] \/ s[j] = Entry(id[t], TRUE) BY DEF s
<1>6. \A j \in DOMAIN s : s[j].id = id[t] => s[j].rated BY DEF s, Entry
<1>7. QED BY <1>1, <1>4, <1>5, <1>6

-----------------------------------------------------------------------------
\* A call in progress stays in its thread's hands.
LEMMA GoesOn ==
    ASSUME Exclusive, NEW t \in Threads, NEW from \in Busy, NEW to \in Busy,
           Goes(t, from, to), UNCHANGED op
    PROVE  Exclusive'
BY SMT DEF Exclusive, Goes, Busy

\* A call that returns leaves the mutex to the next one.
LEMMA ReturnsToIdle ==
    ASSUME Exclusive, NEW t \in Threads, NEW from \in Busy, Returns(t, from), UNCHANGED op
    PROVE  Exclusive'
BY BoundsAssumption, SMT DEF Exclusive, Returns, Busy

\* A call ends before the next one begins.
LEMMA ExclusiveStep == Exclusive /\ [Next]_vars => Exclusive'
<1> SUFFICES ASSUME Exclusive, [Next]_vars PROVE Exclusive'
    OBVIOUS
<1> USE GoesOn, ReturnsToIdle DEF call, Busy
<1>0. \A t \in Threads : op[t] \in Busy BY Zenon DEF Exclusive
<1>1. ASSUME NEW t \in Threads, StartAppend(t) \/ StartUpdate(t) PROVE Exclusive'
    BY <1>1, BoundsAssumption, SMT DEF StartAppend, StartUpdate, Locks, Exclusive
<1>2. ASSUME NEW t \in Threads, Ensure(t) \/ Trim(t) PROVE Exclusive'
    BY <1>0, <1>2, Zenon DEF Ensure, Trim
<1>3. ASSUME NEW t \in Threads, Write(t) \/ WriteFails(t) \/ CloseFails(t) PROVE Exclusive'
    BY <1>3, Zenon DEF Write, WriteFails, CloseFails, Finish
<1>4. ASSUME NEW t \in Threads, PruneRead(t) \/ UpdateRead(t) PROVE Exclusive'
    BY <1>4, Zenon DEF PruneRead, UpdateRead
<1>5. ASSUME NEW t \in Threads, Rename(t) \/ Fails(t) PROVE Exclusive'
    BY <1>5, Zenon DEF Rename, Fails, Finish
<1>6. CASE Crash BY <1>6, BoundsAssumption, SMT DEF Crash, Exclusive
<1>7. CASE UNCHANGED vars BY <1>7 DEF vars, Exclusive
<1>8. QED BY <1>1, <1>2, <1>3, <1>4, <1>5, <1>6, <1>7 DEF Next

-----------------------------------------------------------------------------
\* The lines a thread prepares, and those on disk, are lines.
LEMMA TypedStep == Exclusive /\ Typed /\ [Next]_vars => Typed'
<1> SUFFICES ASSUME Exclusive, Typed, [Next]_vars PROVE Typed'
    OBVIOUS
<1> USE DEF disk, mem, call
<1>1. ASSUME NEW t \in Threads, StartAppend(t) \/ StartUpdate(t) PROVE Typed'
    <2>0. next \in Nat /\ next - 1 <= MaxEvents BY BoundsAssumption, SMT DEF Typed
    <2>1. \E i \in Traces : id' = [id EXCEPT ![t] = i]
        <3>1. CASE StartAppend(t)
            <4>1. next \in Traces BY <2>0, <3>1, BoundsAssumption, SMT DEF StartAppend, Traces
            <4>2. QED BY <3>1, <4>1 DEF StartAppend
        <3>2. CASE StartUpdate(t)
            <4>1. 1 .. (next - 1) \subseteq Traces BY <2>0, BoundsAssumption, SMT DEF Traces
            <4>2. QED BY <3>2, <4>1 DEF StartUpdate
        <3>3. QED BY <1>1, <3>1, <3>2
    <2>2. id' \in [Threads -> Traces] BY <2>1 DEF Typed
    <2>3. /\ next' = next \/ (next' = next + 1 /\ next <= MaxEvents)
          /\ UNCHANGED <<file, torn, lines, count, missed>>
        BY <1>1, Zenon DEF StartAppend, StartUpdate
    <2>4. next' \in 1 .. (MaxEvents + 1) BY <2>3, BoundsAssumption, SMT DEF Typed
    <2>5. QED BY <2>2, <2>3, <2>4 DEF Typed
<1>2. ASSUME NEW t \in Threads, Ensure(t) PROVE Typed'
    <2>1. LastOf(file, Limit) \in Seq(Entries) BY BoundsAssumption, LastOfLines DEF Typed
    <2>2. lines' = lines \/ lines' = [lines EXCEPT ![t] = LastOf(file, Limit)]
        BY <1>2, Zenon DEF Ensure
    <2>3. (count' = count /\ missed' = missed) \/ (count' = Len(file) /\ missed' = 0)
        BY <1>2, Zenon DEF Ensure
    <2>4. UNCHANGED <<file, torn, id, next>> BY <1>2, Zenon DEF Ensure
    <2>5. lines' \in [Threads -> Seq(Entries)] BY <2>1, <2>2 DEF Typed
    <2>6. count' \in Nat /\ missed' \in Nat BY <2>3, SMT DEF Typed
    <2>7. QED BY <2>4, <2>5, <2>6 DEF Typed
<1>3. ASSUME NEW t \in Threads, Trim(t) \/ Rename(t) PROVE Typed'
    <2>1. Replace(t) /\ UNCHANGED <<lines, id, next>> BY <1>3, Zenon DEF Trim, Rename
    <2>2. QED BY <2>1, SMT DEF Typed, Replace
<1>4. ASSUME NEW t \in Threads, Write(t) \/ CloseFails(t) PROVE Typed'
    <2>1. Entry(id[t], FALSE) \in Entries BY <1>4, EntryIs DEF Typed
    <2>2. Written(Entry(id[t], FALSE)) BY <1>4 DEF Write, CloseFails
    <2>3. file' \in Seq(Entries) /\ torn' = FALSE BY <2>1, <2>2, WrittenLine
    <2>4. UNCHANGED <<lines, id, next>> /\ count' \in {count, count + 1} /\ missed' \in {missed, missed + 1}
        BY <1>4, Zenon DEF Write, CloseFails
    <2>5. QED BY <2>3, <2>4, SMT DEF Typed
<1>5. ASSUME NEW t \in Threads, WriteFails(t) PROVE Typed'
    <2>1. Entry(id[t], FALSE) \in Entries BY <1>5, EntryIs DEF Typed
    <2>2. file' \in Seq(Entries) /\ (torn' => file' # <<>>)
        BY <1>5, <2>1, TornLine DEF WriteFails
    <2>3. UNCHANGED <<lines, id, next, count, missed>> BY <1>5, Zenon DEF WriteFails
    <2>4. QED BY <2>2, <2>3 DEF Typed
<1>6. ASSUME NEW t \in Threads, PruneRead(t) PROVE Typed'
    <2>1. LastOf(file, Limit) \in Seq(Entries) BY BoundsAssumption, LastOfLines DEF Typed
    <2>2. QED BY <1>6, <2>1, SMT DEF Typed, PruneRead
<1>7. ASSUME NEW t \in Threads, UpdateRead(t) PROVE Typed'
    <2>1. lines' \in [Threads -> Seq(Entries)]
        <3>1. CASE Goes(t, "update", "rename")
            <4>1. pc'[t] = "rename" BY <3>1, SMT DEF Goes, Exclusive
            <4>2. QED BY <1>7, <4>1, RatedLines DEF Typed
        <3>2. CASE ~Goes(t, "update", "rename") BY <1>7, <3>2, Zenon DEF UpdateRead, Typed
        <3>3. QED BY <3>1, <3>2
    <2>2. UNCHANGED <<file, torn, id, count, missed, next>> BY <1>7, Zenon DEF UpdateRead
    <2>3. QED BY <2>1, <2>2 DEF Typed
<1>8. ASSUME NEW t \in Threads, Fails(t) PROVE Typed'
    BY <1>8 DEF Typed, Fails
<1>9. CASE Crash
    <2>1. file' \in Seq(Entries) /\ (torn' => file' # <<>>)
        <3>1. \A t \in Threads : Entry(id[t], FALSE) \in Entries BY EntryIs DEF Typed
        <3>2. CASE UNCHANGED disk BY <3>2 DEF Typed
        <3>3. CASE \E t \in Threads : Torn(Entry(id[t], FALSE)) BY <3>1, <3>3, TornLine
        <3>4. CASE \E t \in Threads : Written(Entry(id[t], FALSE)) BY <3>1, <3>4, WrittenLine
        <3>5. QED BY <1>9, <3>2, <3>3, <3>4, Zenon DEF Crash
    <2>2. count' = 0 /\ missed' = 0 /\ UNCHANGED <<lines, id, next>> BY <1>9 DEF Crash
    <2>3. QED BY <2>1, <2>2 DEF Typed
<1>10. CASE UNCHANGED vars BY <1>10 DEF Typed, vars
<1>11. QED BY <1>1, <1>2, <1>3, <1>4, <1>5, <1>6, <1>7, <1>8, <1>9, <1>10 DEF Next

-----------------------------------------------------------------------------
\* Where one thread goes is all that matters to the order of the calls.
LEMMA OneCall ==
    ASSUME Exclusive, NEW t \in Threads, pc[t] # "idle", NEW to,
           pc' = [pc EXCEPT ![t] = to], InOrder(t)'
    PROVE  CallsInOrder'
<1>1. \A u \in Threads \ {t} : pc'[u] = "idle" BY SMT DEF Exclusive
<1>2. \A u \in Threads \ {t} : InOrder(u)' BY <1>1, SMT DEF InOrder
<1>3. QED BY <1>2, Zenon DEF CallsInOrder

\* An idle thread is in order.
LEMMA InOrderStep == Exclusive /\ Typed /\ CallsInOrder /\ [Next]_vars => CallsInOrder'
<1> SUFFICES ASSUME Exclusive, Typed, CallsInOrder, [Next]_vars PROVE CallsInOrder'
    OBVIOUS
<1> USE DEF disk, mem, call
<1>a. \A t \in Threads : InOrder(t) BY DEF CallsInOrder
<1>b. \A t \in Threads : \A to : pc' = [pc EXCEPT ![t] = to] => pc'[t] = to BY DEF Exclusive
<1>c. \A t \in Threads : op[t] \in {"append", "update"} BY DEF Exclusive
<1>1. ASSUME NEW t \in Threads, StartAppend(t) \/ StartUpdate(t) PROVE CallsInOrder'
    <2>1. mu = None /\ pc' = [pc EXCEPT ![t] = "ensure"]
        BY <1>1, Zenon DEF StartAppend, StartUpdate, Locks
    <2>2. \A u \in Threads : pc'[u] \in {"idle", "ensure"}
        BY <2>1, BoundsAssumption, SMT DEF Exclusive
    <2>3. QED BY <2>2, SMT DEF CallsInOrder, InOrder
<1>2. ASSUME NEW t \in Threads, Ensure(t) PROVE CallsInOrder'
    <2>1. pc[t] # "idle" /\ UNCHANGED op BY <1>2, Zenon DEF Ensure, Goes
    <2>2. CASE pc' = [pc EXCEPT ![t] = op[t]] /\ initialized'
        <3>1. pc'[t] = op[t] BY <2>2, <1>b, Zenon
        <3>2. InOrder(t)' BY <2>1, <2>2, <3>1, <1>c, SMT DEF InOrder
        <3>3. QED BY <2>1, <2>2, <3>2, OneCall
    <2>3. CASE pc' = [pc EXCEPT ![t] = "trim"]
        <3>1. pc'[t] = "trim" BY <2>3, <1>b, Zenon
        <3>2. InOrder(t)' BY <3>1, SMT DEF InOrder
        <3>3. QED BY <2>1, <2>3, <3>2, OneCall
    <2>4. (pc' = [pc EXCEPT ![t] = op[t]] /\ initialized') \/ pc' = [pc EXCEPT ![t] = "trim"]
        <3>1. CASE initialized /\ Goes(t, "ensure", op[t]) /\ UNCHANGED <<mem, lines>>
            BY <3>1, Zenon DEF Goes
        <3>2. CASE initialized' = TRUE /\ Goes(t, "ensure", op[t]) BY <3>2, Zenon DEF Goes
        <3>3. CASE Goes(t, "ensure", "trim") BY <3>3, Zenon DEF Goes
        <3>4. QED BY <1>2, <3>1, <3>2, <3>3, Zenon DEF Ensure
    <2>5. QED BY <2>2, <2>3, <2>4
<1>3. ASSUME NEW t \in Threads, Trim(t) PROVE CallsInOrder'
    <2>1. pc[t] # "idle" /\ UNCHANGED op /\ pc' = [pc EXCEPT ![t] = op[t]] /\ initialized'
        BY <1>3, Zenon DEF Trim, Goes
    <2>2. pc'[t] = op[t] BY <2>1, <1>b, Zenon
    <2>3. InOrder(t)' BY <2>1, <2>2, <1>c, SMT DEF InOrder
    <2>4. QED BY <2>1, <2>3, OneCall
<1>4. ASSUME NEW t \in Threads, Write(t) PROVE CallsInOrder'
    <2>1. pc[t] = "append" /\ UNCHANGED <<op, initialized>>
        BY <1>4, Zenon DEF Write, Goes, Finish, Returns
    <2>2. PICK to \in {"idle", "prune"} : pc' = [pc EXCEPT ![t] = to]
        BY <1>4, Zenon DEF Write, Goes, Finish, Returns
    <2>3. InOrder(t)' BY <2>1, <2>2, <1>a, <1>b, SMT DEF InOrder
    <2>4. QED BY <2>1, <2>2, <2>3, OneCall
<1>5. ASSUME NEW t \in Threads, PruneRead(t) PROVE CallsInOrder'
    <2>1. pc[t] = "prune" /\ UNCHANGED <<op, initialized>> /\ pc' = [pc EXCEPT ![t] = "rename"]
        BY <1>5, Zenon DEF PruneRead, Goes
    <2>2. lines'[t] = LastOf(file, Limit) BY <1>5, SMT DEF PruneRead, Typed
    <2>3. Len(lines'[t]) <= Limit BY <2>2, BoundsAssumption, LastOfLines DEF Typed
    <2>4. InOrder(t)' BY <2>1, <2>3, <1>a, <1>b, SMT DEF InOrder
    <2>5. QED BY <2>1, <2>4, OneCall
<1>6. ASSUME NEW t \in Threads, UpdateRead(t) PROVE CallsInOrder'
    <2>1. pc[t] = "update" /\ UNCHANGED <<op, initialized>>
        BY <1>6, Zenon DEF UpdateRead, Goes, Returns
    <2>2. PICK to \in {"idle", "rename"} : pc' = [pc EXCEPT ![t] = to]
        BY <1>6, Zenon DEF UpdateRead, Goes, Returns
    <2>3. InOrder(t)' BY <2>1, <2>2, <1>a, <1>b, SMT DEF InOrder
    <2>4. QED BY <2>1, <2>2, <2>3, OneCall
<1>7. ASSUME NEW t \in Threads, WriteFails(t) \/ CloseFails(t) \/ Rename(t) \/ Fails(t)
      PROVE  CallsInOrder'
    <2>1. PICK from \in Busy : Returns(t, from)
        BY <1>7, Zenon DEF WriteFails, CloseFails, Rename, Fails, Finish, Busy
    <2>2. pc[t] # "idle" /\ pc' = [pc EXCEPT ![t] = "idle"] BY <2>1 DEF Returns, Busy
    <2>3. pc'[t] = "idle" BY <2>2, <1>b, Zenon
    <2>4. InOrder(t)' BY <2>3, SMT DEF InOrder
    <2>5. QED BY <2>2, <2>4, OneCall
<1>8. CASE Crash
    <2>1. \A t \in Threads : pc'[t] = "idle" BY <1>8, Zenon DEF Crash
    <2>2. QED BY <2>1, SMT DEF CallsInOrder, InOrder
<1>9. CASE UNCHANGED vars BY <1>9 DEF vars, CallsInOrder, InOrder
<1>10. QED BY <1>1, <1>2, <1>3, <1>4, <1>5, <1>6, <1>7, <1>8, <1>9 DEF Next

\* The count covers the file.
LEMMA CoversStep == Exclusive /\ Typed /\ CallsInOrder /\ CountCovers /\ [Next]_vars => CountCovers'
<1> SUFFICES ASSUME Exclusive, Typed, CallsInOrder, CountCovers, [Next]_vars PROVE CountCovers'
    OBVIOUS
<1> USE DEF disk, mem, call
<1>1. ASSUME NEW t \in Threads,
             StartAppend(t) \/ StartUpdate(t) \/ PruneRead(t) \/ UpdateRead(t) \/ Fails(t)
      PROVE  CountCovers'
    <2>1. UNCHANGED <<file, torn, initialized, count, missed>>
        BY <1>1, Zenon DEF StartAppend, StartUpdate, PruneRead, UpdateRead, Fails
    <2>2. QED BY <2>1 DEF CountCovers
<1>2. ASSUME NEW t \in Threads, Ensure(t) PROVE CountCovers'
    <2>1. UNCHANGED <<file, torn>> BY <1>2, Zenon DEF Ensure
    <2>2. CASE UNCHANGED mem BY <2>1, <2>2 DEF CountCovers
    <2>3. CASE count' = Len(file) /\ missed' = 0 BY <2>1, <2>3, SMT DEF CountCovers, Typed
    <2>4. QED BY <1>2, <2>2, <2>3, Zenon DEF Ensure
<1>3. ASSUME NEW t \in Threads, Trim(t) \/ Rename(t) PROVE CountCovers'
    <2>1. Replace(t) BY <1>3, Zenon DEF Trim, Rename
    <2>2. QED BY <2>1, SMT DEF CountCovers, Replace, Typed
<1>4. ASSUME NEW t \in Threads, Write(t) \/ CloseFails(t) PROVE CountCovers'
    <2>1. Entry(id[t], FALSE) \in Entries BY <1>4, EntryIs DEF Typed
    <2>2. torn' = FALSE /\ Len(file') = Len(file) + (IF torn THEN 0 ELSE 1)
        BY <1>4, <2>1, WrittenLine, Zenon DEF Write, CloseFails
    <2>3. UNCHANGED initialized BY <1>4, Zenon DEF Write, CloseFails
    <2>4. count' + missed' = count + missed + 1
        <3>1. \/ count' = count + 1 /\ missed' = missed
              \/ count' = count /\ missed' = missed + 1
            BY <1>4, Zenon DEF Write, CloseFails
        <3>2. count \in Nat /\ missed \in Nat BY DEF Typed
        <3>3. QED BY <3>1, <3>2, SMT
    <2>5. QED BY <2>2, <2>3, <2>4, SMT DEF CountCovers, Typed
<1>5. ASSUME NEW t \in Threads, WriteFails(t) PROVE CountCovers'
    <2>1. Entry(id[t], FALSE) \in Entries BY <1>5, EntryIs DEF Typed
    <2>2. Len(file') + (IF torn THEN 1 ELSE 0) <= Len(file) + (IF torn' THEN 1 ELSE 0)
        BY <1>5, <2>1, TornLine, Zenon DEF WriteFails
    <2>3. file' \in Seq(Entries) BY <1>5, <2>1, TornLine, Zenon DEF WriteFails
    <2>4. UNCHANGED <<initialized, count, missed>> BY <1>5, Zenon DEF WriteFails
    <2>5. QED BY <2>2, <2>3, <2>4, SMT DEF CountCovers, Typed
<1>6. CASE Crash BY <1>6, Zenon DEF Crash, CountCovers
<1>7. CASE UNCHANGED vars BY <1>7 DEF vars, CountCovers
<1>8. QED BY <1>1, <1>2, <1>3, <1>4, <1>5, <1>6, <1>7 DEF Next

\* Nothing is known of an empty log.
LEMMA InitInOrder == Init => Exclusive /\ Typed /\ CallsInOrder /\ CountCovers
<1> SUFFICES ASSUME Init PROVE Exclusive /\ Typed /\ CallsInOrder /\ CountCovers
    OBVIOUS
<1>1. Exclusive BY BoundsAssumption, SMT DEF Init, Exclusive, Busy
<1>2. Typed
    <2>1. <<>> \in Seq(Entries) BY SMT
    <2>2. lines \in [Threads -> Seq(Entries)] BY <2>1 DEF Init
    <2>3. id \in [Threads -> Traces] BY BoundsAssumption, SMT DEF Init, Traces
    <2>4. torn = FALSE BY DEF Init
    <2>5. QED BY <2>1, <2>2, <2>3, <2>4, BoundsAssumption, SMT DEF Init, Typed
<1>3. CallsInOrder BY SMT DEF Init, CallsInOrder, InOrder
<1>4. CountCovers BY Zenon DEF Init, CountCovers
<1>5. QED BY <1>1, <1>2, <1>3, <1>4

\* Whenever Append() reports success, whatever failed before, the log exceeds its
\* limit by no more than the lines whose close() failed since it was counted:
\* the count that Append() decides by covers the other ones.
THEOREM LogKeepsToItsLimit == Spec => RetainsAtMostLimit
<1> DEFINE Inv == Exclusive /\ Typed /\ CallsInOrder /\ CountCovers
<1>1. Init => Inv BY InitInOrder
<1>2. Inv /\ [Next]_vars => Inv' BY ExclusiveStep, TypedStep, InOrderStep, CoversStep
<1>3. Inv /\ [Next]_vars => [acked' # acked => Len(file') <= Limit + missed']_vars
    <2> SUFFICES ASSUME Inv, Next, acked' # acked PROVE Len(file') <= Limit + missed'
        OBVIOUS
    <2>1. PICK t \in Threads : Write(t) \/ Rename(t)
        BY Zenon
        DEF Next, Crash, StartAppend, StartUpdate, Ensure, Trim, WriteFails, CloseFails,
                     PruneRead, UpdateRead, Fails, done
    <2>2. op[t] = "append" BY <2>1, Zenon DEF Write, Rename, Finish, done
    <2>3. InOrder(t) BY DEF CallsInOrder
    <2>4. CASE Rename(t)
        <3>1. pc[t] = "rename" /\ Replace(t) BY <2>4, Zenon DEF Rename, Finish, Returns
        <3>2. Len(lines[t]) <= Limit /\ file' = lines[t] /\ missed' = 0
            BY <2>2, <2>3, <3>1, SMT DEF InOrder, Replace
        <3>3. lines[t] \in Seq(Entries) BY DEF Typed
        <3>4. QED BY <3>2, <3>3, BoundsAssumption, SMT
    <2>5. CASE Write(t)
        <3>1. pc[t] = "append" /\ count < Limit /\ missed' = missed
            BY <2>5, Zenon DEF Write, Goes, Finish, Returns, done
        <3>2. initialized BY <2>3, <3>1, SMT DEF InOrder
        <3>3. Entry(id[t], FALSE) \in Entries BY EntryIs DEF Typed
        <3>4. Len(file') = Len(file) + (IF torn THEN 0 ELSE 1)
            BY <2>5, <3>3, WrittenLine, Zenon DEF Write
        <3>5. Len(file) <= count + missed + (IF torn THEN 1 ELSE 0)
            BY <3>2, Zenon DEF CountCovers
        <3>6. file \in Seq(Entries) /\ count \in Nat /\ missed \in Nat BY DEF Typed
        <3>7. QED BY <3>1, <3>4, <3>5, <3>6, BoundsAssumption, SMT
    <2>6. QED BY <2>1, <2>4, <2>5
<1>4. QED BY <1>1, <1>2, <1>3, PTL DEF Spec, RetainsAtMostLimit

-----------------------------------------------------------------------------
\* Lines that were there keep their ratings.
LEMMA KeptFrom ==
    ASSUME NEW s, NEW u, NEW traces, Kept(s, traces),
           \A j \in DOMAIN u : \E k \in DOMAIN s : u[j] = s[k]
    PROVE  Kept(u, traces)
BY Zenon DEF Kept

\* A new line, and a fragment, is no rated trace's.
LEMMA KeptWith ==
    ASSUME NEW s, NEW u, NEW i, NEW traces, Kept(s, traces), i \notin traces, 0 \notin traces,
           \A j \in DOMAIN u :
               u[j] \in {Bad, Entry(i, FALSE)} \/ \E k \in DOMAIN s : u[j] = s[k]
    PROVE  Kept(u, traces)
<1> SUFFICES ASSUME NEW j \in DOMAIN u, u[j].id \in traces PROVE u[j].rated
    BY DEF Kept
<1>1. Bad.id = 0 /\ Entry(i, FALSE).id = i BY DEF Bad, Entry
<1>2. PICK k \in DOMAIN s : u[j] = s[k] BY <1>1
<1>3. QED BY <1>2, Zenon DEF Kept

\* Where one thread goes is all that matters to the ratings in hand.
LEMMA OneRating ==
    ASSUME Exclusive, NEW t \in Threads, pc[t] # "idle", NEW to,
           pc' = [pc EXCEPT ![t] = to], Rating(t)'
    PROVE  \A u \in Threads : Rating(u)'
<1>1. \A u \in Threads \ {t} : pc'[u] = "idle" BY SMT DEF Exclusive
<1>2. \A u \in Threads \ {t} : Rating(u)' BY <1>1, SMT DEF Rating
<1>3. QED BY <1>2, Zenon

\* A call that ends without storing a rating has none in hand.
LEMMA ReturnKeeps ==
    ASSUME Exclusive, NEW t \in Threads, NEW from \in Busy, Returns(t, from),
           Kept(file', rated), UNCHANGED <<rated, next>>, RatingsKept
    PROVE  RatingsKept'
<1>1. pc[t] # "idle" /\ pc' = [pc EXCEPT ![t] = "idle"] BY DEF Returns, Busy
<1>2. pc'[t] = "idle" BY <1>1 DEF Exclusive
<1>3. Rating(t)' BY <1>2, SMT DEF Rating
<1>4. \A u \in Threads : Rating(u)' BY <1>1, <1>3, OneRating
<1>5. QED BY <1>4, Zenon DEF RatingsKept

\* A call begins with a trace of its own, or with one appended before.
LEMMA RatingsStart ==
    ASSUME Exclusive, Typed, RatingsKept, NEW t \in Threads, StartAppend(t) \/ StartUpdate(t)
    PROVE  RatingsKept'
<1> USE DEF disk, mem, done
<1>1. mu = None /\ pc' = [pc EXCEPT ![t] = "ensure"] /\ UNCHANGED <<file, rated>>
    BY Zenon DEF StartAppend, StartUpdate, Locks
<1>2. \A u \in Threads \ {t} : pc'[u] = "idle" BY <1>1, BoundsAssumption, SMT DEF Exclusive
<1>3. pc'[t] = "ensure" BY <1>1 DEF Exclusive
<1>4. next' \in {next, next + 1} BY Zenon DEF StartAppend, StartUpdate
<1>5. rated' \subseteq 1..(next' - 1)
    <2>1. next \in Nat BY DEF Typed
    <2>2. \A i \in rated : i \in 1..(next - 1) BY DEF RatingsKept
    <2>3. \A i \in rated : i \in 1..(next' - 1) BY <1>4, <2>1, <2>2, SMT
    <2>4. QED BY <1>1, <2>3
<1>6. Kept(file', rated') BY <1>1, Zenon DEF RatingsKept
<1>7. \/ op'[t] = "append" /\ id'[t] = next
      \/ op'[t] = "update" /\ id'[t] \in 1..(next' - 1)
    <2>1. CASE StartAppend(t) BY <2>1, SMT DEF StartAppend, Exclusive, Typed
    <2>2. CASE StartUpdate(t) BY <2>2, SMT DEF StartUpdate, Exclusive, Typed
    <2>3. QED BY <2>1, <2>2
<1>8. next \notin rated' BY <1>1, SMT DEF RatingsKept, Typed
<1>9. Rating(t)' BY <1>3, <1>7, <1>8, SMT DEF Rating
<1>10. \A u \in Threads \ {t} : Rating(u)' BY <1>2, SMT DEF Rating
<1>11. QED BY <1>5, <1>6, <1>9, <1>10, Zenon DEF RatingsKept

\* A written line, whole or not, rates nothing.
LEMMA WriteKeeps ==
    ASSUME Typed, RatingsKept, NEW t \in Threads, pc[t] = "append", op[t] = "append",
           Written(Entry(id[t], FALSE)) \/ Torn(Entry(id[t], FALSE))
    PROVE  Kept(file', rated)
<1>1. id[t] \notin rated BY DEF RatingsKept, Rating
<1>2. 0 \notin rated BY SMT DEF RatingsKept, Typed
<1>3. Entry(id[t], FALSE) \in Entries BY EntryIs DEF Typed
<1>4. \A j \in DOMAIN file' :
          file'[j] \in {Bad, Entry(id[t], FALSE)} \/ \E k \in DOMAIN file : file'[j] = file[k]
    BY <1>3, WrittenLine, TornLine
<1>5. Kept(file, rated) BY DEF RatingsKept
<1>6. QED BY <1>1, <1>2, <1>4, <1>5, KeptWith

\* Every step keeps every rating.
LEMMA RatingsStep ==
    Exclusive /\ Typed /\ CallsInOrder /\ RatingsKept /\ [Next]_vars => RatingsKept'
<1> SUFFICES ASSUME Exclusive, Typed, CallsInOrder, RatingsKept, [Next]_vars PROVE RatingsKept'
    OBVIOUS
<1> USE DEF disk, mem, call, done
<1>a. \A t \in Threads : InOrder(t) BY DEF CallsInOrder
<1>r. \A t \in Threads : Rating(t) BY DEF RatingsKept
<1>b. Kept(file, rated) BY DEF RatingsKept
<1>c. \A t \in Threads : \A to : pc' = [pc EXCEPT ![t] = to] => pc'[t] = to BY DEF Exclusive
<1>d. ASSUME NEW t \in Threads, pc[t] # "idle", NEW to, pc' = [pc EXCEPT ![t] = to], Rating(t)',
             Kept(file', rated), UNCHANGED <<rated, next>>
      PROVE  RatingsKept'
    BY <1>d, OneRating, Zenon DEF RatingsKept
<1>e. Kept(LastOf(file, Limit), rated)
    <2>1. \A j \in DOMAIN LastOf(file, Limit) :
              \E k \in DOMAIN file : LastOf(file, Limit)[j] = file[k]
        BY LastOfLines, BoundsAssumption DEF Typed
    <2>2. QED BY <2>1, <1>b, KeptFrom
<1>1. ASSUME NEW t \in Threads, StartAppend(t) \/ StartUpdate(t) PROVE RatingsKept'
    BY <1>1, RatingsStart
<1>2. ASSUME NEW t \in Threads, Ensure(t) PROVE RatingsKept'
    <2>r. Rating(t) BY <1>r
    <2>1. pc[t] = "ensure" /\ UNCHANGED <<file, op, id, next, rated>>
        BY <1>2, Zenon DEF Ensure, Goes
    <2>2. CASE Goes(t, "ensure", op[t])
        <3>1. pc' = [pc EXCEPT ![t] = op[t]] BY <2>2 DEF Goes
        <3>2. pc'[t] = op[t] /\ op[t] \in {"append", "update"}
            BY <3>1, <1>c, Zenon DEF Exclusive
        <3>3. Rating(t)' BY <2>1, <3>2, <2>r, SMT DEF Rating
        <3>4. QED BY <2>1, <3>1, <3>3, <1>b, <1>d
    <2>3. CASE Goes(t, "ensure", "trim") /\ lines' = [lines EXCEPT ![t] = LastOf(file, Limit)]
        <3>1. pc' = [pc EXCEPT ![t] = "trim"] BY <2>3 DEF Goes
        <3>2. pc'[t] = "trim" BY <3>1, <1>c, Zenon
        <3>3. Kept(lines'[t], rated) BY <2>3, <1>e, Zenon DEF Typed
        <3>4. Rating(t)' BY <2>1, <3>2, <3>3, <2>r, SMT DEF Rating
        <3>5. QED BY <2>1, <3>1, <3>4, <1>b, <1>d
    <2>4. QED BY <1>2, <2>2, <2>3, Zenon DEF Ensure
<1>3. ASSUME NEW t \in Threads, Trim(t) PROVE RatingsKept'
    <2>r. Rating(t) BY <1>r
    <2>1. /\ pc[t] = "trim" /\ pc' = [pc EXCEPT ![t] = op[t]] /\ file' = lines[t]
          /\ UNCHANGED <<op, id, next, rated>>
        BY <1>3, Zenon DEF Trim, Goes, Replace
    <2>2. pc'[t] = op[t] /\ op[t] \in {"append", "update"} BY <2>1, <1>c, Zenon DEF Exclusive
    <2>3. Kept(file', rated) BY <2>1, <2>r, SMT DEF Rating
    <2>4. Rating(t)' BY <2>1, <2>2, <2>r, SMT DEF Rating
    <2>5. QED BY <2>1, <2>3, <2>4, <1>d
<1>4. ASSUME NEW t \in Threads, Write(t) PROVE RatingsKept'
    <2>r. Rating(t) BY <1>r
    <2>1. pc[t] = "append" /\ Written(Entry(id[t], FALSE)) /\ UNCHANGED <<op, id, next>>
        BY <1>4, Zenon DEF Write, Goes, Finish, Returns
    <2>2. op[t] = "append" BY <2>1, <1>a, SMT DEF InOrder
    <2>3. rated' = rated BY <1>4, <2>2, Zenon DEF Write, Finish
    <2>4. Kept(file', rated) BY <2>1, <2>2, WriteKeeps
    <2>5. PICK to \in {"idle", "prune"} : pc' = [pc EXCEPT ![t] = to]
        BY <1>4, Zenon DEF Write, Goes, Finish, Returns
    <2>6. pc'[t] = to BY <2>5, <1>c, Zenon
    <2>7. Rating(t)' BY <2>1, <2>2, <2>3, <2>5, <2>6, <2>r, SMT DEF Rating
    <2>8. QED BY <2>1, <2>3, <2>4, <2>5, <2>7, <1>d
<1>5. ASSUME NEW t \in Threads, WriteFails(t) \/ CloseFails(t) PROVE RatingsKept'
    <2>1. Returns(t, "append") /\ UNCHANGED <<next, rated>>
        BY <1>5, Zenon DEF WriteFails, CloseFails
    <2>2. Written(Entry(id[t], FALSE)) \/ Torn(Entry(id[t], FALSE))
        BY <1>5, Zenon DEF WriteFails, CloseFails
    <2>3. pc[t] = "append" /\ op[t] = "append" BY <2>1, <1>a, SMT DEF Returns, InOrder
    <2>4. Kept(file', rated) BY <2>2, <2>3, WriteKeeps
    <2>5. QED BY <2>1, <2>4, ReturnKeeps, Zenon DEF Busy
<1>6. ASSUME NEW t \in Threads, PruneRead(t) PROVE RatingsKept'
    <2>r. Rating(t) BY <1>r
    <2>1. /\ pc[t] = "prune" /\ pc' = [pc EXCEPT ![t] = "rename"]
          /\ lines' = [lines EXCEPT ![t] = LastOf(file, Limit)]
          /\ UNCHANGED <<file, op, id, next, rated>>
        BY <1>6, Zenon DEF PruneRead, Goes
    <2>2. op[t] = "append" BY <2>1, <1>a, SMT DEF InOrder
    <2>3. Kept(lines'[t], rated) BY <2>1, <1>e, Zenon DEF Typed
    <2>4. pc'[t] = "rename" BY <2>1, <1>c, Zenon
    <2>5. Rating(t)' BY <2>1, <2>2, <2>3, <2>4, <2>r, SMT DEF Rating
    <2>6. QED BY <2>1, <2>5, <1>b, <1>d
<1>7. ASSUME NEW t \in Threads, UpdateRead(t) PROVE RatingsKept'
    <2>r. Rating(t) BY <1>r
    <2>1. pc[t] = "update" /\ UNCHANGED <<file, op, id, next, rated>>
        BY <1>7, Zenon DEF UpdateRead, Goes, Returns
    <2>2. CASE Goes(t, "update", "rename")
        <3>1. pc' = [pc EXCEPT ![t] = "rename"] BY <2>2 DEF Goes
        <3>2. pc'[t] = "rename" BY <3>1, <1>c, Zenon
        <3>3. PICK s \in Seq(Entries) :
                  /\ lines' = [lines EXCEPT ![t] = s]
                  /\ Len(s) = Len(file)
                  /\ \A j \in DOMAIN s : s[j] = file[j] \/ s[j] = Entry(id[t], TRUE)
                  /\ \A j \in DOMAIN s : s[j].id = id[t] => s[j].rated
            BY <1>7, <3>2, RatedLines
        <3>4. DOMAIN s = DOMAIN file BY <3>3, SMT DEF Typed
        <3>5. Entry(id[t], TRUE).rated BY DEF Entry
        <3>6. Kept(s, rated) BY <3>3, <3>4, <3>5, <1>b, Zenon DEF Kept
        <3>7. Kept(s, {id[t]}) BY <3>3, Zenon DEF Kept
        <3>8. lines'[t] = s BY <3>3 DEF Typed
        <3>9. op[t] = "update" BY <2>1, <1>a, SMT DEF InOrder
        <3>10. Rating(t)' BY <2>1, <3>2, <3>6, <3>7, <3>8, <3>9, <2>r, SMT DEF Rating
        <3>11. QED BY <2>1, <3>1, <3>10, <1>b, <1>d
    <2>3. CASE Returns(t, "update") BY <2>1, <2>3, <1>b, ReturnKeeps, Zenon DEF Busy
    <2>4. QED BY <1>7, <2>2, <2>3, Zenon DEF UpdateRead
<1>8. ASSUME NEW t \in Threads, Rename(t) PROVE RatingsKept'
    <2>r. Rating(t) BY <1>r
    <2>1. /\ pc[t] = "rename" /\ pc' = [pc EXCEPT ![t] = "idle"] /\ file' = lines[t]
          /\ rated' = (IF op[t] = "update" THEN rated \union {id[t]} ELSE rated)
          /\ next' = next
        BY <1>8, Zenon DEF Rename, Replace, Finish, Returns
    <2>2. pc'[t] = "idle" BY <2>1, <1>c, Zenon
    <2>3. Rating(t)' BY <2>2, SMT DEF Rating
    <2>4. Kept(file', rated') BY <2>1, <2>r, SMT DEF Rating, Kept
    <2>5. rated' \subseteq 1..(next' - 1)
        <3>1. \A i \in rated : i \in 1..(next - 1) BY DEF RatingsKept
        <3>2. op[t] = "update" => id[t] \in 1..(next - 1) BY <2>1, <2>r, SMT DEF Rating
        <3>3. QED BY <2>1, <3>1, <3>2
    <2>6. \A u \in Threads : Rating(u)' BY <2>1, <2>3, OneRating
    <2>7. QED BY <2>4, <2>5, <2>6, Zenon DEF RatingsKept
<1>9. ASSUME NEW t \in Threads, Fails(t) PROVE RatingsKept'
    <2>1. pc[t] \in Busy /\ Returns(t, pc[t]) /\ UNCHANGED <<file, next, rated>>
        BY <1>9, Zenon DEF Fails, Busy
    <2>2. QED BY <2>1, <1>b, ReturnKeeps
<1>10. CASE Crash
    <2>1. UNCHANGED <<next, rated>> /\ \A t \in Threads : pc'[t] = "idle"
        BY <1>10, Zenon DEF Crash
    <2>2. Kept(file', rated)
        <3>1. CASE UNCHANGED disk BY <3>1, <1>b
        <3>2. ASSUME NEW t \in Threads, pc[t] = "append",
                     Torn(Entry(id[t], FALSE)) \/ Written(Entry(id[t], FALSE))
              PROVE  Kept(file', rated)
            <4>1. op[t] = "append" BY <3>2, <1>a, SMT DEF InOrder
            <4>2. QED BY <3>2, <4>1, WriteKeeps
        <3>3. QED BY <1>10, <3>1, <3>2, Zenon DEF Crash
    <2>3. \A t \in Threads : Rating(t)' BY <2>1, SMT DEF Rating
    <2>4. QED BY <2>1, <2>2, <2>3, Zenon DEF RatingsKept
<1>11. CASE UNCHANGED vars BY <1>11, Zenon DEF vars, RatingsKept, Rating
<1>12. QED BY <1>1, <1>2, <1>3, <1>4, <1>5, <1>6, <1>7, <1>8, <1>9, <1>10, <1>11 DEF Next

\* A rating that was reported as stored is in the log as long as its event is,
\* through other updates, prunes, torn writes and restarts.
THEOREM RatingsAreKept == Spec => []RatingsStick
<1> DEFINE Inv == Exclusive /\ Typed /\ CallsInOrder /\ RatingsKept
<1>1. Init => Inv
    <2>1. Init => RatingsKept BY SMT DEF Init, RatingsKept, Rating, Kept
    <2>2. QED BY <2>1, InitInOrder
<1>2. Inv /\ [Next]_vars => Inv' BY ExclusiveStep, TypedStep, InOrderStep, RatingsStep
<1>3. Inv => RatingsStick BY Zenon DEF RatingsKept, Kept, RatingsStick
<1>4. QED BY <1>1, <1>2, <1>3, PTL DEF Spec

-----------------------------------------------------------------------------
(* The lines in hand                                                       *)

\* The lines of a log, those of one trace rated.
Rated(s, i) == [j \in DOMAIN s |-> IF s[j].id = i THEN Entry(i, TRUE) ELSE s[j]]

\* What a thread will rename over the file is still made of the file: nobody
\* else changes it between the read and the rename.
InHand(t) ==
    /\ pc[t] = "trim" => lines[t] = LastOf(file, Limit)
    /\ pc[t] = "rename" /\ op[t] = "append" => lines[t] = LastOf(file, Limit)
    /\ pc[t] = "rename" /\ op[t] = "update" => lines[t] = Rated(file, id[t])
LinesInHand == \A t \in Threads : InHand(t)

\* One thread at a time is in a call.
LEMMA OthersIdle ==
    ASSUME Exclusive, NEW t \in Threads, pc[t] # "idle", NEW to,
           pc' = [pc EXCEPT ![t] = to]
    PROVE  /\ \A u \in Threads \ {t} : pc[u] = "idle" /\ pc'[u] = "idle"
           /\ pc'[t] = to
<1>1. \A u \in Threads \ {t} : pc[u] = "idle" BY SMT DEF Exclusive
<1>2. QED BY <1>1 DEF Exclusive

\* Where a thread goes with every action, and what it leaves alone.
LEMMA HandStep == Exclusive /\ Typed /\ CallsInOrder /\ LinesInHand /\ [Next]_vars => LinesInHand'
<1> SUFFICES ASSUME Exclusive, Typed, CallsInOrder, LinesInHand, [Next]_vars
             PROVE  LinesInHand'
    OBVIOUS
<1> USE DEF disk, mem, call
<1>a. ASSUME NEW t \in Threads, pc[t] # "idle", NEW to, pc' = [pc EXCEPT ![t] = to],
             pc'[t] = to => InHand(t)'
      PROVE  LinesInHand'
    <2>1. pc'[t] = to /\ \A u \in Threads \ {t} : pc'[u] = "idle" BY <1>a, OthersIdle
    <2>2. \A u \in Threads \ {t} : InHand(u)' BY <2>1, SMT DEF InHand
    <2>3. QED BY <1>a, <2>1, <2>2, Zenon DEF LinesInHand
<1>b. ASSUME NEW t \in Threads, NEW from, NEW to, from # "idle", Goes(t, from, to),
             to \notin {"trim", "rename"}
      PROVE  LinesInHand'
    <2>1. pc[t] # "idle" /\ pc' = [pc EXCEPT ![t] = to] BY <1>b DEF Goes
    <2>2. pc'[t] = to => InHand(t)' BY <1>b, SMT DEF InHand
    <2>3. QED BY <2>1, <2>2, <1>a
<1>c. ASSUME NEW t \in Threads, NEW from, from # "idle", Returns(t, from)
      PROVE  LinesInHand'
    <2>1. pc[t] # "idle" /\ pc' = [pc EXCEPT ![t] = "idle"] BY <1>c DEF Returns
    <2>2. pc'[t] = "idle" => InHand(t)' BY SMT DEF InHand
    <2>3. QED BY <2>1, <2>2, <1>a
<1>1. ASSUME NEW t \in Threads, StartAppend(t) \/ StartUpdate(t) PROVE LinesInHand'
    <2>1. mu = None /\ pc' = [pc EXCEPT ![t] = "ensure"]
        BY <1>1, Zenon DEF StartAppend, StartUpdate, Locks
    <2>2. \A u \in Threads : pc'[u] \in {"idle", "ensure"}
        BY <2>1, BoundsAssumption, SMT DEF Exclusive
    <2>3. QED BY <2>2, SMT DEF LinesInHand, InHand
<1>2. ASSUME NEW t \in Threads, Ensure(t) PROVE LinesInHand'
    <2>1. CASE Goes(t, "ensure", op[t])
        <3>1. op[t] \notin {"trim", "rename"} BY SMT DEF Exclusive
        <3>2. QED BY <2>1, <3>1, <1>b
    <2>2. CASE Goes(t, "ensure", "trim") /\ lines' = [lines EXCEPT ![t] = LastOf(file, Limit)]
        <3>1. pc[t] # "idle" /\ pc' = [pc EXCEPT ![t] = "trim"] BY <2>2 DEF Goes
        <3>2. lines'[t] = LastOf(file, Limit) /\ UNCHANGED file
            BY <1>2, <2>2 DEF Ensure, Typed
        <3>3. pc'[t] = "trim" => InHand(t)' BY <3>2, SMT DEF InHand
        <3>4. QED BY <3>1, <3>3, <1>a
    <2>3. QED BY <1>2, <2>1, <2>2, Zenon DEF Ensure
<1>3. ASSUME NEW t \in Threads, Trim(t) PROVE LinesInHand'
    <2>1. op[t] \notin {"trim", "rename"} BY SMT DEF Exclusive
    <2>2. QED BY <1>3, <2>1, <1>b DEF Trim
<1>4. ASSUME NEW t \in Threads, Write(t) PROVE LinesInHand'
    <2>1. Returns(t, "append") \/ Goes(t, "append", "prune") BY <1>4 DEF Write, Finish
    <2>2. QED BY <2>1, <1>b, <1>c
<1>5. ASSUME NEW t \in Threads, WriteFails(t) \/ CloseFails(t) \/ Rename(t) \/ Fails(t)
      PROVE  LinesInHand'
    <2>1. PICK from \in Busy : Returns(t, from)
        BY <1>5, Zenon DEF WriteFails, CloseFails, Rename, Fails, Finish, Busy
    <2>2. from # "idle" BY SMT DEF Busy
    <2>3. QED BY <2>1, <2>2, <1>c
<1>6. ASSUME NEW t \in Threads, PruneRead(t) PROVE LinesInHand'
    <2>1. pc[t] = "prune" /\ pc' = [pc EXCEPT ![t] = "rename"] /\ UNCHANGED <<op, file>>
        BY <1>6, Zenon DEF PruneRead, Goes
    <2>2. lines'[t] = LastOf(file, Limit) BY <1>6 DEF PruneRead, Typed
    <2>3. op[t] = "append" BY <2>1, SMT DEF CallsInOrder, InOrder
    <2>4. pc'[t] = "rename" => InHand(t)' BY <2>1, <2>2, <2>3, SMT DEF InHand
    <2>5. pc[t] # "idle" BY <2>1
    <2>6. QED BY <2>1, <2>4, <2>5, <1>a
<1>7. ASSUME NEW t \in Threads, UpdateRead(t) PROVE LinesInHand'
    <2>1. CASE Returns(t, "update") BY <2>1, <1>c
    <2>2. CASE ~Returns(t, "update")
        <3>1. pc[t] = "update" /\ pc' = [pc EXCEPT ![t] = "rename"] /\ UNCHANGED <<op, id, file>>
            BY <1>7, <2>2, Zenon DEF UpdateRead, Goes
        <3>2. lines' = [lines EXCEPT ![t] = Rated(file, id[t])]
            BY <1>7, <2>2, Zenon DEF UpdateRead, Rated
        <3>3. lines'[t] = Rated(file, id[t]) BY <3>2 DEF Typed
        <3>4. op[t] = "update" BY <3>1, SMT DEF CallsInOrder, InOrder
        <3>5. pc'[t] = "rename" => InHand(t)' BY <3>1, <3>3, <3>4, SMT DEF InHand
        <3>6. pc[t] # "idle" BY <3>1
        <3>7. QED BY <3>1, <3>5, <3>6, <1>a
    <2>3. QED BY <2>1, <2>2
<1>8. CASE Crash
    <2>1. \A t \in Threads : pc'[t] = "idle" BY <1>8, Zenon DEF Crash
    <2>2. QED BY <2>1, SMT DEF LinesInHand, InHand
<1>9. CASE UNCHANGED vars BY <1>9 DEF vars, LinesInHand, InHand
<1>10. QED BY <1>1, <1>2, <1>3, <1>4, <1>5, <1>6, <1>7, <1>8, <1>9 DEF Next

-----------------------------------------------------------------------------
(* The newest lines                                                        *)

Newest(s) == IF Len(s) <= Limit THEN Len(s) ELSE Limit

\* The newest lines of a log, one by one.
LEMMA NewestLines ==
    ASSUME NEW s \in Seq(Entries)
    PROVE  /\ LastOf(s, Limit) \in Seq(Entries) /\ Len(s) \in Nat
           /\ Len(LastOf(s, Limit)) = Newest(s) /\ Newest(s) \in Nat /\ Newest(s) <= Len(s)
           /\ DOMAIN LastOf(s, Limit) = 1 .. Newest(s) /\ DOMAIN s = 1 .. Len(s)
           /\ \A j \in 1 .. Newest(s) : /\ j + (Len(s) - Newest(s)) \in 1 .. Len(s)
                                        /\ LastOf(s, Limit)[j] = s[j + (Len(s) - Newest(s))]
<1>0. Limit \in Nat /\ Limit >= 1 /\ Len(s) \in Nat /\ DOMAIN s = 1 .. Len(s)
    BY BoundsAssumption, LenProperties, SMT
<1>1. CASE Len(s) <= Limit
    <2>1. LastOf(s, Limit) = s /\ Newest(s) = Len(s) BY <1>1 DEF LastOf, Newest
    <2>2. \A j \in 1 .. Len(s) : j + (Len(s) - Len(s)) = j BY <1>0, SMT
    <2>3. QED BY <1>0, <2>1, <2>2, SMT
<1>2. CASE ~(Len(s) <= Limit)
    <2> DEFINE m == Len(s) - Limit + 1
    <2>1. Newest(s) = Limit /\ LastOf(s, Limit) = SubSeq(s, m, Len(s))
        BY <1>2 DEF LastOf, Newest
    <2>2. /\ m \in 1 .. (Len(s) + 1) /\ Len(s) \in (m - 1) .. Len(s) /\ Len(s) - m + 1 = Limit
          /\ \A j \in 1 .. Limit : m + j - 1 = j + (Len(s) - Limit)
          /\ \A j \in 1 .. Limit : j + (Len(s) - Limit) \in 1 .. Len(s)
        BY <1>0, <1>2, SMT
    <2> HIDE DEF m
    <2>3. /\ SubSeq(s, m, Len(s)) \in Seq(Entries)
          /\ Len(SubSeq(s, m, Len(s))) = Limit
          /\ \A j \in 1 .. Limit : SubSeq(s, m, Len(s))[j] = s[m + j - 1]
        BY <1>0, <2>2, SubSeqProperties, SMT
    <2>4. DOMAIN SubSeq(s, m, Len(s)) = 1 .. Limit BY <2>3, LenProperties
    <2>5. Limit <= Len(s) BY <1>0, <1>2, SMT
    <2>6. QED BY <1>0, <2>1, <2>2, <2>3, <2>4, <2>5
<1>3. QED BY <1>1, <1>2

\* The newest lines of the newest lines.
LEMMA NewestTwice ==
    ASSUME NEW s \in Seq(Entries)
    PROVE  LastOf(LastOf(s, Limit), Limit) = LastOf(s, Limit)
<1>1. Len(LastOf(s, Limit)) <= Limit BY LastOfLines, BoundsAssumption
<1>2. QED BY <1>1 DEF LastOf

\* A line appended to a log is appended to its newest lines.
LEMMA NewestAppended ==
    ASSUME NEW s \in Seq(Entries), NEW e \in Entries
    PROVE  LastOf(Append(s, e), Limit) = LastOf(Append(LastOf(s, Limit), e), Limit)
<1> DEFINE l == LastOf(s, Limit)
           a == Append(s, e)
           b == Append(l, e)
<1>0. Limit \in Nat /\ Limit >= 1 BY BoundsAssumption, SMT
<1>1. CASE Len(s) <= Limit
    <2>1. l = s BY <1>1 DEF LastOf
    <2>2. QED BY <2>1
<1>2. CASE ~(Len(s) <= Limit)
    <2>1. l \in Seq(Entries) /\ Len(s) \in Nat /\ Newest(s) = Limit
          /\ Len(l) = Limit
          /\ \A j \in 1 .. Limit : l[j] = s[j + (Len(s) - Limit)]
        BY <1>2, NewestLines DEF Newest
    <2> HIDE DEF l
    <2>2. a \in Seq(Entries) /\ Len(a) = Len(s) + 1 /\ a[Len(s) + 1] = e
          /\ \A j \in 1 .. Len(s) : a[j] = s[j]
        BY AppendProperties
    <2>3. b \in Seq(Entries) /\ Len(b) = Limit + 1 /\ b[Limit + 1] = e
          /\ \A j \in 1 .. Limit : b[j] = l[j]
        BY <2>1, AppendProperties
    <2> HIDE DEF a, b
    <2>4. ~(Len(a) <= Limit) /\ ~(Len(b) <= Limit) BY <1>0, <1>2, <2>1, <2>2, <2>3, SMT
    <2>5. /\ LastOf(a, Limit) \in Seq(Entries) /\ Len(LastOf(a, Limit)) = Limit
          /\ \A j \in 1 .. Limit : LastOf(a, Limit)[j] = a[j + (Len(a) - Limit)]
        BY <2>2, <2>4, NewestLines DEF Newest
    <2>6. /\ LastOf(b, Limit) \in Seq(Entries) /\ Len(LastOf(b, Limit)) = Limit
          /\ \A j \in 1 .. Limit : LastOf(b, Limit)[j] = b[j + (Len(b) - Limit)]
        BY <2>3, <2>4, NewestLines DEF Newest
    <2>7. ASSUME NEW j \in 1 .. Limit
          PROVE  LastOf(a, Limit)[j] = LastOf(b, Limit)[j]
        <3>1. j + (Len(b) - Limit) = j + 1 /\ j + (Len(a) - Limit) = j + 1 + (Len(s) - Limit)
            BY <1>0, <2>1, <2>2, <2>3, SMT
        <3>2. CASE j = Limit
            <4>1. j + 1 + (Len(s) - Limit) = Len(s) + 1 BY <1>0, <2>1, <3>2, SMT
            <4>2. QED BY <2>2, <2>3, <2>5, <2>6, <3>1, <3>2, <4>1
        <3>3. CASE j # Limit
            <4>1. j + 1 \in 1 .. Limit /\ j + 1 + (Len(s) - Limit) \in 1 .. Len(s)
                BY <1>0, <1>2, <2>1, <3>3, SMT
            <4>2. b[j + 1] = s[j + 1 + (Len(s) - Limit)] BY <2>1, <2>3, <4>1
            <4>3. QED BY <2>2, <2>5, <2>6, <3>1, <4>1, <4>2
        <3>4. QED BY <3>2, <3>3
    <2>8. LastOf(a, Limit) = LastOf(b, Limit) BY <2>5, <2>6, <2>7, SeqEqual
    <2>9. QED BY <2>8 DEF a, b, l
<1>3. QED BY <1>1, <1>2

\* Spoiling the last line of a log spoils the last of its newest lines.
LEMMA NewestSpoilt ==
    ASSUME NEW s \in Seq(Entries), s # <<>>
    PROVE  /\ LastOf(s, Limit) # <<>>
           /\ LastOf([s EXCEPT ![Len(s)] = Bad], Limit)
                  = [LastOf(s, Limit) EXCEPT ![Len(LastOf(s, Limit))] = Bad]
<1> DEFINE l == LastOf(s, Limit)
           u == [s EXCEPT ![Len(s)] = Bad]
           v == [l EXCEPT ![Len(l)] = Bad]
           n == Newest(s)
           d == Len(s) - n
<1>0. Limit \in Nat /\ Limit >= 1 BY BoundsAssumption, SMT
<1>1. Len(s) \in Nat /\ Len(s) >= 1 BY EmptySeq, SMT
<1>2. /\ l \in Seq(Entries) /\ Len(l) = n /\ n \in Nat /\ n >= 1 /\ n <= Len(s)
      /\ DOMAIN l = 1 .. n /\ DOMAIN s = 1 .. Len(s)
      /\ \A j \in 1 .. n : j + d \in 1 .. Len(s) /\ l[j] = s[j + d]
    <2>1. n >= 1 BY <1>0, <1>1, SMT DEF Newest
    <2>2. QED BY <2>1, NewestLines
<1>3. l # <<>> BY <1>2, EmptySeq, SMT
<1>4. u \in Seq(Entries) /\ Len(u) = Len(s) /\ DOMAIN u = DOMAIN s BY SpoiltLine
<1>5. v \in Seq(Entries) /\ Len(v) = n
    <2> HIDE DEF l
    <2>1. QED BY <1>2, <1>3, SpoiltLine
<1>6. Newest(u) = n BY <1>4 DEF Newest
<1>7. /\ LastOf(u, Limit) \in Seq(Entries) /\ Len(LastOf(u, Limit)) = n
      /\ \A j \in 1 .. n : LastOf(u, Limit)[j] = u[j + d]
    <2> HIDE DEF u, n
    <2>1. QED BY <1>4, <1>6, NewestLines
<1>8. ASSUME NEW j \in 1 .. n PROVE LastOf(u, Limit)[j] = v[j]
    <2>1. j + d \in 1 .. Len(s) /\ l[j] = s[j + d] /\ LastOf(u, Limit)[j] = u[j + d]
        BY <1>2, <1>7
    <2>2. j + d = Len(s) <=> j = n BY <1>1, <1>2, SMT
    <2>3. u[j + d] = IF j + d = Len(s) THEN Bad ELSE s[j + d] BY <1>2, <2>1
    <2> HIDE DEF l, d
    <2>4. v[j] = IF j = n THEN Bad ELSE l[j] BY <1>2
    <2>5. QED BY <2>1, <2>2, <2>3, <2>4
<1> HIDE DEF u, v, l, n
<1>9. LastOf(u, Limit) = v BY <1>5, <1>7, <1>8, SeqEqual
<1>10. QED BY <1>3, <1>9 DEF u, v, l

\* Rating the lines of a trace rates them among the newest lines.
LEMMA NewestRated ==
    ASSUME NEW s \in Seq(Entries), NEW i \in Traces
    PROVE  /\ Rated(s, i) \in Seq(Entries) /\ Len(Rated(s, i)) = Len(s)
           /\ LastOf(Rated(s, i), Limit) = Rated(LastOf(s, Limit), i)
<1>1. ASSUME NEW t \in Seq(Entries)
      PROVE  /\ Rated(t, i) \in Seq(Entries) /\ Len(Rated(t, i)) = Len(t)
             /\ \A j \in 1 .. Len(t) :
                    Rated(t, i)[j] = IF t[j].id = i THEN Entry(i, TRUE) ELSE t[j]
    <2>1. DOMAIN t = 1 .. Len(t) /\ Len(t) \in Nat BY LenProperties
    <2>2. \A j \in 1 .. Len(t) : t[j] \in Entries BY ElementOfSeq
    <2>3. Rated(t, i) \in [1 .. Len(t) -> Entries] BY <2>1, <2>2, EntryIs DEF Rated
    <2>4. Rated(t, i) \in Seq(Entries) /\ Len(Rated(t, i)) = Len(t) BY <2>1, <2>3, SMT
    <2>5. QED BY <2>1, <2>4 DEF Rated
<1> DEFINE l == LastOf(s, Limit)
           u == Rated(s, i)
           v == Rated(l, i)
           n == Newest(s)
           d == Len(s) - n
<1>2. /\ l \in Seq(Entries) /\ Len(l) = n /\ n \in Nat
      /\ \A j \in 1 .. n : j + d \in 1 .. Len(s) /\ l[j] = s[j + d]
    BY NewestLines
<1> HIDE DEF l
<1>3. u \in Seq(Entries) /\ Len(u) = Len(s) /\ Newest(u) = n
    BY <1>1 DEF Newest
<1>4. v \in Seq(Entries) /\ Len(v) = n BY <1>1, <1>2
<1>5. /\ LastOf(u, Limit) \in Seq(Entries) /\ Len(LastOf(u, Limit)) = n
      /\ \A j \in 1 .. n : LastOf(u, Limit)[j] = u[j + d]
    <2> HIDE DEF u, n
    <2>1. QED BY <1>3, NewestLines
<1>6. ASSUME NEW j \in 1 .. n PROVE LastOf(u, Limit)[j] = v[j]
    <2>1. j + d \in 1 .. Len(s) /\ l[j] = s[j + d] /\ j \in 1 .. Len(l) BY <1>2
    <2> HIDE DEF d, n
    <2>2. u[j + d] = IF s[j + d].id = i THEN Entry(i, TRUE) ELSE s[j + d] BY <1>1, <2>1
    <2>3. v[j] = IF l[j].id = i THEN Entry(i, TRUE) ELSE l[j] BY <1>1, <1>2, <2>1
    <2>4. QED BY <1>5, <2>1, <2>2, <2>3
<1> HIDE DEF u, v, n
<1>7. LastOf(u, Limit) = v BY <1>4, <1>5, <1>6, SeqEqual
<1>8. QED BY <1>1, <1>7 DEF u, v, l

-----------------------------------------------------------------------------
(* The order of the lines                                                  *)

\* The readable lines of a log are in the order of their traces, all before m.
OldFirst(s, m) ==
    /\ \A j \in 1 .. Len(s) : s[j].id < m
    /\ \A j, k \in 1 .. Len(s) :
           j < k /\ s[j].id # 0 /\ s[k].id # 0 => s[j].id < s[k].id

\* Lines carry the ids of traces, damaged ones none.
LEMMA LineIds ==
    /\ \A e \in Entries : e.id \in Nat /\ e.id <= MaxEvents
    /\ Bad.id = 0 /\ \A i, r : Entry(i, r).id = i
<1>1. \A i \in Traces : i \in Nat /\ i <= MaxEvents BY BoundsAssumption, SMT DEF Traces
<1>2. QED BY <1>1 DEF Entries, Bad, Entry

\* The newest lines of an ordered log are ordered.
LEMMA OldFirstNewest ==
    ASSUME NEW s \in Seq(Entries), NEW m, OldFirst(s, m)
    PROVE  OldFirst(LastOf(s, Limit), m)
<1> DEFINE l == LastOf(s, Limit)
           n == Newest(s)
           d == Len(s) - n
<1>1. /\ Len(l) = n /\ n \in Nat /\ Len(s) \in Nat
      /\ \A j \in 1 .. n : j + d \in 1 .. Len(s) /\ l[j] = s[j + d]
    BY NewestLines
<1>2. \A j, k \in 1 .. n : j < k => j + d < k + d BY <1>1, SMT
<1> HIDE DEF l, n, d
<1>3. \A j \in 1 .. Len(l) : l[j].id < m BY <1>1 DEF OldFirst
<1>4. ASSUME NEW j \in 1 .. Len(l), NEW k \in 1 .. Len(l), j < k, l[j].id # 0, l[k].id # 0
      PROVE  l[j].id < l[k].id
    <2>1. j + d < k + d BY <1>1, <1>2, <1>4
    <2>2. QED BY <1>1, <1>4, <2>1 DEF OldFirst
<1>5. OldFirst(l, m) BY <1>3, <1>4 DEF OldFirst
<1>6. QED BY <1>5 DEF l

\* So are rated ones.
LEMMA OldFirstRated ==
    ASSUME NEW s \in Seq(Entries), NEW m, NEW i \in Traces, OldFirst(s, m)
    PROVE  OldFirst(Rated(s, i), m)
<1>1. Len(Rated(s, i)) = Len(s) /\ DOMAIN s = 1 .. Len(s) BY NewestRated, LenProperties
<1>2. \A j \in 1 .. Len(s) : Rated(s, i)[j].id = s[j].id
    BY <1>1, LineIds DEF Rated
<1>3. QED BY <1>1, <1>2 DEF OldFirst

\* A spoilt line is in nobody's way.
LEMMA OldFirstSpoilt ==
    ASSUME NEW s \in Seq(Entries), s # <<>>, NEW m \in Nat, m > 0, OldFirst(s, m)
    PROVE  OldFirst([s EXCEPT ![Len(s)] = Bad], m)
<1> DEFINE u == [s EXCEPT ![Len(s)] = Bad]
<1>1. Len(u) = Len(s) /\ DOMAIN s = 1 .. Len(s) BY SpoiltLine, LenProperties
<1>2. \A j \in 1 .. Len(s) : u[j].id = s[j].id \/ u[j].id = 0
    BY <1>1, LineIds
<1> HIDE DEF u
<1>3. OldFirst(u, m) BY <1>1, <1>2, SMT DEF OldFirst
<1>4. QED BY <1>3 DEF u

\* Nor is an appended line that is newer than the others or cannot be read.
LEMMA OldFirstAppended ==
    ASSUME NEW s \in Seq(Entries), NEW e \in Entries, NEW m \in Nat, OldFirst(s, m),
           e.id < m, e.id = 0 \/ \A j \in 1 .. Len(s) : s[j].id < e.id
    PROVE  OldFirst(Append(s, e), m)
<1> DEFINE a == Append(s, e)
<1>1. /\ Len(a) = Len(s) + 1 /\ Len(s) \in Nat /\ a[Len(s) + 1] = e
      /\ \A j \in 1 .. Len(s) : a[j] = s[j]
    BY AppendProperties, LenProperties
<1> HIDE DEF a
<1>2. \A j \in 1 .. Len(a) : j \in 1 .. Len(s) \/ j = Len(s) + 1
    BY <1>1, SMT
<1>3. \A j \in 1 .. Len(a) : a[j].id < m BY <1>1, <1>2 DEF OldFirst
<1>4. ASSUME NEW j \in 1 .. Len(a), NEW k \in 1 .. Len(a), j < k, a[j].id # 0, a[k].id # 0
      PROVE  a[j].id < a[k].id
    <2>1. j \in 1 .. Len(s) BY <1>1, <1>2, <1>4, SMT
    <2>2. CASE k \in 1 .. Len(s) BY <1>1, <1>4, <2>1, <2>2 DEF OldFirst
    <2>3. CASE k = Len(s) + 1 BY <1>1, <1>4, <2>1, <2>3
    <2>4. QED BY <1>2, <2>2, <2>3
<1>5. OldFirst(a, m) BY <1>3, <1>4 DEF OldFirst
<1>6. QED BY <1>5 DEF a

\* A log stays ordered as traces are added.
LEMMA OldFirstGrows ==
    ASSUME NEW s \in Seq(Entries), NEW m \in Nat, OldFirst(s, m)
    PROVE  OldFirst(s, m + 1)
<1>1. \A j \in 1 .. Len(s) : s[j].id \in Nat BY ElementOfSeq, LineIds
<1>2. QED BY <1>1, SMT DEF OldFirst

\* The log is ordered, the acknowledged traces are older than the next, and an
\* unfinished line is not acknowledged.  An append has the newest trace, and the
\* log holds none of it before the line is written.
Recorded == {"ensure", "trim", "append"}
Aged ==
    /\ OldFirst(file, next)
    /\ \A i \in acked : i \in Nat /\ i >= 1 /\ i < next
    /\ torn => file[Len(file)].id \notin acked
Own(t) ==
    /\ pc[t] # "idle" => id[t] >= 1 /\ id[t] < next
    /\ pc[t] # "idle" /\ op[t] = "append" => id[t] = next - 1 /\ id[t] \notin acked
    /\ pc[t] \in Recorded /\ op[t] = "append" => \A j \in 1 .. Len(file) : file[j].id < id[t]
    /\ pc[t] \in {"prune", "rename"} /\ op[t] = "append" => file # <<>> /\ ~torn
IdsInv == Aged /\ \A t \in Threads : Own(t)

\* Where one thread goes is all that matters to the traces in hand.
LEMMA OneOwn ==
    ASSUME Exclusive, NEW t \in Threads, pc[t] # "idle", NEW to,
           pc' = [pc EXCEPT ![t] = to], Aged', pc'[t] = to => Own(t)'
    PROVE  IdsInv'
<1>1. pc'[t] = to /\ \A u \in Threads \ {t} : pc'[u] = "idle" BY OthersIdle
<1>2. \A u \in Threads \ {t} : Own(u)' BY <1>1, SMT DEF Own, Recorded
<1>3. QED BY <1>1, <1>2, Zenon DEF IdsInv

\* A written line, whole or not, is newer than the others.
LEMMA WriteAged ==
    ASSUME Typed, CallsInOrder, IdsInv, NEW t \in Threads, pc[t] = "append",
           Written(Entry(id[t], FALSE)) \/ Torn(Entry(id[t], FALSE))
    PROVE  /\ OldFirst(file', next)
           /\ torn' => file'[Len(file')].id \notin acked
<1> DEFINE e == Entry(id[t], FALSE)
<1>0. op[t] = "append" /\ pc[t] # "idle" /\ pc[t] \in Recorded
    BY SMT DEF CallsInOrder, InOrder, Recorded
<1>1. /\ id[t] \in Nat /\ id[t] < next /\ id[t] \notin acked
      /\ \A j \in 1 .. Len(file) : file[j].id < id[t]
    <2>1. id[t] \in Traces BY DEF Typed
    <2>2. id[t] \in Nat BY <2>1, BoundsAssumption, SMT DEF Traces
    <2>3. Own(t) BY DEF IdsInv
    <2>4. QED BY <1>0, <2>2, <2>3 DEF Own
<1>2. /\ file \in Seq(Entries) /\ e \in Entries /\ Bad \in Entries
      /\ next \in Nat /\ next > 0 /\ OldFirst(file, next) /\ (torn => file # <<>>)
      /\ e.id = id[t] /\ Bad.id = 0 /\ 0 \notin acked /\ Len(file) \in Nat
    <2>1. e \in Entries /\ Bad \in Entries BY EntryIs DEF Typed
    <2>2. next \in Nat /\ next > 0 BY BoundsAssumption, SMT DEF Typed
    <2>3. 0 \notin acked /\ OldFirst(file, next) BY SMT DEF IdsInv, Aged
    <2>4. file \in Seq(Entries) /\ (torn => file # <<>>) /\ Len(file) \in Nat
        BY LenProperties DEF Typed
    <2>5. QED BY <2>1, <2>2, <2>3, <2>4, LineIds
<1> HIDE DEF e
<1>3. ASSUME NEW d \in {e, Bad}
      PROVE  /\ OldFirst(Append(file, d), next)
             /\ Append(file, d)[Len(Append(file, d))].id \notin acked
    <2>1. d \in Entries /\ d.id < next /\ d.id \notin acked
          /\ (d.id = 0 \/ \A j \in 1 .. Len(file) : file[j].id < d.id)
        BY <1>1, <1>2
    <2>2. Len(Append(file, d)) = Len(file) + 1 /\ Append(file, d)[Len(file) + 1] = d
        BY <1>2, <2>1, AppendProperties
    <2>3. QED BY <1>2, <2>1, <2>2, OldFirstAppended
<1>4. torn => /\ OldFirst([file EXCEPT ![Len(file)] = Bad], next)
              /\ [file EXCEPT ![Len(file)] = Bad][Len([file EXCEPT ![Len(file)] = Bad])].id
                     \notin acked
    <2> SUFFICES ASSUME torn
                 PROVE  /\ OldFirst([file EXCEPT ![Len(file)] = Bad], next)
                        /\ [file EXCEPT ![Len(file)] = Bad][Len([file EXCEPT ![Len(file)] = Bad])].id
                               \notin acked
        OBVIOUS
    <2>1. OldFirst([file EXCEPT ![Len(file)] = Bad], next) BY <1>2, OldFirstSpoilt
    <2>2. Len([file EXCEPT ![Len(file)] = Bad]) = Len(file) BY <1>2, SpoiltLine
    <2>3. Len(file) \in DOMAIN file BY <1>2, EmptySeq, LenProperties, SMT
    <2>4. [file EXCEPT ![Len(file)] = Bad][Len(file)] = Bad BY <2>3
    <2>5. QED BY <1>2, <2>1, <2>2, <2>4
<1>5. torn => file[Len(file)].id \notin acked BY DEF IdsInv, Aged
<1>6. CASE Written(e)
    <2>1. torn' = FALSE BY <1>6 DEF Written
    <2>2. (torn /\ file' = [file EXCEPT ![Len(file)] = Bad]) \/ file' = Append(file, e)
        BY <1>6 DEF Written
    <2>3. QED BY <1>3, <1>4, <2>1, <2>2
<1>7. CASE Torn(e)
    <2>1. CASE UNCHANGED disk BY <2>1, <1>2, <1>5 DEF disk
    <2>2. CASE torn /\ file' = [file EXCEPT ![Len(file)] = Bad] BY <1>4, <2>2
    <2>3. CASE file' = Append(file, Bad) \/ file' = Append(file, e) BY <1>3, <2>3
    <2>4. QED BY <1>7, <2>1, <2>2, <2>3 DEF Torn
<1>8. QED BY <1>6, <1>7 DEF e

\* The lines in hand are as old as those on disk.
LEMMA HandAged ==
    ASSUME Exclusive, Typed, CallsInOrder, LinesInHand, IdsInv,
           NEW t \in Threads, pc[t] \in {"trim", "rename"}
    PROVE  OldFirst(lines[t], next)
<1>1. file \in Seq(Entries) /\ id[t] \in Traces /\ OldFirst(file, next)
    BY DEF Typed, IdsInv, Aged
<1>2. op[t] \in {"append", "update"} BY DEF Exclusive
<1>3. lines[t] = LastOf(file, Limit) \/ lines[t] = Rated(file, id[t])
    BY <1>2 DEF LinesInHand, InHand
<1>4. QED BY <1>1, <1>3, OldFirstNewest, OldFirstRated

\* Every step keeps the order of the lines.
LEMMA IdsStep ==
    Exclusive /\ Typed /\ CallsInOrder /\ LinesInHand /\ IdsInv /\ [Next]_vars => IdsInv'
<1> SUFFICES ASSUME Exclusive, Typed, CallsInOrder, LinesInHand, IdsInv, [Next]_vars
             PROVE  IdsInv'
    OBVIOUS
<1> USE DEF disk, mem, call, done
<1>o. \A t \in Threads : Own(t) BY DEF IdsInv
<1>n. next \in Nat /\ next >= 1 BY BoundsAssumption, SMT DEF Typed
<1>a. /\ OldFirst(file, next) /\ (torn => file[Len(file)].id \notin acked)
      /\ \A i \in acked : i \in Nat /\ i >= 1 /\ i < next
    BY DEF IdsInv, Aged
<1>i. \A t \in Threads : id[t] \in Nat /\ op[t] \in {"append", "update"}
    <2>1. \A t \in Threads : id[t] \in Traces BY DEF Typed
    <2>2. QED BY <2>1, BoundsAssumption, SMT DEF Traces, Exclusive
<1>1. ASSUME NEW t \in Threads, StartAppend(t) \/ StartUpdate(t) PROVE IdsInv'
    <2>1. mu = None /\ pc' = [pc EXCEPT ![t] = "ensure"] /\ UNCHANGED <<file, torn, acked>>
        BY <1>1, Zenon DEF StartAppend, StartUpdate, Locks
    <2>2. pc'[t] = "ensure" /\ \A u \in Threads \ {t} : pc'[u] = "idle"
        BY <2>1, BoundsAssumption, SMT DEF Exclusive
    <2>3. CASE StartAppend(t)
        <3>1. next' = next + 1 /\ id'[t] = next /\ op'[t] = "append"
            BY <2>3 DEF StartAppend, Typed, Exclusive
        <3>2. OldFirst(file', next') BY <2>1, <3>1, <1>a, <1>n, OldFirstGrows DEF Typed
        <3>3. Aged' BY <2>1, <3>1, <3>2, <1>a, <1>n, SMT DEF Aged
        <3>4. Own(t)'
            <4>1. \A j \in 1 .. Len(file') : file'[j].id < id'[t]
                BY <2>1, <3>1, <1>a DEF OldFirst
            <4>2. id'[t] \notin acked' BY <2>1, <3>1, <1>a, <1>n, SMT
            <4>3. QED BY <2>2, <3>1, <4>1, <4>2, <1>n, SMT DEF Own
        <3>5. \A u \in Threads \ {t} : Own(u)' BY <2>2, SMT DEF Own, Recorded
        <3>6. QED BY <3>3, <3>4, <3>5, Zenon DEF IdsInv
    <2>4. CASE StartUpdate(t)
        <3>1. next' = next /\ id'[t] \in 1 .. (next - 1) /\ op'[t] = "update"
            BY <2>4 DEF StartUpdate, Typed, Exclusive
        <3>2. Aged' BY <2>1, <3>1, <1>a DEF Aged, OldFirst
        <3>3. Own(t)' BY <2>2, <3>1, <1>n, SMT DEF Own
        <3>4. \A u \in Threads \ {t} : Own(u)' BY <2>2, SMT DEF Own, Recorded
        <3>5. QED BY <3>2, <3>3, <3>4, Zenon DEF IdsInv
    <2>5. QED BY <1>1, <2>3, <2>4
<1>2. ASSUME NEW t \in Threads, Ensure(t) \/ PruneRead(t) \/ UpdateRead(t) PROVE IdsInv'
    <2>1. UNCHANGED <<file, torn, acked, next, op, id>>
        BY <1>2, Zenon DEF Ensure, PruneRead, UpdateRead
    <2>2. PICK to : /\ pc[t] # "idle" /\ pc' = [pc EXCEPT ![t] = to]
                    /\ \/ to = "idle"
                       \/ pc[t] = "ensure" /\ to \in {op[t], "trim"}
                       \/ pc[t] = "prune" /\ to = "rename"
                       \/ pc[t] = "update" /\ to = "rename"
        <3>1. CASE Ensure(t) BY <3>1, Zenon DEF Ensure, Goes
        <3>2. CASE PruneRead(t) BY <3>2, Zenon DEF PruneRead, Goes
        <3>3. CASE UpdateRead(t) BY <3>3, Zenon DEF UpdateRead, Goes, Returns
        <3>4. QED BY <1>2, <3>1, <3>2, <3>3
    <2>3. Aged' BY <2>1, <1>a DEF Aged, OldFirst
    <2>4. pc'[t] = to => Own(t)'
        <3>1. pc[t] = "update" => op[t] # "append" BY SMT DEF CallsInOrder, InOrder
        <3>2. QED BY <2>1, <2>2, <3>1, <1>o, <1>i, SMT DEF Own, Recorded
    <2>5. QED BY <2>2, <2>3, <2>4, OneOwn
<1>3. ASSUME NEW t \in Threads, Trim(t) \/ Rename(t) PROVE IdsInv'
    <2>1. /\ Replace(t) /\ UNCHANGED <<next, op, id>> /\ pc[t] \in {"trim", "rename"}
          /\ pc[t] # "idle" /\ (acked' = acked \/ acked' = acked \union {id[t]})
        BY <1>3, SMT DEF Trim, Rename, Finish, Goes, Returns
    <2>2. file' = lines[t] /\ torn' = FALSE BY <2>1 DEF Replace
    <2>3. OldFirst(file', next') BY <2>1, <2>2, HandAged
    <2>4. id[t] >= 1 /\ id[t] < next BY <2>1, <1>o DEF Own
    <2>5. Aged' BY <2>1, <2>2, <2>3, <2>4, <1>a, <1>i DEF Aged
    <2>6. CASE Rename(t)
        <3>1. pc' = [pc EXCEPT ![t] = "idle"] BY <2>6 DEF Rename, Finish, Returns
        <3>2. pc'[t] = "idle" => Own(t)' BY SMT DEF Own, Recorded
        <3>3. QED BY <2>1, <2>5, <3>1, <3>2, OneOwn
    <2>7. CASE Trim(t)
        <3>1. pc[t] = "trim" /\ pc' = [pc EXCEPT ![t] = op[t]] /\ acked' = acked
            BY <2>7 DEF Trim, Goes
        <3>2. op[t] = "append" => \A j \in 1 .. Len(file') : file'[j].id < id[t]
            <4> SUFFICES ASSUME op[t] = "append", NEW j \in 1 .. Len(file')
                         PROVE  file'[j].id < id[t]
                OBVIOUS
            <4>1. file' = LastOf(file, Limit) BY <2>2, <3>1 DEF LinesInHand, InHand
            <4>2. file \in Seq(Entries) BY DEF Typed
            <4>3. PICK k \in 1 .. Len(file) : file'[j] = file[k]
                BY <4>1, <4>2, NewestLines
            <4>4. QED BY <3>1, <4>3, <1>o DEF Own, Recorded
        <3>3. pc'[t] = op[t] => Own(t)'
            BY <2>1, <3>1, <3>2, <1>o, <1>i, SMT DEF Own, Recorded
        <3>4. QED BY <2>1, <2>5, <3>1, <3>3, OneOwn
    <2>8. QED BY <1>3, <2>6, <2>7
<1>4. ASSUME NEW t \in Threads, Write(t) PROVE IdsInv'
    <2>1. /\ pc[t] = "append" /\ Written(Entry(id[t], FALSE)) /\ UNCHANGED <<next, op, id>>
          /\ acked' = acked \/ acked' = acked \union {id[t]}
        BY <1>4, Zenon DEF Write, Goes, Finish, Returns
    <2>2. OldFirst(file', next) BY <2>1, WriteAged
    <2>3. Entry(id[t], FALSE) \in Entries BY EntryIs DEF Typed
    <2>4. torn' = FALSE /\ file' # <<>>
        <3>1. CASE torn BY <2>1, <3>1, SpoiltLine DEF Written, Typed
        <3>2. CASE ~torn BY <2>1, <2>3, <3>2, AppendedLine DEF Written, Typed
        <3>3. QED BY <3>1, <3>2
    <2>5. pc[t] # "idle" BY <2>1
    <2>6. id[t] >= 1 /\ id[t] < next BY <2>5, <1>o DEF Own
    <2>7. Aged' BY <2>1, <2>2, <2>4, <2>6, <1>a, <1>i DEF Aged
    <2>8. CASE Finish(t, "append")
        <3>1. pc' = [pc EXCEPT ![t] = "idle"] BY <2>8 DEF Finish, Returns
        <3>2. pc'[t] = "idle" => Own(t)' BY SMT DEF Own, Recorded
        <3>3. QED BY <2>5, <2>7, <3>1, <3>2, OneOwn
    <2>9. CASE Goes(t, "append", "prune") /\ UNCHANGED done
        <3>1. pc' = [pc EXCEPT ![t] = "prune"] /\ acked' = acked BY <2>9 DEF Goes
        <3>2. pc'[t] = "prune" => Own(t)'
            BY <2>1, <2>4, <2>5, <3>1, <1>o, SMT DEF Own, Recorded
        <3>3. QED BY <2>5, <2>7, <3>1, <3>2, OneOwn
    <2>10. QED BY <1>4, <2>8, <2>9 DEF Write
<1>5. ASSUME NEW t \in Threads, WriteFails(t) \/ CloseFails(t) \/ Fails(t) PROVE IdsInv'
    <2>1. /\ UNCHANGED <<next, acked>> /\ pc[t] # "idle" /\ pc' = [pc EXCEPT ![t] = "idle"]
          /\ \/ UNCHANGED <<file, torn>>
             \/ /\ pc[t] = "append"
                /\ Written(Entry(id[t], FALSE)) \/ Torn(Entry(id[t], FALSE))
        <3>1. CASE WriteFails(t) BY <3>1 DEF WriteFails, Returns
        <3>2. CASE CloseFails(t) BY <3>2 DEF CloseFails, Returns
        <3>3. CASE Fails(t) BY <3>3, SMT DEF Fails, Returns
        <3>4. QED BY <1>5, <3>1, <3>2, <3>3
    <2>2. OldFirst(file', next) /\ (torn' => file'[Len(file')].id \notin acked)
        <3>1. CASE UNCHANGED <<file, torn>> BY <3>1, <1>a DEF OldFirst
        <3>2. CASE ~UNCHANGED <<file, torn>> BY <2>1, <3>2, WriteAged
        <3>3. QED BY <3>1, <3>2
    <2>3. Aged' BY <2>1, <2>2, <1>a DEF Aged
    <2>4. pc'[t] = "idle" => Own(t)' BY SMT DEF Own, Recorded
    <2>5. QED BY <2>1, <2>3, <2>4, OneOwn
<1>6. CASE Crash
    <2>1. UNCHANGED <<next, acked>> /\ \A t \in Threads : pc'[t] = "idle"
        BY <1>6, Zenon DEF Crash
    <2>2. OldFirst(file', next) /\ (torn' => file'[Len(file')].id \notin acked)
        <3>1. CASE UNCHANGED disk BY <3>1, <1>a
        <3>2. CASE \E t \in Threads : /\ pc[t] = "append"
                                      /\ \/ Torn(Entry(id[t], FALSE))
                                         \/ Written(Entry(id[t], FALSE))
            BY <3>2, WriteAged
        <3>3. QED BY <1>6, <3>1, <3>2, Zenon DEF Crash
    <2>3. Aged' BY <2>1, <2>2, <1>a DEF Aged
    <2>4. \A t \in Threads : Own(t)' BY <2>1, SMT DEF Own, Recorded
    <2>5. QED BY <2>3, <2>4, Zenon DEF IdsInv
<1>7. CASE UNCHANGED vars
    BY <1>7, Zenon DEF vars, IdsInv, Aged, Own, OldFirst
<1>8. QED BY <1>1, <1>2, <1>3, <1>4, <1>5, <1>6, <1>7 DEF Next

LogInv == Exclusive /\ Typed /\ CallsInOrder /\ LinesInHand /\ IdsInv

\* The log, and what every call does to it, are as the invariant says.
THEOREM LogIsOrdered == Spec => []LogInv
<1>1. Init => LogInv
    <2> SUFFICES ASSUME Init PROVE LogInv
        OBVIOUS
    <2>1. Exclusive /\ Typed /\ CallsInOrder BY InitInOrder
    <2>2. LinesInHand BY SMT DEF Init, LinesInHand, InHand
    <2>3. OldFirst(file, next)
        <3>1. Len(file) = 0 BY DEF Init
        <3>2. QED BY <3>1, SMT DEF OldFirst
    <2>4. Aged BY <2>3 DEF Init, Aged
    <2>5. \A t \in Threads : Own(t) BY SMT DEF Init, Own, Recorded
    <2>6. QED BY <2>1, <2>2, <2>4, <2>5 DEF LogInv, IdsInv
<1>2. LogInv /\ [Next]_vars => LogInv'
    BY ExclusiveStep, TypedStep, InOrderStep, HandStep, IdsStep DEF LogInv
<1>3. QED BY <1>1, <1>2, PTL DEF Spec

-----------------------------------------------------------------------------
(* The file's newest lines implement the abstract log.                     *)

NewestOnes == LastOf(file, Limit)

\* A line is recorded, or damaged, in the abstract log as it is in the file.
LEMMA PutLine ==
    ASSUME Typed, NEW e \in Entries, file' = Append(file, e)
    PROVE  Abstract!Put(e)
<1>1. NewestOnes' = LastOf(Append(file, e), Limit) BY DEF NewestOnes
<1>2. LastOf(Append(file, e), Limit) = LastOf(Append(NewestOnes, e), Limit)
    BY NewestAppended DEF Typed, NewestOnes
<1>3. QED BY <1>1, <1>2 DEF NewestOnes, Abstract!Put, Abstract!LastOf, LastOf

\* A torn line that is damaged is the newest in the abstract log too.
LEMMA SpoilLine ==
    ASSUME Typed, torn, file' = [file EXCEPT ![Len(file)] = Bad]
    PROVE  Abstract!Damage
<1>1. file \in Seq(Entries) /\ file # <<>> BY DEF Typed
<1>2. /\ NewestOnes # <<>>
      /\ NewestOnes' = [NewestOnes EXCEPT ![Len(NewestOnes)] = Bad]
    BY <1>1, NewestSpoilt DEF NewestOnes
<1>3. Bad = Abstract!Unreadable BY DEF Bad, Entry, Abstract!Unreadable
<1>4. QED BY <1>2, <1>3 DEF NewestOnes, Abstract!Damage

\* A write, whole or not, records or damages; or it changes nothing.
LEMMA WriteRecords ==
    ASSUME LogInv, NEW t \in Threads, pc[t] = "append",
           Written(Entry(id[t], FALSE)) \/ Torn(Entry(id[t], FALSE))
    PROVE  Abstract!Next \/ UNCHANGED NewestOnes
<1>1. Typed /\ pc[t] # "idle" BY DEF LogInv
<1>2. id[t] \in 1 .. MaxEvents
    <2>1. id[t] \in Traces BY DEF LogInv, Typed
    <2>2. id[t] >= 1 BY <1>1 DEF LogInv, IdsInv, Own
    <2>3. QED BY <2>1, <2>2, BoundsAssumption, SMT DEF Traces
<1>3. Entry(id[t], FALSE) \in Entries /\ Bad \in Entries BY EntryIs DEF LogInv, Typed
<1>4. file' = Append(file, Entry(id[t], FALSE)) => Abstract!Next
    BY <1>1, <1>2, <1>3, PutLine
    DEF Abstract!Next, Abstract!Record, Abstract!Entry, Entry
<1>5. file' = Append(file, Bad) => Abstract!Next
    BY <1>1, <1>3, PutLine
    DEF Abstract!Next, Abstract!Damage, Abstract!Unreadable, Bad, Entry
<1>6. torn /\ file' = [file EXCEPT ![Len(file)] = Bad] => Abstract!Next
    BY <1>1, SpoilLine DEF Abstract!Next
<1>7. file' = file => UNCHANGED NewestOnes BY DEF NewestOnes
<1>8. QED BY <1>4, <1>5, <1>6, <1>7, Zenon DEF Written, Torn, disk

\* A rename rates the lines of one trace, or drops lines nobody reads.
LEMMA RenameRates ==
    ASSUME LogInv, NEW t \in Threads, pc[t] \in {"trim", "rename"}, file' = lines[t]
    PROVE  Abstract!Next \/ UNCHANGED NewestOnes
<1>1. file \in Seq(Entries) /\ id[t] \in Traces BY DEF LogInv, Typed
<1>2. CASE file' = LastOf(file, Limit)
    <2>1. LastOf(file', Limit) = LastOf(file, Limit) BY <1>1, <1>2, NewestTwice
    <2>2. QED BY <2>1 DEF NewestOnes
<1>3. CASE pc[t] = "rename" /\ file' = Rated(file, id[t])
    <2>1. NewestOnes' = Rated(NewestOnes, id[t]) BY <1>1, <1>3, NewestRated DEF NewestOnes
    <2>2. id[t] \in 1 .. MaxEvents
        <3>1. id[t] >= 1 BY <1>3 DEF LogInv, IdsInv, Own
        <3>2. QED BY <1>1, <3>1, BoundsAssumption, SMT DEF Traces
    <2>3. Abstract!Rate(id[t])
        BY <2>1 DEF NewestOnes, Rated, Abstract!Rate, Abstract!Entry, Entry
    <2>4. QED BY <2>2, <2>3 DEF Abstract!Next
<1>4. op[t] \in {"append", "update"} BY DEF LogInv, Exclusive
<1>5. QED BY <1>2, <1>3, <1>4 DEF LogInv, LinesInHand, InHand

\* The newest Limit lines of the file are the log EventLog promises: what is not
\* acknowledged may be missing or unreadable, nothing older ever changes but by
\* a rating (Append(), Update(), pruneLocked() and writeLinesLocked() together).
THEOREM LogImplemented == Spec => ImplementsLog
<1>1. Init => Abstract!Init
    <2> SUFFICES ASSUME Init PROVE Abstract!Init
        OBVIOUS
    <2>1. file = <<>> /\ Len(<<>>) <= Limit BY BoundsAssumption, SMT DEF Init
    <2>2. QED BY <2>1 DEF Abstract!Init, LastOf
<1>2. LogInv /\ [Next]_vars => [Abstract!Next]_(LastOf(file, Limit))
    <2> SUFFICES ASSUME LogInv, [Next]_vars
                 PROVE  Abstract!Next \/ UNCHANGED NewestOnes
        BY DEF NewestOnes
    <2> USE DEF disk
    <2>1. ASSUME NEW t \in Threads,
                 \/ StartAppend(t) \/ StartUpdate(t) \/ Ensure(t) \/ PruneRead(t)
                 \/ UpdateRead(t) \/ Fails(t)
          PROVE  UNCHANGED NewestOnes
        BY <2>1, Zenon DEF StartAppend, StartUpdate, Ensure, PruneRead, UpdateRead, Fails,
                           NewestOnes
    <2>2. ASSUME NEW t \in Threads, Trim(t) \/ Rename(t)
          PROVE  Abstract!Next \/ UNCHANGED NewestOnes
        BY <2>2, RenameRates, SMT DEF Trim, Rename, Goes, Finish, Returns, Replace
    <2>3. ASSUME NEW t \in Threads, Write(t) \/ WriteFails(t) \/ CloseFails(t)
          PROVE  Abstract!Next \/ UNCHANGED NewestOnes
        BY <2>3, WriteRecords, Zenon DEF Write, WriteFails, CloseFails, Goes, Finish, Returns
    <2>4. CASE Crash
        <3>1. CASE UNCHANGED disk BY <3>1 DEF NewestOnes
        <3>2. CASE \E t \in Threads : /\ pc[t] = "append"
                                      /\ \/ Torn(Entry(id[t], FALSE))
                                         \/ Written(Entry(id[t], FALSE))
            BY <3>2, WriteRecords
        <3>3. QED BY <2>4, <3>1, <3>2, Zenon DEF Crash
    <2>5. CASE UNCHANGED vars BY <2>5 DEF vars, NewestOnes
    <2>6. QED BY <2>1, <2>2, <2>3, <2>4, <2>5 DEF Next
<1>3. QED BY <1>1, <1>2, LogIsOrdered, PTL DEF Spec, ImplementsLog, Abstract!Spec

-----------------------------------------------------------------------------
(* The types                                                               *)

Flags == torn \in BOOLEAN /\ initialized \in BOOLEAN

\* Every step sets the flags to truth values.
LEMMA FlagsStep == Flags /\ [Next]_vars => Flags'
<1> SUFFICES ASSUME Flags, [Next]_vars PROVE Flags'
    OBVIOUS
<1> USE DEF disk, mem
<1>1. torn' = torn \/ torn' = TRUE \/ torn' = FALSE
    <2>1. \A e : Written(e) \/ Torn(e) => torn' = torn \/ torn' = TRUE \/ torn' = FALSE
        BY DEF Written, Torn
    <2>2. ASSUME NEW t \in Threads,
                 \/ StartAppend(t) \/ StartUpdate(t) \/ Ensure(t) \/ PruneRead(t)
                 \/ UpdateRead(t) \/ Fails(t)
          PROVE  torn' = torn
        BY <2>2, Zenon DEF StartAppend, StartUpdate, Ensure, PruneRead, UpdateRead, Fails
    <2>3. ASSUME NEW t \in Threads, Trim(t) \/ Rename(t) PROVE torn' = FALSE
        BY <2>3, Zenon DEF Trim, Rename, Replace
    <2>4. ASSUME NEW t \in Threads, Write(t) \/ WriteFails(t) \/ CloseFails(t)
          PROVE  torn' = torn \/ torn' = TRUE \/ torn' = FALSE
        BY <2>1, <2>4, Zenon DEF Write, WriteFails, CloseFails
    <2>5. CASE Crash BY <2>1, <2>5, Zenon DEF Crash
    <2>6. CASE UNCHANGED vars BY <2>6 DEF vars
    <2>7. QED BY <2>1, <2>2, <2>3, <2>4, <2>5, <2>6 DEF Next
<1>2. initialized' = initialized \/ initialized' = TRUE \/ initialized' = FALSE
    <2>1. CASE UNCHANGED vars BY <2>1 DEF vars
    <2>2. CASE Next
        BY <2>2, Zenon DEF Next, Crash, StartAppend, StartUpdate, Ensure, PruneRead,
            UpdateRead, Fails, Trim, Rename, Replace, Write, WriteFails, CloseFails
    <2>3. QED BY <2>1, <2>2
<1>3. QED BY <1>1, <1>2 DEF Flags

\* A line whose close() failed is that of a trace of its own.
Appending == \E t \in Threads : pc[t] \in Recorded /\ op[t] = "append"
Counted ==
    /\ missed + (IF Appending THEN 1 ELSE 0) <= next - 1
    /\ tears \in 0 .. MaxTears

\* Lost lines, with one that is being lost, are no more than there were traces.
LEMMA CountedStep == LogInv /\ LogInv' /\ Counted /\ [Next]_vars => Counted'
<1> SUFFICES ASSUME LogInv, LogInv', Counted, [Next]_vars PROVE Counted'
    OBVIOUS
<1> USE DEF disk, mem, call
<1>n. /\ next \in Nat /\ next >= 1 /\ missed \in Nat /\ next' \in Nat /\ next' >= 1
      /\ missed <= next - 1
    BY BoundsAssumption, SMT DEF LogInv, Typed, Counted
<1>x. Exclusive BY DEF LogInv
<1>t. tears' \in 0 .. MaxTears
    <2>1. tears' = tears \/ (tears < MaxTears /\ tears' = tears + 1)
        <3>1. CASE UNCHANGED vars BY <3>1 DEF vars
        <3>2. CASE Next
            BY <3>2, Zenon DEF Next, Crash, StartAppend, StartUpdate, Ensure, PruneRead,
                UpdateRead, Fails, Trim, Rename, Write, WriteFails, CloseFails
        <3>3. QED BY <3>1, <3>2
    <2>2. QED BY <2>1, BoundsAssumption, SMT DEF Counted
<1>0. Appending' => next' - 1 >= 1
    <2> SUFFICES ASSUME Appending' PROVE next' - 1 >= 1
        OBVIOUS
    <2>1. PICK t \in Threads : pc'[t] \in Recorded /\ op'[t] = "append"
        BY DEF Appending
    <2>2. id'[t] >= 1 /\ id'[t] = next' - 1
        <3>1. pc'[t] # "idle" BY <2>1, SMT DEF Recorded
        <3>2. QED BY <2>1, <3>1 DEF LogInv, IdsInv, Own
    <2>3. QED BY <2>2
<1>1. ASSUME NEW t \in Threads, StartAppend(t) PROVE Counted'
    <2>1. mu = None /\ next' = next + 1 /\ missed' = missed
        BY <1>1 DEF StartAppend, Locks
    <2>2. missed' + (IF Appending' THEN 1 ELSE 0) <= next' - 1 BY <2>1, <1>n, SMT
    <2>3. QED BY <2>2, <1>t DEF Counted, Appending
<1>2. ASSUME missed' = 0 PROVE Counted'
    <2>1. missed' + (IF Appending' THEN 1 ELSE 0) <= next' - 1
        <3> DEFINE g == IF Appending' THEN 1 ELSE 0
        <3>1. g = 0 \/ (g = 1 /\ Appending') BY DEF g
        <3>2. g = 0 \/ (g = 1 /\ next' - 1 >= 1) BY <3>1, <1>0
        <3> HIDE DEF g
        <3>3. \A n \in Nat : n >= 1 => 0 + 0 <= n - 1 BY SMT
        <3>4. \A n \in Nat : n - 1 >= 1 => 0 + 1 <= n - 1 BY SMT
        <3>5. 0 + g <= next' - 1 BY <3>2, <3>3, <3>4, <1>n
        <3>6. QED BY <3>5, <1>2 DEF g
    <2>2. QED BY <2>1, <1>t DEF Counted, Appending
<1>3. ASSUME missed' = missed, next' = next, Appending' => Appending PROVE Counted'
    <2>1. missed' + (IF Appending' THEN 1 ELSE 0) <= next' - 1
        BY <1>3, <1>n, SMT DEF Counted
    <2>2. QED BY <2>1, <1>t DEF Counted, Appending
<1>4. ASSUME NEW t \in Threads, CloseFails(t) PROVE Counted'
    <2>1. /\ pc[t] = "append" /\ pc' = [pc EXCEPT ![t] = "idle"] /\ missed' = missed + 1
          /\ UNCHANGED <<next, op>>
        BY <1>4 DEF CloseFails, Returns
    <2>2. Appending
        <3>1. op[t] = "append" BY <2>1, SMT DEF LogInv, CallsInOrder, InOrder
        <3>2. QED BY <2>1, <3>1 DEF Appending, Recorded
    <2>3. ~Appending'
        <3>1. pc[t] # "idle" BY <2>1
        <3>2. \A u \in Threads : pc'[u] = "idle" BY <2>1, <3>1, <1>x, OthersIdle
        <3>3. QED BY <3>2, SMT DEF Appending, Recorded
    <2>4. missed' + (IF Appending' THEN 1 ELSE 0) <= next' - 1
        BY <2>1, <2>2, <2>3, <1>n, SMT DEF Counted
    <2>5. QED BY <2>4, <1>t DEF Counted, Appending
<1>5. ASSUME NEW t \in Threads, pc[t] # "idle", NEW to, pc' = [pc EXCEPT ![t] = to],
             to \notin Recorded \/ (pc[t] \in Recorded /\ op'[t] = op[t])
      PROVE  Appending' => Appending
    <2>1. pc'[t] = to /\ \A u \in Threads \ {t} : pc'[u] = "idle" BY <1>5, <1>x, OthersIdle
    <2>2. "idle" \notin Recorded BY SMT DEF Recorded
    <2>3. QED BY <1>5, <2>1, <2>2 DEF Appending
<1>6. ASSUME NEW t \in Threads, StartUpdate(t) PROVE Counted'
    <2>1. mu = None /\ pc' = [pc EXCEPT ![t] = "ensure"] /\ UNCHANGED <<next, missed>>
          /\ op' = [op EXCEPT ![t] = "update"]
        BY <1>6, Zenon DEF StartUpdate, Locks
    <2>2. op'[t] # "append" /\ \A u \in Threads \ {t} : pc'[u] = "idle"
        BY <2>1, <1>x, BoundsAssumption, SMT DEF Exclusive
    <2>3. ~Appending' BY <2>2, SMT DEF Appending, Recorded
    <2>4. QED BY <2>1, <2>3, <1>3
<1>7. ASSUME NEW t \in Threads, Ensure(t) PROVE Counted'
    <2>1. pc[t] = "ensure" /\ UNCHANGED <<next, op>> /\ (missed' = 0 \/ missed' = missed)
        BY <1>7, Zenon DEF Ensure, Goes
    <2>2. PICK to : pc' = [pc EXCEPT ![t] = to] BY <1>7, Zenon DEF Ensure, Goes
    <2>3. pc[t] # "idle" /\ pc[t] \in Recorded BY <2>1 DEF Recorded
    <2>4. Appending' => Appending BY <2>1, <2>2, <2>3, <1>5
    <2>5. QED BY <2>1, <2>4, <1>2, <1>3
<1>8. ASSUME NEW t \in Threads,
             \/ Write(t) \/ WriteFails(t) \/ PruneRead(t) \/ UpdateRead(t) \/ Fails(t)
      PROVE  Counted'
    <2>1. UNCHANGED <<next, op, missed>>
        BY <1>8, Zenon DEF Write, WriteFails, PruneRead, UpdateRead, Fails
    <2>2. PICK to \in {"idle", "prune", "rename"} :
              pc[t] # "idle" /\ pc' = [pc EXCEPT ![t] = to]
        <3>1. CASE Write(t) BY <3>1, Zenon DEF Write, Finish, Goes, Returns
        <3>2. CASE WriteFails(t) BY <3>2, Zenon DEF WriteFails, Returns
        <3>3. CASE PruneRead(t) BY <3>3, Zenon DEF PruneRead, Goes
        <3>4. CASE UpdateRead(t) BY <3>4, Zenon DEF UpdateRead, Goes, Returns
        <3>5. CASE Fails(t) BY <3>5, SMT DEF Fails, Returns
        <3>6. QED BY <1>8, <3>1, <3>2, <3>3, <3>4, <3>5
    <2>3. to \notin Recorded BY SMT DEF Recorded
    <2>4. Appending' => Appending BY <2>2, <2>3, <1>5
    <2>5. QED BY <2>1, <2>4, <1>3
<1>9. ASSUME NEW t \in Threads, Trim(t) \/ Rename(t) PROVE Counted'
    <2>1. missed' = 0 BY <1>9, Zenon DEF Trim, Rename, Replace
    <2>2. QED BY <2>1, <1>2
<1>10. CASE Crash
    <2>1. missed' = 0 BY <1>10 DEF Crash
    <2>2. QED BY <2>1, <1>2
<1>11. CASE UNCHANGED vars
    <2>1. UNCHANGED <<next, missed, pc, op>> BY <1>11 DEF vars
    <2>2. Appending' => Appending BY <2>1 DEF Appending
    <2>3. QED BY <2>1, <2>2, <1>3
<1>12. QED BY <1>1, <1>4, <1>6, <1>7, <1>8, <1>9, <1>10, <1>11 DEF Next

\* Every variable stays in its type: the lines of a log that was interrupted at
\* any step are still lines, and no trace beyond the last one is ever named.
THEOREM LogTypes == Spec => []TypeOK
<1>1. Init => Flags /\ Counted /\ RatingsKept
    <2> SUFFICES ASSUME Init PROVE Flags /\ Counted /\ RatingsKept
        OBVIOUS
    <2>1. Flags BY DEF Init, Flags
    <2>2. ~Appending BY SMT DEF Init, Appending, Recorded
    <2>3. missed = 0 /\ next = 1 /\ tears = 0 BY DEF Init
    <2>4. Counted BY <2>2, <2>3, BoundsAssumption, SMT DEF Counted
    <2>5. RatingsKept BY SMT DEF Init, RatingsKept, Rating, Kept
    <2>6. QED BY <2>1, <2>4, <2>5
<1>2. LogInv /\ LogInv' /\ Flags /\ Counted /\ RatingsKept /\ [Next]_vars
          => (Flags /\ Counted /\ RatingsKept)'
    BY FlagsStep, CountedStep, RatingsStep DEF LogInv
<1>3. ASSUME LogInv, Flags, Counted, RatingsKept PROVE TypeOK
    <2>1. Lines = Seq(Entries) BY DEF Lines, Entries, Traces
    <2>2. file \in Lines /\ torn \in BOOLEAN /\ (torn => file # <<>>)
          /\ lines \in [Threads -> Lines] /\ initialized \in BOOLEAN
        BY <1>3, <2>1 DEF LogInv, Typed, Flags
    <2>3. /\ pc \in [Threads -> {"idle", "ensure", "trim", "append", "prune", "update", "rename"}]
          /\ op \in [Threads -> {"append", "update"}] /\ mu \in Threads \union {None}
          /\ \A t \in Threads : pc[t] # "idle" <=> mu = t
        <3>1. Busy \union {"idle"}
                  = {"idle", "ensure", "trim", "append", "prune", "update", "rename"}
            BY DEF Busy
        <3>2. QED BY <1>3, <3>1 DEF LogInv, Exclusive
    <2>4. /\ id \in [Threads -> 0 .. MaxEvents] /\ count \in Nat
          /\ next \in 1 .. (MaxEvents + 1)
        BY <1>3 DEF LogInv, Typed, Traces
    <2>5. missed \in 0 .. MaxEvents /\ tears \in 0 .. MaxTears
        BY <1>3, BoundsAssumption, SMT DEF LogInv, Typed, Counted
    <2>6. acked \subseteq 1 .. MaxEvents /\ rated \subseteq 1 .. MaxEvents
        <3>1. \A i \in Nat : i >= 1 /\ i < next => i \in 1 .. MaxEvents
            BY <2>4, BoundsAssumption, SMT
        <3>2. \A i \in 1 .. (next - 1) : i \in 1 .. MaxEvents
            BY <2>4, BoundsAssumption, SMT
        <3>3. QED BY <1>3, <3>1, <3>2 DEF LogInv, IdsInv, Aged, RatingsKept
    <2>7. QED BY <2>2, <2>3, <2>4, <2>5, <2>6 DEF TypeOK
<1>4. QED BY <1>1, <1>2, <1>3, LogIsOrdered, PTL DEF Spec

-----------------------------------------------------------------------------
(* What is lost                                                            *)

\* The traces of a that a log should still hold and does not: Lost, for any log.
LostOf(s, a) ==
    {i \in a : /\ \A j \in 1 .. Len(s) : s[j].id # i
               /\ \/ Len(s) < Limit
                  \/ \E j \in 1 .. Len(s) : s[j].id \in 1 .. (i - 1)}

\* They are the ones EventStore counts.
LEMMA LostIs == Typed => Lost = LostOf(file, acked)
<1> SUFFICES ASSUME Typed PROVE Lost = LostOf(file, acked)
    OBVIOUS
<1>1. DOMAIN file = 1 .. Len(file) BY LenProperties DEF Typed
<1>2. QED BY <1>1 DEF Lost, Readable, LostOf

\* Rating loses no trace.
LEMMA LostRated ==
    ASSUME NEW s \in Seq(Entries), NEW i \in Traces, NEW a
    PROVE  LostOf(Rated(s, i), a) = LostOf(s, a)
<1>1. Len(Rated(s, i)) = Len(s) /\ DOMAIN s = 1 .. Len(s) BY NewestRated, LenProperties
<1>2. \A j \in 1 .. Len(s) : Rated(s, i)[j].id = s[j].id
    BY <1>1, LineIds DEF Rated
<1>3. QED BY <1>1, <1>2 DEF LostOf

\* Nor does dropping the oldest lines: what is dropped is older than all that stays.
LEMMA LostNewest ==
    ASSUME NEW s \in Seq(Entries), NEW m, OldFirst(s, m), NEW a \in SUBSET Nat
    PROVE  LostOf(LastOf(s, Limit), a) \subseteq LostOf(s, a)
<1> DEFINE l == LastOf(s, Limit)
           n == Newest(s)
           d == Len(s) - n
<1>1. /\ Len(l) = n /\ n \in Nat /\ Len(s) \in Nat /\ n <= Len(s)
      /\ \A j \in 1 .. n : j + d \in 1 .. Len(s) /\ l[j] = s[j + d]
    BY NewestLines
<1>2. CASE Len(s) <= Limit BY <1>2 DEF LastOf
<1>3. CASE ~(Len(s) <= Limit)
    <2>1. n = Limit BY <1>3 DEF Newest
    <2>2. \A k \in 1 .. Len(s) : k > d => k - d \in 1 .. n /\ (k - d) + d = k BY <1>1, SMT
    <2> HIDE DEF l, n
    <2>3. SUFFICES ASSUME NEW i \in LostOf(l, a) PROVE i \in LostOf(s, a)
        BY DEF l
    <2>4. i \in a /\ i \in Nat /\ \A j \in 1 .. n : l[j].id # i BY <1>1, <2>3 DEF LostOf
    <2>5. PICK j \in 1 .. n : l[j].id \in 1 .. (i - 1)
        <3>1. ~(Len(l) < Limit) BY <1>1, <2>1, SMT
        <3>2. QED BY <1>1, <2>3, <3>1 DEF LostOf
    <2> HIDE DEF d
    <2>6. j + d \in 1 .. Len(s) /\ s[j + d].id \in 1 .. (i - 1) BY <1>1, <2>5
    <2>7. ASSUME NEW k \in 1 .. Len(s), s[k].id = i PROVE FALSE
        <3>1. i # 0 /\ s[j + d].id # 0 /\ s[j + d].id < i BY <2>4, <2>6, SMT
        <3>2. ~(k < j + d)
            <4> SUFFICES ASSUME k < j + d PROVE FALSE
                OBVIOUS
            <4>1. i < s[j + d].id BY <2>6, <2>7, <3>1 DEF OldFirst
            <4>2. QED BY <2>4, <2>6, <4>1, SMT
        <3>3. d \in Int BY <1>1, SMT DEF d
        <3>4. k > d BY <3>2, <3>3, SMT
        <3>5. k - d \in 1 .. n /\ (k - d) + d = k BY <2>2, <3>4
        <3>6. l[k - d] = s[k] BY <1>1, <3>5
        <3>7. QED BY <2>4, <2>7, <3>5, <3>6
    <2>8. QED BY <2>4, <2>6, <2>7 DEF LostOf
<1>4. QED BY <1>2, <1>3

\* Nor does spoiling a last line that nobody was told of.
LEMMA LostSpoilt ==
    ASSUME NEW s \in Seq(Entries), s # <<>>, NEW a \in SUBSET Nat, s[Len(s)].id \notin a
    PROVE  LostOf([s EXCEPT ![Len(s)] = Bad], a) \subseteq LostOf(s, a)
<1> DEFINE u == [s EXCEPT ![Len(s)] = Bad]
<1>1. Len(u) = Len(s) /\ DOMAIN s = 1 .. Len(s) BY SpoiltLine, LenProperties
<1>2. \A j \in 1 .. Len(s) : u[j] = IF j = Len(s) THEN Bad ELSE s[j] BY <1>1
<1> HIDE DEF u
<1>3. SUFFICES ASSUME NEW i \in LostOf(u, a) PROVE i \in LostOf(s, a)
    BY DEF u
<1>4. i \in a /\ i \in Nat /\ \A j \in 1 .. Len(s) : u[j].id # i BY <1>1, <1>3 DEF LostOf
<1>5. \A j \in 1 .. Len(s) : s[j].id # i BY <1>2, <1>4
<1>6. Bad.id \notin 1 .. (i - 1) BY LineIds, <1>4, SMT
<1>7. \A j \in 1 .. Len(s) : u[j].id \in 1 .. (i - 1) => s[j].id \in 1 .. (i - 1)
    BY <1>2, <1>6
<1>8. QED BY <1>1, <1>3, <1>4, <1>5, <1>7 DEF LostOf

\* Nor does appending a line that is not older than any of the traces.
LEMMA LostAppended ==
    ASSUME NEW s \in Seq(Entries), NEW e \in Entries, NEW a \in SUBSET Nat,
           \A i \in a : e.id \notin 1 .. (i - 1)
    PROVE  LostOf(Append(s, e), a) \subseteq LostOf(s, a)
<1> DEFINE u == Append(s, e)
<1>1. /\ Len(u) = Len(s) + 1 /\ Len(s) \in Nat /\ u[Len(s) + 1] = e
      /\ \A j \in 1 .. Len(s) : u[j] = s[j]
    BY AppendProperties, LenProperties
<1>2. \A j \in 1 .. Len(u) : j \in 1 .. Len(s) \/ j = Len(s) + 1 BY <1>1, SMT
<1>3. \A j \in 1 .. Len(s) : j \in 1 .. Len(u) BY <1>1, SMT
<1>4. Len(u) < Limit => Len(s) < Limit BY <1>1, BoundsAssumption, SMT
<1> HIDE DEF u
<1>5. SUFFICES ASSUME NEW i \in LostOf(u, a) PROVE i \in LostOf(s, a)
    BY DEF u
<1>6. i \in a /\ \A j \in 1 .. Len(s) : s[j].id # i BY <1>1, <1>3, <1>5 DEF LostOf
<1>7. Len(s) < Limit \/ \E j \in 1 .. Len(s) : s[j].id \in 1 .. (i - 1)
    BY <1>1, <1>2, <1>4, <1>5, <1>6 DEF LostOf
<1>8. QED BY <1>6, <1>7 DEF LostOf

\* A write, whole or not, loses none of the acknowledged traces.
LEMMA WriteLosesNone ==
    ASSUME LogInv, NEW t \in Threads, pc[t] = "append",
           Written(Entry(id[t], FALSE)) \/ Torn(Entry(id[t], FALSE))
    PROVE  LostOf(file', acked) \subseteq LostOf(file, acked)
<1> DEFINE e == Entry(id[t], FALSE)
<1>1. /\ file \in Seq(Entries) /\ (torn => file # <<>>)
      /\ (torn => file[Len(file)].id \notin acked) /\ acked \in SUBSET Nat
    BY DEF LogInv, Typed, IdsInv, Aged
<1>2. e \in Entries /\ Bad \in Entries /\ e.id = id[t] /\ Bad.id = 0
    BY EntryIs, LineIds DEF LogInv, Typed
<1>3. op[t] = "append" /\ pc[t] # "idle" BY SMT DEF LogInv, CallsInOrder, InOrder
<1>4. id[t] = next - 1 /\ next \in Nat
    BY <1>3, BoundsAssumption, SMT DEF LogInv, IdsInv, Own, Typed
<1>5. \A i \in acked : i \in Nat /\ i < next BY DEF LogInv, IdsInv, Aged
<1>6. \A i \in acked : id[t] \notin 1 .. (i - 1) /\ 0 \notin 1 .. (i - 1)
    BY <1>4, <1>5, SMT
<1>7. \A i \in acked : e.id \notin 1 .. (i - 1) /\ Bad.id \notin 1 .. (i - 1)
    BY <1>2, <1>6
<1> HIDE DEF e
<1>8. LostOf(Append(file, e), acked) \subseteq LostOf(file, acked)
    BY <1>1, <1>2, <1>7, LostAppended
<1>9. LostOf(Append(file, Bad), acked) \subseteq LostOf(file, acked)
    BY <1>1, <1>2, <1>7, LostAppended
<1>10. torn => LostOf([file EXCEPT ![Len(file)] = Bad], acked) \subseteq LostOf(file, acked)
    BY <1>1, LostSpoilt
<1>11. \/ file' = file \/ file' = Append(file, e) \/ file' = Append(file, Bad)
       \/ torn /\ file' = [file EXCEPT ![Len(file)] = Bad]
    BY Zenon DEF Written, Torn, disk, e
<1>12. QED BY <1>8, <1>9, <1>10, <1>11

\* Renaming the lines in hand loses none either.
LEMMA RenameLosesNone ==
    ASSUME LogInv, NEW t \in Threads, pc[t] \in {"trim", "rename"}
    PROVE  LostOf(lines[t], acked) \subseteq LostOf(file, acked)
<1>1. /\ file \in Seq(Entries) /\ id[t] \in Traces /\ OldFirst(file, next)
      /\ acked \in SUBSET Nat
    BY DEF LogInv, Typed, IdsInv, Aged
<1>2. op[t] \in {"append", "update"} BY DEF LogInv, Exclusive
<1>3. lines[t] = LastOf(file, Limit) \/ lines[t] = Rated(file, id[t])
    BY <1>2 DEF LogInv, LinesInHand, InHand
<1>4. QED BY <1>1, <1>3, LostNewest, LostRated

\* An acknowledgement loses at most the trace acknowledged, and not one at hand.
LEMMA LostAcked ==
    ASSUME NEW s, NEW a, NEW i
    PROVE  /\ LostOf(s, a \union {i}) \subseteq LostOf(s, a) \union {i}
           /\ (\E j \in 1 .. Len(s) : s[j].id = i) =>
                  LostOf(s, a \union {i}) \subseteq LostOf(s, a)
BY DEF LostOf

\* A line was written behind a fragment, and its Append() is still pruning.
Pending ==
    \E t \in Threads : /\ pc[t] \in {"prune", "rename"} /\ op[t] = "append"
                       /\ file[Len(file)].id # id[t]

\* A fragment, or an append behind one, is a loss still to come.
LossInv ==
    /\ Cardinality(Lost) <= tears
    /\ torn \/ Pending => Cardinality(Lost) < tears

\* What is lost can be counted.
LEMMA LostIsFinite ==
    ASSUME NEW n \in Nat, NEW a, \A i \in a : i \in Nat /\ i >= 1 /\ i < n, NEW s
    PROVE  IsFiniteSet(LostOf(s, a)) /\ Cardinality(LostOf(s, a)) \in Nat
<1>1. \A i \in a : i \in 1 .. n BY SMT
<1>2. LostOf(s, a) \subseteq 1 .. n BY <1>1 DEF LostOf
<1>3. IsFiniteSet(1 .. n) BY FS_Interval, SMT
<1>4. QED BY <1>2, <1>3, FS_Subset, FS_CardinalityType

\* Every step that loses an acknowledged event uses up a fragment.
LEMMA LossStep ==
    LogInv /\ LogInv' /\ Counted /\ LossInv /\ [Next]_vars => LossInv'
<1> SUFFICES ASSUME LogInv, LogInv', Counted, LossInv, [Next]_vars PROVE LossInv'
    OBVIOUS
<1> USE DEF disk, mem, call, done
<1>x. Exclusive BY DEF LogInv
<1>l. Lost = LostOf(file, acked) /\ Lost' = LostOf(file', acked')
    <2>1. Lost = LostOf(file, acked) BY LostIs DEF LogInv
    <2>2. Typed' => Lost' = LostOf(file', acked')
        <3> SUFFICES ASSUME Typed' PROVE Lost' = LostOf(file', acked')
            OBVIOUS
        <3>1. DOMAIN file' = 1 .. Len(file') BY LenProperties DEF Typed
        <3>2. QED BY <3>1 DEF Lost, Readable, LostOf
    <2>3. QED BY <2>1, <2>2 DEF LogInv
<1>f. /\ IsFiniteSet(Lost) /\ Cardinality(Lost) \in Nat
      /\ IsFiniteSet(Lost') /\ Cardinality(Lost') \in Nat /\ tears \in Nat
    <2>n. next \in Nat /\ next' \in Nat BY BoundsAssumption, SMT DEF LogInv, Typed
    <2>1. IsFiniteSet(Lost) /\ Cardinality(Lost) \in Nat
        BY <1>l, <2>n, LostIsFinite DEF LogInv, IdsInv, Aged
    <2>2. IsFiniteSet(Lost') /\ Cardinality(Lost') \in Nat
        BY <1>l, <2>n, LostIsFinite DEF LogInv, IdsInv, Aged
    <2>3. tears \in Nat BY BoundsAssumption, SMT DEF Counted
    <2>4. QED BY <2>1, <2>2, <2>3
<1>i. ASSUME NEW t \in Threads, pc[t] # "idle", NEW to, pc' = [pc EXCEPT ![t] = to],
             to \notin {"prune", "rename"} \/ op'[t] # "append"
      PROVE  ~Pending'
    <2>1. pc'[t] = to /\ \A u \in Threads \ {t} : pc'[u] = "idle" BY <1>i, <1>x, OthersIdle
    <2>2. \A u \in Threads : ~(pc'[u] \in {"prune", "rename"} /\ op'[u] = "append")
        BY <1>i, <2>1, SMT
    <2>3. QED BY <2>2 DEF Pending
<1>a. ASSUME LostOf(file', acked') \subseteq LostOf(file, acked),
             \/ tears' = tears /\ (torn' \/ Pending' => torn \/ Pending)
             \/ tears' = tears + 1
      PROVE  LossInv'
    <2>1. Cardinality(Lost') <= Cardinality(Lost) BY <1>a, <1>l, <1>f, FS_Subset
    <2>2. CASE tears' = tears /\ (torn' \/ Pending' => torn \/ Pending)
        <3>1. Cardinality(Lost') <= tears' BY <1>f, <2>1, <2>2, SMT DEF LossInv
        <3>2. torn \/ Pending => Cardinality(Lost') < tears'
            BY <1>f, <2>1, <2>2, SMT DEF LossInv
        <3>3. QED BY <2>2, <3>1, <3>2 DEF LossInv
    <2>3. CASE tears' = tears + 1
        <3>1. Cardinality(Lost') <= tears' /\ Cardinality(Lost') < tears'
            BY <1>f, <2>1, <2>3, SMT DEF LossInv
        <3>2. QED BY <3>1 DEF LossInv
    <2>4. QED BY <1>a, <2>2, <2>3
<1>b. ASSUME NEW i, LostOf(file', acked') \subseteq LostOf(file, acked) \union {i},
             torn \/ Pending, ~torn', ~Pending', tears' = tears
      PROVE  LossInv'
    <2>1. /\ IsFiniteSet(Lost \union {i})
          /\ Cardinality(Lost \union {i}) <= Cardinality(Lost) + 1
        <3>1. IsFiniteSet(Lost \union {i})
              /\ \/ Cardinality(Lost \union {i}) = Cardinality(Lost)
                 \/ Cardinality(Lost \union {i}) = Cardinality(Lost) + 1
            BY <1>f, FS_AddElement
        <3>2. QED BY <3>1, <1>f, SMT
    <2>2. Cardinality(Lost') <= Cardinality(Lost \union {i}) BY <1>b, <1>l, <2>1, FS_Subset
    <2>3. Cardinality(Lost \union {i}) \in Nat BY <2>1, FS_CardinalityType
    <2>4. Cardinality(Lost) < tears BY <1>b DEF LossInv
    <2>5. Cardinality(Lost') <= tears' BY <1>b, <1>f, <2>1, <2>2, <2>3, <2>4, SMT
    <2>6. QED BY <1>b, <2>5 DEF LossInv
<1>1. ASSUME NEW t \in Threads, StartAppend(t) \/ StartUpdate(t) PROVE LossInv'
    <2>1. /\ mu = None /\ pc' = [pc EXCEPT ![t] = "ensure"]
          /\ UNCHANGED <<file, torn, acked, tears>>
        BY <1>1, Zenon DEF StartAppend, StartUpdate, Locks
    <2>2. \A u \in Threads : pc'[u] \notin {"prune", "rename"}
        BY <2>1, BoundsAssumption, SMT DEF LogInv, Exclusive
    <2>3. ~Pending' BY <2>2 DEF Pending
    <2>4. QED BY <2>1, <2>3, <1>a
<1>2. ASSUME NEW t \in Threads, Ensure(t) \/ UpdateRead(t) \/ Fails(t) PROVE LossInv'
    <2>1. UNCHANGED <<file, torn, acked, tears, op>>
        BY <1>2, Zenon DEF Ensure, UpdateRead, Fails
    <2>2. op[t] \in {"append", "update"} BY DEF LogInv, Exclusive
    <2>3. PICK to : /\ pc[t] # "idle" /\ pc' = [pc EXCEPT ![t] = to]
                    /\ \/ to \in {"idle", "append", "update", "trim"}
                       \/ pc[t] = "update" /\ to = "rename"
        <3>1. CASE Ensure(t) BY <2>2, <3>1, SMT DEF Ensure, Goes
        <3>2. CASE UpdateRead(t) BY <3>2, Zenon DEF UpdateRead, Goes, Returns
        <3>3. CASE Fails(t)
            <4>1. pc[t] # "idle" BY <3>3, SMT DEF Fails
            <4>2. QED BY <3>3, <4>1, Zenon DEF Fails, Returns
        <3>4. QED BY <1>2, <3>1, <3>2, <3>3
    <2>4. pc[t] = "update" => op'[t] # "append"
        BY <2>1, SMT DEF LogInv, CallsInOrder, InOrder
    <2>5. to \notin {"prune", "rename"} \/ op'[t] # "append" BY <2>3, <2>4, SMT
    <2>6. ~Pending' BY <2>3, <2>5, <1>i
    <2>7. QED BY <2>1, <2>6, <1>a
<1>3. ASSUME NEW t \in Threads, PruneRead(t) PROVE LossInv'
    <2>1. /\ UNCHANGED <<file, torn, acked, tears, op, id>>
          /\ pc[t] = "prune" /\ pc' = [pc EXCEPT ![t] = "rename"]
        BY <1>3 DEF PruneRead, Goes
    <2>2. pc[t] # "idle" BY <2>1
    <2>3. \A u \in Threads \ {t} : pc'[u] = "idle" BY <2>1, <2>2, <1>x, OthersIdle
    <2>4. Pending' => Pending
        <3>1. ASSUME NEW u \in Threads, pc'[u] \in {"prune", "rename"}, op'[u] = "append",
                     file'[Len(file')].id # id'[u]
              PROVE  Pending
            <4>1. u = t BY <2>3, <3>1, SMT
            <4>2. QED BY <2>1, <3>1, <4>1 DEF Pending
        <3>2. QED BY <3>1 DEF Pending
    <2>5. QED BY <2>1, <2>4, <1>a
<1>4. ASSUME NEW t \in Threads, Trim(t) PROVE LossInv'
    <2>1. /\ pc[t] = "trim" /\ pc' = [pc EXCEPT ![t] = op[t]] /\ file' = lines[t]
          /\ torn' = FALSE /\ UNCHANGED <<acked, tears>>
        BY <1>4 DEF Trim, Goes, Replace
    <2>2. op[t] \notin {"prune", "rename"} BY SMT DEF LogInv, Exclusive
    <2>3. pc[t] # "idle" BY <2>1
    <2>4. ~Pending' BY <2>1, <2>2, <2>3, <1>i
    <2>5. LostOf(file', acked') \subseteq LostOf(file, acked) BY <2>1, RenameLosesNone
    <2>6. QED BY <2>1, <2>4, <2>5, <1>a
<1>5. ASSUME NEW t \in Threads, Rename(t) PROVE LossInv'
    <2>1. /\ pc[t] = "rename" /\ pc' = [pc EXCEPT ![t] = "idle"] /\ file' = lines[t]
          /\ torn' = FALSE /\ tears' = tears
          /\ acked' = IF op[t] = "append" THEN acked \union {id[t]} ELSE acked
        BY <1>5 DEF Rename, Replace, Finish, Returns
    <2>2. pc[t] # "idle" BY <2>1
    <2>3. "idle" \notin {"prune", "rename"} OBVIOUS
    <2>4. ~Pending' BY <2>1, <2>2, <2>3, <1>i
    <2>5. LostOf(file', acked) \subseteq LostOf(file, acked) BY <2>1, RenameLosesNone
    <2>6. CASE op[t] # "append" BY <2>1, <2>4, <2>5, <2>6, <1>a
    <2>7. CASE op[t] = "append" /\ file[Len(file)].id # id[t]
        <3>1. Pending BY <2>1, <2>7 DEF Pending
        <3>2. LostOf(file', acked') \subseteq LostOf(file, acked) \union {id[t]}
            BY <2>1, <2>5, <2>7, LostAcked
        <3>3. QED BY <2>1, <2>4, <3>1, <3>2, <1>b
    <2>8. CASE op[t] = "append" /\ file[Len(file)].id = id[t]
        <3>1. \E j \in 1 .. Len(file') : file'[j].id = id[t]
            <4>1. file' = LastOf(file, Limit) BY <2>1, <2>8 DEF LogInv, LinesInHand, InHand
            <4>2. file # <<>> /\ file \in Seq(Entries)
                BY <2>1, <2>2, <2>8 DEF LogInv, IdsInv, Own, Typed
            <4>3. Len(file) \in Nat /\ Len(file) >= 1 BY <4>2, EmptySeq, SMT
            <4> DEFINE n == Newest(file)
            <4>4. n \in 1 .. n /\ n + (Len(file) - n) = Len(file)
                BY <4>3, BoundsAssumption, SMT DEF Newest
            <4>5. Len(file') = n /\ file'[n] = file[n + (Len(file) - n)]
                BY <4>1, <4>2, <4>4, NewestLines
            <4>6. file'[n].id = id[t] BY <2>8, <4>4, <4>5
            <4>7. QED BY <4>4, <4>5, <4>6
        <3>2. LostOf(file', acked') \subseteq LostOf(file, acked)
            BY <2>1, <2>5, <2>8, <3>1, LostAcked
        <3>3. QED BY <2>1, <2>4, <3>2, <1>a
    <2>9. QED BY <2>6, <2>7, <2>8
<1>6. ASSUME NEW t \in Threads, Write(t) PROVE LossInv'
    <2>1. /\ pc[t] = "append" /\ Written(Entry(id[t], FALSE)) /\ UNCHANGED <<op, id, tears>>
        BY <1>6, Zenon DEF Write, Goes, Finish, Returns
    <2>2. op[t] = "append" /\ pc[t] # "idle"
        BY <2>1, SMT DEF LogInv, CallsInOrder, InOrder
    <2>3. LostOf(file', acked) \subseteq LostOf(file, acked) BY <2>1, WriteLosesNone
    <2>4. torn' = FALSE BY <2>1 DEF Written
    <2>5. ~torn => \E j \in 1 .. Len(file') : j = Len(file') /\ file'[j].id = id[t]
        <3> SUFFICES ASSUME ~torn
                     PROVE  \E j \in 1 .. Len(file') : j = Len(file') /\ file'[j].id = id[t]
            OBVIOUS
        <3>1. file' = Append(file, Entry(id[t], FALSE)) BY <2>1 DEF Written
        <3>2. Entry(id[t], FALSE) \in Entries /\ file \in Seq(Entries)
            BY EntryIs DEF LogInv, Typed
        <3>3. /\ Len(file') = Len(file) + 1 /\ file'[Len(file) + 1] = Entry(id[t], FALSE)
              /\ Len(file) \in Nat
            BY <3>1, <3>2, AppendProperties, LenProperties
        <3>4. Len(file) + 1 \in 1 .. (Len(file) + 1) BY <3>3, SMT
        <3>5. QED BY <3>3, <3>4, LineIds
    <2>6. CASE Finish(t, "append")
        <3>1. pc' = [pc EXCEPT ![t] = "idle"] /\ acked' = acked \union {id[t]}
            BY <2>2, <2>6 DEF Finish, Returns
        <3>2. "idle" \notin {"prune", "rename"} OBVIOUS
        <3>3. ~Pending' BY <2>2, <3>1, <3>2, <1>i
        <3>4. CASE torn
            <4>1. LostOf(file', acked') \subseteq LostOf(file, acked) \union {id[t]}
                BY <2>3, <3>1, LostAcked
            <4>2. QED BY <2>1, <2>4, <3>3, <3>4, <4>1, <1>b
        <3>5. CASE ~torn
            <4>1. LostOf(file', acked') \subseteq LostOf(file, acked)
                BY <2>3, <2>5, <3>1, <3>5, LostAcked
            <4>2. QED BY <2>1, <2>4, <3>3, <4>1, <1>a
        <3>6. QED BY <3>4, <3>5
    <2>7. CASE Goes(t, "append", "prune") /\ UNCHANGED done
        <3>1. pc' = [pc EXCEPT ![t] = "prune"] /\ acked' = acked BY <2>7 DEF Goes
        <3>2. \A u \in Threads \ {t} : pc'[u] = "idle" BY <2>2, <3>1, <1>x, OthersIdle
        <3>3. ~torn => ~Pending'
            <4> SUFFICES ASSUME ~torn, Pending' PROVE FALSE
                OBVIOUS
            <4>1. PICK u \in Threads : /\ pc'[u] \in {"prune", "rename"}
                                       /\ file'[Len(file')].id # id'[u]
                BY DEF Pending
            <4>2. u = t BY <3>2, <4>1, SMT
            <4>3. QED BY <2>1, <2>5, <4>1, <4>2
        <3>4. QED BY <2>1, <2>3, <2>4, <3>1, <3>3, <1>a
    <2>8. QED BY <1>6, <2>6, <2>7 DEF Write
<1>7. ASSUME NEW t \in Threads, WriteFails(t) PROVE LossInv'
    <2>1. /\ pc[t] = "append" /\ Torn(Entry(id[t], FALSE)) /\ acked' = acked
          /\ tears' = tears + 1
        BY <1>7 DEF WriteFails, Returns
    <2>2. LostOf(file', acked) \subseteq LostOf(file, acked) BY <2>1, WriteLosesNone
    <2>3. QED BY <2>1, <2>2, <1>a
<1>8. ASSUME NEW t \in Threads, CloseFails(t) PROVE LossInv'
    <2>1. /\ pc[t] = "append" /\ Written(Entry(id[t], FALSE)) /\ UNCHANGED <<acked, tears>>
          /\ pc' = [pc EXCEPT ![t] = "idle"] /\ torn' = FALSE
        BY <1>8 DEF CloseFails, Returns, Written
    <2>2. LostOf(file', acked) \subseteq LostOf(file, acked) BY <2>1, WriteLosesNone
    <2>3. "idle" \notin {"prune", "rename"} /\ pc[t] # "idle" BY <2>1
    <2>4. ~Pending' BY <2>1, <2>3, <1>i
    <2>5. QED BY <2>1, <2>2, <2>4, <1>a
<1>9. CASE Crash
    <2>1. acked' = acked /\ tears' = tears + 1 BY <1>9, Zenon DEF Crash
    <2>2. LostOf(file', acked) \subseteq LostOf(file, acked)
        <3>1. CASE UNCHANGED disk BY <3>1
        <3>2. CASE \E t \in Threads : /\ pc[t] = "append"
                                      /\ \/ Torn(Entry(id[t], FALSE))
                                         \/ Written(Entry(id[t], FALSE))
            BY <3>2, WriteLosesNone
        <3>3. QED BY <1>9, <3>1, <3>2, Zenon DEF Crash
    <2>3. QED BY <2>1, <2>2, <1>a
<1>10. CASE UNCHANGED vars
    <2>1. UNCHANGED <<file, torn, acked, tears, pc, op, id>> BY <1>10 DEF vars
    <2>2. Pending' => Pending BY <2>1 DEF Pending
    <2>3. QED BY <2>1, <2>2, <1>a
<1>11. QED BY <1>1, <1>2, <1>3, <1>4, <1>5, <1>6, <1>7, <1>8, <1>9, <1>10 DEF Next

\* An acknowledged event goes missing only behind the fragment of an interrupted
\* write, and each fragment costs one: Append(), pruneLocked(), Update() and a
\* restart lose none of their own.
THEOREM LossesAreTears == Spec => []OneLossPerTear
<1>1. Init => Counted /\ LossInv
    <2> SUFFICES ASSUME Init PROVE Counted /\ LossInv
        OBVIOUS
    <2>1. ~Appending BY SMT DEF Init, Appending, Recorded
    <2>2. missed = 0 /\ next = 1 /\ tears = 0 BY DEF Init
    <2>3. Counted BY <2>1, <2>2, BoundsAssumption, SMT DEF Counted
    <2>4. Lost = {} BY DEF Init, Lost
    <2>5. Cardinality(Lost) = 0 BY <2>4, FS_EmptySet
    <2>6. ~torn /\ ~Pending BY SMT DEF Init, Pending
    <2>7. QED BY <2>2, <2>3, <2>5, <2>6, SMT DEF LossInv
<1>2. LogInv /\ LogInv' /\ Counted /\ LossInv /\ [Next]_vars => (Counted /\ LossInv)'
    BY CountedStep, LossStep
<1>3. LossInv => OneLossPerTear BY DEF LossInv, OneLossPerTear
<1>4. QED BY <1>1, <1>2, <1>3, LogIsOrdered, PTL DEF Spec
=============================================================================
