----------------------------- MODULE EventStore -----------------------------
(***************************************************************************)
(* The JSONL conversation log (internal/server/events.go): request         *)
(* handlers append events and rate earlier ones under one mutex; the file  *)
(* is pruned to Limit lines; a step on the disk may fail and the process   *)
(* may stop between any two of them.  readyErr, which only /healthz shows, *)
(* and Recent(), which changes nothing, are left out.                      *)
(***************************************************************************)
EXTENDS Naturals, Sequences, FiniteSets

CONSTANTS
    Threads,      \* request goroutines
    None,         \* no thread
    Limit,        \* PUPBOX_EVENT_LOG_LIMIT
    MaxEvents,    \* events recorded in a behaviour
    MaxTears      \* failed writes and crashes in a behaviour

ASSUME BoundsAssumption ==
    /\ Limit \in Nat \ {0} /\ MaxEvents \in Nat /\ MaxTears \in Nat
    /\ None \notin Threads

VARIABLES
    file,         \* lines on disk; id 0 is a line that does not parse
    torn,         \* the last line has no newline
    mu,           \* holder of s.mu
    pc, op, id,   \* where each thread is, what it does, for which trace
    lines,        \* what it will rename over the file
    initialized, count,
    next,         \* next trace id
    acked, rated, \* traces whose Append, Update returned success
    tears,        \* failed writes and crashes so far
    missed        \* complete lines the count does not know of, read by no action

disk == <<file, torn>>
mem  == <<initialized, count, missed>>
done == <<acked, rated>>
call == <<op, id>>
vars == <<disk, mu, pc, call, lines, mem, next, done, tears>>

Entry(i, r) == [id |-> i, rated |-> r]
Bad == Entry(0, FALSE)
\* The newest n lines.
LastOf(s, n) == IF Len(s) <= n THEN s ELSE SubSeq(s, Len(s) - n + 1, Len(s))
Readable(i) == \E j \in DOMAIN file : file[j].id = i

Init ==
    /\ file = <<>> /\ torn = FALSE /\ mu = None
    /\ pc = [t \in Threads |-> "idle"] /\ op = [t \in Threads |-> "append"]
    /\ id = [t \in Threads |-> 0] /\ lines = [t \in Threads |-> <<>>]
    /\ initialized = FALSE /\ count = 0 /\ next = 1
    /\ acked = {} /\ rated = {} /\ tears = 0 /\ missed = 0

Goes(t, from, to) == pc[t] = from /\ pc' = [pc EXCEPT ![t] = to] /\ UNCHANGED mu
\* The deferred s.mu.Unlock().
Returns(t, from) == pc[t] = from /\ pc' = [pc EXCEPT ![t] = "idle"] /\ mu' = None

\* Append(event) and Update(traceID, ...) take s.mu.
Locks(t) == pc[t] = "idle" /\ mu = None /\ mu' = t /\ pc' = [pc EXCEPT ![t] = "ensure"]

StartAppend(t) ==
    /\ Locks(t) /\ next <= MaxEvents /\ next' = next + 1
    /\ op' = [op EXCEPT ![t] = "append"] /\ id' = [id EXCEPT ![t] = next]
    /\ UNCHANGED <<disk, lines, mem, done, tears>>

\* Mutant: Update() without the mutex.
StartUpdate_Unlocked(t) ==
    /\ pc[t] = "idle" /\ pc' = [pc EXCEPT ![t] = "ensure"] /\ UNCHANGED mu
    /\ op' = [op EXCEPT ![t] = "update"] /\ id' \in {[id EXCEPT ![t] = i] : i \in 1..(next-1)}
    /\ UNCHANGED <<disk, lines, mem, next, done, tears>>

StartUpdate(t) ==
    /\ Locks(t) /\ op' = [op EXCEPT ![t] = "update"]
    /\ id' \in {[id EXCEPT ![t] = i] : i \in 1..(next-1)}
    /\ UNCHANGED <<disk, lines, mem, next, done, tears>>

\* ensureLocked(): count the lines once, and prune a log that is too long.
\* Mutant: trust the empty count of a new process.
Ensure_Uncounted(t) ==
    /\ Goes(t, "ensure", op[t]) /\ initialized' = TRUE
    /\ UNCHANGED <<count, missed, disk, call, lines, next, done, tears>>

Ensure(t) ==
    /\ \/ initialized /\ Goes(t, "ensure", op[t]) /\ UNCHANGED <<mem, lines>>
       \/ /\ ~initialized /\ count' = Len(file) /\ missed' = 0
          /\ \/ Len(file) <= Limit /\ initialized' = TRUE
                /\ Goes(t, "ensure", op[t]) /\ UNCHANGED lines
             \/ Len(file) > Limit /\ Goes(t, "ensure", "trim") /\ UNCHANGED initialized
                /\ lines' = [lines EXCEPT ![t] = LastOf(file, Limit)]
    /\ UNCHANGED <<disk, call, next, done, tears>>

\* writeLinesLocked(): a temporary file renamed over the log.
Replace(t) == file' = lines[t] /\ torn' = FALSE /\ count' = Len(lines[t]) /\ missed' = 0

Trim(t) ==
    /\ Goes(t, "trim", op[t]) /\ Replace(t) /\ initialized' = TRUE
    /\ UNCHANGED <<call, lines, next, done, tears>>

\* One write of the encoded line; it continues an unfinished last line.
Written(e) ==
    /\ file' = IF torn THEN [file EXCEPT ![Len(file)] = Bad] ELSE Append(file, e)
    /\ torn' = FALSE

Finish(t, from) ==
    /\ Returns(t, from)
    /\ acked' = IF op[t] = "append" THEN acked \union {id[t]} ELSE acked
    /\ rated' = IF op[t] = "update" THEN rated \union {id[t]} ELSE rated

Write(t) ==
    /\ Written(Entry(id[t], FALSE)) /\ count' = count + 1
    /\ \/ count < Limit /\ Finish(t, "append")
       \/ count >= Limit /\ Goes(t, "append", "prune") /\ UNCHANGED done
    /\ UNCHANGED <<initialized, missed, call, lines, next, tears>>

\* A write that stops early leaves nothing, or a last line without newline.
Torn(e) ==
    \/ UNCHANGED disk
    \/ torn /\ file' = [file EXCEPT ![Len(file)] = Bad] /\ UNCHANGED torn
    \/ ~torn /\ torn' = TRUE /\ (file' = Append(file, Bad) \/ file' = Append(file, e))

WriteFails(t) ==
    /\ tears < MaxTears /\ tears' = tears + 1
    /\ Torn(Entry(id[t], FALSE)) /\ Returns(t, "append")
    /\ UNCHANGED <<call, lines, mem, next, done>>

\* The line is complete, but the early return skips s.count++.
CloseFails(t) ==
    /\ Written(Entry(id[t], FALSE)) /\ Returns(t, "append") /\ missed' = missed + 1
    /\ UNCHANGED <<initialized, count, call, lines, next, done, tears>>

\* pruneLocked() reads the newest Limit lines.
\* Mutants: it keeps the oldest, or one line too few.
PruneRead_OneShort(t) ==
    /\ Goes(t, "prune", "rename")
    /\ lines' = [lines EXCEPT ![t] = LastOf(file, Limit - 1)]
    /\ UNCHANGED <<disk, call, mem, next, done, tears>>
PruneRead_Oldest(t) ==
    /\ Goes(t, "prune", "rename")
    /\ lines' = [lines EXCEPT ![t] = SubSeq(file, 1, Limit)]
    /\ UNCHANGED <<disk, call, mem, next, done, tears>>

PruneRead(t) ==
    /\ Goes(t, "prune", "rename")
    /\ lines' = [lines EXCEPT ![t] = LastOf(file, Limit)]
    /\ UNCHANGED <<disk, call, mem, next, done, tears>>

\* Update() reads every line and rewrites those of its trace.
UpdateRead(t) ==
    /\ \/ /\ Readable(id[t]) /\ Goes(t, "update", "rename")
          /\ lines' = [lines EXCEPT ![t] = [j \in DOMAIN file |->
                 IF file[j].id = id[t] THEN Entry(id[t], TRUE) ELSE file[j]]]
       \/ ~Readable(id[t]) /\ Returns(t, "update") /\ UNCHANGED lines
    /\ UNCHANGED <<disk, call, mem, next, done, tears>>

\* Mutant: the error return forgets the mutex.
Fails_Locked(t) ==
    /\ pc[t] \in {"ensure", "trim", "update", "prune", "rename"}
    /\ Goes(t, pc[t], "idle")
    /\ UNCHANGED <<disk, call, lines, mem, next, done, tears>>

Rename(t) ==
    /\ Replace(t) /\ Finish(t, "rename")
    /\ UNCHANGED <<initialized, call, lines, next, tears>>

\* Any other step on the disk fails: the call returns its error.
Fails(t) ==
    /\ pc[t] \in {"ensure", "trim", "update", "prune", "rename"} /\ Returns(t, pc[t])
    /\ UNCHANGED <<disk, call, lines, mem, next, done, tears>>

\* The process stops; the next one starts with an unread log.
Crash ==
    /\ tears < MaxTears /\ tears' = tears + 1
    /\ IF \E t \in Threads : pc[t] = "append"
       THEN \E t \in Threads : /\ pc[t] = "append"
                               /\ \/ Torn(Entry(id[t], FALSE))
                                  \/ Written(Entry(id[t], FALSE))
       ELSE UNCHANGED disk
    /\ pc' = [t \in Threads |-> "idle"] /\ mu' = None
    /\ initialized' = FALSE /\ count' = 0 /\ missed' = 0
    /\ UNCHANGED <<call, lines, next, done>>

Next ==
    \/ Crash
    \/ \E t \in Threads :
        \/ StartAppend(t) \/ StartUpdate(t) \/ Ensure(t) \/ Trim(t) \/ Write(t)
        \/ WriteFails(t) \/ CloseFails(t) \/ PruneRead(t) \/ UpdateRead(t)
        \/ Rename(t) \/ Fails(t)

Spec == Init /\ [][Next]_vars

-----------------------------------------------------------------------------
Lines == Seq([id : 0..MaxEvents, rated : BOOLEAN])

TypeOK ==
    /\ file \in Lines /\ torn \in BOOLEAN /\ (torn => file # <<>>)
    /\ pc \in [Threads -> {"idle", "ensure", "trim", "append", "prune", "update", "rename"}]
    /\ op \in [Threads -> {"append", "update"}] /\ id \in [Threads -> 0..MaxEvents]
    /\ lines \in [Threads -> Lines]
    /\ initialized \in BOOLEAN /\ count \in Nat /\ next \in 1..(MaxEvents + 1)
    /\ acked \subseteq 1..MaxEvents /\ rated \subseteq 1..MaxEvents /\ tears \in 0..MaxTears
    /\ mu \in Threads \union {None} /\ missed \in 0..MaxEvents
    /\ \A t \in Threads : pc[t] # "idle" <=> mu = t

\* Strengthenings for the proofs: the count covers the file but for the lines
\* whose close() failed and an unfinished one; a call relies on it only once it is
\* initialized, and a prune renames no more than Limit lines.
CountCovers == initialized => Len(file) <= count + missed + (IF torn THEN 1 ELSE 0)
InOrder(t) ==
    /\ pc[t] \in {"append", "update", "prune", "rename"} => initialized
    /\ pc[t] \in {"append", "prune"} => op[t] = "append"
    /\ pc[t] = "update" => op[t] = "update"
    /\ pc[t] = "rename" /\ op[t] = "append" => Len(lines[t]) <= Limit
CallsInOrder == \A t \in Threads : InOrder(t)

\* Ratings are in the lines about to be renamed over the file, with the one being
\* stored; they belong to traces already appended, and never to one being appended.
Kept(s, traces) == \A j \in DOMAIN s : s[j].id \in traces => s[j].rated
Rating(t) ==
    /\ pc[t] \in {"trim", "rename"} => Kept(lines[t], rated)
    /\ pc[t] = "rename" /\ op[t] = "update" => Kept(lines[t], {id[t]})
    /\ pc[t] # "idle" /\ op[t] = "append" => id[t] \notin rated
    /\ pc[t] # "idle" /\ op[t] = "update" => id[t] \in 1..(next - 1)
RatingsKept ==
    /\ Kept(file, rated) /\ rated \subseteq 1..(next - 1)
    /\ \A t \in Threads : Rating(t)

\* README.md:341: the log retains at most Limit events.  Whenever an Append()
\* reports success, whatever failed before and however often the process
\* restarted, the file exceeds them by no more than the lines whose close()
\* failed since it was last counted.
RetainsAtMostLimit == [][ acked' # acked => Len(file') <= Limit + missed' ]_vars

\* An acknowledged event that cannot be read although an older line or room for
\* more is still there.
Lost == {i \in acked : /\ ~Readable(i)
                       /\ \/ Len(file) < Limit
                          \/ \E j \in DOMAIN file : file[j].id \in 1..(i-1)}

\* Events are lost only to an interrupted write, one acknowledged event each:
\* the line that was appended behind the fragment.  Updates and prunes of other
\* requests lose none.
OneLossPerTear == Cardinality(Lost) <= tears

\* A rating that was reported as stored is never undone by another update, a
\* prune or a restart.
RatingsStick ==
    \A j \in DOMAIN file : file[j].id \in rated => file[j].rated

\* The file's newest Limit lines implement the abstract log.
Abstract == INSTANCE EventLog WITH log <- LastOf(file, Limit), Traces <- 1..MaxEvents
ImplementsLog == Abstract!Spec
=============================================================================
