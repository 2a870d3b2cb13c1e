----------------------------- MODULE VoiceUpload -----------------------------
(***************************************************************************)
(* Spoken turns uploaded to one session at the same time (handleVoice(),   *)
(* internal/server/server.go): each saves its recording, is transcribed,   *)
(* reads the session's turns, is answered and appends its turn.            *)
(***************************************************************************)
EXTENDS RecordingStore, SequencesExt, FiniteSetsExt

CONSTANTS
    HistoryLimit,   \* contextTurnLimit, 4
    MaxCrashes      \* bound

ASSUME UploadAssumption == HistoryLimit \in Nat \ {0} /\ MaxCrashes \in Nat

VARIABLES
    phase,      \* how far each request has come
    turns,      \* all turns appended to the session, oldest first
    lost,       \* those that have expired, or were dropped with the session
    history,    \* the turns each request was answered with
    answered,   \* turns the child had an answer to when it sent the request
    crashes

requestVars == <<phase, turns, lost, history, answered>>
vars == <<storeVars, requestVars, crashes>>

Init ==
    /\ StoreInit
    /\ phase = [u \in Uploads |-> "unsent"]
    /\ turns = <<>> /\ lost = {} /\ crashes = 0
    /\ history = [u \in Uploads |-> <<>>] /\ answered = [u \in Uploads |-> {}]

Goes(u, from, to) == phase[u] = from /\ phase' = [phase EXCEPT ![u] = to]

Upload(u) ==
    /\ Goes(u, "unsent", "saving") /\ Saves(u, "no", "begun")
    /\ answered' = [answered EXCEPT ![u] =
           {v \in ToSet(turns) : phase[v] = "answered"}]
    /\ UNCHANGED <<dir, times, condemned, turns, lost, history, crashes>>

SaveStep(u) == phase[u] = "saving" /\ Save(u) /\ UNCHANGED <<requestVars, crashes>>

\* Too short a recording and a failed transcription are answered at once,
\* without the session.  A failed save is only logged.
Unheard(u) ==
    /\ saving[u] \in Returned /\ Goes(u, "saving", "responding")
    /\ UNCHANGED <<storeVars, turns, lost, history, answered, crashes>>

\* As a slip would do it: the oldest of the session's turns are taken.
LastTurns_First ==
    LET past == {i \in DOMAIN turns : turns[i] \in lost}
        first == Max(past \union {0}) + 1
    IN  SubSeq(turns, first, Min({first + HistoryLimit - 1, Len(turns)}))

\* The turns after the last one that is lost, and of these the newest.
LastTurns ==
    LET past == {i \in DOMAIN turns : turns[i] \in lost \/ i + HistoryLimit <= Len(turns)}
    IN  SubSeq(turns, Max(past \union {0}) + 1, Len(turns))

History(u) ==
    /\ saving[u] \in Returned /\ Goes(u, "saving", "replying")
    /\ history' = [history EXCEPT ![u] = LastTurns]
    /\ UNCHANGED <<storeVars, turns, lost, answered, crashes>>

\* After the reply and its speech; babble and uncertain input are not remembered.
AppendTurn(u) ==
    /\ Goes(u, "replying", "responding") /\ turns' = Append(turns, u)
    /\ UNCHANGED <<storeVars, lost, history, answered, crashes>>
NotRemembered(u) ==
    /\ Goes(u, "replying", "responding")
    /\ UNCHANGED <<storeVars, turns, lost, history, answered, crashes>>

\* recordConversation() and writeJSON()
Respond(u) ==
    /\ Goes(u, "responding", "answered")
    /\ UNCHANGED <<storeVars, turns, lost, history, answered, crashes>>

\* 90 seconds have passed since a turn.  Append() takes the time before it takes
\* the lock, so that a turn may be younger than one appended after it, unless
\* that one was answered knowing it.
SceneExpires(v) ==
    /\ v \in ToSet(turns) \ lost
    /\ \A w \in ToSet(history[v]) : w \in lost
    /\ lost' = lost \union {v}
    /\ UNCHANGED <<storeVars, phase, turns, history, answered, crashes>>

\* Nothing was said for longer than the session's ttl, or another session's
\* turn takes the place of this one, the oldest.
Forget ==
    /\ lost' = ToSet(turns)
    /\ UNCHANGED <<storeVars, phase, turns, history, answered, crashes>>

\* The server restarts: requests are lost, and so is the session.
Crash ==
    /\ crashes < MaxCrashes /\ crashes' = crashes + 1
    /\ StoreCrash
    /\ phase' = [u \in Uploads |->
           IF phase[u] \in {"unsent", "answered"} THEN phase[u] ELSE "lost"]
    /\ lost' = ToSet(turns)
    /\ UNCHANGED <<turns, history, answered>>

Next ==
    \/ \E u \in Uploads :
        \/ Upload(u) \/ SaveStep(u) \/ Unheard(u) \/ History(u)
        \/ AppendTurn(u) \/ NotRemembered(u) \/ Respond(u) \/ SceneExpires(u)
    \/ Forget \/ Crash

Spec == Init /\ [][Next]_vars

-----------------------------------------------------------------------------
TypeOK ==
    /\ dir \subseteq Files /\ modified \in [Uploads -> 0 .. clock] /\ clock \in Nat
    /\ saving \in [Uploads -> {"no", "begun", "created", "written", "renamed",
                               "pruning", "killed"} \union Returned]
    /\ condemned \in [Uploads -> SUBSET [name : Files, time : 1 .. clock]]
    /\ phase \in [Uploads -> {"unsent", "saving", "replying", "responding",
                              "answered", "lost"}]
    /\ turns \in Seq(Uploads) /\ lost \subseteq ToSet(turns)
    /\ history \in [Uploads -> Seq(Uploads)]
    /\ \A u \in Uploads : Len(history[u]) <= HistoryLimit
    /\ answered \in [Uploads -> SUBSET Uploads]
    /\ crashes \in 0 .. MaxCrashes

Place(u) == CHOOSE i \in DOMAIN turns : turns[i] = u

\* A request is answered knowing every turn the child had an answer to when it
\* was sent, though other requests of the session are on their way -- unless that
\* turn or a later one has expired or was dropped with the session, or a full
\* history of later turns has taken its place (History(), Append()).  No older turn
\* is kept where a newer one is missing.
SeesAnsweredTurns == \A u \in Uploads : \A v \in answered[u] :
    phase[u] = "replying" /\ v \notin ToSet(history[u]) =>
        \/ \E w \in lost : Place(w) >= Place(v)
        \/ /\ Len(history[u]) = HistoryLimit
           /\ \A i \in DOMAIN history[u] : Place(history[u][i]) > Place(v)
=============================================================================
