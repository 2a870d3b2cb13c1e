------------------------- MODULE VoiceUpload_proofs -------------------------
(***************************************************************************)
(* What overlapping uploads of one session guarantee, for any number of    *)
(* them, any length of the history and any limit of the directory: their   *)
(* turns are seen, their recordings found, and the directory stays small.  *)
(***************************************************************************)
EXTENDS VoiceUpload, SequenceTheorems, FiniteSetTheorems, WellFoundedInduction, TLAPS

\* The part of TypeOK that the turns depend on.
TurnTypes ==
    /\ phase \in [Uploads -> {"unsent", "saving", "replying", "responding",
                              "answered", "lost"}]
    /\ turns \in Seq(Uploads)
    /\ history \in [Uploads -> Seq(Uploads)] /\ answered \in [Uploads -> SUBSET Uploads]

\* A turn is appended once, by a request that then has no other to append.
Appended ==
    /\ \A i \in DOMAIN turns : phase[turns[i]] \in {"responding", "answered", "lost"}
    /\ \A i, j \in DOMAIN turns : turns[i] = turns[j] => i = j

\* What request u knew of the turns when the first n had been appended: all of
\* its answered turns were among these, and it was given those after the first m,
\* because the turn before is lost or the history was full.
Knew(u, m, n) ==
    /\ n \in 0 .. Len(turns) /\ m \in 0 .. n
    /\ \A v \in answered[u] : \E i \in 1 .. n : turns[i] = v
    /\ history[u] = SubSeq(turns, m + 1, n)
    /\ m = 0 \/ turns[m] \in lost \/ m + HistoryLimit = n

\* Turns are only added, so that what a request was given stays a piece of them,
\* and a lost turn stays lost.  SeesAnsweredTurns alone does not say where the
\* missing turns lie.
Known == \A u \in Uploads :
    /\ phase[u] = "saving" => \A v \in answered[u] : \E i \in 1 .. Len(turns) : turns[i] = v
    /\ phase[u] = "replying" => \E m, n \in Nat : Knew(u, m, n)

TurnsInv == TurnTypes /\ Appended /\ Known

-----------------------------------------------------------------------------
\* Natural numbers have a least one among them.
LEMMA LeastTime ==
    ASSUME NEW T \in SUBSET Nat, T # {}
    PROVE  \E x \in T : \A y \in T : x <= y
<1>1. PICK x \in T : \A y \in T : ~ <<y, x>> \in OpToRel(<, Nat)
    BY NatLessThanWellFounded, WFMin, Zenon
<1>2. ASSUME NEW y \in T PROVE x <= y
    <2>1. <<y, x>> \notin OpToRel(<, Nat) BY <1>1
    <2>2. ~ y < x BY <2>1 DEF OpToRel
    <2>3. x \in Nat /\ y \in Nat OBVIOUS
    <2>4. QED BY <2>2, <2>3
<1>3. QED BY <1>2

\* The greatest of the numbers up to n is one of them.
LEMMA MaxIsGreatest ==
    ASSUME NEW n \in Nat, NEW S \in SUBSET (0 .. n), S # {}
    PROVE  Max(S) \in S /\ \A y \in S : Max(S) >= y
<1> DEFINE T == {n - x : x \in S}
<1>1. T \in SUBSET Nat /\ T # {}
    <2>1. \A x \in S : n - x \in Nat OBVIOUS
    <2>2. PICK x \in S : TRUE OBVIOUS
    <2>3. n - x \in T OBVIOUS
    <2>4. QED BY <2>1, <2>3
<1>2. PICK t \in T : \A y \in T : t <= y BY <1>1, LeastTime
<1>3. PICK x \in S : t = n - x BY <1>2
<1>4. ASSUME NEW y \in S PROVE x >= y
    <2>1. n - x <= n - y BY <1>2, <1>3
    <2>2. QED BY <2>1
<1>5. QED BY <1>4 DEF Max

\* Where the history begins that a request is given: nowhere later than a full
\* one does, unless the turn before is lost.
LEMMA LastTurnsIs ==
    ASSUME turns \in Seq(Uploads)
    PROVE  \E m \in 0 .. Len(turns) :
               /\ LastTurns = SubSeq(turns, m + 1, Len(turns))
               /\ m = 0 \/ turns[m] \in lost \/ m + HistoryLimit = Len(turns)
<1> DEFINE n == Len(turns)
           past == {i \in DOMAIN turns : turns[i] \in lost \/ i + HistoryLimit <= Len(turns)}
           m == Max(past \union {0})
<1>1. n \in Nat /\ HistoryLimit \in Nat \ {0} /\ DOMAIN turns = 1 .. n
    BY UploadAssumption
<1>2. past \union {0} \in SUBSET (0 .. n) BY <1>1
<1>3. m \in past \union {0} /\ \A y \in past \union {0} : m >= y
    <2> HIDE DEF past, n
    <2>1. n \in Nat BY <1>1
    <2>2. QED BY <1>2, <2>1, MaxIsGreatest
<1>4. LastTurns = SubSeq(turns, m + 1, n) BY DEF LastTurns
<1> HIDE DEF m
<1>5. m \in 0 .. n BY <1>2, <1>3
<1>6. ASSUME m # 0, turns[m] \notin lost PROVE m + HistoryLimit = n
    <2>1. m \in 1 .. n /\ m + HistoryLimit <= n BY <1>1, <1>3, <1>6
    <2>2. n - HistoryLimit \in past BY <1>1, <2>1
    <2> HIDE DEF past, n
    <2>3. n - HistoryLimit \in past \union {0} BY <2>2
    <2>4. m >= n - HistoryLimit BY <1>3, <2>3, Zenon
    <2>5. m \in Nat /\ n \in Nat /\ HistoryLimit \in Nat BY <1>1, <2>1
    <2>6. QED BY <2>1, <2>4, <2>5
<1>7. QED BY <1>4, <1>5, <1>6

\* There are no turns to begin with.
LEMMA TurnsStart ==
    ASSUME Init
    PROVE  TurnsInv
BY SMT DEF Init, TurnsInv, TurnTypes, Appended, Known

\* The types in the form the steps need.
LEMMA TurnsTyped ==
    ASSUME TurnsInv
    PROVE  /\ Len(turns) \in Nat /\ DOMAIN turns = 1 .. Len(turns)
           /\ \A i \in DOMAIN turns : turns[i] \in Uploads
BY SMT DEF TurnsInv, TurnTypes

\* A request that neither appends nor reads turns.
LEMMA TurnsQuiet ==
    ASSUME TurnsInv, NEW u \in Uploads, NEW from, NEW to, Goes(u, from, to),
           UNCHANGED <<turns, lost, history, answered>>,
           from \in {"saving", "replying", "responding"}, to \in {"responding", "answered"}
    PROVE  TurnsInv'
<1>1. TurnTypes' BY SMT DEF TurnsInv, TurnTypes, Goes
<1>2. \A v \in Uploads : phase'[v] = IF v = u THEN to ELSE phase[v]
    BY SMT DEF TurnsInv, TurnTypes, Goes
<1>3. Appended' BY <1>2, TurnsTyped DEF TurnsInv, Appended
<1>4. Known'
    <2>1. \A v \in Uploads : phase'[v] \in {"saving", "replying"} => phase[v] = phase'[v]
        BY <1>2
    <2>2. \A v, m, n : Knew(v, m, n)' <=> Knew(v, m, n) BY DEF Knew
    <2>3. QED BY <2>1, <2>2 DEF TurnsInv, Known
<1>5. QED BY <1>1, <1>3, <1>4 DEF TurnsInv

\* A request knows the answered turns there are when it is sent.
LEMMA UploadStep ==
    ASSUME TurnsInv, NEW u \in Uploads, Upload(u)
    PROVE  TurnsInv'
<1>1. /\ Goes(u, "unsent", "saving") /\ UNCHANGED <<turns, lost, history>>
      /\ answered' = [answered EXCEPT ![u] = {v \in ToSet(turns) : phase[v] = "answered"}]
    BY DEF Upload
<1>2. \A v \in Uploads : phase'[v] = IF v = u THEN "saving" ELSE phase[v]
    BY <1>1, SMT DEF TurnsInv, TurnTypes, Goes
<1>3. \A v \in ToSet(turns) : v \in Uploads /\ \E i \in 1 .. Len(turns) : turns[i] = v
    BY TurnsTyped DEF ToSet
<1>4. TurnTypes'
    BY <1>1, <1>3, SMT DEF TurnsInv, TurnTypes, Goes
<1>5. Appended' BY <1>1, <1>2, TurnsTyped DEF TurnsInv, Appended, Goes
<1>6. Known'
    <2>1. ASSUME NEW v \in Uploads, v # u
          PROVE  phase'[v] = phase[v] /\ answered'[v] = answered[v]
        BY <1>1, <1>2, <2>1 DEF TurnsInv, TurnTypes
    <2>2. answered'[u] \subseteq ToSet(turns)
        BY <1>1 DEF TurnsInv, TurnTypes
    <2>3. ASSUME NEW v \in Uploads, v # u, NEW m, NEW n, Knew(v, m, n)
          PROVE  Knew(v, m, n)'
        BY <1>1, <2>1, <2>3 DEF Knew
    <2>4. ASSUME NEW v \in Uploads, v # u
          PROVE  /\ phase'[v] = "saving" =>
                        \A w \in answered'[v] : \E i \in 1 .. Len(turns) : turns[i] = w
                 /\ phase'[v] = "replying" => \E m, n \in Nat : Knew(v, m, n)'
        BY <2>1, <2>3, <2>4 DEF TurnsInv, Known
    <2>5. QED BY <1>1, <1>2, <1>3, <2>2, <2>4 DEF Known
<1>7. QED BY <1>4, <1>5, <1>6 DEF TurnsInv

\* The request is given the last of the turns there are.
LEMMA HistoryStep ==
    ASSUME TurnsInv, NEW u \in Uploads, History(u)
    PROVE  TurnsInv'
<1>1. /\ Goes(u, "saving", "replying") /\ UNCHANGED <<turns, lost, answered>>
      /\ history' = [history EXCEPT ![u] = LastTurns]
    BY DEF History
<1>2. \A v \in Uploads : phase'[v] = IF v = u THEN "replying" ELSE phase[v]
    BY <1>1, SMT DEF TurnsInv, TurnTypes, Goes
<1>3. PICK k \in 0 .. Len(turns) :
          /\ LastTurns = SubSeq(turns, k + 1, Len(turns))
          /\ k = 0 \/ turns[k] \in lost \/ k + HistoryLimit = Len(turns)
    BY LastTurnsIs DEF TurnsInv, TurnTypes
<1>4. LastTurns \in Seq(Uploads)
    <2>1. k + 1 \in 1 .. Len(turns) + 1 BY TurnsTyped
    <2>2. QED BY <1>3, <2>1, TurnsTyped, SMT DEF TurnsInv, TurnTypes
<1>5. TurnTypes' BY <1>1, <1>4, SMT DEF TurnsInv, TurnTypes, Goes
<1>6. Appended' BY <1>1, <1>2, TurnsTyped DEF TurnsInv, Appended, Goes
<1>7. Known'
    <2>1. ASSUME NEW v \in Uploads, v # u
          PROVE  phase'[v] = phase[v] /\ history'[v] = history[v]
        BY <1>1, <1>2, <2>1 DEF TurnsInv, TurnTypes
    <2>2. ASSUME NEW v \in Uploads, v # u, NEW m, NEW n, Knew(v, m, n)
          PROVE  Knew(v, m, n)'
        BY <1>1, <2>1, <2>2 DEF Knew
    <2>3. ASSUME NEW v \in Uploads, v # u
          PROVE  /\ phase'[v] = "saving" =>
                        \A w \in answered'[v] : \E i \in 1 .. Len(turns') : turns'[i] = w
                 /\ phase'[v] = "replying" => \E m, n \in Nat : Knew(v, m, n)'
        BY <1>1, <2>1, <2>2, <2>3 DEF TurnsInv, Known
    <2>4. Knew(u, k, Len(turns))'
        <3>1. history'[u] = SubSeq(turns, k + 1, Len(turns))
            BY <1>1, <1>3 DEF TurnsInv, TurnTypes
        <3>2. \A v \in answered[u] : \E i \in 1 .. Len(turns) : turns[i] = v
            BY <1>1 DEF TurnsInv, Known, Goes
        <3>3. Len(turns) \in 0 .. Len(turns) BY TurnsTyped
        <3>4. QED BY <1>1, <1>3, <3>1, <3>2, <3>3 DEF Knew
    <2>5. QED BY <1>1, <1>2, <2>3, <2>4, TurnsTyped DEF Known
<1>8. QED BY <1>5, <1>6, <1>7 DEF TurnsInv

\* What was known of the first n turns is known when another follows.
LEMMA AppendStep ==
    ASSUME TurnsInv, NEW u \in Uploads, AppendTurn(u)
    PROVE  TurnsInv'
<1>1. /\ Goes(u, "replying", "responding") /\ UNCHANGED <<lost, history, answered>>
      /\ turns' = Append(turns, u)
    BY DEF AppendTurn
<1>2. \A v \in Uploads : phase'[v] = IF v = u THEN "responding" ELSE phase[v]
    BY <1>1, SMT DEF TurnsInv, TurnTypes, Goes
<1>3. /\ Len(turns') = Len(turns) + 1 /\ DOMAIN turns' = 1 .. Len(turns) + 1
      /\ \A i \in 1 .. Len(turns) : turns'[i] = turns[i]
      /\ turns'[Len(turns) + 1] = u
    BY <1>1, SMT DEF TurnsInv, TurnTypes
<1>4. TurnTypes' BY <1>1, SMT DEF TurnsInv, TurnTypes, Goes
<1>5. \A i \in 1 .. Len(turns) : turns[i] \in Uploads /\ turns[i] # u
    BY <1>1, TurnsTyped DEF TurnsInv, Appended, Goes
<1>6. Appended'
    <2>1. ASSUME NEW i \in 1 .. Len(turns) + 1
          PROVE  phase'[turns'[i]] \in {"responding", "answered", "lost"}
        <3>1. CASE i = Len(turns) + 1 BY <1>2, <1>3, <3>1
        <3>2. CASE i \in 1 .. Len(turns)
            BY <1>2, <1>3, <1>5, <3>2, TurnsTyped DEF TurnsInv, Appended
        <3>3. QED BY <3>1, <3>2, TurnsTyped
    <2>2. ASSUME NEW i \in 1 .. Len(turns) + 1, NEW j \in 1 .. Len(turns) + 1,
                 turns'[i] = turns'[j]
          PROVE  i = j
        <3>1. CASE i \in 1 .. Len(turns) /\ j \in 1 .. Len(turns)
            BY <1>3, <2>2, <3>1, TurnsTyped DEF TurnsInv, Appended
        <3>2. CASE i = Len(turns) + 1 \/ j = Len(turns) + 1
            BY <1>3, <1>5, <2>2, <3>2, TurnsTyped, SMT
        <3>3. QED BY <3>1, <3>2, TurnsTyped
    <2>3. QED BY <1>3, <2>1, <2>2 DEF Appended
<1>7. Known'
    <2>1. ASSUME NEW v \in Uploads, v # u PROVE phase'[v] = phase[v]
        BY <1>2, <2>1
    <2>2. ASSUME NEW v \in Uploads, NEW m \in Nat, NEW n \in Nat, Knew(v, m, n)
          PROVE  Knew(v, m, n)'
        <3>1. n \in 0 .. Len(turns) /\ n \in 0 .. Len(turns)' /\ m \in 0 .. n
            BY <1>3, <2>2, TurnsTyped, SMT DEF Knew
        <3>2. \A i \in 1 .. n : turns'[i] = turns[i]
            BY <1>3, <3>1, TurnsTyped, SMT
        <3>3. m # 0 => turns'[m] = turns[m] BY <3>1, <3>2
        <3>4. SubSeq(turns', m + 1, n) = SubSeq(turns, m + 1, n)
            <4> DEFINE f == m + 1
                       a == SubSeq(turns, f, n)
                       b == SubSeq(turns', f, n)
            <4>1. f \in Int /\ n \in Int /\ f <= n + 1 /\ 1 <= f BY <3>1
            <4>2. \A i \in f .. n : turns[i] \in Uploads /\ turns'[i] = turns[i]
                BY <3>1, <3>2, <4>1, TurnsTyped
            <4> HIDE DEF f
            <4>3. /\ a \in Seq(Uploads) /\ Len(a) = (IF f <= n THEN n - f + 1 ELSE 0)
                  /\ \A i \in 1 .. n - f + 1 : a[i] = turns[f + i - 1]
                BY <4>1, <4>2, SubSeqProperties
            <4>4. /\ b \in Seq(Uploads) /\ Len(b) = (IF f <= n THEN n - f + 1 ELSE 0)
                  /\ \A i \in 1 .. n - f + 1 : b[i] = turns'[f + i - 1]
                BY <4>1, <4>2, SubSeqProperties
            <4>5. Len(a) = Len(b) /\ \A i \in 1 .. Len(b) : b[i] = a[i]
                <5> HIDE DEF a, b
                <5>1. Len(b) = n - f + 1 BY <4>1, <4>4
                <5>2. \A i \in 1 .. n - f + 1 : f + i - 1 \in f .. n BY <4>1
                <5>3. QED BY <4>2, <4>3, <4>4, <5>1, <5>2
            <4> HIDE DEF a, b
            <4>6. b = a BY <4>3, <4>4, <4>5, SeqEqual
            <4>7. QED BY <4>6 DEF a, b, f
        <3>5. QED BY <1>1, <2>2, <3>1, <3>2, <3>3, <3>4 DEF Knew
    <2>3. ASSUME NEW v \in Uploads, v # u, phase'[v] = "saving"
          PROVE  \A w \in answered'[v] : \E i \in 1 .. Len(turns') : turns'[i] = w
        <3>1. \A w \in answered'[v] : \E i \in 1 .. Len(turns) : turns[i] = w
            BY <1>1, <2>1, <2>3 DEF TurnsInv, Known
        <3>2. QED BY <1>3, <3>1, TurnsTyped, SMT
    <2>4. ASSUME NEW v \in Uploads, v # u, phase'[v] = "replying"
          PROVE  \E m, n \in Nat : Knew(v, m, n)'
        BY <2>1, <2>2, <2>4 DEF TurnsInv, Known
    <2>5. QED BY <1>2, <2>3, <2>4 DEF Known
<1>8. QED BY <1>4, <1>6, <1>7 DEF TurnsInv

\* Turns that are lost change nothing else.
LEMMA LossStep ==
    ASSUME TurnsInv, UNCHANGED <<phase, turns, history, answered>>,
           lost \intersect ToSet(turns) \subseteq lost'
    PROVE  TurnsInv'
<1>1. TurnTypes' /\ Appended' BY DEF TurnsInv, TurnTypes, Appended
<1>2. ASSUME NEW u \in Uploads, NEW m \in Nat, NEW n \in Nat, Knew(u, m, n)
      PROVE  Knew(u, m, n)'
    <2>1. m # 0 => turns[m] \in ToSet(turns)
        BY <1>2, TurnsTyped, SMT DEF Knew, ToSet
    <2>2. QED BY <1>2, <2>1 DEF Knew
<1>3. QED BY <1>1, <1>2 DEF TurnsInv, Known

\* The session is lost with every request that read it.
LEMMA CrashStep ==
    ASSUME TurnsInv, Crash
    PROVE  TurnsInv'
<1>1. turns' = turns /\ \A v \in Uploads : phase'[v] =
          IF phase[v] \in {"unsent", "answered"} THEN phase[v] ELSE "lost"
    BY DEF Crash
<1>2. TurnTypes' BY SMT DEF TurnsInv, TurnTypes, Crash
<1>3. Appended' BY <1>1, TurnsTyped DEF TurnsInv, Appended
<1>4. Known' BY <1>1 DEF Known
<1>5. QED BY <1>2, <1>3, <1>4 DEF TurnsInv

\* No step of a request, of its recording's save or a restart breaks the invariant.
LEMMA TurnsKept ==
    ASSUME TurnsInv, [Next]_vars
    PROVE  TurnsInv'
<1>1. ASSUME UNCHANGED requestVars PROVE TurnsInv'
    <2>1. UNCHANGED <<phase, turns, history, answered>> /\ lost \subseteq lost'
        BY <1>1 DEF requestVars
    <2>2. QED BY <2>1, LossStep
<1>2. CASE UNCHANGED vars BY <1>1, <1>2 DEF vars
<1>3. CASE Crash BY <1>3, CrashStep
<1>4. ASSUME NEW u \in Uploads, Upload(u) PROVE TurnsInv' BY <1>4, UploadStep
<1>5. ASSUME NEW u \in Uploads, SaveStep(u) PROVE TurnsInv' BY <1>1, <1>5 DEF SaveStep
<1>6. ASSUME NEW u \in Uploads, History(u) PROVE TurnsInv' BY <1>6, HistoryStep
<1>7. ASSUME NEW u \in Uploads, AppendTurn(u) PROVE TurnsInv' BY <1>7, AppendStep
<1>8. ASSUME NEW u \in Uploads, Unheard(u) \/ NotRemembered(u) \/ Respond(u)
      PROVE  TurnsInv'
    BY <1>8, TurnsQuiet DEF Unheard, NotRemembered, Respond
<1>9. ASSUME NEW v \in Uploads, SceneExpires(v) PROVE TurnsInv'
    BY <1>9, LossStep DEF SceneExpires
<1>10. CASE Forget BY <1>10, LossStep DEF Forget
<1>11. QED BY <1>2, <1>3, <1>4, <1>5, <1>6, <1>7, <1>8, <1>9, <1>10 DEF Next

-----------------------------------------------------------------------------
\* A turn that a request's history lacks is older than all turns in it, and the
\* history is full, or a turn that is not older is lost.
LEMMA MissingIsOlder ==
    ASSUME TurnsInv, NEW u \in Uploads, NEW v \in answered[u], phase[u] = "replying",
           v \notin ToSet(history[u])
    PROVE  \/ \E w \in lost : Place(w) >= Place(v)
           \/ /\ Len(history[u]) = HistoryLimit
              /\ \A i \in DOMAIN history[u] : Place(history[u][i]) > Place(v)
<1>1. PICK m, n \in Nat : Knew(u, m, n) BY DEF TurnsInv, Known
<1>2. /\ n \in 0 .. Len(turns) /\ m \in 0 .. n /\ history[u] = SubSeq(turns, m + 1, n)
      /\ m = 0 \/ turns[m] \in lost \/ m + HistoryLimit = n
    BY <1>1 DEF Knew
<1>3. PICK k \in 1 .. n : turns[k] = v BY <1>1 DEF Knew
<1>4. /\ DOMAIN history[u] = 1 .. n - m /\ Len(history[u]) = n - m
      /\ \A i \in DOMAIN history[u] : history[u][i] = turns[m + i]
    <2> DEFINE f == m + 1
    <2>1. f \in Int /\ n \in Int /\ 1 <= f /\ f <= n + 1 /\ n - f + 1 = n - m BY <1>2
    <2>2. \A i \in f .. n : turns[i] \in Uploads BY <1>2, <2>1, TurnsTyped
    <2>3. \A i \in 1 .. n - m : f + i - 1 = m + i BY <1>2
    <2> HIDE DEF f
    <2>4. /\ SubSeq(turns, f, n) \in Seq(Uploads)
          /\ Len(SubSeq(turns, f, n)) = (IF f <= n THEN n - f + 1 ELSE 0)
          /\ \A i \in 1 .. n - f + 1 : SubSeq(turns, f, n)[i] = turns[f + i - 1]
        BY <2>1, <2>2, SubSeqProperties
    <2>5. history[u] = SubSeq(turns, f, n) BY <1>2 DEF f
    <2>6. history[u] \in Seq(Uploads) /\ Len(history[u]) = n - m BY <2>1, <2>4, <2>5
    <2>7. DOMAIN history[u] = 1 .. n - m BY <2>6
    <2>8. \A i \in 1 .. n - m : history[u][i] = turns[m + i]
        BY <2>1, <2>3, <2>4, <2>5
    <2>9. QED BY <2>6, <2>7, <2>8
<1>5. k <= m
    <2>1. SUFFICES ASSUME k > m PROVE FALSE BY <1>2, <1>3
    <2>2. k - m \in DOMAIN history[u] BY <1>2, <1>3, <1>4, <2>1
    <2>3. history[u][k - m] = turns[k]
        <3>1. m + (k - m) = k OBVIOUS
        <3>2. history[u][k - m] = turns[m + (k - m)] BY <1>4, <2>2
        <3>3. QED BY <3>1, <3>2
    <2>4. QED BY <1>3, <2>2, <2>3 DEF ToSet
<1>6. \A j \in 1 .. Len(turns) : Place(turns[j]) = j
    BY TurnsTyped DEF Place, TurnsInv, Appended
<1>7. Place(v) = k BY <1>2, <1>3, <1>6, TurnsTyped
<1>8. CASE turns[m] \in lost
    <2>1. m \in 1 .. Len(turns) BY <1>2, <1>3, <1>5, TurnsTyped
    <2>2. Place(turns[m]) >= Place(v) BY <1>2, <1>3, <1>5, <1>6, <1>7, <2>1
    <2>3. QED BY <1>8, <2>2
<1>9. CASE m + HistoryLimit = n
    <2>1. Len(history[u]) = HistoryLimit BY <1>2, <1>4, <1>9, UploadAssumption
    <2>2. ASSUME NEW i \in DOMAIN history[u] PROVE Place(history[u][i]) > Place(v)
        <3>1. m + i \in 1 .. Len(turns) /\ m + i > k
            BY <1>2, <1>3, <1>4, <1>5, TurnsTyped, SMT
        <3>2. QED BY <1>4, <1>6, <1>7, <3>1
    <2>3. QED BY <2>1, <2>2
<1>10. QED BY <1>2, <1>3, <1>5, <1>8, <1>9

\* A request is answered knowing every turn the child had an answer to when it
\* sent it, but for those up to one that has expired or was dropped, and those that
\* a full history has no room for, however the requests of the session overlap
\* and whenever the server restarts.
THEOREM TurnsAreSeen == Spec => []SeesAnsweredTurns
<1>1. TurnsInv => SeesAnsweredTurns
    BY MissingIsOlder DEF SeesAnsweredTurns
<1>2. QED BY <1>1, TurnsStart, TurnsKept, PTL DEF Spec

-----------------------------------------------------------------------------
(* The directory of recordings                                             *)

Steps == {"no", "begun", "created", "written", "renamed", "pruning", "killed"} \union Returned

\* A recording has its name in these.
Renamed == {"renamed", "pruning", "saved", "unpruned", "killed"}

\* Uploads that have begun to save.
Begun == {u \in Uploads : saving[u] # "no"}

\* The part of TypeOK that the directory depends on.
StoreTypes ==
    /\ dir \subseteq Files /\ saving \in [Uploads -> Steps]
    /\ modified \in [Uploads -> Nat] /\ clock \in Nat
    /\ \A u \in Uploads : modified[u] <= clock
    /\ condemned \in [Uploads -> SUBSET [name : Files, time : Nat]]
    /\ IsFiniteSet(Begun)

\* What the steps of the requests mean to the directory.
StoreNext ==
    \/ \E u \in Uploads : \/ Saves(u, "no", "begun") /\ UNCHANGED <<dir, times, condemned>>
                          \/ Save(u)
    \/ StoreCrash
    \/ UNCHANGED storeVars

\* They are the only steps that change it.
LEMMA StoreSteps == [Next]_vars => StoreNext
<1>1. ASSUME NEW u \in Uploads, Upload(u) PROVE StoreNext
    BY <1>1 DEF Upload, StoreNext, times
<1>2. ASSUME NEW u \in Uploads, SaveStep(u) PROVE StoreNext
    BY <1>2 DEF SaveStep, StoreNext
<1>3. ASSUME NEW u \in Uploads,
             \/ Unheard(u) \/ History(u) \/ AppendTurn(u) \/ NotRemembered(u) \/ Respond(u)
      PROVE  StoreNext
    BY <1>3, Zenon DEF Unheard, History, AppendTurn, NotRemembered, Respond, StoreNext
<1>4. CASE Crash BY <1>4 DEF Crash, StoreNext
<1>5. CASE UNCHANGED vars BY <1>5 DEF vars, StoreNext
<1>6. ASSUME NEW v \in Uploads, SceneExpires(v) PROVE StoreNext
    BY <1>6 DEF SceneExpires, StoreNext
<1>7. CASE Forget BY <1>7 DEF Forget, StoreNext
<1>8. QED BY <1>1, <1>2, <1>3, <1>4, <1>5, <1>6, <1>7 DEF Next

\* The files of the directory have different names.
LEMMA NamesDiffer ==
    /\ \A u, v : /\ Temp(u) # Recording(v)
                 /\ Temp(u) = Temp(v) => u = v
                 /\ Recording(u) = Recording(v) => u = v
    /\ \A u : Temp(u).upload = u /\ Recording(u).upload = u
    /\ \A f \in Files : f.upload \in Uploads /\ f \in {Temp(f.upload), Recording(f.upload)}
    /\ \A u \in Uploads : Temp(u) \in Files /\ Recording(u) \in Files
<1>1. /\ \A u : Temp(u).upload = u /\ Recording(u).upload = u
      /\ \A u : Temp(u).kind = "temp" /\ Recording(u).kind = "recording"
    BY DEF Temp, Recording
<1>2. ASSUME NEW u, NEW v
      PROVE  /\ Temp(u) # Recording(v)
             /\ Temp(u) = Temp(v) => u = v
             /\ Recording(u) = Recording(v) => u = v
    <2>1. Temp(u) # Recording(v)
        <3>1. Temp(u).kind = "temp" /\ Recording(v).kind = "recording" BY <1>1
        <3>2. QED BY <3>1
    <2>2. Temp(u).upload = u /\ Temp(v).upload = v BY <1>1
    <2>3. Recording(u).upload = u /\ Recording(v).upload = v BY <1>1
    <2>4. QED BY <2>1, <2>2, <2>3
<1>3. \A u \in Uploads : Temp(u) \in Files /\ Recording(u) \in Files BY DEF Files
<1>4. ASSUME NEW f \in Files
      PROVE  f.upload \in Uploads /\ f \in {Temp(f.upload), Recording(f.upload)}
    <2>1. PICK u \in Uploads : f = Temp(u) \/ f = Recording(u) BY DEF Files
    <2>2. QED BY <1>1, <2>1
<1>5. QED BY <1>1, <1>2, <1>3, <1>4

\* One upload takes a step of its save.
LEMMA OneSaves ==
    ASSUME StoreTypes, NEW u \in Uploads, NEW from, NEW to \in Steps, Saves(u, from, to)
    PROVE  /\ saving' \in [Uploads -> Steps] /\ saving[u] = from /\ saving'[u] = to
           /\ \A v \in Uploads \ {u} : saving'[v] = saving[v]
           /\ IsFiniteSet(Begun')
<1>1. /\ saving' \in [Uploads -> Steps] /\ saving[u] = from /\ saving'[u] = to
      /\ \A v \in Uploads \ {u} : saving'[v] = saving[v]
    BY DEF StoreTypes, Saves
<1>2. Begun' \subseteq Begun \union {u} BY <1>1 DEF Begun
<1>3. IsFiniteSet(Begun \union {u}) BY FS_AddElement DEF StoreTypes
<1>4. QED BY <1>1, <1>2, <1>3, FS_Subset

\* What every step of one save does to the times.
LEMMA TimesGoOn ==
    ASSUME StoreTypes, NEW u \in Uploads, Touch(u) \/ UNCHANGED times
    PROVE  /\ modified' \in [Uploads -> Nat] /\ clock' \in Nat
           /\ \A v \in Uploads : modified'[v] <= clock' /\ modified[v] <= modified'[v]
           /\ \A v \in Uploads \ {u} : modified'[v] = modified[v]
<1>1. CASE UNCHANGED times
    BY <1>1, SMT DEF StoreTypes, times
<1>2. CASE Touch(u)
    <2>1. clock' = clock + 1 /\ modified' = [modified EXCEPT ![u] = clock + 1]
        BY <1>2 DEF Touch
    <2>2. clock + 1 \in Nat /\ clock' \in Nat BY <2>1 DEF StoreTypes
    <2>3. modified' \in [Uploads -> Nat] BY <2>1, <2>2 DEF StoreTypes
    <2>4. \A v \in Uploads : modified'[v] = IF v = u THEN clock + 1 ELSE modified[v]
        BY <2>1 DEF StoreTypes
    <2>5. \A v \in Uploads : modified[v] \in Nat /\ modified[v] <= clock /\ clock \in Nat
        BY DEF StoreTypes
    <2>6. \A v \in Uploads : modified'[v] <= clock' /\ modified[v] <= modified'[v]
        BY <2>1, <2>4, <2>5, SMT
    <2>7. QED BY <2>2, <2>3, <2>4, <2>6
<1>3. QED BY <1>1, <1>2

\* Where a step of Save() leads, and which files it adds.
LEMMA SaveDoes ==
    ASSUME StoreTypes, NEW u \in Uploads, Save(u)
    PROVE  /\ \E from, to \in Steps : Saves(u, from, to) /\ from # "no"
           /\ Touch(u) \/ UNCHANGED times
           /\ dir' \subseteq dir \union {Temp(u), Recording(u)}
           /\ \A v \in Uploads \ {u} : condemned'[v] = condemned[v]
<1> USE DEF Steps, Returned
<1>1. CASE Create(u) BY <1>1 DEF Create
<1>2. CASE Write(u) BY <1>2 DEF Write
<1>3. CASE SaveFails(u) BY <1>3 DEF SaveFails
<1>4. CASE Rename(u) BY <1>4 DEF Rename
<1>5. CASE RenameFindsNothing(u) BY <1>5 DEF RenameFindsNothing
<1>6. CASE List(u) BY <1>6 DEF List, StoreTypes
<1>7. CASE RemoveOldest(u) BY <1>7 DEF RemoveOldest, StoreTypes
<1>8. CASE PruneFails(u) BY <1>8 DEF PruneFails, StoreTypes
<1>9. QED BY <1>1, <1>2, <1>3, <1>4, <1>5, <1>6, <1>7, <1>8 DEF Save

\* What is listed of the directory.
Infos == {Info(f) : f \in dir}

\* prune() condemns what it has listed, and no more comes to it.
LEMMA SaveCondemns ==
    ASSUME StoreTypes, NEW u \in Uploads, Save(u)
    PROVE  \/ condemned'[u] \subseteq condemned[u]
           \/ List(u) /\ condemned'[u] = Surplus(Infos)
<1>1. CASE List(u)
    <2>1. condemned'[u] = {} \/ condemned'[u] = Surplus(Infos)
        BY <1>1 DEF List, StoreTypes, Infos
    <2>2. QED BY <1>1, <2>1
<1>2. CASE RemoveOldest(u) BY <1>2 DEF RemoveOldest, StoreTypes
<1>3. CASE PruneFails(u) BY <1>3 DEF PruneFails, StoreTypes
<1>4. QED
    BY <1>1, <1>2, <1>3 DEF Save, Create, Write, SaveFails, Rename, RenameFindsNothing

\* Every step keeps the types.
LEMMA StoreTypesStep == StoreTypes /\ StoreNext => StoreTypes'
<1> SUFFICES ASSUME StoreTypes, StoreNext PROVE StoreTypes'
    OBVIOUS
<1>1. ASSUME NEW u \in Uploads, Saves(u, "no", "begun"), UNCHANGED <<dir, times, condemned>>
      PROVE  StoreTypes'
    <2>1. saving' \in [Uploads -> Steps] /\ IsFiniteSet(Begun')
        BY <1>1, OneSaves DEF Steps
    <2>2. QED BY <1>1, <2>1 DEF StoreTypes, times
<1>2. ASSUME NEW u \in Uploads, Save(u) PROVE StoreTypes'
    <2>1. saving' \in [Uploads -> Steps] /\ IsFiniteSet(Begun')
        BY <1>2, SaveDoes, OneSaves
    <2>2. /\ modified' \in [Uploads -> Nat] /\ clock' \in Nat
          /\ \A v \in Uploads : modified'[v] <= clock'
        BY <1>2, SaveDoes, TimesGoOn
    <2>3. dir' \subseteq Files BY <1>2, SaveDoes, NamesDiffer DEF StoreTypes
    <2>4. condemned'[u] \subseteq [name : Files, time : Nat]
        <3>1. condemned[u] \subseteq [name : Files, time : Nat] BY DEF StoreTypes
        <3>2. \A f \in dir : Info(f) \in [name : Files, time : Nat]
            BY NamesDiffer DEF StoreTypes, Info
        <3>3. Surplus(Infos) \subseteq Infos BY DEF Surplus
        <3>4. Infos \subseteq [name : Files, time : Nat] BY <3>2 DEF Infos
        <3>5. QED BY <1>2, <3>1, <3>3, <3>4, SaveCondemns
    <2>5. \E c : condemned' = [condemned EXCEPT ![u] = c]
        <3>1. UNCHANGED condemned => condemned' = [condemned EXCEPT ![u] = condemned[u]]
            BY DEF StoreTypes
        <3>2. QED
            BY <1>2, <3>1 DEF Save, Create, Write, SaveFails, Rename, RenameFindsNothing, List,
                RemoveOldest, PruneFails
    <2>6. condemned' \in [Uploads -> SUBSET [name : Files, time : Nat]]
        BY <2>4, <2>5 DEF StoreTypes
    <2>7. QED BY <2>1, <2>2, <2>3, <2>6 DEF StoreTypes
<1>3. CASE StoreCrash
    <2>1. saving' \in [Uploads -> Steps] /\ Begun' = Begun
        <3>1. saving' = [u \in Uploads |->
                  IF saving[u] \in {"no"} \union Returned THEN saving[u] ELSE "killed"]
            BY <1>3 DEF StoreCrash
        <3>2. saving' \in [Uploads -> Steps] BY <3>1 DEF StoreTypes, Steps
        <3>3. \A u \in Uploads : saving'[u] = "no" <=> saving[u] = "no" BY <3>1
        <3>4. QED BY <3>2, <3>3 DEF Begun
    <2>2. condemned' \in [Uploads -> SUBSET [name : Files, time : Nat]]
        BY <1>3 DEF StoreCrash
    <2>3. UNCHANGED <<dir, modified, clock>> BY <1>3 DEF StoreCrash, times
    <2>4. QED BY <2>1, <2>2, <2>3 DEF StoreTypes
<1>4. CASE UNCHANGED storeVars BY <1>4 DEF StoreTypes, storeVars, times, Begun
<1>5. QED BY <1>1, <1>2, <1>3, <1>4 DEF StoreNext

\* An upload has one file, under the name that belongs to how far its save has
\* come, and condemned names belong to a prune on its way.
OwnedBy(u) ==
    /\ Temp(u) \in dir => saving[u] \in {"created", "written", "killed"}
    /\ Recording(u) \in dir => saving[u] \in Renamed /\ Temp(u) \notin dir
    /\ Temp(u) \in dir \/ Recording(u) \in dir => modified[u] > 0
    /\ condemned[u] # {} => saving[u] = "pruning"
    /\ modified[u] > 0 => saving[u] # "no"

\* No two files have the same time.
Dated == \A u, v \in Uploads : modified[u] = modified[v] => u = v \/ modified[u] = 0

Owned == (\A u \in Uploads : OwnedBy(u)) /\ Dated

\* What one save does to its own file is all that matters.
LEMMA OthersOwned ==
    ASSUME StoreTypes, Owned, NEW u \in Uploads, Save(u)
    PROVE  \A v \in Uploads \ {u} : OwnedBy(v)'
<1> SUFFICES ASSUME NEW v \in Uploads \ {u} PROVE OwnedBy(v)'
    OBVIOUS
<1>1. saving'[v] = saving[v] BY SaveDoes, OneSaves
<1>2. modified'[v] = modified[v] BY SaveDoes, TimesGoOn
<1>3. condemned'[v] = condemned[v] BY SaveDoes
<1>4. (Temp(v) \in dir' => Temp(v) \in dir) /\ (Recording(v) \in dir' => Recording(v) \in dir)
    BY SaveDoes, NamesDiffer
<1>5. Temp(v) \in dir' /\ Recording(v) \in dir' => FALSE BY <1>4 DEF Owned, OwnedBy
<1>6. OwnedBy(v) BY DEF Owned
<1>7. QED BY <1>1, <1>2, <1>3, <1>4, <1>5, <1>6 DEF OwnedBy

\* A touched file is the newest.
LEMMA DatedStep ==
    ASSUME StoreTypes, Dated, NEW u \in Uploads, Touch(u) \/ UNCHANGED times
    PROVE  Dated'
<1>1. CASE UNCHANGED times BY <1>1 DEF Dated, times
<1>2. CASE Touch(u)
    <2>1. \A v \in Uploads : modified'[v] = IF v = u THEN clock + 1 ELSE modified[v]
        BY <1>2 DEF StoreTypes, Touch
    <2>2. \A v \in Uploads : modified[v] # clock + 1
        <3>1. \A v \in Uploads : modified[v] \in Nat /\ modified[v] <= clock /\ clock \in Nat
            BY DEF StoreTypes
        <3>2. QED BY <3>1, SMT
    <2>3. QED BY <2>1, <2>2 DEF Dated
<1>3. QED BY <1>1, <1>2

\* Every step keeps the files' owners apart.
LEMMA OwnedStep == StoreTypes /\ Owned /\ StoreNext => Owned'
<1> SUFFICES ASSUME StoreTypes, Owned, StoreNext PROVE Owned'
    OBVIOUS
<1>o. \A u \in Uploads : OwnedBy(u) BY DEF Owned
<1>d. Dated BY DEF Owned
<1> USE DEF Steps, Returned
<1>1. ASSUME NEW u \in Uploads, Saves(u, "no", "begun"), UNCHANGED <<dir, times, condemned>>
      PROVE  Owned'
    <2>1. /\ saving[u] = "no" /\ saving'[u] = "begun"
          /\ \A v \in Uploads \ {u} : saving'[v] = saving[v]
        BY <1>1, OneSaves
    <2>2. OwnedBy(u) BY <1>o
    <2>3. OwnedBy(u)' BY <1>1, <2>1, <2>2, SMT DEF OwnedBy, times, Renamed
    <2>4. \A v \in Uploads \ {u} : OwnedBy(v)' BY <1>1, <1>o, <2>1 DEF OwnedBy, times
    <2>5. Dated' BY <1>1, <1>d DEF Dated, times
    <2>6. QED BY <2>3, <2>4, <2>5 DEF Owned
<1>2. ASSUME NEW u \in Uploads, Save(u) PROVE Owned'
    <2>1. Dated' BY <1>2, <1>d, SaveDoes, DatedStep
    <2>2. \A v \in Uploads \ {u} : OwnedBy(v)' BY <1>2, OthersOwned
    <2>o. OwnedBy(u) BY <1>o
    <2>m. modified[u] \in Nat /\ clock \in Nat BY DEF StoreTypes
    <2>n. Temp(u) # Recording(u) BY NamesDiffer
    <2>3. ASSUME Touch(u) PROVE modified'[u] > 0
        <3>1. modified'[u] = clock + 1 BY <2>3 DEF Touch, StoreTypes
        <3>2. QED BY <3>1, <2>m, SMT
    <2>4. OwnedBy(u)'
        <3>1. CASE Create(u)
            <4>1. /\ saving[u] = "begun" /\ saving'[u] = "created" /\ Touch(u)
                  /\ dir' = dir \union {Temp(u)} /\ condemned' = condemned
                BY <3>1, OneSaves DEF Create
            <4>2. Recording(u) \notin dir' BY <4>1, <2>o, <2>n, SMT DEF OwnedBy, Renamed
            <4>3. condemned'[u] = {} BY <4>1, <2>o DEF OwnedBy
            <4>4. QED BY <2>3, <4>1, <4>2, <4>3 DEF OwnedBy
        <3>2. CASE Write(u)
            <4>1. /\ saving[u] = "created" /\ saving'[u] = "written" /\ Touch(u)
                  /\ dir' = dir /\ condemned' = condemned
                BY <3>2, OneSaves DEF Write
            <4>2. Recording(u) \notin dir' BY <4>1, <2>o, SMT DEF OwnedBy, Renamed
            <4>3. condemned'[u] = {} BY <4>1, <2>o DEF OwnedBy
            <4>4. QED BY <2>3, <4>1, <4>2, <4>3 DEF OwnedBy
        <3>3. CASE SaveFails(u) \/ RenameFindsNothing(u)
            <4>1. /\ saving[u] \in {"begun", "created", "written"} /\ saving'[u] = "failed"
                  /\ UNCHANGED times /\ dir' = dir \ {Temp(u)} /\ condemned' = condemned
                BY <3>3, OneSaves DEF SaveFails, RenameFindsNothing
            <4>2. Recording(u) \notin dir' /\ Temp(u) \notin dir'
                BY <4>1, <2>o, SMT DEF OwnedBy, Renamed
            <4>3. condemned'[u] = {} BY <4>1, <2>o DEF OwnedBy
            <4>4. QED BY <4>1, <4>2, <4>3 DEF OwnedBy
        <3>4. CASE Rename(u)
            <4>1. /\ Temp(u) \in dir /\ saving'[u] = "renamed" /\ UNCHANGED <<modified, condemned>>
                  /\ dir' = (dir \ {Temp(u)}) \union {Recording(u)} /\ saving[u] = "written"
                BY <3>4, OneSaves DEF Rename, times
            <4>2. Temp(u) \notin dir' BY <4>1, <2>n
            <4>3. condemned'[u] = {} /\ modified'[u] > 0 BY <4>1, <2>o DEF OwnedBy
            <4>4. QED BY <4>1, <4>2, <4>3 DEF OwnedBy, Renamed
        <3>5. CASE List(u)
            <4>1. /\ saving[u] = "renamed" /\ UNCHANGED <<modified, dir>>
                  /\ \/ saving'[u] = "pruning"
                     \/ saving'[u] = "saved" /\ condemned'[u] = {}
                BY <3>5, OneSaves DEF List, times, StoreTypes
            <4>2. QED BY <4>1, <2>o, SMT DEF OwnedBy, Renamed
        <3>6. CASE RemoveOldest(u)
            <4>1. /\ saving[u] = "pruning" /\ UNCHANGED modified /\ dir' \subseteq dir
                  /\ \/ saving'[u] = "pruning"
                     \/ saving'[u] = "saved" /\ condemned'[u] = {}
                BY <3>6, OneSaves DEF RemoveOldest, times, StoreTypes
            <4>2. Temp(u) \notin dir' /\ (Recording(u) \in dir' => Recording(u) \in dir)
                BY <4>1, <2>o, SMT DEF OwnedBy
            <4>3. QED BY <4>1, <4>2, <2>o, SMT DEF OwnedBy, Renamed
        <3>7. CASE PruneFails(u)
            <4>1. /\ saving[u] \in {"renamed", "pruning"} /\ saving'[u] = "unpruned"
                  /\ UNCHANGED <<modified, dir>> /\ condemned'[u] = {}
                BY <3>7, OneSaves DEF PruneFails, times, StoreTypes
            <4>2. QED BY <4>1, <2>o, SMT DEF OwnedBy, Renamed
        <3>8. QED BY <1>2, <3>1, <3>2, <3>3, <3>4, <3>5, <3>6, <3>7 DEF Save
    <2>5. QED BY <2>1, <2>2, <2>4 DEF Owned
<1>3. CASE StoreCrash
    <2>1. /\ saving' = [u \in Uploads |->
                 IF saving[u] \in {"no"} \union Returned THEN saving[u] ELSE "killed"]
          /\ condemned' = [u \in Uploads |-> {}] /\ UNCHANGED <<dir, modified>>
        BY <1>3 DEF StoreCrash, times
    <2>2. ASSUME NEW u \in Uploads PROVE OwnedBy(u)'
        <3>1. saving'[u] = saving[u] \/ saving'[u] = "killed" BY <2>1
        <3>2. saving[u] # "no" => saving'[u] # "no" BY <2>1
        <3>3. condemned'[u] = {} BY <2>1
        <3>4. OwnedBy(u) BY <1>o
        <3>5. QED BY <2>1, <3>1, <3>2, <3>3, <3>4, SMT DEF OwnedBy, Renamed
    <2>3. Dated' BY <2>1, <1>d DEF Dated
    <2>4. QED BY <2>2, <2>3 DEF Owned
<1>4. CASE UNCHANGED storeVars BY <1>4, <1>o, <1>d DEF Owned, OwnedBy, Dated, storeVars, times
<1>5. QED BY <1>1, <1>2, <1>3, <1>4 DEF StoreNext

\* What is listed is as much as there is, and the times tell it apart.
LEMMA InfosAre ==
    ASSUME StoreTypes, Owned
    PROVE  /\ IsFiniteSet(dir) /\ IsFiniteSet(Infos)
           /\ Infos \subseteq [name : Files, time : Nat]
           /\ \A i \in Infos : i.name \in dir /\ i.time = modified[i.name.upload]
           /\ \A f, g \in dir : f.upload = g.upload => f = g
           /\ \A i, j \in Infos : i.time = j.time => i = j
<1>1. \A f \in dir : /\ f \in Files /\ f.upload \in Uploads
                     /\ f = Temp(f.upload) \/ f = Recording(f.upload)
    BY NamesDiffer DEF StoreTypes
<1>2. \A u \in Uploads : OwnedBy(u) BY DEF Owned
<1>3. ASSUME NEW f \in dir, NEW g \in dir, f.upload = g.upload PROVE f = g
    BY <1>1, <1>2, <1>3 DEF OwnedBy
<1>4. \A f \in dir : f.upload \in Begun /\ modified[f.upload] > 0
    BY <1>1, <1>2 DEF OwnedBy, Begun
<1>5. IsFiniteSet(dir)
    <2> DEFINE owner == [f \in dir |-> f.upload]
    <2>1. owner \in Injection(dir, Begun) BY <1>3, <1>4 DEF Injection, IsInjective
    <2>2. QED BY <2>1, FS_Injection DEF StoreTypes
<1>6. \A i \in Infos : i.name \in dir /\ i.time = modified[i.name.upload] /\ i = Info(i.name)
    BY DEF Infos, Info
<1>7. IsFiniteSet(Infos)
    <2> DEFINE of == [i \in Infos |-> i.name]
    <2>1. of \in Injection(Infos, dir) BY <1>6 DEF Injection, IsInjective
    <2>2. QED BY <1>5, <2>1, FS_Injection
<1>8. Infos \subseteq [name : Files, time : Nat]
    <2>1. \A f \in dir : modified[f.upload] \in Nat BY <1>1 DEF StoreTypes
    <2>2. QED BY <1>1, <2>1 DEF Infos, Info
<1>9. ASSUME NEW i \in Infos, NEW j \in Infos, i.time = j.time PROVE i = j
    <2>1. modified[i.name.upload] = modified[j.name.upload] BY <1>6, <1>9
    <2>2. modified[i.name.upload] # 0
        <3>1. modified[i.name.upload] > 0 /\ i.name.upload \in Uploads BY <1>1, <1>4, <1>6
        <3>2. QED BY <3>1, SMT DEF StoreTypes
    <2>3. i.name.upload = j.name.upload BY <1>1, <1>6, <2>1, <2>2 DEF Owned, Dated
    <2>4. QED BY <1>3, <1>6, <2>3
<1>10. QED BY <1>3, <1>5, <1>6, <1>7, <1>8, <1>9

-----------------------------------------------------------------------------
(* A recording that was saved is found                                     *)

\* Limit others have been touched after an upload.
Outdated(u) == Cardinality(TouchedSince(u)) >= Limit

\* A prune condemns only recordings with Limit newer files.  SavedIsFound alone
\* does not say what a prune on its way will remove.
Chosen == \A v \in Uploads : \A i \in condemned[v] : \A u \in Uploads :
    i.name = Recording(u) => saving[u] \in Renamed /\ Outdated(u)

\* What was touched after an upload can be counted.
LEMMA TouchedIsFinite ==
    ASSUME StoreTypes, Owned, NEW u \in Uploads
    PROVE  IsFiniteSet(TouchedSince(u)) /\ Cardinality(TouchedSince(u)) \in Nat
<1>1. \A v \in Uploads : modified[v] \in Nat BY DEF StoreTypes
<1>2. \A v \in TouchedSince(u) : v \in Uploads /\ modified[v] > 0
    BY <1>1, SMT DEF TouchedSince
<1>3. TouchedSince(u) \subseteq Begun BY <1>2 DEF Begun, Owned, OwnedBy
<1>4. QED BY <1>3, FS_Subset, FS_CardinalityType DEF StoreTypes

\* An upload that is not touched itself stays outdated.
LEMMA StaysOutdated ==
    ASSUME StoreTypes, Owned, StoreTypes', Owned', NEW u \in Uploads,
           modified'[u] = modified[u], \A v \in Uploads : modified[v] <= modified'[v],
           Outdated(u)
    PROVE  Outdated(u)'
<1> DEFINE after == {v \in Uploads : modified'[v] > modified'[u]}
<1>0. \A v \in Uploads : modified[v] \in Nat /\ modified'[v] \in Nat BY DEF StoreTypes
<1>1. TouchedSince(u)' = after BY DEF TouchedSince
<1>2. TouchedSince(u) \subseteq after
    <2>1. \A m, n, k \in Nat : m > n /\ m <= k => k > n BY SMT
    <2>2. QED BY <1>0, <2>1 DEF TouchedSince
<1>3. IsFiniteSet(after)
    <2>1. \A v \in Uploads : modified'[v] > modified'[u] => modified'[v] > 0 BY <1>0, SMT
    <2>2. after \subseteq Begun' BY <2>1 DEF Begun, Owned, OwnedBy
    <2>3. QED BY <2>2, FS_Subset DEF StoreTypes
<1> HIDE DEF after
<1>4. Cardinality(TouchedSince(u)) <= Cardinality(after) /\ Cardinality(after) \in Nat
    BY <1>2, <1>3, FS_Subset, FS_CardinalityType
<1>5. Cardinality(TouchedSince(u)) \in Nat BY TouchedIsFinite
<1>6. Cardinality(after) >= Limit
    BY <1>4, <1>5, RecordingAssumption, SMT DEF Outdated
<1>7. QED BY <1>1, <1>6 DEF Outdated

\* A file whose recording has its name is not touched, and keeps that name.
LEMMA RenamedStays ==
    ASSUME StoreTypes, Owned, StoreNext, NEW u \in Uploads, saving[u] \in Renamed
    PROVE  /\ saving'[u] \in Renamed /\ modified'[u] = modified[u]
           /\ \A v \in Uploads : modified[v] <= modified'[v]
<1>m. \A v \in Uploads : modified[v] <= modified[v] BY SMT DEF StoreTypes
<1>1. ASSUME NEW v \in Uploads, Saves(v, "no", "begun"), UNCHANGED <<dir, times, condemned>>
      PROVE  /\ saving'[u] \in Renamed /\ modified'[u] = modified[u]
             /\ \A w \in Uploads : modified[w] <= modified'[w]
    <2>1. u # v BY <1>1, OneSaves DEF Steps, Renamed
    <2>2. saving'[u] = saving[u] BY <1>1, <2>1, OneSaves DEF Steps
    <2>3. QED BY <1>1, <1>m, <2>2 DEF times
<1>2. ASSUME NEW v \in Uploads, Save(v), u # v
      PROVE  /\ saving'[u] \in Renamed /\ modified'[u] = modified[u]
             /\ \A w \in Uploads : modified[w] <= modified'[w]
    <2>1. saving'[u] = saving[u] BY <1>2, SaveDoes, OneSaves
    <2>2. QED BY <1>2, <2>1, SaveDoes, TimesGoOn
<1>3. ASSUME Save(u)
      PROVE  /\ saving'[u] \in Renamed /\ modified'[u] = modified[u]
             /\ \A w \in Uploads : modified[w] <= modified'[w]
    <2>1. ~Create(u) /\ ~Write(u) /\ ~SaveFails(u) /\ ~Rename(u) /\ ~RenameFindsNothing(u)
        BY SMT DEF Create, Write, SaveFails, Rename, RenameFindsNothing, Saves, Renamed
    <2>2. List(u) \/ RemoveOldest(u) \/ PruneFails(u) BY <1>3, <2>1 DEF Save
    <2>3. modified' = modified BY <2>2 DEF List, RemoveOldest, PruneFails, times
    <2>4. \E from : \E to \in {"saved", "pruning", "unpruned"} : Saves(u, from, to)
        BY <2>2 DEF List, RemoveOldest, PruneFails
    <2>5. saving'[u] \in Renamed BY <2>4, OneSaves DEF Steps, Returned, Renamed
    <2>6. QED BY <2>3, <2>5, <1>m
<1>4. CASE StoreCrash
    <2>1. saving'[u] \in {saving[u], "killed"} /\ modified' = modified
        BY <1>4 DEF StoreCrash, times
    <2>2. QED BY <2>1, <1>m DEF Renamed
<1>5. CASE UNCHANGED storeVars BY <1>5, <1>m DEF storeVars, times
<1>6. QED BY <1>1, <1>2, <1>3, <1>4, <1>5 DEF StoreNext

\* The files that are newer than a recording belong to as many uploads.
LEMMA SurplusOutdated ==
    ASSUME StoreTypes, Owned, NEW i \in Surplus(Infos), NEW u \in Uploads,
           i.name = Recording(u)
    PROVE  saving[u] \in Renamed /\ Outdated(u)
<1>1. /\ i \in Infos /\ Cardinality({j \in Infos : j.time > i.time}) >= Limit
    BY DEF Surplus
<1>2. i.name \in dir /\ i.time = modified[u] BY <1>1, InfosAre, NamesDiffer
<1>3. saving[u] \in Renamed BY <1>2 DEF Owned, OwnedBy
<1> DEFINE newer == {j \in Infos : j.time > i.time}
           owner == [j \in newer |-> j.name.upload]
<1>4. ASSUME NEW j \in newer PROVE owner[j] \in TouchedSince(u)
    <2>1. j.name \in dir /\ j.time = modified[j.name.upload] /\ j.time > i.time
        BY InfosAre
    <2>2. j.name.upload \in Uploads BY <2>1, NamesDiffer DEF StoreTypes
    <2>3. QED BY <1>2, <2>1, <2>2 DEF TouchedSince
<1>5. ASSUME NEW j \in newer, NEW k \in newer, owner[j] = owner[k] PROVE j = k
    <2>1. j \in Infos /\ k \in Infos /\ j.name.upload = k.name.upload BY <1>5
    <2>2. j.time = k.time BY <2>1, InfosAre
    <2>3. QED BY <2>1, <2>2, InfosAre
<1>6. owner \in Injection(newer, TouchedSince(u))
    <2>1. owner \in [newer -> TouchedSince(u)] BY <1>4
    <2> HIDE DEF owner
    <2>2. QED BY <1>5, <2>1 DEF Injection, IsInjective
<1> HIDE DEF newer, owner
<1>7. IsFiniteSet(newer) /\ Cardinality(newer) <= Cardinality(TouchedSince(u))
    BY <1>6, TouchedIsFinite, FS_Injection
<1>8. Cardinality(newer) >= Limit BY <1>1 DEF newer
<1>9. Cardinality(newer) \in Nat /\ Cardinality(TouchedSince(u)) \in Nat
    BY <1>7, TouchedIsFinite, FS_CardinalityType
<1>10. Outdated(u) BY <1>7, <1>8, <1>9, RecordingAssumption, SMT DEF Outdated
<1>11. QED BY <1>3, <1>10

\* Every step keeps to condemning outdated recordings.
LEMMA ChosenStep ==
    StoreTypes /\ Owned /\ StoreTypes' /\ Owned' /\ Chosen /\ StoreNext => Chosen'
<1> SUFFICES ASSUME StoreTypes, Owned, StoreTypes', Owned', Chosen, StoreNext,
                    NEW v \in Uploads, NEW i \in condemned'[v], NEW u \in Uploads,
                    i.name = Recording(u)
             PROVE  saving'[u] \in Renamed /\ Outdated(u)'
    BY DEF Chosen
<1>1. \/ i \in condemned[v]
      \/ i \in Surplus(Infos)
    <2>1. ASSUME NEW w \in Uploads, Save(w)
          PROVE  i \in condemned[v] \/ i \in Surplus(Infos)
        <3>1. CASE w = v BY <2>1, <3>1, SaveCondemns
        <3>2. CASE w # v BY <2>1, <3>2, SaveDoes
        <3>3. QED BY <3>1, <3>2
    <2>2. CASE StoreCrash BY <2>2 DEF StoreCrash
    <2>3. QED BY <2>1, <2>2 DEF StoreNext, storeVars
<1>2. saving[u] \in Renamed /\ Outdated(u) BY <1>1, SurplusOutdated DEF Chosen
<1>3. QED BY <1>2, RenamedStays, StaysOutdated

\* A recording leaves the directory only by a prune that chose it.
LEMMA OnlyTheChosenGo ==
    ASSUME StoreTypes, Owned, Chosen, StoreNext, NEW u \in Uploads,
           Recording(u) \in dir, Recording(u) \notin dir'
    PROVE  Outdated(u)
<1>1. PICK w \in Uploads : RemoveOldest(w)
    <2>1. \A w \in Uploads : Temp(w) # Recording(u) BY NamesDiffer
    <2>2. QED
        BY <2>1, Zenon DEF StoreNext, StoreCrash, storeVars, Save, Create, Write, SaveFails,
            Rename, RenameFindsNothing, List, PruneFails
<1>2. PICK i \in condemned[w] : dir' = dir \ {i.name} BY <1>1 DEF RemoveOldest
<1>3. i.name = Recording(u) BY <1>2
<1>4. QED BY <1>2, <1>3 DEF Chosen

\* Every step keeps what was saved, or its successors.
LEMMA FoundStep ==
    /\ StoreTypes /\ Owned /\ StoreTypes' /\ Owned' /\ Chosen /\ SavedIsFound /\ StoreNext
    => SavedIsFound'
<1> DEFINE Kept == {"renamed", "pruning", "saved", "unpruned"}
<1> SUFFICES ASSUME StoreTypes, Owned, StoreTypes', Owned', Chosen, SavedIsFound, StoreNext,
                    NEW u \in Uploads, saving'[u] \in Kept
             PROVE  Find(u)' \/ Outdated(u)'
    BY DEF SavedIsFound, Outdated
<1>1. CASE saving[u] \in Kept
    <2>1. Find(u) \/ Outdated(u) BY <1>1 DEF SavedIsFound, Outdated
    <2>2. saving[u] \in Renamed BY <1>1 DEF Renamed
    <2>3. Outdated(u) => Outdated(u)' BY <2>2, RenamedStays, StaysOutdated
    <2>4. CASE Recording(u) \in dir'
        BY <2>4 DEF Find
    <2>5. CASE Recording(u) \notin dir'
        <3>1. Recording(u) \in dir => Outdated(u) BY <2>5, OnlyTheChosenGo
        <3>2. QED BY <2>1, <2>3, <3>1 DEF Find
    <2>6. QED BY <2>4, <2>5
<1>2. CASE saving[u] \notin Kept
    <2>1. PICK v \in Uploads : Save(v)
        <3>1. StoreCrash => saving'[u] \in {saving[u], "killed"} BY DEF StoreCrash
        <3>2. ~StoreCrash BY <1>2, <3>1
        <3>3. ~UNCHANGED storeVars BY <1>2 DEF storeVars
        <3>4. ASSUME NEW w \in Uploads, Saves(w, "no", "begun") PROVE FALSE
            <4>1. saving'[u] = saving[u] \/ saving'[u] = "begun"
                BY <3>4, OneSaves DEF Steps
            <4>2. QED BY <1>2, <4>1
        <3>5. QED BY <3>2, <3>3, <3>4 DEF StoreNext
    <2>2. v = u BY <1>2, <2>1, SaveDoes, OneSaves
    <2>3. Rename(u)
        <3>1. ~List(u) /\ ~RemoveOldest(u) /\ ~PruneFails(u)
            BY <1>2, SMT DEF List, RemoveOldest, PruneFails, Saves
        <3>2. ~Create(u) /\ ~Write(u) /\ ~SaveFails(u) /\ ~RenameFindsNothing(u)
            <4>1. saving'[u] \notin {"created", "written", "failed"} BY SMT
            <4>2. QED
                BY <4>1, OneSaves
                DEF Create, Write, SaveFails, RenameFindsNothing, Steps, Returned
        <3>3. QED BY <2>1, <2>2, <3>1, <3>2 DEF Save
    <2>4. QED BY <2>3 DEF Rename, Find
<1>3. QED BY <1>1, <1>2

\* What the recordings guarantee between steps.
FoundInv == StoreTypes /\ Owned /\ Chosen /\ SavedIsFound

\* There are no recordings to begin with.
LEMMA StoreStart ==
    ASSUME Init
    PROVE  FoundInv
<1>1. /\ dir = {} /\ modified = [u \in Uploads |-> 0] /\ clock = 0
      /\ saving = [u \in Uploads |-> "no"] /\ condemned = [u \in Uploads |-> {}]
    BY DEF Init, StoreInit
<1>2. IsFiniteSet(Begun)
    <2>1. Begun = {} BY <1>1 DEF Begun
    <2>2. QED BY <2>1, FS_EmptySet
<1>3. StoreTypes BY <1>1, <1>2, SMT DEF StoreTypes, Steps
<1>4. Owned BY <1>1, SMT DEF Owned, OwnedBy, Dated
<1>5. Chosen BY <1>1 DEF Chosen
<1>6. SavedIsFound BY <1>1 DEF SavedIsFound
<1>7. QED BY <1>3, <1>4, <1>5, <1>6 DEF FoundInv

\* No step breaks it.
LEMMA FoundKept ==
    ASSUME FoundInv, [Next]_vars
    PROVE  FoundInv'
<1>1. StoreNext BY StoreSteps
<1>2. StoreTypes' BY <1>1, StoreTypesStep DEF FoundInv
<1>3. Owned' BY <1>1, OwnedStep DEF FoundInv
<1>4. QED BY <1>1, <1>2, <1>3, ChosenStep, FoundStep DEF FoundInv

\* A recording that was saved is found until Limit others have been touched
\* after it, whatever number of requests save, prune, fail and crash together.
THEOREM RecordingsAreFound == Spec => []SavedIsFound
<1>1. FoundInv => SavedIsFound BY DEF FoundInv
<1>2. QED BY <1>1, StoreStart, FoundKept, PTL DEF Spec

-----------------------------------------------------------------------------
(* The directory stays small                                               *)

\* No more than Limit files have fewer than Limit newer ones.
LEMMA NewestKept ==
    ASSUME NEW infos, IsFiniteSet(infos), \A i \in infos : i.time \in Nat,
           \A i, j \in infos : i.time = j.time => i = j
    PROVE  /\ IsFiniteSet(infos \ Surplus(infos))
           /\ Cardinality(infos \ Surplus(infos)) <= Limit
<1> DEFINE kept == infos \ Surplus(infos)
<1>1. IsFiniteSet(kept) BY FS_Subset
<1>2. CASE kept = {}
    BY <1>1, <1>2, FS_EmptySet, RecordingAssumption
<1>3. CASE kept # {}
    <2>1. PICK o \in kept : \A i \in kept : o.time <= i.time
        <3> DEFINE T == {i.time : i \in kept}
        <3>1. T \in SUBSET Nat /\ T # {} BY <1>3
        <3>2. \E x \in T : \A y \in T : x <= y
            <4> HIDE DEF T
            <4>1. QED BY <3>1, LeastTime
        <3>3. QED BY <3>2
    <2> DEFINE newer == {j \in infos : j.time > o.time}
    <2>2. IsFiniteSet(newer) /\ Cardinality(newer) \in Nat BY FS_Subset, FS_CardinalityType
    <2>3. ~ Cardinality(newer) >= Limit BY DEF Surplus
    <2>4. kept \ {o} \subseteq newer
        <3>1. ASSUME NEW i \in kept \ {o} PROVE i.time > o.time
            <4>1. i \in infos /\ o \in infos /\ i # o OBVIOUS
            <4>2. i.time # o.time BY <4>1
            <4>3. i.time \in Nat /\ o.time \in Nat BY <4>1
            <4>4. QED BY <2>1, <4>2, <4>3
        <3>2. QED BY <3>1
    <2> HIDE DEF newer, kept
    <2>5. Cardinality(kept \ {o}) <= Cardinality(newer) BY <2>2, <2>4, FS_Subset
    <2>6. Cardinality(kept \ {o}) = Cardinality(kept) - 1 BY <1>1, <2>1, FS_RemoveElement
    <2>7. Cardinality(kept) \in Nat BY <1>1, FS_CardinalityType
    <2>8. Cardinality(kept) <= Limit
        BY <2>2, <2>3, <2>5, <2>6, <2>7, RecordingAssumption, SMT
    <2>9. QED BY <1>1, <2>8 DEF kept
<1>4. QED BY <1>2, <1>3

\* Uploads whose prune has listed the directory, and those it is done with.
Listed == {w \in Uploads : saving[w] \in {"pruning", "saved"}}
Saved == {w \in Uploads : saving[w] = "saved"}

\* The recordings u's prune leaves of those whose own prune listed no later:
\* r ranks the uploads by their listings.
Left(r, u) ==
    {w \in Listed : /\ r[w] <= r[u] /\ Recording(w) \in dir
                    /\ \A i \in condemned[u] : i.name # Recording(w)}

\* Each prune leaves at most Limit recordings of those before it, whatever the
\* later ones do; and the saves that are done had a last listing.
Ranked(r, n) ==
    /\ r \in [Uploads -> Nat] /\ n \in Nat /\ \A w \in Uploads : r[w] <= n
    /\ \A u \in Listed : Cardinality(Left(r, u)) <= Limit
    /\ Saved # {} => \E m \in Saved : \A w \in Saved : r[w] <= r[m]

\* A directory over its limit may be so by many prunes' doing, and no single
\* state bounds it: what does is the order of the listings.
Pruned == \E r, n : Ranked(r, n)

\* What a prune leaves can be counted, and does not grow.
LEMMA LeftShrinks ==
    ASSUME StoreTypes, NEW r, NEW u, NEW smaller, smaller \subseteq Left(r, u),
           Cardinality(Left(r, u)) <= Limit
    PROVE  Cardinality(smaller) <= Limit
<1>1. Left(r, u) \subseteq Begun BY SMT DEF Left, Listed, Begun
<1>2. IsFiniteSet(Left(r, u)) /\ Cardinality(Left(r, u)) \in Nat
    BY <1>1, FS_Subset, FS_CardinalityType DEF StoreTypes
<1>3. Cardinality(smaller) \in Nat /\ Cardinality(smaller) <= Cardinality(Left(r, u))
    BY <1>2, FS_Subset, FS_CardinalityType
<1>4. QED BY <1>2, <1>3, RecordingAssumption, SMT

\* A step that lists nothing: no upload is newly listed, and one at most is done.
LEMMA PrunesGoOn ==
    ASSUME StoreTypes, NEW r, NEW n, Ranked(r, n), Listed' \subseteq Listed,
           \A v \in Listed' : Left(r, v)' \subseteq Left(r, v),
           NEW u \in Uploads, Saved' \in {Saved, Saved \union {u}}
    PROVE  Ranked(r, n)'
<1>1. \A v \in Listed' : Cardinality(Left(r, v)') <= Limit
    BY LeftShrinks DEF Ranked
<1>2. ASSUME Saved' # {} PROVE \E m \in Saved' : \A w \in Saved' : r[w] <= r[m]
    <2>1. \A w \in Uploads : r[w] \in Nat BY DEF Ranked
    <2>2. CASE Saved' = Saved BY <1>2, <2>2 DEF Ranked
    <2>3. CASE Saved' = Saved \union {u} /\ Saved = {} BY <2>1, <2>3
    <2>4. CASE Saved' = Saved \union {u} /\ Saved # {}
        <3>1. PICK m \in Saved : \A w \in Saved : r[w] <= r[m] BY <2>4 DEF Ranked
        <3>2. Saved \subseteq Uploads BY DEF Saved
        <3>3. CASE r[u] <= r[m] BY <2>4, <3>1, <3>3
        <3>4. CASE ~ r[u] <= r[m]
            <4>1. \A w \in Saved \union {u} : r[w] <= r[u] BY <2>1, <3>1, <3>2, <3>4
            <4>2. QED BY <2>4, <4>1
        <3>5. QED BY <3>3, <3>4
    <2>5. QED BY <2>2, <2>3, <2>4
<1>3. QED BY <1>1, <1>2 DEF Ranked

\* A prune leaves at most Limit of the files it lists.
LEMMA ListLeaves ==
    ASSUME StoreTypes, Owned, NEW u \in Uploads, List(u),
           NEW left \in SUBSET Uploads,
           \A w \in left : Recording(w) \in dir
                           /\ \A i \in condemned'[u] : i.name # Recording(w)
    PROVE  IsFiniteSet(left) /\ Cardinality(left) <= Limit
<1>1. condemned'[u] = IF Cardinality(dir) <= Limit THEN {} ELSE Surplus(Infos)
    BY DEF List, StoreTypes, Infos
<1>2. CASE Cardinality(dir) <= Limit
    <2> DEFINE of == [w \in left |-> Recording(w)]
    <2>1. of \in Injection(left, dir) BY NamesDiffer DEF Injection, IsInjective
    <2> HIDE DEF of
    <2>2. IsFiniteSet(left) /\ Cardinality(left) <= Cardinality(dir)
        BY <2>1, InfosAre, FS_Injection
    <2>3. Cardinality(left) \in Nat /\ Cardinality(dir) \in Nat
        BY <2>2, InfosAre, FS_CardinalityType
    <2>4. QED BY <1>2, <2>2, <2>3, RecordingAssumption, SMT
<1>3. CASE ~ Cardinality(dir) <= Limit
    <2> DEFINE kept == Infos \ Surplus(Infos)
               of == [w \in left |-> Info(Recording(w))]
    <2>1. \A f : Info(f).name = f BY DEF Info
    <2>2. ASSUME NEW w \in left PROVE Info(Recording(w)) \in kept
        <3>1. Info(Recording(w)) \in Infos BY DEF Infos
        <3>2. Info(Recording(w)) \notin Surplus(Infos) BY <1>1, <1>3, <2>1
        <3>3. QED BY <3>1, <3>2
    <2>3. ASSUME NEW v \in left, NEW w \in left, of[v] = of[w] PROVE v = w
        <3>1. Recording(v) = Recording(w) BY <2>1, <2>3
        <3>2. QED BY <3>1, NamesDiffer
    <2>4. of \in [left -> kept] BY <2>2
    <2>5. IsFiniteSet(kept) /\ Cardinality(kept) <= Limit BY InfosAre, NewestKept
    <2> HIDE DEF of, kept
    <2>6. of \in Injection(left, kept) BY <2>3, <2>4 DEF Injection, IsInjective
    <2>7. IsFiniteSet(left) /\ Cardinality(left) <= Cardinality(kept)
        BY <2>5, <2>6, FS_Injection
    <2>8. Cardinality(left) \in Nat /\ Cardinality(kept) \in Nat
        BY <2>5, <2>7, FS_CardinalityType
    <2>9. QED BY <2>5, <2>7, <2>8, RecordingAssumption, SMT
<1>4. QED BY <1>2, <1>3

\* A new listing ranks above all others.
LEMMA ListStep ==
    ASSUME StoreTypes, Owned, StoreTypes', Pruned, NEW u \in Uploads, List(u)
    PROVE  Pruned'
<1>1. PICK r, n : Ranked(r, n) BY DEF Pruned
<1> DEFINE s == [r EXCEPT ![u] = n + 1]
<1>2. /\ r \in [Uploads -> Nat] /\ n \in Nat /\ \A w \in Uploads : r[w] \in Nat /\ r[w] <= n
      /\ \A v \in Listed : Cardinality(Left(r, v)) <= Limit
    BY <1>1 DEF Ranked
<1>3. /\ s \in [Uploads -> Nat] /\ s[u] = n + 1
      /\ \A w \in Uploads \ {u} : s[w] = r[w]
    BY <1>2
<1> HIDE DEF s
<1>4. \A w \in Uploads : s[w] <= n + 1
    <2>1. \A w \in Uploads : s[w] = n + 1 \/ (s[w] \in Nat /\ s[w] <= n) BY <1>2, <1>3
    <2>2. \A x \in Nat : x <= n => x <= n + 1 BY <1>2
    <2>3. QED BY <1>2, <2>1, <2>2
<1>5. /\ saving[u] = "renamed" /\ saving'[u] \in {"pruning", "saved"} /\ dir' = dir
      /\ \A v \in Uploads \ {u} : saving'[v] = saving[v]
      /\ \A v \in Uploads \ {u} : condemned'[v] = condemned[v]
    <2>1. saving'[u] \in {"pruning", "saved"} /\ saving[u] = "renamed" /\ dir' = dir
        BY SMT DEF List, Saves, StoreTypes
    <2>2. Save(u) BY DEF Save
    <2>3. QED BY <2>1, <2>2, SaveDoes, OneSaves
<1>6. u \notin Listed /\ Listed' = Listed \union {u} BY <1>5 DEF Listed
<1>7. \A v \in Listed' : Cardinality(Left(s, v)') <= Limit
    <2>1. ASSUME NEW v \in Listed PROVE Left(s, v)' \subseteq Left(r, v)
        <3>1. v \in Uploads /\ v # u /\ s[v] = r[v] /\ condemned'[v] = condemned[v]
            BY <1>3, <1>5, <1>6 DEF Listed
        <3>2. ASSUME NEW w \in Left(s, v)' PROVE w \in Left(r, v)
            <4>1. /\ w \in Listed' /\ s[w] <= s[v] /\ Recording(w) \in dir
                  /\ \A i \in condemned[v] : i.name # Recording(w)
                BY <1>5, <3>1 DEF Left
            <4>2. w # u
                <5>1. r[v] \in Nat /\ r[v] <= n BY <1>2, <3>1
                <5>2. ~ n + 1 <= r[v] BY <1>2, <5>1
                <5>3. QED BY <1>3, <3>1, <4>1, <5>2
            <4>3. w \in Listed /\ s[w] = r[w] BY <1>3, <1>6, <4>1, <4>2 DEF Listed
            <4>4. QED BY <3>1, <4>1, <4>3 DEF Left
        <3>3. QED BY <3>2
    <2>2. Cardinality(Left(s, u)') <= Limit
        <3>1. Left(s, u)' \in SUBSET Uploads BY DEF Left, Listed
        <3>2. \A w \in Left(s, u)' : Recording(w) \in dir
                                     /\ \A i \in condemned'[u] : i.name # Recording(w)
            BY <1>5 DEF Left
        <3>3. QED BY <3>1, <3>2, ListLeaves
    <2>3. QED BY <1>2, <1>6, <2>1, <2>2, LeftShrinks
<1>8. Saved' # {} => \E m \in Saved' : \A w \in Saved' : s[w] <= s[m]
    <2>1. CASE saving'[u] = "saved"
        <3>1. u \in Saved' /\ Saved' \subseteq Uploads BY <2>1 DEF Saved
        <3>2. QED BY <1>3, <1>4, <3>1
    <2>2. CASE saving'[u] # "saved"
        <3>1. Saved' = Saved /\ u \notin Saved /\ Saved \subseteq Uploads
            BY <1>5, <2>2 DEF Saved
        <3>2. \A w \in Saved : s[w] = r[w] BY <1>3, <3>1
        <3>3. Saved # {} => \E m \in Saved : \A w \in Saved : r[w] <= r[m]
            BY <1>1 DEF Ranked
        <3>4. QED BY <3>1, <3>2, <3>3
    <2>3. QED BY <2>1, <2>2
<1>9. Ranked(s, n + 1)' BY <1>2, <1>3, <1>4, <1>7, <1>8 DEF Ranked
<1>10. QED BY <1>9 DEF Pruned

\* The steps that list nothing leave every prune's recordings or remove some.
LEMMA PrunedStep ==
    StoreTypes /\ Owned /\ StoreTypes' /\ Pruned /\ StoreNext => Pruned'
<1> SUFFICES ASSUME StoreTypes, Owned, StoreTypes', Pruned, StoreNext PROVE Pruned'
    OBVIOUS
<1>1. PICK r, n : Ranked(r, n) BY DEF Pruned
<1>2. ASSUME NEW u \in Uploads, NEW from, NEW to \in Steps, Saves(u, from, to),
             from \notin {"saved"}, to \notin {"pruning", "saved"},
             dir' \subseteq dir \union {Temp(u), Recording(u)},
             \A v \in Uploads \ {u} : condemned'[v] = condemned[v]
      PROVE  Pruned'
    <2>1. /\ saving[u] = from /\ saving'[u] = to
          /\ \A v \in Uploads \ {u} : saving'[v] = saving[v]
        BY <1>2, OneSaves
    <2>2. Listed' \subseteq Listed /\ u \notin Listed' /\ Saved' = Saved
        BY <1>2, <2>1 DEF Listed, Saved
    <2>3. ASSUME NEW v \in Listed', NEW w \in Left(r, v)' PROVE w \in Left(r, v)
        <3>1. v \in Uploads \ {u} /\ condemned'[v] = condemned[v]
            BY <1>2, <2>2 DEF Listed
        <3>2. /\ w \in Listed' /\ r[w] <= r[v] /\ Recording(w) \in dir'
              /\ \A i \in condemned[v] : i.name # Recording(w)
            BY <2>3, <3>1 DEF Left
        <3>3. w # u /\ w \in Listed BY <2>2, <3>2
        <3>4. Recording(w) \in dir BY <1>2, <3>2, <3>3, NamesDiffer
        <3>5. QED BY <3>2, <3>3, <3>4 DEF Left
    <2>4. Ranked(r, n)' BY <1>1, <2>2, <2>3, PrunesGoOn
    <2>5. QED BY <2>4 DEF Pruned
<1>3. ASSUME NEW u \in Uploads, RemoveOldest(u) PROVE Pruned'
    <2>1. PICK i \in condemned[u] : /\ dir' = dir \ {i.name}
                                    /\ condemned' = [condemned EXCEPT ![u] = @ \ {i}]
        BY <1>3 DEF RemoveOldest
    <2>2. /\ saving[u] = "pruning" /\ saving'[u] \in {"pruning", "saved"}
          /\ \A v \in Uploads \ {u} : saving'[v] = saving[v]
        <3>1. saving[u] = "pruning" /\ saving'[u] \in {"pruning", "saved"}
            BY <1>3, SMT DEF RemoveOldest, Saves, StoreTypes
        <3>2. Save(u) BY <1>3 DEF Save
        <3>3. QED BY <3>1, <3>2, SaveDoes, OneSaves
    <2>3. Listed' = Listed /\ Saved' \in {Saved, Saved \union {u}}
        BY <2>2 DEF Listed, Saved
    <2>4. ASSUME NEW v \in Listed', NEW w \in Left(r, v)' PROVE w \in Left(r, v)
        <3>1. /\ w \in Listed /\ r[w] <= r[v] /\ Recording(w) \in dir \ {i.name}
              /\ \A j \in condemned'[v] : j.name # Recording(w)
            BY <2>1, <2>3, <2>4 DEF Left
        <3>2. \A j \in condemned[v] : j = i \/ j \in condemned'[v]
            BY <2>1, <2>4 DEF StoreTypes, Listed
        <3>3. QED BY <3>1, <3>2 DEF Left
    <2>5. Ranked(r, n)' BY <1>1, <2>3, <2>4, PrunesGoOn
    <2>6. QED BY <2>5 DEF Pruned
<1>4. ASSUME NEW u \in Uploads, Save(u) PROVE Pruned'
    <2>1. CASE List(u) BY <2>1, ListStep
    <2>2. CASE RemoveOldest(u) BY <1>3, <2>2
    <2>3. CASE ~ List(u) /\ ~ RemoveOldest(u)
        <3>1. \E from : \E to \in Steps \ {"pruning", "saved"} :
                  Saves(u, from, to) /\ from \notin {"saved"}
            BY <1>4, <2>3
            DEF Save, Create, Write, SaveFails, Rename, RenameFindsNothing, PruneFails, Steps,
                Returned
        <3>2. QED BY <1>2, <1>4, <3>1, SaveDoes
    <2>4. QED BY <2>1, <2>2, <2>3
<1>5. ASSUME NEW u \in Uploads, Saves(u, "no", "begun"), UNCHANGED <<dir, times, condemned>>
      PROVE  Pruned'
    BY <1>2, <1>5 DEF Steps
<1>6. CASE StoreCrash
    <2>1. \A v \in Uploads : saving'[v] =
              IF saving[v] \in {"no", "saved", "failed", "unpruned"} THEN saving[v]
              ELSE "killed"
        BY <1>6 DEF StoreCrash, Returned
    <2>2. Listed' \subseteq Saved /\ Saved' = Saved /\ Saved \subseteq Listed
        BY <2>1 DEF Listed, Saved
    <2>3. \A v \in Saved : condemned[v] = {} BY DEF Saved, Owned, OwnedBy
    <2>4. ASSUME NEW v \in Listed' PROVE Left(r, v)' \subseteq Left(r, v)
        <3>1. dir' = dir BY <1>6 DEF StoreCrash
        <3>2. condemned[v] = {} BY <2>2, <2>3
        <3>3. QED BY <2>2, <3>1, <3>2 DEF Left
    <2>5. CASE Uploads = {}
        <3>1. Listed' = {} /\ Saved' = {} BY <2>5 DEF Listed, Saved
        <3>2. QED BY <1>1, <3>1 DEF Pruned, Ranked
    <2>6. CASE Uploads # {}
        <3>1. Ranked(r, n)' BY <1>1, <2>2, <2>4, <2>6, PrunesGoOn
        <3>2. QED BY <3>1 DEF Pruned
    <2>7. QED BY <2>5, <2>6
<1>7. CASE UNCHANGED storeVars
    <2>1. Listed' = Listed /\ Saved' = Saved /\ \A v : Left(r, v)' = Left(r, v)
        BY <1>7 DEF Listed, Saved, Left, storeVars
    <2>2. QED BY <1>1, <2>1 DEF Pruned, Ranked
<1>8. QED BY <1>4, <1>5, <1>6, <1>7 DEF StoreNext

\* Beyond the recordings that the last prune left, each file belongs to a save
\* that is not done.
LEMMA PrunedIsBounded ==
    ASSUME StoreTypes, Owned, Pruned
    PROVE  DirectoryBounded
<1> DEFINE Active == {u \in Uploads : saving[u] \notin {"no", "saved", "failed"}}
           found == {w \in Saved : Recording(w) \in dir}
           owner == [f \in dir |-> f.upload]
<1>1. PICK r, n : Ranked(r, n) BY DEF Pruned
<1>2. IsFiniteSet(Active) /\ IsFiniteSet(found)
    <2>1. Active \subseteq Begun BY DEF Begun
    <2>2. found \subseteq Begun BY DEF Begun, Saved
    <2>3. QED BY <2>1, <2>2, FS_Subset DEF StoreTypes
<1>3. Cardinality(found) <= Limit
    <2>1. CASE Saved = {}
        <3>1. found = {} BY <2>1
        <3>2. QED BY <3>1, FS_EmptySet, RecordingAssumption
    <2>2. CASE Saved # {}
        <3>1. PICK m \in Saved : \A w \in Saved : r[w] <= r[m] BY <1>1, <2>2 DEF Ranked
        <3>2. condemned[m] = {} /\ m \in Listed BY DEF Saved, Listed, Owned, OwnedBy
        <3>3. found \subseteq Left(r, m) BY <3>1, <3>2 DEF Left, Saved, Listed
        <3>4. Cardinality(Left(r, m)) <= Limit BY <1>1, <3>2 DEF Ranked
        <3> HIDE DEF found
        <3>5. QED BY <3>3, <3>4, LeftShrinks
    <2>3. QED BY <2>1, <2>2
<1>4. ASSUME NEW f \in dir PROVE f.upload \in Active \union found
    <2>1. f.upload \in Uploads /\ f \in {Temp(f.upload), Recording(f.upload)}
        BY NamesDiffer DEF StoreTypes
    <2>2. OwnedBy(f.upload) BY <2>1 DEF Owned
    <2>3. QED BY <2>1, <2>2 DEF OwnedBy, Renamed, Saved
<1>5. owner \in [dir -> Active \union found] BY <1>4
<1>6. \A f, g \in dir : owner[f] = owner[g] => f = g BY InfosAre
<1> HIDE DEF owner
<1>7. owner \in Injection(dir, Active \union found)
    BY <1>5, <1>6 DEF Injection, IsInjective
<1> HIDE DEF found, Active
<1>8. /\ IsFiniteSet(Active \union found)
      /\ Cardinality(Active \union found) =
             Cardinality(Active) + Cardinality(found) - Cardinality(Active \intersect found)
    BY <1>2, FS_Union
<1>9. IsFiniteSet(Active \intersect found)
    BY <1>2, FS_Subset
<1>10. Cardinality(dir) <= Cardinality(Active \union found) BY <1>7, <1>8, FS_Injection
<1>11. /\ Cardinality(Active) \in Nat /\ Cardinality(found) \in Nat
       /\ Cardinality(Active \intersect found) \in Nat /\ Cardinality(dir) \in Nat
    BY <1>2, <1>9, InfosAre, FS_CardinalityType
<1>12. Cardinality(dir) <= Limit + Cardinality(Active)
    BY <1>3, <1>8, <1>10, <1>11, RecordingAssumption, SMT
<1>13. QED BY <1>12 DEF Active, DirectoryBounded

\* What the prunes guarantee between steps.
PrunedInv == StoreTypes /\ Owned /\ Pruned

\* Nothing was listed to begin with.
LEMMA PrunedStart ==
    ASSUME Init
    PROVE  PrunedInv
<1>1. StoreTypes /\ Owned BY StoreStart DEF FoundInv
<1>2. \A w \in Uploads : saving[w] = "no" BY DEF Init, StoreInit
<1>3. Listed = {} /\ Saved = {} BY <1>2 DEF Listed, Saved
<1>4. Ranked([w \in Uploads |-> 0], 0) BY <1>3, SMT DEF Ranked
<1>5. QED BY <1>1, <1>4 DEF PrunedInv, Pruned

\* No step breaks it.
LEMMA PrunedKept ==
    ASSUME PrunedInv, [Next]_vars
    PROVE  PrunedInv'
<1>1. StoreNext BY StoreSteps
<1>2. StoreTypes' BY <1>1, StoreTypesStep DEF PrunedInv
<1>3. Owned' BY <1>1, OwnedStep DEF PrunedInv
<1>4. QED BY <1>1, <1>2, <1>3, PrunedStep DEF PrunedInv

\* The directory is over its limit by no more files than there are saves on
\* their way, killed or unpruned, in whatever order the prunes list and remove.
THEOREM DirectoryIsBounded == Spec => []DirectoryBounded
<1>1. PrunedInv => DirectoryBounded BY PrunedIsBounded DEF PrunedInv
<1>2. QED BY <1>1, PrunedStart, PrunedKept, PTL DEF Spec
=============================================================================
