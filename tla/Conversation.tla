---------------------------- MODULE Conversation ----------------------------
(***************************************************************************)
(* The turns of one session: a text is answered by the rules of            *)
(* DogActivity or by the chat model, and the turn is remembered in the     *)
(* SessionStore, whose History() the next answer reads                     *)
(* (internal/server/server.go, session.go).                                *)
(***************************************************************************)
EXTENDS DogActivity

CONSTANTS
    Texts,          \* utterances
    HistoryLimit    \* contextTurnLimit, 4

ASSUME ConversationAssumption == HistoryLimit \in Nat \ {0}

\* There are more stories than the session remembers turns.
ASSUME StoryAssumption == HistoryLimit < Variants["story"]

VARIABLES
    turns,          \* what History() returns
    asked,          \* the game question the child was asked last
    sinceSurprise   \* turns remembered since the last surprise, at most 3

vars == <<turns, asked, sinceSurprise>>

\* What the child heard is not what the session remembers: the question was
\* part of a reply that is not remembered, or of one that was aborted.
Mismatch == [game |-> "mismatch", round |-> 0]

-----------------------------------------------------------------------------
(* Server.reply(): outcomes with their source. *)

From(source, replies) ==
    {[source |-> source, reply |-> SpeechOnlyReply(a)] : a \in replies}

deterministicReply(u, history) ==
    CASE u.word \in Unsafe -> From("safety", {Said({"asks"})})
      [] u.word \in NeedsVisualGrounding -> From("grounding", {Said({"asks"})})
      [] u.word \in LooksLikeToddlerBabble
           -> From("input", IF PlanActivity(u) = {} THEN {Said({})} ELSE PlanActivity(u))
      [] ClarificationReply(u, history) # {}
           -> From("clarification", ClarificationReply(u, history))
      [] OTHER -> From("activity", PlanActivityWithHistory(u, history))

\* The model chooses an activity, is uncertain, chats, or fails.
ModelReply(u, history) ==
    From("activity", UNION {RoutedActivity(id, history) : id \in Routable})
    \union From("input", {Said({})})
    \union From("chat", {Said(cues) : cues \in ChatCues})
    \union From("fallback", MockReply(u))

reply(u, history) ==
    LET fixed == deterministicReply(u, history)
    IN  IF fixed # {} THEN fixed
        ELSE ModelReply(u, history)
             \union (IF UseSurprise THEN From("activity", PlanSceneSurprise(u, history)) ELSE {})

shouldRememberConversation(source) == source # "input"

-----------------------------------------------------------------------------
(* The session. *)

\* What later turns look for in the child's text.
Noted(u) ==
    CASE u.word \in {"story", "laggyStory"} -> "story"
      [] u.word = "reject" -> "reject"
      [] OTHER -> "other"

TurnOf(u, a) ==
    [said |-> Noted(u), act |-> a.act, variant |-> a.variant,
     question |-> a.question, cues |-> a.cues]

\* As a slip would do it: one turn too many.
LastOf_OneMore(s, n) == SubSeq(s, IF Len(s) > n THEN Len(s) - n ELSE 1, Len(s))

LastOf(s, n) == SubSeq(s, IF Len(s) > n THEN Len(s) - n + 1 ELSE 1, Len(s))

Init ==
    /\ turns = <<>>
    /\ asked = NoQuestion
    /\ sinceSurprise = 3

Append_(u, a) ==
    /\ turns' = LastOf(Append(turns, TurnOf(u, a)), HistoryLimit)
    /\ sinceSurprise' = IF a.act = Surprise THEN 0
                        ELSE IF sinceSurprise < 3 THEN sinceSurprise + 1 ELSE 3

Asks(a, agreed) ==
    asked' = IF a.question = NoQuestion THEN asked
             ELSE IF agreed THEN a.question ELSE Mismatch

\* A reply that is aborted, and perhaps not heard to its end, is remembered
\* like any other.
Turn(u) == \E o \in reply(u, turns), aborted \in BOOLEAN :
    /\ aborted => o.reply.question # NoQuestion
    /\ Asks(o.reply, shouldRememberConversation(o.source) /\ ~aborted)
    /\ IF shouldRememberConversation(o.source) THEN Append_(u, o.reply)
       ELSE UNCHANGED <<turns, sinceSurprise>>

\* 90 seconds pass since the older of the turns.
SceneExpires == \E k \in 2 .. Len(turns) + 1 :
    /\ turns' = SubSeq(turns, k, Len(turns))
    /\ UNCHANGED <<asked, sinceSurprise>>

\* The session is the oldest of maxSessions, or the server restarts.
Forget ==
    /\ turns # <<>>
    /\ turns' = <<>>
    /\ UNCHANGED <<asked, sinceSurprise>>

Next == (\E u \in Texts : Turn(u)) \/ SceneExpires \/ Forget

Spec == Init /\ [][Next]_vars

-----------------------------------------------------------------------------
QuestionType == {NoQuestion} \union [game : Games, round : Nat]

TurnType ==
    [said : {"story", "reject", "other"},
     act : Activities \union {NoActivity, Surprise}, variant : Int,
     question : QuestionType, cues : SUBSET Cues]

\* The session's turns, and what its games and surprises rest on.
TypeOK ==
    /\ turns \in Seq(TurnType) /\ Len(turns) <= HistoryLimit
    /\ asked \in QuestionType \union {Mismatch}
    /\ sinceSurprise \in 0 .. 3

Answers(u, q) ==
    IF q.game = "animal_guess" THEN NamesAnimal(u, q.round) ELSE NamesNumber(u, q.round)

\* An answer is judged against the game question the child was asked last
\* (continueAnimalGuess(), continueCounting()), whatever was said, forgotten or
\* repeated in between -- unless the session remembers another question than the
\* child heard.
JudgedRound == \A u \in Texts : \A o \in reply(u, turns) :
    o.reply.verdict # "none" /\ asked # Mismatch =>
        /\ asked.game = o.reply.act
        /\ o.reply.verdict = "right" <=> Answers(u, asked)

Stops == {u \in Texts : u.word \in {"quiet", "farewell", "bye", "hush"}}

\* The text names an animal, and what it may go on with looks for that animal
\* anywhere in a short text, before the text itself is looked at: any in the
\* guessing game and in a spell, the fish on a journey, the rabbit there and
\* in a shop.
AnimalExpected(u, history) == SaysAnimal(u) /\ history # <<>> /\
    LET play == Last(history).act
    IN  \/ play \in {"animal_guess", "magic"}
        \/ play = "adventure" /\ u.n \in {0, 6}
        \/ play = "pretend_play" /\ u.n = 0

\* A child who says stop or goodbye is heard in every game and after every
\* offer (PlanActivityWithHistory()), unless the stop names an animal, such as
\* the dog it is meant for ("小狗再见"), and the last turn remembered is of a
\* play in which that may be an answer (continueRecentActivity()).
StopAlwaysHeard == \A u \in Stops : \A o \in reply(u, turns) :
    o.reply.act = Wanted(u) \/ AnimalExpected(u, turns)

\* No story is told twice in what the session still remembers, whichever way
\* the story was reached (randomReplyExcluding()).
StoriesDiffer == \A u \in Texts : \A o \in reply(u, turns) : o.reply.act = "story" =>
    \A i \in DOMAIN turns : turns[i].act = "story" => o.reply.variant # turns[i].variant

\* Between two surprises there are at least three turns, though the history
\* they are counted in expires (PlanSceneSurprise()).
SurprisesSpaced == sinceSurprise < 3 =>
    \A u \in Texts : \A o \in reply(u, turns) : o.reply.act # Surprise
=============================================================================
