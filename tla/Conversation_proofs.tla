------------------------ MODULE Conversation_proofs ------------------------
(***************************************************************************)
(* Proofs about Conversation, for any number of rounds, replies, texts and *)
(* remembered turns.                                                       *)
(***************************************************************************)
EXTENDS Conversation, TLAPS, FiniteSetTheorems, SequenceTheorems

Verdicts == {"none", "right", "wrong"}

\* A reply to a game names the round it asks about.
AsksItsGame(a) == a.act \in Games => a.question.game = a.act

ReplyType == [act : Activities \union {NoActivity, Surprise}, variant : Int,
              question : QuestionType, cues : SUBSET Cues, verdict : Verdicts]
PlainReply == {a \in ReplyType : a.act # Surprise /\ AsksItsGame(a)}
Unjudged == {a \in PlainReply : a.verdict = "none"}
GoodTurn == {t \in TurnType : AsksItsGame(t)}

-----------------------------------------------------------------------------
(* Every operator that answers returns such replies. *)

\* That there is no question is a value of its type.
LEMMA NoQuestionType == NoQuestion \in QuestionType
  BY DEF NoQuestion, QuestionType

\* A question keeps its game and round, and is one.
LEMMA QuestionsTyped ==
  ASSUME NEW game \in Games, NEW r \in Nat
  PROVE  /\ Question(game, r) \in QuestionType
         /\ Question(game, r).game = game /\ Question(game, r).round = r
         /\ Question(game, r) # NoQuestion
  BY DEF Question, QuestionType, Games, NoQuestion

\* Every game has rounds.
LEMMA RoundsPositive == \A g \in Games : Rounds[g] \in Nat /\ Rounds[g] > 0
  BY DogAssumption DEF Games, Rounds

\* A reply that asks its own game's question, if any, judges nothing.
LEMMA ReplyUnjudged ==
  ASSUME NEW id \in Activities \union {NoActivity}, NEW v \in Int,
         NEW q \in QuestionType, NEW cues \in SUBSET Cues,
         id \in Games => q.game = id
  PROVE  /\ Reply(id, v, q, cues) \in Unjudged
         /\ Reply(id, v, q, cues).act = id
         /\ Reply(id, v, q, cues).question = q
<1> DEFINE more == IF q = NoQuestion THEN {} ELSE {"asks"}
<1>1. cues \union more \in SUBSET Cues
  BY DEF Cues
<1>2. Reply(id, v, q, cues) =
        [act |-> id, variant |-> v, question |-> q, cues |-> cues \union more,
         verdict |-> "none"]
  BY DEF Reply
<1>3. id # Surprise
  BY DEF Activities, NoActivity, Surprise
<1> HIDE DEF more
<1> QED
  BY <1>1, <1>2, <1>3 DEF Unjudged, PlainReply, ReplyType, AsksItsGame, Verdicts

\* Fixed activities judge nothing.
LEMMA FixedUnjudged ==
  ASSUME NEW id \in Activities, NEW q \in QuestionType, NEW cues \in SUBSET Cues,
         id \in Games => q.game = id
  PROVE  /\ fixedActivity(id, q, cues) \subseteq Unjudged
         /\ fixedActivity(id, q, cues) # {}
         /\ \A a \in fixedActivity(id, q, cues) : a.act = id /\ a.question = q
  BY ReplyUnjudged DEF fixedActivity, Fixed

\* A variant's cues are cues.
LEMMA VariantCuesTyped ==
  ASSUME NEW id, NEW v PROVE VariantCues(id, v) \in SUBSET Cues
  BY DEF VariantCues, Cues

\* An entry of the activity table judges nothing and keeps its variant.
LEMMA TableUnjudged ==
  ASSUME NEW id \in Activities, NEW v \in Nat
  PROVE  /\ TableReply(id, v) \in Unjudged
         /\ TableReply(id, v).act = id /\ TableReply(id, v).variant = v
<1> DEFINE q == IF id \in Games THEN Question(id, v) ELSE NoQuestion
<1>1. q \in QuestionType /\ (id \in Games => q.game = id)
  BY QuestionsTyped, NoQuestionType
<1>2. TableReply(id, v) = Reply(id, v, q, VariantCues(id, v))
  BY DEF TableReply
<1> HIDE DEF q
<1>3. Reply(id, v, q, VariantCues(id, v)).variant = v
  BY DEF Reply
<1> QED
  BY <1>1, <1>2, <1>3, VariantCuesTyped, ReplyUnjudged

\* Nor does one that byID() chooses; there is always one.
LEMMA ByIDUnjudged ==
  ASSUME NEW id \in Activities
  PROVE  /\ byID(id) \subseteq Unjudged /\ byID(id) # {}
         /\ \A a \in byID(id) : a.act = id
<1>1. Variants[id] \in Nat /\ Variants[id] > 0
  BY DogAssumption
<1>2. 0 \in 0 .. Variants[id] - 1 /\ \A v \in 0 .. Variants[id] - 1 : v \in Nat
  BY <1>1
<1> QED
  BY <1>2, TableUnjudged DEF byID

\* activityWithHistory() chooses a variant that the history does not exclude.
LEMMA WithHistoryUnjudged ==
  ASSUME NEW id \in Activities, NEW history
  PROVE  /\ activityWithHistory(id, history) \subseteq Unjudged
         /\ \A a \in activityWithHistory(id, history) :
              a.act = id /\ a.variant \in randomReplyExcluding(id, history)
<1>1. Variants[id] \in Nat
  BY DogAssumption
<1>2. randomReplyExcluding(id, history) \subseteq 0 .. Variants[id] - 1
  BY DEF randomReplyExcluding
<1>3. \A v \in randomReplyExcluding(id, history) : v \in Nat
  BY <1>1, <1>2
<1> QED
  BY <1>3, TableUnjudged DEF activityWithHistory

\* A text wants one activity or none.
LEMMA WantedTyped == ASSUME NEW u PROVE Wanted(u) \in Activities \union {NoActivity}
  BY DEF Wanted, Activities

\* PlanActivity() judges no answer.
LEMMA PlansUnjudged ==
  ASSUME NEW u
  PROVE  PlanActivity(u) \subseteq Unjudged
<1>1. babbleActivity \subseteq Unjudged
  BY FixedUnjudged, NoQuestionType DEF babbleActivity, Activities, Games
<1>2. Wanted(u) # NoActivity => byID(Wanted(u)) \subseteq Unjudged
  BY WantedTyped, ByIDUnjudged
<1> QED
  BY <1>1, <1>2 DEF PlanActivity

-----------------------------------------------------------------------------
(* Answers within a game. *)

\* The next round is counted within the game's.
LEMMA NextQuestionTyped ==
  ASSUME NEW game \in Games, NEW r \in Nat
  PROVE  (r + 1) % Rounds[game] \in Nat
  BY RoundsPositive

\* A judged answer is followed by a question of the same game.
LEMMA JudgedPlain ==
  ASSUME NEW game \in Games, NEW r \in Nat, NEW verdict \in Verdicts
  PROVE  /\ Judged(game, r, verdict) \subseteq PlainReply
         /\ \A a \in Judged(game, r, verdict) : a.act = game /\ a.verdict = verdict
<1> DEFINE q == Question(game, (r + 1) % Rounds[game])
<1>1. q \in QuestionType /\ q.game = game
  BY NextQuestionTyped, QuestionsTyped
<1>2. {} \in SUBSET Cues /\ game \in Activities
  BY DEF Games, Activities
<1> HIDE DEF q
<1>3. /\ fixedActivity(game, q, {}) \subseteq Unjudged
      /\ \A a \in fixedActivity(game, q, {}) : a.act = game
  BY <1>1, <1>2, FixedUnjudged
<1>4. Judged(game, r, verdict) = {[a EXCEPT !.verdict = verdict] : a \in fixedActivity(game, q, {})}
  BY DEF Judged, q
<1>5. ASSUME NEW a \in Unjudged
      PROVE  /\ [a EXCEPT !.verdict = verdict] \in PlainReply
             /\ [a EXCEPT !.verdict = verdict].act = a.act
             /\ [a EXCEPT !.verdict = verdict].verdict = verdict
  BY <1>5 DEF Unjudged, PlainReply, ReplyType, AsksItsGame
<1> QED
  BY <1>3, <1>4, <1>5

\* A question that is put again judges nothing.
LEMMA AskedAgainUnjudged ==
  ASSUME NEW game \in Games, NEW r \in Nat
  PROVE  /\ AskedAgain(game, r) \subseteq Unjudged
         /\ \A a \in AskedAgain(game, r) : a.act = game
<1>1. {} \in SUBSET Cues /\ game \in Activities
  BY DEF Games, Activities
<1> QED
  BY <1>1, QuestionsTyped, FixedUnjudged DEF AskedAgain

\* A guess is right exactly if it names the round's animal.
LEMMA GuessPlain ==
  ASSUME NEW u, NEW r \in Nat, NEW a \in continueAnimalGuess(u, r)
  PROVE  /\ a \in PlainReply
         /\ a.act = "animal_guess"
         /\ a.verdict # "none" => (a.verdict = "right" <=> NamesAnimal(u, r))
<1>1. "animal_guess" \in Games /\ "right" \in Verdicts /\ "wrong" \in Verdicts
  BY DEF Games, Verdicts
<1>2. CASE NamesAnimal(u, r)
  <2>1. a \in Judged("animal_guess", r, "right")
    BY <1>2 DEF continueAnimalGuess
  <2> QED
    BY <1>1, <1>2, <2>1, JudgedPlain
<1>3. CASE ~NamesAnimal(u, r) /\ SaysAnimal(u)
  <2>1. a \in Judged("animal_guess", r, "wrong")
    BY <1>3 DEF continueAnimalGuess
  <2>2. a \in PlainReply /\ a.act = "animal_guess" /\ a.verdict = "wrong"
    BY <1>1, <2>1, JudgedPlain
  <2> QED
    BY <1>3, <2>2
<1>4. CASE ~NamesAnimal(u, r) /\ ~SaysAnimal(u)
  <2>1. a \in AskedAgain("animal_guess", r)
    BY <1>4 DEF continueAnimalGuess
  <2> QED
    BY <1>1, <2>1, AskedAgainUnjudged DEF Unjudged
<1> QED
  BY <1>2, <1>3, <1>4

\* A count is right exactly if it names the round's number.
LEMMA CountPlain ==
  ASSUME NEW u, NEW r \in Nat, NEW a \in continueCounting(u, r)
  PROVE  /\ a \in PlainReply
         /\ a.act = "counting"
         /\ a.verdict # "none" => (a.verdict = "right" <=> NamesNumber(u, r))
<1>1. "counting" \in Games /\ "right" \in Verdicts /\ "wrong" \in Verdicts
  BY DEF Games, Verdicts
<1>2. CASE NamesNumber(u, r)
  <2>1. a \in Judged("counting", r, "right")
    BY <1>2 DEF continueCounting
  <2> QED
    BY <1>1, <1>2, <2>1, JudgedPlain
<1>3. CASE ~NamesNumber(u, r) /\ u.word = "number"
  <2>1. a \in Judged("counting", r, "wrong")
    BY <1>3 DEF continueCounting
  <2>2. a \in PlainReply /\ a.act = "counting" /\ a.verdict = "wrong"
    BY <1>1, <2>1, JudgedPlain
  <2> QED
    BY <1>3, <2>2
<1>4. CASE ~NamesNumber(u, r) /\ u.word # "number"
  <2>1. a \in AskedAgain("counting", r)
    BY <1>4 DEF continueCounting
  <2> QED
    BY <1>1, <2>1, AskedAgainUnjudged DEF Unjudged
<1> QED
  BY <1>2, <1>3, <1>4

\* What an answer is judged against: the round the last turn asked about.
JudgedByLast(u, history, a) ==
    a.verdict # "none" =>
        /\ history # <<>>
        /\ Last(history).act \in Games /\ a.act = Last(history).act
        /\ a.verdict = "right" <=> Answers(u, Last(history).question)

\* The last turn is one of the turns.
LEMMA LastTyped ==
  ASSUME NEW T, NEW history \in Seq(T), history # <<>>
  PROVE  Last(history) \in T /\ Last(history) = history[Len(history)]
  BY DEF Last

\* What continues a game judges by the question of the last turn.
LEMMA ContinuedPlain ==
  ASSUME NEW u, NEW history \in Seq(GoodTurn),
         NEW a \in continueRecentActivity(u, history)
  PROVE  /\ a \in PlainReply /\ JudgedByLast(u, history, a)
         /\ a.act \in Games \union DOMAIN ShortChoices
<1> DEFINE last == Last(history)
<1>1. history # <<>>
  BY DEF continueRecentActivity
<1>2. last \in GoodTurn
  BY <1>1, LastTyped
<1>3. last.question.round \in Nat
  BY <1>2 DEF GoodTurn, TurnType, QuestionType, NoQuestion
<1>4. last.act \in Games => last.question.game = last.act
  BY <1>2 DEF GoodTurn, AsksItsGame
<1> HIDE DEF last
<1>5. CASE last.act = "animal_guess"
  <2>1. a \in continueAnimalGuess(u, last.question.round)
    BY <1>1, <1>5 DEF continueRecentActivity, last
  <2>2. last.question.game = "animal_guess"
    BY <1>4, <1>5 DEF Games
  <2>3. Answers(u, last.question) <=> NamesAnimal(u, last.question.round)
    BY <2>2 DEF Answers
  <2> QED
    BY <1>1, <1>3, <1>5, <2>1, <2>3, GuessPlain DEF JudgedByLast, Games, last
<1>6. CASE last.act = "counting"
  <2>1. a \in continueCounting(u, last.question.round)
    BY <1>1, <1>6 DEF continueRecentActivity, last
  <2>2. last.question.game = "counting"
    BY <1>4, <1>6 DEF Games
  <2>3. Answers(u, last.question) <=> NamesNumber(u, last.question.round)
    BY <2>2 DEF Answers
  <2> QED
    BY <1>1, <1>3, <1>6, <2>1, <2>3, CountPlain DEF JudgedByLast, Games, last
<1>7. CASE last.act \notin Games
  <2>1. last.act \in DOMAIN ShortChoices /\ a \in fixedActivity(last.act, NoQuestion, {})
    BY <1>1, <1>7 DEF continueRecentActivity, last, Games
  <2>2. last.act \in Activities /\ {} \in SUBSET Cues
    BY <2>1 DEF ShortChoices, Activities
  <2>3. a \in Unjudged /\ a.act = last.act
    BY <1>7, <2>1, <2>2, FixedUnjudged, NoQuestionType
  <2> QED
    BY <2>1, <2>3 DEF Unjudged, JudgedByLast
<1> QED
  BY <1>5, <1>6, <1>7 DEF Games

-----------------------------------------------------------------------------
(* The rules of a turn. *)

\* A story is one that the session does not remember, if there is one.
StoryExcluded(a, history) ==
    a.act = "story" => a.variant \in randomReplyExcluding("story", history)

\* What a text plans judges nothing, and tells no story again.
LEMMA PlannedUnjudged ==
  ASSUME NEW u, NEW history
  PROVE  /\ PlannedWithHistory(u, history) \subseteq Unjudged
         /\ \A a \in PlannedWithHistory(u, history) : StoryExcluded(a, history)
<1>1. /\ fixedActivity("clap", NoQuestion, {"asks"}) \subseteq Unjudged
      /\ \A a \in fixedActivity("clap", NoQuestion, {"asks"}) : a.act = "clap"
  BY FixedUnjudged, NoQuestionType DEF Activities, Games, Cues
<1>2. /\ activityWithHistory("guide", history) \subseteq Unjudged
      /\ activityWithHistory("story", history) \subseteq Unjudged
      /\ \A a \in activityWithHistory("guide", history) : a.act = "guide"
      /\ \A a \in activityWithHistory("story", history) : StoryExcluded(a, history)
  BY WithHistoryUnjudged DEF Activities, StoryExcluded
<1> QED
  BY <1>1, <1>2, PlansUnjudged DEF PlannedWithHistory, StoryExcluded

\* Nor does an offer that is taken up.
LEMMA TakenUpUnjudged ==
  ASSUME NEW u, NEW history
  PROVE  /\ TakenUp(u, history) \subseteq Unjudged
         /\ \A a \in TakenUp(u, history) : StoryExcluded(a, history)
<1>1. /\ fixedActivity("animal_guess", Question("animal_guess", 0), {}) \subseteq Unjudged
      /\ \A a \in fixedActivity("animal_guess", Question("animal_guess", 0), {}) :
           a.act = "animal_guess"
  <2>1. Question("animal_guess", 0) \in QuestionType
        /\ Question("animal_guess", 0).game = "animal_guess"
    BY QuestionsTyped DEF Games
  <2> QED
    BY <2>1, FixedUnjudged DEF Activities
<1>2. /\ fixedActivity("chat", NoQuestion, {}) \subseteq Unjudged
      /\ \A a \in fixedActivity("chat", NoQuestion, {}) : a.act = "chat"
  BY FixedUnjudged, NoQuestionType DEF Activities, Games
<1>3. /\ byID("nursery_rhyme") \subseteq Unjudged
      /\ byID("counting") \subseteq Unjudged
      /\ byID("animal_guess") \subseteq Unjudged
      /\ \A a \in byID("nursery_rhyme") \union byID("counting") \union byID("animal_guess") :
           a.act # "story"
  BY ByIDUnjudged DEF Activities
<1>4. /\ activityWithHistory("story", history) \subseteq Unjudged
      /\ \A a \in activityWithHistory("story", history) : StoryExcluded(a, history)
  BY WithHistoryUnjudged DEF Activities, StoryExcluded
<1> QED
  BY <1>1, <1>2, <1>3, <1>4 DEF TakenUp, StoryExcluded

\* All activities with a history judge by its last question.
LEMMA ActivitiesPlain ==
  ASSUME NEW u, NEW history \in Seq(GoodTurn),
         NEW a \in PlanActivityWithHistory(u, history)
  PROVE  /\ a \in PlainReply /\ JudgedByLast(u, history, a)
         /\ StoryExcluded(a, history)
<1>1. \/ a \in TakenUp(u, history)
      \/ a \in continueRecentActivity(u, history)
      \/ a \in PlannedWithHistory(u, history)
      \/ a \in activityWithHistory("story", history)
  BY DEF PlanActivityWithHistory
<1>2. /\ activityWithHistory("story", history) \subseteq Unjudged
      /\ \A b \in activityWithHistory("story", history) : StoryExcluded(b, history)
  BY WithHistoryUnjudged DEF Activities, StoryExcluded
<1>3. a \in Unjudged => a \in PlainReply /\ JudgedByLast(u, history, a)
  BY DEF Unjudged, JudgedByLast
<1>4. a.act \in Games \union DOMAIN ShortChoices => StoryExcluded(a, history)
  BY DEF Games, ShortChoices, StoryExcluded
<1> QED
  BY <1>1, <1>2, <1>3, <1>4, TakenUpUnjudged, PlannedUnjudged, ContinuedPlain

\* Plain talk is no activity.
LEMMA SaidUnjudged ==
  ASSUME NEW cues \in SUBSET Cues
  PROVE  Said(cues) \in Unjudged /\ Said(cues).act = NoActivity
<1> DEFINE id == NoActivity
<1>1. id \notin Games /\ id \in Activities \union {NoActivity} /\ Fixed \in Int
  BY DEF NoActivity, Games, Fixed
<1> HIDE DEF id
<1>2. /\ Reply(id, Fixed, NoQuestion, cues) \in Unjudged
      /\ Reply(id, Fixed, NoQuestion, cues).act = id
  BY <1>1, ReplyUnjudged, NoQuestionType
<1> QED
  BY <1>2 DEF Said, id

\* A clarification is no activity.
LEMMA ClarificationsUnjudged ==
  ASSUME NEW u, NEW history \in Seq(GoodTurn), NEW a \in ClarificationReply(u, history)
  PROVE  a \in Unjudged /\ a.act = NoActivity
<1> DEFINE n == Len(history)
           i == IF "repeats" \in history[n].cues /\ n > 1 THEN n - 1 ELSE n
<1>1. u.word = "repair" /\ history # <<>>
  BY DEF ClarificationReply
<1>2. i \in 1 .. Len(history)
  BY <1>1
<1>3. history[i].cues \in SUBSET Cues
  BY <1>2 DEF GoodTurn, TurnType
<1>4. a \in {Said({"repeats"})} \union {Said(kept \union {"repeats"}) : kept \in SUBSET history[i].cues}
  BY <1>1 DEF ClarificationReply
<1> HIDE DEF i
<1>5. \E cues \in SUBSET Cues : a = Said(cues)
  <2>1. {"repeats"} \in SUBSET Cues
    BY DEF Cues
  <2> QED
    BY <1>3, <1>4, <2>1
<1> QED
  BY <1>5, SaidUnjudged

\* Nor is what is said without a model.
LEMMA MockUnjudged ==
  ASSUME NEW u, NEW a \in MockReply(u)
  PROVE  a \in Unjudged /\ a.act = NoActivity
<1>1. CASE PlanActivity(u) = {}
  BY <1>1, SaidUnjudged DEF MockReply
<1>2. CASE PlanActivity(u) # {}
  <2>1. PICK b \in Unjudged : a = [b EXCEPT !.act = NoActivity, !.variant = Fixed]
    BY <1>2, PlansUnjudged DEF MockReply
  <2>2. NoActivity \notin Games /\ NoActivity # Surprise /\ Fixed \in Int
    BY DEF NoActivity, Games, Surprise, Fixed
  <2> QED
    BY <2>1, <2>2 DEF Unjudged, PlainReply, ReplyType, AsksItsGame
<1> QED
  BY <1>1, <1>2

\* What is only spoken loses its actions, not its meaning.
LEMMA SpeechOnly ==
  ASSUME NEW a \in ReplyType
  PROVE  /\ SpeechOnlyReply(a) \in ReplyType
         /\ SpeechOnlyReply(a).act = a.act
         /\ SpeechOnlyReply(a).question = a.question
         /\ SpeechOnlyReply(a).verdict = a.verdict
         /\ a.act = "story" => SpeechOnlyReply(a).variant = a.variant
<1>1. CASE <<a.act, a.variant>> \in {<<"comfort", 4>>, <<"clap", 1>>, <<"clap", 5>>}
  <2>1. SpeechOnlyReply(a) = [a EXCEPT !.variant = Fixed]
    BY <1>1 DEF SpeechOnlyReply
  <2>2. a.act # "story" /\ Fixed \in Int
    BY <1>1 DEF Fixed
  <2> QED
    BY <2>1, <2>2 DEF ReplyType
<1>2. CASE <<a.act, a.variant>> \notin {<<"comfort", 4>>, <<"clap", 1>>, <<"clap", 5>>}
  BY <1>2 DEF SpeechOnlyReply
<1> QED
  BY <1>1, <1>2

-----------------------------------------------------------------------------
(* Server.reply() *)

\* What a turn that is no surprise may be answered with.
Sound(u, history, a) ==
    /\ a \in PlainReply /\ JudgedByLast(u, history, a) /\ StoryExcluded(a, history)

\* A reply that judges nothing and tells no story breaks no promise.
LEMMA UnjudgedSound ==
  ASSUME NEW u, NEW history, NEW a \in Unjudged, a.act # "story"
  PROVE  Sound(u, history, a)
  BY DEF Sound, Unjudged, JudgedByLast, StoryExcluded

\* An outcome speaks a reply that was chosen.
LEMMA FromReplies ==
  ASSUME NEW source, NEW replies, NEW o \in From(source, replies)
  PROVE  \E a \in replies : o.source = source /\ o.reply = SpeechOnlyReply(a)
  BY DEF From

\* Babble starts no story.
LEMMA BabblePlans ==
  ASSUME NEW u, u.word \in LooksLikeToddlerBabble, NEW a \in PlanActivity(u)
  PROVE  a \in Unjudged /\ a.act # "story"
<1>1. a \in Unjudged
  BY PlansUnjudged
<1>2. Wanted(u) \in {"counting", NoActivity}
  BY DEF Wanted, LooksLikeToddlerBabble, Activities, Animal
<1>3. CASE Wanted(u) = "counting"
  <2>1. Wanted(u) # NoActivity
    BY <1>3 DEF NoActivity
  <2>2. a \in byID(Wanted(u))
    BY <2>1 DEF PlanActivity
  <2> QED
    BY <1>1, <1>3, <2>2, ByIDUnjudged DEF Activities
<1>4. CASE Wanted(u) = NoActivity
  <2>1. a \in babbleActivity
    BY <1>4 DEF PlanActivity
  <2>2. a.act = "clap"
    BY <2>1, FixedUnjudged, NoQuestionType DEF babbleActivity, Activities, Games
  <2> QED
    BY <1>1, <2>2
<1> QED
  BY <1>2, <1>3, <1>4

\* Replies without the model keep the promises.
LEMMA DeterministicSound ==
  ASSUME NEW u, NEW history \in Seq(GoodTurn), NEW o \in deterministicReply(u, history)
  PROVE  \E a : Sound(u, history, a) /\ o.reply = SpeechOnlyReply(a)
<1>1. \E a \in {Said({"asks"}), Said({})} \union ClarificationReply(u, history)
              \union PlanActivityWithHistory(u, history)
              \union (IF u.word \in LooksLikeToddlerBabble THEN PlanActivity(u) ELSE {}) :
        o.reply = SpeechOnlyReply(a)
  <2>1. \/ o \in From("safety", {Said({"asks"})})
        \/ o \in From("grounding", {Said({"asks"})})
        \/ o \in From("input", {Said({})})
        \/ u.word \in LooksLikeToddlerBabble /\ o \in From("input", PlanActivity(u))
        \/ o \in From("clarification", ClarificationReply(u, history))
        \/ o \in From("activity", PlanActivityWithHistory(u, history))
    BY DEF deterministicReply
  <2> QED
    BY <2>1, FromReplies
<1>2. PICK a \in {Said({"asks"}), Said({})} \union ClarificationReply(u, history)
              \union PlanActivityWithHistory(u, history)
              \union (IF u.word \in LooksLikeToddlerBabble THEN PlanActivity(u) ELSE {}) :
        o.reply = SpeechOnlyReply(a)
  BY <1>1
<1>3. CASE a \in {Said({"asks"}), Said({})} \union ClarificationReply(u, history)
  <2>1. {"asks"} \in SUBSET Cues /\ {} \in SUBSET Cues /\ NoActivity # "story"
    BY DEF Cues, NoActivity
  <2>2. a \in Unjudged /\ a.act # "story"
    BY <1>3, <2>1, SaidUnjudged, ClarificationsUnjudged
  <2> QED
    BY <1>2, <2>2, UnjudgedSound
<1>4. CASE a \in PlanActivityWithHistory(u, history)
  BY <1>2, <1>4, ActivitiesPlain DEF Sound
<1>5. CASE u.word \in LooksLikeToddlerBabble /\ a \in PlanActivity(u)
  BY <1>2, <1>5, BabblePlans, UnjudgedSound
<1> QED
  BY <1>2, <1>3, <1>4, <1>5

\* Replies of the model, and those in its place, keep them.
LEMMA ModelSound ==
  ASSUME NEW u, NEW history \in Seq(GoodTurn), NEW o \in ModelReply(u, history)
  PROVE  \E a : Sound(u, history, a) /\ o.reply = SpeechOnlyReply(a)
<1> DEFINE Routed == UNION {RoutedActivity(id, history) : id \in Routable}
           Chats == {Said(cues) : cues \in ChatCues}
<1>1. PICK a \in Routed \union {Said({})} \union Chats \union MockReply(u) :
        o.reply = SpeechOnlyReply(a)
  BY FromReplies DEF ModelReply
<1>2. CASE a \in Routed
  <2>1. PICK id \in isRoutableActivityID : a \in activityWithHistory(id, history)
    BY <1>2 DEF RoutedActivity
  <2>2. a \in Unjudged /\ a.act = id /\ a.variant \in randomReplyExcluding(id, history)
    BY <2>1, WithHistoryUnjudged DEF isRoutableActivityID
  <2> QED
    BY <1>1, <2>2 DEF Sound, Unjudged, JudgedByLast, StoryExcluded
<1>3. CASE a \in {Said({})} \union Chats
  <2>1. PICK cues \in SUBSET Cues : a = Said(cues)
    BY <1>3, DogAssumption
  <2>2. a \in Unjudged /\ a.act # "story"
    BY <2>1, SaidUnjudged DEF NoActivity
  <2> QED
    BY <1>1, <2>2, UnjudgedSound
<1>4. CASE a \in MockReply(u)
  <2>1. a \in Unjudged /\ a.act # "story"
    BY <1>4, MockUnjudged DEF NoActivity
  <2> QED
    BY <1>1, <2>1, UnjudgedSound
<1> QED
  BY <1>1, <1>2, <1>3, <1>4

SurpriseReply == Reply(Surprise, Fixed, NoQuestion, {"asks"})

\* Every reply keeps them, or is a surprise that was due.
LEMMA RepliesSound ==
  ASSUME NEW u, NEW history \in Seq(GoodTurn), NEW o \in reply(u, history)
  PROVE  \/ \E a : Sound(u, history, a) /\ o.reply = SpeechOnlyReply(a)
         \/ /\ PlanSceneSurprise(u, history) # {}
            /\ o.reply = SpeechOnlyReply(SurpriseReply)
<1>1. \/ o \in deterministicReply(u, history)
      \/ o \in ModelReply(u, history)
      \/ o \in From("activity", PlanSceneSurprise(u, history))
  BY DEF reply
<1>2. CASE o \in From("activity", PlanSceneSurprise(u, history))
  <2>1. PICK a \in PlanSceneSurprise(u, history) : o.reply = SpeechOnlyReply(a)
    BY <1>2, FromReplies
  <2>2. a = SurpriseReply
    BY DEF PlanSceneSurprise, SurpriseReply
  <2> QED
    BY <2>1, <2>2
<1> QED
  BY <1>1, <1>2, DeterministicSound, ModelSound

-----------------------------------------------------------------------------
(* What is invariant. *)

\* A game that may be carried on was last heard by the child.
GameHeard ==
    turns # <<>> /\ Last(turns).act \in Games /\ asked # Mismatch
        => asked = Last(turns).question

\* The last surprise is where its count says, or forgotten.
SurpriseCounted ==
    sinceSurprise < 3 => \/ Len(turns) <= sinceSurprise
                         \/ turns[Len(turns) - sinceSurprise].act = Surprise

Inv ==
    /\ turns \in Seq(GoodTurn) /\ Len(turns) <= HistoryLimit
    /\ asked \in QuestionType \union {Mismatch}
    /\ sinceSurprise \in 0 .. 3
    /\ GameHeard
    /\ SurpriseCounted

\* The invariant says more than the types.
LEMMA InvType == Inv => TypeOK
<1> SUFFICES ASSUME Inv PROVE turns \in Seq(TurnType)
  BY DEF Inv, TypeOK
<1>1. turns \in [1 .. Len(turns) -> GoodTurn] /\ Len(turns) \in Nat
  BY DEF Inv
<1>2. turns \in [1 .. Len(turns) -> TurnType]
  BY <1>1 DEF GoodTurn
<1> QED
  BY <1>1, <1>2, SeqDef

\* An empty session satisfies it.
LEMMA InitInv == Init => Inv
  BY ConversationAssumption, NoQuestionType, EmptySeq
  DEF Init, Inv, GameHeard, SurpriseCounted

\* The last turns of a session in the places they keep.
LEMMA LastOfProperties ==
  ASSUME NEW T, NEW s \in Seq(T), NEW n \in Nat \ {0}, s # <<>>
  PROVE  /\ LastOf(s, n) \in Seq(T) /\ LastOf(s, n) # <<>>
         /\ Len(LastOf(s, n)) = IF Len(s) > n THEN n ELSE Len(s)
         /\ \A k \in 0 .. Len(LastOf(s, n)) - 1 :
              LastOf(s, n)[Len(LastOf(s, n)) - k] = s[Len(s) - k]
<1> DEFINE l == LastOf(s, n)
<1>1. Len(s) \in Nat /\ Len(s) > 0
  OBVIOUS
<1>2. PICK f \in 1 .. Len(s) :
        l = SubSeq(s, f, Len(s)) /\ Len(s) - f + 1 = IF Len(s) > n THEN n ELSE Len(s)
  <2>1. CASE Len(s) > n
    <3>1. Len(s) - n + 1 \in 1 .. Len(s) /\ Len(s) - (Len(s) - n + 1) + 1 = n
      BY <1>1, <2>1
    <3> QED
      BY <2>1, <3>1 DEF LastOf
  <2>2. CASE ~(Len(s) > n)
    <3>1. 1 \in 1 .. Len(s) /\ Len(s) - 1 + 1 = Len(s)
      BY <1>1
    <3> QED
      BY <2>2, <3>1 DEF LastOf
  <2> QED
    BY <2>1, <2>2
<1> DEFINE m == Len(s) - f + 1
<1>3. l \in Seq(T) /\ Len(l) = m /\ \A i \in 1 .. m : l[i] = s[f + i - 1]
  <2>1. \A i \in f .. Len(s) : s[i] \in T
    BY <1>1
  <2> QED
    BY <1>1, <1>2, <2>1, SubSeqProperties
<1>4. m \in Nat /\ m > 0
  BY <1>1
<1> HIDE DEF l
<1>5. ASSUME NEW k \in 0 .. Len(l) - 1
      PROVE  l[Len(l) - k] = s[Len(s) - k]
  <2>1. Len(l) - k \in 1 .. m /\ f + (Len(l) - k) - 1 = Len(s) - k
    BY <1>1, <1>3
  <2> QED
    BY <1>3, <2>1
<1>6. l # <<>>
  BY <1>3, <1>4
<1> QED
  BY <1>2, <1>3, <1>5, <1>6 DEF l

\* A reply is remembered as what it is.
LEMMA TurnGood ==
  ASSUME NEW u, NEW a \in ReplyType, AsksItsGame(a)
  PROVE  /\ TurnOf(u, a) \in GoodTurn
         /\ TurnOf(u, a).act = a.act /\ TurnOf(u, a).question = a.question
<1>1. Noted(u) \in {"story", "reject", "other"}
  BY DEF Noted
<1>2. TurnOf(u, a) =
        [said |-> Noted(u), act |-> a.act, variant |-> a.variant,
         question |-> a.question, cues |-> a.cues]
  BY DEF TurnOf
<1> QED
  BY <1>1, <1>2 DEF GoodTurn, TurnType, ReplyType, AsksItsGame

\* A surprise is a reply that judges nothing.
LEMMA SurpriseTyped == SurpriseReply \in ReplyType /\ SurpriseReply.act = Surprise
                       /\ SurpriseReply.verdict = "none"
<1>1. SurpriseReply = [act |-> Surprise, variant |-> Fixed, question |-> NoQuestion,
                       cues |-> {"asks"}, verdict |-> "none"]
  BY DEF SurpriseReply, Reply
<1>2. {"asks"} \in SUBSET Cues /\ Fixed \in Int
  BY DEF Cues, Fixed
<1> QED
  BY <1>1, <1>2, NoQuestionType DEF ReplyType, Verdicts

\* Every outcome is a reply that may be remembered.
LEMMA OutcomeTyped ==
  ASSUME NEW u, NEW history \in Seq(GoodTurn), NEW o \in reply(u, history)
  PROVE  /\ o.reply \in ReplyType /\ AsksItsGame(o.reply)
         /\ o.reply.act = Surprise => PlanSceneSurprise(u, history) # {}
<1>1. CASE \E a : Sound(u, history, a) /\ o.reply = SpeechOnlyReply(a)
  <2>1. PICK a : Sound(u, history, a) /\ o.reply = SpeechOnlyReply(a)
    BY <1>1
  <2>2. a \in ReplyType /\ a.act # Surprise /\ AsksItsGame(a)
    BY <2>1 DEF Sound, PlainReply
  <2> QED
    BY <2>1, <2>2, SpeechOnly DEF AsksItsGame
<1>2. CASE /\ PlanSceneSurprise(u, history) # {}
           /\ o.reply = SpeechOnlyReply(SurpriseReply)
  <2>1. Surprise \notin Games
    BY DEF Surprise, Games
  <2> QED
    BY <1>2, <2>1, SurpriseTyped, SpeechOnly DEF AsksItsGame
<1> QED
  BY <1>1, <1>2, RepliesSound

\* Appending a turn keeps the invariant, also where it drops the oldest one.
LEMMA AppendInv ==
  ASSUME Inv, NEW u, NEW a \in ReplyType, AsksItsGame(a), NEW agreed \in BOOLEAN,
         Append_(u, a), Asks(a, agreed)
  PROVE  Inv'
<1> DEFINE t == TurnOf(u, a)
           longer == Append(turns, t)
<1>1. t \in GoodTurn /\ t.act = a.act /\ t.question = a.question
  BY TurnGood
<1>2. turns \in Seq(GoodTurn) /\ Len(turns) \in Nat /\ HistoryLimit \in Nat \ {0}
  BY ConversationAssumption DEF Inv
<1> HIDE DEF t
<1>3. /\ longer \in Seq(GoodTurn) /\ longer # <<>> /\ Len(longer) = Len(turns) + 1
      /\ longer[Len(turns) + 1] = t
      /\ \A i \in 1 .. Len(turns) : longer[i] = turns[i]
  BY <1>1, <1>2, AppendProperties
<1> HIDE DEF longer
<1>4. turns' = LastOf(longer, HistoryLimit)
  BY DEF Append_, longer, t
<1>5. /\ turns' \in Seq(GoodTurn) /\ turns' # <<>> /\ Len(turns') <= HistoryLimit
      /\ Len(turns') \in Nat /\ Len(turns') > 0 /\ Len(turns') <= Len(longer)
      /\ \A k \in 0 .. Len(turns') - 1 : turns'[Len(turns') - k] = longer[Len(longer) - k]
  <2>1. /\ LastOf(longer, HistoryLimit) \in Seq(GoodTurn) /\ LastOf(longer, HistoryLimit) # <<>>
        /\ Len(LastOf(longer, HistoryLimit)) =
             IF Len(longer) > HistoryLimit THEN HistoryLimit ELSE Len(longer)
        /\ \A k \in 0 .. Len(LastOf(longer, HistoryLimit)) - 1 :
             LastOf(longer, HistoryLimit)[Len(LastOf(longer, HistoryLimit)) - k] = longer[Len(longer) - k]
    BY <1>2, <1>3, LastOfProperties
  <2> QED
    BY <1>2, <1>3, <1>4, <2>1
<1>6. turns'[Len(turns')] = t /\ Last(turns') = t
  <2>1. 0 \in 0 .. Len(turns') - 1 /\ Len(turns') - 0 = Len(turns') /\ Len(longer) - 0 = Len(turns) + 1
    BY <1>2, <1>3, <1>5
  <2>2. turns'[Len(turns')] = t
    BY <1>3, <1>5, <2>1
  <2> QED
    BY <2>2 DEF Last
<1>7. asked' \in QuestionType \union {Mismatch}
  BY DEF Inv, Asks, ReplyType
<1>8. GameHeard'
  <2>1. a.act \in Games => a.question # NoQuestion
    BY DEF AsksItsGame, Games, NoQuestion
  <2>2. a.act \in Games /\ asked' # Mismatch => asked' = a.question
    BY <2>1 DEF Asks
  <2> QED
    BY <1>1, <1>6, <2>2 DEF GameHeard
<1>9. sinceSurprise' \in 0 .. 3
  BY DEF Inv, Append_
<1>10. SurpriseCounted'
  <2>1. CASE a.act = Surprise
    <3>1. sinceSurprise' = 0
      BY <2>1 DEF Append_
    <3>2. Len(turns') - sinceSurprise' = Len(turns')
      BY <1>5, <3>1
    <3> QED
      BY <1>1, <1>6, <2>1, <3>2 DEF SurpriseCounted
  <2>2. CASE a.act # Surprise /\ sinceSurprise < 3
    <3>1. sinceSurprise' = sinceSurprise + 1 /\ sinceSurprise \in 0 .. 3
      BY <2>2 DEF Append_, Inv
    <3>2. CASE Len(turns') <= sinceSurprise + 1
      BY <3>1, <3>2 DEF SurpriseCounted
    <3>3. CASE Len(turns') > sinceSurprise + 1
      <4>1. sinceSurprise + 1 \in 0 .. Len(turns') - 1
            /\ Len(longer) - (sinceSurprise + 1) = Len(turns) - sinceSurprise
            /\ Len(turns) - sinceSurprise \in 1 .. Len(turns)
            /\ ~(Len(turns) <= sinceSurprise)
        BY <1>2, <1>3, <1>5, <3>1, <3>3
      <4>2. turns'[Len(turns') - (sinceSurprise + 1)] = turns[Len(turns) - sinceSurprise]
        BY <1>3, <1>5, <4>1
      <4>3. turns[Len(turns) - sinceSurprise].act = Surprise
        BY <2>2, <4>1 DEF Inv, SurpriseCounted
      <4> QED
        BY <3>1, <4>2, <4>3 DEF SurpriseCounted
    <3> QED
      BY <1>5, <3>1, <3>2, <3>3
  <2>3. CASE a.act # Surprise /\ ~(sinceSurprise < 3)
    <3>1. sinceSurprise' = 3
      BY <2>3 DEF Append_
    <3> QED
      BY <3>1 DEF SurpriseCounted
  <2> QED
    BY <2>1, <2>2, <2>3
<1> QED
  BY <1>5, <1>7, <1>8, <1>9, <1>10 DEF Inv

\* So does a turn as a whole.
LEMMA TurnInv ==
  ASSUME Inv, NEW u, Turn(u)
  PROVE  Inv'
<1>1. PICK o \in reply(u, turns), aborted \in BOOLEAN :
        /\ Asks(o.reply, shouldRememberConversation(o.source) /\ ~aborted)
        /\ IF shouldRememberConversation(o.source) THEN Append_(u, o.reply)
           ELSE UNCHANGED <<turns, sinceSurprise>>
  BY DEF Turn
<1>2. o.reply \in ReplyType /\ AsksItsGame(o.reply)
  BY OutcomeTyped DEF Inv
<1>3. CASE shouldRememberConversation(o.source)
  <2>1. (shouldRememberConversation(o.source) /\ ~aborted) \in BOOLEAN
    OBVIOUS
  <2> QED
    BY <1>1, <1>2, <1>3, <2>1, AppendInv
<1>4. CASE ~shouldRememberConversation(o.source)
  <2>1. asked' = asked \/ asked' = Mismatch
    BY <1>1, <1>4 DEF Asks
  <2>2. turns' = turns /\ sinceSurprise' = sinceSurprise
    BY <1>1, <1>4
  <2> QED
    BY <2>1, <2>2 DEF Inv, GameHeard, SurpriseCounted
<1> QED
  BY <1>3, <1>4

\* So do turns that are forgotten.
LEMMA ExpireInv ==
  ASSUME Inv, SceneExpires \/ Forget
  PROVE  Inv'
<1>1. turns \in Seq(GoodTurn) /\ Len(turns) \in Nat /\ HistoryLimit \in Nat
  BY ConversationAssumption DEF Inv
<1>2. asked' = asked /\ sinceSurprise' = sinceSurprise
  BY DEF SceneExpires, Forget
<1>3. CASE Forget
  <2>1. turns' = <<>> /\ Len(turns') = 0 /\ turns' \in Seq(GoodTurn)
    BY <1>3 DEF Forget
  <2> QED
    BY <1>1, <1>2, <2>1 DEF Inv, GameHeard, SurpriseCounted
<1>4. CASE SceneExpires
  <2>1. PICK k \in 2 .. Len(turns) + 1 : turns' = SubSeq(turns, k, Len(turns))
    BY <1>4 DEF SceneExpires
  <2>2. \A i \in k .. Len(turns) : turns[i] \in GoodTurn
    BY <1>1
  <2>3. /\ turns' \in Seq(GoodTurn)
        /\ Len(turns') = Len(turns) - k + 1
        /\ \A i \in 1 .. Len(turns) - k + 1 : turns'[i] = turns[k + i - 1]
    <3>1. k \in Int /\ Len(turns) \in Int /\ (~(k <= Len(turns)) => Len(turns) - k + 1 = 0)
      BY <1>1
    <3> QED
      BY <2>1, <2>2, <3>1, SubSeqProperties
  <2>4. Len(turns') \in Nat /\ Len(turns') <= Len(turns) /\ Len(turns') <= HistoryLimit
    BY <1>1, <2>3 DEF Inv
  <2>5. \A i \in 0 .. Len(turns') - 1 : turns'[Len(turns') - i] = turns[Len(turns) - i]
    <3> SUFFICES ASSUME NEW i \in 0 .. Len(turns') - 1
                 PROVE  turns'[Len(turns') - i] = turns[Len(turns) - i]
      OBVIOUS
    <3>1. /\ Len(turns') - i \in 1 .. Len(turns) - k + 1
          /\ k + (Len(turns') - i) - 1 = Len(turns) - i
      BY <1>1, <2>3, <2>4
    <3> QED
      BY <2>3, <3>1
  <2>6. turns' # <<>> => turns # <<>> /\ Last(turns') = Last(turns)
    <3> SUFFICES ASSUME turns' # <<>> PROVE turns # <<>> /\ Last(turns') = Last(turns)
      OBVIOUS
    <3>1. Len(turns') > 0 /\ Len(turns) > 0
      BY <1>1, <2>3, <2>4
    <3>2. turns'[Len(turns')] = turns[Len(turns)]
      <4>1. 0 \in 0 .. Len(turns') - 1 /\ Len(turns') - 0 = Len(turns') /\ Len(turns) - 0 = Len(turns)
        BY <1>1, <2>4, <3>1
      <4> QED
        BY <2>5, <4>1
    <3> QED
      BY <3>1, <3>2 DEF Last
  <2>7. SurpriseCounted'
    <3> SUFFICES ASSUME sinceSurprise < 3, ~(Len(turns') <= sinceSurprise)
                 PROVE  turns'[Len(turns') - sinceSurprise].act = Surprise
      BY <1>2 DEF SurpriseCounted
    <3>1. sinceSurprise \in 0 .. Len(turns') - 1 /\ ~(Len(turns) <= sinceSurprise)
      BY <1>1, <2>4 DEF Inv
    <3> QED
      BY <2>5, <3>1 DEF Inv, SurpriseCounted
  <2> QED
    BY <1>2, <2>3, <2>4, <2>6, <2>7 DEF Inv, GameHeard
<1> QED
  BY <1>3, <1>4

\* So does every step.
LEMMA NextInv == Inv /\ [Next]_vars => Inv'
<1> SUFFICES ASSUME Inv, [Next]_vars PROVE Inv'
  OBVIOUS
<1>1. CASE UNCHANGED vars
  BY <1>1 DEF vars, Inv, GameHeard, SurpriseCounted
<1>2. CASE Next
  BY <1>2, TurnInv, ExpireInv DEF Next
<1> QED
  BY <1>1, <1>2

\* The invariant holds in every state.
LEMMA InvHolds == Spec => []Inv
  BY InitInv, NextInv, PTL DEF Spec

-----------------------------------------------------------------------------
\* The session remembers no more than its limit of turns, and every question
\* and count in it keeps its type, for any texts, rounds and replies (Append(),
\* History()).
THEOREM TypeCorrect == Spec => []TypeOK
  BY InvHolds, InvType, PTL

\* The last turn's question is the one the child heard.
LEMMA JudgedInv == Inv => JudgedRound
<1> SUFFICES ASSUME Inv, NEW u \in Texts, NEW o \in reply(u, turns),
                    o.reply.verdict # "none", asked # Mismatch
             PROVE  /\ asked.game = o.reply.act
                    /\ o.reply.verdict = "right" <=> Answers(u, asked)
  BY DEF JudgedRound
<1>1. turns \in Seq(GoodTurn)
  BY DEF Inv
<1>2. o.reply # SpeechOnlyReply(SurpriseReply)
  BY SurpriseTyped, SpeechOnly
<1>3. PICK a : Sound(u, turns, a) /\ o.reply = SpeechOnlyReply(a)
  BY <1>1, <1>2, RepliesSound
<1>4. a.act = o.reply.act /\ a.verdict = o.reply.verdict
  BY <1>3, SpeechOnly DEF Sound, PlainReply
<1>5. /\ turns # <<>> /\ Last(turns).act \in Games /\ a.act = Last(turns).act
      /\ a.verdict = "right" <=> Answers(u, Last(turns).question)
  BY <1>3, <1>4 DEF Sound, JudgedByLast
<1>6. asked = Last(turns).question
  BY <1>5 DEF Inv, GameHeard
<1>7. Last(turns).question.game = Last(turns).act
  <2>1. Last(turns) \in GoodTurn
    BY <1>1, <1>5, LastTyped
  <2> QED
    BY <1>5, <2>1 DEF GoodTurn, AsksItsGame
<1> QED
  BY <1>4, <1>5, <1>6, <1>7

\* An answer is judged against the question the child was asked last, for any
\* number of rounds of either game and any length of the history
\* (continueAnimalGuess(), continueCounting()).
THEOREM AnswersJudgedFairly == Spec => []JudgedRound
  BY InvHolds, JudgedInv, PTL

\* A stop is no offer's answer, and an activity's only if it names an animal.
LEMMA StopsAreStops ==
  ASSUME NEW u, u.word \in {"quiet", "farewell", "bye", "hush"},
         NEW history \in Seq(GoodTurn), NEW o \in reply(u, history),
         ~AnimalExpected(u, history)
  PROVE  o.reply.act = Wanted(u)
<1> DEFINE id == Wanted(u)
<1>0. id \in {"quiet", "farewell"}
  BY DEF Wanted, Activities, Animal
<1> HIDE DEF id
<1>1. PlannedWithHistory(u, history) = byID(id)
  <2>1. PlanActivity(u) = byID(id)
    BY <1>0 DEF id, PlanActivity, NoActivity
  <2>2. \A a \in byID(id) : a.act \notin {"clap", "presence", "story"}
    BY <1>0, ByIDUnjudged DEF Activities
  <2> QED
    BY <2>1, <2>2 DEF PlannedWithHistory
<1>2. byID(id) # {} /\ \A a \in byID(id) : a.act = id /\ a \in ReplyType
  BY <1>0, ByIDUnjudged DEF Activities, Unjudged, PlainReply
<1>3. TakenUp(u, history) = {}
  BY DEF TakenUp, isActivityAcceptance, isCountingAcceptance, isStoryAffirmation
<1>4. continueRecentActivity(u, history) = {}
  <2>1. u.word \notin {"number", "animal"} \union isUncertainGameAnswer
    BY DEF isUncertainGameAnswer
  <2>2. \A r : continueCounting(u, r) = {}
    BY <2>1 DEF continueCounting, NamesNumber
  <2>3. ~SaysAnimal(u) => \A r : continueAnimalGuess(u, r) = {}
    BY <2>1 DEF continueAnimalGuess, NamesAnimal
  <2>4. \A play \in {"nursery_rhyme", "color_hunt"} : u \notin ShortChoices[play]
    BY DEF ShortChoices, Word
  <2>5. ~SaysAnimal(u) => \A play \in DOMAIN ShortChoices : u \notin ShortChoices[play]
    <3>1. \A w : Word(w).word = w
      BY DEF Word
    <3>2. \A R : u \in Naming(R) => SaysAnimal(u)
      BY DEF Naming, SaysAnimal
    <3> QED
      BY <3>1, <3>2 DEF ShortChoices
  <2>6. CASE history = <<>>
    BY <2>6 DEF continueRecentActivity
  <2>7. CASE history # <<>> /\ ~SaysAnimal(u)
    BY <2>2, <2>3, <2>5, <2>7 DEF continueRecentActivity
  <2>8. CASE history # <<>> /\ SaysAnimal(u)
    <3> DEFINE play == Last(history).act
    <3>1. /\ play \notin {"animal_guess", "magic"}
          /\ play = "adventure" => u.n \notin {0, 6}
          /\ play = "pretend_play" => u.n # 0
      BY <2>8 DEF AnimalExpected
    <3>2. DOMAIN ShortChoices = {"adventure", "pretend_play", "magic", "nursery_rhyme",
                                 "color_hunt"}
      BY DEF ShortChoices
    <3>3. /\ u \in ShortChoices["adventure"] => u.n \in {0, 6}
          /\ u \in ShortChoices["pretend_play"] => u.n = 0
      BY DEF ShortChoices, Naming, Word
    <3>4. play \in DOMAIN ShortChoices => u \notin ShortChoices[play]
      BY <2>4, <3>1, <3>2, <3>3
    <3> HIDE DEF play
    <3>5. play # "animal_guess"
      BY <3>1
    <3> QED
      BY <2>2, <2>8, <3>4, <3>5 DEF continueRecentActivity, play
  <2> QED
    BY <2>6, <2>7, <2>8
<1>5. PlanActivityWithHistory(u, history) = byID(id)
  BY <1>1, <1>2, <1>3, <1>4 DEF PlanActivityWithHistory, Unclear
<1>6. ClarificationReply(u, history) = {}
  BY DEF ClarificationReply
<1>7. deterministicReply(u, history) = From("activity", byID(id))
  <2>1. /\ u.word \notin Unsafe /\ u.word \notin NeedsVisualGrounding
        /\ u.word \notin LooksLikeToddlerBabble
    BY DEF Unsafe, NeedsVisualGrounding, LooksLikeToddlerBabble
  <2> QED
    BY <1>5, <1>6, <2>1 DEF deterministicReply
<1>8. reply(u, history) = From("activity", byID(id))
  <2>1. From("activity", byID(id)) # {}
    BY <1>2 DEF From
  <2> QED
    BY <1>7, <2>1 DEF reply
<1>9. PICK a \in byID(id) : o.reply = SpeechOnlyReply(a)
  BY <1>8, FromReplies
<1> QED
  BY <1>2, <1>9, SpeechOnly DEF id

\* A child who says stop or goodbye is heard after any history whatever
\* (PlanActivityWithHistory()), but for a stop that names an animal right after a
\* turn in which that may be an answer.
THEOREM StopHeard == Spec => []StopAlwaysHeard
<1>1. Inv => StopAlwaysHeard
  BY StopsAreStops DEF Inv, StopAlwaysHeard, Stops
<1> QED
  BY <1>1, InvHolds, PTL

\* With one surprise in the history, the turns since count from it.
LEMMA LastSurprise ==
  ASSUME NEW history \in Seq(GoodTurn), NEW i \in DOMAIN history,
         history[i].act = Surprise, surpriseCount(history) < 2
  PROVE  turnsSinceSurprise(history) = Len(history) - i
<1> DEFINE S == Surprises(history)
<1>1. S \subseteq 1 .. Len(history) /\ i \in S
  BY DEF Surprises
<1>2. IsFiniteSet(S) /\ Cardinality(S) \in Nat
  <2>1. IsFiniteSet(1 .. Len(history))
    BY FS_Interval
  <2> QED
    BY <1>1, <2>1, FS_Subset, FS_CardinalityType
<1>3. Cardinality(S) = 1
  <2>1. Cardinality(S) # 0
    BY <1>1, <1>2, FS_EmptySet
  <2> QED
    BY <1>2, <2>1 DEF surpriseCount
<1>4. S = {i}
  BY <1>1, <1>2, <1>3, FS_Singleton
<1>5. (CHOOSE j \in S : \A k \in S : k <= j) = i
  <2>1. i <= i
    BY <1>1
  <2> QED
    BY <1>4, <2>1
<1> QED
  BY <1>1, <1>5 DEF turnsSinceSurprise

\* A surprise is due only where the history counts three turns since the last.
LEMMA SpacedInv == Inv => SurprisesSpaced
<1> SUFFICES ASSUME Inv, sinceSurprise < 3, NEW u \in Texts, NEW o \in reply(u, turns),
                    o.reply.act = Surprise
             PROVE  FALSE
  BY DEF SurprisesSpaced
<1>1. turns \in Seq(GoodTurn) /\ sinceSurprise \in 0 .. 3
  BY DEF Inv
<1>2. /\ Len(turns) >= 3 /\ surpriseCount(turns) < 2 /\ turnsSinceSurprise(turns) >= 3
  BY <1>1, OutcomeTyped DEF PlanSceneSurprise
<1>3. Len(turns) - sinceSurprise \in DOMAIN turns
  BY <1>1, <1>2
<1>4. turns[Len(turns) - sinceSurprise].act = Surprise
  BY <1>1, <1>2 DEF Inv, SurpriseCounted
<1>5. turnsSinceSurprise(turns) = Len(turns) - (Len(turns) - sinceSurprise)
  BY <1>1, <1>2, <1>3, <1>4, LastSurprise
<1> QED
  BY <1>1, <1>2, <1>5

\* Between two surprises there are at least three turns, for any length of the
\* history they are counted in (PlanSceneSurprise(), turnsSinceSurprise()).
THEOREM SurprisesKeepDistance == Spec => []SurprisesSpaced
  BY InvHolds, SpacedInv, PTL

\* The history is too short to exclude all stories.
LEMMA StoriesLeft ==
  ASSUME NEW history \in Seq(GoodTurn), Len(history) <= HistoryLimit
  PROVE  ~(0 .. Variants["story"] - 1 \subseteq
             {history[i].variant : i \in {j \in DOMAIN history : history[j].act = "story"}})
<1> DEFINE all == 0 .. Variants["story"] - 1
           told == {j \in DOMAIN history : history[j].act = "story"}
           used == {history[i].variant : i \in told}
           f == [i \in told |-> history[i].variant]
<1>1. Variants["story"] \in Nat \ {0} /\ HistoryLimit \in Nat \ {0}
  BY DogAssumption, ConversationAssumption DEF Activities
<1>2. IsFiniteSet(told) /\ Cardinality(told) <= Len(history)
  <2>1. IsFiniteSet(1 .. Len(history)) /\ Cardinality(1 .. Len(history)) = Len(history)
    BY FS_Interval
  <2>2. told \in SUBSET (1 .. Len(history))
    OBVIOUS
  <2> QED
    BY <2>1, <2>2, FS_Subset
<1>3. f \in Surjection(told, used)
  BY DEF Surjection
<1>4. IsFiniteSet(used) /\ Cardinality(used) <= Cardinality(told)
  <2> HIDE DEF told, used, f
  <2> QED
    BY <1>2, <1>3, FS_Surjection
<1>5. Cardinality(all) = Variants["story"]
  <2> DEFINE top == Variants["story"] - 1
  <2>1. top \in Int /\ 0 \in Int /\ ~(0 > top) /\ top - 0 + 1 = Variants["story"]
    BY <1>1
  <2> HIDE DEF top
  <2>2. Cardinality(0 .. top) = top - 0 + 1
    BY <2>1, FS_Interval
  <2> QED
    BY <2>1, <2>2 DEF top
<1>6. ASSUME all \subseteq used PROVE FALSE
  <2> HIDE DEF told, used, f, all
  <2>1. Cardinality(all) <= Cardinality(used)
    BY <1>4, <1>6, FS_Subset
  <2>2. Cardinality(told) \in Nat /\ Cardinality(used) \in Nat /\ Len(history) \in Nat
    BY <1>2, <1>4, FS_CardinalityType
  <2> QED
    BY <1>1, <1>2, <1>4, <1>5, <2>1, <2>2, StoryAssumption
<1> QED
  BY <1>6

\* What the history holds is excluded.
LEMMA DifferInv == Inv => StoriesDiffer
<1> SUFFICES ASSUME Inv, NEW u \in Texts, NEW o \in reply(u, turns),
                    o.reply.act = "story",
                    NEW i \in DOMAIN turns, turns[i].act = "story"
             PROVE  o.reply.variant # turns[i].variant
  BY DEF StoriesDiffer
<1>1. turns \in Seq(GoodTurn) /\ Len(turns) <= HistoryLimit
  BY DEF Inv
<1>2. o.reply # SpeechOnlyReply(SurpriseReply)
  BY SurpriseTyped, SpeechOnly DEF Surprise
<1>3. PICK a : Sound(u, turns, a) /\ o.reply = SpeechOnlyReply(a)
  BY <1>1, <1>2, RepliesSound
<1>4. a.act = "story" /\ a.variant = o.reply.variant
  BY <1>3, SpeechOnly DEF Sound, PlainReply
<1>5. a.variant \in randomReplyExcluding("story", turns)
  BY <1>3, <1>4 DEF Sound, StoryExcluded
<1>6. a.variant \notin {turns[j].variant : j \in {k \in DOMAIN turns : turns[k].act = "story"}}
  BY <1>1, <1>5, StoriesLeft DEF randomReplyExcluding
<1> QED
  BY <1>4, <1>6

\* No story is told twice in what the session remembers, for any number of
\* stories above the history's limit, whichever way the story was reached
\* (randomReplyExcluding()).
THEOREM StoriesNotRepeated == Spec => []StoriesDiffer
  BY InvHolds, DifferInv, PTL
=============================================================================
