---------------------------- MODULE DogActivity ----------------------------
(***************************************************************************)
(* What the dog answers: safety rules, babble, clarification and the local *)
(* games (internal/dog), then the chat model (Server.reply()).             *)
(*                                                                         *)
(* An utterance is a representative of the texts the keyword tests do not  *)
(* tell apart.  Its word is the id of the activity it asks for, or one of  *)
(*   animal  the animal of round n: 小兔子, 小猫, 小狗 ...                     *)
(*   number  the number n: 三, 四 ...                                        *)
(*   yes     好的          unsure   不知道      more       再来一个          *)
(*   sea     海边          apple    苹果        bigger     变大              *)
(*   drip    滴答          found    找到了      reject     不数了            *)
(*   babble  哇哇          countTwice 数数数数  callTwice  豆豆豆豆          *)
(*   dogHum  豆豆嗯嗯      confused 不会玩                                   *)
(*   bye     goodbye to the animal of round n: 小狗再见 ...                 *)
(*   hush    a stop that names it: 小狗别说了, 小兔子安静一下 ...           *)
(*   repair  你说什么      unheard  听不清      laggyStory 讲故事太卡        *)
(*   hurt    好疼          look     这是什么    talk       any other talk    *)
(*                                                                         *)
(* Functions of the source that return (Activity, bool) are sets here: the *)
(* activities they may return, or {} for false.                            *)
(***************************************************************************)
EXTENDS Integers, Sequences, SequencesExt, FiniteSets

CONSTANTS
    AnimalRounds,    \* len(animalGuessRounds), 8
    CountingRounds,  \* len(countingRounds), 5
    CountingAnswer,  \* the answer of each counting round
    Variants,        \* replies in activityReplyVariants, by activity
    Routable,        \* activities the model is seen to choose
    ChatCues,        \* what the model's own replies may say, as sets of cues
    UseSurprise      \* Server.useSurprise

Activities == {"story", "poem", "animal_guess", "color_hunt", "counting",
    "nursery_rhyme", "sound_game", "clap", "adventure", "pretend_play",
    "magic", "guide", "chat", "greeting", "farewell", "quiet", "presence",
    "comfort"}

Games == {"animal_guess", "counting"}
Rounds == [animal_guess |-> AnimalRounds, counting |-> CountingRounds]

isRoutableActivityID == Activities
    \ {"clap", "chat", "greeting", "farewell", "quiet", "presence"}

(* What a later turn looks for in a reply: an offer of a story, of the     *)
(* animal game, of counting or of several activities, a question, or the   *)
(* words of a clarification.                                               *)
Cues == {"story", "animals", "counting", "many", "asks", "repeats"}

ASSUME DogAssumption ==
    /\ AnimalRounds \in Nat \ {0} /\ CountingRounds \in Nat \ {0}
    /\ CountingAnswer \in [0 .. CountingRounds - 1 -> Nat]
    /\ Variants \in [Activities -> Nat \ {0}]
    /\ \A g \in Games : Variants[g] <= Rounds[g]
    /\ Routable \subseteq isRoutableActivityID
    /\ ChatCues \subseteq SUBSET Cues
    /\ UseSurprise \in BOOLEAN

NoActivity == "none"
Surprise == "surprise"
Fixed == -1      \* a reply that is not in activityReplyVariants

NoQuestion == [game |-> "none", round |-> 0]
Question(game, round) == [game |-> game, round |-> round]

Word(w) == [word |-> w, n |-> 0]
Animal(r) == [word |-> "animal", n |-> r]

\* What names an animal, a goodbye or a stop to it with it.
Naming(rounds) == [word : {"animal", "bye", "hush"}, n : rounds]

-----------------------------------------------------------------------------
(* The keyword tests, as the words they hold for. *)

LooksLikeToddlerBabble == {"babble", "countTwice", "callTwice"}
isActivityAcceptance == {"yes", "dogHum"}
isCountingAcceptance == {"yes", "dogHum", "counting"}
isStoryAffirmation == {"yes"}
isUncertainGameAnswer == {"yes", "unsure", "dogHum", "counting"}
Unclear == {"unheard", "laggyStory"}

\* Requests and questions are left to the model, and so is a clarification.
surpriseEligibleText == {"animal", "number", "yes", "unsure", "more", "sea",
    "apple", "bigger", "drip", "found", "reject", "confused", "unheard", "talk"}

DogRound == 2
SaysAnimal(u) == u.word \in {"animal", "bye", "hush"}
NamesAnimal(u, r) == SaysAnimal(u) /\ u.n = r
NamesNumber(u, r) == u.word = "number" /\ u.n = CountingAnswer[r]

\* The choices that go on with an imagined journey, shop or spell, a rhyme,
\* or the search for a colour.  They are looked for anywhere in a short text, and
\* a spell's "big" and "small" are part of every animal's name.
ShortChoices == [
    adventure     |-> {Word("sea")} \union Naming({0, 6}),
    pretend_play  |-> {Word("apple")} \union Naming({0}),
    magic         |-> {Word("bigger")} \union Naming(0 .. AnimalRounds - 1),
    nursery_rhyme |-> {Word("drip")},
    color_hunt    |-> {Word("found")}]

-----------------------------------------------------------------------------
(* Activities, with the cues and the question in their replies. *)

VariantCues(id, v) ==
    IF id # "guide" THEN {}
    ELSE CASE v = 0 -> {"many", "animals"}
           [] v = 1 -> {"many"}
           [] OTHER -> {}

Reply(id, v, question, cues) ==
    [act |-> id, variant |-> v, question |-> question,
     cues |-> cues \union (IF question = NoQuestion THEN {} ELSE {"asks"}),
     verdict |-> "none"]

\* The reply of the table with index v.
TableReply(id, v) ==
    Reply(id, v, IF id \in Games THEN Question(id, v) ELSE NoQuestion, VariantCues(id, v))

fixedActivity(id, question, cues) == {Reply(id, Fixed, question, cues)}

\* The counters that rotate the replies are shared by all sessions and start
\* at random: any reply may be next.
byID(id) == {TableReply(id, v) : v \in 0 .. Variants[id] - 1}

\* As a slip would do it: stories are excluded by the turn before only.
randomReplyExcluding_LastOnly(id, history) ==
    LET all == 0 .. Variants[id] - 1
    IN  IF history = <<>> THEN all ELSE all \ {Last(history).variant}

randomReplyExcluding(id, history) ==
    LET all == 0 .. Variants[id] - 1
        used == {history[i].variant : i \in {j \in DOMAIN history : history[j].act = id}}
    IN  IF all \subseteq used THEN all ELSE all \ used

activityWithHistory(id, history) ==
    {TableReply(id, v) : v \in randomReplyExcluding(id, history)}

babbleActivity == fixedActivity("clap", NoQuestion, {})

\* The activity a text asks for by itself.
Wanted(u) ==
    CASE u.word \in Activities -> u.word
      [] u.word = "bye" -> "farewell"
      [] u.word = "hush" -> "quiet"
      [] u.word = "laggyStory" -> "story"
      [] u.word = "countTwice" -> "counting"
      [] u = Animal(DogRound) -> "guide"
      [] OTHER -> NoActivity

PlanActivity(u) ==
    IF Wanted(u) # NoActivity THEN byID(Wanted(u))
    ELSE IF u.word \in {"babble", "dogHum"} THEN babbleActivity
    ELSE {}

-----------------------------------------------------------------------------
(* What a short answer means after the turns before. *)

Recent(history, n) == {history[i] : i \in {j \in DOMAIN history : j > Len(history) - n}}

hasRecentActivity(history, id) == \E t \in Recent(history, 3) : t.act = id
hasRecentCountingRejection(history) == \E t \in Recent(history, 5) : t.said = "reject"
hasPendingStoryOffer(history) == \E t \in Recent(history, 3) : "story" \in t.cues
hasPendingCountingOffer(history) == \E t \in Recent(history, 2) : "counting" \in t.cues
hasPendingAnimalOffer(history) == \E t \in Recent(history, 1) : "animals" \in t.cues
hasMultipleActivityOffer(history) == \E t \in Recent(history, 1) : "many" \in t.cues
recentReplyInvitesContext(history) == \E t \in Recent(history, 1) : "asks" \in t.cues

\* A judged answer is followed by the next round's question, an unsure one by
\* the same question again.
Judged(game, r, verdict) ==
    {[a EXCEPT !.verdict = verdict] :
        a \in fixedActivity(game, Question(game, (r + 1) % Rounds[game]), {})}
AskedAgain(game, r) == fixedActivity(game, Question(game, r), {})

\* As a slip would do it: judges against the next round.
continueAnimalGuess_Next(u, r) ==
    IF NamesAnimal(u, (r + 1) % AnimalRounds) THEN Judged("animal_guess", r, "right")
    ELSE IF SaysAnimal(u) THEN Judged("animal_guess", r, "wrong")
    ELSE IF u.word \in isUncertainGameAnswer THEN AskedAgain("animal_guess", r)
    ELSE {}

continueAnimalGuess(u, r) ==
    IF NamesAnimal(u, r) THEN Judged("animal_guess", r, "right")
    ELSE IF SaysAnimal(u) THEN Judged("animal_guess", r, "wrong")
    ELSE IF u.word \in isUncertainGameAnswer THEN AskedAgain("animal_guess", r)
    ELSE {}

continueCounting(u, r) ==
    IF NamesNumber(u, r) THEN Judged("counting", r, "right")
    ELSE IF u.word = "number" THEN Judged("counting", r, "wrong")
    ELSE IF u.word \in isUncertainGameAnswer THEN AskedAgain("counting", r)
    ELSE {}

\* As a slip would do it: whatever is said in a game counts as an answer.
continueRecentActivity_Swallows(u, history) ==
    IF history = <<>> THEN {}
    ELSE LET last == Last(history)
         IN  IF last.act \notin Games THEN {}
             ELSE IF last.act = "animal_guess" /\ SaysAnimal(u)
             THEN continueAnimalGuess(u, last.question.round)
             ELSE AskedAgain(last.act, last.question.round)

continueRecentActivity(u, history) ==
    IF history = <<>> THEN {}
    ELSE LET last == Last(history)
         IN  IF last.act = "animal_guess"
             THEN continueAnimalGuess(u, last.question.round)
             ELSE IF last.act = "counting"
             THEN continueCounting(u, last.question.round)
             ELSE IF last.act \in DOMAIN ShortChoices /\ u \in ShortChoices[last.act]
             THEN fixedActivity(last.act, NoQuestion, {})
             ELSE {}

\* The activity the text asks for by itself, unless the turns before change it.
PlannedWithHistory(u, history) ==
    LET planned == PlanActivity(u)
        Plans(id) == \E a \in planned : a.act = id
    IN  IF Plans("clap") /\ hasRecentCountingRejection(history)
        THEN fixedActivity("clap", NoQuestion, {"asks"})
        ELSE IF Plans("presence") /\ hasRecentActivity(history, "presence")
        THEN activityWithHistory("guide", history)
        ELSE IF Plans("story") THEN activityWithHistory("story", history)
        ELSE planned

StoryBefore(history) ==
    \E t \in Recent(history, 3) : t.act = "story" \/ t.said = "story"

\* What an offer or an activity of the turns before makes of a short answer.
TakenUp(u, history) ==
    IF u.word = "confused" /\ hasRecentActivity(history, "guide")
    THEN fixedActivity("animal_guess", Question("animal_guess", 0), {})
    ELSE IF u.word \in isActivityAcceptance /\ hasMultipleActivityOffer(history)
    THEN fixedActivity("chat", NoQuestion, {})
    ELSE IF u.word = "more" /\ hasRecentActivity(history, "nursery_rhyme")
    THEN byID("nursery_rhyme")
    ELSE IF u.word \in isCountingAcceptance /\ hasPendingCountingOffer(history)
    THEN byID("counting")
    ELSE IF u.word \in isActivityAcceptance /\ hasPendingAnimalOffer(history)
    THEN byID("animal_guess")
    ELSE IF /\ u.word \in isStoryAffirmation
            /\ hasPendingStoryOffer(history) \/ hasRecentActivity(history, "story")
    THEN activityWithHistory("story", history)
    ELSE {}

PlanActivityWithHistory(u, history) ==
    LET taken == TakenUp(u, history)
        continued == continueRecentActivity(u, history)
        planned == PlannedWithHistory(u, history)
    IN  IF u.word \in Unclear THEN {}
        ELSE IF taken # {} THEN taken
        ELSE IF continued # {} THEN continued
        ELSE IF planned # {} THEN planned
        ELSE IF u.word = "more" /\ StoryBefore(history)
        THEN activityWithHistory("story", history)
        ELSE {}

-----------------------------------------------------------------------------
(* Replies that are no activity. *)

Said(cues) == Reply(NoActivity, Fixed, NoQuestion, cues)

\* CheckSafety() before anything else.
Unsafe == {"hurt"}
NeedsVisualGrounding == {"look"}

\* The idea of the turn before, or of the one before that when the last was a
\* clarification itself: its first clause, and what of its offers is in it.
ClarificationReply(u, history) ==
    IF u.word # "repair" \/ history = <<>> THEN {}
    ELSE LET n == Len(history)
             t == history[IF "repeats" \in history[n].cues /\ n > 1 THEN n - 1 ELSE n]
         IN  IF t.act = "story" THEN {Said({"repeats"})}
             ELSE {Said(kept \union {"repeats"}) : kept \in SUBSET t.cues}

\* Without a model a plan is spoken as plain text.
MockReply(u) ==
    IF PlanActivity(u) = {} THEN {Said({})}
    ELSE {[a EXCEPT !.act = NoActivity, !.variant = Fixed] : a \in PlanActivity(u)}

\* A reply that speaks of the toy's body loses that sentence, and is then not
\* recognised as a reply of the table any more.
SpeechOnlyReply(a) ==
    IF <<a.act, a.variant>> \in {<<"comfort", 4>>, <<"clap", 1>>, <<"clap", 5>>}
    THEN [a EXCEPT !.variant = Fixed] ELSE a

Surprises(history) == {i \in DOMAIN history : history[i].act = Surprise}
surpriseCount(history) == Cardinality(Surprises(history))

\* As a slip would do it: counts the surprise itself.
turnsSinceSurprise_OneMore(history) ==
    IF Surprises(history) = {} THEN Len(history)
    ELSE Len(history) + 1 - (CHOOSE i \in Surprises(history) : \A j \in Surprises(history) : j <= i)

turnsSinceSurprise(history) ==
    IF Surprises(history) = {} THEN Len(history)
    ELSE Len(history) - (CHOOSE i \in Surprises(history) : \A j \in Surprises(history) : j <= i)

lastTurnHasStructuredActivity(history) ==
    \E t \in Recent(history, 1) : t.act \notin {NoActivity, Surprise}

\* Whether the turns establish a scene is left open.
PlanSceneSurprise(u, history) ==
    IF /\ Len(history) >= 3 /\ u.word \in surpriseEligibleText
       /\ u.word \notin LooksLikeToddlerBabble
       /\ ~recentReplyInvitesContext(history)
       /\ ~lastTurnHasStructuredActivity(history)
       /\ surpriseCount(history) < 2 /\ turnsSinceSurprise(history) >= 3
    THEN {Reply(Surprise, Fixed, NoQuestion, {"asks"})} ELSE {}

RoutedActivity(id, history) ==
    IF id \in isRoutableActivityID THEN activityWithHistory(id, history) ELSE {}
=============================================================================
