--------------------------- MODULE MCConversation ---------------------------
(* Model values for Conversation. *)
EXTENDS Conversation

MCAnswer == [r \in 0 .. 1 |-> r + 3]

\* Enough stories that one is always left, and a reply of every kind.
MCVariants == [id \in Activities |->
    CASE id = "story" -> 4 [] id = "guide" -> 2 [] OTHER -> 1]

MCCues == {{}, {"asks", "story"}, {"counting", "animals"}}

Bye(r) == [word |-> "bye", n |-> r]
Hush(r) == [word |-> "hush", n |-> r]

MCTexts ==
    {Word(w) : w \in {"story", "animal_guess", "counting", "guide", "quiet",
        "farewell", "yes", "unsure", "more", "countTwice", "confused",
        "repair", "unheard", "laggyStory", "hurt", "magic", "talk"}}
    \union {Animal(0), Animal(1)} \union {Bye(0), Bye(DogRound), Hush(DogRound)}
    \union {[word |-> "number", n |-> k] : k \in {3, 4}}
=============================================================================
