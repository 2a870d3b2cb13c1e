SPECIFICATION Spec
CONSTANTS
    AnimalRounds = 3
    CountingRounds = 2
    CountingAnswer <- MCAnswer
    Variants <- MCVariants
    Routable = {"animal_guess"}
    ChatCues <- MCCues
    UseSurprise = TRUE
    Texts <- MCTexts
    HistoryLimit = 3
INVARIANTS
    TypeOK
    JudgedRound
    
    StoriesDiffer
    SurprisesSpaced
