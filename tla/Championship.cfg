SPECIFICATION ChampFairSpec
CONSTANT CHAMP_LIMIT = 4
INVARIANT AllNumberedBeforeAnswers
PROPERTIES ImplementsNumbering ChampionshipEnds
CHECK_DEADLOCK FALSE
