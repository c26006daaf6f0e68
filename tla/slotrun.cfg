SPECIFICATION FairSpec
CONSTANTS
    Kind <- MCKind
    FirstNote <- MCNote
    Around = 1
    MaxRuns = 2
    MaxActs = 1
INVARIANTS CanceledStaysOut AnswersOnce CardsMatch
PROPERTIES OwnMarkOnly WrittenStays PlaceholdersGo
CHECK_DEADLOCK FALSE
