SPECIFICATION FairSpec
CONSTANTS
  MaxLoss = 4
  MaxMain = 3
CHECK_DEADLOCK FALSE
INVARIANTS TypeOK AttemptPending StatusHonest
PROPERTIES ReconnectsUnlessOvertaken
