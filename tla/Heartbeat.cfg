SPECIFICATION Spec
CONSTANTS
  Nothing = Nothing
  Interval = 2
  MaxTimeout = 12
  Answers <- MCAnswers
  MaxStall = 1
  MaxDelay = 1
  MaxSkips = 1
  MaxSequence = 5
CHECK_DEADLOCK FALSE
INVARIANT TypeOK
INVARIANT NoSpuriousExpiry
INVARIANT ExpiryMeasuresSilence
INVARIANT HonestAnswersAccepted
