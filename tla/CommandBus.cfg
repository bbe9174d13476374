CONSTANTS
  first = first
  retry = retry
  key = key
  Commands <- MCCommands
  Keys <- MCKeys
  KeyOf <- MCKeyOf
  BufferLimit = 2
  MaxEffects = 2
  MaxCrashes = 1
SPECIFICATION FairSpec
INVARIANTS AppliedOnce AnswersAreTrue
PROPERTIES ResultsAreFinal EventuallyAnswered
CHECK_DEADLOCK FALSE
