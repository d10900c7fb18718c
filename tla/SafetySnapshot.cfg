SPECIFICATION FairSpec
CONSTANTS
  MaxPolls = 3
INVARIANTS MutationIsCovered NoSilentSnapshot OutcomeIsTrue
PROPERTIES ImplementsAttempt AttemptEnds
CHECK_DEADLOCK FALSE
