\* Three runs, one of which may be abandoned while another replaces it.
CONSTANTS
  MaxRuns = 3
  MayClose = TRUE
SPECIFICATION FairSpec
INVARIANTS
  SuccessIsFaithful
  FailureIsOwn
  OrphansAreOvertaken
PROPERTIES
  RunEnds
\* A closed bloc, or one with no run left to start, has nothing left to do.
CHECK_DEADLOCK FALSE
