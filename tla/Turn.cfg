\* A workspace that comes and goes, and a deny pattern inside the operator's scope.
CONSTANTS
  Paths <- MCSharePaths
  Names <- MCSharePaths
  Canon <- MCShareCanon
  Static <- MCCode
  Dynamic <- MCShared
  MayEnd = TRUE
  DenyMatched <- MCCode
  Deniable <- MCShared
  Vanishing <- MCShared
  Tokens = {t1, t2}
  MaxVersion = 2
SPECIFICATION Spec
SYMMETRY MCSymmetry
VIEW MCView
INVARIANTS CommittedReachedUnderlay
PROPERTIES UnderlayNeedsAuthority KeptStaysInBranch AnsweredIsNotAskedAgain AbortStopsCommits
CHECK_DEADLOCK FALSE
