\* The restore command, killed and repeated, while Babylon moves on.
CONSTANTS
  MaxVotes = 3
  MaxEdits = 2
SPECIFICATION Spec
INVARIANTS
  TypeOK
  NeverAhead
  UpdatedAgrees
PROPERTIES
  VotesNeverForgotten
  SlashedForGood
CHECK_DEADLOCK TRUE
