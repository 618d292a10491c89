SPECIFICATION Spec
CONSTANTS
  Absent = Absent
  Malformed = Malformed
  NoImage = NoImage
  Error = Error
  NoAnswer = NoAnswer
  Tags <- AllTags
  Rank <- Ranks
  Movable = {"latest"}
  Requests <- Specs
  Budget <- Times
CHECK_DEADLOCK FALSE
INVARIANTS TypeOK AtomicAnswer NotFoundIsTrue ErrorsHaveReason
