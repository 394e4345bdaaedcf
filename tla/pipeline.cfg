CONSTANTS
  Word <- Words
  Table <- Tables
  Option <- Options
  Column <- Columns
  Specs <- SmallSpecs
  Answers <- AllAnswers
SPECIFICATION Spec
INVARIANTS TypeOK SpecIsFulfilled FailsForACause
