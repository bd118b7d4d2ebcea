\* Each method with up to two failing checks, sizes around the limit, every outcome.
CONSTANTS
  Ids = {"id"}
  Null = "null"
  MAX_LINE_BYTES = 4
  CommitSeqs = {0, 1}
  Reasons = {"reason"}
  MaxSamples = 1024
SPECIFICATION Spec
INVARIANTS
  TransportsAgree
  VerdictSurvives
  NearestRank
