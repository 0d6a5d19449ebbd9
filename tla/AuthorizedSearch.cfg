SPECIFICATION Spec
CONSTANTS
  Users = {u1, u2, u3}
  Tags = {a, b}
  NoTag = NoTag
  NoRow = NoRow
  Callers = {c1, c2}
  Searchers = {c1, c2}
  AccessLife = 1
  RefreshLife = 2
  MaxTime = 2
  NumChunks = 3
  NumMemories = 2
  TopN = 2
  RerankTopN = 2
  FinalTopK = 2
  ContextTopK = 2
  LongTermTopK = 1
  RRFK = 1
  RankUnit = 60
  PhraseFloor = 2
  PhraseCeiling = 3
INVARIANTS TypeOK PrimaryOrgIsHeld RevokedTokenIsRefused AnswerIsPermitted AnswerIsRanked
SYMMETRY Symmetry
CHECK_DEADLOCK FALSE
