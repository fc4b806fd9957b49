SPECIFICATION Spec
CONSTANTS
  Id = {u1, u2, u3, u4}
  NoPeer = NoPeer
  WORKER_NUMBER = 2
  UINT_MAX = 15
  MaxTry = 2
  Tastes <- SteadyOrFickle
  CandidatesStay = TRUE
  QuittersStayOut = TRUE
SYMMETRY Symmetry
INVARIANTS
  NeverReadsDeadNode PointersInOrder MarkedMeansTried
  CandidatesIncompatible MatchedAcceptEachOther
PROPERTY ServesFirstCompatible
CHECK_DEADLOCK FALSE
