SPECIFICATION HeapFairSpec
CONSTANTS
  Id = {u1, u2, u3, u4}
  NoPeer = NoPeer
  WORKER_NUMBER = 2
  UINT_MAX = 15
  MaxTry = 1
  Tastes <- Alike
  CandidatesStay = TRUE
  QuittersStayOut = TRUE
  Addr = {1, 2, 3, 4}
  Null = 0
INVARIANT ListsWellFormed
PROPERTIES ImplementsMatching TryingEnds
CHECK_DEADLOCK FALSE
