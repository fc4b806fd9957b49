SPECIFICATION Spec
CONSTANTS
  Id = {u1, u2, u3}
  NoPeer = NoPeer
  WORKER_NUMBER = 2
  UINT_MAX = 15
  MaxTry = 1
  Tastes <- Steady
  CandidatesStay = FALSE
  QuittersStayOut = TRUE
INVARIANT MatchedAcceptEachOther
CHECK_DEADLOCK FALSE
