SPECIFICATION Spec
CONSTANTS
  Id = {u1, u2, u3}
  NoPeer = NoPeer
  WORKER_NUMBER = 2
  UINT_MAX = 15
  MaxTry = 2
  Tastes <- Steady
  CandidatesStay = TRUE
  QuittersStayOut = FALSE
PROPERTY DroppedReportsNeedNothing
CHECK_DEADLOCK FALSE
