SPECIFICATION ServerSpec
CONSTANTS
  Id = {u1, u2, u3}
  NoPeer = NoPeer
  WORKER_NUMBER = 2
  UINT_MAX = 15
  MaxTry = 1
  Tastes <- Steady
  CandidatesStay = FALSE
  QuittersStayOut = FALSE
  Pid <- OneMore
  MQ_MAXMSG = 10
SYMMETRY Symmetry
PROPERTIES ImplementsPool ImplementsMatching
CHECK_DEADLOCK FALSE
