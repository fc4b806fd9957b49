SPECIFICATION Spec
CONSTANTS
  Id = {u1, u2, u3}
  NoPeer = NoPeer
  WORKER_NUMBER = 2
  UINT_MAX = 15
  MaxTry = 2
  Tastes <- Steady
  CandidatesStay = FALSE
  QuittersStayOut = FALSE
SYMMETRY Symmetry
INVARIANTS
  TypeOK JobsAccounted WorkConserving QueuedOnce PartnersAgree
CHECK_DEADLOCK FALSE
