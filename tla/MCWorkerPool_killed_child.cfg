SPECIFICATION Spec
CONSTANTS
  WORKER_NUMBER = 3
  Pid <- OneMore
  MQ_MAXMSG = 10
  Job = {job}
  Ids <- WholeJob
INVARIANT KilledChildrenAwaited
CHECK_DEADLOCK FALSE
