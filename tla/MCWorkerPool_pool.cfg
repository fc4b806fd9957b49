SPECIFICATION FairSpec
CONSTANTS
  WORKER_NUMBER = 2
  Pid <- TwoMore
  MQ_MAXMSG = 4
  Job = {job}
  Ids <- WholeJob
INVARIANTS PoolTypeOK InFlightCounted PidReportsFit PoolKeepsItsSize
PROPERTIES CrashesAreReaped SlotsComeBack PidQueueDrains
CHECK_DEADLOCK FALSE
