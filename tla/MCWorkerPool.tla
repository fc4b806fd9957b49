---------------------------- MODULE MCWorkerPool ----------------------------
(* Instances of WorkerPool for TLC.                                        *)
EXTENDS WorkerPool

\* The match queue tells jobs apart; to the pool they are all alike.
WholeJob(job) == job

\* The pids that are used: one more than there are workers allows one crash.
OneMore == 1..(WORKER_NUMBER + 1)
TwoMore == 1..(WORKER_NUMBER + 2)
=============================================================================
