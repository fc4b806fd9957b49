---------------------------- MODULE MatchServer ----------------------------
(***************************************************************************)
(* The whole of the matching: the main process with its match queue, and   *)
(* its pool of workers.  A step of the pool that hands a report to the     *)
(* match queue is a step of both: the handler of module MatchQueue sees to *)
(* the users and starts new jobs, which go into the queue to the workers.  *)
(***************************************************************************)
EXTENDS Matching

CONSTANTS
  Pid,          \* the children, numbered as they are forked; never reused
  MQ_MAXMSG     \* mq.cpp: mq_maxmsg of each queue

ASSUME ServerAssumption ==
  /\ IsFiniteSet(Pid) /\ Pid = 1..Cardinality(Pid)
  /\ WORKER_NUMBER <= Cardinality(Pid)
  /\ MQ_MAXMSG \in Nat /\ WORKER_NUMBER <= MQ_MAXMSG

VARIABLES
  from_main, from_worker_pid, from_worker_job, worker, assigned, sigchld,
  job_record, killed_child, read_fds               \* see module WorkerPool

\* What a report says of its job: two ids, and no try_match_counter.
\* Mutant: the wrong way round.
IdsSwapped(job) == [trying_id |-> job.candidate_info.id,
                    candidate_id |-> job.trying_info.id]

Ids(job) == [trying_id |-> job.trying_info.id,
             candidate_id |-> job.candidate_info.id]

Request == [id : Id, counter : 1..MaxTry]

Pool == INSTANCE WorkerPool WITH
  Job <- [trying_info : Request, candidate_info : Request]

poolVars == <<from_main, from_worker_pid, from_worker_job, worker, assigned,
              sigchld, job_record, killed_child, read_fds>>
serverVars == <<vars, poolVars>>

ServerInit == Init /\ Pool!PoolInit

-----------------------------------------------------------------------------
\* jobs without the one a report is about
Outstanding(ids) == RemoveFirstMatch(jobs, LAMBDA job : Ids(job) = ids)

\* Mutant: everything that is out is sent once more.
SendAll(js) == from_main' = from_main \o jobs'

\* arrange_job puts the new jobs, those beyond js, into from_main.
SendNew(js) == from_main' = from_main \o SubSeq(jobs', Len(js) + 1, Len(jobs'))

HandleReportOf(report) ==
  LET js == Outstanding(report.ids)
      verdict == [trying_id |-> report.ids.trying_id,
                  candidate_id |-> report.ids.candidate_id,
                  result |-> report.result]
  IN /\ HandleReport(verdict, js)
     /\ SendNew(js)
     /\ UNCHANGED likes

JobReady == Pool!JobReady /\ HandleReportOf(Head(from_worker_job))

PidOfKilled ==
  Pool!PidOfKilled /\ HandleReportOf(Pool!Refused(Head(from_worker_pid)))

ReapRecorded(p) ==
  Pool!ReapRecorded(p) /\ HandleReportOf(Pool!Refused(job_record[p]))

ClientReady(id) == Pool!ClientReady /\ ClientStep(id) /\ SendNew(jobs)

\* worker(), with the verdict of the two filters
WorkerNext(p) ==
  \/ Pool!ReceiveJob(p) \/ Pool!SendPid(p)
  \/ Pool!SendReport(p, DoJob(assigned[p]))

ServerNext ==
  /\ process = "running"
  /\ \/ JobReady \/ PidOfKilled \/ \E p \in Pid : ReapRecorded(p)
     \/ \E id \in Id : ClientReady(id)
     \/ Pool!Bookkeeping /\ UNCHANGED vars
     \/ \E p \in Pid : (WorkerNext(p) \/ Pool!Crash(p)) /\ UNCHANGED vars

ServerSpec == ServerInit /\ [][ServerNext]_serverVars

-----------------------------------------------------------------------------
\* The match queue is one that the pool can live with: a report frees one
\* slot, nothing but a report does, and no more jobs are sent than there are
\* free slots, whatever the clients do and the filters crash.  So what the
\* pool promises with any match queue holds with this one.
ImplementsPool == Pool!Spec

\* As long as no child has died the pool is what module Matching takes for
\* granted of it: no report is lost, doubled, or taken for another one.
ImplementsMatching == Init /\ [][Pool!Dead' = {} => Next]_vars
=============================================================================
