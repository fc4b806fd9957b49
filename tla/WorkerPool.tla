----------------------------- MODULE WorkerPool -----------------------------
(***************************************************************************)
(* The worker processes, the three POSIX message queues between them and   *)
(* the main process, and the main loop's handling of the children that a   *)
(* filter crashes and of the children that replace them.                   *)
(*                                                                         *)
(* A worker announces a job on one queue (ReportPid) and its result on     *)
(* another (ReportJob); a crash is a SIGCHLD on the signal fd.  The main   *)
(* process keeps job_record and killed_child to know which job a dead      *)
(* child was on.  One pass of the loop serves each fd that select() found  *)
(* readable once, in the order of their numbers, which is the order in     *)
(* which main() opened them.                                               *)
(*                                                                         *)
(* An action of this module leaves from_main, working_job and what is done *)
(* with a report to the match queue.  Module MatchServer conjoins it with  *)
(* the handlers of module Matching; the specification below has instead a  *)
(* match queue of which no more is known than that each report frees a     *)
(* slot and that free slots are filled with new jobs at any time.          *)
(***************************************************************************)
EXTENDS Integers, SequencesExt

CONSTANTS
  WORKER_NUMBER,    \* config.hpp: the number of worker processes
  Pid,              \* the children, numbered as they are forked; never reused
  MQ_MAXMSG,        \* mq.cpp: mq_maxmsg of each queue
  Job,              \* what main sends to a worker
  Ids(_)            \* what a report says of a job

ASSUME PoolAssumption ==
  /\ WORKER_NUMBER \in Nat \ {0}
  /\ IsFiniteSet(Pid) /\ Pid = 1..Cardinality(Pid)
  /\ WORKER_NUMBER <= Cardinality(Pid)
  /\ MQ_MAXMSG \in Nat /\ WORKER_NUMBER <= MQ_MAXMSG

VARIABLES
  working_job,        \* the slots in use, of WORKER_NUMBER
  from_main, from_worker_pid, from_worker_job,   \* the message queues
  worker,             \* what each child does
  assigned,           \* the job it received
  sigchld,            \* SIGCHLD is pending, signal_fd is readable
  job_record, killed_child,
  read_fds            \* what is left of this pass of the main loop

poolVars == <<from_main, from_worker_pid, from_worker_job, worker, assigned,
              sigchld, job_record, killed_child, read_fds>>
allVars == <<working_job, poolVars>>

Idle == "mq_receive"        \* waiting for a job
NoJob == <<>>

PoolInit ==
  /\ from_main = <<>> /\ from_worker_pid = <<>> /\ from_worker_job = <<>>
  /\ worker = [p \in Pid |-> IF p <= WORKER_NUMBER THEN Idle ELSE "unborn"]
  /\ assigned = [p \in Pid |-> NoJob]
  /\ sigchld = FALSE
  /\ job_record = <<>> /\ killed_child = {}
  /\ read_fds = <<>>

-----------------------------------------------------------------------------
(* worker(): one job after the other.                                      *)

ReceiveJob(p) ==
  /\ worker[p] = Idle /\ from_main # <<>>
  /\ assigned' = [assigned EXCEPT ![p] = Head(from_main)]
  /\ from_main' = Tail(from_main)
  /\ worker' = [worker EXCEPT ![p] = "received"]
  /\ UNCHANGED <<from_worker_pid, from_worker_job, sigchld,
                 job_record, killed_child, read_fds>>

SendPid(p) ==
  /\ worker[p] = "received" /\ Len(from_worker_pid) < MQ_MAXMSG
  /\ from_worker_pid' =
       Append(from_worker_pid, [pid |-> p, ids |-> Ids(assigned[p])])
  /\ worker' = [worker EXCEPT ![p] = "do_job"]
  /\ UNCHANGED <<from_main, from_worker_job, assigned, sigchld,
                 job_record, killed_child, read_fds>>

\* The job is done, with this result.
SendReport(p, result) ==
  /\ worker[p] = "do_job" /\ Len(from_worker_job) < MQ_MAXMSG
  /\ from_worker_job' = Append(from_worker_job,
       [pid |-> p, ids |-> Ids(assigned[p]), result |-> result])
  /\ worker' = [worker EXCEPT ![p] = Idle]
  /\ assigned' = [assigned EXCEPT ![p] = NoJob]
  /\ UNCHANGED <<from_main, from_worker_pid, sigchld,
                 job_record, killed_child, read_fds>>

\* A filter, or the loading of its library, brings its worker down.
\* Bound: as long as there are fresh pids.
Crash(p) ==
  /\ worker[p] = "do_job"
  /\ Cardinality({q \in Pid : worker[q] = "unborn"})
       > Cardinality({q \in Pid : worker[q] = "zombie"})
  /\ worker' = [worker EXCEPT ![p] = "zombie"]
  /\ assigned' = [assigned EXCEPT ![p] = NoJob]
  /\ sigchld' = TRUE
  /\ UNCHANGED <<from_main, from_worker_pid, from_worker_job,
                 job_record, killed_child, read_fds>>

WorkerNext(p) ==
  ReceiveJob(p) \/ SendPid(p) \/ \E result \in BOOLEAN : SendReport(p, result)

-----------------------------------------------------------------------------
(* The main loop.                                                          *)

IfReady(fd, ready) == IF ready THEN <<fd>> ELSE <<>>

\* Mutant: else if, so that a pass reads a job report or a pid report.
ReadyFdsJobOrPid(clients) ==
  IfReady("signal", sigchld) \o IfReady("job", from_worker_job # <<>>)
    \o IfReady("pid", from_worker_job = <<>> /\ from_worker_pid # <<>>)
    \o IfReady("clients", clients)

\* Mutants: a queue that is not in the fd_set of select().
ReadyFdsNoPid(clients) == IfReady("signal", sigchld) \o IfReady("job", from_worker_job # <<>>)
                          \o IfReady("clients", clients)
ReadyFdsNoJob(clients) == IfReady("signal", sigchld) \o IfReady("pid", from_worker_pid # <<>>)
                          \o IfReady("clients", clients)

\* The readable fds, in the order in which they are looked at.
ReadyFds(clients) ==
  IfReady("signal", sigchld) \o IfReady("job", from_worker_job # <<>>)
    \o IfReady("pid", from_worker_pid # <<>>) \o IfReady("clients", clients)

Select ==
  /\ read_fds = <<>>
  /\ \E clientsReady \in BOOLEAN : read_fds' = ReadyFds(clientsReady)
  /\ read_fds' # <<>>
  /\ UNCHANGED <<from_main, from_worker_pid, from_worker_job, worker,
                 assigned, sigchld, job_record, killed_child>>

Turn(fd) == read_fds # <<>> /\ Head(read_fds) = fd

\* handle_report erases the record of the child that reports.
Erase(pid) == job_record' = Restrict(job_record, DOMAIN job_record \ {pid})

\* The job of a dead child is reported as refused.
Refused(record) == [pid |-> record.pid, ids |-> record.ids, result |-> FALSE]

JobReady ==
  /\ Turn("job")
  /\ Erase(Head(from_worker_job).pid)
  /\ from_worker_job' = Tail(from_worker_job)
  /\ read_fds' = Tail(read_fds)
  /\ UNCHANGED <<from_worker_pid, worker, assigned, sigchld, killed_child>>

\* handle_report_pid: of a child that is dead, whose job is now known ...
PidOfKilled ==
  LET report == Head(from_worker_pid)
  IN /\ Turn("pid") /\ report.pid \in killed_child
     /\ killed_child' = killed_child \ {report.pid}
     /\ Erase(report.pid)
     /\ from_worker_pid' = Tail(from_worker_pid)
     /\ read_fds' = Tail(read_fds)
     /\ UNCHANGED <<from_worker_job, worker, assigned, sigchld>>

\* ... or of one that is taken to be alive.
PidOfAlive ==
  LET report == Head(from_worker_pid)
  IN /\ Turn("pid") /\ report.pid \notin killed_child
     /\ job_record' = [p \in DOMAIN job_record \union {report.pid} |->
                         IF p = report.pid THEN report ELSE job_record[p]]
     /\ from_worker_pid' = Tail(from_worker_pid)
     /\ read_fds' = Tail(read_fds)
     /\ UNCHANGED <<from_main, from_worker_job, worker, assigned, sigchld,
                    killed_child>>

\* Reading the signal fd takes the one pending SIGCHLD; waitpid then reaps
\* every child that is dead by now, one per iteration.
ReadSignal ==
  /\ Turn("signal")
  /\ sigchld' = FALSE
  /\ read_fds' = <<"waitpid">> \o Tail(read_fds)
  /\ UNCHANGED <<from_main, from_worker_pid, from_worker_job, worker,
                 assigned, job_record, killed_child>>

\* Mutant: no new child.
OneWorkerFewer(p) == [worker EXCEPT ![p] = "reaped"]

\* new_child forks the next pid.
OneForAnother(p) ==
  LET child == CHOOSE q \in Pid : worker[q] = "unborn" /\ worker[q-1] # "unborn"
  IN [worker EXCEPT ![p] = "reaped", ![child] = Idle]

\* Mutant: the child is remembered as killed in either case.
ReapRecordedKilled(p) ==
  /\ Turn("waitpid") /\ worker[p] = "zombie"
  /\ p \in DOMAIN job_record
  /\ worker' = OneForAnother(p)
  /\ killed_child' = killed_child \union {p}
  /\ Erase(p)
  /\ UNCHANGED <<from_worker_pid, from_worker_job, assigned, sigchld, read_fds>>

\* handle_child_crash: the job of the child is known ...
ReapRecorded(p) ==
  /\ Turn("waitpid") /\ worker[p] = "zombie"
  /\ p \in DOMAIN job_record
  /\ worker' = OneForAnother(p)
  /\ Erase(p)
  /\ UNCHANGED <<from_worker_pid, from_worker_job, assigned, sigchld,
                 killed_child, read_fds>>

\* ... or its pid report is taken to be still on its way.
ReapUnrecorded(p) ==
  /\ Turn("waitpid") /\ worker[p] = "zombie"
  /\ p \notin DOMAIN job_record
  /\ worker' = OneForAnother(p)
  /\ killed_child' = killed_child \union {p}
  /\ UNCHANGED <<from_main, from_worker_pid, from_worker_job, assigned, sigchld,
                 job_record, read_fds>>

\* Mutant: if for while around waitpid.
ReapsOneChild ==
  /\ Turn("waitpid")
  /\ read_fds' = Tail(read_fds)
  /\ UNCHANGED <<from_main, from_worker_pid, from_worker_job, worker,
                 assigned, sigchld, job_record, killed_child>>

NoMoreChildren ==
  /\ Turn("waitpid")
  /\ \A p \in Pid : worker[p] # "zombie"
  /\ read_fds' = Tail(read_fds)
  /\ UNCHANGED <<from_main, from_worker_pid, from_worker_job, worker,
                 assigned, sigchld, job_record, killed_child>>

\* The client sockets come last in the pass; one recv may bring several
\* commands.
ClientReady ==
  /\ Turn("clients")
  /\ UNCHANGED <<from_worker_pid, from_worker_job, worker, assigned, sigchld,
                 job_record, killed_child, read_fds>>

NoMoreClients ==
  /\ Turn("clients")
  /\ read_fds' = Tail(read_fds)
  /\ UNCHANGED <<from_main, from_worker_pid, from_worker_job, worker,
                 assigned, sigchld, job_record, killed_child>>

\* The steps that hand a report to the match queue, and those that do not
\* reach it.
Reports == JobReady \/ PidOfKilled \/ \E p \in Pid : ReapRecorded(p)

Bookkeeping ==
  \/ Select \/ PidOfAlive \/ ReadSignal \/ NoMoreChildren \/ NoMoreClients
  \/ \E p \in Pid : ReapUnrecorded(p)

-----------------------------------------------------------------------------
(* The pool with any match queue.                                          *)

\* arrange_job, with the given number of slots in use
Arrange(working) ==
  \E n \in 0..(WORKER_NUMBER - working) :
    \E new \in [1..n -> Job] :
      /\ working_job' = working + n
      /\ from_main' = from_main \o new

MainNext ==
  \/ Reports /\ Arrange(working_job - 1)
  \/ Bookkeeping /\ UNCHANGED working_job

Next ==
  \/ MainNext
  \/ ClientReady /\ Arrange(working_job)
  \/ \E p \in Pid : (WorkerNext(p) \/ Crash(p)) /\ UNCHANGED working_job

Init == PoolInit /\ working_job = 0

Spec == Init /\ [][Next]_allVars

\* The main loop keeps running, and so does every worker: filters end.  (No
\* fairness on the clients, which need not do anything, nor on Crash.)
FairSpec ==
  /\ Spec
  /\ WF_allVars(MainNext)
  /\ \A p \in Pid : WF_allVars(WorkerNext(p) /\ UNCHANGED working_job)

-----------------------------------------------------------------------------
ReportPid == [pid : Pid, ids : {Ids(job) : job \in Job}]
ReportJob == [pid : Pid, ids : {Ids(job) : job \in Job}, result : BOOLEAN]

PoolTypeOK ==
  /\ working_job \in 0..WORKER_NUMBER
  /\ from_main \in Seq(Job)
  /\ from_worker_pid \in Seq(ReportPid)
  /\ from_worker_job \in Seq(ReportJob)
  /\ worker \in [Pid -> {"unborn", Idle, "received", "do_job", "zombie", "reaped"}]
  /\ assigned \in [Pid -> Job \union {NoJob}]
  /\ sigchld \in BOOLEAN
  /\ DOMAIN job_record \subseteq Pid
  /\ \A p \in DOMAIN job_record : job_record[p] \in ReportPid
  /\ killed_child \subseteq Pid
  /\ read_fds \in Seq({"signal", "waitpid", "job", "pid", "clients"})

Busy == {p \in Pid : worker[p] \in {"received", "do_job"}}
Zombies == {p \in Pid : worker[p] = "zombie"}
Dead == {p \in Pid : worker[p] \in {"zombie", "reaped"}}

\* Every job that is queued, run, or reported but not read, and every dead
\* child whose job was not given up yet, has its slot in working_job: no job
\* is given back twice, so the counter cannot wrap; and from_main cannot fill
\* up, on which the main process would block.
InFlightCounted ==
  Len(from_main) + Cardinality(Busy) + Len(from_worker_job)
    + Cardinality(Zombies) + Cardinality(killed_child) <= working_job

\* Until enough children have died no worker has to wait for room in the queue
\* of pid reports, although a pass of the main loop reads one of them only and
\* each worker writes one per job: with the 4 workers and 10 messages of the
\* code, not before the sixth child is dead.  By the report of each child that
\* dies on a job the main loop can fall behind for good.
PidReportsFit ==
  Cardinality(Dead) <= MQ_MAXMSG - WORKER_NUMBER - 1
    => \A p \in Pid : worker[p] = "received" => Len(from_worker_pid) < MQ_MAXMSG

\* ... and afterwards a worker that has to wait does so for the main loop only,
\* which never waits for a worker: there is room again some time.
PidQueueDrains ==
  (Len(from_worker_pid) = MQ_MAXMSG) ~> (Len(from_worker_pid) < MQ_MAXMSG)

\* A crashed child is replaced, however many die at a time.
PoolKeepsItsSize ==
  Cardinality({p \in Pid : worker[p] \in {Idle, "received", "do_job", "zombie"}})
    = WORKER_NUMBER

\* ... and it is replaced some time, although SIGCHLD is not queued.
CrashesAreReaped ==
  \A p \in Pid : (worker[p] = "zombie") ~> (worker[p] = "reaped")

\* When the clients leave the server alone and no child dies, every job is run
\* and reported, and its slot comes back.
SlotsComeBack ==
  <>[][Len(from_main') <= Len(from_main)]_allVars
    => []<>(working_job = 0 \/ Dead # {})

\* handle_child_crash: "ReportPid not received yet" of a child that is put
\* into killed_child, so the report is still to be read.
KilledChildrenAwaited ==
  \A p \in killed_child :
    \E i \in DOMAIN from_worker_pid : from_worker_pid[i].pid = p
=============================================================================
