------------------------------ MODULE Matching ------------------------------
(***************************************************************************)
(* Class MatchQueue with the workers it takes for granted: a job that was  *)
(* sent is reported exactly once, some time later and in any order, with   *)
(* the verdict of the two filters.                                         *)
(*                                                                         *)
(* The two switches of module MatchQueue say what the clients may do.      *)
(* With both TRUE they do what the comments of the code call "the tests":  *)
(* a report never concerns a user that left or came back in the meantime.  *)
(***************************************************************************)
EXTENDS MatchQueue

\* do_job: the filter of the trying user is run on the candidate, then the
\* filter of the candidate on the trying user.
DoJob(job) ==
  /\ <<job.trying_info, job.candidate_info>> \in likes
  /\ <<job.candidate_info, job.trying_info>> \in likes

Report(i) ==
  LET report == [trying_id |-> jobs[i].trying_info.id,
                 candidate_id |-> jobs[i].candidate_info.id,
                 result |-> DoJob(jobs[i])]
  IN HandleReport(report, RemoveAt(jobs, i)) /\ UNCHANGED likes

\* What the clients may do: they ask for a match when they are idle, as the
\* protocol has it, and keep to the two switches.
MayTry(id) ==
  /\ status[id] = "IDLE"
  /\ try_match_counter[id] < MaxTry
  /\ QuittersStayOut => id \notin quit_set

MayLeave(id) ==
  CandidatesStay => \A i \in DOMAIN jobs : jobs[i].candidate_info.id # id

ClientStep(id) ==
  \/ MayTry(id) /\ TryMatch(id)
  \/ MayLeave(id) /\ Quit(id)
  \/ MayLeave(id) /\ Disconnect(id)

WorkerStep == \E i \in DOMAIN jobs : Report(i)

Next == /\ process = "running"
        /\ \/ \E id \in Id : ClientStep(id)
           \/ WorkerStep

Spec == Init /\ [][Next]_vars

-----------------------------------------------------------------------------
TypeOK ==
  /\ candidate_queue \in Seq(Info)
  /\ trying_queue \in Seq(TryingUser)
  /\ working_job \in 0..UINT_MAX
  /\ quit_set \subseteq Id
  /\ jobs \in Seq(AssignJob)
  /\ process \in {"running", "undefined"}
  /\ status \in [Id -> {"IDLE", "MATCHING", "TALKING", "CLOSED"}]
  /\ try_match_counter \in [Id -> Nat]
  /\ match_peer \in [Id -> Id \union {NoPeer}]
  /\ matched \subseteq SUBSET Info

\* working_job counts exactly the jobs that are out, whatever the clients
\* do: it never wraps below zero, no worker slot is lost, and no more than
\* WORKER_NUMBER jobs (from_main holds 10) are ever in from_main.
JobsAccounted ==
  /\ working_job = Len(jobs)
  /\ working_job <= WORKER_NUMBER

\* Between two handlers no worker is idle while a user could be tried: every
\* path through every handler, the early returns included, ends in
\* arrange_job.
WorkConserving ==
  process = "running" => Eligible(trying_queue) = {} \/ working_job = WORKER_NUMBER

InQueue(id) ==
  {<<"candidate", i>> : i \in {k \in DOMAIN candidate_queue : candidate_queue[k].id = id}}
    \union
  {<<"trying", i>> : i \in {k \in DOMAIN trying_queue : trying_queue[k].info.id = id}}

\* A client whose status is MATCHING is in one of the two queues, once; no
\* other client is.  (clients[id] in arrange_job and handle_match is never
\* a client that is gone, and detach always finds the one that quits.)
QueuedOnce ==
  process = "running" =>
    \A id \in Id :
      Cardinality(InQueue(id)) = IF status[id] = "MATCHING" THEN 1 ELSE 0

\* Conversations are between two: the peer of a client that talks talks to
\* it, so a quit or a disconnect always frees the right other side.
PartnersAgree ==
  \A id \in Id :
    status[id] = "TALKING" =>
      /\ match_peer[id] \in Id \ {id}
      /\ status[match_peer[id]] = "TALKING"
      /\ match_peer[match_peer[id]] = id

-----------------------------------------------------------------------------
(* What holds as long as the clients keep to the two switches.             *)

\* No handler reads a null or freed node.
NeverReadsDeadNode == process = "running"

\* Every matchingWith pointer points to a node of candidate_queue, and a user
\* is never tried further ahead than the users in front of it.
Position(u) == CandidateAt(candidate_queue, u.matchingWith.id)

PointersInOrder ==
  /\ \A i \in DOMAIN trying_queue :
       trying_queue[i].matchingWith \in Range(candidate_queue)
  /\ \A i, j \in DOMAIN trying_queue :
       i < j => Position(trying_queue[j]) <= Position(trying_queue[i])

\* A user is marked PROCESSING exactly while the job for it and the candidate
\* it points to is out, and only the first user in line for a candidate is.
\* (A mark without a job would never be taken off again.)
MarkedMeansTried ==
  \A i \in DOMAIN trying_queue :
    LET u == trying_queue[i]
    IN /\ u.progress = "PROCESSING" <=> JobOf(u) \in Range(jobs)
       /\ u.progress = "PROCESSING" /\ i > 1 =>
            trying_queue[i-1].matchingWith # u.matchingWith

\* Only users whose filters accept each other are ever sent "matched": a
\* verdict reaches the pair that was tried, even though a report names only
\* the trying user and handle_match reads the candidate from its pointer.
MatchedAcceptEachOther ==
  \A pair \in matched : \A a, b \in pair : a # b => <<a, b>> \in likes

\* The users that wait for a report that will never come.
Abandoned ==
  {u \in Range(trying_queue) :
     /\ u.progress = "PROCESSING"
     /\ \A k \in DOMAIN jobs : jobs[k].trying_info # u.info}

\* "If it is in quit_set, nothing needs to be done": a report that handle_report
\* drops because one of the two is in quit_set concerns no user that still
\* waits for it.
DroppedReportsNeedNothing ==
  [][quit_set \ quit_set' # {} => Abandoned' \subseteq Abandoned]_vars

\* Those who settled as candidates were all tried against each other: no two
\* of them accept one another.
CandidatesIncompatible ==
  \A i, j \in DOMAIN candidate_queue :
    i < j => ~DoJob([trying_info |-> candidate_queue[j],
                     candidate_info |-> candidate_queue[i]])

\* The pipeline of parallel trials matches as if the users were served one
\* at a time, first come first served (module FirstCompatible).
Promise == INSTANCE FirstCompatible WITH
  User <- [id : Id, counter : 1..MaxTry],
  waiting <- candidate_queue \o [i \in DOMAIN trying_queue |-> trying_queue[i].info]

ServesFirstCompatible == Promise!Spec
=============================================================================
