----------------------------- MODULE MatchQueue -----------------------------
(***************************************************************************)
(* Class MatchQueue of match_queue.cpp, run by the main process.           *)
(*                                                                         *)
(* A user that asks for a match (try_match) walks down candidate_queue: it *)
(* is tried against one candidate after another and, when the last one has *)
(* refused it, becomes a candidate itself.  The users on that walk are in  *)
(* trying_queue; each trial is a job that a worker process runs and        *)
(* reports.                                                                *)
(*                                                                         *)
(* This module has the state and the handlers, each one an action with the *)
(* arrange_job() it ends in, and the three commands of a client that reach *)
(* them.  Module Matching composes them with workers that report every job *)
(* exactly once, module MatchServer with the real processes and queues.    *)
(***************************************************************************)
EXTENDS Integers, SequencesExt

CONSTANTS
  Id,               \* unique_id of the clients; main() never reuses one
  NoPeer,           \* match_fd = -1
  WORKER_NUMBER,    \* config.hpp: the number of worker processes
  UINT_MAX,         \* the largest unsigned int (working_job is one)
  MaxTry,           \* bound: how often one client asks for a match
  Tastes,           \* the relations "the filter of a accepts the user b"
  CandidatesStay,   \* if TRUE, no client leaves while it is being tried
  QuittersStayOut   \* if TRUE, no client asks again while in quit_set

ASSUME ConstantsAssumption ==
  /\ WORKER_NUMBER \in Nat \ {0}
  /\ UINT_MAX \in Nat /\ WORKER_NUMBER <= UINT_MAX
  /\ MaxTry \in Nat
  /\ NoPeer \notin Id
  /\ {CandidatesStay, QuittersStayOut} \subseteq BOOLEAN

(***************************************************************************)
(* One request for a match: the id of the client and its                   *)
(* try_match_counter.  A client enters candidate_queue at most once for    *)
(* each request, so an Info also names the list node a matchingWith        *)
(* pointer points to.                                                      *)
(***************************************************************************)
Info == [id : Id, counter : Nat]

TryingUser == [info : Info, matchingWith : Info,
               progress : {"WAITING", "PROCESSING"}]

AssignJob == [trying_info : Info, candidate_info : Info]

VARIABLES
  candidate_queue, trying_queue,          \* the two linked lists
  working_job, quit_set,
  jobs,      \* jobs sent and not yet reported, in the order they were sent
  process,   \* "running", or "undefined" once a null or freed node is read
  status, try_match_counter, match_peer,  \* fields of each Client
  matched,   \* history: the pairs that were sent "matched"
  likes      \* the taste of the users, which never changes

queueVars  == <<candidate_queue, trying_queue, working_job, jobs>>
clientVars == <<status, try_match_counter, match_peer, matched>>
vars == <<queueVars, quit_set, process, clientVars, likes>>

Init ==
  /\ candidate_queue = <<>> /\ trying_queue = <<>>
  /\ working_job = 0 /\ quit_set = {}
  /\ jobs = <<>> /\ process = "running"
  /\ status = [i \in Id |-> "IDLE"]
  /\ try_match_counter = [i \in Id |-> 0]
  /\ match_peer = [i \in Id |-> NoPeer]
  /\ matched = {}
  /\ likes \in Tastes

-----------------------------------------------------------------------------
(* Searches in the lists: the index of the first hit, 0 for nullptr.       *)

TryingAt(t, id) == SelectInSeq(t, LAMBDA u : u.info.id = id)

CandidateAt(c, id) == SelectInSeq(c, LAMBDA n : n.id = id)

TryingWith(t, node) == SelectInSeq(t, LAMBDA u : u.matchingWith = node)

\* Mutant: nobody is sent on.
NobodyBehind(t, first, node) == {}

\* The users that wait for node in one run from position first on.
RunFrom(t, first, node) ==
  {i \in DOMAIN t : /\ first <= i
                    /\ \A k \in first..i : t[k].matchingWith = node}

(***************************************************************************)
(* Removes the candidate at position p, after the users that wait for it   *)
(* were sent on.  These are the run of users from position first on.  If   *)
(* the candidate is the last one, the first of them has nobody left to be  *)
(* tried against and becomes a candidate.                                  *)
(***************************************************************************)
DropCandidate(c, t, p, first) ==
  LET promote == /\ p = Len(c)
                 /\ first \in DOMAIN t
                 /\ t[first].matchingWith = c[p]
      c1 == IF promote THEN Append(c, t[first].info) ELSE c
      t1 == IF promote THEN RemoveAt(t, first) ELSE t
      behind == RunFrom(t1, first, c[p])
  IN [candidates |-> RemoveAt(c1, p),
      trying |-> [i \in DOMAIN t1 |->
                    IF i \in behind
                    THEN [t1[i] EXCEPT !.matchingWith = c1[p+1]]
                    ELSE t1[i]]]

(***************************************************************************)
(* arrange_job: from the head of trying_queue on, starts the trial of      *)
(* every waiting user that is not queued behind another one for the same   *)
(* candidate, while a worker is free.  A StartOrder lists their positions. *)
(***************************************************************************)
\* Mutant: a second user is tried against a candidate that is busy.
EligibleInParallel(t) == {i \in DOMAIN t : t[i].progress = "WAITING"}

Eligible(t) ==
  {i \in DOMAIN t : /\ t[i].progress = "WAITING"
                    /\ i > 1 => t[i-1].matchingWith # t[i].matchingWith}

\* Mutants: working_job <= WORKER_NUMBER; working_job + 1 < WORKER_NUMBER.
OneMoreWorker(working) ==
  IF working <= WORKER_NUMBER THEN WORKER_NUMBER + 1 - working ELSE 0

OneWorkerLess(working) ==
  IF working + 1 < WORKER_NUMBER THEN WORKER_NUMBER - 1 - working ELSE 0

FreeWorkers(working) ==
  IF working < WORKER_NUMBER THEN WORKER_NUMBER - working ELSE 0

StartOrder(t, working) ==
  LET E == Eligible(t)
      free == FreeWorkers(working)
      n == IF Cardinality(E) <= free THEN Cardinality(E) ELSE free
  IN {f \in [1..n -> E] :
        \A k \in 1..n : Cardinality({j \in E : j < f[k]}) = k - 1}

\* Mutant: the job names the candidate only by its id.
JobOfIds(u) == [trying_info |-> u.info, candidate_info |-> u.matchingWith.id]

JobOf(u) == [trying_info |-> u.info, candidate_info |-> u.matchingWith]

\* Ends every handler that changed the queues to c and t, with the given
\* working_job and outstanding jobs.
ArrangeJob(c, t, working, js) ==
  \E f \in StartOrder(t, working) :
    /\ candidate_queue' = c
    /\ trying_queue' = [i \in DOMAIN t |->
                          IF i \in Range(f)
                          THEN [t[i] EXCEPT !.progress = "PROCESSING"]
                          ELSE t[i]]
    /\ working_job' = working + Len(f)
    /\ jobs' = js \o [k \in DOMAIN f |-> JobOf(t[f[k]])]
    /\ process' = IF \A k \in DOMAIN f : t[f[k]].matchingWith \in Range(c)
                  THEN process ELSE "undefined"

-----------------------------------------------------------------------------
(* MatchQueue::add                                                         *)

\* Mutant: the walk starts at the tail.
NewcomerAtTail(info) == [info |-> info, matchingWith |-> Last(candidate_queue),
                         progress |-> "WAITING"]

Newcomer(info) == [info |-> info, matchingWith |-> Head(candidate_queue),
                   progress |-> "WAITING"]

Add(info) ==
  \/ /\ candidate_queue = <<>>
     /\ candidate_queue' = <<info>>
     /\ UNCHANGED <<trying_queue, working_job, jobs, process>>
  \/ /\ candidate_queue # <<>>
     /\ ArrangeJob(candidate_queue, Append(trying_queue, Newcomer(info)),
                   working_job, jobs)

(* MatchQueue::detach, called by handle_quit                               *)

Detach(id) ==
  LET i == TryingAt(trying_queue, id)
      p == CandidateAt(candidate_queue, id)
  IN /\ quit_set' = quit_set \union {id}
     /\ \/ /\ i # 0
           /\ ArrangeJob(candidate_queue, RemoveAt(trying_queue, i),
                         working_job, jobs)
        \/ /\ i = 0 /\ p # 0
           /\ LET first == TryingWith(trying_queue, candidate_queue[p])
                  d == DropCandidate(candidate_queue, trying_queue, p,
                         IF first = 0 THEN Len(trying_queue) + 1 ELSE first)
              IN ArrangeJob(d.candidates, d.trying, working_job, jobs)
        \/ /\ i = 0 /\ p = 0
           /\ UNCHANGED <<queueVars, process>>

-----------------------------------------------------------------------------
(***************************************************************************)
(* handle_report.  js are the outstanding jobs once this one is reported.  *)
(***************************************************************************)

\* working_job -= 1 on an unsigned int
OneJobLess == IF working_job = 0 THEN UINT_MAX ELSE working_job - 1

\* The report makes the handler read a null or freed node; what follows is
\* not modelled.
ReadsDeadNode(js) ==
  /\ process' = "undefined"
  /\ working_job' = OneJobLess /\ jobs' = js
  /\ UNCHANGED <<candidate_queue, trying_queue>>

\* Client::handle_match
Talk(a, b) ==
  /\ status' = [status EXCEPT ![a] = "TALKING", ![b] = "TALKING"]
  /\ match_peer' = [match_peer EXCEPT ![a] = b, ![b] = a]

\* MatchQueue::handle_match with detach_with_matcher: both sides are sent
\* "matched" and leave the queues.
HandleMatch(id, js) ==
  LET i == TryingAt(trying_queue, id)
      u == trying_queue[i]
      node == u.matchingWith
      p == CandidateAt(candidate_queue, node.id)
      d == DropCandidate(candidate_queue, trying_queue, p, i + 1)
  IN \/ /\ i = 0                              \* the user has quit
        /\ ArrangeJob(candidate_queue, trying_queue, OneJobLess, js)
        /\ UNCHANGED clientVars
     \/ /\ i # 0 /\ node \notin Range(candidate_queue)
        /\ ReadsDeadNode(js)
        /\ UNCHANGED clientVars
     \/ /\ i # 0 /\ node \in Range(candidate_queue)
        /\ ArrangeJob(d.candidates, RemoveAt(d.trying, i), OneJobLess, js)
        /\ Talk(id, node.id)
        /\ matched' = matched \union {{u.info, node}}
        /\ UNCHANGED try_match_counter

\* Mutant: the mark PROCESSING stays on.
SentOnMarked(u, node) == [u EXCEPT !.matchingWith = node]

SentOn(u, node) == [u EXCEPT !.matchingWith = node, !.progress = "WAITING"]

\* Mutant: the walk ends one candidate early.
AlmostLast(p) == p + 1 >= Len(candidate_queue)

LastCandidate(p) == p = Len(candidate_queue)

\* The user moves on to the next candidate, or joins the candidates.
MoveOn(id, js) ==
  LET i == TryingAt(trying_queue, id)
      u == trying_queue[i]
      p == CandidateAt(candidate_queue, u.matchingWith.id)
      last == LastCandidate(p)
  IN IF i # 0 /\ u.matchingWith \in Range(candidate_queue)
     THEN ArrangeJob(
            IF last THEN Append(candidate_queue, u.info) ELSE candidate_queue,
            IF last THEN RemoveAt(trying_queue, i)
                    ELSE [trying_queue EXCEPT
                            ![i] = SentOn(u, candidate_queue[p+1])],
            OneJobLess, js)
     ELSE ReadsDeadNode(js)

HandleReport(report, js) ==
  \/ /\ report.result
     /\ HandleMatch(report.trying_id, js)
     /\ UNCHANGED quit_set
  \/ /\ ~report.result
     /\ {report.trying_id, report.candidate_id} \intersect quit_set # {}
     /\ quit_set' = quit_set \ {IF report.trying_id \in quit_set
                                THEN report.trying_id
                                ELSE report.candidate_id}
     /\ ArrangeJob(candidate_queue, trying_queue, OneJobLess, js)
     /\ UNCHANGED clientVars
  \/ /\ ~report.result
     /\ {report.trying_id, report.candidate_id} \intersect quit_set = {}
     /\ MoveOn(report.trying_id, js)
     /\ UNCHANGED <<quit_set, clientVars>>

-----------------------------------------------------------------------------
(***************************************************************************)
(* The commands in main.cpp.  The status is not looked at by try_match;   *)
(* module Matching says when clients send it.  A quit of an idle client    *)
(* does nothing.                                                           *)
(***************************************************************************)
TryMatch(id) ==
  LET counter == try_match_counter[id] + 1
  IN /\ status' = [status EXCEPT ![id] = "MATCHING"]
     /\ try_match_counter' = [try_match_counter EXCEPT ![id] = counter]
     /\ Add([id |-> id, counter |-> counter])
     /\ UNCHANGED <<quit_set, match_peer, matched, likes>>

\* Leaving a conversation or the queues; new is the client's own new status.
Leave(id, new) ==
  /\ \/ /\ status[id] = "TALKING"
        /\ status' = [status EXCEPT ![match_peer[id]] = "IDLE", ![id] = new]
        /\ UNCHANGED <<queueVars, quit_set, process>>
     \/ /\ status[id] = "MATCHING"
        /\ status' = [status EXCEPT ![id] = new]
        /\ Detach(id)
  /\ UNCHANGED <<try_match_counter, match_peer, matched, likes>>

Quit(id) == Leave(id, "IDLE")

\* Mutant: the socket is closed and nobody is told.
DisconnectOnly(id) ==
  /\ status[id] # "CLOSED"
  /\ status' = [status EXCEPT ![id] = "CLOSED"]
  /\ UNCHANGED <<queueVars, quit_set, process, try_match_counter,
                 match_peer, matched, likes>>

Disconnect(id) ==
  \/ Leave(id, "CLOSED")
  \/ /\ status[id] = "IDLE"
     /\ status' = [status EXCEPT ![id] = "CLOSED"]
     /\ UNCHANGED <<queueVars, quit_set, process, try_match_counter,
                    match_peer, matched, likes>>

=============================================================================
