---------------------------- MODULE HeapMatching ----------------------------
(***************************************************************************)
(* Class MatchQueue once more, with the pointers of the code: the queues   *)
(* are linked lists of module LinkedList, matchingWith is the address of a *)
(* node, the handlers walk the lists as the loops of match_queue.cpp do,   *)
(* and a freed address is used again for the next node.  A node of     *)
(* candidate_queue holds an id only; the try_match_counter that goes into  *)
(* a job is the client's present one.                                      *)
(*                                                                         *)
(* It implements module Matching, in which the lists are sequences, a      *)
(* pointer is the request it points to, and each loop is one expression.   *)
(***************************************************************************)
EXTENDS Integers, SequencesExt

CONSTANTS Id, NoPeer, WORKER_NUMBER, UINT_MAX, MaxTry, Tastes,
          CandidatesStay, QuittersStayOut,      \* see module MatchQueue
          Addr, Null

\* new never fails: every client's node finds a place on the heap.
ASSUME HeapAssumption ==
  /\ IsFiniteSet(Id) /\ IsFiniteSet(Addr) /\ Cardinality(Id) <= Cardinality(Addr)
  /\ Addr \subseteq Nat /\ Null \notin Addr

L == INSTANCE LinkedList

VARIABLES
  candidates, trying,           \* candidate_queue and trying_queue
  working_job, quit_set, jobs, process,
  status, try_match_counter, match_peer, matched, likes

clientVars == <<status, try_match_counter, match_peer, matched>>
heapVars == <<candidates, trying, working_job, quit_set, jobs, process, clientVars, likes>>

\* The lists as module Matching has them.
Info(id) == [id |-> id, counter |-> try_match_counter[id]]

Dangling == [id |-> NoPeer, counter |-> 0]

Pointed(addr) ==
  IF addr \in DOMAIN candidates.node THEN Info(candidates.node[addr].value) ELSE Dangling

CandidateQueue ==
  [i \in DOMAIN L!Walk(candidates) |-> Info(candidates.node[L!Walk(candidates)[i]].value)]

TryingQueue ==
  [i \in DOMAIN L!Walk(trying) |->
     LET u == trying.node[L!Walk(trying)[i]].value
     IN [info |-> Info(u.id), matchingWith |-> Pointed(u.matchingWith),
         progress |-> u.progress]]

Abstract == INSTANCE Matching WITH
  candidate_queue <- CandidateQueue, trying_queue <- TryingQueue

ASSUME LimitsAssumption == Abstract!ConstantsAssumption

HeapInit ==
  /\ candidates = L!Empty /\ trying = L!Empty
  /\ working_job = 0 /\ quit_set = {}
  /\ jobs = <<>> /\ process = "running"
  /\ status = [i \in Id |-> "IDLE"]
  /\ try_match_counter = [i \in Id |-> 0]
  /\ match_peer = [i \in Id |-> NoPeer]
  /\ matched = {}
  /\ likes \in Tastes

-----------------------------------------------------------------------------
(* The loops.  h holds the lists, working_job and jobs while a handler     *)
(* runs; ok becomes FALSE when a null or freed node is read.               *)

\* Where new puts the next node.  Which of the free addresses it is matters to
\* dangling pointers only; this one is used again soon.
New(list) == Min(Addr \ DOMAIN list.node)

Now == [candidates |-> candidates, trying |-> trying, working_job |-> working_job,
        jobs |-> jobs, ok |-> TRUE]

\* arrange_job, for one user
Start(h, iter, counter) ==
  LET u == h.trying.node[iter].value
      other == h.candidates.node[u.matchingWith].value
  IN IF u.matchingWith \notin DOMAIN h.candidates.node THEN [h EXCEPT !.ok = FALSE]
     ELSE [h EXCEPT !.trying.node[iter].value.progress = "PROCESSING",
                    !.working_job = @ + 1,
                    !.jobs = Append(@, [trying_info |-> [id |-> u.id, counter |-> counter[u.id]],
                                        candidate_info |-> [id |-> other, counter |-> counter[other]]])]

\* ... and for one user after the other, with the counters of the clients.  A
\* loop has no more rounds than there are addresses, and a round after its end
\* changes nothing.
MayStart(h, iter) ==
  LET node == h.trying.node[iter]
  IN /\ node.value.progress = "WAITING"
     /\ node.prev # Null =>
          h.trying.node[node.prev].value.matchingWith # node.value.matchingWith

ArrangeRound(at, counter) ==
  IF at.iter = Null \/ at.h.working_job >= WORKER_NUMBER THEN at
  ELSE [h |-> IF MayStart(at.h, at.iter) THEN Start(at.h, at.iter, counter) ELSE at.h,
        iter |-> at.h.trying.node[at.iter].next]

Arrange(h, counter) ==
  LET after[n \in 0..Cardinality(Addr)] ==
        IF n = 0 THEN [h |-> h, iter |-> h.trying.head]
        ELSE ArrangeRound(after[n-1], counter)
  IN after[Cardinality(Addr)].h

\* while (iter != nullptr && iter->value.matchingWith == from)
SendRound(at, from, to) ==
  IF at.iter = Null \/ at.list.node[at.iter].value.matchingWith # from THEN at
  ELSE [list |-> [at.list EXCEPT !.node[at.iter].value.matchingWith = to],
        iter |-> at.list.node[at.iter].next]

SendOn(list, iter, from, to) ==
  LET after[n \in 0..Cardinality(Addr)] ==
        IF n = 0 THEN [list |-> list, iter |-> iter]
        ELSE SendRound(after[n-1], from, to)
  IN after[Cardinality(Addr)].list

\* The first user behind the tail becomes a candidate, in a new node.
Promote(h, iter) ==
  [h EXCEPT !.candidates = L!PushBack(@, New(@), h.trying.node[iter].value.id),
            !.trying = L!Erase(@, iter)]

IsBehind(h, iter, candidate_node) ==
  IF iter = Null THEN FALSE ELSE h.trying.node[iter].value.matchingWith = candidate_node

\* Ends a handler in arrange_job, with the given counters of the clients.
Finish(h, counter) ==
  LET end == Arrange(h, counter)
  IN /\ candidates' = end.candidates /\ trying' = end.trying
     /\ working_job' = end.working_job /\ jobs' = end.jobs
     /\ process' = IF end.ok THEN process ELSE "undefined"

-----------------------------------------------------------------------------
(* The handlers of match_queue.cpp.                                        *)

TryingNode(id) == L!Search(trying, LAMBDA u : u.id = id)
CandidateNode(id) == L!Search(candidates, LAMBDA other : other = id)

Add(id, counter) ==
  \/ /\ candidates.head = Null
     /\ candidates' = L!PushBack(candidates, New(candidates), id)
     /\ UNCHANGED <<trying, working_job, jobs, process>>
  \/ /\ candidates.head # Null
     /\ Finish([Now EXCEPT !.trying = L!PushBack(@, New(@),
                  [id |-> id, matchingWith |-> candidates.head, progress |-> "WAITING"])],
               counter)

\* detach of a candidate
DropNode(h, node) ==
  LET iter == L!Search(h.trying, LAMBDA u : u.matchingWith = node)
      promote == node = h.candidates.tail /\ IsBehind(h, iter, node)
      h1 == IF promote THEN Promote(h, iter) ELSE h
      iter1 == IF promote THEN h.trying.node[iter].next ELSE iter
      next == h1.candidates.node[node].next
  IN [h1 EXCEPT !.trying = SendOn(@, iter1, node, next),
                !.candidates = L!Erase(@, node)]

Detach(id) ==
  LET trying_node == TryingNode(id)
      candidate_node == CandidateNode(id)
  IN /\ quit_set' = quit_set \union {id}
     /\ \/ /\ trying_node # Null
           /\ Finish([Now EXCEPT !.trying = L!Erase(@, trying_node)], try_match_counter)
        \/ /\ trying_node = Null /\ candidate_node # Null
           /\ Finish(DropNode(Now, candidate_node), try_match_counter)
        \/ /\ trying_node = Null /\ candidate_node = Null
           /\ UNCHANGED <<candidates, trying, working_job, jobs, process>>

\* Mutant: next is read before the node behind it is freed.
DetachWithMatcherStale(h, trying_node) ==
  LET node == h.trying.node[trying_node].value.matchingWith
      iter == h.trying.node[trying_node].next
      promote == node = h.candidates.tail /\ IsBehind(h, iter, node)
      h1 == IF promote THEN Promote(h, iter) ELSE h
      next == h1.candidates.node[node].next
  IN [h1 EXCEPT !.trying = L!Erase(IF promote THEN @ ELSE SendOn(@, iter, node, next),
                                   trying_node),
                !.candidates = L!Erase(@, node)]

DetachWithMatcher(h, trying_node) ==
  LET node == h.trying.node[trying_node].value.matchingWith
      iter == h.trying.node[trying_node].next
      promote == node = h.candidates.tail /\ IsBehind(h, iter, node)
      h1 == IF promote THEN Promote(h, iter) ELSE h
      next == h1.candidates.node[node].next
      iter1 == h1.trying.node[trying_node].next
  IN [h1 EXCEPT !.trying = L!Erase(SendOn(@, iter1, node, next), trying_node),
                !.candidates = L!Erase(@, node)]

\* What handle_report has done before anything else: one job less.
Reported(js) ==
  [Now EXCEPT !.working_job = IF @ = 0 THEN UINT_MAX ELSE @ - 1, !.jobs = js]

ReadsDeadNode(js) ==
  /\ process' = "undefined"
  /\ working_job' = Reported(js).working_job /\ jobs' = js
  /\ UNCHANGED <<candidates, trying>>

HandleMatch(id, js) ==
  LET trying_node == TryingNode(id)
      node == trying.node[trying_node].value.matchingWith
      other == candidates.node[node].value
  IN \/ /\ trying_node = Null
        /\ Finish(Reported(js), try_match_counter)
        /\ UNCHANGED clientVars
     \/ /\ trying_node # Null /\ node \notin DOMAIN candidates.node
        /\ ReadsDeadNode(js)
        /\ UNCHANGED clientVars
     \/ /\ trying_node # Null /\ node \in DOMAIN candidates.node
        /\ Finish(DetachWithMatcher(Reported(js), trying_node), try_match_counter)
        /\ Abstract!Talk(id, other)
        /\ matched' = matched \union {{Info(id), Info(other)}}
        /\ UNCHANGED try_match_counter

\* Mutant: the mark PROCESSING stays on.
NextNodeMarked(list, trying_node, node) ==
  [list EXCEPT !.node[trying_node].value.matchingWith = node]

NextNode(list, trying_node, node) ==
  [list EXCEPT !.node[trying_node].value.matchingWith = node,
               !.node[trying_node].value.progress = "WAITING"]

MoveOn(id, js) ==
  LET trying_node == TryingNode(id)
      node == trying.node[trying_node].value.matchingWith
      h == Reported(js)
  IN IF trying_node = Null THEN ReadsDeadNode(js)
     ELSE IF node = candidates.tail THEN Finish(Promote(h, trying_node), try_match_counter)
     ELSE IF node \notin DOMAIN candidates.node THEN ReadsDeadNode(js)
     ELSE Finish([h EXCEPT !.trying = NextNode(@, trying_node, candidates.node[node].next)],
                 try_match_counter)

HandleReport(report, js) ==
  /\ \/ /\ report.result
        /\ HandleMatch(report.trying_id, js)
        /\ UNCHANGED quit_set
     \/ /\ ~report.result
        /\ {report.trying_id, report.candidate_id} \intersect quit_set # {}
        /\ quit_set' = quit_set \ {IF report.trying_id \in quit_set
                                   THEN report.trying_id ELSE report.candidate_id}
        /\ Finish(Reported(js), try_match_counter)
        /\ UNCHANGED clientVars
     \/ /\ ~report.result
        /\ {report.trying_id, report.candidate_id} \intersect quit_set = {}
        /\ MoveOn(report.trying_id, js)
        /\ UNCHANGED <<quit_set, clientVars>>
  /\ UNCHANGED likes

-----------------------------------------------------------------------------
(* The commands of main.cpp that reach the queues.                         *)

TryMatch(id) ==
  /\ status' = [status EXCEPT ![id] = "MATCHING"]
  /\ try_match_counter' = [try_match_counter EXCEPT ![id] = @ + 1]
  /\ Add(id, try_match_counter')
  /\ UNCHANGED <<quit_set, match_peer, matched, likes>>

Leave(id, left) ==
  /\ \/ /\ status[id] = "TALKING"
        /\ status' = [status EXCEPT ![match_peer[id]] = "IDLE", ![id] = left]
        /\ UNCHANGED <<candidates, trying, working_job, jobs, quit_set, process>>
     \/ /\ status[id] = "MATCHING"
        /\ status' = [status EXCEPT ![id] = left]
        /\ Detach(id)
     \/ /\ status[id] = "IDLE" /\ left = "CLOSED"
        /\ status' = [status EXCEPT ![id] = "CLOSED"]
        /\ UNCHANGED <<candidates, trying, working_job, jobs, quit_set, process>>
  /\ UNCHANGED <<try_match_counter, match_peer, matched, likes>>

ReportOf(i) ==
  HandleReport([trying_id |-> jobs[i].trying_info.id,
                candidate_id |-> jobs[i].candidate_info.id,
                result |-> Abstract!DoJob(jobs[i])],
               RemoveAt(jobs, i))

ClientStep ==
  \E id \in Id :
    \/ Abstract!MayTry(id) /\ TryMatch(id)
    \/ Abstract!MayLeave(id) /\ \E left \in {"IDLE", "CLOSED"} : Leave(id, left)

WorkerStep == \E i \in DOMAIN jobs : ReportOf(i)

HeapNext == process = "running" /\ (ClientStep \/ WorkerStep)

HeapSpec == HeapInit /\ [][HeapNext]_heapVars

\* Filters end and the main loop comes back to the reports: weak fairness of
\* WorkerStep, which is enabled as long as there are jobs.
HeapFairSpec ==
  /\ HeapSpec
  /\ []<>(jobs = <<>> \/ process # "running") \/ []<><<WorkerStep>>_heapVars

-----------------------------------------------------------------------------
\* Every push_back and erase leaves both lists linked both ways, with the
\* right ends and length, and no node is lost or used after it was freed.
ListsWellFormed == L!WellFormed(candidates) /\ L!WellFormed(trying)

\* The loops over pointers do what module Matching says in one expression
\* each, and the counters taken from the clients are those of the requests.
ImplementsMatching == Abstract!Spec

\* A user does not stay in trying_queue: it is matched, leaves, or settles as
\* a candidate.
TryingEnds ==
  \A id \in Id : (TryingNode(id) # Null) ~> (TryingNode(id) = Null)
=============================================================================
