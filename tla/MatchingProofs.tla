--------------------------- MODULE MatchingProofs ---------------------------
(***************************************************************************)
(* Proofs about module Matching, for any number of users, requests and     *)
(* workers, and whatever the clients do: how many jobs are out, who is in  *)
(* the queues, and who talks to whom.                                      *)
(***************************************************************************)
EXTENDS Matching, TLAPS, SequenceTheorems, FiniteSetTheorems,
        WellFoundedInduction

-----------------------------------------------------------------------------
(* Lists.                                                                  *)

\* A nonempty set of naturals has a least element, which Min returns.
LEMMA MinOfNats ==
  ASSUME NEW S \in SUBSET Nat, S # {}
  PROVE  /\ Min(S) \in S
         /\ \A x \in S : Min(S) <= x
<1>1. PICK x \in S : \A y \in S : ~ (<<y, x>> \in OpToRel(<, Nat))
  BY NatLessThanWellFounded, WFMin
<1>2. \A y \in S : ~ (y < x)
  BY <1>1 DEF OpToRel
<1>3. x \in S /\ \A y \in S : x <= y
  BY <1>2
<1> QED
  BY <1>3 DEF Min

\* LinkedList::erase: one element less, all of the same type.
LEMMA RemoveAtType ==
  ASSUME NEW S, NEW s \in Seq(S), NEW i \in 1..Len(s)
  PROVE  /\ RemoveAt(s, i) \in Seq(S)
         /\ Len(RemoveAt(s, i)) = Len(s) - 1
<1>1. /\ SubSeq(s, 1, i-1) \in Seq(S)
      /\ Len(SubSeq(s, 1, i-1)) = i - 1
  <2>1. \A k \in 1..(i-1) : s[k] \in S
    BY ElementOfSeq, LenProperties
  <2> QED
    BY <2>1, SubSeqProperties, LenProperties
<1>2. /\ SubSeq(s, i+1, Len(s)) \in Seq(S)
      /\ Len(SubSeq(s, i+1, Len(s))) = Len(s) - i
  <2>1. \A k \in (i+1)..Len(s) : s[k] \in S
    BY ElementOfSeq, LenProperties
  <2> QED
    BY <2>1, SubSeqProperties, LenProperties
<1> DEFINE front == SubSeq(s, 1, i-1)
           back == SubSeq(s, i+1, Len(s))
<1>3. RemoveAt(s, i) = front \o back
  BY DEF RemoveAt
<1>4. Len(s) \in Nat
  BY LenProperties
<1> HIDE DEF front, back
<1>5. front \in Seq(S) /\ back \in Seq(S)
  BY <1>1, <1>2 DEF front, back
<1>6. Len(front) = i - 1 /\ Len(back) = Len(s) - i
  BY <1>1, <1>2 DEF front, back
<1>7. front \o back \in Seq(S) /\ Len(front \o back) = Len(front) + Len(back)
  BY <1>5, ConcatProperties
<1> QED
  BY <1>3, <1>4, <1>6, <1>7

\* A search in trying_queue for a user finds it or returns 0.
LEMMA TryingAtFinds ==
  ASSUME NEW t \in Seq(TryingUser), NEW id
  PROVE  TryingAt(t, id) = 0 \/ /\ TryingAt(t, id) \in 1..Len(t)
                                /\ t[TryingAt(t, id)].info.id = id
<1> DEFINE I == {i \in 1..Len(t) : t[i].info.id = id}
<1>1. TryingAt(t, id) = IF I # {} THEN Min(I) ELSE 0
  BY DEF TryingAt, SelectInSeq
<1>2. I \in SUBSET Nat
  OBVIOUS
<1>3. I # {} => Min(I) \in I
  <2> HIDE DEF I
  <2> QED BY <1>2, MinOfNats
<1> QED
  BY <1>1, <1>3

\* A search in candidate_queue finds a hit if there is one.
LEMMA CandidateAtFinds ==
  ASSUME NEW c \in Seq(Info), NEW id
  PROVE  /\ CandidateAt(c, id) = 0 \/ /\ CandidateAt(c, id) \in 1..Len(c)
                                      /\ c[CandidateAt(c, id)].id = id
         /\ (\E n \in Range(c) : n.id = id) => CandidateAt(c, id) # 0
<1> DEFINE I == {i \in 1..Len(c) : c[i].id = id}
<1>1. CandidateAt(c, id) = IF I # {} THEN Min(I) ELSE 0
  BY DEF CandidateAt, SelectInSeq
<1>2. I \in SUBSET Nat
  OBVIOUS
<1>3. I # {} => Min(I) \in I
  <2> HIDE DEF I
  <2> QED BY <1>2, MinOfNats
<1>4. (\E n \in Range(c) : n.id = id) => I # {}
  BY LenProperties DEF Range
<1> QED
  BY <1>1, <1>3, <1>4

\* A search for the first user that waits for a node.
LEMMA TryingWithFinds ==
  ASSUME NEW t \in Seq(TryingUser), NEW node
  PROVE  TryingWith(t, node) = 0 \/ TryingWith(t, node) \in 1..Len(t)
<1> DEFINE I == {i \in 1..Len(t) : t[i].matchingWith = node}
<1>1. TryingWith(t, node) = IF I # {} THEN Min(I) ELSE 0
  BY DEF TryingWith, SelectInSeq
<1>2. I \in SUBSET Nat
  OBVIOUS
<1>3. I # {} => Min(I) \in I
  <2> HIDE DEF I
  <2> QED BY <1>2, MinOfNats
<1> QED
  BY <1>1, <1>3

\* A function on 1..n is a sequence of length n.
LEMMA FunctionIsSeq ==
  ASSUME NEW S, NEW n \in Nat, NEW f \in [1..n -> S]
  PROVE  /\ f \in Seq(S)
         /\ Len(f) = n
         /\ DOMAIN f = 1..n
<1>1. f \in Seq(S)
  BY SeqDef
<1> QED
  BY <1>1, LenProperties

\* Users whose requests, and those they are tried against, are among R.
TryingFrom(R) == [info : R, matchingWith : R, progress : {"WAITING", "PROCESSING"}]

\* Wherever a user is sent on, there is a next candidate to send it to: the
\* promoted user is behind the candidate that is dropped from the tail.  The
\* users in front of position first stay where they are.
LEMMA DropCandidateFrom ==
  ASSUME NEW R, NEW c \in Seq(R), NEW t \in Seq(TryingFrom(R)),
         NEW p \in 1..Len(c), NEW first \in Nat \ {0}
  PROVE  /\ DropCandidate(c, t, p, first).candidates \in Seq(R)
         /\ DropCandidate(c, t, p, first).trying \in Seq(TryingFrom(R))
         /\ \A i \in 1..Len(t) :
              i < first => i <= Len(DropCandidate(c, t, p, first).trying)
<1> DEFINE promote == /\ p = Len(c)
                      /\ first \in DOMAIN t
                      /\ t[first].matchingWith = c[p]
           c1 == IF promote THEN Append(c, t[first].info) ELSE c
           t1 == IF promote THEN RemoveAt(t, first) ELSE t
           behind == RunFrom(t1, first, c[p])
           d == [i \in DOMAIN t1 |->
                   IF i \in behind THEN [t1[i] EXCEPT !.matchingWith = c1[p+1]]
                                   ELSE t1[i]]
<1>1. /\ DropCandidate(c, t, p, first).candidates = RemoveAt(c1, p)
      /\ DropCandidate(c, t, p, first).trying = d
  BY DEF DropCandidate
<1>2. DOMAIN t = 1..Len(t) /\ Len(t) \in Nat /\ Len(c) \in Nat
  BY LenProperties
<1>promoted. promote => t[first].info \in R
  <2>1. promote => t[first] \in TryingFrom(R)
    BY <1>2, ElementOfSeq
  <2> QED
    BY <2>1 DEF TryingFrom
<1>3. c1 \in Seq(R) /\ p \in 1..Len(c1)
  <2>1. CASE promote
    BY <2>1, <1>promoted, <1>2
  <2>2. CASE ~promote
    BY <2>2
  <2> QED
    BY <2>1, <2>2
<1>4. /\ t1 \in Seq(TryingFrom(R))
      /\ \A i \in 1..Len(t) : i < first => i <= Len(t1)
  <2>1. CASE promote
    BY <2>1, <1>2, RemoveAtType
  <2>2. CASE ~promote
    BY <2>2, <1>2
  <2> QED
    BY <2>1, <2>2
<1>5. DOMAIN t1 = 1..Len(t1) /\ Len(t1) \in Nat
  BY <1>4, LenProperties
<1>6. ASSUME NEW i \in behind
      PROVE  c1[p+1] \in R
  <2>1. i \in 1..Len(t1) /\ first <= i
    BY <1>5 DEF RunFrom
  <2>2. first \in 1..Len(t1) /\ t1[first].matchingWith = c[p]
    BY <2>1, <1>5 DEF RunFrom
  <2>3. p = Len(c) => promote
    BY <2>2, <1>5
  <2>4. p + 1 \in 1..Len(c1)
    <3>1. CASE promote
      BY <3>1, <1>promoted, <1>2
    <3>2. CASE ~promote
      BY <3>2, <2>3, <1>2
    <3> QED
      BY <3>1, <3>2
  <2> QED
    BY <2>4, <1>3, ElementOfSeq
<1>7. d \in [1..Len(t1) -> TryingFrom(R)]
  <2>1. ASSUME NEW i \in 1..Len(t1)
        PROVE  (IF i \in behind THEN [t1[i] EXCEPT !.matchingWith = c1[p+1]]
                                ELSE t1[i]) \in TryingFrom(R)
    <3> HIDE DEF c1, t1, behind
    <3>1. t1[i] \in TryingFrom(R)
      BY <1>4, ElementOfSeq
    <3> QED
      BY <3>1, <1>6 DEF TryingFrom
  <2> HIDE DEF c1, t1, behind
  <2> QED
    BY <2>1, <1>5
<1>8. d \in Seq(TryingFrom(R)) /\ Len(d) = Len(t1)
  <2> HIDE DEF d, t1
  <2> QED
    BY <1>5, <1>7, FunctionIsSeq
<1> HIDE DEF c1, t1, d
<1> QED
  BY <1>1, <1>3, <1>4, <1>8, RemoveAtType

\* What a dropped candidate leaves has the types of the two lists.
LEMMA DropCandidateType ==
  ASSUME NEW c \in Seq(Info), NEW t \in Seq(TryingUser),
         NEW p \in 1..Len(c), NEW first \in Nat \ {0}
  PROVE  /\ DropCandidate(c, t, p, first).candidates \in Seq(Info)
         /\ DropCandidate(c, t, p, first).trying \in Seq(TryingUser)
         /\ \A i \in 1..Len(t) :
              i < first => i <= Len(DropCandidate(c, t, p, first).trying)
<1>1. TryingUser = TryingFrom(Info)
  BY DEF TryingUser, TryingFrom
<1> QED
  BY <1>1, DropCandidateFrom

-----------------------------------------------------------------------------
(* arrange_job.                                                            *)

\* The part of TypeOK that arrange_job is about.
QueuesOK ==
  /\ candidate_queue \in Seq(Info)
  /\ trying_queue \in Seq(TryingUser)
  /\ working_job \in 0..UINT_MAX
  /\ jobs \in Seq(AssignJob)
  /\ process \in {"running", "undefined"}

ProcessOK == process \in {"running", "undefined"}

\* No more trials are started than there are free workers.
LEMMA StartOrderType ==
  ASSUME NEW t \in Seq(TryingUser), NEW working \in 0..WORKER_NUMBER,
         NEW f \in StartOrder(t, working)
  PROVE  \E n \in 0..(WORKER_NUMBER - working) : f \in [1..n -> 1..Len(t)]
<1> DEFINE E == Eligible(t)
           free == FreeWorkers(working)
           n == IF Cardinality(E) <= free THEN Cardinality(E) ELSE free
<1>1. E \subseteq 1..Len(t) /\ Len(t) \in Nat
  BY LenProperties DEF Eligible
<1>2. IsFiniteSet(E)
  <2>1. IsFiniteSet(1..Len(t))
    BY <1>1, FS_Interval
  <2>2. E \in SUBSET (1..Len(t))
    BY <1>1
  <2> HIDE DEF E
  <2> QED
    BY <2>1, <2>2, FS_Subset
<1>3. Cardinality(E) \in Nat
  <2> HIDE DEF E
  <2> QED
    BY <1>2, FS_CardinalityType
<1>4. free \in Nat /\ free <= WORKER_NUMBER - working
  BY ConstantsAssumption DEF FreeWorkers
<1>5. n \in 0..(WORKER_NUMBER - working)
  <2> HIDE DEF E, free
  <2> QED
    BY <1>3, <1>4, ConstantsAssumption
<1>6. f \in [1..n -> E]
  BY DEF StartOrder
<1> HIDE DEF n, E
<1> QED
  BY <1>1, <1>5, <1>6

\* The limit is kept, and working_job counts what was added to js.
CountKept(js, working) ==
  /\ working_job' <= WORKER_NUMBER
  /\ working_job' - working = Len(jobs') - Len(js)

\* arrange_job keeps the count of the jobs that are out and the limit.
LEMMA ArrangeJobType ==
  ASSUME NEW c \in Seq(Info), NEW t \in Seq(TryingUser),
         NEW working \in 0..WORKER_NUMBER,
         NEW js \in Seq(AssignJob), ProcessOK,
         ArrangeJob(c, t, working, js)
  PROVE  QueuesOK' /\ CountKept(js, working)
<1>1. PICK f \in StartOrder(t, working) :
        /\ candidate_queue' = c
        /\ trying_queue' = [i \in DOMAIN t |->
                              IF i \in Range(f)
                              THEN [t[i] EXCEPT !.progress = "PROCESSING"]
                              ELSE t[i]]
        /\ working_job' = working + Len(f)
        /\ jobs' = js \o [k \in DOMAIN f |-> JobOf(t[f[k]])]
        /\ process' = IF \A k \in DOMAIN f : t[f[k]].matchingWith \in Range(c)
                      THEN process ELSE "undefined"
  BY DEF ArrangeJob
<1>2. PICK n \in 0..(WORKER_NUMBER - working) : f \in [1..n -> 1..Len(t)]
  BY StartOrderType
<1>3. n \in Nat /\ Len(t) \in Nat /\ DOMAIN t = 1..Len(t)
  BY ConstantsAssumption, LenProperties
<1>4. Len(f) = n /\ DOMAIN f = 1..n
  BY <1>2, <1>3, FunctionIsSeq
<1>5. \A i \in 1..Len(t) : t[i] \in TryingUser
  BY ElementOfSeq
<1>6. trying_queue' \in Seq(TryingUser)
  <2>1. trying_queue' \in [1..Len(t) -> TryingUser]
    <3>1. \A i \in 1..Len(t) :
            [t[i] EXCEPT !.progress = "PROCESSING"] \in TryingUser
      BY <1>5 DEF TryingUser
    <3> QED
      BY <1>1, <1>3, <1>5, <3>1
  <2> QED
    BY <2>1, <1>3, FunctionIsSeq
<1> DEFINE new == [k \in DOMAIN f |-> JobOf(t[f[k]])]
<1>7. new \in Seq(AssignJob) /\ Len(new) = n
  <2>1. new \in [1..n -> AssignJob]
    <3>1. ASSUME NEW k \in 1..n PROVE JobOf(t[f[k]]) \in AssignJob
      <4>1. t[f[k]] \in TryingUser
        BY <1>2, <1>5
      <4> QED
        BY <4>1 DEF JobOf, AssignJob, TryingUser
    <3> QED
      BY <3>1, <1>4
  <2> HIDE DEF new
  <2> QED
    BY <2>1, <1>3, FunctionIsSeq
<1>8. jobs' \in Seq(AssignJob) /\ Len(jobs') = Len(js) + n
  <2> HIDE DEF new
  <2> jobs' = js \o new
    BY <1>1 DEF new
  <2> QED
    BY <1>7, ConcatProperties
<1>9. /\ working_job' = working + n
      /\ working_job' \in 0..UINT_MAX
      /\ working_job' <= WORKER_NUMBER
  BY <1>1, <1>2, <1>4, ConstantsAssumption
<1>10. process' \in {"running", "undefined"}
  BY <1>1 DEF ProcessOK
<1>11. Len(js) \in Nat
  BY LenProperties
<1> QED
  BY <1>1, <1>3, <1>6, <1>8, <1>9, <1>10, <1>11 DEF QueuesOK, CountKept

-----------------------------------------------------------------------------
(* The handlers.                                                           *)

ClientsOK ==
  /\ status \in [Id -> {"IDLE", "MATCHING", "TALKING", "CLOSED"}]
  /\ try_match_counter \in [Id -> Nat]
  /\ match_peer \in [Id -> Id \union {NoPeer}]
  /\ matched \subseteq SUBSET Info

\* The inductive invariant: the types and the count of the jobs that are out.
\* The types need the count, since working_job is unsigned and the code
\* subtracts without looking.
IInv == TypeOK /\ JobsAccounted

\* The part of it that holds whatever is reported: the limit is kept even if a
\* report is about a job that is not out.
Ranged == TypeOK /\ working_job <= WORKER_NUMBER

\* The invariant has that part.
LEMMA IInvRanged == IInv => Ranged
BY DEF IInv, Ranged, JobsAccounted

\* What a handler leaves, put together.
LEMMA RangedParts ==
  ASSUME QueuesOK', (working_job <= WORKER_NUMBER)', (quit_set \subseteq Id)', ClientsOK'
  PROVE  Ranged'
BY DEF Ranged, TypeOK, QueuesOK, ClientsOK

\* A handler that does nothing to the queues.
LEMMA NothingKept ==
  ASSUME Ranged, UNCHANGED <<queueVars, process>>
  PROVE  QueuesOK' /\ CountKept(jobs, working_job)
<1>1. working_job \in Nat /\ Len(jobs) \in Nat
  BY ConstantsAssumption, LenProperties DEF Ranged, TypeOK
<1> QED
  BY <1>1 DEF Ranged, TypeOK, QueuesOK, CountKept, queueVars

\* add keeps the types, and counts what it starts.
LEMMA AddKeeps ==
  ASSUME Ranged, NEW info \in Info, Add(info)
  PROVE  QueuesOK' /\ CountKept(jobs, working_job)
<1>1. CASE candidate_queue = <<>> /\ candidate_queue' = <<info>>
           /\ UNCHANGED <<trying_queue, working_job, jobs, process>>
  <2>1. working_job \in Nat /\ Len(jobs) \in Nat
    BY ConstantsAssumption, LenProperties DEF Ranged, TypeOK
  <2> QED
    BY <1>1, <2>1 DEF Ranged, TypeOK, QueuesOK, CountKept
<1>2. CASE /\ candidate_queue # <<>>
           /\ ArrangeJob(candidate_queue, Append(trying_queue, Newcomer(info)),
                         working_job, jobs)
  <2>1. Newcomer(info) \in TryingUser
    BY <1>2, HeadTailProperties DEF Ranged, TypeOK, Newcomer, TryingUser
  <2>2. Append(trying_queue, Newcomer(info)) \in Seq(TryingUser)
    BY <2>1 DEF Ranged, TypeOK
  <2>3. working_job \in 0..WORKER_NUMBER /\ ProcessOK
    BY ConstantsAssumption DEF Ranged, TypeOK, ProcessOK
  <2> QED
    BY <1>2, <2>2, <2>3, ArrangeJobType DEF Ranged, TypeOK
<1> QED
  BY <1>1, <1>2 DEF Add

\* So does detach, whichever list the client is in, ...
LEMMA DetachKeeps ==
  ASSUME Ranged, NEW id \in Id, Detach(id)
  PROVE  QueuesOK' /\ CountKept(jobs, working_job) /\ (quit_set \subseteq Id)'
<1> DEFINE i == TryingAt(trying_queue, id)
           p == CandidateAt(candidate_queue, id)
           w == TryingWith(trying_queue, candidate_queue[p])
           first == IF w = 0 THEN Len(trying_queue) + 1 ELSE w
           d == DropCandidate(candidate_queue, trying_queue, p, first)
<1>1. /\ candidate_queue \in Seq(Info) /\ trying_queue \in Seq(TryingUser)
      /\ jobs \in Seq(AssignJob)
      /\ working_job \in 0..WORKER_NUMBER /\ ProcessOK
  BY ConstantsAssumption DEF Ranged, TypeOK, ProcessOK
<1>2. (quit_set \subseteq Id)'
  BY DEF Detach, Ranged, TypeOK
<1>3. CASE /\ i # 0
           /\ ArrangeJob(candidate_queue, RemoveAt(trying_queue, i),
                         working_job, jobs)
  <2>1. RemoveAt(trying_queue, i) \in Seq(TryingUser)
    BY <1>1, <1>3, TryingAtFinds, RemoveAtType
  <2> HIDE DEF i
  <2> QED
    BY <1>1, <1>2, <1>3, <2>1, ArrangeJobType
<1>4. CASE /\ p # 0
           /\ ArrangeJob(d.candidates, d.trying, working_job, jobs)
  <2>1. p \in 1..Len(candidate_queue)
    BY <1>1, <1>4, CandidateAtFinds
  <2>2. first \in Nat \ {0}
    <3>1. w = 0 \/ w \in 1..Len(trying_queue)
      BY <1>1, TryingWithFinds
    <3> HIDE DEF w
    <3> QED
      BY <1>1, <3>1, LenProperties
  <2>3. d.candidates \in Seq(Info) /\ d.trying \in Seq(TryingUser)
    <3> HIDE DEF p, first
    <3> QED
      BY <1>1, <2>1, <2>2, DropCandidateType
  <2> HIDE DEF d
  <2> QED
    BY <1>1, <1>2, <1>4, <2>3, ArrangeJobType
<1>5. CASE UNCHANGED <<queueVars, process>>
  BY <1>2, <1>5, NothingKept
<1> QED
  BY <1>3, <1>4, <1>5 DEF Detach

\* A job that is reported was counted, so working_job does not wrap.
LEMMA OneJobLessCounts ==
  ASSUME IInv, NEW k \in DOMAIN jobs
  PROVE  /\ RemoveAt(jobs, k) \in Seq(AssignJob)
         /\ OneJobLess \in 0..WORKER_NUMBER
         /\ Len(RemoveAt(jobs, k)) = OneJobLess
<1>1. jobs \in Seq(AssignJob) /\ working_job = Len(jobs)
      /\ working_job <= WORKER_NUMBER
  BY DEF IInv, TypeOK, JobsAccounted
<1>2. k \in 1..Len(jobs) /\ Len(jobs) \in Nat
  BY <1>1, LenProperties
<1>3. OneJobLess = Len(jobs) - 1
  BY <1>1, <1>2 DEF OneJobLess
<1> QED
  BY <1>1, <1>2, <1>3, RemoveAtType, ConstantsAssumption

\* ... a handler that ends in undefined behaviour, ...
LEMMA ReadsDeadNodeKeeps ==
  ASSUME Ranged, NEW js \in Seq(AssignJob), OneJobLess \in 0..WORKER_NUMBER,
         ReadsDeadNode(js)
  PROVE  QueuesOK' /\ CountKept(js, OneJobLess)
<1>1. Len(js) \in Nat
  BY LenProperties
<1> QED
  BY <1>1, ConstantsAssumption DEF Ranged, TypeOK, QueuesOK, CountKept, ReadsDeadNode

\* ... a refusal, ...
LEMMA MoveOnKeeps ==
  ASSUME Ranged, NEW id \in Id,
         NEW js \in Seq(AssignJob), OneJobLess \in 0..WORKER_NUMBER,
         MoveOn(id, js)
  PROVE  QueuesOK' /\ CountKept(js, OneJobLess)
<1> DEFINE i == TryingAt(trying_queue, id)
           u == trying_queue[i]
           p == CandidateAt(candidate_queue, u.matchingWith.id)
           last == LastCandidate(p)
           c == IF last THEN Append(candidate_queue, u.info) ELSE candidate_queue
           t == IF last THEN RemoveAt(trying_queue, i)
                        ELSE [trying_queue EXCEPT
                                ![i] = SentOn(u, candidate_queue[p+1])]
<1>1. candidate_queue \in Seq(Info) /\ trying_queue \in Seq(TryingUser) /\ ProcessOK
  BY DEF Ranged, TypeOK, ProcessOK
<1>2. CASE i # 0 /\ u.matchingWith \in Range(candidate_queue)
  <2>1. ArrangeJob(c, t, OneJobLess, js)
    BY <1>2 DEF MoveOn
  <2>2. i \in 1..Len(trying_queue) /\ u \in TryingUser
    BY <1>1, <1>2, TryingAtFinds, ElementOfSeq
  <2>3. p \in 1..Len(candidate_queue)
    BY <1>1, <1>2, CandidateAtFinds
  <2>4. c \in Seq(Info)
    BY <1>1, <2>2 DEF TryingUser
  <2>5. t \in Seq(TryingUser)
    <3>1. CASE last
      BY <1>1, <2>2, <3>1, RemoveAtType
    <3>2. CASE ~last
      <4>1. p + 1 \in 1..Len(candidate_queue)
        BY <1>1, <2>3, <3>2, LenProperties DEF LastCandidate
      <4>2. candidate_queue[p+1] \in Info
        BY <1>1, <4>1, ElementOfSeq
      <4>3. SentOn(u, candidate_queue[p+1]) \in TryingUser
        BY <2>2, <4>2 DEF SentOn, TryingUser
      <4> HIDE DEF u, i, p
      <4> QED
        BY <1>1, <2>2, <3>2, <4>3, ExceptSeq
    <3> QED
      BY <3>1, <3>2
  <2> HIDE DEF c, t
  <2> QED
    BY <1>1, <2>1, <2>4, <2>5, ArrangeJobType
<1>3. CASE ReadsDeadNode(js)
  BY <1>3, ReadsDeadNodeKeeps
<1> QED
  BY <1>2, <1>3 DEF MoveOn

\* ... handle_match, ...
LEMMA HandleMatchKeeps ==
  ASSUME Ranged, NEW id \in Id,
         NEW js \in Seq(AssignJob), OneJobLess \in 0..WORKER_NUMBER,
         HandleMatch(id, js)
  PROVE  QueuesOK' /\ CountKept(js, OneJobLess) /\ ClientsOK'
<1> DEFINE i == TryingAt(trying_queue, id)
           u == trying_queue[i]
           node == u.matchingWith
           p == CandidateAt(candidate_queue, node.id)
           d == DropCandidate(candidate_queue, trying_queue, p, i + 1)
<1>1. /\ candidate_queue \in Seq(Info) /\ trying_queue \in Seq(TryingUser)
      /\ ProcessOK /\ ClientsOK
  BY DEF Ranged, TypeOK, ProcessOK, ClientsOK
<1>2. CASE /\ ArrangeJob(candidate_queue, trying_queue, OneJobLess, js)
           /\ UNCHANGED clientVars
  BY <1>1, <1>2, ArrangeJobType DEF ClientsOK, clientVars
<1>3. CASE ReadsDeadNode(js) /\ UNCHANGED clientVars
  BY <1>1, <1>3, ReadsDeadNodeKeeps DEF ClientsOK, clientVars
<1>4. CASE /\ i # 0 /\ node \in Range(candidate_queue)
           /\ ArrangeJob(d.candidates, RemoveAt(d.trying, i), OneJobLess, js)
           /\ Talk(id, node.id)
           /\ matched' = matched \union {{u.info, node}}
           /\ UNCHANGED try_match_counter
  <2>1. i \in 1..Len(trying_queue) /\ u \in TryingUser
    BY <1>1, <1>4, TryingAtFinds, ElementOfSeq
  <2>2. u.info \in Info /\ node \in Info /\ node.id \in Id
    BY <2>1 DEF TryingUser, Info
  <2>3. p \in 1..Len(candidate_queue)
    BY <1>1, <1>4, CandidateAtFinds
  <2>4. i + 1 \in Nat \ {0}
    BY <2>1
  <2>5. /\ d.candidates \in Seq(Info)
        /\ d.trying \in Seq(TryingUser)
        /\ i <= Len(d.trying)
    <3> HIDE DEF p, i
    <3>1. i < i + 1
      BY <2>1
    <3> QED
      BY <1>1, <2>1, <2>3, <2>4, <3>1, DropCandidateType
  <2>6. RemoveAt(d.trying, i) \in Seq(TryingUser)
    <3> HIDE DEF d, i
    <3>1. i \in 1..Len(d.trying)
      BY <2>1, <2>5, LenProperties
    <3> QED
      BY <2>5, <3>1, RemoveAtType
  <2>7. QueuesOK' /\ CountKept(js, OneJobLess)
    <3> HIDE DEF d, i
    <3> QED
      BY <1>1, <1>4, <2>5, <2>6, ArrangeJobType
  <2>8. ClientsOK'
    <3> HIDE DEF node, u
    <3>1. /\ status' \in [Id -> {"IDLE", "MATCHING", "TALKING", "CLOSED"}]
          /\ match_peer' \in [Id -> Id \union {NoPeer}]
          /\ try_match_counter' \in [Id -> Nat]
      BY <1>1, <1>4, <2>2 DEF ClientsOK, Talk
    <3>2. matched' \subseteq SUBSET Info
      BY <1>1, <1>4, <2>2 DEF ClientsOK
    <3> QED
      BY <3>1, <3>2 DEF ClientsOK
  <2> QED
    BY <2>7, <2>8
<1> QED
  BY <1>2, <1>3, <1>4 DEF HandleMatch

\* ... and handle_report, whichever job it is about and whether or not that is
\* out.
LEMMA HandleReportKeeps ==
  ASSUME Ranged, NEW report, report.trying_id \in Id,
         NEW js \in Seq(AssignJob), OneJobLess \in 0..WORKER_NUMBER,
         HandleReport(report, js)
  PROVE  Ranged' /\ CountKept(js, OneJobLess)
<1>1. /\ candidate_queue \in Seq(Info) /\ trying_queue \in Seq(TryingUser)
      /\ ProcessOK /\ ClientsOK /\ quit_set \subseteq Id
  BY DEF Ranged, TypeOK, ProcessOK, ClientsOK
<1>2. CASE HandleMatch(report.trying_id, js) /\ UNCHANGED quit_set
  <2>1. QueuesOK' /\ CountKept(js, OneJobLess) /\ ClientsOK'
    BY <1>2, HandleMatchKeeps
  <2>2. (quit_set \subseteq Id)'
    BY <1>1, <1>2
  <2> QED
    BY <2>1, <2>2, RangedParts DEF CountKept
<1>3. CASE /\ \E id : quit_set' = quit_set \ {id}
           /\ ArrangeJob(candidate_queue, trying_queue, OneJobLess, js)
           /\ UNCHANGED clientVars
  <2>1. QueuesOK' /\ CountKept(js, OneJobLess)
    BY <1>1, <1>3, ArrangeJobType
  <2>2. ClientsOK' /\ (quit_set \subseteq Id)'
    BY <1>1, <1>3 DEF ClientsOK, clientVars
  <2> QED
    BY <2>1, <2>2, RangedParts DEF CountKept
<1>4. CASE /\ MoveOn(report.trying_id, js)
           /\ UNCHANGED <<quit_set, clientVars>>
  <2>1. QueuesOK' /\ CountKept(js, OneJobLess)
    BY <1>4, MoveOnKeeps
  <2>2. ClientsOK' /\ (quit_set \subseteq Id)'
    BY <1>1, <1>4 DEF ClientsOK, clientVars
  <2> QED
    BY <2>1, <2>2, RangedParts DEF CountKept
<1> QED
  BY <1>2, <1>3, <1>4 DEF HandleReport

-----------------------------------------------------------------------------
(* The invariance.                                                         *)

\* Where working_job was the number of jobs it still is.
LEMMA StaysAccounted ==
  ASSUME Ranged', NEW js \in Seq(AssignJob), NEW working \in Nat, Len(js) = working,
         CountKept(js, working)
  PROVE  IInv'
<1>1. Len(jobs') \in Nat /\ working_job' \in Nat
  BY ConstantsAssumption, LenProperties DEF Ranged, TypeOK
<1> QED
  BY <1>1 DEF Ranged, IInv, JobsAccounted, CountKept

\* A worker reports a job that is out.
LEMMA ReportKeeps ==
  ASSUME IInv, NEW k \in DOMAIN jobs, Report(k)
  PROVE  IInv'
<1> DEFINE report == [trying_id |-> jobs[k].trying_info.id,
                      candidate_id |-> jobs[k].candidate_info.id,
                      result |-> DoJob(jobs[k])]
<1>1. HandleReport(report, RemoveAt(jobs, k))
  BY DEF Report
<1>2. report.trying_id \in Id
  <2>1. jobs[k] \in AssignJob
    BY LenProperties, ElementOfSeq DEF IInv, TypeOK
  <2>2. jobs[k].trying_info \in Info
    BY <2>1 DEF AssignJob
  <2> QED
    BY <2>2 DEF Info
<1> HIDE DEF report
<1>3. Ranged' /\ CountKept(RemoveAt(jobs, k), OneJobLess)
  BY <1>1, <1>2, IInvRanged, OneJobLessCounts, HandleReportKeeps
<1> QED
  BY <1>3, OneJobLessCounts, StaysAccounted

\* Client::try_match.
LEMMA TryMatchKeeps ==
  ASSUME Ranged, NEW id \in Id, TryMatch(id)
  PROVE  Ranged' /\ CountKept(jobs, working_job)
<1> DEFINE info == [id |-> id, counter |-> try_match_counter[id] + 1]
<1>1. try_match_counter[id] + 1 \in Nat
  BY DEF Ranged, TypeOK
<1>2. info \in Info
  BY <1>1 DEF Info
<1>3. QueuesOK' /\ CountKept(jobs, working_job)
  <2>1. Add(info)
    BY DEF TryMatch
  <2> HIDE DEF info
  <2> QED
    BY <1>2, <2>1, AddKeeps
<1>4. ClientsOK' /\ (quit_set \subseteq Id)'
  BY <1>1 DEF TryMatch, Ranged, TypeOK, ClientsOK
<1> QED
  BY <1>3, <1>4, RangedParts DEF CountKept

\* Client::quit, and what Client::disconnect does of it.
LEMMA LeaveKeeps ==
  ASSUME Ranged, NEW id \in Id, NEW new \in {"IDLE", "CLOSED"}, Leave(id, new)
  PROVE  Ranged' /\ CountKept(jobs, working_job)
<1>1. ClientsOK'
  BY DEF Leave, Ranged, TypeOK, ClientsOK
<1>2. QueuesOK' /\ CountKept(jobs, working_job) /\ (quit_set \subseteq Id)'
  <2>1. CASE UNCHANGED <<queueVars, quit_set, process>>
    BY <2>1, NothingKept DEF Ranged, TypeOK
  <2>2. CASE Detach(id)
    BY <2>2, DetachKeeps
  <2> QED
    BY <2>1, <2>2 DEF Leave
<1> QED
  BY <1>1, <1>2, RangedParts DEF CountKept

\* Whatever a client does.
LEMMA ClientStepKeeps ==
  ASSUME Ranged, NEW id \in Id, ClientStep(id)
  PROVE  Ranged' /\ CountKept(jobs, working_job)
<1>1. CASE TryMatch(id)
  BY <1>1, TryMatchKeeps
<1>2. CASE Quit(id)
  BY <1>2, LeaveKeeps DEF Quit
<1>3. CASE Disconnect(id)
  <2>1. CASE Leave(id, "CLOSED")
    BY <2>1, LeaveKeeps
  <2>2. CASE /\ status' = [status EXCEPT ![id] = "CLOSED"]
             /\ UNCHANGED <<queueVars, quit_set, process, try_match_counter,
                            match_peer, matched, likes>>
    <3>1. QueuesOK' /\ CountKept(jobs, working_job)
      BY <2>2, NothingKept
    <3>2. ClientsOK' /\ (quit_set \subseteq Id)'
      BY <2>2 DEF Ranged, TypeOK, ClientsOK
    <3> QED
      BY <3>1, <3>2, RangedParts DEF CountKept
  <2> QED
    BY <1>3, <2>1, <2>2 DEF Disconnect
<1> QED
  BY <1>1, <1>2, <1>3 DEF ClientStep

\* The invariant holds at the start, ...
LEMMA InitEstablishes == Init => IInv
<1> SUFFICES ASSUME Init PROVE IInv
  OBVIOUS
<1>1. <<>> \in Seq(Info) /\ <<>> \in Seq(TryingUser) /\ <<>> \in Seq(AssignJob)
      /\ Len(<<>>) = 0
  BY EmptySeq
<1> QED
  BY <1>1, ConstantsAssumption DEF Init, IInv, TypeOK, JobsAccounted

\* ... and every step preserves it.
LEMMA NextPreserves == IInv /\ [Next]_vars => IInv'
<1> SUFFICES ASSUME IInv, [Next]_vars PROVE IInv'
  OBVIOUS
<1>1. CASE \E id \in Id : ClientStep(id)
  <2>1. Ranged' /\ CountKept(jobs, working_job)
    BY <1>1, IInvRanged, ClientStepKeeps
  <2>2. jobs \in Seq(AssignJob) /\ working_job \in Nat /\ Len(jobs) = working_job
    BY ConstantsAssumption DEF IInv, TypeOK, JobsAccounted
  <2> QED
    BY <2>1, <2>2, StaysAccounted
<1>2. CASE WorkerStep
  BY <1>2, ReportKeeps DEF WorkerStep
<1>3. CASE UNCHANGED vars
  BY <1>3 DEF IInv, TypeOK, JobsAccounted, vars, queueVars, clientVars
<1> QED
  BY <1>1, <1>2, <1>3 DEF Next

\* Every variable keeps its type, for any number of clients and workers.  In
\* particular wherever detach and detach_with_matcher move a user to
\* node->next there is such a node.
THEOREM TypeCorrect == Spec => []TypeOK
<1>1. IInv => TypeOK
  BY DEF IInv
<1> QED
  BY <1>1, InitEstablishes, NextPreserves, PTL DEF Spec

\* working_job is the number of jobs that were sent and not reported, and
\* never more than WORKER_NUMBER: it does not wrap below zero, no slot is
\* lost, and mq_send on from_main never blocks, however clients ask, quit,
\* come back and disconnect, and in whatever order the workers report.
THEOREM JobsAreAccounted == Spec => []JobsAccounted
<1>1. IInv => JobsAccounted
  BY DEF IInv
<1> QED
  BY <1>1, InitEstablishes, NextPreserves, PTL DEF Spec

-----------------------------------------------------------------------------
(* The queues c and t hold the clients of a set M, each of them once.      *)

Holds(c, t, M) ==
  /\ \A i \in 1..Len(c) : c[i].id \in M
  /\ \A i \in 1..Len(t) : t[i].info.id \in M
  /\ \A i, j \in 1..Len(c) : c[i].id = c[j].id => i = j
  /\ \A i, j \in 1..Len(t) : t[i].info.id = t[j].info.id => i = j
  /\ \A i \in 1..Len(c), j \in 1..Len(t) : c[i].id # t[j].info.id
  /\ \A id \in M : \/ \E i \in 1..Len(c) : c[i].id = id
                   \/ \E i \in 1..Len(t) : t[i].info.id = id

\* Same clients, in the same places.
SameUsers(t, u) ==
  /\ Len(u) = Len(t)
  /\ \A i \in 1..Len(t) : u[i].info = t[i].info

\* What LinkedList::erase leaves, element by element.
LEMMA RemoveAtElements ==
  ASSUME NEW S, NEW s \in Seq(S), NEW i \in 1..Len(s)
  PROVE  /\ RemoveAt(s, i) \in Seq(S)
         /\ Len(RemoveAt(s, i)) = Len(s) - 1
         /\ \A k \in 1..(Len(s) - 1) :
              RemoveAt(s, i)[k] = IF k < i THEN s[k] ELSE s[k+1]
<1> DEFINE front == SubSeq(s, 1, i-1)
           back == SubSeq(s, i+1, Len(s))
<1>1. Len(s) \in Nat
  BY LenProperties
<1>2. /\ front \in Seq(S) /\ Len(front) = i - 1
      /\ \A k \in 1..(i-1) : front[k] = s[k]
  <2>1. \A k \in 1..(i-1) : s[k] \in S
    BY ElementOfSeq, LenProperties
  <2> QED
    BY <2>1, SubSeqProperties, LenProperties
<1>3. /\ back \in Seq(S) /\ Len(back) = Len(s) - i
      /\ \A k \in 1..(Len(s) - i) : back[k] = s[i+k]
  <2>1. \A k \in (i+1)..Len(s) : s[k] \in S
    BY ElementOfSeq, LenProperties
  <2>2. /\ back \in Seq(S) /\ Len(back) = Len(s) - i
    BY <2>1, SubSeqProperties, LenProperties
  <2>3. \A k \in 1..(Len(s) - i) : back[k] = s[i+k]
    BY <2>1, <2>2, <1>1, SubSeqProperties
  <2> QED
    BY <2>2, <2>3
<1>4. RemoveAt(s, i) = front \o back
  BY DEF RemoveAt
<1> HIDE DEF front, back
<1>5. \A k \in 1..(Len(s) - 1) :
        (front \o back)[k] = IF k < i THEN s[k] ELSE s[k+1]
  <2> SUFFICES ASSUME NEW k \in 1..(Len(s) - 1)
               PROVE  (front \o back)[k] = IF k < i THEN s[k] ELSE s[k+1]
    OBVIOUS
  <2>1. (front \o back)[k] = IF k <= Len(front) THEN front[k] ELSE back[k - Len(front)]
    BY <1>1, <1>2, <1>3, ConcatProperties
  <2>2. CASE k < i
    BY <1>1, <1>2, <2>1, <2>2
  <2>3. CASE ~(k < i)
    <3>1. k - (i - 1) \in 1..(Len(s) - i) /\ i + (k - (i - 1)) = k + 1
      BY <1>1, <2>3
    <3>2. ~(k <= Len(front)) /\ k - Len(front) = k - (i - 1)
      BY <1>1, <1>2, <2>3
    <3> QED
      BY <1>3, <2>1, <2>3, <3>1, <3>2
  <2> QED
    BY <2>2, <2>3
<1> QED
  BY <1>4, <1>5, RemoveAtType

\* A new candidate, and a new user in line.
LEMMA HoldsCandidate ==
  ASSUME NEW c \in Seq(Info), NEW t \in Seq(TryingUser), NEW M,
         NEW info \in Info, info.id \notin M, Holds(c, t, M)
  PROVE  Holds(Append(c, info), t, M \union {info.id})
<1>1. Len(c) \in Nat /\ Len(t) \in Nat
  BY LenProperties
<1>2. /\ Len(Append(c, info)) = Len(c) + 1
      /\ \A i \in 1..Len(c) : Append(c, info)[i] = c[i]
      /\ Append(c, info)[Len(c) + 1] = info
  BY <1>1, AppendProperties
<1> DEFINE d == Append(c, info)
<1> HIDE DEF d
<1>3. \A i \in 1..Len(d) : d[i] = IF i \in 1..Len(c) THEN c[i] ELSE info
  BY <1>1, <1>2 DEF d
<1>4. Len(d) = Len(c) + 1
  BY <1>2 DEF d
<1>5. Holds(d, t, M \union {info.id})
  <2>1. \A i \in 1..Len(d) : i \in 1..Len(c) \/ i = Len(c) + 1
    BY <1>1, <1>4
  <2>2. \A i \in 1..Len(d) : d[i].id \in M \union {info.id}
    BY <1>3 DEF Holds
  <2>3. \A i, j \in 1..Len(d) : d[i].id = d[j].id => i = j
    BY <1>3, <2>1 DEF Holds
  <2>4. \A i \in 1..Len(d), j \in 1..Len(t) : d[i].id # t[j].info.id
    BY <1>3 DEF Holds
  <2>5. \A id \in M \union {info.id} : \/ \E i \in 1..Len(d) : d[i].id = id
                                       \/ \E i \in 1..Len(t) : t[i].info.id = id
    <3>1. Len(c) + 1 \in 1..Len(d) /\ Len(c) + 1 \notin 1..Len(c)
      BY <1>1, <1>4
    <3>2. d[Len(c) + 1].id = info.id
      BY <1>3, <3>1
    <3>3. \A i \in 1..Len(c) : i \in 1..Len(d) /\ d[i] = c[i]
      BY <1>1, <1>3, <1>4
    <3>4. \A id \in M : \/ \E i \in 1..Len(c) : c[i].id = id
                        \/ \E i \in 1..Len(t) : t[i].info.id = id
      BY DEF Holds
    <3> QED
      BY <3>1, <3>2, <3>3, <3>4
  <2> QED
    BY <2>2, <2>3, <2>4, <2>5 DEF Holds
<1> QED
  BY <1>5 DEF d

\* The same of a newcomer to trying_queue.
LEMMA HoldsTrying ==
  ASSUME NEW c \in Seq(Info), NEW t \in Seq(TryingUser), NEW M,
         NEW u \in TryingUser, u.info.id \notin M, Holds(c, t, M)
  PROVE  Holds(c, Append(t, u), M \union {u.info.id})
<1>1. Len(c) \in Nat /\ Len(t) \in Nat
  BY LenProperties
<1>2. /\ Len(Append(t, u)) = Len(t) + 1
      /\ \A i \in 1..Len(t) : Append(t, u)[i] = t[i]
      /\ Append(t, u)[Len(t) + 1] = u
  BY <1>1, AppendProperties
<1> DEFINE d == Append(t, u)
<1> HIDE DEF d
<1>3. \A i \in 1..Len(d) : d[i] = IF i \in 1..Len(t) THEN t[i] ELSE u
  BY <1>1, <1>2 DEF d
<1>4. Len(d) = Len(t) + 1
  BY <1>2 DEF d
<1>5. Holds(c, d, M \union {u.info.id})
  <2>1. \A i \in 1..Len(d) : i \in 1..Len(t) \/ i = Len(t) + 1
    BY <1>1, <1>4
  <2>2. \A i \in 1..Len(d) : d[i].info.id \in M \union {u.info.id}
    BY <1>3 DEF Holds
  <2>3. \A i, j \in 1..Len(d) : d[i].info.id = d[j].info.id => i = j
    BY <1>3, <2>1 DEF Holds
  <2>4. \A i \in 1..Len(c), j \in 1..Len(d) : c[i].id # d[j].info.id
    BY <1>3 DEF Holds
  <2>5. \A id \in M \union {u.info.id} : \/ \E i \in 1..Len(c) : c[i].id = id
                                         \/ \E i \in 1..Len(d) : d[i].info.id = id
    <3>1. Len(t) + 1 \in 1..Len(d) /\ Len(t) + 1 \notin 1..Len(t)
      BY <1>1, <1>4
    <3>2. d[Len(t) + 1].info.id = u.info.id
      BY <1>3, <3>1
    <3>3. \A i \in 1..Len(t) : i \in 1..Len(d) /\ d[i] = t[i]
      BY <1>1, <1>3, <1>4
    <3>4. \A id \in M : \/ \E i \in 1..Len(c) : c[i].id = id
                        \/ \E i \in 1..Len(t) : t[i].info.id = id
      BY DEF Holds
    <3> QED
      BY <3>1, <3>2, <3>3, <3>4
  <2> QED
    BY <2>2, <2>3, <2>4, <2>5 DEF Holds
<1> QED
  BY <1>5 DEF d

\* One of them gone from candidate_queue, or from trying_queue.
LEMMA HoldsLessCandidate ==
  ASSUME NEW c \in Seq(Info), NEW t \in Seq(TryingUser), NEW M,
         NEW p \in 1..Len(c), Holds(c, t, M)
  PROVE  Holds(RemoveAt(c, p), t, M \ {c[p].id})
<1> DEFINE d == RemoveAt(c, p)
<1>1. Len(c) \in Nat /\ Len(t) \in Nat
  BY LenProperties
<1>2. /\ Len(d) = Len(c) - 1
      /\ \A k \in 1..Len(d) : d[k] = c[IF k < p THEN k ELSE k + 1]
  BY <1>1, RemoveAtElements
<1> HIDE DEF d
<1>3. \A k \in 1..Len(d) : \E m \in 1..Len(c) : m # p /\ d[k] = c[m] /\ m = IF k < p THEN k ELSE k + 1
  BY <1>1, <1>2, SMTT(60)
<1>4. \A m \in 1..Len(c) : m # p => \E k \in 1..Len(d) : d[k] = c[m]
  <2> SUFFICES ASSUME NEW m \in 1..Len(c), m # p
               PROVE  \E k \in 1..Len(d) : d[k] = c[m]
    OBVIOUS
  <2>1. CASE m < p
    BY <1>1, <1>2, <2>1
  <2>2. CASE m > p
    <3>1. m - 1 \in 1..Len(d) /\ ~(m - 1 < p) /\ (m - 1) + 1 = m
      BY <1>1, <1>2, <2>2
    <3> QED
      BY <1>2, <3>1
  <2> QED
    BY <2>1, <2>2, <1>1
<1>5. \A k, l \in 1..Len(d) : d[k].id = d[l].id => k = l
  <2> SUFFICES ASSUME NEW k \in 1..Len(d), NEW l \in 1..Len(d), d[k].id = d[l].id
               PROVE  k = l
    OBVIOUS
  <2> DEFINE m == IF k < p THEN k ELSE k + 1
             n == IF l < p THEN l ELSE l + 1
  <2>1. m \in 1..Len(c) /\ n \in 1..Len(c) /\ d[k] = c[m] /\ d[l] = c[n]
    BY <1>1, <1>2
  <2>2. m = n
    <3> HIDE DEF m, n
    <3> QED
      BY <2>1 DEF Holds
  <2> QED
    BY <1>1, <2>2
<1>6. Holds(d, t, M \ {c[p].id})
  <2>1. \A k \in 1..Len(d) : d[k].id \in M \ {c[p].id}
    BY <1>3, SMTT(60) DEF Holds
  <2>2. \A j \in 1..Len(t) : t[j].info.id \in M \ {c[p].id}
    BY DEF Holds
  <2>3. \A i \in 1..Len(d), j \in 1..Len(t) : d[i].id # t[j].info.id
    BY <1>3 DEF Holds
  <2>4. \A id \in M \ {c[p].id} : \/ \E i \in 1..Len(d) : d[i].id = id
                                  \/ \E i \in 1..Len(t) : t[i].info.id = id
    <3> SUFFICES ASSUME NEW id \in M \ {c[p].id}, ~ \E i \in 1..Len(t) : t[i].info.id = id
                 PROVE  \E i \in 1..Len(d) : d[i].id = id
      OBVIOUS
    <3> PICK m \in 1..Len(c) : c[m].id = id
      BY DEF Holds
    <3> PICK k \in 1..Len(d) : d[k] = c[m]
      BY <1>4
    <3> QED
      OBVIOUS
  <2>5. \A i, j \in 1..Len(t) : t[i].info.id = t[j].info.id => i = j
    BY DEF Holds
  <2> QED
    BY ONLY <1>5, <2>1, <2>2, <2>3, <2>4, <2>5 DEF Holds
<1> QED
  BY <1>6 DEF d

\* The same of a user that leaves trying_queue.
LEMMA HoldsLessTrying ==
  ASSUME NEW c \in Seq(Info), NEW t \in Seq(TryingUser), NEW M,
         NEW p \in 1..Len(t), Holds(c, t, M)
  PROVE  Holds(c, RemoveAt(t, p), M \ {t[p].info.id})
<1> DEFINE d == RemoveAt(t, p)
<1>1. Len(c) \in Nat /\ Len(t) \in Nat
  BY LenProperties
<1>2. /\ Len(d) = Len(t) - 1
      /\ \A k \in 1..Len(d) : d[k] = t[IF k < p THEN k ELSE k + 1]
  BY <1>1, RemoveAtElements
<1> HIDE DEF d
<1>3. \A k \in 1..Len(d) : \E m \in 1..Len(t) : m # p /\ d[k] = t[m] /\ m = IF k < p THEN k ELSE k + 1
  BY <1>1, <1>2
<1>4. \A m \in 1..Len(t) : m # p => \E k \in 1..Len(d) : d[k] = t[m]
  <2> SUFFICES ASSUME NEW m \in 1..Len(t), m # p
               PROVE  \E k \in 1..Len(d) : d[k] = t[m]
    OBVIOUS
  <2>1. CASE m < p
    BY <1>1, <1>2, <2>1
  <2>2. CASE m > p
    <3>1. m - 1 \in 1..Len(d) /\ ~(m - 1 < p) /\ (m - 1) + 1 = m
      BY <1>1, <1>2, <2>2
    <3> QED
      BY <1>2, <3>1
  <2> QED
    BY <2>1, <2>2, <1>1
<1>5. \A k, l \in 1..Len(d) : d[k].info.id = d[l].info.id => k = l
  <2> SUFFICES ASSUME NEW k \in 1..Len(d), NEW l \in 1..Len(d), d[k].info.id = d[l].info.id
               PROVE  k = l
    OBVIOUS
  <2> DEFINE m == IF k < p THEN k ELSE k + 1
             n == IF l < p THEN l ELSE l + 1
  <2>1. m \in 1..Len(t) /\ n \in 1..Len(t) /\ d[k] = t[m] /\ d[l] = t[n]
    BY <1>1, <1>2, SMTT(60)
  <2>2. m = n
    <3> HIDE DEF m, n
    <3> QED
      BY <2>1 DEF Holds
  <2> QED
    BY <1>1, <2>2
<1>6. Holds(c, d, M \ {t[p].info.id})
  <2>1. \A k \in 1..Len(d) : d[k].info.id \in M \ {t[p].info.id}
    BY <1>3, SMTT(60) DEF Holds
  <2>2. \A j \in 1..Len(c) : c[j].id \in M \ {t[p].info.id}
    BY DEF Holds
  <2>3. \A i \in 1..Len(c), j \in 1..Len(d) : c[i].id # d[j].info.id
    BY <1>3 DEF Holds
  <2>4. \A id \in M \ {t[p].info.id} : \/ \E i \in 1..Len(c) : c[i].id = id
                                       \/ \E i \in 1..Len(d) : d[i].info.id = id
    <3> SUFFICES ASSUME NEW id \in M \ {t[p].info.id}, ~ \E i \in 1..Len(c) : c[i].id = id
                 PROVE  \E i \in 1..Len(d) : d[i].info.id = id
      OBVIOUS
    <3> PICK m \in 1..Len(t) : t[m].info.id = id
      BY DEF Holds
    <3> PICK k \in 1..Len(d) : d[k] = t[m]
      BY <1>4
    <3> QED
      OBVIOUS
  <2>5. \A i, j \in 1..Len(c) : c[i].id = c[j].id => i = j
    BY DEF Holds
  <2> QED
    BY ONLY <1>5, <2>1, <2>2, <2>3, <2>4, <2>5 DEF Holds
<1> QED
  BY <1>6 DEF d

\* Who a user is tried against, and whether it is, makes no difference.
LEMMA HoldsSameUsers ==
  ASSUME NEW c, NEW t, NEW u, NEW M, SameUsers(t, u), Holds(c, t, M)
  PROVE  Holds(c, u, M)
BY DEF SameUsers, Holds

\* Dropping a candidate takes nobody else out of the queues: the user that
\* is promoted changes from one to the other.  The users in front of position
\* first stay where they are.
LEMMA DropCandidateHolds ==
  ASSUME NEW c \in Seq(Info), NEW t \in Seq(TryingUser), NEW M,
         NEW p \in 1..Len(c), NEW first \in Nat \ {0}, Holds(c, t, M)
  PROVE  /\ Holds(DropCandidate(c, t, p, first).candidates,
                  DropCandidate(c, t, p, first).trying, M \ {c[p].id})
         /\ \A i \in 1..Len(t) :
              i < first => DropCandidate(c, t, p, first).trying[i].info = t[i].info
<1> DEFINE promote == /\ p = Len(c)
                      /\ first \in DOMAIN t
                      /\ t[first].matchingWith = c[p]
           c1 == IF promote THEN Append(c, t[first].info) ELSE c
           t1 == IF promote THEN RemoveAt(t, first) ELSE t
           behind == RunFrom(t1, first, c[p])
           d == [i \in DOMAIN t1 |->
                   IF i \in behind THEN [t1[i] EXCEPT !.matchingWith = c1[p+1]]
                                   ELSE t1[i]]
<1>1. /\ DropCandidate(c, t, p, first).candidates = RemoveAt(c1, p)
      /\ DropCandidate(c, t, p, first).trying = d
  BY DEF DropCandidate
<1>2. DOMAIN t = 1..Len(t) /\ Len(t) \in Nat /\ Len(c) \in Nat
  BY LenProperties
<1>3. promote => t[first].info \in Info
  <2>1. promote => t[first] \in TryingUser
    BY <1>2, ElementOfSeq
  <2> QED
    BY <2>1 DEF TryingUser
<1>4. /\ c1 \in Seq(Info) /\ p \in 1..Len(c1) /\ c1[p] = c[p]
      /\ t1 \in Seq(TryingUser)
      /\ Holds(c1, t1, M)
      /\ \A i \in 1..Len(t) : i < first => i <= Len(t1) /\ t1[i] = t[i]
  <2>1. CASE promote
    <3>1. first \in 1..Len(t) /\ c1 = Append(c, t[first].info) /\ t1 = RemoveAt(t, first)
      BY <2>1, <1>2
    <3>2. /\ t1 \in Seq(TryingUser)
          /\ Len(t1) = Len(t) - 1
          /\ \A k \in 1..(Len(t) - 1) : t1[k] = IF k < first THEN t[k] ELSE t[k+1]
      BY ONLY <3>1, RemoveAtElements, t \in Seq(TryingUser)
    <3> DEFINE info == t[first].info
               N == M \ {info.id}
    <3>3. Holds(c, t1, N)
      <4> HIDE DEF t1
      <4> QED
        BY <3>1, HoldsLessTrying
    <3>4. Holds(c1, t1, N \union {info.id})
      <4>1. info.id \notin N
        OBVIOUS
      <4>2. info \in Info
        BY <2>1, <1>3
      <4>3. c1 = Append(c, info)
        BY <3>1
      <4> HIDE DEF info, N, t1, c1
      <4> QED
        BY <3>2, <3>3, <4>1, <4>2, <4>3, HoldsCandidate
    <3>5. N \union {info.id} = M
      BY <3>1 DEF Holds
    <3>6. c1 \in Seq(Info) /\ p \in 1..Len(c1) /\ c1[p] = c[p]
      BY <2>1, <1>2, <1>3
    <3> HIDE DEF c1, t1, N, info
    <3>7. Holds(c1, t1, M)
      BY <3>4, <3>5
    <3>8. \A i \in 1..Len(t) : i < first => i <= Len(t1) /\ t1[i] = t[i]
      BY <1>2, <3>1, <3>2
    <3> QED
      BY <3>2, <3>6, <3>7, <3>8
  <2>2. CASE ~promote
    BY <2>2, <1>2
  <2> QED
    BY <2>1, <2>2
<1>5. DOMAIN t1 = 1..Len(t1) /\ Len(t1) \in Nat
  <2> HIDE DEF t1
  <2> QED
    BY <1>4, LenProperties
<1>6. /\ SameUsers(t1, d)
      /\ \A i \in 1..Len(t1) : d[i].info = t1[i].info
  <2>1. \A i \in 1..Len(t1) : d[i].info = t1[i].info
    <3> SUFFICES ASSUME NEW i \in 1..Len(t1) PROVE d[i].info = t1[i].info
      OBVIOUS
    <3> HIDE DEF c1, t1, behind
    <3>1. t1[i] \in TryingUser
      BY <1>4, ElementOfSeq
    <3> QED
      BY <3>1, <1>5 DEF TryingUser
  <2>2. Len(d) = Len(t1)
    <3> HIDE DEF c1, t1, behind
    <3>1. d \in Seq({d[i] : i \in 1..Len(t1)}) /\ Len(d) = Len(t1)
      <4> DEFINE S == {d[i] : i \in 1..Len(t1)}
      <4>1. d \in [1..Len(t1) -> S]
        BY <1>5
      <4> HIDE DEF d, S
      <4> QED
        BY <4>1, <1>5, FunctionIsSeq DEF S
    <3> QED
      BY <3>1
  <2> HIDE DEF d, t1
  <2> QED
    BY <2>1, <2>2 DEF SameUsers
<1> HIDE DEF c1, t1, d
<1>7. Holds(RemoveAt(c1, p), t1, M \ {c[p].id})
  <2>1. Holds(RemoveAt(c1, p), t1, M \ {c1[p].id})
    BY <1>4, HoldsLessCandidate
  <2> QED
    BY <2>1, <1>4
<1>8. Holds(RemoveAt(c1, p), d, M \ {c[p].id})
  BY <1>6, <1>7, HoldsSameUsers
<1>9. \A i \in 1..Len(t) : i < first => d[i].info = t[i].info
  BY <1>2, <1>4, <1>5, <1>6
<1> QED
  BY <1>1, <1>8, <1>9

-----------------------------------------------------------------------------
(* arrange_job.                                                            *)

\* The clients that wait for a match.
Waiting == {id \in Id : status[id] = "MATCHING"}

\* No worker is idle that could try somebody.
NobodyToTry == Eligible(trying_queue) = {} \/ working_job = WORKER_NUMBER

\* The queues hold the clients that wait.  After a null or freed node was read
\* nothing is known of them.
QueuesHold ==
  process = "running" => Holds(candidate_queue, trying_queue, Waiting) /\ NobodyToTry

\* arrange_job stops only when every worker is busy or nobody can be tried.
LEMMA ArrangeJobConserves ==
  ASSUME NEW c, NEW t \in Seq(TryingUser), NEW working \in 0..WORKER_NUMBER, NEW js,
         ArrangeJob(c, t, working, js)
  PROVE  NobodyToTry'
<1> DEFINE E == Eligible(t)
           free == FreeWorkers(working)
           n == IF Cardinality(E) <= free THEN Cardinality(E) ELSE free
<1>1. PICK f \in StartOrder(t, working) :
        /\ trying_queue' = [i \in DOMAIN t |->
                              IF i \in Range(f)
                              THEN [t[i] EXCEPT !.progress = "PROCESSING"]
                              ELSE t[i]]
        /\ working_job' = working + Len(f)
  BY DEF ArrangeJob
<1>2. /\ f \in [1..n -> E]
      /\ \A k \in 1..n : Cardinality({j \in E : j < f[k]}) = k - 1
  BY DEF StartOrder
<1>3. E \subseteq 1..Len(t) /\ Len(t) \in Nat /\ DOMAIN t = 1..Len(t)
  BY LenProperties DEF Eligible
<1>4. IsFiniteSet(E)
  <2>1. IsFiniteSet(1..Len(t))
    BY <1>3, FS_Interval
  <2> HIDE DEF E
  <2> QED
    BY <1>3, <2>1, FS_Subset
<1>5. Cardinality(E) \in Nat
  <2> HIDE DEF E
  <2> QED
    BY <1>4, FS_CardinalityType
<1>6. free \in Nat /\ free = WORKER_NUMBER - working
  BY ConstantsAssumption DEF FreeWorkers
<1>7. n \in Nat
  BY <1>5, <1>6
<1>8. Len(f) = n
  <2> HIDE DEF n, E
  <2> QED
    BY <1>2, <1>7, FunctionIsSeq
<1>9. CASE free < Cardinality(E)
  <2>1. working_job' = WORKER_NUMBER
    BY <1>1, <1>5, <1>6, <1>8, <1>9, ConstantsAssumption
  <2> QED
    BY <2>1 DEF NobodyToTry
<1>10. CASE Cardinality(E) <= free
  <2>1. n = Cardinality(E)
    BY <1>10
  <2>2. f \in Injection(1..n, E)
    <3> SUFFICES ASSUME NEW k \in 1..n, NEW l \in 1..n, f[k] = f[l] PROVE k = l
      BY <1>2 DEF Injection, IsInjective
    <3>1. k - 1 = l - 1
      BY <1>2
    <3> QED
      BY <1>7, <3>1
  <2>3. Cardinality(1..n) = Cardinality(E)
    <3> HIDE DEF n, E
    <3> QED
      BY <1>7, <2>1, FS_Interval
  <2>4. f \in Surjection(1..n, E)
    <3> HIDE DEF n, E
    <3> QED
      BY <1>4, <2>2, <2>3, FS_Injection
  <2>5. \A i \in E : i \in Range(f)
    BY <1>2, <2>4 DEF Surjection, Range
  <2>6. \A i \in 1..Len(t) : t[i] \in TryingUser
    BY ElementOfSeq
  <2>7. \A i \in 1..Len(t) :
          /\ trying_queue'[i].matchingWith = t[i].matchingWith
          /\ trying_queue'[i].progress = IF i \in Range(f) THEN "PROCESSING"
                                                           ELSE t[i].progress
    BY <1>1, <1>3, <2>6 DEF TryingUser
  <2>8. DOMAIN trying_queue' = 1..Len(t)
    BY <1>1, <1>3
  <2>9. Eligible(trying_queue') = {}
    <3> SUFFICES ASSUME NEW i \in Eligible(trying_queue') PROVE FALSE
      OBVIOUS
    <3>1. /\ i \in 1..Len(t) /\ trying_queue'[i].progress = "WAITING"
          /\ i > 1 => trying_queue'[i-1].matchingWith # trying_queue'[i].matchingWith
      BY <2>8 DEF Eligible
    <3>2. i \notin Range(f) /\ t[i].progress = "WAITING"
      BY <2>7, <3>1
    <3>3. i > 1 => t[i-1].matchingWith # t[i].matchingWith
      BY <1>3, <2>7, <3>1
    <3>4. i \in E
      BY <1>3, <3>1, <3>2, <3>3 DEF Eligible
    <3> QED
      BY <2>5, <3>2, <3>4
  <2> QED
    BY <2>9 DEF NobodyToTry
<1> HIDE DEF n, free, E
<1> QED
  BY <1>5, <1>6, <1>9, <1>10

\* arrange_job puts nobody into a queue and takes nobody out.
LEMMA ArrangeJobHolds ==
  ASSUME NEW c \in Seq(Info), NEW t \in Seq(TryingUser),
         NEW working \in 0..WORKER_NUMBER, NEW js,
         NEW M, Holds(c, t, M), ArrangeJob(c, t, working, js)
  PROVE  Holds(candidate_queue', trying_queue', M) /\ NobodyToTry'
<1>1. PICK f \in StartOrder(t, working) :
        /\ candidate_queue' = c
        /\ trying_queue' = [i \in DOMAIN t |->
                              IF i \in Range(f)
                              THEN [t[i] EXCEPT !.progress = "PROCESSING"]
                              ELSE t[i]]
  BY DEF ArrangeJob
<1>2. Len(t) \in Nat /\ DOMAIN t = 1..Len(t)
  BY LenProperties
<1>3. \A i \in 1..Len(t) : t[i] \in TryingUser
  BY ElementOfSeq
<1>4. \A i \in 1..Len(t) : trying_queue'[i].info = t[i].info
  BY <1>1, <1>2, <1>3 DEF TryingUser
<1>5. Len(trying_queue') = Len(t)
  <2> DEFINE S == {trying_queue'[i] : i \in 1..Len(t)}
  <2>1. trying_queue' \in [1..Len(t) -> S]
    BY <1>1, <1>2
  <2> HIDE DEF S
  <2> QED
    BY <2>1, <1>2, FunctionIsSeq
<1>6. SameUsers(t, trying_queue')
  BY <1>4, <1>5 DEF SameUsers
<1> QED
  BY <1>1, <1>6, HoldsSameUsers, ArrangeJobConserves

-----------------------------------------------------------------------------
(* The handlers.                                                           *)

\* A search in trying_queue finds a user that is there.
LEMMA TryingAtFindsAny ==
  ASSUME NEW t \in Seq(TryingUser), NEW id,
         \E i \in 1..Len(t) : t[i].info.id = id
  PROVE  TryingAt(t, id) # 0
<1> DEFINE I == {i \in 1..Len(t) : t[i].info.id = id}
<1>1. TryingAt(t, id) = IF I # {} THEN Min(I) ELSE 0
  BY DEF TryingAt, SelectInSeq
<1>2. I \in SUBSET Nat /\ I # {} /\ 0 \notin I
  OBVIOUS
<1>3. Min(I) \in I
  <2> HIDE DEF I
  <2> QED BY <1>2, MinOfNats
<1> HIDE DEF I
<1> QED
  BY <1>1, <1>2, <1>3

\* A newcomer is in one of the queues.
LEMMA AddHolds ==
  ASSUME Ranged, NEW M, Holds(candidate_queue, trying_queue, M),
         NEW info \in Info, info.id \notin M, NobodyToTry, Add(info)
  PROVE  Holds(candidate_queue', trying_queue', M \union {info.id}) /\ NobodyToTry'
<1>1. /\ candidate_queue \in Seq(Info) /\ trying_queue \in Seq(TryingUser)
      /\ working_job \in 0..WORKER_NUMBER
  BY ConstantsAssumption DEF Ranged, TypeOK
<1>2. CASE /\ candidate_queue = <<>>
           /\ candidate_queue' = <<info>> /\ UNCHANGED <<trying_queue, working_job>>
  <2>1. candidate_queue' = Append(candidate_queue, info)
    BY <1>2
  <2>2. Holds(Append(candidate_queue, info), trying_queue, M \union {info.id})
    BY <1>1, HoldsCandidate
  <2> QED
    BY <1>2, <2>1, <2>2 DEF NobodyToTry
<1>3. CASE /\ candidate_queue # <<>>
           /\ ArrangeJob(candidate_queue, Append(trying_queue, Newcomer(info)),
                         working_job, jobs)
  <2> DEFINE u == Newcomer(info)
  <2>1. u \in TryingUser /\ u.info = info
    BY <1>1, <1>3, HeadTailProperties DEF Newcomer, TryingUser
  <2>2. Append(trying_queue, u) \in Seq(TryingUser)
    BY <1>1, <2>1, AppendProperties
  <2> HIDE DEF u
  <2>3. Holds(candidate_queue, Append(trying_queue, u), M \union {info.id})
    BY <1>1, <2>1, HoldsTrying
  <2> QED
    BY <1>1, <1>3, <2>2, <2>3, ArrangeJobHolds DEF u
<1> QED
  BY <1>2, <1>3 DEF Add

\* detach finds the client that quits in one of the two queues.
LEMMA DetachHolds ==
  ASSUME Ranged, NEW M, Holds(candidate_queue, trying_queue, M),
         NEW id \in M, Detach(id)
  PROVE  Holds(candidate_queue', trying_queue', M \ {id}) /\ NobodyToTry'
<1> DEFINE i == TryingAt(trying_queue, id)
           p == CandidateAt(candidate_queue, id)
           w == TryingWith(trying_queue, candidate_queue[p])
           first == IF w = 0 THEN Len(trying_queue) + 1 ELSE w
           d == DropCandidate(candidate_queue, trying_queue, p, first)
<1>1. /\ candidate_queue \in Seq(Info) /\ trying_queue \in Seq(TryingUser)
      /\ Len(trying_queue) \in Nat /\ working_job \in 0..WORKER_NUMBER
  BY LenProperties, ConstantsAssumption DEF Ranged, TypeOK
<1>2. CASE i # 0 /\ ArrangeJob(candidate_queue, RemoveAt(trying_queue, i), working_job, jobs)
  <2>1. i \in 1..Len(trying_queue) /\ trying_queue[i].info.id = id
    BY <1>1, <1>2, TryingAtFinds
  <2> HIDE DEF i
  <2>2. RemoveAt(trying_queue, i) \in Seq(TryingUser)
    BY <1>1, <2>1, RemoveAtType
  <2>3. Holds(candidate_queue, RemoveAt(trying_queue, i), M \ {trying_queue[i].info.id})
    BY <1>1, <2>1, HoldsLessTrying
  <2> QED
    BY <1>1, <1>2, <2>1, <2>2, <2>3, ArrangeJobHolds
<1>3. CASE i = 0 /\ p # 0 /\ ArrangeJob(d.candidates, d.trying, working_job, jobs)
  <2>1. p \in 1..Len(candidate_queue) /\ candidate_queue[p].id = id
    BY <1>1, <1>3, CandidateAtFinds
  <2>2. first \in Nat \ {0}
    <3> HIDE DEF p
    <3>1. w = 0 \/ w \in 1..Len(trying_queue)
      BY <1>1, TryingWithFinds
    <3> HIDE DEF w
    <3> QED
      BY <1>1, <3>1
  <2> HIDE DEF p, first
  <2>3. /\ d.candidates \in Seq(Info) /\ d.trying \in Seq(TryingUser)
        /\ Holds(d.candidates, d.trying, M \ {candidate_queue[p].id})
    BY <1>1, <2>1, <2>2, DropCandidateType, DropCandidateHolds
  <2> HIDE DEF d
  <2> QED
    BY <1>1, <1>3, <2>1, <2>3, ArrangeJobHolds
<1>4. CASE i = 0 /\ p = 0
  <2>1. \/ \E k \in 1..Len(candidate_queue) : candidate_queue[k].id = id
        \/ \E k \in 1..Len(trying_queue) : trying_queue[k].info.id = id
    BY DEF Holds
  <2>2. ~ \E k \in 1..Len(trying_queue) : trying_queue[k].info.id = id
    BY <1>1, <1>4, TryingAtFindsAny
  <2>3. ~ \E k \in 1..Len(candidate_queue) : candidate_queue[k].id = id
    <3>1. DOMAIN candidate_queue = 1..Len(candidate_queue)
      BY <1>1, LenProperties
    <3> QED
      BY <1>1, <1>4, <3>1, CandidateAtFinds DEF Range
  <2> QED
    BY <2>1, <2>2, <2>3
<1> QED
  BY <1>2, <1>3, <1>4 DEF Detach

\* A user i that goes on to the next candidate, or after the last one becomes
\* one, stays in the queues.
LEMMA FurtherHolds ==
  ASSUME Ranged, NEW M, Holds(candidate_queue, trying_queue, M),
         NEW i \in 1..Len(trying_queue), NEW p \in 1..Len(candidate_queue)
  PROVE  LET u == trying_queue[i]
             last == LastCandidate(p)
             c == IF last THEN Append(candidate_queue, u.info) ELSE candidate_queue
             t == IF last THEN RemoveAt(trying_queue, i)
                          ELSE [trying_queue EXCEPT
                                  ![i] = SentOn(u, candidate_queue[p+1])]
         IN c \in Seq(Info) /\ t \in Seq(TryingUser) /\ Holds(c, t, M)
<1> DEFINE u == trying_queue[i]
           last == LastCandidate(p)
           c == IF last THEN Append(candidate_queue, u.info) ELSE candidate_queue
           t == IF last THEN RemoveAt(trying_queue, i)
                        ELSE [trying_queue EXCEPT
                                ![i] = SentOn(u, candidate_queue[p+1])]
<1>1. candidate_queue \in Seq(Info) /\ trying_queue \in Seq(TryingUser)
  BY DEF Ranged, TypeOK
<1>2. u \in TryingUser
  BY <1>1, ElementOfSeq
<1>3. u.info \in Info
  BY <1>2 DEF TryingUser
<1>4. CASE last
  <2> DEFINE N == M \ {u.info.id}
  <2>1. Holds(candidate_queue, t, N) /\ t \in Seq(TryingUser)
    BY <1>1, <1>4, HoldsLessTrying, RemoveAtType
  <2>2. u.info.id \notin N /\ N \union {u.info.id} = M
    BY DEF Holds
  <2>3. c = Append(candidate_queue, u.info) /\ c \in Seq(Info)
    BY <1>1, <1>3, <1>4, AppendProperties
  <2> HIDE DEF N, u, c, t
  <2>4. Holds(c, t, N \union {u.info.id})
    BY <1>1, <1>3, <2>1, <2>2, <2>3, HoldsCandidate
  <2>5. c \in Seq(Info) /\ t \in Seq(TryingUser) /\ Holds(c, t, M)
    BY <2>1, <2>2, <2>3, <2>4
  <2> QED
    BY <2>5 DEF c, t, u
<1>5. CASE ~last
  <2>1. p + 1 \in 1..Len(candidate_queue)
    BY <1>1, <1>5, LenProperties DEF LastCandidate
  <2>2. candidate_queue[p+1] \in Info
    BY <1>1, <2>1, ElementOfSeq
  <2> DEFINE v == SentOn(u, candidate_queue[p+1])
  <2>3. v \in TryingUser /\ v.info = u.info
    BY <1>2, <2>2 DEF SentOn, TryingUser
  <2> HIDE DEF v
  <2>4. t = [trying_queue EXCEPT ![i] = v] /\ c = candidate_queue
    BY <1>5 DEF v
  <2> HIDE DEF t, c, last
  <2>5. t \in Seq(TryingUser) /\ Len(t) = Len(trying_queue)
    BY <1>1, <2>3, <2>4, ExceptSeq
  <2>6. \A k \in 1..Len(trying_queue) : t[k].info = trying_queue[k].info
    BY <1>1, <2>3, <2>4, LenProperties
  <2>7. SameUsers(trying_queue, t)
    BY <2>5, <2>6 DEF SameUsers
  <2>8. c \in Seq(Info) /\ t \in Seq(TryingUser) /\ Holds(c, t, M)
    BY <1>1, <2>4, <2>5, <2>7, HoldsSameUsers
  <2> QED
    BY <2>8 DEF t, c, last
<1> QED
  BY <1>4, <1>5

\* A user that moves on stays in the queues.
LEMMA MoveOnHolds ==
  ASSUME Ranged, NEW M, Holds(candidate_queue, trying_queue, M),
         OneJobLess \in 0..WORKER_NUMBER, NEW id, NEW js, MoveOn(id, js)
  PROVE  process' = "running" => Holds(candidate_queue', trying_queue', M) /\ NobodyToTry'
<1> DEFINE i == TryingAt(trying_queue, id)
           u == trying_queue[i]
           p == CandidateAt(candidate_queue, u.matchingWith.id)
           last == LastCandidate(p)
           c == IF last THEN Append(candidate_queue, u.info) ELSE candidate_queue
           t == IF last THEN RemoveAt(trying_queue, i)
                        ELSE [trying_queue EXCEPT
                                ![i] = SentOn(u, candidate_queue[p+1])]
<1>1. candidate_queue \in Seq(Info) /\ trying_queue \in Seq(TryingUser)
  BY DEF Ranged, TypeOK
<1>2. CASE i # 0 /\ u.matchingWith \in Range(candidate_queue)
  <2>1. ArrangeJob(c, t, OneJobLess, js)
    BY <1>2 DEF MoveOn
  <2>2. i \in 1..Len(trying_queue) /\ u \in TryingUser
    BY <1>1, <1>2, TryingAtFinds, ElementOfSeq
  <2>3. p \in 1..Len(candidate_queue)
    BY <1>1, <1>2, CandidateAtFinds
  <2>5. c \in Seq(Info) /\ t \in Seq(TryingUser) /\ Holds(c, t, M)
    <3> HIDE DEF i, p
    <3> QED
      BY <2>2, <2>3, FurtherHolds
  <2> HIDE DEF c, t
  <2> QED
    BY <2>1, <2>5, ArrangeJobHolds
<1>3. CASE ReadsDeadNode(js)
  BY <1>3 DEF ReadsDeadNode
<1> QED
  BY <1>2, <1>3 DEF MoveOn

\* The user i and the candidate at p leave the queues.
LEMMA PairHolds ==
  ASSUME Ranged, NEW M, Holds(candidate_queue, trying_queue, M),
         NEW i \in 1..Len(trying_queue), NEW p \in 1..Len(candidate_queue)
  PROVE  LET d == DropCandidate(candidate_queue, trying_queue, p, i + 1)
         IN /\ d.candidates \in Seq(Info)
            /\ d.trying \in Seq(TryingUser)
            /\ i \in 1..Len(d.trying)
            /\ d.trying[i].info = trying_queue[i].info
            /\ Holds(d.candidates, d.trying, M \ {candidate_queue[p].id})
            /\ RemoveAt(d.trying, i) \in Seq(TryingUser)
            /\ Holds(d.candidates, RemoveAt(d.trying, i),
                     M \ {trying_queue[i].info.id, candidate_queue[p].id})
<1> DEFINE d == DropCandidate(candidate_queue, trying_queue, p, i + 1)
           N == M \ {trying_queue[i].info.id, candidate_queue[p].id}
<1>1. candidate_queue \in Seq(Info) /\ trying_queue \in Seq(TryingUser)
  BY DEF Ranged, TypeOK
<1>2. i + 1 \in Nat \ {0} /\ i < i + 1
  OBVIOUS
<1>3. /\ d.candidates \in Seq(Info)
      /\ d.trying \in Seq(TryingUser)
      /\ i <= Len(d.trying)
  BY <1>1, <1>2, DropCandidateType
<1>4. /\ Holds(d.candidates, d.trying, M \ {candidate_queue[p].id})
      /\ d.trying[i].info = trying_queue[i].info
  <2> DEFINE first == i + 1
  <2>1. first \in Nat \ {0} /\ i < first /\ d = DropCandidate(candidate_queue, trying_queue, p, first)
    BY <1>2
  <2> HIDE DEF first, d
  <2> DEFINE e == DropCandidate(candidate_queue, trying_queue, p, first)
  <2>2. \A k \in 1..Len(trying_queue) : k < first => e.trying[k].info = trying_queue[k].info
    BY <1>1, <2>1, DropCandidateHolds, ZenonT(60)
  <2>3. Holds(e.candidates, e.trying, M \ {candidate_queue[p].id})
    BY <1>1, <2>1, DropCandidateHolds
  <2>4. d = e
    BY <2>1
  <2> HIDE DEF e
  <2> QED
    BY <2>1, <2>2, <2>3, <2>4
<1> HIDE DEF d
<1>5. i \in 1..Len(d.trying)
  BY <1>3, LenProperties
<1>6. Holds(d.candidates, RemoveAt(d.trying, i),
            (M \ {candidate_queue[p].id}) \ {d.trying[i].info.id})
  BY <1>3, <1>4, <1>5, HoldsLessTrying
<1>7. (M \ {candidate_queue[p].id}) \ {d.trying[i].info.id} = N
  BY <1>4
<1>8. RemoveAt(d.trying, i) \in Seq(TryingUser)
  BY <1>3, <1>5, RemoveAtType
<1>9. Holds(d.candidates, RemoveAt(d.trying, i), N)
  BY <1>6, <1>7
<1> QED
  BY <1>3, <1>4, <1>5, <1>8, <1>9 DEF d

\* Of two that are matched, both were waiting, and they are two.
LEMMA HandleMatchHolds ==
  ASSUME Ranged, NEW M, Holds(candidate_queue, trying_queue, M),
         OneJobLess \in 0..WORKER_NUMBER, NEW id, NEW js, HandleMatch(id, js)
  PROVE  \/ /\ UNCHANGED clientVars
            /\ process' = "running" => Holds(candidate_queue', trying_queue', M) /\ NobodyToTry'
         \/ \E other \in M \ {id} :
              /\ id \in M
              /\ Talk(id, other)
              /\ Holds(candidate_queue', trying_queue', M \ {id, other}) /\ NobodyToTry'
<1> DEFINE i == TryingAt(trying_queue, id)
           u == trying_queue[i]
           node == u.matchingWith
           p == CandidateAt(candidate_queue, node.id)
           d == DropCandidate(candidate_queue, trying_queue, p, i + 1)
<1>1. candidate_queue \in Seq(Info) /\ trying_queue \in Seq(TryingUser)
  BY DEF Ranged, TypeOK
<1>2. CASE /\ ArrangeJob(candidate_queue, trying_queue, OneJobLess, js)
           /\ UNCHANGED clientVars
  BY <1>1, <1>2, ArrangeJobHolds
<1>3. CASE ReadsDeadNode(js) /\ UNCHANGED clientVars
  BY <1>3 DEF ReadsDeadNode
<1>4. CASE /\ i # 0 /\ node \in Range(candidate_queue)
           /\ ArrangeJob(d.candidates, RemoveAt(d.trying, i), OneJobLess, js)
           /\ Talk(id, node.id)
  <2>1. i \in 1..Len(trying_queue) /\ u.info.id = id
    BY <1>1, <1>4, TryingAtFinds
  <2>2. p \in 1..Len(candidate_queue) /\ candidate_queue[p].id = node.id
    BY <1>1, <1>4, CandidateAtFinds
  <2>3. node.id \in M \ {id} /\ id \in M
    <3> HIDE DEF p, node, i
    <3> QED
      BY <2>1, <2>2 DEF Holds
  <2> DEFINE t == RemoveAt(d.trying, i)
             N == M \ {id, node.id}
  <2>4. d.candidates \in Seq(Info) /\ t \in Seq(TryingUser) /\ Holds(d.candidates, t, N)
    <3>1. {id, node.id} = {u.info.id, candidate_queue[p].id}
      BY <2>1, <2>2
    <3>2. /\ d.candidates \in Seq(Info) /\ t \in Seq(TryingUser)
          /\ Holds(d.candidates, t, M \ {u.info.id, candidate_queue[p].id})
      <4> HIDE DEF i, p
      <4> QED
        BY <2>1, <2>2, PairHolds
    <3> QED
      BY <3>1, <3>2
  <2>5. ArrangeJob(d.candidates, t, OneJobLess, js)
    BY <1>4
  <2>6. Holds(candidate_queue', trying_queue', N) /\ NobodyToTry'
    <3> HIDE DEF N, t, d
    <3> QED
      BY <2>4, <2>5, ArrangeJobHolds
  <2> QED
    BY <1>4, <2>3, <2>6
<1> QED
  BY <1>2, <1>3, <1>4 DEF HandleMatch

-----------------------------------------------------------------------------
(* The invariance.                                                         *)

\* The inductive invariant.  That two who talk agree needs to know that those
\* who are matched were waiting, hence that the queues hold nobody else, and
\* nobody twice.
PartnersIInv == IInv /\ QueuesHold /\ PartnersAgree

\* The invariant holds at the start.
LEMMA PartnersInit == Init => PartnersIInv
<1> SUFFICES ASSUME Init PROVE PartnersIInv
  OBVIOUS
<1>1. Holds(candidate_queue, trying_queue, Waiting)
  BY DEF Init, Holds, Waiting
<1>nobody. NobodyToTry
  BY DEF Init, NobodyToTry, Eligible
<1>2. PartnersAgree
  BY DEF Init, PartnersAgree
<1> QED
  BY <1>1, <1>nobody, <1>2, InitEstablishes DEF PartnersIInv, QueuesHold

\* Two that were waiting are matched: nobody else's partner changes.
LEMMA TalkKeepsPartners ==
  ASSUME Ranged, PartnersAgree, NEW a \in Waiting, NEW b \in Waiting \ {a}, Talk(a, b)
  PROVE  PartnersAgree' /\ Waiting' = Waiting \ {a, b}
<1>1. /\ status \in [Id -> {"IDLE", "MATCHING", "TALKING", "CLOSED"}]
      /\ match_peer \in [Id -> Id \union {NoPeer}]
  BY DEF Ranged, TypeOK
<1>2. a \in Id /\ b \in Id /\ a # b /\ status[a] = "MATCHING" /\ status[b] = "MATCHING"
  BY DEF Waiting
<1>3. \A x \in Id : /\ status'[x] = IF x \in {a, b} THEN "TALKING" ELSE status[x]
                    /\ match_peer'[x] = IF x = a THEN b ELSE IF x = b THEN a
                                        ELSE match_peer[x]
  BY <1>1, <1>2 DEF Talk
<1>4. Waiting' = Waiting \ {a, b}
  BY <1>2, <1>3 DEF Waiting
<1>5. PartnersAgree'
  <2> SUFFICES ASSUME NEW x \in Id, status'[x] = "TALKING"
               PROVE  /\ match_peer'[x] \in Id \ {x}
                      /\ status'[match_peer'[x]] = "TALKING"
                      /\ match_peer'[match_peer'[x]] = x
    BY DEF PartnersAgree
  <2>1. CASE x \in {a, b}
    BY <1>2, <1>3, <2>1
  <2>2. CASE x \notin {a, b}
    <3>1. status[x] = "TALKING" /\ match_peer'[x] = match_peer[x]
      BY <1>3, <2>2
    <3>2. /\ match_peer[x] \in Id \ {x}
          /\ status[match_peer[x]] = "TALKING"
          /\ match_peer[match_peer[x]] = x
      BY <3>1 DEF PartnersAgree
    <3>3. match_peer[x] \notin {a, b}
      BY <1>2, <3>2
    <3> QED
      BY <1>3, <3>1, <3>2, <3>3
  <2> QED
    BY <2>1, <2>2
<1> QED
  BY <1>4, <1>5

\* A client that asks for a match was in no queue and in no conversation.
LEMMA TryMatchKeepsPartners ==
  ASSUME Ranged, QueuesHold, PartnersAgree, process = "running",
         NEW id \in Id, status[id] = "IDLE", TryMatch(id)
  PROVE  QueuesHold' /\ PartnersAgree'
<1>1. /\ status \in [Id -> {"IDLE", "MATCHING", "TALKING", "CLOSED"}]
      /\ try_match_counter \in [Id -> Nat]
      /\ Ranged /\ PartnersAgree
  BY DEF Ranged, TypeOK
<1>2. \A x \in Id : status'[x] = IF x = id THEN "MATCHING" ELSE status[x]
  BY <1>1 DEF TryMatch
<1>3. Waiting' = Waiting \union {id} /\ id \notin Waiting
  BY <1>2 DEF Waiting
<1>4. QueuesHold'
  <2> DEFINE info == [id |-> id, counter |-> try_match_counter[id] + 1]
  <2>1. info \in Info /\ info.id = id
    BY <1>1 DEF Info
  <2>2. Add(info)
    BY DEF TryMatch
  <2> HIDE DEF info
  <2>3. Holds(candidate_queue, trying_queue, Waiting) /\ NobodyToTry
    BY DEF QueuesHold
  <2>4. Holds(candidate_queue', trying_queue', Waiting \union {info.id}) /\ NobodyToTry'
    BY <1>1, <1>3, <2>1, <2>2, <2>3, AddHolds
  <2>5. Holds(candidate_queue', trying_queue', Waiting') /\ NobodyToTry'
    BY <1>3, <2>1, <2>4
  <2> QED
    BY <2>5 DEF QueuesHold
<1>5. PartnersAgree'
  <2>1. match_peer' = match_peer
    BY DEF TryMatch
  <2> QED
    BY <1>1, <1>2, <2>1 DEF PartnersAgree
<1> QED
  BY <1>4, <1>5

\* One that leaves takes its partner out of the conversation, and itself out
\* of the queues.
LEMMA LeaveKeepsPartners ==
  ASSUME Ranged, QueuesHold, PartnersAgree, process = "running",
         NEW id \in Id, NEW new \in {"IDLE", "CLOSED"}, Leave(id, new)
  PROVE  QueuesHold' /\ PartnersAgree'
<1>1. /\ status \in [Id -> {"IDLE", "MATCHING", "TALKING", "CLOSED"}]
      /\ Ranged /\ PartnersAgree /\ Holds(candidate_queue, trying_queue, Waiting) /\ NobodyToTry
  BY DEF Ranged, TypeOK, QueuesHold
<1>2. match_peer' = match_peer
  BY DEF Leave
<1>3. CASE /\ status[id] = "TALKING"
           /\ status' = [status EXCEPT ![match_peer[id]] = "IDLE", ![id] = new]
           /\ UNCHANGED <<queueVars, quit_set, process>>
  <2>1. /\ match_peer[id] \in Id \ {id} /\ status[match_peer[id]] = "TALKING"
        /\ match_peer[match_peer[id]] = id
    BY <1>1, <1>3 DEF PartnersAgree
  <2>2. \A x \in Id : status'[x] = IF x = id THEN new
                                   ELSE IF x = match_peer[id] THEN "IDLE" ELSE status[x]
    BY <1>1, <1>3, <2>1
  <2>3. Waiting' = Waiting
    <3>1. new # "MATCHING"
      OBVIOUS
    <3>2. \A x \in Id : status'[x] = "MATCHING" <=> status[x] = "MATCHING"
      <4> SUFFICES ASSUME NEW x \in Id
                   PROVE  status'[x] = "MATCHING" <=> status[x] = "MATCHING"
        OBVIOUS
      <4>1. CASE x = id
        BY <1>3, <2>2, <3>1, <4>1
      <4>2. CASE x # id /\ x = match_peer[id]
        BY <2>1, <2>2, <4>2
      <4>3. CASE x # id /\ x # match_peer[id]
        BY <2>2, <4>3
      <4> QED
        BY <4>1, <4>2, <4>3
    <3> QED
      BY <3>2 DEF Waiting
  <2>4. /\ candidate_queue' = candidate_queue /\ trying_queue' = trying_queue
        /\ working_job' = working_job
    BY <1>3 DEF queueVars
  <2>5. QueuesHold'
    BY <1>1, <2>3, <2>4 DEF QueuesHold, NobodyToTry
  <2>6. PartnersAgree'
    BY <1>1, <1>2, <2>1, <2>2 DEF PartnersAgree
  <2> QED
    BY <2>5, <2>6
<1>4. CASE /\ status[id] = "MATCHING"
           /\ status' = [status EXCEPT ![id] = new]
           /\ Detach(id)
  <2>1. \A x \in Id : status'[x] = IF x = id THEN new ELSE status[x]
    BY <1>1, <1>4
  <2>2. Waiting' = Waiting \ {id} /\ id \in Waiting
    BY <1>4, <2>1 DEF Waiting
  <2>3. Holds(candidate_queue', trying_queue', Waiting \ {id}) /\ NobodyToTry'
    BY <1>1, <1>4, <2>2, DetachHolds
  <2>4. QueuesHold'
    BY <2>2, <2>3 DEF QueuesHold
  <2>5. PartnersAgree'
    BY <1>1, <1>2, <1>4, <2>1 DEF PartnersAgree
  <2> QED
    BY <2>4, <2>5
<1> QED
  BY <1>3, <1>4 DEF Leave

\* Whatever a client does, in either regime.
LEMMA ClientStepKeepsPartners ==
  ASSUME Ranged, QueuesHold, PartnersAgree, process = "running",
         NEW id \in Id, ClientStep(id)
  PROVE  QueuesHold' /\ PartnersAgree'
<1>1. CASE MayTry(id) /\ TryMatch(id)
  BY <1>1, TryMatchKeepsPartners DEF MayTry
<1>2. CASE Quit(id)
  BY <1>2, LeaveKeepsPartners DEF Quit
<1>3. CASE Disconnect(id)
  <2>1. CASE Leave(id, "CLOSED")
    BY <2>1, LeaveKeepsPartners
  <2>2. CASE /\ status[id] = "IDLE"
             /\ status' = [status EXCEPT ![id] = "CLOSED"]
             /\ UNCHANGED <<queueVars, quit_set, process, try_match_counter,
                            match_peer, matched, likes>>
    <3>1. status \in [Id -> {"IDLE", "MATCHING", "TALKING", "CLOSED"}]
      BY DEF Ranged, TypeOK
    <3>2. \A x \in Id : status'[x] = IF x = id THEN "CLOSED" ELSE status[x]
      BY <2>2, <3>1
    <3>3. Waiting' = Waiting
      BY <2>2, <3>2 DEF Waiting
    <3>4. QueuesHold'
      BY <2>2, <3>3 DEF QueuesHold, NobodyToTry, queueVars
    <3>5. PartnersAgree'
      BY <2>2, <3>2 DEF PartnersAgree
    <3> QED
      BY <3>4, <3>5
  <2> QED
    BY <1>3, <2>1, <2>2 DEF Disconnect
<1> QED
  BY <1>1, <1>2, <1>3 DEF ClientStep

\* And whatever is reported, of a job that is out or not.
LEMMA HandleReportKeepsPartners ==
  ASSUME Ranged, QueuesHold, PartnersAgree, process = "running",
         OneJobLess \in 0..WORKER_NUMBER,
         NEW report, NEW js, HandleReport(report, js)
  PROVE  QueuesHold' /\ PartnersAgree'
<1>1. /\ Ranged /\ PartnersAgree /\ Holds(candidate_queue, trying_queue, Waiting) /\ NobodyToTry
      /\ candidate_queue \in Seq(Info) /\ trying_queue \in Seq(TryingUser)
  BY DEF Ranged, TypeOK, QueuesHold
<1>2. ASSUME UNCHANGED clientVars,
             process' = "running" => Holds(candidate_queue', trying_queue', Waiting) /\ NobodyToTry'
      PROVE  QueuesHold' /\ PartnersAgree'
  <2>1. Waiting' = Waiting
    BY <1>2 DEF Waiting, clientVars
  <2>2. QueuesHold'
    BY <1>2, <2>1 DEF QueuesHold
  <2>3. PartnersAgree'
    BY <1>1, <1>2 DEF PartnersAgree, clientVars
  <2> QED
    BY <2>2, <2>3
<1>3. CASE HandleMatch(report.trying_id, js)
  <2> DEFINE id == report.trying_id
  <2>1. CASE /\ UNCHANGED clientVars
             /\ process' = "running" => Holds(candidate_queue', trying_queue', Waiting) /\ NobodyToTry'
    BY <1>2, <2>1
  <2>2. CASE \E other \in Waiting \ {id} :
               /\ id \in Waiting
               /\ Talk(id, other)
               /\ Holds(candidate_queue', trying_queue', Waiting \ {id, other}) /\ NobodyToTry'
    <3> HIDE DEF id
    <3> PICK other \in Waiting \ {id} :
               /\ id \in Waiting
               /\ Talk(id, other)
               /\ Holds(candidate_queue', trying_queue', Waiting \ {id, other}) /\ NobodyToTry'
      BY <2>2
    <3>1. PartnersAgree' /\ Waiting' = Waiting \ {id, other}
      BY <1>1, TalkKeepsPartners
    <3>2. Holds(candidate_queue', trying_queue', Waiting') /\ NobodyToTry'
      BY <3>1
    <3> QED
      BY <3>1, <3>2 DEF QueuesHold
  <2> QED
    BY <1>1, <1>3, <2>1, <2>2, HandleMatchHolds
<1>4. CASE ArrangeJob(candidate_queue, trying_queue, OneJobLess, js) /\ UNCHANGED clientVars
  <2>1. Holds(candidate_queue', trying_queue', Waiting) /\ NobodyToTry'
    BY <1>1, <1>4, ArrangeJobHolds
  <2> QED
    BY <1>2, <1>4, <2>1
<1>5. CASE MoveOn(report.trying_id, js) /\ UNCHANGED clientVars
  <2>1. process' = "running" => Holds(candidate_queue', trying_queue', Waiting) /\ NobodyToTry'
    BY <1>1, <1>5, MoveOnHolds
  <2> QED
    BY <1>2, <1>5, <2>1
<1> QED
  BY <1>3, <1>4, <1>5 DEF HandleReport

\* Every step preserves the invariant.
LEMMA PartnersPreserved == PartnersIInv /\ [Next]_vars => PartnersIInv'
<1> SUFFICES ASSUME PartnersIInv, [Next]_vars PROVE PartnersIInv'
  OBVIOUS
<1>1. IInv'
  BY NextPreserves DEF PartnersIInv
<1>2. QueuesHold' /\ PartnersAgree'
  <2>1. CASE process = "running" /\ \E id \in Id : ClientStep(id)
    BY <2>1, IInvRanged, ClientStepKeepsPartners DEF PartnersIInv
  <2>2. CASE process = "running" /\ WorkerStep
    <3> PICK k \in DOMAIN jobs : Report(k)
      BY <2>2 DEF WorkerStep
    <3>1. OneJobLess \in 0..WORKER_NUMBER
      BY OneJobLessCounts DEF PartnersIInv
    <3> QED
      BY <2>2, <3>1, IInvRanged, HandleReportKeepsPartners DEF Report, PartnersIInv
  <2>3. CASE UNCHANGED vars
    <3>1. Waiting' = Waiting
      BY <2>3 DEF vars, clientVars, Waiting
    <3> QED
      BY <2>3, <3>1 DEF PartnersIInv, QueuesHold, NobodyToTry, PartnersAgree,
                        vars, queueVars, clientVars
  <2> QED
    BY <2>1, <2>2, <2>3 DEF Next
<1> QED
  BY <1>1, <1>2 DEF PartnersIInv

\* Conversations are between two, however clients ask, quit, come back and
\* disconnect, and whatever report is read when.
THEOREM PartnersAlwaysAgree == Spec => []PartnersAgree
<1>1. PartnersIInv => PartnersAgree
  BY DEF PartnersIInv
<1> QED
  BY <1>1, PartnersInit, PartnersPreserved, PTL DEF Spec

-----------------------------------------------------------------------------
(* The two other properties of the queues.                                 *)

\* Of a client that waits there is one entry, of the others none.
LEMMA HoldsCounts ==
  ASSUME Ranged, Holds(candidate_queue, trying_queue, Waiting), NEW id \in Id
  PROVE  Cardinality(InQueue(id)) = IF status[id] = "MATCHING" THEN 1 ELSE 0
<1>1. /\ DOMAIN candidate_queue = 1..Len(candidate_queue)
      /\ DOMAIN trying_queue = 1..Len(trying_queue)
  BY LenProperties DEF Ranged, TypeOK
<1>2. CASE status[id] = "MATCHING"
  <2>1. CASE \E i \in 1..Len(candidate_queue) : candidate_queue[i].id = id
    <3> PICK i \in 1..Len(candidate_queue) : candidate_queue[i].id = id
      BY <2>1
    <3>1. {k \in DOMAIN candidate_queue : candidate_queue[k].id = id} = {i}
      BY <1>1 DEF Holds
    <3>2. {k \in DOMAIN trying_queue : trying_queue[k].info.id = id} = {}
      BY <1>1 DEF Holds
    <3>3. InQueue(id) = {<<"candidate", i>>}
      BY <3>1, <3>2 DEF InQueue
    <3> QED
      BY <1>2, <3>3, FS_Singleton
  <2>2. CASE \E i \in 1..Len(trying_queue) : trying_queue[i].info.id = id
    <3> PICK i \in 1..Len(trying_queue) : trying_queue[i].info.id = id
      BY <2>2
    <3>1. {k \in DOMAIN trying_queue : trying_queue[k].info.id = id} = {i}
      BY <1>1 DEF Holds
    <3>2. {k \in DOMAIN candidate_queue : candidate_queue[k].id = id} = {}
      BY <1>1 DEF Holds
    <3>3. InQueue(id) = {<<"trying", i>>}
      BY <3>1, <3>2 DEF InQueue
    <3> QED
      BY <1>2, <3>3, FS_Singleton
  <2> QED
    BY <1>2, <2>1, <2>2 DEF Holds, Waiting
<1>3. CASE status[id] # "MATCHING"
  <2>1. id \notin Waiting
    BY <1>3 DEF Waiting
  <2>2. /\ {k \in DOMAIN candidate_queue : candidate_queue[k].id = id} = {}
        /\ {k \in DOMAIN trying_queue : trying_queue[k].info.id = id} = {}
    BY <1>1, <2>1 DEF Holds
  <2>3. InQueue(id) = {}
    BY <2>2 DEF InQueue
  <2> QED
    BY <1>3, <2>3, FS_EmptySet
<1> QED
  BY <1>2, <1>3

\* A client that waits is in one of the queues, once, and nobody else is: no
\* handler loses a user or keeps one that left.
THEOREM EachQueuedOnce == Spec => []QueuedOnce
<1>1. PartnersIInv => QueuedOnce
  BY IInvRanged, HoldsCounts DEF PartnersIInv, QueuesHold, QueuedOnce
<1> QED
  BY <1>1, PartnersInit, PartnersPreserved, PTL DEF Spec

\* Between two handlers no worker is idle while a user could be tried: every
\* path through every handler ends in arrange_job, which starts all it can.
THEOREM WorkIsConserved == Spec => []WorkConserving
<1>1. PartnersIInv => WorkConserving
  BY DEF PartnersIInv, QueuesHold, NobodyToTry, WorkConserving
<1> QED
  BY <1>1, PartnersInit, PartnersPreserved, PTL DEF Spec
=============================================================================
