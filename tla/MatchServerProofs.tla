------------------------- MODULE MatchServerProofs -------------------------
(***************************************************************************)
(* The proof that module MatchServer implements WorkerPool: the match      *)
(* queue of module MatchQueue is one of those that WorkerPool allows, so   *)
(* the theorems about WorkerPool hold of the whole server; that its users  *)
(* are kept right whichever children die; and that it implements Matching  *)
(* as long as no child has died, so that what was proved of that module    *)
(* holds of the server, too.                                               *)
(*                                                                         *)
(* Pool and match queue rely on each other.  A handler takes a slot back from  *)
(* working_job, which must not be zero, and that is what the pool counts;  *)
(* the pool counts right because the handlers send no more jobs than they  *)
(* take slots.                                                             *)
(***************************************************************************)
EXTENDS MatchServer, MatchingSafeProofs

-----------------------------------------------------------------------------
(* PoolProofs is WorkerPool with its theorems: the module that Pool of     *)
(* MatchServer instantiates as well.  The prover takes the two for         *)
(* different definitions, so that they say the same is stated here.        *)

PoolProofs == INSTANCE WorkerPoolProofs WITH
  Job <- [trying_info : Request, candidate_info : Request]

\* How many there are of what is counted.
LEMMA SameCardinality == \A S : PoolProofs!Cardinality(S) = Cardinality(S)
BY DEF PoolProofs!Cardinality, Cardinality

\* Which sets are finite.
LEMMA SameFinite == PoolProofs!IsFiniteSet(Pid) <=> IsFiniteSet(Pid)
BY DEF PoolProofs!IsFiniteSet, IsFiniteSet

\* What a worker does.
LEMMA SameWorkers ==
  ASSUME NEW p \in Pid
  PROVE  /\ Pool!WorkerNext(p) => PoolProofs!WorkerNext(p)
         /\ Pool!Crash(p) => PoolProofs!Crash(p)
<1>1. Pool!WorkerNext(p) => PoolProofs!WorkerNext(p)
  BY DEF Pool!WorkerNext, PoolProofs!WorkerNext,
         Pool!ReceiveJob, PoolProofs!ReceiveJob, Pool!SendPid, PoolProofs!SendPid,
         Pool!SendReport, PoolProofs!SendReport,
         Pool!Idle, PoolProofs!Idle, Pool!NoJob, PoolProofs!NoJob
<1>2. Pool!Crash(p) => PoolProofs!Crash(p)
  <2> DEFINE U == {q \in Pid : worker[q] = "unborn"}
             Z == {q \in Pid : worker[q] = "zombie"}
  <2>1. /\ PoolProofs!Cardinality(U) = Pool!Cardinality(U)
        /\ PoolProofs!Cardinality(Z) = Pool!Cardinality(Z)
    BY DEF PoolProofs!Cardinality, Pool!Cardinality
  <2> QED
    BY <2>1 DEF Pool!Crash, PoolProofs!Crash, Pool!NoJob, PoolProofs!NoJob
<1> QED
  BY <1>1, <1>2

\* The main loop's turns that end in a handler of module MatchQueue.
LEMMA SameReports ==
  /\ Pool!JobReady => PoolProofs!JobReady
  /\ Pool!PidOfKilled => PoolProofs!PidOfKilled
  /\ \A p \in Pid : Pool!ReapRecorded(p) => PoolProofs!ReapRecorded(p)
  /\ Pool!ClientReady => PoolProofs!ClientReady
BY DEF Pool!JobReady, PoolProofs!JobReady, Pool!PidOfKilled, PoolProofs!PidOfKilled,
       Pool!ReapRecorded, PoolProofs!ReapRecorded,
       Pool!ClientReady, PoolProofs!ClientReady, Pool!Turn, PoolProofs!Turn,
       Pool!Erase, PoolProofs!Erase, Pool!Restrict, PoolProofs!Restrict,
       Pool!OneForAnother, PoolProofs!OneForAnother, Pool!Idle, PoolProofs!Idle

\* Its other turns.
LEMMA SameBookkeeping == Pool!Bookkeeping => PoolProofs!Bookkeeping
BY DEF Pool!Bookkeeping, PoolProofs!Bookkeeping, Pool!Select, PoolProofs!Select,
       Pool!PidOfAlive, PoolProofs!PidOfAlive, Pool!ReadSignal, PoolProofs!ReadSignal,
       Pool!NoMoreChildren, PoolProofs!NoMoreChildren,
       Pool!NoMoreClients, PoolProofs!NoMoreClients,
       Pool!ReapUnrecorded, PoolProofs!ReapUnrecorded,
       Pool!ReadyFds, PoolProofs!ReadyFds, Pool!IfReady, PoolProofs!IfReady,
       Pool!Turn, PoolProofs!Turn, Pool!Erase, PoolProofs!Erase,
       Pool!Restrict, PoolProofs!Restrict,
       Pool!OneForAnother, PoolProofs!OneForAnother, Pool!Idle, PoolProofs!Idle

\* What a handler may send.
LEMMA SameArrange ==
  ASSUME NEW w, Pool!Arrange(w)
  PROVE  PoolProofs!Arrange(w)
BY DEF Pool!Arrange, PoolProofs!Arrange

-----------------------------------------------------------------------------
(* What the handlers send.                                                 *)

Job == [trying_info : Request, candidate_info : Request]

\* Nobody waits, and no job is out, for a request that was not made.
Requests ==
  /\ candidate_queue \in Seq(Request)
  /\ trying_queue \in Seq(TryingFrom(Request))
  /\ jobs \in Seq(Job)

\* A list of some of S is a list of some of T.
LEMMA SeqSubset ==
  ASSUME NEW S, NEW T, S \subseteq T, NEW s \in Seq(S)
  PROVE  s \in Seq(T)
<1>1. Len(s) \in Nat /\ s \in [1..Len(s) -> S]
  BY LenProperties
<1>2. s \in [1..Len(s) -> T]
  BY <1>1
<1> QED
  BY <1>1, <1>2, SeqDef

\* What is out is js and what was sent to the workers.
Sent(js) ==
  \E new \in Seq(Job) : jobs' = js \o new /\ from_main' = from_main \o new

\* Requests are Infos, so the lemmas about lists of these apply.
LEMMA RequestsAreInfos ==
  /\ \A c \in Seq(Request) : c \in Seq(Info)
  /\ \A t \in Seq(TryingFrom(Request)) : t \in Seq(TryingUser)
<1>1. Request \subseteq Info
  BY ConstantsAssumption DEF Request, Info
<1>2. TryingFrom(Request) \subseteq TryingUser
  BY <1>1 DEF TryingFrom, TryingUser
<1> QED
  BY <1>1, <1>2, SeqSubset

\* The jobs beyond js, when new was appended to it.
LEMMA NewJobs ==
  ASSUME NEW S, NEW s \in Seq(S), NEW new \in Seq(S)
  PROVE  SubSeq(s \o new, Len(s) + 1, Len(s \o new)) = new
<1> DEFINE all == s \o new
           m == Len(s) + 1
           n == Len(all)
           back == SubSeq(all, m, n)
<1>1. /\ all \in Seq(S) /\ n = Len(s) + Len(new)
      /\ \A i \in 1..(Len(s) + Len(new)) :
           all[i] = IF i <= Len(s) THEN s[i] ELSE new[i - Len(s)]
  BY ConcatProperties
<1>2. Len(s) \in Nat /\ Len(new) \in Nat
  BY LenProperties
<1>3. m \in Int /\ n \in Int /\ n - m + 1 = Len(new)
  BY <1>1, <1>2
<1>4. \A i \in m..n : all[i] \in S
  <2>1. \A i \in m..n : i \in 1..Len(all)
    BY <1>1, <1>2
  <2> HIDE DEF all, m, n
  <2> QED
    BY <1>1, <2>1, ElementOfSeq
<1>5. /\ back \in Seq(S)
      /\ Len(back) = IF m <= n THEN n - m + 1 ELSE 0
      /\ \A i \in 1..(n - m + 1) : back[i] = all[m+i-1]
  <2> HIDE DEF all, m, n
  <2> QED
    BY <1>3, <1>4, SubSeqProperties
<1>6. Len(back) = Len(new)
  BY <1>1, <1>2, <1>5
<1>7. ASSUME NEW i \in 1..Len(new)
      PROVE  back[i] = new[i]
  <2>1. back[i] = all[m+i-1]
    BY <1>3, <1>5
  <2>2. m+i-1 \in 1..(Len(s) + Len(new)) /\ ~(m+i-1 <= Len(s)) /\ (m+i-1) - Len(s) = i
    BY <1>2
  <2>3. all[m+i-1] = new[(m+i-1) - Len(s)]
    BY <1>1, <2>2
  <2> QED
    BY <2>1, <2>2, <2>3
<1> HIDE DEF back
<1>8. back = new
  BY <1>5, <1>6, <1>7, SeqEqual
<1> QED
  BY <1>8 DEF back

\* The new jobs go to the workers, and each takes a slot.
LEMMA NewJobsSent ==
  ASSUME NEW working \in 0..WORKER_NUMBER, NEW js \in Seq(Job),
         NEW n \in 0..(WORKER_NUMBER - working), NEW new \in [1..n -> Job],
         working_job' = working + n, jobs' = js \o new, SendNew(js)
  PROVE  Pool!Arrange(working) /\ Sent(js) /\ jobs' \in Seq(Job)
<1>1. n \in Nat
  BY ConstantsAssumption
<1>2. new \in Seq(Job)
  BY <1>1, FunctionIsSeq
<1>3. from_main' = from_main \o new
  BY <1>2, NewJobs DEF SendNew
<1>4. jobs' \in Seq(Job)
  BY <1>2, ConcatProperties
<1> QED
  BY <1>2, <1>3, <1>4 DEF Pool!Arrange, Sent, Job

\* arrange_job, at the end of most handlers, sends what it starts.
LEMMA ArrangeSends ==
  ASSUME NEW c \in Seq(Request), NEW t \in Seq(TryingFrom(Request)),
         NEW working \in 0..WORKER_NUMBER, NEW js \in Seq(Job),
         ArrangeJob(c, t, working, js), SendNew(js)
  PROVE  Requests' /\ Pool!Arrange(working) /\ Sent(js)
<1>1. PICK f \in StartOrder(t, working) :
        /\ candidate_queue' = c
        /\ trying_queue' = [i \in DOMAIN t |->
                              IF i \in Range(f)
                              THEN [t[i] EXCEPT !.progress = "PROCESSING"]
                              ELSE t[i]]
        /\ working_job' = working + Len(f)
        /\ jobs' = js \o [k \in DOMAIN f |-> JobOf(t[f[k]])]
  BY DEF ArrangeJob
<1>2. t \in Seq(TryingUser)
  BY RequestsAreInfos
<1>3. PICK n \in 0..(WORKER_NUMBER - working) : f \in [1..n -> 1..Len(t)]
  BY <1>2, StartOrderType
<1>4. n \in Nat /\ Len(t) \in Nat /\ DOMAIN t = 1..Len(t)
  BY ConstantsAssumption, LenProperties
<1>5. Len(f) = n /\ DOMAIN f = 1..n
  BY <1>3, <1>4, FunctionIsSeq
<1>6. \A i \in 1..Len(t) : t[i] \in TryingFrom(Request)
  BY ElementOfSeq
<1>7. trying_queue' \in Seq(TryingFrom(Request))
  <2>1. \A i \in 1..Len(t) :
          [t[i] EXCEPT !.progress = "PROCESSING"] \in TryingFrom(Request)
    BY <1>6 DEF TryingFrom
  <2>2. trying_queue' \in [1..Len(t) -> TryingFrom(Request)]
    BY <1>1, <1>4, <1>6, <2>1
  <2> QED
    BY <1>4, <2>2, FunctionIsSeq
<1> DEFINE new == [k \in DOMAIN f |-> JobOf(t[f[k]])]
<1>8. new \in [1..n -> Job]
  <2>1. ASSUME NEW k \in 1..n PROVE JobOf(t[f[k]]) \in Job
    <3>1. t[f[k]] \in TryingFrom(Request)
      BY <1>3, <1>6
    <3> QED
      BY <3>1 DEF JobOf, Job, TryingFrom
  <2> QED
    BY <1>5, <2>1
<1>9. jobs' = js \o new /\ working_job' = working + n
  BY <1>1, <1>5
<1> HIDE DEF new
<1> QED
  BY <1>1, <1>7, <1>8, <1>9, NewJobsSent DEF Requests

\* A handler that ends before arrange_job.
LEMMA NothingSent ==
  ASSUME Requests, NEW working \in 0..WORKER_NUMBER, NEW js \in Seq(Job),
         UNCHANGED <<candidate_queue, trying_queue>>,
         working_job' = working, jobs' = js, SendNew(js)
  PROVE  Requests' /\ Pool!Arrange(working) /\ Sent(js)
<1> DEFINE zero == 0
           new == <<>>
<1>1. zero \in 0..(WORKER_NUMBER - working) /\ working_job' = working + zero
  BY ConstantsAssumption
<1>2. new \in [1..zero -> Job]
  OBVIOUS
<1>3. jobs' = js \o new
  BY ConcatEmptySeq
<1> HIDE DEF zero, new
<1> QED
  BY <1>1, <1>2, <1>3, NewJobsSent DEF Requests

\* add.
LEMMA AddSends ==
  ASSUME Requests, working_job \in 0..WORKER_NUMBER, NEW info \in Request,
         Add(info), SendNew(jobs)
  PROVE  Requests' /\ Pool!Arrange(working_job) /\ Sent(jobs)
<1> USE DEF Requests
<1>1. CASE candidate_queue = <<>> /\ candidate_queue' = <<info>>
           /\ UNCHANGED <<trying_queue, working_job, jobs, process>>
  <2> DEFINE zero == 0
             new == <<>>
  <2>1. zero \in 0..(WORKER_NUMBER - working_job) /\ working_job' = working_job + zero
    BY <1>1, ConstantsAssumption
  <2>2. new \in [1..zero -> Job]
    OBVIOUS
  <2>3. jobs' = jobs \o new
    BY <1>1, ConcatEmptySeq
  <2> HIDE DEF zero, new
  <2>4. Pool!Arrange(working_job) /\ Sent(jobs)
    BY <2>1, <2>2, <2>3, NewJobsSent
  <2> QED
    BY <1>1, <2>4
<1>2. CASE /\ candidate_queue # <<>>
           /\ ArrangeJob(candidate_queue, Append(trying_queue, Newcomer(info)),
                         working_job, jobs)
  <2>1. Newcomer(info) \in TryingFrom(Request)
    BY <1>2, HeadTailProperties DEF Newcomer, TryingFrom
  <2>2. Append(trying_queue, Newcomer(info)) \in Seq(TryingFrom(Request))
    BY <2>1
  <2> QED
    BY <1>2, <2>2, ArrangeSends
<1> QED
  BY <1>1, <1>2 DEF Add

\* detach.
LEMMA DetachSends ==
  ASSUME Requests, working_job \in 0..WORKER_NUMBER, NEW id, Detach(id), SendNew(jobs)
  PROVE  Requests' /\ Pool!Arrange(working_job) /\ Sent(jobs)
<1> DEFINE i == TryingAt(trying_queue, id)
           p == CandidateAt(candidate_queue, id)
           w == TryingWith(trying_queue, candidate_queue[p])
           first == IF w = 0 THEN Len(trying_queue) + 1 ELSE w
           d == DropCandidate(candidate_queue, trying_queue, p, first)
<1>1. /\ candidate_queue \in Seq(Request) /\ trying_queue \in Seq(TryingFrom(Request))
      /\ candidate_queue \in Seq(Info) /\ trying_queue \in Seq(TryingUser)
      /\ jobs \in Seq(Job)
  BY RequestsAreInfos DEF Requests
<1>2. CASE /\ i # 0
           /\ ArrangeJob(candidate_queue, RemoveAt(trying_queue, i),
                         working_job, jobs)
  <2>1. RemoveAt(trying_queue, i) \in Seq(TryingFrom(Request))
    BY <1>1, <1>2, TryingAtFinds, RemoveAtType
  <2> HIDE DEF i
  <2> QED
    BY <1>1, <1>2, <2>1, ArrangeSends
<1>3. CASE /\ p # 0
           /\ ArrangeJob(d.candidates, d.trying, working_job, jobs)
  <2>1. p \in 1..Len(candidate_queue)
    BY <1>1, <1>3, CandidateAtFinds
  <2>2. first \in Nat \ {0}
    <3>1. w = 0 \/ w \in 1..Len(trying_queue)
      BY <1>1, TryingWithFinds
    <3> HIDE DEF w
    <3> QED
      BY <1>1, <3>1, LenProperties
  <2>3. d.candidates \in Seq(Request) /\ d.trying \in Seq(TryingFrom(Request))
    <3> HIDE DEF p, first
    <3> QED
      BY <1>1, <2>1, <2>2, DropCandidateFrom
  <2> HIDE DEF d
  <2> QED
    BY <1>1, <1>3, <2>3, ArrangeSends
<1>4. CASE UNCHANGED <<queueVars, process>>
  BY <1>1, <1>4, NothingSent DEF queueVars
<1> QED
  BY <1>2, <1>3, <1>4 DEF Detach

\* Whatever a client does.
LEMMA ClientSends ==
  ASSUME Requests, working_job \in 0..WORKER_NUMBER,
         try_match_counter \in [Id -> Nat],
         NEW id \in Id, ClientStep(id), SendNew(jobs)
  PROVE  /\ Requests' /\ Pool!Arrange(working_job) /\ Sent(jobs)
         /\ try_match_counter' \in [Id -> Nat]
<1>1. CASE MayTry(id) /\ TryMatch(id)
  <2> DEFINE counter == try_match_counter[id] + 1
             info == [id |-> id, counter |-> counter]
  <2>1. counter \in 1..MaxTry /\ counter \in Nat
    BY <1>1, ConstantsAssumption DEF MayTry
  <2>2. info \in Request
    BY <2>1 DEF Request
  <2>3. Add(info) /\ try_match_counter' = [try_match_counter EXCEPT ![id] = counter]
    BY <1>1 DEF TryMatch
  <2> HIDE DEF counter, info
  <2> QED
    BY <2>1, <2>2, <2>3, AddSends
<1>2. CASE UNCHANGED queueVars /\ UNCHANGED try_match_counter
  BY <1>2, NothingSent DEF queueVars, Requests
<1>3. CASE Detach(id) /\ UNCHANGED try_match_counter
  BY <1>3, DetachSends
<1> QED
  BY <1>1, <1>2, <1>3 DEF ClientStep, Quit, Disconnect, Leave

-----------------------------------------------------------------------------
(* What the handlers of the reports send.                                  *)

\* handle_report, with a verdict against the pair.
LEMMA MoveOnSends ==
  ASSUME Requests, OneJobLess \in 0..WORKER_NUMBER, NEW js \in Seq(Job), NEW id,
         MoveOn(id, js), SendNew(js)
  PROVE  Requests' /\ Pool!Arrange(OneJobLess) /\ Sent(js)
<1> DEFINE i == TryingAt(trying_queue, id)
           u == trying_queue[i]
           p == CandidateAt(candidate_queue, u.matchingWith.id)
           last == LastCandidate(p)
           c == IF last THEN Append(candidate_queue, u.info) ELSE candidate_queue
           t == IF last THEN RemoveAt(trying_queue, i)
                        ELSE [trying_queue EXCEPT
                                ![i] = SentOn(u, candidate_queue[p+1])]
<1>1. /\ candidate_queue \in Seq(Request) /\ trying_queue \in Seq(TryingFrom(Request))
      /\ candidate_queue \in Seq(Info) /\ trying_queue \in Seq(TryingUser)
  BY RequestsAreInfos DEF Requests
<1>2. CASE i # 0 /\ u.matchingWith \in Range(candidate_queue)
  <2>1. ArrangeJob(c, t, OneJobLess, js)
    BY <1>2 DEF MoveOn
  <2>2. i \in 1..Len(trying_queue) /\ u \in TryingFrom(Request)
    BY <1>1, <1>2, TryingAtFinds, ElementOfSeq
  <2>3. p \in 1..Len(candidate_queue)
    BY <1>1, <1>2, CandidateAtFinds
  <2>4. c \in Seq(Request)
    BY <1>1, <2>2 DEF TryingFrom
  <2>5. t \in Seq(TryingFrom(Request))
    <3>1. CASE last
      BY <1>1, <2>2, <3>1, RemoveAtType
    <3>2. CASE ~last
      <4>1. p + 1 \in 1..Len(candidate_queue)
        BY <1>1, <2>3, <3>2, LenProperties DEF LastCandidate
      <4>2. candidate_queue[p+1] \in Request
        BY <1>1, <4>1, ElementOfSeq
      <4>3. SentOn(u, candidate_queue[p+1]) \in TryingFrom(Request)
        BY <2>2, <4>2 DEF SentOn, TryingFrom
      <4> HIDE DEF u, i, p
      <4> QED
        BY <1>1, <2>2, <3>2, <4>3, ExceptSeq
    <3> QED
      BY <3>1, <3>2
  <2> HIDE DEF c, t
  <2> QED
    BY <2>1, <2>4, <2>5, ArrangeSends
<1>3. CASE ReadsDeadNode(js)
  BY <1>3, NothingSent DEF ReadsDeadNode
<1> QED
  BY <1>2, <1>3 DEF MoveOn

\* handle_match.
LEMMA HandleMatchSends ==
  ASSUME Requests, OneJobLess \in 0..WORKER_NUMBER, NEW js \in Seq(Job), NEW id,
         HandleMatch(id, js), SendNew(js)
  PROVE  Requests' /\ Pool!Arrange(OneJobLess) /\ Sent(js)
<1> DEFINE i == TryingAt(trying_queue, id)
           u == trying_queue[i]
           node == u.matchingWith
           p == CandidateAt(candidate_queue, node.id)
           d == DropCandidate(candidate_queue, trying_queue, p, i + 1)
<1>1. /\ candidate_queue \in Seq(Request) /\ trying_queue \in Seq(TryingFrom(Request))
      /\ candidate_queue \in Seq(Info) /\ trying_queue \in Seq(TryingUser)
  BY RequestsAreInfos DEF Requests
<1>2. CASE ArrangeJob(candidate_queue, trying_queue, OneJobLess, js)
  BY <1>1, <1>2, ArrangeSends
<1>3. CASE ReadsDeadNode(js)
  BY <1>3, NothingSent DEF ReadsDeadNode
<1>4. CASE /\ i # 0 /\ node \in Range(candidate_queue)
           /\ ArrangeJob(d.candidates, RemoveAt(d.trying, i), OneJobLess, js)
  <2>1. i \in 1..Len(trying_queue)
    BY <1>1, <1>4, TryingAtFinds
  <2>2. p \in 1..Len(candidate_queue)
    BY <1>1, <1>4, CandidateAtFinds
  <2>3. /\ d.candidates \in Seq(Request)
        /\ d.trying \in Seq(TryingFrom(Request))
        /\ i <= Len(d.trying)
    <3> HIDE DEF p, i
    <3>1. i < i + 1 /\ i + 1 \in Nat \ {0}
      BY <2>1
    <3> QED
      BY <1>1, <2>1, <2>2, <3>1, DropCandidateFrom
  <2>4. RemoveAt(d.trying, i) \in Seq(TryingFrom(Request))
    <3> HIDE DEF d, i
    <3>1. i \in 1..Len(d.trying)
      BY <2>1, <2>3, LenProperties
    <3> QED
      BY <2>3, <3>1, RemoveAtType
  <2> HIDE DEF d, i
  <2> QED
    BY <1>4, <2>3, <2>4, ArrangeSends
<1> QED
  BY <1>2, <1>3, <1>4 DEF HandleMatch

\* What is still out after a report is some of what was.
LEMMA OutstandingType ==
  ASSUME jobs \in Seq(Job), NEW ids
  PROVE  Outstanding(ids) \in Seq(Job)
<1> DEFINE js == Outstanding(ids)
           Test(job) == Ids(job) = ids
           I == {i \in 1..Len(jobs) : Test(jobs[i])}
<1>1. js = IF \E i \in 1..Len(jobs) : Test(jobs[i])
           THEN RemoveAt(jobs, IF I # {} THEN Min(I) ELSE 0) ELSE jobs
  BY DEF Outstanding, RemoveFirstMatch, SelectInSeq
<1>2. I \in SUBSET Nat
  OBVIOUS
<1>3. I # {} => Min(I) \in I
  <2> HIDE DEF I
  <2> QED
    BY <1>2, MinOfNats
<1>4. CASE I # {}
  <2>1. js = RemoveAt(jobs, Min(I)) /\ Min(I) \in 1..Len(jobs)
    BY <1>1, <1>3, <1>4
  <2> HIDE DEF js, I
  <2>2. js \in Seq(Job)
    BY <2>1, RemoveAtType
  <2> QED
    BY <2>2 DEF js
<1>5. CASE I = {}
  BY <1>1, <1>5
<1> QED
  BY <1>4, <1>5

\* handle_report, whichever job it is about: one slot is free again.
LEMMA ReportSends ==
  ASSUME Requests, working_job \in 1..WORKER_NUMBER,
         try_match_counter \in [Id -> Nat], NEW report, HandleReportOf(report)
  PROVE  /\ Requests' /\ Pool!Arrange(working_job - 1) /\ Sent(Outstanding(report.ids))
         /\ try_match_counter' \in [Id -> Nat]
<1> DEFINE js == Outstanding(report.ids)
           verdict == [trying_id |-> report.ids.trying_id,
                       candidate_id |-> report.ids.candidate_id,
                       result |-> report.result]
<1>1. HandleReport(verdict, js) /\ SendNew(js)
  BY DEF HandleReportOf
<1>2. js \in Seq(Job)
  BY OutstandingType DEF Requests
<1>3. OneJobLess = working_job - 1 /\ OneJobLess \in 0..WORKER_NUMBER
  BY ConstantsAssumption DEF OneJobLess
<1> HIDE DEF js, verdict
<1>4. CASE HandleMatch(verdict.trying_id, js)
  <2>1. Requests' /\ Pool!Arrange(OneJobLess) /\ Sent(js)
    BY <1>1, <1>2, <1>3, <1>4, HandleMatchSends
  <2>2. try_match_counter' = try_match_counter
    BY <1>4 DEF HandleMatch, clientVars
  <2> QED
    BY <1>3, <2>1, <2>2 DEF js
<1>5. CASE ArrangeJob(candidate_queue, trying_queue, OneJobLess, js)
           /\ UNCHANGED clientVars
  <2>1. Requests' /\ Pool!Arrange(OneJobLess) /\ Sent(js)
    BY <1>1, <1>2, <1>3, <1>5, ArrangeSends DEF Requests
  <2> QED
    BY <1>3, <1>5, <2>1 DEF js, clientVars
<1>6. CASE MoveOn(verdict.trying_id, js) /\ UNCHANGED clientVars
  <2>1. Requests' /\ Pool!Arrange(OneJobLess) /\ Sent(js)
    BY <1>1, <1>2, <1>3, <1>6, MoveOnSends
  <2> QED
    BY <1>3, <1>6, <2>1 DEF js, clientVars
<1> QED
  BY <1>1, <1>4, <1>5, <1>6 DEF HandleReport

-----------------------------------------------------------------------------
(* The server.                                                             *)

\* The inductive invariant: that of the pool, whatever its match queue is, and
\* that the jobs of this one are of requests.
ServerIInv ==
  /\ PoolProofs!SizeIInv /\ Requests
  /\ try_match_counter \in [Id -> Nat]

\* The pool has processes and message queues enough for its workers.
LEMMA PoolAssumed == PoolProofs!PoolAssumption
BY ServerAssumption, ConstantsAssumption, SameCardinality, SameFinite
   DEF PoolProofs!PoolAssumption

\* A step of the server is one of the pool with a match queue that behaves.
LEMMA ServerStep ==
  ASSUME ServerIInv, [ServerNext]_serverVars
  PROVE  /\ [Pool!Next]_(Pool!allVars) /\ [PoolProofs!Next]_(PoolProofs!allVars)
         /\ Requests' /\ try_match_counter' \in [Id -> Nat]
<1> USE DEF ServerIInv, PoolProofs!SizeIInv
<1>1. working_job \in 0..WORKER_NUMBER
  BY DEF PoolProofs!IInv, PoolProofs!PoolTypeOK
<1>2. ASSUME NEW report, HandleReportOf(report), PoolProofs!Reports
      PROVE  /\ Pool!Arrange(working_job - 1) /\ PoolProofs!Arrange(working_job - 1)
             /\ Requests' /\ try_match_counter' \in [Id -> Nat]
  <2>1. working_job \in 1..WORKER_NUMBER
    BY <1>2, PoolAssumed, PoolProofs!ReportsHaveSlots
  <2> QED
    BY <1>2, <2>1, ReportSends, SameArrange
<1>3. CASE JobReady
  <2>1. Pool!Reports /\ PoolProofs!Reports
    BY <1>3, SameReports DEF JobReady, Pool!Reports, PoolProofs!Reports
  <2> QED
    BY <1>2, <1>3, <2>1 DEF JobReady, Pool!Next, PoolProofs!Next,
                            Pool!MainNext, PoolProofs!MainNext
<1>4. CASE PidOfKilled
  <2>1. Pool!Reports /\ PoolProofs!Reports
    BY <1>4, SameReports DEF PidOfKilled, Pool!Reports, PoolProofs!Reports
  <2> QED
    BY <1>2, <1>4, <2>1 DEF PidOfKilled, Pool!Next, PoolProofs!Next,
                            Pool!MainNext, PoolProofs!MainNext
<1>5. ASSUME NEW p \in Pid, ReapRecorded(p)
      PROVE  /\ Pool!Next /\ PoolProofs!Next
             /\ Requests' /\ try_match_counter' \in [Id -> Nat]
  <2>1. Pool!Reports /\ PoolProofs!Reports
    BY <1>5, SameReports DEF ReapRecorded, Pool!Reports, PoolProofs!Reports
  <2> QED
    BY <1>2, <1>5, <2>1 DEF ReapRecorded, Pool!Next, PoolProofs!Next,
                            Pool!MainNext, PoolProofs!MainNext
<1>6. ASSUME NEW id \in Id, ClientReady(id)
      PROVE  /\ Pool!Next /\ PoolProofs!Next
             /\ Requests' /\ try_match_counter' \in [Id -> Nat]
  <2>1. /\ Pool!Arrange(working_job)
        /\ Requests' /\ try_match_counter' \in [Id -> Nat]
    BY <1>1, <1>6, ClientSends DEF ClientReady
  <2> QED
    BY <1>6, <2>1, SameReports, SameArrange
       DEF ClientReady, Pool!Next, PoolProofs!Next
<1>7. ASSUME UNCHANGED vars
      PROVE  /\ UNCHANGED working_job
             /\ Requests' /\ try_match_counter' \in [Id -> Nat]
  BY <1>7 DEF vars, queueVars, clientVars, Requests
<1>8. CASE Pool!Bookkeeping /\ UNCHANGED vars
  BY <1>7, <1>8, SameBookkeeping
     DEF Pool!Next, PoolProofs!Next, Pool!MainNext, PoolProofs!MainNext
<1>9. ASSUME NEW p \in Pid, WorkerNext(p) \/ Pool!Crash(p), UNCHANGED vars
      PROVE  /\ Pool!Next /\ PoolProofs!Next
             /\ Requests' /\ try_match_counter' \in [Id -> Nat]
  <2>1. DoJob(assigned[p]) \in BOOLEAN
    BY DEF DoJob
  <2>2. Pool!WorkerNext(p) \/ Pool!Crash(p)
    BY <1>9, <2>1 DEF WorkerNext, Pool!WorkerNext
  <2> QED
    BY <1>7, <1>9, <2>2, SameWorkers DEF Pool!Next, PoolProofs!Next
<1>10. CASE UNCHANGED serverVars
  <2>1. UNCHANGED vars /\ UNCHANGED poolVars
    BY <1>10 DEF serverVars
  <2> QED
    BY <1>7, <2>1 DEF poolVars, Pool!allVars, PoolProofs!allVars,
                      Pool!poolVars, PoolProofs!poolVars
<1> QED
  BY <1>3, <1>4, <1>5, <1>6, <1>8, <1>9, <1>10 DEF ServerNext

\* The invariant is inductive.
LEMMA ServerInvariance == ServerIInv /\ [ServerNext]_serverVars => ServerIInv'
<1> SUFFICES ASSUME ServerIInv, [ServerNext]_serverVars PROVE ServerIInv'
  OBVIOUS
<1>1. /\ [PoolProofs!Next]_(PoolProofs!allVars)
      /\ Requests' /\ try_match_counter' \in [Id -> Nat]
  BY ServerStep
<1>2. PoolProofs!SizeIInv'
  BY <1>1, PoolAssumed, PoolProofs!SizeIInvPreserved DEF ServerIInv
<1> QED
  BY <1>1, <1>2 DEF ServerIInv

\* It holds at the start.
LEMMA ServerStarts == ServerInit => ServerIInv /\ Pool!Init
<1> SUFFICES ASSUME ServerInit PROVE ServerIInv /\ Pool!Init
  OBVIOUS
<1>1. Pool!Init
  BY DEF ServerInit, Init, Pool!Init
<1>2. PoolProofs!Init
  BY <1>1 DEF Pool!Init, PoolProofs!Init, Pool!PoolInit, PoolProofs!PoolInit,
              Pool!Idle, PoolProofs!Idle, Pool!NoJob, PoolProofs!NoJob
<1>3. PoolProofs!SizeIInv
  BY <1>2, PoolAssumed, PoolProofs!SizeIInvInit
<1>4. Requests /\ try_match_counter \in [Id -> Nat]
  BY DEF ServerInit, Init, Requests
<1> QED
  BY <1>1, <1>3, <1>4 DEF ServerIInv

\* Whatever the clients do, however many workers there are and whichever of
\* them crash, the match queue is one that the pool can live with: a handler
\* gives back one slot per report and sends no more jobs than there are free
\* slots.  So everything proved of WorkerPool is true of the server.
THEOREM ServerImplementsPool == ServerSpec => ImplementsPool
<1>1. ServerIInv /\ [ServerNext]_serverVars => [Pool!Next]_(Pool!allVars)
  BY ServerStep
<1> QED
  BY <1>1, ServerStarts, ServerInvariance, PTL DEF ServerSpec, ImplementsPool, Pool!Spec

-----------------------------------------------------------------------------
(***************************************************************************)
(* What holds of the users of the whole server even when children die.  A  *)
(* report is then not always about a job that is out, and the main process *)
(* may read a node that is not there; but as long as it runs, whoever is   *)
(* taken from the queues was in them, and talks to one that was, too.      *)
(***************************************************************************)
PeopleIInv == ServerIInv /\ Ranged /\ QueuesHold /\ PartnersAgree

\* A handler works on the types it expects, whatever the report.
LEMMA HandlerKeepsPeople ==
  ASSUME PeopleIInv, process = "running", PoolProofs!Reports,
         NEW report, report.ids \in {Ids(job) : job \in Job}, HandleReportOf(report)
  PROVE  Ranged' /\ QueuesHold' /\ PartnersAgree'
<1> DEFINE js == Outstanding(report.ids)
           verdict == [trying_id |-> report.ids.trying_id,
                       candidate_id |-> report.ids.candidate_id,
                       result |-> report.result]
<1>1. HandleReport(verdict, js)
  BY DEF HandleReportOf
<1>2. js \in Seq(AssignJob)
  <2>1. js \in Seq(Job)
    BY OutstandingType DEF PeopleIInv, ServerIInv, Requests
  <2>2. Job \subseteq AssignJob
    BY ConstantsAssumption DEF Job, AssignJob, Request, Info
  <2> HIDE DEF js
  <2> QED
    BY <2>1, <2>2, SeqSubset
<1>3. OneJobLess \in 0..WORKER_NUMBER
  <2>1. working_job \in 1..WORKER_NUMBER
    BY PoolAssumed, PoolProofs!ReportsHaveSlots
       DEF PeopleIInv, ServerIInv, PoolProofs!SizeIInv
  <2> QED
    BY <2>1, ConstantsAssumption DEF OneJobLess
<1>4. verdict.trying_id \in Id
  <2>1. PICK job \in Job : report.ids = Ids(job)
    OBVIOUS
  <2> QED
    BY <2>1 DEF Job, Request, Ids
<1> HIDE DEF js, verdict
<1>5. Ranged'
  BY <1>1, <1>2, <1>3, <1>4, HandleReportKeeps DEF PeopleIInv
<1>6. QueuesHold' /\ PartnersAgree'
  BY <1>1, <1>3, HandleReportKeepsPartners DEF PeopleIInv
<1> QED
  BY <1>5, <1>6

\* The ids that a report names are those of a job.
LEMMA ReportedIds ==
  ASSUME PeopleIInv
  PROVE  /\ JobReady => Head(from_worker_job).ids \in {Ids(job) : job \in Job}
         /\ PidOfKilled => Head(from_worker_pid).ids \in {Ids(job) : job \in Job}
         /\ \A p \in Pid : ReapRecorded(p) => job_record[p].ids \in {Ids(job) : job \in Job}
<1>1. /\ from_worker_job \in Seq(PoolProofs!ReportJob)
      /\ from_worker_pid \in Seq(PoolProofs!ReportPid)
      /\ \A p \in DOMAIN job_record : job_record[p] \in PoolProofs!ReportPid
      /\ PoolProofs!IInv
  BY DEF PeopleIInv, ServerIInv, PoolProofs!SizeIInv, PoolProofs!IInv, PoolProofs!PoolTypeOK
<1>2. ASSUME JobReady
      PROVE  Head(from_worker_job).ids \in {Ids(job) : job \in Job}
  <2>1. from_worker_job # <<>>
    BY <1>1, <1>2, SameReports, PoolAssumed, PoolProofs!JobTurn DEF JobReady
  <2>2. Head(from_worker_job) \in PoolProofs!ReportJob
    BY <1>1, <2>1, HeadTailProperties
  <2> QED
    BY <2>2 DEF PoolProofs!ReportJob, Job
<1>3. ASSUME PidOfKilled
      PROVE  Head(from_worker_pid).ids \in {Ids(job) : job \in Job}
  <2>1. PoolProofs!Turn("pid")
    BY <1>3, SameReports DEF PidOfKilled, PoolProofs!PidOfKilled
  <2>2. from_worker_pid # <<>>
    BY <1>1, <2>1, PoolAssumed, PoolProofs!PidTurn
  <2>3. Head(from_worker_pid) \in PoolProofs!ReportPid
    BY <1>1, <2>2, HeadTailProperties
  <2> QED
    BY <2>3 DEF PoolProofs!ReportPid, Job
<1>4. ASSUME NEW p \in Pid, ReapRecorded(p)
      PROVE  job_record[p].ids \in {Ids(job) : job \in Job}
  <2>1. job_record[p] \in PoolProofs!ReportPid
    BY <1>1, <1>4 DEF ReapRecorded, Pool!ReapRecorded
  <2> QED
    BY <2>1 DEF PoolProofs!ReportPid, Job
<1> QED
  BY <1>2, <1>3, <1>4

\* It holds at the start, ...
LEMMA PeopleStart == ServerInit => PeopleIInv
<1> SUFFICES ASSUME ServerInit PROVE PeopleIInv
  OBVIOUS
<1>1. Init
  BY DEF ServerInit
<1> QED
  BY <1>1, ServerStarts, PartnersInit, IInvRanged DEF PeopleIInv, PartnersIInv

\* ... and every step preserves it.
LEMMA PeopleInvariance == PeopleIInv /\ [ServerNext]_serverVars => PeopleIInv'
<1> SUFFICES ASSUME PeopleIInv, [ServerNext]_serverVars PROVE PeopleIInv'
  OBVIOUS
<1>1. ServerIInv'
  BY ServerInvariance DEF PeopleIInv
<1>2. Ranged /\ QueuesHold /\ PartnersAgree
  BY DEF PeopleIInv
<1>3. ASSUME NEW report, HandleReportOf(Pool!Refused(report)),
             report.ids \in {Ids(job) : job \in Job},
             process = "running", PoolProofs!Reports
      PROVE  Ranged' /\ QueuesHold' /\ PartnersAgree'
  <2>1. Pool!Refused(report).ids = report.ids
    BY DEF Pool!Refused
  <2> QED
    BY <1>3, <2>1, HandlerKeepsPeople
<1>4. CASE JobReady /\ process = "running"
  <2>1. PoolProofs!Reports
    BY <1>4, SameReports DEF JobReady, PoolProofs!Reports
  <2> QED
    BY <1>1, <1>4, <2>1, ReportedIds, HandlerKeepsPeople DEF PeopleIInv, JobReady
<1>5. CASE PidOfKilled /\ process = "running"
  <2>1. PoolProofs!Reports
    BY <1>5, SameReports DEF PidOfKilled, PoolProofs!Reports
  <2> QED
    BY <1>1, <1>3, <1>5, <2>1, ReportedIds DEF PeopleIInv, PidOfKilled
<1>6. ASSUME NEW p \in Pid, ReapRecorded(p), process = "running"
      PROVE  PeopleIInv'
  <2>1. PoolProofs!Reports
    BY <1>6, SameReports DEF ReapRecorded, PoolProofs!Reports
  <2> QED
    BY <1>1, <1>3, <1>6, <2>1, ReportedIds DEF PeopleIInv, ReapRecorded
<1>7. ASSUME NEW id \in Id, ClientReady(id), process = "running"
      PROVE  PeopleIInv'
  <2>1. ClientStep(id)
    BY <1>7 DEF ClientReady
  <2>2. Ranged'
    BY <1>2, <2>1, ClientStepKeeps
  <2>3. QueuesHold' /\ PartnersAgree'
    BY <1>2, <1>7, <2>1, ClientStepKeepsPartners
  <2> QED
    BY <1>1, <2>2, <2>3 DEF PeopleIInv
<1>8. ASSUME UNCHANGED vars PROVE PeopleIInv'
  <2>1. Ranged'
    BY <1>2, <1>8 DEF Ranged, TypeOK, vars, queueVars, clientVars
  <2>2. QueuesHold' /\ PartnersAgree'
    <3>1. Waiting' = Waiting
      BY <1>8 DEF vars, clientVars, Waiting
    <3> QED
      BY <1>2, <1>8, <3>1 DEF QueuesHold, NobodyToTry, PartnersAgree, vars, queueVars, clientVars
  <2> QED
    BY <1>1, <2>1, <2>2 DEF PeopleIInv
<1> QED
  BY <1>4, <1>5, <1>6, <1>7, <1>8 DEF ServerNext, serverVars

\* Whichever children die and when: who talks is talked to, ...
THEOREM ServerKeepsPartners == ServerSpec => []PartnersAgree
<1>1. PeopleIInv => PartnersAgree
  BY DEF PeopleIInv
<1> QED
  BY <1>1, PeopleStart, PeopleInvariance, PTL DEF ServerSpec

\* ... a client that waits is in one of the queues, once, and nobody else is,
\* ...
THEOREM ServerQueuesOnce == ServerSpec => []QueuedOnce
<1>1. PeopleIInv => QueuedOnce
  BY HoldsCounts DEF PeopleIInv, QueuesHold, QueuedOnce
<1> QED
  BY <1>1, PeopleStart, PeopleInvariance, PTL DEF ServerSpec

\* ... and no slot of a worker stays free when somebody could be tried.
THEOREM ServerConservesWork == ServerSpec => []WorkConserving
<1>1. PeopleIInv => WorkConserving
  BY DEF PeopleIInv, QueuesHold, NobodyToTry, WorkConserving
<1> QED
  BY <1>1, PeopleStart, PeopleInvariance, PTL DEF ServerSpec

-----------------------------------------------------------------------------
(***************************************************************************)
(* The pool is one that module Matching can take for granted, as long as   *)
(* no child dies: whatever is queued, run or reported is a job that is     *)
(* out, and a report has the verdict on the job it is taken to be about.   *)
(***************************************************************************)

\* Where x is among the first n of f, and how often.
Hits(f, n, x) == {i \in 1..n : f[i] = x}

Count(f, n, x) == Cardinality(Hits(f, n, x))

\* A count is a number, and not zero when there is something to count.
LEMMA CountType ==
  ASSUME NEW f, NEW n \in Nat, NEW x
  PROVE  /\ IsFiniteSet(Hits(f, n, x))
         /\ Count(f, n, x) \in Nat
         /\ Count(f, n, x) # 0 <=> \E i \in 1..n : f[i] = x
<1> DEFINE S == Hits(f, n, x)
<1>1. IsFiniteSet(1..n)
  BY FS_Interval
<1>2. IsFiniteSet(S)
  BY <1>1, FS_Subset DEF Hits
<1>3. Cardinality(S) \in Nat /\ (Cardinality(S) = 0 <=> S = {})
  <2> HIDE DEF S
  <2> QED
    BY <1>2, FS_CardinalityType, FS_EmptySet
<1>4. S = {} <=> ~ \E i \in 1..n : f[i] = x
  BY DEF Hits
<1> QED
  BY <1>2, <1>3, <1>4 DEF Count

\* h is the first m of f and behind them the first n of g.
Joined(f, g, h, m, n) ==
  /\ \A i \in 1..m : h[i] = f[i]
  /\ \A i \in 1..n : h[m+i] = g[i]

\* The counts of two lists add up.
LEMMA CountJoin ==
  ASSUME NEW f, NEW g, NEW h, NEW m \in Nat, NEW n \in Nat, NEW x, Joined(f, g, h, m, n)
  PROVE  Count(h, m + n, x) = Count(f, m, x) + Count(g, n, x)
<1> DEFINE F == Hits(f, m, x)
           G == Hits(g, n, x)
           H == Hits(h, m + n, x)
           back == [i \in G |-> m + i]
           B == {m + i : i \in G}
<1>1. IsFiniteSet(F) /\ IsFiniteSet(G) /\ Cardinality(F) \in Nat /\ Cardinality(G) \in Nat
  <2>1. IsFiniteSet(F) /\ IsFiniteSet(G)
    BY CountType, Zenon
  <2> HIDE DEF F, G
  <2> QED
    BY <2>1, FS_CardinalityType
<1> USE DEF Hits, Joined
<1>2. IsFiniteSet(B) /\ Cardinality(B) = Cardinality(G)
  <2>1. back \in Injection(G, B)
    BY DEF Injection, IsInjective
  <2>2. back \in Surjection(G, B)
    BY DEF Surjection
  <2>3. ExistsBijection(G, B)
    BY <2>1, <2>2 DEF Bijection, ExistsBijection
  <2> HIDE DEF B, G
  <2> QED
    BY <1>1, <2>3, FS_Bijection
<1>3. F \intersect B = {}
  OBVIOUS
<1>4. H = F \union B
  <2>1. ASSUME NEW i \in H, i \notin F PROVE i \in B
    <3>1. i \in (m+1)..(m+n)
      BY <2>1
    <3>2. i - m \in 1..n /\ m + (i - m) = i
      BY <3>1
    <3>3. i - m \in G
      BY <2>1, <3>2
    <3> QED
      BY <3>2, <3>3
  <2>2. ASSUME NEW i \in F PROVE i \in H
    BY <2>2
  <2>3. ASSUME NEW i \in G PROVE m + i \in H
    BY <2>3
  <2> QED
    BY <2>1, <2>2, <2>3
<1> HIDE DEF F, B, G, H, Hits, Joined
<1>5. Cardinality(F \intersect B) = 0
  BY <1>3, FS_EmptySet
<1>6. Cardinality(F \union B) = Cardinality(F) + Cardinality(B) - Cardinality(F \intersect B)
  BY <1>1, <1>2, FS_Union
<1>7. Cardinality(H) = Cardinality(F) + Cardinality(G)
  BY <1>1, <1>2, <1>4, <1>5, <1>6
<1> QED
  BY <1>7 DEF Count, F, G, H

\* The first of a list and the rest.
LEMMA CountTail ==
  ASSUME NEW f, NEW g, NEW n \in Nat \ {0}, NEW x,
         \A i \in 1..(n-1) : g[i] = f[i+1]
  PROVE  Count(f, n, x) = (IF f[1] = x THEN 1 ELSE 0) + Count(g, n - 1, x)
<1> DEFINE S == Hits(f, 1, x)
           r == n - 1
           one == 1
<1>1. Count(f, 1, x) = IF f[1] = x THEN 1 ELSE 0
  <2>1. S = IF f[1] = x THEN {1} ELSE {}
    BY DEF Hits
  <2>2. Cardinality(S) = IF f[1] = x THEN 1 ELSE 0
    BY <2>1, FS_EmptySet, FS_Singleton
  <2> QED
    BY <2>2 DEF Count
<1>2. r \in Nat /\ one \in Nat /\ one + r = n
  OBVIOUS
<1>3. Joined(f, g, f, one, r)
  BY DEF Joined
<1> HIDE DEF r, one
<1>4. Count(f, one + r, x) = Count(f, one, x) + Count(g, r, x)
  BY <1>2, <1>3, CountJoin
<1> QED
  BY <1>1, <1>2, <1>4 DEF r, one

\* g is f without the one at position k.
LessOne(f, g, n, k) ==
  \A i \in 1..(n-1) : g[i] = IF i < k THEN f[i] ELSE f[i+1]

\* Without one element the count is less by one or the same.
LEMMA CountRemove ==
  ASSUME NEW f, NEW g, NEW n \in Nat, NEW k \in 1..n, NEW x,
         LessOne(f, g, n, k)
  PROVE  Count(f, n, x) = (IF f[k] = x THEN 1 ELSE 0) + Count(g, n - 1, x)
<1> DEFINE m == k - 1
           r == n - m
           l == r - 1
           rest == [i \in 1..r |-> f[m+i]]
           tail == [i \in 1..l |-> g[m+i]]
<1>1. m \in Nat /\ r \in Nat \ {0} /\ l \in Nat /\ m + r = n /\ m + l = n - 1
  OBVIOUS
<1>2. Joined(f, rest, f, m, r)
  BY DEF Joined
<1>3. Joined(f, tail, g, m, l)
  BY DEF Joined, LessOne
<1>4. \A i \in 1..l : tail[i] = rest[i+1]
  <2> SUFFICES ASSUME NEW i \in 1..l PROVE tail[i] = rest[i+1]
    OBVIOUS
  <2>1. m + i \in 1..(n-1) /\ ~(m + i < k) /\ (m + i) + 1 = m + (i + 1) /\ i + 1 \in 1..r
    OBVIOUS
  <2>2. g[m+i] = f[(m+i)+1]
    BY <2>1 DEF LessOne
  <2> QED
    BY <2>1, <2>2
<1>5. rest[1] = f[k]
  OBVIOUS
<1> HIDE DEF m, r, l, rest, tail
<1>6. Count(f, m + r, x) = Count(f, m, x) + Count(rest, r, x)
  BY <1>1, <1>2, CountJoin
<1>7. Count(g, m + l, x) = Count(f, m, x) + Count(tail, l, x)
  BY <1>1, <1>3, CountJoin
<1>8. Count(rest, r, x) = (IF rest[1] = x THEN 1 ELSE 0) + Count(tail, l, x)
  BY <1>1, <1>4, CountTail DEF l
<1>9. Count(f, m, x) \in Nat /\ Count(tail, l, x) \in Nat
  BY <1>1, CountType
<1> QED
  BY <1>1, <1>5, <1>6, <1>7, <1>8, <1>9

-----------------------------------------------------------------------------
(* Where the jobs are.                                                     *)

CountIds(s, x) == Count([i \in 1..Len(s) |-> Ids(s[i])], Len(s), x)

CountReports(s, x) == Count([i \in 1..Len(s) |-> s[i].ids], Len(s), x)

Hit(y, x) == IF y = x THEN 1 ELSE 0

\* The same of jobs, counted by their ids ...
LEMMA CountIdsType ==
  ASSUME NEW s \in Seq(Job), NEW x
  PROVE  /\ CountIds(s, x) \in Nat
         /\ CountIds(s, x) # 0 <=> \E i \in 1..Len(s) : Ids(s[i]) = x
<1> DEFINE f == [i \in 1..Len(s) |-> Ids(s[i])]
<1>1. Len(s) \in Nat
  BY LenProperties
<1>2. \A i \in 1..Len(s) : f[i] = Ids(s[i])
  OBVIOUS
<1> HIDE DEF f
<1>3. /\ Count(f, Len(s), x) \in Nat
      /\ Count(f, Len(s), x) # 0 <=> \E i \in 1..Len(s) : f[i] = x
  BY <1>1, CountType
<1>4. CountIds(s, x) = Count(f, Len(s), x)
  BY DEF CountIds, f
<1> QED
  BY <1>2, <1>3, <1>4

\* ... and of reports.
LEMMA CountReportsType ==
  ASSUME NEW S, NEW s \in Seq(S), NEW x
  PROVE  /\ CountReports(s, x) \in Nat
         /\ CountReports(s, x) # 0 <=> \E i \in 1..Len(s) : s[i].ids = x
<1> DEFINE f == [i \in 1..Len(s) |-> s[i].ids]
<1>1. Len(s) \in Nat
  BY LenProperties
<1>2. \A i \in 1..Len(s) : f[i] = s[i].ids
  OBVIOUS
<1> HIDE DEF f
<1>3. /\ Count(f, Len(s), x) \in Nat
      /\ Count(f, Len(s), x) # 0 <=> \E i \in 1..Len(s) : f[i] = x
  BY <1>1, CountType
<1>4. CountReports(s, x) = Count(f, Len(s), x)
  BY DEF CountReports, f
<1> QED
  BY <1>2, <1>3, <1>4

\* Jobs put behind others.
LEMMA JobsJoin ==
  ASSUME NEW s \in Seq(Job), NEW u \in Seq(Job), NEW x
  PROVE  CountIds(s \o u, x) = CountIds(s, x) + CountIds(u, x)
<1> DEFINE f == [i \in 1..Len(s) |-> Ids(s[i])]
           g == [i \in 1..Len(u) |-> Ids(u[i])]
           all == s \o u
           h == [i \in 1..Len(all) |-> Ids(all[i])]
<1>1. Len(s) \in Nat /\ Len(u) \in Nat
  BY LenProperties
<1>2. /\ Len(all) = Len(s) + Len(u)
      /\ \A i \in 1..(Len(s) + Len(u)) :
           all[i] = IF i <= Len(s) THEN s[i] ELSE u[i - Len(s)]
  BY ConcatProperties
<1> HIDE DEF all
<1>3. \A i \in 1..Len(s) : h[i] = f[i]
  BY <1>1, <1>2
<1>4. \A i \in 1..Len(u) : h[Len(s)+i] = g[i]
  <2> SUFFICES ASSUME NEW i \in 1..Len(u) PROVE h[Len(s)+i] = g[i]
    OBVIOUS
  <2>1. Len(s) + i \in 1..Len(all) /\ ~(Len(s) + i <= Len(s)) /\ (Len(s) + i) - Len(s) = i
    BY <1>1, <1>2
  <2>2. all[Len(s)+i] = u[(Len(s) + i) - Len(s)]
    BY <1>2, <2>1
  <2> QED
    BY <2>1, <2>2
<1>5. Joined(f, g, h, Len(s), Len(u))
  BY <1>3, <1>4 DEF Joined
<1>6. /\ CountIds(s, x) = Count(f, Len(s), x) /\ CountIds(u, x) = Count(g, Len(u), x)
      /\ CountIds(all, x) = Count(h, Len(s) + Len(u), x)
  BY <1>2 DEF CountIds
<1> HIDE DEF f, g, h
<1>7. Count(h, Len(s) + Len(u), x) = Count(f, Len(s), x) + Count(g, Len(u), x)
  BY <1>1, <1>5, CountJoin
<1> QED
  BY <1>6, <1>7 DEF all

\* The first of the queued jobs is received.
LEMMA JobsTail ==
  ASSUME NEW s \in Seq(Job), s # <<>>, NEW x
  PROVE  CountIds(s, x) = Hit(Ids(Head(s)), x) + CountIds(Tail(s), x)
<1> DEFINE f == [i \in 1..Len(s) |-> Ids(s[i])]
           u == Tail(s)
           g == [i \in 1..Len(u) |-> Ids(u[i])]
<1>1. Len(s) \in Nat \ {0}
  BY LenProperties, EmptySeq
<1>2. /\ Head(s) = s[1] /\ Len(u) = Len(s) - 1
      /\ \A i \in 1..Len(u) : u[i] = s[i+1]
  BY HeadTailProperties
<1> HIDE DEF u
<1>3. LessOne(f, g, Len(s), 1) /\ 1 \in 1..Len(s)
  BY <1>1, <1>2 DEF LessOne
<1>4. f[1] = Ids(Head(s))
  BY <1>1, <1>2
<1>5. CountIds(s, x) = Count(f, Len(s), x) /\ CountIds(u, x) = Count(g, Len(s) - 1, x)
  BY <1>2 DEF CountIds
<1> HIDE DEF f, g
<1>6. Count(f, Len(s), x) = (IF f[1] = x THEN 1 ELSE 0) + Count(g, Len(s) - 1, x)
  BY <1>1, <1>3, CountRemove
<1> QED
  BY <1>4, <1>5, <1>6 DEF u, Hit

\* A job that is out is reported.
LEMMA JobsRemove ==
  ASSUME NEW s \in Seq(Job), NEW k \in 1..Len(s), NEW x
  PROVE  CountIds(s, x) = Hit(Ids(s[k]), x) + CountIds(RemoveAt(s, k), x)
<1> DEFINE f == [i \in 1..Len(s) |-> Ids(s[i])]
           u == RemoveAt(s, k)
           g == [i \in 1..Len(u) |-> Ids(u[i])]
<1>1. Len(s) \in Nat
  BY LenProperties
<1>2. /\ Len(u) = Len(s) - 1
      /\ \A i \in 1..(Len(s) - 1) : u[i] = IF i < k THEN s[i] ELSE s[i+1]
  BY RemoveAtElements
<1> HIDE DEF u
<1>3. LessOne(f, g, Len(s), k)
  BY <1>1, <1>2 DEF LessOne
<1>4. f[k] = Ids(s[k])
  BY <1>1
<1>5. CountIds(s, x) = Count(f, Len(s), x) /\ CountIds(u, x) = Count(g, Len(s) - 1, x)
  BY <1>2 DEF CountIds
<1> HIDE DEF f, g
<1>6. Count(f, Len(s), x) = (IF f[k] = x THEN 1 ELSE 0) + Count(g, Len(s) - 1, x)
  BY <1>1, <1>3, CountRemove
<1> QED
  BY <1>4, <1>5, <1>6 DEF u, Hit

\* The first report is read.
LEMMA ReportsTail ==
  ASSUME NEW S, NEW s \in Seq(S), s # <<>>, NEW x
  PROVE  CountReports(s, x) = Hit(Head(s).ids, x) + CountReports(Tail(s), x)
<1> DEFINE f == [i \in 1..Len(s) |-> s[i].ids]
           u == Tail(s)
           g == [i \in 1..Len(u) |-> u[i].ids]
<1>1. Len(s) \in Nat \ {0}
  BY LenProperties, EmptySeq
<1>2. /\ Head(s) = s[1] /\ Len(u) = Len(s) - 1
      /\ \A i \in 1..Len(u) : u[i] = s[i+1]
  BY HeadTailProperties
<1> HIDE DEF u
<1>3. LessOne(f, g, Len(s), 1) /\ 1 \in 1..Len(s)
  BY <1>1, <1>2 DEF LessOne
<1>4. f[1] = Head(s).ids
  BY <1>1, <1>2
<1>5. CountReports(s, x) = Count(f, Len(s), x) /\ CountReports(u, x) = Count(g, Len(s) - 1, x)
  BY <1>2 DEF CountReports
<1> HIDE DEF f, g
<1>6. Count(f, Len(s), x) = (IF f[1] = x THEN 1 ELSE 0) + Count(g, Len(s) - 1, x)
  BY <1>1, <1>3, CountRemove
<1> QED
  BY <1>4, <1>5, <1>6 DEF u, Hit

\* A report is sent.
LEMMA ReportsAppend ==
  ASSUME NEW S, NEW s \in Seq(S), NEW r \in S, NEW x
  PROVE  CountReports(Append(s, r), x) = CountReports(s, x) + Hit(r.ids, x)
<1> DEFINE u == Append(s, r)
           n == Len(s) + 1
           f == [i \in 1..Len(u) |-> u[i].ids]
           g == [i \in 1..Len(s) |-> s[i].ids]
<1>1. Len(s) \in Nat /\ n \in Nat /\ n - 1 = Len(s) /\ n \in 1..n
  BY LenProperties
<1>2. /\ Len(u) = n /\ u[n] = r
      /\ \A i \in 1..Len(s) : u[i] = s[i]
  BY AppendProperties
<1> HIDE DEF u
<1>3. LessOne(f, g, n, n)
  BY <1>1, <1>2 DEF LessOne
<1>4. f[n] = r.ids
  BY <1>1, <1>2
<1>5. CountReports(u, x) = Count(f, n, x) /\ CountReports(s, x) = Count(g, n - 1, x)
  BY <1>1, <1>2 DEF CountReports
<1> HIDE DEF f, g, n
<1>6. Count(f, n, x) = (IF f[n] = x THEN 1 ELSE 0) + Count(g, n - 1, x)
  BY <1>1, <1>3, CountRemove
<1>7. CountReports(s, x) \in Nat
  BY CountReportsType
<1> QED
  BY <1>4, <1>5, <1>6, <1>7 DEF u, Hit

-----------------------------------------------------------------------------
(* The places of the pool that hold a job.                                 *)

BusyWith(x) == {p \in Pool!Busy : Ids(assigned[p]) = x}

Places(x) ==
  CountIds(from_main, x) + Cardinality(BusyWith(x)) + CountReports(from_worker_job, x)

\* No place without a job that is out.
EachIsOut == \A x : Places(x) <= CountIds(jobs, x)

\* DoJob, with the taste L
Likes(L, job) ==
  /\ <<job.trying_info, job.candidate_info>> \in L
  /\ <<job.candidate_info, job.trying_info>> \in L

\* v is the verdict on those of js that have the ids x.
Settled(L, js, x, v) ==
  \A k \in 1..Len(js) : Ids(js[k]) = x => (Likes(L, js[k]) <=> v)

\* What a place says, or will say, is so of any job that it could be about.
VerdictsRight ==
  /\ \A i \in 1..Len(from_main) :
       Settled(likes, jobs, Ids(from_main[i]), Likes(likes, from_main[i]))
  /\ \A p \in Pool!Busy :
       Settled(likes, jobs, Ids(assigned[p]), Likes(likes, assigned[p]))
  /\ \A i \in 1..Len(from_worker_job) :
       Settled(likes, jobs, from_worker_job[i].ids, from_worker_job[i].result)

\* Jobs that a report cannot tell apart have the same verdict.
JobsAgree(L, js) ==
  \A k, l \in 1..Len(js) : Ids(js[k]) = Ids(js[l]) => (Likes(L, js[k]) <=> Likes(L, js[l]))

\* The types of what the places hold.
LEMMA PlaceTypes ==
  ASSUME PoolProofs!PoolTypeOK
  PROVE  /\ from_main \in Seq(Job) /\ Len(from_main) \in Nat
         /\ from_worker_job \in Seq(PoolProofs!ReportJob) /\ Len(from_worker_job) \in Nat
         /\ worker \in [Pid -> {"unborn", Pool!Idle, "received", "do_job", "zombie", "reaped"}]
         /\ assigned \in [Pid -> Job \union {Pool!NoJob}]
<1>1. /\ from_main \in Seq(Job) /\ from_worker_job \in Seq(PoolProofs!ReportJob)
  BY DEF PoolProofs!PoolTypeOK, Job
<1>2. Len(from_main) \in Nat /\ Len(from_worker_job) \in Nat
  BY <1>1, LenProperties
<1> QED
  BY <1>1, <1>2 DEF PoolProofs!PoolTypeOK, Job, Pool!NoJob, PoolProofs!NoJob,
                    Pool!Idle, PoolProofs!Idle

\* There are finitely many places.
LEMMA PlacesType ==
  ASSUME PoolProofs!PoolTypeOK, NEW x
  PROVE  /\ CountIds(from_main, x) \in Nat /\ CountReports(from_worker_job, x) \in Nat
         /\ IsFiniteSet(BusyWith(x)) /\ Cardinality(BusyWith(x)) \in Nat
<1>1. CountIds(from_main, x) \in Nat
  BY PlaceTypes, CountIdsType
<1>2. CountReports(from_worker_job, x) \in Nat
  BY PlaceTypes, CountReportsType
<1>3. BusyWith(x) \subseteq Pid
  BY DEF BusyWith, Pool!Busy
<1>4. IsFiniteSet(BusyWith(x))
  BY <1>3, ServerAssumption, FS_Subset
<1> QED
  BY <1>1, <1>2, <1>4, FS_CardinalityType

\* A worker receives a job.
LEMMA ReceiveServes ==
  ASSUME PoolProofs!PoolTypeOK, EachIsOut, VerdictsRight, NEW p \in Pid,
         Pool!ReceiveJob(p), UNCHANGED <<jobs, likes>>
  PROVE  EachIsOut' /\ VerdictsRight'
<1>1. /\ worker[p] = Pool!Idle /\ from_main # <<>>
      /\ assigned' = [assigned EXCEPT ![p] = Head(from_main)]
      /\ from_main' = Tail(from_main)
      /\ worker' = [worker EXCEPT ![p] = "received"]
      /\ from_worker_job' = from_worker_job
  BY DEF Pool!ReceiveJob
<1>2. /\ Head(from_main) = from_main[1] /\ 1 \in 1..Len(from_main)
      /\ Len(from_main') = Len(from_main) - 1
      /\ \A i \in 1..Len(from_main') : from_main'[i] = from_main[i+1]
  <2>1. Len(from_main) \in Nat \ {0}
    BY <1>1, PlaceTypes, EmptySeq
  <2>2. from_main \in Seq(Job)
    BY PlaceTypes
  <2> QED
    BY <1>1, <2>1, <2>2, HeadTailProperties
<1>3. /\ p \notin Pool!Busy /\ Pool!Busy' = Pool!Busy \union {p}
      /\ assigned'[p] = from_main[1] /\ \A q \in Pool!Busy : assigned'[q] = assigned[q]
  BY <1>1, <1>2, PlaceTypes DEF Pool!Busy, Pool!Idle
<1>4. ASSUME NEW x PROVE Places(x)' = Places(x)
  <2>1. CountIds(from_main, x) = Hit(Ids(Head(from_main)), x) + CountIds(from_main', x)
    <3>1. from_main \in Seq(Job) /\ from_main # <<>>
      BY <1>1, PlaceTypes
    <3> QED
      BY <1>1, <3>1, JobsTail
  <2>2. p \notin BusyWith(x)
    BY <1>3 DEF BusyWith
  <2>3. CASE Ids(Head(from_main)) = x
    <3>1. BusyWith(x)' = BusyWith(x) \union {p}
      BY <1>2, <1>3, <2>3 DEF BusyWith
    <3>2. Cardinality(BusyWith(x)') = Cardinality(BusyWith(x)) + 1
      BY <2>2, <3>1, PlacesType, FS_AddElement
    <3>3. CountIds(from_main', x) \in Nat
      <4>1. from_main' \in Seq(Job)
        BY <1>1, PlaceTypes, HeadTailProperties
      <4> QED
        BY <4>1, CountIdsType
    <3> QED
      BY <1>1, <2>1, <2>3, <3>2, <3>3, PlacesType DEF Places, Hit
  <2>4. CASE Ids(Head(from_main)) # x
    <3>1. BusyWith(x)' = BusyWith(x)
      BY <1>2, <1>3, <2>4 DEF BusyWith
    <3>3. CountIds(from_main', x) \in Nat
      <4>1. from_main' \in Seq(Job)
        BY <1>1, PlaceTypes, HeadTailProperties
      <4> QED
        BY <4>1, CountIdsType
    <3> QED
      BY <1>1, <2>1, <2>4, <3>1, <3>3, PlacesType DEF Places, Hit
  <2> QED
    BY <2>3, <2>4
<1>5. EachIsOut'
  BY <1>4 DEF EachIsOut
<1>6. \A i \in 1..Len(from_main') : i + 1 \in 1..Len(from_main)
  BY <1>2, PlaceTypes
<1>7. VerdictsRight'
  BY <1>1, <1>2, <1>3, <1>6 DEF VerdictsRight
<1> QED
  BY <1>5, <1>7

\* A worker announces its job.
LEMMA SendPidServes ==
  ASSUME PoolProofs!PoolTypeOK, EachIsOut, VerdictsRight, NEW p \in Pid,
         Pool!SendPid(p), UNCHANGED <<jobs, likes>>
  PROVE  EachIsOut' /\ VerdictsRight'
<1>1. Pool!Busy' = Pool!Busy
  BY PlaceTypes DEF Pool!SendPid, Pool!Busy
<1> QED
  BY <1>1 DEF Pool!SendPid, EachIsOut, VerdictsRight, Places, BusyWith

\* A worker reports the verdict on its job.
LEMMA SendReportServes ==
  ASSUME PoolProofs!PoolTypeOK, EachIsOut, VerdictsRight, NEW p \in Pid,
         PoolProofs!BusyHasJob,
         Pool!SendReport(p, DoJob(assigned[p])), UNCHANGED <<jobs, likes>>
  PROVE  EachIsOut' /\ VerdictsRight'
<1> DEFINE r == [pid |-> p, ids |-> Ids(assigned[p]), result |-> DoJob(assigned[p])]
<1>1. /\ worker[p] = "do_job"
      /\ from_worker_job' = Append(from_worker_job, r)
      /\ worker' = [worker EXCEPT ![p] = Pool!Idle]
      /\ assigned' = [assigned EXCEPT ![p] = Pool!NoJob]
      /\ from_main' = from_main
  BY DEF Pool!SendReport
<1>2. /\ p \in Pool!Busy /\ Pool!Busy' = Pool!Busy \ {p}
      /\ \A q \in Pool!Busy' : assigned'[q] = assigned[q]
  BY <1>1, PlaceTypes DEF Pool!Busy, Pool!Idle
<1>3. r.ids = Ids(assigned[p]) /\ (r.result <=> Likes(likes, assigned[p]))
  BY DEF DoJob, Likes
<1>4. r \in PoolProofs!ReportJob
  <2>1. assigned[p] \in [trying_info : Request, candidate_info : Request]
    BY <1>1 DEF PoolProofs!BusyHasJob
  <2> QED
    BY <2>1 DEF PoolProofs!ReportJob, DoJob
<1> HIDE DEF r
<1>5. from_worker_job \in Seq(PoolProofs!ReportJob) /\ Len(from_worker_job) \in Nat
  BY PlaceTypes
<1>6. /\ Len(from_worker_job') = Len(from_worker_job) + 1
      /\ \A i \in 1..Len(from_worker_job) : from_worker_job'[i] = from_worker_job[i]
      /\ from_worker_job'[Len(from_worker_job)+1] = r
  BY <1>1, <1>4, <1>5, AppendProperties
<1>7. ASSUME NEW x PROVE Places(x)' = Places(x)
  <2>1. CountReports(from_worker_job', x)
          = CountReports(from_worker_job, x) + Hit(Ids(assigned[p]), x)
    BY <1>1, <1>3, <1>4, <1>5, ReportsAppend
  <2>2. CASE Ids(assigned[p]) = x
    <3>1. BusyWith(x)' = BusyWith(x) \ {p} /\ p \in BusyWith(x)
      BY <1>2, <2>2 DEF BusyWith
    <3>2. Cardinality(BusyWith(x)') = Cardinality(BusyWith(x)) - 1
      BY <3>1, PlacesType, FS_RemoveElement
    <3> QED
      BY <1>1, <2>1, <2>2, <3>2, PlacesType DEF Places, Hit
  <2>3. CASE Ids(assigned[p]) # x
    <3>1. BusyWith(x)' = BusyWith(x)
      BY <1>2, <2>3 DEF BusyWith
    <3> QED
      BY <1>1, <2>1, <2>3, <3>1, PlacesType DEF Places, Hit
  <2> QED
    BY <2>2, <2>3
<1>8. EachIsOut'
  BY <1>7 DEF EachIsOut
<1>9. ASSUME NEW i \in 1..Len(from_worker_job')
      PROVE  Settled(likes, jobs, from_worker_job'[i].ids, from_worker_job'[i].result)
  <2>1. CASE i \in 1..Len(from_worker_job)
    BY <1>6, <2>1 DEF VerdictsRight
  <2>2. CASE i = Len(from_worker_job) + 1
    <3>1. from_worker_job'[i] = r
      BY <1>6, <2>2
    <3>2. Settled(likes, jobs, Ids(assigned[p]), Likes(likes, assigned[p]))
      BY <1>2 DEF VerdictsRight
    <3> QED
      BY <1>3, <3>1, <3>2 DEF Settled
  <2> QED
    BY <1>5, <1>6, <2>1, <2>2
<1>10. VerdictsRight'
  BY <1>1, <1>2, <1>9 DEF VerdictsRight
<1> QED
  BY <1>8, <1>10

\* A handler starts new jobs, once those that are still out are js and the
\* reports that are still unread rs.
LEMMA HandlerServes ==
  ASSUME PoolProofs!PoolTypeOK, NEW js \in Seq(Job), Sent(js),
         NEW rs \in Seq(PoolProofs!ReportJob), from_worker_job' = rs,
         UNCHANGED <<worker, assigned, likes>>,
         \A x : CountIds(from_main, x) + Cardinality(BusyWith(x)) + CountReports(rs, x)
                  <= CountIds(js, x),
         \A i \in 1..Len(js) : \E k \in 1..Len(jobs) : js[i] = jobs[k],
         \A i \in 1..Len(rs) : \E k \in 1..Len(from_worker_job) : rs[i] = from_worker_job[k],
         VerdictsRight, JobsAgree(likes, jobs')
  PROVE  EachIsOut' /\ VerdictsRight'
<1> PICK new \in Seq(Job) : jobs' = js \o new /\ from_main' = from_main \o new
  BY DEF Sent
<1>1. from_main \in Seq(Job) /\ Len(from_main) \in Nat /\ Len(js) \in Nat /\ Len(new) \in Nat
  BY PlaceTypes, LenProperties
<1>2. Pool!Busy' = Pool!Busy /\ \A x : BusyWith(x)' = BusyWith(x)
  BY DEF Pool!Busy, BusyWith
<1>3. EachIsOut'
  <2> SUFFICES ASSUME NEW x PROVE Places(x)' <= CountIds(jobs', x)
    BY DEF EachIsOut
  <2>1. CountIds(from_main', x) = CountIds(from_main, x) + CountIds(new, x)
    BY <1>1, JobsJoin
  <2>2. CountIds(jobs', x) = CountIds(js, x) + CountIds(new, x)
    BY JobsJoin
  <2>3. CountIds(new, x) \in Nat /\ CountIds(js, x) \in Nat /\ CountReports(rs, x) \in Nat
    BY CountIdsType, CountReportsType
  <2>4. CountIds(from_main, x) + Cardinality(BusyWith(x)) + CountReports(rs, x) <= CountIds(js, x)
    OBVIOUS
  <2>5. Places(x)' = CountIds(from_main', x) + Cardinality(BusyWith(x)) + CountReports(rs, x)
    BY <1>2 DEF Places
  <2> QED
    BY <2>1, <2>2, <2>3, <2>4, <2>5, PlacesType
<1>4. /\ Len(jobs') = Len(js) + Len(new)
      /\ \A i \in 1..Len(js) : jobs'[i] = js[i]
      /\ \A i \in 1..Len(new) : jobs'[Len(js)+i] = new[i]
  BY <1>1, ConcatProperties
<1>5. /\ Len(from_main') = Len(from_main) + Len(new)
      /\ \A i \in 1..Len(from_main) : from_main'[i] = from_main[i]
      /\ \A i \in 1..Len(new) : from_main'[Len(from_main)+i] = new[i]
  BY <1>1, ConcatProperties
<1>6. ASSUME NEW x, NEW v, CountIds(js, x) # 0, Settled(likes, jobs, x, v)
      PROVE  Settled(likes', jobs', x, v)
  <2>1. PICK i \in 1..Len(js) : Ids(js[i]) = x
    BY <1>6, CountIdsType
  <2>2. PICK k \in 1..Len(jobs) : js[i] = jobs[k]
    OBVIOUS
  <2>3. Likes(likes, js[i]) <=> v
    BY <1>6, <2>1, <2>2 DEF Settled
  <2>4. i \in 1..Len(jobs') /\ jobs'[i] = js[i]
    BY <1>1, <1>4
  <2> QED
    BY <2>1, <2>3, <2>4 DEF Settled, JobsAgree
<1>7. ASSUME NEW x,
             CountIds(from_main, x) # 0 \/ BusyWith(x) # {} \/ CountReports(rs, x) # 0
      PROVE  CountIds(js, x) # 0
  <2>1. /\ CountIds(from_main, x) + Cardinality(BusyWith(x)) + CountReports(rs, x) <= CountIds(js, x)
        /\ CountReports(rs, x) \in Nat
    BY CountReportsType
  <2>2. BusyWith(x) # {} => Cardinality(BusyWith(x)) # 0
    BY PlacesType, FS_EmptySet
  <2> QED
    BY <1>7, <2>1, <2>2, PlacesType
<1>8. ASSUME NEW i \in 1..Len(from_main')
      PROVE  Settled(likes', jobs', Ids(from_main'[i]), Likes(likes', from_main'[i]))
  <2>1. CASE i \in 1..Len(from_main)
    <3>1. CountIds(from_main, Ids(from_main[i])) # 0
      BY <1>1, <2>1, CountIdsType
    <3>2. Settled(likes, jobs, Ids(from_main[i]), Likes(likes, from_main[i]))
      BY <2>1 DEF VerdictsRight
    <3>3. Settled(likes', jobs', Ids(from_main[i]), Likes(likes, from_main[i]))
      BY <1>6, <1>7, <3>1, <3>2
    <3> QED
      BY <1>5, <2>1, <3>3
  <2>2. CASE i \notin 1..Len(from_main)
    <3>1. i - Len(from_main) \in 1..Len(new) /\ Len(from_main) + (i - Len(from_main)) = i
      BY <1>1, <1>5, <2>2
    <3>2. PICK k \in 1..Len(new) : i = Len(from_main) + k
      BY <3>1
    <3>3. from_main'[i] = jobs'[Len(js)+k] /\ Len(js) + k \in 1..Len(jobs')
      BY <1>1, <1>4, <1>5, <3>2
    <3> QED
      BY <3>3 DEF Settled, JobsAgree
  <2> QED
    BY <2>1, <2>2
<1>9. ASSUME NEW p \in Pool!Busy
      PROVE  Settled(likes', jobs', Ids(assigned[p]), Likes(likes, assigned[p]))
  <2>1. BusyWith(Ids(assigned[p])) # {}
    BY DEF BusyWith
  <2>2. Settled(likes, jobs, Ids(assigned[p]), Likes(likes, assigned[p]))
    BY DEF VerdictsRight
  <2> QED
    BY <1>6, <1>7, <2>1, <2>2
<1>10. ASSUME NEW i \in 1..Len(rs)
       PROVE  Settled(likes', jobs', rs[i].ids, rs[i].result)
  <2>1. CountReports(rs, rs[i].ids) # 0
    BY CountReportsType
  <2>2. PICK k \in 1..Len(from_worker_job) : rs[i] = from_worker_job[k]
    OBVIOUS
  <2>3. Settled(likes, jobs, rs[i].ids, rs[i].result)
    BY <2>2 DEF VerdictsRight
  <2> QED
    BY <1>6, <1>7, <2>1, <2>3
<1>11. VerdictsRight'
  BY <1>2, <1>8, <1>9, <1>10 DEF VerdictsRight
<1> QED
  BY <1>3, <1>11
-----------------------------------------------------------------------------
(* Which job a report is taken to be about.                                *)

\* Whom a filter accepts does not depend on how often it was asked.
SteadyTastes ==
  \A taste \in Tastes : \A a, b, c, d \in Request :
    a.id = c.id /\ b.id = d.id => (<<a, b>> \in taste <=> <<c, d>> \in taste)

\* With such filters one job is as good as another with the same two ids ...
LEMMA TastesAgree ==
  ASSUME SteadyTastes, NEW L \in Tastes, NEW js \in Seq(Job)
  PROVE  JobsAgree(L, js)
<1> SUFFICES ASSUME NEW k \in 1..Len(js), NEW l \in 1..Len(js), Ids(js[k]) = Ids(js[l])
             PROVE  Likes(L, js[k]) <=> Likes(L, js[l])
  BY DEF JobsAgree
<1>1. js[k] \in Job /\ js[l] \in Job
  BY ElementOfSeq
<1>2. /\ js[k].trying_info \in Request /\ js[k].candidate_info \in Request
      /\ js[l].trying_info \in Request /\ js[l].candidate_info \in Request
  BY <1>1 DEF Job
<1>3. /\ js[k].trying_info.id = js[l].trying_info.id
      /\ js[k].candidate_info.id = js[l].candidate_info.id
  BY DEF Ids
<1> QED
  BY <1>2, <1>3 DEF SteadyTastes, Likes

\* ... and with steady clients there is no other.
LEMMA TriedAgree ==
  ASSUME NEW T, NEW js, NEW Q, NEW L, TriedBy(T, js, Q)
  PROVE  JobsAgree(L, js)
<1> SUFFICES ASSUME NEW k \in 1..Len(js), NEW l \in 1..Len(js), Ids(js[k]) = Ids(js[l])
             PROVE  Likes(L, js[k]) <=> Likes(L, js[l])
  BY DEF JobsAgree
<1>1. js[k].trying_info.id = js[l].trying_info.id
  BY DEF Ids
<1>2. k = l
  BY <1>1 DEF TriedBy
<1> QED
  BY <1>2

\* The job that leaves jobs is one with the two ids of the report.
LEMMA OutstandingLess ==
  ASSUME jobs \in Seq(Job), NEW x, \E k \in 1..Len(jobs) : Ids(jobs[k]) = x
  PROVE  \E i \in 1..Len(jobs) : Ids(jobs[i]) = x /\ Outstanding(x) = RemoveAt(jobs, i)
<1> DEFINE Test(job) == Ids(job) = x
           I == {i \in 1..Len(jobs) : Test(jobs[i])}
<1>1. Outstanding(x) = IF \E i \in 1..Len(jobs) : Test(jobs[i])
                       THEN RemoveAt(jobs, IF I # {} THEN Min(I) ELSE 0) ELSE jobs
  BY DEF Outstanding, RemoveFirstMatch, SelectInSeq
<1>2. I \in SUBSET Nat /\ I # {}
  OBVIOUS
<1>3. Min(I) \in I
  <2> HIDE DEF I
  <2> QED
    BY <1>2, MinOfNats
<1>4. Outstanding(x) = RemoveAt(jobs, Min(I))
  BY <1>1, <1>2
<1>5. Min(I) \in 1..Len(jobs) /\ Ids(jobs[Min(I)]) = x
  BY <1>3
<1> QED
  BY <1>4, <1>5

\* A report that says of job i what its two filters say is what module Matching
\* takes it for.
LEMMA ReportOfJob ==
  ASSUME NEW i \in 1..Len(jobs), DOMAIN jobs = 1..Len(jobs),
         NEW report, report.ids = Ids(jobs[i]), report.result <=> DoJob(jobs[i]),
         Outstanding(report.ids) = RemoveAt(jobs, i), HandleReportOf(report)
  PROVE  WorkerStep
<1> DEFINE x == [trying_id |-> report.ids.trying_id,
                 candidate_id |-> report.ids.candidate_id,
                 result |-> report.result]
           y == [trying_id |-> jobs[i].trying_info.id,
                 candidate_id |-> jobs[i].candidate_info.id,
                 result |-> DoJob(jobs[i])]
           js == RemoveAt(jobs, i)
<1>1. /\ x.trying_id = y.trying_id /\ x.candidate_id = y.candidate_id
      /\ x.result <=> y.result
  BY DEF Ids
<1>2. HandleReport(x, js)
  BY DEF HandleReportOf
<1> HIDE DEF x, y, js
<1>3. HandleReport(y, js)
  BY <1>1, <1>2 DEF HandleReport
<1>4. HandleReport(y, js) /\ UNCHANGED likes
  BY <1>3 DEF HandleReportOf
<1>5. Report(i)
  BY <1>4 DEF Report, y, js
<1> QED
  BY <1>5 DEF WorkerStep
-----------------------------------------------------------------------------
(* The server, as long as no child has died.                               *)

\* The inductive invariant: a killed child is dead, and until one is, the
\* places are those of jobs that are out and their verdicts are right.  That
\* the reports cannot be mixed up takes filters that judge by the user alone,
\* or clients that never have two jobs out for one user.
ServedIInv ==
  /\ ServerIInv
  /\ likes \in Tastes
  /\ killed_child \subseteq Pool!Dead
  /\ Pool!Dead = {} => /\ EachIsOut /\ VerdictsRight
                       /\ SteadyClients => SafeIInv

\* Who is dead.
LEMMA SameDead ==
  /\ Pool!Dead = PoolProofs!Dead
  /\ Pool!Dead' = PoolProofs!Dead'
BY DEF Pool!Dead, PoolProofs!Dead

\* The dead stay dead, and only the dead are taken for killed.
LEMMA NoneDied ==
  ASSUME ServerIInv, [ServerNext]_serverVars
  PROVE  Pool!Dead \subseteq Pool!Dead' /\ killed_child' \subseteq killed_child \union Pool!Dead
<1>1. PoolProofs!Dead \subseteq PoolProofs!Dead'
      /\ killed_child' \subseteq killed_child \union PoolProofs!Dead
  BY ServerStep, PoolAssumed, PoolProofs!DeadStayDead DEF ServerIInv, PoolProofs!SizeIInv
<1> QED
  BY <1>1, SameDead

\* The report that is read first is about a job that is out.
LEMMA ReportedOnce ==
  ASSUME ServerIInv, EachIsOut, VerdictsRight, from_worker_job # <<>>,
         HandleReportOf(Head(from_worker_job))
  PROVE  /\ WorkerStep
         /\ \E i \in 1..Len(jobs) :
              /\ Ids(jobs[i]) = Head(from_worker_job).ids
              /\ Outstanding(Head(from_worker_job).ids) = RemoveAt(jobs, i)
<1> DEFINE report == Head(from_worker_job)
           x == report.ids
<1>1. PoolProofs!PoolTypeOK /\ jobs \in Seq(Job) /\ DOMAIN jobs = 1..Len(jobs)
  <2>1. PoolProofs!PoolTypeOK /\ jobs \in Seq(Job)
    BY DEF ServerIInv, PoolProofs!SizeIInv, PoolProofs!IInv, Requests
  <2> QED
    BY <2>1, LenProperties
<1>2. /\ from_worker_job \in Seq(PoolProofs!ReportJob) /\ Len(from_worker_job) \in Nat \ {0}
      /\ report = from_worker_job[1]
  BY <1>1, PlaceTypes, EmptySeq, HeadTailProperties
<1>3. CountReports(from_worker_job, x) # 0
  BY <1>2, CountReportsType
<1>4. CountIds(jobs, x) # 0
  <2>1. Places(x) <= CountIds(jobs, x) /\ CountIds(jobs, x) \in Nat
    BY <1>1, CountIdsType DEF EachIsOut
  <2> QED
    BY <1>1, <1>3, <2>1, PlacesType DEF Places
<1>5. PICK i \in 1..Len(jobs) : Ids(jobs[i]) = x /\ Outstanding(x) = RemoveAt(jobs, i)
  BY <1>1, <1>4, CountIdsType, OutstandingLess
<1>6. Settled(likes, jobs, x, report.result)
  <2>1. 1 \in 1..Len(from_worker_job)
    BY <1>2
  <2> QED
    BY <1>2, <2>1 DEF VerdictsRight
<1>7. report.result <=> DoJob(jobs[i])
  BY <1>5, <1>6 DEF Settled, Likes, DoJob
<1> HIDE DEF report
<1>8. WorkerStep
  BY <1>1, <1>5, <1>7, ReportOfJob DEF report
<1> QED
  BY <1>5, <1>8 DEF report

\* So every step of the server is one of module Matching, or none.
LEMMA ServedNext ==
  ASSUME ServedIInv, [ServerNext]_serverVars, Pool!Dead' = {}
  PROVE  [Next]_vars /\ likes' = likes
<1>1. Pool!Dead = {} /\ killed_child = {} /\ ServerIInv /\ EachIsOut /\ VerdictsRight
  BY NoneDied DEF ServedIInv
<1>2. CASE JobReady /\ process = "running"
  <2>1. from_worker_job # <<>>
    BY <1>1, <1>2, SameReports, PoolAssumed, PoolProofs!JobTurn
       DEF JobReady, ServerIInv, PoolProofs!SizeIInv
  <2>2. WorkerStep
    BY <1>1, <1>2, <2>1, ReportedOnce DEF JobReady
  <2> QED
    BY <1>2, <2>2 DEF Next, JobReady, HandleReportOf
<1>3. CASE PidOfKilled
  BY <1>1, <1>3 DEF PidOfKilled, Pool!PidOfKilled
<1>4. ~ \E p \in Pid : ReapRecorded(p)
  BY <1>1 DEF ReapRecorded, Pool!ReapRecorded, Pool!Dead
<1>5. ASSUME NEW id \in Id, ClientReady(id), process = "running"
      PROVE  [Next]_vars /\ likes' = likes
  BY <1>5 DEF ClientReady, Next, ClientStep, TryMatch, Quit, Disconnect, Leave
<1>6. CASE UNCHANGED vars
  BY <1>6 DEF vars
<1>7. CASE UNCHANGED serverVars
  BY <1>7 DEF serverVars, vars
<1> QED
  BY <1>2, <1>3, <1>4, <1>5, <1>6, <1>7 DEF ServerNext

\* Nobody loses, doubles or mixes up a job.
LEMMA ServedPlaces ==
  ASSUME ServedIInv, [ServerNext]_serverVars, Pool!Dead' = {},
         JobsAgree(likes, jobs')
  PROVE  EachIsOut' /\ VerdictsRight'
<1>1. Pool!Dead = {} /\ killed_child = {} /\ ServerIInv /\ EachIsOut /\ VerdictsRight
  BY NoneDied DEF ServedIInv
<1>2. likes' = likes
  BY ServedNext
<1>3. /\ PoolProofs!PoolTypeOK /\ PoolProofs!BusyHasJob /\ Requests
      /\ working_job \in 0..WORKER_NUMBER /\ try_match_counter \in [Id -> Nat]
  BY <1>1 DEF ServerIInv, PoolProofs!SizeIInv, PoolProofs!IInv, PoolProofs!PoolTypeOK
<1>4. jobs \in Seq(Job) /\ from_worker_job \in Seq(PoolProofs!ReportJob)
  BY <1>3, PlaceTypes DEF Requests
<1>5. CASE JobReady
  <2> DEFINE report == Head(from_worker_job)
             js == Outstanding(report.ids)
             rs == Tail(from_worker_job)
  <2>1. from_worker_job # <<>>
    BY <1>1, <1>5, SameReports, PoolAssumed, PoolProofs!JobTurn
       DEF JobReady, ServerIInv, PoolProofs!SizeIInv
  <2>2. PICK i \in 1..Len(jobs) : Ids(jobs[i]) = report.ids /\ js = RemoveAt(jobs, i)
    BY <1>1, <1>5, <2>1, ReportedOnce DEF JobReady
  <2>3. working_job \in 1..WORKER_NUMBER
    BY <1>1, <1>5, SameReports, PoolAssumed, PoolProofs!ReportsHaveSlots
       DEF JobReady, ServerIInv, PoolProofs!SizeIInv, PoolProofs!Reports
  <2>4. Sent(js)
    BY <1>3, <1>5, <2>3, ReportSends DEF JobReady
  <2>5. from_worker_job' = rs /\ worker' = worker /\ assigned' = assigned
    BY <1>5 DEF JobReady, Pool!JobReady
  <2>6. /\ rs \in Seq(PoolProofs!ReportJob) /\ Len(rs) = Len(from_worker_job) - 1
        /\ \A k \in 1..Len(rs) : rs[k] = from_worker_job[k+1]
    BY <1>4, <2>1, HeadTailProperties
  <2>7. /\ js \in Seq(Job) /\ Len(js) = Len(jobs) - 1
        /\ \A k \in 1..(Len(jobs) - 1) : js[k] = IF k < i THEN jobs[k] ELSE jobs[k+1]
    BY <1>4, <2>2, RemoveAtElements
  <2> HIDE DEF report, js, rs
  <2>8. ASSUME NEW x
        PROVE  CountIds(from_main, x) + Cardinality(BusyWith(x)) + CountReports(rs, x)
                 <= CountIds(js, x)
    <3>1. CountReports(from_worker_job, x) = Hit(report.ids, x) + CountReports(rs, x)
      BY <1>4, <2>1, ReportsTail DEF report, rs
    <3>2. CountIds(jobs, x) = Hit(report.ids, x) + CountIds(js, x)
      BY <1>4, <2>2, JobsRemove
    <3>3. Places(x) <= CountIds(jobs, x)
      BY <1>1 DEF EachIsOut
    <3>4. /\ CountReports(rs, x) \in Nat /\ CountIds(js, x) \in Nat
          /\ Hit(report.ids, x) \in Nat
      BY <2>6, <2>7, CountReportsType, CountIdsType DEF Hit
    <3> QED
      BY <1>3, <3>1, <3>2, <3>3, <3>4, PlacesType DEF Places
  <2>9. ASSUME NEW k \in 1..Len(js) PROVE \E l \in 1..Len(jobs) : js[k] = jobs[l]
    BY <1>4, <2>7, LenProperties
  <2>10. ASSUME NEW k \in 1..Len(rs) PROVE \E l \in 1..Len(from_worker_job) : rs[k] = from_worker_job[l]
    BY <1>4, <2>6, LenProperties
  <2> QED
    BY <1>1, <1>2, <1>3, <2>4, <2>5, <2>6, <2>7, <2>8, <2>9, <2>10, HandlerServes
<1>6. ASSUME NEW id \in Id, ClientReady(id)
      PROVE  EachIsOut' /\ VerdictsRight'
  <2>1. Sent(jobs)
    BY <1>3, <1>6, ClientSends DEF ClientReady
  <2>2. from_worker_job' = from_worker_job /\ worker' = worker /\ assigned' = assigned
    BY <1>6 DEF ClientReady, Pool!ClientReady
  <2>3. \A x : CountIds(from_main, x) + Cardinality(BusyWith(x)) + CountReports(from_worker_job, x)
                 <= CountIds(jobs, x)
    BY <1>1 DEF EachIsOut, Places
  <2> QED
    BY <1>1, <1>2, <1>3, <1>4, <2>1, <2>2, <2>3, HandlerServes
<1>7. ASSUME UNCHANGED vars, UNCHANGED <<from_main, from_worker_job, assigned>>,
             Pool!Busy' = Pool!Busy
      PROVE  EachIsOut' /\ VerdictsRight'
  BY <1>1, <1>7 DEF vars, queueVars, EachIsOut, VerdictsRight, Places, BusyWith
<1>8. CASE Pool!Bookkeeping /\ UNCHANGED vars
  <2>1. ~ \E p \in Pid : Pool!ReapUnrecorded(p)
    BY <1>1 DEF Pool!ReapUnrecorded, Pool!Dead
  <2> QED
    BY <1>7, <1>8, <2>1 DEF Pool!Bookkeeping, Pool!Select, Pool!PidOfAlive,
      Pool!ReadSignal, Pool!NoMoreChildren, Pool!NoMoreClients, Pool!Busy
<1>9. ASSUME NEW p \in Pid, WorkerNext(p), UNCHANGED vars
      PROVE  EachIsOut' /\ VerdictsRight'
  <2>1. UNCHANGED <<jobs, likes>>
    BY <1>9 DEF vars, queueVars
  <2> QED
    BY <1>1, <1>3, <1>9, <2>1, ReceiveServes, SendPidServes, SendReportServes DEF WorkerNext
<1>10. ASSUME NEW p \in Pid, Pool!Crash(p) PROVE FALSE
  <2>1. p \in Pool!Dead'
    BY <1>3, <1>10 DEF Pool!Crash, Pool!Dead, PoolProofs!PoolTypeOK
  <2> QED
    BY <2>1
<1>11. CASE PidOfKilled
  BY <1>1, <1>11 DEF PidOfKilled, Pool!PidOfKilled
<1>12. ~ \E p \in Pid : ReapRecorded(p)
  BY <1>1 DEF ReapRecorded, Pool!ReapRecorded, Pool!Dead
<1>13. CASE UNCHANGED serverVars
  BY <1>7, <1>13 DEF serverVars, poolVars, Pool!Busy
<1> QED
  BY <1>5, <1>6, <1>8, <1>9, <1>10, <1>11, <1>12, <1>13 DEF ServerNext

\* It holds at the start, ...
LEMMA ServedStarts == ServerInit => ServedIInv /\ Init
<1> SUFFICES ASSUME ServerInit PROVE ServedIInv /\ Init
  OBVIOUS
<1>1. /\ Init /\ from_main = <<>> /\ from_worker_job = <<>> /\ killed_child = {}
      /\ \A p \in Pid : worker[p] \in {Pool!Idle, "unborn"}
  BY DEF ServerInit, Pool!PoolInit
<1>2. ServerIInv /\ SafeIInv /\ likes \in Tastes
  BY <1>1, ServerStarts, SafeInit DEF Init
<1>3. Pool!Busy = {}
  BY <1>1 DEF Pool!Busy, Pool!Idle
<1>4. Len(from_main) = 0 /\ Len(from_worker_job) = 0
  BY <1>1, EmptySeq
<1>5. EachIsOut
  <2> SUFFICES ASSUME NEW x PROVE Places(x) <= CountIds(jobs, x)
    BY DEF EachIsOut
  <2>1. /\ from_main \in Seq(Job) /\ jobs \in Seq(Job)
        /\ from_worker_job \in Seq(PoolProofs!ReportJob)
    BY <1>1 DEF Init
  <2>2. /\ ~ \E i \in 1..Len(from_main) : Ids(from_main[i]) = x
        /\ ~ \E i \in 1..Len(from_worker_job) : from_worker_job[i].ids = x
    BY <1>4
  <2>4. CountIds(from_main, x) = 0
    BY <2>1, <2>2, CountIdsType
  <2>5. CountReports(from_worker_job, x) = 0
    BY <2>1, <2>2, CountReportsType
  <2>6. CountIds(jobs, x) \in Nat
    BY <2>1, CountIdsType
  <2>3. Cardinality(BusyWith(x)) = 0
    BY <1>3, FS_EmptySet DEF BusyWith
  <2> QED
    BY <2>3, <2>4, <2>5, <2>6 DEF Places
<1>6. VerdictsRight
  BY <1>3, <1>4 DEF VerdictsRight
<1> QED
  BY <1>1, <1>2, <1>5, <1>6 DEF ServedIInv

\* ... and every step of the server preserves it.
LEMMA ServedInvariance ==
  ASSUME SteadyTastes \/ SteadyClients, ServedIInv, [ServerNext]_serverVars
  PROVE  ServedIInv'
<1>1. ServerIInv' /\ likes' = likes /\ likes \in Tastes
      /\ killed_child' \subseteq Pool!Dead'
  <2>1. ServerIInv'
    BY ServerInvariance DEF ServedIInv
  <2>2. likes' = likes
    BY DEF ServerNext, serverVars, vars, JobReady, PidOfKilled, ReapRecorded, HandleReportOf,
           ClientReady, ClientStep, TryMatch, Quit, Disconnect, Leave
  <2> QED
    BY <2>1, <2>2, NoneDied DEF ServedIInv
<1>2. ASSUME Pool!Dead' = {}
      PROVE  EachIsOut' /\ VerdictsRight' /\ (SteadyClients => SafeIInv')
  <2>1. [Next]_vars
    BY <1>2, ServedNext
  <2>2. Pool!Dead = {}
    BY <1>2, NoneDied DEF ServedIInv
  <2>3. SteadyClients => SafeIInv'
    BY <2>1, <2>2, SafePreserved DEF ServedIInv
  <2>4. JobsAgree(likes, jobs')
    <3>1. CASE SteadyTastes
      BY <1>1, <3>1, TastesAgree DEF ServerIInv, Requests
    <3>2. CASE SteadyClients
      <4>1. TriedBy(Trials(trying_queue'), jobs', quit_set')
        BY <2>3, <3>2 DEF SafeIInv, Safe
      <4> QED
        BY <4>1, TriedAgree
    <3> QED
      BY <3>1, <3>2
  <2> QED
    BY <1>2, <2>3, <2>4, ServedPlaces
<1> QED
  BY <1>1, <1>2 DEF ServedIInv

-----------------------------------------------------------------------------
(* The theorems.                                                           *)

\* What module Matching takes for granted of the workers is so until a child
\* dies: each report is about one job that is out, has the verdict of the two
\* filters on it, and no job is reported twice, with any number of workers,
\* users and queued messages.  If the filters look at more than the user and
\* the clients are not steady, the reports of two jobs can be mixed up.
THEOREM ServerImplementsMatching ==
  ASSUME SteadyTastes \/ SteadyClients
  PROVE  ServerSpec => ImplementsMatching
<1>1. ServedIInv /\ [ServerNext]_serverVars => ServedIInv'
  BY ServedInvariance
<1>2. ServedIInv /\ [ServerNext]_serverVars => [Pool!Dead' = {} => Next]_vars
  BY ServedNext
<1> QED
  BY <1>1, <1>2, ServedStarts, PTL DEF ServerSpec, ImplementsMatching

\* So until a child dies the whole server has the safety that was proved of
\* the match queue with its imagined workers.
ServerSafe ==
  Pool!Dead = {} =>
    /\ NeverReadsDeadNode /\ PointersInOrder /\ MarkedMeansTried
    /\ MatchedAcceptEachOther /\ CandidatesIncompatible

\* No dead node is read, the pointers are in order, whoever is marked is tried,
\* the matched accept each other, and candidates do not: in the tests regime,
\* until a child dies.
THEOREM ServerIsSafe ==
  ASSUME SteadyClients
  PROVE  ServerSpec => []ServerSafe
<1>1. ServedIInv /\ [ServerNext]_serverVars => ServedIInv'
  BY ServedInvariance
<1>2. ServedIInv => ServerSafe
  BY SafePointersInOrder, SafeMarkedMeansTried, SafeCandidatesIncompatible
     DEF ServedIInv, ServerSafe, SafeIInv, NeverReadsDeadNode,
         MatchedAcceptEachOther, AllAccept
<1> QED
  BY <1>1, <1>2, ServedStarts, PTL DEF ServerSpec
=============================================================================
