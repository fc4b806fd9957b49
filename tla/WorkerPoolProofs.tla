-------------------------- MODULE WorkerPoolProofs --------------------------
(***************************************************************************)
(* Proofs about module WorkerPool, for any number of workers and children   *)
(* and whatever the match queue hands out.                                  *)
(***************************************************************************)
EXTENDS WorkerPool, TLAPS, SequenceTheorems, FiniteSetTheorems

-----------------------------------------------------------------------------
(* What select() leaves in read_fds.                                       *)

Fd == {"signal", "waitpid", "job", "pid", "clients"}

\* The order in which a pass serves the fds.
Rank == [fd \in Fd |-> CASE fd \in {"signal", "waitpid"} -> 1
                         [] fd = "job" -> 2
                         [] fd = "pid" -> 3
                         [] OTHER      -> 4]

\* A pass serves each fd once.
InOrder(s) == \A i, j \in 1..Len(s) : i < j => Rank[s[i]] < Rank[s[j]]

Has(s, fd) == \E i \in 1..Len(s) : s[i] = fd

\* Every message that select() has seen is there until its turn.
StillReadable == /\ Has(read_fds, "job") => from_worker_job # <<>>
                 /\ Has(read_fds, "pid") => from_worker_pid # <<>>

\* A child that is on a job has one.
BusyHasJob == \A p \in Pid : worker[p] \in {"received", "do_job"} => assigned[p] \in Job

\* The inductive invariant.  The count needs the order of read_fds: a second
\* turn of a queue in one pass would read from a queue that may be empty.
IInv == /\ PoolTypeOK /\ InFlightCounted
        /\ BusyHasJob /\ InOrder(read_fds) /\ StillReadable

\* Two lists of fds in order, all of the first before all of the second.
LEMMA ConcatInOrder ==
  ASSUME NEW s \in Seq(Fd), NEW t \in Seq(Fd), InOrder(s), InOrder(t),
         \A i \in 1..Len(s), j \in 1..Len(t) : Rank[s[i]] < Rank[t[j]]
  PROVE  /\ s \o t \in Seq(Fd)
         /\ InOrder(s \o t)
         /\ \A fd : Has(s \o t, fd) <=> Has(s, fd) \/ Has(t, fd)
<1>1. /\ s \o t \in Seq(Fd)
      /\ Len(s \o t) = Len(s) + Len(t)
      /\ \A i \in 1..(Len(s) + Len(t)) :
           (s \o t)[i] = IF i <= Len(s) THEN s[i] ELSE t[i - Len(s)]
  BY ConcatProperties
<1>2. Len(s) \in Nat /\ Len(t) \in Nat
  BY LenProperties
<1>3. ASSUME NEW i \in 1..Len(s \o t), NEW j \in 1..Len(s \o t), i < j
      PROVE  Rank[(s \o t)[i]] < Rank[(s \o t)[j]]
  <2>1. CASE j <= Len(s)
    BY <1>1, <1>2, <1>3, <2>1 DEF InOrder
  <2>2. CASE i > Len(s)
    <3>1. /\ i - Len(s) \in 1..Len(t) /\ j - Len(s) \in 1..Len(t)
          /\ i - Len(s) < j - Len(s)
      BY <1>1, <1>2, <1>3, <2>2
    <3>2. Rank[t[i - Len(s)]] < Rank[t[j - Len(s)]]
      BY <3>1 DEF InOrder
    <3>3. (s \o t)[i] = t[i - Len(s)] /\ (s \o t)[j] = t[j - Len(s)]
      BY <1>1, <1>2, <1>3, <2>2
    <3> QED
      BY <3>2, <3>3
  <2>3. CASE i <= Len(s) /\ j > Len(s)
    <3>1. i \in 1..Len(s) /\ j - Len(s) \in 1..Len(t)
      BY <1>1, <1>2, <2>3
    <3>2. (s \o t)[i] = s[i] /\ (s \o t)[j] = t[j - Len(s)]
      BY <1>1, <1>2, <2>3
    <3> QED
      BY <3>1, <3>2
  <2> QED
    BY <1>1, <1>2, <2>1, <2>2, <2>3
<1>4. ASSUME NEW fd
      PROVE  Has(s \o t, fd) <=> Has(s, fd) \/ Has(t, fd)
  <2>1. ASSUME Has(s \o t, fd) PROVE Has(s, fd) \/ Has(t, fd)
    <3>1. PICK i \in 1..Len(s \o t) : (s \o t)[i] = fd
      BY <2>1 DEF Has
    <3>2. CASE i <= Len(s)
      BY <1>1, <1>2, <3>1, <3>2 DEF Has
    <3>3. CASE i > Len(s)
      <4>1. i - Len(s) \in 1..Len(t) /\ t[i - Len(s)] = fd
        BY <1>1, <1>2, <3>1, <3>3
      <4> QED
        BY <4>1 DEF Has
    <3> QED
      BY <1>1, <1>2, <3>2, <3>3
  <2>2. ASSUME Has(s, fd) PROVE Has(s \o t, fd)
    BY <1>1, <1>2, <2>2 DEF Has
  <2>3. ASSUME Has(t, fd) PROVE Has(s \o t, fd)
    <3>1. PICK j \in 1..Len(t) : t[j] = fd
      BY <2>3 DEF Has
    <3>2. /\ j + Len(s) \in 1..Len(s \o t)
          /\ ~(j + Len(s) <= Len(s)) /\ (j + Len(s)) - Len(s) = j
      BY <1>1, <1>2, <3>1
    <3>3. (s \o t)[j + Len(s)] = fd
      BY <1>1, <1>2, <3>1, <3>2
    <3> QED
      BY <3>2, <3>3 DEF Has
  <2> QED
    BY <2>1, <2>2, <2>3
<1> QED
  BY <1>1, <1>3, <1>4 DEF InOrder

\* The list of one fd, if it is readable.
LEMMA IfReadyInOrder ==
  ASSUME NEW fd \in Fd, NEW ready
  PROVE  /\ IfReady(fd, ready) \in Seq(Fd)
         /\ InOrder(IfReady(fd, ready))
         /\ \A i \in 1..Len(IfReady(fd, ready)) : IfReady(fd, ready)[i] = fd
         /\ \A f : Has(IfReady(fd, ready), f) <=> ready /\ f = fd
<1>1. CASE ready
  <2> DEFINE one == <<fd>>
  <2>1. IfReady(fd, ready) = one
    BY <1>1 DEF IfReady
  <2>2. one \in Seq(Fd) /\ Len(one) = 1 /\ one[1] = fd
    OBVIOUS
  <2> HIDE DEF one
  <2>3. InOrder(one)
    BY <2>2 DEF InOrder
  <2>4. \A f : Has(one, f) <=> f = fd
    BY <2>2 DEF Has
  <2>5. \A i \in 1..Len(one) : one[i] = fd
    BY <2>2
  <2>6. \A f : Has(one, f) <=> ready /\ f = fd
    BY <1>1, <2>4
  <2>7. IfReady(fd, ready) \in Seq(Fd)
    BY <2>1, <2>2
  <2> QED
    BY <2>1, <2>3, <2>5, <2>6, <2>7, Zenon
<1>2. CASE ~ready
  <2>1. IfReady(fd, ready) = <<>>
    BY <1>2 DEF IfReady
  <2> QED
    BY <1>2, <2>1 DEF InOrder, Has
<1> QED
  BY <1>1, <1>2

\* select goes through the fds in the order of their numbers.
LEMMA ReadyFdsInOrder ==
  ASSUME NEW clients \in BOOLEAN
  PROVE  /\ ReadyFds(clients) \in Seq(Fd)
         /\ InOrder(ReadyFds(clients))
         /\ Has(ReadyFds(clients), "job") => from_worker_job # <<>>
         /\ Has(ReadyFds(clients), "pid") <=> from_worker_pid # <<>>
<1> DEFINE a == IfReady("signal", sigchld)
           b == IfReady("job", from_worker_job # <<>>)
           c == IfReady("pid", from_worker_pid # <<>>)
           d == IfReady("clients", clients)
<1>1. {"signal", "job", "pid", "clients"} \subseteq Fd
  BY DEF Fd
<1>2. /\ Rank["signal"] = 1 /\ Rank["job"] = 2
      /\ Rank["pid"] = 3 /\ Rank["clients"] = 4
  BY DEF Rank, Fd
<1>a. /\ a \in Seq(Fd) /\ InOrder(a)
      /\ \A i \in 1..Len(a) : a[i] = "signal"
      /\ \A f : Has(a, f) => f = "signal"
  BY <1>1, IfReadyInOrder
<1>b. /\ b \in Seq(Fd) /\ InOrder(b)
      /\ \A i \in 1..Len(b) : b[i] = "job"
      /\ \A f : Has(b, f) <=> from_worker_job # <<>> /\ f = "job"
  BY <1>1, IfReadyInOrder
<1>c. /\ c \in Seq(Fd) /\ InOrder(c)
      /\ \A i \in 1..Len(c) : c[i] = "pid"
      /\ \A f : Has(c, f) <=> from_worker_pid # <<>> /\ f = "pid"
  BY <1>1, IfReadyInOrder
<1>d. /\ d \in Seq(Fd) /\ InOrder(d)
      /\ \A i \in 1..Len(d) : d[i] = "clients"
      /\ \A f : Has(d, f) => f = "clients"
  BY <1>1, IfReadyInOrder
<1>3. ReadyFds(clients) = ((a \o b) \o c) \o d
  BY DEF ReadyFds
<1> HIDE DEF a, b, c, d
<1>4. /\ a \o b \in Seq(Fd) /\ InOrder(a \o b)
      /\ \A f : Has(a \o b, f) <=> Has(a, f) \/ Has(b, f)
  BY <1>a, <1>b, <1>2, ConcatInOrder
<1>5. \A i \in 1..Len(a \o b) : (a \o b)[i] \in {"signal", "job"}
  BY <1>4, <1>a, <1>b DEF Has
<1>6. /\ (a \o b) \o c \in Seq(Fd) /\ InOrder((a \o b) \o c)
      /\ \A f : Has((a \o b) \o c, f) <=> Has(a \o b, f) \/ Has(c, f)
  <2>1. \A i \in 1..Len(a \o b), j \in 1..Len(c) : Rank[(a \o b)[i]] < Rank[c[j]]
    BY <1>2, <1>5, <1>c, SMTT(60)
  <2> QED
    BY <1>4, <1>c, <2>1, ConcatInOrder
<1>7. \A i \in 1..Len((a \o b) \o c) : ((a \o b) \o c)[i] \in {"signal", "job", "pid"}
  BY <1>4, <1>6, <1>a, <1>b, <1>c DEF Has
<1>8. /\ ((a \o b) \o c) \o d \in Seq(Fd) /\ InOrder(((a \o b) \o c) \o d)
      /\ \A f : Has(((a \o b) \o c) \o d, f) <=> Has((a \o b) \o c, f) \/ Has(d, f)
  <2>1. ASSUME NEW i \in 1..Len((a \o b) \o c), NEW j \in 1..Len(d)
        PROVE  Rank[((a \o b) \o c)[i]] < Rank[d[j]]
    <3>1. Rank[d[j]] = 4
      BY <1>2, <1>d
    <3>2. Rank[((a \o b) \o c)[i]] \in {1, 2, 3}
      BY <1>2, <1>7
    <3> QED
      BY <3>1, <3>2
  <2> QED
    BY <1>6, <1>d, <2>1, ConcatInOrder
<1> QED
  BY <1>3, <1>4, <1>6, <1>8, <1>a, <1>b, <1>c, <1>d

\* A turn is over: the fd it was for is not served again in this pass.
LEMMA TailInOrder ==
  ASSUME NEW s \in Seq(Fd), s # <<>>, InOrder(s)
  PROVE  /\ Tail(s) \in Seq(Fd)
         /\ InOrder(Tail(s))
         /\ Has(s, Head(s))
         /\ \A fd : Has(Tail(s), fd) => Has(s, fd) /\ Rank[Head(s)] < Rank[fd]
<1>1. /\ Head(s) \in Fd
      /\ Tail(s) \in Seq(Fd) /\ Len(Tail(s)) = Len(s) - 1
      /\ \A i \in 1..Len(Tail(s)) : Tail(s)[i] = s[i+1]
  BY HeadTailProperties
<1>2. Len(s) \in Nat \ {0}
  BY EmptySeq
<1>3. Head(s) = s[1]
  OBVIOUS
<1>4. InOrder(Tail(s))
  <2>1. ASSUME NEW i \in 1..Len(Tail(s)), NEW j \in 1..Len(Tail(s)), i < j
        PROVE  Rank[Tail(s)[i]] < Rank[Tail(s)[j]]
    <3>1. i + 1 \in 1..Len(s) /\ j + 1 \in 1..Len(s) /\ i + 1 < j + 1
      BY <1>1, <1>2, <2>1
    <3>2. Rank[s[i+1]] < Rank[s[j+1]]
      BY <3>1 DEF InOrder
    <3> QED
      BY <1>1, <3>2
  <2> QED
    BY <2>1 DEF InOrder
<1>5. Has(s, Head(s))
  BY <1>2, <1>3 DEF Has
<1>6. ASSUME NEW fd, Has(Tail(s), fd)
      PROVE  Has(s, fd) /\ Rank[Head(s)] < Rank[fd]
  <2>1. PICK i \in 1..Len(Tail(s)) : Tail(s)[i] = fd
    BY <1>6 DEF Has
  <2>2. i + 1 \in 1..Len(s) /\ 1 \in 1..Len(s) /\ 1 < i + 1
    BY <1>1, <1>2, <2>1
  <2>3. s[i+1] = fd
    BY <1>1, <2>1
  <2>4. Has(s, fd)
    BY <2>2, <2>3 DEF Has
  <2>5. Rank[s[1]] < Rank[s[i+1]]
    BY <2>2 DEF InOrder
  <2> QED
    BY <1>3, <2>3, <2>4, <2>5
<1> QED
  BY <1>1, <1>4, <1>5, <1>6

\* The signal fd gives way to the loop around waitpid.
LEMMA WaitpidInOrder ==
  ASSUME NEW s \in Seq(Fd), s # <<>>, InOrder(s), Head(s) = "signal"
  PROVE  /\ <<"waitpid">> \o Tail(s) \in Seq(Fd)
         /\ InOrder(<<"waitpid">> \o Tail(s))
         /\ \A fd \in {"job", "pid"} : Has(<<"waitpid">> \o Tail(s), fd) => Has(s, fd)
<1> DEFINE one == <<"waitpid">>
<1>1. /\ one \in Seq(Fd) /\ InOrder(one)
      /\ \A i \in 1..Len(one) : one[i] = "waitpid"
      /\ \A f : Has(one, f) <=> f = "waitpid"
  <2>1. one \in Seq(Fd) /\ Len(one) = 1 /\ one[1] = "waitpid"
    BY DEF Fd
  <2> HIDE DEF one
  <2> QED
    BY <2>1 DEF InOrder, Has
<1>2. /\ Tail(s) \in Seq(Fd) /\ InOrder(Tail(s))
      /\ \A fd : Has(Tail(s), fd) => Has(s, fd) /\ Rank["signal"] < Rank[fd]
  BY TailInOrder
<1>3. Rank["signal"] = Rank["waitpid"]
  BY DEF Rank, Fd
<1> HIDE DEF one
<1>4. \A i \in 1..Len(one), j \in 1..Len(Tail(s)) : Rank[one[i]] < Rank[Tail(s)[j]]
  BY <1>1, <1>2, <1>3 DEF Has
<1>5. /\ one \o Tail(s) \in Seq(Fd)
      /\ InOrder(one \o Tail(s))
      /\ \A fd : Has(one \o Tail(s), fd) <=> Has(one, fd) \/ Has(Tail(s), fd)
  BY <1>1, <1>2, <1>4, ConcatInOrder
<1>6. \A fd \in {"job", "pid"} : Has(one \o Tail(s), fd) => Has(s, fd)
  BY <1>1, <1>2, <1>5
<1> QED
  BY <1>5, <1>6 DEF one

-----------------------------------------------------------------------------
(* Counting children.                                                      *)

\* Sets of children are finite, and one child more or less counts as one.
LEMMA PidSets ==
  ASSUME NEW S \in SUBSET Pid
  PROVE  /\ IsFiniteSet(S) /\ Cardinality(S) \in Nat
         /\ \A T \in SUBSET S : Cardinality(T) \in Nat /\ Cardinality(T) <= Cardinality(S)
         /\ \A p \in S : Cardinality(S \ {p}) = Cardinality(S) - 1
         /\ \A p \in Pid : Cardinality(S \union {p}) \in Nat
                           /\ Cardinality(S \union {p}) <= Cardinality(S) + 1
<1>1. IsFiniteSet(S)
  BY PoolAssumption, FS_Subset
<1>2. Cardinality(S) \in Nat
  BY <1>1, FS_CardinalityType
<1>3. ASSUME NEW T \in SUBSET S
      PROVE  Cardinality(T) \in Nat /\ Cardinality(T) <= Cardinality(S)
  BY <1>1, FS_Subset, FS_CardinalityType
<1>4. \A p \in S : Cardinality(S \ {p}) = Cardinality(S) - 1
  BY <1>1, FS_RemoveElement
<1>5. ASSUME NEW p \in Pid
      PROVE  /\ Cardinality(S \union {p}) \in Nat
             /\ Cardinality(S \union {p}) <= Cardinality(S) + 1
  <2>1. CASE p \in S
    <3>1. S \union {p} = S
      BY <2>1
    <3> QED
      BY <3>1, <1>2
  <2>2. CASE p \notin S
    <3>1. Cardinality(S \union {p}) = Cardinality(S) + 1
      BY <2>2, <1>1, FS_AddElement
    <3> QED
      BY <3>1, <1>2
  <2> QED
    BY <2>1, <2>2
<1> QED
  BY <1>1, <1>2, <1>3, <1>4, <1>5

\* What the count is made of.
LEMMA CountParts ==
  ASSUME PoolTypeOK
  PROVE  /\ Busy \in SUBSET Pid /\ Zombies \in SUBSET Pid /\ killed_child \in SUBSET Pid
         /\ Cardinality(Busy) \in Nat /\ Cardinality(Zombies) \in Nat
         /\ Cardinality(killed_child) \in Nat
         /\ Len(from_main) \in Nat /\ Len(from_worker_job) \in Nat
         /\ working_job \in Nat /\ WORKER_NUMBER \in Nat
<1>1. Busy \in SUBSET Pid /\ Zombies \in SUBSET Pid /\ killed_child \in SUBSET Pid
  BY DEF Busy, Zombies, PoolTypeOK
<1>2. Len(from_main) \in Nat /\ Len(from_worker_job) \in Nat
  BY LenProperties DEF PoolTypeOK
<1>3. working_job \in Nat /\ WORKER_NUMBER \in Nat
  BY PoolAssumption DEF PoolTypeOK
<1> QED
  BY <1>1, <1>2, <1>3, PidSets

\* The count of a state, which a step is compared with.
LEMMA CountedNow ==
  ASSUME PoolTypeOK, InFlightCounted
  PROVE  /\ Cardinality(Busy) \in Nat /\ Cardinality(Zombies) \in Nat
         /\ Cardinality(killed_child) \in Nat /\ Len(from_main) \in Nat
         /\ Len(from_worker_job) \in Nat /\ working_job \in Nat
         /\ Len(from_main) + Cardinality(Busy) + Len(from_worker_job)
              + Cardinality(Zombies) + Cardinality(killed_child) <= working_job
BY CountParts DEF InFlightCounted

\* One slot came back, w - 1 are in use, and all but n of the new slots hold a
\* job that is queued: the count of the rest has fallen by one as well.
LEMMA Refilled ==
  ASSUME NEW n \in Nat, NEW rest \in Nat, NEW w \in Nat, n + rest <= w,
         NEW n1 \in Nat, NEW rest1 \in Nat, NEW w1 \in Nat,
         n1 = n + (w1 - (w - 1)), rest1 <= rest - 1
  PROVE  n1 + rest1 <= w1
OBVIOUS

\* Jobs are sent: each takes a slot.
LEMMA Started ==
  ASSUME NEW n \in Nat, NEW rest \in Nat, NEW w \in Nat, n + rest <= w,
         NEW n1 \in Nat, NEW w1 \in Nat, n1 = n + (w1 - w)
  PROVE  n1 + rest <= w1
OBVIOUS

\* arrange_job takes one slot for each job it sends, and never one too many.
LEMMA ArrangeCounts ==
  ASSUME PoolTypeOK, NEW working \in 0..WORKER_NUMBER, Arrange(working)
  PROVE  /\ working_job' \in 0..WORKER_NUMBER
         /\ from_main' \in Seq(Job)
         /\ working_job' - working \in Nat
         /\ Len(from_main') = Len(from_main) + (working_job' - working)
<1>0. PICK n \in 0..(WORKER_NUMBER - working) :
        \E new \in [1..n -> Job] :
          working_job' = working + n /\ from_main' = from_main \o new
  BY DEF Arrange
<1>1. PICK new \in [1..n -> Job] :
        working_job' = working + n /\ from_main' = from_main \o new
  BY <1>0
<1>2. WORKER_NUMBER \in Nat /\ n \in Nat
  BY <1>1, PoolAssumption
<1>3. new \in Seq(Job)
  BY <1>2, SeqDef
<1>4. Len(new) = n
  BY <1>2, <1>3, LenProperties
<1>5. from_main \in Seq(Job) /\ Len(from_main) \in Nat
  BY LenProperties DEF PoolTypeOK
<1>6. from_main' \in Seq(Job) /\ Len(from_main') = Len(from_main) + n
  BY <1>1, <1>3, <1>4, <1>5, ConcatProperties
<1> QED
  BY <1>1, <1>2, <1>5, <1>6

-----------------------------------------------------------------------------
(* The workers.                                                            *)

\* What a worker does leaves alone.
FdsOK == InOrder(read_fds) /\ StillReadable

\* mq_receive of worker(): a job moves from from_main to a child.
LEMMA ReceiveJobKeeps ==
  ASSUME IInv, NEW p \in Pid, ReceiveJob(p), UNCHANGED working_job
  PROVE  IInv'
<1> USE DEF IInv
<1>1. /\ Head(from_main) \in Job /\ from_main' \in Seq(Job)
      /\ Len(from_main') = Len(from_main) - 1
  BY HeadTailProperties DEF ReceiveJob, PoolTypeOK
<1>2. PoolTypeOK'
  BY <1>1 DEF ReceiveJob, PoolTypeOK
<1>3. Busy' = Busy \union {p} /\ Zombies' = Zombies
  BY DEF ReceiveJob, PoolTypeOK, Busy, Zombies, Idle
<1>4. InFlightCounted'
  <2>1. Cardinality(Busy') <= Cardinality(Busy) + 1 /\ Cardinality(Busy') \in Nat
    BY <1>3, CountParts, PidSets
  <2>2. UNCHANGED <<from_worker_job, killed_child, working_job>>
    BY DEF ReceiveJob
  <2> QED
    BY <1>1, <1>3, <2>1, <2>2, CountParts, SMTT(60) DEF InFlightCounted
<1>5. BusyHasJob'
  BY <1>1 DEF BusyHasJob, ReceiveJob, PoolTypeOK
<1>6. FdsOK'
  BY DEF FdsOK, StillReadable, ReceiveJob
<1> QED
  BY <1>2, <1>4, <1>5, <1>6 DEF FdsOK

\* Its mq_send of the pid report moves nothing that is counted.
LEMMA SendPidKeeps ==
  ASSUME IInv, NEW p \in Pid, SendPid(p), UNCHANGED working_job
  PROVE  IInv'
<1> USE DEF IInv
<1> DEFINE report == [pid |-> p, ids |-> Ids(assigned[p])]
<1>1. report \in ReportPid
  BY DEF BusyHasJob, SendPid, ReportPid
<1>2. from_worker_pid' \in Seq(ReportPid) /\ from_worker_pid' # <<>>
  <2>1. from_worker_pid' = Append(from_worker_pid, report)
    BY DEF SendPid
  <2> HIDE DEF report
  <2> QED
    BY <1>1, <2>1, SMTT(60) DEF PoolTypeOK
<1>3. PoolTypeOK'
  BY <1>2 DEF SendPid, PoolTypeOK
<1>4. Busy' = Busy /\ Zombies' = Zombies
  BY DEF SendPid, PoolTypeOK, Busy, Zombies
<1>5. InFlightCounted'
  BY <1>4 DEF InFlightCounted, SendPid
<1>6. BusyHasJob'
  BY DEF BusyHasJob, SendPid, PoolTypeOK
<1>7. FdsOK'
  BY <1>2 DEF FdsOK, StillReadable, SendPid
<1> QED
  BY <1>3, <1>5, <1>6, <1>7 DEF FdsOK

\* Its mq_send of the report moves the job to from_worker_job.
LEMMA SendReportKeeps ==
  ASSUME IInv, NEW p \in Pid, NEW result \in BOOLEAN, SendReport(p, result),
         UNCHANGED working_job
  PROVE  IInv'
<1> USE DEF IInv
<1> DEFINE report == [pid |-> p, ids |-> Ids(assigned[p]), result |-> result]
<1>1. report \in ReportJob
  BY DEF BusyHasJob, SendReport, ReportJob
<1>2. /\ from_worker_job' \in Seq(ReportJob) /\ from_worker_job' # <<>>
      /\ Len(from_worker_job') = Len(from_worker_job) + 1
  <2>1. from_worker_job' = Append(from_worker_job, report)
    BY DEF SendReport
  <2> HIDE DEF report
  <2> QED
    BY <1>1, <2>1 DEF PoolTypeOK
<1>3. PoolTypeOK'
  BY <1>2 DEF SendReport, PoolTypeOK, Idle
<1>4. p \in Busy /\ Busy' = Busy \ {p} /\ Zombies' = Zombies
  BY DEF SendReport, PoolTypeOK, Busy, Zombies, Idle
<1>5. InFlightCounted'
  <2>1. Cardinality(Busy') = Cardinality(Busy) - 1
    BY <1>4, CountParts, PidSets
  <2>2. UNCHANGED <<from_main, killed_child, working_job>>
    BY DEF SendReport
  <2> QED
    BY <1>2, <1>4, <2>1, <2>2, CountParts, SMTT(60) DEF InFlightCounted
<1>6. BusyHasJob'
  BY DEF BusyHasJob, SendReport, PoolTypeOK, Idle
<1>7. FdsOK'
  BY <1>2 DEF FdsOK, StillReadable, SendReport
<1> QED
  BY <1>3, <1>5, <1>6, <1>7 DEF FdsOK

\* A crash moves the job of a child to the dead.
LEMMA CrashKeeps ==
  ASSUME IInv, NEW p \in Pid, Crash(p), UNCHANGED working_job
  PROVE  IInv'
<1> USE DEF IInv
<1>1. PoolTypeOK'
  BY DEF Crash, PoolTypeOK
<1>2. p \in Busy /\ Busy' = Busy \ {p} /\ Zombies' = Zombies \union {p}
  BY DEF Crash, PoolTypeOK, Busy, Zombies
<1>3. InFlightCounted'
  <2>1. Cardinality(Busy') = Cardinality(Busy) - 1
    BY <1>2, CountParts, PidSets
  <2>2. Cardinality(Zombies') <= Cardinality(Zombies) + 1 /\ Cardinality(Zombies') \in Nat
    BY <1>2, CountParts, PidSets
  <2>3. UNCHANGED <<from_main, from_worker_job, killed_child, working_job>>
    BY DEF Crash
  <2> QED
    BY <1>2, <2>1, <2>2, <2>3, CountParts, SMTT(60) DEF InFlightCounted
<1>4. BusyHasJob'
  BY DEF BusyHasJob, Crash, PoolTypeOK
<1>5. FdsOK'
  BY DEF FdsOK, StillReadable, Crash
<1> QED
  BY <1>1, <1>3, <1>4, <1>5 DEF FdsOK

-----------------------------------------------------------------------------
(* The main loop.                                                          *)

\* A turn that ends leaves the rest of the pass.
LEMMA TurnOver ==
  ASSUME PoolTypeOK, InOrder(read_fds), NEW fd, Turn(fd), read_fds' = Tail(read_fds)
  PROVE  /\ read_fds' \in Seq(Fd)
         /\ InOrder(read_fds')
         /\ Has(read_fds, fd)
         /\ \A f : Has(read_fds', f) => Has(read_fds, f) /\ Rank[fd] < Rank[f]
<1>1. read_fds \in Seq(Fd) /\ read_fds # <<>> /\ Head(read_fds) = fd
  BY DEF PoolTypeOK, Fd, Turn
<1> QED
  BY <1>1, TailInOrder

\* Two of the places in the order of the fds.
LEMMA JobRank == Rank["job"] = 2 /\ Rank["pid"] = 3
BY DEF Rank, Fd

\* job_record without a child.
LEMMA EraseType ==
  ASSUME PoolTypeOK, NEW pid, Erase(pid)
  PROVE  /\ DOMAIN job_record' \subseteq Pid
         /\ \A p \in DOMAIN job_record' : job_record'[p] \in ReportPid
BY DEF PoolTypeOK, Erase, Restrict

\* The new child takes the place of no child that is on a job or dead.
LEMMA OneForAnotherKeeps ==
  ASSUME PoolTypeOK, NEW p \in Pid, worker[p] = "zombie", worker' = OneForAnother(p)
  PROVE  /\ worker' \in [Pid -> {"unborn", Idle, "received", "do_job", "zombie", "reaped"}]
         /\ Busy' \in SUBSET Busy
         /\ p \in Zombies /\ Zombies' \in SUBSET (Zombies \ {p})
         /\ \A q \in Pid : worker'[q] \in {"received", "do_job"} => worker'[q] = worker[q]
<1> DEFINE child == CHOOSE q \in Pid : worker[q] = "unborn" /\ worker[q-1] # "unborn"
<1>1. worker' = [worker EXCEPT ![p] = "reaped", ![child] = Idle]
  BY DEF OneForAnother
<1> HIDE DEF child
<1>2. worker \in [Pid -> {"unborn", Idle, "received", "do_job", "zombie", "reaped"}]
  BY DEF PoolTypeOK
<1>3. \A q \in Pid : worker'[q] = IF q = child THEN Idle ELSE IF q = p THEN "reaped" ELSE worker[q]
  BY <1>1, <1>2
<1>4. worker' \in [Pid -> {"unborn", Idle, "received", "do_job", "zombie", "reaped"}]
  BY <1>1, <1>2
<1> QED
  BY <1>3, <1>4 DEF Busy, Zombies, Idle

\* The main loop reads the report of a job: one slot is free.
LEMMA JobReadyKeeps ==
  ASSUME IInv, JobReady, Arrange(working_job - 1)
  PROVE  IInv'
<1> USE DEF IInv
<1>1. /\ read_fds' \in Seq(Fd) /\ InOrder(read_fds') /\ Has(read_fds, "job")
      /\ \A f : Has(read_fds', f) => Has(read_fds, f) /\ Rank["job"] < Rank[f]
  BY TurnOver DEF JobReady
<1>2. from_worker_job \in Seq(ReportJob) /\ from_worker_job # <<>>
  BY <1>1 DEF StillReadable, PoolTypeOK
<1>3. /\ from_worker_job' \in Seq(ReportJob)
      /\ Len(from_worker_job') = Len(from_worker_job) - 1
  BY <1>2, HeadTailProperties DEF JobReady
<1>4. Len(from_worker_job) \in Nat \ {0}
  BY <1>2, EmptySeq
<1>5. working_job - 1 \in 0..WORKER_NUMBER
  BY <1>4, CountParts DEF InFlightCounted, PoolTypeOK
<1>6. /\ working_job' \in 0..WORKER_NUMBER /\ from_main' \in Seq(Job)
      /\ working_job' - (working_job - 1) \in Nat
      /\ Len(from_main') = Len(from_main) + (working_job' - (working_job - 1))
  BY <1>5, ArrangeCounts, SMTT(60)
<1>7. UNCHANGED <<from_worker_pid, worker, assigned, sigchld, killed_child>>
  BY DEF JobReady
<1>8. PoolTypeOK'
  <2>1. /\ DOMAIN job_record' \subseteq Pid
        /\ \A p \in DOMAIN job_record' : job_record'[p] \in ReportPid
    BY EraseType DEF JobReady
  <2> QED
    BY <1>1, <1>3, <1>6, <1>7, <2>1 DEF PoolTypeOK, Fd
<1>9. InFlightCounted'
  <2>1. Busy' = Busy /\ Zombies' = Zombies
    BY <1>7 DEF Busy, Zombies
  <2>2. /\ Cardinality(Busy) \in Nat /\ Cardinality(Zombies) \in Nat
        /\ Cardinality(killed_child) \in Nat /\ Len(from_main) \in Nat
        /\ Len(from_worker_job) \in Nat /\ working_job \in Nat
        /\ Len(from_main) + Cardinality(Busy) + Len(from_worker_job)
             + Cardinality(Zombies) + Cardinality(killed_child) <= working_job
    BY CountedNow
  <2>3. /\ working_job' \in Nat /\ Len(from_main') \in Nat
        /\ Len(from_main') = Len(from_main) + (working_job' - (working_job - 1))
    BY <1>6, CountParts, LenProperties
  <2> HIDE DEF IInv
  <2> DEFINE rest == Cardinality(Busy) + Len(from_worker_job)
                       + Cardinality(Zombies) + Cardinality(killed_child)
             rest1 == Cardinality(Busy) + Len(from_worker_job')
                        + Cardinality(Zombies) + Cardinality(killed_child)
  <2>4. /\ rest \in Nat /\ rest1 \in Nat /\ rest1 <= rest - 1
        /\ Len(from_main) + rest <= working_job
    BY <1>3, <1>4, <2>2, SMTT(60)
  <2> HIDE DEF rest, rest1
  <2>5. Len(from_main') + rest1 <= working_job'
    BY <2>2, <2>3, <2>4, Refilled
  <2> QED
    BY <1>3, <1>4, <1>7, <2>1, <2>2, <2>3, <2>5, SMTT(60) DEF InFlightCounted, rest1
<1>10. BusyHasJob'
  BY <1>7 DEF BusyHasJob
<1>11. StillReadable'
  BY <1>1, <1>7, JobRank DEF StillReadable
<1> QED
  BY <1>1, <1>8, <1>9, <1>10, <1>11

\* It reads the pid report of a child that was found dead: one slot is free.
LEMMA PidOfKilledKeeps ==
  ASSUME IInv, PidOfKilled, Arrange(working_job - 1)
  PROVE  IInv'
<1> USE DEF IInv
<1> DEFINE pid == Head(from_worker_pid).pid
<1>0. /\ Turn("pid") /\ read_fds' = Tail(read_fds)
      /\ pid \in killed_child /\ killed_child' = killed_child \ {pid}
      /\ Erase(pid)
      /\ from_worker_pid' = Tail(from_worker_pid)
      /\ UNCHANGED <<from_worker_job, worker, assigned, sigchld>>
  BY DEF PidOfKilled
<1> HIDE DEF pid
<1>1. /\ read_fds' \in Seq(Fd) /\ InOrder(read_fds') /\ Has(read_fds, "pid")
      /\ \A f : Has(read_fds', f) => Has(read_fds, f) /\ Rank["pid"] < Rank[f]
  BY <1>0, TurnOver
<1>2. from_worker_pid \in Seq(ReportPid) /\ from_worker_pid # <<>>
  BY <1>1 DEF StillReadable, PoolTypeOK
<1>3. from_worker_pid' \in Seq(ReportPid)
  BY <1>0, <1>2, HeadTailProperties
<1>4. /\ Cardinality(killed_child') = Cardinality(killed_child) - 1
      /\ Cardinality(killed_child') \in Nat
  BY <1>0, CountParts, PidSets
<1>5. working_job - 1 \in 0..WORKER_NUMBER
  BY <1>4, CountParts, SMTT(60) DEF InFlightCounted, PoolTypeOK
<1>6. /\ working_job' \in 0..WORKER_NUMBER /\ from_main' \in Seq(Job)
      /\ working_job' - (working_job - 1) \in Nat
      /\ Len(from_main') = Len(from_main) + (working_job' - (working_job - 1))
  BY <1>5, ArrangeCounts, SMTT(60)
<1>7. PoolTypeOK'
  <2>1. /\ DOMAIN job_record' \subseteq Pid
        /\ \A p \in DOMAIN job_record' : job_record'[p] \in ReportPid
    BY <1>0, EraseType
  <2> QED
    BY <1>0, <1>1, <1>3, <1>6, <2>1 DEF PoolTypeOK, Fd
<1>8. InFlightCounted'
  <2>1. Busy' = Busy /\ Zombies' = Zombies /\ from_worker_job' = from_worker_job
    BY <1>0 DEF Busy, Zombies
  <2>2. /\ Cardinality(Busy) \in Nat /\ Cardinality(Zombies) \in Nat
        /\ Cardinality(killed_child) \in Nat /\ Len(from_main) \in Nat
        /\ Len(from_worker_job) \in Nat /\ working_job \in Nat
        /\ Len(from_main) + Cardinality(Busy) + Len(from_worker_job)
             + Cardinality(Zombies) + Cardinality(killed_child) <= working_job
    BY CountedNow
  <2>3. /\ working_job' \in Nat /\ Len(from_main') \in Nat
        /\ Len(from_main') = Len(from_main) + (working_job' - (working_job - 1))
    BY <1>6, CountParts, LenProperties
  <2> HIDE DEF IInv
  <2> DEFINE rest == Cardinality(Busy) + Len(from_worker_job)
                       + Cardinality(Zombies) + Cardinality(killed_child)
             rest1 == Cardinality(Busy) + Len(from_worker_job)
                        + Cardinality(Zombies) + Cardinality(killed_child')
  <2>4. /\ rest \in Nat /\ rest1 \in Nat /\ rest1 <= rest - 1
        /\ Len(from_main) + rest <= working_job
    BY <1>4, <2>2, SMTT(60)
  <2> HIDE DEF rest, rest1
  <2>5. Len(from_main') + rest1 <= working_job'
    BY <2>2, <2>3, <2>4, Refilled
  <2> QED
    BY <1>4, <2>1, <2>2, <2>3, <2>5, SMTT(60) DEF InFlightCounted, rest1
<1>9. BusyHasJob'
  BY <1>0 DEF BusyHasJob
<1>10. StillReadable'
  BY <1>0, <1>1, JobRank DEF StillReadable
<1> QED
  BY <1>1, <1>7, <1>8, <1>9, <1>10

\* waitpid reaps a child whose job is on record: one slot is free.
LEMMA ReapRecordedKeeps ==
  ASSUME IInv, NEW p \in Pid, ReapRecorded(p), Arrange(working_job - 1)
  PROVE  IInv'
<1> USE DEF IInv
<1>1. /\ worker' \in [Pid -> {"unborn", Idle, "received", "do_job", "zombie", "reaped"}]
      /\ Busy' \in SUBSET Busy
      /\ p \in Zombies /\ Zombies' \in SUBSET (Zombies \ {p})
      /\ \A q \in Pid : worker'[q] \in {"received", "do_job"} => worker'[q] = worker[q]
  BY OneForAnotherKeeps DEF ReapRecorded
<1>2. UNCHANGED <<from_worker_pid, from_worker_job, assigned, sigchld, killed_child, read_fds>>
  BY DEF ReapRecorded
<1>3. Cardinality(Busy') \in Nat /\ Cardinality(Busy') <= Cardinality(Busy)
  BY <1>1, CountParts, PidSets
<1>4. /\ Cardinality(Zombies') \in Nat
      /\ Cardinality(Zombies') <= Cardinality(Zombies) - 1
  <2>1. Cardinality(Zombies \ {p}) = Cardinality(Zombies) - 1
    BY <1>1, CountParts, PidSets
  <2>2. Zombies \ {p} \in SUBSET Pid
    BY CountParts
  <2>3. Cardinality(Zombies') \in Nat /\ Cardinality(Zombies') <= Cardinality(Zombies \ {p})
    BY <1>1, <2>2, PidSets
  <2> QED
    BY <2>1, <2>3
<1>5. working_job - 1 \in 0..WORKER_NUMBER
  BY <1>4, CountParts DEF InFlightCounted, PoolTypeOK
<1>6. /\ working_job' \in 0..WORKER_NUMBER /\ from_main' \in Seq(Job)
      /\ working_job' - (working_job - 1) \in Nat
      /\ Len(from_main') = Len(from_main) + (working_job' - (working_job - 1))
  BY <1>5, ArrangeCounts, SMTT(60)
<1>7. PoolTypeOK'
  <2>1. /\ DOMAIN job_record' \subseteq Pid
        /\ \A q \in DOMAIN job_record' : job_record'[q] \in ReportPid
    BY EraseType DEF ReapRecorded
  <2> QED
    BY <1>1, <1>2, <1>6, <2>1 DEF PoolTypeOK
<1>8. InFlightCounted'
  <2>1. from_worker_job' = from_worker_job /\ killed_child' = killed_child
    BY <1>2
  <2>2. /\ Cardinality(Busy) \in Nat /\ Cardinality(Zombies) \in Nat
        /\ Cardinality(killed_child) \in Nat /\ Len(from_main) \in Nat
        /\ Len(from_worker_job) \in Nat /\ working_job \in Nat
        /\ Len(from_main) + Cardinality(Busy) + Len(from_worker_job)
             + Cardinality(Zombies) + Cardinality(killed_child) <= working_job
    BY CountedNow
  <2>3. /\ working_job' \in Nat /\ Len(from_main') \in Nat
        /\ Len(from_main') = Len(from_main) + (working_job' - (working_job - 1))
    BY <1>6, CountParts, LenProperties
  <2> HIDE DEF IInv
  <2> DEFINE rest == Cardinality(Busy) + Len(from_worker_job)
                       + Cardinality(Zombies) + Cardinality(killed_child)
             rest1 == Cardinality(Busy') + Len(from_worker_job)
                        + Cardinality(Zombies') + Cardinality(killed_child)
  <2>4. /\ rest \in Nat /\ rest1 \in Nat /\ rest1 <= rest - 1
        /\ Len(from_main) + rest <= working_job
    BY <1>3, <1>4, <2>2, SMTT(60)
  <2> HIDE DEF rest, rest1
  <2>5. Len(from_main') + rest1 <= working_job'
    BY <2>2, <2>3, <2>4, Refilled
  <2> QED
    BY <1>3, <1>4, <2>1, <2>2, <2>3, <2>5, SMTT(60) DEF InFlightCounted, rest1
<1>9. BusyHasJob'
  BY <1>1, <1>2 DEF BusyHasJob
<1>10. FdsOK'
  BY <1>2 DEF FdsOK, StillReadable
<1> QED
  BY <1>7, <1>8, <1>9, <1>10 DEF FdsOK

\* waitpid reaps a child without a record: its job waits in killed_child.
LEMMA ReapUnrecordedKeeps ==
  ASSUME IInv, NEW p \in Pid, ReapUnrecorded(p), UNCHANGED working_job
  PROVE  IInv'
<1> USE DEF IInv
<1>1. /\ worker' \in [Pid -> {"unborn", Idle, "received", "do_job", "zombie", "reaped"}]
      /\ Busy' \in SUBSET Busy
      /\ p \in Zombies /\ Zombies' \in SUBSET (Zombies \ {p})
      /\ \A q \in Pid : worker'[q] \in {"received", "do_job"} => worker'[q] = worker[q]
  BY OneForAnotherKeeps DEF ReapUnrecorded
<1>2. /\ UNCHANGED <<from_main, from_worker_pid, from_worker_job, assigned, sigchld,
                     job_record, read_fds>>
      /\ killed_child' = killed_child \union {p}
  BY DEF ReapUnrecorded
<1>3. Cardinality(Busy') \in Nat /\ Cardinality(Busy') <= Cardinality(Busy)
  BY <1>1, CountParts, PidSets
<1>4. /\ Cardinality(Zombies') \in Nat
      /\ Cardinality(Zombies') <= Cardinality(Zombies) - 1
  <2>1. Cardinality(Zombies \ {p}) = Cardinality(Zombies) - 1
    BY <1>1, CountParts, PidSets
  <2>2. Zombies \ {p} \in SUBSET Pid
    BY CountParts
  <2>3. Cardinality(Zombies') \in Nat /\ Cardinality(Zombies') <= Cardinality(Zombies \ {p})
    BY <1>1, <2>2, PidSets
  <2> QED
    BY <2>1, <2>3
<1>5. /\ Cardinality(killed_child') \in Nat
      /\ Cardinality(killed_child') <= Cardinality(killed_child) + 1
  BY <1>2, CountParts, PidSets
<1>6. PoolTypeOK'
  BY <1>1, <1>2 DEF PoolTypeOK
<1>7. InFlightCounted'
  <2>1. UNCHANGED <<from_main, from_worker_job, working_job>>
    BY <1>2
  <2>2. /\ Cardinality(Busy) \in Nat /\ Cardinality(Zombies) \in Nat
        /\ Cardinality(killed_child) \in Nat /\ Len(from_main) \in Nat
        /\ Len(from_worker_job) \in Nat /\ working_job \in Nat
        /\ Len(from_main) + Cardinality(Busy) + Len(from_worker_job)
             + Cardinality(Zombies) + Cardinality(killed_child) <= working_job
    BY CountedNow
  <2> HIDE DEF IInv
  <2>3. Len(from_main) + Cardinality(Busy') + Len(from_worker_job)
          + Cardinality(Zombies') + Cardinality(killed_child') <= working_job
    BY <1>3, <1>4, <1>5, <2>2, SMTT(60)
  <2> QED
    BY <2>1, <2>3 DEF InFlightCounted
<1>8. BusyHasJob'
  BY <1>1, <1>2 DEF BusyHasJob
<1>9. FdsOK'
  BY <1>2 DEF FdsOK, StillReadable
<1> QED
  BY <1>6, <1>7, <1>8, <1>9 DEF FdsOK

\* Steps that change neither the queues that are counted, nor the workers.
LEMMA CountUnchanged ==
  ASSUME InFlightCounted,
         UNCHANGED <<working_job, from_main, from_worker_job, worker, killed_child>>
  PROVE  InFlightCounted'
BY DEF InFlightCounted, Busy, Zombies

\* It reads the pid report of a child that is taken to be alive.
LEMMA PidOfAliveKeeps ==
  ASSUME IInv, PidOfAlive, UNCHANGED working_job
  PROVE  IInv'
<1> USE DEF IInv
<1> DEFINE report == Head(from_worker_pid)
<1>0. /\ Turn("pid") /\ read_fds' = Tail(read_fds)
      /\ job_record' = [p \in DOMAIN job_record \union {report.pid} |->
                          IF p = report.pid THEN report ELSE job_record[p]]
      /\ from_worker_pid' = Tail(from_worker_pid)
      /\ UNCHANGED <<from_main, from_worker_job, worker, assigned, sigchld, killed_child>>
  BY DEF PidOfAlive
<1> HIDE DEF report
<1>1. /\ read_fds' \in Seq(Fd) /\ InOrder(read_fds') /\ Has(read_fds, "pid")
      /\ \A f : Has(read_fds', f) => Has(read_fds, f) /\ Rank["pid"] < Rank[f]
  BY <1>0, TurnOver
<1>2. from_worker_pid \in Seq(ReportPid) /\ from_worker_pid # <<>>
  BY <1>1 DEF StillReadable, PoolTypeOK
<1>3. from_worker_pid' \in Seq(ReportPid) /\ report \in ReportPid
  BY <1>0, <1>2, HeadTailProperties DEF report
<1>4. report.pid \in Pid
  BY <1>3 DEF ReportPid
<1>5. /\ DOMAIN job_record' = DOMAIN job_record \union {report.pid}
      /\ \A p \in DOMAIN job_record' :
           job_record'[p] = IF p = report.pid THEN report ELSE job_record[p]
  BY <1>0
<1>6. PoolTypeOK'
  <2>1. /\ DOMAIN job_record' \subseteq Pid
        /\ \A p \in DOMAIN job_record' : job_record'[p] \in ReportPid
    BY <1>3, <1>4, <1>5 DEF PoolTypeOK
  <2> QED
    BY <1>0, <1>1, <1>3, <2>1 DEF PoolTypeOK, Fd
<1>7. InFlightCounted'
  BY <1>0, CountUnchanged
<1>8. BusyHasJob'
  BY <1>0 DEF BusyHasJob
<1>9. StillReadable'
  BY <1>0, <1>1, JobRank DEF StillReadable
<1> QED
  BY <1>1, <1>6, <1>7, <1>8, <1>9

\* It reads the signal.
LEMMA ReadSignalKeeps ==
  ASSUME IInv, ReadSignal, UNCHANGED working_job
  PROVE  IInv'
<1> USE DEF IInv
<1>0. /\ Turn("signal") /\ read_fds' = <<"waitpid">> \o Tail(read_fds)
      /\ sigchld' = FALSE
      /\ UNCHANGED <<from_main, from_worker_pid, from_worker_job, worker,
                     assigned, job_record, killed_child>>
  BY DEF ReadSignal
<1>1. /\ read_fds' \in Seq(Fd) /\ InOrder(read_fds')
      /\ \A fd \in {"job", "pid"} : Has(read_fds', fd) => Has(read_fds, fd)
  <2>1. read_fds \in Seq(Fd) /\ read_fds # <<>> /\ Head(read_fds) = "signal"
    BY <1>0 DEF PoolTypeOK, Fd, Turn
  <2> QED
    BY <1>0, <2>1, WaitpidInOrder
<1>2. PoolTypeOK'
  BY <1>0, <1>1 DEF PoolTypeOK, Fd
<1>3. InFlightCounted'
  BY <1>0, CountUnchanged
<1>4. BusyHasJob'
  BY <1>0 DEF BusyHasJob
<1>5. StillReadable'
  BY <1>0, <1>1 DEF StillReadable
<1> QED
  BY <1>1, <1>2, <1>3, <1>4, <1>5

\* The end of the loop around waitpid, and of the clients' turn.
LEMMA TurnEndsKeeps ==
  ASSUME IInv, NoMoreChildren \/ NoMoreClients, UNCHANGED working_job
  PROVE  IInv'
<1> USE DEF IInv
<1>0. /\ Turn("waitpid") \/ Turn("clients")
      /\ read_fds' = Tail(read_fds)
      /\ UNCHANGED <<from_main, from_worker_pid, from_worker_job, worker,
                     assigned, sigchld, job_record, killed_child>>
  BY DEF NoMoreChildren, NoMoreClients
<1>1. /\ read_fds' \in Seq(Fd) /\ InOrder(read_fds')
      /\ \A f : Has(read_fds', f) => Has(read_fds, f)
  BY <1>0, TurnOver
<1>2. PoolTypeOK'
  BY <1>0, <1>1 DEF PoolTypeOK, Fd
<1>3. InFlightCounted'
  BY <1>0, CountUnchanged
<1>4. BusyHasJob'
  BY <1>0 DEF BusyHasJob
<1>5. StillReadable'
  BY <1>0, <1>1 DEF StillReadable
<1> QED
  BY <1>1, <1>2, <1>3, <1>4, <1>5

\* select finds what is ready.
LEMMA SelectKeeps ==
  ASSUME IInv, Select, UNCHANGED working_job
  PROVE  IInv'
<1> USE DEF IInv
<1>0. UNCHANGED <<from_main, from_worker_pid, from_worker_job, worker,
                  assigned, sigchld, job_record, killed_child>>
  BY DEF Select
<1>1. PICK clients \in BOOLEAN : read_fds' = ReadyFds(clients)
  BY DEF Select
<1>2. /\ read_fds' \in Seq(Fd) /\ InOrder(read_fds')
      /\ Has(read_fds', "job") => from_worker_job # <<>>
      /\ Has(read_fds', "pid") => from_worker_pid # <<>>
  BY <1>1, ReadyFdsInOrder
<1>3. PoolTypeOK'
  BY <1>0, <1>2 DEF PoolTypeOK, Fd
<1>4. InFlightCounted'
  BY <1>0, CountUnchanged
<1>5. BusyHasJob'
  BY <1>0 DEF BusyHasJob
<1>6. StillReadable'
  BY <1>0, <1>2 DEF StillReadable
<1> QED
  BY <1>2, <1>3, <1>4, <1>5, <1>6

\* A client's command makes room for no job and may send new ones.
LEMMA ClientReadyKeeps ==
  ASSUME IInv, ClientReady, Arrange(working_job)
  PROVE  IInv'
<1> USE DEF IInv
<1>1. UNCHANGED <<from_worker_pid, from_worker_job, worker, assigned, sigchld,
                  job_record, killed_child, read_fds>>
  BY DEF ClientReady
<1>2. working_job \in 0..WORKER_NUMBER /\ working_job \in Nat
  BY CountParts DEF PoolTypeOK
<1>3. /\ working_job' \in 0..WORKER_NUMBER /\ from_main' \in Seq(Job)
      /\ working_job' - working_job \in Nat
      /\ Len(from_main') = Len(from_main) + (working_job' - working_job)
  BY <1>2, ArrangeCounts
<1>4. PoolTypeOK'
  BY <1>1, <1>3 DEF PoolTypeOK
<1>5. InFlightCounted'
  <2>1. Busy' = Busy /\ Zombies' = Zombies
    BY <1>1 DEF Busy, Zombies
  <2>2. from_worker_job' = from_worker_job /\ killed_child' = killed_child
    BY <1>1
  <2>3. /\ Cardinality(Busy) \in Nat /\ Cardinality(Zombies) \in Nat
        /\ Cardinality(killed_child) \in Nat /\ Len(from_main) \in Nat
        /\ Len(from_worker_job) \in Nat /\ working_job \in Nat
        /\ Len(from_main) + Cardinality(Busy) + Len(from_worker_job)
             + Cardinality(Zombies) + Cardinality(killed_child) <= working_job
    BY CountedNow
  <2>4. working_job' \in Nat
    BY <1>3, CountParts
  <2> HIDE DEF IInv
  <2> DEFINE rest == Cardinality(Busy) + Len(from_worker_job)
                       + Cardinality(Zombies) + Cardinality(killed_child)
  <2>5. rest \in Nat /\ Len(from_main) + rest <= working_job
    BY <2>3
  <2> HIDE DEF rest
  <2>6. Len(from_main') + rest <= working_job'
    <3>1. Len(from_main') \in Nat
      BY <1>3, LenProperties
    <3> QED
      BY <1>3, <2>3, <2>4, <2>5, <3>1, Started
  <2> QED
    BY <2>1, <2>2, <2>3, <2>6, SMTT(60) DEF InFlightCounted, rest
<1>6. BusyHasJob'
  BY <1>1 DEF BusyHasJob
<1>7. FdsOK'
  BY <1>1 DEF FdsOK, StillReadable
<1> QED
  BY <1>4, <1>5, <1>6, <1>7 DEF FdsOK

\* A pass that comes to the queue of the results finds one there.
LEMMA JobTurn ==
  ASSUME IInv, JobReady
  PROVE  from_worker_job # <<>>
<1>1. /\ read_fds \in Seq(Fd) /\ read_fds # <<>> /\ InOrder(read_fds)
      /\ Head(read_fds) = "job"
  <2>1. read_fds \in Seq(Fd) /\ InOrder(read_fds)
    BY DEF IInv, PoolTypeOK, Fd
  <2> QED
    BY <2>1 DEF JobReady, Turn
<1>2. Has(read_fds, "job")
  BY <1>1, TailInOrder
<1> QED
  BY <1>2 DEF IInv, StillReadable

\* And one that comes to the queue of the pids finds one there too.
LEMMA PidTurn ==
  ASSUME IInv, Turn("pid")
  PROVE  from_worker_pid # <<>>
<1>1. /\ read_fds \in Seq(Fd) /\ read_fds # <<>> /\ InOrder(read_fds)
      /\ Head(read_fds) = "pid"
  <2>1. read_fds \in Seq(Fd) /\ InOrder(read_fds)
    BY DEF IInv, PoolTypeOK, Fd
  <2> QED
    BY <2>1 DEF Turn
<1>2. Has(read_fds, "pid")
  BY <1>1, TailInOrder
<1> QED
  BY <1>2 DEF IInv, StillReadable

\* Whoever reports a job has its slot.
LEMMA ReportsHaveSlots ==
  ASSUME IInv, Reports
  PROVE  working_job \in 1..WORKER_NUMBER
<1> USE DEF IInv
<1>1. \/ Len(from_worker_job) # 0
      \/ Cardinality(killed_child) # 0
      \/ Cardinality(Zombies) # 0
  <2>1. CASE JobReady
    <3>1. from_worker_job # <<>>
      BY <2>1, JobTurn
    <3> QED
      BY <3>1, EmptySeq DEF PoolTypeOK
  <2>2. CASE PidOfKilled
    <3>1. killed_child # {} /\ IsFiniteSet(killed_child)
      BY <2>2, CountParts, PidSets DEF PidOfKilled
    <3> QED
      BY <3>1, FS_EmptySet
  <2>3. ASSUME NEW p \in Pid, ReapRecorded(p)
        PROVE  Cardinality(Zombies) # 0
    <3>1. Zombies # {} /\ IsFiniteSet(Zombies)
      BY <2>3, CountParts, PidSets DEF ReapRecorded, Zombies
    <3> QED
      BY <3>1, FS_EmptySet
  <2> QED
    BY <2>1, <2>2, <2>3 DEF Reports
<1>2. /\ Cardinality(Busy) \in Nat /\ Cardinality(Zombies) \in Nat
      /\ Cardinality(killed_child) \in Nat /\ Len(from_main) \in Nat
      /\ Len(from_worker_job) \in Nat /\ working_job \in Nat
      /\ Len(from_main) + Cardinality(Busy) + Len(from_worker_job)
           + Cardinality(Zombies) + Cardinality(killed_child) <= working_job
  BY CountedNow
<1>3. working_job # 0
  BY <1>1, <1>2, SMTT(60)
<1> QED
  BY <1>2, <1>3 DEF PoolTypeOK

-----------------------------------------------------------------------------
(* The invariant and what follows from it.                                 *)

\* The invariant holds at the start, ...
LEMMA InitEstablishes == Init => IInv
<1> SUFFICES ASSUME Init PROVE IInv
  OBVIOUS
<1> USE DEF Init, PoolInit
<1>1. WORKER_NUMBER \in Nat
  BY PoolAssumption
<1>2. PoolTypeOK
  <2>1. working_job \in 0..WORKER_NUMBER
    BY <1>1
  <2>2. /\ from_main \in Seq(Job) /\ from_worker_pid \in Seq(ReportPid)
        /\ from_worker_job \in Seq(ReportJob)
        /\ read_fds \in Seq({"signal", "waitpid", "job", "pid", "clients"})
    OBVIOUS
  <2>3. /\ worker \in [Pid -> {"unborn", Idle, "received", "do_job", "zombie", "reaped"}]
        /\ assigned \in [Pid -> Job \union {NoJob}]
    BY DEF Idle
  <2>4. DOMAIN job_record = {}
    OBVIOUS
  <2> QED
    BY <2>1, <2>2, <2>3, <2>4 DEF PoolTypeOK
<1>3. InFlightCounted
  <2>1. Busy = {} /\ Zombies = {} /\ killed_child = {}
    BY DEF Busy, Zombies, Idle
  <2>2. Len(from_main) = 0 /\ Len(from_worker_job) = 0
    OBVIOUS
  <2> QED
    BY <2>1, <2>2, FS_EmptySet DEF InFlightCounted
<1>4. BusyHasJob
  BY DEF BusyHasJob, Idle
<1>5. InOrder(read_fds) /\ StillReadable
  BY DEF InOrder, StillReadable, Has
<1> QED
  BY <1>2, <1>3, <1>4, <1>5 DEF IInv

\* ... and every step preserves it.
LEMMA NextPreserves == IInv /\ [Next]_allVars => IInv'
<1> SUFFICES ASSUME IInv, [Next]_allVars PROVE IInv'
  OBVIOUS
<1>1. CASE MainNext
  <2>1. CASE Reports /\ Arrange(working_job - 1)
    BY <2>1, JobReadyKeeps, PidOfKilledKeeps, ReapRecordedKeeps DEF Reports
  <2>2. CASE Bookkeeping /\ UNCHANGED working_job
    BY <2>2, SelectKeeps, PidOfAliveKeeps, ReadSignalKeeps, TurnEndsKeeps,
       ReapUnrecordedKeeps DEF Bookkeeping
  <2> QED
    BY <1>1, <2>1, <2>2 DEF MainNext
<1>2. CASE ClientReady /\ Arrange(working_job)
  BY <1>2, ClientReadyKeeps
<1>3. ASSUME NEW p \in Pid, WorkerNext(p) \/ Crash(p), UNCHANGED working_job
      PROVE  IInv'
  BY <1>3, ReceiveJobKeeps, SendPidKeeps, SendReportKeeps, CrashKeeps DEF WorkerNext
<1>4. CASE UNCHANGED allVars
  BY <1>4 DEF allVars, poolVars, IInv, PoolTypeOK, InFlightCounted, Busy, Zombies,
              BusyHasJob, InOrder, StillReadable, Has
<1> QED
  BY <1>1, <1>2, <1>3, <1>4 DEF Next

\* The variables of the pool keep their types: among others, working_job stays
\* between 0 and WORKER_NUMBER, so the unsigned counter never wraps and
\* arrange_job never takes a slot that is not there.
THEOREM PoolTypeCorrect == Spec => []PoolTypeOK
<1>1. IInv => PoolTypeOK
  BY DEF IInv
<1> QED
  BY <1>1, InitEstablishes, NextPreserves, PTL DEF Spec

\* Every slot is counted once, whatever crashes and in whatever order its
\* SIGCHLD, its pid report and the reports of others are read.
THEOREM SlotsAreCounted == Spec => []InFlightCounted
<1>1. IInv => InFlightCounted
  BY DEF IInv
<1> QED
  BY <1>1, InitEstablishes, NextPreserves, PTL DEF Spec

\* Neither queue of jobs or of results fills up: mq_send blocks neither the
\* main process nor a worker that reports its result.
THEOREM QueuesNeverFull ==
  Spec => [](Len(from_main) <= MQ_MAXMSG /\ Len(from_worker_job) <= MQ_MAXMSG)
<1>1. IInv => Len(from_main) <= MQ_MAXMSG /\ Len(from_worker_job) <= MQ_MAXMSG
  <2> SUFFICES ASSUME IInv
               PROVE  Len(from_main) <= MQ_MAXMSG /\ Len(from_worker_job) <= MQ_MAXMSG
    OBVIOUS
  <2>1. /\ Cardinality(Busy) \in Nat /\ Cardinality(Zombies) \in Nat
        /\ Cardinality(killed_child) \in Nat /\ Len(from_main) \in Nat
        /\ Len(from_worker_job) \in Nat /\ working_job \in Nat
        /\ Len(from_main) + Cardinality(Busy) + Len(from_worker_job)
             + Cardinality(Zombies) + Cardinality(killed_child) <= working_job
    BY CountedNow DEF IInv
  <2>2. working_job <= WORKER_NUMBER /\ WORKER_NUMBER \in Nat
        /\ MQ_MAXMSG \in Nat /\ WORKER_NUMBER <= MQ_MAXMSG
    BY PoolAssumption DEF IInv, PoolTypeOK
  <2>3. Len(from_main) <= working_job /\ Len(from_worker_job) <= working_job
    BY <2>1, SMTT(60)
  <2> QED
    BY <2>1, <2>2, <2>3
<1> QED
  BY <1>1, InitEstablishes, NextPreserves, PTL DEF Spec

-----------------------------------------------------------------------------
(***************************************************************************)
(* The pool keeps its size, and the queue of pid reports, of which a pass  *)
(* of the main loop reads one, does not grow without end.                  *)
(***************************************************************************)

Unborn == {p \in Pid : worker[p] = "unborn"}
Alive == {p \in Pid : worker[p] \in {Idle, "received", "do_job", "zombie"}}
Doing == {p \in Pid : worker[p] = "do_job"}

\* The children are forked in the order of their pids.
BornFirst == \E n \in 1..Cardinality(Pid) : Unborn = {p \in Pid : p > n}

\* There is a pid for whoever replaces a dead child.
PidsLeft == Cardinality(Zombies) <= Cardinality(Unborn)

SizeInv == PoolKeepsItsSize /\ BornFirst /\ PidsLeft

\* By how much the pid reports may be ahead: a pass that has read its job
\* report is about to read a pid report, and one that saw no pid report has
\* seen a job report.
Due == IF Has(read_fds, "pid") THEN IF Has(read_fds, "job") THEN 0 ELSE 1
                               ELSE IF Has(read_fds, "job") THEN -1 ELSE 0

\* A pid report that is unread is of a child that is on its job, or is dead, or
\* has reported the job; and of job reports no more are read than pid reports.
PidLag == Len(from_worker_pid)
            <= Len(from_worker_job) + Cardinality(Doing) + Cardinality(Dead) + Due

-----------------------------------------------------------------------------
(* What a step does to the children.                                       *)

Statuses == {"unborn", Idle, "received", "do_job", "zombie", "reaped"}

\* The sets of children that make up the pool are finite.
LEMMA ChildSets ==
  ASSUME PoolTypeOK
  PROVE  /\ {Unborn, Alive, Zombies, Doing, Dead, Busy} \subseteq SUBSET Pid
         /\ Doing \subseteq Busy
         /\ Cardinality(Unborn) \in Nat /\ Cardinality(Alive) \in Nat
         /\ Cardinality(Zombies) \in Nat /\ Cardinality(Doing) \in Nat
         /\ Cardinality(Dead) \in Nat /\ Cardinality(Busy) \in Nat
<1>1. {Unborn, Alive, Zombies, Doing, Dead, Busy} \subseteq SUBSET Pid
  BY DEF Unborn, Alive, Zombies, Doing, Dead, Busy
<1>2. Doing \subseteq Busy
  BY DEF Doing, Busy
<1> QED
  BY <1>1, <1>2, PidSets

\* A child goes on to its next status, or crashes.
LEMMA ChildMoves ==
  ASSUME PoolTypeOK, NEW p \in Pid, worker[p] \in {Idle, "received", "do_job"},
         NEW s \in {Idle, "received", "do_job", "zombie"},
         worker' = [worker EXCEPT ![p] = s]
  PROVE  /\ Unborn' = Unborn /\ Alive' = Alive
         /\ Zombies' = IF s = "zombie" THEN Zombies \union {p} ELSE Zombies
         /\ Dead' = IF s = "zombie" THEN Dead \union {p} ELSE Dead
         /\ Doing' = IF s = "do_job" THEN Doing \union {p} ELSE Doing \ {p}
<1>1. /\ worker \in [Pid -> Statuses]
      /\ \A q \in Pid : worker'[q] = IF q = p THEN s ELSE worker[q]
  BY DEF PoolTypeOK, Statuses
<1>2. Unborn' = Unborn /\ Alive' = Alive
  BY <1>1 DEF Unborn, Alive, Idle
<1>3. Zombies' = IF s = "zombie" THEN Zombies \union {p} ELSE Zombies
  BY <1>1 DEF Zombies, Idle
<1>4. Dead' = IF s = "zombie" THEN Dead \union {p} ELSE Dead
  BY <1>1 DEF Dead, Idle
<1>5. Doing' = IF s = "do_job" THEN Doing \union {p} ELSE Doing \ {p}
  BY <1>1 DEF Doing, Idle
<1> QED
  BY <1>2, <1>3, <1>4, <1>5

\* The new child is the first that was not born, and there is one.
LEMMA NextPid ==
  ASSUME PoolTypeOK, BornFirst, PidsLeft, NEW p \in Pid, worker[p] = "zombie"
  PROVE  \E n \in 1..Cardinality(Pid) :
           /\ Unborn = {q \in Pid : q > n}
           /\ n + 1 \in Unborn
           /\ n + 1 = CHOOSE q \in Pid : worker[q] = "unborn" /\ worker[q-1] # "unborn"
<1>1. PICK n \in 1..Cardinality(Pid) : Unborn = {q \in Pid : q > n}
  BY DEF BornFirst
<1>2. Cardinality(Pid) \in Nat /\ Pid = 1..Cardinality(Pid) /\ n \in Nat
  BY PoolAssumption, FS_CardinalityType
<1>3. Cardinality(Zombies) # 0
  <2>1. p \in Zombies
    BY DEF Zombies
  <2>2. IsFiniteSet(Zombies)
    BY ChildSets, PidSets
  <2> QED
    BY <2>1, <2>2, FS_EmptySet
<1>4. Unborn # {}
  BY <1>3, ChildSets, FS_EmptySet DEF PidsLeft
<1>5. n + 1 \in Unborn /\ n \in Pid /\ n \notin Unborn
  BY <1>1, <1>2, <1>4
<1>6. worker[n+1] = "unborn" /\ worker[(n+1)-1] # "unborn" /\ n + 1 \in Pid
  BY <1>2, <1>5 DEF Unborn
<1>7. ASSUME NEW q \in Pid, worker[q] = "unborn", worker[q-1] # "unborn"
      PROVE  q = n + 1
  <2>1. q \in Unborn
    BY <1>7 DEF Unborn
  <2>2. q - 1 \notin Unborn
    BY <1>7 DEF Unborn
  <2> QED
    BY <1>1, <1>2, <2>1, <2>2
<1> DEFINE c == n + 1
           New(q) == worker[q] = "unborn" /\ worker[q-1] # "unborn"
<1>8. c = CHOOSE q \in Pid : New(q)
  <2>1. c \in Pid /\ New(c) /\ \A q \in Pid : New(q) => q = c
    BY <1>6, <1>7
  <2> HIDE DEF c, New
  <2> QED
    BY <2>1
<1> QED
  BY <1>1, <1>5, <1>8

\* A dead child is reaped and another one forked.
LEMMA ChildReplaced ==
  ASSUME PoolTypeOK, SizeInv, NEW p \in Pid, worker[p] = "zombie",
         worker' = OneForAnother(p)
  PROVE  SizeInv' /\ Doing' = Doing /\ Dead' = Dead
<1>1. PICK n \in 1..Cardinality(Pid) :
        /\ Unborn = {q \in Pid : q > n}
        /\ n + 1 \in Unborn
        /\ n + 1 = CHOOSE q \in Pid : worker[q] = "unborn" /\ worker[q-1] # "unborn"
  BY NextPid DEF SizeInv
<1> DEFINE c == n + 1
<1>2. worker' = [worker EXCEPT ![p] = "reaped", ![c] = Idle]
  BY <1>1 DEF OneForAnother
<1>3. c \in Pid /\ worker[c] = "unborn"
  BY <1>1 DEF Unborn
<1>4. Cardinality(Pid) \in Nat /\ Pid = 1..Cardinality(Pid) /\ n \in Nat
  BY PoolAssumption, FS_CardinalityType
<1>5. Unborn \ {c} = {q \in Pid : q > c} /\ c \in 1..Cardinality(Pid)
  BY <1>1, <1>3, <1>4
<1> HIDE DEF c
<1>6. /\ worker \in [Pid -> Statuses] /\ p # c
      /\ \A q \in Pid : worker'[q] = IF q = c THEN Idle
                                     ELSE IF q = p THEN "reaped" ELSE worker[q]
  BY <1>2, <1>3 DEF PoolTypeOK, Statuses
<1>7. Unborn' = Unborn \ {c}
  BY <1>6 DEF Unborn, Idle
<1>8. Alive' = (Alive \ {p}) \union {c} /\ p \in Alive /\ c \notin Alive
  BY <1>3, <1>6 DEF Alive, Idle
<1>9. Zombies' = Zombies \ {p} /\ p \in Zombies
  BY <1>3, <1>6 DEF Zombies, Idle
<1>10. Doing' = Doing /\ Dead' = Dead
  BY <1>3, <1>6 DEF Doing, Dead, Idle
<1>11. BornFirst'
  BY <1>5, <1>7 DEF BornFirst
<1>12. PidsLeft'
  <2>1. Cardinality(Zombies \ {p}) = Cardinality(Zombies) - 1
    BY <1>9, ChildSets, PidSets
  <2>2. Cardinality(Unborn \ {c}) = Cardinality(Unborn) - 1
    <3>1. c \in Unborn
      BY <1>1 DEF c
    <3> QED
      BY <3>1, ChildSets, PidSets
  <2>3. Cardinality(Zombies) <= Cardinality(Unborn)
    BY DEF SizeInv, PidsLeft
  <2> QED
    BY <1>7, <1>9, <2>1, <2>2, <2>3, ChildSets DEF PidsLeft
<1>13. PoolKeepsItsSize'
  <2>1. Cardinality(Alive \ {p}) = Cardinality(Alive) - 1
    BY <1>8, ChildSets, PidSets
  <2>2. IsFiniteSet(Alive \ {p})
    BY ChildSets, PidSets, FS_Subset
  <2>3. Cardinality((Alive \ {p}) \union {c}) = Cardinality(Alive \ {p}) + 1
    BY <1>8, <2>2, FS_AddElement
  <2>4. Cardinality(Alive) = WORKER_NUMBER
    BY DEF SizeInv, PoolKeepsItsSize, Alive
  <2>5. Cardinality(Alive') = WORKER_NUMBER
    BY <1>8, <2>1, <2>3, <2>4, ChildSets
  <2> QED
    BY <2>5 DEF PoolKeepsItsSize, Alive
<1> QED
  BY <1>10, <1>11, <1>12, <1>13 DEF SizeInv

-----------------------------------------------------------------------------
(* The size of the pool.                                                   *)

\* Nobody is born, and nobody dies unless there is a pid left.
LEMMA SizeUnchanged ==
  ASSUME SizeInv, Unborn' = Unborn, Alive' = Alive,
         Zombies' = Zombies \/ PidsLeft'
  PROVE  SizeInv'
BY DEF SizeInv, PoolKeepsItsSize, Alive, BornFirst, PidsLeft

\* Every step keeps the size of the pool.
LEMMA SizePreserved ==
  ASSUME IInv, SizeInv, [Next]_allVars
  PROVE  SizeInv'
<1> USE DEF IInv
<1>1. CASE UNCHANGED worker
  BY <1>1 DEF SizeInv, PoolKeepsItsSize, BornFirst, PidsLeft, Unborn, Zombies
<1>2. ASSUME NEW p \in Pid, worker[p] = "zombie", worker' = OneForAnother(p)
      PROVE  SizeInv'
  BY <1>2, ChildReplaced
<1>3. ASSUME NEW p \in Pid, worker[p] \in {Idle, "received", "do_job"},
             NEW s \in {Idle, "received", "do_job"}, worker' = [worker EXCEPT ![p] = s]
      PROVE  SizeInv'
  <2>1. Unborn' = Unborn /\ Alive' = Alive /\ Zombies' = Zombies
    BY <1>3, ChildMoves DEF Idle
  <2> QED
    BY <2>1, SizeUnchanged DEF SizeInv
<1>4. ASSUME NEW p \in Pid, Crash(p)
      PROVE  SizeInv'
  <2>1. Unborn' = Unborn /\ Alive' = Alive /\ Zombies' = Zombies \union {p}
    BY <1>4, ChildMoves DEF Crash
  <2>2. Cardinality(Unborn) > Cardinality(Zombies)
    BY <1>4 DEF Crash, Unborn, Zombies
  <2>3. Cardinality(Zombies') <= Cardinality(Zombies) + 1 /\ Cardinality(Zombies') \in Nat
    BY <2>1, ChildSets, PidSets
  <2>4. PidsLeft'
    BY <2>1, <2>2, <2>3, ChildSets DEF PidsLeft
  <2> QED
    BY <2>1, <2>4, SizeUnchanged DEF SizeInv
<1>5. CASE MainNext
  <2>1. CASE JobReady \/ PidOfKilled \/ Select \/ PidOfAlive \/ ReadSignal
             \/ NoMoreChildren \/ NoMoreClients
    BY <1>1, <2>1 DEF JobReady, PidOfKilled, Select, PidOfAlive, ReadSignal,
                      NoMoreChildren, NoMoreClients
  <2>2. ASSUME NEW p \in Pid, ReapRecorded(p) \/ ReapUnrecorded(p)
        PROVE  SizeInv'
    BY <1>2, <2>2 DEF ReapRecorded, ReapUnrecorded
  <2> QED
    BY <1>5, <2>1, <2>2 DEF MainNext, Reports, Bookkeeping
<1>6. ASSUME NEW p \in Pid, WorkerNext(p)
      PROVE  SizeInv'
  <2>1. CASE ReceiveJob(p)
    BY <1>3, <2>1 DEF ReceiveJob
  <2>2. CASE SendPid(p)
    BY <1>3, <2>2 DEF SendPid
  <2>3. ASSUME NEW result \in BOOLEAN, SendReport(p, result)
        PROVE  SizeInv'
    BY <1>3, <2>3 DEF SendReport
  <2> QED
    BY <1>6, <2>1, <2>2, <2>3 DEF WorkerNext
<1>7. CASE ClientReady \/ UNCHANGED allVars
  BY <1>1, <1>7 DEF ClientReady, allVars, poolVars
<1> QED
  BY <1>4, <1>5, <1>6, <1>7 DEF Next

\* It is right at the start.
LEMMA SizeInit == Init => SizeInv
<1> SUFFICES ASSUME Init PROVE SizeInv
  OBVIOUS
<1>1. /\ Cardinality(Pid) \in Nat /\ Pid = 1..Cardinality(Pid)
      /\ WORKER_NUMBER \in Nat \ {0} /\ WORKER_NUMBER <= Cardinality(Pid)
  BY PoolAssumption, FS_CardinalityType
<1>2. \A p \in Pid : worker[p] = IF p <= WORKER_NUMBER THEN Idle ELSE "unborn"
  BY DEF Init, PoolInit
<1>3. Alive = 1..WORKER_NUMBER
  BY <1>1, <1>2 DEF Alive, Idle
<1>4. Cardinality(1..WORKER_NUMBER) = WORKER_NUMBER
  BY <1>1, FS_Interval
<1>5. PoolKeepsItsSize
  BY <1>3, <1>4 DEF PoolKeepsItsSize, Alive
<1>6. BornFirst
  <2>1. Unborn = {p \in Pid : p > WORKER_NUMBER}
    BY <1>1, <1>2 DEF Unborn, Idle
  <2> QED
    BY <1>1, <2>1 DEF BornFirst
<1>7. PidsLeft
  <2>1. Zombies = {}
    BY <1>2 DEF Zombies, Idle
  <2>2. Unborn \in SUBSET Pid
    BY DEF Unborn
  <2> QED
    BY <2>1, <2>2, PidSets, FS_EmptySet DEF PidsLeft
<1> QED
  BY <1>5, <1>6, <1>7 DEF SizeInv

-----------------------------------------------------------------------------
(* The pid reports that are not read yet.                                  *)

\* The counts that PidLag compares are numbers.
LEMMA LagParts ==
  ASSUME PoolTypeOK
  PROVE  /\ Len(from_worker_pid) \in Nat /\ Len(from_worker_job) \in Nat
         /\ Cardinality(Doing) \in Nat /\ Cardinality(Dead) \in Nat
         /\ Due \in {-1, 0, 1}
<1>1. Len(from_worker_pid) \in Nat /\ Len(from_worker_job) \in Nat
  BY LenProperties DEF PoolTypeOK
<1> QED
  BY <1>1, ChildSets DEF Due

\* Neither a pid report nor the end of a job is read.
LEMMA LagUnchanged ==
  ASSUME PidLag, UNCHANGED <<from_worker_pid, from_worker_job>>,
         Doing' = Doing, Dead' = Dead, Due' = Due
  PROVE  PidLag'
BY DEF PidLag

\* What a worker does: a pid report comes with a job, a job ends with its
\* report or the death of the child.
LEMMA WorkerLag ==
  ASSUME IInv, PidLag, NEW p \in Pid, WorkerNext(p) \/ Crash(p)
  PROVE  PidLag'
<1> USE DEF IInv
<1>0. Due' = Due
  BY DEF WorkerNext, ReceiveJob, SendPid, SendReport, Crash, Due, Has
<1>1. CASE ReceiveJob(p)
  <2>1. Dead' = Dead /\ Doing' = Doing \ {p} /\ worker[p] = Idle
    BY <1>1, ChildMoves DEF ReceiveJob
  <2>2. Doing' = Doing
    BY <2>1 DEF Doing, Idle
  <2> QED
    BY <1>0, <1>1, <2>1, <2>2, LagUnchanged DEF ReceiveJob
<1>2. CASE SendPid(p)
  <2>1. Dead' = Dead /\ Doing' = Doing \union {p} /\ p \notin Doing
    <3>1. worker[p] = "received" /\ worker' = [worker EXCEPT ![p] = "do_job"]
      BY <1>2 DEF SendPid
    <3> QED
      BY <3>1, ChildMoves DEF Doing
  <2>2. Cardinality(Doing') = Cardinality(Doing) + 1
    <3>1. IsFiniteSet(Doing)
      BY ChildSets, PidSets
    <3> QED
      BY <2>1, <3>1, FS_AddElement
  <2>3. Len(from_worker_pid') = Len(from_worker_pid) + 1
    <3> DEFINE report == [pid |-> p, ids |-> Ids(assigned[p])]
    <3>1. from_worker_pid' = Append(from_worker_pid, report)
      BY <1>2 DEF SendPid
    <3>2. report \in ReportPid
      BY <1>2 DEF BusyHasJob, SendPid, ReportPid
    <3> HIDE DEF report
    <3> QED
      BY <3>1, <3>2, AppendProperties DEF PoolTypeOK
  <2>4. from_worker_job' = from_worker_job
    BY <1>2 DEF SendPid
  <2> QED
    BY <1>0, <2>1, <2>2, <2>3, <2>4, LagParts DEF PidLag
<1>3. ASSUME NEW result \in BOOLEAN, SendReport(p, result)
      PROVE  PidLag'
  <2>1. Dead' = Dead /\ Doing' = Doing \ {p} /\ p \in Doing
    <3>1. worker[p] = "do_job" /\ worker' = [worker EXCEPT ![p] = Idle]
      BY <1>3 DEF SendReport
    <3> QED
      BY <3>1, ChildMoves DEF Doing, Idle
  <2>2. Cardinality(Doing') = Cardinality(Doing) - 1
    BY <2>1, ChildSets, PidSets
  <2>3. Len(from_worker_job') = Len(from_worker_job) + 1
    <3> DEFINE report == [pid |-> p, ids |-> Ids(assigned[p]), result |-> result]
    <3>1. from_worker_job' = Append(from_worker_job, report)
      BY <1>3 DEF SendReport
    <3>2. report \in ReportJob
      BY <1>3 DEF BusyHasJob, SendReport, ReportJob
    <3> HIDE DEF report
    <3> QED
      BY <3>1, <3>2, AppendProperties DEF PoolTypeOK
  <2>4. from_worker_pid' = from_worker_pid
    BY <1>3 DEF SendReport
  <2> QED
    BY <1>0, <2>1, <2>2, <2>3, <2>4, LagParts DEF PidLag
<1>4. CASE Crash(p)
  <2>1. Dead' = Dead \union {p} /\ Doing' = Doing \ {p} /\ p \in Doing /\ p \notin Dead
    <3>1. worker[p] = "do_job" /\ worker' = [worker EXCEPT ![p] = "zombie"]
      BY <1>4 DEF Crash
    <3> QED
      BY <3>1, ChildMoves DEF Doing, Dead
  <2>2. Cardinality(Doing') = Cardinality(Doing) - 1
    BY <2>1, ChildSets, PidSets
  <2>3. Cardinality(Dead') = Cardinality(Dead) + 1
    <3>1. IsFiniteSet(Dead)
      BY ChildSets, PidSets
    <3> QED
      BY <2>1, <3>1, FS_AddElement
  <2>4. UNCHANGED <<from_worker_pid, from_worker_job>>
    BY <1>4 DEF Crash
  <2> QED
    BY <1>0, <2>2, <2>3, <2>4, LagParts DEF PidLag
<1> QED
  BY <1>1, <1>2, <1>3, <1>4 DEF WorkerNext

\* The end of a turn takes no other fd out of the pass.
LEMMA TurnLeaves ==
  ASSUME PoolTypeOK, NEW fd, Turn(fd), read_fds' = Tail(read_fds), NEW f, f # fd
  PROVE  Has(read_fds', f) <=> Has(read_fds, f)
<1>1. read_fds \in Seq(Fd) /\ read_fds # <<>> /\ Head(read_fds) = fd
  BY DEF PoolTypeOK, Fd, Turn
<1>2. /\ Len(read_fds) \in Nat \ {0} /\ read_fds[1] = fd
      /\ Len(read_fds') = Len(read_fds) - 1
      /\ \A i \in 1..Len(read_fds') : read_fds'[i] = read_fds[i+1]
  BY <1>1, HeadTailProperties, EmptySeq
<1>3. ASSUME Has(read_fds, f) PROVE Has(read_fds', f)
  <2>1. PICK i \in 1..Len(read_fds) : read_fds[i] = f
    BY <1>3 DEF Has
  <2>2. i # 1
    BY <1>2, <2>1
  <2>3. i - 1 \in 1..Len(read_fds') /\ (i - 1) + 1 = i
    BY <1>2, <2>1, <2>2
  <2>4. read_fds'[i-1] = f
    BY <1>2, <2>1, <2>3
  <2> QED
    BY <2>3, <2>4 DEF Has
<1>4. ASSUME Has(read_fds', f) PROVE Has(read_fds, f)
  <2>1. PICK i \in 1..Len(read_fds') : read_fds'[i] = f
    BY <1>4 DEF Has
  <2>2. i + 1 \in 1..Len(read_fds) /\ read_fds[i+1] = f
    BY <1>2, <2>1
  <2> QED
    BY <2>2 DEF Has
<1> QED
  BY <1>3, <1>4

\* Neither does the loop around waitpid that takes the place of the signal fd.
LEMMA WaitpidLeaves ==
  ASSUME PoolTypeOK, NEW fd, Turn(fd), read_fds' = <<"waitpid">> \o Tail(read_fds),
         NEW f, f \notin {fd, "waitpid"}
  PROVE  Has(read_fds', f) <=> Has(read_fds, f)
<1> DEFINE one == <<"waitpid">>
<1>1. read_fds \in Seq(Fd) /\ read_fds # <<>> /\ Head(read_fds) = fd
  BY DEF PoolTypeOK, Fd, Turn
<1>2. one \in Seq(Fd) /\ Len(one) = 1 /\ one[1] = "waitpid"
  BY DEF Fd
<1>3. read_fds' = one \o Tail(read_fds)
  OBVIOUS
<1> HIDE DEF one
<1>4. /\ Len(read_fds) \in Nat \ {0} /\ read_fds[1] = fd
      /\ Tail(read_fds) \in Seq(Fd) /\ Len(Tail(read_fds)) = Len(read_fds) - 1
      /\ \A i \in 1..Len(Tail(read_fds)) : Tail(read_fds)[i] = read_fds[i+1]
  BY <1>1, HeadTailProperties, EmptySeq
<1>5. /\ Len(read_fds') = Len(one) + Len(Tail(read_fds))
      /\ \A i \in 1..(Len(one) + Len(Tail(read_fds))) :
           read_fds'[i] = IF i <= Len(one) THEN one[i] ELSE Tail(read_fds)[i - Len(one)]
  BY <1>2, <1>3, <1>4, ConcatProperties
<1>6. /\ Len(read_fds') = Len(read_fds) /\ read_fds'[1] = "waitpid"
      /\ \A i \in 1..Len(read_fds) : i # 1 => read_fds'[i] = read_fds[i]
  BY <1>2, <1>4, <1>5
<1> QED
  BY <1>4, <1>6 DEF Has

\* One job report is read: a pid report is due, or was seen not to be there.
LEMMA JobReadyLag ==
  ASSUME IInv, PidLag, JobReady
  PROVE  PidLag'
<1> USE DEF IInv
<1>1. /\ Has(read_fds, "job")
      /\ \A f : Has(read_fds', f) => Has(read_fds, f) /\ Rank["job"] < Rank[f]
  BY TurnOver DEF JobReady
<1>2. ~Has(read_fds', "job")
  BY <1>1, JobRank
<1>3. Has(read_fds', "pid") <=> Has(read_fds, "pid")
  BY <1>1, TurnLeaves DEF JobReady
<1>4. Due' = Due + 1
  BY <1>1, <1>2, <1>3 DEF Due
<1>5. Len(from_worker_job') = Len(from_worker_job) - 1
  <2>1. from_worker_job \in Seq(ReportJob) /\ from_worker_job # <<>>
    BY <1>1 DEF StillReadable, PoolTypeOK
  <2> QED
    BY <2>1, HeadTailProperties DEF JobReady
<1>6. UNCHANGED <<from_worker_pid, worker>>
  BY DEF JobReady
<1>7. Doing' = Doing /\ Dead' = Dead
  BY <1>6 DEF Doing, Dead
<1> QED
  BY <1>4, <1>5, <1>6, <1>7, LagParts DEF PidLag

\* The pid report that was due is read.
LEMMA PidReadyLag ==
  ASSUME IInv, PidLag, PidOfKilled \/ PidOfAlive
  PROVE  PidLag'
<1> USE DEF IInv
<1>0. /\ Turn("pid") /\ read_fds' = Tail(read_fds)
      /\ from_worker_pid' = Tail(from_worker_pid)
      /\ UNCHANGED <<from_worker_job, worker>>
  BY DEF PidOfKilled, PidOfAlive
<1>1. /\ Has(read_fds, "pid")
      /\ \A f : Has(read_fds', f) => Has(read_fds, f) /\ Rank["pid"] < Rank[f]
  BY <1>0, TurnOver
<1>2. ~Has(read_fds', "pid") /\ ~Has(read_fds', "job")
  BY <1>1, JobRank
<1>3. ~Has(read_fds, "job")
  BY <1>0, <1>2, TurnLeaves
<1>4. Due' = 0 /\ Due = 1
  BY <1>1, <1>2, <1>3 DEF Due
<1>5. Len(from_worker_pid') = Len(from_worker_pid) - 1
  <2>1. from_worker_pid \in Seq(ReportPid) /\ from_worker_pid # <<>>
    BY <1>1 DEF StillReadable, PoolTypeOK
  <2> QED
    BY <1>0, <2>1, HeadTailProperties
<1>6. Doing' = Doing /\ Dead' = Dead
  BY <1>0 DEF Doing, Dead
<1> QED
  BY <1>0, <1>4, <1>5, <1>6, LagParts DEF PidLag

\* A new pass: nothing is due, unless there are job reports and no pid report.
LEMMA SelectLag ==
  ASSUME IInv, PidLag, Select
  PROVE  PidLag'
<1> USE DEF IInv
<1>1. /\ read_fds = <<>>
      /\ UNCHANGED <<from_worker_pid, from_worker_job, worker>>
  BY DEF Select
<1>2. PICK clients \in BOOLEAN : read_fds' = ReadyFds(clients)
  BY DEF Select
<1>3. /\ Has(read_fds', "job") => from_worker_job # <<>>
      /\ Has(read_fds', "pid") <=> from_worker_pid # <<>>
  BY <1>2, ReadyFdsInOrder
<1>4. Doing' = Doing /\ Dead' = Dead
  BY <1>1 DEF Doing, Dead
<1>5. Due = 0
  BY <1>1 DEF Due, Has
<1>6. CASE Due' \in {0, 1}
  BY <1>1, <1>4, <1>5, <1>6, LagParts DEF PidLag
<1>7. CASE Due' = -1
  <2>1. Has(read_fds', "job") /\ ~Has(read_fds', "pid")
    BY <1>7 DEF Due
  <2>2. from_worker_pid = <<>> /\ from_worker_job # <<>>
    BY <1>3, <2>1
  <2>3. Len(from_worker_pid) = 0 /\ Len(from_worker_job) # 0
    BY <2>2, EmptySeq DEF PoolTypeOK
  <2> QED
    BY <1>1, <1>4, <1>7, <2>3, LagParts DEF PidLag
<1> QED
  BY <1>6, <1>7 DEF Due

\* The other turns, which read neither queue.
LEMMA OtherTurnsLag ==
  ASSUME IInv, PidLag, ReadSignal \/ NoMoreChildren \/ NoMoreClients
  PROVE  PidLag'
<1> USE DEF IInv
<1>1. /\ Turn("signal") \/ Turn("waitpid") \/ Turn("clients")
      /\ read_fds' \in {Tail(read_fds), <<"waitpid">> \o Tail(read_fds)}
      /\ UNCHANGED <<from_worker_pid, from_worker_job, worker>>
  BY DEF ReadSignal, NoMoreChildren, NoMoreClients
<1>2. ASSUME NEW f \in {"job", "pid"}
      PROVE  Has(read_fds', f) <=> Has(read_fds, f)
  BY <1>1, <1>2, TurnLeaves, WaitpidLeaves
<1>3. Due' = Due
  BY <1>2 DEF Due
<1>4. Doing' = Doing /\ Dead' = Dead
  BY <1>1 DEF Doing, Dead
<1> QED
  BY <1>1, <1>3, <1>4, LagUnchanged

\* Every step keeps the lag of the pid reports within its bound.
LEMMA LagPreserved ==
  ASSUME IInv, SizeInv, PidLag, [Next]_allVars
  PROVE  PidLag'
<1> USE DEF IInv
<1>1. ASSUME NEW p \in Pid, ReapRecorded(p) \/ ReapUnrecorded(p)
      PROVE  PidLag'
  <2>1. /\ worker[p] = "zombie" /\ worker' = OneForAnother(p)
        /\ UNCHANGED <<from_worker_pid, from_worker_job, read_fds>>
    BY <1>1 DEF ReapRecorded, ReapUnrecorded
  <2>2. Doing' = Doing /\ Dead' = Dead
    BY <2>1, ChildReplaced
  <2>3. Due' = Due
    BY <2>1 DEF Due, Has
  <2> QED
    BY <2>1, <2>2, <2>3, LagUnchanged
<1>2. CASE MainNext
  BY <1>1, <1>2, JobReadyLag, PidReadyLag, SelectLag, OtherTurnsLag
     DEF MainNext, Reports, Bookkeeping
<1>3. CASE ClientReady \/ UNCHANGED allVars
  <2>1. UNCHANGED <<from_worker_pid, from_worker_job, worker, read_fds>>
    BY <1>3 DEF ClientReady, allVars, poolVars
  <2>2. Doing' = Doing /\ Dead' = Dead /\ Due' = Due
    BY <2>1 DEF Doing, Dead, Due, Has
  <2> QED
    BY <2>1, <2>2, LagUnchanged
<1> QED
  BY <1>2, <1>3, WorkerLag DEF Next

\* There is none at the start.
LEMMA LagInit == Init => PidLag
<1> SUFFICES ASSUME Init PROVE PidLag
  OBVIOUS
<1>1. Doing = {} /\ Dead = {}
  BY DEF Init, PoolInit, Doing, Dead, Idle
<1>2. Due = 0
  BY DEF Init, PoolInit, Due, Has
<1>3. Len(from_worker_pid) = 0 /\ Len(from_worker_job) = 0
  BY DEF Init, PoolInit
<1> QED
  BY <1>1, <1>2, <1>3, FS_EmptySet DEF PidLag

-----------------------------------------------------------------------------
(* The dead.                                                               *)

\* A dead child stays dead, for no pid is used again; and only a dead child
\* is put into killed_child.
LEMMA DeadStayDead ==
  ASSUME IInv, SizeInv, [Next]_allVars
  PROVE  Dead \subseteq Dead' /\ killed_child' \subseteq killed_child \union Dead
<1> USE DEF IInv
<1>1. ASSUME NEW p \in Pid, worker[p] = "zombie", worker' = OneForAnother(p)
      PROVE  Dead' = Dead
  BY <1>1, ChildReplaced
<1>2. ASSUME NEW p \in Pid, worker[p] \in {Idle, "received", "do_job"}, NEW s,
             worker' = [worker EXCEPT ![p] = s]
      PROVE  Dead \subseteq Dead'
  BY <1>2 DEF PoolTypeOK, Dead, Idle
<1>3. CASE MainNext
  <2>1. CASE JobReady \/ PidOfKilled \/ Select \/ PidOfAlive \/ ReadSignal
             \/ NoMoreChildren \/ NoMoreClients
    BY <2>1 DEF JobReady, PidOfKilled, Select, PidOfAlive, ReadSignal,
                NoMoreChildren, NoMoreClients, Dead
  <2>2. ASSUME NEW p \in Pid, ReapRecorded(p) \/ ReapUnrecorded(p)
        PROVE  Dead \subseteq Dead' /\ killed_child' \subseteq killed_child \union Dead
    <3>1. p \in Dead
      BY <2>2 DEF ReapRecorded, ReapUnrecorded, Dead
    <3> QED
      BY <1>1, <2>2, <3>1 DEF ReapRecorded, ReapUnrecorded
  <2> QED
    BY <1>3, <2>1, <2>2 DEF MainNext, Reports, Bookkeeping
<1>4. ASSUME NEW p \in Pid, WorkerNext(p) \/ Crash(p)
      PROVE  Dead \subseteq Dead' /\ killed_child' = killed_child
  BY <1>2, <1>4 DEF WorkerNext, ReceiveJob, SendPid, SendReport, Crash
<1>5. CASE ClientReady \/ UNCHANGED allVars
  BY <1>5 DEF ClientReady, allVars, poolVars, Dead
<1> QED
  BY <1>3, <1>4, <1>5 DEF Next

-----------------------------------------------------------------------------
(* The theorems.                                                           *)

SizeIInv == IInv /\ SizeInv /\ PidLag

\* All three hold at the start, ...
LEMMA SizeIInvInit == Init => SizeIInv
  BY InitEstablishes, SizeInit, LagInit DEF SizeIInv

\* ... and every step preserves them.
LEMMA SizeIInvPreserved == SizeIInv /\ [Next]_allVars => SizeIInv'
  BY NextPreserves, SizePreserved, LagPreserved DEF SizeIInv

\* As many children live or wait to be reaped as there were at the start,
\* however many die and however few SIGCHLDs that makes: the main process
\* forks one for each that it reaps.
THEOREM PoolSizeKept == Spec => []PoolKeepsItsSize
<1>1. SizeIInv => PoolKeepsItsSize
  BY DEF SizeIInv, SizeInv
<1> QED
  BY <1>1, SizeIInvInit, SizeIInvPreserved, PTL DEF Spec

\* Although a pass of the main loop reads one pid report only, a worker that has
\* received a job finds room for its report in the queue, until as many children
\* have died as there is room for beyond one report of each worker and one.
THEOREM PidReportsAlwaysFit == Spec => []PidReportsFit
<1>1. SizeIInv => PidReportsFit
  <2> SUFFICES ASSUME SizeIInv, Cardinality(Dead) <= MQ_MAXMSG - WORKER_NUMBER - 1,
                      NEW p \in Pid, worker[p] = "received"
               PROVE  Len(from_worker_pid) < MQ_MAXMSG
    BY DEF PidReportsFit
  <2> USE DEF SizeIInv, IInv
  <2>1. /\ Len(from_worker_pid) \in Nat /\ Len(from_worker_job) \in Nat
        /\ Cardinality(Doing) \in Nat /\ Cardinality(Dead) \in Nat
        /\ Due \in {-1, 0, 1}
    BY LagParts
  <2>2. /\ Cardinality(Busy) \in Nat /\ Cardinality(Zombies) \in Nat
        /\ Cardinality(killed_child) \in Nat /\ Len(from_main) \in Nat
        /\ Len(from_worker_job) \in Nat /\ working_job \in Nat
        /\ Len(from_main) + Cardinality(Busy) + Len(from_worker_job)
             + Cardinality(Zombies) + Cardinality(killed_child) <= working_job
    BY CountedNow
  <2>3. working_job <= WORKER_NUMBER /\ WORKER_NUMBER \in Nat /\ MQ_MAXMSG \in Nat
    BY PoolAssumption DEF PoolTypeOK
  <2>4. Cardinality(Doing) < Cardinality(Busy)
    <3>1. Busy \subseteq Pid /\ p \in Busy /\ Doing \subseteq Busy \ {p}
      BY DEF Doing, Busy
    <3>2. Cardinality(Busy \ {p}) = Cardinality(Busy) - 1
      BY <3>1, PidSets
    <3>3. Cardinality(Doing) <= Cardinality(Busy \ {p})
      BY <3>1, PidSets
    <3> QED
      BY <2>1, <2>2, <3>2, <3>3
  <2>5. Len(from_worker_job) + Cardinality(Doing) <= WORKER_NUMBER - 1
    BY <2>1, <2>2, <2>3, <2>4, SMTT(60)
  <2>6. Len(from_worker_pid) <= WORKER_NUMBER + Cardinality(Dead)
    BY <2>1, <2>3, <2>5 DEF PidLag
  <2> QED
    BY <2>1, <2>3, <2>6
<1> QED
  BY <1>1, SizeIInvInit, SizeIInvPreserved, PTL DEF Spec
=============================================================================
