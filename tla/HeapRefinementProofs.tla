------------------------ MODULE HeapRefinementProofs ------------------------
(***************************************************************************)
(* The proof that module HeapMatching implements Matching, for lists of    *)
(* any length.                                                             *)
(***************************************************************************)
EXTENDS HeapMatchingProofs

-----------------------------------------------------------------------------
(* AbsProofs is Matching with its theorems: the module that Abstract of    *)
(* HeapMatching instantiates as well.  The prover takes the two for        *)
(* different definitions, so that they say the same is stated here.        *)

AbsProofs == INSTANCE MatchingSafeProofs WITH
  candidate_queue <- CandidateQueue, trying_queue <- TryingQueue

\* The constants are those that Matching can be proved about.
LEMMA AbsAssumed == AbsProofs!ConstantsAssumption
BY LimitsAssumption DEF Abstract!ConstantsAssumption, AbsProofs!ConstantsAssumption

\* The searches and the helpers on sequences.
LEMMA SameSearches ==
  /\ \A t, id : AbsProofs!TryingAt(t, id) = Abstract!TryingAt(t, id)
  /\ \A c, id : AbsProofs!CandidateAt(c, id) = Abstract!CandidateAt(c, id)
  /\ \A t, node : AbsProofs!TryingWith(t, node) = Abstract!TryingWith(t, node)
  /\ \A s, i : AbsProofs!RemoveAt(s, i) = Abstract!RemoveAt(s, i)
  /\ \A s : AbsProofs!Range(s) = Abstract!Range(s)
<1>1. \A S : AbsProofs!Min(S) = Abstract!Min(S)
  BY DEF AbsProofs!Min, Abstract!Min
<1> QED
  BY <1>1 DEF AbsProofs!TryingAt, Abstract!TryingAt, AbsProofs!CandidateAt, Abstract!CandidateAt,
         AbsProofs!TryingWith, Abstract!TryingWith,
         AbsProofs!SelectInSeq, Abstract!SelectInSeq,
         AbsProofs!RemoveAt, Abstract!RemoveAt, AbsProofs!Range, Abstract!Range

\* arrange_job.
LEMMA SameArrange ==
  ASSUME NEW c, NEW t, NEW w, NEW js, AbsProofs!ArrangeJob(c, t, w, js)
  PROVE  Abstract!ArrangeJob(c, t, w, js)
<1>1. AbsProofs!StartOrder(t, w) = Abstract!StartOrder(t, w)
  BY DEF AbsProofs!StartOrder, Abstract!StartOrder, AbsProofs!Eligible, Abstract!Eligible,
         AbsProofs!FreeWorkers, Abstract!FreeWorkers,
         AbsProofs!Cardinality, Abstract!Cardinality
<1> QED
  BY <1>1 DEF AbsProofs!ArrangeJob, Abstract!ArrangeJob, AbsProofs!JobOf, Abstract!JobOf,
              AbsProofs!Range, Abstract!Range

\* The end of a candidate.
LEMMA SameDrop ==
  ASSUME NEW c, NEW t, NEW p, NEW first
  PROVE  AbsProofs!DropCandidate(c, t, p, first) = Abstract!DropCandidate(c, t, p, first)
<1>1. \A u, node : AbsProofs!RunFrom(u, first, node) = Abstract!RunFrom(u, first, node)
  BY DEF AbsProofs!RunFrom, Abstract!RunFrom
<1> QED
  BY <1>1, SameSearches DEF AbsProofs!DropCandidate, Abstract!DropCandidate

\* A newcomer.
LEMMA SameTryMatch ==
  ASSUME NEW id, AbsProofs!TryMatch(id)
  PROVE  Abstract!TryMatch(id)
BY SameArrange DEF AbsProofs!TryMatch, Abstract!TryMatch, AbsProofs!Add, Abstract!Add,
                   AbsProofs!Newcomer, Abstract!Newcomer

\* Somebody that leaves.
LEMMA SameLeave ==
  ASSUME NEW id, NEW new, AbsProofs!Leave(id, new)
  PROVE  Abstract!Leave(id, new)
<1>1. AbsProofs!Detach(id) => Abstract!Detach(id)
  <2> SUFFICES ASSUME AbsProofs!Detach(id) PROVE Abstract!Detach(id)
    OBVIOUS
  <2> USE SameSearches, SameDrop, SameArrange
  <2> DEFINE i == Abstract!TryingAt(TryingQueue, id)
             p == Abstract!CandidateAt(CandidateQueue, id)
             first == Abstract!TryingWith(TryingQueue, CandidateQueue[p])
             d == Abstract!DropCandidate(CandidateQueue, TryingQueue, p,
                         IF first = 0 THEN Len(TryingQueue) + 1 ELSE first)
  <2>1. /\ quit_set' = quit_set \union {id}
        /\ \/ /\ i # 0
              /\ Abstract!ArrangeJob(CandidateQueue, Abstract!RemoveAt(TryingQueue, i),
                                     working_job, jobs)
           \/ /\ i = 0 /\ p # 0
              /\ Abstract!ArrangeJob(d.candidates, d.trying, working_job, jobs)
           \/ /\ i = 0 /\ p = 0
              /\ UNCHANGED <<AbsProofs!queueVars, process>>
    BY DEF AbsProofs!Detach
  <2> QED
    BY <2>1 DEF Abstract!Detach, AbsProofs!queueVars, Abstract!queueVars
<1> QED
  BY <1>1 DEF AbsProofs!Leave, Abstract!Leave, AbsProofs!queueVars, Abstract!queueVars

\* What the clients do.
LEMMA SameClientStep ==
  ASSUME NEW id, AbsProofs!ClientStep(id)
  PROVE  Abstract!ClientStep(id)
BY SameTryMatch, SameLeave
   DEF AbsProofs!ClientStep, Abstract!ClientStep, AbsProofs!MayTry, Abstract!MayTry,
       AbsProofs!MayLeave, Abstract!MayLeave, AbsProofs!Quit, Abstract!Quit,
       AbsProofs!Disconnect, Abstract!Disconnect, AbsProofs!queueVars, Abstract!queueVars

\* A report.
LEMMA SameReport ==
  ASSUME NEW report, NEW js, AbsProofs!HandleReport(report, js)
  PROVE  Abstract!HandleReport(report, js)
<1> USE SameSearches, SameDrop, SameArrange
        DEF AbsProofs!OneJobLess, Abstract!OneJobLess,
            AbsProofs!ReadsDeadNode, Abstract!ReadsDeadNode
<1>1. \A id : AbsProofs!HandleMatch(id, js) => Abstract!HandleMatch(id, js)
  BY DEF AbsProofs!HandleMatch, Abstract!HandleMatch, AbsProofs!Talk, Abstract!Talk,
         AbsProofs!clientVars, Abstract!clientVars
<1>2. \A id : AbsProofs!MoveOn(id, js) => Abstract!MoveOn(id, js)
  BY DEF AbsProofs!MoveOn, Abstract!MoveOn, AbsProofs!LastCandidate, Abstract!LastCandidate,
         AbsProofs!SentOn, Abstract!SentOn
<1> QED
  BY <1>1, <1>2 DEF AbsProofs!HandleReport, Abstract!HandleReport,
                    AbsProofs!clientVars, Abstract!clientVars

\* The start and every step.
LEMMA SameSpec ==
  /\ AbsProofs!Init => Abstract!Init
  /\ [AbsProofs!Next]_(AbsProofs!vars) => [Abstract!Next]_(Abstract!vars)
<1>1. AbsProofs!Init => Abstract!Init
  BY DEF AbsProofs!Init, Abstract!Init
<1>2. AbsProofs!WorkerStep => Abstract!WorkerStep
  BY SameReport, SameSearches DEF AbsProofs!WorkerStep, Abstract!WorkerStep,
       AbsProofs!Report, Abstract!Report, AbsProofs!DoJob, Abstract!DoJob
<1>3. AbsProofs!Next => Abstract!Next
  BY <1>2, SameClientStep DEF AbsProofs!Next, Abstract!Next
<1>4. AbsProofs!vars = Abstract!vars /\ AbsProofs!vars' = Abstract!vars'
  BY DEF AbsProofs!vars, Abstract!vars, AbsProofs!queueVars, Abstract!queueVars,
         AbsProofs!clientVars, Abstract!clientVars
<1> QED
  BY <1>1, <1>3, <1>4

-----------------------------------------------------------------------------
(* Functions on 1..n as sequences.                                         *)

\* A function on 1..n is a sequence of length n.
LEMMA FunctionIsSeq ==
  ASSUME NEW T, NEW n \in Nat, NEW f \in [1..n -> T]
  PROVE  f \in Seq(T) /\ Len(f) = n /\ DOMAIN f = 1..n
<1>1. f \in Seq(T)
  BY SeqDef
<1> QED
  BY <1>1, LenProperties

\* ... with one more element,
LEMMA AppendIs ==
  ASSUME NEW T, NEW n \in Nat, NEW f \in [1..n -> T], NEW x \in T,
         NEW g \in [1..(n + 1) -> T], \A i \in 1..n : g[i] = f[i], g[n + 1] = x
  PROVE  g = Append(f, x)
<1>1. f \in Seq(T) /\ Len(f) = n
  BY FunctionIsSeq
<1>2. /\ Append(f, x) \in Seq(T) /\ Len(Append(f, x)) = n + 1
      /\ \A i \in 1..n : Append(f, x)[i] = f[i]
      /\ Append(f, x)[n + 1] = x
  BY <1>1, AppendProperties
<1>3. Append(f, x) \in [1..(n + 1) -> T]
  BY <1>2, LenProperties
<1>4. \A i \in 1..(n + 1) : g[i] = Append(f, x)[i]
  <2> SUFFICES ASSUME NEW i \in 1..(n + 1) PROVE g[i] = Append(f, x)[i]
    OBVIOUS
  <2>1. i \in 1..n \/ i = n + 1
    OBVIOUS
  <2> QED
    BY <1>2, <2>1
<1> QED
  BY <1>3, <1>4

\* g is f without its i-th element.
Shifted(f, g, n, i) == \A m \in 1..(n - 1) : g[m] = IF m < i THEN f[m] ELSE f[m + 1]

\* ... and with one element less.
LEMMA RemoveIs ==
  ASSUME NEW T, NEW n \in Nat, NEW f \in [1..n -> T], NEW i \in 1..n,
         NEW g \in [1..(n - 1) -> T], Shifted(f, g, n, i)
  PROVE  g = AbsProofs!RemoveAt(f, i)
<1>1. f \in Seq(T) /\ Len(f) = n
  BY FunctionIsSeq
<1> DEFINE h == AbsProofs!RemoveAt(f, i)
<1>2. /\ h \in Seq(T) /\ Len(h) = n - 1
      /\ \A m \in 1..(n - 1) : h[m] = IF m < i THEN f[m] ELSE f[m + 1]
  BY <1>1, AbsAssumed, AbsProofs!RemoveAtElements
<1> HIDE DEF h
<1>3. h \in [1..(n - 1) -> T]
  BY <1>2, LenProperties
<1>4. \A m \in 1..(n - 1) : g[m] = h[m]
  BY <1>2 DEF Shifted
<1>5. g = h
  BY <1>3, <1>4
<1> QED
  BY <1>5 DEF h

-----------------------------------------------------------------------------
(* The lists as Matching has them: s and r are the addresses of the nodes  *)
(* of the lists c and t, k the counters of the clients.                    *)

Req(k, id) == [id |-> id, counter |-> k[id]]

Seen(c, k, u) ==
  [info |-> Req(k, u.id), matchingWith |-> Req(k, c.node[u.matchingWith].value),
   progress |-> u.progress]

CandOf(c, s, k) == [i \in 1..Len(s) |-> Req(k, c.node[s[i]].value)]

TryOf(c, t, r, k) == [j \in 1..Len(r) |-> Seen(c, k, t.node[r[j]].value)]

\* What is seen of a user.
LEMMA SeenIs ==
  ASSUME NEW c, NEW k, NEW u
  PROVE  /\ Seen(c, k, u).info = Req(k, u.id)
         /\ Seen(c, k, u).matchingWith = Req(k, c.node[u.matchingWith].value)
         /\ Seen(c, k, u).progress = u.progress
BY DEF Seen

\* What is seen of a user that was sent on.
LEMMA SeenSent ==
  ASSUME NEW c, NEW k, NEW u, NEW to
  PROVE  Seen(c, k, Pointing(u, to)) =
           [Seen(c, k, u) EXCEPT !.matchingWith = Req(k, c.node[to].value)]
<1>1. /\ Pointing(u, to).id = u.id /\ Pointing(u, to).matchingWith = to
      /\ Pointing(u, to).progress = u.progress
  BY DEF Pointing
<1> QED
  BY <1>1 DEF Seen

\* Every pointer is to a node that was not freed.
Live(c, t) == \A a \in DOMAIN t.node : t.node[a].value.matchingWith \in DOMAIN c.node

View(c, t, S, s, r) == Lists(c, t, S) /\ Chain(c, s) /\ Chain(t, r) /\ Live(c, t)

Counters == [Id -> Nat]

\* What the nodes are.
LEMMA ViewChains ==
  ASSUME NEW c, NEW t, NEW S, NEW s, NEW r, View(c, t, S, s, r)
  PROVE  /\ Len(s) \in Nat /\ Len(r) \in Nat
         /\ \A i \in 1..Len(s) : s[i] \in Addr /\ s[i] \in DOMAIN c.node
         /\ \A j \in 1..Len(r) : r[j] \in Addr /\ r[j] \in DOMAIN t.node
         /\ \A a \in DOMAIN c.node : \E i \in 1..Len(s) : a = s[i]
         /\ \A a \in DOMAIN t.node : \E j \in 1..Len(r) : a = r[j]
         /\ \A i, m \in 1..Len(s) : s[i] = s[m] => i = m
         /\ \A i, m \in 1..Len(r) : r[i] = r[m] => i = m
         /\ \A a \in DOMAIN c.node : c.node[a].value \in Id
         /\ \A a \in DOMAIN t.node : /\ t.node[a].value \in TryingUser
                                     /\ t.node[a].value.matchingWith \in DOMAIN c.node
         /\ \A a, b \in DOMAIN c.node : c.node[a].value = c.node[b].value => a = b
         /\ \A a, b \in DOMAIN t.node : t.node[a].value.id = t.node[b].value.id => a = b
<1>1. \A i \in 1..Len(s) : s[i] \in Addr /\ s[i] \in DOMAIN c.node
  BY DEF View, Chain
<1>2. \A j \in 1..Len(r) : r[j] \in Addr /\ r[j] \in DOMAIN t.node
  BY DEF View, Chain
<1>3. /\ \A a \in DOMAIN c.node : \E i \in 1..Len(s) : a = s[i]
      /\ \A a \in DOMAIN t.node : \E j \in 1..Len(r) : a = r[j]
      /\ \A i, m \in 1..Len(s) : s[i] = s[m] => i = m
      /\ \A i, m \in 1..Len(r) : r[i] = r[m] => i = m
      /\ Len(s) \in Nat /\ Len(r) \in Nat
  BY DEF View, Chain
<1>4. /\ \A a \in DOMAIN c.node : c.node[a] \in NodeOf(Id)
      /\ \A a \in DOMAIN t.node : t.node[a] \in NodeOf(TryingUser)
  BY DEF View, Lists, ListOf
<1>5. /\ \A a \in DOMAIN c.node : c.node[a].value \in Id
      /\ \A a \in DOMAIN t.node : t.node[a].value \in TryingUser
  BY <1>4 DEF NodeOf
<1> QED
  BY <1>1, <1>2, <1>3, <1>5 DEF View, Lists, Apart, Live

\* The sequences they stand for.
LEMMA ViewSeqs ==
  ASSUME NEW c, NEW t, NEW S, NEW s, NEW r, View(c, t, S, s, r), NEW k \in Counters
  PROVE  /\ CandOf(c, s, k) \in [1..Len(s) -> AbsProofs!Info]
         /\ CandOf(c, s, k) \in Seq(AbsProofs!Info)
         /\ Len(CandOf(c, s, k)) = Len(s) /\ DOMAIN CandOf(c, s, k) = 1..Len(s)
         /\ \A i \in 1..Len(s) : CandOf(c, s, k)[i] = Req(k, c.node[s[i]].value)
         /\ TryOf(c, t, r, k) \in [1..Len(r) -> AbsProofs!TryingUser]
         /\ TryOf(c, t, r, k) \in Seq(AbsProofs!TryingUser)
         /\ Len(TryOf(c, t, r, k)) = Len(r) /\ DOMAIN TryOf(c, t, r, k) = 1..Len(r)
         /\ \A j \in 1..Len(r) : TryOf(c, t, r, k)[j] = Seen(c, k, t.node[r[j]].value)
<1> DEFINE cq == CandOf(c, s, k)
           tq == TryOf(c, t, r, k)
<1>1. \A id \in Id : Req(k, id) \in AbsProofs!Info
  BY DEF Req, Counters, AbsProofs!Info
<1>2. \A u \in TryingUser :
        u.matchingWith \in DOMAIN c.node => Seen(c, k, u) \in AbsProofs!TryingUser
  <2> SUFFICES ASSUME NEW u \in TryingUser, u.matchingWith \in DOMAIN c.node
               PROVE  Seen(c, k, u) \in AbsProofs!TryingUser
    OBVIOUS
  <2>1. u.id \in Id /\ u.progress \in {"WAITING", "PROCESSING"}
    BY DEF TryingUser
  <2>2. c.node[u.matchingWith].value \in Id
    BY ViewChains
  <2>3. Req(k, u.id) \in AbsProofs!Info /\ Req(k, c.node[u.matchingWith].value) \in AbsProofs!Info
    BY <1>1, <2>1, <2>2
  <2> HIDE DEF Req
  <2> QED
    BY <2>1, <2>3 DEF Seen, AbsProofs!TryingUser
<1>3. /\ cq \in [1..Len(s) -> AbsProofs!Info]
      /\ \A i \in 1..Len(s) : cq[i] = Req(k, c.node[s[i]].value)
  BY <1>1, ViewChains DEF CandOf
<1>4. /\ tq \in [1..Len(r) -> AbsProofs!TryingUser]
      /\ \A j \in 1..Len(r) : tq[j] = Seen(c, k, t.node[r[j]].value)
  BY <1>2, ViewChains DEF TryOf
<1>5. Len(s) \in Nat /\ Len(r) \in Nat
  BY ViewChains
<1> HIDE DEF cq, tq
<1>6. /\ cq \in Seq(AbsProofs!Info) /\ Len(cq) = Len(s) /\ DOMAIN cq = 1..Len(s)
      /\ tq \in Seq(AbsProofs!TryingUser) /\ Len(tq) = Len(r) /\ DOMAIN tq = 1..Len(r)
  BY <1>3, <1>4, <1>5, FunctionIsSeq
<1> QED
  BY <1>3, <1>4, <1>6 DEF cq, tq

\* Pointers to different nodes are pointers to different requests.
LEMMA ViewPointers ==
  ASSUME NEW c, NEW t, NEW S, NEW s, NEW r, View(c, t, S, s, r), NEW k \in Counters
  PROVE  /\ \A a, b \in DOMAIN c.node :
              Req(k, c.node[a].value) = Req(k, c.node[b].value) => a = b
         /\ \A i, j \in 1..Len(r) :
              TryOf(c, t, r, k)[i].matchingWith = TryOf(c, t, r, k)[j].matchingWith
                <=> t.node[r[i]].value.matchingWith = t.node[r[j]].value.matchingWith
         /\ \A j \in 1..Len(r), p \in 1..Len(s) :
              TryOf(c, t, r, k)[j].matchingWith = CandOf(c, s, k)[p]
                <=> t.node[r[j]].value.matchingWith = s[p]
<1>1. ASSUME NEW a \in DOMAIN c.node, NEW b \in DOMAIN c.node,
             Req(k, c.node[a].value) = Req(k, c.node[b].value)
      PROVE  a = b
  <2>1. c.node[a].value = c.node[b].value
    BY <1>1 DEF Req
  <2> QED
    BY <2>1, ViewChains
<1>2. ASSUME NEW j \in 1..Len(r)
      PROVE  /\ TryOf(c, t, r, k)[j].matchingWith
                  = Req(k, c.node[t.node[r[j]].value.matchingWith].value)
             /\ t.node[r[j]].value.matchingWith \in DOMAIN c.node
  <2>1. TryOf(c, t, r, k)[j] = Seen(c, k, t.node[r[j]].value)
    BY ViewSeqs
  <2>2. r[j] \in DOMAIN t.node
    BY ViewChains
  <2>3. t.node[r[j]].value.matchingWith \in DOMAIN c.node
    BY <2>2, ViewChains
  <2> QED
    BY <2>1, <2>3 DEF Seen
<1>3. \A p \in 1..Len(s) :
        CandOf(c, s, k)[p] = Req(k, c.node[s[p]].value) /\ s[p] \in DOMAIN c.node
  BY ViewChains, ViewSeqs
<1>4. ASSUME NEW i \in 1..Len(r), NEW j \in 1..Len(r)
      PROVE  TryOf(c, t, r, k)[i].matchingWith = TryOf(c, t, r, k)[j].matchingWith
               <=> t.node[r[i]].value.matchingWith = t.node[r[j]].value.matchingWith
  BY <1>1, <1>2
<1>5. ASSUME NEW j \in 1..Len(r), NEW p \in 1..Len(s)
      PROVE  TryOf(c, t, r, k)[j].matchingWith = CandOf(c, s, k)[p]
               <=> t.node[r[j]].value.matchingWith = s[p]
  BY <1>1, <1>2, <1>3
<1> QED
  BY <1>1, <1>4, <1>5

-----------------------------------------------------------------------------
(* push_back and erase.                                                    *)

\* What a user is seen as depends on its own node and the one it points to.
LEMMA SeenSame ==
  ASSUME NEW c, NEW d, NEW k, NEW u, d.node[u.matchingWith].value = c.node[u.matchingWith].value
  PROVE  Seen(d, k, u) = Seen(c, k, u)
BY DEF Seen

\* What push_back does to the queues as Matching sees them.
AddsCandidate(c, t, S, s, r, k, id) ==
  LET new == L!PushBack(c, New(c), id)
      s1 == Append(s, New(c))
  IN /\ View(new, t, S \union {id}, s1, r)
     /\ CandOf(new, s1, k) = Append(CandOf(c, s, k), Req(k, id))
     /\ TryOf(new, t, r, k) = TryOf(c, t, r, k)

\* push_back on candidate_queue
LEMMA ViewNewCandidate ==
  ASSUME NEW c, NEW t, NEW S, NEW s, NEW r, View(c, t, S, s, r), NEW k \in Counters,
         NEW id \in Id, id \notin S
  PROVE  AddsCandidate(c, t, S, s, r, k, id)
<1> DEFINE new == L!PushBack(c, New(c), id)
           s1 == Append(s, New(c))
<1>1. Lists(c, t, S) /\ Chain(c, s) /\ Chain(t, r) /\ Live(c, t) /\ c \in ListOf(Id)
  BY DEF View, Lists
<1>2. Lists(new, t, S \union {id})
  BY <1>1, NewCandidate
<1>3. New(c) \in Addr \ DOMAIN c.node
  <2>1. \A a \in DOMAIN c.node : c.node[a].value # id
    BY <1>1 DEF Lists, Within
  <2> QED
    BY <1>1, <2>1, CandidateRoom
<1>4. /\ Chain(new, s1)
      /\ DOMAIN new.node = DOMAIN c.node \union {New(c)}
      /\ new.node[New(c)].value = id
      /\ \A a \in DOMAIN c.node : new.node[a].value = c.node[a].value
  BY <1>1, <1>3, PushBackChain
<1> HIDE DEF new
<1>5. /\ Len(s1) = Len(s) + 1 /\ s1[Len(s) + 1] = New(c)
      /\ \A i \in 1..Len(s) : s1[i] = s[i]
  BY <1>1, AppendProperties DEF Chain
<1> HIDE DEF s1
<1>6. View(new, t, S \union {id}, s1, r)
  BY <1>1, <1>2, <1>4 DEF View, Live
<1>7. CandOf(new, s1, k) = Append(CandOf(c, s, k), Req(k, id))
  <2> DEFINE f == CandOf(c, s, k)
             g == CandOf(new, s1, k)
  <2>1. /\ f \in [1..Len(s) -> AbsProofs!Info] /\ Len(s) \in Nat
        /\ \A i \in 1..Len(s) : f[i] = Req(k, c.node[s[i]].value)
    BY ViewSeqs, ViewChains
  <2>2. /\ g \in [1..(Len(s) + 1) -> AbsProofs!Info]
        /\ \A i \in 1..(Len(s) + 1) : g[i] = Req(k, new.node[s1[i]].value)
    BY <1>5, <1>6, ViewSeqs
  <2> HIDE DEF f, g
  <2>3. \A i \in 1..Len(s) : g[i] = f[i]
    <3> SUFFICES ASSUME NEW i \in 1..Len(s) PROVE g[i] = f[i]
      OBVIOUS
    <3>1. s[i] \in DOMAIN c.node /\ i \in 1..(Len(s) + 1)
      BY <2>1, ViewChains
    <3> QED
      BY <1>4, <1>5, <2>1, <2>2, <3>1
  <2>4. g[Len(s) + 1] = Req(k, id) /\ Len(s) + 1 \in 1..(Len(s) + 1)
    BY <1>4, <1>5, <2>1, <2>2
  <2>5. Req(k, id) \in AbsProofs!Info
    BY <2>2, <2>4
  <2>6. g = Append(f, Req(k, id))
    BY <2>1, <2>2, <2>3, <2>4, <2>5, AppendIs
  <2> QED
    BY <2>6 DEF f, g
<1>8. TryOf(new, t, r, k) = TryOf(c, t, r, k)
  <2>1. \A j \in 1..Len(r) : Seen(new, k, t.node[r[j]].value) = Seen(c, k, t.node[r[j]].value)
    <3> SUFFICES ASSUME NEW j \in 1..Len(r)
                 PROVE  Seen(new, k, t.node[r[j]].value) = Seen(c, k, t.node[r[j]].value)
      OBVIOUS
    <3>1. t.node[r[j]].value.matchingWith \in DOMAIN c.node
      <4>1. r[j] \in DOMAIN t.node
        BY ViewChains
      <4> QED
        BY <4>1, ViewChains
    <3> QED
      BY <1>4, <3>1, SeenSame
  <2> QED
    BY <2>1 DEF TryOf
<1> QED
  BY <1>6, <1>7, <1>8 DEF new, s1, AddsCandidate

\* The same for a new user.
AddsTrying(c, t, S, s, r, k, u) ==
  LET new == L!PushBack(t, New(t), u)
      r1 == Append(r, New(t))
  IN /\ View(c, new, S \union {u.id}, s, r1)
     /\ TryOf(c, new, r1, k) = Append(TryOf(c, t, r, k), Seen(c, k, u))

\* push_back on trying_queue
LEMMA ViewNewTrying ==
  ASSUME NEW c, NEW t, NEW S, NEW s, NEW r, View(c, t, S, s, r), NEW k \in Counters,
         NEW u \in TryingUser, u.id \notin S, u.matchingWith \in DOMAIN c.node
  PROVE  AddsTrying(c, t, S, s, r, k, u)
<1> DEFINE new == L!PushBack(t, New(t), u)
           r1 == Append(r, New(t))
<1>1. Lists(c, t, S) /\ Chain(c, s) /\ Chain(t, r) /\ Live(c, t) /\ t \in ListOf(TryingUser)
  BY DEF View, Lists
<1>2. Lists(c, new, S \union {u.id})
  BY <1>1, NewTrying
<1>3. New(t) \in Addr \ DOMAIN t.node
  <2>1. u.id \in Id /\ \A a \in DOMAIN t.node : t.node[a].value.id # u.id
    BY <1>1 DEF Lists, Within, TryingUser
  <2> QED
    BY <1>1, <2>1, TryingRoom
<1>4. /\ Chain(new, r1)
      /\ DOMAIN new.node = DOMAIN t.node \union {New(t)}
      /\ new.node[New(t)].value = u
      /\ \A a \in DOMAIN t.node : new.node[a].value = t.node[a].value
  BY <1>1, <1>3, PushBackChain
<1> HIDE DEF new
<1>5. /\ Len(r1) = Len(r) + 1 /\ r1[Len(r) + 1] = New(t)
      /\ \A j \in 1..Len(r) : r1[j] = r[j]
  BY <1>1, AppendProperties DEF Chain
<1> HIDE DEF r1
<1>6. View(c, new, S \union {u.id}, s, r1)
  <2>1. Live(c, new)
    BY <1>1, <1>4 DEF Live
  <2> QED
    BY <1>1, <1>2, <1>4, <2>1 DEF View
<1>7. TryOf(c, new, r1, k) = Append(TryOf(c, t, r, k), Seen(c, k, u))
  <2> DEFINE f == TryOf(c, t, r, k)
             g == TryOf(c, new, r1, k)
  <2>1. /\ f \in [1..Len(r) -> AbsProofs!TryingUser] /\ Len(r) \in Nat
        /\ \A j \in 1..Len(r) : f[j] = Seen(c, k, t.node[r[j]].value)
    BY ViewSeqs, ViewChains
  <2>2. /\ g \in [1..(Len(r) + 1) -> AbsProofs!TryingUser]
        /\ \A j \in 1..(Len(r) + 1) : g[j] = Seen(c, k, new.node[r1[j]].value)
    BY <1>5, <1>6, ViewSeqs
  <2> HIDE DEF f, g
  <2>3. \A j \in 1..Len(r) : g[j] = f[j]
    <3> SUFFICES ASSUME NEW j \in 1..Len(r) PROVE g[j] = f[j]
      OBVIOUS
    <3>1. r[j] \in DOMAIN t.node /\ j \in 1..(Len(r) + 1)
      BY <2>1, ViewChains
    <3> QED
      BY <1>4, <1>5, <2>1, <2>2, <3>1
  <2>4. g[Len(r) + 1] = Seen(c, k, u) /\ Len(r) + 1 \in 1..(Len(r) + 1)
    BY <1>4, <1>5, <2>1, <2>2
  <2>5. Seen(c, k, u) \in AbsProofs!TryingUser
    BY <2>2, <2>4
  <2>6. g = Append(f, Seen(c, k, u))
    BY <2>1, <2>2, <2>3, <2>4, <2>5, AppendIs
  <2> QED
    BY <2>6 DEF f, g
<1> QED
  BY <1>6, <1>7 DEF new, r1, AddsTrying

\* What erase does: one element less.
ErasesTrying(c, t, S, s, r, k, i) ==
  LET new == L!Erase(t, r[i])
      r1 == Without(r, i)
  IN /\ View(c, new, S \ {t.node[r[i]].value.id}, s, r1)
     /\ TryOf(c, new, r1, k) = AbsProofs!RemoveAt(TryOf(c, t, r, k), i)
     /\ DOMAIN new.node = DOMAIN t.node \ {r[i]}
     /\ \A a \in DOMAIN new.node : new.node[a].value = t.node[a].value

\* erase on trying_queue
LEMMA ViewEraseTrying ==
  ASSUME NEW c, NEW t, NEW S, NEW s, NEW r, View(c, t, S, s, r), NEW k \in Counters,
         NEW i \in 1..Len(r)
  PROVE  ErasesTrying(c, t, S, s, r, k, i)
<1> DEFINE new == L!Erase(t, r[i])
           r1 == Without(r, i)
<1>1. Lists(c, t, S) /\ Chain(c, s) /\ Chain(t, r) /\ Live(c, t) /\ t \in ListOf(TryingUser)
  BY DEF View, Lists
<1>2. /\ Len(r) \in Nat /\ r[i] \in DOMAIN t.node
      /\ \A j \in 1..Len(r) : r[j] \in DOMAIN t.node
      /\ \A j, m \in 1..Len(r) : r[j] = r[m] => j = m
  BY ViewChains
<1>3. Lists(c, new, S \ {t.node[r[i]].value.id})
  BY <1>1, <1>2, EraseTrying
<1>4. /\ Chain(new, r1)
      /\ DOMAIN new.node = DOMAIN t.node \ {r[i]}
      /\ \A a \in DOMAIN new.node : new.node[a].value = t.node[a].value
  BY <1>1, EraseChain
<1> HIDE DEF new
<1>5. r1 = [j \in 1..Len(r) - 1 |-> IF j < i THEN r[j] ELSE r[j+1]]
  BY DEF Without
<1> HIDE DEF r1
<1>6. Len(r1) = Len(r) - 1 /\ \A j \in 1..(Len(r) - 1) : r1[j] = IF j < i THEN r[j] ELSE r[j+1]
  <2>1. Len(r1) \in Nat /\ DOMAIN r1 = 1..Len(r1)
    BY <1>4 DEF Chain
  <2>2. DOMAIN r1 = 1..(Len(r) - 1)
    BY <1>5
  <2>3. Len(r1) = Len(r) - 1
    BY <1>2, <2>1, <2>2
  <2> QED
    BY <1>5, <2>3
<1>7. View(c, new, S \ {t.node[r[i]].value.id}, s, r1)
  <2>1. Live(c, new)
    BY <1>1, <1>4 DEF Live
  <2> QED
    BY <1>1, <1>3, <1>4, <2>1 DEF View
<1>8. TryOf(c, new, r1, k) = AbsProofs!RemoveAt(TryOf(c, t, r, k), i)
  <2> DEFINE f == TryOf(c, t, r, k)
             g == TryOf(c, new, r1, k)
  <2>1. /\ f \in [1..Len(r) -> AbsProofs!TryingUser]
        /\ \A j \in 1..Len(r) : f[j] = Seen(c, k, t.node[r[j]].value)
    BY ViewSeqs
  <2>2. /\ g \in [1..(Len(r) - 1) -> AbsProofs!TryingUser]
        /\ \A j \in 1..(Len(r) - 1) : g[j] = Seen(c, k, new.node[r1[j]].value)
    BY <1>6, <1>7, ViewSeqs
  <2> HIDE DEF f, g
  <2>3. Shifted(f, g, Len(r), i)
    <3> SUFFICES ASSUME NEW j \in 1..(Len(r) - 1)
                 PROVE  g[j] = IF j < i THEN f[j] ELSE f[j + 1]
      BY DEF Shifted
    <3> DEFINE m == IF j < i THEN j ELSE j + 1
    <3>1. m \in 1..Len(r) /\ m # i /\ r1[j] = r[m]
      BY <1>2, <1>6
    <3>2. r[m] \in DOMAIN new.node
      BY <1>2, <1>4, <3>1
    <3>3. g[j] = f[m]
      BY <1>4, <2>1, <2>2, <3>1, <3>2
    <3> QED
      BY <3>3
  <2>4. g = AbsProofs!RemoveAt(f, i)
    BY <1>2, <2>1, <2>2, <2>3, RemoveIs
  <2> QED
    BY <2>4 DEF f, g
<1> QED
  BY <1>4, <1>7, <1>8 DEF new, r1, ErasesTrying

\* The same for a candidate.
ErasesCandidate(c, t, S, s, r, k, p) ==
  LET new == L!Erase(c, s[p])
      s1 == Without(s, p)
  IN /\ View(new, t, S \ {c.node[s[p]].value}, s1, r)
     /\ CandOf(new, s1, k) = AbsProofs!RemoveAt(CandOf(c, s, k), p)
     /\ TryOf(new, t, r, k) = TryOf(c, t, r, k)

\* erase on candidate_queue, once nobody points to the node
LEMMA ViewEraseCandidate ==
  ASSUME NEW c, NEW t, NEW S, NEW s, NEW r, View(c, t, S, s, r), NEW k \in Counters,
         NEW p \in 1..Len(s), \A j \in 1..Len(r) : t.node[r[j]].value.matchingWith # s[p]
  PROVE  ErasesCandidate(c, t, S, s, r, k, p)
<1> DEFINE new == L!Erase(c, s[p])
           s1 == Without(s, p)
<1>1. Lists(c, t, S) /\ Chain(c, s) /\ Chain(t, r) /\ Live(c, t) /\ c \in ListOf(Id)
  BY DEF View, Lists
<1>2. /\ Len(s) \in Nat /\ s[p] \in DOMAIN c.node
      /\ \A j \in 1..Len(s) : s[j] \in DOMAIN c.node
      /\ \A j, m \in 1..Len(s) : s[j] = s[m] => j = m
  BY ViewChains
<1>3. Lists(new, t, S \ {c.node[s[p]].value})
  BY <1>1, <1>2, EraseCandidate
<1>4. /\ Chain(new, s1)
      /\ DOMAIN new.node = DOMAIN c.node \ {s[p]}
      /\ \A a \in DOMAIN new.node : new.node[a].value = c.node[a].value
  BY <1>1, EraseChain
<1> HIDE DEF new
<1>5. s1 = [j \in 1..Len(s) - 1 |-> IF j < p THEN s[j] ELSE s[j+1]]
  BY DEF Without
<1> HIDE DEF s1
<1>6. Len(s1) = Len(s) - 1 /\ \A j \in 1..(Len(s) - 1) : s1[j] = IF j < p THEN s[j] ELSE s[j+1]
  <2>1. Len(s1) \in Nat /\ DOMAIN s1 = 1..Len(s1)
    BY <1>4 DEF Chain
  <2>2. DOMAIN s1 = 1..(Len(s) - 1)
    BY <1>5
  <2>3. Len(s1) = Len(s) - 1
    BY <1>2, <2>1, <2>2
  <2> QED
    BY <1>5, <2>3
<1>7. \A a \in DOMAIN t.node : t.node[a].value.matchingWith \in DOMAIN new.node
  <2> SUFFICES ASSUME NEW a \in DOMAIN t.node
               PROVE  t.node[a].value.matchingWith \in DOMAIN new.node
    OBVIOUS
  <2>1. PICK j \in 1..Len(r) : a = r[j]
    BY ViewChains
  <2>2. t.node[a].value.matchingWith # s[p]
    BY <2>1
  <2> QED
    BY <1>1, <1>4, <2>2 DEF Live
<1>8. View(new, t, S \ {c.node[s[p]].value}, s1, r)
  BY <1>1, <1>3, <1>4, <1>7 DEF View, Live
<1>9. CandOf(new, s1, k) = AbsProofs!RemoveAt(CandOf(c, s, k), p)
  <2> DEFINE f == CandOf(c, s, k)
             g == CandOf(new, s1, k)
  <2>1. /\ f \in [1..Len(s) -> AbsProofs!Info]
        /\ \A j \in 1..Len(s) : f[j] = Req(k, c.node[s[j]].value)
    BY ViewSeqs
  <2>2. /\ g \in [1..(Len(s) - 1) -> AbsProofs!Info]
        /\ \A j \in 1..(Len(s) - 1) : g[j] = Req(k, new.node[s1[j]].value)
    BY <1>6, <1>8, ViewSeqs
  <2> HIDE DEF f, g
  <2>3. Shifted(f, g, Len(s), p)
    <3> SUFFICES ASSUME NEW j \in 1..(Len(s) - 1)
                 PROVE  g[j] = IF j < p THEN f[j] ELSE f[j + 1]
      BY DEF Shifted
    <3> DEFINE m == IF j < p THEN j ELSE j + 1
    <3>1. m \in 1..Len(s) /\ m # p /\ s1[j] = s[m]
      BY <1>2, <1>6
    <3>2. s[m] \in DOMAIN new.node
      BY <1>2, <1>4, <3>1
    <3>3. g[j] = f[m]
      BY <1>4, <2>1, <2>2, <3>1, <3>2
    <3> QED
      BY <3>3
  <2>4. g = AbsProofs!RemoveAt(f, p)
    BY <1>2, <2>1, <2>2, <2>3, RemoveIs
  <2> QED
    BY <2>4 DEF f, g
<1>10. TryOf(new, t, r, k) = TryOf(c, t, r, k)
  <2>1. \A j \in 1..Len(r) : Seen(new, k, t.node[r[j]].value) = Seen(c, k, t.node[r[j]].value)
    <3> SUFFICES ASSUME NEW j \in 1..Len(r)
                 PROVE  Seen(new, k, t.node[r[j]].value) = Seen(c, k, t.node[r[j]].value)
      OBVIOUS
    <3>1. t.node[r[j]].value.matchingWith \in DOMAIN new.node
      <4>1. r[j] \in DOMAIN t.node
        BY ViewChains
      <4> QED
        BY <1>7, <4>1
    <3> QED
      BY <1>4, <3>1, SeenSame
  <2> QED
    BY <2>1 DEF TryOf
<1> QED
  BY <1>8, <1>9, <1>10 DEF new, s1, ErasesCandidate

-----------------------------------------------------------------------------
(* The loop of detach.                                                     *)

NodeAt(r, q) == IF q <= Len(r) THEN r[q] ELSE Null

\* The loop over the users of list from position first on has come to q.
SentTo(at, list, r, first, q, from, to) ==
  /\ q \in first..(Len(r) + 1)
  /\ at = [list |-> at.list, iter |-> NodeAt(r, q)]
  /\ SameNodes(list, at.list)
  /\ \A j \in first..(q - 1) : list.node[r[j]].value.matchingWith = from
  /\ \A j \in 1..Len(r) :
       at.list.node[r[j]].value =
         IF first <= j /\ j < q THEN Pointing(list.node[r[j]].value, to)
         ELSE list.node[r[j]].value

Stopped(list, r, q, from) ==
  q <= Len(r) => list.node[r[q]].value.matchingWith # from

\* A round sends one user on, or is one after the end.
LEMMA SendRoundMoves ==
  ASSUME NEW list, NEW r, Chain(list, r), NEW first \in 1..(Len(r) + 1), NEW q,
         NEW from, NEW to \in Link, NEW at, SentTo(at, list, r, first, q, from, to)
  PROVE  IF Stopped(list, r, q, from) THEN SendRound(at, from, to) = at
         ELSE SentTo(SendRound(at, from, to), list, r, first, q + 1, from, to)
<1> DEFINE l == at.list
           m == [l EXCEPT !.node[r[q]].value.matchingWith = to]
<1>1. /\ Len(r) \in Nat /\ q \in Nat /\ 1 <= first /\ first <= q /\ q <= Len(r) + 1
      /\ \A j \in 1..Len(r) : r[j] \in Addr /\ r[j] \in DOMAIN list.node
      /\ \A i, j \in 1..Len(r) : r[i] = r[j] => i = j
  BY DEF Chain, SentTo
<1>2. /\ SameNodes(list, l) /\ at.iter = NodeAt(r, q)
      /\ at = [list |-> l, iter |-> NodeAt(r, q)]
      /\ \A j \in 1..Len(r) :
           l.node[r[j]].value = IF first <= j /\ j < q THEN Pointing(list.node[r[j]].value, to)
                                ELSE list.node[r[j]].value
  BY DEF SentTo
<1> HIDE DEF l
<1>3. CASE q > Len(r)
  <2>1. at.iter = Null
    BY <1>1, <1>2, <1>3 DEF NodeAt
  <2>2. SendRound(at, from, to) = at
    BY <2>1 DEF SendRound
  <2>3. Stopped(list, r, q, from)
    BY <1>1, <1>3 DEF Stopped
  <2> QED
    BY <2>2, <2>3
<1>4. CASE q <= Len(r)
  <2>1. q \in 1..Len(r) /\ at.iter = r[q] /\ r[q] # Null /\ r[q] \in DOMAIN list.node
    BY <1>1, <1>2, <1>4, NullApart DEF NodeAt
  <2>2. l.node[r[q]].value = list.node[r[q]].value
    BY <1>1, <1>2, <2>1
  <2>3. CASE list.node[r[q]].value.matchingWith # from
    <3>1. SendRound(at, from, to) = at
      BY <2>1, <2>2, <2>3 DEF SendRound, l
    <3>2. Stopped(list, r, q, from)
      BY <2>3 DEF Stopped
    <3> QED
      BY <3>1, <3>2
  <2>4. CASE list.node[r[q]].value.matchingWith = from
    <3>1. SendRound(at, from, to) = [list |-> m, iter |-> l.node[r[q]].next]
      BY <2>1, <2>2, <2>4 DEF SendRound, l
    <3>2. l \in ListOf(TryingUser) /\ DOMAIN l.node = DOMAIN list.node
          /\ \A a \in DOMAIN list.node : l.node[a].next = list.node[a].next
      BY <1>2 DEF SameNodes
    <3>3. /\ SameNodes(l, m)
          /\ \A b \in DOMAIN l.node :
               m.node[b].value = IF b = r[q] THEN Pointing(l.node[r[q]].value, to)
                                 ELSE l.node[b].value
      <4>1. r[q] \in DOMAIN l.node
        BY <2>1, <3>2
      <4> QED
        BY <3>2, <4>1, SetMatchingWith, Zenon
    <3> HIDE DEF m
    <3>4. SameNodes(list, m)
      BY <1>2, <3>3, SameNodesTrans
    <3>5. l.node[r[q]].next = NodeAt(r, q + 1)
      <4>1. list.node[r[q]].next = IF q = Len(r) THEN Null ELSE r[q + 1]
        BY <2>1 DEF Chain
      <4> QED
        BY <1>1, <2>1, <3>2, <4>1 DEF NodeAt
    <3>6. \A j \in 1..Len(r) :
            m.node[r[j]].value =
              IF first <= j /\ j < q + 1 THEN Pointing(list.node[r[j]].value, to)
              ELSE list.node[r[j]].value
      <4> SUFFICES ASSUME NEW j \in 1..Len(r)
                   PROVE  m.node[r[j]].value =
                            IF first <= j /\ j < q + 1 THEN Pointing(list.node[r[j]].value, to)
                            ELSE list.node[r[j]].value
        OBVIOUS
      <4>1. r[j] \in DOMAIN l.node
        BY <1>1, <3>2
      <4>2. CASE j = q
        <5>1. m.node[r[j]].value = Pointing(list.node[r[j]].value, to)
          BY <2>2, <3>3, <4>1, <4>2
        <5>2. first <= j /\ j < q + 1
          BY <1>1, <4>2
        <5> QED
          BY <5>1, <5>2
      <4>3. CASE j # q
        <5>1. m.node[r[j]].value = l.node[r[j]].value
          BY <1>1, <2>1, <3>3, <4>1, <4>3
        <5>2. (j < q + 1) <=> (j < q)
          BY <1>1, <4>3
        <5> QED
          BY <1>2, <5>1, <5>2
      <4> QED
        BY <4>2, <4>3
    <3>7. \A j \in first..q : list.node[r[j]].value.matchingWith = from
      <4>1. \A j \in first..(q - 1) : list.node[r[j]].value.matchingWith = from
        BY DEF SentTo
      <4> QED
        BY <1>1, <2>4, <4>1
    <3>8. SentTo([list |-> m, iter |-> NodeAt(r, q + 1)], list, r, first, q + 1, from, to)
      <4>1. (q + 1) - 1 = q /\ q + 1 \in first..(Len(r) + 1)
        BY <1>1, <2>1
      <4> QED
        BY <3>4, <3>6, <3>7, <4>1 DEF SentTo
    <3>9. ~Stopped(list, r, q, from)
      BY <1>4, <2>4 DEF Stopped
    <3> QED
      BY <3>1, <3>5, <3>8, <3>9
  <2> QED
    BY <2>3, <2>4
<1> QED
  BY <1>1, <1>3, <1>4

\* There are enough rounds for the whole chain.
LEMMA ChainBound ==
  ASSUME NEW list, NEW r, Chain(list, r)
  PROVE  Cardinality(Addr) \in Nat /\ Len(r) \in Nat /\ Len(r) <= Cardinality(Addr)
<1>1. DOMAIN list.node \subseteq Addr /\ Len(r) \in Nat
  BY DEF Chain
<1>2. Cardinality(DOMAIN list.node) <= Cardinality(Addr)
  BY <1>1, HeapAssumption, FS_Subset
<1> QED
  BY <1>1, <1>2, ChainLength, HeapAssumption, FS_CardinalityType

\* The loop sends on the run of users that point to from.
LEMMA SendOnRuns ==
  ASSUME NEW list \in ListOf(TryingUser), NEW r, Chain(list, r),
         NEW first \in 1..(Len(r) + 1), NEW from, NEW to \in Link
  PROVE  LET new == SendOn(list, NodeAt(r, first), from, to)
         IN \E q : /\ SentTo([list |-> new, iter |-> NodeAt(r, q)], list, r, first, q, from, to)
                   /\ Stopped(list, r, q, from)
<1> DEFINE N == Cardinality(Addr)
           iter == NodeAt(r, first)
           after == CHOOSE f : SendRounds(f, N, list, iter, from, to)
<1>1. N \in Nat /\ Len(r) \in Nat /\ Len(r) <= N
  BY ChainBound
<1>2. SendOn(list, iter, from, to) = after[N].list
  BY DEF SendOn, SendRounds
<1>3. SendRounds(after, N, list, iter, from, to)
  BY <1>1, SendRoundsExist
<1> HIDE DEF after, N
<1>4. \A k \in 0..N : after[k] = IF k = 0 THEN [list |-> list, iter |-> iter]
                                 ELSE SendRound(after[k-1], from, to)
  BY <1>3 DEF SendRounds
<1> DEFINE Good(k) == \E q : /\ SentTo(after[k], list, r, first, q, from, to)
                             /\ Stopped(list, r, q, from) \/ q >= first + k
           B == {k \in 0..N : ~Good(k)}
<1>5. B = {}
  <2>1. SUFFICES ASSUME B # {} PROVE FALSE
    OBVIOUS
  <2>2. PICK k \in B : \A x \in B : k <= x
    <3>1. B \in SUBSET Nat
      BY <1>1
    <3> HIDE DEF B
    <3> QED
      BY <2>1, <3>1, MinOfNats
  <2>3. CASE k = 0
    <3>1. after[0] = [list |-> list, iter |-> NodeAt(r, first)]
      BY <1>4, <2>2, <2>3
    <3>2. SameNodes(list, list)
      BY DEF SameNodes
    <3>3. \A j \in 1..Len(r) : ~(first <= j /\ j < first)
      BY <1>1
    <3>4. \A j \in first..(first - 1) : FALSE
      BY <1>1
    <3>5. first \in first..(Len(r) + 1)
      BY <1>1
    <3>6. SentTo([list |-> list, iter |-> NodeAt(r, first)], list, r, first, first, from, to)
      BY <3>2, <3>3, <3>4, <3>5 DEF SentTo
    <3>7. Good(0)
      BY <3>1, <3>6
    <3> QED
      BY <2>2, <2>3, <3>7
  <2>4. CASE k # 0
    <3>1. k-1 \in 0..N /\ k-1 \notin B /\ k \in 0..N
      BY <1>1, <2>2, <2>4
    <3>2. PICK q : /\ SentTo(after[k-1], list, r, first, q, from, to)
                   /\ Stopped(list, r, q, from) \/ q >= first + (k - 1)
      BY <3>1
    <3>3. after[k] = SendRound(after[k-1], from, to)
      BY <1>4, <2>4, <3>1
    <3>4. IF Stopped(list, r, q, from) THEN after[k] = after[k-1]
          ELSE SentTo(after[k], list, r, first, q + 1, from, to)
      BY <3>2, <3>3, SendRoundMoves
    <3>5. Good(k)
      <4>1. CASE Stopped(list, r, q, from)
        <5>1. SentTo(after[k], list, r, first, q, from, to)
          BY <3>2, <3>4, <4>1
        <5> QED
          BY <4>1, <5>1
      <4>2. CASE ~Stopped(list, r, q, from)
        <5>1. SentTo(after[k], list, r, first, q + 1, from, to)
          BY <3>4, <4>2
        <5>2. q + 1 >= first + k
          <6>1. q \in Int /\ q >= first + (k - 1)
            BY <1>1, <3>2, <4>2 DEF SentTo
          <6> QED
            BY <3>1, <6>1
        <5> QED
          BY <5>1, <5>2
      <4> QED
        BY <4>1, <4>2
    <3> QED
      BY <2>2, <3>5
  <2> QED
    BY <2>3, <2>4
<1>6. N \in 0..N
  BY <1>1
<1>7. Good(N)
  BY <1>5, <1>6
<1>8. PICK q : /\ SentTo(after[N], list, r, first, q, from, to)
               /\ Stopped(list, r, q, from) \/ q >= first + N
  BY <1>7
<1>9. Stopped(list, r, q, from)
  BY <1>1, <1>8 DEF SentTo, Stopped
<1>10. after[N] = [list |-> after[N].list, iter |-> NodeAt(r, q)]
  BY <1>8 DEF SentTo
<1> QED
  BY <1>2, <1>8, <1>9, <1>10

\* Users with other values at the same addresses.
LEMMA ViewSameNodes ==
  ASSUME NEW c, NEW t, NEW S, NEW s, NEW r, View(c, t, S, s, r),
         NEW m, SameNodes(t, m), Live(c, m)
  PROVE  View(c, m, S, s, r)
<1>1. Lists(c, m, S)
  BY SameLists DEF View
<1>2. Chain(m, r)
  BY SameNodesChain DEF View
<1> QED
  BY <1>1, <1>2 DEF View

\* What the loop does: the run of users from first on points to another node.
SendsOn(c, t, S, s, r, k, first, p, to) ==
  LET new == SendOn(t, NodeAt(r, first), s[p], to)
      tq == TryOf(c, t, r, k)
      run == AbsProofs!RunFrom(tq, first, CandOf(c, s, k)[p])
  IN /\ View(c, new, S, s, r) /\ SameNodes(t, new)
     /\ \A j \in 1..Len(r) :
          new.node[r[j]].value.matchingWith =
            IF j \in run THEN to ELSE t.node[r[j]].value.matchingWith
     /\ TryOf(c, new, r, k) =
          [j \in 1..Len(r) |->
             IF j \in run THEN [tq[j] EXCEPT !.matchingWith = Req(k, c.node[to].value)]
             ELSE tq[j]]

\* The loop of detach sends on a RunFrom of Matching.
LEMMA ViewSendOn ==
  ASSUME NEW c, NEW t, NEW S, NEW s, NEW r, View(c, t, S, s, r), NEW k \in Counters,
         NEW first \in 1..(Len(r) + 1), NEW p \in 1..Len(s), NEW to \in Link,
         to \in DOMAIN c.node \/ AbsProofs!RunFrom(TryOf(c, t, r, k), first, CandOf(c, s, k)[p]) = {}
  PROVE  SendsOn(c, t, S, s, r, k, first, p, to)
<1> DEFINE new == SendOn(t, NodeAt(r, first), s[p], to)
           tq == TryOf(c, t, r, k)
           node == CandOf(c, s, k)[p]
           run == AbsProofs!RunFrom(tq, first, node)
<1>1. Chain(t, r) /\ t \in ListOf(TryingUser) /\ Live(c, t)
  BY DEF View, Lists
<1>2. PICK q : /\ SentTo([list |-> new, iter |-> NodeAt(r, q)], t, r, first, q, s[p], to)
               /\ Stopped(t, r, q, s[p])
  BY <1>1, SendOnRuns
<1> HIDE DEF new
<1>3. /\ q \in first..(Len(r) + 1) /\ SameNodes(t, new)
      /\ \A j \in first..(q - 1) : t.node[r[j]].value.matchingWith = s[p]
      /\ \A j \in 1..Len(r) :
           new.node[r[j]].value =
             IF first <= j /\ j < q THEN Pointing(t.node[r[j]].value, to)
             ELSE t.node[r[j]].value
  BY <1>2 DEF SentTo
<1>4. /\ Len(r) \in Nat /\ DOMAIN tq = 1..Len(r)
      /\ \A j \in 1..Len(r) : tq[j] = Seen(c, k, t.node[r[j]].value)
      /\ \A j \in 1..Len(r) : tq[j].matchingWith = node
                                <=> t.node[r[j]].value.matchingWith = s[p]
  BY ViewSeqs, ViewPointers, ViewChains
<1> HIDE DEF tq, node
<1>5. ASSUME NEW j \in 1..Len(r)
      PROVE  j \in run <=> first <= j /\ j < q
  <2>1. ASSUME first <= j, j < q
        PROVE  j \in run
    <3>1. \A m \in first..j : m \in 1..Len(r) /\ m \in first..(q - 1)
      BY <1>3, <1>4, <2>1
    <3>2. \A m \in first..j : tq[m].matchingWith = node
      BY <1>3, <1>4, <3>1
    <3> QED
      BY <1>4, <2>1, <3>2 DEF AbsProofs!RunFrom
  <2>2. ASSUME j \in run
        PROVE  first <= j /\ j < q
    <3>1. first <= j /\ \A m \in first..j : tq[m].matchingWith = node
      BY <2>2 DEF AbsProofs!RunFrom
    <3>2. SUFFICES ASSUME q <= j PROVE FALSE
      BY <1>3, <1>4, <3>1
    <3>3. q \in first..j /\ q \in 1..Len(r) /\ q <= Len(r)
      BY <1>3, <1>4, <3>2
    <3>4. t.node[r[q]].value.matchingWith = s[p]
      BY <1>4, <3>1, <3>3
    <3> QED
      BY <1>2, <3>3, <3>4 DEF Stopped
  <2> QED
    BY <2>1, <2>2
<1> HIDE DEF run
<1>6. \A j \in 1..Len(r) :
        new.node[r[j]].value = IF j \in run THEN Pointing(t.node[r[j]].value, to)
                               ELSE t.node[r[j]].value
  BY <1>3, <1>5
<1>7. \A j \in 1..Len(r) :
        new.node[r[j]].value.matchingWith =
          IF j \in run THEN to ELSE t.node[r[j]].value.matchingWith
  <2> SUFFICES ASSUME NEW j \in 1..Len(r)
               PROVE  new.node[r[j]].value.matchingWith =
                        IF j \in run THEN to ELSE t.node[r[j]].value.matchingWith
    OBVIOUS
  <2>1. CASE j \in run
    <3>1. new.node[r[j]].value = Pointing(t.node[r[j]].value, to)
      BY <1>6, <2>1
    <3> QED
      BY <2>1, <3>1 DEF Pointing
  <2>2. CASE j \notin run
    BY <1>6, <2>2
  <2> QED
    BY <2>1, <2>2
<1>8. Live(c, new)
  <2> SUFFICES ASSUME NEW a \in DOMAIN new.node
               PROVE  new.node[a].value.matchingWith \in DOMAIN c.node
    BY DEF Live
  <2>1. a \in DOMAIN t.node
    BY <1>3 DEF SameNodes
  <2>2. PICK j \in 1..Len(r) : a = r[j]
    BY <2>1, ViewChains
  <2>3. j \in run => to \in DOMAIN c.node
    BY DEF run, tq, node
  <2> QED
    BY <1>1, <1>7, <2>1, <2>2, <2>3 DEF Live
<1>9. View(c, new, S, s, r)
  BY <1>3, <1>8, ViewSameNodes
<1>10. ASSUME NEW j \in 1..Len(r)
       PROVE  Seen(c, k, new.node[r[j]].value) =
                IF j \in run THEN [tq[j] EXCEPT !.matchingWith = Req(k, c.node[to].value)]
                ELSE tq[j]
  <2>1. CASE j \notin run
    BY <1>4, <1>6, <2>1
  <2>2. CASE j \in run
    <3>1. new.node[r[j]].value = Pointing(t.node[r[j]].value, to)
      BY <1>6, <2>2
    <3> QED
      BY <1>4, <2>2, <3>1, SeenSent
  <2> QED
    BY <2>1, <2>2
<1>11. TryOf(c, new, r, k) =
         [j \in 1..Len(r) |->
            IF j \in run THEN [tq[j] EXCEPT !.matchingWith = Req(k, c.node[to].value)]
            ELSE tq[j]]
  BY <1>10 DEF TryOf
<1> QED
  BY <1>3, <1>7, <1>9, <1>11 DEF new, run, tq, node, SendsOn

-----------------------------------------------------------------------------
(* arrange_job.                                                            *)

\* The start of a trial marks the user and sends its job.
LEMMA StartIs ==
  ASSUME NEW h, IsHeap(h), h.trying \in ListOf(TryingUser), NEW a \in DOMAIN h.trying.node,
         h.trying.node[a].value.matchingWith \in DOMAIN h.candidates.node, NEW k
  PROVE  LET g == Start(h, a, k)
             u == h.trying.node[a].value
         IN /\ IsHeap(g) /\ g.candidates = h.candidates /\ g.ok = h.ok
            /\ g.working_job = h.working_job + 1
            /\ g.jobs = Append(h.jobs, AbsProofs!JobOf(Seen(h.candidates, k, u)))
            /\ SameNodes(h.trying, g.trying)
            /\ \A b \in DOMAIN h.trying.node :
                 g.trying.node[b].value = IF b = a THEN Marked(u, "PROCESSING")
                                          ELSE h.trying.node[b].value
<1> DEFINE g == Start(h, a, k)
           u == h.trying.node[a].value
           job == AbsProofs!JobOf(Seen(h.candidates, k, u))
           t == [h.trying EXCEPT !.node[a].value.progress = "PROCESSING"]
<1>1. PICK c, l, w, j, o :
        h = [candidates |-> c, trying |-> l, working_job |-> w, jobs |-> j, ok |-> o]
  BY DEF IsHeap
<1>2. /\ SameNodes(h.trying, t)
      /\ \A b \in DOMAIN h.trying.node :
           t.node[b].value = IF b = a THEN Marked(u, "PROCESSING") ELSE h.trying.node[b].value
  BY SetProgress
<1>3. job = [trying_info |-> [id |-> u.id, counter |-> k[u.id]],
             candidate_info |-> [id |-> h.candidates.node[u.matchingWith].value,
                                 counter |-> k[h.candidates.node[u.matchingWith].value]]]
  BY DEF AbsProofs!JobOf, Seen, Req
<1>4. g = [h EXCEPT !.trying.node[a].value.progress = "PROCESSING",
                    !.working_job = @ + 1,
                    !.jobs = Append(@, job)]
  BY <1>3 DEF Start
<1> HIDE DEF job
<1>5. g = [candidates |-> c, trying |-> t, working_job |-> w + 1,
           jobs |-> Append(j, job), ok |-> o]
  BY <1>1, <1>4
<1>6. c = h.candidates /\ w = h.working_job /\ j = h.jobs /\ o = h.ok
  BY <1>1
<1> HIDE DEF t, g, u
<1>7. /\ g.candidates = c /\ g.ok = o /\ g.working_job = w + 1
      /\ g.jobs = Append(j, job) /\ g.trying = t
  BY <1>5
<1>8. IsHeap(g)
  BY <1>5 DEF IsHeap
<1> QED
  BY <1>2, <1>6, <1>7, <1>8 DEF g, u, job

\* Which user may start is read off the node and the one in front of it.
LEMMA MayStartIs ==
  ASSUME NEW c, NEW t, NEW S, NEW s, NEW r, View(c, t, S, s, r), NEW k \in Counters,
         NEW h, SameNodes(t, h.trying), NEW p \in 1..Len(r),
         h.trying.node[r[p]].value = t.node[r[p]].value,
         \A j \in 1..Len(r) : h.trying.node[r[j]].value.matchingWith
                                = t.node[r[j]].value.matchingWith
  PROVE  MayStart(h, r[p]) <=> p \in AbsProofs!Eligible(TryOf(c, t, r, k))
<1> DEFINE tq == TryOf(c, t, r, k)
<1>1. /\ DOMAIN tq = 1..Len(r) /\ Len(r) \in Nat
      /\ tq[p] = Seen(c, k, t.node[r[p]].value)
      /\ \A i, j \in 1..Len(r) :
           tq[i].matchingWith = tq[j].matchingWith
             <=> t.node[r[i]].value.matchingWith = t.node[r[j]].value.matchingWith
  BY ViewSeqs, ViewPointers, ViewChains
<1> HIDE DEF tq
<1>2. tq[p].progress = t.node[r[p]].value.progress
  BY <1>1, SeenIs
<1>3. h.trying.node[r[p]].prev = IF p = 1 THEN Null ELSE r[p-1]
  <2>1. r[p] \in DOMAIN t.node /\ Chain(t, r)
    BY ViewChains DEF View
  <2>2. t.node[r[p]].prev = IF p = 1 THEN Null ELSE r[p-1]
    BY <2>1 DEF Chain
  <2> QED
    BY <2>1, <2>2 DEF SameNodes
<1>4. p # 1 => p - 1 \in 1..Len(r) /\ r[p-1] # Null
  <2> SUFFICES ASSUME p # 1 PROVE p - 1 \in 1..Len(r) /\ r[p-1] # Null
    OBVIOUS
  <2>1. p - 1 \in 1..Len(r)
    BY <1>1
  <2> QED
    BY <2>1, ViewChains, NullApart
<1>5. MayStart(h, r[p]) <=>
        /\ tq[p].progress = "WAITING"
        /\ p # 1 => h.trying.node[r[p-1]].value.matchingWith
                      # h.trying.node[r[p]].value.matchingWith
  BY <1>2, <1>3, <1>4 DEF MayStart
<1>6. p # 1 => (h.trying.node[r[p-1]].value.matchingWith
                  # h.trying.node[r[p]].value.matchingWith
                <=> tq[p-1].matchingWith # tq[p].matchingWith)
  BY <1>1, <1>4
<1>7. p \in AbsProofs!Eligible(tq) <=>
        tq[p].progress = "WAITING" /\ (p # 1 => tq[p-1].matchingWith # tq[p].matchingWith)
  BY <1>1 DEF AbsProofs!Eligible
<1> QED
  BY <1>5, <1>6, <1>7 DEF tq

\* The library's Cardinality, as module Matching sees it.
LEMMA AbsCardinality == \A S : AbsProofs!Cardinality(S) = Cardinality(S)
BY DEF AbsProofs!Cardinality, Cardinality

\* g lists the members of E below p, in their order.
Enumerates(g, n, E, p) ==
  /\ n \in Nat /\ g \in [1..n -> E]
  /\ n = Cardinality({j \in E : j < p})
  /\ \A m \in 1..n : g[m] < p /\ Cardinality({j \in E : j < g[m]}) = m - 1
  /\ \A j \in E : j < p => \E m \in 1..n : g[m] = j

With(g, n, p) == [m \in 1..(n + 1) |-> IF m = n + 1 THEN p ELSE g[m]]

\* One position further, which is or is not in E.
LEMMA EnumeratesMore ==
  ASSUME NEW N \in Nat, NEW E \in SUBSET (1..N), NEW p \in 1..N, NEW n, NEW g,
         Enumerates(g, n, E, p)
  PROVE  IF p \in E THEN Enumerates(With(g, n, p), n + 1, E, p + 1)
                    ELSE Enumerates(g, n, E, p + 1)
<1>1. /\ n \in Nat /\ g \in [1..n -> E] /\ p \in Nat
      /\ n = Cardinality({j \in E : j < p})
      /\ \A m \in 1..n : g[m] < p /\ Cardinality({j \in E : j < g[m]}) = m - 1
      /\ \A j \in E : j < p => \E m \in 1..n : g[m] = j
      /\ \A j \in E : j \in Nat
  BY DEF Enumerates
<1>2. CASE p \notin E
  <2>1. \A j \in E : j < p + 1 <=> j < p
    BY <1>1, <1>2
  <2>2. {j \in E : j < p + 1} = {j \in E : j < p}
    BY <2>1
  <2>3. \A m \in 1..n : g[m] < p + 1
    <3> SUFFICES ASSUME NEW m \in 1..n PROVE g[m] < p + 1
      OBVIOUS
    <3>1. g[m] \in Nat /\ g[m] < p
      BY <1>1
    <3> QED
      BY <1>1, <3>1
  <2>4. Enumerates(g, n, E, p + 1)
    BY <1>1, <2>1, <2>2, <2>3 DEF Enumerates
  <2> QED
    BY <1>2, <2>4
<1>3. CASE p \in E
  <2> DEFINE f == With(g, n, p)
             D == {j \in E : j < p}
  <2>1. /\ f \in [1..(n + 1) -> E] /\ f[n + 1] = p
        /\ \A m \in 1..n : f[m] = g[m]
    <3>1. \A m \in 1..(n + 1) : m = n + 1 \/ m \in 1..n
      BY <1>1
    <3>2. \A m \in 1..n : m # n + 1 /\ m \in 1..(n + 1)
      BY <1>1
    <3>3. n + 1 \in 1..(n + 1)
      BY <1>1
    <3> QED
      BY <1>1, <1>3, <3>1, <3>2, <3>3 DEF With
  <2> HIDE DEF f
  <2>2. {j \in E : j < p + 1} = D \union {p}
    <3>1. \A j \in E : j < p + 1 <=> j < p \/ j = p
      BY <1>1
    <3> QED
      BY <1>3, <3>1
  <2>3. IsFiniteSet(D)
    <3>1. IsFiniteSet(1..N)
      BY FS_Interval
    <3>2. D \in SUBSET (1..N)
      OBVIOUS
    <3> HIDE DEF D
    <3> QED
      BY <3>1, <3>2, FS_Subset
  <2>4. p \notin D
    BY <1>1
  <2>5. n = Cardinality(D)
    BY <1>1
  <2> HIDE DEF D
  <2>6. n + 1 = Cardinality({j \in E : j < p + 1})
    BY <2>2, <2>3, <2>4, <2>5, FS_AddElement
  <2>7. ASSUME NEW m \in 1..(n + 1)
        PROVE  f[m] < p + 1 /\ Cardinality({j \in E : j < f[m]}) = m - 1
    <3>1. CASE m = n + 1
      <4>1. f[m] = p /\ {j \in E : j < f[m]} = D
        BY <2>1, <3>1 DEF D
      <4> QED
        BY <1>1, <2>5, <3>1, <4>1
    <3>2. CASE m # n + 1
      <4>1. m \in 1..n
        BY <1>1, <3>2
      <4>2. f[m] = g[m] /\ g[m] \in Nat /\ g[m] < p
        BY <1>1, <2>1, <4>1
      <4>3. Cardinality({j \in E : j < f[m]}) = m - 1
        BY <1>1, <4>1, <4>2
      <4> QED
        BY <1>1, <4>2, <4>3
    <3> QED
      BY <3>1, <3>2
  <2>8. ASSUME NEW j \in E, j < p + 1
        PROVE  \E m \in 1..(n + 1) : f[m] = j
    <3>1. CASE j = p
      <4>1. n + 1 \in 1..(n + 1) /\ f[n + 1] = j
        BY <1>1, <2>1, <3>1
      <4> QED
        BY <4>1
    <3>2. CASE j # p
      <4>1. j < p
        BY <1>1, <2>8, <3>2
      <4>2. PICK m \in 1..n : g[m] = j
        BY <1>1, <4>1
      <4>3. m \in 1..(n + 1) /\ f[m] = j
        BY <1>1, <2>1, <4>2
      <4> QED
        BY <4>3
    <3> QED
      BY <3>1, <3>2
  <2>9. n + 1 \in Nat /\ f \in [1..(n + 1) -> E]
    BY <1>1, <2>1
  <2>10. \A j \in E : j < p + 1 => \E m \in 1..(n + 1) : f[m] = j
    BY <2>8
  <2>11. \A m \in 1..(n + 1) : f[m] < p + 1 /\ Cardinality({j \in E : j < f[m]}) = m - 1
    BY <2>7
  <2>12. Enumerates(f, n + 1, E, p + 1)
    BY <2>6, <2>9, <2>10, <2>11, Zenon DEF Enumerates
  <2> QED
    BY <1>3, <2>12 DEF f
<1> QED
  BY <1>2, <1>3

\* The jobs of the first n users that start.
Sent(tq, g, n) == [m \in 1..n |-> AbsProofs!JobOf(tq[g[m]])]

\* One more job at the end.
LEMMA SentMore ==
  ASSUME NEW N \in Nat, NEW tq \in [1..N -> AbsProofs!TryingUser], NEW n \in Nat,
         NEW g \in [1..n -> 1..N], NEW p \in 1..N, NEW js \in Seq(AbsProofs!AssignJob)
  PROVE  Append(js \o Sent(tq, g, n), AbsProofs!JobOf(tq[p]))
           = js \o Sent(tq, With(g, n, p), n + 1)
<1> DEFINE f == With(g, n, p)
           J == AbsProofs!AssignJob
           job == AbsProofs!JobOf(tq[p])
           a == Sent(tq, g, n)
           b == Sent(tq, f, n + 1)
<1>1. \A u \in AbsProofs!TryingUser : AbsProofs!JobOf(u) \in J
  BY DEF AbsProofs!JobOf, AbsProofs!TryingUser, AbsProofs!AssignJob
<1>2. n + 1 \in 1..(n + 1) /\ \A m \in 1..n : m # n + 1 /\ m \in 1..(n + 1)
  OBVIOUS
<1>3. /\ \A m \in 1..n : f[m] = g[m] /\ f[m] \in 1..N
      /\ f[n + 1] = p
      /\ \A m \in 1..(n + 1) : f[m] \in 1..N
  <2>1. \A m \in 1..(n + 1) : m = n + 1 \/ m \in 1..n
    OBVIOUS
  <2> QED
    BY <1>2, <2>1 DEF With
<1> HIDE DEF f, J
<1>4. job \in J
  BY <1>1
<1>5. a \in [1..n -> J] /\ \A m \in 1..n : a[m] = AbsProofs!JobOf(tq[g[m]])
  BY <1>1 DEF Sent
<1>6. b \in [1..(n + 1) -> J] /\ \A m \in 1..(n + 1) : b[m] = AbsProofs!JobOf(tq[f[m]])
  BY <1>1, <1>3 DEF Sent
<1> HIDE DEF a, b, job
<1>7. \A m \in 1..n : b[m] = a[m]
  BY <1>2, <1>3, <1>5, <1>6
<1>8. b[n + 1] = job
  BY <1>2, <1>3, <1>6 DEF job
<1>9. b = Append(a, job)
  BY <1>4, <1>5, <1>6, <1>7, <1>8, AppendIs
<1>10. a \in Seq(J) /\ js \in Seq(J) /\ <<job>> \in Seq(J)
  BY <1>4, <1>5, FunctionIsSeq DEF J
<1>11. js \o a \in Seq(J)
  BY <1>10, ConcatProperties
<1>12. Append(js \o a, job) = (js \o a) \o <<job>>
  BY <1>4, <1>11, AppendIsConcat
<1>13. Append(a, job) = a \o <<job>>
  BY <1>4, <1>10, AppendIsConcat
<1>14. (js \o a) \o <<job>> = js \o (a \o <<job>>)
  BY <1>10, ConcatAssociative
<1> QED
  BY <1>9, <1>12, <1>13, <1>14 DEF a, b, f, job

Value(u, marked) == IF marked THEN Marked(u, "PROCESSING") ELSE u

\* The loop of arrange_job on heap h has come to position p, and the first n
\* users that may start have started.
ArrangedTo(at, h, r, tq, p, g, n) ==
  /\ p \in 1..(Len(r) + 1)
  /\ Enumerates(g, n, AbsProofs!Eligible(tq), p)
  /\ at = [h |-> at.h, iter |-> NodeAt(r, p)]
  /\ IsHeap(at.h) /\ at.h.candidates = h.candidates /\ at.h.ok = h.ok
  /\ SameNodes(h.trying, at.h.trying)
  /\ n <= AbsProofs!FreeWorkers(h.working_job)
  /\ at.h.working_job = h.working_job + n
  /\ at.h.jobs = h.jobs \o Sent(tq, g, n)
  /\ \A j \in 1..Len(r) :
       at.h.trying.node[r[j]].value =
         Value(h.trying.node[r[j]].value, j \in AbsProofs!Eligible(tq) /\ j < p)

\* A round starts one user or passes it, or is one after the end.
LEMMA ArrangeRoundMoves ==
  ASSUME NEW h, IsHeap(h), NEW S, NEW s, NEW r, View(h.candidates, h.trying, S, s, r),
         NEW k \in Counters, h.working_job \in Nat, h.jobs \in Seq(AbsProofs!AssignJob),
         NEW at, NEW p, NEW g, NEW n,
         ArrangedTo(at, h, r, TryOf(h.candidates, h.trying, r, k), p, g, n)
  PROVE  IF p = Len(r) + 1 \/ at.h.working_job >= WORKER_NUMBER
         THEN ArrangeRound(at, k) = at
         ELSE \E g1, n1 : ArrangedTo(ArrangeRound(at, k), h, r,
                            TryOf(h.candidates, h.trying, r, k), p + 1, g1, n1)
<1> DEFINE c == h.candidates
           t == h.trying
           tq == TryOf(c, t, r, k)
           E == AbsProofs!Eligible(tq)
           N == Len(r)
           l == at.h
           iter == r[p]
           next == [h |-> IF MayStart(l, iter) THEN Start(l, iter, k) ELSE l,
                    iter |-> l.trying.node[iter].next]
<1>1. /\ N \in Nat /\ View(c, t, S, s, r) /\ Chain(t, r)
      /\ \A j \in 1..N : r[j] \in Addr /\ r[j] \in DOMAIN t.node
      /\ \A i, j \in 1..N : r[i] = r[j] => i = j
      /\ \A j \in 1..N : t.node[r[j]].value.matchingWith \in DOMAIN c.node
  <2>1. Chain(t, r) /\ Live(c, t)
    BY DEF View
  <2>2. /\ N \in Nat
        /\ \A j \in 1..N : r[j] \in Addr /\ r[j] \in DOMAIN t.node
        /\ \A i, j \in 1..N : r[i] = r[j] => i = j
    BY ViewChains
  <2> QED
    BY <2>1, <2>2 DEF Live
<1>2. /\ tq \in [1..N -> AbsProofs!TryingUser]
      /\ DOMAIN tq = 1..N
      /\ \A j \in 1..N : tq[j] = Seen(c, k, t.node[r[j]].value)
  BY ViewSeqs
<1>3. /\ p \in 1..(N + 1) /\ Enumerates(g, n, E, p)
      /\ at = [h |-> l, iter |-> NodeAt(r, p)]
      /\ IsHeap(l) /\ l.candidates = c /\ l.ok = h.ok
      /\ SameNodes(t, l.trying)
      /\ n <= AbsProofs!FreeWorkers(h.working_job)
      /\ l.working_job = h.working_job + n
      /\ l.jobs = h.jobs \o Sent(tq, g, n)
      /\ \A j \in 1..N : l.trying.node[r[j]].value
                           = Value(t.node[r[j]].value, j \in E /\ j < p)
  BY DEF ArrangedTo
<1>4. E \in SUBSET (1..N)
  BY <1>2 DEF AbsProofs!Eligible
<1> HIDE DEF tq, l, E
<1>5. CASE p = N + 1
  <2>1. at.iter = Null
    BY <1>1, <1>3, <1>5 DEF NodeAt
  <2>2. ArrangeRound(at, k) = at
    BY <2>1 DEF ArrangeRound
  <2> QED
    BY <1>5, <2>2
<1>6. CASE l.working_job >= WORKER_NUMBER
  <2>1. ArrangeRound(at, k) = at
    BY <1>6 DEF ArrangeRound, l
  <2> QED
    BY <1>6, <2>1 DEF l
<1>7. CASE p # N + 1 /\ ~(l.working_job >= WORKER_NUMBER)
  <2>1. p \in 1..N /\ at.iter = iter /\ iter # Null /\ iter \in DOMAIN t.node
    BY <1>1, <1>3, <1>7, NullApart DEF NodeAt
  <2>2. ArrangeRound(at, k) = next
    BY <1>7, <2>1 DEF ArrangeRound, l
  <2>3. /\ l.trying \in ListOf(TryingUser) /\ DOMAIN l.trying.node = DOMAIN t.node
        /\ \A a \in DOMAIN t.node : l.trying.node[a].next = t.node[a].next
    BY <1>3 DEF SameNodes
  <2>4. l.trying.node[iter].value = t.node[iter].value
    <3>1. ~(p \in E /\ p < p)
      BY <2>1
    <3> QED
      BY <1>3, <2>1, <3>1 DEF Value
  <2>5. \A j \in 1..N : l.trying.node[r[j]].value.matchingWith = t.node[r[j]].value.matchingWith
    <3> SUFFICES ASSUME NEW j \in 1..N
                 PROVE  l.trying.node[r[j]].value.matchingWith = t.node[r[j]].value.matchingWith
      OBVIOUS
    <3>1. \A u, b : Value(u, b).matchingWith = IF b THEN Marked(u, "PROCESSING").matchingWith
                                               ELSE u.matchingWith
      BY DEF Value
    <3>2. \A u : Marked(u, "PROCESSING").matchingWith = u.matchingWith
      BY DEF Marked
    <3> QED
      BY <1>3, <3>1, <3>2
  <2>6. MayStart(l, iter) <=> p \in E
    BY <1>1, <1>3, <2>1, <2>4, <2>5, MayStartIs DEF E, tq
  <2>7. l.trying.node[iter].next = NodeAt(r, p + 1)
    <3>1. t.node[iter].next = IF p = N THEN Null ELSE r[p + 1]
      BY <1>1, <2>1 DEF Chain
    <3> QED
      BY <1>1, <2>1, <2>3, <3>1 DEF NodeAt
  <2>8. IF p \in E THEN Enumerates(With(g, n, p), n + 1, E, p + 1)
                   ELSE Enumerates(g, n, E, p + 1)
    BY <1>1, <1>3, <1>4, <2>1, EnumeratesMore
  <2>9. p + 1 \in 1..(N + 1)
    BY <1>1, <2>1
  <2>10. \A j \in 1..N : j < p + 1 <=> j < p \/ j = p
    BY <1>1, <2>1
  <2>11. CASE p \notin E
    <3>1. next = [h |-> l, iter |-> NodeAt(r, p + 1)]
      BY <2>6, <2>7, <2>11
    <3>2. \A j \in 1..N : (j \in E /\ j < p + 1) <=> (j \in E /\ j < p)
      BY <2>10, <2>11
    <3>3. \A j \in 1..N : l.trying.node[r[j]].value
                            = Value(t.node[r[j]].value, j \in E /\ j < p + 1)
      BY <1>3, <3>2 DEF Value
    <3>4. Enumerates(g, n, E, p + 1)
      BY <2>8, <2>11
    <3>5. next.h = l
      BY <3>1
    <3> HIDE DEF next
    <3>6. ArrangedTo(next, h, r, tq, p + 1, g, n)
      BY <1>3, <2>9, <3>1, <3>3, <3>4, <3>5 DEF ArrangedTo, E
    <3> QED
      BY <1>7, <2>2, <3>6 DEF tq, l
  <2>12. CASE p \in E
    <3> DEFINE m == Start(l, iter, k)
    <3>1. next = [h |-> m, iter |-> NodeAt(r, p + 1)]
      BY <2>6, <2>7, <2>12
    <3>2. next.h = m
      BY <3>1
    <3>3. /\ IsHeap(m) /\ m.candidates = c /\ m.ok = h.ok
          /\ m.working_job = l.working_job + 1
          /\ m.jobs = Append(l.jobs, AbsProofs!JobOf(Seen(c, k, t.node[iter].value)))
          /\ SameNodes(l.trying, m.trying)
          /\ \A b \in DOMAIN t.node :
               m.trying.node[b].value = IF b = iter THEN Marked(t.node[iter].value, "PROCESSING")
                                        ELSE l.trying.node[b].value
      <4>1. /\ IsHeap(l) /\ l.trying \in ListOf(TryingUser)
            /\ iter \in DOMAIN l.trying.node
            /\ l.trying.node[iter].value.matchingWith \in DOMAIN l.candidates.node
        BY <1>1, <1>3, <2>1, <2>3, <2>4
      <4>2. /\ IsHeap(m) /\ m.candidates = l.candidates /\ m.ok = l.ok
            /\ m.working_job = l.working_job + 1
            /\ m.jobs = Append(l.jobs, AbsProofs!JobOf(
                                  Seen(l.candidates, k, l.trying.node[iter].value)))
            /\ SameNodes(l.trying, m.trying)
            /\ \A b \in DOMAIN l.trying.node :
                 m.trying.node[b].value =
                   IF b = iter THEN Marked(l.trying.node[iter].value, "PROCESSING")
                   ELSE l.trying.node[b].value
        BY <4>1, StartIs
      <4> HIDE DEF m
      <4> QED
        BY <1>3, <2>3, <2>4, <4>2
    <3> HIDE DEF m, next
    <3>4. SameNodes(t, m.trying)
      BY <1>3, <3>3, SameNodesTrans
    <3>5. m.jobs = h.jobs \o Sent(tq, With(g, n, p), n + 1)
      <4>1. m.jobs = Append(h.jobs \o Sent(tq, g, n), AbsProofs!JobOf(tq[p]))
        BY <1>2, <1>3, <2>1, <3>3
      <4>2. n \in Nat /\ g \in [1..n -> 1..N]
        BY <1>3, <1>4 DEF Enumerates
      <4> QED
        BY <1>1, <1>2, <2>1, <4>1, <4>2, SentMore
    <3>6. /\ n + 1 <= AbsProofs!FreeWorkers(h.working_job)
          /\ m.working_job = h.working_job + (n + 1)
      <4>1. n \in Nat /\ WORKER_NUMBER \in Nat
        BY <1>3, AbsAssumed DEF Enumerates, AbsProofs!ConstantsAssumption
      <4>2. h.working_job + n < WORKER_NUMBER
        BY <1>3, <1>7, <4>1
      <4> QED
        BY <1>3, <3>3, <4>1, <4>2 DEF AbsProofs!FreeWorkers
    <3>7. ASSUME NEW j \in 1..N
          PROVE  m.trying.node[r[j]].value = Value(t.node[r[j]].value, j \in E /\ j < p + 1)
      <4>1. CASE j = p
        <5>1. m.trying.node[r[j]].value = Marked(t.node[r[j]].value, "PROCESSING")
          BY <1>1, <3>3, <4>1
        <5>2. j \in E /\ j < p + 1
          BY <2>10, <2>12, <4>1
        <5> QED
          BY <5>1, <5>2 DEF Value
      <4>2. CASE j # p
        <5>1. m.trying.node[r[j]].value = l.trying.node[r[j]].value
          BY <1>1, <2>1, <3>3, <4>2
        <5>2. j < p + 1 <=> j < p
          BY <2>10, <4>2
        <5> QED
          BY <1>3, <5>1, <5>2 DEF Value
      <4> QED
        BY <4>1, <4>2
    <3>8. Enumerates(With(g, n, p), n + 1, E, p + 1)
      BY <2>8, <2>12
    <3>9. ArrangedTo(next, h, r, tq, p + 1, With(g, n, p), n + 1)
      BY <2>9, <3>1, <3>2, <3>3, <3>4, <3>5, <3>6, <3>7, <3>8 DEF ArrangedTo, E
    <3> QED
      BY <1>7, <2>2, <3>9 DEF tq, l
  <2> QED
    BY <2>11, <2>12
<1> QED
  BY <1>5, <1>6, <1>7

\* Before the first round nobody has started.
LEMMA ArrangeStarts ==
  ASSUME NEW h, IsHeap(h), NEW r, Chain(h.trying, r), h.trying \in ListOf(TryingUser),
         NEW tq, DOMAIN tq = 1..Len(r),
         h.working_job \in Nat, h.jobs \in Seq(AbsProofs!AssignJob)
  PROVE  ArrangedTo([h |-> h, iter |-> h.trying.head], h, r, tq, 1, <<>>, 0)
<1> DEFINE E == AbsProofs!Eligible(tq)
<1>1. Len(r) \in Nat /\ h.trying.head = NodeAt(r, 1)
  BY DEF Chain, NodeAt
<1>2. E \in SUBSET (1..Len(r))
  BY DEF AbsProofs!Eligible
<1> HIDE DEF E
<1>3. \A j \in E : ~(j < 1)
  BY <1>1, <1>2
<1>4. Enumerates(<<>>, 0, E, 1)
  <2>1. {j \in E : j < 1} = {}
    BY <1>3
  <2>2. Cardinality({}) = 0
    BY FS_EmptySet
  <2>3. <<>> \in [1..0 -> E]
    OBVIOUS
  <2>4. \A m \in 1..0 : FALSE
    OBVIOUS
  <2>5. \A m \in 1..0 : /\ <<>>[m] < 1
                        /\ Cardinality({j \in E : j < <<>>[m]}) = m - 1
    BY <2>4
  <2>6. \A j \in E : j < 1 => \E m \in 1..0 : <<>>[m] = j
    BY <1>3
  <2> QED
    BY <2>1, <2>2, <2>3, <2>5, <2>6, Zenon DEF Enumerates
<1>5. h.jobs \o Sent(tq, <<>>, 0) = h.jobs
  <2>1. Sent(tq, <<>>, 0) = <<>>
    BY DEF Sent
  <2> QED
    BY <2>1, ConcatEmptySeq
<1>6. SameNodes(h.trying, h.trying)
  BY DEF SameNodes
<1>7. /\ h.working_job = h.working_job + 0
      /\ 0 <= AbsProofs!FreeWorkers(h.working_job)
      /\ 1 \in 1..(Len(r) + 1)
  <2>1. WORKER_NUMBER \in Nat
    BY AbsAssumed DEF AbsProofs!ConstantsAssumption
  <2> QED
    BY <1>1, <2>1 DEF AbsProofs!FreeWorkers
<1>8. \A j \in 1..Len(r) : h.trying.node[r[j]].value
                             = Value(h.trying.node[r[j]].value, j \in E /\ j < 1)
  BY <1>3 DEF Value
<1> QED
  BY <1>1, <1>4, <1>5, <1>6, <1>7, <1>8 DEF ArrangedTo, E

\* The loop ends at the end of trying_queue or when no worker is free.
LEMMA ArrangeRuns ==
  ASSUME NEW h, IsHeap(h), NEW S, NEW s, NEW r, View(h.candidates, h.trying, S, s, r),
         NEW k \in Counters, h.working_job \in Nat, h.jobs \in Seq(AbsProofs!AssignJob)
  PROVE  \E p, g, n :
           /\ ArrangedTo([h |-> Arrange(h, k), iter |-> NodeAt(r, p)], h, r,
                         TryOf(h.candidates, h.trying, r, k), p, g, n)
           /\ p = Len(r) + 1 \/ Arrange(h, k).working_job >= WORKER_NUMBER
<1> DEFINE N == Cardinality(Addr)
           tq == TryOf(h.candidates, h.trying, r, k)
           after == CHOOSE f : ArrangeRounds(f, N, h, k)
<1>1. Chain(h.trying, r) /\ h.trying \in ListOf(TryingUser)
  BY DEF View, Lists
<1>2. N \in Nat /\ Len(r) \in Nat /\ Len(r) <= N
  BY <1>1, ChainBound
<1>3. Arrange(h, k) = after[N].h
  BY DEF Arrange, ArrangeRounds
<1>4. ArrangeRounds(after, N, h, k)
  BY <1>2, ArrangeRoundsExist
<1>5. DOMAIN tq = 1..Len(r)
  BY ViewSeqs
<1> HIDE DEF after, N
<1>6. \A i \in 0..N : after[i] = IF i = 0 THEN [h |-> h, iter |-> h.trying.head]
                                 ELSE ArrangeRound(after[i-1], k)
  BY <1>4 DEF ArrangeRounds
<1> DEFINE Over(i, p) == p = Len(r) + 1 \/ after[i].h.working_job >= WORKER_NUMBER
           Good(i) == \E p, g, n : /\ ArrangedTo(after[i], h, r, tq, p, g, n)
                                   /\ Over(i, p) \/ p >= 1 + i
           B == {i \in 0..N : ~Good(i)}
<1>7. B = {}
  <2>1. SUFFICES ASSUME B # {} PROVE FALSE
    OBVIOUS
  <2>2. PICK i \in B : \A x \in B : i <= x
    <3>1. B \in SUBSET Nat
      BY <1>2
    <3> HIDE DEF B
    <3> QED
      BY <2>1, <3>1, MinOfNats
  <2>3. CASE i = 0
    <3>1. after[0] = [h |-> h, iter |-> h.trying.head]
      BY <1>6, <2>2, <2>3
    <3>2. ArrangedTo(after[0], h, r, tq, 1, <<>>, 0)
      <4> HIDE DEF tq
      <4> QED
        BY <1>1, <1>5, <3>1, ArrangeStarts
    <3>3. Good(0)
      <4>1. 1 >= 1 + 0
        OBVIOUS
      <4> QED
        BY <3>2, <4>1
    <3> QED
      BY <2>2, <2>3, <3>3
  <2>4. CASE i # 0
    <3>1. i-1 \in 0..N /\ i-1 \notin B /\ i \in 0..N
      BY <1>2, <2>2, <2>4
    <3>2. PICK p, g, n : /\ ArrangedTo(after[i-1], h, r, tq, p, g, n)
                         /\ Over(i-1, p) \/ p >= 1 + (i - 1)
      BY <3>1
    <3>3. after[i] = ArrangeRound(after[i-1], k)
      BY <1>6, <2>4, <3>1
    <3>4. IF Over(i-1, p) THEN after[i] = after[i-1]
          ELSE \E g1, n1 : ArrangedTo(after[i], h, r, tq, p + 1, g1, n1)
      <4>1. CASE Over(i-1, p)
        <5>1. ArrangeRound(after[i-1], k) = after[i-1]
          BY <3>2, <4>1, ArrangeRoundMoves
        <5> QED
          BY <3>3, <4>1, <5>1
      <4>2. CASE ~Over(i-1, p)
        <5>1. \E g1, n1 : ArrangedTo(ArrangeRound(after[i-1], k), h, r, tq, p + 1, g1, n1)
          BY <3>2, <4>2, ArrangeRoundMoves
        <5> QED
          BY <3>3, <4>2, <5>1
      <4> QED
        BY <4>1, <4>2
    <3>5. Good(i)
      <4>1. CASE Over(i-1, p)
        <5>1. after[i] = after[i-1]
          BY <3>4, <4>1
        <5>2. ArrangedTo(after[i], h, r, tq, p, g, n) /\ Over(i, p)
          BY <3>2, <4>1, <5>1
        <5> QED
          BY <5>2
      <4>2. CASE ~Over(i-1, p)
        <5>1. PICK g1, n1 : ArrangedTo(after[i], h, r, tq, p + 1, g1, n1)
          BY <3>4, <4>2
        <5>2. p + 1 >= 1 + i
          <6>1. p \in Int /\ p >= 1 + (i - 1)
            <7>1. p \in 1..(Len(r) + 1)
              BY <3>2 DEF ArrangedTo
            <7>2. p >= 1 + (i - 1)
              BY <3>2, <4>2
            <7> QED
              BY <1>2, <7>1, <7>2
          <6> QED
            BY <3>1, <6>1
        <5> QED
          BY <5>1, <5>2
      <4> QED
        BY <4>1, <4>2
    <3> QED
      BY <2>2, <3>5
  <2> QED
    BY <2>3, <2>4
<1>8. N \in 0..N
  BY <1>2
<1>9. Good(N)
  BY <1>7, <1>8
<1>10. PICK p, g, n : /\ ArrangedTo(after[N], h, r, tq, p, g, n)
                      /\ Over(N, p) \/ p >= 1 + N
  BY <1>9
<1>11. Over(N, p)
  BY <1>2, <1>10 DEF ArrangedTo
<1>12. after[N] = [h |-> after[N].h, iter |-> NodeAt(r, p)]
  BY <1>10 DEF ArrangedTo
<1> QED
  BY <1>3, <1>10, <1>11, <1>12

\* The heap end is h after the users of a StartOrder have started: nothing but
\* their marks changes.
ArrangesTo(end, h, S, s, r, k) ==
  LET tq == TryOf(h.candidates, h.trying, r, k)
  IN /\ end.candidates = h.candidates /\ end.ok = h.ok
     /\ View(end.candidates, end.trying, S, s, r)
     /\ \E f \in AbsProofs!StartOrder(tq, h.working_job) :
          /\ end.working_job = h.working_job + Len(f)
          /\ end.jobs = h.jobs \o [m \in DOMAIN f |-> AbsProofs!JobOf(tq[f[m]])]
          /\ TryOf(end.candidates, end.trying, r, k) =
               [i \in DOMAIN tq |-> IF i \in AbsProofs!Range(f)
                                    THEN [tq[i] EXCEPT !.progress = "PROCESSING"]
                                    ELSE tq[i]]

\* arrange_job is what Matching says of it.
LEMMA ArrangeIs ==
  ASSUME NEW h, IsHeap(h), NEW S, NEW s, NEW r, View(h.candidates, h.trying, S, s, r),
         NEW k \in Counters, h.working_job \in Nat, h.jobs \in Seq(AbsProofs!AssignJob)
  PROVE  ArrangesTo(Arrange(h, k), h, S, s, r, k)
<1> DEFINE end == Arrange(h, k)
           c == h.candidates
           t == h.trying
           tq == TryOf(c, t, r, k)
           E == AbsProofs!Eligible(tq)
           w == h.working_job
           N == Len(r)
<1>1. PICK p, g, n :
        /\ ArrangedTo([h |-> end, iter |-> NodeAt(r, p)], h, r, tq, p, g, n)
        /\ p = N + 1 \/ end.working_job >= WORKER_NUMBER
  BY ArrangeRuns
<1>2. /\ DOMAIN tq = 1..N /\ N \in Nat
      /\ \A j \in 1..N : tq[j] = Seen(c, k, t.node[r[j]].value)
  BY ViewSeqs, ViewChains
<1>3. E \in SUBSET (1..N)
  BY <1>2 DEF AbsProofs!Eligible
<1> HIDE DEF end, tq, E
<1>4. /\ p \in 1..(N + 1) /\ Enumerates(g, n, E, p)
      /\ end.candidates = c /\ end.ok = h.ok
      /\ SameNodes(t, end.trying)
      /\ n <= AbsProofs!FreeWorkers(w)
      /\ end.working_job = w + n
      /\ end.jobs = h.jobs \o Sent(tq, g, n)
      /\ \A j \in 1..N : end.trying.node[r[j]].value
                           = Value(t.node[r[j]].value, j \in E /\ j < p)
  <2>1. [h |-> end, iter |-> NodeAt(r, p)].h = end
    OBVIOUS
  <2> QED
    BY <1>1, <2>1 DEF ArrangedTo, E
<1>5. /\ n \in Nat /\ g \in [1..n -> E] /\ n = Cardinality({j \in E : j < p})
      /\ \A m \in 1..n : g[m] < p /\ Cardinality({j \in E : j < g[m]}) = m - 1
      /\ \A j \in E : j < p => \E m \in 1..n : g[m] = j
  BY <1>4 DEF Enumerates
<1>6. IsFiniteSet(E) /\ Cardinality(E) \in Nat /\ n <= Cardinality(E)
      /\ (p = N + 1 => n = Cardinality(E))
  <2>1. IsFiniteSet(1..N)
    BY <1>2, FS_Interval
  <2>2. IsFiniteSet(E)
    BY <1>3, <2>1, FS_Subset
  <2>3. Cardinality(E) \in Nat
    BY <2>2, FS_CardinalityType
  <2>4. Cardinality({j \in E : j < p}) <= Cardinality(E)
    <3>1. {j \in E : j < p} \in SUBSET E
      OBVIOUS
    <3> QED
      BY <2>2, <3>1, FS_Subset
  <2>5. ASSUME p = N + 1
        PROVE  n = Cardinality(E)
    <3>1. \A j \in E : j < p
      BY <1>2, <1>3, <2>5
    <3>2. {j \in E : j < p} = E
      BY <3>1
    <3> QED
      BY <1>5, <3>2
  <2> QED
    BY <1>5, <2>2, <2>3, <2>4, <2>5
<1>7. n = IF Cardinality(E) <= AbsProofs!FreeWorkers(w) THEN Cardinality(E)
          ELSE AbsProofs!FreeWorkers(w)
  <2>1. WORKER_NUMBER \in Nat
    BY AbsAssumed DEF AbsProofs!ConstantsAssumption
  <2>2. AbsProofs!FreeWorkers(w) = IF w < WORKER_NUMBER THEN WORKER_NUMBER - w ELSE 0
    BY DEF AbsProofs!FreeWorkers
  <2>3. CASE p = N + 1
    BY <1>4, <1>6, <2>3
  <2>4. CASE w + n >= WORKER_NUMBER
    <3>1. n >= AbsProofs!FreeWorkers(w)
      BY <1>5, <2>1, <2>2, <2>4
    <3> QED
      BY <1>4, <1>5, <1>6, <2>1, <2>2, <3>1
  <2> QED
    BY <1>1, <1>4, <2>3, <2>4
<1>8. g \in AbsProofs!StartOrder(tq, w)
  <2>1. \A m \in 1..n : AbsProofs!Cardinality({j \in E : j < g[m]}) = m - 1
    BY <1>5, AbsCardinality
  <2>2. n = IF AbsProofs!Cardinality(E) <= AbsProofs!FreeWorkers(w)
            THEN AbsProofs!Cardinality(E) ELSE AbsProofs!FreeWorkers(w)
    BY <1>7, AbsCardinality
  <2> QED
    BY <1>5, <2>1, <2>2 DEF AbsProofs!StartOrder, E
<1>9. Len(g) = n /\ DOMAIN g = 1..n
  BY <1>5, FunctionIsSeq
<1>10. end.jobs = h.jobs \o [m \in DOMAIN g |-> AbsProofs!JobOf(tq[g[m]])]
  BY <1>4, <1>9 DEF Sent
<1>11. \A j \in 1..N : j \in AbsProofs!Range(g) <=> j \in E /\ j < p
  <2> SUFFICES ASSUME NEW j \in 1..N PROVE j \in AbsProofs!Range(g) <=> j \in E /\ j < p
    OBVIOUS
  <2>1. j \in AbsProofs!Range(g) <=> \E m \in 1..n : g[m] = j
    BY <1>9 DEF AbsProofs!Range
  <2> QED
    BY <1>5, <2>1
<1>12. \A j \in 1..N : end.trying.node[r[j]].value
                         = Value(t.node[r[j]].value, j \in AbsProofs!Range(g))
  BY <1>4, <1>11 DEF Value
<1>13. \A u, b : /\ Value(u, b).matchingWith = u.matchingWith
                 /\ Seen(c, k, Value(u, b)) = IF b THEN [Seen(c, k, u) EXCEPT !.progress = "PROCESSING"]
                                              ELSE Seen(c, k, u)
  <2>1. \A u : /\ Marked(u, "PROCESSING").matchingWith = u.matchingWith
               /\ Seen(c, k, Marked(u, "PROCESSING"))
                    = [Seen(c, k, u) EXCEPT !.progress = "PROCESSING"]
    BY DEF Marked, Seen
  <2> QED
    BY <2>1 DEF Value
<1>14. Live(c, end.trying)
  <2> SUFFICES ASSUME NEW a \in DOMAIN end.trying.node
               PROVE  end.trying.node[a].value.matchingWith \in DOMAIN c.node
    BY DEF Live
  <2>1. a \in DOMAIN t.node
    BY <1>4 DEF SameNodes
  <2>2. PICK j \in 1..N : a = r[j]
    BY <2>1, ViewChains
  <2>3. end.trying.node[a].value.matchingWith = t.node[a].value.matchingWith
    BY <1>12, <1>13, <2>2
  <2> QED
    BY <2>1, <2>3, ViewChains
<1>15. View(end.candidates, end.trying, S, s, r)
  BY <1>4, <1>14, ViewSameNodes
<1>16. TryOf(end.candidates, end.trying, r, k) =
         [i \in DOMAIN tq |-> IF i \in AbsProofs!Range(g)
                              THEN [tq[i] EXCEPT !.progress = "PROCESSING"]
                              ELSE tq[i]]
  <2>1. \A j \in 1..N : Seen(c, k, end.trying.node[r[j]].value)
                          = IF j \in AbsProofs!Range(g)
                            THEN [tq[j] EXCEPT !.progress = "PROCESSING"]
                            ELSE tq[j]
    <3> SUFFICES ASSUME NEW j \in 1..N
                 PROVE  Seen(c, k, end.trying.node[r[j]].value)
                          = IF j \in AbsProofs!Range(g)
                            THEN [tq[j] EXCEPT !.progress = "PROCESSING"]
                            ELSE tq[j]
      OBVIOUS
    <3> DEFINE b == j \in AbsProofs!Range(g)
               u == t.node[r[j]].value
    <3>1. end.trying.node[r[j]].value = Value(u, b) /\ tq[j] = Seen(c, k, u)
      BY <1>2, <1>12
    <3> HIDE DEF b, u
    <3>2. Seen(c, k, Value(u, b)) = IF b THEN [Seen(c, k, u) EXCEPT !.progress = "PROCESSING"]
                                    ELSE Seen(c, k, u)
      BY <1>13
    <3> QED
      BY <3>1, <3>2 DEF b
  <2> QED
    BY <1>2, <1>4, <2>1 DEF TryOf
<1> QED
  BY <1>4, <1>8, <1>9, <1>10, <1>15, <1>16 DEF end, tq, ArrangesTo

-----------------------------------------------------------------------------
(* The queues of the present state and of the next.                        *)

\* The lists, read along next from their heads.
CandWalk(c, k) == [i \in DOMAIN L!Walk(c) |-> Req(k, c.node[L!Walk(c)[i]].value)]

TryWalk(c, t, k) ==
  [j \in DOMAIN L!Walk(t) |->
     LET u == t.node[L!Walk(t)[j]].value
     IN [info |-> Req(k, u.id),
         matchingWith |-> IF u.matchingWith \in DOMAIN c.node
                          THEN Req(k, c.node[u.matchingWith].value) ELSE Dangling,
         progress |-> u.progress]]

\* The queues of Matching are these walks.
LEMMA QueuesAreWalks ==
  /\ CandidateQueue = CandWalk(candidates, try_match_counter)
  /\ TryingQueue = TryWalk(candidates, trying, try_match_counter)
  /\ CandidateQueue' = CandWalk(candidates', try_match_counter')
  /\ TryingQueue' = TryWalk(candidates', trying', try_match_counter')
BY DEF CandidateQueue, TryingQueue, CandWalk, TryWalk, Info, Req, Pointed, Dangling

\* On lists that are chains the walks see every node.
LEMMA WalksAre ==
  ASSUME NEW c, NEW t, NEW S, NEW s, NEW r, View(c, t, S, s, r), NEW k
  PROVE  CandWalk(c, k) = CandOf(c, s, k) /\ TryWalk(c, t, k) = TryOf(c, t, r, k)
<1>1. L!Walk(c) = s /\ L!Walk(t) = r
  BY WalkFollows DEF View
<1>2. DOMAIN s = 1..Len(s) /\ DOMAIN r = 1..Len(r)
  BY DEF View, Chain
<1>3. CandWalk(c, k) = CandOf(c, s, k)
  BY <1>1, <1>2 DEF CandWalk, CandOf
<1>4. ASSUME NEW j \in 1..Len(r)
      PROVE  t.node[r[j]].value.matchingWith \in DOMAIN c.node
  BY ViewChains
<1>5. TryWalk(c, t, k) = TryOf(c, t, r, k)
  BY <1>1, <1>2, <1>4 DEF TryWalk, TryOf, Seen
<1> QED
  BY <1>3, <1>5

\* A handler that ends in arrange_job with all pointers alive.
LEMMA FinishIs ==
  ASSUME NEW h, IsHeap(h), h.ok = TRUE, NEW S, NEW s, NEW r, View(h.candidates, h.trying, S, s, r),
         NEW k \in Counters, h.working_job \in Nat, h.jobs \in Seq(AbsProofs!AssignJob),
         Finish(h, k), try_match_counter' = k
  PROVE  AbsProofs!ArrangeJob(CandOf(h.candidates, s, k), TryOf(h.candidates, h.trying, r, k),
                              h.working_job, h.jobs)
<1> DEFINE end == Arrange(h, k)
           c == h.candidates
           cq == CandOf(c, s, k)
           tq == TryOf(c, h.trying, r, k)
<1>1. /\ candidates' = end.candidates /\ trying' = end.trying
      /\ working_job' = end.working_job /\ jobs' = end.jobs
      /\ process' = IF end.ok THEN process ELSE "undefined"
  BY DEF Finish
<1>2. /\ end.candidates = c /\ end.ok = h.ok
      /\ View(end.candidates, end.trying, S, s, r)
      /\ \E f \in AbsProofs!StartOrder(tq, h.working_job) :
           /\ end.working_job = h.working_job + Len(f)
           /\ end.jobs = h.jobs \o [m \in DOMAIN f |-> AbsProofs!JobOf(tq[f[m]])]
           /\ TryOf(end.candidates, end.trying, r, k) =
                [i \in DOMAIN tq |-> IF i \in AbsProofs!Range(f)
                                     THEN [tq[i] EXCEPT !.progress = "PROCESSING"]
                                     ELSE tq[i]]
  <2>1. ArrangesTo(end, h, S, s, r, k)
    BY ArrangeIs
  <2> HIDE DEF end
  <2> QED
    BY <2>1 DEF ArrangesTo
<1> HIDE DEF end
<1>3. PICK f \in AbsProofs!StartOrder(tq, h.working_job) :
        /\ end.working_job = h.working_job + Len(f)
        /\ end.jobs = h.jobs \o [m \in DOMAIN f |-> AbsProofs!JobOf(tq[f[m]])]
        /\ TryOf(end.candidates, end.trying, r, k) =
             [i \in DOMAIN tq |-> IF i \in AbsProofs!Range(f)
                                  THEN [tq[i] EXCEPT !.progress = "PROCESSING"]
                                  ELSE tq[i]]
  BY <1>2
<1>4. CandidateQueue' = CandOf(end.candidates, s, k)
      /\ TryingQueue' = TryOf(end.candidates, end.trying, r, k)
  BY <1>1, <1>2, QueuesAreWalks, WalksAre
<1>5. process' = process
  BY <1>1, <1>2
<1>6. \A m \in DOMAIN f : tq[f[m]].matchingWith \in AbsProofs!Range(cq)
  <2> SUFFICES ASSUME NEW m \in DOMAIN f PROVE tq[f[m]].matchingWith \in AbsProofs!Range(cq)
    OBVIOUS
  <2>1. f[m] \in DOMAIN tq
    <3>1. \E n : f \in [1..n -> AbsProofs!Eligible(tq)]
      BY DEF AbsProofs!StartOrder
    <3>2. f[m] \in AbsProofs!Eligible(tq)
      BY <3>1
    <3> QED
      BY <3>2 DEF AbsProofs!Eligible
  <2>2. PICK j \in 1..Len(r) : j = f[m]
    BY <2>1, ViewSeqs
  <2> DEFINE u == h.trying.node[r[j]].value
  <2>3. tq[j] = Seen(c, k, u) /\ u.matchingWith \in DOMAIN c.node
    BY ViewSeqs, ViewChains
  <2> HIDE DEF u
  <2>4. PICK i \in 1..Len(s) : u.matchingWith = s[i]
    BY <2>3, ViewChains
  <2>5. cq[i] = Req(k, c.node[s[i]].value) /\ i \in DOMAIN cq
    BY ViewSeqs
  <2> HIDE DEF tq, cq
  <2>6. tq[j].matchingWith = cq[i]
    BY <2>3, <2>4, <2>5 DEF Seen
  <2> QED
    BY <2>2, <2>5, <2>6 DEF AbsProofs!Range
<1>7. CandidateQueue' = cq
  BY <1>2, <1>4
<1> HIDE DEF tq, cq
<1>8. AbsProofs!ArrangeJob(cq, tq, h.working_job, h.jobs)
  BY <1>1, <1>3, <1>4, <1>5, <1>6, <1>7 DEF AbsProofs!ArrangeJob
<1> QED
  BY <1>8 DEF tq, cq

-----------------------------------------------------------------------------
(* The searches.                                                           *)

\* A user is found at its position in trying_queue, or nowhere in both.
LEMMA SearchId ==
  ASSUME NEW c, NEW t, NEW S, NEW s, NEW r, View(c, t, S, s, r), NEW k \in Counters, NEW id
  PROVE  LET i == AbsProofs!TryingAt(TryOf(c, t, r, k), id)
         IN /\ i = 0 <=> OfId(t, id) = Null
            /\ i # 0 => /\ i \in 1..Len(r) /\ OfId(t, id) = r[i]
                        /\ t.node[r[i]].value.id = id
<1> DEFINE tq == TryOf(c, t, r, k)
           i == AbsProofs!TryingAt(tq, id)
           a == OfId(t, id)
<1>1. /\ tq \in Seq(AbsProofs!TryingUser) /\ Len(tq) = Len(r)
      /\ \A j \in 1..Len(r) : tq[j] = Seen(c, k, t.node[r[j]].value)
  BY ViewSeqs
<1>2. IF a = Null THEN \A b \in DOMAIN t.node : t.node[b].value.id # id
                  ELSE a \in DOMAIN t.node /\ t.node[a].value.id = id
  BY FindId DEF View
<1> HIDE DEF a, tq
<1>3. \A j \in 1..Len(r) : tq[j].info.id = t.node[r[j]].value.id
  <2>1. \A u : Seen(c, k, u).info.id = u.id
    BY DEF Seen, Req
  <2> QED
    BY <1>1, <2>1
<1>4. i = 0 \/ (i \in 1..Len(r) /\ tq[i].info.id = id)
  BY <1>1, AbsAssumed, AbsProofs!TryingAtFinds
<1>5. (\E j \in 1..Len(r) : tq[j].info.id = id) => i # 0
  BY <1>1, AbsAssumed, AbsProofs!TryingAtFindsAny
<1> HIDE DEF i
<1>6. CASE a = Null
  <2>1. \A j \in 1..Len(r) : tq[j].info.id # id
    <3> SUFFICES ASSUME NEW j \in 1..Len(r) PROVE tq[j].info.id # id
      OBVIOUS
    <3>1. r[j] \in DOMAIN t.node
      BY ViewChains
    <3> QED
      BY <1>2, <1>3, <1>6, <3>1
  <2> QED
    BY <1>4, <1>6, <2>1 DEF i, a, tq
<1>7. CASE a # Null
  <2>1. PICK j \in 1..Len(r) : a = r[j]
    BY <1>2, <1>7, ViewChains
  <2>2. i # 0
    BY <1>2, <1>3, <1>5, <1>7, <2>1
  <2>3. i \in 1..Len(r) /\ t.node[r[i]].value.id = id
    BY <1>3, <1>4, <2>2
  <2>4. r[i] = a
    BY <1>2, <1>7, <2>3, ViewChains
  <2> QED
    BY <1>7, <2>2, <2>3, <2>4 DEF i, a, tq
<1> QED
  BY <1>6, <1>7

\* A candidate, too.
LEMMA SearchCandidate ==
  ASSUME NEW c, NEW t, NEW S, NEW s, NEW r, View(c, t, S, s, r), NEW k \in Counters, NEW id
  PROVE  LET p == AbsProofs!CandidateAt(CandOf(c, s, k), id)
         IN /\ p = 0 <=> OfCandidate(c, id) = Null
            /\ p # 0 => /\ p \in 1..Len(s) /\ OfCandidate(c, id) = s[p]
                        /\ c.node[s[p]].value = id
<1> DEFINE cq == CandOf(c, s, k)
           p == AbsProofs!CandidateAt(cq, id)
           a == OfCandidate(c, id)
<1>1. /\ cq \in Seq(AbsProofs!Info) /\ Len(cq) = Len(s) /\ DOMAIN cq = 1..Len(s)
      /\ \A j \in 1..Len(s) : cq[j] = Req(k, c.node[s[j]].value)
  BY ViewSeqs
<1>2. IF a = Null THEN \A b \in DOMAIN c.node : c.node[b].value # id
                  ELSE a \in DOMAIN c.node /\ c.node[a].value = id
  BY FindValue DEF View
<1> HIDE DEF a, cq
<1>3. \A j \in 1..Len(s) : cq[j].id = c.node[s[j]].value
  BY <1>1 DEF Req
<1>4. /\ p = 0 \/ (p \in 1..Len(s) /\ cq[p].id = id)
      /\ (\E n \in AbsProofs!Range(cq) : n.id = id) => p # 0
  BY <1>1, AbsAssumed, AbsProofs!CandidateAtFinds
<1>5. ASSUME NEW j \in 1..Len(s), cq[j].id = id
      PROVE  p # 0
  <2>1. cq[j] \in AbsProofs!Range(cq)
    BY <1>1 DEF AbsProofs!Range
  <2> QED
    BY <1>4, <1>5, <2>1
<1> HIDE DEF p
<1>6. CASE a = Null
  <2>1. \A j \in 1..Len(s) : cq[j].id # id
    BY <1>2, <1>3, <1>6, ViewChains
  <2> QED
    BY <1>4, <1>6, <2>1 DEF p, a, cq
<1>7. CASE a # Null
  <2>1. PICK j \in 1..Len(s) : a = s[j]
    BY <1>2, <1>7, ViewChains
  <2>2. p # 0
    BY <1>2, <1>3, <1>5, <1>7, <2>1
  <2>3. p \in 1..Len(s) /\ c.node[s[p]].value = id
    BY <1>3, <1>4, <2>2
  <2>4. s[p] = a
    BY <1>2, <1>7, <2>3, ViewChains
  <2> QED
    BY <1>7, <2>2, <2>3, <2>4 DEF p, a, cq
<1> QED
  BY <1>6, <1>7

\* Where the first user behind a candidate is, or the end of the queue.
FirstBehind(tq, node) ==
  IF AbsProofs!TryingWith(tq, node) = 0 THEN Len(tq) + 1 ELSE AbsProofs!TryingWith(tq, node)

\* The first user that waits for a candidate.
LEMMA SearchBehind ==
  ASSUME NEW c, NEW t, NEW S, NEW s, NEW r, View(c, t, S, s, r), NEW k \in Counters,
         NEW p \in 1..Len(s)
  PROVE  LET tq == TryOf(c, t, r, k)
             first == FirstBehind(tq, CandOf(c, s, k)[p])
         IN /\ first \in 1..(Len(r) + 1)
            /\ Behind(t, s[p]) = NodeAt(r, first)
            /\ \A j \in 1..Len(r) : j < first => tq[j].matchingWith # CandOf(c, s, k)[p]
            /\ first <= Len(r) => tq[first].matchingWith = CandOf(c, s, k)[p]
<1> DEFINE tq == TryOf(c, t, r, k)
           node == CandOf(c, s, k)[p]
           first == AbsProofs!TryingWith(tq, node)
           a == Behind(t, s[p])
           I == {j \in 1..Len(r) : t.node[r[j]].value.matchingWith = s[p]}
<1>1. /\ tq \in Seq(AbsProofs!TryingUser) /\ Len(tq) = Len(r) /\ Len(r) \in Nat
      /\ \A j \in 1..Len(r) : tq[j].matchingWith = node
                                <=> t.node[r[j]].value.matchingWith = s[p]
  BY ViewSeqs, ViewPointers, ViewChains
<1>2. a = FirstHit(r, I)
  <2>1. L!Walk(t) = r /\ Chain(t, r)
    BY WalkFollows DEF View
  <2>2. a = IF (IF I # {} THEN L!Min(I) ELSE 0) = 0 THEN Null
            ELSE r[IF I # {} THEN L!Min(I) ELSE 0]
    <3>1. DOMAIN r = 1..Len(r)
      BY <2>1 DEF Chain
    <3> QED
      BY <2>1, <3>1 DEF Behind, L!Search, L!SelectInSeq
  <2>3. I \in SUBSET (1..Len(r))
    OBVIOUS
  <2> HIDE DEF I
  <2> QED
    BY <2>1, <2>2, <2>3, HitOrNull
<1> HIDE DEF tq, a, node
<1>3. /\ \A j \in 1..Len(r) : tq[j].matchingWith = node => first # 0 /\ first <= j
      /\ first # 0 => first \in 1..Len(r) /\ tq[first].matchingWith = node
  BY <1>1, AbsAssumed, AbsProofs!TryingWithFirst
<1>4. \A j \in 1..Len(r) : j \in I <=> tq[j].matchingWith = node
  BY <1>1
<1>5. I \in SUBSET Nat
  OBVIOUS
<1> HIDE DEF first, I
<1>6. CASE first = 0
  <2>1. I = {}
    <3>1. \A j \in 1..Len(r) : tq[j].matchingWith # node
      BY <1>3, <1>6
    <3> QED
      BY <1>4, <3>1 DEF I
  <2>2. a = NodeAt(r, Len(r) + 1)
    BY <1>1, <1>2, <2>1 DEF FirstHit, NodeAt
  <2>3. FirstBehind(tq, node) = Len(r) + 1
    BY <1>1, <1>6 DEF FirstBehind, first
  <2>4. Len(r) + 1 \in 1..(Len(r) + 1) /\ ~(Len(r) + 1 <= Len(r))
    BY <1>1
  <2> QED
    BY <1>3, <1>6, <2>2, <2>3, <2>4 DEF a, tq, node
<1>7. CASE first # 0
  <2>1. first \in I /\ first \in 1..Len(r)
    BY <1>3, <1>4, <1>7
  <2>2. Min(I) \in I /\ Min(I) <= first
    BY <1>5, <2>1, MinOfNats
  <2>3. first <= Min(I) /\ Min(I) \in 1..Len(r)
    BY <1>3, <1>4, <2>2 DEF I
  <2>4. Min(I) = first
    BY <2>1, <2>2, <2>3
  <2>5. a = NodeAt(r, first)
    BY <1>2, <2>1, <2>4 DEF FirstHit, NodeAt
  <2>6. FirstBehind(tq, node) = first
    BY <1>7 DEF FirstBehind, first
  <2>7. first \in 1..(Len(r) + 1)
    BY <1>1, <2>1
  <2>8. \A j \in 1..Len(r) : j < first => tq[j].matchingWith # node
    <3> SUFFICES ASSUME NEW j \in 1..Len(r), j < first, tq[j].matchingWith = node PROVE FALSE
      OBVIOUS
    <3>1. first <= j
      BY <1>3
    <3> QED
      BY <1>1, <2>1, <3>1
  <2> QED
    BY <1>3, <1>7, <2>5, <2>6, <2>7, <2>8 DEF a, tq, node
<1> QED
  BY <1>6, <1>7

-----------------------------------------------------------------------------
(* A candidate leaves.                                                     *)

\* A user changes from one list to the other.
Changes(c1, t1, c, t, S, s, r, k, i) ==
  LET s1 == Append(s, New(c))
      r1 == Without(r, i)
      tq == TryOf(c, t, r, k)
  IN /\ View(c1, t1, S, s1, r1)
     /\ CandOf(c1, s1, k) = Append(CandOf(c, s, k), tq[i].info)
     /\ TryOf(c1, t1, r1, k) = AbsProofs!RemoveAt(tq, i)

\* push_back and erase do it.
LEMMA ViewPromote ==
  ASSUME NEW c, NEW t, NEW S, NEW s, NEW r, View(c, t, S, s, r), NEW k \in Counters,
         NEW i \in 1..Len(r), NEW id, id = t.node[r[i]].value.id
  PROVE  Changes(L!PushBack(c, New(c), id), L!Erase(t, r[i]), c, t, S, s, r, k, i)
<1> DEFINE c1 == L!PushBack(c, New(c), id)
           t1 == L!Erase(t, r[i])
           s1 == Append(s, New(c))
           r1 == Without(r, i)
           tq == TryOf(c, t, r, k)
<1>1. id \in Id /\ id \in S /\ tq[i].info = Req(k, id)
  <2>1. r[i] \in DOMAIN t.node
    BY ViewChains
  <2>2. t.node[r[i]].value \in TryingUser
    BY <2>1, ViewChains
  <2>3. id \in Id
    BY <2>2 DEF TryingUser
  <2>4. id \in S
    BY <2>1 DEF View, Lists, Within
  <2>5. tq[i] = Seen(c, k, t.node[r[i]].value)
    BY ViewSeqs
  <2> QED
    BY <2>3, <2>4, <2>5 DEF Seen
<1>2. /\ View(c, t1, S \ {t.node[r[i]].value.id}, s, r1)
      /\ TryOf(c, t1, r1, k) = AbsProofs!RemoveAt(tq, i)
  <2>1. ErasesTrying(c, t, S, s, r, k, i)
    BY ViewEraseTrying
  <2> QED
    BY <2>1 DEF ErasesTrying
<1> HIDE DEF t1, r1, tq
<1>3. View(c, t1, S \ {id}, s, r1)
  BY <1>2
<1>4. id \notin S \ {id} /\ (S \ {id}) \union {id} = S
  BY <1>1
<1>5. /\ View(c1, t1, (S \ {id}) \union {id}, s1, r1)
      /\ CandOf(c1, s1, k) = Append(CandOf(c, s, k), Req(k, id))
      /\ TryOf(c1, t1, r1, k) = TryOf(c, t1, r1, k)
  <2>1. AddsCandidate(c, t1, S \ {id}, s, r1, k, id)
    BY <1>1, <1>3, <1>4, ViewNewCandidate
  <2> QED
    BY <2>1 DEF AddsCandidate
<1> HIDE DEF c1, s1
<1> QED
  BY <1>1, <1>2, <1>4, <1>5 DEF c1, s1, t1, r1, tq, Changes

\* The heap with that change.
PromotedTo(g, h, S, s, r, k, i) ==
  /\ IsHeap(g) /\ g.ok = h.ok /\ g.working_job = h.working_job /\ g.jobs = h.jobs
  /\ Changes(g.candidates, g.trying, h.candidates, h.trying, S, s, r, k, i)

\* The first user behind the tail becomes a candidate.
LEMMA PromoteIs ==
  ASSUME NEW h, IsHeap(h), NEW S, NEW s, NEW r, View(h.candidates, h.trying, S, s, r),
         NEW k \in Counters, NEW i \in 1..Len(r)
  PROVE  PromotedTo(Promote(h, r[i]), h, S, s, r, k, i)
<1> DEFINE id == h.trying.node[r[i]].value.id
           c1 == L!PushBack(h.candidates, New(h.candidates), id)
           t1 == L!Erase(h.trying, r[i])
           g == Promote(h, r[i])
<1>1. PICK cc, tt, w, j, o :
        h = [candidates |-> cc, trying |-> tt, working_job |-> w, jobs |-> j, ok |-> o]
  BY DEF IsHeap
<1>2. g = [h EXCEPT !.candidates = c1, !.trying = t1]
  BY DEF Promote
<1>3. Changes(c1, t1, h.candidates, h.trying, S, s, r, k, i)
  <2> HIDE DEF id
  <2>1. id = h.trying.node[r[i]].value.id
    BY DEF id
  <2> QED
    BY <2>1, ViewPromote
<1> HIDE DEF c1, t1, g
<1>4. g = [candidates |-> c1, trying |-> t1, working_job |-> w, jobs |-> j, ok |-> o]
  BY <1>1, <1>2
<1>5. /\ g.candidates = c1 /\ g.trying = t1 /\ IsHeap(g)
      /\ g.ok = h.ok /\ g.working_job = h.working_job /\ g.jobs = h.jobs
  BY <1>1, <1>4 DEF IsHeap
<1> QED
  BY <1>3, <1>5 DEF g, PromotedTo

\* Those that point to node, from first on, are a run.
RunsOn(tq, first, node) ==
  \A j \in DOMAIN tq :
    first <= j /\ tq[j].matchingWith = node => \A m \in first..j : tq[m].matchingWith = node

Promotes(h, iter, node) == node = h.candidates.tail /\ IsBehind(h, iter, node)

AfterPromotion(h, iter, node) == IF Promotes(h, iter, node) THEN Promote(h, iter) ELSE h

\* That is when nobody but the first user waits behind the tail.
PromotesFirst(h, s, r, k, p, first) ==
  Promotes(h, NodeAt(r, first), s[p]) <=>
    /\ p = Len(s) /\ first \in 1..Len(r)
    /\ TryOf(h.candidates, h.trying, r, k)[first].matchingWith = CandOf(h.candidates, s, k)[p]

\* Whether somebody is promoted.
LEMMA PromotesWhen ==
  ASSUME NEW h, NEW S, NEW s, NEW r, View(h.candidates, h.trying, S, s, r),
         NEW k \in Counters, NEW p \in 1..Len(s), NEW first \in 1..(Len(r) + 1)
  PROVE  PromotesFirst(h, s, r, k, p, first)
<1>1. Len(s) \in Nat /\ Len(r) \in Nat /\ (s[p] = s[Len(s)] <=> p = Len(s))
  BY ViewChains
<1>2. h.candidates.tail = s[Len(s)]
  BY <1>1 DEF View, Chain
<1>3. CASE first \in 1..Len(r)
  <2>1. NodeAt(r, first) = r[first] /\ r[first] # Null
    BY <1>1, <1>3, ViewChains, NullApart DEF NodeAt
  <2>2. TryOf(h.candidates, h.trying, r, k)[first].matchingWith = CandOf(h.candidates, s, k)[p]
          <=> h.trying.node[r[first]].value.matchingWith = s[p]
    BY <1>3, ViewPointers
  <2> QED
    BY <1>1, <1>2, <1>3, <2>1, <2>2 DEF Promotes, IsBehind, PromotesFirst
<1>4. CASE first \notin 1..Len(r)
  <2>1. NodeAt(r, first) = Null
    BY <1>1, <1>4 DEF NodeAt
  <2> QED
    BY <1>4, <2>1 DEF Promotes, IsBehind, PromotesFirst
<1> QED
  BY <1>3, <1>4

\* A run stays one when its first user leaves.
LEMMA RunsOnLess ==
  ASSUME NEW tq \in Seq(AbsProofs!TryingUser), NEW first \in 1..Len(tq), NEW node,
         RunsOn(tq, first, node)
  PROVE  RunsOn(AbsProofs!RemoveAt(tq, first), first, node)
<1> DEFINE d == AbsProofs!RemoveAt(tq, first)
<1>1. /\ Len(d) = Len(tq) - 1 /\ d \in Seq(AbsProofs!TryingUser)
      /\ \A m \in 1..(Len(tq) - 1) : d[m] = IF m < first THEN tq[m] ELSE tq[m + 1]
  BY AbsAssumed, AbsProofs!RemoveAtElements
<1> HIDE DEF d
<1>2. DOMAIN d = 1..(Len(tq) - 1) /\ DOMAIN tq = 1..Len(tq) /\ Len(tq) \in Nat
  BY <1>1
<1> SUFFICES ASSUME NEW j \in DOMAIN d, first <= j, d[j].matchingWith = node,
                    NEW m \in first..j
             PROVE  d[m].matchingWith = node
  BY DEF RunsOn, d
<1>3. j + 1 \in DOMAIN tq /\ first <= j + 1 /\ d[j] = tq[j + 1]
  BY <1>1, <1>2
<1>4. \A l \in first..(j + 1) : tq[l].matchingWith = node
  BY <1>3 DEF RunsOn
<1>5. d[m] = tq[m + 1] /\ m + 1 \in first..(j + 1)
  BY <1>1, <1>2
<1> QED
  BY <1>4, <1>5

\* What DropCandidate makes of the queues, and that nobody from first on points
\* to the candidate any more.
Drops(h, h1, t2, S, s, r, s1, r1, k, p, first) ==
  LET d == AbsProofs!DropCandidate(CandOf(h.candidates, s, k),
                                   TryOf(h.candidates, h.trying, r, k), p, first)
  IN /\ IsHeap(h1) /\ h1.ok = h.ok /\ h1.working_job = h.working_job /\ h1.jobs = h.jobs
     /\ View(h1.candidates, t2, S, s1, r1) /\ SameNodes(h1.trying, t2)
     /\ p \in 1..Len(s1) /\ s1[p] = s[p]
     /\ AbsProofs!RemoveAt(CandOf(h1.candidates, s1, k), p) = d.candidates
     /\ TryOf(h1.candidates, t2, r1, k) = d.trying
     /\ \A j \in 1..Len(r1) :
          (j < first => TryOf(h.candidates, h.trying, r, k)[j].matchingWith
                          # CandOf(h.candidates, s, k)[p])
            => t2.node[r1[j]].value.matchingWith # s[p]
     /\ \A j \in 1..Len(r1) : j < first => j \in 1..Len(r) /\ r1[j] = r[j]

\* The queues after the promotion, if there is one.
AfterIs(h, h1, S, s, r, s1, r1, k, first, promote) ==
  LET cq == CandOf(h.candidates, s, k)
      tq == TryOf(h.candidates, h.trying, r, k)
  IN /\ IsHeap(h1) /\ h1.ok = h.ok /\ h1.working_job = h.working_job /\ h1.jobs = h.jobs
     /\ View(h1.candidates, h1.trying, S, s1, r1)
     /\ CandOf(h1.candidates, s1, k) = IF promote THEN Append(cq, tq[first].info) ELSE cq
     /\ TryOf(h1.candidates, h1.trying, r1, k)
          = IF promote THEN AbsProofs!RemoveAt(tq, first) ELSE tq

\* The lists after it.
LEMMA AfterPromotionIs ==
  ASSUME NEW h, IsHeap(h), NEW S, NEW s, NEW r, View(h.candidates, h.trying, S, s, r),
         NEW k \in Counters, NEW p \in 1..Len(s), NEW first \in 1..(Len(r) + 1)
  PROVE  LET promote == Promotes(h, NodeAt(r, first), s[p])
             h1 == AfterPromotion(h, NodeAt(r, first), s[p])
             s1 == IF promote THEN Append(s, New(h.candidates)) ELSE s
             r1 == IF promote THEN Without(r, first) ELSE r
         IN AfterIs(h, h1, S, s, r, s1, r1, k, first, promote)
<1> DEFINE promote == Promotes(h, NodeAt(r, first), s[p])
           h1 == AfterPromotion(h, NodeAt(r, first), s[p])
<1>1. CASE ~promote
  <2>1. h1 = h
    BY <1>1 DEF AfterPromotion
  <2> HIDE DEF h1, promote
  <2> QED
    BY <1>1, <2>1 DEF AfterIs, h1, promote
<1>2. CASE promote
  <2>1. first \in 1..Len(r)
    BY <1>2, PromotesWhen DEF PromotesFirst
  <2>2. h1 = Promote(h, r[first])
    BY <1>2, <2>1 DEF AfterPromotion, NodeAt
  <2> HIDE DEF h1, promote
  <2>3. PromotedTo(h1, h, S, s, r, k, first)
    BY <2>1, <2>2, PromoteIs
  <2>4. AfterIs(h, h1, S, s, r, Append(s, New(h.candidates)), Without(r, first), k, first, TRUE)
    BY <2>3 DEF PromotedTo, AfterIs, Changes
  <2>5. promote = TRUE
    BY <1>2 DEF promote
  <2> QED
    BY <1>2, <2>4, <2>5 DEF h1, promote
<1> QED
  BY <1>1, <1>2

\* The candidate after p and the users behind it, seen from the heap.
Following(c1, t1, s1, r1, k, p, first, node) ==
  /\ p \in 1..Len(s1) /\ first \in 1..(Len(r1) + 1)
  /\ CandOf(c1, s1, k)[p] = node
  /\ RunsOn(TryOf(c1, t1, r1, k), first, node)
  /\ p = Len(s1) => AbsProofs!RunFrom(TryOf(c1, t1, r1, k), first, node) = {}

\* The rest of the run is sent on to the candidate after p.
SendsRest(c1, t1, t2, S, s1, r1, k, p, first, node) ==
  LET cq == CandOf(c1, s1, k)
      tq == TryOf(c1, t1, r1, k)
  IN /\ View(c1, t2, S, s1, r1) /\ SameNodes(t1, t2)
     /\ TryOf(c1, t2, r1, k)
          = [j \in DOMAIN tq |-> IF j \in AbsProofs!RunFrom(tq, first, node)
                                THEN [tq[j] EXCEPT !.matchingWith = cq[p + 1]]
                                ELSE tq[j]]
     /\ \A j \in 1..Len(r1) :
          (j < first => tq[j].matchingWith # node) => t2.node[r1[j]].value.matchingWith # s1[p]

\* With SendOn.
LEMMA SendsRestIs ==
  ASSUME NEW c1, NEW t1, NEW S, NEW s1, NEW r1, View(c1, t1, S, s1, r1), NEW k \in Counters,
         NEW p, NEW first, NEW node, Following(c1, t1, s1, r1, k, p, first, node)
  PROVE  SendsRest(c1, t1, SendOn(t1, NodeAt(r1, first), s1[p], c1.node[s1[p]].next),
                   S, s1, r1, k, p, first, node)
<1> DEFINE next == c1.node[s1[p]].next
           t2 == SendOn(t1, NodeAt(r1, first), s1[p], next)
           cq == CandOf(c1, s1, k)
           tq == TryOf(c1, t1, r1, k)
           run == AbsProofs!RunFrom(tq, first, node)
<1>1. /\ p \in 1..Len(s1) /\ first \in 1..(Len(r1) + 1) /\ cq[p] = node
      /\ RunsOn(tq, first, node) /\ (p = Len(s1) => run = {})
  BY DEF Following
<1>2. /\ Len(s1) \in Nat /\ Len(r1) \in Nat /\ DOMAIN tq = 1..Len(r1)
      /\ \A i \in 1..Len(s1) : s1[i] \in Addr /\ s1[i] \in DOMAIN c1.node
      /\ \A i, m \in 1..Len(s1) : s1[i] = s1[m] => i = m
      /\ \A i \in 1..Len(s1) : cq[i] = Req(k, c1.node[s1[i]].value)
  BY ViewChains, ViewSeqs
<1>3. next = IF p = Len(s1) THEN Null ELSE s1[p + 1]
  BY <1>1 DEF View, Chain
<1>4. next \in Link
  BY <1>1, <1>2, <1>3 DEF Link
<1>5. next \in DOMAIN c1.node \/ run = {}
  BY <1>1, <1>2, <1>3
<1>6. SendsOn(c1, t1, S, s1, r1, k, first, p, next)
  <2> HIDE DEF next
  <2> QED
    BY <1>1, <1>4, <1>5, ViewSendOn
<1> HIDE DEF next
<1>7. /\ View(c1, t2, S, s1, r1) /\ SameNodes(t1, t2)
      /\ \A j \in 1..Len(r1) :
           t2.node[r1[j]].value.matchingWith =
             IF j \in run THEN next ELSE t1.node[r1[j]].value.matchingWith
      /\ TryOf(c1, t2, r1, k) =
           [j \in 1..Len(r1) |->
              IF j \in run THEN [tq[j] EXCEPT !.matchingWith = Req(k, c1.node[next].value)]
              ELSE tq[j]]
  BY <1>1, <1>6 DEF SendsOn
<1>8. \A j \in 1..Len(r1) : tq[j].matchingWith = node
                               <=> t1.node[r1[j]].value.matchingWith = s1[p]
  BY <1>1, ViewPointers
<1>9. run = {i \in DOMAIN tq : first <= i /\ \A m \in first..i : tq[m].matchingWith = node}
  BY DEF AbsProofs!RunFrom
<1>10. run # {} => cq[p + 1] = Req(k, c1.node[next].value)
  BY <1>1, <1>2, <1>3
<1> HIDE DEF t2, cq, tq, run
<1>11. TryOf(c1, t2, r1, k)
          = [j \in DOMAIN tq |-> IF j \in run THEN [tq[j] EXCEPT !.matchingWith = cq[p + 1]]
                                ELSE tq[j]]
  BY <1>2, <1>7, <1>10
<1>12. ASSUME NEW j \in 1..Len(r1), j < first => tq[j].matchingWith # node,
              t2.node[r1[j]].value.matchingWith = s1[p]
       PROVE  FALSE
  <2>1. CASE j \in run
    <3>1. next = s1[p] /\ p # Len(s1)
      BY <1>1, <1>7, <1>12, <2>1
    <3>2. p + 1 \in 1..Len(s1) /\ next = s1[p + 1]
      BY <1>1, <1>2, <1>3, <3>1
    <3>3. s1[p + 1] = s1[p]
      BY <3>1, <3>2
    <3>4. p + 1 = p /\ p \in Nat
      BY <1>1, <1>2, <3>2, <3>3
    <3> QED
      BY <3>4
  <2>2. CASE j \notin run
    <3>1. tq[j].matchingWith = node
      BY <1>7, <1>8, <1>12, <2>2
    <3>2. first <= j
      BY <1>1, <1>2, <1>12, <3>1
    <3>3. j \in run
      BY <1>1, <1>2, <1>9, <3>1, <3>2 DEF RunsOn
    <3> QED
      BY <2>2, <3>3
  <2> QED
    BY <2>1, <2>2
<1> QED
  BY <1>7, <1>11, <1>12 DEF SendsRest, t2, cq, tq, run, next

\* The loop of detach, with the promotion before it, is DropCandidate.
LEMMA SendsOff ==
  ASSUME NEW h, IsHeap(h), NEW S, NEW s, NEW r, View(h.candidates, h.trying, S, s, r),
         NEW k \in Counters, NEW p \in 1..Len(s), NEW first \in 1..(Len(r) + 1),
         RunsOn(TryOf(h.candidates, h.trying, r, k), first, CandOf(h.candidates, s, k)[p])
  PROVE  LET promote == Promotes(h, NodeAt(r, first), s[p])
             h1 == AfterPromotion(h, NodeAt(r, first), s[p])
             s1 == IF promote THEN Append(s, New(h.candidates)) ELSE s
             r1 == IF promote THEN Without(r, first) ELSE r
         IN Drops(h, h1, SendOn(h1.trying, NodeAt(r1, first), s[p], h1.candidates.node[s[p]].next),
                  S, s, r, s1, r1, k, p, first)
<1> DEFINE promote == Promotes(h, NodeAt(r, first), s[p])
           h1 == AfterPromotion(h, NodeAt(r, first), s[p])
           s1 == IF promote THEN Append(s, New(h.candidates)) ELSE s
           r1 == IF promote THEN Without(r, first) ELSE r
           t2 == SendOn(h1.trying, NodeAt(r1, first), s[p], h1.candidates.node[s[p]].next)
           cq == CandOf(h.candidates, s, k)
           tq == TryOf(h.candidates, h.trying, r, k)
           cq1 == CandOf(h1.candidates, s1, k)
           tq1 == TryOf(h1.candidates, h1.trying, r1, k)
<1> HIDE DEF h1, s1, r1, t2, cq1, tq1
<1>1. promote <=> p = Len(s) /\ first \in 1..Len(r) /\ tq[first].matchingWith = cq[p]
  <2> HIDE DEF promote, cq, tq
  <2>1. PromotesFirst(h, s, r, k, p, first)
    BY PromotesWhen
  <2> QED
    BY <2>1 DEF PromotesFirst, promote, cq, tq
<1>2. AfterIs(h, h1, S, s, r, s1, r1, k, first, promote)
  BY AfterPromotionIs DEF h1, s1, r1
<1>3. /\ cq \in Seq(AbsProofs!Info) /\ Len(cq) = Len(s)
      /\ tq \in Seq(AbsProofs!TryingUser) /\ Len(tq) = Len(r) /\ DOMAIN tq = 1..Len(r)
      /\ Len(s) \in Nat /\ Len(r) \in Nat /\ s \in Seq(Addr)
  <2>1. /\ cq \in Seq(AbsProofs!Info) /\ Len(cq) = Len(s)
        /\ tq \in Seq(AbsProofs!TryingUser) /\ Len(tq) = Len(r) /\ DOMAIN tq = 1..Len(r)
    BY ViewSeqs
  <2>2. Len(s) \in Nat /\ Len(r) \in Nat
    BY ViewChains
  <2>3. s \in Seq(Addr)
    BY DEF View, Chain
  <2> HIDE DEF cq, tq
  <2> QED
    BY <2>1, <2>2, <2>3
<1> HIDE DEF promote
<1> USE DEF s1, r1
<1>4. /\ IsHeap(h1) /\ h1.ok = h.ok /\ h1.working_job = h.working_job /\ h1.jobs = h.jobs
      /\ View(h1.candidates, h1.trying, S, s1, r1)
      /\ cq1 = IF promote THEN Append(cq, tq[first].info) ELSE cq
      /\ tq1 = IF promote THEN AbsProofs!RemoveAt(tq, first) ELSE tq
  BY <1>2 DEF AfterIs, cq1, tq1
<1> HIDE DEF cq, tq
<1>5. /\ p \in 1..Len(s1) /\ s1[p] = s[p]
      /\ p = Len(s1) => ~promote /\ p = Len(s)
  BY <1>3, AppendProperties
<1>6. /\ first \in 1..(Len(r1) + 1)
      /\ \A j \in 1..Len(r1) : j < first => j \in 1..Len(r) /\ r1[j] = r[j]
  <2>1. CASE promote
    <3>1. /\ Len(Without(r, first)) = Len(r) - 1
          /\ \A j \in 1..(Len(r) - 1) : j < first => Without(r, first)[j] = r[j]
      BY <1>1, <1>3, <2>1 DEF Without
    <3> QED
      BY <1>1, <1>3, <2>1, <3>1
  <2> QED
    BY <1>3, <2>1
<1>7. /\ \A j \in 1..Len(r1) : j < first => tq1[j] = tq[j]
      /\ RunsOn(tq1, first, cq[p])
      /\ cq1[p] = cq[p]
  <2>1. CASE promote
    <3>1. /\ Len(tq1) = Len(tq) - 1
          /\ \A m \in 1..(Len(tq) - 1) : m < first => tq1[m] = tq[m]
      BY <1>1, <1>3, <1>4, <2>1, AbsAssumed, AbsProofs!RemoveAtElements
    <3>2. Len(r1) = Len(r) - 1
      BY <1>1, <1>3, <2>1 DEF Without
    <3>3. RunsOn(tq1, first, cq[p])
      BY <1>1, <1>3, <1>4, <2>1, RunsOnLess DEF cq, tq
    <3>4. cq1[p] = cq[p]
      <4>1. tq[first].info \in AbsProofs!Info
        <5>1. tq[first] \in AbsProofs!TryingUser
          BY <1>1, <1>3, <2>1
        <5> QED
          BY <5>1 DEF AbsProofs!TryingUser
      <4> QED
        BY <1>1, <1>3, <1>4, <2>1, <4>1, AppendProperties
    <3> QED
      BY <1>3, <3>1, <3>2, <3>3, <3>4
  <2>2. CASE ~promote
    BY <1>4, <2>2 DEF cq, tq
  <2> QED
    BY <2>1, <2>2
<1>8. p = Len(s1) => AbsProofs!RunFrom(tq1, first, cq[p]) = {}
  <2> SUFFICES ASSUME p = Len(s1), NEW i \in AbsProofs!RunFrom(tq1, first, cq[p]) PROVE FALSE
    OBVIOUS
  <2>1. tq1 = tq /\ ~promote /\ p = Len(s)
    BY <1>4, <1>5
  <2>2. i \in 1..Len(r) /\ first <= i /\ \A m \in first..i : tq[m].matchingWith = cq[p]
    BY <1>3, <2>1 DEF AbsProofs!RunFrom
  <2>3. first \in 1..Len(r) /\ first \in first..i
    BY <1>3, <2>2
  <2> QED
    BY <1>1, <2>1, <2>2, <2>3
<1> HIDE DEF s1, r1
<1>9. Following(h1.candidates, h1.trying, s1, r1, k, p, first, cq[p])
  BY <1>5, <1>6, <1>7, <1>8 DEF Following, cq1, tq1
<1>10. SendsRest(h1.candidates, h1.trying, t2, S, s1, r1, k, p, first, cq[p])
  <2>1. t2 = SendOn(h1.trying, NodeAt(r1, first), s1[p], h1.candidates.node[s1[p]].next)
    BY <1>5 DEF t2
  <2> QED
    BY <1>4, <1>9, <2>1, SendsRestIs
<1>11. /\ View(h1.candidates, t2, S, s1, r1) /\ SameNodes(h1.trying, t2)
       /\ TryOf(h1.candidates, t2, r1, k)
            = [j \in DOMAIN tq1 |-> IF j \in AbsProofs!RunFrom(tq1, first, cq[p])
                                   THEN [tq1[j] EXCEPT !.matchingWith = cq1[p + 1]]
                                   ELSE tq1[j]]
       /\ \A j \in 1..Len(r1) :
            (j < first => tq1[j].matchingWith # cq[p])
              => t2.node[r1[j]].value.matchingWith # s1[p]
  BY <1>10 DEF SendsRest, cq1, tq1
<1>12. AbsProofs!DropCandidate(cq, tq, p, first)
         = [candidates |-> AbsProofs!RemoveAt(cq1, p),
            trying |-> TryOf(h1.candidates, t2, r1, k)]
  <2>1. promote <=> p = Len(cq) /\ first \in DOMAIN tq /\ tq[first].matchingWith = cq[p]
    BY <1>1, <1>3 DEF cq, tq
  <2> QED
    BY <1>4, <1>11, <2>1 DEF AbsProofs!DropCandidate
<1>13. /\ AbsProofs!RemoveAt(cq1, p) = AbsProofs!DropCandidate(cq, tq, p, first).candidates
       /\ TryOf(h1.candidates, t2, r1, k) = AbsProofs!DropCandidate(cq, tq, p, first).trying
  BY <1>12
<1>14. \A j \in 1..Len(r1) :
         (j < first => tq[j].matchingWith # cq[p]) => t2.node[r1[j]].value.matchingWith # s[p]
  BY <1>5, <1>7, <1>11
<1>15. Drops(h, h1, t2, S, s, r, s1, r1, k, p, first)
  BY <1>4, <1>5, <1>6, <1>11, <1>13, <1>14 DEF Drops, cq, tq, cq1
<1> QED
  BY <1>15 DEF t2, s1, r1, h1, promote

\* A handler has changed the heap h to g, and the queues are cq and tq now.
HeapIs(g, h, k, cq, tq) ==
  /\ IsHeap(g) /\ g.ok = h.ok /\ g.working_job = h.working_job /\ g.jobs = h.jobs
  /\ \E S, s, r : /\ View(g.candidates, g.trying, S, s, r)
                  /\ CandOf(g.candidates, s, k) = cq
                  /\ TryOf(g.candidates, g.trying, r, k) = tq

\* Only the lists of h are others.
ListsOnly(g, h, c, t) ==
  /\ IsHeap(g) /\ g.ok = h.ok /\ g.working_job = h.working_job /\ g.jobs = h.jobs
  /\ g.candidates = c /\ g.trying = t

\* What the handlers assign.
LEMMA HeapWith ==
  ASSUME NEW h, IsHeap(h), NEW c, NEW t, NEW g, g = [h EXCEPT !.trying = t, !.candidates = c]
  PROVE  ListsOnly(g, h, c, t)
<1>1. PICK cc, tt, w, j, o :
        h = [candidates |-> cc, trying |-> tt, working_job |-> w, jobs |-> j, ok |-> o]
  BY DEF IsHeap
<1>2. g = [candidates |-> c, trying |-> t, working_job |-> w, jobs |-> j, ok |-> o]
  BY <1>1
<1> QED
  BY <1>1, <1>2 DEF IsHeap, ListsOnly

\* detach of a candidate.
LEMMA DropNodeIs ==
  ASSUME NEW h, IsHeap(h), NEW S, NEW s, NEW r, View(h.candidates, h.trying, S, s, r),
         NEW k \in Counters, NEW p \in 1..Len(s),
         LET tq == TryOf(h.candidates, h.trying, r, k)
             node == CandOf(h.candidates, s, k)[p]
         IN RunsOn(tq, FirstBehind(tq, node), node)
  PROVE  LET cq == CandOf(h.candidates, s, k)
             tq == TryOf(h.candidates, h.trying, r, k)
             d == AbsProofs!DropCandidate(cq, tq, p, FirstBehind(tq, cq[p]))
         IN HeapIs(DropNode(h, s[p]), h, k, d.candidates, d.trying)
<1> DEFINE cq == CandOf(h.candidates, s, k)
           tq == TryOf(h.candidates, h.trying, r, k)
           first == FirstBehind(tq, cq[p])
           d == AbsProofs!DropCandidate(cq, tq, p, first)
           iter == Behind(h.trying, s[p])
           promote == Promotes(h, NodeAt(r, first), s[p])
           h1 == AfterPromotion(h, NodeAt(r, first), s[p])
           s1 == IF promote THEN Append(s, New(h.candidates)) ELSE s
           r1 == IF promote THEN Without(r, first) ELSE r
           t2 == SendOn(h1.trying, NodeAt(r1, first), s[p], h1.candidates.node[s[p]].next)
           c2 == L!Erase(h1.candidates, s[p])
           g == DropNode(h, s[p])
<1> HIDE DEF promote, h1, s1, r1, t2, c2, d, g
<1>1. /\ first \in 1..(Len(r) + 1) /\ iter = NodeAt(r, first)
      /\ \A j \in 1..Len(r) : j < first => tq[j].matchingWith # cq[p]
  BY SearchBehind
<1>2. RunsOn(tq, first, cq[p])
  OBVIOUS
<1> HIDE DEF first
<1>3. Drops(h, h1, t2, S, s, r, s1, r1, k, p, first)
  BY <1>1, <1>2, SendsOff DEF promote, h1, s1, r1, t2
<1> HIDE DEF cq, tq, iter
<1>4. (IF promote THEN h.trying.node[iter].next ELSE iter) = NodeAt(r1, first)
  <2>1. CASE promote
    <3>1. first \in 1..Len(r)
      BY <1>1, <2>1, PromotesWhen DEF PromotesFirst, promote
    <3>2. Len(r) \in Nat
      BY ViewChains
    <3>3. h.trying.node[r[first]].next = IF first = Len(r) THEN Null ELSE r[first + 1]
      BY <3>1 DEF View, Chain
    <3>4. r1 = Without(r, first) /\ iter = r[first]
      BY <1>1, <2>1, <3>1, <3>2 DEF r1, NodeAt
    <3>5. Len(r1) = Len(r) - 1 /\ (first <= Len(r) - 1 => r1[first] = r[first + 1])
      BY <3>1, <3>2, <3>4 DEF Without
    <3> QED
      BY <2>1, <3>1, <3>2, <3>3, <3>4, <3>5 DEF NodeAt
  <2>2. CASE ~promote
    BY <1>1, <2>2 DEF r1
  <2> QED
    BY <2>1, <2>2
<1>5. g = [h1 EXCEPT !.trying = t2, !.candidates = c2]
  <2>1. /\ promote <=> s[p] = h.candidates.tail /\ IsBehind(h, iter, s[p])
        /\ h1 = IF promote THEN Promote(h, iter) ELSE h
    BY <1>1 DEF promote, h1, AfterPromotion, Promotes
  <2>2. g = [h1 EXCEPT !.trying = SendOn(@, IF promote THEN h.trying.node[iter].next ELSE iter,
                                         s[p], h1.candidates.node[s[p]].next),
                       !.candidates = L!Erase(@, s[p])]
    BY <2>1 DEF g, DropNode, iter, Behind
  <2> QED
    BY <1>4, <2>2 DEF t2, c2
<1>6. /\ IsHeap(h1) /\ h1.ok = h.ok /\ h1.working_job = h.working_job /\ h1.jobs = h.jobs
      /\ View(h1.candidates, t2, S, s1, r1)
      /\ p \in 1..Len(s1) /\ s1[p] = s[p]
      /\ AbsProofs!RemoveAt(CandOf(h1.candidates, s1, k), p) = d.candidates
      /\ TryOf(h1.candidates, t2, r1, k) = d.trying
      /\ \A j \in 1..Len(r1) :
           (j < first => tq[j].matchingWith # cq[p]) => t2.node[r1[j]].value.matchingWith # s[p]
      /\ \A j \in 1..Len(r1) : j < first => j \in 1..Len(r)
  BY <1>3 DEF Drops, cq, tq, d
<1>7. ErasesCandidate(h1.candidates, t2, S, s1, r1, k, p)
  <2>1. \A j \in 1..Len(r1) : t2.node[r1[j]].value.matchingWith # s1[p]
    BY <1>1, <1>6
  <2> QED
    BY <1>6, <2>1, ViewEraseCandidate
<1>8. /\ View(c2, t2, S \ {h1.candidates.node[s1[p]].value}, Without(s1, p), r1)
      /\ CandOf(c2, Without(s1, p), k) = d.candidates
      /\ TryOf(c2, t2, r1, k) = d.trying
  BY <1>6, <1>7 DEF ErasesCandidate, c2
<1>9. /\ IsHeap(g) /\ g.ok = h.ok /\ g.working_job = h.working_job /\ g.jobs = h.jobs
      /\ g.candidates = c2 /\ g.trying = t2
  <2>1. ListsOnly(g, h1, c2, t2)
    BY <1>5, <1>6, HeapWith
  <2> QED
    BY <1>6, <2>1 DEF ListsOnly
<1>10. HeapIs(g, h, k, d.candidates, d.trying)
  BY <1>8, <1>9 DEF HeapIs
<1> QED
  BY <1>10 DEF g, d, first, cq, tq

\* detach_with_matcher.
LEMMA DetachWithMatcherIs ==
  ASSUME NEW h, IsHeap(h), NEW S, NEW s, NEW r, View(h.candidates, h.trying, S, s, r),
         NEW k \in Counters, NEW i \in 1..Len(r), NEW p \in 1..Len(s),
         h.trying.node[r[i]].value.matchingWith = s[p],
         RunsOn(TryOf(h.candidates, h.trying, r, k), i + 1, CandOf(h.candidates, s, k)[p]),
         \A j \in 1..Len(r) : j < i => TryOf(h.candidates, h.trying, r, k)[j].matchingWith
                                         # CandOf(h.candidates, s, k)[p]
  PROVE  LET d == AbsProofs!DropCandidate(CandOf(h.candidates, s, k),
                                          TryOf(h.candidates, h.trying, r, k), p, i + 1)
         IN HeapIs(DetachWithMatcher(h, r[i]), h, k, d.candidates,
                   AbsProofs!RemoveAt(d.trying, i))
<1> DEFINE cq == CandOf(h.candidates, s, k)
           tq == TryOf(h.candidates, h.trying, r, k)
           first == i + 1
           d == AbsProofs!DropCandidate(cq, tq, p, first)
           iter == h.trying.node[r[i]].next
           promote == Promotes(h, NodeAt(r, first), s[p])
           h1 == AfterPromotion(h, NodeAt(r, first), s[p])
           s1 == IF promote THEN Append(s, New(h.candidates)) ELSE s
           r1 == IF promote THEN Without(r, first) ELSE r
           t2 == SendOn(h1.trying, NodeAt(r1, first), s[p], h1.candidates.node[s[p]].next)
           t3 == L!Erase(t2, r[i])
           c2 == L!Erase(h1.candidates, s[p])
           g == DetachWithMatcher(h, r[i])
<1> HIDE DEF promote, h1, s1, r1, t2, t3, c2, d, g
<1>1. Len(r) \in Nat /\ first \in 1..(Len(r) + 1)
  BY ViewChains
<1>2. /\ RunsOn(tq, first, cq[p])
      /\ \A j \in 1..Len(r) : j < i => tq[j].matchingWith # cq[p]
  OBVIOUS
<1>3. iter = NodeAt(r, first)
  <2>1. iter = IF i = Len(r) THEN Null ELSE r[i + 1]
    BY DEF View, Chain
  <2> QED
    BY <1>1, <2>1 DEF NodeAt
<1> HIDE DEF first
<1>4. Drops(h, h1, t2, S, s, r, s1, r1, k, p, first)
  BY <1>1, <1>2, SendsOff DEF promote, h1, s1, r1, t2
<1>5. i \in 1..Len(r1) /\ i < first
  <2>1. CASE promote
    <3>1. first \in 1..Len(r)
      BY <1>1, <2>1, PromotesWhen DEF PromotesFirst, promote
    <3>2. r1 = Without(r, first)
      BY <2>1 DEF r1
    <3>3. Len(r1) = Len(r) - 1
      BY <1>1, <3>1, <3>2 DEF Without
    <3> QED
      BY <1>1, <3>1, <3>3 DEF first
  <2>2. CASE ~promote
    BY <1>1, <2>2 DEF r1, first
  <2> QED
    BY <2>1, <2>2
<1> HIDE DEF cq, tq, iter
<1>6. /\ IsHeap(h1) /\ h1.ok = h.ok /\ h1.working_job = h.working_job /\ h1.jobs = h.jobs
      /\ View(h1.candidates, t2, S, s1, r1) /\ SameNodes(h1.trying, t2)
      /\ p \in 1..Len(s1) /\ s1[p] = s[p]
      /\ AbsProofs!RemoveAt(CandOf(h1.candidates, s1, k), p) = d.candidates
      /\ TryOf(h1.candidates, t2, r1, k) = d.trying
      /\ \A j \in 1..Len(r1) :
           (j < first => tq[j].matchingWith # cq[p]) => t2.node[r1[j]].value.matchingWith # s[p]
      /\ \A j \in 1..Len(r1) : j < first => j \in 1..Len(r) /\ r1[j] = r[j]
  BY <1>4 DEF Drops, cq, tq, d
<1>7. Len(r1) \in Nat /\ r1[i] = r[i] /\ r1[i] \in DOMAIN t2.node
  BY <1>5, <1>6, ViewChains
<1>8. h1.trying.node[r[i]].next = NodeAt(r1, first)
  <2>1. t2.node[r1[i]].next = IF i = Len(r1) THEN Null ELSE r1[i + 1]
    BY <1>5, <1>6 DEF View, Chain
  <2>2. h1.trying.node[r[i]].next = t2.node[r1[i]].next
    BY <1>6, <1>7 DEF SameNodes
  <2> QED
    BY <1>5, <1>7, <2>1, <2>2 DEF NodeAt, first
<1>9. g = [h1 EXCEPT !.trying = t3, !.candidates = c2]
  <2>1. h.trying.node[r[i]].value.matchingWith = s[p]
    OBVIOUS
  <2>2. /\ promote <=> s[p] = h.candidates.tail /\ IsBehind(h, iter, s[p])
        /\ h1 = IF promote THEN Promote(h, iter) ELSE h
    BY <1>3 DEF promote, h1, AfterPromotion, Promotes
  <2>3. g = [h1 EXCEPT !.trying = L!Erase(SendOn(@, h1.trying.node[r[i]].next,
                                                 s[p], h1.candidates.node[s[p]].next), r[i]),
                       !.candidates = L!Erase(@, s[p])]
    BY <2>1, <2>2 DEF g, DetachWithMatcher, iter
  <2> QED
    BY <1>8, <2>3 DEF t3, t2, c2
<1> DEFINE r2 == Without(r1, i)
           S2 == S \ {t2.node[r1[i]].value.id}
<1>10. ErasesTrying(h1.candidates, t2, S, s1, r1, k, i)
  BY <1>5, <1>6, ViewEraseTrying
<1>11. /\ View(h1.candidates, t3, S2, s1, r2)
       /\ TryOf(h1.candidates, t3, r2, k) = AbsProofs!RemoveAt(d.trying, i)
       /\ \A a \in DOMAIN t3.node : t3.node[a].value = t2.node[a].value
  BY <1>6, <1>7, <1>10 DEF ErasesTrying, t3
<1>12. \A m \in 1..Len(r2) : t3.node[r2[m]].value.matchingWith # s1[p]
  <2> SUFFICES ASSUME NEW m \in 1..Len(r2) PROVE t3.node[r2[m]].value.matchingWith # s1[p]
    OBVIOUS
  <2>1. PICK j \in 1..Len(r1) : j # i /\ r2[m] = r1[j]
    <3>1. Len(r2) = Len(r1) - 1
      BY <1>5, <1>7 DEF Without
    <3>2. r2[m] = IF m < i THEN r1[m] ELSE r1[m + 1]
      BY <1>5, <1>7, <3>1 DEF Without
    <3> QED
      BY <1>5, <1>7, <3>1, <3>2
  <2>2. t3.node[r2[m]].value = t2.node[r1[j]].value
    <3>1. r2[m] \in DOMAIN t3.node
      BY <1>11, ViewChains
    <3> QED
      BY <1>11, <2>1, <3>1
  <2>3. j < first => tq[j].matchingWith # cq[p]
    <3>1. j < first => j < i /\ j \in 1..Len(r)
      BY <1>5, <1>6, <1>7, <2>1 DEF first
    <3> QED
      BY <1>2, <3>1 DEF cq, tq
  <2> QED
    BY <1>6, <2>1, <2>2, <2>3
<1> HIDE DEF r2, S2
<1>13. ErasesCandidate(h1.candidates, t3, S2, s1, r2, k, p)
  BY <1>6, <1>11, <1>12, ViewEraseCandidate
<1>14. /\ View(c2, t3, S2 \ {h1.candidates.node[s1[p]].value}, Without(s1, p), r2)
       /\ CandOf(c2, Without(s1, p), k) = d.candidates
       /\ TryOf(c2, t3, r2, k) = AbsProofs!RemoveAt(d.trying, i)
  BY <1>6, <1>11, <1>13 DEF ErasesCandidate, c2
<1>15. /\ IsHeap(g) /\ g.ok = h.ok /\ g.working_job = h.working_job /\ g.jobs = h.jobs
       /\ g.candidates = c2 /\ g.trying = t3
  <2>1. ListsOnly(g, h1, c2, t3)
    BY <1>6, <1>9, HeapWith
  <2> QED
    BY <1>6, <2>1 DEF ListsOnly
<1>16. HeapIs(g, h, k, d.candidates, AbsProofs!RemoveAt(d.trying, i))
  BY <1>14, <1>15 DEF HeapIs
<1> QED
  BY <1>16 DEF g, d, first, cq, tq

\* What a user that moves on is.
LEMMA SentOnIs ==
  ASSUME NEW x, NEW y, NEW z, NEW n, NEW u, u = [info |-> x, matchingWith |-> y, progress |-> z],
         NEW v, v = AbsProofs!SentOn(u, n)
  PROVE  v = [info |-> x, matchingWith |-> n, progress |-> "WAITING"]
<1>1. v = [u EXCEPT !.matchingWith = n, !.progress = "WAITING"]
  BY DEF AbsProofs!SentOn
<1> QED
  BY <1>1

\* A user that moves on, seen as Matching does.
LEMMA NextNodeIs ==
  ASSUME NEW h, IsHeap(h), NEW S, NEW s, NEW r, View(h.candidates, h.trying, S, s, r),
         NEW k \in Counters, NEW i \in 1..Len(r), NEW p \in 1..Len(s), p # Len(s)
  PROVE  LET cq == CandOf(h.candidates, s, k)
             tq == TryOf(h.candidates, h.trying, r, k)
         IN HeapIs([h EXCEPT !.trying = NextNode(@, r[i], h.candidates.node[s[p]].next)], h, k, cq,
                   [tq EXCEPT ![i] = AbsProofs!SentOn(tq[i], cq[p + 1])])
<1> DEFINE c == h.candidates
           t == h.trying
           next == c.node[s[p]].next
           m == NextNode(t, r[i], next)
           g == [h EXCEPT !.trying = NextNode(@, r[i], next)]
           cq == CandOf(c, s, k)
           tq == TryOf(c, t, r, k)
<1>1. /\ Len(s) \in Nat /\ next = s[p + 1] /\ p + 1 \in 1..Len(s)
      /\ next \in DOMAIN c.node /\ next \in Link
  <2>1. Len(s) \in Nat
    BY ViewChains
  <2>2. next = s[p + 1]
    BY <2>1 DEF View, Chain
  <2>3. s[p + 1] \in Addr /\ s[p + 1] \in DOMAIN c.node
    BY <2>1, ViewChains
  <2> QED
    BY <2>1, <2>2, <2>3 DEF Link
<1>2. t \in ListOf(TryingUser) /\ r[i] \in DOMAIN t.node
  BY ViewChains DEF View, Lists
<1> HIDE DEF next
<1>3. /\ SameNodes(t, m)
      /\ \A b \in DOMAIN t.node :
           m.node[b].value = IF b = r[i] THEN Marked(Pointing(t.node[r[i]].value, next), "WAITING")
                             ELSE t.node[b].value
  BY <1>1, <1>2, NextNodeSame
<1> HIDE DEF m
<1>4. View(c, m, S, s, r)
  <2>1. Live(c, m)
    <3> SUFFICES ASSUME NEW a \in DOMAIN m.node
                 PROVE  m.node[a].value.matchingWith \in DOMAIN c.node
      BY DEF Live
    <3>1. a \in DOMAIN t.node
      BY <1>3 DEF SameNodes
    <3>2. t.node[a].value.matchingWith \in DOMAIN c.node
      BY <3>1, ViewChains
    <3> QED
      BY <1>1, <1>3, <3>1, <3>2 DEF Marked, Pointing
  <2> QED
    BY <1>3, <2>1, ViewSameNodes
<1>5. /\ cq[p + 1] = Req(k, c.node[next].value)
      /\ tq \in [1..Len(r) -> AbsProofs!TryingUser]
      /\ \A j \in 1..Len(r) : tq[j] = Seen(c, k, t.node[r[j]].value)
  <2>1. \A j \in 1..Len(s) : cq[j] = Req(k, c.node[s[j]].value)
    BY ViewSeqs
  <2>2. /\ tq \in [1..Len(r) -> AbsProofs!TryingUser]
        /\ \A j \in 1..Len(r) : tq[j] = Seen(c, k, t.node[r[j]].value)
    BY ViewSeqs
  <2> HIDE DEF c, cq, tq
  <2> QED
    BY <1>1, <2>1, <2>2
<1>6. /\ TryOf(c, m, r, k) \in [1..Len(r) -> AbsProofs!TryingUser]
      /\ \A j \in 1..Len(r) : TryOf(c, m, r, k)[j] = Seen(c, k, m.node[r[j]].value)
  BY <1>4, ViewSeqs
<1> HIDE DEF cq, tq
<1>7. Seen(c, k, m.node[r[i]].value) = AbsProofs!SentOn(tq[i], cq[p + 1])
  <2>1. m.node[r[i]].value = Marked(Pointing(t.node[r[i]].value, next), "WAITING")
    BY <1>2, <1>3
  <2>2. tq[i] = Seen(c, k, t.node[r[i]].value)
    BY <1>5
  <2> DEFINE u == t.node[r[i]].value
  <2>3. PICK x, y, z : x = Req(k, u.id) /\ y = Req(k, c.node[u.matchingWith].value) /\ z = u.progress
    OBVIOUS
  <2>4. tq[i] = [info |-> x, matchingWith |-> y, progress |-> z]
    BY <2>2, <2>3 DEF Seen
  <2>5. PICK v, w : v = AbsProofs!SentOn(tq[i], cq[p + 1]) /\ w = m.node[r[i]].value
    OBVIOUS
  <2>6. v = [info |-> x, matchingWith |-> cq[p + 1], progress |-> "WAITING"]
    BY <2>4, <2>5, SentOnIs
  <2>7. w.id = u.id /\ w.matchingWith = next /\ w.progress = "WAITING"
    BY <2>1, <2>5 DEF Marked, Pointing
  <2> HIDE DEF u, Req
  <2>8. Seen(c, k, w) = v
    BY <1>5, <2>3, <2>6, <2>7 DEF Seen
  <2> QED
    BY <2>5, <2>8
<1>8. \A j \in 1..Len(r) : j # i => Seen(c, k, m.node[r[j]].value) = tq[j]
  <2> SUFFICES ASSUME NEW j \in 1..Len(r), j # i
               PROVE  Seen(c, k, m.node[r[j]].value) = tq[j]
    OBVIOUS
  <2>1. r[j] # r[i] /\ r[j] \in DOMAIN t.node
    BY ViewChains
  <2> QED
    BY <1>3, <1>5, <2>1
<1>9. TryOf(c, m, r, k) = [tq EXCEPT ![i] = AbsProofs!SentOn(tq[i], cq[p + 1])]
  BY <1>5, <1>6, <1>7, <1>8
<1>10. CandOf(c, s, k) = cq
  BY DEF cq
<1>11. /\ IsHeap(g) /\ g.ok = h.ok /\ g.working_job = h.working_job /\ g.jobs = h.jobs
       /\ g.candidates = c /\ g.trying = m
  <2>1. PICK cc, tt, w, j, o :
          h = [candidates |-> cc, trying |-> tt, working_job |-> w, jobs |-> j, ok |-> o]
    BY DEF IsHeap
  <2>2. g = [candidates |-> cc, trying |-> m, working_job |-> w, jobs |-> j, ok |-> o]
    BY <2>1 DEF m
  <2> QED
    BY <2>1, <2>2 DEF IsHeap
<1> HIDE DEF g
<1>12. HeapIs(g, h, k, cq, [tq EXCEPT ![i] = AbsProofs!SentOn(tq[i], cq[p + 1])])
  BY <1>4, <1>9, <1>10, <1>11 DEF HeapIs
<1> QED
  BY <1>12 DEF g, cq, tq, next

\* A user that becomes a candidate.
LEMMA PromoteHeapIs ==
  ASSUME NEW h, IsHeap(h), NEW S, NEW s, NEW r, View(h.candidates, h.trying, S, s, r),
         NEW k \in Counters, NEW i \in 1..Len(r)
  PROVE  LET tq == TryOf(h.candidates, h.trying, r, k)
         IN HeapIs(Promote(h, r[i]), h, k, Append(CandOf(h.candidates, s, k), tq[i].info),
                   AbsProofs!RemoveAt(tq, i))
<1>1. PromotedTo(Promote(h, r[i]), h, S, s, r, k, i)
  BY PromoteIs
<1> QED
  BY <1>1 DEF PromotedTo, Changes, HeapIs

\* Nothing but the counters of jobs changed.
LEMMA SameHeapIs ==
  ASSUME NEW h, IsHeap(h), NEW S, NEW s, NEW r, View(h.candidates, h.trying, S, s, r), NEW k
  PROVE  HeapIs(h, h, k, CandOf(h.candidates, s, k), TryOf(h.candidates, h.trying, r, k))
BY DEF HeapIs

\* A user of trying_queue that left.
LEMMA EraseHeapIs ==
  ASSUME NEW h, IsHeap(h), NEW S, NEW s, NEW r, View(h.candidates, h.trying, S, s, r),
         NEW k \in Counters, NEW i \in 1..Len(r)
  PROVE  HeapIs([h EXCEPT !.trying = L!Erase(@, r[i])], h, k, CandOf(h.candidates, s, k),
                AbsProofs!RemoveAt(TryOf(h.candidates, h.trying, r, k), i))
<1> DEFINE g == [h EXCEPT !.trying = L!Erase(@, r[i])]
           t1 == L!Erase(h.trying, r[i])
<1>1. ErasesTrying(h.candidates, h.trying, S, s, r, k, i)
  BY ViewEraseTrying
<1>2. /\ IsHeap(g) /\ g.ok = h.ok /\ g.working_job = h.working_job /\ g.jobs = h.jobs
      /\ g.candidates = h.candidates /\ g.trying = t1
  <2> HIDE DEF t1
  <2>1. PICK cc, tt, w, j, o :
          h = [candidates |-> cc, trying |-> tt, working_job |-> w, jobs |-> j, ok |-> o]
    BY DEF IsHeap
  <2>2. g = [candidates |-> cc, trying |-> t1, working_job |-> w, jobs |-> j, ok |-> o]
    BY <2>1 DEF t1
  <2> QED
    BY <2>1, <2>2 DEF IsHeap
<1> HIDE DEF g
<1>3. HeapIs(g, h, k, CandOf(h.candidates, s, k),
             AbsProofs!RemoveAt(TryOf(h.candidates, h.trying, r, k), i))
  BY <1>1, <1>2 DEF ErasesTrying, HeapIs
<1> QED
  BY <1>3 DEF g

\* ... and a newcomer.
LEMMA AddHeapIs ==
  ASSUME NEW h, IsHeap(h), NEW S, NEW s, NEW r, View(h.candidates, h.trying, S, s, r),
         NEW k \in Counters, NEW u \in TryingUser, u.id \notin S,
         u.matchingWith \in DOMAIN h.candidates.node
  PROVE  HeapIs([h EXCEPT !.trying = L!PushBack(@, New(@), u)], h, k, CandOf(h.candidates, s, k),
                Append(TryOf(h.candidates, h.trying, r, k), Seen(h.candidates, k, u)))
<1> DEFINE g == [h EXCEPT !.trying = L!PushBack(@, New(@), u)]
           t1 == L!PushBack(h.trying, New(h.trying), u)
<1>1. AddsTrying(h.candidates, h.trying, S, s, r, k, u)
  BY ViewNewTrying
<1>2. /\ IsHeap(g) /\ g.ok = h.ok /\ g.working_job = h.working_job /\ g.jobs = h.jobs
      /\ g.candidates = h.candidates /\ g.trying = t1
  <2> HIDE DEF t1
  <2>1. PICK cc, tt, w, j, o :
          h = [candidates |-> cc, trying |-> tt, working_job |-> w, jobs |-> j, ok |-> o]
    BY DEF IsHeap
  <2>2. g = [candidates |-> cc, trying |-> t1, working_job |-> w, jobs |-> j, ok |-> o]
    BY <2>1 DEF t1
  <2> QED
    BY <2>1, <2>2 DEF IsHeap
<1> HIDE DEF g
<1>3. HeapIs(g, h, k, CandOf(h.candidates, s, k),
             Append(TryOf(h.candidates, h.trying, r, k), Seen(h.candidates, k, u)))
  BY <1>1, <1>2 DEF AddsTrying, HeapIs
<1> QED
  BY <1>3 DEF g

-----------------------------------------------------------------------------
(* The steps.                                                              *)

\* What is known of the state before a step: the pointers are sound, and so is
\* what Matching sees.
Sound == IInv /\ AbsProofs!SafeIInv

\* The addresses of the nodes.
Shows(s, r) ==
  /\ View(candidates, trying, Waiting, s, r)
  /\ CandidateQueue = CandOf(candidates, s, try_match_counter)
  /\ TryingQueue = TryOf(candidates, trying, r, try_match_counter)

\* The types, from the invariant of Matching.
LEMMA SoundTypes ==
  ASSUME Sound
  PROVE  /\ CandidateQueue \in Seq(AbsProofs!Info)
         /\ TryingQueue \in Seq(AbsProofs!TryingUser)
         /\ working_job \in Nat /\ jobs \in Seq(AbsProofs!AssignJob)
         /\ try_match_counter \in Counters
         /\ process = "running" /\ NoPeer \notin Id
<1>1. AbsProofs!TypeOK /\ process = "running"
  BY DEF Sound, AbsProofs!SafeIInv, AbsProofs!PartnersIInv, AbsProofs!IInv
<1>2. NoPeer \notin Id /\ UINT_MAX \in Nat
  BY AbsAssumed DEF AbsProofs!ConstantsAssumption
<1> QED
  BY <1>1, <1>2 DEF AbsProofs!TypeOK, Counters

\* No pointer dangles, for Matching would see it.
LEMMA SoundShows ==
  ASSUME Sound
  PROVE  \E s, r : Shows(s, r)
<1>1. Lists(candidates, trying, Waiting)
  BY DEF Sound, IInv
<1>2. PICK s : Chain(candidates, s)
  BY <1>1 DEF Lists
<1>3. PICK r : Chain(trying, r)
  BY <1>1 DEF Lists
<1>4. L!Walk(trying) = r /\ DOMAIN r = 1..Len(r)
  BY <1>3, WalkFollows DEF Chain
<1>5. Live(candidates, trying)
  <2> SUFFICES ASSUME NEW a \in DOMAIN trying.node,
                      trying.node[a].value.matchingWith \notin DOMAIN candidates.node
               PROVE  FALSE
    BY DEF Live
  <2>1. PICK j \in 1..Len(r) : a = r[j]
    BY <1>3 DEF Chain
  <2>2. TryingQueue = [i \in 1..Len(r) |->
           LET u == trying.node[r[i]].value
           IN [info |-> Info(u.id), matchingWith |-> Pointed(u.matchingWith),
               progress |-> u.progress]]
    BY <1>4 DEF TryingQueue
  <2>3. TryingQueue[j].matchingWith = Dangling
    BY <2>1, <2>2 DEF Pointed
  <2>4. j \in 1..Len(TryingQueue)
    <3>1. DOMAIN TryingQueue = 1..Len(r)
      BY <2>2
    <3>2. DOMAIN TryingQueue = 1..Len(TryingQueue)
      BY SoundTypes, LenProperties
    <3> QED
      BY <3>1, <3>2
  <2>5. PICK p \in 1..Len(CandidateQueue) : TryingQueue[j].matchingWith = CandidateQueue[p]
    <3>1. \A m \in 1..Len(TryingQueue) :
            \E p \in 1..Len(CandidateQueue) : TryingQueue[m].matchingWith = CandidateQueue[p]
      BY AbsAssumed, AbsProofs!SafeRuns DEF Sound
    <3> QED
      BY <2>4, <3>1
  <2>6. CandidateQueue[p] \in AbsProofs!Info
    BY SoundTypes
  <2>7. NoPeer \in Id
    BY <2>3, <2>5, <2>6 DEF Dangling, AbsProofs!Info
  <2> QED
    BY <2>7, SoundTypes
<1>6. View(candidates, trying, Waiting, s, r)
  BY <1>1, <1>2, <1>3, <1>5 DEF View
<1>7. Shows(s, r)
  BY <1>6, QueuesAreWalks, WalksAre DEF Shows
<1> QED
  BY <1>7

\* The heap before a report is handled.
LEMMA ReportedIs ==
  ASSUME NEW js
  PROVE  /\ IsHeap(Reported(js)) /\ Reported(js).ok = TRUE
         /\ Reported(js).candidates = candidates /\ Reported(js).trying = trying
         /\ Reported(js).working_job = AbsProofs!OneJobLess /\ Reported(js).jobs = js
<1> DEFINE w == IF Now.working_job = 0 THEN UINT_MAX ELSE Now.working_job - 1
<1>1. Reported(js) = [Now EXCEPT !.working_job = w, !.jobs = js]
  BY DEF Reported
<1>2. w = AbsProofs!OneJobLess
  BY NowIs DEF AbsProofs!OneJobLess
<1> HIDE DEF w
<1>3. Reported(js) = [candidates |-> candidates, trying |-> trying,
                      working_job |-> w, jobs |-> js, ok |-> TRUE]
  BY <1>1, NowIs
<1> QED
  BY <1>2, <1>3 DEF IsHeap

\* ... and before a command is.
LEMMA NowIsHeap ==
  /\ IsHeap(Now) /\ Now.ok = TRUE /\ Now.candidates = candidates /\ Now.trying = trying
  /\ Now.working_job = working_job /\ Now.jobs = jobs
BY DEF Now, IsHeap

\* How every handler ends.
LEMMA FinishHeapIs ==
  ASSUME NEW h, NEW g, NEW k \in Counters, NEW cq, NEW tq, HeapIs(g, h, k, cq, tq), h.ok = TRUE,
         h.working_job \in Nat, h.jobs \in Seq(AbsProofs!AssignJob),
         Finish(g, k), try_match_counter' = k
  PROVE  AbsProofs!ArrangeJob(cq, tq, h.working_job, h.jobs)
<1>1. /\ IsHeap(g) /\ g.ok = TRUE /\ g.working_job \in Nat
      /\ g.jobs \in Seq(AbsProofs!AssignJob)
      /\ g.working_job = h.working_job /\ g.jobs = h.jobs
  BY DEF HeapIs
<1>2. PICK S, s, r : /\ View(g.candidates, g.trying, S, s, r)
                     /\ CandOf(g.candidates, s, k) = cq
                     /\ TryOf(g.candidates, g.trying, r, k) = tq
  BY DEF HeapIs
<1>3. AbsProofs!ArrangeJob(CandOf(g.candidates, s, k), TryOf(g.candidates, g.trying, r, k),
                           g.working_job, g.jobs)
  BY <1>1, <1>2, FinishIs
<1> QED
  BY <1>1, <1>2, <1>3

-----------------------------------------------------------------------------
(* The commands.                                                           *)

\* What a list shows depends on the counters of those in it only.
LEMMA CountersSame ==
  ASSUME NEW c, NEW t, NEW S, NEW s, NEW r, View(c, t, S, s, r),
         NEW k, NEW l, \A id \in S : k[id] = l[id]
  PROVE  CandOf(c, s, k) = CandOf(c, s, l) /\ TryOf(c, t, r, k) = TryOf(c, t, r, l)
<1>1. \A id \in S : Req(k, id) = Req(l, id)
  BY DEF Req
<1>2. /\ \A a \in DOMAIN c.node : c.node[a].value \in S
      /\ \A a \in DOMAIN t.node : t.node[a].value.id \in S
  BY DEF View, Lists, Within
<1>3. \A i \in 1..Len(s) : Req(k, c.node[s[i]].value) = Req(l, c.node[s[i]].value)
  BY <1>1, <1>2, ViewChains
<1>4. ASSUME NEW j \in 1..Len(r)
      PROVE  Seen(c, k, t.node[r[j]].value) = Seen(c, l, t.node[r[j]].value)
  <2>1. r[j] \in DOMAIN t.node
    BY ViewChains
  <2>2. t.node[r[j]].value.matchingWith \in DOMAIN c.node
    BY <2>1, ViewChains
  <2> QED
    BY <1>1, <1>2, <2>1, <2>2 DEF Seen
<1>5. CandOf(c, s, k) = CandOf(c, s, l)
  BY <1>3 DEF CandOf
<1>6. TryOf(c, t, r, k) = TryOf(c, t, r, l)
  BY <1>4 DEF TryOf
<1> QED
  BY <1>5, <1>6

\* add.
LEMMA AddSeen ==
  ASSUME Sound, NEW id \in Id, id \notin Waiting, NEW k \in Counters, try_match_counter' = k,
         \A x \in Waiting : k[x] = try_match_counter[x], Add(id, k)
  PROVE  AbsProofs!Add(Req(k, id))
<1>1. PICK s, r : Shows(s, r)
  BY SoundShows
<1> DEFINE c == candidates
           t == trying
           cq == CandidateQueue
           tq == TryingQueue
<1>2. View(c, t, Waiting, s, r)
  BY <1>1 DEF Shows
<1>3. cq = CandOf(c, s, k) /\ tq = TryOf(c, t, r, k)
  BY <1>1, <1>2, CountersSame DEF Shows
<1>4. /\ cq \in Seq(AbsProofs!Info) /\ Len(cq) = Len(s) /\ Len(s) \in Nat
      /\ \A i \in 1..Len(s) : /\ cq[i] = Req(k, c.node[s[i]].value)
                              /\ s[i] \in Addr /\ s[i] \in DOMAIN c.node
      /\ tq \in Seq(AbsProofs!TryingUser)
  <2>1. /\ CandOf(c, s, k) \in Seq(AbsProofs!Info) /\ Len(CandOf(c, s, k)) = Len(s)
        /\ \A i \in 1..Len(s) : CandOf(c, s, k)[i] = Req(k, c.node[s[i]].value)
        /\ TryOf(c, t, r, k) \in Seq(AbsProofs!TryingUser)
    BY <1>2, ViewSeqs
  <2>2. Len(s) \in Nat /\ \A i \in 1..Len(s) : s[i] \in Addr /\ s[i] \in DOMAIN c.node
    BY <1>2, ViewChains
  <2> QED
    BY <1>3, <2>1, <2>2
<1>5. c.head = IF Len(s) = 0 THEN Null ELSE s[1]
  BY <1>2 DEF View, Chain
<1> HIDE DEF cq, tq, c, t
<1>6. cq = <<>> <=> c.head = Null
  BY <1>4, <1>5, NullApart
<1>7. CASE c.head = Null
  <2>1. /\ candidates' = L!PushBack(c, New(c), id)
        /\ UNCHANGED <<trying, working_job, jobs, process>>
    BY <1>7 DEF Add, c
  <2>2. AddsCandidate(c, t, Waiting, s, r, k, id)
    BY <1>2, ViewNewCandidate
  <2> DEFINE s1 == Append(s, New(c))
  <2>3. /\ View(candidates', t, Waiting \union {id}, s1, r)
        /\ CandOf(candidates', s1, k) = Append(CandOf(c, s, k), Req(k, id))
        /\ TryOf(candidates', t, r, k) = TryOf(c, t, r, k)
    BY <2>1, <2>2 DEF AddsCandidate
  <2> HIDE DEF s1
  <2>4. CandidateQueue' = Append(cq, Req(k, id)) /\ TryingQueue' = tq
    BY <1>3, <2>1, <2>3, QueuesAreWalks, WalksAre DEF t
  <2>5. CandidateQueue' = <<Req(k, id)>>
    BY <1>6, <1>7, <2>4
  <2> QED
    BY <1>6, <1>7, <2>1, <2>4, <2>5 DEF AbsProofs!Add, cq, tq
<1>8. CASE c.head # Null
  <2> DEFINE u == [id |-> id, matchingWith |-> c.head, progress |-> "WAITING"]
             g == [Now EXCEPT !.trying = L!PushBack(@, New(@), u)]
  <2>1. Finish(g, k)
    BY <1>8 DEF Add, c
  <2>2. u \in TryingUser /\ u.id = id /\ u.matchingWith = c.head
    BY <1>4, <1>5, <1>8 DEF TryingUser, Link
  <2>3. c.head = s[1] /\ s[1] \in DOMAIN c.node /\ cq[1] = Req(k, c.node[s[1]].value)
    BY <1>4, <1>5, <1>8
  <2>4. Seen(c, k, u) = AbsProofs!Newcomer(Req(k, id))
    <3>1. Seen(c, k, u) = [info |-> Req(k, id), matchingWith |-> cq[1], progress |-> "WAITING"]
      BY <2>3 DEF Seen
    <3>2. Head(cq) = cq[1]
      BY <1>4, <1>6, <1>8, HeadTailProperties
    <3> QED
      BY <3>1, <3>2 DEF AbsProofs!Newcomer, cq
  <2> HIDE DEF u
  <2>5. HeapIs(g, Now, k, cq, Append(tq, Seen(c, k, u)))
    BY <1>2, <1>3, <2>2, <2>3, NowIsHeap, AddHeapIs DEF c, t
  <2> HIDE DEF g
  <2>6. AbsProofs!ArrangeJob(cq, Append(tq, Seen(c, k, u)), working_job, jobs)
    BY <2>1, <2>5, NowIsHeap, SoundTypes, FinishHeapIs
  <2> QED
    BY <1>6, <1>8, <2>4, <2>6 DEF AbsProofs!Add, cq, tq
<1> QED
  BY <1>7, <1>8

\* try_match.
LEMMA TryMatchSeen ==
  ASSUME Sound, NEW id \in Id, Abstract!MayTry(id), TryMatch(id)
  PROVE  AbsProofs!MayTry(id) /\ AbsProofs!TryMatch(id)
<1>1. AbsProofs!MayTry(id) /\ status[id] = "IDLE"
  BY DEF Abstract!MayTry, AbsProofs!MayTry
<1>2. PICK k : k = try_match_counter'
  OBVIOUS
<1>3. /\ k \in Counters /\ k[id] = try_match_counter[id] + 1
      /\ \A x \in Id : x # id => k[x] = try_match_counter[x]
  BY <1>2, SoundTypes DEF TryMatch, Counters
<1>4. id \notin Waiting /\ Waiting \subseteq Id
  BY <1>1 DEF Waiting
<1>5. Add(id, k)
  BY <1>2 DEF TryMatch
<1>6. AbsProofs!Add(Req(k, id))
  BY <1>2, <1>3, <1>4, <1>5, AddSeen
<1>7. AbsProofs!Add([id |-> id, counter |-> try_match_counter[id] + 1])
  BY <1>3, <1>6 DEF Req
<1> QED
  BY <1>1, <1>7 DEF TryMatch, AbsProofs!TryMatch

\* The users that wait for a candidate stand together.
LEMMA RunsOnFrom ==
  ASSUME Sound, NEW first \in 1..(Len(TryingQueue) + 1), NEW node,
         first <= Len(TryingQueue) => TryingQueue[first].matchingWith = node
  PROVE  RunsOn(TryingQueue, first, node)
<1>1. Len(TryingQueue) \in Nat /\ DOMAIN TryingQueue = 1..Len(TryingQueue)
  BY SoundTypes, LenProperties
<1>2. \A i, j, m \in 1..Len(TryingQueue) :
        i <= m /\ m <= j /\ TryingQueue[i].matchingWith = TryingQueue[j].matchingWith
          => TryingQueue[m].matchingWith = TryingQueue[i].matchingWith
  BY AbsAssumed, AbsProofs!SafeRuns DEF Sound
<1> SUFFICES ASSUME NEW j \in DOMAIN TryingQueue, first <= j,
                    TryingQueue[j].matchingWith = node, NEW m \in first..j
             PROVE  TryingQueue[m].matchingWith = node
  BY DEF RunsOn
<1>3. j \in 1..Len(TryingQueue) /\ first \in 1..Len(TryingQueue) /\ m \in 1..Len(TryingQueue)
      /\ first <= m /\ m <= j
  BY <1>1
<1> QED
  BY <1>2, <1>3

\* detach.
LEMMA DetachSeen ==
  ASSUME Sound, NEW id \in Id, Detach(id), try_match_counter' = try_match_counter
  PROVE  AbsProofs!Detach(id)
<1>1. PICK s, r : Shows(s, r)
  BY SoundShows
<1>2. PICK k \in Counters : k = try_match_counter
  BY SoundTypes
<1> DEFINE c == candidates
           t == trying
           cq == CandidateQueue
           tq == TryingQueue
           i == AbsProofs!TryingAt(tq, id)
           p == AbsProofs!CandidateAt(cq, id)
           tn == OfId(t, id)
           cn == OfCandidate(c, id)
           first == FirstBehind(tq, cq[p])
           d == AbsProofs!DropCandidate(cq, tq, p, first)
<1>3. View(c, t, Waiting, s, r) /\ cq = CandOf(c, s, k) /\ tq = TryOf(c, t, r, k)
  BY <1>1, <1>2 DEF Shows
<1> HIDE DEF c, t, cq, tq
<1>4. /\ i = 0 <=> tn = Null
      /\ i # 0 => i \in 1..Len(r) /\ tn = r[i]
  BY <1>3, SearchId
<1>5. /\ p = 0 <=> cn = Null
      /\ p # 0 => p \in 1..Len(s) /\ cn = s[p]
  BY <1>3, SearchCandidate
<1> HIDE DEF i, p
<1>6. quit_set' = quit_set \union {id}
  BY DEF Detach
<1>7. \/ /\ tn # Null
         /\ Finish([Now EXCEPT !.trying = L!Erase(@, tn)], try_match_counter)
      \/ /\ tn = Null /\ cn # Null
         /\ Finish(DropNode(Now, cn), try_match_counter)
      \/ /\ tn = Null /\ cn = Null
         /\ UNCHANGED <<candidates, trying, working_job, jobs, process>>
  BY DEF Detach, TryingNode, CandidateNode, OfId, OfCandidate, c, t
<1> HIDE DEF tn, cn
<1>8. CASE tn # Null /\ Finish([Now EXCEPT !.trying = L!Erase(@, tn)], try_match_counter)
  <2> DEFINE g == [Now EXCEPT !.trying = L!Erase(@, r[i])]
  <2>1. i # 0 /\ i \in 1..Len(r) /\ Finish(g, k)
    BY <1>2, <1>4, <1>8
  <2>2. HeapIs(g, Now, k, cq, AbsProofs!RemoveAt(tq, i))
    BY <1>3, <2>1, NowIsHeap, EraseHeapIs DEF c, t
  <2> HIDE DEF g
  <2>3. AbsProofs!ArrangeJob(cq, AbsProofs!RemoveAt(tq, i), working_job, jobs)
    BY <1>2, <2>1, <2>2, NowIsHeap, SoundTypes, FinishHeapIs
  <2> QED
    BY <1>6, <2>1, <2>3 DEF AbsProofs!Detach, cq, tq, i
<1>9. CASE tn = Null /\ cn # Null /\ Finish(DropNode(Now, cn), try_match_counter)
  <2>1. i = 0 /\ p # 0 /\ p \in 1..Len(s) /\ Finish(DropNode(Now, s[p]), k)
    BY <1>2, <1>4, <1>5, <1>9
  <2>2. /\ first \in 1..(Len(r) + 1)
        /\ first <= Len(r) => tq[first].matchingWith = cq[p]
    BY <1>3, <2>1, SearchBehind
  <2>3. Len(tq) = Len(r)
    BY <1>3, ViewSeqs
  <2>4. RunsOn(tq, first, cq[p])
    <3> HIDE DEF first
    <3> QED
      BY <2>2, <2>3, RunsOnFrom DEF tq
  <2>5. HeapIs(DropNode(Now, s[p]), Now, k, d.candidates, d.trying)
    BY <1>3, <2>1, <2>4, NowIsHeap, DropNodeIs DEF c, t
  <2> HIDE DEF d
  <2>6. AbsProofs!ArrangeJob(d.candidates, d.trying, working_job, jobs)
    BY <1>2, <2>1, <2>5, NowIsHeap, SoundTypes, FinishHeapIs
  <2>7. LET f == AbsProofs!TryingWith(tq, cq[p])
            e == AbsProofs!DropCandidate(cq, tq, p, IF f = 0 THEN Len(tq) + 1 ELSE f)
        IN AbsProofs!ArrangeJob(e.candidates, e.trying, working_job, jobs)
    BY <2>6 DEF d, FirstBehind
  <2> QED
    BY <1>6, <2>1, <2>7 DEF AbsProofs!Detach, cq, tq, i, p
<1>10. CASE tn = Null /\ cn = Null /\ UNCHANGED <<candidates, trying, working_job, jobs, process>>
  <2>1. i = 0 /\ p = 0
    BY <1>4, <1>5, <1>10
  <2>2. CandidateQueue' = CandidateQueue /\ TryingQueue' = TryingQueue
    BY <1>10, QueuesAreWalks
  <2> QED
    BY <1>6, <1>10, <2>1, <2>2 DEF AbsProofs!Detach, AbsProofs!queueVars, cq, tq, i, p
<1> QED
  BY <1>7, <1>8, <1>9, <1>10

\* The lists and the counters do not change: neither does what Matching sees.
LEMMA QueuesKept ==
  ASSUME UNCHANGED <<candidates, trying, try_match_counter>>
  PROVE  CandidateQueue' = CandidateQueue /\ TryingQueue' = TryingQueue
BY QueuesAreWalks

\* quit and disconnect.
LEMMA LeaveSeen ==
  ASSUME Sound, NEW id \in Id, Abstract!MayLeave(id), NEW left \in {"IDLE", "CLOSED"},
         Leave(id, left)
  PROVE  AbsProofs!ClientStep(id)
<1>1. AbsProofs!MayLeave(id)
  BY DEF Abstract!MayLeave, AbsProofs!MayLeave
<1>2. UNCHANGED <<try_match_counter, match_peer, matched, likes>>
  BY DEF Leave
<1>3. CASE /\ status[id] = "TALKING"
           /\ status' = [status EXCEPT ![match_peer[id]] = "IDLE", ![id] = left]
           /\ UNCHANGED <<candidates, trying, working_job, jobs, quit_set, process>>
  <2>1. CandidateQueue' = CandidateQueue /\ TryingQueue' = TryingQueue
    BY <1>2, <1>3, QueuesKept
  <2>2. AbsProofs!Leave(id, left)
    BY <1>2, <1>3, <2>1 DEF AbsProofs!Leave, AbsProofs!queueVars
  <2> QED
    BY <1>1, <2>2 DEF AbsProofs!ClientStep, AbsProofs!Quit, AbsProofs!Disconnect
<1>4. CASE status[id] = "MATCHING" /\ status' = [status EXCEPT ![id] = left] /\ Detach(id)
  <2>1. AbsProofs!Detach(id)
    BY <1>2, <1>4, DetachSeen
  <2>2. AbsProofs!Leave(id, left)
    BY <1>2, <1>4, <2>1 DEF AbsProofs!Leave
  <2> QED
    BY <1>1, <2>2 DEF AbsProofs!ClientStep, AbsProofs!Quit, AbsProofs!Disconnect
<1>5. CASE /\ status[id] = "IDLE" /\ left = "CLOSED"
           /\ status' = [status EXCEPT ![id] = "CLOSED"]
           /\ UNCHANGED <<candidates, trying, working_job, jobs, quit_set, process>>
  <2>1. CandidateQueue' = CandidateQueue /\ TryingQueue' = TryingQueue
    BY <1>2, <1>5, QueuesKept
  <2>2. AbsProofs!Disconnect(id)
    BY <1>2, <1>5, <2>1 DEF AbsProofs!Disconnect, AbsProofs!queueVars
  <2> QED
    BY <1>1, <2>2 DEF AbsProofs!ClientStep
<1> QED
  BY <1>3, <1>4, <1>5 DEF Leave

-----------------------------------------------------------------------------
(* The reports.                                                            *)

\* A user of trying_queue and the candidate it points to, on both sides.
PointsTo(s, r, k, i, p) ==
  /\ p \in 1..Len(s)
  /\ trying.node[r[i]].value.matchingWith = s[p]
  /\ TryingQueue[i].matchingWith = CandidateQueue[p]
  /\ CandidateQueue[p] \in AbsProofs!Range(CandidateQueue)
  /\ CandidateQueue[p] = Req(k, candidates.node[s[p]].value)
  /\ TryingQueue[i].info = Req(k, trying.node[r[i]].value.id)
  /\ Len(CandidateQueue) = Len(s) /\ Len(TryingQueue) = Len(r)
  /\ s[p] \in DOMAIN candidates.node
  /\ candidates.tail = s[p] <=> p = Len(s)

\* The candidate is found by its id.
LEMMA PointsToIs ==
  ASSUME NEW s, NEW r, Shows(s, r), NEW k \in Counters, k = try_match_counter,
         NEW i \in 1..Len(r)
  PROVE  PointsTo(s, r, k, i, AbsProofs!CandidateAt(CandidateQueue, TryingQueue[i].matchingWith.id))
<1> DEFINE c == candidates
           t == trying
           cq == CandidateQueue
           tq == TryingQueue
           a == t.node[r[i]].value.matchingWith
           p == AbsProofs!CandidateAt(cq, tq[i].matchingWith.id)
<1>1. View(c, t, Waiting, s, r) /\ cq = CandOf(c, s, k) /\ tq = TryOf(c, t, r, k)
  BY DEF Shows
<1> HIDE DEF c, t, cq, tq
<1>2. r[i] \in DOMAIN t.node
  BY <1>1, ViewChains
<1>3. a \in DOMAIN c.node
  BY <1>1, <1>2, ViewChains
<1>5. /\ Len(cq) = Len(s) /\ DOMAIN cq = 1..Len(s) /\ Len(tq) = Len(r)
      /\ \A j \in 1..Len(s) : cq[j] = Req(k, c.node[s[j]].value)
      /\ tq[i] = Seen(c, k, t.node[r[i]].value)
  BY <1>1, ViewSeqs
<1>6. /\ tq[i].matchingWith = Req(k, c.node[a].value)
      /\ tq[i].info = Req(k, t.node[r[i]].value.id)
  BY <1>5 DEF Seen
<1>7. tq[i].matchingWith.id = c.node[a].value
  <2>1. \A id : Req(k, id).id = id
    BY DEF Req
  <2> QED
    BY <1>6, <2>1
<1> HIDE DEF a
<1>8. p = 0 <=> OfCandidate(c, c.node[a].value) = Null
  <2>1. p = AbsProofs!CandidateAt(CandOf(c, s, k), c.node[a].value)
    BY <1>1, <1>7
  <2> HIDE DEF p
  <2> QED
    BY <1>1, <2>1, SearchCandidate
<1>9. p # 0 => p \in 1..Len(s) /\ c.node[s[p]].value = c.node[a].value
  <2>1. p = AbsProofs!CandidateAt(CandOf(c, s, k), c.node[a].value)
    BY <1>1, <1>7
  <2> HIDE DEF p
  <2> QED
    BY <1>1, <2>1, SearchCandidate
<1>10. p # 0
  <2>1. \/ OfCandidate(c, c.node[a].value) # Null
        \/ \A b \in DOMAIN c.node : c.node[b].value # c.node[a].value
    BY <1>1, FindValue DEF View
  <2> QED
    BY <1>3, <1>8, <2>1
<1> HIDE DEF p
<1>11. p \in 1..Len(s) /\ s[p] = a
  <2>1. p \in 1..Len(s) /\ c.node[s[p]].value = c.node[a].value
    BY <1>9, <1>10
  <2>2. s[p] \in DOMAIN c.node
    BY <1>1, <2>1, ViewChains
  <2> QED
    BY <1>1, <1>3, <2>1, <2>2, ViewChains
<1>12. cq[p] \in AbsProofs!Range(cq)
  BY <1>5, <1>11 DEF AbsProofs!Range
<1>13. c.tail = s[p] <=> p = Len(s)
  <2>1. Len(s) \in Nat /\ \A j, l \in 1..Len(s) : s[j] = s[l] => j = l
    BY <1>1, ViewChains
  <2>2. c.tail = s[Len(s)]
    BY <1>11, <2>1, <1>1 DEF View, Chain
  <2>3. Len(s) \in 1..Len(s)
    BY <1>11, <2>1
  <2> QED
    BY <1>11, <2>1, <2>2, <2>3
<1>14. PointsTo(s, r, k, i, p)
  BY <1>3, <1>5, <1>6, <1>11, <1>12, <1>13 DEF PointsTo, c, t, cq, tq, a
<1> QED
  BY <1>14 DEF p, cq, tq

\* The job is one less, and counted.
LEMMA OneLess ==
  ASSUME Sound, NEW n \in DOMAIN jobs
  PROVE  /\ AbsProofs!RemoveAt(jobs, n) \in Seq(AbsProofs!AssignJob)
         /\ AbsProofs!OneJobLess \in Nat
<1>1. AbsProofs!IInv
  BY DEF Sound, AbsProofs!SafeIInv, AbsProofs!PartnersIInv
<1>2. WORKER_NUMBER \in Nat
  BY AbsAssumed DEF AbsProofs!ConstantsAssumption
<1>3. /\ AbsProofs!RemoveAt(jobs, n) \in Seq(AbsProofs!AssignJob)
      /\ AbsProofs!OneJobLess \in 0..WORKER_NUMBER
  BY <1>1, AbsAssumed, AbsProofs!OneJobLessCounts
<1> QED
  BY <1>2, <1>3

\* A report that changes no list.
LEMMA StaleSeen ==
  ASSUME Sound, NEW js \in Seq(AbsProofs!AssignJob), AbsProofs!OneJobLess \in Nat,
         Finish(Reported(js), try_match_counter), try_match_counter' = try_match_counter
  PROVE  AbsProofs!ArrangeJob(CandidateQueue, TryingQueue, AbsProofs!OneJobLess, js)
<1>1. PICK s, r : Shows(s, r)
  BY SoundShows
<1>2. PICK k \in Counters : k = try_match_counter
  BY SoundTypes
<1> DEFINE h == Reported(js)
<1>3. /\ View(candidates, trying, Waiting, s, r)
      /\ CandidateQueue = CandOf(candidates, s, k) /\ TryingQueue = TryOf(candidates, trying, r, k)
  BY <1>1, <1>2 DEF Shows
<1>4. /\ IsHeap(h) /\ h.ok = TRUE /\ h.candidates = candidates /\ h.trying = trying
      /\ h.working_job = AbsProofs!OneJobLess /\ h.jobs = js
  BY ReportedIs
<1> HIDE DEF h
<1>5. HeapIs(h, h, k, CandidateQueue, TryingQueue)
  BY <1>3, <1>4, SameHeapIs
<1>6. Finish(h, k)
  BY <1>2 DEF h
<1> QED
  BY <1>2, <1>4, <1>5, <1>6, FinishHeapIs

\* handle_match.
LEMMA HandleMatchSeen ==
  ASSUME Sound, NEW n \in DOMAIN jobs,
         HandleMatch(jobs[n].trying_info.id, AbsProofs!RemoveAt(jobs, n))
  PROVE  AbsProofs!HandleMatch(jobs[n].trying_info.id, AbsProofs!RemoveAt(jobs, n))
<1>1. PICK s, r : Shows(s, r)
  BY SoundShows
<1>2. PICK k \in Counters : k = try_match_counter
  BY SoundTypes
<1> DEFINE id == jobs[n].trying_info.id
           js == AbsProofs!RemoveAt(jobs, n)
           c == candidates
           t == trying
           cq == CandidateQueue
           tq == TryingQueue
           i == AbsProofs!TryingAt(tq, id)
           p == AbsProofs!CandidateAt(cq, tq[i].matchingWith.id)
           h == Reported(js)
           tn == OfId(t, id)
           node == t.node[tn].value.matchingWith
           other == c.node[node].value
           d == AbsProofs!DropCandidate(cq, tq, p, i + 1)
<1>3. View(c, t, Waiting, s, r) /\ cq = CandOf(c, s, k) /\ tq = TryOf(c, t, r, k)
  BY <1>1, <1>2 DEF Shows
<1>4. js \in Seq(AbsProofs!AssignJob) /\ AbsProofs!OneJobLess \in Nat
  BY OneLess
<1>5. \/ /\ tn = Null
         /\ Finish(h, try_match_counter)
         /\ UNCHANGED clientVars
      \/ /\ tn # Null /\ node \notin DOMAIN c.node
      \/ /\ tn # Null /\ node \in DOMAIN c.node
         /\ Finish(DetachWithMatcher(h, tn), try_match_counter)
         /\ Abstract!Talk(id, other)
         /\ matched' = matched \union {{Info(id), Info(other)}}
         /\ UNCHANGED try_match_counter
  BY DEF HandleMatch, TryingNode, OfId
<1>6. i # 0 => /\ i \in 1..Len(tq)
               /\ \A m \in 1..Len(tq) : m < i => tq[m].matchingWith # tq[i].matchingWith
  BY AbsAssumed, AbsProofs!SafeFirst DEF Sound
<1> HIDE DEF id, js, c, t, cq, tq, node, other
<1>7. /\ i = 0 <=> tn = Null
      /\ i # 0 => i \in 1..Len(r) /\ tn = r[i] /\ t.node[r[i]].value.id = id
  BY <1>3, SearchId
<1> HIDE DEF i, tn
<1>8. i # 0 => PointsTo(s, r, k, i, p)
  BY <1>1, <1>2, <1>7, PointsToIs DEF cq, tq
<1> HIDE DEF p
<1>9. /\ IsHeap(h) /\ h.ok = TRUE /\ h.candidates = c /\ h.trying = t
      /\ h.working_job = AbsProofs!OneJobLess /\ h.jobs = js
  BY ReportedIs DEF c, t
<1>10. CASE /\ tn = Null
            /\ Finish(h, try_match_counter)
            /\ UNCHANGED clientVars
  <2>1. AbsProofs!ArrangeJob(cq, tq, AbsProofs!OneJobLess, js)
    <3>1. try_match_counter' = try_match_counter
      BY <1>10 DEF clientVars
    <3> QED
      BY <1>4, <1>10, <3>1, StaleSeen DEF cq, tq
  <2>2. UNCHANGED AbsProofs!clientVars
    BY <1>10 DEF clientVars, AbsProofs!clientVars
  <2> QED
    BY <1>7, <1>10, <2>1, <2>2 DEF AbsProofs!HandleMatch, i, cq, tq, id, js
<1>11. CASE tn # Null /\ node \notin DOMAIN c.node
  BY <1>7, <1>8, <1>11 DEF PointsTo, c, t, node
<1>12. CASE /\ tn # Null /\ node \in DOMAIN c.node
            /\ Finish(DetachWithMatcher(h, tn), try_match_counter)
            /\ Abstract!Talk(id, other)
            /\ matched' = matched \union {{Info(id), Info(other)}}
            /\ UNCHANGED try_match_counter
  <2>1. /\ i # 0 /\ i \in 1..Len(r) /\ tn = r[i] /\ t.node[r[i]].value.id = id
        /\ \A m \in 1..Len(r) : m < i => tq[m].matchingWith # tq[i].matchingWith
        /\ Len(tq) = Len(r)
    BY <1>6, <1>7, <1>8, <1>12 DEF PointsTo, tq
  <2>2. /\ p \in 1..Len(s) /\ t.node[r[i]].value.matchingWith = s[p]
        /\ tq[i].matchingWith = cq[p] /\ cq[p] \in AbsProofs!Range(cq)
        /\ cq[p] = Req(k, c.node[s[p]].value) /\ tq[i].info = Req(k, t.node[r[i]].value.id)
    BY <1>8, <2>1 DEF PointsTo, c, t, cq, tq
  <2>3. RunsOn(tq, i + 1, cq[p])
    <3>1. RunsOn(tq, i, cq[p])
      <4>1. i \in 1..(Len(tq) + 1)
        BY <2>1
      <4> QED
        BY <2>2, <4>1, RunsOnFrom DEF tq
    <3>2. \A j \in DOMAIN tq : \A m \in (i + 1)..j : m \in i..j
      BY <2>1
    <3>3. \A j \in DOMAIN tq : i + 1 <= j => i <= j
      <4>1. DOMAIN tq = 1..Len(tq)
        BY <1>3, <2>1, ViewSeqs
      <4> QED
        BY <2>1, <4>1
    <3> QED
      BY <3>1, <3>2, <3>3 DEF RunsOn
  <2>4. \A j \in 1..Len(r) : j < i => tq[j].matchingWith # cq[p]
    BY <2>1, <2>2
  <2> HIDE DEF h
  <2>5. HeapIs(DetachWithMatcher(h, r[i]), h, k, d.candidates, AbsProofs!RemoveAt(d.trying, i))
    BY <1>3, <1>9, <2>1, <2>2, <2>3, <2>4, DetachWithMatcherIs
  <2> HIDE DEF d
  <2>6. Finish(DetachWithMatcher(h, r[i]), k) /\ try_match_counter' = k
    BY <1>2, <1>12, <2>1
  <2>7. AbsProofs!ArrangeJob(d.candidates, AbsProofs!RemoveAt(d.trying, i),
                             AbsProofs!OneJobLess, js)
    BY <1>4, <1>9, <2>5, <2>6, FinishHeapIs
  <2>8. /\ other = c.node[s[p]].value /\ cq[p].id = other
        /\ Info(id) = tq[i].info /\ Info(other) = cq[p]
    BY <1>2, <2>1, <2>2 DEF other, node, Info, Req
  <2>9. /\ AbsProofs!Talk(id, cq[p].id)
        /\ matched' = matched \union {{tq[i].info, cq[p]}}
    BY <1>12, <2>8 DEF Abstract!Talk, AbsProofs!Talk
  <2>10. /\ i # 0 /\ tq[i].matchingWith \in AbsProofs!Range(cq)
         /\ AbsProofs!ArrangeJob(d.candidates, AbsProofs!RemoveAt(d.trying, i),
                                 AbsProofs!OneJobLess, js)
         /\ AbsProofs!Talk(id, tq[i].matchingWith.id)
         /\ matched' = matched \union {{tq[i].info, tq[i].matchingWith}}
         /\ UNCHANGED try_match_counter
    BY <1>12, <2>1, <2>2, <2>7, <2>9
  <2> QED
    BY <2>10 DEF AbsProofs!HandleMatch, d, p, i, cq, tq, id, js
<1> QED
  BY <1>5, <1>10, <1>11, <1>12

\* The next candidate.
LEMMA MoveOnSeen ==
  ASSUME Sound, NEW n \in DOMAIN jobs, try_match_counter' = try_match_counter,
         MoveOn(jobs[n].trying_info.id, AbsProofs!RemoveAt(jobs, n))
  PROVE  AbsProofs!MoveOn(jobs[n].trying_info.id, AbsProofs!RemoveAt(jobs, n))
<1>1. PICK s, r : Shows(s, r)
  BY SoundShows
<1>2. PICK k \in Counters : k = try_match_counter
  BY SoundTypes
<1> DEFINE id == jobs[n].trying_info.id
           js == AbsProofs!RemoveAt(jobs, n)
           c == candidates
           t == trying
           cq == CandidateQueue
           tq == TryingQueue
           i == AbsProofs!TryingAt(tq, id)
           p == AbsProofs!CandidateAt(cq, tq[i].matchingWith.id)
           h == Reported(js)
           tn == OfId(t, id)
           node == t.node[tn].value.matchingWith
<1>3. View(c, t, Waiting, s, r) /\ cq = CandOf(c, s, k) /\ tq = TryOf(c, t, r, k)
  BY <1>1, <1>2 DEF Shows
<1>4. js \in Seq(AbsProofs!AssignJob) /\ AbsProofs!OneJobLess \in Nat
  BY OneLess
<1>5. IF tn = Null THEN ReadsDeadNode(js)
      ELSE IF node = c.tail THEN Finish(Promote(h, tn), try_match_counter)
      ELSE IF node \notin DOMAIN c.node THEN ReadsDeadNode(js)
      ELSE Finish([h EXCEPT !.trying = NextNode(@, tn, c.node[node].next)], try_match_counter)
  BY DEF MoveOn, TryingNode, OfId
<1> HIDE DEF id, js, c, t, cq, tq, node
<1>7. /\ i = 0 <=> tn = Null
      /\ i # 0 => i \in 1..Len(r) /\ tn = r[i] /\ t.node[r[i]].value.id = id
  BY <1>3, SearchId
<1> HIDE DEF i, tn
<1>8. i # 0 => PointsTo(s, r, k, i, p)
  BY <1>1, <1>2, <1>7, PointsToIs DEF cq, tq
<1> HIDE DEF p
<1>9. /\ IsHeap(h) /\ h.ok = TRUE /\ h.candidates = c /\ h.trying = t
      /\ h.working_job = AbsProofs!OneJobLess /\ h.jobs = js
  BY ReportedIs DEF c, t
<1> HIDE DEF h
<1>10. CASE tn = Null
  <2>1. ReadsDeadNode(js)
    BY <1>5, <1>10
  <2>2. /\ process' = "undefined" /\ jobs' = js /\ working_job' = AbsProofs!OneJobLess
        /\ UNCHANGED <<candidates, trying>>
    BY <1>9, <2>1 DEF ReadsDeadNode, h
  <2>3. CandidateQueue' = CandidateQueue /\ TryingQueue' = TryingQueue
    BY <2>2, QueuesKept
  <2>4. AbsProofs!ReadsDeadNode(js)
    BY <2>2, <2>3 DEF AbsProofs!ReadsDeadNode
  <2> QED
    BY <1>7, <1>10, <2>4 DEF AbsProofs!MoveOn, i, tq, id, js
<1>11. CASE tn # Null
  <2>1. i # 0 /\ i \in 1..Len(r) /\ tn = r[i]
    BY <1>7, <1>11
  <2>2. /\ p \in 1..Len(s) /\ node = s[p] /\ node \in DOMAIN c.node
        /\ tq[i].matchingWith = cq[p] /\ cq[p] \in AbsProofs!Range(cq)
        /\ Len(cq) = Len(s) /\ (c.tail = node <=> p = Len(s))
    BY <1>8, <2>1 DEF PointsTo, c, t, cq, tq, node
  <2>3. AbsProofs!LastCandidate(p) <=> p = Len(s)
    BY <2>2 DEF AbsProofs!LastCandidate, cq
  <2>4. CASE p = Len(s)
    <3>1. Finish(Promote(h, r[i]), k)
      BY <1>2, <1>5, <1>11, <2>1, <2>2, <2>4
    <3>2. HeapIs(Promote(h, r[i]), h, k, Append(cq, tq[i].info), AbsProofs!RemoveAt(tq, i))
      BY <1>3, <1>9, <2>1, PromoteHeapIs
    <3>3. AbsProofs!ArrangeJob(Append(cq, tq[i].info), AbsProofs!RemoveAt(tq, i),
                               AbsProofs!OneJobLess, js)
      BY <1>2, <1>4, <1>9, <3>1, <3>2, FinishHeapIs
    <3>4. i # 0 /\ tq[i].matchingWith \in AbsProofs!Range(cq) /\ AbsProofs!LastCandidate(p)
      BY <2>1, <2>2, <2>3, <2>4
    <3> QED
      BY <3>3, <3>4 DEF AbsProofs!MoveOn, p, i, cq, tq, id, js
  <2>5. CASE p # Len(s)
    <3> DEFINE g == [h EXCEPT !.trying = NextNode(@, r[i], c.node[s[p]].next)]
               tq1 == [tq EXCEPT ![i] = AbsProofs!SentOn(tq[i], cq[p + 1])]
    <3>1. Finish(g, k)
      BY <1>2, <1>5, <1>11, <2>1, <2>2, <2>5
    <3>2. HeapIs(g, h, k, cq, tq1)
      BY <1>3, <1>9, <2>1, <2>2, <2>5, NextNodeIs
    <3> HIDE DEF g, tq1
    <3>3. AbsProofs!ArrangeJob(cq, tq1, AbsProofs!OneJobLess, js)
      BY <1>2, <1>4, <1>9, <3>1, <3>2, FinishHeapIs
    <3>4. i # 0 /\ tq[i].matchingWith \in AbsProofs!Range(cq) /\ ~AbsProofs!LastCandidate(p)
      BY <2>1, <2>2, <2>3, <2>5
    <3> QED
      BY <3>3, <3>4 DEF AbsProofs!MoveOn, tq1, p, i, cq, tq, id, js
  <2> QED
    BY <2>4, <2>5
<1> QED
  BY <1>10, <1>11

\* A report, whatever its verdict.
LEMMA ReportSeen ==
  ASSUME Sound, NEW n \in DOMAIN jobs, ReportOf(n)
  PROVE  AbsProofs!Report(n)
<1> DEFINE js == AbsProofs!RemoveAt(jobs, n)
           report == [trying_id |-> jobs[n].trying_info.id,
                      candidate_id |-> jobs[n].candidate_info.id,
                      result |-> AbsProofs!DoJob(jobs[n])]
           id == jobs[n].trying_info.id
           other == jobs[n].candidate_info.id
<1>1. HandleReport(report, js)
  <2>1. RemoveAt(jobs, n) = js
    BY DEF RemoveAt, AbsProofs!RemoveAt
  <2>2. Abstract!DoJob(jobs[n]) = AbsProofs!DoJob(jobs[n])
    BY DEF Abstract!DoJob, AbsProofs!DoJob
  <2> QED
    BY <2>1, <2>2 DEF ReportOf
<1>2. report.trying_id = id /\ report.candidate_id = other /\ report.result = AbsProofs!DoJob(jobs[n])
  OBVIOUS
<1> HIDE DEF report
<1>3. UNCHANGED likes
  BY <1>1 DEF HandleReport
<1>4. \/ /\ report.result
         /\ HandleMatch(id, js)
         /\ UNCHANGED quit_set
      \/ /\ ~report.result
         /\ {id, other} \intersect quit_set # {}
         /\ quit_set' = quit_set \ {IF id \in quit_set THEN id ELSE other}
         /\ Finish(Reported(js), try_match_counter)
         /\ UNCHANGED clientVars
      \/ /\ ~report.result
         /\ {id, other} \intersect quit_set = {}
         /\ MoveOn(id, js)
         /\ UNCHANGED <<quit_set, clientVars>>
  BY <1>1, <1>2 DEF HandleReport
<1>5. ASSUME report.result, HandleMatch(id, js), UNCHANGED quit_set
      PROVE  AbsProofs!HandleReport(report, js)
  <2>1. AbsProofs!HandleMatch(id, js)
    BY <1>5, HandleMatchSeen
  <2> HIDE DEF js, id
  <2> QED
    BY <1>2, <1>5, <2>1 DEF AbsProofs!HandleReport
<1>6. ASSUME ~report.result,
             {id, other} \intersect quit_set # {},
             quit_set' = quit_set \ {IF id \in quit_set THEN id ELSE other},
             Finish(Reported(js), try_match_counter),
             UNCHANGED clientVars
      PROVE  AbsProofs!HandleReport(report, js)
  <2>1. js \in Seq(AbsProofs!AssignJob) /\ AbsProofs!OneJobLess \in Nat
    BY OneLess
  <2> HIDE DEF js, id, other
  <2>2. UNCHANGED <<status, try_match_counter, match_peer, matched>>
    BY <1>6 DEF clientVars
  <2>3. AbsProofs!ArrangeJob(CandidateQueue, TryingQueue, AbsProofs!OneJobLess, js)
    BY <1>6, <2>1, <2>2, StaleSeen
  <2> QED
    BY <1>2, <1>6, <2>2, <2>3 DEF AbsProofs!HandleReport, AbsProofs!clientVars
<1>7. ASSUME ~report.result,
             {id, other} \intersect quit_set = {},
             MoveOn(id, js),
             UNCHANGED <<quit_set, clientVars>>
      PROVE  AbsProofs!HandleReport(report, js)
  <2>1. UNCHANGED <<status, try_match_counter, match_peer, matched>>
    BY <1>7 DEF clientVars
  <2>2. AbsProofs!MoveOn(id, js)
    BY <1>7, <2>1, MoveOnSeen
  <2> HIDE DEF js, id, other
  <2> QED
    BY <1>2, <1>7, <2>1, <2>2 DEF AbsProofs!HandleReport, AbsProofs!clientVars
<1>8. AbsProofs!HandleReport(report, js)
  BY <1>4, <1>5, <1>6, <1>7
<1> QED
  BY <1>3, <1>8 DEF AbsProofs!Report, report, js

-----------------------------------------------------------------------------
(* The theorem.                                                            *)

\* The walks over empty lists are empty.
LEMMA InitSeen == HeapInit => AbsProofs!Init
<1> SUFFICES ASSUME HeapInit PROVE AbsProofs!Init
  OBVIOUS
<1>1. Chain(candidates, <<>>) /\ Chain(trying, <<>>)
  BY EmptyChain DEF HeapInit
<1>2. L!Walk(candidates) = <<>> /\ L!Walk(trying) = <<>>
  BY <1>1, WalkFollows
<1>3. DOMAIN L!Walk(candidates) = {} /\ DOMAIN L!Walk(trying) = {}
  BY <1>2, EmptySeq
<1>4. CandidateQueue = <<>> /\ TryingQueue = <<>>
  BY <1>3 DEF CandidateQueue, TryingQueue
<1> QED
  BY <1>4 DEF HeapInit, AbsProofs!Init

\* Every step is one of Matching, or none.
LEMMA NextSeen == Sound /\ [HeapNext]_heapVars => [AbsProofs!Next]_(AbsProofs!vars)
<1> SUFFICES ASSUME Sound, [HeapNext]_heapVars PROVE [AbsProofs!Next]_(AbsProofs!vars)
  OBVIOUS
<1>1. CASE UNCHANGED heapVars
  <2>1. UNCHANGED <<candidates, trying, try_match_counter>>
    BY <1>1 DEF heapVars, clientVars
  <2>2. CandidateQueue' = CandidateQueue /\ TryingQueue' = TryingQueue
    BY <2>1, QueuesKept
  <2> QED
    BY <1>1, <2>2 DEF heapVars, clientVars, AbsProofs!vars, AbsProofs!queueVars,
                      AbsProofs!clientVars
<1>2. CASE HeapNext
  <2>1. process = "running"
    BY <1>2 DEF HeapNext
  <2>2. ASSUME NEW id \in Id, Abstract!MayTry(id), TryMatch(id)
        PROVE  AbsProofs!ClientStep(id)
    BY <2>2, TryMatchSeen DEF AbsProofs!ClientStep
  <2>3. ASSUME NEW id \in Id, Abstract!MayLeave(id), NEW left \in {"IDLE", "CLOSED"},
               Leave(id, left)
        PROVE  AbsProofs!ClientStep(id)
    BY <2>3, LeaveSeen
  <2>4. ASSUME NEW n \in DOMAIN jobs, ReportOf(n)
        PROVE  AbsProofs!WorkerStep
    BY <2>4, ReportSeen DEF AbsProofs!WorkerStep
  <2>5. \/ \E id \in Id : AbsProofs!ClientStep(id)
        \/ AbsProofs!WorkerStep
    BY <1>2, <2>2, <2>3, <2>4 DEF HeapNext, ClientStep, WorkerStep
  <2> QED
    BY <2>1, <2>5 DEF AbsProofs!Next
<1> QED
  BY <1>1, <1>2

\* So the pointers stay sound, and what they show is safe.
LEMMA SoundPreserved == AbsProofs!SteadyClients /\ Sound /\ [HeapNext]_heapVars => Sound'
<1> SUFFICES ASSUME AbsProofs!SteadyClients, Sound, [HeapNext]_heapVars PROVE Sound'
  OBVIOUS
<1>1. [AbsProofs!Next]_(AbsProofs!vars)
  BY NextSeen
<1>2. IInv'
  BY NextKeeps DEF Sound
<1>3. AbsProofs!SafeIInv'
  BY <1>1, AbsAssumed, AbsProofs!SafePreserved DEF Sound
<1> QED
  BY <1>2, <1>3 DEF Sound

\* As they do at first.
LEMMA SoundInit == HeapInit => Sound
BY InitInv, InitSeen, AbsAssumed, AbsProofs!SafeInit DEF Sound

\* The linked lists do what the sequences of module Matching say: the loops
\* over pointers of match_queue.cpp (arrange_job, add, detach,
\* detach_with_matcher, handle_report), with nodes freed and their addresses
\* used again, are the handlers of Matching, as long as the clients keep to
\* what the comments of the code call the tests.  (A client that does not can
\* leave a pointer to a freed node, which may be the address of a new one by
\* then; Matching has no such thing to show.)
THEOREM HeapImplementsMatching ==
  ASSUME AbsProofs!SteadyClients
  PROVE  HeapSpec => ImplementsMatching
<1>1. HeapInit => Abstract!Init
  BY InitSeen, SameSpec
<1>2. Sound /\ [HeapNext]_heapVars => [Abstract!Next]_(Abstract!vars)
  BY NextSeen, SameSpec
<1>3. Sound /\ [HeapNext]_heapVars => Sound'
  BY SoundPreserved
<1> QED
  BY <1>1, <1>2, <1>3, SoundInit, PTL DEF HeapSpec, ImplementsMatching, Abstract!Spec

\* What that says of the lists themselves: no handler has read a null or freed
\* node, no matchingWith is to a freed node, and what a walk finds has the
\* safety that was proved of the sequences.
HeapSafe ==
  /\ process = "running"
  /\ \A a \in DOMAIN trying.node :
       trying.node[a].value.matchingWith \in DOMAIN candidates.node
  /\ AbsProofs!PointersInOrder /\ AbsProofs!MarkedMeansTried
  /\ AbsProofs!MatchedAcceptEachOther /\ AbsProofs!CandidatesIncompatible

\* The code with its pointers is safe, as long as the clients keep to what its
\* comments call the tests: a freed list node is never read, and never pointed
\* to, although its address may be used again at once; and only those are told
\* that they are matched that accept each other.
THEOREM HeapIsSafe ==
  ASSUME AbsProofs!SteadyClients
  PROVE  HeapSpec => []HeapSafe
<1>1. Sound => HeapSafe
  <2> SUFFICES ASSUME Sound PROVE HeapSafe
    OBVIOUS
  <2>1. process = "running"
    BY SoundTypes
  <2>2. \A a \in DOMAIN trying.node :
          trying.node[a].value.matchingWith \in DOMAIN candidates.node
    BY SoundShows DEF Shows, View, Live
  <2>3. /\ AbsProofs!PointersInOrder /\ AbsProofs!MarkedMeansTried
        /\ AbsProofs!CandidatesIncompatible
    BY AbsAssumed, AbsProofs!SafePointersInOrder, AbsProofs!SafeMarkedMeansTried,
       AbsProofs!SafeCandidatesIncompatible DEF Sound
  <2>4. AbsProofs!MatchedAcceptEachOther
    BY DEF Sound, AbsProofs!SafeIInv, AbsProofs!AllAccept, AbsProofs!MatchedAcceptEachOther
  <2> QED
    BY <2>1, <2>2, <2>3, <2>4 DEF HeapSafe
<1>2. Sound /\ [HeapNext]_heapVars => Sound'
  BY SoundPreserved
<1> QED
  BY <1>1, <1>2, SoundInit, PTL DEF HeapSpec
=============================================================================
