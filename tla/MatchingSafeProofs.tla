------------------------- MODULE MatchingSafeProofs -------------------------
(***************************************************************************)
(* Proofs about module Matching when the clients keep to the two switches, *)
(* as the comments of the code say the tests do: no freed node is read,    *)
(* the users stay in line, and a verdict reaches the pair it is about, for *)
(* any number of users, requests and workers.                              *)
(***************************************************************************)
EXTENDS MatchingProofs

-----------------------------------------------------------------------------
(* Users in line.                                                          *)

\* pos[i] is the position in c of the candidate that user i of t points to.
\* Nobody is further ahead than those in front of it, and a user that is being
\* tried is the first in line for its candidate.  The user skip, if there is
\* one, is about to leave the line and does not count.
Lined(c, t, pos, skip) ==
  /\ pos \in [1..Len(t) -> Int]
  /\ \A i \in 1..Len(t) :
       i # skip => pos[i] \in 1..Len(c) /\ t[i].matchingWith = c[pos[i]]
  /\ \A i, j \in 1..Len(t) :
       i < j /\ i # skip /\ j # skip =>
         /\ pos[j] <= pos[i]
         /\ t[j].progress = "PROCESSING" => pos[j] < pos[i]

\* Whether the filters of two requests accept each other.
Accept(a, b) == DoJob([trying_info |-> a, candidate_info |-> b])

\* A user was refused by all candidates it has passed, and so was every
\* candidate by those in front of it.
Passed(c, t, pos, skip) ==
  /\ \A i \in 1..Len(t), q \in 1..Len(c) :
       i # skip /\ q < pos[i] => ~Accept(t[i].info, c[q])
  /\ \A p, q \in 1..Len(c) : p < q => ~Accept(c[q], c[p])

\* The jobs of the users that are marked.
Trials(t) == {JobOf(t[i]) : i \in {k \in 1..Len(t) : t[k].progress = "PROCESSING"}}

\* The candidates are different.
LEMMA HoldsDistinct ==
  ASSUME NEW c, NEW t, NEW M, Holds(c, t, M), NEW p \in 1..Len(c), NEW q \in 1..Len(c),
         c[p] = c[q]
  PROVE  p = q
BY DEF Holds

\* Searching for a candidate finds its position.
LEMMA PositionOf ==
  ASSUME NEW c \in Seq(Info), NEW t, NEW M, Holds(c, t, M), NEW p \in 1..Len(c)
  PROVE  CandidateAt(c, c[p].id) = p
<1>1. DOMAIN c = 1..Len(c)
  BY LenProperties
<1>2. \E n \in Range(c) : n.id = c[p].id
  BY <1>1 DEF Range
<1>3. /\ CandidateAt(c, c[p].id) \in 1..Len(c)
      /\ c[CandidateAt(c, c[p].id)].id = c[p].id
  BY <1>2, CandidateAtFinds
<1> QED
  BY <1>3 DEF Holds

\* Searching for a user finds its position.
LEMMA TryingAtOf ==
  ASSUME NEW c, NEW t \in Seq(TryingUser), NEW M, Holds(c, t, M), NEW i \in 1..Len(t)
  PROVE  TryingAt(t, t[i].info.id) = i
<1>1. TryingAt(t, t[i].info.id) # 0
  BY TryingAtFindsAny
<1>2. /\ TryingAt(t, t[i].info.id) \in 1..Len(t)
      /\ t[TryingAt(t, t[i].info.id)].info.id = t[i].info.id
  BY <1>1, TryingAtFinds
<1> QED
  BY <1>2 DEF Holds

\* A newcomer is behind all others, waits for the head, and passed nobody.
LEMMA LinedNewcomer ==
  ASSUME NEW c \in Seq(Info), NEW t \in Seq(TryingUser), NEW pos,
         Lined(c, t, pos, 0), Passed(c, t, pos, 0), 1 \in 1..Len(c),
         NEW u \in TryingUser, u.matchingWith = c[1], u.progress = "WAITING"
  PROVE  /\ \E new : Lined(c, Append(t, u), new, 0) /\ Passed(c, Append(t, u), new, 0)
         /\ Trials(Append(t, u)) = Trials(t)
<1> DEFINE d == Append(t, u)
           new == [k \in 1..(Len(t) + 1) |-> IF k \in 1..Len(t) THEN pos[k] ELSE 1]
<1>1. Len(c) \in Nat /\ Len(t) \in Nat
  BY LenProperties
<1>2. /\ Len(d) = Len(t) + 1
      /\ \A k \in 1..Len(d) : d[k] = IF k \in 1..Len(t) THEN t[k] ELSE u
  BY <1>1, AppendProperties
<1> HIDE DEF d
<1>3. /\ new \in [1..Len(d) -> Int]
      /\ \A k \in 1..Len(d) : new[k] = IF k \in 1..Len(t) THEN pos[k] ELSE 1
      /\ \A k \in 1..Len(t) : pos[k] \in 1..Len(c)
  BY <1>1, <1>2 DEF Lined
<1> HIDE DEF new
<1>4. Lined(c, d, new, 0)
  <2>1. \A k \in 1..Len(d) : new[k] \in 1..Len(c) /\ d[k].matchingWith = c[new[k]]
    BY <1>2, <1>3, SMTT(60) DEF Lined
  <2>2. \A i, j \in 1..Len(d) : i < j => i \in 1..Len(t)
    BY <1>1, <1>2
  <2>3. \A i, j \in 1..Len(d) : i < j => new[j] <= new[i]
    BY <1>1, <1>2, <1>3, <2>2 DEF Lined
  <2>4. \A i, j \in 1..Len(d) : i < j /\ d[j].progress = "PROCESSING" => new[j] < new[i]
    <3> SUFFICES ASSUME NEW i \in 1..Len(d), NEW j \in 1..Len(d), i < j,
                        d[j].progress = "PROCESSING"
                 PROVE  new[j] < new[i]
      OBVIOUS
    <3>1. i \in 1..Len(t)
      BY <2>2
    <3>2. j \in 1..Len(t)
      <4> SUFFICES ASSUME j \notin 1..Len(t) PROVE FALSE
        OBVIOUS
      <4>1. d[j] = u
        BY <1>2
      <4> QED
        BY <4>1
    <3>3. d[j] = t[j] /\ new[j] = pos[j] /\ new[i] = pos[i] /\ i # 0 /\ j # 0
      BY <1>2, <1>3, <3>1, <3>2
    <3> QED
      BY <3>1, <3>2, <3>3 DEF Lined
  <2> QED
    BY <1>3, <2>1, <2>3, <2>4 DEF Lined
<1>5. Passed(c, d, new, 0)
  <2>1. \A i \in 1..Len(d), q \in 1..Len(c) : q < new[i] => ~Accept(d[i].info, c[q])
    BY <1>1, <1>2, <1>3, SMTT(60) DEF Passed
  <2> QED
    BY <2>1 DEF Passed
<1>6. Trials(d) = Trials(t)
  <2>1. \A k \in 1..Len(d) : d[k].progress = "PROCESSING" => k \in 1..Len(t) /\ d[k] = t[k]
    <3> SUFFICES ASSUME NEW k \in 1..Len(d), d[k].progress = "PROCESSING"
                 PROVE  k \in 1..Len(t) /\ d[k] = t[k]
      OBVIOUS
    <3>1. k \notin 1..Len(t) => d[k] = u
      BY <1>2
    <3>2. k \in 1..Len(t)
      BY <3>1
    <3> QED
      BY <1>2, <3>2
  <2>2. \A k \in 1..Len(t) : k \in 1..Len(d) /\ d[k] = t[k]
    BY <1>1, <1>2
  <2> QED
    BY <2>1, <2>2 DEF Trials
<1>7. (\E w : Lined(c, d, w, 0) /\ Passed(c, d, w, 0)) /\ Trials(d) = Trials(t)
  BY <1>4, <1>5, <1>6
<1> QED
  BY <1>7 DEF d

\* A user gone from the line: one behind the user skip, or that user itself.
Without(t, pos, i) == [k \in 1..(Len(t) - 1) |-> pos[IF k < i THEN k ELSE k + 1]]

\* A user leaves the line.
LEMMA LinedLess ==
  ASSUME NEW c \in Seq(Info), NEW t \in Seq(TryingUser), NEW pos, NEW skip \in Nat,
         Lined(c, t, pos, skip), Passed(c, t, pos, skip),
         NEW i \in 1..Len(t), NEW now \in Nat,
         \/ skip < i /\ now = skip
         \/ skip = i /\ now = 0
  PROVE  /\ Lined(c, RemoveAt(t, i), Without(t, pos, i), now)
         /\ Passed(c, RemoveAt(t, i), Without(t, pos, i), now)
<1> DEFINE d == RemoveAt(t, i)
           new == Without(t, pos, i)
           At(k) == IF k < i THEN k ELSE k + 1
<1>1. Len(c) \in Nat /\ Len(t) \in Nat
  BY LenProperties
<1>2. /\ Len(d) = Len(t) - 1
      /\ \A k \in 1..Len(d) : d[k] = t[At(k)]
  BY <1>1, RemoveAtElements
<1>3. \A k \in 1..Len(d) : new[k] = pos[At(k)]
  BY <1>2 DEF Without
<1>4. \A k \in 1..Len(d) : At(k) \in 1..Len(t)
  BY <1>1, <1>2
<1>5. \A k \in 1..Len(d) : k # now => At(k) # skip
  BY <1>1, <1>2
<1>6. \A k, l \in 1..Len(d) : k < l => At(k) < At(l)
  BY <1>1, <1>2
<1>7. new \in [1..Len(d) -> Int]
  <2>1. \A k \in 1..Len(d) : pos[At(k)] \in Int
    <3> HIDE DEF At, d
    <3> QED
      BY <1>4 DEF Lined
  <2>2. new = [k \in 1..Len(d) |-> pos[At(k)]]
    BY <1>2 DEF Without
  <2> HIDE DEF At, d, new
  <2> QED
    BY <2>1, <2>2
<1> HIDE DEF d, new, At
<1>8. Lined(c, d, new, now)
  <2>1. \A k \in 1..Len(d) :
          k # now => new[k] \in 1..Len(c) /\ d[k].matchingWith = c[new[k]]
    <3> SUFFICES ASSUME NEW k \in 1..Len(d), k # now
                 PROVE  new[k] \in 1..Len(c) /\ d[k].matchingWith = c[new[k]]
      OBVIOUS
    <3>1. d[k] = t[At(k)] /\ new[k] = pos[At(k)] /\ At(k) \in 1..Len(t) /\ At(k) # skip
      BY <1>2, <1>3, <1>4, <1>5
    <3>2. pos[At(k)] \in 1..Len(c) /\ t[At(k)].matchingWith = c[pos[At(k)]]
      BY <3>1 DEF Lined
    <3> QED
      BY <3>1, <3>2
  <2>2. \A k, l \in 1..Len(d) :
          k < l /\ k # now /\ l # now =>
            new[l] <= new[k] /\ (d[l].progress = "PROCESSING" => new[l] < new[k])
    <3> SUFFICES ASSUME NEW k \in 1..Len(d), NEW l \in 1..Len(d),
                        k < l, k # now, l # now
                 PROVE  new[l] <= new[k] /\ (d[l].progress = "PROCESSING" => new[l] < new[k])
      OBVIOUS
    <3>1. /\ At(k) \in 1..Len(t) /\ At(l) \in 1..Len(t) /\ At(k) < At(l)
          /\ At(k) # skip /\ At(l) # skip
      BY <1>4, <1>5, <1>6
    <3>2. /\ new[k] = pos[At(k)] /\ new[l] = pos[At(l)] /\ d[l] = t[At(l)]
      BY <1>2, <1>3
    <3> QED
      BY <3>1, <3>2 DEF Lined
  <2> QED
    BY <1>7, <2>1, <2>2 DEF Lined
<1>9. Passed(c, d, new, now)
  <2>1. \A k \in 1..Len(d), q \in 1..Len(c) :
          k # now /\ q < new[k] => ~Accept(d[k].info, c[q])
    BY <1>2, <1>3, <1>4, <1>5 DEF Passed
  <2> QED
    BY <2>1 DEF Passed
<1> QED
  BY <1>8, <1>9 DEF d, new

\* ... takes its job out of the trials, if it has one.
LEMMA TrialsLess ==
  ASSUME NEW c, NEW t \in Seq(TryingUser), NEW M, Holds(c, t, M), NEW i \in 1..Len(t)
  PROVE  Trials(RemoveAt(t, i)) = {x \in Trials(t) : x.trying_info.id # t[i].info.id}
<1> DEFINE d == RemoveAt(t, i)
           At(k) == IF k < i THEN k ELSE k + 1
<1>1. Len(t) \in Nat
  BY LenProperties
<1>2. /\ Len(d) = Len(t) - 1
      /\ \A k \in 1..Len(d) : At(k) \in 1..Len(t) /\ At(k) # i /\ d[k] = t[At(k)]
  <2>1. /\ Len(d) = Len(t) - 1
        /\ \A k \in 1..Len(d) : d[k] = t[At(k)]
    BY <1>1, RemoveAtElements
  <2>2. \A k \in 1..Len(d) : At(k) \in 1..Len(t) /\ At(k) # i
    BY <1>1, <2>1
  <2> QED
    BY <2>1, <2>2
<1>3. \A m \in 1..Len(t) : m # i => \E k \in 1..Len(d) : d[k] = t[m]
  <2> SUFFICES ASSUME NEW m \in 1..Len(t), m # i PROVE \E k \in 1..Len(d) : d[k] = t[m]
    OBVIOUS
  <2> HIDE DEF d
  <2>1. CASE m < i
    <3>1. m \in 1..Len(d) /\ At(m) = m
      BY <1>1, <1>2, <2>1
    <3> QED
      BY <1>2, <3>1
  <2>2. CASE m > i
    <3>1. m - 1 \in 1..Len(d) /\ At(m - 1) = m
      BY <1>1, <1>2, <2>2
    <3> QED
      BY <1>2, <3>1
  <2> QED
    BY <1>1, <2>1, <2>2
<1> HIDE DEF d, At
<1>4. \A m \in 1..Len(t) : t[m].info.id = t[i].info.id <=> m = i
  BY DEF Holds
<1>5. \A m \in 1..Len(t) : JobOf(t[m]).trying_info.id = t[m].info.id
  BY DEF JobOf
<1>6. ASSUME NEW x \in Trials(d)
      PROVE  x \in Trials(t) /\ x.trying_info.id # t[i].info.id
  <2> PICK k \in 1..Len(d) : d[k].progress = "PROCESSING" /\ x = JobOf(d[k])
    BY <1>6 DEF Trials
  <2>1. At(k) \in 1..Len(t) /\ At(k) # i /\ t[At(k)].progress = "PROCESSING"
        /\ x = JobOf(t[At(k)])
    BY <1>2
  <2> QED
    BY <1>4, <1>5, <2>1 DEF Trials
<1>7. ASSUME NEW x \in Trials(t), x.trying_info.id # t[i].info.id
      PROVE  x \in Trials(d)
  <2> PICK m \in 1..Len(t) : t[m].progress = "PROCESSING" /\ x = JobOf(t[m])
    BY <1>7 DEF Trials
  <2>1. m # i
    BY <1>5, <1>7
  <2> PICK k \in 1..Len(d) : d[k] = t[m]
    BY <1>3, <2>1
  <2> QED
    BY DEF Trials
<1>8. Trials(d) = {x \in Trials(t) : x.trying_info.id # t[i].info.id}
  BY <1>6, <1>7
<1> QED
  BY <1>8 DEF d

\* A new candidate, whom all the others refused.
LEMMA LinedCandidate ==
  ASSUME NEW c \in Seq(Info), NEW t \in Seq(TryingUser), NEW pos,
         Lined(c, t, pos, 0), Passed(c, t, pos, 0),
         NEW info \in Info, \A q \in 1..Len(c) : ~Accept(info, c[q])
  PROVE  Lined(Append(c, info), t, pos, 0) /\ Passed(Append(c, info), t, pos, 0)
<1> DEFINE d == Append(c, info)
<1>1. Len(c) \in Nat
  BY LenProperties
<1>2. /\ Len(d) = Len(c) + 1
      /\ \A k \in 1..Len(d) : d[k] = IF k \in 1..Len(c) THEN c[k] ELSE info
  BY <1>1, AppendProperties
<1> HIDE DEF d
<1>3. \A k \in 1..Len(c) : k \in 1..Len(d) /\ d[k] = c[k]
  BY <1>1, <1>2
<1>4. Lined(d, t, pos, 0)
  <2>1. \A i \in 1..Len(t) : i # 0 => pos[i] \in 1..Len(d) /\ t[i].matchingWith = d[pos[i]]
    BY <1>3 DEF Lined
  <2> QED
    BY <2>1 DEF Lined
<1>5. Passed(d, t, pos, 0)
  <2>1. \A i \in 1..Len(t), q \in 1..Len(d) : i # 0 /\ q < pos[i] => ~Accept(t[i].info, d[q])
    <3> SUFFICES ASSUME NEW i \in 1..Len(t), NEW q \in 1..Len(d), q < pos[i]
                 PROVE  ~Accept(t[i].info, d[q])
      OBVIOUS
    <3>1. pos[i] \in 1..Len(c) /\ i # 0
      BY DEF Lined
    <3>2. q \in 1..Len(c) /\ d[q] = c[q]
      BY <1>1, <1>3, <3>1
    <3> QED
      BY <3>1, <3>2 DEF Passed
  <2>2. \A p, q \in 1..Len(d) : p < q => ~Accept(d[q], d[p])
    <3> SUFFICES ASSUME NEW p \in 1..Len(d), NEW q \in 1..Len(d), p < q
                 PROVE  ~Accept(d[q], d[p])
      OBVIOUS
    <3>1. p \in 1..Len(c) /\ d[p] = c[p]
      BY <1>1, <1>2
    <3>2. CASE q \in 1..Len(c)
      BY <1>2, <3>1, <3>2 DEF Passed
    <3>3. CASE q \notin 1..Len(c)
      BY <1>2, <3>1, <3>3
    <3> QED
      BY <3>2, <3>3
  <2> QED
    BY <2>1, <2>2 DEF Passed
<1> QED
  BY <1>4, <1>5 DEF d

\* A user goes one further, refused by the candidate it was the first in line
\* for.
LEMMA LinedFurther ==
  ASSUME NEW c \in Seq(Info), NEW t \in Seq(TryingUser), NEW pos,
         Lined(c, t, pos, 0), Passed(c, t, pos, 0),
         NEW i \in 1..Len(t), t[i].progress = "PROCESSING", pos[i] + 1 \in 1..Len(c),
         ~Accept(t[i].info, t[i].matchingWith),
         NEW u \in TryingUser, u = SentOn(t[i], c[pos[i] + 1])
  PROVE  LET new == [pos EXCEPT ![i] = @ + 1]
         IN Lined(c, [t EXCEPT ![i] = u], new, 0) /\ Passed(c, [t EXCEPT ![i] = u], new, 0)
<1> DEFINE d == [t EXCEPT ![i] = u]
           new == [pos EXCEPT ![i] = @ + 1]
<1>1. Len(c) \in Nat /\ Len(t) \in Nat /\ DOMAIN t = 1..Len(t)
  BY LenProperties
<1>2. d \in Seq(TryingUser) /\ Len(d) = Len(t)
  BY ExceptSeq
<1>3. \A k \in 1..Len(t) : d[k] = IF k = i THEN u ELSE t[k]
  BY <1>1
<1>4. /\ pos \in [1..Len(t) -> Int]
      /\ \A k \in 1..Len(t) : pos[k] \in 1..Len(c) /\ t[k].matchingWith = c[pos[k]]
  BY DEF Lined
<1>5. /\ new \in [1..Len(t) -> Int]
      /\ \A k \in 1..Len(t) : new[k] = IF k = i THEN pos[i] + 1 ELSE pos[k]
  BY <1>4
<1>6. /\ u.info = t[i].info /\ u.matchingWith = c[pos[i] + 1] /\ u.progress = "WAITING"
  <2>1. t[i] \in TryingUser
    BY ElementOfSeq
  <2> QED
    BY <2>1 DEF TryingUser, SentOn
<1> HIDE DEF d, new
<1>7. Lined(c, d, new, 0)
  <2>1. \A k \in 1..Len(d) : new[k] \in 1..Len(c) /\ d[k].matchingWith = c[new[k]]
    BY <1>2, <1>3, <1>4, <1>5, <1>6
  <2>2. \A k, l \in 1..Len(d) :
          k < l => new[l] <= new[k] /\ (d[l].progress = "PROCESSING" => new[l] < new[k])
    <3> SUFFICES ASSUME NEW k \in 1..Len(t), NEW l \in 1..Len(t), k < l
                 PROVE  new[l] <= new[k] /\ (d[l].progress = "PROCESSING" => new[l] < new[k])
      BY <1>2
    <3>1. /\ k # 0 /\ l # 0 /\ pos[l] <= pos[k] /\ pos[k] \in Int /\ pos[l] \in Int
          /\ t[l].progress = "PROCESSING" => pos[l] < pos[k]
      BY <1>4 DEF Lined
    <3>2. CASE l = i
      <4>1. d[l] = u /\ new[l] = pos[i] + 1 /\ new[k] = pos[k] /\ pos[i] < pos[k]
        BY <1>3, <1>5, <3>1, <3>2
      <4>2. d[l].progress # "PROCESSING"
        BY <1>6, <4>1
      <4> QED
        BY <3>1, <3>2, <4>1, <4>2
    <3>3. CASE l # i
      <4>1. d[l] = t[l] /\ new[l] = pos[l] /\ new[k] \in {pos[k], pos[k] + 1}
        BY <1>3, <1>5, <3>3
      <4> QED
        BY <3>1, <4>1
    <3> QED
      BY <3>2, <3>3
  <2> QED
    BY <1>2, <1>5, <2>1, <2>2 DEF Lined
<1>8. Passed(c, d, new, 0)
  <2>1. \A k \in 1..Len(d), q \in 1..Len(c) : k # 0 /\ q < new[k] => ~Accept(d[k].info, c[q])
    <3> SUFFICES ASSUME NEW k \in 1..Len(t), NEW q \in 1..Len(c), q < new[k]
                 PROVE  ~Accept(d[k].info, c[q])
      BY <1>2
    <3>1. d[k].info = t[k].info
      BY <1>3, <1>6
    <3>2. q < pos[k] => ~Accept(t[k].info, c[q])
      BY DEF Passed
    <3>3. CASE q < pos[k]
      BY <3>1, <3>2, <3>3
    <3>4. CASE ~(q < pos[k])
      <4>1. k = i /\ q = pos[i]
        BY <1>4, <1>5, <3>4
      <4> QED
        BY <1>4, <3>1, <4>1
    <3> QED
      BY <3>3, <3>4
  <2> QED
    BY <2>1 DEF Passed
<1> QED
  BY <1>7, <1>8 DEF d, new

\* ... and its trial is over.
LEMMA TrialsFurther ==
  ASSUME NEW c, NEW t \in Seq(TryingUser), NEW M, Holds(c, t, M), NEW i \in 1..Len(t),
         NEW u \in TryingUser, u.progress = "WAITING"
  PROVE  Trials([t EXCEPT ![i] = u]) = {x \in Trials(t) : x.trying_info.id # t[i].info.id}
<1> DEFINE d == [t EXCEPT ![i] = u]
<1>1. DOMAIN t = 1..Len(t)
  BY LenProperties
<1>2. /\ Len(d) = Len(t)
      /\ \A k \in 1..Len(t) : d[k] = IF k = i THEN u ELSE t[k]
  BY <1>1, ExceptSeq
<1> HIDE DEF d
<1>3. u.progress # "PROCESSING"
  OBVIOUS
<1>4. {k \in 1..Len(d) : d[k].progress = "PROCESSING"}
        = {k \in 1..Len(t) : t[k].progress = "PROCESSING"} \ {i}
  BY <1>2, <1>3
<1>5. \A k \in 1..Len(t) : k # i => d[k] = t[k] /\ t[k].info.id # t[i].info.id
  BY <1>2 DEF Holds
<1>6. \A m \in 1..Len(t) : JobOf(t[m]).trying_info.id = t[m].info.id
  BY DEF JobOf
<1>7. Trials(d) = {x \in Trials(t) : x.trying_info.id # t[i].info.id}
  BY <1>4, <1>5, <1>6 DEF Trials
<1> QED
  BY <1>7 DEF d

\* Where the users are in line once candidate p is gone.
Closed(pos, p) == [k \in DOMAIN pos |-> IF pos[k] > p THEN pos[k] - 1 ELSE pos[k]]

\* Nobody is being tried against candidate p (but the user skip), and the search
\* for those that wait for it starts between the users that are further ahead
\* and the others.
Droppable(t, pos, skip, p, first) ==
  /\ skip < first
  /\ \A k \in 1..Len(t) : k >= first => pos[k] <= p
  /\ \A k \in 1..Len(t) : k < first /\ k # skip => pos[k] # p
  /\ \A k \in 1..Len(t) : k # skip /\ pos[k] = p => t[k].progress = "WAITING"

\* Dropping a candidate keeps the line.
LEMMA LinedDrop ==
  ASSUME NEW c \in Seq(Info), NEW t \in Seq(TryingUser), NEW M, Holds(c, t, M),
         NEW pos, NEW skip \in Nat,
         Lined(c, t, pos, skip), Passed(c, t, pos, skip),
         NEW p \in 1..Len(c), NEW first \in Nat \ {0},
         Droppable(t, pos, skip, p, first)
  PROVE  LET d == DropCandidate(c, t, p, first)
         IN /\ \E new : Lined(d.candidates, d.trying, new, skip)
                        /\ Passed(d.candidates, d.trying, new, skip)
            /\ Trials(d.trying) = Trials(t)
            /\ skip \in 1..Len(t) => d.trying[skip] = t[skip]
<1> DEFINE promote == /\ p = Len(c)
                      /\ first \in DOMAIN t
                      /\ t[first].matchingWith = c[p]
           c1 == IF promote THEN Append(c, t[first].info) ELSE c
           t1 == IF promote THEN RemoveAt(t, first) ELSE t
           pos1 == IF promote THEN Without(t, pos, first) ELSE pos
           behind == RunFrom(t1, first, c[p])
           d == [i \in DOMAIN t1 |->
                   IF i \in behind THEN [t1[i] EXCEPT !.matchingWith = c1[p+1]]
                                   ELSE t1[i]]
           c3 == RemoveAt(c1, p)
           new == Closed(pos1, p)
<1>free. /\ skip < first
         /\ \A k \in 1..Len(t) : k >= first => pos[k] <= p
         /\ \A k \in 1..Len(t) : k < first /\ k # skip => pos[k] # p
         /\ \A k \in 1..Len(t) : k # skip /\ pos[k] = p => t[k].progress = "WAITING"
  BY DEF Droppable
<1>1. /\ DropCandidate(c, t, p, first).candidates = c3
      /\ DropCandidate(c, t, p, first).trying = d
  BY DEF DropCandidate
<1>2. DOMAIN t = 1..Len(t) /\ Len(t) \in Nat /\ Len(c) \in Nat
  BY LenProperties
<1>promoted. ASSUME promote
             PROVE  p = Len(c) /\ first \in 1..Len(t) /\ first # skip /\ pos[first] = p
                    /\ t[first].progress = "WAITING" /\ t[first].info \in Info
  <2>1. first \in 1..Len(t) /\ first # skip
    BY <1>free, <1>promoted, <1>2
  <2>2. pos[first] \in 1..Len(c) /\ c[pos[first]] = c[p]
    BY <1>promoted, <2>1 DEF Lined
  <2>3. pos[first] = p
    BY <2>2, HoldsDistinct
  <2>4. t[first].info \in Info
    <3>1. t[first] \in TryingUser
      BY <2>1, ElementOfSeq
    <3> QED
      BY <3>1 DEF TryingUser
  <2> QED
    BY <1>free, <1>promoted, <2>1, <2>3, <2>4
<1>trials. /\ Trials(t1) = Trials(t)
           /\ skip \in 1..Len(t) => skip \in 1..Len(t1) /\ t1[skip] = t[skip]
  <2>1. CASE promote
    <3>1. t1 = RemoveAt(t, first)
      BY <2>1
    <3>2. first \in 1..Len(t) /\ t[first].progress # "PROCESSING"
      BY <1>promoted, <2>1
    <3> HIDE DEF t1, promote
    <3>3. Trials(t1) = {x \in Trials(t) : x.trying_info.id # t[first].info.id}
      BY <3>1, <3>2, TrialsLess
    <3>4. ASSUME NEW x \in Trials(t) PROVE x.trying_info.id # t[first].info.id
      <4> PICK m \in 1..Len(t) : t[m].progress = "PROCESSING" /\ x = JobOf(t[m])
        BY DEF Trials
      <4>1. x.trying_info.id = t[m].info.id
        BY DEF JobOf
      <4>2. m # first
        BY <3>2
      <4> QED
        BY <3>2, <4>1, <4>2 DEF Holds
    <3>5. /\ Len(t1) = Len(t) - 1
          /\ \A k \in 1..(Len(t) - 1) : t1[k] = IF k < first THEN t[k] ELSE t[k+1]
      BY <3>1, <3>2, RemoveAtElements
    <3>6. skip \in 1..Len(t) => skip \in 1..Len(t1) /\ t1[skip] = t[skip]
      BY <1>free, <1>2, <3>2, <3>5
    <3> QED
      BY <3>3, <3>4, <3>6
  <2>2. CASE ~promote
    BY <2>2
  <2> QED
    BY <2>1, <2>2
<1>3. /\ t1 \in Seq(TryingUser)
      /\ Lined(c, t1, pos1, skip) /\ Passed(c, t1, pos1, skip)
      /\ \A k \in 1..Len(t1) : k >= first => pos1[k] <= p
      /\ \A k \in 1..Len(t1) : k < first /\ k # skip => pos1[k] # p
      /\ \A k \in 1..Len(t1) : k # skip /\ pos1[k] = p => t1[k].progress = "WAITING"
  <2>1. CASE promote
    <3>1. t1 = RemoveAt(t, first) /\ pos1 = Without(t, pos, first)
      BY <2>1
    <3>2. first \in 1..Len(t)
      BY <1>promoted, <2>1
    <3> HIDE DEF t1, pos1, promote
    <3>3. /\ t1 \in Seq(TryingUser) /\ Len(t1) = Len(t) - 1
          /\ \A k \in 1..(Len(t) - 1) : t1[k] = IF k < first THEN t[k] ELSE t[k+1]
      BY <3>1, <3>2, RemoveAtElements
    <3>4. \A k \in 1..Len(t1) : pos1[k] = IF k < first THEN pos[k] ELSE pos[k+1]
      BY <3>1, <3>3 DEF Without
    <3>5. \A k \in 1..Len(t1) : k \in 1..Len(t) /\ k + 1 \in 1..Len(t)
      BY <1>2, <3>3
    <3>6. Lined(c, t1, pos1, skip) /\ Passed(c, t1, pos1, skip)
      BY <1>free, <3>1, <3>2, LinedLess
    <3>7. \A k \in 1..Len(t1) : k >= first => pos1[k] <= p
      BY <1>free, <3>4, <3>5, SMTT(60)
    <3>8. \A k \in 1..Len(t1) : k < first /\ k # skip => pos1[k] # p
      BY <1>free, <3>4, <3>5
    <3>9. \A k \in 1..Len(t1) : k # skip /\ pos1[k] = p => t1[k].progress = "WAITING"
      <4> SUFFICES ASSUME NEW k \in 1..Len(t1), k # skip, pos1[k] = p
                   PROVE  t1[k].progress = "WAITING"
        OBVIOUS
      <4>1. CASE k < first
        BY <1>free, <3>3, <3>4, <3>5, <4>1
      <4>2. CASE ~(k < first)
        <5>1. k + 1 # skip /\ k + 1 \in 1..Len(t)
          BY <1>free, <3>5, <4>2
        <5>2. pos[k+1] = p /\ t1[k] = t[k+1]
          BY <3>3, <3>4, <4>2
        <5> QED
          BY <1>free, <5>1, <5>2
      <4> QED
        BY <4>1, <4>2
    <3> QED
      BY <3>3, <3>6, <3>7, <3>8, <3>9
  <2>2. CASE ~promote
    <3>1. t1 = t /\ pos1 = pos
      BY <2>2
    <3> HIDE DEF t1, pos1, promote
    <3> QED
      BY <1>free, <3>1
  <2> QED
    BY <2>1, <2>2
<1>4. /\ c1 \in Seq(Info) /\ Len(c1) \in Len(c)..(Len(c) + 1)
      /\ \A k \in 1..Len(c) : c1[k] = c[k]
      /\ Len(c1) = Len(c) + 1 => promote /\ c1[Len(c) + 1] = t[first].info
      /\ promote => Len(c1) = Len(c) + 1
  <2>1. CASE promote
    <3>1. c1 = Append(c, t[first].info)
      BY <2>1
    <3>2. t[first].info \in Info
      BY <1>promoted, <2>1
    <3> HIDE DEF c1
    <3>3. /\ c1 \in Seq(Info) /\ Len(c1) = Len(c) + 1
          /\ \A k \in 1..Len(c) : c1[k] = c[k]
          /\ c1[Len(c) + 1] = t[first].info
      BY <1>2, <3>1, <3>2, AppendProperties
    <3> QED
      BY <1>2, <2>1, <3>3
  <2>2. CASE ~promote
    <3>1. c1 = c
      BY <2>2
    <3> HIDE DEF c1, promote
    <3> QED
      BY <1>2, <2>2, <3>1
  <2> QED
    BY <2>1, <2>2
<1>5. Len(t1) \in Nat /\ DOMAIN t1 = 1..Len(t1)
  <2> HIDE DEF t1
  <2> QED
    BY <1>3, LenProperties
<1>6. \A k \in 1..Len(t1) :
        k # skip => pos1[k] \in 1..Len(c) /\ t1[k].matchingWith = c[pos1[k]]
  <2> HIDE DEF t1, pos1
  <2> QED
    BY <1>3 DEF Lined
<1>7. \A k \in 1..Len(t1) : k # skip => (k \in behind <=> pos1[k] = p)
  <2> SUFFICES ASSUME NEW k \in 1..Len(t1), k # skip
               PROVE  k \in behind <=> pos1[k] = p
    OBVIOUS
  <2> HIDE DEF t1, pos1
  <2>1. ASSUME k \in behind PROVE pos1[k] = p
    <3>1. t1[k].matchingWith = c[p]
      BY <1>5, <2>1 DEF RunFrom
    <3> QED
      BY <1>6, <3>1, HoldsDistinct
  <2>2. ASSUME pos1[k] = p PROVE k \in behind
    <3>1. first <= k
      BY <1>3, <2>2
    <3>2. ASSUME NEW m \in first..k PROVE t1[m].matchingWith = c[p]
      <4>1. m \in 1..Len(t1) /\ m # skip /\ m >= first
        BY <1>free, <1>5
      <4>2. pos1[m] <= p /\ pos1[m] \in 1..Len(c)
        BY <1>3, <1>6, <4>1
      <4>3. pos1[m] >= p
        <5>1. CASE m = k
          BY <2>2, <4>2, <5>1
        <5>2. CASE m # k
          <6>1. m < k
            BY <5>2
          <6>2. pos1[k] <= pos1[m]
            BY <1>3, <4>1, <6>1 DEF Lined
          <6> QED
            BY <2>2, <4>2, <6>2
        <5> QED
          BY <5>1, <5>2
      <4>4. pos1[m] = p
        BY <4>2, <4>3
      <4> QED
        BY <1>6, <4>1, <4>4
    <3> QED
      BY <1>5, <3>1, <3>2 DEF RunFrom
  <2> QED
    BY <2>1, <2>2
<1>8. skip \notin behind
  BY <1>free DEF RunFrom
<1>9. (\E k \in 1..Len(t1) : k # skip /\ pos1[k] = p) => p + 1 \in 1..Len(c1)
  <2> SUFFICES ASSUME NEW k \in 1..Len(t1), k # skip, pos1[k] = p, ~promote, p = Len(c)
               PROVE  FALSE
    BY <1>2, <1>4
  <2>1. t1 = t /\ pos1 = pos
    OBVIOUS
  <2>2. k \in 1..Len(t) /\ k >= first
    BY <1>3, <2>1
  <2>3. first \in 1..Len(t) /\ first # skip
    BY <1>free, <1>2, <2>2
  <2> HIDE DEF t1, pos1
  <2>4. pos[first] <= p /\ pos[first] \in 1..Len(c) /\ t[first].matchingWith = c[pos[first]]
    BY <1>free, <1>6, <2>1, <2>3
  <2>5. pos[first] >= p
    <3>1. CASE k = first
      BY <2>1, <2>4, <3>1
    <3>2. CASE k # first
      <4>1. first < k
        BY <2>2, <3>2
      <4>2. pos[k] <= pos[first]
        BY <2>2, <2>3, <4>1 DEF Lined
      <4> QED
        BY <2>1, <2>4, <4>2
    <3> QED
      BY <3>1, <3>2
  <2>6. t[first].matchingWith = c[p]
    BY <2>4, <2>5
  <2> QED
    BY <1>2, <2>3, <2>6
<1> HIDE DEF t1, pos1, c1, promote, behind
<1>10. /\ Len(c3) = Len(c1) - 1
       /\ \A k \in 1..(Len(c1) - 1) : c3[k] = IF k < p THEN c1[k] ELSE c1[k+1]
  <2>1. p \in 1..Len(c1)
    BY <1>2, <1>4
  <2> QED
    BY <1>4, <2>1, RemoveAtElements
<1>11. /\ DOMAIN d = 1..Len(t1)
       /\ \A k \in 1..Len(t1) :
            /\ d[k].info = t1[k].info /\ d[k].progress = t1[k].progress
            /\ k \in behind => d[k].matchingWith = c1[p+1]
            /\ k \notin behind => d[k] = t1[k]
  <2>1. \A k \in 1..Len(t1) : t1[k] \in TryingUser
    BY <1>3, ElementOfSeq
  <2> QED
    BY <1>5, <2>1 DEF TryingUser
<1>12. Len(d) = Len(t1)
  <2> DEFINE S == {d[i] : i \in 1..Len(t1)}
  <2>1. d \in [1..Len(t1) -> S]
    BY <1>5
  <2> HIDE DEF d, S
  <2> QED
    BY <2>1, <1>5, FunctionIsSeq
<1>13. /\ DOMAIN pos1 = 1..Len(t1)
       /\ \A k \in 1..Len(t1) : pos1[k] \in Int
  BY <1>3 DEF Lined
<1>14. /\ new \in [1..Len(t1) -> Int]
       /\ \A k \in 1..Len(t1) : new[k] = IF pos1[k] > p THEN pos1[k] - 1 ELSE pos1[k]
  BY <1>13 DEF Closed
<1> HIDE DEF d, c3, new
<1>15. \A k \in 1..Len(t1) :
         k # skip => new[k] \in 1..Len(c3) /\ d[k].matchingWith = c3[new[k]]
  <2> SUFFICES ASSUME NEW k \in 1..Len(t1), k # skip
               PROVE  new[k] \in 1..Len(c3) /\ d[k].matchingWith = c3[new[k]]
    OBVIOUS
  <2>1. pos1[k] \in 1..Len(c) /\ t1[k].matchingWith = c[pos1[k]]
    BY <1>6
  <2>2. CASE pos1[k] = p
    <3>1. new[k] = p /\ p + 1 \in 1..Len(c1) /\ d[k].matchingWith = c1[p+1]
      BY <1>7, <1>9, <1>11, <1>14, <2>2
    <3>2. p \in 1..Len(c3) /\ c3[p] = c1[p+1]
      BY <1>4, <1>10, <3>1
    <3> QED
      BY <3>1, <3>2
  <2>3. CASE pos1[k] < p
    <3>1. new[k] = pos1[k] /\ d[k] = t1[k]
      BY <1>7, <1>11, <1>14, <2>1, <2>3
    <3>2. pos1[k] \in 1..(Len(c1) - 1) /\ Len(c1) - 1 \in Nat
      BY <1>2, <1>4, <2>1, <2>3
    <3>3. pos1[k] \in 1..Len(c3) /\ c3[pos1[k]] = c1[pos1[k]] /\ c1[pos1[k]] = c[pos1[k]]
      BY <1>4, <1>10, <2>1, <2>3, <3>2
    <3> QED
      BY <2>1, <3>1, <3>3
  <2>4. CASE pos1[k] > p
    <3>1. new[k] = pos1[k] - 1 /\ d[k] = t1[k]
      BY <1>7, <1>11, <1>14, <2>1, <2>4
    <3>2. /\ pos1[k] - 1 \in 1..Len(c3) /\ c3[pos1[k] - 1] = c1[pos1[k]]
          /\ c1[pos1[k]] = c[pos1[k]]
      BY <1>2, <1>4, <1>10, <2>1, <2>4, SMTT(60)
    <3> QED
      BY <2>1, <3>1, <3>2
  <2> QED
    BY <2>1, <2>2, <2>3, <2>4
<1>16. \A k, l \in 1..Len(t1) :
         k < l /\ k # skip /\ l # skip =>
           new[l] <= new[k] /\ (d[l].progress = "PROCESSING" => new[l] < new[k])
  <2> SUFFICES ASSUME NEW k \in 1..Len(t1), NEW l \in 1..Len(t1),
                      k < l, k # skip, l # skip
               PROVE  new[l] <= new[k] /\ (d[l].progress = "PROCESSING" => new[l] < new[k])
    OBVIOUS
  <2>1. pos1[l] <= pos1[k] /\ (t1[l].progress = "PROCESSING" => pos1[l] < pos1[k])
    BY <1>3 DEF Lined
  <2>2. pos1[l] \in 1..Len(c) /\ pos1[k] \in 1..Len(c)
    BY <1>6
  <2>here. /\ new[l] = IF pos1[l] > p THEN pos1[l] - 1 ELSE pos1[l]
           /\ new[k] = IF pos1[k] > p THEN pos1[k] - 1 ELSE pos1[k]
    BY <1>14
  <2>numbers. pos1[l] \in Nat /\ pos1[k] \in Nat /\ p \in Nat
    BY <1>2, <2>2
  <2>3. new[l] <= new[k]
    BY <2>1, <2>here, <2>numbers
  <2>4. ASSUME d[l].progress = "PROCESSING" PROVE new[l] < new[k]
    <3>1. t1[l].progress = "PROCESSING"
      BY <1>11, <2>4
    <3>2. pos1[l] # p
      <4> SUFFICES ASSUME pos1[l] = p PROVE FALSE
        OBVIOUS
      <4>1. t1[l].progress = "WAITING"
        BY <1>3
      <4> QED
        BY <3>1, <4>1
    <3> QED
      BY <2>1, <2>here, <2>numbers, <3>1, <3>2
  <2> QED
    BY <2>3, <2>4
<1>17. Lined(c3, d, new, skip)
  BY <1>12, <1>14, <1>15, <1>16 DEF Lined
<1>18. \A k \in 1..Len(t1), q \in 1..Len(c3) :
         k # skip /\ q < new[k] => ~Accept(d[k].info, c3[q])
  <2> SUFFICES ASSUME NEW k \in 1..Len(t1), NEW q \in 1..Len(c3), k # skip, q < new[k]
               PROVE  ~Accept(d[k].info, c3[q])
    OBVIOUS
  <2>1. pos1[k] \in 1..Len(c) /\ d[k].info = t1[k].info
    BY <1>6, <1>11
  <2>2. \A r \in 1..Len(c) : r < pos1[k] => ~Accept(t1[k].info, c[r])
    BY <1>3 DEF Passed
  <2>3. CASE q < p
    <3>1. q \in 1..Len(c) /\ q < pos1[k]
      BY <1>2, <1>14, <2>1, <2>3
    <3>2. c3[q] = c[q]
      BY <1>2, <1>4, <1>10, <2>3, <3>1
    <3> QED
      BY <2>1, <2>2, <3>1, <3>2
  <2>4. CASE ~(q < p)
    <3>0. q \in Nat /\ p <= q /\ p \in Nat /\ pos1[k] \in Nat
          /\ (pos1[k] > p => new[k] = pos1[k] - 1) /\ (~(pos1[k] > p) => new[k] = pos1[k])
      BY <1>2, <1>14, <2>1, <2>4
    <3>1. q + 1 \in 1..Len(c) /\ q + 1 < pos1[k]
      BY <1>2, <2>1, <3>0, SMTT(60)
    <3>2. c3[q] = c[q+1]
      BY <1>2, <1>4, <1>10, <2>4, <3>1
    <3> QED
      BY <2>1, <2>2, <3>1, <3>2
  <2> QED
    BY <2>3, <2>4
<1>19. \A q, r \in 1..Len(c3) : q < r => ~Accept(c3[r], c3[q])
  <2> SUFFICES ASSUME NEW q \in 1..Len(c3), NEW r \in 1..Len(c3), q < r
               PROVE  ~Accept(c3[r], c3[q])
    OBVIOUS
  <2> DEFINE At(k) == IF k < p THEN k ELSE k + 1
  <2>0. /\ Len(c1) \in Nat /\ Len(c3) = Len(c1) - 1
        /\ p \in Nat /\ q \in Nat /\ r \in Nat
    BY <1>2, <1>4, <1>10
  <2>1. /\ At(q) \in 1..Len(c1) /\ At(r) \in 1..Len(c1)
        /\ At(q) < At(r) /\ At(q) # p
        /\ Len(c1) \in Nat
    BY <2>0
  <2>2. c3[q] = c1[At(q)] /\ c3[r] = c1[At(r)]
    <3>1. q \in 1..(Len(c1) - 1) /\ r \in 1..(Len(c1) - 1)
      BY <1>10
    <3> QED
      BY <1>10, <3>1
  <2> HIDE DEF At
  <2>3. At(q) \in 1..Len(c) /\ c1[At(q)] = c[At(q)]
    <3>1. Len(c1) <= Len(c) + 1
      BY <1>2, <1>4
    <3>2. At(q) \in 1..Len(c)
      BY <1>2, <2>1, <3>1
    <3> QED
      BY <1>4, <3>2
  <2>4. CASE At(r) \in 1..Len(c)
    <3>1. c1[At(r)] = c[At(r)]
      BY <1>4, <2>4
    <3> QED
      BY <2>1, <2>2, <2>3, <2>4, <3>1 DEF Passed
  <2>5. CASE At(r) \notin 1..Len(c)
    <3>1. promote /\ c1[At(r)] = t[first].info
      BY <1>2, <1>4, <2>1, <2>5
    <3>2. At(q) < pos[first] /\ first \in 1..Len(t) /\ first # skip
      BY <1>2, <1>promoted, <2>1, <2>3, <3>1
    <3>3. ~Accept(t[first].info, c[At(q)])
      BY <2>3, <3>2 DEF Passed
    <3> QED
      BY <2>2, <2>3, <3>1, <3>3
  <2> QED
    BY <2>4, <2>5
<1>20. Passed(c3, d, new, skip)
  BY <1>12, <1>18, <1>19 DEF Passed
<1>21. Trials(d) = Trials(t)
  <2>1. ASSUME NEW k \in 1..Len(t1), d[k].progress = "PROCESSING" \/ t1[k].progress = "PROCESSING"
        PROVE  d[k] = t1[k]
    <3>1. t1[k].progress = "PROCESSING" /\ t1[k].progress # "WAITING"
      BY <1>11, <2>1
    <3>2. k \notin behind
      BY <1>3, <1>7, <1>8, <3>1
    <3> QED
      BY <1>11, <3>2
  <2>2. Trials(d) = Trials(t1)
    BY <1>12, <2>1 DEF Trials
  <2> QED
    BY <1>trials, <2>2
<1>22. skip \in 1..Len(t) => d[skip] = t[skip]
  BY <1>8, <1>11, <1>trials
<1>23. /\ \E w : Lined(c3, d, w, skip) /\ Passed(c3, d, w, skip)
       /\ Trials(d) = Trials(t)
       /\ skip \in 1..Len(t) => d[skip] = t[skip]
  BY <1>17, <1>20, <1>21, <1>22
<1> HIDE DEF d, c3
<1> QED
  BY <1>1, <1>23

-----------------------------------------------------------------------------
(* The jobs that are out.                                                  *)

\* Each is the trial T of a marked user, or its user left and is in quit_set Q;
\* each trial is out, and no user has two jobs.
TriedBy(T, js, Q) ==
  /\ \A k \in 1..Len(js) : js[k] \in T \/ js[k].trying_info.id \in Q
  /\ \A x \in T : \E k \in 1..Len(js) : js[k] = x
  /\ \A k, l \in 1..Len(js) : js[k].trying_info.id = js[l].trying_info.id => k = l

\* One job reported: its trial is over, and its user need not be in quit_set.
LEMMA TriedByLess ==
  ASSUME NEW T, NEW js \in Seq(AssignJob), NEW Q, TriedBy(T, js, Q), NEW k \in 1..Len(js)
  PROVE  LET id == js[k].trying_info.id
         IN TriedBy({x \in T : x.trying_info.id # id}, RemoveAt(js, k), Q \ {id})
<1> DEFINE id == js[k].trying_info.id
           d == RemoveAt(js, k)
           U == {x \in T : x.trying_info.id # id}
           At(l) == IF l < k THEN l ELSE l + 1
<1>1. Len(js) \in Nat
  BY LenProperties
<1>2. Len(d) = Len(js) - 1 /\ \A l \in 1..Len(d) : d[l] = js[At(l)]
  BY <1>1, RemoveAtElements
<1>3. \A l \in 1..Len(d) : At(l) \in 1..Len(js) /\ At(l) # k
  BY <1>1, <1>2
<1>4. \A l, m \in 1..Len(d) : At(l) = At(m) => l = m
  BY <1>1, <1>2
<1>5. \A m \in 1..Len(js) : m # k => \E l \in 1..Len(d) : d[l] = js[m]
  <2> SUFFICES ASSUME NEW m \in 1..Len(js), m # k PROVE \E l \in 1..Len(d) : d[l] = js[m]
    OBVIOUS
  <2> HIDE DEF d
  <2>1. CASE m < k
    <3>1. m \in 1..Len(d) /\ At(m) = m
      BY <1>1, <1>2, <2>1
    <3> QED
      BY <1>2, <3>1
  <2>2. CASE m > k
    <3>1. m - 1 \in 1..Len(d) /\ At(m - 1) = m
      BY <1>1, <1>2, <2>2
    <3> QED
      BY <1>2, <3>1
  <2> QED
    BY <1>1, <2>1, <2>2
<1> HIDE DEF d, At
<1>6. \A m \in 1..Len(js) : js[m].trying_info.id = id <=> m = k
  BY DEF TriedBy
<1>7. \A l \in 1..Len(d) : d[l] \in U \/ d[l].trying_info.id \in Q \ {id}
  BY <1>2, <1>3, <1>6 DEF TriedBy
<1>8. \A x \in U : \E l \in 1..Len(d) : d[l] = x
  <2> SUFFICES ASSUME NEW x \in U PROVE \E l \in 1..Len(d) : d[l] = x
    OBVIOUS
  <2> PICK m \in 1..Len(js) : js[m] = x
    BY DEF TriedBy
  <2>1. m # k
    OBVIOUS
  <2> QED
    BY <1>5, <2>1
<1>9. \A l, m \in 1..Len(d) : d[l].trying_info.id = d[m].trying_info.id => l = m
  BY <1>2, <1>3, <1>4 DEF TriedBy
<1>10. TriedBy(U, d, Q \ {id})
  BY <1>7, <1>8, <1>9 DEF TriedBy
<1> QED
  BY <1>10 DEF d

\* More users may be in quit_set.
LEMMA TriedByMore ==
  ASSUME NEW T, NEW js, NEW Q, NEW R, Q \subseteq R, TriedBy(T, js, Q)
  PROVE  TriedBy(T, js, R)
BY DEF TriedBy

\* What is safe: the users are in line, and their trials are out.
Safe(c, t, js, Q) ==
  /\ \E pos : Lined(c, t, pos, 0) /\ Passed(c, t, pos, 0)
  /\ TriedBy(Trials(t), js, Q)

\* arrange_job sends only users that are first in line for a candidate that is
\* there, and each of them once.
LEMMA ArrangeJobSafe ==
  ASSUME NEW c \in Seq(Info), NEW t \in Seq(TryingUser), NEW M, Holds(c, t, M),
         NEW working \in 0..WORKER_NUMBER, NEW js \in Seq(AssignJob),
         NEW Q, Q \intersect M = {},
         Safe(c, t, js, Q), process = "running", ArrangeJob(c, t, working, js)
  PROVE  process' = "running" /\ Safe(candidate_queue', trying_queue', jobs', Q)
<1> DEFINE sent(f) == [k \in DOMAIN f |-> JobOf(t[f[k]])]
<1>1. PICK f \in StartOrder(t, working) :
        /\ candidate_queue' = c
        /\ trying_queue' = [i \in DOMAIN t |->
                              IF i \in Range(f)
                              THEN [t[i] EXCEPT !.progress = "PROCESSING"]
                              ELSE t[i]]
        /\ jobs' = js \o sent(f)
        /\ process' = IF \A k \in DOMAIN f : t[f[k]].matchingWith \in Range(c)
                      THEN process ELSE "undefined"
  BY DEF ArrangeJob
<1>2. PICK pos : Lined(c, t, pos, 0) /\ Passed(c, t, pos, 0)
  BY DEF Safe
<1>3. /\ Len(t) \in Nat /\ DOMAIN t = 1..Len(t)
      /\ Len(c) \in Nat /\ DOMAIN c = 1..Len(c)
      /\ Len(js) \in Nat
  BY LenProperties
<1>4. PICK n \in Nat : f \in [1..n -> Eligible(t)]
  <2> DEFINE E == Eligible(t)
             free == FreeWorkers(working)
             m == IF Cardinality(E) <= free THEN Cardinality(E) ELSE free
  <2>1. f \in [1..m -> E]
    BY DEF StartOrder
  <2>2. IsFiniteSet(E)
    <3>1. IsFiniteSet(1..Len(t)) /\ E \subseteq 1..Len(t)
      BY <1>3, FS_Interval DEF Eligible
    <3> HIDE DEF E
    <3> QED
      BY <3>1, FS_Subset
  <2>3. Cardinality(E) \in Nat
    <3> HIDE DEF E
    <3> QED
      BY <2>2, FS_CardinalityType
  <2>4. free \in Nat
    BY ConstantsAssumption DEF FreeWorkers
  <2>5. m \in Nat
    BY <2>3, <2>4
  <2> HIDE DEF m, E
  <2>6. f \in [1..m -> E]
    BY <2>1
  <2> QED
    BY <2>5, <2>6 DEF E
<1>5. \A i \in Range(f) :
        /\ i \in 1..Len(t) /\ t[i].progress = "WAITING"
        /\ i > 1 => t[i-1].matchingWith # t[i].matchingWith
  BY <1>3, <1>4 DEF Eligible, Range
<1>6. \A k, l \in DOMAIN f : f[k] = f[l] => k = l
  <2> DEFINE E == Eligible(t)
             free == FreeWorkers(working)
             m == IF Cardinality(E) <= free THEN Cardinality(E) ELSE free
  <2>1. DOMAIN f = 1..m /\ DOMAIN f = 1..n
        /\ \A k \in 1..m : Cardinality({j \in E : j < f[k]}) = k - 1
    BY <1>4 DEF StartOrder
  <2> HIDE DEF m
  <2> SUFFICES ASSUME NEW k \in DOMAIN f, NEW l \in DOMAIN f, f[k] = f[l] PROVE k = l
    OBVIOUS
  <2>2. k - 1 = l - 1
    BY <2>1
  <2>3. k \in Nat /\ l \in Nat
    BY <2>1
  <2> QED
    BY <2>2, <2>3
<1>7. \A i \in 1..Len(t) : t[i] \in TryingUser
  BY ElementOfSeq
<1>8. \A i \in 1..Len(t) :
        /\ trying_queue'[i].info = t[i].info
        /\ trying_queue'[i].matchingWith = t[i].matchingWith
        /\ trying_queue'[i].progress = IF i \in Range(f) THEN "PROCESSING" ELSE t[i].progress
  BY <1>1, <1>3, <1>7 DEF TryingUser
<1>9. Len(trying_queue') = Len(t)
  <2> DEFINE S == {trying_queue'[i] : i \in 1..Len(t)}
  <2>1. trying_queue' \in [1..Len(t) -> S]
    BY <1>1, <1>3
  <2> HIDE DEF S
  <2> QED
    BY <2>1, <1>3, FunctionIsSeq
<1>10. process' = "running"
  <2>1. \A k \in DOMAIN f : f[k] \in 1..Len(t)
    BY <1>5 DEF Range
  <2>2. \A i \in 1..Len(t) : t[i].matchingWith \in Range(c)
    BY <1>2, <1>3 DEF Lined, Range
  <2> QED
    BY <1>1, <2>1, <2>2
<1>11. Lined(c, trying_queue', pos, 0)
  <2>1. \A i \in 1..Len(t) :
          pos[i] \in 1..Len(c) /\ trying_queue'[i].matchingWith = c[pos[i]]
    BY <1>2, <1>8 DEF Lined
  <2>2. \A i, j \in 1..Len(t) :
          i < j => /\ pos[j] <= pos[i]
                   /\ trying_queue'[j].progress = "PROCESSING" => pos[j] < pos[i]
    <3> SUFFICES ASSUME NEW i \in 1..Len(t), NEW j \in 1..Len(t), i < j
                 PROVE  /\ pos[j] <= pos[i]
                        /\ trying_queue'[j].progress = "PROCESSING" => pos[j] < pos[i]
      OBVIOUS
    <3>1. /\ pos[j] <= pos[i]
          /\ t[j].progress = "PROCESSING" => pos[j] < pos[i]
      BY <1>2 DEF Lined
    <3>2. CASE j \in Range(f)
      <4>1. /\ j - 1 \in 1..Len(t) /\ j - 1 < j
            /\ t[j-1].matchingWith # t[j].matchingWith
        BY <1>3, <1>5, <3>2
      <4>2. /\ pos[j] <= pos[j-1] /\ pos[j] \in 1..Len(c) /\ pos[j-1] \in 1..Len(c)
            /\ t[j].matchingWith = c[pos[j]] /\ t[j-1].matchingWith = c[pos[j-1]]
        BY <1>2, <4>1 DEF Lined
      <4>3. pos[j] < pos[j-1]
        BY <4>1, <4>2
      <4>4. pos[j-1] <= pos[i] /\ pos[i] \in 1..Len(c)
        <5>1. pos[i] \in 1..Len(c)
          BY <1>2 DEF Lined
        <5>2. CASE i = j - 1
          BY <5>1, <5>2
        <5>3. CASE i # j - 1
          <6>1. i < j - 1
            BY <5>3
          <6> QED
            BY <1>2, <4>1, <5>1, <6>1 DEF Lined
        <5> QED
          BY <5>2, <5>3
      <4> QED
        BY <3>1, <4>2, <4>3, <4>4
    <3>3. CASE j \notin Range(f)
      BY <1>8, <3>1, <3>3
    <3> QED
      BY <3>2, <3>3
  <2> QED
    BY <1>2, <1>9, <2>1, <2>2 DEF Lined
<1>12. Passed(c, trying_queue', pos, 0)
  BY <1>2, <1>8, <1>9 DEF Passed
<1>13. Trials(trying_queue') = Trials(t) \union {JobOf(t[i]) : i \in Range(f)}
  <2>1. \A i \in 1..Len(t) : JobOf(trying_queue'[i]) = JobOf(t[i])
    BY <1>8 DEF JobOf
  <2>2. {i \in 1..Len(t) : trying_queue'[i].progress = "PROCESSING"}
          = {i \in 1..Len(t) : t[i].progress = "PROCESSING"} \union Range(f)
    BY <1>5, <1>8
  <2> QED
    BY <1>5, <1>9, <2>1, <2>2, SMTT(60) DEF Trials
<1>14. /\ Len(jobs') = Len(js) + n
       /\ \A k \in 1..Len(js) : jobs'[k] = js[k]
       /\ \A k \in 1..n : jobs'[Len(js) + k] = JobOf(t[f[k]])
  <2> DEFINE S == {js[k] : k \in 1..Len(js)} \union {JobOf(t[i]) : i \in Range(f)}
             g == sent(f)
  <2>1. DOMAIN f = 1..n
    BY <1>4
  <2>2. g \in [1..n -> S] /\ \A k \in 1..n : g[k] = JobOf(t[f[k]])
    BY <2>1 DEF Range
  <2>3. js \in [1..Len(js) -> S]
    BY SeqDef, LenProperties
  <2> HIDE DEF S, g
  <2>4. js \in Seq(S)
    BY <1>3, <2>3, FunctionIsSeq
  <2>5. g \in Seq(S) /\ Len(g) = n
    BY <2>2, FunctionIsSeq
  <2>6. jobs' = js \o g
    BY <1>1 DEF g
  <2>7. /\ Len(js \o g) = Len(js) + n
        /\ \A k \in 1..(Len(js) + n) :
             (js \o g)[k] = IF k <= Len(js) THEN js[k] ELSE g[k - Len(js)]
    BY <2>4, <2>5, <1>3, ConcatProperties
  <2>8. \A k \in 1..Len(js) : jobs'[k] = js[k]
    BY <1>3, <1>4, <2>6, <2>7
  <2>9. \A k \in 1..n : jobs'[Len(js) + k] = JobOf(t[f[k]])
    <3> SUFFICES ASSUME NEW k \in 1..n PROVE jobs'[Len(js) + k] = JobOf(t[f[k]])
      OBVIOUS
    <3>1. /\ Len(js) + k \in 1..(Len(js) + n) /\ ~(Len(js) + k <= Len(js))
          /\ (Len(js) + k) - Len(js) = k
      BY <1>3, <1>4
    <3> QED
      BY <2>2, <2>6, <2>7, <3>1
  <2> QED
    BY <2>6, <2>7, <2>8, <2>9
<1>15. TriedBy(Trials(t), js, Q)
  BY DEF Safe
<1> HIDE DEF sent
<1>16. \A k \in 1..Len(jobs') :
         k \in 1..Len(js) \/ \E l \in 1..n : k = Len(js) + l
  <2> SUFFICES ASSUME NEW k \in 1..Len(jobs'), k \notin 1..Len(js)
               PROVE  k - Len(js) \in 1..n /\ k = Len(js) + (k - Len(js))
    BY Zenon
  <2> QED
    BY <1>3, <1>4, <1>14
<1>17. \A k \in 1..n : f[k] \in Range(f) /\ f[k] \in 1..Len(t)
                       /\ JobOf(t[f[k]]).trying_info.id = t[f[k]].info.id
  BY <1>4, <1>5 DEF Range, JobOf
<1>18. \A k \in 1..Len(jobs') :
         jobs'[k] \in Trials(trying_queue') \/ jobs'[k].trying_info.id \in Q
  <2> SUFFICES ASSUME NEW k \in 1..Len(jobs')
               PROVE  jobs'[k] \in Trials(trying_queue') \/ jobs'[k].trying_info.id \in Q
    OBVIOUS
  <2>1. CASE k \in 1..Len(js)
    <3>1. js[k] \in Trials(t) \/ js[k].trying_info.id \in Q
      BY <1>15, <2>1 DEF TriedBy
    <3> QED
      BY <1>13, <1>14, <2>1, <3>1
  <2>2. CASE k \notin 1..Len(js)
    <3> PICK l \in 1..n : k = Len(js) + l
      BY <1>16, <2>2
    <3>1. jobs'[k] = JobOf(t[f[l]]) /\ f[l] \in Range(f)
      BY <1>14, <1>17
    <3> QED
      BY <1>13, <3>1
  <2> QED
    BY <2>1, <2>2
<1>19. \A x \in Trials(trying_queue') : \E k \in 1..Len(jobs') : jobs'[k] = x
  <2> SUFFICES ASSUME NEW x \in Trials(trying_queue')
               PROVE  \E k \in 1..Len(jobs') : jobs'[k] = x
    OBVIOUS
  <2>1. CASE x \in Trials(t)
    <3> PICK k \in 1..Len(js) : js[k] = x
      BY <1>15, <2>1 DEF TriedBy
    <3>1. k \in 1..Len(jobs')
      BY <1>3, <1>4, <1>14
    <3> QED
      BY <1>14, <3>1
  <2>2. CASE x \notin Trials(t)
    <3> PICK k \in 1..n : x = JobOf(t[f[k]])
      BY <1>4, <1>13, <2>2 DEF Range
    <3>1. Len(js) + k \in 1..Len(jobs')
      BY <1>3, <1>4, <1>14
    <3> QED
      BY <1>14, <3>1
  <2> QED
    BY <2>1, <2>2
<1>20. \A k \in 1..Len(js), l \in 1..n : js[k].trying_info.id # JobOf(t[f[l]]).trying_info.id
  <2> SUFFICES ASSUME NEW k \in 1..Len(js), NEW l \in 1..n,
                      js[k].trying_info.id = t[f[l]].info.id
               PROVE  FALSE
    BY <1>17
  <2>1. t[f[l]].info.id \in M
    BY <1>17 DEF Holds
  <2>2. js[k] \in Trials(t)
    BY <1>15, <2>1 DEF TriedBy
  <2> PICK m \in 1..Len(t) : t[m].progress = "PROCESSING" /\ js[k] = JobOf(t[m])
    BY <2>2 DEF Trials
  <2>3. t[m].info.id = t[f[l]].info.id
    BY DEF JobOf
  <2>4. m = f[l]
    BY <1>17, <2>3 DEF Holds
  <2>5. t[f[l]].progress = "WAITING"
    BY <1>5, <1>17
  <2> QED
    BY <2>4, <2>5
<1>21. \A k, l \in 1..n :
         JobOf(t[f[k]]).trying_info.id = JobOf(t[f[l]]).trying_info.id => k = l
  <2> SUFFICES ASSUME NEW k \in 1..n, NEW l \in 1..n,
                      t[f[k]].info.id = t[f[l]].info.id
               PROVE  k = l
    BY <1>17
  <2>1. f[k] = f[l]
    BY <1>17 DEF Holds
  <2>2. DOMAIN f = 1..n
    BY <1>4
  <2> QED
    BY <1>6, <2>1, <2>2
<1>22. \A k, l \in 1..Len(jobs') :
         jobs'[k].trying_info.id = jobs'[l].trying_info.id => k = l
  <2> SUFFICES ASSUME NEW k \in 1..Len(jobs'), NEW l \in 1..Len(jobs'),
                      jobs'[k].trying_info.id = jobs'[l].trying_info.id
               PROVE  k = l
    OBVIOUS
  <2>1. CASE k \in 1..Len(js) /\ l \in 1..Len(js)
    BY <1>14, <1>15, <2>1 DEF TriedBy
  <2>2. CASE k \in 1..Len(js) /\ l \notin 1..Len(js)
    <3> PICK b \in 1..n : l = Len(js) + b
      BY <1>16, <2>2
    <3>1. jobs'[k] = js[k] /\ jobs'[l] = JobOf(t[f[b]])
      BY <1>14, <2>2
    <3> QED
      BY <1>20, <2>2, <3>1
  <2>3. CASE k \notin 1..Len(js) /\ l \in 1..Len(js)
    <3> PICK a \in 1..n : k = Len(js) + a
      BY <1>16, <2>3
    <3>1. jobs'[k] = JobOf(t[f[a]]) /\ jobs'[l] = js[l]
      BY <1>14, <2>3
    <3> QED
      BY <1>20, <2>3, <3>1
  <2>4. CASE k \notin 1..Len(js) /\ l \notin 1..Len(js)
    <3> PICK a \in 1..n : k = Len(js) + a
      BY <1>16, <2>4
    <3> PICK b \in 1..n : l = Len(js) + b
      BY <1>16, <2>4
    <3>1. jobs'[k] = JobOf(t[f[a]]) /\ jobs'[l] = JobOf(t[f[b]])
      BY <1>14
    <3>2. a = b
      BY <1>21, <3>1
    <3> QED
      BY <3>2
  <2> QED
    BY <2>1, <2>2, <2>3, <2>4
<1>23. TriedBy(Trials(trying_queue'), jobs', Q)
  BY <1>18, <1>19, <1>22 DEF TriedBy
<1>24. Lined(candidate_queue', trying_queue', pos, 0)
       /\ Passed(candidate_queue', trying_queue', pos, 0)
  BY <1>1, <1>11, <1>12
<1> QED
  BY <1>10, <1>23, <1>24 DEF Safe

-----------------------------------------------------------------------------
(* The handlers.                                                           *)

\* A search for those that wait for a candidate finds the first of them.
LEMMA TryingWithFirst ==
  ASSUME NEW t \in Seq(TryingUser), NEW node
  PROVE  /\ \A k \in 1..Len(t) :
              t[k].matchingWith = node => TryingWith(t, node) # 0 /\ TryingWith(t, node) <= k
         /\ TryingWith(t, node) # 0 => /\ TryingWith(t, node) \in 1..Len(t)
                                       /\ t[TryingWith(t, node)].matchingWith = node
<1> DEFINE I == {i \in 1..Len(t) : t[i].matchingWith = node}
<1>1. TryingWith(t, node) = IF I # {} THEN Min(I) ELSE 0
  BY DEF TryingWith, SelectInSeq
<1>2. I \in SUBSET Nat /\ 0 \notin I
  OBVIOUS
<1>3. I # {} => Min(I) \in I /\ \A x \in I : Min(I) <= x
  <2> HIDE DEF I
  <2> QED
    BY <1>2, MinOfNats
<1>4. \A k \in 1..Len(t) :
        t[k].matchingWith = node => TryingWith(t, node) # 0 /\ TryingWith(t, node) <= k
  <2> SUFFICES ASSUME NEW k \in 1..Len(t), t[k].matchingWith = node
               PROVE  TryingWith(t, node) # 0 /\ TryingWith(t, node) <= k
    OBVIOUS
  <2>1. k \in I
    OBVIOUS
  <2> HIDE DEF I
  <2> QED
    BY <1>1, <1>2, <1>3, <2>1
<1>5. TryingWith(t, node) # 0 => TryingWith(t, node) \in I
  <2> HIDE DEF I
  <2> QED
    BY <1>1, <1>3
<1> QED
  BY <1>4, <1>5

\* add puts the newcomer at the end of the line.
LEMMA AddSafe ==
  ASSUME IInv, NEW M, Holds(candidate_queue, trying_queue, M), process = "running",
         quit_set \intersect M = {},
         Safe(candidate_queue, trying_queue, jobs, quit_set),
         NEW info \in Info, info.id \notin M, info.id \notin quit_set, Add(info)
  PROVE  process' = "running" /\ Safe(candidate_queue', trying_queue', jobs', quit_set)
<1>1. /\ candidate_queue \in Seq(Info) /\ trying_queue \in Seq(TryingUser)
      /\ working_job \in 0..WORKER_NUMBER /\ jobs \in Seq(AssignJob)
  BY ConstantsAssumption DEF IInv, TypeOK, JobsAccounted
<1>2. PICK pos : /\ Lined(candidate_queue, trying_queue, pos, 0)
                 /\ Passed(candidate_queue, trying_queue, pos, 0)
  BY DEF Safe
<1>3. CASE /\ candidate_queue = <<>>
           /\ candidate_queue' = <<info>>
           /\ UNCHANGED <<trying_queue, working_job, jobs, process>>
  <2>1. candidate_queue' = Append(candidate_queue, info)
    BY <1>3
  <2>2. \A q \in 1..Len(candidate_queue) : ~Accept(info, candidate_queue[q])
    BY <1>3, EmptySeq
  <2>3. /\ Lined(Append(candidate_queue, info), trying_queue, pos, 0)
        /\ Passed(Append(candidate_queue, info), trying_queue, pos, 0)
    BY <1>1, <1>2, <2>2, LinedCandidate
  <2>4. Safe(Append(candidate_queue, info), trying_queue, jobs, quit_set)
    BY <2>3 DEF Safe
  <2> QED
    BY <1>3, <2>1, <2>4
<1>4. CASE /\ candidate_queue # <<>>
           /\ ArrangeJob(candidate_queue, Append(trying_queue, Newcomer(info)),
                         working_job, jobs)
  <2> DEFINE u == Newcomer(info)
             t == Append(trying_queue, u)
  <2>1. Head(candidate_queue) \in Info /\ Head(candidate_queue) = candidate_queue[1]
    BY <1>1, <1>4, HeadTailProperties
  <2>2. /\ u \in TryingUser /\ u.info = info /\ u.matchingWith = candidate_queue[1]
        /\ u.progress = "WAITING"
    BY <2>1 DEF Newcomer, TryingUser
  <2>3. 1 \in 1..Len(candidate_queue)
    BY <1>1, <1>4, EmptySeq, LenProperties
  <2>4. t \in Seq(TryingUser)
    BY <1>1, <2>2, AppendProperties
  <2> HIDE DEF u
  <2>5. Holds(candidate_queue, t, M \union {info.id})
    BY <1>1, <2>2, HoldsTrying
  <2>6. /\ \E new : Lined(candidate_queue, t, new, 0) /\ Passed(candidate_queue, t, new, 0)
        /\ Trials(t) = Trials(trying_queue)
    BY <1>1, <1>2, <2>2, <2>3, LinedNewcomer
  <2>7. Safe(candidate_queue, t, jobs, quit_set)
    BY <2>6 DEF Safe
  <2>8. quit_set \intersect (M \union {info.id}) = {}
    OBVIOUS
  <2>9. ArrangeJob(candidate_queue, t, working_job, jobs)
    BY <1>4 DEF u
  <2> DEFINE N == M \union {info.id}
  <2> HIDE DEF t, N
  <2>10. Holds(candidate_queue, t, N) /\ quit_set \intersect N = {}
    BY <2>5, <2>8 DEF N
  <2> QED
    BY <1>1, <2>4, <2>7, <2>9, <2>10, ArrangeJobSafe
<1> QED
  BY <1>3, <1>4 DEF Add

\* The user that quits may be on trial, the candidate that quits may not: its
\* client waits until no job names it.
LEMMA DetachSafe ==
  ASSUME IInv, NEW M, Holds(candidate_queue, trying_queue, M), process = "running",
         quit_set \intersect M = {},
         Safe(candidate_queue, trying_queue, jobs, quit_set),
         NEW id \in M, \A k \in DOMAIN jobs : jobs[k].candidate_info.id # id, Detach(id)
  PROVE  /\ process' = "running"
         /\ Safe(candidate_queue', trying_queue', jobs', quit_set \union {id})
<1> DEFINE i == TryingAt(trying_queue, id)
           p == CandidateAt(candidate_queue, id)
           w == TryingWith(trying_queue, candidate_queue[p])
           first == IF w = 0 THEN Len(trying_queue) + 1 ELSE w
           d == DropCandidate(candidate_queue, trying_queue, p, first)
           Q == quit_set \union {id}
           N == M \ {id}
<1>1. /\ candidate_queue \in Seq(Info) /\ trying_queue \in Seq(TryingUser)
      /\ Len(trying_queue) \in Nat /\ Len(candidate_queue) \in Nat
      /\ working_job \in 0..WORKER_NUMBER /\ jobs \in Seq(AssignJob)
      /\ DOMAIN jobs = 1..Len(jobs)
  BY LenProperties, ConstantsAssumption DEF IInv, TypeOK, JobsAccounted
<1>2. PICK pos : /\ Lined(candidate_queue, trying_queue, pos, 0)
                 /\ Passed(candidate_queue, trying_queue, pos, 0)
  BY DEF Safe
<1>3. TriedBy(Trials(trying_queue), jobs, quit_set)
  BY DEF Safe
<1>4. Q \intersect N = {}
  OBVIOUS
<1>5. CASE i # 0 /\ ArrangeJob(candidate_queue, RemoveAt(trying_queue, i), working_job, jobs)
  <2>1. i \in 1..Len(trying_queue) /\ trying_queue[i].info.id = id
    BY <1>1, <1>5, TryingAtFinds
  <2> DEFINE t == RemoveAt(trying_queue, i)
  <2> HIDE DEF i
  <2>2. t \in Seq(TryingUser)
    BY <1>1, <2>1, RemoveAtType
  <2>3. Holds(candidate_queue, t, N)
    BY <1>1, <2>1, HoldsLessTrying
  <2>4. /\ Lined(candidate_queue, t, Without(trying_queue, pos, i), 0)
        /\ Passed(candidate_queue, t, Without(trying_queue, pos, i), 0)
    <3>1. 0 < i /\ 0 \in Nat
      BY <2>1
    <3> QED
      BY <1>1, <1>2, <2>1, <3>1, LinedLess
  <2>5. Trials(t) = {x \in Trials(trying_queue) : x.trying_info.id # id}
    BY <1>1, <2>1, TrialsLess
  <2>6. TriedBy(Trials(t), jobs, Q)
    BY <1>3, <2>5 DEF TriedBy
  <2> HIDE DEF t, Q, N
  <2>7. Safe(candidate_queue, t, jobs, Q)
    BY <2>4, <2>6 DEF Safe
  <2>8. ArrangeJob(candidate_queue, t, working_job, jobs)
    BY <1>5 DEF t
  <2>9. process' = "running" /\ Safe(candidate_queue', trying_queue', jobs', Q)
    BY <1>1, <1>4, <2>2, <2>3, <2>7, <2>8, ArrangeJobSafe
  <2> QED
    BY <2>9 DEF Q
<1>6. CASE i = 0 /\ p # 0 /\ ArrangeJob(d.candidates, d.trying, working_job, jobs)
  <2>1. p \in 1..Len(candidate_queue) /\ candidate_queue[p].id = id
    BY <1>1, <1>6, CandidateAtFinds
  <2> DEFINE node == candidate_queue[p]
  <2>2. \A k \in 1..Len(trying_queue) :
          /\ pos[k] \in 1..Len(candidate_queue)
          /\ trying_queue[k].matchingWith = node <=> pos[k] = p
    <3> HIDE DEF p, w
    <3>1. \A k \in 1..Len(trying_queue) :
            /\ pos[k] \in 1..Len(candidate_queue)
            /\ trying_queue[k].matchingWith = candidate_queue[pos[k]]
      BY <1>2 DEF Lined
    <3> QED
      BY <2>1, <3>1, HoldsDistinct
  <2>3. /\ \A k \in 1..Len(trying_queue) : pos[k] = p => w # 0 /\ w <= k
        /\ w # 0 => w \in 1..Len(trying_queue) /\ pos[w] = p
    <3>1. /\ \A k \in 1..Len(trying_queue) :
               trying_queue[k].matchingWith = node => w # 0 /\ w <= k
          /\ w # 0 => w \in 1..Len(trying_queue) /\ trying_queue[w].matchingWith = node
      <4> HIDE DEF p
      <4> QED
        BY <1>1, TryingWithFirst
    <3> HIDE DEF w, node, p
    <3> QED
      BY <2>2, <3>1
  <2> HIDE DEF w, p
  <2>4. first \in Nat \ {0} /\ 0 < first
    BY <1>1, <2>3
  <2>5. \A k \in 1..Len(trying_queue) : k >= first => pos[k] <= p
    <3> SUFFICES ASSUME NEW k \in 1..Len(trying_queue), k >= first PROVE pos[k] <= p
      OBVIOUS
    <3>1. w # 0 /\ w \in 1..Len(trying_queue) /\ pos[w] = p /\ w <= k
      BY <1>1, <2>3
    <3>2. CASE k = w
      BY <2>1, <3>1, <3>2
    <3>3. CASE k # w
      <4>1. w < k /\ k # 0
        BY <3>1, <3>3
      <4> QED
        BY <1>2, <3>1, <4>1 DEF Lined
    <3> QED
      BY <3>2, <3>3
  <2>6. \A k \in 1..Len(trying_queue) : k < first /\ k # 0 => pos[k] # p
    BY <1>1, <2>3
  <2>7. \A k \in 1..Len(trying_queue) :
          k # 0 /\ pos[k] = p => trying_queue[k].progress = "WAITING"
    <3> SUFFICES ASSUME NEW k \in 1..Len(trying_queue), pos[k] = p,
                        trying_queue[k].progress # "WAITING"
                 PROVE  FALSE
      OBVIOUS
    <3>1. trying_queue[k] \in TryingUser
      BY <1>1, ElementOfSeq
    <3>2. trying_queue[k].progress = "PROCESSING"
      BY <3>1 DEF TryingUser
    <3>3. JobOf(trying_queue[k]) \in Trials(trying_queue)
      BY <3>2 DEF Trials
    <3> PICK m \in 1..Len(jobs) : jobs[m] = JobOf(trying_queue[k])
      BY <1>3, <3>3 DEF TriedBy
    <3>4. jobs[m].candidate_info.id = id
      BY <2>1, <2>2 DEF JobOf
    <3> QED
      BY <1>1, <3>4
  <2> HIDE DEF first
  <2>8. /\ d.candidates \in Seq(Info) /\ d.trying \in Seq(TryingUser)
        /\ Holds(d.candidates, d.trying, N)
    BY <1>1, <2>1, <2>4, DropCandidateType, DropCandidateHolds
  <2>9. /\ \E new : /\ Lined(d.candidates, d.trying, new, 0)
                    /\ Passed(d.candidates, d.trying, new, 0)
        /\ Trials(d.trying) = Trials(trying_queue)
    <3> DEFINE skip == 0
    <3>1. /\ skip \in Nat
          /\ Lined(candidate_queue, trying_queue, pos, skip)
          /\ Passed(candidate_queue, trying_queue, pos, skip)
          /\ Droppable(trying_queue, pos, skip, p, first)
      BY <1>2, <2>4, <2>5, <2>6, <2>7 DEF Droppable
    <3> HIDE DEF skip
    <3>2. /\ \E new : /\ Lined(d.candidates, d.trying, new, skip)
                      /\ Passed(d.candidates, d.trying, new, skip)
          /\ Trials(d.trying) = Trials(trying_queue)
      BY <1>1, <2>1, <2>4, <2>5, <3>1, LinedDrop
    <3> QED
      BY <3>2 DEF skip
  <2> HIDE DEF d, Q, N
  <2>10. TriedBy(Trials(d.trying), jobs, Q)
    BY <1>3, <2>9, TriedByMore DEF Q
  <2>11. Safe(d.candidates, d.trying, jobs, Q)
    BY <2>9, <2>10 DEF Safe
  <2>12. process' = "running" /\ Safe(candidate_queue', trying_queue', jobs', Q)
    BY <1>1, <1>4, <1>6, <2>8, <2>11, ArrangeJobSafe
  <2> QED
    BY <2>12 DEF Q
<1>7. CASE UNCHANGED <<queueVars, process>>
  <2>1. TriedBy(Trials(trying_queue), jobs, Q)
    BY <1>3, TriedByMore
  <2>2. Safe(candidate_queue, trying_queue, jobs, Q)
    BY <1>2, <2>1 DEF Safe
  <2> QED
    BY <1>7, <2>2 DEF queueVars
<1> QED
  BY <1>5, <1>6, <1>7 DEF Detach

\* The user of a job that is reported is marked and points to the candidate of
\* that job, unless it left.
LEMMA ReportFinds ==
  ASSUME IInv, NEW M, Holds(candidate_queue, trying_queue, M),
         NEW k \in DOMAIN jobs, jobs[k].trying_info.id \notin quit_set,
         Safe(candidate_queue, trying_queue, jobs, quit_set)
  PROVE  LET i == TryingAt(trying_queue, jobs[k].trying_info.id)
         IN /\ i \in 1..Len(trying_queue)
            /\ trying_queue[i] \in TryingUser
            /\ trying_queue[i].info.id = jobs[k].trying_info.id
            /\ trying_queue[i].progress = "PROCESSING"
            /\ jobs[k] = JobOf(trying_queue[i])
<1>1. /\ trying_queue \in Seq(TryingUser) /\ jobs \in Seq(AssignJob)
      /\ DOMAIN jobs = 1..Len(jobs)
  BY LenProperties DEF IInv, TypeOK
<1>2. jobs[k] \in Trials(trying_queue)
  BY <1>1 DEF Safe, TriedBy
<1> PICK i \in 1..Len(trying_queue) :
       trying_queue[i].progress = "PROCESSING" /\ jobs[k] = JobOf(trying_queue[i])
  BY <1>2 DEF Trials
<1>3. jobs[k].trying_info.id = trying_queue[i].info.id
  BY DEF JobOf
<1>4. TryingAt(trying_queue, trying_queue[i].info.id) = i
  BY <1>1, TryingAtOf
<1>5. trying_queue[i] \in TryingUser
  BY <1>1, ElementOfSeq
<1> QED
  BY <1>3, <1>4, <1>5

\* The trials that are out once job k is reported.
LEMMA ReportedLess ==
  ASSUME IInv, NEW k \in DOMAIN jobs, NEW T, NEW Q, TriedBy(T, jobs, Q)
  PROVE  /\ TriedBy({x \in T : x.trying_info.id # jobs[k].trying_info.id},
                    RemoveAt(jobs, k), Q \ {jobs[k].trying_info.id})
         /\ TriedBy({x \in T : x.trying_info.id # jobs[k].trying_info.id},
                    RemoveAt(jobs, k), Q)
<1>1. jobs \in Seq(AssignJob) /\ k \in 1..Len(jobs)
  BY LenProperties DEF IInv, TypeOK
<1>2. TriedBy({x \in T : x.trying_info.id # jobs[k].trying_info.id},
              RemoveAt(jobs, k), Q \ {jobs[k].trying_info.id})
  BY <1>1, TriedByLess
<1> QED
  BY <1>2, TriedByMore

\* ... are all of them, if its user left.
LEMMA TrialsOfOthers ==
  ASSUME NEW c, NEW t, NEW M, Holds(c, t, M), NEW id, id \notin M
  PROVE  {x \in Trials(t) : x.trying_info.id # id} = Trials(t)
<1> SUFFICES ASSUME NEW x \in Trials(t) PROVE x.trying_info.id # id
  OBVIOUS
<1> PICK i \in 1..Len(t) : x = JobOf(t[i])
  BY DEF Trials
<1>1. x.trying_info.id = t[i].info.id
  BY DEF JobOf
<1> QED
  BY <1>1 DEF Holds

\* A refusal that counts sends its user on.
LEMMA MoveOnSafe ==
  ASSUME IInv, NEW M, Holds(candidate_queue, trying_queue, M), process = "running",
         quit_set \intersect M = {},
         Safe(candidate_queue, trying_queue, jobs, quit_set),
         NEW k \in DOMAIN jobs, jobs[k].trying_info.id \notin quit_set, ~DoJob(jobs[k]),
         MoveOn(jobs[k].trying_info.id, RemoveAt(jobs, k))
  PROVE  process' = "running" /\ Safe(candidate_queue', trying_queue', jobs', quit_set)
<1> DEFINE id == jobs[k].trying_info.id
           js == RemoveAt(jobs, k)
           i == TryingAt(trying_queue, id)
           u == trying_queue[i]
           p == CandidateAt(candidate_queue, u.matchingWith.id)
           last == LastCandidate(p)
           c == IF last THEN Append(candidate_queue, u.info) ELSE candidate_queue
           t == IF last THEN RemoveAt(trying_queue, i)
                        ELSE [trying_queue EXCEPT
                                ![i] = SentOn(u, candidate_queue[p+1])]
           T == {x \in Trials(trying_queue) : x.trying_info.id # id}
<1>1. /\ candidate_queue \in Seq(Info) /\ trying_queue \in Seq(TryingUser)
      /\ Len(candidate_queue) \in Nat /\ Len(trying_queue) \in Nat
      /\ DOMAIN candidate_queue = 1..Len(candidate_queue)
  BY LenProperties DEF IInv, TypeOK
<1>2. js \in Seq(AssignJob) /\ OneJobLess \in 0..WORKER_NUMBER
  BY OneJobLessCounts
<1>3. PICK pos : /\ Lined(candidate_queue, trying_queue, pos, 0)
                 /\ Passed(candidate_queue, trying_queue, pos, 0)
  BY DEF Safe
<1>4. /\ i \in 1..Len(trying_queue) /\ u \in TryingUser /\ u.info.id = id
      /\ u.progress = "PROCESSING" /\ jobs[k] = JobOf(u)
  BY ReportFinds
<1>5. TriedBy(T, js, quit_set)
  BY ReportedLess DEF Safe
<1> HIDE DEF i
<1>6. pos[i] \in 1..Len(candidate_queue) /\ u.matchingWith = candidate_queue[pos[i]]
  BY <1>3, <1>4 DEF Lined
<1>7. p = pos[i]
  BY <1>1, <1>6, PositionOf
<1> HIDE DEF p
<1>8. ~Accept(u.info, u.matchingWith)
  <2>1. jobs[k] = [trying_info |-> u.info, candidate_info |-> u.matchingWith]
    BY <1>4 DEF JobOf
  <2> QED
    BY <2>1 DEF Accept
<1>9. i # 0 /\ u.matchingWith \in Range(candidate_queue)
  BY <1>1, <1>4, <1>6 DEF Range
<1>10. ArrangeJob(c, t, OneJobLess, js)
  BY <1>9 DEF MoveOn, i, p
<1>11. c \in Seq(Info) /\ t \in Seq(TryingUser) /\ Holds(c, t, M)
  BY <1>4, <1>6, <1>7, IInvRanged, FurtherHolds
<1>12. (\E new : Lined(c, t, new, 0) /\ Passed(c, t, new, 0)) /\ Trials(t) = T
  <2>1. CASE last
    <3>1. p = Len(candidate_queue) /\ c = Append(candidate_queue, u.info)
          /\ t = RemoveAt(trying_queue, i)
      BY <2>1 DEF LastCandidate
    <3> DEFINE new == Without(trying_queue, pos, i)
    <3> HIDE DEF c, t, last, new
    <3>2. Lined(candidate_queue, t, new, 0) /\ Passed(candidate_queue, t, new, 0)
      <4>1. 0 \in Nat /\ 0 < i
        BY <1>4
      <4> QED
        BY <1>1, <1>3, <1>4, <3>1, <4>1, LinedLess DEF new
    <3>3. \A q \in 1..Len(candidate_queue) : ~Accept(u.info, candidate_queue[q])
      <4> SUFFICES ASSUME NEW q \in 1..Len(candidate_queue)
                   PROVE  ~Accept(u.info, candidate_queue[q])
        OBVIOUS
      <4>1. q = p \/ q < p
        <5>1. p = Len(candidate_queue)
          BY <3>1
        <5>2. Len(candidate_queue) \in Nat
          BY <1>1
        <5>3. q = Len(candidate_queue) \/ q < Len(candidate_queue)
          BY <5>2
        <5> QED
          BY <5>1, <5>3
      <4>2. CASE q = p
        BY <1>6, <1>7, <1>8, <4>2
      <4>3. CASE q < p
        BY <1>3, <1>4, <1>7, <1>9, <4>3 DEF Passed
      <4> QED
        BY <4>1, <4>2, <4>3
    <3>4. u.info \in Info
      BY <1>4 DEF TryingUser
    <3>5. t \in Seq(TryingUser)
      BY <1>11
    <3>6. Lined(c, t, new, 0) /\ Passed(c, t, new, 0)
      BY <1>1, <3>1, <3>2, <3>3, <3>4, <3>5, LinedCandidate
    <3>7. Trials(t) = T
      BY <1>1, <1>4, <3>1, TrialsLess
    <3> QED
      BY <3>6, <3>7
  <2>2. CASE ~last
    <3> DEFINE v == SentOn(u, candidate_queue[p+1])
               new == [pos EXCEPT ![i] = @ + 1]
    <3>1. c = candidate_queue /\ t = [trying_queue EXCEPT ![i] = v]
      BY <2>2
    <3>2. p + 1 \in 1..Len(candidate_queue)
      BY <1>1, <1>6, <1>7, <2>2 DEF LastCandidate
    <3>3. v \in TryingUser /\ v.progress = "WAITING"
      <4>1. candidate_queue[p+1] \in Info
        BY <1>1, <3>2, ElementOfSeq
      <4> QED
        BY <1>4, <4>1 DEF SentOn, TryingUser
    <3>4. v = SentOn(trying_queue[i], candidate_queue[pos[i] + 1])
      BY <1>7
    <3> HIDE DEF c, t, last, v, new
    <3>5. Lined(c, t, new, 0) /\ Passed(c, t, new, 0)
      <4>1. pos[i] + 1 \in 1..Len(candidate_queue)
        BY <1>7, <3>2
      <4>2. /\ Lined(candidate_queue, [trying_queue EXCEPT ![i] = v], new, 0)
            /\ Passed(candidate_queue, [trying_queue EXCEPT ![i] = v], new, 0)
        BY <1>1, <1>3, <1>4, <1>8, <3>3, <3>4, <4>1, LinedFurther DEF new
      <4> QED
        BY <3>1, <4>2
    <3>6. Trials(t) = T
      <4>1. Trials([trying_queue EXCEPT ![i] = v])
              = {x \in Trials(trying_queue) : x.trying_info.id # trying_queue[i].info.id}
        BY <1>1, <1>4, <3>3, TrialsFurther
      <4> QED
        BY <1>4, <3>1, <4>1
    <3> QED
      BY <3>5, <3>6
  <2> QED
    BY <2>1, <2>2
<1> HIDE DEF c, t, js, T
<1>13. Safe(c, t, js, quit_set)
  BY <1>5, <1>12 DEF Safe
<1> QED
  BY <1>2, <1>10, <1>11, <1>13, ArrangeJobSafe

\* The queues stay as they are when a report is dropped, or when the user was
\* matched with nobody because it left.
LEMMA StaleReportSafe ==
  ASSUME IInv, NEW M, Holds(candidate_queue, trying_queue, M), process = "running",
         quit_set \intersect M = {},
         Safe(candidate_queue, trying_queue, jobs, quit_set),
         NEW k \in DOMAIN jobs, jobs[k].trying_info.id \in quit_set,
         NEW Q \in {quit_set, quit_set \ {jobs[k].trying_info.id}},
         ArrangeJob(candidate_queue, trying_queue, OneJobLess, RemoveAt(jobs, k))
  PROVE  process' = "running" /\ Safe(candidate_queue', trying_queue', jobs', Q)
<1> DEFINE js == RemoveAt(jobs, k)
           id == jobs[k].trying_info.id
<1>1. /\ candidate_queue \in Seq(Info) /\ trying_queue \in Seq(TryingUser)
      /\ js \in Seq(AssignJob) /\ OneJobLess \in 0..WORKER_NUMBER
  BY OneJobLessCounts DEF IInv, TypeOK
<1>2. {x \in Trials(trying_queue) : x.trying_info.id # id} = Trials(trying_queue)
  BY TrialsOfOthers
<1>3. TriedBy(Trials(trying_queue), js, Q)
  <2>1. TriedBy(Trials(trying_queue), jobs, quit_set)
    BY DEF Safe
  <2> HIDE DEF js
  <2>2. /\ TriedBy(Trials(trying_queue), js, quit_set \ {id})
        /\ TriedBy(Trials(trying_queue), js, quit_set)
    BY <1>2, <2>1, ReportedLess DEF js
  <2> QED
    BY <2>2
<1>4. Safe(candidate_queue, trying_queue, js, Q)
  BY <1>3 DEF Safe
<1>5. Q \intersect M = {}
  OBVIOUS
<1> HIDE DEF js
<1>6. ArrangeJob(candidate_queue, trying_queue, OneJobLess, js)
  BY DEF js
<1> QED
  BY <1>1, <1>4, <1>5, <1>6, ArrangeJobSafe

\* Every two that were sent "matched" accept each other.
AllAccept(pairs) == \A pair \in pairs : \A a, b \in pair : a # b => <<a, b>> \in likes

\* An acceptance is of the pair that the handler finds.
LEMMA HandleMatchSafe ==
  ASSUME IInv, NEW M, Holds(candidate_queue, trying_queue, M), process = "running",
         quit_set \intersect M = {},
         Safe(candidate_queue, trying_queue, jobs, quit_set), AllAccept(matched),
         NEW k \in DOMAIN jobs, DoJob(jobs[k]),
         HandleMatch(jobs[k].trying_info.id, RemoveAt(jobs, k))
  PROVE  /\ process' = "running" /\ Safe(candidate_queue', trying_queue', jobs', quit_set)
         /\ AllAccept(matched')
<1> DEFINE id == jobs[k].trying_info.id
           js == RemoveAt(jobs, k)
           i == TryingAt(trying_queue, id)
           u == trying_queue[i]
           node == u.matchingWith
           p == CandidateAt(candidate_queue, node.id)
           d == DropCandidate(candidate_queue, trying_queue, p, i + 1)
           t == RemoveAt(d.trying, i)
           N == M \ {u.info.id, candidate_queue[p].id}
           T == {x \in Trials(trying_queue) : x.trying_info.id # id}
<1>1. /\ candidate_queue \in Seq(Info) /\ trying_queue \in Seq(TryingUser)
      /\ DOMAIN candidate_queue = 1..Len(candidate_queue)
      /\ js \in Seq(AssignJob) /\ OneJobLess \in 0..WORKER_NUMBER
  BY LenProperties, OneJobLessCounts DEF IInv, TypeOK
<1>2. CASE id \in quit_set
  <2>1. id \notin M
    BY <1>2
  <2>2. i = 0
    <3> SUFFICES ASSUME i # 0 PROVE FALSE
      OBVIOUS
    <3>1. i \in 1..Len(trying_queue) /\ trying_queue[i].info.id = id
      BY <1>1, TryingAtFinds
    <3> QED
      BY <2>1, <3>1 DEF Holds
  <2>3. /\ ArrangeJob(candidate_queue, trying_queue, OneJobLess, js)
        /\ UNCHANGED clientVars
    BY <2>2 DEF HandleMatch
  <2>4. process' = "running" /\ Safe(candidate_queue', trying_queue', jobs', quit_set)
    <3> DEFINE Q == quit_set
    <3>1. Q \in {quit_set, quit_set \ {jobs[k].trying_info.id}}
      OBVIOUS
    <3> HIDE DEF Q
    <3>2. process' = "running" /\ Safe(candidate_queue', trying_queue', jobs', Q)
      BY <1>2, <2>3, <3>1, StaleReportSafe
    <3> QED
      BY <3>2 DEF Q
  <2>5. AllAccept(matched')
    BY <2>3 DEF clientVars
  <2> QED
    BY <2>4, <2>5
<1>3. CASE id \notin quit_set
  <2>1. PICK pos : /\ Lined(candidate_queue, trying_queue, pos, 0)
                   /\ Passed(candidate_queue, trying_queue, pos, 0)
    BY DEF Safe
  <2>2. /\ i \in 1..Len(trying_queue) /\ u \in TryingUser /\ u.info.id = id
        /\ u.progress = "PROCESSING" /\ jobs[k] = JobOf(u)
    BY <1>3, ReportFinds
  <2>3. TriedBy(T, js, quit_set)
    BY ReportedLess DEF Safe
  <2> HIDE DEF i
  <2>4. pos[i] \in 1..Len(candidate_queue) /\ node = candidate_queue[pos[i]]
    BY <2>1, <2>2 DEF Lined
  <2>5. p = pos[i]
    BY <1>1, <2>4, PositionOf
  <2> HIDE DEF p
  <2>6. p \in 1..Len(candidate_queue) /\ node = candidate_queue[p]
    BY <2>4, <2>5
  <2>7. i # 0 /\ node \in Range(candidate_queue)
    BY <1>1, <2>2, <2>6 DEF Range
  <2>8. /\ ArrangeJob(d.candidates, t, OneJobLess, js)
        /\ matched' = matched \union {{u.info, node}}
    BY <2>7 DEF HandleMatch, i, p
  <2>9. AllAccept(matched')
    <3>1. /\ jobs[k].trying_info = u.info /\ jobs[k].candidate_info = node
      BY <2>2 DEF JobOf
    <3>2. <<u.info, node>> \in likes /\ <<node, u.info>> \in likes
      BY <3>1 DEF DoJob
    <3> QED
      BY <2>8, <3>2 DEF AllAccept
  <2>10. /\ d.candidates \in Seq(Info) /\ d.trying \in Seq(TryingUser)
         /\ i \in 1..Len(d.trying)
         /\ Holds(d.candidates, d.trying, M \ {candidate_queue[p].id})
         /\ t \in Seq(TryingUser)
         /\ Holds(d.candidates, t, N)
    BY <2>2, <2>6, IInvRanged, PairHolds
  <2>11. Droppable(trying_queue, pos, i, p, i + 1)
    <3>1. \A m \in 1..Len(trying_queue) :
            pos[m] \in Int /\ m \in Int /\ m # 0 /\ trying_queue[m] \in TryingUser
      BY <1>1, <2>1, ElementOfSeq DEF Lined
    <3>2. \A m \in 1..Len(trying_queue) : m >= i + 1 => pos[m] <= p
      BY <2>1, <2>2, <2>5, <3>1 DEF Lined
    <3>3. \A m \in 1..Len(trying_queue) : m < i + 1 /\ m # i => pos[m] # p
      <4> SUFFICES ASSUME NEW m \in 1..Len(trying_queue), m < i
                   PROVE  pos[m] # p
        BY <2>2, <3>1
      <4>1. p < pos[m]
        BY <2>1, <2>2, <2>5, <3>1 DEF Lined
      <4> QED
        BY <2>4, <2>5, <3>1, <4>1
    <3>4. \A m \in 1..Len(trying_queue) :
            m # i /\ pos[m] = p => trying_queue[m].progress = "WAITING"
      <4> SUFFICES ASSUME NEW m \in 1..Len(trying_queue), m # i, pos[m] = p,
                          trying_queue[m].progress # "WAITING"
                   PROVE  FALSE
        OBVIOUS
      <4>1. trying_queue[m].progress = "PROCESSING"
        BY <3>1 DEF TryingUser
      <4>2. i < m
        <5>1. ~(m < i + 1)
          BY <3>3
        <5> QED
          BY <2>2, <3>1, <5>1
      <4>3. pos[m] < pos[i]
        BY <2>1, <2>2, <3>1, <4>1, <4>2 DEF Lined
      <4> QED
        BY <2>4, <2>5, <4>3
    <3>5. i < i + 1
      BY <2>2
    <3> QED
      BY <3>2, <3>3, <3>4, <3>5 DEF Droppable
  <2>12. /\ \E new : Lined(d.candidates, d.trying, new, i) /\ Passed(d.candidates, d.trying, new, i)
         /\ Trials(d.trying) = Trials(trying_queue)
         /\ d.trying[i] = u
    <3>0. i # 0 /\ \A m \in 1..Len(trying_queue) : m # 0
      BY <2>2
    <3>lined. Lined(candidate_queue, trying_queue, pos, i)
      BY <2>1, <3>0 DEF Lined
    <3>passed. Passed(candidate_queue, trying_queue, pos, i)
      BY <2>1, <3>0 DEF Passed
    <3>1. Lined(candidate_queue, trying_queue, pos, i) /\ Passed(candidate_queue, trying_queue, pos, i)
      BY <3>lined, <3>passed
    <3> DEFINE first == i + 1
               e == DropCandidate(candidate_queue, trying_queue, p, first)
    <3>2. i \in Nat /\ first \in Nat \ {0} /\ Droppable(trying_queue, pos, i, p, first)
      BY <2>2, <2>11
    <3> HIDE DEF first
    <3>3. /\ \E new : Lined(e.candidates, e.trying, new, i) /\ Passed(e.candidates, e.trying, new, i)
          /\ Trials(e.trying) = Trials(trying_queue)
          /\ i \in 1..Len(trying_queue) => e.trying[i] = trying_queue[i]
      BY <1>1, <2>6, <3>1, <3>2, LinedDrop
    <3> HIDE DEF e
    <3>4. e = d
      BY DEF e, first
    <3> QED
      BY <2>2, <3>3, <3>4
  <2> HIDE DEF d
  <2>13. PICK new : Lined(d.candidates, d.trying, new, i) /\ Passed(d.candidates, d.trying, new, i)
    BY <2>12
  <2>14. /\ Lined(d.candidates, t, Without(d.trying, new, i), 0)
         /\ Passed(d.candidates, t, Without(d.trying, new, i), 0)
    <3>1. i \in Nat /\ 0 \in Nat
      BY <2>2
    <3> QED
      BY <2>10, <2>13, <3>1, LinedLess
  <2>15. Trials(t) = T
    <3>1. Trials(t) = {x \in Trials(d.trying) : x.trying_info.id # d.trying[i].info.id}
      BY <2>10, TrialsLess
    <3>2. d.trying[i].info.id = id
      BY <2>2, <2>12
    <3> QED
      BY <2>12, <3>1, <3>2
  <2>16. Safe(d.candidates, t, js, quit_set)
    <3> HIDE DEF t, js, T
    <3> QED
      BY <2>3, <2>14, <2>15 DEF Safe
  <2>17. quit_set \intersect N = {}
    OBVIOUS
  <2>18. process' = "running" /\ Safe(candidate_queue', trying_queue', jobs', quit_set)
    <3> HIDE DEF t, js, N
    <3> QED
      BY <1>1, <2>8, <2>10, <2>16, <2>17, ArrangeJobSafe
  <2> QED
    BY <2>9, <2>18
<1> QED
  BY <1>2, <1>3

-----------------------------------------------------------------------------
(* The invariance.                                                         *)

\* What the clients keep to.
SteadyClients == CandidatesStay = TRUE /\ QuittersStayOut = TRUE

\* The inductive invariant.  That no freed node is read needs to know that every
\* pointer is into the list, hence that only the first in line is tried and
\* that no candidate leaves while it is; that a verdict reaches its pair, that
\* a user that is marked has one job and one that left has no mark, which holds
\* while nobody in quit_set waits.
SafeIInv ==
  /\ PartnersIInv
  /\ process = "running"
  /\ Safe(candidate_queue, trying_queue, jobs, quit_set)
  /\ quit_set \intersect Waiting = {}
  /\ AllAccept(matched)

\* What a step has to show besides PartnersIInv'; likes does not change.
SafeNext ==
  /\ process' = "running"
  /\ Safe(candidate_queue', trying_queue', jobs', quit_set')
  /\ quit_set' \intersect Waiting' = {}
  /\ AllAccept(matched')

\* The invariant holds at the start.
LEMMA SafeInit == Init => SafeIInv
<1> SUFFICES ASSUME Init PROVE SafeIInv
  OBVIOUS
<1>1. PartnersIInv
  BY PartnersInit
<1>2. Len(candidate_queue) = 0 /\ Len(trying_queue) = 0 /\ Len(jobs) = 0
  BY EmptySeq DEF Init
<1> DEFINE pos == [i \in 1..0 |-> 1]
<1>3. pos \in [1..0 -> Int]
  OBVIOUS
<1> HIDE DEF pos
<1>4. Lined(candidate_queue, trying_queue, pos, 0) /\ Passed(candidate_queue, trying_queue, pos, 0)
  BY <1>2, <1>3 DEF Lined, Passed
<1>5. TriedBy(Trials(trying_queue), jobs, quit_set)
  BY <1>2 DEF TriedBy, Trials
<1>6. process = "running" /\ quit_set \intersect Waiting = {} /\ AllAccept(matched)
  BY DEF Init, AllAccept
<1> QED
  BY <1>1, <1>4, <1>5, <1>6 DEF SafeIInv, Safe

\* Client::try_match.
LEMMA TryMatchSafe ==
  ASSUME SafeIInv, NEW id \in Id, status[id] = "IDLE", id \notin quit_set, TryMatch(id)
  PROVE  SafeNext
<1>1. /\ status \in [Id -> {"IDLE", "MATCHING", "TALKING", "CLOSED"}]
      /\ try_match_counter \in [Id -> Nat]
      /\ IInv /\ Holds(candidate_queue, trying_queue, Waiting) /\ process = "running"
  BY DEF SafeIInv, PartnersIInv, QueuesHold, IInv, TypeOK
<1>2. /\ Safe(candidate_queue, trying_queue, jobs, quit_set)
      /\ quit_set \intersect Waiting = {} /\ AllAccept(matched)
  BY DEF SafeIInv
<1>3. \A x \in Id : status'[x] = IF x = id THEN "MATCHING" ELSE status[x]
  BY <1>1 DEF TryMatch
<1>4. Waiting' = Waiting \union {id} /\ id \notin Waiting
  BY <1>3 DEF Waiting
<1> DEFINE info == [id |-> id, counter |-> try_match_counter[id] + 1]
<1>5. info \in Info /\ info.id = id
  BY <1>1 DEF Info
<1>6. Add(info) /\ quit_set' = quit_set /\ matched' = matched
  BY DEF TryMatch
<1> HIDE DEF info
<1>7. process' = "running" /\ Safe(candidate_queue', trying_queue', jobs', quit_set)
  BY <1>1, <1>2, <1>4, <1>5, <1>6, AddSafe
<1> QED
  BY <1>2, <1>4, <1>6, <1>7 DEF SafeNext

\* Client::quit and Client::disconnect, of clients that are steady.
LEMMA LeaveSafe ==
  ASSUME SafeIInv, NEW id \in Id, NEW new \in {"IDLE", "CLOSED"},
         \A k \in DOMAIN jobs : jobs[k].candidate_info.id # id, Leave(id, new)
  PROVE  SafeNext
<1>1. /\ status \in [Id -> {"IDLE", "MATCHING", "TALKING", "CLOSED"}]
      /\ IInv /\ Holds(candidate_queue, trying_queue, Waiting) /\ process = "running"
  BY DEF SafeIInv, PartnersIInv, QueuesHold, IInv, TypeOK
<1>2. /\ Safe(candidate_queue, trying_queue, jobs, quit_set)
      /\ quit_set \intersect Waiting = {} /\ AllAccept(matched)
  BY DEF SafeIInv
<1>3. matched' = matched
  BY DEF Leave
<1>4. new # "MATCHING"
  OBVIOUS
<1>5. CASE /\ status' = [status EXCEPT ![match_peer[id]] = "IDLE", ![id] = new]
           /\ UNCHANGED <<queueVars, quit_set, process>>
  <2>1. \A x \in Id : status'[x] = "MATCHING" => status[x] = "MATCHING"
    <3> SUFFICES ASSUME NEW x \in Id, status'[x] = "MATCHING" PROVE status[x] = "MATCHING"
      OBVIOUS
    <3>1. x # id
      BY <1>1, <1>4, <1>5
    <3>2. x # match_peer[id]
      BY <1>1, <1>5, <3>1
    <3> QED
      BY <1>1, <1>5, <3>1, <3>2
  <2>2. Waiting' \subseteq Waiting
    BY <2>1 DEF Waiting
  <2>3. /\ candidate_queue' = candidate_queue /\ trying_queue' = trying_queue
        /\ jobs' = jobs /\ process' = process /\ quit_set' = quit_set
    BY <1>5 DEF queueVars
  <2> QED
    BY <1>1, <1>2, <1>3, <2>2, <2>3 DEF SafeNext
<1>6. CASE /\ status[id] = "MATCHING" /\ status' = [status EXCEPT ![id] = new]
           /\ Detach(id)
  <2>1. \A x \in Id : status'[x] = IF x = id THEN new ELSE status[x]
    BY <1>1, <1>6
  <2>2. Waiting' = Waiting \ {id} /\ id \in Waiting
    BY <1>4, <1>6, <2>1 DEF Waiting
  <2>3. quit_set' = quit_set \union {id}
    BY <1>6 DEF Detach
  <2>4. /\ process' = "running"
        /\ Safe(candidate_queue', trying_queue', jobs', quit_set \union {id})
    BY <1>1, <1>2, <1>6, <2>2, DetachSafe
  <2> QED
    BY <1>2, <1>3, <2>2, <2>3, <2>4 DEF SafeNext
<1> QED
  BY <1>5, <1>6 DEF Leave

\* Whatever a steady client does.
LEMMA ClientStepSafe ==
  ASSUME SafeIInv, SteadyClients, NEW id \in Id, ClientStep(id)
  PROVE  SafeNext
<1>1. CASE MayTry(id) /\ TryMatch(id)
  BY <1>1, TryMatchSafe DEF MayTry, SteadyClients
<1>2. CASE MayLeave(id) /\ Quit(id)
  <2>1. \A k \in DOMAIN jobs : jobs[k].candidate_info.id # id
    BY <1>2 DEF MayLeave, SteadyClients
  <2> QED
    BY <1>2, <2>1, LeaveSafe DEF Quit
<1>3. CASE MayLeave(id) /\ Disconnect(id)
  <2>1. \A k \in DOMAIN jobs : jobs[k].candidate_info.id # id
    BY <1>3 DEF MayLeave, SteadyClients
  <2>2. CASE Leave(id, "CLOSED")
    BY <2>1, <2>2, LeaveSafe
  <2>3. CASE /\ status[id] = "IDLE"
             /\ status' = [status EXCEPT ![id] = "CLOSED"]
             /\ UNCHANGED <<queueVars, quit_set, process, try_match_counter,
                            match_peer, matched, likes>>
    <3>1. status \in [Id -> {"IDLE", "MATCHING", "TALKING", "CLOSED"}]
      BY DEF SafeIInv, PartnersIInv, IInv, TypeOK
    <3>2. \A x \in Id : status'[x] = IF x = id THEN "CLOSED" ELSE status[x]
      BY <2>3, <3>1
    <3>3. Waiting' = Waiting
      BY <2>3, <3>2 DEF Waiting
    <3>4. /\ candidate_queue' = candidate_queue /\ trying_queue' = trying_queue
          /\ jobs' = jobs /\ process' = process /\ quit_set' = quit_set
          /\ matched' = matched
      BY <2>3 DEF queueVars
    <3> QED
      BY <3>3, <3>4 DEF SafeIInv, SafeNext
  <2> QED
    BY <1>3, <2>2, <2>3 DEF Disconnect
<1> QED
  BY <1>1, <1>2, <1>3 DEF ClientStep

\* Whatever a worker reports of a job that is out.
LEMMA ReportSafe ==
  ASSUME SafeIInv, NEW k \in DOMAIN jobs, Report(k)
  PROVE  SafeNext
<1> DEFINE id == jobs[k].trying_info.id
           candidate == jobs[k].candidate_info.id
           js == RemoveAt(jobs, k)
           report == [trying_id |-> id, candidate_id |-> candidate, result |-> DoJob(jobs[k])]
<1>1. /\ status \in [Id -> {"IDLE", "MATCHING", "TALKING", "CLOSED"}]
      /\ IInv /\ Holds(candidate_queue, trying_queue, Waiting) /\ process = "running"
  BY DEF SafeIInv, PartnersIInv, QueuesHold, IInv, TypeOK
<1>2. /\ Safe(candidate_queue, trying_queue, jobs, quit_set)
      /\ quit_set \intersect Waiting = {} /\ AllAccept(matched)
  BY DEF SafeIInv
<1>3. HandleReport(report, js)
  BY DEF Report
<1>4. ASSUME UNCHANGED clientVars
      PROVE  Waiting' = Waiting /\ AllAccept(matched')
  BY <1>2, <1>4 DEF Waiting, clientVars
<1>5. CASE DoJob(jobs[k]) /\ HandleMatch(id, js) /\ UNCHANGED quit_set
  <2>1. /\ process' = "running" /\ Safe(candidate_queue', trying_queue', jobs', quit_set)
        /\ AllAccept(matched')
    BY <1>1, <1>2, <1>5, HandleMatchSafe
  <2>2. Waiting' \subseteq Waiting
    <3>1. CASE UNCHANGED clientVars
      BY <1>4, <3>1
    <3>2. CASE \E other : Talk(id, other)
      <4> PICK other : Talk(id, other)
        BY <3>2
      <4>1. \A x \in Id : status'[x] \in {"TALKING", status[x]}
        BY <1>1 DEF Talk
      <4>2. "TALKING" # "MATCHING"
        OBVIOUS
      <4> QED
        BY <4>1, <4>2 DEF Waiting
    <3> QED
      BY <1>5, <3>1, <3>2 DEF HandleMatch
  <2> QED
    BY <1>2, <1>5, <2>1, <2>2 DEF SafeNext
<1>6. CASE /\ ~DoJob(jobs[k])
           /\ {id, candidate} \intersect quit_set # {}
           /\ quit_set' = quit_set \ {IF id \in quit_set THEN id ELSE candidate}
           /\ ArrangeJob(candidate_queue, trying_queue, OneJobLess, js)
           /\ UNCHANGED clientVars
  <2>1. id \in quit_set
    <3> SUFFICES ASSUME id \notin quit_set PROVE FALSE
      OBVIOUS
    <3> DEFINE i == TryingAt(trying_queue, id)
    <3>1. i \in 1..Len(trying_queue) /\ jobs[k] = JobOf(trying_queue[i])
      BY <1>1, <1>2, ReportFinds
    <3> HIDE DEF i
    <3>2. candidate = trying_queue[i].matchingWith.id
      BY <3>1 DEF JobOf
    <3>3. PICK pos : Lined(candidate_queue, trying_queue, pos, 0)
      BY <1>2 DEF Safe
    <3>4. pos[i] \in 1..Len(candidate_queue) /\ trying_queue[i].matchingWith = candidate_queue[pos[i]]
      BY <3>1, <3>3 DEF Lined
    <3>5. candidate \in Waiting
      BY <1>1, <3>2, <3>4 DEF Holds
    <3> QED
      BY <1>2, <1>6, <3>5
  <2>2. quit_set' = quit_set \ {id}
    BY <1>6, <2>1
  <2>3. /\ process' = "running"
        /\ Safe(candidate_queue', trying_queue', jobs', quit_set')
    <3> DEFINE Q == quit_set \ {id}
    <3>1. Q \in {quit_set, quit_set \ {jobs[k].trying_info.id}}
      OBVIOUS
    <3> HIDE DEF Q
    <3>2. process' = "running" /\ Safe(candidate_queue', trying_queue', jobs', Q)
      BY <1>1, <1>2, <1>6, <2>1, <3>1, StaleReportSafe
    <3>3. quit_set' = Q
      BY <2>2 DEF Q
    <3> QED
      BY <3>2, <3>3
  <2> QED
    BY <1>2, <1>4, <1>6, <2>2, <2>3 DEF SafeNext
<1>7. CASE /\ ~DoJob(jobs[k])
           /\ {id, candidate} \intersect quit_set = {}
           /\ MoveOn(id, js)
           /\ UNCHANGED <<quit_set, clientVars>>
  <2>1. process' = "running" /\ Safe(candidate_queue', trying_queue', jobs', quit_set)
    BY <1>1, <1>2, <1>7, MoveOnSafe
  <2> QED
    BY <1>2, <1>4, <1>7, <2>1 DEF SafeNext
<1>8. /\ report.trying_id = id /\ report.candidate_id = candidate
      /\ report.result <=> DoJob(jobs[k])
  OBVIOUS
<1> HIDE DEF report, js, id, candidate
<1> QED
  BY <1>3, <1>5, <1>6, <1>7, <1>8 DEF HandleReport

\* Every step preserves the invariant.
LEMMA SafePreserved == SteadyClients /\ SafeIInv /\ [Next]_vars => SafeIInv'
<1> SUFFICES ASSUME SteadyClients, SafeIInv, [Next]_vars PROVE SafeIInv'
  OBVIOUS
<1>1. PartnersIInv'
  BY PartnersPreserved DEF SafeIInv
<1>2. SafeNext
  <2>1. CASE \E id \in Id : ClientStep(id)
    BY <2>1, ClientStepSafe
  <2>2. CASE WorkerStep
    BY <2>2, ReportSafe DEF WorkerStep
  <2>3. CASE UNCHANGED vars
    <3>1. Waiting' = Waiting
      BY <2>3 DEF vars, clientVars, Waiting
    <3>2. /\ candidate_queue' = candidate_queue /\ trying_queue' = trying_queue
          /\ jobs' = jobs /\ process' = process /\ quit_set' = quit_set
          /\ matched' = matched
      BY <2>3 DEF vars, queueVars, clientVars
    <3> QED
      BY <3>1, <3>2 DEF SafeIInv, SafeNext
  <2> QED
    BY <2>1, <2>2, <2>3 DEF Next
<1>3. likes' = likes
  <2>1. CASE \E id \in Id : ClientStep(id)
    BY <2>1 DEF ClientStep, TryMatch, Quit, Disconnect, Leave
  <2>2. CASE WorkerStep
    BY <2>2 DEF WorkerStep, Report
  <2>3. CASE UNCHANGED vars
    BY <2>3 DEF vars
  <2> QED
    BY <2>1, <2>2, <2>3 DEF Next
<1>4. Safe(candidate_queue, trying_queue, jobs, quit_set)'
  BY <1>2, <1>3 DEF SafeNext, Safe, Passed, Accept, DoJob
<1>5. AllAccept(matched)'
  BY <1>2, <1>3 DEF SafeNext, AllAccept
<1> QED
  BY <1>1, <1>2, <1>4, <1>5 DEF SafeIInv, SafeNext

\* No handler reads a null or freed node, for any number of users, requests and
\* workers, as long as no candidate leaves while it is being tried and nobody
\* asks again while in quit_set.
THEOREM NoDeadNodeRead ==
  ASSUME SteadyClients
  PROVE  Spec => []NeverReadsDeadNode
<1>1. SafeIInv => NeverReadsDeadNode
  BY DEF SafeIInv, NeverReadsDeadNode
<1>2. SafeIInv /\ [Next]_vars => SafeIInv'
  BY SafePreserved
<1> QED
  BY <1>1, <1>2, SafeInit, PTL DEF Spec

\* Every pointer is into candidate_queue, at the position of its user in line.
LEMMA SafePointersInOrder == SafeIInv => PointersInOrder
<1> SUFFICES ASSUME SafeIInv PROVE PointersInOrder
  OBVIOUS
<1>1. /\ candidate_queue \in Seq(Info)
      /\ DOMAIN candidate_queue = 1..Len(candidate_queue)
      /\ DOMAIN trying_queue = 1..Len(trying_queue)
      /\ Holds(candidate_queue, trying_queue, Waiting)
  BY LenProperties DEF SafeIInv, PartnersIInv, QueuesHold, IInv, TypeOK
<1>2. PICK pos : Lined(candidate_queue, trying_queue, pos, 0)
  BY DEF SafeIInv, Safe
<1>3. \A i \in 1..Len(trying_queue) :
        i # 0 /\ pos[i] \in 1..Len(candidate_queue)
              /\ trying_queue[i].matchingWith = candidate_queue[pos[i]]
  BY <1>2 DEF Lined
<1>4. \A i \in 1..Len(trying_queue) : Position(trying_queue[i]) = pos[i]
  BY <1>1, <1>3, PositionOf DEF Position
<1>5. \A i \in DOMAIN trying_queue :
        trying_queue[i].matchingWith \in Range(candidate_queue)
  BY <1>1, <1>3 DEF Range
<1>6. \A i, j \in DOMAIN trying_queue :
        i < j => Position(trying_queue[j]) <= Position(trying_queue[i])
  BY <1>1, <1>2, <1>3, <1>4 DEF Lined
<1> QED
  BY <1>5, <1>6 DEF PointersInOrder

\* No pointer dangles, and nobody overtakes those in front of it.
THEOREM PointersStayInOrder ==
  ASSUME SteadyClients
  PROVE  Spec => []PointersInOrder
<1>1. SafeIInv => PointersInOrder
  BY SafePointersInOrder
<1>2. SafeIInv /\ [Next]_vars => SafeIInv'
  BY SafePreserved
<1> QED
  BY <1>1, <1>2, SafeInit, PTL DEF Spec

\* Who is marked has its job out, and is the first in line.
LEMMA SafeMarkedMeansTried == SafeIInv => MarkedMeansTried
<1> SUFFICES ASSUME SafeIInv PROVE MarkedMeansTried
  OBVIOUS
<1>1. /\ trying_queue \in Seq(TryingUser)
      /\ DOMAIN trying_queue = 1..Len(trying_queue)
      /\ DOMAIN jobs = 1..Len(jobs)
      /\ Holds(candidate_queue, trying_queue, Waiting)
  BY LenProperties DEF SafeIInv, PartnersIInv, QueuesHold, IInv, TypeOK
<1>2. TriedBy(Trials(trying_queue), jobs, quit_set) /\ quit_set \intersect Waiting = {}
  BY DEF SafeIInv, Safe
<1>3. PICK pos : Lined(candidate_queue, trying_queue, pos, 0)
  BY DEF SafeIInv, Safe
<1> SUFFICES ASSUME NEW i \in 1..Len(trying_queue)
             PROVE  LET u == trying_queue[i]
                    IN /\ u.progress = "PROCESSING" <=> JobOf(u) \in Range(jobs)
                       /\ u.progress = "PROCESSING" /\ i > 1 =>
                            trying_queue[i-1].matchingWith # u.matchingWith
  BY <1>1 DEF MarkedMeansTried
<1> DEFINE u == trying_queue[i]
<1>4. ASSUME u.progress = "PROCESSING" PROVE JobOf(u) \in Range(jobs)
  <2>1. JobOf(u) \in Trials(trying_queue)
    BY <1>4 DEF Trials
  <2> PICK k \in 1..Len(jobs) : jobs[k] = JobOf(u)
    BY <1>2, <2>1 DEF TriedBy
  <2> QED
    BY <1>1 DEF Range
<1>5. ASSUME JobOf(u) \in Range(jobs) PROVE u.progress = "PROCESSING"
  <2> PICK k \in 1..Len(jobs) : jobs[k] = JobOf(u)
    BY <1>1, <1>5 DEF Range
  <2>1. jobs[k].trying_info.id = u.info.id
    BY DEF JobOf
  <2>2. u.info.id \in Waiting
    BY <1>1 DEF Holds
  <2>3. jobs[k] \in Trials(trying_queue)
    BY <1>2, <2>1, <2>2 DEF TriedBy
  <2> PICK m \in 1..Len(trying_queue) :
         trying_queue[m].progress = "PROCESSING" /\ jobs[k] = JobOf(trying_queue[m])
    BY <2>3 DEF Trials
  <2>4. trying_queue[m].info.id = u.info.id
    BY <2>1 DEF JobOf
  <2>5. m = i
    BY <1>1, <2>4 DEF Holds
  <2> QED
    BY <2>5
<1>6. ASSUME u.progress = "PROCESSING", i > 1
      PROVE  trying_queue[i-1].matchingWith # u.matchingWith
  <2>1. i - 1 \in 1..Len(trying_queue) /\ i - 1 < i /\ i - 1 # 0 /\ i # 0
    BY <1>1, <1>6, LenProperties
  <2>2. /\ pos[i] < pos[i-1]
        /\ pos[i] \in 1..Len(candidate_queue) /\ u.matchingWith = candidate_queue[pos[i]]
        /\ pos[i-1] \in 1..Len(candidate_queue)
        /\ trying_queue[i-1].matchingWith = candidate_queue[pos[i-1]]
    BY <1>3, <1>6, <2>1 DEF Lined
  <2>3. candidate_queue[pos[i]] = candidate_queue[pos[i-1]] => pos[i] = pos[i-1]
    BY <1>1, <2>2, HoldsDistinct
  <2> QED
    BY <2>2, <2>3
<1> QED
  BY <1>4, <1>5, <1>6

\* A user is marked exactly while its trial is out: no mark is left behind, and
\* no candidate is tried by two users at a time.
THEOREM MarksMeanTrials ==
  ASSUME SteadyClients
  PROVE  Spec => []MarkedMeansTried
<1>1. SafeIInv => MarkedMeansTried
  BY SafeMarkedMeansTried
<1>2. SafeIInv /\ [Next]_vars => SafeIInv'
  BY SafePreserved
<1> QED
  BY <1>1, <1>2, SafeInit, PTL DEF Spec

\* A verdict reaches the pair it is about: only those are matched that accept
\* each other.
THEOREM MatchesAreMutual ==
  ASSUME SteadyClients
  PROVE  Spec => []MatchedAcceptEachOther
<1>1. SafeIInv => MatchedAcceptEachOther
  BY DEF SafeIInv, AllAccept, MatchedAcceptEachOther
<1>2. SafeIInv /\ [Next]_vars => SafeIInv'
  BY SafePreserved
<1> QED
  BY <1>1, <1>2, SafeInit, PTL DEF Spec

\* Passed says of all pairs of candidates that the later refused the earlier.
LEMMA SafeCandidatesIncompatible == SafeIInv => CandidatesIncompatible
<1> SUFFICES ASSUME SafeIInv PROVE CandidatesIncompatible
  OBVIOUS
<1>1. DOMAIN candidate_queue = 1..Len(candidate_queue)
  BY LenProperties DEF SafeIInv, PartnersIInv, IInv, TypeOK
<1>2. PICK pos : Passed(candidate_queue, trying_queue, pos, 0)
  BY DEF SafeIInv, Safe
<1> QED
  BY <1>1, <1>2 DEF Passed, Accept, CandidatesIncompatible

\* Nobody becomes a candidate before all the others have refused it: no match is
\* missed because a verdict or a candidate was skipped.
THEOREM CandidatesRefusedEachOther ==
  ASSUME SteadyClients
  PROVE  Spec => []CandidatesIncompatible
<1>1. SafeIInv => CandidatesIncompatible
  BY SafeCandidatesIncompatible
<1>2. SafeIInv /\ [Next]_vars => SafeIInv'
  BY SafePreserved
<1> QED
  BY <1>1, <1>2, SafeInit, PTL DEF Spec

-----------------------------------------------------------------------------
(* The queues seen from the lists that hold them.                          *)

\* Every user points to a candidate, and those that wait for the same one are
\* next to each other: the loop that sends them on, which stops at the first that
\* does not wait for it, reaches them all.
LEMMA SafeRuns ==
  ASSUME SafeIInv
  PROVE  /\ \A j \in 1..Len(trying_queue) :
              \E p \in 1..Len(candidate_queue) :
                trying_queue[j].matchingWith = candidate_queue[p]
         /\ \A i, j, m \in 1..Len(trying_queue) :
              i <= m /\ m <= j /\ trying_queue[i].matchingWith = trying_queue[j].matchingWith
                => trying_queue[m].matchingWith = trying_queue[i].matchingWith
<1>1. Holds(candidate_queue, trying_queue, Waiting)
  BY DEF SafeIInv, PartnersIInv, QueuesHold
<1>2. PICK pos : Lined(candidate_queue, trying_queue, pos, 0)
  BY DEF SafeIInv, Safe
<1>3. \A j \in 1..Len(trying_queue) :
        /\ j # 0 /\ pos[j] \in Int /\ pos[j] \in 1..Len(candidate_queue)
        /\ trying_queue[j].matchingWith = candidate_queue[pos[j]]
  BY <1>2 DEF Lined
<1>4. \A i, j \in 1..Len(trying_queue) : i < j => pos[j] <= pos[i]
  BY <1>2, <1>3 DEF Lined
<1>5. ASSUME NEW i \in 1..Len(trying_queue), NEW j \in 1..Len(trying_queue),
             NEW m \in 1..Len(trying_queue), i <= m, m <= j,
             trying_queue[i].matchingWith = trying_queue[j].matchingWith
      PROVE  trying_queue[m].matchingWith = trying_queue[i].matchingWith
  <2>1. candidate_queue[pos[i]] = candidate_queue[pos[j]]
    BY <1>3, <1>5
  <2>2. pos[i] = pos[j]
    BY <1>1, <1>3, <2>1, HoldsDistinct
  <2>3. (i = m \/ i < m) /\ (m = j \/ m < j)
    BY <1>5
  <2>4. pos[m] = pos[i]
    BY <1>3, <1>4, <2>2, <2>3
  <2> QED
    BY <1>3, <2>4
<1> QED
  BY <1>3, <1>5

\* A user whose job is out is the first that waits for its candidate.
LEMMA SafeFirst ==
  ASSUME SafeIInv, NEW k \in DOMAIN jobs,
         TryingAt(trying_queue, jobs[k].trying_info.id) # 0
  PROVE  LET i == TryingAt(trying_queue, jobs[k].trying_info.id)
         IN /\ i \in 1..Len(trying_queue)
            /\ trying_queue[i].info.id = jobs[k].trying_info.id
            /\ \A m \in 1..Len(trying_queue) :
                 m < i => trying_queue[m].matchingWith # trying_queue[i].matchingWith
<1> DEFINE i == TryingAt(trying_queue, jobs[k].trying_info.id)
<1>1. /\ IInv /\ Holds(candidate_queue, trying_queue, Waiting)
      /\ Safe(candidate_queue, trying_queue, jobs, quit_set)
      /\ quit_set \intersect Waiting = {}
      /\ trying_queue \in Seq(TryingUser)
  BY DEF SafeIInv, PartnersIInv, QueuesHold, IInv, TypeOK
<1>2. i \in 1..Len(trying_queue) /\ trying_queue[i].info.id = jobs[k].trying_info.id
  BY <1>1, TryingAtFinds
<1>3. trying_queue[i].progress = "PROCESSING"
  <2>1. jobs[k].trying_info.id \notin quit_set
    BY <1>1, <1>2 DEF Holds
  <2> QED
    BY <1>1, <2>1, ReportFinds
<1> HIDE DEF i
<1>4. PICK pos : Lined(candidate_queue, trying_queue, pos, 0)
  BY <1>1 DEF Safe
<1>5. \A j \in 1..Len(trying_queue) :
        /\ j # 0 /\ pos[j] \in Int /\ pos[j] \in 1..Len(candidate_queue)
        /\ trying_queue[j].matchingWith = candidate_queue[pos[j]]
  BY <1>4 DEF Lined
<1>6. ASSUME NEW m \in 1..Len(trying_queue), m < i
      PROVE  trying_queue[m].matchingWith # trying_queue[i].matchingWith
  <2>1. pos[i] < pos[m]
    BY <1>2, <1>3, <1>4, <1>5, <1>6 DEF Lined
  <2>2. pos[i] # pos[m]
    BY <1>2, <1>5, <2>1
  <2> QED
    BY <1>1, <1>2, <1>5, <2>2, HoldsDistinct
<1>7. i \in 1..Len(trying_queue) /\ trying_queue[i].info.id = jobs[k].trying_info.id
  BY <1>2
<1> QED
  BY <1>6, <1>7 DEF i
=============================================================================
