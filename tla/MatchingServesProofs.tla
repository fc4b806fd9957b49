------------------------ MODULE MatchingServesProofs ------------------------
(***************************************************************************)
(* The proof that module Matching implements FirstCompatible while the     *)
(* clients keep to the two switches: whatever is tried in parallel and in  *)
(* whatever order the workers report, the users are served one at a time,  *)
(* in the order they asked.                                                *)
(***************************************************************************)
EXTENDS MatchingSafeProofs

-----------------------------------------------------------------------------
(* The line: the candidates and, behind them, the users that are tried.    *)

Infos(t) == [i \in DOMAIN t |-> t[i].info]

Order(c, t) == c \o Infos(t)

Line == Order(candidate_queue, trying_queue)

\* What is where in the line.
LEMMA OrderElements ==
  ASSUME NEW c \in Seq(Info), NEW t \in Seq(TryingUser)
  PROVE  /\ Order(c, t) \in Seq(Info)
         /\ Len(Order(c, t)) = Len(c) + Len(t)
         /\ \A i \in 1..Len(c) : Order(c, t)[i] = c[i]
         /\ \A i \in 1..Len(t) : Order(c, t)[Len(c) + i] = t[i].info
<1> DEFINE f == Infos(t)
<1>1. Len(c) \in Nat /\ Len(t) \in Nat /\ DOMAIN t = 1..Len(t)
  BY LenProperties
<1>2. \A i \in 1..Len(t) : t[i] \in TryingUser
  BY ElementOfSeq
<1>3. f \in [1..Len(t) -> Info] /\ \A i \in 1..Len(t) : f[i] = t[i].info
  BY <1>1, <1>2 DEF Infos, TryingUser
<1> HIDE DEF f
<1>4. f \in Seq(Info) /\ Len(f) = Len(t)
  <2> DEFINE n == Len(t)
  <2>1. n \in Nat /\ f \in [1..n -> Info]
    BY <1>1, <1>3
  <2> HIDE DEF n
  <2>2. f \in Seq(Info) /\ Len(f) = n
    BY <2>1, FunctionIsSeq
  <2> QED
    BY <2>2 DEF n
<1>6. /\ c \o f \in Seq(Info)
      /\ Len(c \o f) = Len(c) + Len(t)
      /\ \A i \in 1..(Len(c) + Len(t)) :
           (c \o f)[i] = IF i <= Len(c) THEN c[i] ELSE f[i - Len(c)]
  <2>1. /\ c \o f \in Seq(Info)
        /\ Len(c \o f) = Len(c) + Len(f)
        /\ \A i \in 1..(Len(c) + Len(f)) :
             (c \o f)[i] = IF i <= Len(c) THEN c[i] ELSE f[i - Len(c)]
    BY <1>4, ConcatProperties
  <2> QED
    BY <1>4, <2>1
<1>7. \A i \in 1..Len(c) : (c \o f)[i] = c[i]
  BY <1>1, <1>6
<1>8. \A i \in 1..Len(t) : (c \o f)[Len(c) + i] = t[i].info
  <2> SUFFICES ASSUME NEW i \in 1..Len(t) PROVE (c \o f)[Len(c) + i] = t[i].info
    OBVIOUS
  <2>1. /\ Len(c) + i \in 1..(Len(c) + Len(t)) /\ ~(Len(c) + i <= Len(c))
        /\ (Len(c) + i) - Len(c) = i
    BY <1>1
  <2> QED
    BY <1>3, <1>6, <2>1
<1>9. Order(c, t) = c \o f
  BY DEF Order, f
<1> QED
  BY <1>6, <1>7, <1>8, <1>9

\* A place in the line is a candidate's or a user's.
LEMMA OrderPlaces ==
  ASSUME NEW c \in Seq(Info), NEW t \in Seq(TryingUser), NEW k \in 1..(Len(c) + Len(t))
  PROVE  \/ k \in 1..Len(c)
         \/ \E i \in 1..Len(t) : k = Len(c) + i
<1>1. Len(c) \in Nat /\ Len(t) \in Nat
  BY LenProperties
<1>2. CASE k > Len(c)
  <2>1. k - Len(c) \in 1..Len(t) /\ k = Len(c) + (k - Len(c))
    BY <1>1, <1>2
  <2> QED
    BY <2>1
<1> QED
  BY <1>1, <1>2

\* Two lines with the same infos in the same places.
LEMMA OrderSame ==
  ASSUME NEW t, NEW u, DOMAIN u = DOMAIN t,
         \A i \in DOMAIN t : u[i].info = t[i].info, NEW c
  PROVE  Order(c, u) = Order(c, t)
<1>1. Infos(u) = Infos(t)
  BY DEF Infos
<1> QED
  BY <1>1 DEF Order

\* A newcomer is last in line.
LEMMA OrderNewcomer ==
  ASSUME NEW c \in Seq(Info), NEW t \in Seq(TryingUser), NEW u \in TryingUser
  PROVE  Order(c, Append(t, u)) = Append(Order(c, t), u.info)
<1> DEFINE d == Append(t, u)
           o == Order(c, t)
           e == Append(o, u.info)
<1>1. Len(c) \in Nat /\ Len(t) \in Nat
  BY LenProperties
<1>2. u.info \in Info
  BY DEF TryingUser
<1>3. /\ d \in Seq(TryingUser) /\ Len(d) = Len(t) + 1
      /\ \A k \in 1..Len(d) : d[k] = IF k \in 1..Len(t) THEN t[k] ELSE u
  BY <1>1, AppendProperties
<1>4. /\ o \in Seq(Info) /\ Len(o) = Len(c) + Len(t)
      /\ \A i \in 1..Len(c) : o[i] = c[i]
      /\ \A i \in 1..Len(t) : o[Len(c) + i] = t[i].info
  BY OrderElements
<1> HIDE DEF d, o
<1>5. /\ Order(c, d) \in Seq(Info) /\ Len(Order(c, d)) = Len(c) + Len(d)
      /\ \A i \in 1..Len(c) : Order(c, d)[i] = c[i]
      /\ \A i \in 1..Len(d) : Order(c, d)[Len(c) + i] = d[i].info
  BY <1>3, OrderElements
<1>6. /\ e \in Seq(Info) /\ Len(e) = Len(o) + 1
      /\ \A k \in 1..Len(o) : e[k] = o[k]
      /\ e[Len(o) + 1] = u.info
  BY <1>2, <1>4, AppendProperties
<1> HIDE DEF e
<1>7. ASSUME NEW k \in 1..(Len(c) + Len(d)) PROVE Order(c, d)[k] = e[k]
  <2>1. CASE k \in 1..Len(c)
    <3>1. k \in 1..Len(o)
      BY <1>1, <1>4, <2>1
    <3> QED
      BY <1>4, <1>5, <1>6, <2>1, <3>1
  <2>2. ASSUME NEW i \in 1..Len(d), k = Len(c) + i PROVE Order(c, d)[k] = e[k]
    <3>1. CASE i \in 1..Len(t)
      <4>1. k \in 1..Len(o)
        BY <1>1, <1>4, <2>2, <3>1
      <4> QED
        BY <1>3, <1>4, <1>5, <1>6, <2>2, <3>1, <4>1
    <3>2. CASE i \notin 1..Len(t)
      <4>1. k = Len(o) + 1
        <5>1. Len(d) = Len(t) + 1 /\ Len(o) = Len(c) + Len(t)
          BY <1>3, <1>4
        <5>2. i = Len(t) + 1
          BY <1>1, <3>2, <5>1
        <5> QED
          BY <1>1, <2>2, <5>1, <5>2
      <4>2. Order(c, d)[Len(c) + i] = d[i].info
        BY <1>5
      <4>3. d[i] = u
        BY <1>3, <3>2
      <4>4. e[k] = u.info
        BY <1>6, <4>1
      <4> QED
        BY <2>2, <4>2, <4>3, <4>4
    <3> QED
      BY <3>1, <3>2
  <2>3. k \in 1..Len(c) \/ \E i \in 1..Len(d) : k = Len(c) + i
    BY <1>3, OrderPlaces
  <2> QED
    BY <2>1, <2>2, <2>3
<1>8. Order(c, d) = e
  <2>1. Len(Order(c, d)) = Len(e)
    BY <1>1, <1>3, <1>4, <1>5, <1>6
  <2> QED
    BY <1>5, <1>6, <1>7, <2>1, SeqEqual
<1> QED
  BY <1>8 DEF d, e, o

\* A user that leaves.
LEMMA OrderLess ==
  ASSUME NEW c \in Seq(Info), NEW t \in Seq(TryingUser), NEW i \in 1..Len(t)
  PROVE  Order(c, RemoveAt(t, i)) = RemoveAt(Order(c, t), Len(c) + i)
<1> DEFINE d == RemoveAt(t, i)
           o == Order(c, t)
           m == Len(c) + i
           e == RemoveAt(o, m)
<1>1. Len(c) \in Nat /\ Len(t) \in Nat
  BY LenProperties
<1>2. /\ d \in Seq(TryingUser) /\ Len(d) = Len(t) - 1
      /\ \A k \in 1..(Len(t) - 1) : d[k] = IF k < i THEN t[k] ELSE t[k+1]
  BY RemoveAtElements
<1>3. /\ o \in Seq(Info) /\ Len(o) = Len(c) + Len(t)
      /\ \A k \in 1..Len(c) : o[k] = c[k]
      /\ \A k \in 1..Len(t) : o[Len(c) + k] = t[k].info
  BY OrderElements
<1> HIDE DEF d, o
<1>4. m \in 1..Len(o)
  BY <1>1, <1>3
<1>5. /\ Order(c, d) \in Seq(Info) /\ Len(Order(c, d)) = Len(c) + Len(d)
      /\ \A k \in 1..Len(c) : Order(c, d)[k] = c[k]
      /\ \A k \in 1..Len(d) : Order(c, d)[Len(c) + k] = d[k].info
  BY <1>2, OrderElements
<1> HIDE DEF m
<1>6. /\ e \in Seq(Info) /\ Len(e) = Len(o) - 1
      /\ \A k \in 1..(Len(o) - 1) : e[k] = IF k < m THEN o[k] ELSE o[k+1]
  BY <1>3, <1>4, RemoveAtElements
<1> HIDE DEF e
<1>7. ASSUME NEW k \in 1..(Len(c) + Len(d)) PROVE Order(c, d)[k] = e[k]
  <2>0. k \in 1..(Len(o) - 1)
    BY <1>1, <1>2, <1>3
  <2>1. CASE k \in 1..Len(c)
    <3>1. k < m
      BY <1>1, <2>1 DEF m
    <3> QED
      BY <1>3, <1>5, <1>6, <2>0, <2>1, <3>1
  <2>2. ASSUME NEW j \in 1..Len(d), k = Len(c) + j PROVE Order(c, d)[k] = e[k]
    <3>0. j \in 1..(Len(t) - 1) /\ j \in 1..Len(t) /\ j + 1 \in 1..Len(t)
      BY <1>1, <1>2
    <3>1. CASE j < i
      <4>1. k < m
        BY <1>1, <2>2, <3>1 DEF m
      <4>2. e[k] = t[j].info
        BY <1>3, <1>6, <2>0, <2>2, <3>0, <4>1
      <4>3. d[j] = t[j]
        BY <1>2, <3>0, <3>1
      <4> QED
        BY <1>5, <2>2, <4>2, <4>3
    <3>2. CASE ~(j < i)
      <4>1. ~(k < m) /\ k + 1 = Len(c) + (j + 1)
        BY <1>1, <2>2, <3>2 DEF m
      <4>2. e[k] = t[j+1].info
        BY <1>3, <1>6, <2>0, <3>0, <4>1
      <4>3. d[j] = t[j+1]
        BY <1>2, <3>0, <3>2
      <4> QED
        BY <1>5, <2>2, <4>2, <4>3
    <3> QED
      BY <3>1, <3>2
  <2>3. k \in 1..Len(c) \/ \E j \in 1..Len(d) : k = Len(c) + j
    BY <1>2, OrderPlaces
  <2> QED
    BY <2>1, <2>2, <2>3
<1>8. Order(c, d) = e
  <2>1. Len(Order(c, d)) = Len(e)
    BY <1>1, <1>2, <1>3, <1>5, <1>6
  <2> QED
    BY <1>5, <1>6, <1>7, <2>1, SeqEqual
<1> QED
  BY <1>8 DEF d, e, o, m

\* A candidate that leaves.
LEMMA OrderDrop ==
  ASSUME NEW c \in Seq(Info), NEW t \in Seq(TryingUser), NEW p \in 1..Len(c)
  PROVE  Order(RemoveAt(c, p), t) = RemoveAt(Order(c, t), p)
<1> DEFINE d == RemoveAt(c, p)
           o == Order(c, t)
           e == RemoveAt(o, p)
<1>1. Len(c) \in Nat /\ Len(t) \in Nat
  BY LenProperties
<1>2. /\ d \in Seq(Info) /\ Len(d) = Len(c) - 1
      /\ \A k \in 1..(Len(c) - 1) : d[k] = IF k < p THEN c[k] ELSE c[k+1]
  BY RemoveAtElements
<1>3. /\ o \in Seq(Info) /\ Len(o) = Len(c) + Len(t)
      /\ \A k \in 1..Len(c) : o[k] = c[k]
      /\ \A k \in 1..Len(t) : o[Len(c) + k] = t[k].info
  BY OrderElements
<1> HIDE DEF d, o
<1>4. p \in 1..Len(o)
  BY <1>1, <1>3
<1>5. /\ Order(d, t) \in Seq(Info) /\ Len(Order(d, t)) = Len(d) + Len(t)
      /\ \A k \in 1..Len(d) : Order(d, t)[k] = d[k]
      /\ \A k \in 1..Len(t) : Order(d, t)[Len(d) + k] = t[k].info
  BY <1>2, OrderElements
<1>6. /\ e \in Seq(Info) /\ Len(e) = Len(o) - 1
      /\ \A k \in 1..(Len(o) - 1) : e[k] = IF k < p THEN o[k] ELSE o[k+1]
  BY <1>3, <1>4, RemoveAtElements
<1> HIDE DEF e
<1>7. ASSUME NEW k \in 1..(Len(d) + Len(t)) PROVE Order(d, t)[k] = e[k]
  <2>0. k \in 1..(Len(o) - 1)
    BY <1>1, <1>2, <1>3
  <2>1. CASE k \in 1..Len(d)
    <3>0. k \in 1..(Len(c) - 1) /\ k \in 1..Len(c) /\ k + 1 \in 1..Len(c)
      BY <1>1, <1>2, <2>1
    <3>1. d[k] = IF k < p THEN c[k] ELSE c[k+1]
      BY <1>2, <3>0
    <3>2. e[k] = IF k < p THEN o[k] ELSE o[k+1]
      BY <1>6, <2>0
    <3> QED
      BY <1>3, <1>5, <2>1, <3>0, <3>1, <3>2
  <2>2. ASSUME NEW j \in 1..Len(t), k = Len(d) + j PROVE Order(d, t)[k] = e[k]
    <3>1. ~(k < p) /\ k + 1 = Len(c) + j
      BY <1>1, <1>2, <2>2
    <3>2. e[k] = t[j].info
      BY <1>3, <1>6, <2>0, <3>1
    <3> QED
      BY <1>5, <2>2, <3>2
  <2>3. k \in 1..Len(d) \/ \E j \in 1..Len(t) : k = Len(d) + j
    BY <1>2, OrderPlaces
  <2> QED
    BY <2>1, <2>2, <2>3
<1>8. Order(d, t) = e
  <2>1. Len(Order(d, t)) = Len(e)
    BY <1>1, <1>2, <1>3, <1>5, <1>6
  <2> QED
    BY <1>5, <1>6, <1>7, <2>1, SeqEqual
<1> QED
  BY <1>8 DEF d, e, o

\* The first user becomes the last candidate: its place stays the same.
LEMMA OrderPromote ==
  ASSUME NEW c \in Seq(Info), NEW t \in Seq(TryingUser), 1 \in 1..Len(t)
  PROVE  Order(Append(c, t[1].info), RemoveAt(t, 1)) = Order(c, t)
<1> DEFINE a == Append(c, t[1].info)
           d == RemoveAt(t, 1)
           o == Order(c, t)
<1>1. Len(c) \in Nat /\ Len(t) \in Nat
  BY LenProperties
<1>2. t[1].info \in Info
  <2>1. t[1] \in TryingUser
    BY ElementOfSeq
  <2> QED
    BY <2>1 DEF TryingUser
<1>3. /\ a \in Seq(Info) /\ Len(a) = Len(c) + 1
      /\ \A k \in 1..Len(c) : a[k] = c[k]
      /\ a[Len(c) + 1] = t[1].info
  BY <1>2, AppendProperties
<1>4. /\ d \in Seq(TryingUser) /\ Len(d) = Len(t) - 1
      /\ \A k \in 1..(Len(t) - 1) : d[k] = t[k+1]
  <2> DEFINE i == 1
  <2>1. i \in 1..Len(t) /\ \A k \in 1..(Len(t) - 1) : ~(k < i)
    BY <1>1
  <2> HIDE DEF i
  <2>2. /\ RemoveAt(t, i) \in Seq(TryingUser) /\ Len(RemoveAt(t, i)) = Len(t) - 1
        /\ \A k \in 1..(Len(t) - 1) : RemoveAt(t, i)[k] = IF k < i THEN t[k] ELSE t[k+1]
    BY <2>1, RemoveAtElements
  <2> QED
    BY <2>1, <2>2 DEF i
<1>5. /\ o \in Seq(Info) /\ Len(o) = Len(c) + Len(t)
      /\ \A k \in 1..Len(c) : o[k] = c[k]
      /\ \A k \in 1..Len(t) : o[Len(c) + k] = t[k].info
  BY OrderElements
<1> HIDE DEF a, d, o
<1>6. /\ Order(a, d) \in Seq(Info) /\ Len(Order(a, d)) = Len(a) + Len(d)
      /\ \A k \in 1..Len(a) : Order(a, d)[k] = a[k]
      /\ \A k \in 1..Len(d) : Order(a, d)[Len(a) + k] = d[k].info
  BY <1>3, <1>4, OrderElements
<1>7. ASSUME NEW k \in 1..(Len(a) + Len(d)) PROVE Order(a, d)[k] = o[k]
  <2>1. CASE k \in 1..Len(a)
    <3>1. CASE k \in 1..Len(c)
      BY <1>3, <1>5, <1>6, <2>1, <3>1
    <3>2. CASE k \notin 1..Len(c)
      <4>1. k = Len(c) + 1
        BY <1>1, <1>3, <2>1, <3>2
      <4>2. Order(a, d)[k] = t[1].info
        BY <1>3, <1>6, <2>1, <4>1
      <4>3. o[Len(c) + 1] = t[1].info
        <5> DEFINE i == 1
        <5>1. i \in 1..Len(t)
          OBVIOUS
        <5> HIDE DEF i
        <5>2. o[Len(c) + i] = t[i].info
          BY <1>5, <5>1
        <5> QED
          BY <5>2 DEF i
      <4> QED
        BY <4>1, <4>2, <4>3
    <3> QED
      BY <3>1, <3>2
  <2>2. ASSUME NEW j \in 1..Len(d), k = Len(a) + j PROVE Order(a, d)[k] = o[k]
    <3>1. j \in 1..(Len(t) - 1) /\ j + 1 \in 1..Len(t) /\ k = Len(c) + (j + 1)
      BY <1>1, <1>3, <1>4, <2>2
    <3>2. Order(a, d)[Len(a) + j] = d[j].info /\ d[j] = t[j+1]
      BY <1>4, <1>6, <3>1
    <3>3. o[Len(c) + (j + 1)] = t[j+1].info
      BY <1>5, <3>1
    <3> QED
      BY <2>2, <3>1, <3>2, <3>3
  <2>3. k \in 1..Len(a) \/ \E j \in 1..Len(d) : k = Len(a) + j
    BY <1>3, <1>4, OrderPlaces
  <2> QED
    BY <2>1, <2>2, <2>3
<1>8. Order(a, d) = o
  <2>1. Len(Order(a, d)) = Len(o)
    BY <1>1, <1>3, <1>4, <1>5, <1>6
  <2> QED
    BY <1>5, <1>6, <1>7, <2>1, SeqEqual
<1> QED
  BY <1>8 DEF a, d, o

-----------------------------------------------------------------------------
(* The moves of the handlers.                                              *)

\* arrange_job leaves the line as it is.
LEMMA ArrangeJobOrder ==
  ASSUME NEW c, NEW t \in Seq(TryingUser), NEW working, NEW js,
         ArrangeJob(c, t, working, js)
  PROVE  Line' = Order(c, t)
<1>1. PICK f \in StartOrder(t, working) :
        /\ candidate_queue' = c
        /\ trying_queue' = [i \in DOMAIN t |->
                              IF i \in Range(f)
                              THEN [t[i] EXCEPT !.progress = "PROCESSING"]
                              ELSE t[i]]
  BY DEF ArrangeJob
<1>2. DOMAIN t = 1..Len(t)
  BY LenProperties
<1>3. \A i \in DOMAIN t : t[i] \in TryingUser
  BY <1>2, ElementOfSeq
<1>4. \A i \in DOMAIN t : trying_queue'[i].info = t[i].info
  BY <1>1, <1>3 DEF TryingUser
<1>5. DOMAIN (trying_queue') = DOMAIN t
  BY <1>1
<1>6. Order(c, trying_queue') = Order(c, t)
  BY <1>4, <1>5, OrderSame
<1> QED
  BY <1>1, <1>6 DEF Line, Order, Infos

\* A candidate is dropped, and those that were behind it sent on: the others
\* keep their places, because whoever becomes a candidate was the first user.
LEMMA DropCandidateOrder ==
  ASSUME NEW c \in Seq(Info), NEW t \in Seq(TryingUser),
         NEW p \in 1..Len(c), NEW first \in Nat \ {0},
         /\ p = Len(c) /\ first \in DOMAIN t /\ t[first].matchingWith = c[p]
           => first = 1
  PROVE  LET d == DropCandidate(c, t, p, first)
         IN Order(d.candidates, d.trying) = RemoveAt(Order(c, t), p)
<1> DEFINE promote == /\ p = Len(c)
                      /\ first \in DOMAIN t
                      /\ t[first].matchingWith = c[p]
           c1 == IF promote THEN Append(c, t[first].info) ELSE c
           t1 == IF promote THEN RemoveAt(t, first) ELSE t
           behind == RunFrom(t1, first, c[p])
           d == [i \in DOMAIN t1 |->
                   IF i \in behind THEN [t1[i] EXCEPT !.matchingWith = c1[p+1]]
                                   ELSE t1[i]]
<1>1. /\ DropCandidate(c, t, p, first).candidates = RemoveAt(c1, p)
      /\ DropCandidate(c, t, p, first).trying = d
  BY DEF DropCandidate
<1>2. Len(c) \in Nat /\ DOMAIN t = 1..Len(t)
  BY LenProperties
<1>3. /\ c1 \in Seq(Info) /\ t1 \in Seq(TryingUser) /\ p \in 1..Len(c1)
      /\ Order(c1, t1) = Order(c, t)
  <2>1. CASE promote
    <3>1. first = 1 /\ first \in 1..Len(t)
      BY <1>2, <2>1
    <3>2. c1 = Append(c, t[1].info) /\ t1 = RemoveAt(t, 1) /\ 1 \in 1..Len(t)
      BY <2>1, <3>1
    <3> HIDE DEF c1, t1
    <3>3. t[1].info \in Info
      <4>1. t[1] \in TryingUser
        BY <3>2, ElementOfSeq
      <4> QED
        BY <4>1 DEF TryingUser
    <3>4. c1 \in Seq(Info) /\ Len(c1) = Len(c) + 1
      BY <3>2, <3>3, AppendProperties
    <3>5. t1 \in Seq(TryingUser)
      BY <3>2, RemoveAtType
    <3>6. p \in 1..Len(c1)
      BY <1>2, <3>4
    <3>7. Order(c1, t1) = Order(c, t)
      BY <3>2, OrderPromote
    <3> QED
      BY <3>4, <3>5, <3>6, <3>7
  <2>2. CASE ~promote
    BY <2>2
  <2> QED
    BY <2>1, <2>2
<1> HIDE DEF c1, t1, promote, behind
<1>4. \A i \in DOMAIN t1 : t1[i] \in TryingUser
  BY <1>3, ElementOfSeq, LenProperties
<1>5. DOMAIN d = DOMAIN t1 /\ \A i \in DOMAIN t1 : d[i].info = t1[i].info
  BY <1>4 DEF TryingUser
<1> HIDE DEF d
<1>6. Order(RemoveAt(c1, p), d) = Order(RemoveAt(c1, p), t1)
  BY <1>5, OrderSame
<1>7. Order(RemoveAt(c1, p), t1) = RemoveAt(Order(c1, t1), p)
  BY <1>3, OrderDrop
<1> QED
  BY <1>1, <1>3, <1>6, <1>7

-----------------------------------------------------------------------------
(* The handlers.                                                           *)

\* add: the user is last in line, also when it becomes the first candidate,
\* since then nobody is in line.
LEMMA AddOrder ==
  ASSUME IInv, NEW pos, Lined(candidate_queue, trying_queue, pos, 0),
         NEW info \in Info, Add(info)
  PROVE  Line' = Append(Line, info)
<1>1. /\ candidate_queue \in Seq(Info) /\ trying_queue \in Seq(TryingUser)
      /\ Len(trying_queue) \in Nat
  BY LenProperties DEF IInv, TypeOK
<1>2. CASE /\ candidate_queue = <<>>
           /\ candidate_queue' = <<info>>
           /\ UNCHANGED <<trying_queue, working_job, jobs, process>>
  <2>1. trying_queue = <<>>
    <3> SUFFICES ASSUME trying_queue # <<>> PROVE FALSE
      OBVIOUS
    <3>1. 1 \in 1..Len(trying_queue)
      BY <1>1, EmptySeq
    <3> DEFINE i == 1
    <3>2. i \in 1..Len(trying_queue) /\ i # 0
      BY <3>1
    <3> HIDE DEF i
    <3>3. pos[i] \in 1..Len(candidate_queue)
      BY <3>2 DEF Lined
    <3>4. Len(candidate_queue) = 0
      BY <1>2, EmptySeq
    <3> QED
      BY <3>3, <3>4
  <2>2. Infos(<<>>) = <<>>
    BY DEF Infos
  <2>3. Line = <<>> \o <<>> /\ Line' = <<info>> \o <<>>
    BY <1>2, <2>1, <2>2 DEF Line, Order
  <2>4. <<>> \in Seq(Info) /\ <<info>> \in Seq(Info)
    OBVIOUS
  <2>5. Line = <<>> /\ Line' = <<info>>
    BY <2>3, <2>4, ConcatEmptySeq
  <2> QED
    BY <2>5
<1>3. CASE /\ candidate_queue # <<>>
           /\ ArrangeJob(candidate_queue, Append(trying_queue, Newcomer(info)),
                         working_job, jobs)
  <2> DEFINE u == Newcomer(info)
  <2>1. Head(candidate_queue) \in Info
    BY <1>1, <1>3, HeadTailProperties
  <2>2. u \in TryingUser /\ u.info = info
    BY <2>1 DEF Newcomer, TryingUser
  <2> HIDE DEF u
  <2>3. Append(trying_queue, u) \in Seq(TryingUser)
    BY <1>1, <2>2, AppendProperties
  <2>4. Line' = Order(candidate_queue, Append(trying_queue, u))
    BY <1>3, <2>3, ArrangeJobOrder DEF u
  <2>5. Order(candidate_queue, Append(trying_queue, u)) = Append(Line, info)
    BY <1>1, <2>2, OrderNewcomer DEF Line
  <2> QED
    BY <2>4, <2>5
<1> QED
  BY <1>2, <1>3 DEF Add

\* detach: one leaves the line.
LEMMA DetachOrder ==
  ASSUME IInv, NEW M, Holds(candidate_queue, trying_queue, M),
         NEW pos, Lined(candidate_queue, trying_queue, pos, 0), NEW id, Detach(id)
  PROVE  \/ Line' = Line
         \/ \E k \in 1..Len(Line) : Line' = RemoveAt(Line, k)
<1> DEFINE i == TryingAt(trying_queue, id)
           p == CandidateAt(candidate_queue, id)
           w == TryingWith(trying_queue, candidate_queue[p])
           first == IF w = 0 THEN Len(trying_queue) + 1 ELSE w
           d == DropCandidate(candidate_queue, trying_queue, p, first)
<1>1. /\ candidate_queue \in Seq(Info) /\ trying_queue \in Seq(TryingUser)
      /\ Len(trying_queue) \in Nat /\ Len(candidate_queue) \in Nat
      /\ DOMAIN trying_queue = 1..Len(trying_queue)
  BY LenProperties DEF IInv, TypeOK
<1>2. Len(Line) = Len(candidate_queue) + Len(trying_queue)
  BY <1>1, OrderElements DEF Line
<1>3. CASE i # 0 /\ ArrangeJob(candidate_queue, RemoveAt(trying_queue, i), working_job, jobs)
  <2>1. i \in 1..Len(trying_queue)
    BY <1>1, <1>3, TryingAtFinds
  <2> HIDE DEF i
  <2>2. RemoveAt(trying_queue, i) \in Seq(TryingUser)
    BY <1>1, <2>1, RemoveAtType
  <2>3. Line' = Order(candidate_queue, RemoveAt(trying_queue, i))
    BY <1>3, <2>2, ArrangeJobOrder
  <2>4. Order(candidate_queue, RemoveAt(trying_queue, i))
          = RemoveAt(Line, Len(candidate_queue) + i)
    BY <1>1, <2>1, OrderLess DEF Line
  <2>5. Len(candidate_queue) + i \in 1..Len(Line)
    BY <1>1, <1>2, <2>1
  <2> QED
    BY <2>3, <2>4, <2>5
<1>4. CASE i = 0 /\ p # 0 /\ ArrangeJob(d.candidates, d.trying, working_job, jobs)
  <2>1. p \in 1..Len(candidate_queue)
    BY <1>1, <1>4, CandidateAtFinds
  <2> DEFINE node == candidate_queue[p]
  <2>2. /\ \A k \in 1..Len(trying_queue) :
             trying_queue[k].matchingWith = node => w # 0 /\ w <= k
        /\ w # 0 => w \in 1..Len(trying_queue) /\ trying_queue[w].matchingWith = node
    <3> HIDE DEF p
    <3> QED
      BY <1>1, TryingWithFirst
  <2> HIDE DEF p, w, node
  <2>3. first \in Nat \ {0}
    BY <1>1, <2>2
  <2>4. ASSUME p = Len(candidate_queue), first \in 1..Len(trying_queue)
        PROVE  first = 1
    <3>1. w # 0 /\ w = first /\ w \in 1..Len(trying_queue) /\ trying_queue[w].matchingWith = node
      BY <1>1, <2>2, <2>4
    <3>2. CASE w > 1
      <4> DEFINE one == 1
      <4>1. one \in 1..Len(trying_queue) /\ one < w /\ one # 0 /\ ~(w <= one)
        BY <1>1, <3>1, <3>2
      <4> HIDE DEF one
      <4>2. /\ pos[w] <= pos[one]
            /\ pos[w] \in 1..Len(candidate_queue)
            /\ node = candidate_queue[pos[w]]
            /\ pos[one] \in 1..Len(candidate_queue)
            /\ trying_queue[one].matchingWith = candidate_queue[pos[one]]
        BY <3>1, <4>1 DEF Lined
      <4>3. pos[w] = p
        BY <2>1, <4>2, HoldsDistinct DEF node
      <4>4. pos[one] = p
        BY <1>1, <2>4, <4>2, <4>3
      <4>5. trying_queue[one].matchingWith = node
        BY <4>2, <4>4 DEF node
      <4> QED
        BY <2>2, <4>1, <4>5
    <3> QED
      BY <3>1, <3>2
  <2> HIDE DEF first
  <2>5. d.candidates \in Seq(Info) /\ d.trying \in Seq(TryingUser)
    BY <1>1, <2>1, <2>3, DropCandidateType
  <2>6. Order(d.candidates, d.trying) = RemoveAt(Line, p)
    BY <1>1, <2>1, <2>3, <2>4, DropCandidateOrder DEF Line
  <2> HIDE DEF d
  <2>7. Line' = Order(d.candidates, d.trying)
    BY <1>4, <2>5, ArrangeJobOrder
  <2>8. p \in 1..Len(Line)
    BY <1>1, <1>2, <2>1
  <2> QED
    BY <2>6, <2>7, <2>8
<1>5. CASE UNCHANGED <<queueVars, process>>
  BY <1>5 DEF queueVars, Line, Order, Infos
<1> QED
  BY <1>3, <1>4, <1>5 DEF Detach

\* Without its first two users, the list is the same in whatever order they go.
LEMMA FirstTwo ==
  ASSUME NEW t \in Seq(TryingUser), 2 \in 1..Len(t)
  PROVE  /\ RemoveAt(t, 1) \in Seq(TryingUser) /\ 1 \in 1..Len(RemoveAt(t, 1))
         /\ RemoveAt(t, 1)[1] = t[2]
         /\ RemoveAt(RemoveAt(t, 2), 1) = RemoveAt(RemoveAt(t, 1), 1)
<1> DEFINE one == 1
           two == 2
           a == RemoveAt(t, one)
           b == RemoveAt(t, two)
           aa == RemoveAt(a, one)
           bb == RemoveAt(b, one)
<1>1. /\ Len(t) \in Nat /\ one \in 1..Len(t) /\ two \in 1..Len(t)
      /\ one \in 1..(Len(t) - 1)
  BY LenProperties
<1>2. /\ \A k \in 1..Len(t) : ~(k < one)
      /\ \A k \in 1..Len(t) : k < two <=> k = one
      /\ one + 1 = two
  BY <1>1
<1> HIDE DEF one, two
<1>3. /\ a \in Seq(TryingUser) /\ Len(a) = Len(t) - 1
      /\ \A k \in 1..(Len(t) - 1) : a[k] = IF k < one THEN t[k] ELSE t[k+1]
  BY <1>1, RemoveAtElements
<1>4. /\ b \in Seq(TryingUser) /\ Len(b) = Len(t) - 1
      /\ \A k \in 1..(Len(t) - 1) : b[k] = IF k < two THEN t[k] ELSE t[k+1]
  BY <1>1, RemoveAtElements
<1> HIDE DEF a, b
<1>5. one \in 1..Len(a) /\ one \in 1..Len(b)
  BY <1>1, <1>3, <1>4
<1>6. /\ aa \in Seq(TryingUser) /\ Len(aa) = Len(a) - 1
      /\ \A k \in 1..(Len(a) - 1) : aa[k] = IF k < one THEN a[k] ELSE a[k+1]
  BY <1>3, <1>5, RemoveAtElements
<1>7. /\ bb \in Seq(TryingUser) /\ Len(bb) = Len(b) - 1
      /\ \A k \in 1..(Len(b) - 1) : bb[k] = IF k < one THEN b[k] ELSE b[k+1]
  BY <1>4, <1>5, RemoveAtElements
<1> HIDE DEF aa, bb
<1>8. aa = bb
  <2>1. Len(aa) = Len(bb)
    BY <1>3, <1>4, <1>6, <1>7
  <2>2. ASSUME NEW k \in 1..Len(aa) PROVE aa[k] = bb[k]
    <3>1. /\ k \in 1..(Len(a) - 1) /\ k \in 1..(Len(b) - 1) /\ k \in 1..Len(t)
          /\ k + 1 \in 1..(Len(t) - 1) /\ k + 1 \in 1..Len(t) /\ k + 1 # one
      BY <1>1, <1>3, <1>4, <1>6 DEF one
    <3>2. ~(k < one) /\ ~(k + 1 < one) /\ ~(k + 1 < two)
      BY <1>2, <3>1
    <3>3. aa[k] = a[k+1] /\ bb[k] = b[k+1]
      BY <1>6, <1>7, <3>1, <3>2
    <3>4. a[k+1] = t[(k+1)+1] /\ b[k+1] = t[(k+1)+1]
      BY <1>3, <1>4, <3>1, <3>2
    <3> QED
      BY <3>3, <3>4
  <2> QED
    BY <1>6, <1>7, <2>1, <2>2, SeqEqual
<1>9. a[one] = t[two]
  BY <1>1, <1>2, <1>3
<1> QED
  BY <1>3, <1>5, <1>8, <1>9 DEF one, two, a, b, aa, bb

\* The user i of t is paired with the candidate p of c, and the users from
\* first on are sent on.
PairFits(c, t, p, i, first) ==
  /\ c \in Seq(Info) /\ t \in Seq(TryingUser)
  /\ p \in 1..Len(c) /\ i \in 1..Len(t)
  /\ p = Len(c) => i = 1
  /\ first = i + 1
  /\ i \in 1..Len(DropCandidate(c, t, p, first).trying)

\* A pair leaves the line: the user i and the candidate at p, that was dropped
\* with the users behind i sent on.
LEMMA PairOrder ==
  ASSUME NEW c, NEW t, NEW p, NEW i, NEW first, PairFits(c, t, p, i, first)
  PROVE  LET d == DropCandidate(c, t, p, first)
         IN Order(d.candidates, RemoveAt(d.trying, i))
              = RemoveAt(RemoveAt(Order(c, t), Len(c) + i), p)
<1> SUFFICES ASSUME c \in Seq(Info), t \in Seq(TryingUser),
                    p \in 1..Len(c), i \in 1..Len(t), p = Len(c) => i = 1,
                    first = i + 1,
                    i \in 1..Len(DropCandidate(c, t, p, first).trying)
             PROVE  LET d == DropCandidate(c, t, p, first)
                    IN Order(d.candidates, RemoveAt(d.trying, i))
                         = RemoveAt(RemoveAt(Order(c, t), Len(c) + i), p)
  BY DEF PairFits
<1> DEFINE promote == /\ p = Len(c)
                      /\ first \in DOMAIN t
                      /\ t[first].matchingWith = c[p]
           c1 == IF promote THEN Append(c, t[first].info) ELSE c
           t1 == IF promote THEN RemoveAt(t, first) ELSE t
           behind == RunFrom(t1, first, c[p])
           d == DropCandidate(c, t, p, first).trying
           e == RemoveAt(d, i)
           out == RemoveAt(Order(c, t), Len(c) + i)
<1>1. /\ DropCandidate(c, t, p, first).candidates = RemoveAt(c1, p)
      /\ d = [k \in DOMAIN t1 |->
                IF k \in behind THEN [t1[k] EXCEPT !.matchingWith = c1[p+1]]
                                ELSE t1[k]]
  BY DEF DropCandidate
<1>2. /\ Len(c) \in Nat /\ Len(t) \in Nat /\ DOMAIN t = 1..Len(t)
      /\ first \in Nat \ {0}
  BY LenProperties
<1>3. d \in Seq(TryingUser)
  <2> HIDE DEF d
  <2> QED
    BY <1>2, DropCandidateType DEF d
<1>4. i \in 1..Len(d)
  OBVIOUS
<1>5. /\ c1 \in Seq(Info) /\ t1 \in Seq(TryingUser) /\ p \in 1..Len(c1)
  <2>1. CASE promote
    <3>1. first \in 1..Len(t) /\ c1 = Append(c, t[first].info) /\ t1 = RemoveAt(t, first)
      BY <1>2, <2>1
    <3> HIDE DEF c1, t1
    <3>2. t[first].info \in Info
      <4>1. t[first] \in TryingUser
        BY <3>1, ElementOfSeq
      <4> QED
        BY <4>1 DEF TryingUser
    <3>3. c1 \in Seq(Info) /\ Len(c1) = Len(c) + 1
      BY <3>1, <3>2, AppendProperties
    <3>4. t1 \in Seq(TryingUser)
      BY <3>1, RemoveAtType
    <3> QED
      BY <1>2, <3>3, <3>4
  <2>2. CASE ~promote
    BY <2>2
  <2> QED
    BY <2>1, <2>2
<1> DEFINE o == Order(c1, RemoveAt(t1, i))
<1>6. i \in 1..Len(t1) /\ o = out
  <2>1. CASE promote
    <3>1. p = Len(c) /\ i = 1 /\ first = 2 /\ first \in 1..Len(t)
      BY <1>2, <2>1
    <3> DEFINE s == RemoveAt(t, 1)
    <3>2. /\ s \in Seq(TryingUser) /\ 1 \in 1..Len(s) /\ s[1] = t[2]
          /\ RemoveAt(RemoveAt(t, 2), 1) = RemoveAt(s, 1)
      BY <3>1, FirstTwo
    <3>3. c1 = Append(c, t[2].info) /\ t1 = RemoveAt(t, 2)
      BY <2>1, <3>1
    <3> HIDE DEF s, c1, t1
    <3>4. o = Order(Append(c, s[1].info), RemoveAt(s, 1))
      BY <3>1, <3>2, <3>3
    <3>5. Order(Append(c, s[1].info), RemoveAt(s, 1)) = Order(c, s)
      BY <3>2, OrderPromote
    <3>6. Order(c, s) = RemoveAt(Order(c, t), Len(c) + i)
      BY <3>1, OrderLess DEF s
    <3>7. i \in 1..Len(t1)
      <4>1. Len(t1) = Len(t) - 1
        BY <3>1, <3>3, RemoveAtElements
      <4> QED
        BY <1>2, <3>1, <4>1
    <3> QED
      BY <3>4, <3>5, <3>6, <3>7
  <2>2. CASE ~promote
    <3>1. c1 = c /\ t1 = t
      BY <2>2
    <3> HIDE DEF c1, t1
    <3> QED
      BY <3>1, OrderLess
  <2> QED
    BY <2>1, <2>2
<1>7. DOMAIN d = DOMAIN t1 /\ \A k \in DOMAIN t1 : d[k].info = t1[k].info
  <2>1. \A k \in DOMAIN t1 : t1[k] \in TryingUser
    <3> HIDE DEF t1
    <3> QED
      BY <1>5, ElementOfSeq, LenProperties
  <2> HIDE DEF d, t1, c1, behind
  <2> QED
    BY <1>1, <2>1 DEF TryingUser
<1> HIDE DEF d, t1, c1, behind, promote, out
<1>8. e \in Seq(TryingUser)
  BY <1>3, <1>4, RemoveAtType
<1>9. Order(c1, e) = RemoveAt(Order(c1, d), Len(c1) + i)
  BY <1>3, <1>4, <1>5, OrderLess
<1>10. Order(c1, d) = Order(c1, t1)
  BY <1>7, OrderSame
<1>11. o = RemoveAt(Order(c1, t1), Len(c1) + i)
  BY <1>5, <1>6, OrderLess
<1> HIDE DEF e, o
<1>12. Order(RemoveAt(c1, p), e) = RemoveAt(Order(c1, e), p)
  BY <1>5, <1>8, OrderDrop
<1>13. Order(RemoveAt(c1, p), e) = RemoveAt(out, p)
  BY <1>6, <1>9, <1>10, <1>11, <1>12
<1> QED
  BY <1>1, <1>13 DEF d, e, out

\* A user that was refused stays where it is, also if it becomes a candidate:
\* who is tried against the last candidate is the first user.
LEMMA MoveOnOrder ==
  ASSUME IInv, NEW M, Holds(candidate_queue, trying_queue, M),
         Safe(candidate_queue, trying_queue, jobs, quit_set),
         NEW k \in DOMAIN jobs, jobs[k].trying_info.id \notin quit_set,
         MoveOn(jobs[k].trying_info.id, RemoveAt(jobs, k))
  PROVE  Line' = Line
<1> DEFINE id == jobs[k].trying_info.id
           js == RemoveAt(jobs, k)
           i == TryingAt(trying_queue, id)
           u == trying_queue[i]
           p == CandidateAt(candidate_queue, u.matchingWith.id)
           last == LastCandidate(p)
           c == IF last THEN Append(candidate_queue, u.info) ELSE candidate_queue
           t == IF last THEN RemoveAt(trying_queue, i)
                        ELSE [trying_queue EXCEPT
                                ![i] = SentOn(u, candidate_queue[p+1])]
<1>1. /\ candidate_queue \in Seq(Info) /\ trying_queue \in Seq(TryingUser)
      /\ Len(candidate_queue) \in Nat /\ Len(trying_queue) \in Nat
      /\ DOMAIN candidate_queue = 1..Len(candidate_queue)
      /\ DOMAIN trying_queue = 1..Len(trying_queue)
  BY LenProperties DEF IInv, TypeOK
<1>2. PICK pos : Lined(candidate_queue, trying_queue, pos, 0)
  BY DEF Safe
<1>3. i \in 1..Len(trying_queue) /\ u \in TryingUser /\ u.progress = "PROCESSING"
  BY ReportFinds
<1> HIDE DEF i
<1>4. pos[i] \in 1..Len(candidate_queue) /\ u.matchingWith = candidate_queue[pos[i]]
  BY <1>2, <1>3 DEF Lined
<1>5. p = pos[i]
  BY <1>1, <1>4, PositionOf
<1> HIDE DEF p
<1>6. i # 0 /\ u.matchingWith \in Range(candidate_queue)
  BY <1>1, <1>3, <1>4 DEF Range
<1>7. ArrangeJob(c, t, OneJobLess, js)
  BY <1>6 DEF MoveOn, i, p
<1>8. t \in Seq(TryingUser)
  BY <1>3, <1>4, <1>5, IInvRanged, FurtherHolds
<1>9. Order(c, t) = Line
  <2>1. CASE last
    <3>1. p = Len(candidate_queue) /\ c = Append(candidate_queue, u.info)
          /\ t = RemoveAt(trying_queue, i)
      BY <2>1 DEF LastCandidate
    <3> HIDE DEF c, t, last
    <3>2. i = 1
      <4> DEFINE one == 1
      <4> SUFFICES ASSUME i # one PROVE FALSE
        OBVIOUS
      <4>1. one \in 1..Len(trying_queue) /\ one < i /\ one # 0
        BY <1>1, <1>3
      <4> HIDE DEF one
      <4>2. \A m \in 1..Len(trying_queue) :
              m # 0 => pos[m] \in 1..Len(candidate_queue)
        BY <1>2 DEF Lined
      <4>3. \A m \in 1..Len(trying_queue) :
              m < i /\ m # 0 /\ i # 0 => pos[i] < pos[m]
        BY <1>2, <1>3 DEF Lined
      <4>4. pos[i] < pos[one] /\ pos[one] \in 1..Len(candidate_queue)
        BY <1>6, <4>1, <4>2, <4>3
      <4> QED
        BY <1>1, <1>5, <3>1, <4>4
    <3> QED
      BY <1>1, <1>3, <3>1, <3>2, OrderPromote DEF Line
  <2>2. CASE ~last
    <3>1. c = candidate_queue
          /\ t = [trying_queue EXCEPT ![i] = SentOn(u, candidate_queue[p+1])]
      BY <2>2
    <3> HIDE DEF c, t, last
    <3>2. SentOn(u, candidate_queue[p+1]).info = u.info
      BY <1>3 DEF SentOn, TryingUser
    <3>3. DOMAIN t = DOMAIN trying_queue
          /\ \A m \in DOMAIN trying_queue : t[m].info = trying_queue[m].info
      BY <3>1, <3>2
    <3> QED
      BY <3>1, <3>3, OrderSame DEF Line
  <2> QED
    BY <2>1, <2>2
<1> HIDE DEF c, t
<1> QED
  BY <1>7, <1>8, <1>9, ArrangeJobOrder

-----------------------------------------------------------------------------
(* What a step does to the line.                                           *)

\* The requests for a match.
User == [id : Id, counter : 1..MaxTry]

Accepting(a, b) == {<<a, b>>, <<b, a>>} \subseteq likes

\* To accept each other is what do_job finds out.
LEMMA AcceptingIsAccept ==
  ASSUME NEW a, NEW b
  PROVE  /\ Accepting(a, b) <=> Accept(a, b)
         /\ Accepting(a, b) <=> Accept(b, a)
BY DEF Accepting, Accept, DoJob

Joins(u) ==
  /\ u \in User /\ u \notin Range(Line) \union UNION matched
  /\ Line' = Append(Line, u) /\ matched' = matched

Leaves(i) ==
  /\ i \in 1..Len(Line)
  /\ Line' = RemoveAt(Line, i) /\ matched' = matched

Pairs(i, j) ==
  /\ i \in 1..Len(Line) /\ j \in 1..Len(Line) /\ i < j
  /\ Accepting(Line[i], Line[j])
  /\ \A k \in 1..(i-1) : ~Accepting(Line[k], Line[j])
  /\ \A k \in (i+1)..(j-1) : ~Accepting(Line[i], Line[k])
  /\ Line' = RemoveAt(RemoveAt(Line, j), i)
  /\ matched' = matched \union {{Line[i], Line[j]}}

Waits == Line' = Line /\ matched' = matched

\* An acceptance matches the user with the candidate it was tried against, each
\* of them the first the other could have had; or the user has left.
LEMMA HandleMatchOrder ==
  ASSUME IInv, NEW M, Holds(candidate_queue, trying_queue, M),
         quit_set \intersect M = {},
         Safe(candidate_queue, trying_queue, jobs, quit_set),
         NEW k \in DOMAIN jobs, DoJob(jobs[k]),
         HandleMatch(jobs[k].trying_info.id, RemoveAt(jobs, k))
  PROVE  Waits \/ \E i, j : Pairs(i, j)
<1> DEFINE id == jobs[k].trying_info.id
           js == RemoveAt(jobs, k)
           i == TryingAt(trying_queue, id)
           u == trying_queue[i]
           node == u.matchingWith
           p == CandidateAt(candidate_queue, node.id)
           d == DropCandidate(candidate_queue, trying_queue, p, i + 1)
           t == RemoveAt(d.trying, i)
           q == Len(candidate_queue) + i
<1>1. /\ candidate_queue \in Seq(Info) /\ trying_queue \in Seq(TryingUser)
      /\ Len(candidate_queue) \in Nat /\ Len(trying_queue) \in Nat
      /\ DOMAIN candidate_queue = 1..Len(candidate_queue)
  BY LenProperties DEF IInv, TypeOK
<1>2. CASE id \in quit_set
  <2>1. i = 0
    <3> SUFFICES ASSUME i # 0 PROVE FALSE
      OBVIOUS
    <3>1. i \in 1..Len(trying_queue) /\ trying_queue[i].info.id = id
      BY <1>1, TryingAtFinds
    <3> QED
      BY <1>2, <3>1 DEF Holds
  <2>2. /\ ArrangeJob(candidate_queue, trying_queue, OneJobLess, js)
        /\ UNCHANGED clientVars
    BY <2>1 DEF HandleMatch
  <2>3. Line' = Order(candidate_queue, trying_queue)
    BY <1>1, <2>2, ArrangeJobOrder
  <2> QED
    BY <2>2, <2>3 DEF Waits, Line, clientVars
<1>3. CASE id \notin quit_set
  <2>1. PICK pos : /\ Lined(candidate_queue, trying_queue, pos, 0)
                   /\ Passed(candidate_queue, trying_queue, pos, 0)
    BY DEF Safe
  <2>2. /\ i \in 1..Len(trying_queue) /\ u \in TryingUser /\ u.info.id = id
        /\ u.progress = "PROCESSING" /\ jobs[k] = JobOf(u)
    BY <1>3, ReportFinds
  <2> HIDE DEF i
  <2>3. pos[i] \in 1..Len(candidate_queue) /\ node = candidate_queue[pos[i]]
    BY <2>1, <2>2 DEF Lined
  <2>4. p = pos[i]
    BY <1>1, <2>3, PositionOf
  <2> HIDE DEF p
  <2>5. p \in 1..Len(candidate_queue) /\ node = candidate_queue[p]
    BY <2>3, <2>4
  <2>6. i # 0 /\ node \in Range(candidate_queue)
    BY <1>1, <2>2, <2>5 DEF Range
  <2>7. /\ ArrangeJob(d.candidates, t, OneJobLess, js)
        /\ matched' = matched \union {{u.info, node}}
    BY <2>6 DEF HandleMatch, i, p
  <2>8. i \in 1..Len(d.trying) /\ t \in Seq(TryingUser)
    BY <2>2, <2>5, IInvRanged, PairHolds
  <2>9. \A m \in 1..Len(trying_queue) : m < i => p < pos[m] /\ pos[m] \in 1..Len(candidate_queue)
    <3> SUFFICES ASSUME NEW m \in 1..Len(trying_queue), m < i
                 PROVE  p < pos[m] /\ pos[m] \in 1..Len(candidate_queue)
      OBVIOUS
    <3>1. m # 0 /\ i # 0
      BY <2>6
    <3> QED
      BY <2>1, <2>2, <2>4, <3>1 DEF Lined
  <2>10. p = Len(candidate_queue) => i = 1
    <3> DEFINE one == 1
    <3> SUFFICES ASSUME p = Len(candidate_queue), i # one PROVE FALSE
      OBVIOUS
    <3>1. one \in 1..Len(trying_queue) /\ one < i
      BY <1>1, <2>2
    <3> HIDE DEF one
    <3>2. p < pos[one] /\ pos[one] \in 1..Len(candidate_queue)
      BY <2>9, <3>1
    <3> QED
      BY <1>1, <3>2
  <2>11. Line' = RemoveAt(RemoveAt(Line, q), p)
    <3> DEFINE first == i + 1
               e == DropCandidate(candidate_queue, trying_queue, p, first)
    <3>1. first = i + 1 /\ e = d
      OBVIOUS
    <3> HIDE DEF first, d
    <3>2. i \in 1..Len(e.trying)
      BY <2>8, <3>1
    <3>3. Order(e.candidates, RemoveAt(e.trying, i))
            = RemoveAt(RemoveAt(Order(candidate_queue, trying_queue), q), p)
      <4>1. PairFits(candidate_queue, trying_queue, p, i, first)
        BY <1>1, <2>2, <2>5, <2>10, <3>1, <3>2 DEF PairFits
      <4> QED
        BY <4>1, PairOrder
    <3>4. Line' = Order(d.candidates, t)
      BY <2>7, <2>8, ArrangeJobOrder
    <3> QED
      BY <3>1, <3>3, <3>4 DEF Line
  <2>12. /\ Len(Line) = Len(candidate_queue) + Len(trying_queue)
         /\ \A m \in 1..Len(candidate_queue) : Line[m] = candidate_queue[m]
         /\ \A m \in 1..Len(trying_queue) :
              Line[Len(candidate_queue) + m] = trying_queue[m].info
    BY <1>1, OrderElements DEF Line
  <2>13. Line[p] = node /\ Line[q] = u.info
    BY <2>2, <2>5, <2>12
  <2>14. p \in 1..Len(Line) /\ q \in 1..Len(Line) /\ p < q
    BY <1>1, <2>2, <2>5, <2>12
  <2>15. Accepting(node, u.info)
    <3>1. jobs[k].trying_info = u.info /\ jobs[k].candidate_info = node
      BY <2>2 DEF JobOf
    <3> QED
      BY <3>1 DEF DoJob, Accepting
  <2>16. \A m \in 1..(p-1) : ~Accepting(Line[m], u.info)
    <3> SUFFICES ASSUME NEW m \in 1..(p-1) PROVE ~Accepting(Line[m], u.info)
      OBVIOUS
    <3>1. m \in 1..Len(candidate_queue) /\ m < pos[i]
      BY <1>1, <2>4, <2>5
    <3>2. ~Accept(u.info, candidate_queue[m])
      BY <2>1, <2>2, <2>6, <3>1 DEF Passed
    <3> QED
      BY <2>12, <3>1, <3>2, AcceptingIsAccept
  <2>17. \A m \in (p+1)..(q-1) : ~Accepting(node, Line[m])
    <3> SUFFICES ASSUME NEW m \in (p+1)..(q-1) PROVE ~Accepting(node, Line[m])
      OBVIOUS
    <3>1. CASE m \in 1..Len(candidate_queue)
      <4>1. p < m
        BY <1>1, <2>5
      <4>2. ~Accept(candidate_queue[m], candidate_queue[p])
        BY <2>1, <2>5, <3>1, <4>1 DEF Passed
      <4>3. ~Accept(candidate_queue[m], node) /\ Line[m] = candidate_queue[m]
        BY <2>5, <2>12, <3>1, <4>2
      <4> QED
        BY <4>3, AcceptingIsAccept
    <3>2. CASE m \notin 1..Len(candidate_queue)
      <4> DEFINE n == m - Len(candidate_queue)
      <4>1. n \in 1..Len(trying_queue) /\ n < i /\ m = Len(candidate_queue) + n
        BY <1>1, <2>2, <2>5, <3>2
      <4> HIDE DEF n
      <4>2. p < pos[n] /\ n # 0
        BY <2>9, <4>1
      <4>3. ~Accept(trying_queue[n].info, candidate_queue[p])
        BY <2>1, <2>5, <4>1, <4>2 DEF Passed
      <4>4. Line[m] = trying_queue[n].info
        BY <2>12, <4>1
      <4>5. ~Accept(Line[m], node)
        BY <2>5, <4>3, <4>4
      <4> QED
        BY <4>5, AcceptingIsAccept
    <3> QED
      BY <3>1, <3>2
  <2>18. matched' = matched \union {{Line[p], Line[q]}}
    BY <2>7, <2>13
  <2> HIDE DEF q, d, node
  <2>19. Pairs(p, q)
    BY <2>11, <2>13, <2>14, <2>15, <2>16, <2>17, <2>18 DEF Pairs
  <2> QED
    BY <2>19
<1> QED
  BY <1>2, <1>3

-----------------------------------------------------------------------------
(* The implementation.                                                     *)

\* The requests that wait or were matched are not newer than try_match_counter
\* says: the next one is not among them.
Counted(u, counter) == u \in Info /\ u.counter <= counter[u.id]

Fresh(w, m, counter) ==
  /\ \A i \in 1..Len(w) : Counted(w[i], counter)
  /\ \A pair \in m : \A u \in pair : Counted(u, counter)

ServesIInv == SafeIInv /\ Fresh(Line, matched, try_match_counter)

\* Counters only grow.
LEMMA FreshLater ==
  ASSUME NEW w, NEW m, NEW a \in [Id -> Nat], NEW b \in [Id -> Nat],
         \A id \in Id : a[id] <= b[id], Fresh(w, m, a)
  PROVE  Fresh(w, m, b)
<1>1. ASSUME NEW u, Counted(u, a) PROVE Counted(u, b)
  <2>1. u.id \in Id /\ u.counter \in Nat /\ u.counter <= a[u.id]
    BY <1>1 DEF Counted, Info
  <2> QED
    BY <1>1, <2>1 DEF Counted
<1> QED
  BY <1>1 DEF Fresh

\* One less in line.
LEMMA FreshLess ==
  ASSUME NEW w \in Seq(Info), NEW m, NEW a, NEW i \in 1..Len(w), Fresh(w, m, a)
  PROVE  Fresh(RemoveAt(w, i), m, a)
<1>1. /\ Len(w) \in Nat /\ Len(RemoveAt(w, i)) = Len(w) - 1
      /\ \A k \in 1..(Len(w) - 1) : RemoveAt(w, i)[k] = IF k < i THEN w[k] ELSE w[k+1]
  BY RemoveAtElements, LenProperties
<1>2. ASSUME NEW k \in 1..Len(RemoveAt(w, i)) PROVE Counted(RemoveAt(w, i)[k], a)
  <2>1. k \in 1..Len(w) /\ k + 1 \in 1..Len(w) /\ k \in 1..(Len(w) - 1)
    BY <1>1
  <2>2. RemoveAt(w, i)[k] \in {w[k], w[k+1]}
    BY <1>1, <2>1
  <2> QED
    BY <2>1, <2>2 DEF Fresh
<1> QED
  BY <1>2 DEF Fresh

\* The line is of requests.
LEMMA LineType ==
  ASSUME IInv
  PROVE  Line \in Seq(Info) /\ DOMAIN Line = 1..Len(Line) /\ Len(Line) \in Nat
<1>1. candidate_queue \in Seq(Info) /\ trying_queue \in Seq(TryingUser)
  BY DEF IInv, TypeOK
<1>2. Line \in Seq(Info)
  BY <1>1, OrderElements DEF Line
<1> QED
  BY <1>2, LenProperties

\* What a step has to show.
Serves ==
  /\ likes' = likes
  /\ \/ \E u : Joins(u)
     \/ \E i : Leaves(i)
     \/ \E i, j : Pairs(i, j)
     \/ Waits
  /\ Fresh(Line', matched', try_match_counter')

\* Whoever asks is new, and last in line.
LEMMA TryMatchServes ==
  ASSUME ServesIInv, NEW id \in Id, MayTry(id), TryMatch(id)
  PROVE  Serves
<1> DEFINE counter == try_match_counter[id] + 1
           u == [id |-> id, counter |-> counter]
<1>1. /\ IInv /\ Safe(candidate_queue, trying_queue, jobs, quit_set)
      /\ Fresh(Line, matched, try_match_counter)
      /\ try_match_counter \in [Id -> Nat]
  BY DEF ServesIInv, SafeIInv, PartnersIInv, IInv, TypeOK
<1>2. /\ Add(u) /\ matched' = matched /\ likes' = likes
      /\ try_match_counter' = [try_match_counter EXCEPT ![id] = counter]
  BY DEF TryMatch
<1>3. /\ u.id = id /\ u.counter = counter /\ counter \in Nat
      /\ ~(counter <= try_match_counter[id])
  BY <1>1
<1>4. u \in Info
  BY <1>3 DEF Info
<1>5. u \in User
  <2>1. counter \in 1..MaxTry
    BY <1>1, ConstantsAssumption DEF MayTry
  <2> QED
    BY <2>1 DEF User
<1>6. /\ try_match_counter' \in [Id -> Nat] /\ try_match_counter'[id] = counter
      /\ \A x \in Id : try_match_counter[x] <= try_match_counter'[x]
  BY <1>1, <1>2, <1>3
<1> HIDE DEF u, counter
<1>7. ~Counted(u, try_match_counter)
  BY <1>3 DEF Counted
<1>8. Line \in Seq(Info) /\ DOMAIN Line = 1..Len(Line) /\ Len(Line) \in Nat
  BY <1>1, LineType
<1>9. u \notin Range(Line) \union UNION matched
  BY <1>1, <1>7, <1>8 DEF Fresh, Range
<1>10. Line' = Append(Line, u)
  <2> PICK pos : Lined(candidate_queue, trying_queue, pos, 0)
    BY <1>1 DEF Safe
  <2> QED
    BY <1>1, <1>2, <1>4, AddOrder
<1>11. Fresh(Line, matched, try_match_counter')
  BY <1>1, <1>6, FreshLater
<1>12. Counted(u, try_match_counter')
  BY <1>3, <1>4, <1>6 DEF Counted
<1>13. Fresh(Append(Line, u), matched, try_match_counter')
  <2>1. /\ Len(Append(Line, u)) = Len(Line) + 1
        /\ \A k \in 1..Len(Line) : Append(Line, u)[k] = Line[k]
        /\ Append(Line, u)[Len(Line) + 1] = u
    BY <1>4, <1>8, AppendProperties
  <2>2. ASSUME NEW k \in 1..Len(Append(Line, u))
        PROVE  Counted(Append(Line, u)[k], try_match_counter')
    <3>1. k \in 1..Len(Line) \/ k = Len(Line) + 1
      BY <1>8, <2>1
    <3> QED
      BY <1>11, <1>12, <2>1, <3>1 DEF Fresh
  <2> QED
    BY <1>11, <2>2 DEF Fresh
<1>14. Joins(u)
  BY <1>2, <1>5, <1>9, <1>10 DEF Joins
<1> QED
  BY <1>2, <1>10, <1>13, <1>14 DEF Serves

\* Nothing new in line.
LEMMA StepServes ==
  ASSUME ServesIInv, likes' = likes, try_match_counter' = try_match_counter,
         (\E i : Leaves(i)) \/ (\E i, j : Pairs(i, j)) \/ Waits
  PROVE  Serves
<1>1. Fresh(Line, matched, try_match_counter) /\ Line \in Seq(Info)
  BY LineType DEF ServesIInv, SafeIInv, PartnersIInv
<1>2. CASE \E i : Leaves(i)
  <2> PICK i : Leaves(i)
    BY <1>2
  <2>1. Fresh(RemoveAt(Line, i), matched, try_match_counter)
    BY <1>1, FreshLess DEF Leaves
  <2> QED
    BY <2>1 DEF Serves, Leaves
<1>3. CASE \E i, j : Pairs(i, j)
  <2> PICK i, j : Pairs(i, j)
    BY <1>3
  <2> DEFINE less == RemoveAt(Line, j)
  <2>1. i \in 1..Len(Line) /\ j \in 1..Len(Line) /\ i < j
    BY DEF Pairs
  <2>2. Fresh(less, matched, try_match_counter)
    BY <1>1, <2>1, FreshLess
  <2>3. less \in Seq(Info) /\ i \in 1..Len(less)
    <3>1. less \in Seq(Info) /\ Len(less) = Len(Line) - 1 /\ Len(Line) \in Nat
      BY <1>1, <2>1, RemoveAtElements, LenProperties
    <3> QED
      BY <2>1, <3>1
  <2> HIDE DEF less
  <2>4. Fresh(RemoveAt(less, i), matched, try_match_counter)
    BY <2>2, <2>3, FreshLess
  <2>5. Fresh(RemoveAt(less, i), matched \union {{Line[i], Line[j]}}, try_match_counter)
    BY <1>1, <2>1, <2>4 DEF Fresh
  <2>6. /\ Line' = RemoveAt(less, i)
        /\ matched' = matched \union {{Line[i], Line[j]}}
    BY DEF Pairs, less
  <2> QED
    BY <2>5, <2>6 DEF Serves
<1>4. CASE Waits
  BY <1>1, <1>4 DEF Serves, Waits
<1> QED
  BY <1>2, <1>3, <1>4

\* Client::quit and what Client::disconnect does of it: one leaves the line.
LEMMA LeaveServes ==
  ASSUME ServesIInv, NEW id \in Id, NEW new, Leave(id, new)
  PROVE  Serves
<1>1. /\ IInv /\ Holds(candidate_queue, trying_queue, Waiting)
      /\ Safe(candidate_queue, trying_queue, jobs, quit_set)
  BY DEF ServesIInv, SafeIInv, PartnersIInv, QueuesHold
<1>2. /\ likes' = likes /\ try_match_counter' = try_match_counter /\ matched' = matched
  BY DEF Leave
<1>3. CASE UNCHANGED queueVars
  <2>1. Waits
    BY <1>2, <1>3 DEF queueVars, Waits, Line, Order, Infos
  <2> QED
    BY <1>2, <2>1, StepServes
<1>4. CASE Detach(id)
  <2> PICK pos : Lined(candidate_queue, trying_queue, pos, 0)
    BY <1>1 DEF Safe
  <2>1. \/ Line' = Line
        \/ \E k \in 1..Len(Line) : Line' = RemoveAt(Line, k)
    BY <1>1, <1>4, DetachOrder
  <2>2. (\E k : Leaves(k)) \/ Waits
    BY <1>2, <2>1 DEF Leaves, Waits
  <2> QED
    BY <1>2, <2>2, StepServes
<1> QED
  BY <1>3, <1>4 DEF Leave

\* Whatever a steady client does.
LEMMA ClientStepServes ==
  ASSUME ServesIInv, NEW id \in Id, ClientStep(id)
  PROVE  Serves
<1>1. CASE MayTry(id) /\ TryMatch(id)
  BY <1>1, TryMatchServes
<1>2. CASE Quit(id)
  BY <1>2, LeaveServes DEF Quit
<1>3. CASE Disconnect(id)
  <2>1. CASE Leave(id, "CLOSED")
    BY <2>1, LeaveServes
  <2>2. CASE UNCHANGED <<queueVars, quit_set, process, try_match_counter,
                         match_peer, matched, likes>>
    <3>1. Waits /\ likes' = likes /\ try_match_counter' = try_match_counter
      BY <2>2 DEF queueVars, Waits, Line, Order, Infos
    <3> QED
      BY <3>1, StepServes
  <2> QED
    BY <1>3, <2>1, <2>2 DEF Disconnect
<1> QED
  BY <1>1, <1>2, <1>3 DEF ClientStep

\* Whatever a worker reports: the line stays, or a pair leaves it.
LEMMA ReportServes ==
  ASSUME ServesIInv, NEW k \in DOMAIN jobs, Report(k)
  PROVE  Serves
<1> DEFINE id == jobs[k].trying_info.id
           candidate == jobs[k].candidate_info.id
           js == RemoveAt(jobs, k)
           report == [trying_id |-> id, candidate_id |-> candidate, result |-> DoJob(jobs[k])]
<1>1. /\ IInv /\ Holds(candidate_queue, trying_queue, Waiting)
      /\ Safe(candidate_queue, trying_queue, jobs, quit_set)
      /\ quit_set \intersect Waiting = {}
      /\ trying_queue \in Seq(TryingUser)
  BY DEF ServesIInv, SafeIInv, PartnersIInv, QueuesHold, IInv, TypeOK
<1>2. HandleReport(report, js) /\ likes' = likes
  BY DEF Report
<1>3. try_match_counter' = try_match_counter
  BY <1>2 DEF HandleReport, HandleMatch, clientVars
<1>4. CASE DoJob(jobs[k]) /\ HandleMatch(id, js)
  <2>1. Waits \/ \E i, j : Pairs(i, j)
    BY <1>1, <1>4, HandleMatchOrder
  <2> QED
    BY <1>2, <1>3, <2>1, StepServes
<1>5. CASE /\ ArrangeJob(candidate_queue, trying_queue, OneJobLess, js)
           /\ UNCHANGED clientVars
  <2>1. Line' = Order(candidate_queue, trying_queue)
    BY <1>1, <1>5, ArrangeJobOrder
  <2>2. Waits
    BY <1>5, <2>1 DEF Waits, Line, clientVars
  <2> QED
    BY <1>2, <1>3, <2>2, StepServes
<1>6. CASE /\ {id, candidate} \intersect quit_set = {}
           /\ MoveOn(id, js)
           /\ UNCHANGED clientVars
  <2>1. Line' = Line
    BY <1>1, <1>6, MoveOnOrder
  <2>2. Waits
    BY <1>6, <2>1 DEF Waits, clientVars
  <2> QED
    BY <1>2, <1>3, <2>2, StepServes
<1>7. /\ report.trying_id = id /\ report.candidate_id = candidate
      /\ report.result <=> DoJob(jobs[k])
  OBVIOUS
<1> HIDE DEF report, js, id, candidate
<1> QED
  BY <1>2, <1>4, <1>5, <1>6, <1>7 DEF HandleReport

\* Every step of module Matching.
LEMMA NextServes == ServesIInv /\ [Next]_vars => Serves
<1> SUFFICES ASSUME ServesIInv, [Next]_vars PROVE Serves
  OBVIOUS
<1>1. CASE \E id \in Id : ClientStep(id)
  BY <1>1, ClientStepServes
<1>2. CASE WorkerStep
  BY <1>2, ReportServes DEF WorkerStep
<1>3. CASE UNCHANGED vars
  <2>1. Waits /\ likes' = likes /\ try_match_counter' = try_match_counter
    BY <1>3 DEF vars, queueVars, clientVars, Waits, Line, Order, Infos
  <2> QED
    BY <2>1, StepServes
<1> QED
  BY <1>1, <1>2, <1>3 DEF Next

\* Each step is one of FirstCompatible's, or changes nothing there.
LEMMA ServesIsStep == IInv /\ Serves => [Promise!Next]_(Promise!vars)
<1> SUFFICES ASSUME IInv, Serves PROVE [Promise!Next]_(Promise!vars)
  OBVIOUS
<1> DEFINE w == candidate_queue \o [i \in DOMAIN trying_queue |-> trying_queue[i].info]
<1>1. w = Line /\ w' = Line'
  BY DEF Line, Order, Infos
<1>line. DOMAIN Line = 1..Len(Line)
  BY LineType
<1>2. CASE \E u : Joins(u)
  <2> PICK u : Joins(u)
    BY <1>2
  <2>1. Promise!Join(u)
    BY <1>1 DEF Promise!Join, Promise!Range, Range, Joins, Serves
  <2> QED
    BY <2>1 DEF Promise!Next, Joins, User
<1>3. CASE \E i : Leaves(i)
  <2> PICK i : Leaves(i)
    BY <1>3
  <2>1. Promise!GiveUp(i)
    BY <1>1 DEF Promise!GiveUp, Promise!RemoveAt, RemoveAt, Leaves, Serves
  <2> QED
    BY <1>1, <1>line, <2>1 DEF Promise!Next, Leaves
<1>4. CASE \E i, j : Pairs(i, j)
  <2> PICK i, j : Pairs(i, j)
    BY <1>4
  <2>1. Promise!Match(i, j)
    BY <1>1 DEF Promise!Match, Promise!FirstChoice, Promise!Compatible,
                Promise!RemoveAt, RemoveAt, Accepting, Pairs, Serves
  <2> QED
    BY <1>1, <1>line, <2>1 DEF Promise!Next, Pairs
<1>5. CASE Waits
  BY <1>1, <1>5 DEF Promise!vars, Serves, Waits
<1> QED
  BY <1>2, <1>3, <1>4, <1>5 DEF Serves

\* The invariant holds at the start, where nobody waits.
LEMMA ServesInit ==
  ASSUME Tastes \subseteq SUBSET (User \X User)
  PROVE  Init => Promise!Init /\ ServesIInv
<1> SUFFICES ASSUME Init PROVE Promise!Init /\ ServesIInv
  OBVIOUS
<1>1. Infos(<<>>) = <<>>
  BY DEF Infos
<1>2. Line = <<>>
  <2>1. Line = <<>> \o <<>>
    BY <1>1 DEF Init, Line, Order
  <2>2. <<>> \in Seq(Info)
    OBVIOUS
  <2> QED
    BY <2>1, <2>2, ConcatEmptySeq
<1>3. Fresh(Line, matched, try_match_counter)
  <2>1. Len(Line) = 0 /\ matched = {}
    BY <1>2, EmptySeq DEF Init
  <2> QED
    BY <2>1 DEF Fresh
<1>4. Promise!Init
  BY <1>2 DEF Init, Promise!Init, Line, Order, Infos, User
<1> QED
  BY <1>3, <1>4, SafeInit DEF ServesIInv

\* As long as no candidate leaves while it is being tried and nobody asks again
\* while in quit_set, the match queue serves its users as if one at a time: in
\* the order they asked, and each pair that is matched is the first that either
\* could have been in.  A taste is about the requests the clients may make.
THEOREM ImplementsFirstCompatible ==
  ASSUME SteadyClients, Tastes \subseteq SUBSET (User \X User)
  PROVE  Spec => ServesFirstCompatible
<1>1. Init => Promise!Init /\ ServesIInv
  BY ServesInit
<1>2. ServesIInv /\ [Next]_vars => ServesIInv' /\ [Promise!Next]_(Promise!vars)
  <2> SUFFICES ASSUME ServesIInv, [Next]_vars
               PROVE  ServesIInv' /\ [Promise!Next]_(Promise!vars)
    OBVIOUS
  <2>1. Serves
    BY NextServes
  <2>2. SafeIInv'
    BY SafePreserved DEF ServesIInv
  <2>3. Fresh(Line, matched, try_match_counter)'
    BY <2>1 DEF Serves, Fresh, Counted
  <2> QED
    BY <2>1, <2>2, <2>3, ServesIsStep DEF ServesIInv, SafeIInv, PartnersIInv
<1> QED
  BY <1>1, <1>2, PTL DEF Spec, ServesFirstCompatible, Promise!Spec
=============================================================================
