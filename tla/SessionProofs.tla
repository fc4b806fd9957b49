--------------------------- MODULE SessionProofs ---------------------------
(***************************************************************************)
(* Proofs about module Session, for any number of clients, requests and    *)
(* messages.                                                               *)
(***************************************************************************)
EXTENDS Session, TLAPS, SequenceTheorems, FiniteSetTheorems,
        WellFoundedInduction

-----------------------------------------------------------------------------
(* The inductive invariant.                                                *)

Message == {"try_match", "send_message", "receive_message",
            "matched", "quit", "other_side_quit"}

\* The replies that end what the client does.
EndOf == {"quit", "other_side_quit"}

\* The maps lead to each other: every client has an fd of its own.
Registered ==
  /\ \A id \in DOMAIN clients :
       /\ id < unique_id_count
       /\ clients[id].socket_fd \in DOMAIN fd_to_id
       /\ fd_to_id[clients[id].socket_fd] = id
  /\ \A fd \in DOMAIN fd_to_id :
       /\ fd_to_id[fd] \in DOMAIN clients
       /\ clients[fd_to_id[fd]].socket_fd = fd

\* main() works on one cmd_queue until it is empty, and all of its lines are
\* commands.
Served ==
  /\ serving = {} \/ \E id \in DOMAIN clients : serving = {id}
  /\ \A id \in DOMAIN clients :
       /\ id \in serving <=> clients[id].cmd_queue # <<>>
       /\ clients[id].cmd_queue \in Seq({<<cmd>> : cmd \in Command})

\* Nobody talks to a client that is not there, or has left.
Away ==
  /\ to_client \in [Id -> Seq(Message)]
  /\ \A id \in Id :
       /\ view[id] = "outside" => to_client[id] = <<>>
       /\ id \notin DOMAIN clients => view[id] = "outside" /\ to_server[id] = <<>>

\* What the connection has brought and is bringing is one command after
\* another, of which the last may be cut off if the client has closed it.
Stream(id) == clients[id].buffer \o to_server[id]

Framing(s) == \A i \in 1..Len(s) : s[i] \in IF i % 2 = 1 THEN Command ELSE {Newline}

Framed ==
  \A id \in DOMAIN clients :
    /\ Len(clients[id].buffer) <= 1
    /\ Framing(Stream(id))
    /\ view[id] # "outside" => Len(Stream(id)) % 2 = 0

\* Two clients that talk have each other's fd.
Partners ==
  \A id \in DOMAIN clients :
    clients[id].status = "TALKING" =>
      /\ clients[id].match_fd \in DOMAIN fd_to_id
      /\ OtherSide(id) # id
      /\ clients[OtherSide(id)].status = "TALKING"
      /\ clients[OtherSide(id)].match_fd = clients[id].socket_fd

\* The commands of a client that main() has not worked on: those of cmd_queue,
\* and those of its stream.
Pending(queue, stream) ==
  [i \in 1..(Len(queue) + (Len(stream) + 1) \div 2) |->
     IF i <= Len(queue) THEN queue[i][1] ELSE stream[2 * (i - Len(queue)) - 1]]

\* Of a list of commands or replies: m is in it; it asks at most once; a quit
\* comes after the request; something ends; nothing is said after the end.
Has(s, m) == \E i \in 1..Len(s) : s[i] = m

AsksOnce(p) == \A i, j \in 1..Len(p) : p[i] = "try_match" /\ p[j] = "try_match" => i = j

QuitsAfter(p) ==
  \E i, j \in 1..Len(p) : p[i] = "try_match" /\ i < j /\ p[j] = "quit"

Ended(r) == \E i \in 1..Len(r) : r[i] \in EndOf

EndsLast(r) ==
  \A i, j \in 1..Len(r) :
    r[i] \in EndOf /\ i < j => r[j] \notin EndOf \union {"matched"}

\* A client asks when the server has it idle and has told it so; it is told of
\* the end of a conversation, or a wait, once.  state is what the client takes
\* its status to be, p its pending commands and r its unread replies.
Protocol(state, status, p, r) ==
  /\ AsksOnce(p) /\ EndsLast(r)
  /\ Has(p, "try_match") =>
       /\ status = "IDLE" /\ ~Ended(r) /\ ~Has(r, "matched")
       /\ state \in {"matching", "quitting", "outside"}
       /\ state = "matching" => ~QuitsAfter(p)
       /\ state = "quitting" => QuitsAfter(p)
  /\ state = "idle" => status = "IDLE" /\ ~Ended(r) /\ ~Has(r, "matched")
  /\ ~Has(p, "try_match") /\ state \in {"matching", "talking", "quitting"} =>
       /\ status = "IDLE" <=> Ended(r)
       /\ status = "MATCHING" => ~Has(r, "matched") /\ state # "talking"
       /\ status = "TALKING" /\ state = "matching" => Has(r, "matched")
       /\ state = "quitting" /\ status # "IDLE" => Has(p, "quit")
       /\ state # "quitting" => ~Has(p, "quit")

InStepOf(id) ==
  Protocol(view[id], clients[id].status,
           Pending(clients[id].cmd_queue, Stream(id)), to_client[id])

InStep == \A id \in DOMAIN clients : InStepOf(id)

IInv ==
  /\ SessionTypeOK /\ ServerSurvives
  /\ Registered /\ Served /\ Away /\ Framed /\ Partners /\ InStep
\* A nonempty set of naturals has a least element, which Min returns.
LEMMA MinOfNats ==
  ASSUME NEW S \in SUBSET Nat, S # {}
  PROVE  /\ Min(S) \in S
         /\ \A x \in S : Min(S) <= x
<1>1. PICK x \in S : \A y \in S : ~ (<<y, x>> \in OpToRel(<, Nat))
  BY NatLessThanWellFounded, WFMin
<1>2. \A y \in S : ~ (y < x)
  BY <1>1 DEF OpToRel
<1>3. x \in S /\ \A y \in S : x <= y
  BY <1>2
<1> QED
  BY <1>3 DEF Min

\* A list without its first k elements.
After(s, k) == SubSeq(s, k + 1, Len(s))

\* What follows the first k elements, element by element.
LEMMA AfterProps ==
  ASSUME NEW S, NEW s \in Seq(S), NEW k \in 0..Len(s)
  PROVE  /\ After(s, k) \in Seq(S)
         /\ Len(After(s, k)) = Len(s) - k
         /\ \A i \in 1..(Len(s) - k) : After(s, k)[i] = s[k + i]
<1> DEFINE m == k + 1
<1>1. Len(s) \in Nat
  BY LenProperties
<1>2. m \in Int /\ Len(s) \in Int /\ \A i \in m..Len(s) : s[i] \in S
  BY <1>1, ElementOfSeq
<1>3. /\ SubSeq(s, m, Len(s)) \in Seq(S)
      /\ Len(SubSeq(s, m, Len(s))) = IF m <= Len(s) THEN Len(s) - m + 1 ELSE 0
      /\ \A i \in 1..(Len(s) - m + 1) : SubSeq(s, m, Len(s))[i] = s[m+i-1]
  <2> HIDE DEF m
  <2> QED
    BY <1>2, SubSeqProperties
<1>4. \A i \in 1..(Len(s) - k) : i \in 1..(Len(s) - m + 1) /\ m+i-1 = k+i
  BY <1>1
<1> QED
  BY <1>1, <1>3, <1>4 DEF After

\* The first k elements, element by element.
LEMMA PrefixProps ==
  ASSUME NEW S, NEW s \in Seq(S), NEW k \in 0..Len(s)
  PROVE  /\ SubSeq(s, 1, k) \in Seq(S)
         /\ Len(SubSeq(s, 1, k)) = k
         /\ \A i \in 1..k : SubSeq(s, 1, k)[i] = s[i]
<1>1. Len(s) \in Nat
  BY LenProperties
<1> DEFINE one == 1
<1>2. one \in Int /\ k \in Int /\ \A i \in one..k : s[i] \in S
  BY <1>1, ElementOfSeq
<1>3. /\ SubSeq(s, one, k) \in Seq(S)
      /\ Len(SubSeq(s, one, k)) = IF one <= k THEN k - one + 1 ELSE 0
      /\ \A i \in 1..(k - one + 1) : SubSeq(s, one, k)[i] = s[one+i-1]
  <2> HIDE DEF one
  <2> QED
    BY <1>2, SubSeqProperties
<1>4. \A i \in 1..k : i \in 1..(k - one + 1) /\ one+i-1 = i
  BY <1>1
<1> QED
  BY <1>1, <1>3, <1>4

\* The first line of a stream of commands, and what follows it.
LEMMA FirstLine ==
  ASSUME NEW s \in Seq(Unit), Framing(s), Len(s) >= 2
  PROVE  /\ Line(s) = <<s[1]>>
         /\ Rest(s) = After(s, 2)
<1>1. Len(s) \in Nat
  BY LenProperties
<1> DEFINE I == {i \in 1..Len(s) : s[i] = Newline}
<1>2. I \in SUBSET Nat /\ 2 \in I /\ 1 \notin I
  <2>1. s[1] # Newline /\ s[2] = Newline
    BY <1>1 DEF Framing, Command, Newline
  <2> QED
    BY <1>1, <2>1
<1>3. I # {} /\ Min(I) = 2
  <2>1. Min(I) \in I /\ Min(I) <= 2
    <3> HIDE DEF I
    <3> QED
      BY <1>2, MinOfNats
  <2> QED
    BY <1>2, <2>1
<1>4. Line(s) = SubSeq(s, 1, Min(I) - 1) /\ Rest(s) = After(s, Min(I))
  BY <1>3 DEF After, Line, Rest, SelectInSeq
<1>5. SubSeq(s, 1, 1) = <<s[1]>>
  <2> DEFINE one == 1
             front == SubSeq(s, 1, one)
  <2>1. /\ front \in Seq(Unit) /\ Len(front) = one
        /\ \A i \in 1..one : front[i] = s[i]
    <3>1. one \in 0..Len(s)
      BY <1>1
    <3> HIDE DEF one
    <3> QED
      BY <3>1, PrefixProps
  <2> HIDE DEF front
  <2>2. front = <<s[1]>>
    BY <2>1
  <2> QED
    BY <2>2 DEF front
<1> HIDE DEF I
<1> QED
  BY <1>3, <1>4, <1>5

\* To drop k elements and then l is to drop k + l.
LEMMA AfterAfter ==
  ASSUME NEW S, NEW s \in Seq(S), NEW k \in 0..Len(s), NEW l \in 0..(Len(s) - k)
  PROVE  After(After(s, k), l) = After(s, k + l)
<1> DEFINE kl == k + l
           t == After(s, k)
           u == After(t, l)
           v == After(s, kl)
<1>1. /\ t \in Seq(S) /\ Len(t) = Len(s) - k
      /\ \A i \in 1..(Len(s) - k) : t[i] = s[k + i]
  BY AfterProps
<1>2. Len(s) \in Nat
  BY LenProperties
<1>3. l \in 0..Len(t) /\ kl \in 0..Len(s)
  BY <1>1, <1>2
<1>4. /\ u \in Seq(S) /\ Len(u) = Len(t) - l
      /\ \A i \in 1..(Len(t) - l) : u[i] = t[l + i]
  <2>1. t \in Seq(S) /\ l \in 0..Len(t)
    BY <1>1, <1>3
  <2> HIDE DEF t
  <2> QED
    BY <2>1, AfterProps
<1>5. /\ v \in Seq(S) /\ Len(v) = Len(s) - kl
      /\ \A i \in 1..(Len(s) - kl) : v[i] = s[kl + i]
  <2> HIDE DEF kl
  <2> QED
    BY <1>3, AfterProps
<1>6. \A i \in 1..Len(u) : u[i] = v[i]
  <2> SUFFICES ASSUME NEW i \in 1..Len(u) PROVE u[i] = v[i]
    OBVIOUS
  <2>1. i \in 1..(Len(t) - l) /\ l + i \in 1..(Len(s) - k) /\ i \in 1..(Len(s) - kl)
        /\ k + (l + i) = kl + i
    BY <1>1, <1>2, <1>4
  <2> HIDE DEF t, u, v, kl
  <2> QED
    BY <1>1, <1>4, <1>5, <2>1
<1>7. Len(u) = Len(v)
  BY <1>1, <1>2, <1>4, <1>5
<1> HIDE DEF u, v
<1>8. u = v
  BY <1>4, <1>5, <1>6, <1>7, SeqEqual
<1> QED
  BY <1>8 DEF u, v

\* As many lines as newlines have come.
LEMMA NewlinesCounted ==
  ASSUME NEW b \in Seq(Unit), NEW piece \in Seq(Unit), Len(b) <= 1, Framing(b \o piece)
  PROVE  Cardinality({i \in DOMAIN piece : piece[i] = Newline}) = Len(b \o piece) \div 2
<1> DEFINE s == b \o piece
           I == {i \in DOMAIN piece : piece[i] = Newline}
           n == Len(s) \div 2
<1>1. /\ Len(s) = Len(b) + Len(piece) /\ Len(b) \in 0..1 /\ Len(piece) \in Nat
      /\ DOMAIN piece = 1..Len(piece)
      /\ \A i \in 1..Len(piece) : piece[i] = s[Len(b) + i]
  <2>1. /\ Len(s) = Len(b) + Len(piece)
        /\ \A i \in 1..(Len(b) + Len(piece)) :
             s[i] = IF i <= Len(b) THEN b[i] ELSE piece[i - Len(b)]
    BY ConcatProperties
  <2>2. Len(b) \in Nat /\ Len(piece) \in Nat /\ DOMAIN piece = 1..Len(piece)
    BY LenProperties
  <2> HIDE DEF s
  <2>3. \A i \in 1..Len(piece) : piece[i] = s[Len(b) + i]
    <3> TAKE i \in 1..Len(piece)
    <3>1. /\ Len(b) + i \in 1..(Len(b) + Len(piece)) /\ ~(Len(b) + i <= Len(b))
          /\ (Len(b) + i) - Len(b) = i
      BY <2>2
    <3> QED
      BY <2>1, <3>1
  <2>4. Len(b) \in 0..1
    <3>1. \A k \in Nat : k <= 1 => k \in 0..1
      OBVIOUS
    <3> QED
      BY <2>2, <3>1, Zenon
  <2> QED
    BY <2>1, <2>2, <2>3, <2>4, Zenon
<1>2. n \in Nat /\ 2 * n <= Len(s) /\ Len(s) <= 2 * n + 1
  BY <1>1
<1>3. \A i \in 1..Len(piece) : piece[i] = Newline <=> (Len(b) + i) % 2 = 0
  <2> TAKE i \in 1..Len(piece)
  <2>1. Len(b) + i \in 1..Len(s) /\ piece[i] = s[Len(b) + i]
    BY <1>1
  <2>2. (Len(b) + i) % 2 \in {0, 1}
    BY <1>1
  <2>3. Newline \notin Command
    BY DEF Command, Newline
  <2>4. s[Len(b) + i] \in IF (Len(b) + i) % 2 = 1 THEN Command ELSE {Newline}
    BY <2>1 DEF Framing
  <2> HIDE DEF s
  <2> QED
    BY <2>1, <2>2, <2>3, <2>4
<1> DEFINE f == [j \in 1..n |-> 2 * j - Len(b)]
<1>4. f \in Bijection(1..n, I)
  <2>1. \A j \in 1..n : 2 * j - Len(b) \in 1..Len(piece) /\ (Len(b) + (2 * j - Len(b))) % 2 = 0
    BY <1>1, <1>2
  <2>2. f \in [1..n -> I]
    BY <1>1, <1>3, <2>1
  <2>3. ASSUME NEW i \in I PROVE \E j \in 1..n : f[j] = i
    <3> DEFINE j == (Len(b) + i) \div 2
    <3>1. i \in 1..Len(piece) /\ (Len(b) + i) % 2 = 0
      BY <1>1, <1>3
    <3>2. \A k \in Nat : k % 2 = 0 => k \div 2 \in Nat /\ 2 * (k \div 2) = k
      OBVIOUS
    <3>3. j \in Nat /\ 2 * j = Len(b) + i
      <4>1. Len(b) + i \in Nat
        BY <1>1, <3>1
      <4> QED
        BY <3>1, <3>2, <4>1
    <3> HIDE DEF j, s, n
    <3>4. j \in 1..n
      BY <1>1, <1>2, <3>1, <3>3
    <3>5. f[j] = i
      BY <1>1, <3>1, <3>3, <3>4
    <3> QED
      BY <3>4, <3>5
  <2>4. \A i, j \in 1..n : f[i] = f[j] => i = j
    BY <1>1
  <2> QED
    BY <2>2, <2>3, <2>4 DEF Bijection, Injection, Surjection, IsInjective
<1>5. Cardinality(1..n) = n /\ IsFiniteSet(1..n)
  BY <1>2, FS_Interval
<1>6. Cardinality(I) = Cardinality(1..n)
  <2> HIDE DEF f, I, n
  <2> QED
    BY <1>4, <1>5, FS_Bijection DEF ExistsBijection
<1> QED
  BY <1>5, <1>6

\* left of Lines.
RestsOf(left, s, n) == left = [i \in 0..n |-> IF i = 0 THEN s ELSE Rest(left[i-1])]

\* The recursion has a solution if one is given.
LEMMA LinesByRest ==
  ASSUME NEW s, NEW piece, NEW n,
         n = Cardinality({i \in DOMAIN piece : piece[i] = Newline}),
         NEW g, RestsOf(g, s, n)
  PROVE  \E left : /\ RestsOf(left, s, n)
                   /\ Lines(s, piece) = <<[i \in 1..n |-> Line(left[i-1])], left[n]>>
<1> DEFINE left[i \in 0..n] == IF i = 0 THEN s ELSE Rest(left[i-1])
<1>1. RestsOf(left, s, n)
  BY Zenon DEF left, RestsOf
<1>2. Lines(s, piece) = <<[i \in 1..n |-> Line(left[i-1])], left[n]>>
  BY DEF Lines
<1> HIDE DEF left
<1> QED
  BY <1>1, <1>2

\* The first n commands of a stream, and what follows them.
CutLines(s, n) == <<[i \in 1..n |-> <<s[2*i-1]>>], After(s, 2 * n)>>

\* getline takes the commands of a stream one by one.
LEMMA LinesOf ==
  ASSUME NEW b \in Seq(Unit), NEW piece \in Seq(Unit), Len(b) <= 1, Framing(b \o piece)
  PROVE  Lines(b \o piece, piece) = CutLines(b \o piece, Len(b \o piece) \div 2)
<1> DEFINE s == b \o piece
           n == Len(s) \div 2
           g == [i \in 0..n |-> After(s, 2 * i)]
<1>1. s \in Seq(Unit) /\ Framing(s) /\ Len(s) \in Nat
  BY ConcatProperties, LenProperties
<1>2. n \in Nat /\ 2 * n <= Len(s)
  BY <1>1
<1>3. n = Cardinality({i \in DOMAIN piece : piece[i] = Newline})
  BY NewlinesCounted
<1> HIDE DEF s, n
<1>4. ASSUME NEW i \in 1..n
      PROVE  Line(g[i-1]) = <<s[2*i-1]>> /\ Rest(g[i-1]) = g[i]
  <2> DEFINE k == 2 * (i-1)
             t == After(s, k)
  <2>1. k \in 0..Len(s) /\ Len(s) - k >= 2 /\ i-1 \in 0..n /\ k \in Nat
    BY <1>1, <1>2
  <2>2. g[i-1] = t
    BY <2>1
  <2>3. /\ t \in Seq(Unit) /\ Len(t) = Len(s) - k
        /\ \A j \in 1..(Len(s) - k) : t[j] = s[k + j]
    <3> HIDE DEF k
    <3> QED
      BY <1>1, <2>1, AfterProps
  <2>4. Framing(t)
    <3> SUFFICES ASSUME NEW j \in 1..Len(t)
                 PROVE  t[j] \in IF j % 2 = 1 THEN Command ELSE {Newline}
      BY DEF Framing
    <3>1. k + j \in 1..Len(s) /\ t[j] = s[k + j]
      BY <1>1, <2>1, <2>3
    <3>2. (k + j) % 2 = j % 2
      BY <2>1, <2>3, <1>1
    <3> HIDE DEF k, t
    <3> QED
      BY <1>1, <3>1, <3>2 DEF Framing
  <2>5. Line(t) = <<t[1]>> /\ Rest(t) = After(t, 2)
    <3> HIDE DEF t, k
    <3> QED
      BY <2>1, <2>3, <2>4, FirstLine
  <2>6. t[1] = s[k + 1]
    <3> HIDE DEF t, k
    <3>1. 1 \in 1..(Len(s) - k)
      BY <1>1, <2>1
    <3> QED
      BY <2>3, <3>1
  <2>7. After(t, 2) = After(s, k + 2)
    <3> DEFINE l == 2
    <3>1. l \in 0..(Len(s) - k)
      BY <1>1, <2>1
    <3> HIDE DEF l, k
    <3>2. After(After(s, k), l) = After(s, k + l)
      BY <1>1, <2>1, <3>1, AfterAfter
    <3> QED
      BY <3>2 DEF l
  <2>8. k + 1 = 2*i-1 /\ k + 2 = 2 * i
    OBVIOUS
  <2>9. g[i] = After(s, k + 2)
    BY <1>2, <2>8
  <2> HIDE DEF t, k, g
  <2> QED
    BY <2>2, <2>5, <2>6, <2>7, <2>8, <2>9
<1>5. g[0] = s
  <2>1. SubSeq(s, 1, Len(s)) = s
    BY <1>1, SubSeqFull
  <2> QED
    BY <1>2, <2>1 DEF After
<1>6. RestsOf(g, s, n)
  <2>1. \A i \in 0..n : g[i] = IF i = 0 THEN s ELSE Rest(g[i-1])
    <3>1. \A i \in 0..n : i = 0 \/ i \in 1..n
      BY <1>2
    <3> HIDE DEF g
    <3> QED
      BY <1>4, <1>5, <3>1
  <2>2. g = [i \in 0..n |-> g[i]]
    OBVIOUS
  <2> HIDE DEF g
  <2> QED
    BY <2>1, <2>2 DEF RestsOf
<1> HIDE DEF g
<1>7. PICK left :
        /\ RestsOf(left, s, n)
        /\ Lines(s, piece) = <<[i \in 1..n |-> Line(left[i-1])], left[n]>>
  BY <1>3, <1>6, LinesByRest
<1>8. \A i \in 0..n : left[i] = IF i = 0 THEN s ELSE Rest(left[i-1])
  BY <1>7 DEF RestsOf
<1>9. \A i \in 0..n : left[i] = g[i]
  <2> DEFINE D == {i \in 0..n : left[i] # g[i]}
  <2>1. SUFFICES ASSUME D # {} PROVE FALSE
    OBVIOUS
  <2>2. D \in SUBSET Nat
    BY <1>2
  <2>3. PICK d \in D : \A x \in D : d <= x
    <3> HIDE DEF D
    <3> QED
      BY <2>1, <2>2, MinOfNats
  <2>4. d # 0
    BY <1>2, <1>5, <1>8, <2>3
  <2>5. d \in 1..n /\ d-1 \in 0..n
    BY <1>2, <2>3, <2>4
  <2>6. left[d-1] = g[d-1]
    BY <2>3, <2>5
  <2>7. left[d] = Rest(left[d-1])
    BY <1>8, <2>4, <2>5
  <2> QED
    BY <1>4, <2>3, <2>5, <2>6, <2>7
<1>10. \A i \in 1..n : Line(left[i-1]) = <<s[2*i-1]>>
  <2>1. \A i \in 1..n : i-1 \in 0..n
    BY <1>2
  <2> QED
    BY <1>4, <1>9, <2>1
<1>11. left[n] = After(s, 2 * n)
  BY <1>2, <1>9 DEF g
<1>12. Lines(s, piece) = <<[i \in 1..n |-> <<s[2*i-1]>>], After(s, 2 * n)>>
  BY <1>7, <1>10, <1>11
<1> QED
  BY <1>12 DEF CutLines, s, n

-----------------------------------------------------------------------------
(* What becomes of the pending commands.                                   *)

Queued == Seq({<<cmd>> : cmd \in Command})

\* Pending commands are commands, and where each comes from.
LEMMA PendingProps ==
  ASSUME NEW q \in Queued, NEW s \in Seq(Unit), Framing(s)
  PROVE  /\ Pending(q, s) \in Seq(Command)
         /\ Len(Pending(q, s)) = Len(q) + (Len(s) + 1) \div 2
         /\ \A i \in 1..(Len(q) + (Len(s) + 1) \div 2) :
              Pending(q, s)[i] = IF i <= Len(q) THEN q[i][1] ELSE s[2 * (i - Len(q)) - 1]
<1> DEFINE n == Len(q) + (Len(s) + 1) \div 2
           p == Pending(q, s)
<1>1. Len(q) \in Nat /\ Len(s) \in Nat /\ n \in Nat
  BY LenProperties DEF Queued
<1>2. p = [i \in 1..n |-> IF i <= Len(q) THEN q[i][1] ELSE s[2 * (i - Len(q)) - 1]]
  BY DEF Pending
<1>3. ASSUME NEW i \in 1..n
      PROVE  (IF i <= Len(q) THEN q[i][1] ELSE s[2 * (i - Len(q)) - 1]) \in Command
  <2>1. CASE i <= Len(q)
    <3>1. q[i] \in {<<cmd>> : cmd \in Command}
      BY <1>1, <2>1, ElementOfSeq DEF Queued
    <3> QED
      BY <2>1, <3>1
  <2>2. CASE ~(i <= Len(q))
    <3> DEFINE k == 2 * (i - Len(q)) - 1
    <3>1. k \in 1..Len(s) /\ k % 2 = 1
      BY <1>1, <2>2
    <3> HIDE DEF k
    <3> QED
      BY <2>2, <3>1 DEF Framing, k
  <2> QED
    BY <2>1, <2>2
<1>4. p \in [1..n -> Command]
  <2> HIDE DEF n, p
  <2> QED
    BY <1>2, <1>3
<1> HIDE DEF n, p
<1>5. p \in Seq(Command) /\ Len(p) = n
  BY <1>1, <1>4, SeqDef, LenProperties
<1> QED
  BY <1>2, <1>5 DEF n, p

\* No queue and no stream: no pending command.
LEMMA NothingPending ==
  Pending(<<>>, <<>>) = <<>>
<1> DEFINE e == <<>>
           p == Pending(e, e)
<1>1. e \in Queued /\ e \in Seq(Unit) /\ Framing(e) /\ Len(e) = 0
  BY DEF Queued, Framing
<1> HIDE DEF e
<1>2. p \in Seq(Command) /\ Len(p) = Len(e) + (Len(e) + 1) \div 2
  BY <1>1, PendingProps
<1>3. Len(p) = 0
  BY <1>1, <1>2
<1> HIDE DEF p
<1>4. p = <<>>
  BY <1>2, <1>3, EmptySeq
<1> QED
  BY <1>4 DEF p, e

\* main() takes the first line.
LEMMA PendingTaken ==
  ASSUME NEW q \in Queued, NEW s \in Seq(Unit), Framing(s), q # <<>>
  PROVE  /\ Pending(q, s) # <<>>
         /\ Head(Pending(q, s)) = Head(q)[1]
         /\ Pending(Tail(q), s) = Tail(Pending(q, s))
         /\ Tail(q) \in Queued
<1> DEFINE p == Pending(q, s)
           t == Tail(q)
           u == Pending(t, s)
           n == (Len(s) + 1) \div 2
<1>1. Len(q) \in Nat \ {0} /\ Len(s) \in Nat /\ n \in Nat
  BY LenProperties, EmptySeq DEF Queued
<1>2. /\ t \in Queued /\ Len(t) = Len(q) - 1
      /\ \A i \in 1..Len(t) : t[i] = q[i+1]
  BY HeadTailProperties DEF Queued
<1> HIDE DEF t
<1>3. /\ p \in Seq(Command) /\ Len(p) = Len(q) + n
      /\ \A i \in 1..(Len(q) + n) :
           p[i] = IF i <= Len(q) THEN q[i][1] ELSE s[2 * (i - Len(q)) - 1]
  BY PendingProps
<1>4. /\ u \in Seq(Command) /\ Len(u) = Len(t) + n
      /\ \A i \in 1..(Len(t) + n) :
           u[i] = IF i <= Len(t) THEN t[i][1] ELSE s[2 * (i - Len(t)) - 1]
  BY <1>2, PendingProps
<1> HIDE DEF p, u, n
<1>5. p # <<>> /\ Head(p) = p[1]
  BY <1>1, <1>3
<1>6. /\ Tail(p) \in Seq(Command) /\ Len(Tail(p)) = Len(p) - 1
      /\ \A i \in 1..Len(Tail(p)) : Tail(p)[i] = p[i+1]
  BY <1>3, <1>5, HeadTailProperties
<1>7. Len(u) = Len(Tail(p))
  BY <1>1, <1>2, <1>3, <1>4, <1>6
<1>8. \A i \in 1..Len(u) : u[i] = Tail(p)[i]
  <2> SUFFICES ASSUME NEW i \in 1..Len(u) PROVE u[i] = Tail(p)[i]
    OBVIOUS
  <2>1. /\ i \in 1..(Len(t) + n) /\ i + 1 \in 1..(Len(q) + n)
        /\ i <= Len(t) <=> i + 1 <= Len(q)
        /\ i - Len(t) = (i + 1) - Len(q)
    BY <1>1, <1>2, <1>4
  <2>2. Tail(p)[i] = p[i+1]
    BY <1>6, <1>7
  <2>3. i <= Len(t) => t[i] = q[i+1]
    BY <1>1, <1>2, <2>1
  <2> QED
    BY <1>3, <1>4, <2>1, <2>2, <2>3
<1>9. u = Tail(p)
  BY <1>4, <1>6, <1>7, <1>8, SeqEqual
<1>10. Head(p) = Head(q)[1]
  <2>1. p[1] = q[1][1]
    BY <1>1, <1>3
  <2> QED
    BY <1>1, <1>5, <2>1 DEF Queued
<1> QED
  BY <1>2, <1>5, <1>9, <1>10 DEF p, u, t

\* A client sends one more.
LEMMA PendingSent ==
  ASSUME NEW q \in Queued, NEW s \in Seq(Unit), Framing(s), Len(s) % 2 = 0,
         NEW cmd \in Command
  PROVE  /\ s \o <<cmd, Newline>> \in Seq(Unit)
         /\ Framing(s \o <<cmd, Newline>>)
         /\ Len(s \o <<cmd, Newline>>) % 2 = 0
         /\ Pending(q, s \o <<cmd, Newline>>) = Append(Pending(q, s), cmd)
<1> DEFINE two == <<cmd, Newline>>
           t == s \o two
           p == Pending(q, s)
           u == Pending(q, t)
<1>1. two \in Seq(Unit) /\ Len(two) = 2 /\ two[1] = cmd /\ two[2] = Newline
  BY DEF Unit
<1> HIDE DEF two
<1>2. Len(s) \in Nat /\ Len(q) \in Nat
  BY LenProperties DEF Queued
<1>3. /\ t \in Seq(Unit) /\ Len(t) = Len(s) + 2
      /\ \A i \in 1..(Len(s) + 2) : t[i] = IF i <= Len(s) THEN s[i] ELSE two[i - Len(s)]
  <2>1. /\ t \in Seq(Unit) /\ Len(t) = Len(s) + Len(two)
        /\ \A i \in 1..(Len(s) + Len(two)) :
             t[i] = IF i <= Len(s) THEN s[i] ELSE two[i - Len(s)]
    BY <1>1, ConcatProperties
  <2> HIDE DEF t
  <2> QED
    BY <1>1, <2>1
<1> HIDE DEF t
<1>4. Len(t) % 2 = 0
  BY <1>2, <1>3
<1>5. t[Len(s) + 1] = cmd /\ t[Len(s) + 2] = Newline
  BY <1>1, <1>2, <1>3
<1>6. Framing(t)
  <2> SUFFICES ASSUME NEW i \in 1..Len(t)
               PROVE  t[i] \in IF i % 2 = 1 THEN Command ELSE {Newline}
    BY DEF Framing
  <2>1. i \in 1..Len(s) \/ i = Len(s) + 1 \/ i = Len(s) + 2
    BY <1>2, <1>3
  <2>2. CASE i \in 1..Len(s)
    <3>1. t[i] = s[i]
      BY <1>2, <1>3, <2>2
    <3> QED
      BY <2>2, <3>1 DEF Framing
  <2>3. CASE i = Len(s) + 1
    <3>1. i % 2 = 1
      BY <1>2, <2>3
    <3> QED
      BY <1>5, <2>3, <3>1
  <2>4. CASE i = Len(s) + 2
    <3>1. i % 2 = 0
      BY <1>2, <2>4
    <3> QED
      BY <1>5, <2>4, <3>1
  <2> QED
    BY <2>1, <2>2, <2>3, <2>4
<1> DEFINE n == (Len(s) + 1) \div 2
           k == (Len(t) + 1) \div 2
<1>7. n \in Nat /\ k = n + 1 /\ 2 * n = Len(s)
  BY <1>2, <1>3
<1>8. /\ p \in Seq(Command) /\ Len(p) = Len(q) + n
      /\ \A i \in 1..(Len(q) + n) :
           p[i] = IF i <= Len(q) THEN q[i][1] ELSE s[2 * (i - Len(q)) - 1]
  BY PendingProps
<1>9. /\ u \in Seq(Command) /\ Len(u) = Len(q) + k
      /\ \A i \in 1..(Len(q) + k) :
           u[i] = IF i <= Len(q) THEN q[i][1] ELSE t[2 * (i - Len(q)) - 1]
  BY <1>3, <1>6, PendingProps
<1> HIDE DEF n, k, p, u
<1> DEFINE a == Append(p, cmd)
<1>10. /\ a \in Seq(Command) /\ Len(a) = Len(p) + 1
       /\ \A i \in 1..Len(p) : a[i] = p[i]
       /\ a[Len(p) + 1] = cmd
  BY <1>8, AppendProperties
<1> HIDE DEF a
<1>11. \A i \in 1..Len(u) : u[i] = a[i]
  <2> SUFFICES ASSUME NEW i \in 1..Len(u) PROVE u[i] = a[i]
    OBVIOUS
  <2>1. i \in 1..(Len(q) + n) \/ i = Len(q) + n + 1
    <3>1. Len(u) = (Len(q) + n) + 1 /\ Len(q) + n \in Nat
      BY <1>2, <1>7, <1>9
    <3>2. \A c \in Nat : \A x \in 1..(c + 1) : x \in 1..c \/ x = c + 1
      OBVIOUS
    <3> QED
      BY <3>1, <3>2, Zenon
  <2>2. CASE i \in 1..(Len(q) + n)
    <3>1. a[i] = p[i] /\ i \in 1..(Len(q) + k)
      BY <1>2, <1>7, <1>8, <1>10, <2>2
    <3>2. ~(i <= Len(q)) => t[2 * (i - Len(q)) - 1] = s[2 * (i - Len(q)) - 1]
      <4> SUFFICES ASSUME ~(i <= Len(q))
                   PROVE  t[2 * (i - Len(q)) - 1] = s[2 * (i - Len(q)) - 1]
        OBVIOUS
      <4> DEFINE j == 2 * (i - Len(q)) - 1
      <4>1. j \in 1..Len(s)
        BY <1>2, <1>7, <2>2
      <4> HIDE DEF j
      <4>2. t[j] = s[j]
        BY <1>2, <1>3, <4>1
      <4> QED
        BY <4>2 DEF j
    <3> QED
      BY <1>8, <1>9, <2>2, <3>1, <3>2
  <2>3. CASE i = Len(q) + n + 1
    <3>1. ~(i <= Len(q)) /\ 2 * (i - Len(q)) - 1 = Len(s) + 1 /\ i = Len(p) + 1
      BY <1>2, <1>7, <1>8, <2>3
    <3> QED
      BY <1>5, <1>9, <1>10, <3>1
  <2> QED
    BY <2>1, <2>2, <2>3
<1>12. Len(u) = Len(a)
  BY <1>2, <1>7, <1>8, <1>9, <1>10
<1>13. u = a
  BY <1>9, <1>10, <1>11, <1>12, SeqEqual
<1> QED
  BY <1>3, <1>4, <1>6, <1>13 DEF t, two, p, u, a

\* recv() returns a piece: what was a stream is a queue and a stream.
LEMMA PendingCut ==
  ASSUME NEW s \in Seq(Unit), Framing(s), NEW n \in Nat, 2 * n <= Len(s),
         NEW q, q = [i \in 1..n |-> <<s[2*i-1]>>]
  PROVE  /\ q \in Queued /\ Len(q) = n
         /\ Framing(After(s, 2 * n))
         /\ Pending(q, After(s, 2 * n)) = Pending(<<>>, s)
<1> DEFINE m == 2 * n
           t == After(s, m)
           e == <<>>
<1>1. Len(s) \in Nat
  BY LenProperties
<1>2. m \in 0..Len(s)
  BY <1>1
<1>3. /\ t \in Seq(Unit) /\ Len(t) = Len(s) - m
      /\ \A i \in 1..(Len(s) - m) : t[i] = s[m + i]
  <2> HIDE DEF m
  <2> QED
    BY <1>2, AfterProps
<1> HIDE DEF t
<1>4. Framing(t)
  <2> SUFFICES ASSUME NEW i \in 1..Len(t)
               PROVE  t[i] \in IF i % 2 = 1 THEN Command ELSE {Newline}
    BY DEF Framing
  <2>1. m + i \in 1..Len(s) /\ t[i] = s[m + i]
    BY <1>1, <1>2, <1>3
  <2>2. (m + i) % 2 = i % 2
    BY <1>1, <1>3
  <2> HIDE DEF m
  <2> QED
    BY <2>1, <2>2 DEF Framing
<1>5. q \in Queued /\ Len(q) = n
  <2>1. \A i \in 1..n : s[2*i-1] \in Command
    <3> TAKE i \in 1..n
    <3> DEFINE j == 2*i-1
    <3>1. j \in 1..Len(s) /\ j % 2 = 1
      BY <1>1
    <3> HIDE DEF j
    <3>2. s[j] \in Command
      BY <3>1 DEF Framing
    <3> QED
      BY <3>2 DEF j
  <2>2. q \in [1..n -> {<<cmd>> : cmd \in Command}]
    <3>1. \A i \in 1..n : <<s[2*i-1]>> \in {<<cmd>> : cmd \in Command}
      BY <2>1
    <3> QED
      BY <3>1
  <2>3. q \in Queued
    BY <2>2, SeqDef DEF Queued
  <2> QED
    BY <2>2, <2>3, LenProperties DEF Queued
<1> DEFINE k == (Len(t) + 1) \div 2
           l == (Len(s) + 1) \div 2
           u == Pending(q, t)
           p == Pending(e, s)
<1>6. k \in Nat /\ l = n + k
  <2>1. \A x \in Nat : (x + 1) \div 2 \in Nat
                       /\ ((2 * n + x) + 1) \div 2 = n + (x + 1) \div 2
    OBVIOUS
  <2>2. Len(t) \in Nat /\ Len(s) = 2 * n + Len(t)
    BY <1>1, <1>2, <1>3
  <2> QED
    BY <2>1, <2>2
<1>7. e \in Queued /\ Len(e) = 0
  BY EmptySeq DEF Queued
<1> HIDE DEF e
<1>8. /\ u \in Seq(Command) /\ Len(u) = Len(q) + k
      /\ \A i \in 1..(Len(q) + k) :
           u[i] = IF i <= Len(q) THEN q[i][1] ELSE t[2 * (i - Len(q)) - 1]
  BY <1>3, <1>4, <1>5, PendingProps
<1>9. /\ p \in Seq(Command) /\ Len(p) = Len(e) + l
      /\ \A i \in 1..(Len(e) + l) :
           p[i] = IF i <= Len(e) THEN e[i][1] ELSE s[2 * (i - Len(e)) - 1]
  BY <1>7, PendingProps
<1> HIDE DEF k, l, u, p
<1>10. \A i \in 1..Len(u) : u[i] = p[i]
  <2> SUFFICES ASSUME NEW i \in 1..Len(u) PROVE u[i] = p[i]
    OBVIOUS
  <2>1. i \in 1..(n + k)
    BY <1>5, <1>8
  <2>2. p[i] = s[2 * i - 1]
    <3>1. i \in 1..(Len(e) + l) /\ ~(i <= Len(e)) /\ i - Len(e) = i
      BY <1>6, <1>7, <2>1
    <3> QED
      BY <1>9, <3>1
  <2>3. CASE i <= n
    BY <1>5, <1>8, <2>1, <2>2, <2>3
  <2>4. CASE ~(i <= n)
    <3> DEFINE j == 2 * (i - n) - 1
    <3>1. j \in 1..Len(t) /\ m + j = 2 * i - 1
      BY <1>1, <1>3, <1>6, <2>1, <2>4 DEF k
    <3> HIDE DEF j, m
    <3>2. t[j] = s[m + j]
      BY <1>3, <3>1
    <3>3. u[i] = t[j]
      BY <1>5, <1>8, <2>1, <2>4 DEF j
    <3> QED
      BY <2>2, <3>1, <3>2, <3>3
  <2> QED
    BY <2>3, <2>4
<1>11. Len(u) = Len(p)
  BY <1>5, <1>6, <1>7, <1>8, <1>9
<1>12. u = p
  BY <1>8, <1>9, <1>10, <1>11, SeqEqual
<1> QED
  BY <1>4, <1>5, <1>12 DEF t, u, p, e

\* The connection is reset: what recv() has not returned is lost.
LEMMA PendingLost ==
  ASSUME NEW q \in Queued, NEW b \in Seq(Unit), NEW x \in Seq(Unit), Framing(b \o x)
  PROVE  /\ Framing(b)
         /\ Len(Pending(q, b)) <= Len(Pending(q, b \o x))
         /\ \A i \in 1..Len(Pending(q, b)) : Pending(q, b)[i] = Pending(q, b \o x)[i]
<1> DEFINE s == b \o x
           p == Pending(q, s)
           u == Pending(q, b)
           n == (Len(s) + 1) \div 2
           k == (Len(b) + 1) \div 2
<1>1. Len(q) \in Nat /\ Len(b) \in Nat /\ Len(x) \in Nat
  BY LenProperties DEF Queued
<1>2. /\ s \in Seq(Unit) /\ Len(s) = Len(b) + Len(x)
      /\ \A i \in 1..(Len(b) + Len(x)) : s[i] = IF i <= Len(b) THEN b[i] ELSE x[i - Len(b)]
  BY ConcatProperties
<1> HIDE DEF s
<1>3. \A i \in 1..Len(b) : i \in 1..Len(s) /\ b[i] = s[i]
  BY <1>1, <1>2
<1>4. Framing(b)
  BY <1>3 DEF Framing, s
<1>5. n \in Nat /\ k \in Nat /\ k <= n /\ 2 * k <= Len(b) + 1
  BY <1>1, <1>2
<1>6. /\ p \in Seq(Command) /\ Len(p) = Len(q) + n
      /\ \A i \in 1..(Len(q) + n) :
           p[i] = IF i <= Len(q) THEN q[i][1] ELSE s[2 * (i - Len(q)) - 1]
  BY <1>2, PendingProps DEF s
<1>7. /\ u \in Seq(Command) /\ Len(u) = Len(q) + k
      /\ \A i \in 1..(Len(q) + k) :
           u[i] = IF i <= Len(q) THEN q[i][1] ELSE b[2 * (i - Len(q)) - 1]
  BY <1>4, PendingProps
<1> HIDE DEF n, k, p, u
<1>8. \A i \in 1..Len(u) : u[i] = p[i]
  <2> SUFFICES ASSUME NEW i \in 1..Len(u) PROVE u[i] = p[i]
    OBVIOUS
  <2>1. i \in 1..(Len(q) + k) /\ i \in 1..(Len(q) + n)
    BY <1>1, <1>5, <1>7
  <2>2. CASE i <= Len(q)
    BY <1>6, <1>7, <2>1, <2>2
  <2>3. CASE ~(i <= Len(q))
    <3> DEFINE j == 2 * (i - Len(q)) - 1
    <3>1. j \in 1..Len(b)
      BY <1>1, <1>5, <2>1, <2>3
    <3>2. u[i] = b[j] /\ p[i] = s[j]
      BY <1>6, <1>7, <2>1, <2>3
    <3> HIDE DEF j
    <3> QED
      BY <1>3, <3>1, <3>2
  <2> QED
    BY <2>2, <2>3
<1>9. Len(u) <= Len(p)
  BY <1>1, <1>5, <1>6, <1>7
<1> QED
  BY <1>4, <1>8, <1>9 DEF s, p, u

-----------------------------------------------------------------------------
(* What becomes of the protocol.                                           *)

\* One more at the end.
LEMMA Appended ==
  ASSUME NEW S, NEW s \in Seq(S), NEW e \in S
  PROVE  /\ \A m : Has(Append(s, e), m) <=> Has(s, m) \/ e = m
         /\ Ended(Append(s, e)) <=> Ended(s) \/ e \in EndOf
         /\ AsksOnce(s) /\ ~(e = "try_match" /\ Has(s, "try_match"))
              => AsksOnce(Append(s, e))
         /\ QuitsAfter(Append(s, e))
              <=> QuitsAfter(s) \/ (e = "quit" /\ Has(s, "try_match"))
         /\ EndsLast(s) /\ ~(Ended(s) /\ e \in EndOf \union {"matched"})
              => EndsLast(Append(s, e))
<1> DEFINE t == Append(s, e)
<1>1. Len(s) \in Nat
  BY LenProperties
<1>2. /\ Len(t) = Len(s) + 1
      /\ \A i \in 1..Len(s) : t[i] = s[i]
      /\ t[Len(s) + 1] = e
  BY AppendProperties
<1> HIDE DEF t
<1> DEFINE n == Len(s) + 1
<1>3. \A i : i \in 1..Len(t) <=> i \in 1..Len(s) \/ i = n
  BY <1>1, <1>2
<1>4. /\ n \notin 1..Len(s) /\ \A i \in 1..Len(s) : i < n /\ ~(n < i)
      /\ ~(n < n) /\ t[n] = e
  BY <1>1, <1>2
<1> HIDE DEF n
<1>5. \A m : Has(t, m) <=> Has(s, m) \/ e = m
  BY <1>2, <1>3, <1>4, Zenon DEF Has
<1>6. Ended(t) <=> Ended(s) \/ e \in EndOf
  BY <1>2, <1>3, <1>4, Zenon DEF Ended
<1>7. AsksOnce(s) /\ ~(e = "try_match" /\ Has(s, "try_match")) => AsksOnce(t)
  BY <1>2, <1>3, <1>4, SMT DEF AsksOnce, Has
<1>8. QuitsAfter(t) <=> QuitsAfter(s) \/ (e = "quit" /\ Has(s, "try_match"))
  BY <1>2, <1>3, <1>4, SMT DEF QuitsAfter, Has
<1>9. EndsLast(s) /\ ~(Ended(s) /\ e \in EndOf \union {"matched"}) => EndsLast(t)
  BY <1>2, <1>3, <1>4, SMT DEF EndsLast, Ended
<1> QED
  BY <1>5, <1>6, <1>7, <1>8, <1>9 DEF t

\* One less at the front.
LEMMA Removed ==
  ASSUME NEW S, NEW s \in Seq(S), s # <<>>
  PROVE  /\ \A m : Has(s, m) <=> Has(Tail(s), m) \/ Head(s) = m
         /\ Ended(s) <=> Ended(Tail(s)) \/ Head(s) \in EndOf
         /\ AsksOnce(s) => AsksOnce(Tail(s))
         /\ AsksOnce(s) /\ Head(s) = "try_match" => ~Has(Tail(s), "try_match")
         /\ QuitsAfter(s)
              <=> QuitsAfter(Tail(s)) \/ (Head(s) = "try_match" /\ Has(Tail(s), "quit"))
         /\ EndsLast(s) => EndsLast(Tail(s))
         /\ EndsLast(s) /\ Head(s) \in EndOf
              => ~Ended(Tail(s)) /\ ~Has(Tail(s), "matched")
<1> DEFINE t == Tail(s)
           h == Head(s)
<1>1. Len(s) \in Nat \ {0}
  BY EmptySeq
<1>2. /\ t \in Seq(S) /\ Len(t) = Len(s) - 1
      /\ \A i \in 1..Len(t) : t[i] = s[i+1]
      /\ h = s[1]
  BY HeadTailProperties, <1>1
<1> HIDE DEF t, h
<1>3. \A i \in 1..Len(t) : \E k \in 1..Len(s) : k = i + 1 /\ k # 1 /\ 1 < k /\ s[k] = t[i]
  <2> TAKE i \in 1..Len(t)
  <2>1. i + 1 \in 1..Len(s) /\ i + 1 # 1 /\ 1 < i + 1 /\ s[i+1] = t[i]
    BY <1>1, <1>2
  <2> QED
    BY <2>1
<1>4. \A k \in 1..Len(s) : k = 1 \/ \E i \in 1..Len(t) : k = i + 1 /\ t[i] = s[k]
  <2> TAKE k \in 1..Len(s)
  <2> SUFFICES ASSUME k # 1 PROVE \E i \in 1..Len(t) : k = i + 1 /\ t[i] = s[k]
    OBVIOUS
  <2>1. k - 1 \in 1..Len(t) /\ k = (k - 1) + 1
    BY <1>1, <1>2
  <2>2. t[k-1] = s[k]
    BY <1>2, <2>1
  <2> QED
    BY <2>1, <2>2
<1>5. 1 \in 1..Len(s) /\ ~(1 < 1) /\ \A i \in 1..Len(s) : ~(i < 1)
  BY <1>1
<1>6. \A i, j \in 1..Len(t) : (i < j <=> i + 1 < j + 1) /\ (i + 1 = j + 1 => i = j)
  BY <1>1, <1>2
<1>7. \A m : Has(s, m) <=> Has(t, m) \/ h = m
  <2> TAKE m
  <2>1. Has(t, m) \/ h = m => Has(s, m)
    BY <1>2, <1>3, <1>5, Zenon DEF Has
  <2>2. Has(s, m) => Has(t, m) \/ h = m
    BY <1>2, <1>4, Zenon DEF Has
  <2> QED
    BY <2>1, <2>2
<1>8. Ended(s) <=> Ended(t) \/ h \in EndOf
  <2>1. Ended(t) \/ h \in EndOf => Ended(s)
    BY <1>2, <1>3, <1>5, Zenon DEF Ended
  <2>2. Ended(s) => Ended(t) \/ h \in EndOf
    BY <1>2, <1>4, Zenon DEF Ended
  <2> QED
    BY <2>1, <2>2
<1>9. AsksOnce(s) => AsksOnce(t)
  <2> SUFFICES ASSUME AsksOnce(s), NEW i \in 1..Len(t), NEW j \in 1..Len(t),
                      t[i] = "try_match", t[j] = "try_match"
               PROVE  i = j
    BY DEF AsksOnce
  <2>1. PICK k \in 1..Len(s) : k = i + 1 /\ s[k] = t[i]
    BY <1>3
  <2>2. PICK l \in 1..Len(s) : l = j + 1 /\ s[l] = t[j]
    BY <1>3
  <2>3. k = l
    BY <2>1, <2>2 DEF AsksOnce
  <2> QED
    BY <1>6, <2>1, <2>2, <2>3
<1>10. AsksOnce(s) /\ h = "try_match" => ~Has(t, "try_match")
  BY <1>2, <1>3, <1>5, Zenon DEF AsksOnce, Has
<1>11. QuitsAfter(t) \/ (h = "try_match" /\ Has(t, "quit")) => QuitsAfter(s)
  <2>1. ASSUME h = "try_match", NEW i \in 1..Len(t), t[i] = "quit" PROVE QuitsAfter(s)
    BY <1>2, <1>3, <1>5, <2>1, Zenon DEF QuitsAfter
  <2>2. ASSUME NEW i \in 1..Len(t), NEW j \in 1..Len(t),
               t[i] = "try_match", i < j, t[j] = "quit"
        PROVE  QuitsAfter(s)
    <3>1. PICK k \in 1..Len(s) : k = i + 1 /\ s[k] = t[i]
      BY <1>3
    <3>2. PICK l \in 1..Len(s) : l = j + 1 /\ s[l] = t[j]
      BY <1>3
    <3>3. k < l
      BY <2>2, <3>1, <3>2
    <3> QED
      BY <2>2, <3>1, <3>2, <3>3 DEF QuitsAfter
  <2> QED
    BY <2>1, <2>2 DEF QuitsAfter, Has
<1>12. QuitsAfter(s) => QuitsAfter(t) \/ (h = "try_match" /\ Has(t, "quit"))
  <2> SUFFICES ASSUME NEW i \in 1..Len(s), NEW j \in 1..Len(s),
                      s[i] = "try_match", i < j, s[j] = "quit"
               PROVE  QuitsAfter(t) \/ (h = "try_match" /\ Has(t, "quit"))
    BY DEF QuitsAfter
  <2>1. j # 1
    OBVIOUS
  <2>2. PICK l \in 1..Len(t) : j = l + 1 /\ t[l] = s[j]
    BY <1>4, <2>1
  <2>3. CASE i = 1
    BY <1>2, <2>2, <2>3 DEF Has
  <2>4. CASE i # 1
    <3>1. PICK k \in 1..Len(t) : i = k + 1 /\ t[k] = s[i]
      BY <1>4, <2>4
    <3>2. k < l
      BY <2>2, <3>1
    <3> QED
      BY <2>2, <3>1, <3>2 DEF QuitsAfter
  <2> QED
    BY <2>3, <2>4
<1>13. EndsLast(s) => EndsLast(t)
  <2> SUFFICES ASSUME EndsLast(s), NEW i \in 1..Len(t), NEW j \in 1..Len(t),
                      t[i] \in EndOf, i < j
               PROVE  t[j] \notin EndOf \union {"matched"}
    BY DEF EndsLast
  <2>1. PICK k \in 1..Len(s) : k = i + 1 /\ s[k] = t[i]
    BY <1>3
  <2>2. PICK l \in 1..Len(s) : l = j + 1 /\ s[l] = t[j]
    BY <1>3
  <2>3. k < l
    BY <2>1, <2>2
  <2> QED
    BY <2>1, <2>2, <2>3 DEF EndsLast
<1>14. EndsLast(s) /\ h \in EndOf => ~Ended(t) /\ ~Has(t, "matched")
  <2> SUFFICES ASSUME EndsLast(s), h \in EndOf, NEW i \in 1..Len(t)
               PROVE  t[i] \notin EndOf \union {"matched"}
    BY DEF Ended, Has
  <2>1. PICK k \in 1..Len(s) : 1 < k /\ s[k] = t[i]
    BY <1>3
  <2> QED
    BY <1>2, <1>5, <2>1 DEF EndsLast
<1> QED
  BY <1>7, <1>8, <1>9, <1>10, <1>11, <1>12, <1>13, <1>14 DEF t, h

\* What is lost at the end was nothing to rely on.
LEMMA CutOff ==
  ASSUME NEW p \in Seq(Command), NEW u \in Seq(Command), Len(u) <= Len(p),
         \A i \in 1..Len(u) : u[i] = p[i]
  PROVE  /\ \A m : Has(u, m) => Has(p, m)
         /\ AsksOnce(p) => AsksOnce(u)
<1>1. Len(u) \in Nat /\ Len(p) \in Nat
  BY LenProperties
<1>2. \A i \in 1..Len(u) : i \in 1..Len(p)
  BY <1>1
<1>3. \A m : Has(u, m) => Has(p, m)
  BY <1>2 DEF Has
<1>4. AsksOnce(p) => AsksOnce(u)
  BY <1>2 DEF AsksOnce
<1> QED
  BY <1>3, <1>4

\* An empty list has nothing in it.
LEMMA NothingSaid ==
  /\ ~Ended(<<>>) /\ EndsLast(<<>>) /\ AsksOnce(<<>>) /\ ~QuitsAfter(<<>>)
  /\ \A m : ~Has(<<>>, m)
BY DEF Ended, EndsLast, AsksOnce, QuitsAfter, Has

State == {"outside", "idle", "matching", "talking", "quitting"}
Status == {"IDLE", "MATCHING", "TALKING"}

\* A client that has left is told nothing.
Told(state, r, m) == IF state = "outside" THEN r ELSE Append(r, m)

\* The client programs.
LEMMA ProtocolAsks ==
  ASSUME NEW p \in Seq(Command), NEW r, NEW status, Protocol("idle", status, p, r)
  PROVE  Protocol("matching", status, Append(p, "try_match"), r)
<1> DEFINE u == Append(p, "try_match")
<1>1. "try_match" \in Command
  BY DEF Command
<1>2. /\ \A m : Has(u, m) <=> Has(p, m) \/ m = "try_match"
      /\ AsksOnce(p) /\ ~Has(p, "try_match") => AsksOnce(u)
      /\ QuitsAfter(u) <=> QuitsAfter(p)
  BY <1>1, Appended
<1>3. QuitsAfter(p) => Has(p, "try_match")
  BY DEF QuitsAfter, Has
<1> HIDE DEF u
<1>4. ~Has(p, "try_match") /\ AsksOnce(p) /\ EndsLast(r) /\ status = "IDLE"
      /\ ~Ended(r) /\ ~Has(r, "matched")
  BY DEF Protocol
<1>5. Has(u, "try_match") /\ AsksOnce(u) /\ ~QuitsAfter(u)
  BY <1>2, <1>3, <1>4
<1> QED
  BY <1>4, <1>5 DEF Protocol, u

\* A message to the other side is nothing to the protocol.
LEMMA ProtocolSays ==
  ASSUME NEW p \in Seq(Command), NEW r, NEW status, Protocol("talking", status, p, r)
  PROVE  Protocol("talking", status, Append(p, "send_message"), r)
<1> DEFINE u == Append(p, "send_message")
<1>1. "send_message" \in Command
  BY DEF Command
<1>2. /\ \A m : Has(u, m) <=> Has(p, m) \/ m = "send_message"
      /\ AsksOnce(p) => AsksOnce(u)
      /\ QuitsAfter(u) <=> QuitsAfter(p)
  BY <1>1, Appended
<1>3. (Has(u, "try_match") <=> Has(p, "try_match")) /\ (Has(u, "quit") <=> Has(p, "quit"))
  BY <1>2
<1> HIDE DEF u
<1> QED
  BY <1>2, <1>3 DEF Protocol, u

\* A client that waits or talks may quit.
LEMMA ProtocolQuits ==
  ASSUME NEW p \in Seq(Command), NEW r, NEW status, NEW state \in {"matching", "talking"},
         Protocol(state, status, p, r)
  PROVE  Protocol("quitting", status, Append(p, "quit"), r)
<1> DEFINE u == Append(p, "quit")
<1>1. "quit" \in Command
  BY DEF Command
<1>2. /\ \A m : Has(u, m) <=> Has(p, m) \/ m = "quit"
      /\ AsksOnce(p) => AsksOnce(u)
      /\ QuitsAfter(u) <=> QuitsAfter(p) \/ Has(p, "try_match")
  BY <1>1, Appended
<1>3. (Has(u, "try_match") <=> Has(p, "try_match")) /\ Has(u, "quit")
  BY <1>2
<1> HIDE DEF u
<1> QED
  BY <1>2, <1>3 DEF Protocol, u

\* A client may close its connection at any time; commands at the end of what
\* it sent may be lost.
LEMMA ProtocolLeaves ==
  ASSUME NEW p \in Seq(Command), NEW u \in Seq(Command), Len(u) <= Len(p),
         \A i \in 1..Len(u) : u[i] = p[i],
         NEW r, NEW status, NEW state, Protocol(state, status, p, r)
  PROVE  Protocol("outside", status, u, <<>>)
<1>1. (\A m : Has(u, m) => Has(p, m)) /\ (AsksOnce(p) => AsksOnce(u))
  BY CutOff
<1> DEFINE e == <<>>
<1>2. ~Ended(e) /\ EndsLast(e) /\ \A m : ~Has(e, m)
  BY NothingSaid
<1> HIDE DEF e
<1>3. (Has(u, "try_match") => Has(p, "try_match")) /\ ~Has(e, "matched")
  BY <1>1, <1>2
<1> QED
  BY <1>1, <1>2, <1>3 DEF Protocol, e

\* Whatever the client reads next, its view and the rest agree.
LEMMA ProtocolReads ==
  ASSUME NEW p, NEW r \in Seq(Message), r # <<>>, NEW status \in Status,
         NEW state \in State \ {"outside"}, Protocol(state, status, p, r)
  PROVE  /\ Reads(state, Head(r)) \in State \ {"outside"}
         /\ Protocol(Reads(state, Head(r)), status, p, Tail(r))
<1> DEFINE h == Head(r)
           t == Tail(r)
           new == Reads(state, h)
<1>1. /\ \A m : Has(r, m) <=> Has(t, m) \/ h = m
      /\ Ended(r) <=> Ended(t) \/ h \in EndOf
      /\ EndsLast(r) => EndsLast(t)
      /\ EndsLast(r) /\ h \in EndOf => ~Ended(t) /\ ~Has(t, "matched")
  BY Removed
<1>2. Has(r, "matched") <=> Has(t, "matched") \/ h = "matched"
  BY <1>1
<1> HIDE DEF t, h
<1>3. CASE h \in EndOf
  <2>1. new = "idle"
    BY <1>3 DEF Reads, EndOf
  <2>2. Ended(r) /\ EndsLast(r) /\ ~Ended(t) /\ ~Has(t, "matched") /\ EndsLast(t)
    BY <1>1, <1>3 DEF Protocol
  <2>3. ~Has(p, "try_match") /\ status = "IDLE"
    BY <2>2 DEF Protocol, State
  <2> QED
    BY <2>1, <2>2, <2>3 DEF Protocol, State, h, t
<1>4. CASE h = "matched" /\ state = "matching"
  <2>1. new = "talking"
    BY <1>4 DEF Reads
  <2>2. Has(r, "matched") /\ (Ended(r) <=> Ended(t))
    BY <1>1, <1>4 DEF EndOf
  <2> QED
    BY <1>1, <1>2, <1>4, <2>1, <2>2 DEF Protocol, State, Status, h, t
<1>5. CASE h = "matched" /\ state # "matching"
  <2>1. new = state
    BY <1>5 DEF Reads
  <2>2. Ended(r) <=> Ended(t)
    BY <1>1, <1>5 DEF EndOf
  <2> QED
    BY <1>1, <1>2, <1>5, <2>1, <2>2 DEF Protocol, State, h, t
<1>6. CASE h \notin EndOf \union {"matched"}
  <2>1. new = state
    BY <1>6 DEF Reads, EndOf
  <2>2. (Ended(r) <=> Ended(t)) /\ (Has(r, "matched") <=> Has(t, "matched"))
    BY <1>1, <1>2, <1>6
  <2> QED
    BY <1>1, <2>1, <2>2 DEF Protocol, h, t
<1> QED
  BY <1>3, <1>4, <1>5, <1>6

\* What main() does with a command.
LEMMA ProtocolTried ==
  ASSUME NEW p \in Seq(Command), p # <<>>, Head(p) = "try_match",
         NEW r, NEW status, NEW state \in State, Protocol(state, status, p, r)
  PROVE  status = "IDLE" /\ Protocol(state, "MATCHING", Tail(p), r)
<1> DEFINE t == Tail(p)
           h == Head(p)
<1>1. /\ \A m : Has(p, m) <=> Has(t, m) \/ h = m
      /\ AsksOnce(p) => AsksOnce(t) /\ ~Has(t, "try_match")
      /\ QuitsAfter(p) <=> QuitsAfter(t) \/ Has(t, "quit")
  BY Removed
<1>2. QuitsAfter(t) => Has(t, "quit")
  BY DEF QuitsAfter, Has
<1>3. Has(p, "try_match")
  BY <1>1
<1> HIDE DEF t, h
<1> QED
  BY <1>1, <1>2, <1>3 DEF Protocol, State, t

\* main() serves a message.
LEMMA ProtocolSent ==
  ASSUME NEW p \in Seq(Command), p # <<>>, Head(p) = "send_message",
         NEW r, NEW status, NEW state, Protocol(state, status, p, r)
  PROVE  Protocol(state, status, Tail(p), r)
<1> DEFINE t == Tail(p)
           h == Head(p)
<1>1. /\ \A m : Has(p, m) <=> Has(t, m) \/ h = m
      /\ AsksOnce(p) => AsksOnce(t)
      /\ QuitsAfter(p) <=> QuitsAfter(t)
  BY Removed
<1>2. (Has(p, "try_match") <=> Has(t, "try_match")) /\ (Has(p, "quit") <=> Has(t, "quit"))
  BY <1>1
<1> HIDE DEF t, h
<1> QED
  BY <1>1, <1>2 DEF Protocol, t

\* A quit that comes late is not answered, any other once.
LEMMA ProtocolQuitServed ==
  ASSUME NEW p \in Seq(Command), p # <<>>, Head(p) = "quit", NEW r \in Seq(Message),
         NEW status \in Status, NEW state \in State, Protocol(state, status, p, r)
  PROVE  Protocol(state, "IDLE", Tail(p),
                  IF status = "IDLE" THEN r ELSE Told(state, r, "quit"))
<1> DEFINE t == Tail(p)
           h == Head(p)
           new == Append(r, "quit")
<1>1. /\ \A m : Has(p, m) <=> Has(t, m) \/ h = m
      /\ AsksOnce(p) => AsksOnce(t)
      /\ QuitsAfter(p) <=> QuitsAfter(t)
  BY Removed
<1>2. (Has(p, "try_match") <=> Has(t, "try_match")) /\ Has(p, "quit")
  BY <1>1
<1>3. "quit" \in EndOf /\ "quit" \in Message
  BY DEF EndOf, Message
<1>4. Ended(new) /\ (EndsLast(r) /\ ~Ended(r) => EndsLast(new))
  BY <1>3, Appended
<1> HIDE DEF t, h, new
<1>5. CASE status = "IDLE"
  BY <1>1, <1>2, <1>5 DEF Protocol, t
<1>6. CASE status # "IDLE"
  <2>1. ~Has(p, "try_match") /\ state \in {"quitting", "outside"}
    BY <1>2, <1>6 DEF Protocol, State
  <2>2. CASE state = "outside"
    BY <1>1, <1>2, <1>6, <2>1, <2>2 DEF Protocol, Told, t
  <2>3. CASE state = "quitting"
    <3>1. ~Ended(r) /\ EndsLast(r)
      BY <1>6, <2>1, <2>3 DEF Protocol
    <3> QED
      BY <1>1, <1>2, <1>4, <1>6, <2>1, <2>3, <3>1 DEF Protocol, Told, t, new
  <2> QED
    BY <2>1, <2>2, <2>3
<1> QED
  BY <1>5, <1>6

\* What the others do to it.
LEMMA ProtocolLeft ==
  ASSUME NEW p, NEW r \in Seq(Message), NEW state \in State,
         Protocol(state, "TALKING", p, r)
  PROVE  Protocol(state, "IDLE", p, Told(state, r, "other_side_quit"))
<1> DEFINE new == Append(r, "other_side_quit")
<1>1. "other_side_quit" \in EndOf /\ "other_side_quit" \in Message
  BY DEF EndOf, Message
<1>2. Ended(new) /\ (EndsLast(r) /\ ~Ended(r) => EndsLast(new))
  BY <1>1, Appended
<1> HIDE DEF new
<1>3. ~Has(p, "try_match") /\ state # "idle" /\ AsksOnce(p) /\ EndsLast(r)
  BY DEF Protocol
<1>4. state # "outside" => ~Ended(r)
  BY <1>3 DEF Protocol, State
<1>5. state \in {"matching", "talking"} => ~Has(p, "quit")
  BY <1>3 DEF Protocol
<1> QED
  BY <1>2, <1>3, <1>4, <1>5 DEF Protocol, Told, State, new

\* handle_match tells a client that waits.
LEMMA ProtocolMatched ==
  ASSUME NEW p, NEW r \in Seq(Message), NEW state \in State,
         Protocol(state, "MATCHING", p, r)
  PROVE  Protocol(state, "TALKING", p, Told(state, r, "matched"))
<1> DEFINE new == Append(r, "matched")
<1>1. "matched" \notin EndOf /\ "matched" \in Message
  BY DEF EndOf, Message
<1>2. /\ \A m : Has(new, m) <=> Has(r, m) \/ m = "matched"
      /\ Ended(new) <=> Ended(r)
      /\ EndsLast(r) /\ ~Ended(r) => EndsLast(new)
  BY <1>1, Appended
<1>3. Has(new, "matched")
  BY <1>2
<1> HIDE DEF new
<1>4. ~Has(p, "try_match") /\ state # "idle" /\ AsksOnce(p) /\ EndsLast(r)
  BY DEF Protocol
<1>5. state # "outside" => ~Ended(r) /\ state # "talking"
  BY <1>4 DEF Protocol, State
<1> QED
  BY <1>2, <1>3, <1>4, <1>5 DEF Protocol, Told, State, new

\* Any other reply is nothing to the protocol.
LEMMA ProtocolEchoed ==
  ASSUME NEW p, NEW r \in Seq(Message), NEW state, NEW status,
         NEW m \in Message \ (EndOf \union {"matched"}), Protocol(state, status, p, r)
  PROVE  Protocol(state, status, p, Told(state, r, m))
<1> DEFINE new == Append(r, m)
<1>1. /\ \A x : Has(new, x) <=> Has(r, x) \/ m = x
      /\ Ended(new) <=> Ended(r)
      /\ EndsLast(r) => EndsLast(new)
  BY Appended
<1>2. Has(new, "matched") <=> Has(r, "matched")
  BY <1>1
<1> HIDE DEF new
<1> QED
  BY <1>1, <1>2 DEF Protocol, Told, new

-----------------------------------------------------------------------------
(* What the invariant says of a client.                                    *)

Client == [socket_fd : Fd, match_fd : Fd \union {NoFd}, status : Status,
           buffer : Seq(Unit), cmd_queue : Seq(Seq(Unit))]

Single(S) == S = {} \/ \E x : S = {x}

\* What has one element at most.
LEMMA AtMostOne ==
  ASSUME NEW S, Single(S)
  PROVE  Cardinality(S) <= 1
<1>1. CASE S = {}
  BY <1>1, FS_EmptySet
<1>2. ASSUME NEW x, S = {x} PROVE Cardinality(S) <= 1
  <2>1. Cardinality({x}) = 1
    BY FS_Singleton
  <2> QED
    BY <1>2, <2>1
<1> QED
  BY <1>1, <1>2 DEF Single

\* A client that is connected: types, and its part of the protocol.
LEMMA ClientFacts ==
  ASSUME IInv, NEW id \in DOMAIN clients
  PROVE  /\ id \in Id /\ clients[id] \in Client
         /\ clients[id].status \in Status
         /\ clients[id].cmd_queue \in Queued
         /\ clients[id].buffer \in Seq(Unit) /\ to_server[id] \in Seq(Unit)
         /\ Stream(id) \in Seq(Unit) /\ Framing(Stream(id))
         /\ to_client[id] \in Seq(Message)
         /\ view[id] \in State
         /\ Pending(clients[id].cmd_queue, Stream(id)) \in Seq(Command)
         /\ InStepOf(id)
<1>1. /\ id \in Id /\ clients[id] \in Client
      /\ clients[id].buffer \in Seq(Unit) /\ to_server[id] \in Seq(Unit)
      /\ view[id] \in State
  BY DEF IInv, SessionTypeOK, Client, State, Status
<1>2. clients[id].cmd_queue \in Queued /\ to_client[id] \in Seq(Message)
  BY <1>1 DEF IInv, Served, Away, Queued
<1>3. Stream(id) \in Seq(Unit)
  BY <1>1, ConcatProperties DEF Stream
<1>4. Framing(Stream(id)) /\ InStepOf(id)
  BY DEF IInv, Framed, InStep
<1>5. Pending(clients[id].cmd_queue, Stream(id)) \in Seq(Command)
  BY <1>2, <1>3, <1>4, PendingProps
<1>6. clients[id].status \in Status
  BY <1>1 DEF Client
<1> QED
  BY <1>1, <1>2, <1>3, <1>4, <1>5, <1>6

\* A reply reaches the client it is for.
LEMMA ReplyTells ==
  ASSUME IInv, NEW queues \in [Id -> Seq(Message)], NEW id \in DOMAIN clients,
         NEW m \in Message
  PROVE  /\ Reply(queues, id, m) = [queues EXCEPT ![id] = Told(view[id], @, m)]
         /\ Reply(queues, id, m) \in [Id -> Seq(Message)]
<1>1. id \in Id
  BY ClientFacts
<1>2. clients[id].socket_fd \in DOMAIN fd_to_id /\ fd_to_id[clients[id].socket_fd] = id
  BY DEF IInv, Registered
<1>3. Append(queues[id], m) \in Seq(Message)
  BY <1>1
<1>4. CASE view[id] = "outside"
  BY <1>1, <1>2, <1>4 DEF Reply, Sent, Told
<1>5. CASE view[id] # "outside"
  BY <1>1, <1>2, <1>3, <1>5 DEF Reply, Sent, Told
<1> QED
  BY <1>4, <1>5

\* Each side of a conversation is the other side of the other.
LEMMA OtherSideFacts ==
  ASSUME IInv, NEW id \in DOMAIN clients, clients[id].status = "TALKING"
  PROVE  /\ OtherSide(id) \in DOMAIN clients \ {id}
         /\ clients[id].match_fd \in DOMAIN fd_to_id
         /\ clients[OtherSide(id)].socket_fd = clients[id].match_fd
         /\ clients[OtherSide(id)].match_fd = clients[id].socket_fd
         /\ clients[OtherSide(id)].status = "TALKING"
         /\ OtherSide(OtherSide(id)) = id
<1>1. /\ clients[id].match_fd \in DOMAIN fd_to_id
      /\ OtherSide(id) # id
      /\ clients[OtherSide(id)].status = "TALKING"
      /\ clients[OtherSide(id)].match_fd = clients[id].socket_fd
  BY DEF IInv, Partners
<1>2. OtherSide(id) = fd_to_id[clients[id].match_fd]
  BY <1>1 DEF OtherSide
<1>3. /\ fd_to_id[clients[id].match_fd] \in DOMAIN clients
      /\ clients[fd_to_id[clients[id].match_fd]].socket_fd = clients[id].match_fd
  BY <1>1 DEF IInv, Registered
<1>4. clients[id].socket_fd \in DOMAIN fd_to_id /\ fd_to_id[clients[id].socket_fd] = id
  BY DEF IInv, Registered
<1>5. OtherSide(OtherSide(id)) = id
  BY <1>1, <1>4 DEF OtherSide
<1> QED
  BY <1>1, <1>2, <1>3, <1>5

\* Fds tell clients apart.
LEMMA FdsDiffer ==
  ASSUME IInv, NEW a \in DOMAIN clients, NEW b \in DOMAIN clients,
         clients[a].socket_fd = clients[b].socket_fd
  PROVE  a = b
BY DEF IInv, Registered

\* Nothing has happened to a client.
LEMMA StillInStep ==
  ASSUME NEW id, InStepOf(id), view'[id] = view[id],
         clients'[id].status = clients[id].status,
         clients'[id].cmd_queue = clients[id].cmd_queue,
         clients'[id].buffer = clients[id].buffer,
         to_server'[id] = to_server[id], to_client'[id] = to_client[id]
  PROVE  InStepOf(id)'
BY DEF InStepOf, Stream

-----------------------------------------------------------------------------
(* The turns of main() that serve a command.                               *)

\* The command that main() takes is the first of the pending ones.
LEMMA TurnFacts ==
  ASSUME IInv, NEW id, NEW cmd, Turn(id, cmd)
  PROVE  LET q == clients[id].cmd_queue
             p == Pending(q, Stream(id))
         IN /\ id \in DOMAIN clients /\ serving = {id}
            /\ q # <<>> /\ Tail(q) \in Queued
            /\ p # <<>> /\ Head(p) = cmd
            /\ Pending(Tail(q), Stream(id)) = Tail(p)
            /\ serving' = IF Tail(q) = <<>> THEN {} ELSE {id}
<1> DEFINE q == clients[id].cmd_queue
<1>1. id \in serving /\ Head(q) = <<cmd>>
      /\ serving' = IF Len(q) = 1 THEN {} ELSE serving
  BY DEF Turn, NextLine
<1>2. id \in DOMAIN clients /\ serving = {id}
  BY <1>1 DEF IInv, Served
<1>3. q # <<>>
  BY <1>1, <1>2 DEF IInv, Served
<1>4. q \in Queued /\ Stream(id) \in Seq(Unit) /\ Framing(Stream(id))
  BY <1>2, ClientFacts
<1> HIDE DEF q
<1>5. /\ Pending(q, Stream(id)) # <<>>
      /\ Head(Pending(q, Stream(id))) = Head(q)[1]
      /\ Pending(Tail(q), Stream(id)) = Tail(Pending(q, Stream(id)))
      /\ Tail(q) \in Queued
  BY <1>3, <1>4, PendingTaken
<1>6. Tail(q) = <<>> <=> Len(q) = 1
  <2>1. Len(Tail(q)) = Len(q) - 1 /\ Len(q) \in Nat /\ Len(Tail(q)) \in Nat
    BY <1>3, <1>4, <1>5, HeadTailProperties, LenProperties DEF Queued
  <2>2. Tail(q) = <<>> <=> Len(Tail(q)) = 0
    BY <1>5, EmptySeq DEF Queued
  <2> QED
    BY <2>1, <2>2
<1>7. Head(q)[1] = cmd
  BY <1>1
<1> QED
  BY <1>1, <1>2, <1>3, <1>5, <1>6, <1>7 DEF q

\* What a turn leaves alone.
Orderly(id) ==
  /\ DOMAIN clients' = DOMAIN clients
  /\ \A x \in DOMAIN clients :
       /\ clients'[x] \in Client
       /\ clients'[x].socket_fd = clients[x].socket_fd
       /\ clients'[x].buffer = clients[x].buffer
       /\ clients'[x].cmd_queue = IF x = id THEN Tail(clients[id].cmd_queue)
                                            ELSE clients[x].cmd_queue
  /\ to_client' \in [Id -> Seq(Message)]
  /\ \A x \in Id : view[x] = "outside" => to_client'[x] = <<>>

\* What an orderly turn preserves.
LEMMA TurnPreserves ==
  ASSUME IInv, NEW id, NEW cmd, Turn(id, cmd), Orderly(id)
  PROVE  SessionTypeOK' /\ ServerSurvives' /\ Registered' /\ Served' /\ Away' /\ Framed'
<1>1. /\ id \in DOMAIN clients /\ serving = {id}
      /\ Tail(clients[id].cmd_queue) \in Queued
      /\ serving' = IF Tail(clients[id].cmd_queue) = <<>> THEN {} ELSE {id}
  BY TurnFacts
<1>2. UNCHANGED <<unique_id_count, fd_to_id, process, to_server, clientVars>>
  BY DEF Turn
<1>3. Served'
  BY <1>1 DEF IInv, Served, Orderly, Queued
<1>4. Registered' /\ Away'
  BY <1>2 DEF IInv, Registered, Away, Orderly, clientVars
<1>5. Framed'
  BY <1>2 DEF IInv, Framed, Stream, Orderly, clientVars
<1>6. SessionTypeOK'
  <2>1. Single(serving') /\ serving' \subseteq Id
    BY <1>1 DEF Single, IInv, SessionTypeOK
  <2>2. Cardinality(serving') <= 1
    BY <2>1, AtMostOne
  <2> QED
    BY <1>2, <2>1, <2>2 DEF IInv, SessionTypeOK, Orderly, Client, Status, clientVars
<1>7. ServerSurvives'
  BY <1>2 DEF IInv, ServerSurvives
<1> QED
  BY <1>3, <1>4, <1>5, <1>6, <1>7

\* It is the turn of id alone.
LEMMA TurnInStep ==
  ASSUME IInv, NEW id, NEW cmd, Turn(id, cmd), Orderly(id),
         NEW x \in DOMAIN clients \ {id},
         clients'[x].status = clients[x].status, to_client'[x] = to_client[x]
  PROVE  InStepOf(x)'
<1>1. /\ clients'[x].buffer = clients[x].buffer
      /\ clients'[x].cmd_queue = clients[x].cmd_queue
  BY DEF Orderly
<1>2. view'[x] = view[x] /\ to_server'[x] = to_server[x]
  BY DEF Turn, clientVars
<1>3. InStepOf(x)
  BY DEF IInv, InStep
<1> QED
  BY <1>1, <1>2, <1>3, StillInStep

\* Commands are lines.
LEMMA QueuedType ==
  ASSUME NEW q \in Queued
  PROVE  q \in Seq(Seq(Unit))
<1>1. ASSUME NEW cmd \in Command PROVE <<cmd>> \in Seq(Unit)
  BY DEF Unit
<1>2. {<<cmd>> : cmd \in Command} \subseteq Seq(Unit)
  BY <1>1
<1> QED
  BY <1>2, SeqMonotonic DEF Queued

\* Whoever is not touched goes on talking as before.
LEMMA StillPartners ==
  ASSUME IInv, NEW x \in DOMAIN clients, clients[x].status = "TALKING",
         UNCHANGED fd_to_id, clients'[x] = clients[x],
         clients'[OtherSide(x)].status = "TALKING",
         clients'[OtherSide(x)].match_fd = clients[OtherSide(x)].match_fd
  PROVE  /\ clients'[x].match_fd \in DOMAIN fd_to_id'
         /\ OtherSide(x)' # x
         /\ clients'[OtherSide(x)'].status = "TALKING"
         /\ clients'[OtherSide(x)'].match_fd = clients'[x].socket_fd
<1>1. OtherSide(x)' = OtherSide(x)
  BY DEF OtherSide
<1> QED
  BY <1>1, OtherSideFacts

\* try_match makes a client wait that was idle.
LEMMA TryMatchPreserves ==
  ASSUME IInv, NEW id, TryMatch(id)
  PROVE  IInv'
<1> DEFINE q == clients[id].cmd_queue
           p == Pending(q, Stream(id))
<1>1. Turn(id, "try_match")
  BY DEF TryMatch
<1>2. /\ id \in DOMAIN clients /\ Tail(q) \in Queued
      /\ p # <<>> /\ Head(p) = "try_match" /\ Pending(Tail(q), Stream(id)) = Tail(p)
  BY <1>1, TurnFacts
<1>3. /\ id \in Id /\ view[id] \in State /\ to_client[id] \in Seq(Message)
      /\ p \in Seq(Command) /\ InStepOf(id)
  BY <1>2, ClientFacts
<1>4. "try_match" \in Message \ (EndOf \union {"matched"})
  BY DEF Message, EndOf
<1>5. /\ to_client' = [to_client EXCEPT ![id] = Told(view[id], @, "try_match")]
      /\ to_client' \in [Id -> Seq(Message)]
  BY <1>2, <1>4, ReplyTells DEF IInv, Away, TryMatch
<1>6. clients' = [Taken(id) EXCEPT ![id].status = "MATCHING"]
  BY DEF TryMatch
<1>7. /\ DOMAIN clients' = DOMAIN clients
      /\ \A x \in DOMAIN clients : x # id => clients'[x] = clients[x]
      /\ clients'[id] = [clients[id] EXCEPT !.cmd_queue = Tail(@), !.status = "MATCHING"]
  BY <1>2, <1>6 DEF Taken
<1>8. Orderly(id)
  <2>1. \A x \in DOMAIN clients : clients[x] \in Client
    BY ClientFacts
  <2>2. Tail(q) \in Seq(Seq(Unit))
    BY <1>2, QueuedType
  <2>3. clients'[id] \in Client
    BY <1>2, <1>7, <2>1, <2>2 DEF Client, Status
  <2>4. \A x \in Id : view[x] = "outside" => to_client'[x] = <<>>
    BY <1>5 DEF IInv, Away, Told
  <2> QED
    BY <1>2, <1>5, <1>7, <2>1, <2>3, <2>4 DEF Orderly, Client
<1>9. clients[id].status = "IDLE" /\ Protocol(view[id], "MATCHING", Tail(p), to_client[id])
  BY <1>2, <1>3, ProtocolTried DEF InStepOf
<1>10. Partners'
  <2>1. UNCHANGED fd_to_id
    BY <1>1 DEF Turn
  <2> SUFFICES ASSUME NEW x \in DOMAIN clients, clients'[x].status = "TALKING"
               PROVE  /\ clients'[x].match_fd \in DOMAIN fd_to_id
                      /\ OtherSide(x)' # x
                      /\ clients'[OtherSide(x)'].status = "TALKING"
                      /\ clients'[OtherSide(x)'].match_fd = clients'[x].socket_fd
    BY <1>7, <2>1 DEF Partners
  <2>2. x # id
    BY <1>2, <1>7, ClientFacts DEF Client
  <2>3. clients'[x] = clients[x] /\ OtherSide(x)' = OtherSide(x)
    BY <1>7, <2>1, <2>2 DEF OtherSide
  <2>4. OtherSide(x) # id
    BY <1>9, <2>3, OtherSideFacts
  <2> QED
    BY <1>7, <2>3, <2>4, OtherSideFacts
<1>11. InStep'
  <2>1. ASSUME NEW x \in DOMAIN clients \ {id} PROVE InStepOf(x)'
    <3>1. clients'[x].status = clients[x].status /\ to_client'[x] = to_client[x]
      BY <1>5, <1>7, ClientFacts
    <3> QED
      BY <1>1, <1>8, <3>1, TurnInStep
  <2>2. InStepOf(id)'
    <3>1. Protocol(view[id], "MATCHING", Tail(p), Told(view[id], to_client[id], "try_match"))
      BY <1>3, <1>4, <1>9, ProtocolEchoed
    <3>2. view'[id] = view[id] /\ to_server'[id] = to_server[id]
      BY <1>1 DEF Turn, clientVars
    <3>3. /\ clients'[id].status = "MATCHING" /\ clients'[id].cmd_queue = Tail(q)
          /\ clients'[id].buffer = clients[id].buffer
          /\ to_client'[id] = Told(view[id], to_client[id], "try_match")
      BY <1>2, <1>3, <1>5, <1>7, ClientFacts DEF Client
    <3> QED
      BY <1>2, <3>1, <3>2, <3>3 DEF InStepOf, Stream
  <2> QED
    BY <1>7, <2>1, <2>2 DEF InStep
<1> QED
  BY <1>1, <1>8, <1>10, <1>11, TurnPreserves DEF IInv

\* The message reaches whoever has match_fd; it is nothing to the protocol.
LEMMA SendMessagePreserves ==
  ASSUME IInv, NEW id, SendMessage(id)
  PROVE  IInv'
<1> DEFINE q == clients[id].cmd_queue
           p == Pending(q, Stream(id))
           echoed == Reply(to_client, id, "send_message")
           fd == clients[id].match_fd
<1>1. Turn(id, "send_message")
  BY DEF SendMessage
<1>2. /\ id \in DOMAIN clients /\ Tail(q) \in Queued
      /\ p # <<>> /\ Head(p) = "send_message" /\ Pending(Tail(q), Stream(id)) = Tail(p)
  BY <1>1, TurnFacts
<1>3. /\ id \in Id /\ p \in Seq(Command) /\ InStepOf(id) /\ clients[id] \in Client
  BY <1>2, ClientFacts
<1>4. /\ "send_message" \in Message \ (EndOf \union {"matched"})
      /\ "receive_message" \in Message \ (EndOf \union {"matched"})
  BY DEF Message, EndOf
<1>5. /\ echoed = [to_client EXCEPT ![id] = Told(view[id], @, "send_message")]
      /\ echoed \in [Id -> Seq(Message)]
  BY <1>2, <1>4, ReplyTells DEF IInv, Away
<1>6. /\ clients' = Taken(id)
      /\ to_client' = Sent(echoed, fd, "receive_message")
  BY DEF SendMessage
<1>7. /\ DOMAIN clients' = DOMAIN clients
      /\ \A x \in DOMAIN clients : x # id => clients'[x] = clients[x]
      /\ clients'[id] = [clients[id] EXCEPT !.cmd_queue = Tail(@)]
  BY <1>2, <1>6 DEF Taken
<1> HIDE DEF echoed
<1>8. /\ to_client' \in [Id -> Seq(Message)]
      /\ \A x \in Id : \/ to_client'[x] = echoed[x]
                       \/ to_client'[x] = Told(view[x], echoed[x], "receive_message")
  <2>1. CASE fd \in DOMAIN fd_to_id /\ view[fd_to_id[fd]] # "outside"
    <3> DEFINE to == fd_to_id[fd]
    <3>1. to \in Id
      BY <2>1 DEF IInv, SessionTypeOK
    <3>2. to_client' = [echoed EXCEPT ![to] = Append(@, "receive_message")]
      BY <1>6, <2>1 DEF Sent
    <3>3. Append(echoed[to], "receive_message") \in Seq(Message)
      BY <1>4, <1>5, <3>1
    <3>4. view[to] # "outside"
      BY <2>1
    <3> HIDE DEF to
    <3> QED
      BY <1>5, <3>1, <3>2, <3>3, <3>4 DEF Told
  <2>2. CASE ~(fd \in DOMAIN fd_to_id /\ view[fd_to_id[fd]] # "outside")
    BY <1>5, <1>6, <2>2 DEF Sent
  <2> QED
    BY <2>1, <2>2
<1>9. Orderly(id)
  <2>1. \A x \in DOMAIN clients : clients[x] \in Client
    BY ClientFacts
  <2>2. clients'[id] \in Client
    BY <1>2, <1>7, <2>1, QueuedType DEF Client
  <2>3. \A x \in Id : view[x] = "outside" => to_client'[x] = <<>>
    BY <1>3, <1>5, <1>8 DEF IInv, Away, Told
  <2> QED
    BY <1>2, <1>7, <1>8, <2>1, <2>2, <2>3 DEF Orderly, Client
<1>10. UNCHANGED fd_to_id /\ UNCHANGED <<view, to_server>>
  BY <1>1 DEF Turn, clientVars
<1>11. Partners'
  <2>1. \A x \in DOMAIN clients :
          /\ clients'[x].status = clients[x].status
          /\ clients'[x].match_fd = clients[x].match_fd
          /\ clients'[x].socket_fd = clients[x].socket_fd
    BY <1>2, <1>3, <1>7 DEF Client
  <2>2. \A x \in DOMAIN clients : OtherSide(x)' = OtherSide(x)
    BY <1>10, <2>1 DEF OtherSide
  <2> QED
    BY <1>7, <1>10, <2>1, <2>2, OtherSideFacts DEF Partners
<1>12. ASSUME NEW x \in DOMAIN clients PROVE InStepOf(x)'
  <2> DEFINE r == echoed[x]
             px == Pending(clients'[x].cmd_queue, Stream(x)')
  <2>1. x \in Id /\ InStepOf(x) /\ to_client[x] \in Seq(Message) /\ view[x] \in State
    BY ClientFacts
  <2>2. r \in Seq(Message)
    BY <1>5, <2>1
  <2>3. clients'[x].status = clients[x].status
    BY <1>3, <1>7 DEF Client
  <2>4. Stream(x)' = Stream(x)
    BY <1>9, <1>10 DEF Stream, Orderly
  <2>5. Protocol(view[x], clients[x].status, px, r)
    <3>1. CASE x = id
      <4>1. px = Tail(p)
        BY <1>2, <1>3, <1>7, <2>4, <3>1 DEF Client
      <4>2. Protocol(view[id], clients[id].status, Tail(p), to_client[id])
        BY <1>2, <1>3, ProtocolSent DEF InStepOf
      <4>3. r = Told(view[id], to_client[id], "send_message")
        BY <1>3, <1>5, <3>1 DEF IInv, Away
      <4>4. Protocol(view[id], clients[id].status, Tail(p),
                     Told(view[id], to_client[id], "send_message"))
        BY <1>4, <2>1, <3>1, <4>2, ProtocolEchoed
      <4> QED
        BY <3>1, <4>1, <4>3, <4>4
    <3>2. CASE x # id
      <4>1. px = Pending(clients[x].cmd_queue, Stream(x)) /\ r = to_client[x]
        BY <1>5, <1>7, <2>1, <2>4, <3>2 DEF IInv, Away
      <4> QED
        BY <2>1, <4>1 DEF InStepOf
    <3> QED
      BY <3>1, <3>2
  <2> HIDE DEF px, r
  <2>6. Protocol(view[x], clients[x].status, px, Told(view[x], r, "receive_message"))
    BY <1>4, <2>2, <2>5, ProtocolEchoed
  <2>7. to_client'[x] = r \/ to_client'[x] = Told(view[x], r, "receive_message")
    BY <1>8, <2>1 DEF r
  <2>8. Protocol(view[x], clients[x].status, px, to_client'[x])
    BY <2>5, <2>6, <2>7
  <2> QED
    BY <1>10, <2>3, <2>8 DEF InStepOf, px
<1> QED
  BY <1>1, <1>7, <1>9, <1>11, <1>12, TurnPreserves DEF IInv, InStep

\* quit ends both sides of a conversation, and tells each once.
LEMMA QuitPreserves ==
  ASSUME IInv, NEW id, Quit(id)
  PROVE  IInv'
<1> DEFINE q == clients[id].cmd_queue
           p == Pending(q, Stream(id))
           talks == clients[id].status = "TALKING"
           o == OtherSide(id)
           first == IF clients[id].status = "IDLE" THEN to_client
                    ELSE Reply(to_client, id, "quit")
<1>1. Turn(id, "quit")
  BY DEF Quit
<1>2. /\ id \in DOMAIN clients /\ Tail(q) \in Queued
      /\ p # <<>> /\ Head(p) = "quit" /\ Pending(Tail(q), Stream(id)) = Tail(p)
  BY <1>1, TurnFacts
<1>3. /\ id \in Id /\ view[id] \in State /\ to_client[id] \in Seq(Message)
      /\ p \in Seq(Command) /\ InStepOf(id)
      /\ clients[id].status \in Status /\ clients[id] \in Client
  BY <1>2, ClientFacts
<1>4. "quit" \in Message /\ "other_side_quit" \in Message
  BY DEF Message
<1>5. /\ first = [to_client EXCEPT ![id] = IF clients[id].status = "IDLE" THEN @
                                           ELSE Told(view[id], @, "quit")]
      /\ first \in [Id -> Seq(Message)]
  <2>1. to_client \in [Id -> Seq(Message)]
    BY DEF IInv, Away
  <2>2. /\ Reply(to_client, id, "quit") = [to_client EXCEPT ![id] = Told(view[id], @, "quit")]
        /\ Reply(to_client, id, "quit") \in [Id -> Seq(Message)]
    BY <1>2, <1>4, <2>1, ReplyTells
  <2> QED
    BY <1>3, <2>1, <2>2
<1>6. talks => o \in DOMAIN clients \ {id} /\ clients[o] \in Client /\ o \in Id
  BY <1>2, OtherSideFacts, ClientFacts
<1>7. /\ DOMAIN clients' = DOMAIN clients
      /\ \A x \in DOMAIN clients :
           x # id /\ ~(talks /\ x = o) => clients'[x] = clients[x]
      /\ clients'[id] = [clients[id] EXCEPT !.cmd_queue = Tail(@), !.status = "IDLE"]
      /\ talks => clients'[o] = [clients[o] EXCEPT !.status = "IDLE"]
      /\ to_client' = IF talks THEN Reply(first, o, "other_side_quit") ELSE first
  <2>1. CASE talks
    <3>1. /\ clients' = [Taken(id) EXCEPT ![id].status = "IDLE", ![o].status = "IDLE"]
          /\ to_client' = Reply(Reply(to_client, id, "quit"), o, "other_side_quit")
      BY <2>1 DEF Quit
    <3> QED
      BY <1>2, <1>6, <2>1, <3>1 DEF Taken
  <2>2. CASE clients[id].status = "MATCHING"
    BY <1>2, <2>2 DEF Quit, Taken
  <2>3. CASE clients[id].status = "IDLE"
    <3>1. clients' = Taken(id) /\ to_client' = first
      BY <2>3 DEF Quit
    <3>2. [clients[id] EXCEPT !.cmd_queue = Tail(@)]
            = [clients[id] EXCEPT !.cmd_queue = Tail(@), !.status = "IDLE"]
      BY <1>3, <2>3 DEF Client
    <3> QED
      BY <1>2, <2>3, <3>1, <3>2 DEF Taken
  <2> QED
    BY <1>3, <2>1, <2>2, <2>3 DEF Status
<1>8. /\ to_client' \in [Id -> Seq(Message)]
      /\ \A x \in Id :
           to_client'[x] = IF talks /\ x = o THEN Told(view[o], to_client[o], "other_side_quit")
                           ELSE IF x = id /\ clients[id].status # "IDLE"
                                THEN Told(view[id], to_client[id], "quit")
                                ELSE to_client[x]
  <2>1. CASE talks
    <3>1. /\ to_client' = [first EXCEPT ![o] = Told(view[o], @, "other_side_quit")]
          /\ to_client' \in [Id -> Seq(Message)]
      <4>1. to_client' = Reply(first, o, "other_side_quit")
        BY <1>7, <2>1
      <4>2. o \in DOMAIN clients /\ first \in [Id -> Seq(Message)]
        BY <1>5, <1>6, <2>1
      <4> HIDE DEF first, o
      <4>3. /\ Reply(first, o, "other_side_quit")
                 = [first EXCEPT ![o] = Told(view[o], @, "other_side_quit")]
            /\ Reply(first, o, "other_side_quit") \in [Id -> Seq(Message)]
        BY <1>4, <4>2, ReplyTells
      <4> QED
        BY <4>1, <4>3
    <3> HIDE DEF first, o
    <3> QED
      BY <1>3, <1>5, <1>6, <2>1, <3>1 DEF IInv, Away
  <2>2. CASE ~talks
    <3> HIDE DEF first, o
    <3> QED
      BY <1>3, <1>5, <1>7, <2>2 DEF IInv, Away
  <2> QED
    BY <2>1, <2>2
<1> HIDE DEF first, o
<1>9. Orderly(id)
  <2>1. \A x \in DOMAIN clients : clients[x] \in Client
    BY ClientFacts
  <2>2. clients'[id] \in Client
    BY <1>2, <1>3, <1>7, QueuedType DEF Client, Status
  <2>3. talks => clients'[o] \in Client
    BY <1>6, <1>7 DEF Client, Status
  <2>4. \A x \in Id : view[x] = "outside" => to_client'[x] = <<>>
    BY <1>3, <1>6, <1>8 DEF IInv, Away, Told
  <2>5. ASSUME NEW x \in DOMAIN clients
        PROVE  /\ clients'[x] \in Client
               /\ clients'[x].socket_fd = clients[x].socket_fd
               /\ clients'[x].buffer = clients[x].buffer
               /\ clients'[x].cmd_queue = IF x = id THEN Tail(clients[id].cmd_queue)
                                                    ELSE clients[x].cmd_queue
    <3>1. CASE x = id
      BY <1>3, <1>7, <2>2, <3>1 DEF Client
    <3>2. CASE talks /\ x = o
      BY <1>6, <1>7, <2>3, <3>2 DEF Client
    <3>3. CASE x # id /\ ~(talks /\ x = o)
      BY <1>7, <2>1, <3>3
    <3> QED
      BY <3>1, <3>2, <3>3
  <2> QED
    BY <1>7, <1>8, <2>4, <2>5 DEF Orderly
<1>10. UNCHANGED fd_to_id /\ UNCHANGED <<view, to_server>>
  BY <1>1 DEF Turn, clientVars
<1>11. Partners'
  <2> SUFFICES ASSUME NEW x \in DOMAIN clients, clients'[x].status = "TALKING"
               PROVE  /\ clients'[x].match_fd \in DOMAIN fd_to_id'
                      /\ OtherSide(x)' # x
                      /\ clients'[OtherSide(x)'].status = "TALKING"
                      /\ clients'[OtherSide(x)'].match_fd = clients'[x].socket_fd
    BY <1>7 DEF Partners
  <2>1. x # id /\ ~(talks /\ x = o)
    BY <1>3, <1>6, <1>7 DEF Client
  <2>2. clients'[x] = clients[x]
    BY <1>7, <2>1
  <2>3. /\ OtherSide(x) \in DOMAIN clients /\ OtherSide(OtherSide(x)) = x
        /\ clients[OtherSide(x)].status = "TALKING"
    BY <2>2, OtherSideFacts
  <2>4. OtherSide(x) # id /\ ~(talks /\ OtherSide(x) = o)
    <3>1. talks => OtherSide(o) = id
      BY <1>2, OtherSideFacts DEF o
    <3> QED
      BY <2>1, <2>3, <3>1 DEF o
  <2>5. clients'[OtherSide(x)] = clients[OtherSide(x)]
    BY <1>7, <2>3, <2>4
  <2> QED
    BY <1>10, <2>2, <2>3, <2>5, StillPartners
<1>12. ASSUME NEW x \in DOMAIN clients PROVE InStepOf(x)'
  <2>1. x \in Id /\ InStepOf(x) /\ to_client[x] \in Seq(Message) /\ view[x] \in State
    BY ClientFacts
  <2>2. Stream(x)' = Stream(x)
    BY <1>9, <1>10 DEF Stream, Orderly
  <2>3. CASE x = id
    <3>1. Protocol(view[id], "IDLE", Tail(p), IF clients[id].status = "IDLE" THEN to_client[id]
                                              ELSE Told(view[id], to_client[id], "quit"))
      BY <1>2, <1>3, ProtocolQuitServed DEF InStepOf
    <3>2. /\ clients'[id].status = "IDLE" /\ clients'[id].cmd_queue = Tail(q)
          /\ to_client'[id] = IF clients[id].status = "IDLE" THEN to_client[id]
                              ELSE Told(view[id], to_client[id], "quit")
      BY <1>2, <1>3, <1>6, <1>7, <1>8 DEF Client
    <3> QED
      BY <1>2, <1>10, <2>2, <2>3, <3>1, <3>2 DEF InStepOf
  <2>4. CASE talks /\ x = o
    <3>1. clients[o].status = "TALKING"
      BY <1>2, <2>4, OtherSideFacts DEF o
    <3>2. Protocol(view[o], "IDLE", Pending(clients[o].cmd_queue, Stream(o)),
                   Told(view[o], to_client[o], "other_side_quit"))
      BY <2>1, <2>4, <3>1, ProtocolLeft DEF InStepOf
    <3>3. /\ clients'[o].status = "IDLE" /\ clients'[o].cmd_queue = clients[o].cmd_queue
          /\ to_client'[o] = Told(view[o], to_client[o], "other_side_quit")
      BY <1>6, <1>7, <1>8, <2>4 DEF Client
    <3> QED
      BY <1>10, <2>2, <2>4, <3>2, <3>3 DEF InStepOf
  <2>5. CASE x # id /\ ~(talks /\ x = o)
    <3>1. clients'[x].status = clients[x].status /\ to_client'[x] = to_client[x]
      BY <1>7, <1>8, <2>1, <2>5
    <3> QED
      BY <1>1, <1>9, <2>5, <3>1, TurnInStep
  <2> QED
    BY <2>3, <2>4, <2>5
<1> QED
  BY <1>1, <1>7, <1>9, <1>11, <1>12, TurnPreserves DEF IInv, InStep

\* Every line is a command.
LEMMA NoBadLine ==
  ASSUME IInv, NEW id
  PROVE  ~BadLine(id)
<1> SUFFICES ASSUME BadLine(id) PROVE FALSE
  OBVIOUS
<1>1. id \in DOMAIN clients /\ clients[id].cmd_queue # <<>>
  BY DEF BadLine, IInv, Served
<1>2. Head(clients[id].cmd_queue) \in {<<cmd>> : cmd \in Command}
  BY <1>1, HeadTailProperties DEF IInv, Served
<1> QED
  BY <1>2 DEF BadLine, NextLine

-----------------------------------------------------------------------------
(* The other handlers of the server.                                       *)

\* Two clients that wait get each other's fd, and are told.
LEMMA HandleMatchPreserves ==
  ASSUME IInv, NEW id, NEW target, HandleMatch(id, target)
  PROVE  IInv'
<1> DEFINE first == Reply(to_client, id, "matched")
<1>0. /\ serving = {} /\ id \in DOMAIN clients /\ target \in DOMAIN clients /\ id # target
      /\ UNCHANGED unique_id_count /\ UNCHANGED fd_to_id /\ UNCHANGED serving
      /\ UNCHANGED to_server /\ UNCHANGED process /\ UNCHANGED view
      /\ UNCHANGED tries /\ UNCHANGED says
  BY DEF HandleMatch, clientVars
<1>1. /\ serving = {} /\ {id, target} \subseteq DOMAIN clients /\ id # target
      /\ clients[id].status = "MATCHING" /\ clients[target].status = "MATCHING"
      /\ clients' = [clients EXCEPT ![id].match_fd = clients[target].socket_fd,
                                    ![target].match_fd = clients[id].socket_fd,
                                    ![id].status = "TALKING", ![target].status = "TALKING"]
      /\ to_client' = Reply(first, target, "matched")
      /\ UNCHANGED <<unique_id_count, fd_to_id, serving, to_server, process, clientVars>>
  BY DEF HandleMatch
<1>2. /\ DOMAIN clients' = DOMAIN clients
      /\ \A x \in DOMAIN clients : x \notin {id, target} => clients'[x] = clients[x]
      /\ clients'[id] = [clients[id] EXCEPT !.match_fd = clients[target].socket_fd,
                                            !.status = "TALKING"]
      /\ clients'[target] = [clients[target] EXCEPT !.match_fd = clients[id].socket_fd,
                                                    !.status = "TALKING"]
  BY <1>1
<1>3. \A x \in DOMAIN clients : clients[x] \in Client /\ x \in Id
  BY ClientFacts
<1>4. /\ to_client' \in [Id -> Seq(Message)]
      /\ \A x \in Id : to_client'[x] = IF x \in {id, target}
                                       THEN Told(view[x], to_client[x], "matched")
                                       ELSE to_client[x]
  <2>1. "matched" \in Message /\ to_client \in [Id -> Seq(Message)]
    BY DEF Message, IInv, Away
  <2>2. /\ first = [to_client EXCEPT ![id] = Told(view[id], @, "matched")]
        /\ first \in [Id -> Seq(Message)]
    BY <1>1, <2>1, ReplyTells
  <2> HIDE DEF first
  <2>3. /\ to_client' = [first EXCEPT ![target] = Told(view[target], @, "matched")]
        /\ to_client' \in [Id -> Seq(Message)]
    <3>0. first \in [Id -> Seq(Message)] /\ "matched" \in Message
      BY <2>1, <2>2
    <3>1. target \in DOMAIN clients /\ to_client' = Reply(first, target, "matched")
      BY <1>1
    <3>2. /\ Reply(first, target, "matched")
               = [first EXCEPT ![target] = Told(view[target], @, "matched")]
          /\ Reply(first, target, "matched") \in [Id -> Seq(Message)]
      BY <3>0, <3>1, ReplyTells
    <3> QED
      BY <3>1, <3>2
  <2> QED
    BY <1>1, <1>3, <2>1, <2>2, <2>3
<1> HIDE DEF first
<1>5. \A x \in DOMAIN clients :
        /\ clients'[x] \in Client
        /\ clients'[x].socket_fd = clients[x].socket_fd
        /\ clients'[x].buffer = clients[x].buffer
        /\ clients'[x].cmd_queue = clients[x].cmd_queue
  <2>1. \A x \in DOMAIN clients : clients[x].socket_fd \in Fd
    BY <1>3 DEF Client
  <2>2. clients'[id] \in Client /\ clients'[target] \in Client
    BY <1>0, <1>2, <1>3, <2>1 DEF Client, Status
  <2> TAKE x \in DOMAIN clients
  <2>3. CASE x = id
    BY <1>0, <1>2, <1>3, <2>2, <2>3 DEF Client
  <2>4. CASE x = target
    BY <1>0, <1>2, <1>3, <2>2, <2>4 DEF Client
  <2>5. CASE x \notin {id, target}
    BY <1>2, <1>3, <2>5
  <2> QED
    BY <2>3, <2>4, <2>5
<1>6. SessionTypeOK'
  <2>1. Cardinality(serving') <= 1
    BY <1>0 DEF IInv, SessionTypeOK
  <2> QED
    BY <1>0, <1>2, <1>5, <2>1 DEF IInv, SessionTypeOK, Client, Status
<1>7. ServerSurvives' /\ Registered' /\ Served'
  <2>1. ServerSurvives' /\ Registered'
    BY <1>0, <1>2, <1>5 DEF IInv, ServerSurvives, Registered
  <2>2. Served'
    BY <1>0, <1>2, <1>5 DEF IInv, Served
  <2> QED
    BY <2>1, <2>2
<1>8. Away'
  BY <1>0, <1>2, <1>4 DEF IInv, Away, Told
<1>9. Framed'
  <2>1. \A x \in DOMAIN clients : Stream(x)' = Stream(x)
    BY <1>0, <1>5 DEF Stream
  <2>2. DOMAIN clients' = DOMAIN clients
    BY <1>2
  <2> QED
    BY <1>0, <1>5, <2>1, <2>2 DEF IInv, Framed
<1>10. Partners'
  <2> SUFFICES ASSUME NEW x \in DOMAIN clients, clients'[x].status = "TALKING"
               PROVE  /\ clients'[x].match_fd \in DOMAIN fd_to_id'
                      /\ OtherSide(x)' # x
                      /\ clients'[OtherSide(x)'].status = "TALKING"
                      /\ clients'[OtherSide(x)'].match_fd = clients'[x].socket_fd
    BY <1>2 DEF Partners
  <2>1. \A y \in {id, target} :
          clients[y].socket_fd \in DOMAIN fd_to_id /\ fd_to_id[clients[y].socket_fd] = y
    BY <1>1 DEF IInv, Registered
  <2>2. CASE x = id
    <3>1. clients'[id].match_fd = clients[target].socket_fd
      BY <1>1, <1>2, <1>3 DEF Client
    <3>2. OtherSide(id)' = target
      BY <1>1, <2>1, <3>1 DEF OtherSide
    <3>3. /\ clients'[target].status = "TALKING"
          /\ clients'[target].match_fd = clients[id].socket_fd
          /\ clients'[id].socket_fd = clients[id].socket_fd
      BY <1>1, <1>2, <1>3 DEF Client
    <3> QED
      BY <1>1, <2>1, <2>2, <3>1, <3>2, <3>3
  <2>3. CASE x = target
    <3>1. clients'[target].match_fd = clients[id].socket_fd
      BY <1>1, <1>2, <1>3 DEF Client
    <3>2. OtherSide(target)' = id
      BY <1>1, <2>1, <3>1 DEF OtherSide
    <3>3. /\ clients'[id].status = "TALKING"
          /\ clients'[id].match_fd = clients[target].socket_fd
          /\ clients'[target].socket_fd = clients[target].socket_fd
      BY <1>1, <1>2, <1>3 DEF Client
    <3> QED
      BY <1>1, <2>1, <2>3, <3>1, <3>2, <3>3
  <2>4. CASE x \notin {id, target}
    <3>1. clients'[x] = clients[x]
      BY <1>2, <2>4
    <3>2. OtherSide(x) \in DOMAIN clients /\ clients[OtherSide(x)].status = "TALKING"
      BY <2>4, <3>1, OtherSideFacts
    <3>3. clients'[OtherSide(x)] = clients[OtherSide(x)]
      BY <1>1, <1>2, <3>2
    <3> QED
      BY <1>1, <3>1, <3>2, <3>3, StillPartners
  <2> QED
    BY <2>2, <2>3, <2>4
<1>11. ASSUME NEW x \in DOMAIN clients PROVE InStepOf(x)'
  <2>1. x \in Id /\ InStepOf(x) /\ to_client[x] \in Seq(Message) /\ view[x] \in State
    BY ClientFacts
  <2>2. view'[x] = view[x] /\ to_server'[x] = to_server[x]
    BY <1>1 DEF clientVars
  <2>3. Stream(x)' = Stream(x)
    BY <1>5, <2>2 DEF Stream
  <2>4. CASE x \in {id, target}
    <3>1. Protocol(view[x], "TALKING", Pending(clients[x].cmd_queue, Stream(x)),
                   Told(view[x], to_client[x], "matched"))
      BY <1>1, <2>1, <2>4, ProtocolMatched DEF InStepOf
    <3>2. clients'[x].status = "TALKING"
      BY <1>1, <1>2, <1>3, <2>4 DEF Client
    <3> QED
      BY <1>4, <1>5, <2>1, <2>2, <2>3, <2>4, <3>1, <3>2 DEF InStepOf
  <2>5. CASE x \notin {id, target}
    BY <1>2, <1>4, <2>1, <2>2, <2>5, StillInStep
  <2> QED
    BY <2>4, <2>5
<1> QED
  BY <1>2, <1>6, <1>7, <1>8, <1>9, <1>10, <1>11 DEF IInv, InStep

-----------------------------------------------------------------------------
(* The client programs.                                                    *)

\* The bounds of a client program.
Counted ==
  /\ tries \in [Id -> Nat] /\ says \in [Id -> Nat]
  /\ \A x \in Id : tries[x] <= MaxTry[x] /\ says[x] <= MaxSay[x]

\* What a step of one client program does and leaves alone.
OwnStep(id) ==
  /\ UNCHANGED serverVars
  /\ view' \in [Id -> State] /\ to_server' \in [Id -> Seq(Unit)]
  /\ to_client' \in [Id -> Seq(Message)]
  /\ Counted'
  /\ \A x \in Id \ {id} : /\ view'[x] = view[x]
                          /\ to_server'[x] = to_server[x]
                          /\ to_client'[x] = to_client[x]
  /\ view'[id] = "outside" => to_client'[id] = <<>>
  /\ Framing(Stream(id)')
  /\ view'[id] # "outside" => Len(Stream(id)') % 2 = 0

\* A step of one client program concerns nobody else.
LEMMA OwnStepPreserves ==
  ASSUME IInv, NEW id \in DOMAIN clients, OwnStep(id), InStepOf(id)'
  PROVE  IInv'
<1>1. /\ UNCHANGED unique_id_count /\ UNCHANGED fd_to_id /\ UNCHANGED clients
      /\ UNCHANGED serving /\ UNCHANGED process
  BY DEF OwnStep, serverVars
<1>2. SessionTypeOK'
  BY <1>1 DEF IInv, SessionTypeOK, OwnStep, Counted, State
<1>3. ServerSurvives' /\ Registered' /\ Served'
  BY <1>1 DEF IInv, ServerSurvives, Registered, Served
<1>4. Partners'
  BY <1>1 DEF IInv, Partners, OtherSide
<1>5. Away'
  BY <1>1 DEF IInv, Away, OwnStep
<1>6. Framed'
  <2> SUFFICES ASSUME NEW x \in DOMAIN clients
               PROVE  /\ Len(clients'[x].buffer) <= 1
                      /\ Framing(Stream(x)')
                      /\ view'[x] # "outside" => Len(Stream(x)') % 2 = 0
    BY <1>1 DEF Framed
  <2>1. Len(clients'[x].buffer) <= 1
    BY <1>1 DEF IInv, Framed
  <2>2. CASE x = id
    BY <2>1, <2>2 DEF OwnStep
  <2>3. CASE x # id
    <3>1. x \in Id
      BY ClientFacts
    <3>2. Stream(x)' = Stream(x) /\ view'[x] = view[x]
      BY <1>1, <2>3, <3>1 DEF Stream, OwnStep
    <3> QED
      BY <2>1, <3>2 DEF IInv, Framed
  <2> QED
    BY <2>2, <2>3
<1>7. InStep'
  <2>1. ASSUME NEW x \in DOMAIN clients, x # id PROVE InStepOf(x)'
    <3>1. x \in Id /\ InStepOf(x)
      BY ClientFacts
    <3>2. view'[x] = view[x] /\ to_server'[x] = to_server[x] /\ to_client'[x] = to_client[x]
      BY <2>1, <3>1 DEF OwnStep
    <3> QED
      BY <1>1, <3>1, <3>2, StillInStep
  <2> QED
    BY <1>1, <2>1 DEF InStep
<1> QED
  BY <1>2, <1>3, <1>4, <1>5, <1>6, <1>7 DEF IInv

\* Whoever has a connection is known to the server.
LEMMA Connected ==
  ASSUME IInv, NEW id \in Id, view[id] # "outside"
  PROVE  /\ id \in DOMAIN clients /\ clients[id].buffer \in Seq(Unit)
         /\ Len(Stream(id)) % 2 = 0
BY ClientFacts DEF IInv, Away, Framed

\* A command joins the stream whole.
LEMMA SendFacts ==
  ASSUME IInv, NEW id \in Id, view[id] # "outside", NEW cmd \in Command, Send(id, cmd)
  PROVE  /\ to_server' \in [Id -> Seq(Unit)]
         /\ \A x \in Id \ {id} : to_server'[x] = to_server[x]
         /\ Framing(Stream(id)') /\ Len(Stream(id)') % 2 = 0
         /\ Pending(clients'[id].cmd_queue, Stream(id)')
              = Append(Pending(clients[id].cmd_queue, Stream(id)), cmd)
         /\ UNCHANGED serverVars /\ UNCHANGED clients /\ UNCHANGED to_client
<1> DEFINE b == clients[id].buffer
           x == to_server[id]
           two == <<cmd, Newline>>
           q == clients[id].cmd_queue
<1>1. /\ id \in DOMAIN clients /\ Len(Stream(id)) % 2 = 0
      /\ b \in Seq(Unit) /\ x \in Seq(Unit) /\ q \in Queued
      /\ Stream(id) \in Seq(Unit) /\ Framing(Stream(id))
  BY Connected, ClientFacts
<1>2. /\ to_server' = [to_server EXCEPT ![id] = @ \o two]
      /\ UNCHANGED serverVars /\ UNCHANGED clients /\ UNCHANGED to_client
  BY DEF Send, serverVars
<1>3. to_server \in [Id -> Seq(Unit)]
  BY DEF IInv, SessionTypeOK
<1>4. two \in Seq(Unit)
  BY DEF Unit
<1>5. /\ Framing(Stream(id) \o two) /\ Len(Stream(id) \o two) % 2 = 0
      /\ Pending(q, Stream(id) \o two) = Append(Pending(q, Stream(id)), cmd)
  BY <1>1, PendingSent
<1> HIDE DEF two
<1>6. (b \o x) \o two = b \o (x \o two)
  <2>1. b \in Seq(Unit) /\ x \in Seq(Unit)
    BY <1>1
  <2> HIDE DEF b, x
  <2> QED
    BY <1>4, <2>1, ConcatAssociative
<1>7. Stream(id)' = Stream(id) \o two
  BY <1>2, <1>3, <1>6 DEF Stream
<1>8. x \o two \in Seq(Unit)
  BY <1>1, <1>4, ConcatProperties
<1> QED
  BY <1>2, <1>3, <1>5, <1>7, <1>8

\* The bounds are kept.
LEMMA CountedUp ==
  ASSUME IInv, NEW id \in Id
  PROVE  /\ tries[id] < MaxTry[id] /\ tries' = [tries EXCEPT ![id] = @ + 1] /\ says' = says
              => Counted'
         /\ says[id] < MaxSay[id] /\ says' = [says EXCEPT ![id] = @ + 1] /\ tries' = tries
              => Counted'
         /\ tries' = tries /\ says' = says => Counted'
<1>1. Counted
  BY DEF IInv, SessionTypeOK, Counted
<1>2. MaxTry[id] \in Nat /\ MaxSay[id] \in Nat
  BY SessionAssumption
<1>3. tries[id] \in Nat /\ says[id] \in Nat
  BY <1>1 DEF Counted
<1>4. ASSUME tries[id] < MaxTry[id], tries' = [tries EXCEPT ![id] = @ + 1], says' = says
      PROVE  Counted'
  BY <1>1, <1>2, <1>3, <1>4 DEF Counted
<1>5. ASSUME says[id] < MaxSay[id], says' = [says EXCEPT ![id] = @ + 1], tries' = tries
      PROVE  Counted'
  BY <1>1, <1>2, <1>3, <1>5 DEF Counted
<1> QED
  BY <1>1, <1>4, <1>5 DEF Counted

\* A client asks.
LEMMA AskMatchPreserves ==
  ASSUME IInv, NEW id \in Id, AskMatch(id)
  PROVE  IInv'
<1> DEFINE p == Pending(clients[id].cmd_queue, Stream(id))
<1>1. /\ view[id] = "idle" /\ tries[id] < MaxTry[id]
      /\ view' = [view EXCEPT ![id] = "matching"]
      /\ tries' = [tries EXCEPT ![id] = @ + 1]
      /\ says' = says /\ Send(id, "try_match") /\ "try_match" \in Command
  BY DEF AskMatch, Command
<1>2. /\ to_server' \in [Id -> Seq(Unit)]
      /\ \A x \in Id \ {id} : to_server'[x] = to_server[x]
      /\ Framing(Stream(id)') /\ Len(Stream(id)') % 2 = 0
      /\ Pending(clients'[id].cmd_queue, Stream(id)') = Append(p, "try_match")
      /\ UNCHANGED serverVars /\ UNCHANGED clients /\ UNCHANGED to_client
  BY <1>1, SendFacts
<1>3. id \in DOMAIN clients
  BY <1>1, Connected
<1>4. p \in Seq(Command) /\ InStepOf(id)
  BY <1>3, ClientFacts
<1>5. view \in [Id -> State] /\ to_client \in [Id -> Seq(Message)]
  BY DEF IInv, SessionTypeOK, Away, State
<1>6. Counted'
  BY <1>1, CountedUp
<1>7. /\ view' \in [Id -> State] /\ view'[id] = "matching"
      /\ \A x \in Id \ {id} : view'[x] = view[x]
  BY <1>1, <1>5 DEF State
<1>8. OwnStep(id)
  BY <1>2, <1>5, <1>6, <1>7 DEF OwnStep
<1>9. InStepOf(id)'
  <2>1. Protocol("matching", clients[id].status, Append(p, "try_match"), to_client[id])
    BY <1>1, <1>4, ProtocolAsks DEF InStepOf
  <2> QED
    BY <1>2, <1>7, <2>1 DEF InStepOf
<1> QED
  BY <1>3, <1>8, <1>9, OwnStepPreserves

\* A client says something.
LEMMA SayPreserves ==
  ASSUME IInv, NEW id \in Id, Say(id)
  PROVE  IInv'
<1> DEFINE p == Pending(clients[id].cmd_queue, Stream(id))
<1>1. /\ view[id] = "talking" /\ says[id] < MaxSay[id]
      /\ says' = [says EXCEPT ![id] = @ + 1]
      /\ view' = view /\ tries' = tries /\ Send(id, "send_message")
      /\ "send_message" \in Command
  BY DEF Say, Command
<1>2. /\ to_server' \in [Id -> Seq(Unit)]
      /\ \A x \in Id \ {id} : to_server'[x] = to_server[x]
      /\ Framing(Stream(id)') /\ Len(Stream(id)') % 2 = 0
      /\ Pending(clients'[id].cmd_queue, Stream(id)') = Append(p, "send_message")
      /\ UNCHANGED serverVars /\ UNCHANGED clients /\ UNCHANGED to_client
  BY <1>1, SendFacts
<1>3. id \in DOMAIN clients
  BY <1>1, Connected
<1>4. p \in Seq(Command) /\ InStepOf(id)
  BY <1>3, ClientFacts
<1>5. view \in [Id -> State] /\ to_client \in [Id -> Seq(Message)]
  BY DEF IInv, SessionTypeOK, Away, State
<1>6. Counted'
  BY <1>1, CountedUp
<1>7. OwnStep(id)
  BY <1>1, <1>2, <1>5, <1>6 DEF OwnStep
<1>8. InStepOf(id)'
  <2>1. Protocol("talking", clients[id].status, Append(p, "send_message"), to_client[id])
    BY <1>1, <1>4, ProtocolSays DEF InStepOf
  <2> QED
    BY <1>1, <1>2, <2>1 DEF InStepOf
<1> QED
  BY <1>3, <1>7, <1>8, OwnStepPreserves

\* A client quits.
LEMMA AskQuitPreserves ==
  ASSUME IInv, NEW id \in Id, AskQuit(id)
  PROVE  IInv'
<1> DEFINE p == Pending(clients[id].cmd_queue, Stream(id))
<1>1. /\ view[id] \in {"matching", "talking"}
      /\ view' = [view EXCEPT ![id] = "quitting"]
      /\ tries' = tries /\ says' = says /\ Send(id, "quit") /\ "quit" \in Command
  BY DEF AskQuit, Command
<1>2. /\ to_server' \in [Id -> Seq(Unit)]
      /\ \A x \in Id \ {id} : to_server'[x] = to_server[x]
      /\ Framing(Stream(id)') /\ Len(Stream(id)') % 2 = 0
      /\ Pending(clients'[id].cmd_queue, Stream(id)') = Append(p, "quit")
      /\ UNCHANGED serverVars /\ UNCHANGED clients /\ UNCHANGED to_client
  BY <1>1, SendFacts
<1>3. id \in DOMAIN clients
  BY <1>1, Connected
<1>4. p \in Seq(Command) /\ InStepOf(id)
  BY <1>3, ClientFacts
<1>5. view \in [Id -> State] /\ to_client \in [Id -> Seq(Message)]
  BY DEF IInv, SessionTypeOK, Away, State
<1>6. Counted'
  BY <1>1, CountedUp
<1>7. /\ view' \in [Id -> State] /\ view'[id] = "quitting"
      /\ \A x \in Id \ {id} : view'[x] = view[x]
  BY <1>1, <1>5 DEF State
<1>8. OwnStep(id)
  BY <1>2, <1>5, <1>6, <1>7 DEF OwnStep
<1>9. InStepOf(id)'
  <2>1. Protocol("quitting", clients[id].status, Append(p, "quit"), to_client[id])
    BY <1>1, <1>4, ProtocolQuits DEF InStepOf
  <2> QED
    BY <1>2, <1>7, <2>1 DEF InStepOf
<1> QED
  BY <1>3, <1>8, <1>9, OwnStepPreserves

\* What was not read, and what a reset loses, is nothing to the protocol.
LEMMA ClosePreserves ==
  ASSUME IInv, NEW id \in Id, Close(id)
  PROVE  IInv'
<1> DEFINE q == clients[id].cmd_queue
           b == clients[id].buffer
           x == to_server[id]
<1>1. /\ view[id] # "outside" /\ view' = [view EXCEPT ![id] = "outside"]
      /\ to_server' = to_server \/ to_server' = [to_server EXCEPT ![id] = <<>>]
      /\ to_client' = [to_client EXCEPT ![id] = <<>>]
      /\ UNCHANGED serverVars /\ UNCHANGED clients /\ tries' = tries /\ says' = says
  BY DEF Close, serverVars
<1>2. id \in DOMAIN clients
  BY <1>1, Connected
<1>3. /\ q \in Queued /\ b \in Seq(Unit) /\ x \in Seq(Unit)
      /\ Stream(id) \in Seq(Unit) /\ Framing(Stream(id))
      /\ Pending(q, Stream(id)) \in Seq(Command) /\ InStepOf(id)
  BY <1>2, ClientFacts
<1>4. /\ view \in [Id -> State] /\ to_client \in [Id -> Seq(Message)]
      /\ to_server \in [Id -> Seq(Unit)]
  BY DEF IInv, SessionTypeOK, Away, State
<1>5. /\ view' \in [Id -> State] /\ view'[id] = "outside"
      /\ \A y \in Id \ {id} : view'[y] = view[y]
  BY <1>1, <1>4 DEF State
<1>6. /\ to_client' \in [Id -> Seq(Message)] /\ to_client'[id] = <<>>
      /\ \A y \in Id \ {id} : to_client'[y] = to_client[y]
  BY <1>1, <1>4
<1>7. /\ to_server' \in [Id -> Seq(Unit)]
      /\ to_server'[id] = x \/ to_server'[id] = <<>>
      /\ \A y \in Id \ {id} : to_server'[y] = to_server[y]
  <2>1. CASE to_server' = to_server
    BY <1>4, <2>1
  <2>2. CASE to_server' = [to_server EXCEPT ![id] = <<>>]
    BY <1>4, <2>2
  <2> QED
    BY <1>1, <2>1, <2>2
<1>8. Stream(id)' = Stream(id) \/ Stream(id)' = b
  <2>1. b \o <<>> = b
    BY <1>3, ConcatSimplifications
  <2> QED
    BY <1>1, <1>7, <2>1 DEF Stream
<1>9. /\ Framing(b) /\ Len(Pending(q, b)) <= Len(Pending(q, Stream(id)))
      /\ \A i \in 1..Len(Pending(q, b)) : Pending(q, b)[i] = Pending(q, Stream(id))[i]
  BY <1>3, PendingLost DEF Stream
<1>10. OwnStep(id)
  BY <1>1, <1>3, <1>5, <1>6, <1>7, <1>8, <1>9, CountedUp DEF OwnStep
<1>11. InStepOf(id)'
  <2> DEFINE p == Pending(q, Stream(id))
             u == Pending(q, Stream(id)')
  <2>1. u = p \/ u = Pending(q, b)
    BY <1>8
  <2>2. u \in Seq(Command)
    <3>1. Pending(q, b) \in Seq(Command)
      BY <1>3, <1>9, PendingProps
    <3> QED
      BY <1>3, <2>1, <3>1
  <2>3. Len(u) <= Len(p) /\ \A i \in 1..Len(u) : u[i] = p[i]
    <3>1. Len(p) \in Nat
      BY <1>3, LenProperties
    <3> QED
      BY <1>9, <2>1, <3>1
  <2>4. Protocol(view[id], clients[id].status, p, to_client[id]) /\ p \in Seq(Command)
    BY <1>3 DEF InStepOf
  <2> HIDE DEF p, u
  <2>5. Protocol("outside", clients[id].status, u, <<>>)
    BY <2>2, <2>3, <2>4, ProtocolLeaves
  <2> QED
    BY <1>1, <1>5, <1>6, <2>5 DEF InStepOf, u
<1> QED
  BY <1>2, <1>10, <1>11, OwnStepPreserves

\* A client reads a reply.
LEMMA ReadPreserves ==
  ASSUME IInv, NEW id \in Id, Read(id)
  PROVE  IInv'
<1> DEFINE p == Pending(clients[id].cmd_queue, Stream(id))
           r == to_client[id]
           new == Reads(view[id], Head(r))
<1>1. /\ r # <<>>
      /\ view' = [view EXCEPT ![id] = new]
      /\ to_client' = [to_client EXCEPT ![id] = Tail(@)]
      /\ UNCHANGED serverVars /\ UNCHANGED clients /\ to_server' = to_server
      /\ tries' = tries /\ says' = says
  BY DEF Read, serverVars
<1>2. view[id] # "outside"
  BY <1>1 DEF IInv, Away
<1>3. id \in DOMAIN clients /\ Len(Stream(id)) % 2 = 0
  BY <1>2, Connected
<1>4. /\ p \in Seq(Command) /\ r \in Seq(Message) /\ view[id] \in State
      /\ clients[id].status \in Status /\ InStepOf(id) /\ Framing(Stream(id))
  BY <1>3, ClientFacts
<1>5. /\ new \in State \ {"outside"}
      /\ Protocol(new, clients[id].status, p, Tail(r))
  BY <1>1, <1>2, <1>4, ProtocolReads DEF InStepOf
<1>6. /\ view \in [Id -> State] /\ to_client \in [Id -> Seq(Message)]
      /\ to_server \in [Id -> Seq(Unit)]
  BY DEF IInv, SessionTypeOK, Away, State
<1>7. Tail(r) \in Seq(Message)
  BY <1>1, <1>4, HeadTailProperties
<1> HIDE DEF new
<1>8. /\ view' \in [Id -> State] /\ view'[id] = new
      /\ \A y \in Id \ {id} : view'[y] = view[y]
  BY <1>1, <1>5, <1>6
<1>9. /\ to_client' \in [Id -> Seq(Message)] /\ to_client'[id] = Tail(r)
      /\ \A y \in Id \ {id} : to_client'[y] = to_client[y]
  BY <1>1, <1>6, <1>7
<1>10. Stream(id)' = Stream(id)
  BY <1>1 DEF Stream
<1>11. OwnStep(id)
  BY <1>1, <1>3, <1>4, <1>5, <1>6, <1>8, <1>9, <1>10, CountedUp DEF OwnStep
<1>12. InStepOf(id)'
  BY <1>1, <1>5, <1>8, <1>9, <1>10 DEF InStepOf
<1> QED
  BY <1>3, <1>11, <1>12, OwnStepPreserves

-----------------------------------------------------------------------------
(* socket_recv().                                                          *)

\* The beginning of two joined lists is dropped from the first.
LEMMA AfterConcat ==
  ASSUME NEW S, NEW s \in Seq(S), NEW t \in Seq(S), NEW k \in 0..Len(s)
  PROVE  After(s \o t, k) = After(s, k) \o t
<1> DEFINE st == s \o t
           a == After(s, k)
           u == After(st, k)
           v == a \o t
<1>1. Len(s) \in Nat /\ Len(t) \in Nat
  BY LenProperties
<1>2. /\ st \in Seq(S) /\ Len(st) = Len(s) + Len(t)
      /\ \A i \in 1..(Len(s) + Len(t)) : st[i] = IF i <= Len(s) THEN s[i] ELSE t[i - Len(s)]
  BY ConcatProperties
<1>3. /\ a \in Seq(S) /\ Len(a) = Len(s) - k
      /\ \A i \in 1..(Len(s) - k) : a[i] = s[k + i]
  BY AfterProps
<1>4. k \in 0..Len(st)
  BY <1>1, <1>2
<1>5. /\ u \in Seq(S) /\ Len(u) = Len(st) - k
      /\ \A i \in 1..(Len(st) - k) : u[i] = st[k + i]
  <2> HIDE DEF st
  <2> QED
    BY <1>2, <1>4, AfterProps
<1>6. /\ v \in Seq(S) /\ Len(v) = Len(a) + Len(t)
      /\ \A i \in 1..(Len(a) + Len(t)) : v[i] = IF i <= Len(a) THEN a[i] ELSE t[i - Len(a)]
  <2> HIDE DEF a
  <2> QED
    BY <1>3, ConcatProperties
<1>7. Len(u) = Len(v)
  <2> HIDE DEF st, a, u, v
  <2> QED
    BY <1>1, <1>2, <1>3, <1>5, <1>6
<1>8. ASSUME NEW i \in 1..Len(u) PROVE u[i] = v[i]
  <2> HIDE DEF st, a, u, v
  <2>1. /\ i \in 1..(Len(st) - k) /\ i \in 1..(Len(a) + Len(t))
        /\ k + i \in 1..(Len(s) + Len(t))
    BY <1>1, <1>2, <1>3, <1>5
  <2>2. u[i] = st[k + i]
    BY <1>5, <2>1
  <2>3. st[k + i] = IF k + i <= Len(s) THEN s[k + i] ELSE t[(k + i) - Len(s)]
    BY <1>2, <2>1
  <2>4. v[i] = IF i <= Len(a) THEN a[i] ELSE t[i - Len(a)]
    BY <1>6, <2>1
  <2>5. CASE i <= Len(a)
    <3>1. k + i <= Len(s) /\ a[i] = s[k + i]
      BY <1>1, <1>3, <2>5
    <3> QED
      BY <2>2, <2>3, <2>4, <2>5, <3>1
  <2>6. CASE ~(i <= Len(a))
    <3>1. ~(k + i <= Len(s)) /\ (k + i) - Len(s) = i - Len(a)
      BY <1>1, <1>3, <2>6
    <3> QED
      BY <2>2, <2>3, <2>4, <2>6, <3>1
  <2> QED
    BY <2>5, <2>6
<1> HIDE DEF u, v
<1>9. u = v
  BY <1>5, <1>6, <1>7, <1>8, SeqEqual
<1> QED
  BY <1>9 DEF u, v

\* From the buffer b and the stream x: the lines got[1], the new buffer got[2],
\* and what is left of the stream.
CutUp(b, x, got, left) ==
  /\ got[1] \in Queued
  /\ got[2] \in Seq(Unit) /\ Len(got[2]) <= 1
  /\ left \in Seq(Unit)
  /\ Framing(got[2] \o left)
  /\ Len(got[2] \o left) % 2 = Len(b \o x) % 2
  /\ Pending(got[1], got[2] \o left) = Pending(<<>>, b \o x)

\* Whatever piece recv() returns, the lines are the next commands, and the
\* buffer is the part of one that has come without its end, if any has.
LEMMA Received ==
  ASSUME NEW b \in Seq(Unit), Len(b) <= 1, NEW x \in Seq(Unit), Framing(b \o x),
         NEW n \in 1..Len(x)
  PROVE  CutUp(b, x, Lines(Joined(b, SubSeq(x, 1, n)), SubSeq(x, 1, n)), After(x, n))
<1> DEFINE left == After(x, n)
           piece == SubSeq(x, 1, n)
           got == Lines(Joined(b, piece), piece)
           s == b \o piece
           all == b \o x
           m == Len(s) \div 2
           mm == 2 * m
           q == [i \in 1..m |-> <<s[2*i-1]>>]
<1>1. Len(x) \in Nat /\ Len(b) \in Nat /\ n \in 0..Len(x)
  BY LenProperties
<1>2. left \in Seq(Unit) /\ piece \in Seq(Unit) /\ Len(piece) = n
  BY <1>1, AfterProps, PrefixProps
<1>3. piece \o left = x
  <2> DEFINE one == 1
  <2>1. one \in 1..(Len(x) + 1) /\ n \in (one - 1)..Len(x) /\ Len(x) \in n..Len(x)
    BY <1>1
  <2>2. piece = SubSeq(x, one, n) /\ left = SubSeq(x, n + 1, Len(x))
        /\ SubSeq(x, one, Len(x)) = x
    BY SubSeqFull DEF After
  <2> HIDE DEF one, left, piece
  <2>3. SubSeq(x, one, n) \o SubSeq(x, n + 1, Len(x)) = SubSeq(x, one, Len(x))
    BY <2>1, ConcatAdjacentSubSeq
  <2> QED
    BY <2>2, <2>3
<1> HIDE DEF left, piece
<1>4. s \in Seq(Unit) /\ s \o left = all
  <2>1. piece \in Seq(Unit) /\ left \in Seq(Unit)
    BY <1>2
  <2>2. (b \o piece) \o left = b \o (piece \o left)
    BY <2>1, ConcatAssociative, SMTT(30)
  <2> QED
    BY <1>3, <2>1, <2>2, ConcatProperties
<1>5. all \in Seq(Unit)
  BY ConcatProperties
<1>6. Framing(s)
  <2> DEFINE e == <<>>
  <2>1. e \in Queued
    BY DEF Queued
  <2> HIDE DEF e, s
  <2> QED
    BY <1>2, <1>4, <2>1, PendingLost
<1>7. got = <<q, After(s, mm)>>
  <2>1. Framing(b \o piece)
    BY <1>6
  <2>2. Lines(b \o piece, piece) = CutLines(b \o piece, Len(b \o piece) \div 2)
    BY <1>2, <2>1, LinesOf
  <2>3. got = CutLines(s, m)
    BY <2>2 DEF Joined
  <2> QED
    BY <2>3 DEF CutLines
<1>8. Len(s) \in Nat
  BY <1>4, LenProperties
<1> HIDE DEF s, all
<1>9. m \in Nat /\ mm \in 0..Len(s) /\ Len(s) - mm <= 1
  <2>1. \A k \in Nat : k \div 2 \in Nat /\ 2 * (k \div 2) <= k /\ k - 2 * (k \div 2) <= 1
    OBVIOUS
  <2> QED
    BY <1>8, <2>1
<1>10. /\ Len(all) = Len(s) + Len(left)
       /\ \A i \in 1..Len(s) : all[i] = s[i]
       /\ Len(left) \in Nat
  <2>1. Len(left) \in Nat
    BY <1>2, LenProperties
  <2>2. /\ Len(s \o left) = Len(s) + Len(left)
        /\ \A i \in 1..(Len(s) + Len(left)) :
             (s \o left)[i] = IF i <= Len(s) THEN s[i] ELSE left[i - Len(s)]
    BY <1>2, <1>4, ConcatProperties
  <2> QED
    BY <1>4, <1>8, <2>1, <2>2
<1>11. q = [i \in 1..m |-> <<all[2*i-1]>>]
  <2>1. \A i \in 1..m : 2*i-1 \in 1..Len(s)
    BY <1>8, <1>9
  <2> HIDE DEF m
  <2> QED
    BY <1>10, <2>1
<1> HIDE DEF q
<1>12. After(s, mm) \in Seq(Unit) /\ Len(After(s, mm)) = Len(s) - mm
  <2> HIDE DEF mm
  <2> QED
    BY <1>4, <1>9, AfterProps
<1>13. After(s, mm) \o left = After(all, mm)
  <2> HIDE DEF mm
  <2> QED
    BY <1>2, <1>4, <1>9, AfterConcat
<1>14. /\ q \in Queued /\ Framing(After(all, mm))
       /\ Pending(q, After(all, mm)) = Pending(<<>>, all)
  <2>1. 2 * m <= Len(all)
    BY <1>8, <1>9, <1>10
  <2>2. Framing(all)
    BY DEF all
  <2> HIDE DEF m
  <2> QED
    BY <1>5, <1>9, <1>11, <2>1, <2>2, PendingCut
<1>15. Len(After(all, mm)) % 2 = Len(all) % 2
  <2>1. mm \in 0..Len(all) /\ Len(all) \in Nat
    BY <1>8, <1>9, <1>10
  <2>2. Len(After(all, mm)) = Len(all) - mm
    <3> HIDE DEF mm
    <3> QED
      BY <1>5, <2>1, AfterProps
  <2>3. \A k, l \in Nat : 2 * l <= k => (k - 2 * l) % 2 = k % 2
    OBVIOUS
  <2> HIDE DEF m
  <2> QED
    BY <1>9, <2>1, <2>2, <2>3
<1>16. got[1] = q /\ got[2] = After(s, mm)
  BY <1>7
<1> HIDE DEF m, mm, got
<1>17. CutUp(b, x, got, left)
  BY <1>2, <1>8, <1>9, <1>12, <1>13, <1>14, <1>15, <1>16 DEF all, CutUp
<1> QED
  BY <1>17 DEF left, got, piece

\* A piece of the stream becomes lines and a new buffer.
LEMMA RecvPreserves ==
  ASSUME IInv, NEW id, Recv(id)
  PROVE  IInv'
<1> DEFINE b == clients[id].buffer
           x == to_server[id]
           q == clients[id].cmd_queue
<1>1. /\ serving = {} /\ id \in DOMAIN clients
      /\ UNCHANGED unique_id_count /\ UNCHANGED fd_to_id /\ UNCHANGED to_client
      /\ UNCHANGED process /\ UNCHANGED view /\ UNCHANGED tries /\ UNCHANGED says
  BY DEF Recv, clientVars
<1>2. PICK n \in 1..Len(x) :
        LET piece == SubSeq(x, 1, n)
            got == Lines(Joined(b, piece), piece)
        IN /\ clients' = [clients EXCEPT ![id].buffer = got[2], ![id].cmd_queue = got[1]]
           /\ to_server' = [to_server EXCEPT ![id] = SubSeq(@, n + 1, Len(@))]
           /\ serving' = IF got[1] = <<>> THEN {} ELSE {id}
  BY DEF Recv
<1> DEFINE piece == SubSeq(x, 1, n)
           got == Lines(Joined(b, piece), piece)
           lines == got[1]
           rest == got[2]
           left == After(x, n)
<1>3. /\ clients' = [clients EXCEPT ![id].buffer = rest, ![id].cmd_queue = lines]
      /\ to_server' = [to_server EXCEPT ![id] = left]
      /\ serving' = IF lines = <<>> THEN {} ELSE {id}
  BY <1>2 DEF After
<1>4. /\ id \in Id /\ clients[id] \in Client /\ b \in Seq(Unit) /\ x \in Seq(Unit)
      /\ InStepOf(id) /\ Stream(id) = b \o x /\ Framing(b \o x)
  BY <1>1, ClientFacts DEF Stream
<1>5. Len(b) <= 1 /\ (view[id] # "outside" => Len(b \o x) % 2 = 0)
  BY <1>1, <1>4 DEF IInv, Framed
<1>6. q = <<>>
  BY <1>1 DEF IInv, Served
<1>7. /\ lines \in Queued
      /\ rest \in Seq(Unit) /\ Len(rest) <= 1 /\ left \in Seq(Unit)
      /\ Framing(rest \o left) /\ Len(rest \o left) % 2 = Len(b \o x) % 2
      /\ Pending(lines, rest \o left) = Pending(<<>>, b \o x)
  <2>1. CutUp(b, x, got, left)
    <3> HIDE DEF b, x
    <3> QED
      BY <1>2, <1>4, <1>5, Received
  <2> HIDE DEF got, left, b, x
  <2> QED
    BY <2>1 DEF CutUp
<1> HIDE DEF lines, rest, left
<1>8. /\ DOMAIN clients' = DOMAIN clients
      /\ \A y \in DOMAIN clients \ {id} : clients'[y] = clients[y]
  BY <1>1, <1>3
<1>9. /\ clients'[id] \in Client
      /\ clients'[id].socket_fd = clients[id].socket_fd
      /\ clients'[id].match_fd = clients[id].match_fd
      /\ clients'[id].status = clients[id].status
      /\ clients'[id].buffer = rest /\ clients'[id].cmd_queue = lines
  <2>1. clients'[id] = [clients[id] EXCEPT !.buffer = rest, !.cmd_queue = lines]
    BY <1>1, <1>3
  <2>2. lines \in Seq(Seq(Unit))
    BY <1>7, QueuedType
  <2> QED
    BY <1>4, <1>7, <2>1, <2>2 DEF Client
<1>10. /\ to_server' \in [Id -> Seq(Unit)] /\ to_server'[id] = left
       /\ \A y \in Id \ {id} : to_server'[y] = to_server[y]
  BY <1>3, <1>4, <1>7 DEF IInv, SessionTypeOK
<1>11. \A y \in DOMAIN clients : /\ y \in Id /\ clients'[y] \in Client
                                 /\ clients'[y].socket_fd = clients[y].socket_fd
                                 /\ clients'[y].match_fd = clients[y].match_fd
                                 /\ clients'[y].status = clients[y].status
  BY <1>8, <1>9, ClientFacts
<1>12. SessionTypeOK'
  <2>1. Single(serving') /\ serving' \subseteq Id
    BY <1>3, <1>4 DEF Single
  <2>2. Cardinality(serving') <= 1
    BY <2>1, AtMostOne
  <2> QED
    BY <1>1, <1>8, <1>10, <1>11, <2>1, <2>2 DEF IInv, SessionTypeOK, Client, Status
<1>13. ServerSurvives' /\ Registered'
  BY <1>1, <1>8, <1>11 DEF IInv, ServerSurvives, Registered
<1>14. Served'
  <2>1. \A y \in DOMAIN clients \ {id} : clients[y].cmd_queue = <<>>
    BY <1>1 DEF IInv, Served
  <2> QED
    BY <1>1, <1>3, <1>7, <1>8, <1>9, <2>1 DEF IInv, Served, Queued
<1>15. Away'
  BY <1>1, <1>8, <1>10 DEF IInv, Away
<1>16. Stream(id)' = rest \o left
  BY <1>9, <1>10 DEF Stream
<1>17. ASSUME NEW y \in DOMAIN clients, y # id
       PROVE  Stream(y)' = Stream(y) /\ InStepOf(y)'
  <2>1. y \in Id /\ InStepOf(y)
    BY ClientFacts
  <2>2. clients'[y] = clients[y] /\ to_server'[y] = to_server[y]
    BY <1>8, <1>10, <1>17, <2>1
  <2> QED
    BY <1>1, <2>1, <2>2, StillInStep DEF Stream
<1>18. Framed'
  <2> SUFFICES ASSUME NEW y \in DOMAIN clients
               PROVE  /\ Len(clients'[y].buffer) <= 1
                      /\ Framing(Stream(y)')
                      /\ view'[y] # "outside" => Len(Stream(y)') % 2 = 0
    BY <1>8 DEF Framed
  <2>1. CASE y = id
    BY <1>1, <1>5, <1>7, <1>9, <1>16, <2>1
  <2>2. CASE y # id
    BY <1>1, <1>8, <1>17, <2>2 DEF IInv, Framed
  <2> QED
    BY <2>1, <2>2
<1>19. Partners'
  <2>1. \A y \in DOMAIN clients : OtherSide(y)' = OtherSide(y)
    BY <1>1, <1>11 DEF OtherSide
  <2> QED
    BY <1>1, <1>8, <1>11, <2>1, OtherSideFacts DEF Partners
<1>20. InStepOf(id)'
  BY <1>1, <1>4, <1>6, <1>7, <1>9, <1>16 DEF InStepOf
<1> QED
  BY <1>8, <1>12, <1>13, <1>14, <1>15, <1>17, <1>18, <1>19, <1>20 DEF IInv, InStep

-----------------------------------------------------------------------------
(* accept() and the end of a connection.                                   *)

\* While a client may still come there is a free fd, for every fd in use is
\* that of a client of its own.
LEMMA FdIsFree ==
  ASSUME IInv, unique_id_count \in Id
  PROVE  Min(Fd \ DOMAIN fd_to_id) \in Fd \ DOMAIN fd_to_id
<1> DEFINE free == Fd \ DOMAIN fd_to_id
           ids == 0..(unique_id_count - 1)
           f == [fd \in Fd |-> fd_to_id[fd]]
<1>1. MaxClients \in Nat \ {0}
  BY SessionAssumption
<1>2. free \in SUBSET Nat
  BY <1>1 DEF Fd
<1>3. ASSUME Fd \subseteq DOMAIN fd_to_id PROVE FALSE
  <2>1. \A fd \in Fd : fd_to_id[fd] \in ids /\ clients[fd_to_id[fd]].socket_fd = fd
    <3> SUFFICES ASSUME NEW fd \in Fd
                 PROVE  fd_to_id[fd] \in ids /\ clients[fd_to_id[fd]].socket_fd = fd
      OBVIOUS
    <3>1. /\ fd_to_id[fd] \in DOMAIN clients
          /\ clients[fd_to_id[fd]].socket_fd = fd
      BY <1>3 DEF IInv, Registered
    <3>2. fd_to_id[fd] < unique_id_count /\ fd_to_id[fd] \in Id
      BY <3>1, ClientFacts DEF IInv, Registered
    <3> QED
      BY <1>1, <3>1, <3>2 DEF Id
  <2>2. f \in [Fd -> ids]
    BY <2>1
  <2>3. /\ IsFiniteSet(Fd) /\ Cardinality(Fd) = MaxClients
        /\ IsFiniteSet(ids) /\ Cardinality(ids) = unique_id_count
    <3> DEFINE one == 1
               top == unique_id_count - 1
               zero == 0
    <3>1. /\ one \in Int /\ zero \in Int /\ top \in Int /\ MaxClients \in Int
          /\ ~(one > MaxClients) /\ MaxClients - one + 1 = MaxClients
          /\ IF zero > top THEN unique_id_count = 0 ELSE top - zero + 1 = unique_id_count
      BY <1>1 DEF Id
    <3>2. Fd = one..MaxClients /\ ids = zero..top
      BY DEF Fd
    <3> HIDE DEF one, zero, top, ids
    <3>3. /\ IsFiniteSet(one..MaxClients)
          /\ Cardinality(one..MaxClients)
               = IF one > MaxClients THEN 0 ELSE MaxClients - one + 1
          /\ IsFiniteSet(zero..top)
          /\ Cardinality(zero..top) = IF zero > top THEN 0 ELSE top - zero + 1
      BY <3>1, FS_Interval
    <3> QED
      BY <3>1, <3>2, <3>3
  <2>4. Cardinality(ids) < Cardinality(Fd)
    BY <1>1, <2>3 DEF Id
  <2> HIDE DEF f, ids
  <2>5. PICK x, y \in Fd : x # y /\ f[x] = f[y]
    BY <2>2, <2>3, <2>4, FS_PigeonHole
  <2> QED
    BY <2>1, <2>5 DEF f
<1>4. free # {}
  BY <1>3
<1> HIDE DEF free
<1>5. Min(free) \in free
  BY <1>2, <1>4, MinOfNats
<1> QED
  BY <1>5 DEF free

\* A new client has an fd and an id of its own, and nobody talks to it.
LEMMA AcceptPreserves ==
  ASSUME IInv, Accept
  PROVE  IInv'
<1> DEFINE new_fd == Min(Fd \ DOMAIN fd_to_id)
<1>0. PICK id \in Id : id = unique_id_count
  BY DEF Accept
<1>1. /\ serving = {} /\ id = unique_id_count
      /\ fd_to_id' = WithEntry(fd_to_id, new_fd, id)
      /\ clients' = WithEntry(clients, id, NewClient(new_fd))
      /\ unique_id_count' = id + 1
      /\ view' = [view EXCEPT ![id] = "idle"]
      /\ UNCHANGED serving /\ UNCHANGED to_server /\ UNCHANGED to_client
      /\ UNCHANGED process /\ UNCHANGED tries /\ UNCHANGED says
  BY <1>0 DEF Accept
<1>2. new_fd \in Fd \ DOMAIN fd_to_id
  BY <1>1, FdIsFree
<1> HIDE DEF new_fd
<1>3. id \in Nat /\ id + 1 \in 0..MaxClients
  BY <1>1, SessionAssumption DEF Id
<1>4. id \notin DOMAIN clients
  BY <1>1, <1>3 DEF IInv, Registered
<1>5. view[id] = "outside" /\ to_server[id] = <<>> /\ to_client[id] = <<>>
  BY <1>1, <1>4 DEF IInv, Away
<1>6. /\ DOMAIN fd_to_id' = DOMAIN fd_to_id \union {new_fd}
      /\ fd_to_id'[new_fd] = id
      /\ \A fd \in DOMAIN fd_to_id : fd_to_id'[fd] = fd_to_id[fd]
  BY <1>1, <1>2 DEF WithEntry
<1>7. /\ DOMAIN clients' = DOMAIN clients \union {id}
      /\ clients'[id] = NewClient(new_fd)
      /\ \A x \in DOMAIN clients : x # id /\ clients'[x] = clients[x]
  BY <1>1, <1>4 DEF WithEntry
<1>8. /\ clients'[id] \in Client
      /\ clients'[id].socket_fd = new_fd /\ clients'[id].status = "IDLE"
      /\ clients'[id].buffer = <<>> /\ clients'[id].cmd_queue = <<>>
  BY <1>2, <1>7 DEF NewClient, Client, Status
<1>9. /\ view' \in [Id -> State] /\ view'[id] = "idle"
      /\ \A x \in Id \ {id} : view'[x] = view[x]
  BY <1>1 DEF IInv, SessionTypeOK, State
<1>10. \A x \in DOMAIN clients : /\ x \in Id /\ clients[x] \in Client /\ x # id
                                 /\ clients'[x] = clients[x] /\ view'[x] = view[x]
  BY <1>7, <1>9, ClientFacts
<1>11. SessionTypeOK'
  <2>1. /\ DOMAIN fd_to_id' \subseteq Fd
        /\ \A fd \in DOMAIN fd_to_id' : fd_to_id'[fd] \in Id
    BY <1>1, <1>2, <1>6 DEF IInv, SessionTypeOK
  <2>2. /\ DOMAIN clients' \subseteq Id
        /\ \A x \in DOMAIN clients' : clients'[x] \in Client
    BY <1>1, <1>7, <1>8, <1>10
  <2>3. serving' \subseteq Id /\ Cardinality(serving') <= 1
    BY <1>1 DEF IInv, SessionTypeOK
  <2> QED
    BY <1>1, <1>3, <1>9, <2>1, <2>2, <2>3 DEF IInv, SessionTypeOK, Client, Status, State
<1>12. ServerSurvives'
  BY <1>1 DEF IInv, ServerSurvives
<1>13. Registered'
  <2>1. ASSUME NEW x \in DOMAIN clients'
        PROVE  /\ x < unique_id_count'
               /\ clients'[x].socket_fd \in DOMAIN fd_to_id'
               /\ fd_to_id'[clients'[x].socket_fd] = x
    <3>1. CASE x = id
      BY <1>1, <1>3, <1>6, <1>8, <3>1
    <3>2. CASE x # id
      <4>1. x \in DOMAIN clients /\ clients'[x] = clients[x] /\ x \in Id
        BY <1>7, <1>10, <3>2
      <4>2. /\ x < id /\ clients[x].socket_fd \in DOMAIN fd_to_id
            /\ fd_to_id[clients[x].socket_fd] = x
        BY <1>1, <4>1 DEF IInv, Registered
      <4>3. x < id + 1
        BY <1>3, <4>1, <4>2 DEF Id
      <4> QED
        BY <1>1, <1>6, <4>1, <4>2, <4>3
    <3> QED
      BY <3>1, <3>2
  <2>2. ASSUME NEW fd \in DOMAIN fd_to_id'
        PROVE  /\ fd_to_id'[fd] \in DOMAIN clients'
               /\ clients'[fd_to_id'[fd]].socket_fd = fd
    <3>1. CASE fd = new_fd
      BY <1>6, <1>7, <1>8, <3>1
    <3>2. CASE fd # new_fd
      <4>1. fd \in DOMAIN fd_to_id /\ fd_to_id'[fd] = fd_to_id[fd]
        BY <1>6, <3>2
      <4>2. fd_to_id[fd] \in DOMAIN clients /\ clients[fd_to_id[fd]].socket_fd = fd
        BY <4>1 DEF IInv, Registered
      <4> QED
        BY <1>7, <4>1, <4>2
    <3> QED
      BY <3>1, <3>2
  <2> QED
    BY <2>1, <2>2 DEF Registered
<1>14. Served'
  <2>1. <<>> \in Queued
    BY DEF Queued
  <2>2. \A x \in DOMAIN clients : clients[x].cmd_queue = <<>>
    BY <1>1 DEF IInv, Served
  <2>3. \A x \in DOMAIN clients' : clients'[x].cmd_queue = <<>>
    BY <1>7, <1>8, <2>2
  <2> QED
    BY <1>1, <2>1, <2>3 DEF Served, Queued
<1>15. Away'
  BY <1>1, <1>5, <1>7, <1>9 DEF IInv, Away
<1>16. Stream(id)' = <<>>
  <2>1. <<>> \o <<>> = <<>>
    BY ConcatSimplifications
  <2> QED
    BY <1>1, <1>5, <1>8, <2>1 DEF Stream
<1>17. Framed'
  <2> SUFFICES ASSUME NEW x \in DOMAIN clients'
               PROVE  /\ Len(clients'[x].buffer) <= 1
                      /\ Framing(Stream(x)')
                      /\ view'[x] # "outside" => Len(Stream(x)') % 2 = 0
    BY DEF Framed
  <2>1. CASE x = id
    <3>1. Framing(<<>>) /\ Len(<<>>) = 0 /\ 0 % 2 = 0
      BY DEF Framing
    <3> QED
      BY <1>8, <1>16, <2>1, <3>1
  <2>2. CASE x # id
    <3>1. x \in DOMAIN clients /\ clients'[x] = clients[x] /\ view'[x] = view[x]
      BY <1>7, <1>10, <2>2
    <3>2. Stream(x)' = Stream(x)
      BY <1>1, <3>1 DEF Stream
    <3> QED
      BY <3>1, <3>2 DEF IInv, Framed
  <2> QED
    BY <2>1, <2>2
<1>18. Partners'
  <2> SUFFICES ASSUME NEW x \in DOMAIN clients', clients'[x].status = "TALKING"
               PROVE  /\ clients'[x].match_fd \in DOMAIN fd_to_id'
                      /\ OtherSide(x)' # x
                      /\ clients'[OtherSide(x)'].status = "TALKING"
                      /\ clients'[OtherSide(x)'].match_fd = clients'[x].socket_fd
    BY DEF Partners
  <2>1. x # id
    BY <1>8
  <2>2. x \in DOMAIN clients /\ clients'[x] = clients[x]
    BY <1>7, <2>1
  <2>3. /\ clients[x].match_fd \in DOMAIN fd_to_id
        /\ OtherSide(x) \in DOMAIN clients \ {x}
        /\ clients[OtherSide(x)].status = "TALKING"
        /\ clients[OtherSide(x)].match_fd = clients[x].socket_fd
    BY <2>2, OtherSideFacts
  <2>4. OtherSide(x)' = OtherSide(x)
    BY <1>6, <2>2, <2>3 DEF OtherSide
  <2> QED
    BY <1>6, <1>7, <2>2, <2>3, <2>4
<1>19. InStep'
  <2> SUFFICES ASSUME NEW x \in DOMAIN clients' PROVE InStepOf(x)'
    BY DEF InStep
  <2>1. CASE x = id
    <3>1. Pending(<<>>, <<>>) = <<>>
      BY NothingPending
    <3>2. Protocol("idle", "IDLE", <<>>, <<>>)
      BY NothingSaid DEF Protocol
    <3> QED
      BY <1>1, <1>5, <1>8, <1>9, <1>16, <2>1, <3>1, <3>2 DEF InStepOf
  <2>2. CASE x # id
    <3>1. x \in DOMAIN clients /\ clients'[x] = clients[x] /\ view'[x] = view[x] /\ InStepOf(x)
      BY <1>7, <1>10, <2>2, ClientFacts
    <3> QED
      BY <1>1, <3>1, StillInStep
  <2> QED
    BY <2>1, <2>2
<1> QED
  BY <1>11, <1>12, <1>13, <1>14, <1>15, <1>17, <1>18, <1>19 DEF IInv

\* The other side of a conversation that ends is told so, and its status is
\* that of a client that may ask again.
LEMMA DisconnectPreserves ==
  ASSUME IInv, NEW id, Disconnect(id)
  PROVE  IInv'
<1> DEFINE talks == clients[id].status = "TALKING"
           o == OtherSide(id)
           told == IF talks THEN [clients EXCEPT ![o].status = "IDLE"] ELSE clients
           fd == clients[id].socket_fd
<1>1. /\ serving = {} /\ id \in DOMAIN clients /\ view[id] = "outside" /\ to_server[id] = <<>>
      /\ clients' = Restrict(told, DOMAIN clients \ {id})
      /\ to_client' = IF talks THEN Reply(to_client, o, "other_side_quit") ELSE to_client
      /\ fd_to_id' = Restrict(fd_to_id, DOMAIN fd_to_id \ {fd})
      /\ UNCHANGED unique_id_count /\ UNCHANGED serving /\ UNCHANGED to_server
      /\ UNCHANGED process /\ UNCHANGED view /\ UNCHANGED tries /\ UNCHANGED says
  BY DEF Disconnect, clientVars
<1>2. talks => /\ o \in DOMAIN clients \ {id} /\ OtherSide(o) = id
               /\ clients[o].status = "TALKING"
  BY <1>1, OtherSideFacts
<1>3. \A x \in DOMAIN clients : x \in Id /\ clients[x] \in Client
  BY ClientFacts
<1>4. /\ DOMAIN clients' = DOMAIN clients \ {id}
      /\ \A x \in DOMAIN clients' : clients'[x] = told[x]
  BY <1>1 DEF Restrict
<1> HIDE DEF o
<1>5. /\ talks => told[o] = [clients[o] EXCEPT !.status = "IDLE"]
      /\ \A x \in DOMAIN clients : ~(talks /\ x = o) => told[x] = clients[x]
  BY <1>2
<1> HIDE DEF told
<1>6. ASSUME NEW x \in DOMAIN clients'
      PROVE  /\ x \in DOMAIN clients /\ x # id /\ x \in Id
             /\ clients'[x] \in Client
             /\ clients'[x].socket_fd = clients[x].socket_fd
             /\ clients'[x].match_fd = clients[x].match_fd
             /\ clients'[x].buffer = clients[x].buffer
             /\ clients'[x].cmd_queue = clients[x].cmd_queue
             /\ clients'[x].status = IF talks /\ x = o THEN "IDLE" ELSE clients[x].status
  <2>1. x \in DOMAIN clients /\ x # id /\ x \in Id /\ clients[x] \in Client
        /\ clients'[x] = told[x]
    BY <1>3, <1>4
  <2>2. CASE talks /\ x = o
    <3>1. clients'[x] = [clients[x] EXCEPT !.status = "IDLE"]
      BY <1>5, <2>1, <2>2
    <3> QED
      BY <2>1, <2>2, <3>1 DEF Client, Status
  <2>3. CASE ~(talks /\ x = o)
    BY <1>5, <2>1, <2>3
  <2> QED
    BY <2>1, <2>2, <2>3
<1>7. /\ to_client' \in [Id -> Seq(Message)]
      /\ \A x \in Id : to_client'[x] = IF talks /\ x = o
                                       THEN Told(view[o], to_client[o], "other_side_quit")
                                       ELSE to_client[x]
  <2>1. to_client \in [Id -> Seq(Message)] /\ "other_side_quit" \in Message
    BY DEF IInv, Away, Message
  <2>2. CASE talks
    <3>1. o \in DOMAIN clients /\ to_client' = Reply(to_client, o, "other_side_quit")
      BY <1>1, <1>2, <2>2
    <3>2. /\ Reply(to_client, o, "other_side_quit")
               = [to_client EXCEPT ![o] = Told(view[o], @, "other_side_quit")]
          /\ Reply(to_client, o, "other_side_quit") \in [Id -> Seq(Message)]
      BY <2>1, <3>1, ReplyTells
    <3> QED
      BY <1>3, <2>1, <2>2, <3>1, <3>2
  <2>3. CASE ~talks
    BY <1>1, <2>1, <2>3
  <2> QED
    BY <2>2, <2>3
<1> HIDE DEF talks
<1>8. /\ DOMAIN fd_to_id' = DOMAIN fd_to_id \ {fd}
      /\ \A g \in DOMAIN fd_to_id' : fd_to_id'[g] = fd_to_id[g]
  BY <1>1 DEF Restrict
<1>9. ASSUME NEW x \in DOMAIN clients'
      PROVE  clients[x].socket_fd \in DOMAIN fd_to_id' /\ clients[x].socket_fd # fd
  <2>1. x \in DOMAIN clients /\ x # id
    BY <1>6
  <2>2. clients[x].socket_fd \in DOMAIN fd_to_id
    BY <2>1 DEF IInv, Registered
  <2>3. clients[x].socket_fd # fd
    BY <1>1, <2>1, FdsDiffer
  <2> QED
    BY <1>8, <2>2, <2>3
<1>10. SessionTypeOK'
  <2>1. serving' \subseteq Id /\ Cardinality(serving') <= 1
    BY <1>1 DEF IInv, SessionTypeOK
  <2>2. /\ DOMAIN fd_to_id' \subseteq Fd
        /\ \A g \in DOMAIN fd_to_id' : fd_to_id'[g] \in Id
    BY <1>8 DEF IInv, SessionTypeOK
  <2>3. /\ DOMAIN clients' \subseteq Id
        /\ \A x \in DOMAIN clients' : clients'[x] \in Client
    BY <1>6
  <2> QED
    BY <1>1, <2>1, <2>2, <2>3 DEF IInv, SessionTypeOK, Client, Status
<1>11. ServerSurvives'
  BY <1>1 DEF IInv, ServerSurvives
<1>12. Registered'
  <2>1. ASSUME NEW x \in DOMAIN clients'
        PROVE  /\ x < unique_id_count'
               /\ clients'[x].socket_fd \in DOMAIN fd_to_id'
               /\ fd_to_id'[clients'[x].socket_fd] = x
    <3>1. x < unique_id_count /\ fd_to_id[clients[x].socket_fd] = x
      BY <1>6 DEF IInv, Registered
    <3>2. /\ unique_id_count' = unique_id_count
          /\ clients'[x].socket_fd = clients[x].socket_fd
      BY <1>1, <1>6
    <3>3. clients[x].socket_fd \in DOMAIN fd_to_id'
      BY <1>9
    <3> QED
      BY <1>8, <3>1, <3>2, <3>3
  <2>2. ASSUME NEW g \in DOMAIN fd_to_id'
        PROVE  /\ fd_to_id'[g] \in DOMAIN clients'
               /\ clients'[fd_to_id'[g]].socket_fd = g
    <3>1. g \in DOMAIN fd_to_id /\ g # fd /\ fd_to_id'[g] = fd_to_id[g]
      BY <1>8
    <3>2. fd_to_id[g] \in DOMAIN clients /\ clients[fd_to_id[g]].socket_fd = g
      BY <3>1 DEF IInv, Registered
    <3>3. fd_to_id[g] \in DOMAIN clients'
      BY <1>4, <3>1, <3>2
    <3> QED
      BY <1>6, <3>1, <3>2, <3>3
  <2> QED
    BY <2>1, <2>2 DEF Registered
<1>13. Served'
  <2>1. \A x \in DOMAIN clients :
          /\ clients[x].cmd_queue = <<>>
          /\ clients[x].cmd_queue \in Seq({<<cmd>> : cmd \in Command})
    BY <1>1 DEF IInv, Served
  <2> QED
    BY <1>1, <1>6, <2>1 DEF Served
<1>14. Away'
  <2> SUFFICES ASSUME NEW x \in Id
               PROVE  /\ view[x] = "outside" => to_client'[x] = <<>>
                      /\ x \notin DOMAIN clients' => view[x] = "outside" /\ to_server[x] = <<>>
    BY <1>1, <1>7 DEF Away
  <2>1. view[x] = "outside" => to_client'[x] = <<>>
    BY <1>7 DEF IInv, Away, Told
  <2>2. x \notin DOMAIN clients' => view[x] = "outside" /\ to_server[x] = <<>>
    BY <1>1, <1>4 DEF IInv, Away
  <2> QED
    BY <2>1, <2>2
<1>15. \A x \in DOMAIN clients' : Stream(x)' = Stream(x)
  BY <1>1, <1>6 DEF Stream
<1>16. Framed'
  <2> SUFFICES ASSUME NEW x \in DOMAIN clients'
               PROVE  /\ Len(clients'[x].buffer) <= 1
                      /\ Framing(Stream(x)')
                      /\ view'[x] # "outside" => Len(Stream(x)') % 2 = 0
    BY DEF Framed
  <2> QED
    BY <1>1, <1>6, <1>15 DEF IInv, Framed
<1>17. Partners'
  <2> SUFFICES ASSUME NEW x \in DOMAIN clients', clients'[x].status = "TALKING"
               PROVE  /\ clients'[x].match_fd \in DOMAIN fd_to_id'
                      /\ OtherSide(x)' # x
                      /\ clients'[OtherSide(x)'].status = "TALKING"
                      /\ clients'[OtherSide(x)'].match_fd = clients'[x].socket_fd
    BY DEF Partners
  <2> DEFINE y == OtherSide(x)
  <2>1. x \in DOMAIN clients /\ x # id /\ clients[x].status = "TALKING" /\ ~(talks /\ x = o)
    BY <1>6
  <2>2. /\ y \in DOMAIN clients \ {x} /\ OtherSide(y) = x
        /\ clients[x].match_fd \in DOMAIN fd_to_id
        /\ clients[y].socket_fd = clients[x].match_fd
        /\ clients[y].status = "TALKING"
        /\ clients[y].match_fd = clients[x].socket_fd
    BY <2>1, OtherSideFacts
  <2> HIDE DEF y
  <2>3. y # id
    BY <2>1, <2>2 DEF talks, o
  <2>4. ~(talks /\ y = o)
    BY <1>2, <2>1, <2>2
  <2>5. /\ y \in DOMAIN clients' /\ clients'[y].status = "TALKING"
        /\ clients'[y].match_fd = clients[y].match_fd
    BY <1>4, <1>6, <2>2, <2>3, <2>4
  <2>6. clients[x].match_fd \in DOMAIN fd_to_id'
    BY <1>9, <2>2, <2>5
  <2>7. fd_to_id[clients[x].match_fd] = y
    BY <2>2 DEF y, OtherSide
  <2>8. OtherSide(x)' = y
    <3>1. clients'[x].match_fd = clients[x].match_fd
      BY <1>6
    <3> QED
      BY <1>8, <2>6, <2>7, <3>1 DEF OtherSide
  <2> QED
    BY <1>6, <2>2, <2>5, <2>6, <2>8
<1>18. InStep'
  <2> SUFFICES ASSUME NEW x \in DOMAIN clients' PROVE InStepOf(x)'
    BY DEF InStep
  <2>1. /\ x \in DOMAIN clients /\ InStepOf(x) /\ x \in Id
        /\ to_client[x] \in Seq(Message) /\ view[x] \in State
    BY <1>6, ClientFacts
  <2>2. CASE talks /\ x = o
    <3>1. Protocol(view[x], "IDLE", Pending(clients[x].cmd_queue, Stream(x)),
                   Told(view[x], to_client[x], "other_side_quit"))
      BY <1>2, <2>1, <2>2, ProtocolLeft DEF InStepOf
    <3>2. /\ clients'[x].status = "IDLE" /\ clients'[x].cmd_queue = clients[x].cmd_queue
          /\ to_client'[x] = Told(view[x], to_client[x], "other_side_quit")
      BY <1>6, <1>7, <2>1, <2>2
    <3> QED
      BY <1>1, <1>15, <3>1, <3>2 DEF InStepOf
  <2>3. CASE ~(talks /\ x = o)
    <3>1. /\ clients'[x].status = clients[x].status /\ to_client'[x] = to_client[x]
          /\ clients'[x].cmd_queue = clients[x].cmd_queue
          /\ clients'[x].buffer = clients[x].buffer
      BY <1>6, <1>7, <2>1, <2>3
    <3> QED
      BY <1>1, <2>1, <3>1, StillInStep
  <2> QED
    BY <2>2, <2>3
<1> QED
  BY <1>10, <1>11, <1>12, <1>13, <1>14, <1>16, <1>17, <1>18 DEF IInv

-----------------------------------------------------------------------------
(* The invariant, and what follows from it.                                *)

\* Nobody is there.
LEMMA InitIInv ==
  ASSUME Init
  PROVE  IInv
<1>1. DOMAIN clients = {} /\ DOMAIN fd_to_id = {}
  BY DEF Init
<1>2. MaxClients \in Nat \ {0} /\ MaxTry \in [Id -> Nat] /\ MaxSay \in [Id -> Nat]
  BY SessionAssumption
<1>3. SessionTypeOK
  <2>1. Cardinality(serving) <= 1
    BY AtMostOne DEF Init, Single
  <2>2. /\ to_server \in [Id -> Seq(Unit)]
        /\ view \in [Id -> {"outside", "idle", "matching", "talking", "quitting"}]
        /\ serving \subseteq Id /\ process \in {"running", "terminated"}
    BY DEF Init
  <2>3. /\ tries \in [Id -> Nat] /\ says \in [Id -> Nat]
        /\ \A x \in Id : tries[x] <= MaxTry[x] /\ says[x] <= MaxSay[x]
    BY <1>2 DEF Init
  <2>4. unique_id_count \in 0..MaxClients
    BY <1>2 DEF Init
  <2> QED
    BY <1>1, <2>1, <2>2, <2>3, <2>4 DEF SessionTypeOK
<1>4. ServerSurvives /\ Registered /\ Served
  BY <1>1 DEF Init, ServerSurvives, Registered, Served
<1>5. Away
  BY <1>1 DEF Init, Away
<1>6. Framed /\ Partners /\ InStep
  BY <1>1 DEF Framed, Partners, InStep
<1> QED
  BY <1>3, <1>4, <1>5, <1>6 DEF IInv

\* Every handler, and every step of a client program, keeps the invariant.
LEMMA NextPreserves ==
  ASSUME IInv, [Next]_vars
  PROVE  IInv'
<1>1. CASE Accept
  BY <1>1, AcceptPreserves
<1>2. ASSUME NEW id \in Id, Recv(id) PROVE IInv'
  BY <1>2, RecvPreserves
<1>3. ASSUME NEW id \in Id, Serve(id) PROVE IInv'
  <2>1. CASE TryMatch(id)
    BY <2>1, TryMatchPreserves
  <2>2. CASE SendMessage(id)
    BY <2>2, SendMessagePreserves
  <2>3. CASE Quit(id)
    BY <2>3, QuitPreserves
  <2>4. CASE BadLine(id)
    BY <2>4, NoBadLine
  <2> QED
    BY <1>3, <2>1, <2>2, <2>3, <2>4 DEF Serve
<1>4. ASSUME NEW id \in Id, Disconnect(id) PROVE IInv'
  BY <1>4, DisconnectPreserves
<1>5. ASSUME NEW id \in Id, NEW target \in Id, HandleMatch(id, target) PROVE IInv'
  BY <1>5, HandleMatchPreserves
<1>6. ASSUME NEW id \in Id, AskMatch(id) PROVE IInv'
  BY <1>6, AskMatchPreserves
<1>7. ASSUME NEW id \in Id, Say(id) PROVE IInv'
  BY <1>7, SayPreserves
<1>8. ASSUME NEW id \in Id, AskQuit(id) PROVE IInv'
  BY <1>8, AskQuitPreserves
<1>9. ASSUME NEW id \in Id, Close(id) PROVE IInv'
  BY <1>9, ClosePreserves
<1>10. ASSUME NEW id \in Id, Read(id) PROVE IInv'
  BY <1>10, ReadPreserves
<1>11. CASE UNCHANGED vars
  <2>1. /\ unique_id_count' = unique_id_count /\ fd_to_id' = fd_to_id /\ clients' = clients
        /\ serving' = serving /\ process' = process /\ to_server' = to_server
        /\ to_client' = to_client /\ view' = view /\ tries' = tries /\ says' = says
    BY <1>11 DEF vars, serverVars, clientVars
  <2>2. SessionTypeOK' /\ ServerSurvives' /\ Registered' /\ Served' /\ Away'
    BY <2>1 DEF IInv, SessionTypeOK, ServerSurvives, Registered, Served, Away
  <2>3. Framed' /\ Partners'
    BY <2>1 DEF IInv, Framed, Stream, Partners, OtherSide
  <2>4. InStep'
    BY <2>1 DEF IInv, InStep, InStepOf, Stream
  <2> QED
    BY <2>2, <2>3, <2>4 DEF IInv
<1> QED
  BY <1>1, <1>2, <1>3, <1>4, <1>5, <1>6, <1>7, <1>8, <1>9, <1>10, <1>11
     DEF Next, ServerNext, ClientNext

\* The invariant holds of every behaviour.
LEMMA Invariance == Spec => []IInv
<1>1. Init => IInv
  BY InitIInv
<1>2. IInv /\ [Next]_vars => IInv'
  BY NextPreserves
<1> QED
  BY <1>1, <1>2, PTL DEF Spec

\* Every variable of the server and of its clients keeps its type; the
\* cmd_queue of one client at most is being worked on.
THEOREM SessionTypeCorrect == Spec => []SessionTypeOK
<1>1. IInv => SessionTypeOK
  BY DEF IInv
<1> QED
  BY <1>1, Invariance, PTL

\* However the commands of any number of clients are cut and joined by
\* recv(), no line ends the server.
THEOREM ServerAlwaysSurvives == Spec => []ServerSurvives
<1>1. IInv => ServerSurvives
  BY DEF IInv
<1> QED
  BY <1>1, Invariance, PTL

\* However often clients come, ask, quit and go, and fds are used again, the
\* two sides of a conversation have each other.
THEOREM ConversationsAlwaysAgree == Spec => []ConversationsAgree
<1>1. IInv => ConversationsAgree
  <2> SUFFICES ASSUME IInv, NEW id \in DOMAIN clients
               PROVE  /\ fd_to_id[clients[id].socket_fd] = id
                      /\ clients[id].status = "TALKING" =>
                           /\ clients[id].match_fd \in DOMAIN fd_to_id
                           /\ OtherSide(id) \in DOMAIN clients \ {id}
                           /\ clients[OtherSide(id)].status = "TALKING"
                           /\ OtherSide(OtherSide(id)) = id
    BY DEF ConversationsAgree
  <2>1. fd_to_id[clients[id].socket_fd] = id
    BY DEF IInv, Registered
  <2> QED
    BY <2>1, OtherSideFacts
<1> QED
  BY <1>1, Invariance, PTL

\* A client that asks is idle by the time it is served, whatever crosses its
\* request on the way.
THEOREM AsksOnlyWhenIdle == Spec => []AsksWhenIdle
<1>1. IInv => AsksWhenIdle
  <2> SUFFICES ASSUME IInv, NEW id \in serving, NextLine(id) = <<"try_match">>
               PROVE  clients[id].status = "IDLE"
    BY DEF AsksWhenIdle
  <2> DEFINE q == clients[id].cmd_queue
             p == Pending(q, Stream(id))
  <2>1. id \in DOMAIN clients
    BY DEF IInv, Served
  <2>2. q # <<>> /\ Head(q)[1] = "try_match"
    <3>1. q # <<>>
      BY <2>1 DEF IInv, Served
    <3>2. Head(q) = <<"try_match">>
      BY DEF NextLine
    <3> QED
      BY <3>1, <3>2
  <2>3. /\ q \in Queued /\ Stream(id) \in Seq(Unit) /\ Framing(Stream(id))
        /\ p \in Seq(Command) /\ view[id] \in State
        /\ Protocol(view[id], clients[id].status, p, to_client[id])
    BY <2>1, ClientFacts DEF InStepOf
  <2>4. p # <<>> /\ Head(p) = "try_match"
    <3> HIDE DEF q
    <3> QED
      BY <2>2, <2>3, PendingTaken
  <2> HIDE DEF p
  <2> QED
    BY <2>3, <2>4, ProtocolTried
<1> QED
  BY <1>1, Invariance, PTL

\* When nothing is on its way, what a client takes its status to be is what
\* the server has.
THEOREM ViewsFinallyAgree == Spec => []ViewsAgree
<1>1. IInv => ViewsAgree
  <2> SUFFICES ASSUME IInv, NEW id \in DOMAIN clients,
                      view[id] # "outside", id \notin serving,
                      to_server[id] = <<>>, to_client[id] = <<>>
               PROVE  <<view[id], clients[id].status>> \in
                        {<<"idle", "IDLE">>, <<"matching", "MATCHING">>,
                         <<"talking", "TALKING">>}
    BY DEF ViewsAgree
  <2>1. /\ view[id] \in State /\ clients[id].status \in Status
        /\ clients[id].buffer \in Seq(Unit) /\ InStepOf(id)
    BY ClientFacts
  <2>2. clients[id].cmd_queue = <<>>
    BY DEF IInv, Served
  <2>3. Stream(id) = clients[id].buffer
    BY <2>1, ConcatSimplifications DEF Stream
  <2>4. clients[id].buffer = <<>>
    <3>1. Len(clients[id].buffer) <= 1 /\ Len(clients[id].buffer) % 2 = 0
      BY <2>3 DEF IInv, Framed
    <3>2. Len(clients[id].buffer) \in Nat
      BY <2>1, LenProperties
    <3>3. Len(clients[id].buffer) = 0
      <4>1. \A k \in Nat : k <= 1 /\ k % 2 = 0 => k = 0
        OBVIOUS
      <4> QED
        BY <3>1, <3>2, <4>1
    <3> QED
      BY <2>1, <3>3, EmptySeq
  <2>5. Protocol(view[id], clients[id].status, <<>>, <<>>)
    BY <2>1, <2>2, <2>3, <2>4, NothingPending DEF InStepOf
  <2> QED
    BY <2>1, <2>5, NothingSaid DEF Protocol, State, Status
<1> QED
  BY <1>1, Invariance, PTL
=============================================================================
