------------------------- MODULE HeapMatchingProofs -------------------------
(***************************************************************************)
(* Proofs about module HeapMatching: the linked lists of the match queue   *)
(* stay well formed, whatever the clients do and however the trials end.   *)
(***************************************************************************)
EXTENDS HeapMatching, TLAPS, SequenceTheorems, FiniteSetTheorems,
        NaturalsInduction, WellFoundedInduction

\* A set of natural numbers has a least one.
LEMMA MinOfNats ==
  ASSUME NEW S \in SUBSET Nat, S # {}
  PROVE  /\ Min(S) \in S
         /\ \A x \in S : Min(S) <= x
<1>1. PICK x \in S : \A y \in S : ~ (<<y, x>> \in OpToRel(<, Nat))
  BY NatLessThanWellFounded, WFMin
<1>2. \A y \in S : ~ (y < x)
  BY <1>1 DEF OpToRel
<1>3. x \in S /\ \A y \in S : x <= y
  BY <1>2
<1> QED
  BY <1>3 DEF Min

-----------------------------------------------------------------------------
(* Lists of any kind of values.                                            *)

Link == Addr \union {Null}
NodeOf(Value) == [prev : Link, next : Link, value : Value]
ListOf(Value) ==
  [head : Link, tail : Link, length : Nat,
   node : UNION {[D -> NodeOf(Value)] : D \in SUBSET Addr}]

\* nullptr is no address of a node.
LEMMA NullApart == Null \notin Addr
BY HeapAssumption

\* The library's Cardinality, as module LinkedList sees it.
LEMMA SameCardinality == \A S : L!Cardinality(S) = Cardinality(S)
BY DEF L!Cardinality, Cardinality

\* L!Represents, in the form the proofs use.
Chain(list, s) ==
  /\ s \in Seq(Addr)
  /\ \A i, j \in 1..Len(s) : s[i] = s[j] => i = j
  /\ DOMAIN list.node = {s[i] : i \in 1..Len(s)}
  /\ list.length = Len(s)
  /\ list.head = IF Len(s) = 0 THEN Null ELSE s[1]
  /\ list.tail = IF Len(s) = 0 THEN Null ELSE s[Len(s)]
  /\ \A i \in 1..Len(s) : list.node[s[i]].prev = IF i = 1 THEN Null ELSE s[i-1]
  /\ \A i \in 1..Len(s) : list.node[s[i]].next = IF i = Len(s) THEN Null ELSE s[i+1]

\* A chain is what module LinkedList promises.
LEMMA ChainRepresents ==
  ASSUME NEW list, NEW s, Chain(list, s)
  PROVE  L!Represents(list, s)
<1>1. s \in Seq(Addr) /\ DOMAIN s = 1..Len(s) /\ Len(s) \in Nat
  BY DEF Chain
<1>2. s = <<>> <=> Len(s) = 0
  BY <1>1
<1>3. \A i \in 1..Len(s) : s[i] \in Addr
  BY <1>1
<1>4. L!IsInjective(s)
  BY <1>1 DEF Chain, L!IsInjective
<1>5. L!Range(s) = {s[i] : i \in 1..Len(s)}
  BY <1>1 DEF L!Range
<1>6. Null \notin L!Range(s)
  BY <1>3, <1>5, NullApart
<1>7. L!Range(s) = DOMAIN list.node
  BY <1>5 DEF Chain
<1> QED
  BY <1>1, <1>2, <1>4, <1>6, <1>7 DEF Chain, L!Represents

\* There are as many nodes as the chain is long.
LEMMA ChainLength ==
  ASSUME NEW list, NEW s, Chain(list, s)
  PROVE  /\ IsFiniteSet(DOMAIN list.node)
         /\ Cardinality(DOMAIN list.node) = Len(s)
<1> DEFINE D == DOMAIN list.node
           f == [i \in 1..Len(s) |-> s[i]]
<1>1. Len(s) \in Nat
  BY DEF Chain
<1>2. IsFiniteSet(1..Len(s)) /\ Cardinality(1..Len(s)) = Len(s)
  <2> DEFINE n == Len(s)
  <2> HIDE DEF D, f, n
  <2>1. n \in Int /\ 1 \in Int
    BY <1>1 DEF n
  <2>2. /\ IsFiniteSet(1..n)
        /\ Cardinality(1..n) = IF 1 > n THEN 0 ELSE n - 1 + 1
    BY <2>1, FS_Interval, Zenon
  <2>3. n \in Nat
    BY <1>1 DEF n
  <2>4. (IF 1 > n THEN 0 ELSE n - 1 + 1) = n
    BY <2>3
  <2>5. IsFiniteSet(1..n) /\ Cardinality(1..n) = n
    BY <2>2, <2>4
  <2> QED
    BY <2>5 DEF n
<1>3. f \in Bijection(1..Len(s), D)
  <2>1. /\ D = {s[i] : i \in 1..Len(s)}
        /\ \A i, j \in 1..Len(s) : s[i] = s[j] => i = j
    BY DEF Chain
  <2> DEFINE n == Len(s)
  <2> HIDE DEF n, D
  <2>2. f \in Injection(1..n, D)
    BY <2>1 DEF Injection, IsInjective, n
  <2>3. f \in Surjection(1..n, D)
    BY <2>1 DEF Surjection, n
  <2> QED
    BY <2>2, <2>3 DEF Bijection, n
<1>4. ExistsBijection(1..Len(s), D)
  BY <1>3 DEF ExistsBijection
<1> HIDE DEF D
<1>5. IsFiniteSet(D) /\ Cardinality(D) = Cardinality(1..Len(s))
  BY <1>2, <1>4, FS_Bijection
<1> QED
  BY <1>2, <1>5 DEF D

\* search() and the loops see the nodes in the order of the chain.
LEMMA WalkFollows ==
  ASSUME NEW list, NEW s, Chain(list, s)
  PROVE  L!Walk(list) = s
<1> DEFINE n == L!Cardinality(DOMAIN list.node)
           Next1(f, i) == IF i = 1 THEN list.head
                          ELSE IF f[i-1] \in DOMAIN list.node THEN list.node[f[i-1]].next
                          ELSE Null
           Is(f) == f = [i \in 1..n |-> Next1(f, i)]
           at == CHOOSE f : Is(f)
<1>1. n = Len(s) /\ n \in Nat
  <2>1. n = Len(s)
    BY ChainLength, SameCardinality
  <2> HIDE DEF n
  <2> QED
    BY <2>1 DEF Chain
<1> HIDE DEF n
<1>2. /\ s \in Seq(Addr)
      /\ \A i \in 1..n : s[i] \in DOMAIN list.node
      /\ \A i \in 1..n : s[i] \in Addr
      /\ n # 0 => list.head = s[1]
      /\ \A i \in 1..n : list.node[s[i]].next = IF i = n THEN Null ELSE s[i+1]
  <2>1. s \in Seq(Addr)
    BY DEF Chain
  <2>2. \A i \in 1..n : s[i] \in Addr
    BY <1>1, <2>1
  <2>3. \A i \in 1..n : s[i] \in DOMAIN list.node
    BY <1>1 DEF Chain
  <2>4. n # 0 => list.head = s[1]
    BY <1>1 DEF Chain
  <2>5. \A i \in 1..n : list.node[s[i]].next = IF i = n THEN Null ELSE s[i+1]
    BY <1>1 DEF Chain
  <2> QED
    BY <2>1, <2>2, <2>3, <2>4, <2>5
<1> DEFINE g == [i \in 1..n |-> s[i]]
<1>3. \A i \in 1..n : g[i] = Next1(g, i)
  <2> SUFFICES ASSUME NEW i \in 1..n PROVE s[i] = Next1(g, i)
    OBVIOUS
  <2>1. CASE i = 1
    BY <1>1, <1>2, <2>1
  <2>2. CASE i # 1
    <3>1. i-1 \in 1..n /\ i-1 # n /\ (i-1)+1 = i
      BY <1>1, <2>2
    <3>2. g[i-1] = s[i-1] /\ list.node[s[i-1]].next = s[i]
      BY <1>2, <3>1
    <3> QED
      BY <1>2, <2>2, <3>1, <3>2
  <2> QED
    BY <2>1, <2>2
<1>4. Is(g)
  BY <1>3
<1>5. Is(at)
  BY <1>4
<1>6. \A i \in 1..n : at[i] = Next1(at, i)
  BY <1>5
<1>7. at = [i \in 1..n |-> at[i]]
  BY <1>5
<1> HIDE DEF at
<1>8. \A i \in 1..n : at[i] = s[i]
  <2> DEFINE B == {i \in 1..n : at[i] # s[i]}
  <2>1. SUFFICES ASSUME B # {} PROVE FALSE
    OBVIOUS
  <2>2. B \in SUBSET Nat
    BY <1>1
  <2>3. PICK i \in B : \A x \in B : i <= x
    <3> HIDE DEF B
    <3> QED
      BY <2>1, <2>2, MinOfNats
  <2>4. CASE i = 1
    BY <1>3, <1>6, <2>3, <2>4
  <2>5. CASE i # 1
    <3>1. i \in 1..n /\ i-1 \in 1..n /\ i-1 \notin B
      BY <1>1, <2>3, <2>5
    <3>2. at[i-1] = g[i-1]
      BY <3>1
    <3>3. Next1(at, i) = Next1(g, i)
      BY <3>2
    <3>4. at[i] = g[i]
      BY <1>3, <1>6, <3>1, <3>3
    <3> QED
      BY <2>3, <3>1, <3>4
  <2> QED
    BY <2>4, <2>5
<1>9. {k \in 1..n : at[k] # Null} = 1..n
  BY <1>2, <1>8, NullApart
<1>10. L!Walk(list) = [i \in {k \in 1..n : at[k] # Null} |-> at[i]]
  BY DEF L!Walk, at, n
<1>11. s = [i \in 1..n |-> s[i]]
  BY <1>1, <1>2
<1> QED
  BY <1>8, <1>9, <1>10, <1>11

\* The list of the constructor has no nodes.
LEMMA EmptyChain ==
  ASSUME NEW Value
  PROVE  L!Empty \in ListOf(Value) /\ Chain(L!Empty, <<>>)
<1>1. L!Empty.node = <<>> /\ DOMAIN L!Empty.node = {}
  BY DEF L!Empty
<1>2. L!Empty.node \in [{} -> NodeOf(Value)]
  BY <1>1
<1> QED
  BY <1>1, <1>2 DEF L!Empty, ListOf, Link, Chain

\* push_back adds a node behind the others.
LEMMA PushBackChain ==
  ASSUME NEW Value, NEW list \in ListOf(Value), NEW s, Chain(list, s),
         NEW addr \in Addr \ DOMAIN list.node, NEW value \in Value
  PROVE  LET new == L!PushBack(list, addr, value)
         IN /\ new \in ListOf(Value)
            /\ Chain(new, Append(s, addr))
            /\ DOMAIN new.node = DOMAIN list.node \union {addr}
            /\ new.node[addr].value = value
            /\ \A a \in DOMAIN list.node : new.node[a].value = list.node[a].value
<1> DEFINE new == L!PushBack(list, addr, value)
           first == list.length = 0
           D == DOMAIN list.node \union {addr}
           t == Append(s, addr)
           n == Len(s)
<1>1. /\ s \in Seq(Addr) /\ n \in Nat /\ n = list.length
      /\ \A i \in 1..n : s[i] \in Addr /\ s[i] \in DOMAIN list.node
      /\ DOMAIN list.node = {s[i] : i \in 1..n}
  <2>1. \A i \in 1..n : s[i] \in Addr
    BY DEF Chain
  <2> QED
    BY <2>1 DEF Chain
<1>2. /\ t \in Seq(Addr) /\ Len(t) = n + 1 /\ t[n + 1] = addr
      /\ \A i \in 1..n : t[i] = s[i]
  BY <1>1, AppendProperties
<1>3. /\ new.head = IF first THEN addr ELSE list.head
      /\ new.tail = addr
      /\ new.length = n + 1
      /\ new.node = [a \in D |->
                      IF a = addr
                      THEN [prev |-> IF first THEN Null ELSE list.tail,
                            next |-> Null, value |-> value]
                      ELSE IF a = list.tail /\ ~first THEN [list.node[a] EXCEPT !.next = addr]
                      ELSE list.node[a]]
  BY <1>1 DEF L!PushBack
<1>4. /\ list.head \in Link /\ list.tail \in Link /\ D \in SUBSET Addr
      /\ \A a \in DOMAIN list.node : list.node[a] \in NodeOf(Value)
  BY DEF ListOf
<1>5. /\ new.node[addr] = [prev |-> IF first THEN Null ELSE list.tail,
                           next |-> Null, value |-> value]
      /\ \A a \in DOMAIN list.node :
           /\ new.node[a] \in NodeOf(Value)
           /\ new.node[a].prev = list.node[a].prev
           /\ new.node[a].next = IF a = list.tail /\ ~first THEN addr ELSE list.node[a].next
           /\ new.node[a].value = list.node[a].value
  BY <1>3, <1>4 DEF NodeOf, Link
<1>6. new.node[addr] \in NodeOf(Value) /\ DOMAIN new.node = D
  BY <1>3, <1>4, <1>5 DEF NodeOf, Link
<1>7. new \in ListOf(Value)
  <2>1. new.node \in [D -> NodeOf(Value)]
    BY <1>3, <1>5, <1>6
  <2>2. new.head \in Link /\ new.tail \in Link /\ new.length \in Nat
    BY <1>1, <1>3, <1>4 DEF Link
  <2>3. new = [head |-> new.head, tail |-> new.tail, length |-> new.length, node |-> new.node]
    BY DEF L!PushBack
  <2> HIDE DEF new, D
  <2> QED
    BY <1>4, <2>1, <2>2, <2>3 DEF ListOf
<1>8. \A i \in 1..n :
        /\ list.node[s[i]].prev = IF i = 1 THEN Null ELSE s[i-1]
        /\ list.node[s[i]].next = IF i = n THEN Null ELSE s[i+1]
  BY DEF Chain
<1>9. \A i, j \in 1..n : s[i] = s[j] => i = j
  BY DEF Chain
<1> HIDE DEF new, t
<1>10. Chain(new, t)
  <2>1. \A i, j \in 1..n + 1 : t[i] = t[j] => i = j
    <3>1. \A i \in 1..n : s[i] # addr
      BY <1>1
    <3>2. \A i \in 1..n + 1 : i \in 1..n \/ i = n + 1
      BY <1>1
    <3> QED
      BY <1>2, <1>9, <3>1, <3>2
  <2>2. DOMAIN new.node = {t[i] : i \in 1..n + 1}
    <3>1. \A i \in 1..n + 1 : i \in 1..n \/ i = n + 1
      BY <1>1
    <3>2. \A i \in 1..n : i \in 1..n + 1
      BY <1>1
    <3>3. n + 1 \in 1..n + 1
      BY <1>1
    <3>4. \A a \in D : \E i \in 1..n + 1 : a = t[i]
      <4> TAKE a \in D
      <4>1. CASE a = addr
        BY <1>2, <3>3, <4>1
      <4>2. CASE a # addr
        <5>1. PICK i \in 1..n : a = s[i]
          BY <1>1, <4>2
        <5> QED
          BY <1>2, <3>2, <5>1
      <4> QED
        BY <4>1, <4>2
    <3>5. \A i \in 1..n + 1 : t[i] \in D
      BY <1>1, <1>2, <3>1
    <3> HIDE DEF n, D
    <3> QED
      BY <1>6, <3>4, <3>5
  <2>3. first <=> n = 0
    BY <1>1
  <2>4. new.head = t[1]
    <3>1. CASE n = 0
      BY <1>2, <1>3, <2>3, <3>1
    <3>2. CASE n # 0
      <4>1. list.head = s[1] /\ t[1] = s[1]
        BY <1>1, <1>2, <3>2 DEF Chain
      <4> QED
        BY <1>3, <2>3, <3>2, <4>1
    <3> QED
      BY <3>1, <3>2
  <2>5. n # 0 => list.tail = s[n] /\ s[n] \in DOMAIN list.node
    BY <1>1 DEF Chain
  <2>6. \A i \in 1..n + 1 : new.node[t[i]].prev = IF i = 1 THEN Null ELSE t[i-1]
    <3> TAKE i \in 1..n + 1
    <3>1. CASE i = n + 1
      <4>1. CASE n = 0
        BY <1>2, <1>5, <2>3, <3>1, <4>1
      <4>2. CASE n # 0
        <5>1. n \in 1..n /\ i # 1 /\ i - 1 = n
          BY <1>1, <3>1, <4>2
        <5> QED
          BY <1>2, <1>5, <2>3, <2>5, <3>1, <4>2, <5>1
      <4> QED
        BY <4>1, <4>2
    <3>2. CASE i \in 1..n
      <4>1. new.node[t[i]].prev = list.node[s[i]].prev
        BY <1>1, <1>2, <1>5, <3>2
      <4>2. list.node[s[i]].prev = IF i = 1 THEN Null ELSE s[i-1]
        BY <3>2 DEF Chain
      <4>3. i # 1 => t[i-1] = s[i-1]
        BY <1>1, <1>2, <3>2
      <4> QED
        BY <4>1, <4>2, <4>3
    <3> QED
      BY <1>1, <3>1, <3>2
  <2>7. \A i \in 1..n + 1 : new.node[t[i]].next = IF i = n + 1 THEN Null ELSE t[i+1]
    <3> TAKE i \in 1..n + 1
    <3>1. CASE i = n + 1
      BY <1>2, <1>5, <3>1
    <3>2. CASE i = n /\ i \in 1..n
      <4>1. t[i] = list.tail /\ ~first /\ t[i] \in DOMAIN list.node
        BY <1>1, <1>2, <2>3, <2>5, <3>2
      <4>2. new.node[t[i]].next = addr
        BY <1>5, <4>1
      <4> QED
        BY <1>1, <1>2, <3>2, <4>2
    <3>3. CASE i # n /\ i \in 1..n
      <4>1. n # 0 /\ n \in 1..n /\ i+1 \in 1..n /\ i # n + 1
        BY <1>1, <3>3
      <4>2. s[i] # list.tail
        BY <1>9, <2>5, <3>3, <4>1
      <4>3. list.node[s[i]].next = s[i+1]
        BY <1>8, <3>3
      <4>4. new.node[s[i]].next = list.node[s[i]].next
        BY <1>1, <1>5, <3>3, <4>2
      <4>5. t[i] = s[i] /\ t[i+1] = s[i+1]
        BY <1>2, <3>3, <4>1
      <4> QED
        BY <4>1, <4>3, <4>4, <4>5
    <3> QED
      BY <1>1, <3>1, <3>2, <3>3
  <2>8. new.tail = t[n + 1] /\ n + 1 # 0
    BY <1>1, <1>2, <1>3
  <2> DEFINE m == n + 1
  <2>9. t \in Seq(Addr) /\ Len(t) = m /\ new.length = m
    BY <1>2, <1>3
  <2> HIDE DEF n, m
  <2> QED
    BY <2>1, <2>2, <2>4, <2>6, <2>7, <2>8, <2>9 DEF Chain, m
<1> QED
  BY <1>5, <1>6, <1>7, <1>10 DEF new, t

\* A sequence without its k-th element.
Without(s, k) == [i \in 1..Len(s) - 1 |-> IF i < k THEN s[i] ELSE s[i+1]]

\* erase takes out one node and links its neighbours.
LEMMA EraseChain ==
  ASSUME NEW Value, NEW list \in ListOf(Value), NEW s, Chain(list, s),
         NEW k \in 1..Len(s)
  PROVE  LET new == L!Erase(list, s[k])
         IN /\ new \in ListOf(Value)
            /\ Chain(new, Without(s, k))
            /\ DOMAIN new.node = DOMAIN list.node \ {s[k]}
            /\ \A a \in DOMAIN new.node : new.node[a].value = list.node[a].value
<1> DEFINE new == L!Erase(list, s[k])
           D == DOMAIN list.node \ {s[k]}
           n == Len(s)
           t == Without(s, k)
           prev == list.node[s[k]].prev
           next == list.node[s[k]].next
<1>1. /\ s \in Seq(Addr) /\ n \in Nat /\ n = list.length
      /\ \A i \in 1..n : s[i] \in Addr /\ s[i] \in DOMAIN list.node
      /\ DOMAIN list.node = {s[i] : i \in 1..n}
      /\ \A i, j \in 1..n : s[i] = s[j] => i = j
  <2>1. \A i \in 1..n : s[i] \in Addr
    BY DEF Chain
  <2> QED
    BY <2>1 DEF Chain
<1>2. /\ prev = IF k = 1 THEN Null ELSE s[k-1]
      /\ next = IF k = n THEN Null ELSE s[k+1]
  BY DEF Chain
<1>3. /\ new.head = IF prev = Null THEN next ELSE list.head
      /\ new.tail = IF next = Null THEN prev ELSE list.tail
      /\ new.length = n - 1
      /\ new.node = [a \in D |->
                  [prev |-> IF a = next THEN prev ELSE list.node[a].prev,
                   next |-> IF a = prev THEN next ELSE list.node[a].next,
                   value |-> list.node[a].value]]
  BY <1>1 DEF L!Erase
<1>4. /\ list.head \in Link /\ list.tail \in Link /\ D \in SUBSET Addr
      /\ \A a \in DOMAIN list.node : list.node[a] \in NodeOf(Value)
  BY DEF ListOf
<1>5. prev \in Link /\ next \in Link
  BY <1>1, <1>4 DEF NodeOf
<1> HIDE DEF prev, next
<1>6. \A a \in D : /\ new.node[a] \in NodeOf(Value)
                   /\ new.node[a].prev = IF a = next THEN prev ELSE list.node[a].prev
                   /\ new.node[a].next = IF a = prev THEN next ELSE list.node[a].next
                   /\ new.node[a].value = list.node[a].value
  BY <1>3, <1>4, <1>5 DEF NodeOf
<1>7. DOMAIN new.node = D
  BY <1>3
<1>8. new \in ListOf(Value)
  <2>1. new.node \in [D -> NodeOf(Value)]
    BY <1>3, <1>6, <1>7
  <2>2. new.head \in Link /\ new.tail \in Link /\ new.length \in Nat
    BY <1>1, <1>3, <1>4, <1>5
  <2>3. new = [head |-> new.head, tail |-> new.tail, length |-> new.length, node |-> new.node]
    BY DEF L!Erase
  <2> HIDE DEF new, D
  <2> QED
    BY <1>4, <2>1, <2>2, <2>3 DEF ListOf
<1> HIDE DEF new
<1>9. /\ t \in Seq(Addr) /\ Len(t) = n - 1
      /\ \A i \in 1..n-1 : t[i] = IF i < k THEN s[i] ELSE s[i+1]
  <2>1. n - 1 \in Nat
    BY <1>1
  <2>2. t = [i \in 1..n - 1 |-> IF i < k THEN s[i] ELSE s[i+1]]
    BY DEF Without
  <2>3. \A i \in 1..n - 1 : (IF i < k THEN s[i] ELSE s[i+1]) \in Addr
    <3>1. \A i \in 1..n - 1 : i \in 1..n /\ i + 1 \in 1..n
      BY <1>1
    <3> QED
      BY <1>1, <3>1
  <2> HIDE DEF t, n
  <2>4. t \in [1..n - 1 -> Addr]
    BY <2>2, <2>3
  <2> DEFINE m == n - 1
  <2> HIDE DEF m
  <2>5. t \in Seq(Addr) /\ Len(t) = m
    <3>1. t \in [1..m -> Addr] /\ m \in Nat
      BY <2>1, <2>4 DEF m
    <3> QED
      BY <3>1, SeqDef, LenProperties
  <2> QED
    BY <2>2, <2>5 DEF m
<1> HIDE DEF t
<1>10. Chain(new, t)
  <2> DEFINE at(i) == IF i < k THEN i ELSE i+1
  <2>1. \A i \in 1..n-1 : at(i) \in 1..n /\ at(i) # k /\ t[i] = s[at(i)]
    BY <1>1, <1>9
  <2>2. \A i, j \in 1..n-1 : at(i) = at(j) => i = j
    BY <1>1
  <2>3. \A i \in 1..n-1 : t[i] \in D
    BY <1>1, <2>1
  <2>4. \A j \in 1..n : j # k => \E i \in 1..n-1 : at(i) = j
    <3> TAKE j \in 1..n
    <3> HAVE j # k
    <3>1. CASE j < k
      BY <1>1, <3>1
    <3>2. CASE j > k
      <4>1. j-1 \in 1..n-1 /\ at(j-1) = j
        BY <1>1, <3>2
      <4> QED
        BY <4>1
    <3> QED
      BY <3>1, <3>2
  <2>5. \A i, j \in 1..n-1 : t[i] = t[j] => i = j
    <3>1. \A i, j \in 1..n : s[i] = s[j] => i = j
      BY <1>1
    <3> HIDE DEF at, n
    <3> QED
      BY <2>1, <2>2, <3>1
  <2>6. DOMAIN new.node = {t[i] : i \in 1..n-1}
    <3>1. \A a \in D : \E i \in 1..n-1 : a = t[i]
      <4> TAKE a \in D
      <4>1. PICK j \in 1..n : a = s[j] /\ j # k
        BY <1>1
      <4> HIDE DEF at
      <4> QED
        BY <2>1, <2>4, <4>1
    <3> HIDE DEF at, n, D
    <3> QED
      BY <1>7, <2>3, <3>1
  <2>7. /\ prev = Null <=> k = 1
        /\ next = Null <=> k = n
    <3>1. k # 1 => s[k-1] \in Addr
      BY <1>1
    <3>2. k # n => s[k+1] \in Addr
      BY <1>1
    <3> QED
      BY <1>2, <3>1, <3>2, NullApart
  <2>8. \A i \in 1..n-1 : new.node[t[i]].prev = IF i = 1 THEN Null ELSE t[i-1]
    <3> TAKE i \in 1..n-1
    <3>0. list.node[s[at(i)]].prev = IF at(i) = 1 THEN Null ELSE s[at(i)-1]
      <4> HIDE DEF at
      <4> QED
        BY <2>1 DEF Chain
    <3>1. CASE i = k
      <4>1. t[i] = s[k+1] /\ k # n /\ t[i] = next
        BY <1>1, <1>2, <1>9, <3>1
      <4>2. i # 1 => t[i-1] = s[k-1]
        <5>1. i # 1 => i-1 \in 1..n-1 /\ i-1 < k
          BY <1>1, <3>1
        <5> HIDE DEF n
        <5> QED
          BY <1>9, <3>1, <5>1
      <4> QED
        BY <1>2, <1>6, <2>3, <3>1, <4>1, <4>2
    <3>2. CASE i # k
      <4>1. t[i] # next
        <5>1. k # n => k + 1 \in 1..n /\ k + 1 # at(i)
          BY <1>1, <3>2
        <5>2. t[i] = s[at(i)] /\ at(i) \in 1..n
          BY <2>1
        <5> HIDE DEF n, at
        <5> QED
          BY <1>1, <1>2, <5>1, <5>2, NullApart
      <4>2. i # 1 => i-1 \in 1..n-1 /\ t[i-1] = s[at(i)-1]
        <5>1. i # 1 => i-1 \in 1..n-1
          BY <1>1, <3>2
        <5>2. i # 1 => at(i)-1 = at(i-1)
          BY <1>1, <3>2
        <5> HIDE DEF n, at
        <5> QED
          BY <2>1, <5>1, <5>2
      <4>3. i = 1 <=> at(i) = 1
        BY <1>1, <3>2
      <4>4. new.node[t[i]].prev = list.node[t[i]].prev
        BY <1>6, <2>3, <4>1
      <4> HIDE DEF at
      <4> QED
        BY <2>1, <3>0, <4>2, <4>3, <4>4
    <3> QED
      BY <3>1, <3>2
  <2>9. \A i \in 1..n-1 : new.node[t[i]].next = IF i = n-1 THEN Null ELSE t[i+1]
    <3> TAKE i \in 1..n-1
    <3>0. list.node[s[at(i)]].next = IF at(i) = n THEN Null ELSE s[at(i)+1]
      <4> HIDE DEF at
      <4> QED
        BY <2>1 DEF Chain
    <3>1. CASE i = k-1
      <4>1. t[i] = s[k-1] /\ k # 1 /\ t[i] = prev
        BY <1>1, <1>2, <1>9, <3>1
      <4>2. i # n-1 => t[i+1] = s[k+1]
        BY <1>1, <1>9, <3>1
      <4>3. i = n-1 <=> k = n
        BY <1>1, <3>1
      <4> QED
        BY <1>2, <1>6, <2>3, <4>1, <4>2, <4>3
    <3>2. CASE i # k-1
      <4>1. t[i] # prev
        <5>1. k # 1 => k - 1 \in 1..n /\ k - 1 # at(i)
          BY <1>1, <3>2
        <5>2. t[i] = s[at(i)] /\ at(i) \in 1..n
          BY <2>1
        <5> HIDE DEF n, at
        <5> QED
          BY <1>1, <1>2, <5>1, <5>2, NullApart
      <4>2. i # n-1 => i+1 \in 1..n-1 /\ t[i+1] = s[at(i)+1]
        <5>1. i # n-1 => i+1 \in 1..n-1
          BY <1>1, <3>2
        <5>2. i # n-1 => at(i)+1 = at(i+1)
          BY <1>1, <3>2
        <5> HIDE DEF n, at
        <5> QED
          BY <2>1, <5>1, <5>2
      <4>3. i = n-1 <=> at(i) = n
        BY <1>1, <3>2
      <4>4. new.node[t[i]].next = list.node[t[i]].next
        BY <1>6, <2>3, <4>1
      <4> HIDE DEF at
      <4> QED
        BY <2>1, <3>0, <4>2, <4>3, <4>4
    <3> QED
      BY <3>1, <3>2
  <2>10. new.head = IF n-1 = 0 THEN Null ELSE t[1]
    <3>1. list.head = s[1]
      BY <1>1 DEF Chain
    <3>2. CASE k = 1
      BY <1>1, <1>2, <1>3, <1>9, <2>7, <3>2
    <3>3. CASE k # 1
      <4>1. 1 \in 1..n-1 /\ 1 < k
        BY <1>1, <3>3
      <4>2. t[1] = s[1]
        BY <1>9, <4>1
      <4> QED
        BY <1>3, <2>7, <3>1, <3>3, <4>1, <4>2
    <3> QED
      BY <3>2, <3>3
  <2>11. new.tail = IF n-1 = 0 THEN Null ELSE t[n-1]
    <3>1. list.tail = s[n]
      BY <1>1 DEF Chain
    <3>2. CASE k = n
      BY <1>1, <1>2, <1>3, <1>9, <2>7, <3>2
    <3>3. CASE k # n
      <4>1. n-1 \in 1..n-1 /\ ~(n-1 < k) /\ n-1+1 = n
        BY <1>1, <3>3
      <4> QED
        BY <1>3, <1>9, <2>7, <3>1, <3>3, <4>1
    <3> QED
      BY <3>2, <3>3
  <2> HIDE DEF n, at
  <2> QED
    BY <1>3, <1>9, <2>5, <2>6, <2>8, <2>9, <2>10, <2>11 DEF Chain
<1> QED
  BY <1>6, <1>7, <1>8, <1>10 DEF new, t

\* What follows a node is another node, or nothing.
LEMMA ChainNext ==
  ASSUME NEW list, NEW s, Chain(list, s), NEW a \in DOMAIN list.node
  PROVE  list.node[a].next \in (DOMAIN list.node \ {a}) \union {Null}
<1>1. PICK i \in 1..Len(s) : a = s[i]
  BY DEF Chain
<1>2. list.node[a].next = IF i = Len(s) THEN Null ELSE s[i+1]
  BY <1>1 DEF Chain
<1>3. CASE i # Len(s)
  <2>1. i+1 \in 1..Len(s) /\ i+1 # i
    BY <1>1, <1>3 DEF Chain
  <2>2. s[i+1] \in DOMAIN list.node /\ s[i+1] # a
    BY <1>1, <2>1 DEF Chain
  <2> QED
    BY <1>2, <1>3, <2>2
<1> QED
  BY <1>2, <1>3

\* search() returns the first of the nodes at the positions I, if any.
FirstHit(s, I) == IF I = {} THEN Null ELSE s[Min(I)]

\* What a search returns is a node, unless nothing was hit.
LEMMA FirstHitIn ==
  ASSUME NEW list, NEW s, Chain(list, s), NEW I \in SUBSET (1..Len(s))
  PROVE  IF I = {} THEN FirstHit(s, I) = Null
                   ELSE /\ FirstHit(s, I) \in DOMAIN list.node
                        /\ FirstHit(s, I) # Null
                        /\ \E i \in I : FirstHit(s, I) = s[i]
<1>1. CASE I # {}
  <2>1. I \in SUBSET Nat
    BY DEF Chain
  <2>2. Min(I) \in I
    BY <1>1, <2>1, MinOfNats
  <2> DEFINE i == Min(I)
  <2>3. i \in 1..Len(s)
    BY <2>2
  <2> HIDE DEF i
  <2>4. s[i] \in DOMAIN list.node /\ s[i] \in Addr
    <3>1. s[i] \in DOMAIN list.node
      BY <2>3 DEF Chain
    <3>2. s \in Seq(Addr)
      BY DEF Chain
    <3> QED
      BY <2>3, <3>1, <3>2
  <2> QED
    BY <1>1, <2>2, <2>4, NullApart DEF FirstHit, i
<1> QED
  BY <1>1 DEF FirstHit

\* The library's Min, as module LinkedList sees it.
LEMMA SameMin == \A S : L!Min(S) = Min(S)
BY DEF L!Min, Min

\* search() as module LinkedList writes it.
LEMMA HitOrNull ==
  ASSUME NEW list, NEW s, Chain(list, s), NEW I \in SUBSET (1..Len(s))
  PROVE  (IF (IF I # {} THEN L!Min(I) ELSE 0) = 0 THEN Null
          ELSE s[IF I # {} THEN L!Min(I) ELSE 0]) = FirstHit(s, I)
<1>1. L!Min(I) = Min(I)
  BY SameMin
<1>2. I # {} => Min(I) # 0
  <2>1. I \in SUBSET Nat /\ 0 \notin I
    BY DEF Chain
  <2> QED
    BY <2>1, MinOfNats
<1> QED
  BY <1>1, <1>2 DEF FirstHit

\* The three searches of the handlers.
OfId(list, id) == L!Search(list, LAMBDA u : u.id = id)
OfCandidate(list, id) == L!Search(list, LAMBDA other : other = id)
Behind(list, node) == L!Search(list, LAMBDA u : u.matchingWith = node)

\* A user is found by its id.
LEMMA FindId ==
  ASSUME NEW list, NEW s, Chain(list, s), NEW id
  PROVE  LET a == OfId(list, id)
         IN IF a = Null THEN \A b \in DOMAIN list.node : list.node[b].value.id # id
                        ELSE a \in DOMAIN list.node /\ list.node[a].value.id = id
<1> DEFINE I == {i \in 1..Len(s) : list.node[s[i]].value.id = id}
           a == OfId(list, id)
<1>1. a = FirstHit(s, I)
  <2>1. L!Walk(list) = s
    BY WalkFollows
  <2>2. a = IF (IF I # {} THEN L!Min(I) ELSE 0) = 0 THEN Null
            ELSE s[IF I # {} THEN L!Min(I) ELSE 0]
    BY <2>1 DEF OfId, OfCandidate, Behind, L!Search, L!SelectInSeq
  <2> QED
    BY <2>2, HitOrNull
<1>2. \A b \in DOMAIN list.node : \E i \in 1..Len(s) : b = s[i]
  BY DEF Chain
<1>3. I \in SUBSET (1..Len(s))
  OBVIOUS
<1>4. I = {} => \A b \in DOMAIN list.node : list.node[b].value.id # id
  BY <1>2
<1>5. \A i \in I : list.node[s[i]].value.id = id
  OBVIOUS
<1> HIDE DEF I, a
<1>6. IF I = {} THEN a = Null
               ELSE a \in DOMAIN list.node /\ a # Null /\ \E i \in I : a = s[i]
  BY <1>1, <1>3, FirstHitIn
<1> QED
  BY <1>4, <1>5, <1>6 DEF a

\* A candidate is found by its id.
LEMMA FindValue ==
  ASSUME NEW list, NEW s, Chain(list, s), NEW id
  PROVE  LET a == OfCandidate(list, id)
         IN IF a = Null THEN \A b \in DOMAIN list.node : list.node[b].value # id
                        ELSE a \in DOMAIN list.node /\ list.node[a].value = id
<1> DEFINE I == {i \in 1..Len(s) : list.node[s[i]].value = id}
           a == OfCandidate(list, id)
<1>1. a = FirstHit(s, I)
  <2>1. L!Walk(list) = s
    BY WalkFollows
  <2>2. a = IF (IF I # {} THEN L!Min(I) ELSE 0) = 0 THEN Null
            ELSE s[IF I # {} THEN L!Min(I) ELSE 0]
    BY <2>1 DEF OfId, OfCandidate, Behind, L!Search, L!SelectInSeq
  <2> QED
    BY <2>2, HitOrNull
<1>2. \A b \in DOMAIN list.node : \E i \in 1..Len(s) : b = s[i]
  BY DEF Chain
<1>3. I \in SUBSET (1..Len(s))
  OBVIOUS
<1>4. I = {} => \A b \in DOMAIN list.node : list.node[b].value # id
  BY <1>2
<1>5. \A i \in I : list.node[s[i]].value = id
  OBVIOUS
<1> HIDE DEF I, a
<1>6. IF I = {} THEN a = Null
               ELSE a \in DOMAIN list.node /\ a # Null /\ \E i \in I : a = s[i]
  BY <1>1, <1>3, FirstHitIn
<1> QED
  BY <1>4, <1>5, <1>6 DEF a

\* What the search for a waiting user returns is a node or nullptr.
LEMMA FindBehind ==
  ASSUME NEW list, NEW s, Chain(list, s), NEW node
  PROVE  LET a == Behind(list, node)
         IN a \in DOMAIN list.node \union {Null}
<1> DEFINE I == {i \in 1..Len(s) : list.node[s[i]].value.matchingWith = node}
           a == Behind(list, node)
<1>1. a = FirstHit(s, I)
  <2>1. L!Walk(list) = s
    BY WalkFollows
  <2>2. a = IF (IF I # {} THEN L!Min(I) ELSE 0) = 0 THEN Null
            ELSE s[IF I # {} THEN L!Min(I) ELSE 0]
    BY <2>1 DEF OfId, OfCandidate, Behind, L!Search, L!SelectInSeq
  <2> QED
    BY <2>2, HitOrNull
<1>2. I \in SUBSET (1..Len(s))
  OBVIOUS
<1> HIDE DEF I, a
<1>3. a \in DOMAIN list.node \union {Null}
  BY <1>1, <1>2, FirstHitIn
<1> QED
  BY <1>3 DEF a

-----------------------------------------------------------------------------
(* What the loops leave alone: the links, and whose node it is.            *)

TryingUser == [id : Id, matchingWith : Link, progress : {"WAITING", "PROCESSING"}]

SameNodes(l, m) ==
  /\ m \in ListOf(TryingUser)
  /\ m.head = l.head /\ m.tail = l.tail /\ m.length = l.length
  /\ DOMAIN m.node = DOMAIN l.node
  /\ \A a \in DOMAIN l.node : /\ m.node[a].prev = l.node[a].prev
                              /\ m.node[a].next = l.node[a].next
                              /\ m.node[a].value.id = l.node[a].value.id

\* A list with the same links is the same chain.
LEMMA SameNodesChain ==
  ASSUME NEW l, NEW m, SameNodes(l, m), NEW s, Chain(l, s)
  PROVE  Chain(m, s)
<1>1. \A i \in 1..Len(s) : s[i] \in DOMAIN l.node
  BY DEF Chain
<1> QED
  BY <1>1 DEF Chain, SameNodes

\* One change of values after another.
LEMMA SameNodesTrans ==
  ASSUME NEW k, NEW l, NEW m, SameNodes(k, l), SameNodes(l, m)
  PROVE  SameNodes(k, m)
BY DEF SameNodes

\* The list with another value in one node.
WithValue(l, a, v) ==
  [head |-> l.head, tail |-> l.tail, length |-> l.length,
   node |-> [b \in DOMAIN l.node |->
               IF b = a THEN [prev |-> l.node[a].prev, next |-> l.node[a].next, value |-> v]
               ELSE l.node[b]]]

\* A new value of the same client leaves the links alone.
LEMMA WithValueSame ==
  ASSUME NEW l \in ListOf(TryingUser), NEW a \in DOMAIN l.node,
         NEW v \in TryingUser, v.id = l.node[a].value.id
  PROVE  SameNodes(l, WithValue(l, a, v))
<1> DEFINE m == WithValue(l, a, v)
           D == DOMAIN l.node
<1>1. /\ l.head \in Link /\ l.tail \in Link /\ l.length \in Nat /\ D \in SUBSET Addr
      /\ \A b \in D : l.node[b] \in NodeOf(TryingUser)
  BY DEF ListOf
<1>2. /\ m.head = l.head /\ m.tail = l.tail /\ m.length = l.length
      /\ m.node = [b \in D |->
           IF b = a THEN [prev |-> l.node[a].prev, next |-> l.node[a].next, value |-> v]
           ELSE l.node[b]]
  BY DEF WithValue
<1>3. \A b \in D : /\ m.node[b] \in NodeOf(TryingUser)
                   /\ m.node[b].prev = l.node[b].prev
                   /\ m.node[b].next = l.node[b].next
                   /\ m.node[b].value.id = l.node[b].value.id
  BY <1>1, <1>2 DEF NodeOf
<1>4. m.node \in [D -> NodeOf(TryingUser)]
  BY <1>2, <1>3
<1>5. m \in ListOf(TryingUser)
  <2>1. m = [head |-> m.head, tail |-> m.tail, length |-> m.length, node |-> m.node]
    BY DEF WithValue
  <2> HIDE DEF m, D
  <2> QED
    BY <1>1, <1>2, <1>4, <2>1 DEF ListOf
<1> QED
  BY <1>2, <1>3, <1>5 DEF SameNodes

\* The values that the assignments to a node leave.
Pointing(u, to) == [id |-> u.id, matchingWith |-> to, progress |-> u.progress]

Marked(u, to) == [id |-> u.id, matchingWith |-> u.matchingWith, progress |-> to]

\* The assignments: where a user points to is no link.
LEMMA SetMatchingWith ==
  ASSUME NEW l \in ListOf(TryingUser), NEW a \in DOMAIN l.node, NEW to \in Link
  PROVE  LET m == [l EXCEPT !.node[a].value.matchingWith = to]
         IN /\ SameNodes(l, m)
            /\ \A b \in DOMAIN l.node :
                 m.node[b].value = IF b = a THEN Pointing(l.node[a].value, to)
                                   ELSE l.node[b].value
<1> DEFINE v == Pointing(l.node[a].value, to)
<1>1. /\ DOMAIN l.node \in SUBSET Addr /\ l.node[a] \in NodeOf(TryingUser)
      /\ l = [head |-> l.head, tail |-> l.tail, length |-> l.length, node |-> l.node]
      /\ l.node = [b \in DOMAIN l.node |-> l.node[b]]
  BY DEF ListOf
<1>2. /\ l.node[a] = [prev |-> l.node[a].prev, next |-> l.node[a].next,
                      value |-> l.node[a].value]
      /\ l.node[a].value \in TryingUser
  BY <1>1 DEF NodeOf
<1>3. /\ v \in TryingUser /\ v.id = l.node[a].value.id
      /\ v = [l.node[a].value EXCEPT !.matchingWith = to]
  BY <1>2 DEF TryingUser, Pointing
<1>4. [l.node[a] EXCEPT !.value = v] =
        [prev |-> l.node[a].prev, next |-> l.node[a].next, value |-> v]
  BY <1>2
<1>5. [l EXCEPT !.node[a].value.matchingWith = to]
        = [l EXCEPT !.node = [l.node EXCEPT ![a] = [l.node[a] EXCEPT !.value =
             [l.node[a].value EXCEPT !.matchingWith = to]]]]
  BY <1>1, <1>2
<1> HIDE DEF v
<1>6. [l EXCEPT !.node[a].value.matchingWith = to] = WithValue(l, a, v)
  <2> DEFINE w == [prev |-> l.node[a].prev, next |-> l.node[a].next, value |-> v]
             node == [b \in DOMAIN l.node |-> IF b = a THEN w ELSE l.node[b]]
  <2>1. [l.node EXCEPT ![a] = w] = node
    BY <1>1
  <2>2. [l EXCEPT !.node[a].value.matchingWith = to] = [l EXCEPT !.node = [l.node EXCEPT ![a] = w]]
    BY <1>3, <1>4, <1>5
  <2>3. WithValue(l, a, v) = [head |-> l.head, tail |-> l.tail, length |-> l.length,
                              node |-> node]
    BY DEF WithValue
  <2> HIDE DEF w, node
  <2>4. PICK h, t, n, d : l = [head |-> h, tail |-> t, length |-> n, node |-> d]
    BY <1>1
  <2> QED
    BY <2>1, <2>2, <2>3, <2>4
<1>7. SameNodes(l, WithValue(l, a, v))
  BY <1>3, WithValueSame
<1>8. \A b \in DOMAIN l.node :
        WithValue(l, a, v).node[b].value = IF b = a THEN v ELSE l.node[b].value
  BY DEF WithValue
<1> QED
  BY <1>6, <1>7, <1>8, Zenon DEF v

\* The mark of a user is no link.
LEMMA SetProgress ==
  ASSUME NEW l \in ListOf(TryingUser), NEW a \in DOMAIN l.node, NEW to \in {"WAITING", "PROCESSING"}
  PROVE  LET m == [l EXCEPT !.node[a].value.progress = to]
         IN /\ SameNodes(l, m)
            /\ \A b \in DOMAIN l.node :
                 m.node[b].value = IF b = a THEN Marked(l.node[a].value, to)
                                   ELSE l.node[b].value
<1> DEFINE v == Marked(l.node[a].value, to)
<1>1. /\ DOMAIN l.node \in SUBSET Addr /\ l.node[a] \in NodeOf(TryingUser)
      /\ l = [head |-> l.head, tail |-> l.tail, length |-> l.length, node |-> l.node]
      /\ l.node = [b \in DOMAIN l.node |-> l.node[b]]
  BY DEF ListOf
<1>2. /\ l.node[a] = [prev |-> l.node[a].prev, next |-> l.node[a].next,
                      value |-> l.node[a].value]
      /\ l.node[a].value \in TryingUser
  BY <1>1 DEF NodeOf
<1>3. /\ v \in TryingUser /\ v.id = l.node[a].value.id
      /\ v = [l.node[a].value EXCEPT !.progress = to]
  BY <1>2 DEF TryingUser, Marked
<1>4. [l.node[a] EXCEPT !.value = v] =
        [prev |-> l.node[a].prev, next |-> l.node[a].next, value |-> v]
  BY <1>2
<1>5. [l EXCEPT !.node[a].value.progress = to]
        = [l EXCEPT !.node = [l.node EXCEPT ![a] = [l.node[a] EXCEPT !.value =
             [l.node[a].value EXCEPT !.progress = to]]]]
  BY <1>1, <1>2
<1> HIDE DEF v
<1>6. [l EXCEPT !.node[a].value.progress = to] = WithValue(l, a, v)
  <2> DEFINE w == [prev |-> l.node[a].prev, next |-> l.node[a].next, value |-> v]
             node == [b \in DOMAIN l.node |-> IF b = a THEN w ELSE l.node[b]]
  <2>1. [l.node EXCEPT ![a] = w] = node
    BY <1>1
  <2>2. [l EXCEPT !.node[a].value.progress = to] = [l EXCEPT !.node = [l.node EXCEPT ![a] = w]]
    BY <1>3, <1>4, <1>5
  <2>3. WithValue(l, a, v) = [head |-> l.head, tail |-> l.tail, length |-> l.length,
                              node |-> node]
    BY DEF WithValue
  <2> HIDE DEF w, node
  <2>4. PICK h, t, n, d : l = [head |-> h, tail |-> t, length |-> n, node |-> d]
    BY <1>1
  <2> QED
    BY <2>1, <2>2, <2>3, <2>4
<1>7. SameNodes(l, WithValue(l, a, v))
  BY <1>3, WithValueSame
<1>8. \A b \in DOMAIN l.node :
        WithValue(l, a, v).node[b].value = IF b = a THEN v ELSE l.node[b].value
  BY DEF WithValue
<1> QED
  BY <1>6, <1>7, <1>8, Zenon DEF v

\* Moving a user on changes no link.
LEMMA NextNodeSame ==
  ASSUME NEW l \in ListOf(TryingUser), NEW a \in DOMAIN l.node, NEW to \in Link
  PROVE  /\ SameNodes(l, NextNode(l, a, to))
         /\ \A b \in DOMAIN l.node :
              NextNode(l, a, to).node[b].value =
                IF b = a THEN Marked(Pointing(l.node[a].value, to), "WAITING")
                ELSE l.node[b].value
<1> DEFINE m == [l EXCEPT !.node[a].value.matchingWith = to]
           n == [m EXCEPT !.node[a].value.progress = "WAITING"]
<1>1. /\ SameNodes(l, m)
      /\ \A b \in DOMAIN l.node :
           m.node[b].value = IF b = a THEN Pointing(l.node[a].value, to) ELSE l.node[b].value
  BY SetMatchingWith
<1>2. NextNode(l, a, to) = n
  BY DEF NextNode
<1>3. m \in ListOf(TryingUser) /\ a \in DOMAIN m.node /\ DOMAIN m.node = DOMAIN l.node
  BY <1>1 DEF SameNodes
<1> HIDE DEF m
<1>4. /\ SameNodes(m, n)
      /\ \A b \in DOMAIN m.node :
           n.node[b].value = IF b = a THEN Marked(m.node[a].value, "WAITING") ELSE m.node[b].value
  BY <1>3, SetProgress
<1> HIDE DEF n
<1>5. SameNodes(l, n)
  BY <1>1, <1>4, SameNodesTrans
<1>6. \A b \in DOMAIN l.node :
        n.node[b].value = IF b = a THEN Marked(Pointing(l.node[a].value, to), "WAITING")
                          ELSE l.node[b].value
  BY <1>1, <1>3, <1>4
<1> QED
  BY <1>2, <1>5, <1>6

\* A heap as the handlers have it, and one in which only values of nodes in
\* trying_queue are others.
IsHeap(h) ==
  h = [candidates |-> h.candidates, trying |-> h.trying, working_job |-> h.working_job,
       jobs |-> h.jobs, ok |-> h.ok]

SameHeap(h, g) ==
  IsHeap(g) /\ g.candidates = h.candidates /\ SameNodes(h.trying, g.trying)

\* Neither does the start of a trial.
LEMMA StartSame ==
  ASSUME NEW h, IsHeap(h), h.trying \in ListOf(TryingUser),
         NEW iter \in DOMAIN h.trying.node, NEW counter
  PROVE  SameHeap(h, Start(h, iter, counter))
<1> DEFINE g == Start(h, iter, counter)
           t == [h.trying EXCEPT !.node[iter].value.progress = "PROCESSING"]
<1>1. PICK c, l, w, j, k :
        h = [candidates |-> c, trying |-> l, working_job |-> w, jobs |-> j, ok |-> k]
  BY DEF IsHeap
<1>2. l = h.trying /\ c = h.candidates
  BY <1>1
<1>3. SameNodes(h.trying, t)
  BY SetProgress
<1>4. SameNodes(h.trying, h.trying)
  BY DEF SameNodes
<1>5. \/ g = [h EXCEPT !.ok = FALSE]
      \/ \E job : g = [h EXCEPT !.trying.node[iter].value.progress = "PROCESSING",
                                !.working_job = @ + 1,
                                !.jobs = Append(@, job)]
  BY DEF Start
<1>6. CASE g = [h EXCEPT !.ok = FALSE]
  <2>1. g = [candidates |-> c, trying |-> l, working_job |-> w, jobs |-> j, ok |-> FALSE]
    BY <1>1, <1>6
  <2> QED
    BY <1>2, <1>4, <2>1 DEF SameHeap, IsHeap
<1>7. ASSUME NEW job, g = [h EXCEPT !.trying.node[iter].value.progress = "PROCESSING",
                                    !.working_job = @ + 1,
                                    !.jobs = Append(@, job)]
      PROVE  SameHeap(h, g)
  <2>1. g = [candidates |-> c, trying |-> t, working_job |-> w + 1,
             jobs |-> Append(j, job), ok |-> k]
    BY <1>1, <1>2, <1>7
  <2> HIDE DEF t
  <2> QED
    BY <1>2, <1>3, <2>1 DEF SameHeap, IsHeap
<1> QED
  BY <1>5, <1>6, <1>7

-----------------------------------------------------------------------------
(* The loops, by induction on their rounds.                                *)

ArrangeRounds(f, n, h, counter) ==
  f = [k \in 0..n |-> IF k = 0 THEN [h |-> h, iter |-> h.trying.head]
                      ELSE ArrangeRound(f[k-1], counter)]

\* n rounds of arrange_job can be run.
LEMMA ArrangeRoundsExist ==
  ASSUME NEW h, NEW counter, NEW n \in Nat
  PROVE  \E f : ArrangeRounds(f, n, h, counter)
<1> DEFINE B == {m \in Nat : ~ \E f : ArrangeRounds(f, m, h, counter)}
<1>1. SUFFICES ASSUME B # {} PROVE FALSE
  OBVIOUS
<1>2. PICK m \in B : \A x \in B : m <= x
  <2>1. B \in SUBSET Nat
    OBVIOUS
  <2> HIDE DEF B
  <2> QED
    BY <1>1, <2>1, MinOfNats
<1>3. CASE m = 0
  <2>1. ArrangeRounds([k \in 0..0 |-> [h |-> h, iter |-> h.trying.head]], 0, h, counter)
    BY DEF ArrangeRounds
  <2> QED
    BY <1>2, <1>3, <2>1
<1>4. CASE m # 0
  <2>1. m \in Nat /\ m-1 \in Nat /\ m-1 \notin B
    BY <1>2, <1>4
  <2>2. PICK f : ArrangeRounds(f, m-1, h, counter)
    BY <2>1
  <2>3. /\ \A k \in 0..m-1 : f[k] = IF k = 0 THEN [h |-> h, iter |-> h.trying.head]
                                    ELSE ArrangeRound(f[k-1], counter)
    BY <2>2 DEF ArrangeRounds
  <2> DEFINE g == [k \in 0..m |-> IF k = m THEN ArrangeRound(f[m-1], counter) ELSE f[k]]
  <2>4. \A k \in 0..m : g[k] = IF k = 0 THEN [h |-> h, iter |-> h.trying.head]
                               ELSE ArrangeRound(g[k-1], counter)
    <3> TAKE k \in 0..m
    <3>1. CASE k = m
      <4>1. m-1 \in 0..m /\ m-1 # m /\ m \in 0..m
        BY <1>4, <2>1
      <4>2. g[m-1] = f[m-1] /\ g[m] = ArrangeRound(f[m-1], counter)
        BY <4>1
      <4> HIDE DEF g
      <4> QED
        BY <1>4, <3>1, <4>2
    <3>2. CASE k # m
      <4>1. k \in 0..m-1 /\ (k # 0 => k-1 \in 0..m /\ k-1 # m)
        BY <2>1, <3>2
      <4>2. g[k] = f[k] /\ (k # 0 => g[k-1] = f[k-1])
        BY <3>2, <4>1
      <4> HIDE DEF g
      <4> QED
        BY <2>3, <4>1, <4>2
    <3> QED
      BY <3>1, <3>2
  <2>5. g = [k \in 0..m |-> g[k]]
    OBVIOUS
  <2> HIDE DEF g
  <2>6. ArrangeRounds(g, m, h, counter)
    BY <2>4, <2>5 DEF ArrangeRounds
  <2> QED
    BY <1>2, <2>6
<1> QED
  BY <1>3, <1>4

ArrangeAt(at, h) ==
  /\ at = [h |-> at.h, iter |-> at.iter]
  /\ SameHeap(h, at.h)
  /\ at.iter \in DOMAIN h.trying.node \union {Null}

\* A round stays on the list and changes no links.
LEMMA ArrangeRoundKeeps ==
  ASSUME NEW h, NEW s, Chain(h.trying, s), NEW at, ArrangeAt(at, h), NEW counter
  PROVE  ArrangeAt(ArrangeRound(at, counter), h)
<1> DEFINE g == at.h
           iter == at.iter
           next == [h |-> IF MayStart(g, iter) THEN Start(g, iter, counter) ELSE g,
                    iter |-> g.trying.node[iter].next]
<1>1. \/ ArrangeRound(at, counter) = at
      \/ iter # Null /\ ArrangeRound(at, counter) = next
  BY DEF ArrangeRound
<1>2. CASE iter # Null
  <2>1. /\ SameHeap(h, g) /\ IsHeap(g) /\ g.trying \in ListOf(TryingUser)
        /\ iter \in DOMAIN g.trying.node
        /\ DOMAIN g.trying.node = DOMAIN h.trying.node
        /\ SameNodes(h.trying, g.trying)
    BY <1>2 DEF ArrangeAt, SameHeap, SameNodes
  <2>2. Chain(g.trying, s)
    BY <2>1, SameNodesChain
  <2>3. next.iter \in DOMAIN h.trying.node \union {Null}
    BY <2>1, <2>2, ChainNext
  <2>4. SameHeap(g, Start(g, iter, counter))
    BY <2>1, StartSame
  <2>5. SameHeap(h, Start(g, iter, counter))
    BY <2>1, <2>4, SameNodesTrans DEF SameHeap
  <2>6. SameHeap(h, next.h)
    BY <2>1, <2>5
  <2>7. next = [h |-> next.h, iter |-> next.iter]
    OBVIOUS
  <2> HIDE DEF next
  <2> QED
    BY <1>1, <2>3, <2>6, <2>7 DEF ArrangeAt
<1> QED
  BY <1>1, <1>2

\* arrange_job changes no links.
LEMMA ArrangeKeeps ==
  ASSUME NEW h, IsHeap(h), h.trying \in ListOf(TryingUser),
         NEW s, Chain(h.trying, s), NEW counter
  PROVE  SameHeap(h, Arrange(h, counter))
<1> DEFINE N == Cardinality(Addr)
           after == CHOOSE f : ArrangeRounds(f, N, h, counter)
<1>1. N \in Nat
  BY HeapAssumption, FS_CardinalityType
<1>2. Arrange(h, counter) = after[N].h
  BY DEF Arrange, ArrangeRounds
<1>3. ArrangeRounds(after, N, h, counter)
  BY <1>1, ArrangeRoundsExist
<1> HIDE DEF after, N
<1>4. \A k \in 0..N : after[k] = IF k = 0 THEN [h |-> h, iter |-> h.trying.head]
                                 ELSE ArrangeRound(after[k-1], counter)
  BY <1>3 DEF ArrangeRounds
<1> DEFINE B == {k \in 0..N : ~ArrangeAt(after[k], h)}
<1>5. B = {}
  <2>1. SUFFICES ASSUME B # {} PROVE FALSE
    OBVIOUS
  <2>2. PICK k \in B : \A x \in B : k <= x
    <3>1. B \in SUBSET Nat
      BY <1>1
    <3> HIDE DEF B
    <3> QED
      BY <2>1, <3>1, MinOfNats
  <2>3. CASE k = 0
    <3>1. after[0] = [h |-> h, iter |-> h.trying.head]
      BY <1>4, <2>2, <2>3
    <3>2. h.trying.head \in DOMAIN h.trying.node \union {Null}
      BY DEF Chain
    <3>3. SameHeap(h, h)
      BY DEF SameHeap, SameNodes
    <3> QED
      BY <2>2, <2>3, <3>1, <3>2, <3>3 DEF ArrangeAt
  <2>4. CASE k # 0
    <3>1. k-1 \in 0..N /\ k-1 \notin B /\ k \in 0..N
      BY <1>1, <2>2, <2>4
    <3>2. ArrangeAt(after[k-1], h)
      BY <3>1
    <3>3. ArrangeAt(ArrangeRound(after[k-1], counter), h)
      BY <3>2, ArrangeRoundKeeps
    <3> QED
      BY <1>4, <2>2, <2>4, <3>1, <3>3
  <2> QED
    BY <2>3, <2>4
<1>6. N \in 0..N
  BY <1>1
<1>7. ArrangeAt(after[N], h)
  BY <1>5, <1>6
<1> QED
  BY <1>2, <1>7 DEF ArrangeAt

SendRounds(f, n, list, iter, from, to) ==
  f = [k \in 0..n |-> IF k = 0 THEN [list |-> list, iter |-> iter]
                      ELSE SendRound(f[k-1], from, to)]

\* n rounds of the loop in detach can be run.
LEMMA SendRoundsExist ==
  ASSUME NEW list, NEW iter, NEW from, NEW to, NEW n \in Nat
  PROVE  \E f : SendRounds(f, n, list, iter, from, to)
<1> DEFINE B == {m \in Nat : ~ \E f : SendRounds(f, m, list, iter, from, to)}
<1>1. SUFFICES ASSUME B # {} PROVE FALSE
  OBVIOUS
<1>2. PICK m \in B : \A x \in B : m <= x
  <2>1. B \in SUBSET Nat
    OBVIOUS
  <2> HIDE DEF B
  <2> QED
    BY <1>1, <2>1, MinOfNats
<1>3. CASE m = 0
  <2>1. SendRounds([k \in 0..0 |-> [list |-> list, iter |-> iter]], 0, list, iter, from, to)
    BY DEF SendRounds
  <2> QED
    BY <1>2, <1>3, <2>1
<1>4. CASE m # 0
  <2>1. m \in Nat /\ m-1 \in Nat /\ m-1 \notin B
    BY <1>2, <1>4
  <2>2. PICK f : SendRounds(f, m-1, list, iter, from, to)
    BY <2>1
  <2>3. /\ \A k \in 0..m-1 : f[k] = IF k = 0 THEN [list |-> list, iter |-> iter]
                                    ELSE SendRound(f[k-1], from, to)
    BY <2>2 DEF SendRounds
  <2> DEFINE g == [k \in 0..m |-> IF k = m THEN SendRound(f[m-1], from, to) ELSE f[k]]
  <2>4. \A k \in 0..m : g[k] = IF k = 0 THEN [list |-> list, iter |-> iter]
                               ELSE SendRound(g[k-1], from, to)
    <3> TAKE k \in 0..m
    <3>1. CASE k = m
      <4>1. m-1 \in 0..m /\ m-1 # m /\ m \in 0..m
        BY <1>4, <2>1
      <4>2. g[m-1] = f[m-1] /\ g[m] = SendRound(f[m-1], from, to)
        BY <4>1
      <4> HIDE DEF g
      <4> QED
        BY <1>4, <3>1, <4>2
    <3>2. CASE k # m
      <4>1. k \in 0..m-1 /\ (k # 0 => k-1 \in 0..m /\ k-1 # m)
        BY <2>1, <3>2
      <4>2. g[k] = f[k] /\ (k # 0 => g[k-1] = f[k-1])
        BY <3>2, <4>1
      <4> HIDE DEF g
      <4> QED
        BY <2>3, <4>1, <4>2
    <3> QED
      BY <3>1, <3>2
  <2>5. g = [k \in 0..m |-> g[k]]
    OBVIOUS
  <2> HIDE DEF g
  <2>6. SendRounds(g, m, list, iter, from, to)
    BY <2>4, <2>5 DEF SendRounds
  <2> QED
    BY <1>2, <2>6
<1> QED
  BY <1>3, <1>4

SendAt(at, list) ==
  /\ at = [list |-> at.list, iter |-> at.iter]
  /\ SameNodes(list, at.list)
  /\ at.iter \in DOMAIN list.node \union {Null}

\* A round stays on the list and changes no links.
LEMMA SendRoundKeeps ==
  ASSUME NEW list, NEW s, Chain(list, s), NEW at, SendAt(at, list), NEW from, NEW to \in Link
  PROVE  SendAt(SendRound(at, from, to), list)
<1> DEFINE l == at.list
           iter == at.iter
           next == [list |-> [l EXCEPT !.node[iter].value.matchingWith = to],
                    iter |-> l.node[iter].next]
<1>1. \/ SendRound(at, from, to) = at
      \/ iter # Null /\ SendRound(at, from, to) = next
  BY DEF SendRound
<1>2. CASE iter # Null
  <2>1. /\ SameNodes(list, l) /\ l \in ListOf(TryingUser)
        /\ iter \in DOMAIN l.node
        /\ DOMAIN l.node = DOMAIN list.node
    BY <1>2 DEF SendAt, SameNodes
  <2>2. Chain(l, s)
    BY <2>1, SameNodesChain
  <2>3. next.iter \in DOMAIN list.node \union {Null}
    BY <2>1, <2>2, ChainNext
  <2>4. SameNodes(l, next.list)
    BY <2>1, SetMatchingWith
  <2>5. SameNodes(list, next.list)
    BY <2>1, <2>4, SameNodesTrans
  <2>6. next = [list |-> next.list, iter |-> next.iter]
    OBVIOUS
  <2> HIDE DEF next
  <2> QED
    BY <1>1, <2>3, <2>5, <2>6 DEF SendAt
<1> QED
  BY <1>1, <1>2

\* Sending users on changes no links.
LEMMA SendKeeps ==
  ASSUME NEW list \in ListOf(TryingUser), NEW s, Chain(list, s),
         NEW iter \in DOMAIN list.node \union {Null}, NEW from, NEW to \in Link
  PROVE  SameNodes(list, SendOn(list, iter, from, to))
<1> DEFINE N == Cardinality(Addr)
           after == CHOOSE f : SendRounds(f, N, list, iter, from, to)
<1>1. N \in Nat
  BY HeapAssumption, FS_CardinalityType
<1>2. SendOn(list, iter, from, to) = after[N].list
  BY DEF SendOn, SendRounds
<1>3. SendRounds(after, N, list, iter, from, to)
  BY <1>1, SendRoundsExist
<1> HIDE DEF after, N
<1>4. \A k \in 0..N : after[k] = IF k = 0 THEN [list |-> list, iter |-> iter]
                                 ELSE SendRound(after[k-1], from, to)
  BY <1>3 DEF SendRounds
<1> DEFINE B == {k \in 0..N : ~SendAt(after[k], list)}
<1>5. B = {}
  <2>1. SUFFICES ASSUME B # {} PROVE FALSE
    OBVIOUS
  <2>2. PICK k \in B : \A x \in B : k <= x
    <3>1. B \in SUBSET Nat
      BY <1>1
    <3> HIDE DEF B
    <3> QED
      BY <2>1, <3>1, MinOfNats
  <2>3. CASE k = 0
    <3>1. after[0] = [list |-> list, iter |-> iter]
      BY <1>4, <2>2, <2>3
    <3>2. SameNodes(list, list)
      BY DEF SameNodes
    <3> QED
      BY <2>2, <2>3, <3>1, <3>2 DEF SendAt
  <2>4. CASE k # 0
    <3>1. k-1 \in 0..N /\ k-1 \notin B /\ k \in 0..N
      BY <1>1, <2>2, <2>4
    <3>2. SendAt(after[k-1], list)
      BY <3>1
    <3>3. SendAt(SendRound(after[k-1], from, to), list)
      BY <3>2, SendRoundKeeps
    <3> QED
      BY <1>4, <2>2, <2>4, <3>1, <3>3
  <2> QED
    BY <2>3, <2>4
<1>6. N \in 0..N
  BY <1>1
<1>7. SendAt(after[N], list)
  BY <1>5, <1>6
<1> QED
  BY <1>2, <1>7 DEF SendAt

-----------------------------------------------------------------------------
(* The two lists and the clients in them.                                  *)

\* Nobody has two nodes.
Apart(c, t) ==
  /\ \A a, b \in DOMAIN c.node : c.node[a].value = c.node[b].value => a = b
  /\ \A a, b \in DOMAIN t.node : t.node[a].value.id = t.node[b].value.id => a = b
  /\ \A a \in DOMAIN c.node, b \in DOMAIN t.node : c.node[a].value # t.node[b].value.id

\* All are in S.
Within(c, t, S) ==
  /\ \A a \in DOMAIN c.node : c.node[a].value \in S
  /\ \A a \in DOMAIN t.node : t.node[a].value.id \in S

Lists(c, t, S) ==
  /\ c \in ListOf(Id) /\ t \in ListOf(TryingUser)
  /\ \E s : Chain(c, s)
  /\ \E s : Chain(t, s)
  /\ Apart(c, t) /\ Within(c, t, S)

\* As long as somebody has no node in a list, there is an address for one.
LEMMA Room ==
  ASSUME NEW D \in SUBSET Addr, NEW f \in [D -> Id], \A a, b \in D : f[a] = f[b] => a = b,
         NEW id \in Id, \A a \in D : f[a] # id
  PROVE  Min(Addr \ D) \in Addr \ D
<1>1. Addr \ D # {}
  <2> SUFFICES ASSUME D = Addr PROVE FALSE
    OBVIOUS
  <2>1. /\ IsFiniteSet(Id \ {id}) /\ Cardinality(Id \ {id}) = Cardinality(Id) - 1
        /\ Cardinality(Id) \in Nat /\ Cardinality(Addr) \in Nat
    BY HeapAssumption, FS_RemoveElement, FS_CardinalityType
  <2>2. f \in Injection(Addr, Id \ {id})
    BY DEF Injection, IsInjective
  <2>3. Cardinality(Addr) <= Cardinality(Id \ {id})
    BY <2>1, <2>2, FS_Injection
  <2> QED
    BY <2>1, <2>3, HeapAssumption
<1>2. Addr \ D \in SUBSET Nat
  BY HeapAssumption
<1> QED
  BY <1>1, <1>2, MinOfNats

\* A client that is not in candidate_queue finds an address there ...
LEMMA CandidateRoom ==
  ASSUME NEW c, NEW t, NEW S, Lists(c, t, S), NEW id \in Id,
         \A a \in DOMAIN c.node : c.node[a].value # id
  PROVE  New(c) \in Addr \ DOMAIN c.node
<1> DEFINE D == DOMAIN c.node
           f == [a \in D |-> c.node[a].value]
<1>1. c \in ListOf(Id) /\ \A a, b \in D : c.node[a].value = c.node[b].value => a = b
  BY DEF Lists, Apart
<1>2. D \in SUBSET Addr /\ \A a \in D : c.node[a] \in NodeOf(Id)
  BY <1>1 DEF ListOf
<1>3. f \in [D -> Id]
  BY <1>2 DEF NodeOf
<1>4. (\A a, b \in D : f[a] = f[b] => a = b) /\ \A a \in D : f[a] # id
  BY <1>1
<1> HIDE DEF f, D
<1>5. Min(Addr \ D) \in Addr \ D
  BY <1>2, <1>3, <1>4, Room
<1> QED
  BY <1>5 DEF New, D

\* ... and one that is not in trying_queue there.
LEMMA TryingRoom ==
  ASSUME NEW c, NEW t, NEW S, Lists(c, t, S), NEW id \in Id,
         \A a \in DOMAIN t.node : t.node[a].value.id # id
  PROVE  New(t) \in Addr \ DOMAIN t.node
<1> DEFINE D == DOMAIN t.node
           f == [a \in D |-> t.node[a].value.id]
<1>1. /\ t \in ListOf(TryingUser)
      /\ \A a, b \in D : t.node[a].value.id = t.node[b].value.id => a = b
  BY DEF Lists, Apart
<1>2. D \in SUBSET Addr /\ \A a \in D : t.node[a] \in NodeOf(TryingUser)
  BY <1>1 DEF ListOf
<1>3. f \in [D -> Id]
  BY <1>2 DEF NodeOf, TryingUser
<1>4. (\A a, b \in D : f[a] = f[b] => a = b) /\ \A a \in D : f[a] # id
  BY <1>1
<1> HIDE DEF f, D
<1>5. Min(Addr \ D) \in Addr \ D
  BY <1>2, <1>3, <1>4, Room
<1> QED
  BY <1>5 DEF New, D

\* The steps of the handlers on the lists.
LEMMA NewCandidate ==
  ASSUME NEW c, NEW t, NEW S, Lists(c, t, S), NEW id \in Id, id \notin S
  PROVE  /\ Lists(L!PushBack(c, New(c), id), t, S \union {id})
         /\ DOMAIN c.node \subseteq DOMAIN L!PushBack(c, New(c), id).node
         /\ \A a \in DOMAIN c.node :
              L!PushBack(c, New(c), id).node[a].value = c.node[a].value
<1> DEFINE new == L!PushBack(c, New(c), id)
<1>1. \A a \in DOMAIN c.node : c.node[a].value # id
  BY DEF Lists, Within
<1>2. New(c) \in Addr \ DOMAIN c.node
  BY <1>1, CandidateRoom
<1>3. PICK s : Chain(c, s)
  BY DEF Lists
<1>4. c \in ListOf(Id)
  BY DEF Lists
<1>5. /\ new \in ListOf(Id)
      /\ Chain(new, Append(s, New(c)))
      /\ DOMAIN new.node = DOMAIN c.node \union {New(c)}
      /\ new.node[New(c)].value = id
      /\ \A a \in DOMAIN c.node : new.node[a].value = c.node[a].value
  BY <1>2, <1>3, <1>4, PushBackChain
<1> HIDE DEF new
<1>6. Within(new, t, S \union {id})
  BY <1>5 DEF Lists, Within
<1>7. \A b \in DOMAIN t.node : t.node[b].value.id # id
  BY DEF Lists, Within
<1>8. Apart(new, t)
  BY <1>1, <1>5, <1>7 DEF Lists, Apart
<1> QED
  BY <1>5, <1>6, <1>8 DEF Lists, new

\* push_back of a user that was in no list.
LEMMA NewTrying ==
  ASSUME NEW c, NEW t, NEW S, Lists(c, t, S), NEW u \in TryingUser, u.id \notin S
  PROVE  Lists(c, L!PushBack(t, New(t), u), S \union {u.id})
<1> DEFINE new == L!PushBack(t, New(t), u)
<1>1. u.id \in Id /\ \A a \in DOMAIN t.node : t.node[a].value.id # u.id
  BY DEF Lists, Within, TryingUser
<1>2. New(t) \in Addr \ DOMAIN t.node
  BY <1>1, TryingRoom
<1>3. PICK s : Chain(t, s)
  BY DEF Lists
<1>4. t \in ListOf(TryingUser)
  BY DEF Lists
<1>5. /\ new \in ListOf(TryingUser)
      /\ Chain(new, Append(s, New(t)))
      /\ DOMAIN new.node = DOMAIN t.node \union {New(t)}
      /\ new.node[New(t)].value = u
      /\ \A a \in DOMAIN t.node : new.node[a].value = t.node[a].value
  BY <1>2, <1>3, <1>4, PushBackChain
<1> HIDE DEF new
<1>6. Within(c, new, S \union {u.id})
  BY <1>5 DEF Lists, Within
<1>7. \A b \in DOMAIN c.node : c.node[b].value # u.id
  BY DEF Lists, Within
<1>8. Apart(c, new)
  BY <1>1, <1>5, <1>7 DEF Lists, Apart
<1> QED
  BY <1>5, <1>6, <1>8 DEF Lists, new

\* A candidate is erased.
LEMMA EraseCandidate ==
  ASSUME NEW c, NEW t, NEW S, Lists(c, t, S), NEW a \in DOMAIN c.node
  PROVE  Lists(L!Erase(c, a), t, S \ {c.node[a].value})
<1> DEFINE new == L!Erase(c, a)
<1>1. PICK s : Chain(c, s)
  BY DEF Lists
<1>2. PICK k \in 1..Len(s) : a = s[k]
  BY <1>1 DEF Chain
<1>3. c \in ListOf(Id)
  BY DEF Lists
<1>4. /\ new \in ListOf(Id)
      /\ Chain(new, Without(s, k))
      /\ DOMAIN new.node = DOMAIN c.node \ {a}
      /\ \A b \in DOMAIN new.node : new.node[b].value = c.node[b].value
  BY <1>1, <1>2, <1>3, EraseChain
<1> HIDE DEF new
<1>5. Apart(new, t) /\ Within(new, t, S \ {c.node[a].value})
  BY <1>4 DEF Lists, Apart, Within
<1> QED
  BY <1>4, <1>5 DEF Lists, new

\* A user is erased, and the other nodes stay those of the same users.
LEMMA EraseTrying ==
  ASSUME NEW c, NEW t, NEW S, Lists(c, t, S), NEW a \in DOMAIN t.node
  PROVE  /\ Lists(c, L!Erase(t, a), S \ {t.node[a].value.id})
         /\ DOMAIN L!Erase(t, a).node = DOMAIN t.node \ {a}
         /\ \A b \in DOMAIN t.node \ {a} :
              L!Erase(t, a).node[b].value.id = t.node[b].value.id
<1> DEFINE new == L!Erase(t, a)
<1>1. PICK s : Chain(t, s)
  BY DEF Lists
<1>2. PICK k \in 1..Len(s) : a = s[k]
  BY <1>1 DEF Chain
<1>3. t \in ListOf(TryingUser)
  BY DEF Lists
<1>4. /\ new \in ListOf(TryingUser)
      /\ Chain(new, Without(s, k))
      /\ DOMAIN new.node = DOMAIN t.node \ {a}
      /\ \A b \in DOMAIN new.node : new.node[b].value = t.node[b].value
  BY <1>1, <1>2, <1>3, EraseChain
<1> HIDE DEF new
<1>5. Apart(c, new) /\ Within(c, new, S \ {t.node[a].value.id})
  BY <1>4 DEF Lists, Apart, Within
<1> QED
  BY <1>4, <1>5 DEF Lists, new

\* Changes that are no links leave both lists well formed.
LEMMA SameLists ==
  ASSUME NEW c, NEW t, NEW S, Lists(c, t, S), NEW m, SameNodes(t, m)
  PROVE  Lists(c, m, S)
<1>1. PICK s : Chain(t, s)
  BY DEF Lists
<1>2. Chain(m, s)
  BY <1>1, SameNodesChain
<1>3. m \in ListOf(TryingUser) /\ Apart(c, m) /\ Within(c, m, S)
  BY DEF Lists, Apart, Within, SameNodes
<1> QED
  BY <1>2, <1>3 DEF Lists

-----------------------------------------------------------------------------
(* The handlers' steps on both lists at once.                              *)

HeapLists(h, S) == IsHeap(h) /\ Lists(h.candidates, h.trying, S)

\* arrange_job on well formed lists.
LEMMA ArrangeLists ==
  ASSUME NEW h, NEW S, HeapLists(h, S), NEW counter
  PROVE  Lists(Arrange(h, counter).candidates, Arrange(h, counter).trying, S)
<1> DEFINE g == Arrange(h, counter)
<1>1. PICK s : Chain(h.trying, s)
  BY DEF HeapLists, Lists
<1>2. SameHeap(h, g)
  <2>1. IsHeap(h) /\ h.trying \in ListOf(TryingUser)
    BY DEF HeapLists, Lists
  <2> QED
    BY <1>1, <2>1, ArrangeKeeps
<1> HIDE DEF g
<1>3. g.candidates = h.candidates /\ SameNodes(h.trying, g.trying)
  BY <1>2 DEF SameHeap
<1>4. Lists(h.candidates, g.trying, S)
  BY <1>3, SameLists DEF HeapLists
<1> QED
  BY <1>3, <1>4 DEF g

\* A user changes from one list to the other; the candidates keep their nodes.
LEMMA PromoteLists ==
  ASSUME NEW h, NEW S, HeapLists(h, S), NEW iter \in DOMAIN h.trying.node
  PROVE  LET g == Promote(h, iter)
         IN /\ HeapLists(g, S)
            /\ DOMAIN g.trying.node = DOMAIN h.trying.node \ {iter}
            /\ \A b \in DOMAIN g.trying.node :
                 g.trying.node[b].value.id = h.trying.node[b].value.id
            /\ \A a \in DOMAIN h.candidates.node :
                 /\ a \in DOMAIN g.candidates.node
                 /\ g.candidates.node[a].value = h.candidates.node[a].value
<1> DEFINE g == Promote(h, iter)
           c == h.candidates
           t == h.trying
           id == t.node[iter].value.id
           c1 == L!PushBack(c, New(c), id)
           t1 == L!Erase(t, iter)
<1>1. PICK cc, tt, w, j, k :
        h = [candidates |-> cc, trying |-> tt, working_job |-> w, jobs |-> j, ok |-> k]
  BY DEF HeapLists, IsHeap
<1>2. g = [candidates |-> c1, trying |-> t1, working_job |-> w, jobs |-> j, ok |-> k]
  <2>1. g = [h EXCEPT !.candidates = c1, !.trying = t1]
    BY DEF Promote
  <2> HIDE DEF g, c1, t1
  <2> QED
    BY <1>1, <2>1
<1>3. Lists(c, t, S)
  BY DEF HeapLists
<1>4. id \in S /\ id \in Id
  <2>1. id \in S
    BY <1>3 DEF Lists, Within
  <2>2. t \in ListOf(TryingUser)
    BY <1>3 DEF Lists
  <2>3. t.node[iter] \in NodeOf(TryingUser)
    BY <2>2 DEF ListOf
  <2> QED
    BY <2>1, <2>3 DEF NodeOf, TryingUser
<1>5. /\ Lists(c, t1, S \ {id})
      /\ DOMAIN t1.node = DOMAIN t.node \ {iter}
      /\ \A b \in DOMAIN t.node \ {iter} : t1.node[b].value.id = t.node[b].value.id
  <2> HIDE DEF c, t
  <2> QED
    BY <1>3, EraseTrying DEF c, t
<1> HIDE DEF c1, t1, id, c, t
<1>6. /\ Lists(c1, t1, (S \ {id}) \union {id})
      /\ DOMAIN c.node \subseteq DOMAIN c1.node
      /\ \A a \in DOMAIN c.node : c1.node[a].value = c.node[a].value
  BY <1>4, <1>5, NewCandidate DEF c1
<1>7. (S \ {id}) \union {id} = S
  BY <1>4
<1>8. HeapLists(g, S)
  BY <1>2, <1>6, <1>7 DEF HeapLists, IsHeap
<1>9. g.candidates = c1 /\ g.trying = t1
  BY <1>2
<1> HIDE DEF g
<1>10. /\ DOMAIN g.trying.node = DOMAIN h.trying.node \ {iter}
       /\ \A b \in DOMAIN g.trying.node :
            g.trying.node[b].value.id = h.trying.node[b].value.id
  BY <1>5, <1>9 DEF t
<1>11. \A a \in DOMAIN h.candidates.node :
         /\ a \in DOMAIN g.candidates.node
         /\ g.candidates.node[a].value = h.candidates.node[a].value
  BY <1>6, <1>9 DEF c
<1> QED
  BY <1>8, <1>10, <1>11 DEF g

\* The nodes after one of trying_queue, which the loop in detach starts from.
LEMMA NextTrying ==
  ASSUME NEW c, NEW t, NEW S, Lists(c, t, S), NEW a \in DOMAIN t.node
  PROVE  t.node[a].next \in (DOMAIN t.node \ {a}) \union {Null}
<1>1. PICK s : Chain(t, s)
  BY DEF Lists
<1> QED
  BY <1>1, ChainNext

\* What follows a candidate may be stored as a matchingWith.
LEMMA NextCandidate ==
  ASSUME NEW c, NEW t, NEW S, Lists(c, t, S), NEW a \in DOMAIN c.node
  PROVE  c.node[a].next \in Link
BY DEF Lists, ListOf, NodeOf

\* The loop of detach on well formed lists.
LEMMA SendLists ==
  ASSUME NEW c, NEW t, NEW S, Lists(c, t, S),
         NEW iter \in DOMAIN t.node \union {Null}, NEW from, NEW to \in Link
  PROVE  /\ Lists(c, SendOn(t, iter, from, to), S)
         /\ SameNodes(t, SendOn(t, iter, from, to))
<1>1. PICK s : Chain(t, s)
  BY DEF Lists
<1>2. t \in ListOf(TryingUser)
  BY DEF Lists
<1>3. SameNodes(t, SendOn(t, iter, from, to))
  BY <1>1, <1>2, SendKeeps
<1> QED
  BY <1>3, SameLists

\* detach of a candidate, with or without somebody to be promoted.
LEMMA DropNodeLists ==
  ASSUME NEW h, NEW S, HeapLists(h, S), NEW node \in DOMAIN h.candidates.node
  PROVE  HeapLists(DropNode(h, node), S \ {h.candidates.node[node].value})
<1> DEFINE id == h.candidates.node[node].value
           iter == Behind(h.trying, node)
           promote == node = h.candidates.tail /\ IsBehind(h, iter, node)
           h1 == IF promote THEN Promote(h, iter) ELSE h
           iter1 == IF promote THEN h.trying.node[iter].next ELSE iter
           next == h1.candidates.node[node].next
           t2 == SendOn(h1.trying, iter1, node, next)
           c2 == L!Erase(h1.candidates, node)
<1>1. iter \in DOMAIN h.trying.node \union {Null}
  <2>1. PICK s : Chain(h.trying, s)
    BY DEF HeapLists, Lists
  <2> QED
    BY <2>1, FindBehind
<1>2. promote => iter # Null
  BY DEF IsBehind
<1>3. DropNode(h, node) = [h1 EXCEPT !.trying = t2, !.candidates = c2]
  BY DEF DropNode, Behind
<1> HIDE DEF iter, promote
<1>4. /\ HeapLists(h1, S)
      /\ node \in DOMAIN h1.candidates.node /\ h1.candidates.node[node].value = id
      /\ iter1 \in DOMAIN h1.trying.node \union {Null}
  <2>1. CASE ~promote
    BY <1>1, <2>1
  <2>2. CASE promote
    <3>1. iter \in DOMAIN h.trying.node
      BY <1>1, <1>2, <2>2
    <3>2. /\ HeapLists(Promote(h, iter), S)
          /\ DOMAIN Promote(h, iter).trying.node = DOMAIN h.trying.node \ {iter}
          /\ node \in DOMAIN Promote(h, iter).candidates.node
          /\ Promote(h, iter).candidates.node[node].value = id
      BY <3>1, PromoteLists
    <3>3. iter1 \in (DOMAIN h.trying.node \ {iter}) \union {Null}
      <4>1. h.trying.node[iter].next \in (DOMAIN h.trying.node \ {iter}) \union {Null}
        BY <3>1, NextTrying DEF HeapLists
      <4> QED
        BY <2>2, <4>1
    <3>4. h1 = Promote(h, iter)
      BY <2>2
    <3> HIDE DEF h1, iter1, id
    <3> QED
      BY <3>2, <3>3, <3>4
  <2> QED
    BY <2>1, <2>2
<1> HIDE DEF h1, iter1, id
<1>5. next \in Link
  BY <1>4, NextCandidate DEF HeapLists
<1>6. Lists(h1.candidates, t2, S)
  BY <1>4, <1>5, SendLists DEF HeapLists
<1> HIDE DEF t2, next
<1>7. Lists(c2, t2, S \ {id})
  BY <1>4, <1>6, EraseCandidate
<1>8. PICK cc, tt, w, j, k :
        h1 = [candidates |-> cc, trying |-> tt, working_job |-> w, jobs |-> j, ok |-> k]
  BY <1>4 DEF HeapLists, IsHeap
<1> HIDE DEF c2
<1>9. DropNode(h, node) =
        [candidates |-> c2, trying |-> t2, working_job |-> w, jobs |-> j, ok |-> k]
  BY <1>3, <1>8
<1> QED
  BY <1>7, <1>9 DEF HeapLists, IsHeap, id

\* detach_with_matcher: the user and the candidate leave, and iter is read again
\* from the node of the user, after the one behind it may have been freed.
LEMMA DetachWithMatcherLists ==
  ASSUME NEW h, NEW S, HeapLists(h, S), NEW tn \in DOMAIN h.trying.node,
         h.trying.node[tn].value.matchingWith \in DOMAIN h.candidates.node
  PROVE  HeapLists(DetachWithMatcher(h, tn),
           S \ {h.trying.node[tn].value.id,
                h.candidates.node[h.trying.node[tn].value.matchingWith].value})
<1> DEFINE node == h.trying.node[tn].value.matchingWith
           id == h.trying.node[tn].value.id
           other == h.candidates.node[node].value
           iter == h.trying.node[tn].next
           promote == node = h.candidates.tail /\ IsBehind(h, iter, node)
           h1 == IF promote THEN Promote(h, iter) ELSE h
           next == h1.candidates.node[node].next
           iter1 == h1.trying.node[tn].next
           t2 == SendOn(h1.trying, iter1, node, next)
           t3 == L!Erase(t2, tn)
           c2 == L!Erase(h1.candidates, node)
<1>1. iter \in (DOMAIN h.trying.node \ {tn}) \union {Null}
  BY NextTrying DEF HeapLists
<1>2. promote => iter # Null
  BY DEF IsBehind
<1>3. DetachWithMatcher(h, tn) = [h1 EXCEPT !.trying = t3, !.candidates = c2]
  BY DEF DetachWithMatcher
<1> HIDE DEF iter, promote
<1>4. /\ HeapLists(h1, S)
      /\ node \in DOMAIN h1.candidates.node /\ h1.candidates.node[node].value = other
      /\ tn \in DOMAIN h1.trying.node /\ h1.trying.node[tn].value.id = id
  <2>1. CASE ~promote
    BY <2>1
  <2>2. CASE promote
    <3>1. iter \in DOMAIN h.trying.node /\ iter # tn
      BY <1>1, <1>2, <2>2
    <3> HIDE DEF node
    <3>2. node \in DOMAIN h.candidates.node
      BY DEF node
    <3>3. /\ HeapLists(Promote(h, iter), S)
          /\ DOMAIN Promote(h, iter).trying.node = DOMAIN h.trying.node \ {iter}
          /\ \A b \in DOMAIN Promote(h, iter).trying.node :
               Promote(h, iter).trying.node[b].value.id = h.trying.node[b].value.id
          /\ node \in DOMAIN Promote(h, iter).candidates.node
          /\ Promote(h, iter).candidates.node[node].value = other
      BY <3>1, <3>2, PromoteLists
    <3>4. h1 = Promote(h, iter)
      BY <2>2
    <3>5. tn \in DOMAIN Promote(h, iter).trying.node
      BY <3>1, <3>3
    <3> HIDE DEF h1, other
    <3> QED
      BY <3>3, <3>4, <3>5
  <2> QED
    BY <2>1, <2>2
<1> HIDE DEF h1, id, other, node
<1>5. iter1 \in DOMAIN h1.trying.node \union {Null}
  <2>1. iter1 \in (DOMAIN h1.trying.node \ {tn}) \union {Null}
    BY <1>4, NextTrying DEF HeapLists
  <2> QED
    BY <2>1
<1>6. next \in Link
  BY <1>4, NextCandidate DEF HeapLists
<1>7. Lists(h1.candidates, t2, S) /\ SameNodes(h1.trying, t2)
  BY <1>4, <1>5, <1>6, SendLists DEF HeapLists
<1> HIDE DEF t2, next, iter1
<1>8. tn \in DOMAIN t2.node /\ t2.node[tn].value.id = id
  BY <1>4, <1>7 DEF SameNodes
<1>9. Lists(h1.candidates, t3, S \ {id})
  BY <1>7, <1>8, EraseTrying
<1> HIDE DEF t3
<1>10. Lists(c2, t3, (S \ {id}) \ {other})
  BY <1>4, <1>9, EraseCandidate
<1>11. (S \ {id}) \ {other} = S \ {id, other}
  OBVIOUS
<1>12. PICK cc, tt, w, j, k :
        h1 = [candidates |-> cc, trying |-> tt, working_job |-> w, jobs |-> j, ok |-> k]
  BY <1>4 DEF HeapLists, IsHeap
<1> HIDE DEF c2
<1>13. DetachWithMatcher(h, tn) =
         [candidates |-> c2, trying |-> t3, working_job |-> w, jobs |-> j, ok |-> k]
  BY <1>3, <1>12
<1>14. HeapLists(DetachWithMatcher(h, tn), S \ {id, other})
  BY <1>10, <1>11, <1>13 DEF HeapLists, IsHeap
<1> QED
  BY <1>14 DEF id, other, node

-----------------------------------------------------------------------------
(* The inductive invariant.                                                *)

Waiting == {id \in Id : status[id] = "MATCHING"}

ClientsOK ==
  /\ status \in [Id -> {"IDLE", "MATCHING", "TALKING", "CLOSED"}]
  /\ match_peer \in [Id -> Id \union {NoPeer}]
  /\ \A id \in Id : status[id] = "TALKING" =>
       /\ match_peer[id] \in Id \ {id}
       /\ status[match_peer[id]] = "TALKING"
       /\ match_peer[match_peer[id]] = id

\* The nodes in the two lists are of different clients that wait for a match,
\* which is why there is always an address for a new one; and who leaves a
\* conversation has a partner that waits for nothing.
IInv == Lists(candidates, trying, Waiting) /\ ClientsOK

\* The server starts with two empty lists.
LEMMA InitInv == HeapInit => IInv
<1> SUFFICES ASSUME HeapInit PROVE IInv
  OBVIOUS
<1>1. /\ candidates \in ListOf(Id) /\ trying \in ListOf(TryingUser)
      /\ Chain(candidates, <<>>) /\ Chain(trying, <<>>)
  BY EmptyChain DEF HeapInit
<1>2. DOMAIN candidates.node = {} /\ DOMAIN trying.node = {}
  BY <1>1 DEF Chain
<1>3. Lists(candidates, trying, Waiting)
  BY <1>1, <1>2 DEF Lists, Apart, Within
<1>4. ClientsOK
  BY DEF HeapInit, ClientsOK
<1> QED
  BY <1>3, <1>4 DEF IInv

\* The invariant looks at the lists and the clients only.
LEMMA StutterKeeps == IInv /\ UNCHANGED heapVars => IInv'
<1> SUFFICES ASSUME IInv, UNCHANGED heapVars PROVE IInv'
  OBVIOUS
<1>1. UNCHANGED <<candidates, trying, status, match_peer>>
  BY DEF heapVars, clientVars
<1> QED
  BY <1>1 DEF IInv, ClientsOK, Waiting

\* The heap a handler starts with ...
LEMMA NowIs ==
  /\ Now = [candidates |-> candidates, trying |-> trying, working_job |-> working_job,
            jobs |-> jobs, ok |-> TRUE]
  /\ Now.candidates = candidates /\ Now.trying = trying
BY DEF Now

\* Now with another trying_queue.
LEMMA WithTrying ==
  ASSUME NEW t
  PROVE  [Now EXCEPT !.trying = t] =
           [candidates |-> candidates, trying |-> t, working_job |-> working_job,
            jobs |-> jobs, ok |-> TRUE]
<1>1. PICK c, l, w, j, k :
        Now = [candidates |-> c, trying |-> l, working_job |-> w, jobs |-> j, ok |-> k]
  BY NowIs
<1>2. [Now EXCEPT !.trying = t] =
        [candidates |-> c, trying |-> t, working_job |-> w, jobs |-> j, ok |-> k]
  BY <1>1
<1>3. c = candidates /\ w = working_job /\ j = jobs /\ k = TRUE
  BY <1>1, NowIs
<1> QED
  BY <1>2, <1>3

\* ... is well formed, also after the report was counted.
LEMMA NowLists ==
  ASSUME IInv
  PROVE  /\ HeapLists(Now, Waiting)
         /\ \A js : /\ HeapLists(Reported(js), Waiting)
                    /\ Reported(js).candidates = candidates
                    /\ Reported(js).trying = trying
<1>1. HeapLists(Now, Waiting)
  BY DEF Now, IInv, HeapLists, IsHeap
<1>2. ASSUME NEW js
      PROVE  /\ HeapLists(Reported(js), Waiting)
             /\ Reported(js).candidates = candidates
             /\ Reported(js).trying = trying
  <2>1. \E w : Reported(js) = [candidates |-> candidates, trying |-> trying,
                               working_job |-> w, jobs |-> js, ok |-> TRUE]
    <3> DEFINE w == IF Now.working_job = 0 THEN UINT_MAX ELSE Now.working_job - 1
    <3>1. Reported(js) = [Now EXCEPT !.working_job = w, !.jobs = js]
      BY DEF Reported
    <3> HIDE DEF w
    <3>2. Reported(js) = [candidates |-> candidates, trying |-> trying,
                          working_job |-> w, jobs |-> js, ok |-> TRUE]
      BY <3>1, NowIs
    <3> QED
      BY <3>2
  <2> QED
    BY <2>1 DEF IInv, HeapLists, IsHeap
<1> QED
  BY <1>1, <1>2

-----------------------------------------------------------------------------
(* The commands of the clients.                                            *)

\* A client that asks is in no list, so add finds an address.
LEMMA TryMatchKeeps ==
  ASSUME IInv, NEW id \in Id, Abstract!MayTry(id), TryMatch(id)
  PROVE  IInv'
<1> DEFINE counter == try_match_counter'
           u == [id |-> id, matchingWith |-> candidates.head, progress |-> "WAITING"]
           t == L!PushBack(trying, New(trying), u)
           h == [Now EXCEPT !.trying = t]
<1>1. /\ Lists(candidates, trying, Waiting) /\ id \notin Waiting
      /\ status[id] = "IDLE"
  BY DEF IInv, Abstract!MayTry, Waiting
<1>2. status' = [status EXCEPT ![id] = "MATCHING"] /\ match_peer' = match_peer
  BY DEF TryMatch
<1>3. Waiting' = Waiting \union {id}
  BY <1>2 DEF IInv, ClientsOK, Waiting
<1>4. ClientsOK'
  BY <1>1, <1>2 DEF IInv, ClientsOK
<1>5. \/ /\ candidates' = L!PushBack(candidates, New(candidates), id)
         /\ trying' = trying
      \/ /\ candidates' = Arrange(h, counter).candidates
         /\ trying' = Arrange(h, counter).trying
  <2>1. Add(id, counter)
    BY DEF TryMatch
  <2> HIDE DEF counter
  <2> QED
    BY <2>1, NowIs DEF Add, Finish
<1> HIDE DEF counter
<1>6. Lists(L!PushBack(candidates, New(candidates), id), trying, Waiting \union {id})
  BY <1>1, NewCandidate
<1>7. HeapLists(h, Waiting \union {id})
  <2>1. u \in TryingUser /\ u.id = id
    BY <1>1 DEF Lists, ListOf, TryingUser
  <2> HIDE DEF u
  <2>2. Lists(candidates, t, Waiting \union {id})
    BY <1>1, <2>1, NewTrying
  <2> HIDE DEF t, h
  <2>3. h = [candidates |-> candidates, trying |-> t, working_job |-> working_job,
             jobs |-> jobs, ok |-> TRUE]
    BY WithTrying DEF h
  <2> QED
    BY <2>2, <2>3 DEF HeapLists, IsHeap
<1> HIDE DEF h
<1>8. Lists(Arrange(h, counter).candidates, Arrange(h, counter).trying,
            Waiting \union {id})
  BY <1>7, ArrangeLists
<1>9. Lists(candidates', trying', Waiting')
  BY <1>3, <1>5, <1>6, <1>8
<1> QED
  BY <1>4, <1>9 DEF IInv

\* Whichever list the client is in, detach leaves both well formed.
LEMMA DetachKeeps ==
  ASSUME IInv, NEW id \in Id, Detach(id)
  PROVE  Lists(candidates', trying', Waiting \ {id})
<1> DEFINE tn == OfId(trying, id)
           cn == OfCandidate(candidates, id)
           h1 == [Now EXCEPT !.trying = L!Erase(trying, tn)]
           h2 == DropNode(Now, cn)
           S == Waiting \ {id}
<1>0. Lists(candidates, trying, Waiting)
  BY DEF IInv
<1>1. /\ IF tn = Null THEN \A b \in DOMAIN trying.node : trying.node[b].value.id # id
                      ELSE tn \in DOMAIN trying.node /\ trying.node[tn].value.id = id
      /\ IF cn = Null THEN \A b \in DOMAIN candidates.node : candidates.node[b].value # id
                      ELSE cn \in DOMAIN candidates.node /\ candidates.node[cn].value = id
  <2>1. PICK s : Chain(trying, s)
    BY <1>0 DEF Lists
  <2>2. PICK c : Chain(candidates, c)
    BY <1>0 DEF Lists
  <2> QED
    BY <2>1, <2>2, FindId, FindValue
<1>2. \/ /\ tn # Null
         /\ candidates' = Arrange(h1, try_match_counter).candidates
         /\ trying' = Arrange(h1, try_match_counter).trying
      \/ /\ cn # Null
         /\ candidates' = Arrange(h2, try_match_counter).candidates
         /\ trying' = Arrange(h2, try_match_counter).trying
      \/ /\ tn = Null /\ cn = Null
         /\ UNCHANGED <<candidates, trying>>
  BY NowIs DEF Detach, TryingNode, CandidateNode, OfId, OfCandidate, Finish
<1> HIDE DEF tn, cn
<1>3. CASE tn # Null /\ candidates' = Arrange(h1, try_match_counter).candidates
                     /\ trying' = Arrange(h1, try_match_counter).trying
  <2> DEFINE t == L!Erase(trying, tn)
  <2>1. Lists(candidates, t, S)
    BY <1>0, <1>1, <1>3, EraseTrying
  <2> HIDE DEF t
  <2>2. h1 = [candidates |-> candidates, trying |-> t, working_job |-> working_job,
              jobs |-> jobs, ok |-> TRUE]
    BY WithTrying DEF h1, t
  <2> HIDE DEF h1
  <2>3. HeapLists(h1, S)
    BY <2>1, <2>2 DEF HeapLists, IsHeap
  <2> QED
    BY <1>3, <2>3, ArrangeLists
<1>4. CASE cn # Null /\ candidates' = Arrange(h2, try_match_counter).candidates
                     /\ trying' = Arrange(h2, try_match_counter).trying
  <2>1. cn \in DOMAIN Now.candidates.node /\ Now.candidates.node[cn].value = id
    BY <1>1, <1>4, NowIs
  <2>2. HeapLists(Now, Waiting)
    BY NowLists
  <2>3. HeapLists(h2, S)
    BY <2>1, <2>2, DropNodeLists
  <2> HIDE DEF h2
  <2> QED
    BY <1>4, <2>3, ArrangeLists
<1>5. CASE tn = Null /\ cn = Null /\ UNCHANGED <<candidates, trying>>
  BY <1>0, <1>1, <1>5 DEF Lists, Within
<1> QED
  BY <1>2, <1>3, <1>4, <1>5

\* A client quits or disconnects, from a conversation or from the queues.
LEMMA LeaveKeeps ==
  ASSUME IInv, NEW id \in Id, NEW left \in {"IDLE", "CLOSED"}, Leave(id, left)
  PROVE  IInv'
<1>0. /\ Lists(candidates, trying, Waiting) /\ ClientsOK
      /\ match_peer' = match_peer
  BY DEF IInv, Leave
<1>1. CASE /\ status[id] = "TALKING"
           /\ status' = [status EXCEPT ![match_peer[id]] = "IDLE", ![id] = left]
           /\ UNCHANGED <<candidates, trying>>
  <2>1. /\ match_peer[id] \in Id \ {id}
        /\ status[match_peer[id]] = "TALKING"
        /\ match_peer[match_peer[id]] = id
    BY <1>0, <1>1 DEF ClientsOK
  <2>2. \A x \in Id : status'[x] = IF x = id THEN left
                                   ELSE IF x = match_peer[id] THEN "IDLE" ELSE status[x]
    BY <1>0, <1>1, <2>1 DEF ClientsOK
  <2>3. Waiting' = Waiting
    <3>1. \A x \in Id : status'[x] = "MATCHING" <=> status[x] = "MATCHING"
      <4> TAKE x \in Id
      <4>1. left # "MATCHING" /\ status[id] # "MATCHING"
        BY <1>1
      <4>2. CASE x = id
        BY <2>2, <4>1, <4>2
      <4>3. CASE x # id
        BY <2>1, <2>2, <4>3
      <4> QED
        BY <4>2, <4>3
    <3> QED
      BY <3>1 DEF Waiting
  <2>4. status' \in [Id -> {"IDLE", "MATCHING", "TALKING", "CLOSED"}]
    BY <1>0, <1>1 DEF ClientsOK
  <2>5. ClientsOK'
    <3>1. ASSUME NEW x \in Id, status'[x] = "TALKING"
          PROVE  /\ match_peer[x] \in Id \ {x}
                 /\ status'[match_peer[x]] = "TALKING"
                 /\ match_peer[match_peer[x]] = x
      <4>1. x # id /\ x # match_peer[id] /\ status[x] = "TALKING"
        BY <2>2, <3>1
      <4>2. /\ match_peer[x] \in Id \ {x}
            /\ status[match_peer[x]] = "TALKING"
            /\ match_peer[match_peer[x]] = x
        BY <1>0, <4>1 DEF ClientsOK
      <4>3. match_peer[x] # id /\ match_peer[x] # match_peer[id]
        BY <2>1, <4>1, <4>2
      <4> QED
        BY <2>2, <4>2, <4>3
    <3> QED
      BY <1>0, <2>4, <3>1 DEF ClientsOK
  <2> QED
    BY <1>0, <1>1, <2>3, <2>5 DEF IInv
<1>2. CASE /\ status[id] = "MATCHING"
           /\ status' = [status EXCEPT ![id] = left]
           /\ Detach(id)
  <2>1. Lists(candidates', trying', Waiting \ {id})
    BY <1>2, DetachKeeps
  <2>2. Waiting' = Waiting \ {id}
    BY <1>0, <1>2 DEF Waiting, ClientsOK
  <2>3. ClientsOK'
    BY <1>0, <1>2 DEF ClientsOK
  <2> QED
    BY <2>1, <2>2, <2>3 DEF IInv
<1>3. CASE /\ status[id] = "IDLE"
           /\ status' = [status EXCEPT ![id] = "CLOSED"]
           /\ UNCHANGED <<candidates, trying>>
  <2>1. Waiting' = Waiting
    BY <1>0, <1>3 DEF Waiting, ClientsOK
  <2>2. ClientsOK'
    BY <1>0, <1>3 DEF ClientsOK
  <2> QED
    BY <1>0, <1>3, <2>1, <2>2 DEF IInv
<1> QED
  BY <1>1, <1>2, <1>3 DEF Leave

-----------------------------------------------------------------------------
(* The reports.                                                            *)

\* A match takes two different clients out of the lists.
LEMMA HandleMatchKeeps ==
  ASSUME IInv, NEW i, HandleMatch(jobs[i].trying_info.id, RemoveAt(jobs, i))
  PROVE  IInv'
<1> DEFINE id == jobs[i].trying_info.id
           js == RemoveAt(jobs, i)
           tn == OfId(trying, id)
           node == trying.node[tn].value.matchingWith
           other == candidates.node[node].value
           h == Reported(js)
           h2 == DetachWithMatcher(h, tn)
           S == Waiting \ {id, other}
<1>0. /\ Lists(candidates, trying, Waiting) /\ ClientsOK
      /\ HeapLists(h, Waiting) /\ h.candidates = candidates /\ h.trying = trying
  BY NowLists DEF IInv
<1>1. IF tn = Null THEN \A b \in DOMAIN trying.node : trying.node[b].value.id # id
                   ELSE tn \in DOMAIN trying.node /\ trying.node[tn].value.id = id
  <2>1. PICK s : Chain(trying, s)
    BY <1>0 DEF Lists
  <2> HIDE DEF id
  <2> QED
    BY <2>1, FindId
<1>2. \/ /\ candidates' = Arrange(h, try_match_counter).candidates
         /\ trying' = Arrange(h, try_match_counter).trying
         /\ UNCHANGED <<status, match_peer>>
      \/ /\ UNCHANGED <<candidates, trying>>
         /\ UNCHANGED <<status, match_peer>>
      \/ /\ tn # Null /\ node \in DOMAIN candidates.node
         /\ candidates' = Arrange(h2, try_match_counter).candidates
         /\ trying' = Arrange(h2, try_match_counter).trying
         /\ status' = [status EXCEPT ![id] = "TALKING", ![other] = "TALKING"]
         /\ match_peer' = [match_peer EXCEPT ![id] = other, ![other] = id]
  BY DEF HandleMatch, TryingNode, OfId, Finish, ReadsDeadNode, clientVars, Abstract!Talk
<1> HIDE DEF id, js, tn, node, other
<1>3. CASE /\ candidates' = Arrange(h, try_match_counter).candidates
           /\ trying' = Arrange(h, try_match_counter).trying
           /\ UNCHANGED <<status, match_peer>>
  <2> HIDE DEF h
  <2>1. Lists(candidates', trying', Waiting)
    BY <1>0, <1>3, ArrangeLists
  <2>2. Waiting' = Waiting /\ ClientsOK'
    BY <1>0, <1>3 DEF Waiting, ClientsOK
  <2> QED
    BY <2>1, <2>2 DEF IInv
<1>4. CASE UNCHANGED <<candidates, trying>> /\ UNCHANGED <<status, match_peer>>
  BY <1>0, <1>4 DEF IInv, Waiting, ClientsOK
<1>5. CASE /\ tn # Null /\ node \in DOMAIN candidates.node
           /\ candidates' = Arrange(h2, try_match_counter).candidates
           /\ trying' = Arrange(h2, try_match_counter).trying
           /\ status' = [status EXCEPT ![id] = "TALKING", ![other] = "TALKING"]
           /\ match_peer' = [match_peer EXCEPT ![id] = other, ![other] = id]
  <2>1. tn \in DOMAIN trying.node /\ trying.node[tn].value.id = id
    BY <1>1, <1>5
  <2>2. id \in Waiting /\ other \in Waiting /\ id # other
    BY <1>0, <1>5, <2>1 DEF Lists, Within, Apart, other
  <2>3. HeapLists(h2, S)
    <3>1. /\ tn \in DOMAIN h.trying.node
          /\ h.trying.node[tn].value.matchingWith = node
          /\ h.trying.node[tn].value.id = id
          /\ node \in DOMAIN h.candidates.node
          /\ h.candidates.node[node].value = other
      BY <1>0, <1>5, <2>1 DEF node, other
    <3> HIDE DEF h
    <3> QED
      BY <1>0, <3>1, DetachWithMatcherLists
  <2>4. Lists(candidates', trying', S)
    <3> HIDE DEF h2
    <3> QED
      BY <1>5, <2>3, ArrangeLists
  <2> HIDE DEF h2, h
  <2>5. /\ id \in Id /\ other \in Id
        /\ status[id] = "MATCHING" /\ status[other] = "MATCHING"
    BY <2>2 DEF Waiting
  <2>6. \A x \in Id : /\ status'[x] = IF x \in {id, other} THEN "TALKING" ELSE status[x]
                      /\ match_peer'[x] = IF x = other THEN id
                                          ELSE IF x = id THEN other ELSE match_peer[x]
    BY <1>0, <1>5, <2>5 DEF ClientsOK
  <2>7. Waiting' = S
    <3>1. \A x \in Id : status'[x] = "MATCHING" <=> status[x] = "MATCHING" /\ x \notin {id, other}
      BY <2>6
    <3> QED
      BY <3>1 DEF Waiting
  <2>8. /\ status' \in [Id -> {"IDLE", "MATCHING", "TALKING", "CLOSED"}]
        /\ match_peer' \in [Id -> Id \union {NoPeer}]
    BY <1>0, <1>5, <2>5 DEF ClientsOK
  <2>9. ASSUME NEW x \in Id, status'[x] = "TALKING"
        PROVE  /\ match_peer'[x] \in Id \ {x}
               /\ status'[match_peer'[x]] = "TALKING"
               /\ match_peer'[match_peer'[x]] = x
    <3>1. CASE x \in {id, other}
      BY <2>2, <2>5, <2>6, <3>1
    <3>2. CASE x \notin {id, other}
      <4>1. status[x] = "TALKING" /\ match_peer'[x] = match_peer[x]
        BY <2>6, <2>9, <3>2
      <4>2. /\ match_peer[x] \in Id \ {x}
            /\ status[match_peer[x]] = "TALKING"
            /\ match_peer[match_peer[x]] = x
        BY <1>0, <4>1 DEF ClientsOK
      <4>3. match_peer[x] \notin {id, other}
        BY <2>5, <4>2
      <4> QED
        BY <2>6, <4>1, <4>2, <4>3
    <3> QED
      BY <3>1, <3>2
  <2> QED
    BY <2>4, <2>7, <2>8, <2>9 DEF IInv, ClientsOK
<1> QED
  BY <1>2, <1>3, <1>4, <1>5

\* A refused user moves on to the next candidate, or becomes one.
LEMMA MoveOnKeeps ==
  ASSUME IInv, NEW i, MoveOn(jobs[i].trying_info.id, RemoveAt(jobs, i))
  PROVE  Lists(candidates', trying', Waiting)
<1> DEFINE id == jobs[i].trying_info.id
           js == RemoveAt(jobs, i)
           tn == OfId(trying, id)
           node == trying.node[tn].value.matchingWith
           h == Reported(js)
           next == candidates.node[node].next
           h2 == [h EXCEPT !.trying = NextNode(h.trying, tn, next)]
           h3 == Promote(h, tn)
<1>0. /\ Lists(candidates, trying, Waiting)
      /\ HeapLists(h, Waiting) /\ h.candidates = candidates /\ h.trying = trying
  BY NowLists DEF IInv
<1>1. IF tn = Null THEN \A b \in DOMAIN trying.node : trying.node[b].value.id # id
                   ELSE tn \in DOMAIN trying.node /\ trying.node[tn].value.id = id
  <2>1. PICK s : Chain(trying, s)
    BY <1>0 DEF Lists
  <2> HIDE DEF id
  <2> QED
    BY <2>1, FindId
<1>2. \/ UNCHANGED <<candidates, trying>>
      \/ /\ tn # Null
         /\ candidates' = Arrange(h3, try_match_counter).candidates
         /\ trying' = Arrange(h3, try_match_counter).trying
      \/ /\ tn # Null /\ node \in DOMAIN candidates.node
         /\ candidates' = Arrange(h2, try_match_counter).candidates
         /\ trying' = Arrange(h2, try_match_counter).trying
  BY DEF MoveOn, TryingNode, OfId, Finish, ReadsDeadNode
<1> HIDE DEF id, js, tn
<1>3. CASE /\ tn # Null
           /\ candidates' = Arrange(h3, try_match_counter).candidates
           /\ trying' = Arrange(h3, try_match_counter).trying
  <2> HIDE DEF h
  <2>1. HeapLists(h3, Waiting)
    BY <1>0, <1>1, <1>3, PromoteLists
  <2> HIDE DEF h3
  <2> QED
    BY <1>3, <2>1, ArrangeLists
<1>4. CASE /\ tn # Null /\ node \in DOMAIN candidates.node
           /\ candidates' = Arrange(h2, try_match_counter).candidates
           /\ trying' = Arrange(h2, try_match_counter).trying
  <2>1. next \in Link
    BY <1>0, <1>4, NextCandidate
  <2> HIDE DEF next, h, h3
  <2> DEFINE t == NextNode(h.trying, tn, next)
  <2>2. h.trying \in ListOf(TryingUser) /\ tn \in DOMAIN h.trying.node
    BY <1>0, <1>1, <1>4 DEF Lists
  <2>3. SameNodes(h.trying, t)
    BY <2>1, <2>2, NextNodeSame
  <2> HIDE DEF t
  <2>4. Lists(h.candidates, t, Waiting)
    BY <1>0, <2>3, SameLists
  <2>5. PICK c, l, w, j, k :
          h = [candidates |-> c, trying |-> l, working_job |-> w, jobs |-> j, ok |-> k]
    BY <1>0 DEF HeapLists, IsHeap
  <2>6. h2 = [h EXCEPT !.trying = t]
    BY DEF t
  <2> HIDE DEF h2
  <2>7. h2 = [candidates |-> c, trying |-> t, working_job |-> w, jobs |-> j, ok |-> k]
    BY <2>5, <2>6
  <2>8. h.candidates = c
    BY <2>5
  <2>9. HeapLists(h2, Waiting)
    BY <2>4, <2>7, <2>8 DEF HeapLists, IsHeap
  <2> QED
    BY <1>4, <2>9, ArrangeLists
<1> QED
  BY <1>0, <1>2, <1>3, <1>4

\* Every report, whatever it says of whom.
LEMMA ReportKeeps ==
  ASSUME IInv, NEW i, ReportOf(i)
  PROVE  IInv'
<1> DEFINE id == jobs[i].trying_info.id
           js == RemoveAt(jobs, i)
           h == Reported(js)
<1>0. Lists(candidates, trying, Waiting) /\ ClientsOK
  BY DEF IInv
<1>1. \/ HandleMatch(id, js)
      \/ /\ candidates' = Arrange(h, try_match_counter).candidates
         /\ trying' = Arrange(h, try_match_counter).trying
         /\ UNCHANGED <<status, match_peer>>
      \/ MoveOn(id, js) /\ UNCHANGED <<status, match_peer>>
  BY DEF ReportOf, HandleReport, Finish, clientVars
<1>2. CASE HandleMatch(id, js)
  BY <1>2, HandleMatchKeeps
<1>3. ASSUME Lists(candidates', trying', Waiting), UNCHANGED <<status, match_peer>>
      PROVE  IInv'
  <2>1. Waiting' = Waiting /\ ClientsOK'
    BY <1>0, <1>3 DEF Waiting, ClientsOK
  <2> QED
    BY <1>3, <2>1 DEF IInv
<1>4. CASE /\ candidates' = Arrange(h, try_match_counter).candidates
           /\ trying' = Arrange(h, try_match_counter).trying
           /\ UNCHANGED <<status, match_peer>>
  <2>1. HeapLists(h, Waiting)
    BY NowLists
  <2> HIDE DEF h
  <2>2. Lists(candidates', trying', Waiting)
    BY <1>4, <2>1, ArrangeLists
  <2> QED
    BY <1>3, <1>4, <2>2
<1>5. CASE MoveOn(id, js) /\ UNCHANGED <<status, match_peer>>
  <2>1. Lists(candidates', trying', Waiting)
    BY <1>5, MoveOnKeeps
  <2> QED
    BY <1>3, <1>5, <2>1
<1> QED
  BY <1>1, <1>2, <1>4, <1>5

\* Every step keeps the invariant.
LEMMA NextKeeps == IInv /\ [HeapNext]_heapVars => IInv'
<1> SUFFICES ASSUME IInv, [HeapNext]_heapVars PROVE IInv'
  OBVIOUS
<1>1. ASSUME NEW id \in Id, Abstract!MayTry(id), TryMatch(id)
      PROVE  IInv'
  BY <1>1, TryMatchKeeps
<1>2. ASSUME NEW id \in Id, NEW left \in {"IDLE", "CLOSED"}, Leave(id, left)
      PROVE  IInv'
  BY <1>2, LeaveKeeps
<1>3. ASSUME NEW i \in DOMAIN jobs, ReportOf(i)
      PROVE  IInv'
  BY <1>3, ReportKeeps
<1>4. CASE UNCHANGED heapVars
  BY <1>4, StutterKeeps
<1> QED
  BY <1>1, <1>2, <1>3, <1>4 DEF HeapNext, ClientStep, WorkerStep

-----------------------------------------------------------------------------
(* The theorem.                                                            *)

\* The walk along next from the head is the chain.
LEMMA InvWellFormed == IInv => ListsWellFormed
<1> SUFFICES ASSUME IInv PROVE ListsWellFormed
  OBVIOUS
<1>1. ASSUME NEW list, NEW s, Chain(list, s)
      PROVE  L!WellFormed(list)
  <2>1. L!Walk(list) = s
    BY <1>1, WalkFollows
  <2>2. L!Represents(list, s)
    BY <1>1, ChainRepresents
  <2> QED
    BY <2>1, <2>2 DEF L!WellFormed
<1>2. PICK c : Chain(candidates, c)
  BY DEF IInv, Lists
<1>3. PICK t : Chain(trying, t)
  BY DEF IInv, Lists
<1> QED
  BY <1>1, <1>2, <1>3 DEF ListsWellFormed

\* The pointers of candidate_queue and trying_queue are never damaged:
\* whatever the clients do, however the trials end and in whatever order they
\* are reported, each list has the right ends and length and its nodes are
\* linked both ways, none of them lost (linked_list.hpp and the handlers of
\* match_queue.cpp that splice the lists).
THEOREM ListsStayWellFormed == HeapSpec => []ListsWellFormed
<1>1. HeapSpec => []IInv
  BY InitInv, NextKeeps, PTL DEF HeapSpec
<1> QED
  BY <1>1, InvWellFormed, PTL
=============================================================================
