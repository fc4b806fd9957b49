----------------------------- MODULE LinkedList -----------------------------
(***************************************************************************)
(* linked_list.hpp: a doubly linked list with its length, head and tail.   *)
(* The nodes live on the heap; node maps the address of each one that was  *)
(* not deleted to its fields.                                              *)
(***************************************************************************)
EXTENDS Integers, SequencesExt

CONSTANT Null           \* nullptr

Empty == [head |-> Null, tail |-> Null, length |-> 0, node |-> <<>>]

\* push_back, at the address that new returned
PushBack(list, addr, value) ==
  LET first == list.length = 0
      new == [prev |-> IF first THEN Null ELSE list.tail, next |-> Null, value |-> value]
  IN [head |-> IF first THEN addr ELSE list.head,
      tail |-> addr,
      length |-> list.length + 1,
      node |-> [a \in DOMAIN list.node \union {addr} |->
                  IF a = addr THEN new
                  ELSE IF a = list.tail /\ ~first THEN [list.node[a] EXCEPT !.next = addr]
                  ELSE list.node[a]]]

\* Mutant: tail stays where it was.
EraseKeepsTail(list, addr) ==
  LET prev == list.node[addr].prev
      next == list.node[addr].next
  IN [head |-> IF prev = Null THEN next ELSE list.head,
      tail |-> list.tail,
      length |-> list.length - 1,
      node |-> [a \in DOMAIN list.node \ {addr} |->
                  [prev |-> IF a = next THEN prev ELSE list.node[a].prev,
                   next |-> IF a = prev THEN next ELSE list.node[a].next,
                   value |-> list.node[a].value]]]

Erase(list, addr) ==
  LET prev == list.node[addr].prev
      next == list.node[addr].next
  IN [head |-> IF prev = Null THEN next ELSE list.head,
      tail |-> IF next = Null THEN prev ELSE list.tail,
      length |-> list.length - 1,
      node |-> [a \in DOMAIN list.node \ {addr} |->
                  [prev |-> IF a = next THEN prev ELSE list.node[a].prev,
                   next |-> IF a = prev THEN next ELSE list.node[a].next,
                   value |-> list.node[a].value]]]

\* The addresses on the way from head along next, at most as many as there
\* are nodes.
Walk(list) ==
  LET n == Cardinality(DOMAIN list.node)
      at[i \in 1..n] ==
        IF i = 1 THEN list.head
        ELSE IF at[i-1] \in DOMAIN list.node THEN list.node[at[i-1]].next ELSE Null
  IN [i \in {k \in 1..n : at[k] # Null} |-> at[i]]

\* search: the first node with such a value, or nullptr
Search(list, f(_)) ==
  LET i == SelectInSeq(Walk(list), LAMBDA a : f(list.node[a].value))
  IN IF i = 0 THEN Null ELSE Walk(list)[i]

-----------------------------------------------------------------------------
(***************************************************************************)
(* What a list promises: its nodes are those of a sequence of addresses,   *)
(* linked both ways.                                                       *)
(***************************************************************************)
Represents(list, s) ==
  /\ IsInjective(s) /\ Range(s) = DOMAIN list.node /\ Null \notin Range(s)
  /\ list.length = Len(s)
  /\ list.head = IF s = <<>> THEN Null ELSE s[1]
  /\ list.tail = IF s = <<>> THEN Null ELSE s[Len(s)]
  /\ \A i \in DOMAIN s :
       /\ list.node[s[i]].prev = IF i = 1 THEN Null ELSE s[i-1]
       /\ list.node[s[i]].next = IF i = Len(s) THEN Null ELSE s[i+1]

WellFormed(list) == Represents(list, Walk(list))
=============================================================================
