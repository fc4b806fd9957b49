--------------------------- MODULE FirstCompatible ---------------------------
(***************************************************************************)
(* What the matching promises its users, without queues, trials, workers   *)
(* or pointers: the users wait in the order they asked, and a pair is      *)
(* matched when the two accept each other and the younger of them could    *)
(* not have had anybody older, nor the elder anybody who asked in between. *)
(***************************************************************************)
EXTENDS Naturals, SequencesExt

CONSTANT User           \* the requests for a match

VARIABLES
  waiting,              \* the users that wait, in the order they asked
  matched,              \* the pairs that were made
  likes                 \* the pairs <<a, b>> such that a accepts b

vars == <<waiting, matched, likes>>

Compatible(a, b) == {<<a, b>>, <<b, a>>} \subseteq likes

Init == /\ waiting = <<>>
        /\ matched = {}
        /\ likes \in SUBSET (User \X User)

\* A user asks for a match, for the first time.
Join(u) ==
  /\ u \notin Range(waiting) \union UNION matched
  /\ waiting' = Append(waiting, u)
  /\ UNCHANGED <<matched, likes>>

\* The user at position i gives up.
GiveUp(i) ==
  /\ waiting' = RemoveAt(waiting, i)
  /\ UNCHANGED <<matched, likes>>

\* The users at positions i < j are each other's first choice.
FirstChoice(i, j) ==
  /\ Compatible(waiting[i], waiting[j])
  /\ \A k \in 1..(i-1) : ~Compatible(waiting[k], waiting[j])
  /\ \A k \in (i+1)..(j-1) : ~Compatible(waiting[i], waiting[k])

Match(i, j) ==
  /\ i < j /\ FirstChoice(i, j)
  /\ waiting' = RemoveAt(RemoveAt(waiting, j), i)
  /\ matched' = matched \union {{waiting[i], waiting[j]}}
  /\ UNCHANGED likes

Next ==
  \/ \E u \in User : Join(u)
  \/ \E i \in DOMAIN waiting : GiveUp(i)
  \/ \E i, j \in DOMAIN waiting : Match(i, j)

Spec == Init /\ [][Next]_vars
=============================================================================
