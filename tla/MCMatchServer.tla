---------------------------- MODULE MCMatchServer ----------------------------
(* Instances of MatchServer for TLC.                                       *)
EXTENDS MatchServer

\* The relations in which a client keeps its taste from one request to the
\* next, and a liking is answered or not there.
Steady == {{<<a, b>> \in Request \X Request : {a.id, b.id} \in S} :
             S \in SUBSET kSubset(2, Id)}

\* The pids that are used: one more than there are workers allows one crash.
OneMore == 1..(WORKER_NUMBER + 1)

Symmetry == Permutations(Id)
=============================================================================
