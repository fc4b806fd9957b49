----------------------------- MODULE MCMatching -----------------------------
(* Instances of Matching for TLC.                                          *)
EXTENDS Matching

Request == [id : Id, counter : 1..MaxTry]

\* The relations in which a client keeps its taste from one request to the
\* next, and two clients accept each other or none does: a liking that is not
\* answered gives the same verdict as no liking.
Steady == {{<<a, b>> \in Request \X Request : {a.id, b.id} \in S} :
             S \in SUBSET kSubset(2, Id)}

\* The relations in which everybody accepts everybody in its n-th request and
\* nobody in another one.
Fickle == {[id : Id, counter : {n}] \X [id : Id, counter : {n}] : n \in 1..MaxTry}

SteadyOrFickle == Steady \union Fickle

Symmetry == Permutations(Id)
=============================================================================
