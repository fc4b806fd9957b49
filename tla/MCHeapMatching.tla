--------------------------- MODULE MCHeapMatching ---------------------------
(* Instances of HeapMatching for TLC.                                      *)
EXTENDS HeapMatching

Request == [id : Id, counter : 1..MaxTry]

\* The relations in which a client keeps its taste from one request to the
\* next, a liking is answered or not there, and the clients that are liked by
\* anybody are alike.
Alike == {{<<a, b>> \in Request \X Request : {a.id, b.id} \subseteq S} :
            S \in {{}, Id} \union kSubset(2, Id)}
=============================================================================
