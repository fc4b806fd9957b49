----------------------------- MODULE MCSession -----------------------------
(* Instances of Session for TLC.                                           *)
EXTENDS Session

Once == [id \in Id |-> 1]
FirstTwice == [id \in Id |-> IF id = 0 THEN 2 ELSE 1]
FirstOnce == [id \in Id |-> IF id = 0 THEN 1 ELSE 0]
=============================================================================
