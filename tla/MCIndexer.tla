------------------------------ MODULE MCIndexer ------------------------------
(* Three signatures on two days; the second one's rows are rejected by the   *)
(* database.  Parser version 2 finds a second row in the first signature.    *)
EXTENDS Indexer, TLC

CONSTANTS s1, s2, s3

MCSlot == s1 :> 1 @@ s2 :> 2 @@ s3 :> 3
MCDay == s1 :> 1 @@ s2 :> 1 @@ s3 :> 2
MCText == s1 :> 2 @@ s2 :> 1 @@ s3 :> 3
MCWidth == [s \in Sigs |-> [v \in Versions |-> IF s = s1 /\ v = 2 THEN 1 ELSE 0]]
=============================================================================
