----------------------------- MODULE MCEventLog -----------------------------
(* Three signatures in two slots on two days, two parser versions that       *)
(* disagree on how many rows the first signature has, two runs.              *)
EXTENDS EventLog, TLC

CONSTANTS s1, s2, s3, r1, r2

MCSlot == s1 :> 1 @@ s2 :> 1 @@ s3 :> 2
MCDay == s1 :> 1 @@ s2 :> 1 @@ s3 :> 2
MCWidth == [s \in Sigs |-> [v \in Versions |-> IF s = s1 /\ v = 2 THEN 1 ELSE 0]]

(* Run ids are only ever compared for equality. *)
RunSymmetry == Permutations(RunIds)
=============================================================================
