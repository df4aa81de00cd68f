--------------------------- MODULE SignatureLedger ---------------------------
(***************************************************************************)
(* What the event log promises about each signature of a feed, whatever    *)
(* the order and the number of calls that reach it: a signature is         *)
(* accepted once, leaves the queue only by being recorded or by becoming   *)
(* an explicit gap, is counted exactly once on the way, and never changes  *)
(* again once its day is final.                                            *)
(***************************************************************************)
EXTENDS Integers, FiniteSets

CONSTANT Sigs       (* the signatures of the feed *)

VARIABLES
    status,         (* where each signature stands                        *)
    final,          (* signatures whose day is final                      *)
    counted         (* how many signatures the log says it has ingested   *)

ledgerVars == <<status, final, counted>>

Statuses == {"absent", "queued", "gap", "recorded"}

Init ==
    /\ status = [s \in Sigs |-> "absent"]
    /\ final = {}
    /\ counted = 0

Settle(S, st) == status' = [s \in Sigs |-> IF s \in S THEN st ELSE status[s]]

(* Signatures of open days enter the queue. *)
Accept(S) ==
    /\ \A s \in S : status[s] = "absent" /\ s \notin final
    /\ Settle(S, "queued")
    /\ UNCHANGED <<final, counted>>

(* Queued signatures, or gaps, get their real rows; a gap was counted before. *)
Record(S) ==
    /\ \A s \in S : status[s] \in {"queued", "gap"} /\ s \notin final
    /\ Settle(S, "recorded")
    /\ counted' = counted + Cardinality({s \in S : status[s] = "queued"})
    /\ UNCHANGED final

(* A queued signature becomes a gap. *)
GiveUp(s) ==
    /\ status[s] = "queued"
    /\ s \notin final
    /\ Settle({s}, "gap")
    /\ counted' = counted + 1
    /\ UNCHANGED final

(* Days become final; nothing queued is left behind on them. *)
Finalise(S) ==
    /\ \A s \in S : status[s] # "queued"
    /\ final' = final \cup S
    /\ UNCHANGED <<status, counted>>

Next ==
    \/ \E S \in SUBSET Sigs : Accept(S) \/ Record(S) \/ Finalise(S)
    \/ \E s \in Sigs : GiveUp(s)

Spec == Init /\ [][Next]_ledgerVars
=============================================================================
