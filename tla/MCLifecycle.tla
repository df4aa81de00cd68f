----------------------------- MODULE MCLifecycle -----------------------------
(* A program with one signature, the first generation and one rebuild. The   *)
(* heartbeat is looked at fresh, and past both thresholds.                   *)
EXTENDS Lifecycle

MCBeatAges == {0, 13}
=============================================================================
