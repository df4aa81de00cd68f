---------------------------- MODULE MCDiscovery ----------------------------
(* Four signatures; the second and third share a slot. *)
EXTENDS Discovery

MCSlot == <<1, 2, 2, 3>>
=============================================================================
