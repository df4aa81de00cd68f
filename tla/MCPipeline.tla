----------------------------- MODULE MCPipeline ------------------------------
EXTENDS Pipeline

MCBackoffs == <<10, 20, 40>>

\* Two images of the same tables: one known, one whose last section has no
\* bytes in the file.
MCElfs == {"full", "sunset"}
MCTables == [elf \in MCElfs |-> {120, 200}]
MCSections ==
    [elf \in MCElfs |->
       IF elf = "full" THEN {[end |-> 300, nobits |-> FALSE], [end |-> 900, nobits |-> TRUE]}
       ELSE {[end |-> 250, nobits |-> FALSE]}]
MCKnownKind == [identity \in {[elf |-> "full", size |-> 300]} |-> "v2-full"]

LazorKit(p, kind, suffix, signer) ==
    [program |-> p, kind |-> kind, target |-> "none", suffix |-> suffix, signer |-> signer]
Another(program, target) ==
    [program |-> program, kind |-> KindNone, target |-> target, suffix |-> FALSE, signer |-> "none"]

\* Execute and a ping of v1, CreateWallet of v2, a payment to a shard of each,
\* an upgrade of v2, the passkey precompile and an unrelated program.
MCInstructions ==
    {LazorKit("v1", ExecuteIx, FALSE, "session"), LazorKit("v1", KindNoise, FALSE, "none"),
     LazorKit("v2", CreateWalletIx, TRUE, "passkey"),
     Another("system", "v1"), Another("system", "v2"), Another("loader", "v2"),
     Another("secp256r1", "none"), Another("other", "none")}
=============================================================================
