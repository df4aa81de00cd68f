------------------------------ MODULE Pipeline -------------------------------
(***************************************************************************)
(* The stages between an RPC endpoint and a cluster's totals, side by side: *)
(* the client that makes the calls, the detection of the deployment, the    *)
(* state checks, and the parser with its rollups.  The stages of a lane run *)
(* one after another and share no variable (one hands the next its result), *)
(* so each behaviour exercises one of them.                                 *)
(***************************************************************************)
EXTENDS RpcClient, ChainReads, StateChecks, Rollup

VARIABLE stage

vars == <<rpcVars, readsVars, checksVars, rollupVars, stage>>

Init ==
    /\ RpcInit /\ ReadsInit /\ ChecksInit /\ RollupInit
    /\ stage \in {"call", "deployment", "state", "transaction"}
    /\ stage # "deployment" => onChain = Absent

CallStage ==
    /\ stage = "call" /\ RpcNext
    /\ UNCHANGED <<readsVars, checksVars, rollupVars, stage>>

DeploymentStage ==
    /\ stage = "deployment" /\ ReadsNext
    /\ UNCHANGED <<rpcVars, checksVars, rollupVars, stage>>

StateStage ==
    /\ stage = "state" /\ ChecksNext
    /\ UNCHANGED <<rpcVars, readsVars, rollupVars, stage>>

TransactionStage ==
    /\ stage = "transaction" /\ RollupNext
    /\ UNCHANGED <<rpcVars, readsVars, checksVars, stage>>

Next == CallStage \/ DeploymentStage \/ StateStage \/ TransactionStage

Spec == Init /\ [][Next]_vars
=============================================================================
