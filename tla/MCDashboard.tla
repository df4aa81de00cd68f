----------------------------- MODULE MCDashboard -----------------------------
(* Two selections of different clusters, and three databases.               *)
EXTENDS Dashboard

MainnetWeek == [cluster |-> "mainnet", window |-> "7d"]
DevnetMonth == [cluster |-> "devnet", window |-> "30d"]
MCKeys == {MainnetWeek, DevnetMonth}

Full(key, version) ==
    [key |-> key, version |-> version, status |-> "live",
     kind |-> IF version = 1 THEN "v1-full" ELSE "v2-full", match |-> TRUE, sha |-> key, last |-> 1,
     complete |-> TRUE, pending |-> 0, ingested |-> 5, failures |-> 0, through |-> 9]
NotDeployed(key, version) ==
    [Full(key, version) EXCEPT !.status = "not_deployed", !.kind = "none", !.match = FALSE,
     !.sha = 0, !.last = Missing, !.complete = FALSE, !.ingested = 0, !.through = Missing]

Active == [age |-> 3, workflow |-> "active"]
Build(kind, cluster, release, sha) ==
    [kind |-> kind, cluster |-> cluster, release |-> release, sha |-> sha]
Builds == {Build("v1-full", "mainnet", FALSE, 1), Build("v1-full", "devnet", FALSE, 3),
           Build("v1-sunset", "mainnet", TRUE, 7), Build("v1-sunset", "devnet", TRUE, 8),
           Build("v2-full", "any", TRUE, 2), Build("v2-full", "devnet", FALSE, 4)}

(* everything live on mainnet; on devnet the first discovery of v1 was cut   *)
(* short and its queue is drained, and v2 is not yet deployed               *)
Healthy ==
    [worker |-> 1, cron |-> Active, binaries |-> Builds,
     programs |-> [mainnet |-> {Full(1, 1), Full(2, 2)},
                   devnet |-> {[Full(3, 1) EXCEPT !.complete = FALSE, !.through = Missing],
                               NotDeployed(4, 2)}]]
(* one program builds its history and another has a backlog (its build, v1's *)
(* sunset, was listed after it was detected); v1 is retired and v2 fails on  *)
(* devnet                                                                   *)
Behindhand ==
    [worker |-> 0, cron |-> [age |-> Missing, workflow |-> "unknown"], binaries |-> Builds,
     programs |-> [mainnet |-> {[Full(1, 1) EXCEPT !.pending = 1, !.kind = "unknown", !.sha = 7],
                                [Full(2, 2) EXCEPT !.complete = FALSE, !.ingested = 0, !.through = Missing]},
                   devnet |-> {[Full(3, 1) EXCEPT !.kind = "v1-sunset", !.sha = 8],
                               [Full(4, 2) EXCEPT !.failures = 2, !.pending = 2]}]]
(* the schedule is disabled, and mainnet was never checked *)
Stopped ==
    [worker |-> 13, cron |-> [age |-> 20, workflow |-> "disabled_fork"], binaries |-> Builds,
     programs |-> [mainnet |-> {[NotDeployed(1, 1) EXCEPT !.status = "unknown"],
                                [NotDeployed(2, 2) EXCEPT !.status = "unknown"]},
                   devnet |-> {[Full(3, 1) EXCEPT !.match = FALSE, !.kind = "unknown", !.sha = 9],
                               [Full(4, 2) EXCEPT !.last = 40]}]]
MCSetups == {[content |-> Healthy, quota |-> 2], [content |-> Behindhand, quota |-> 4],
             [content |-> Stopped, quota |-> 6]}
=============================================================================
