------------------------------ MODULE Freshness -----------------------------
(***************************************************************************)
(* What the API tells a reader about the age of its data: the heartbeat    *)
(* rows and the programs' counters mapped to a state, to the reasons shown *)
(* with it, to the time the data is complete through and to the HTTP       *)
(* status of /api/health.  Pure operators; Lifecycle and Dashboard apply   *)
(* them to the states their runs reach.                                    *)
(*                                                                         *)
(* Ages are hours, times are numbers, Missing stands for null.  A program  *)
(* is [key, live, complete, pending, ingested, failures, through]; a cron  *)
(* heartbeat is [age, workflow].                                           *)
(***************************************************************************)
EXTENDS Integers

Missing == -1

DelayedAfter == 2
StaleAfter == 12
CronMaxAge == 48

WorkflowStates == {"active", "disabled_inactivity", "disabled_manually", "unknown"}

(* what the GitHub API may call the workflow, and how the site reads it *)
GithubStates == WorkflowStates \cup {"disabled_fork", "deleted"}

WorkflowState(s) ==
    CASE s \in WorkflowStates -> s
      [] s = "disabled_fork"  -> "disabled_manually"
      [] OTHER                -> "unknown"

WorkflowDisabled(cron) ==
    /\ cron.age # Missing
    /\ cron.age <= CronMaxAge
    /\ WorkflowState(cron.workflow) \in {"disabled_inactivity", "disabled_manually"}

Live(programs) == {p \in programs : p.live}
Failing(p) == p.failures >= 2
Behind(p) == ~p.complete \/ p.pending > 0

Reasons(worker, cron, programs) ==
    LET about(code, P) == {[code |-> code, key |-> p.key] : p \in P}
        overall(code, shown) == IF shown THEN {[code |-> code, key |-> 0]} ELSE {}
    IN  overall("workflow_disabled", WorkflowDisabled(cron))
        \cup overall("never_run", worker = Missing)
        \cup overall("worker_old", worker > DelayedAfter)
        \cup about("program_failing", {p \in Live(programs) : Failing(p)})
        \cup about("backfill", {p \in Live(programs) : ~p.complete})
        \cup about("backlog", {p \in Live(programs) : p.complete /\ p.pending > 0})

(* Seeded fault: the backlog of a program hides its failures.               *)
StateCatchingUpFirst(worker, cron, programs) ==
    IF worker > StaleAfter \/ WorkflowDisabled(cron) THEN "stale"
    ELSE IF worker = Missing \/ \E p \in Live(programs) : Behind(p) THEN "catching_up"
    ELSE IF worker > DelayedAfter \/ \E p \in Live(programs) : Failing(p) THEN "delayed"
    ELSE "live"

State(worker, cron, programs) ==
    IF worker > StaleAfter \/ WorkflowDisabled(cron) THEN "stale"
    ELSE IF worker > DelayedAfter \/ \E p \in Live(programs) : Failing(p) THEN "delayed"
    ELSE IF worker = Missing \/ \E p \in Live(programs) : Behind(p) THEN "catching_up"
    ELSE "live"

(* the earliest point every live program is complete through *)
CompleteThrough(programs) ==
    LET times == {p.through : p \in Live(programs)}
    IN  IF times = {} \/ Missing \in times
        THEN Missing
        ELSE CHOOSE t \in times : \A u \in times : t <= u

(* permille of the known signatures that are ingested, per program behind *)
CatchUp(programs) ==
    {[key |-> p.key,
      permille |-> IF p.ingested + p.pending = 0 THEN Missing
                   ELSE (1000 * p.ingested) \div (p.ingested + p.pending)]
        : p \in {q \in Live(programs) : Behind(q)}}

Computed(worker, cron, programs) ==
    [state    |-> State(worker, cron, programs),
     worker   |-> worker,
     workflow |-> IF cron.age = Missing THEN "unknown" ELSE WorkflowState(cron.workflow),
     reasons  |-> Reasons(worker, cron, programs),
     through  |-> CompleteThrough(programs),
     catchUp  |-> CatchUp(programs)]

(* setup_required and unavailable are the caller's: no data was read *)
Fixed(state) ==
    [state    |-> state,
     worker   |-> Missing,
     workflow |-> "unknown",
     reasons  |-> {[code |-> IF state = "setup_required" THEN "schema_missing" ELSE "db_unavailable",
                    key |-> 0]},
     through  |-> Missing,
     catchUp  |-> {}]

HealthStatus(state) ==
    IF state \in {"live", "catching_up", "delayed"} THEN 200 ELSE 503
=============================================================================
