------------------------------ MODULE Lifecycle ------------------------------
(***************************************************************************)
(* The life of one program's generations: the active one that the          *)
(* dashboard reads, a rebuild next to it, its promotion, and what each     *)
(* worker run reports about the program.  One run at a time (the           *)
(* workflow's concurrency group); a run may be killed, a phase may fail,   *)
(* a run may throw, and the answer of a database call may be lost.  Each   *)
(* of these is a fault, and their number is bounded.                       *)
(*                                                                         *)
(* Signatures are numbered in the order they become final.  Paging is      *)
(* Discovery's subject, batches and attempts are Indexer's: here one       *)
(* discovery and one draining of a queue are steps.                        *)
(***************************************************************************)
EXTENDS Freshness, FiniteSets

CONSTANTS
    MaxSig,      (* signatures of the program                                *)
    MaxGen,      (* generations                                              *)
    MaxFaults,   (* bound: faults of all runs together                       *)
    MaxManual,   (* bound: rebuilds dispatched by hand                       *)
    BeatAges     (* ages in hours at which the worker heartbeat is looked at *)

ASSUME LifecycleAssumption ==
    /\ MaxSig \in Nat
    /\ MaxGen \in Nat \ {0}
    /\ MaxFaults \in Nat
    /\ MaxManual \in Nat
    /\ BeatAges \subseteq Nat
    /\ 0 \in BeatAges

Sigs == 1 .. MaxSig
Gens == 1 .. MaxGen

VARIABLES
    chain,    (* the program's account: "absent", "live" or "closed"         *)
    tip,      (* newest final signature                                      *)
    builds,   (* lk.builds with its queue, ledger and gaps                   *)
    order,    (* <<g, h>>: both discovered, discovered_at of g not after h's *)
    prog,     (* lk.programs: deploy status, active generation, last report  *)
    beat,     (* age of the worker heartbeat                                 *)
    pc, run,  (* the current run: its next step and its local variables      *)
    faults, manual,
    okTip,    (* history: tip at the start of the last run reported ok       *)
    failedRuns, (* history: runs in a row whose report said failed           *)
    idleRuns    (* history: runs in a row that finished nothing of either    *)
                (* generation while the queue they reported was not empty    *)

databaseVars == <<builds, order, prog, beat>>
historyVars == <<okTip, failedRuns, idleRuns>>
vars == <<chain, tip, databaseVars, pc, run, faults, manual, historyVars>>

Phases == {"idle", "start", "context", "detect", "state", "discover", "ingest",
           "gaps", "promote", "report", "check", "beat"}

(* failures and runs without progress are compared with 2 and 3 only *)
Count(n) == IF n < 3 THEN n + 1 ELSE 3

NoBuild == [status |-> "none", frontier |-> 0, complete |-> FALSE,
            queued |-> {}, recorded |-> {}, gaps |-> {}]
NewBuild(status) == [NoBuild EXCEPT !.status = status]

NoRun == [began |-> 0, gen |-> 1, rebuilding |-> FALSE,
          todo |-> {}, work |-> {}, absent |-> FALSE,
          errors |-> FALSE, progress |-> FALSE, reported |-> FALSE, exit |-> 0]

Known(b) == b.queued \cup b.recorded \cup b.gaps
WithStatus(st) == {g \in Gens : builds[g].status = st}
Building == WithStatus("building")
Discovered(g) == <<g, g>> \in order

Fault == faults < MaxFaults /\ faults' = faults + 1

Goto(l) == pc' = l

-----------------------------------------------------------------------------
(* The chain and the clock *)

Deploy ==
    /\ chain = "absent"
    /\ chain' = "live"
    /\ UNCHANGED <<tip, databaseVars, pc, run, faults, manual, historyVars>>

(* A closed program cannot be deployed at its address again. *)
Close ==
    /\ chain = "live"
    /\ chain' = "closed"
    /\ UNCHANGED <<tip, databaseVars, pc, run, faults, manual, historyVars>>

Finalise ==
    /\ chain = "live"
    /\ tip < MaxSig
    /\ tip' = tip + 1
    /\ UNCHANGED <<chain, databaseVars, pc, run, faults, manual, historyVars>>

(* A run lasts at most the job's 70 minutes: hours pass between runs. *)
Tick ==
    /\ pc = "idle"
    /\ beat # Missing
    /\ beat' \in {a \in BeatAges : a > beat /\ \A b \in BeatAges : b > beat => a <= b}
    /\ UNCHANGED <<chain, tip, builds, order, prog, pc, run, faults, manual, historyVars>>

-----------------------------------------------------------------------------
(* A run starts: every 15 minutes, or by hand with a mode and a filter       *)

Begin(first) ==
    /\ pc = "idle"
    /\ run' = [NoRun EXCEPT !.began = tip]
    /\ Goto(first)
    /\ UNCHANGED <<chain, tip, databaseVars, faults, historyVars>>

(* Modes incremental and reparse differ only in what becomes of ledger rows; *)
(* mode verify reads, reports nothing and writes no heartbeat.               *)
ScheduledRun == Begin("context") /\ UNCHANGED manual

(* mode rebuild *)
RebuildRun ==
    /\ manual < MaxManual
    /\ manual' = manual + 1
    /\ Building = {} => WithStatus("none") # {}
    /\ Begin("start")

(* A run whose filter names another program or cluster: the heartbeat of its *)
(* reports and of its end is the same row.                                   *)
RunElsewhere ==
    /\ pc = "idle"
    /\ beat' = 0
    /\ UNCHANGED <<chain, tip, builds, order, prog, pc, run, faults, manual, historyVars>>

(* The job is cancelled or times out, or an error outside every catch block  *)
(* ends the run with exit code 1: nothing is reported.                       *)
End == Goto("idle") /\ run' = NoRun

Abort ==
    /\ pc # "idle"
    /\ Fault
    /\ End
    /\ UNCHANGED <<chain, tip, databaseVars, manual, historyVars>>

(* lk_start_build: one building generation per program *)
StartBuild ==
    /\ pc = "start"
    /\ Building = {}
    /\ \E g \in Gens :
        /\ builds[g].status = "none"
        /\ \A h \in Gens : builds[h].status = "none" => g <= h
        /\ builds' = [builds EXCEPT ![g] = NewBuild("building")]
    /\ \/ Goto("context") /\ UNCHANGED faults
       \/ UNCHANGED pc /\ Fault          (* answer lost: the call is sent again *)
    /\ UNCHANGED <<chain, tip, order, prog, beat, run, manual, historyVars>>

(* ... it raises when there is one already (also the one that the lost call  *)
(* made), and the run throws.                                                *)
StartRefused ==
    /\ pc = "start"
    /\ Building # {}
    /\ End
    /\ UNCHANGED <<chain, tip, databaseVars, faults, manual, historyVars>>

(* lk_worker_context *)
ReadContext ==
    /\ pc = "context"
    /\ run' = [run EXCEPT !.gen = prog.gen,
                          !.rebuilding = Building # {},
                          !.todo = WithStatus("active") \cup Building]
    /\ Goto("detect")
    /\ UNCHANGED <<chain, tip, databaseVars, faults, manual, historyVars>>

-----------------------------------------------------------------------------
(* A lane: deployment, state, discovery, ingest, gaps                        *)

AfterLane == IF run.rebuilding THEN "promote" ELSE "report"

(* detectDeployment and lk_set_deployment's status *)
Detect ==
    /\ pc = "detect"
    /\ \/ /\ chain = "live"
          /\ prog' = [prog EXCEPT !.deploy = "live"]
          /\ Goto("state")
          /\ UNCHANGED run
       \/ /\ chain # "live"
          /\ prog' = [prog EXCEPT !.deploy = IF @ \in {"live", "closed"} THEN "closed" ELSE "not_deployed"]
          /\ run' = [run EXCEPT !.absent = TRUE]
          /\ Goto(AfterLane)
    /\ UNCHANGED <<chain, tip, builds, order, beat, faults, manual, historyVars>>

DetectFails ==
    /\ pc = "detect"
    /\ Fault
    /\ run' = [run EXCEPT !.errors = TRUE]
    /\ Goto(AfterLane)
    /\ UNCHANGED <<chain, tip, databaseVars, manual, historyVars>>

(* takeSnapshot and lk_write_state; what they store is StateChecks' subject *)
Snapshot ==
    /\ pc = "state"
    /\ Goto("discover")
    /\ \/ UNCHANGED <<run, faults>>
       \/ Fault /\ run' = [run EXCEPT !.errors = TRUE]
    /\ UNCHANGED <<chain, tip, databaseVars, manual, historyVars>>

(* Seeded fault: the builds are sorted the other way round.                 *)
BuildingFirst ==
    {g \in run.todo : builds[g].status = "building" \/ Building \cap run.todo = {}}

(* the active build first, then the building one *)
NextToDiscover ==
    {g \in run.todo : builds[g].status = "active" \/ WithStatus("active") \cap run.todo = {}}

(* lk.maybe_complete_backfill: history's end was seen and the queue is empty *)
Completed(b, seen) == [b EXCEPT !.complete = @ \/ (seen /\ b.queued = {})]

Discovering(g, failed) ==
    /\ pc = "discover"
    /\ g \in NextToDiscover
    /\ run' = [run EXCEPT !.todo = @ \ {g}, !.work = @ \cup {g}, !.errors = @ \/ failed]
    /\ Goto(IF run.todo = {g} THEN "ingest" ELSE "discover")
    /\ UNCHANGED <<chain, tip, prog, beat, manual, historyVars>>

(* everything final is queued, then frontier and discovered_at move *)
Discover(g) ==
    /\ Discovering(g, FALSE)
    /\ LET b == builds[g]
           queued == b.queued \cup (1 .. tip \ Known(b))
       IN  builds' = [builds EXCEPT ![g] =
               Completed([b EXCEPT !.queued = queued, !.frontier = tip], TRUE)]
    /\ order' = {p \in order : p[1] # g} \cup {<<h, g>> : h \in {g} \cup {x \in Gens : Discovered(x)}}
    /\ UNCHANGED faults

(* it fails after some chunks, newest first, and before the final call *)
DiscoverFails(g) ==
    /\ Discovering(g, TRUE)
    /\ Fault
    /\ \E from \in builds[g].frontier + 1 .. tip + 1 :
        builds' = [builds EXCEPT ![g].queued = @ \cup (from .. tip \ Known(builds[g]))]
    /\ UNCHANGED order

(* One generation's queue is drained. A fault leaves part of it: the budget  *)
(* is spent, a signature cannot be fetched (no error of the run), or an      *)
(* error ends its turns; or a fifth failed run makes a signature a gap.      *)
Drain(g) ==
    /\ pc = "ingest"
    /\ g \in run.work
    /\ \E done \in SUBSET builds[g].queued, gaps \in SUBSET builds[g].queued, error \in BOOLEAN :
        /\ done \cap gaps = {}
        /\ LET b == builds[g]
               left == b.queued \ (done \cup gaps)
               clean == left = {} /\ gaps = {} /\ ~error
           IN  /\ IF clean THEN UNCHANGED faults ELSE Fault
               /\ builds' = [builds EXCEPT ![g] =
                     Completed([b EXCEPT !.queued = left,
                                         !.recorded = @ \cup done,
                                         !.gaps = @ \cup gaps],
                               Discovered(g))]
               /\ run' = [run EXCEPT !.work = @ \ {g},
                                     !.errors = @ \/ error,
                                     !.progress = @ \/ done \cup gaps # {}]
    /\ Goto(IF run.work = {g} THEN "gaps" ELSE "ingest")
    /\ UNCHANGED <<chain, tip, order, prog, beat, manual, historyVars>>

(* retryGaps of the generation that was active when the run began *)
RetryGaps ==
    /\ pc = "gaps"
    /\ \E repaired \in SUBSET builds[run.gen].gaps :
        builds' = [builds EXCEPT ![run.gen].gaps = @ \ repaired,
                                 ![run.gen].recorded = @ \cup repaired]
    /\ \/ UNCHANGED <<run, faults>>
       \/ Fault /\ run' = [run EXCEPT !.errors = TRUE]
    /\ Goto(AfterLane)
    /\ UNCHANGED <<chain, tip, order, prog, beat, manual, historyVars>>

-----------------------------------------------------------------------------
(* Promotion *)

(* discovered_at of the new build is not before the active one's; the test   *)
(* that both the worker and lk_promote_build make                            *)

(* Seeded fault: a build that finished its backfill may be promoted.        *)
DiscoveredLastAlways(new, old) == new # old

DiscoveredLast(new, old) == Discovered(old) => <<old, new>> \in order

CaughtUp(g) ==
    /\ builds[g].complete
    /\ builds[g].queued = {}
    /\ \A old \in WithStatus("active") : DiscoveredLast(g, old)

(* Seeded fault: the facts of the promoted generation are deleted.          *)
SwappedClearingNew(g) ==
    [h \in Gens |-> CASE h = g                       -> [NewBuild("active") EXCEPT !.complete = TRUE]
                      [] builds[h].status = "active" -> [builds[h] EXCEPT !.status = "retired"]
                      [] OTHER                       -> builds[h]]

(* the old generation's facts are deleted, its row is kept *)
Swapped(g) ==
    [h \in Gens |-> CASE h = g                       -> [builds[h] EXCEPT !.status = "active"]
                      [] builds[h].status = "active" ->
                            [builds[h] EXCEPT !.status = "retired", !.queued = {}, !.recorded = {}, !.gaps = {}]
                      [] OTHER                       -> builds[h]]

(* lk_promote_build; when its answer is lost the second call raises, the     *)
(* promotion counts as failed and the run keeps the old generation in mind.  *)
Promote ==
    /\ pc = "promote"
    /\ \E g \in Building :
        /\ CaughtUp(g)
        /\ builds' = Swapped(g)
        /\ prog' = [prog EXCEPT !.gen = g]
        /\ \/ run' = [run EXCEPT !.gen = g] /\ UNCHANGED faults
           \/ Fault /\ UNCHANGED run
    /\ Goto("report")
    /\ UNCHANGED <<chain, tip, order, beat, manual, historyVars>>

(* not caught up, or the call fails, which is only logged *)
DoNotPromote ==
    /\ pc = "promote"
    /\ IF \A g \in Building : ~CaughtUp(g) THEN UNCHANGED faults ELSE Fault
    /\ Goto("report")
    /\ UNCHANGED <<chain, tip, databaseVars, run, manual, historyVars>>

-----------------------------------------------------------------------------
(* Report, checks and the end of the run                                     *)

(* Seeded fault: the errors of the run's phases are not part of its status.  *)
OutcomeIgnoringErrors == IF run.absent THEN "not_deployed" ELSE "ok"

Outcome == IF run.absent THEN "not_deployed" ELSE IF run.errors THEN "failed" ELSE "ok"

Pending == Cardinality(builds[run.gen].queued)
Idle == Outcome = "ok" /\ Pending > 0 /\ ~run.progress

(* Seeded fault: a failed run starts the count of idle runs anew.            *)
NoProgressRunsOfOk ==
    IF Idle THEN Count(prog.npr) ELSE 0

NoProgressRuns ==
    IF Outcome = "failed" THEN prog.npr
    ELSE IF Idle THEN Count(prog.npr) ELSE 0

Status ==
    IF Outcome # "ok" THEN Outcome
    ELSE IF NoProgressRuns >= 3 THEN "failed"
    ELSE IF Pending = 0 THEN "ok" ELSE "lagging"

Failures == IF Status = "failed" THEN Count(prog.failures) ELSE 0

(* lk_report_run, with the heartbeat it writes; sent twice, it counts twice *)
Report ==
    /\ pc = "report"
    /\ prog' = [prog EXCEPT !.status = Status, !.npr = NoProgressRuns, !.failures = Failures]
    /\ beat' = 0
    /\ run' = [run EXCEPT !.reported = TRUE, !.exit = IF Status = "failed" THEN 1 ELSE 0]
    /\ \/ Goto("check") /\ UNCHANGED faults
       \/ UNCHANGED pc /\ Fault          (* answer lost: the call is sent again *)
    /\ okTip' = IF Status = "ok" THEN run.began ELSE okTip
    /\ failedRuns' = IF Status # "failed" THEN 0
                     ELSE IF run.reported THEN failedRuns ELSE Count(failedRuns)
    /\ idleRuns' = IF Outcome = "failed" THEN idleRuns
                   ELSE IF ~Idle THEN 0
                   ELSE IF run.reported THEN idleRuns ELSE Count(idleRuns)
    /\ UNCHANGED <<chain, tip, builds, order, manual>>

ReportFails ==
    /\ pc = "report"
    /\ Fault
    /\ run' = [run EXCEPT !.exit = 1]
    /\ Goto("check")
    /\ UNCHANGED <<chain, tip, databaseVars, manual, historyVars>>

(* lk_compact and, for a deployed program, lk_verify: a failure is exit 1 *)
Check ==
    /\ pc = "check"
    /\ Goto("beat")
    /\ \/ UNCHANGED <<run, faults>>
       \/ Fault /\ run' = [run EXCEPT !.exit = 1]
    /\ UNCHANGED <<chain, tip, databaseVars, manual, historyVars>>

(* the worker heartbeat; the run ends with run.exit, or 1 if it fails *)
Heartbeat ==
    /\ pc = "beat"
    /\ End
    /\ \/ beat' = 0 /\ UNCHANGED faults
       \/ Fault /\ UNCHANGED beat
    /\ UNCHANGED <<chain, tip, builds, order, prog, manual, historyVars>>

-----------------------------------------------------------------------------
(* Specification *)

Init ==
    /\ chain = "absent"
    /\ tip = 0
    /\ builds = [g \in Gens |-> IF g = 1 THEN NewBuild("active") ELSE NoBuild]
    /\ order = {}
    /\ prog = [deploy |-> "unknown", gen |-> 1, status |-> "idle", npr |-> 0, failures |-> 0]
    /\ beat = Missing
    /\ pc = "idle"
    /\ run = NoRun
    /\ faults = 0
    /\ manual = 0
    /\ okTip = 0
    /\ failedRuns = 0
    /\ idleRuns = 0

LaneStep ==
    \/ Detect
    \/ DetectFails
    \/ Snapshot
    \/ \E g \in Gens : Discover(g) \/ DiscoverFails(g) \/ Drain(g)
    \/ RetryGaps

RunStep ==
    \/ StartBuild
    \/ StartRefused
    \/ ReadContext
    \/ LaneStep
    \/ Promote
    \/ DoNotPromote
    \/ Report
    \/ ReportFails
    \/ Check
    \/ Heartbeat

Next ==
    \/ Deploy
    \/ Close
    \/ Finalise
    \/ Tick
    \/ ScheduledRun
    \/ RebuildRun
    \/ RunElsewhere
    \/ Abort
    \/ RunStep

(* The schedule starts a run after every run, and a run goes on until it ends *)
(* or is killed.                                                             *)
Spec == Init /\ [][Next]_vars /\ WF_vars(RunStep) /\ WF_vars(ScheduledRun)

-----------------------------------------------------------------------------
(* Properties *)

BuildType == [status : {"none", "building", "active", "retired"}, frontier : 0 .. MaxSig,
              complete : BOOLEAN, queued : SUBSET Sigs, recorded : SUBSET Sigs, gaps : SUBSET Sigs]

RunType == [began : 0 .. MaxSig, gen : Gens, rebuilding : BOOLEAN,
            todo : SUBSET Gens, work : SUBSET Gens, absent : BOOLEAN,
            errors : BOOLEAN, progress : BOOLEAN, reported : BOOLEAN, exit : {0, 1}]

ProgramType == [deploy : {"unknown", "not_deployed", "live", "closed"}, gen : Gens,
                status : {"idle", "ok", "lagging", "failed", "not_deployed"},
                npr : 0 .. 3, failures : 0 .. 3]

(* The generations are consistent whatever calls were lost or repeated:      *)
(* programs.active_gen names the one active build, at most one is building,  *)
(* a retired build holds no facts, no signature is in two of queue, ledger   *)
(* and gaps, and everything up to a build's frontier is in one of them       *)
(* (Invariant D, lk_start_build, lk_promote_build).                          *)
OneActiveBuild ==
    /\ WithStatus("active") = {prog.gen}
    /\ \A g, h \in Building : g = h
    /\ \A g \in Gens :
        LET b == builds[g]
        IN  /\ b.status \in {"none", "retired"} => Known(b) = {}
            /\ b.queued \cap (b.recorded \cup b.gaps) = {}
            /\ b.recorded \cap b.gaps = {}
            /\ b.status \in {"active", "building"} => 1 .. b.frontier \subseteq Known(b)
            /\ Known(b) \subseteq 1 .. tip

LifecycleTypeOK ==
    /\ chain \in {"absent", "live", "closed"}
    /\ tip \in 0 .. MaxSig
    /\ builds \in [Gens -> BuildType]
    /\ order \subseteq Gens \X Gens
    /\ prog \in ProgramType
    /\ beat \in BeatAges \cup {Missing}
    /\ pc \in Phases
    /\ run \in RunType
    /\ faults \in 0 .. MaxFaults
    /\ manual \in 0 .. MaxManual
    /\ okTip \in 0 .. MaxSig
    /\ failedRuns \in 0 .. 3
    /\ idleRuns \in 0 .. 3

LifecycleInv == LifecycleTypeOK /\ OneActiveBuild

(* A promotion never takes a transaction away from the dashboard that a      *)
(* completed discovery of the old generation had promised: whatever lies up  *)
(* to the old frontier is in the new generation's ledger or its gap list     *)
(* (run.ts promotion, lk_promote_build).                                     *)
PromotionKeepsDiscoveries ==
    [][\A new \in Gens : prog.gen # new /\ prog'.gen = new =>
        /\ 1 .. builds[prog.gen].frontier \subseteq builds'[new].recorded \cup builds'[new].gaps
        /\ builds'[new].queued = {}]_vars

(* "ok" means complete: while the last report of a program says ok, every    *)
(* transaction final before that run began is in the ledger that the         *)
(* dashboard reads, or is one of its gaps, also across promotions after it.  *)
OkRunIsComplete ==
    prog.status = "ok" => 1 .. okTip \subseteq builds[prog.gen].recorded \cup builds[prog.gen].gaps

Programs == {[key |-> 1, live |-> prog.deploy = "live",
              complete |-> builds[prog.gen].complete,
              pending |-> Cardinality(builds[prog.gen].queued),
              ingested |-> Cardinality(builds[prog.gen].recorded),
              failures |-> prog.failures, through |-> 0]}

(* Whatever the backlog and the cron heartbeat say, a live program whose     *)
(* last two runs were reported failed is never shown as live or as merely    *)
(* catching up (computeFreshness, lk_report_run).                            *)
FailuresAreSeen ==
    failedRuns >= 2 /\ prog.deploy = "live" =>
        \A age \in {Missing, 0, CronMaxAge, CronMaxAge + 1}, workflow \in GithubStates :
            State(beat, [age |-> age, workflow |-> workflow], Programs) \in {"delayed", "stale"}

(* A program with a queue that made no progress, in any of its generations,  *)
(* for three reported runs is reported as failed, also when runs that failed *)
(* for another reason lie between them (no_progress_runs in lk_report_run,   *)
(* exit code 1).  An active queue that stands still while a rebuild drains   *)
(* is not one: progress counts both (run.ts:273, 345).                       *)
StalledQueueFails == idleRuns >= 3 => prog.status = "failed"

(* A rebuild is promoted in the end, unless the program is closed: runs keep *)
(* starting, faults stop, and neither a lost start, a lost promotion nor the *)
(* active generation's own discoveries keep the new one behind for ever.     *)
RebuildFinishes ==
    \A g \in Gens : builds[g].status = "building" ~> (builds[g].status = "active" \/ chain # "live")
=============================================================================
