-------------------------------- MODULE Views -------------------------------
(***************************************************************************)
(* What the page shows for a payload: the view chosen for a fetch result,  *)
(* the freshness banner, the programs' badges and progress, and the        *)
(* sections below them.  Pure operators, applied by Dashboard to every     *)
(* payload its pages reach.  A sentence of the page is the name of what it *)
(* says and the program it is about (0: none).                             *)
(*                                                                         *)
(* A program here is the API's: [key, version, status, kind, match, sha,   *)
(* last, complete, pending, ingested, failures, through]; "match" says     *)
(* whether its binary is in the known-builds table, "last" counts the days *)
(* since its latest activity.                                              *)
(***************************************************************************)
EXTENDS Freshness, FiniteSets

Clusters == {"mainnet", "devnet"}
Windows == {"24h", "7d", "30d", "all"}
VersionFilters == {"all", "1", "2"}

ClusterKeys(cluster) ==
    IF cluster = "mainnet" THEN [v1 |-> 1, v2 |-> 2] ELSE [v1 |-> 3, v2 |-> 4]

(* whose figures are shown: a program's key, or 0 for the whole cluster *)
ScopeForVersion(cluster, filter) ==
    IF filter = "all" THEN 0
    ELSE IF filter = "1" THEN ClusterKeys(cluster).v1 ELSE ClusterKeys(cluster).v2

VisiblePrograms(programs, filter) ==
    {p \in programs : filter = "all" \/ filter = IF p.version = 1 THEN "1" ELSE "2"}

Deployed(p) == p.status = "live"

(* what the API hands to the freshness rules for a program's row *)
FreshnessProgram(p) ==
    [key |-> p.key, live |-> Deployed(p), complete |-> p.complete, pending |-> p.pending,
     ingested |-> p.ingested, failures |-> p.failures, through |-> p.through]

FreshnessPrograms(programs) == {FreshnessProgram(p) : p \in programs}

-----------------------------------------------------------------------------
(* The URL: unknown values fall back to the defaults, and every key is      *)
(* written back.                                                            *)

ParseUrl(url, fallback) ==
    [cluster |-> IF url.cluster \in Clusters THEN url.cluster ELSE fallback,
     window  |-> IF url.window \in Windows THEN url.window ELSE "30d",
     version |-> IF url.version \in VersionFilters THEN url.version ELSE "all"]

SerializeUrl(state) ==
    [cluster |-> state.cluster, window |-> state.window, version |-> state.version]

-----------------------------------------------------------------------------
(* The banner.                                                              *)

Says(text, key) == [text |-> text, key |-> key]

(* the progress of a reason's program, as the banner words it *)
CatchUpMessage(f, r) ==
    LET progress == {c \in f.catchUp : c.key = r.key}
        unknown == \A c \in progress : c.permille = Missing
    IN  IF r.code = "backfill"
        THEN Says(IF unknown THEN "discovering" ELSE "building_history", r.key)
        ELSE Says("pending", r.key)

Messages(f, cached) ==
    CASE f.state = "setup_required" -> {Says("upgrade_pending", 0)}
      [] f.state = "unavailable" ->
            {Says(IF cached THEN "showing_saved_copy" ELSE "no_saved_copy", 0)}
      [] f.state = "stale" ->
            {Says("indexer_stopped", 0)}
            \cup (IF f.workflow \in {"disabled_inactivity", "disabled_manually"}
                  THEN {Says(f.workflow, 0)}
                  ELSE IF f.worker # Missing THEN {Says("last_run", 0)} ELSE {})
      [] f.state = "delayed" ->
            {Says("delayed", 0)}
            \cup {Says("failing", r.key) : r \in {q \in f.reasons : q.code = "program_failing"}}
      [] OTHER ->
            LET about == {r \in f.reasons : r.code \in {"backfill", "backlog"}}
                said == {CatchUpMessage(f, r) : r \in about}
                        \cup {Says("not_run_yet", 0) : r \in {q \in f.reasons : q.code = "never_run"}}
            IN  IF said = {} THEN {Says("processing", 0)} ELSE said

NoBanner == [state |-> "live", messages |-> {}, command |-> FALSE]

SelectBanner(f, cached) ==
    IF f.state = "live" THEN NoBanner
    ELSE [state    |-> f.state,
          messages |-> Messages(f, cached),
          command  |-> f.state = "stale" /\ f.workflow \in {"disabled_inactivity", "disabled_manually"}]

-----------------------------------------------------------------------------
(* A program's card.                                                        *)

DormantAfterDays == 30

ProgramBadge(p) ==
    IF ~Deployed(p) THEN p.status
    ELSE IF p.kind = "v1-sunset" THEN "retired"
    ELSE IF p.kind \in {"unknown", "none"} \/ ~p.match THEN "unrecognised"
    ELSE IF ~p.complete THEN "backfill"
    ELSE IF p.last = Missing \/ p.last > DormantAfterDays THEN "dormant"
    ELSE "live"

(* Seeded fault: a finished backfill shows 100 % whatever is pending.        *)
PermilleOfComplete(p) ==
    IF p.complete THEN 1000
    ELSE IF p.ingested + p.pending = 0 THEN Missing
    ELSE (1000 * p.ingested) \div (p.ingested + p.pending)

(* permille of the history that is ingested; Missing when nothing is known *)
BackfillPermille(p) ==
    IF p.complete /\ p.pending = 0 THEN 1000
    ELSE IF p.ingested + p.pending = 0 THEN Missing
    ELSE (1000 * p.ingested) \div (p.ingested + p.pending)

ReleaseMatch(p) ==
    IF ~Deployed(p) THEN "none" ELSE IF p.match THEN "known" ELSE "unrecognised"

(* the builds a program is expected to get next: at most one is shown *)
ExpectedNext(p, binaries, cluster) ==
    LET here == {b \in binaries : b.cluster \in {cluster, "any"}}
        sunsets == {b \in here : b.kind = "v1-sunset"}
        full == {b \in here : b.kind = "v2-full"}
        releases == IF \E b \in full : b.release THEN {b \in full : b.release} ELSE full
    IN  IF p.version = 1
        THEN IF p.kind = "v1-sunset" THEN {} ELSE sunsets
        ELSE IF Deployed(p) /\ p.sha \in {b.sha : b \in releases} THEN {} ELSE releases

(* the sentence in place of a program's figures while it is not live *)
DeploymentNote(p, binaries, cluster) ==
    CASE p.status = "unknown" -> Says("not_checked", p.key)
      [] p.status = "closed"  -> Says("closed", p.key)
      [] OTHER -> Says(IF ExpectedNext(p, binaries, cluster) = {} THEN "no_account"
                       ELSE "no_account_expecting", p.key)

-----------------------------------------------------------------------------
(* The page.                                                                *)

(* the sections under the header for the programs in view *)
Sections(programs, filter) ==
    LET inView == VisiblePrograms(programs, filter)
        deployed == \E p \in inView : Deployed(p)
        overview ==
            IF deployed THEN "overview"
            ELSE IF inView # {} /\ \A p \in inView : p.status = "unknown" THEN "waiting_for_first_run"
            ELSE IF filter = "all" \/ inView = {} THEN "nothing_live"
            ELSE "version_not_deployed"
    IN  {overview, "programs", "binaries", "migration", "details"}
        \cup IF deployed THEN {"charts", "program_detail", "latest"} ELSE {}

Loading == [kind |-> "loading"]

(* a result: [kind, payload, cached], with an empty payload when there is   *)
(* none; a view: the same payload with the banner over it                   *)
ViewFromResult(r, freshness) ==
    CASE r.kind = "none" -> Loading
      [] r.kind = "ok" ->
            [kind |-> "data", cached |-> FALSE, banner |-> SelectBanner(freshness, FALSE)]
      [] r.kind = "setup_required" ->
            [kind |-> "setup_required", cached |-> FALSE,
             banner |-> SelectBanner(Fixed("setup_required"), FALSE)]
      [] r.kind \in {"unavailable", "error"} /\ r.cached ->
            [kind |-> "data", cached |-> TRUE,
             banner |-> SelectBanner([freshness EXCEPT !.state = "unavailable"], TRUE)]
      [] r.kind = "unavailable" /\ ~r.cached ->
            [kind |-> "unavailable", cached |-> FALSE,
             banner |-> SelectBanner(Fixed("unavailable"), FALSE)]
      [] OTHER -> [kind |-> "error"]
=============================================================================
