--------------------------- MODULE Lifecycle_proofs ---------------------------
(***************************************************************************)
(* Proofs about Lifecycle, for every number of signatures, generations,    *)
(* faults and rebuilds.  IInv strengthens LifecycleInv with what a run     *)
(* remembers between its steps, with the order of the discoveries, and     *)
(* with what the last report stands for.                                   *)
(***************************************************************************)
EXTENDS Lifecycle, TLAPS, FiniteSetTheorems

BeforeDiscovery == pc \in {"detect", "state"}
AfterDiscovery == pc \in {"ingest", "gaps", "promote", "report"}
InRun == BeforeDiscovery \/ pc \in {"discover", "ingest", "gaps", "promote"}
Current == WithStatus("active") \cup Building

(* what a run has still to discover exists, what it has discovered without   *)
(* an error reaches the tip at which it began, and the generation it has in  *)
(* mind is the active one until it promotes                                  *)
RunInv ==
    /\ BeforeDiscovery => run.todo = Current
    /\ run.began <= tip
    /\ InRun => run.gen = prog.gen
    /\ pc = "discover" =>
          /\ run.todo \subseteq Current
          /\ ~run.errors => \A g \in Current \ run.todo : run.began <= builds[g].frontier
    /\ AfterDiscovery /\ ~run.errors /\ ~run.absent =>
          \A g \in Current : run.began <= builds[g].frontier
    /\ pc = "report" /\ run.gen # prog.gen => builds[prog.gen].queued = {}

(* discovered_at and the frontier move together *)
OrderInv ==
    /\ \A g \in Gens : builds[g].frontier <= tip
    /\ \A g \in Gens : ~Discovered(g) => builds[g].frontier = 0
    /\ \A g, h \in Gens : <<g, h>> \in order =>
          Discovered(g) /\ Discovered(h) /\ builds[g].frontier <= builds[h].frontier
    /\ \A g \in Gens : builds[g].status = "none" => builds[g] = NoBuild /\ ~Discovered(g)

(* what the last good report, and the two counters, stand for *)
ReportInv ==
    /\ prog.status = "ok" => okTip <= builds[prog.gen].frontier
    /\ OkRunIsComplete
    /\ failedRuns <= prog.failures
    /\ idleRuns <= prog.npr
    /\ prog.npr >= 3 => prog.status = "failed"

IInv == LifecycleTypeOK /\ OneActiveBuild /\ RunInv /\ OrderInv /\ ReportInv

-----------------------------------------------------------------------------
(* Types and records                                                       *)

LEMMA ConstantFacts ==
  /\ MaxSig \in Nat /\ MaxGen \in Nat /\ MaxFaults \in Nat /\ MaxManual \in Nat
  /\ 1 \in Gens /\ 0 \in BeatAges
  BY LifecycleAssumption DEF Gens

LEMMA TypeFacts ==
  ASSUME LifecycleTypeOK
  PROVE  /\ tip \in Nat /\ tip <= MaxSig
         /\ prog.gen \in Gens /\ run.gen \in Gens /\ run.began \in Nat
         /\ prog.npr \in 0 .. 3 /\ prog.failures \in 0 .. 3
         /\ \A g \in Gens : builds[g] \in BuildType /\ builds[g].frontier \in Nat
  <1>1. tip \in Nat /\ tip <= MaxSig
    BY ConstantFacts DEF LifecycleTypeOK
  <1>2. prog.gen \in Gens /\ prog.npr \in 0 .. 3 /\ prog.failures \in 0 .. 3
    BY DEF LifecycleTypeOK, ProgramType
  <1>3. run.gen \in Gens /\ run.began \in Nat
    BY DEF LifecycleTypeOK, RunType
  <1>4. \A g \in Gens : builds[g] \in BuildType /\ builds[g].frontier \in Nat
    BY DEF LifecycleTypeOK, BuildType
  <1> QED
    BY <1>1, <1>2, <1>3, <1>4

LEMMA NoRunType == NoRun \in RunType
  BY ConstantFacts DEF NoRun, RunType

LEMMA NewBuildType ==
  ASSUME NEW st \in {"none", "building", "active", "retired"}
  PROVE  /\ NewBuild(st) \in BuildType
         /\ NewBuild(st).status = st /\ NewBuild(st).frontier = 0
         /\ Known(NewBuild(st)) = {}
  <1>1. NoBuild \in BuildType
    BY ConstantFacts DEF NoBuild, BuildType
  <1>2. /\ NoBuild.frontier = 0
        /\ NoBuild.queued = {} /\ NoBuild.recorded = {} /\ NoBuild.gaps = {}
    BY DEF NoBuild
  <1>3. [NoBuild EXCEPT !.status = st] \in BuildType
    BY <1>1 DEF BuildType
  <1>4. /\ [NoBuild EXCEPT !.status = st].status = st
        /\ [NoBuild EXCEPT !.status = st].frontier = NoBuild.frontier
        /\ [NoBuild EXCEPT !.status = st].queued = NoBuild.queued
        /\ [NoBuild EXCEPT !.status = st].recorded = NoBuild.recorded
        /\ [NoBuild EXCEPT !.status = st].gaps = NoBuild.gaps
    BY <1>1 DEF BuildType
  <1> QED
    BY <1>2, <1>3, <1>4 DEF NewBuild, Known

(* Completed touches only the flag.                                        *)
LEMMA CompletedKeeps ==
  ASSUME NEW b \in BuildType, NEW seen \in BOOLEAN
  PROVE  LET c == Completed(b, seen)
         IN  /\ c \in BuildType
             /\ c.status = b.status /\ c.frontier = b.frontier
             /\ c.queued = b.queued /\ c.recorded = b.recorded /\ c.gaps = b.gaps
             /\ ~seen => c = b
  BY DEF Completed, BuildType

LEMMA CurrentIsActiveAndBuilding ==
  Current = {g \in Gens : builds[g].status = "active" \/ builds[g].status = "building"}
  BY DEF Current, WithStatus, Building

(* The dashboard's generation is current, and the only active one.         *)
LEMMA ActiveIsCurrent ==
  ASSUME LifecycleTypeOK, OneActiveBuild
  PROVE  prog.gen \in Gens /\ prog.gen \in Current /\ builds[prog.gen].status = "active"
  BY DEF OneActiveBuild, WithStatus, Current

(* A count never passes 3, and grows with what it counts.                  *)
LEMMA CountGrows ==
  ASSUME NEW m \in 0 .. 3, NEW n \in 0 .. 3, m <= n
  PROVE  Count(m) \in 0 .. 3 /\ Count(m) <= Count(n) /\ m <= Count(n)
  BY DEF Count

-----------------------------------------------------------------------------
(* Steps that leave the generations alone                                  *)

(* Signatures become final, a run begins or ends: the stored facts stay    *)
(* true because they speak of the past.                                    *)
LEMMA SameGenerations ==
  ASSUME IInv, LifecycleTypeOK', tip' >= tip,
         builds' = builds, order' = order, prog'.gen = prog.gen
  PROVE  OneActiveBuild' /\ OrderInv'
  <1>1. tip \in Nat /\ tip' \in Nat
    BY ConstantFacts DEF IInv, LifecycleTypeOK
  <1>2. 1 .. tip \subseteq 1 .. tip'
    BY <1>1
  <1>3. OneActiveBuild'
    BY <1>2 DEF IInv, OneActiveBuild, WithStatus, Building
  <1>4. OrderInv'
    BY <1>1, TypeFacts DEF IInv, OrderInv, Discovered
  <1> QED
    BY <1>3, <1>4

LEMMA SameReport ==
  ASSUME IInv, builds' = builds, prog'.gen = prog.gen, prog'.status = prog.status,
         prog'.npr = prog.npr, prog'.failures = prog.failures, UNCHANGED historyVars
  PROVE  ReportInv'
  BY DEF IInv, ReportInv, OkRunIsComplete, historyVars

(* The chain, the clock and other programs' runs.                          *)
LEMMA EnvironmentKeeps == IInv /\ (Deploy \/ Close \/ Finalise \/ Tick \/ RunElsewhere) => IInv'
  <1> SUFFICES ASSUME IInv, Deploy \/ Close \/ Finalise \/ Tick \/ RunElsewhere PROVE IInv'
    OBVIOUS
  <1>1. /\ builds' = builds /\ order' = order /\ prog' = prog /\ run' = run /\ pc' = pc
        /\ UNCHANGED historyVars
    BY DEF Deploy, Close, Finalise, Tick, RunElsewhere, databaseVars
  <1>2. tip' \in 0 .. MaxSig /\ tip' >= tip
    BY ConstantFacts DEF Deploy, Close, Finalise, Tick, RunElsewhere, IInv, LifecycleTypeOK
  <1>3. beat' \in BeatAges \cup {Missing}
    BY ConstantFacts
    DEF Deploy, Close, Finalise, Tick, RunElsewhere, databaseVars, IInv, LifecycleTypeOK
  <1>4. LifecycleTypeOK'
    BY <1>1, <1>2, <1>3
    DEF Deploy, Close, Finalise, Tick, RunElsewhere, historyVars, IInv, LifecycleTypeOK
  <1>5. RunInv'
    BY <1>1, <1>2, <1>4, TypeFacts
    DEF IInv, LifecycleTypeOK, RunInv, BeforeDiscovery, AfterDiscovery, InRun, Current, WithStatus, Building
  <1> QED
    BY <1>1, <1>2, <1>4, <1>5, SameGenerations, SameReport DEF IInv

(* A run begins, or ends without another word.                             *)
LEMMA BeginAndEndKeep ==
  IInv /\ (ScheduledRun \/ RebuildRun \/ Abort \/ StartRefused \/ Heartbeat) => IInv'
  <1> SUFFICES ASSUME IInv, ScheduledRun \/ RebuildRun \/ Abort \/ StartRefused \/ Heartbeat
               PROVE  IInv'
    OBVIOUS
  <1> USE DEF ScheduledRun, RebuildRun, Begin, Abort, StartRefused, Heartbeat, End, Goto, Fault
  <1>1. /\ builds' = builds /\ order' = order /\ prog' = prog /\ tip' = tip
        /\ UNCHANGED historyVars
    BY DEF databaseVars
  <1>2. pc' \in {"idle", "start", "context"}
    OBVIOUS
  <1>3. run' \in RunType /\ run'.began <= tip
    <2>1. tip \in 0 .. MaxSig /\ 0 <= tip
      BY ConstantFacts DEF IInv, LifecycleTypeOK
    <2>2. NoRun.began = 0
      BY DEF NoRun
    <2>3. [NoRun EXCEPT !.began = tip] \in RunType /\ [NoRun EXCEPT !.began = tip].began = tip
      BY <2>1, NoRunType DEF RunType
    <2>4. run' = NoRun \/ run' = [NoRun EXCEPT !.began = tip]
      OBVIOUS
    <2> HIDE DEF ScheduledRun, RebuildRun, Begin, Abort, StartRefused, Heartbeat
    <2>5. CASE run' = NoRun
      BY <2>1, <2>2, <2>5, NoRunType
    <2>6. CASE run' = [NoRun EXCEPT !.began = tip]
      <3>1. run' \in RunType /\ run'.began = tip
        BY <2>3, <2>6
      <3> QED
        BY <2>1, <3>1
    <2> QED
      BY <2>4, <2>5, <2>6
  <1>4. LifecycleTypeOK'
    <2>1. beat' \in BeatAges \cup {Missing}
      BY ConstantFacts DEF databaseVars, IInv, LifecycleTypeOK
    <2>2. faults' \in 0 .. MaxFaults /\ manual' \in 0 .. MaxManual
      BY ConstantFacts DEF IInv, LifecycleTypeOK
    <2>3. chain' = chain
      OBVIOUS
    <2> QED
      BY <1>1, <1>2, <1>3, <2>1, <2>2, <2>3 DEF IInv, LifecycleTypeOK, historyVars, Phases
  <1>5. RunInv'
    BY <1>1, <1>2, <1>3 DEF RunInv, BeforeDiscovery, AfterDiscovery, InRun
  <1> QED
    BY <1>1, <1>4, <1>5, SameGenerations, SameReport, TypeFacts DEF IInv

(* The row that the run reads, and the lanes that read nothing of history. *)
LEMMA ReadContextKeeps == IInv /\ ReadContext => IInv'
  <1> SUFFICES ASSUME IInv, ReadContext PROVE IInv'
    OBVIOUS
  <1>1. /\ builds' = builds /\ order' = order /\ prog' = prog /\ tip' = tip /\ chain' = chain
        /\ beat' = beat /\ faults' = faults /\ manual' = manual
        /\ UNCHANGED historyVars /\ pc' = "detect"
    BY DEF ReadContext, databaseVars, Goto
  <1>2. /\ run' \in RunType
        /\ run'.gen = prog.gen /\ run'.todo = Current /\ run'.began = run.began
    <2>1. run \in RunType /\ prog.gen \in Gens
      BY TypeFacts DEF IInv, LifecycleTypeOK
    <2>2. WithStatus("active") \cup Building \in SUBSET Gens /\ (Building # {}) \in BOOLEAN
      BY DEF WithStatus, Building
    <2> QED
      BY <2>1, <2>2 DEF ReadContext, RunType, Current
  <1>3. LifecycleTypeOK'
    BY <1>1, <1>2 DEF IInv, LifecycleTypeOK, Phases, historyVars
  <1>4. RunInv'
    BY <1>1, <1>2
    DEF IInv, RunInv, BeforeDiscovery, AfterDiscovery, InRun, Current, WithStatus, Building
  <1> QED
    BY <1>1, <1>3, <1>4, SameGenerations, SameReport, TypeFacts DEF IInv

(* A live program goes on to its state; a program without account, or one    *)
(* that could not be read, is done.                                          *)
LEMMA DetectKeeps == IInv /\ (Detect \/ DetectFails) => IInv'
  <1> SUFFICES ASSUME IInv, Detect \/ DetectFails PROVE IInv'
    OBVIOUS
  <1>1. /\ builds' = builds /\ order' = order /\ tip' = tip /\ chain' = chain
        /\ beat' = beat /\ manual' = manual /\ pc = "detect"
        /\ UNCHANGED historyVars
    BY DEF Detect, DetectFails, databaseVars
  <1>2. /\ prog' \in ProgramType /\ prog'.gen = prog.gen /\ prog'.status = prog.status
        /\ prog'.npr = prog.npr /\ prog'.failures = prog.failures
    BY DEF Detect, DetectFails, databaseVars, ProgramType, IInv, LifecycleTypeOK
  <1>3. /\ run' \in RunType
        /\ run'.gen = run.gen /\ run'.todo = run.todo /\ run'.began = run.began
        /\ \/ pc' = "state"
           \/ pc' \in {"promote", "report"} /\ (run'.absent \/ run'.errors)
    BY DEF Detect, DetectFails, Goto, AfterLane, RunType, IInv, LifecycleTypeOK
  <1>4. faults' \in 0 .. MaxFaults
    BY ConstantFacts DEF Detect, DetectFails, Fault, IInv, LifecycleTypeOK
  <1>5. LifecycleTypeOK'
    BY <1>1, <1>2, <1>3, <1>4 DEF IInv, LifecycleTypeOK, Phases, historyVars
  <1>6. RunInv'
    BY <1>1, <1>2, <1>3
    DEF IInv, RunInv, BeforeDiscovery, AfterDiscovery, InRun, Current, WithStatus, Building
  <1> QED
    BY <1>1, <1>2, <1>5, <1>6, SameGenerations, SameReport, TypeFacts DEF IInv

LEMMA SnapshotKeeps == IInv /\ Snapshot => IInv'
  <1> SUFFICES ASSUME IInv, Snapshot PROVE IInv'
    OBVIOUS
  <1>1. /\ builds' = builds /\ order' = order /\ prog' = prog /\ tip' = tip /\ chain' = chain
        /\ beat' = beat /\ manual' = manual /\ pc = "state" /\ pc' = "discover"
        /\ UNCHANGED historyVars
    BY DEF Snapshot, databaseVars, Goto
  <1>2. /\ run' \in RunType
        /\ run'.gen = run.gen /\ run'.todo = run.todo /\ run'.began = run.began
    BY DEF Snapshot, RunType, IInv, LifecycleTypeOK
  <1>3. faults' \in 0 .. MaxFaults
    BY ConstantFacts DEF Snapshot, Fault, IInv, LifecycleTypeOK
  <1>4. LifecycleTypeOK'
    BY <1>1, <1>2, <1>3 DEF IInv, LifecycleTypeOK, Phases, historyVars
  <1>5. RunInv'
    BY <1>1, <1>2
    DEF IInv, RunInv, BeforeDiscovery, AfterDiscovery, InRun, Current, WithStatus, Building
  <1> QED
    BY <1>1, <1>4, <1>5, SameGenerations, SameReport, TypeFacts DEF IInv

(* The new generation stays where it is.                                   *)
LEMMA DoNotPromoteKeeps == IInv /\ DoNotPromote => IInv'
  <1> SUFFICES ASSUME IInv, DoNotPromote PROVE IInv'
    OBVIOUS
  <1>1. /\ builds' = builds /\ order' = order /\ prog' = prog /\ tip' = tip /\ chain' = chain
        /\ beat' = beat /\ manual' = manual /\ run' = run /\ pc = "promote" /\ pc' = "report"
        /\ UNCHANGED historyVars
    BY DEF DoNotPromote, databaseVars, Goto
  <1>2. faults' \in 0 .. MaxFaults
    BY ConstantFacts DEF DoNotPromote, Fault, IInv, LifecycleTypeOK
  <1>3. LifecycleTypeOK'
    BY <1>1, <1>2 DEF IInv, LifecycleTypeOK, Phases, historyVars
  <1>4. RunInv'
    BY <1>1
    DEF IInv, RunInv, BeforeDiscovery, AfterDiscovery, InRun, Current, WithStatus, Building
  <1> QED
    BY <1>1, <1>3, <1>4, SameGenerations, SameReport, TypeFacts DEF IInv

(* A report that never arrives, and the steps after it, touch the exit code. *)
LEMMA EndOfRunKeeps == IInv /\ (ReportFails \/ Check) => IInv'
  <1> SUFFICES ASSUME IInv, ReportFails \/ Check PROVE IInv'
    OBVIOUS
  <1>1. /\ builds' = builds /\ order' = order /\ prog' = prog /\ tip' = tip /\ chain' = chain
        /\ beat' = beat /\ manual' = manual /\ pc' \in {"check", "beat"}
        /\ UNCHANGED historyVars
    BY DEF ReportFails, Check, databaseVars, Goto
  <1>2. run' \in RunType /\ run'.began = run.began
    BY DEF ReportFails, Check, RunType, IInv, LifecycleTypeOK
  <1>3. faults' \in 0 .. MaxFaults
    BY ConstantFacts DEF ReportFails, Check, Fault, IInv, LifecycleTypeOK
  <1>4. LifecycleTypeOK'
    BY <1>1, <1>2, <1>3 DEF IInv, LifecycleTypeOK, Phases, historyVars
  <1>5. RunInv'
    BY <1>1, <1>2 DEF IInv, RunInv, BeforeDiscovery, AfterDiscovery, InRun
  <1> QED
    BY <1>1, <1>4, <1>5, SameGenerations, SameReport, TypeFacts DEF IInv

-----------------------------------------------------------------------------
(* Steps that change one generation and keep its status                    *)

LEMMA SameStatuses ==
  ASSUME \A h \in Gens : builds'[h].status = builds[h].status
  PROVE  /\ WithStatus("active")' = WithStatus("active")
         /\ Building' = Building
         /\ Current' = Current
  BY DEF WithStatus, Building, Current

(* The generation g becomes b, and loses no signature it knew.             *)
LEMMA OneBuildChanges ==
  ASSUME IInv, NEW g \in Gens, NEW b \in BuildType,
         builds' = [builds EXCEPT ![g] = b], prog' = prog, tip' = tip,
         UNCHANGED historyVars,
         b.status = builds[g].status,
         b.frontier = builds[g].frontier \/ b.frontier = tip,
         Known(builds[g]) \subseteq Known(b), Known(b) \subseteq 1 .. tip,
         b.status \in {"none", "retired"} => Known(b) = {},
         1 .. b.frontier \subseteq Known(b) \/ b.frontier = builds[g].frontier,
         b.queued \cap (b.recorded \cup b.gaps) = {}, b.recorded \cap b.gaps = {},
         builds[g].recorded \cup builds[g].gaps \subseteq b.recorded \cup b.gaps
  PROVE  /\ builds' \in [Gens -> BuildType]
         /\ builds'[g] = b /\ \A h \in Gens \ {g} : builds'[h] = builds[h]
         /\ \A h \in Gens : builds'[h].frontier >= builds[h].frontier
         /\ \A h \in Gens : builds'[h].frontier <= tip
         /\ WithStatus("active")' = WithStatus("active") /\ Building' = Building
         /\ Current' = Current
         /\ OneActiveBuild' /\ ReportInv'
  <1>0. LifecycleTypeOK /\ OneActiveBuild /\ OrderInv /\ ReportInv
    BY DEF IInv
  <1>1. builds \in [Gens -> BuildType]
    BY <1>0 DEF LifecycleTypeOK
  <1>2. /\ builds' \in [Gens -> BuildType]
        /\ builds'[g] = b /\ \A h \in Gens \ {g} : builds'[h] = builds[h]
    BY <1>1
  <1>3. \A h \in Gens : builds'[h].status = builds[h].status
    BY <1>2
  <1>4. \A h \in Gens : builds[h].frontier \in Nat /\ builds[h].frontier <= tip
    BY <1>0, TypeFacts DEF OrderInv
  <1>5. tip \in Nat
    BY <1>0, TypeFacts
  <1>6. \A h \in Gens : builds'[h].frontier >= builds[h].frontier /\ builds'[h].frontier <= tip
    BY <1>2, <1>4, <1>5
  <1>7. WithStatus("active")' = WithStatus("active") /\ Building' = Building /\ Current' = Current
    BY <1>3, SameStatuses
  <1>8. OneActiveBuild'
    <2>1. WithStatus("active")' = {prog.gen} /\ \A x, y \in Building' : x = y
      BY <1>0, <1>7 DEF OneActiveBuild
    <2>2. ASSUME NEW h \in Gens
          PROVE  LET c == builds'[h]
                 IN  /\ c.status \in {"none", "retired"} => Known(c) = {}
                     /\ c.queued \cap (c.recorded \cup c.gaps) = {}
                     /\ c.recorded \cap c.gaps = {}
                     /\ c.status \in {"active", "building"} => 1 .. c.frontier \subseteq Known(c)
                     /\ Known(c) \subseteq 1 .. tip
      <3>1. CASE h = g
        <4>1. b.status \in {"active", "building"} => 1 .. b.frontier \subseteq Known(b)
          BY <1>0 DEF OneActiveBuild
        <4> QED
          BY <1>2, <3>1, <4>1
      <3>2. CASE h # g
        BY <1>0, <1>2, <3>2 DEF OneActiveBuild
      <3> QED
        BY <3>1, <3>2
    <2> QED
      BY <2>1, <2>2 DEF OneActiveBuild, Known
  <1>9. ReportInv'
    <2>1. prog.gen \in Gens /\ okTip \in Nat
      BY <1>0, TypeFacts DEF LifecycleTypeOK
    <2>2. builds[prog.gen].recorded \cup builds[prog.gen].gaps
             \subseteq builds'[prog.gen].recorded \cup builds'[prog.gen].gaps
      BY <1>2, <2>1
    <2>3. builds'[prog.gen].frontier >= builds[prog.gen].frontier
      BY <1>6, <2>1
    <2>4. builds'[prog.gen].frontier \in Nat /\ builds[prog.gen].frontier \in Nat
      BY <1>2, <2>1, <1>4 DEF BuildType
    <2> QED
      BY <1>0, <2>1, <2>2, <2>3, <2>4 DEF ReportInv, OkRunIsComplete, historyVars
  <1> QED
    BY <1>2, <1>6, <1>7, <1>8, <1>9

(* What the two discoveries share.                                         *)
LEMMA DiscoveringFacts ==
  ASSUME IInv, NEW g \in Gens, NEW failed \in BOOLEAN, Discovering(g, failed),
         faults' \in 0 .. MaxFaults
  PROVE  /\ pc = "discover" /\ pc' \in {"discover", "ingest"}
         /\ pc' = "ingest" => run.todo = {g}
         /\ g \in run.todo /\ g \in Current
         /\ builds[g].status \in {"active", "building"}
         /\ run' \in RunType /\ run'.todo = run.todo \ {g}
         /\ run'.gen = run.gen /\ run'.began = run.began /\ run'.absent = run.absent
         /\ run'.errors = (run.errors \/ failed)
         /\ prog' = prog /\ tip' = tip /\ UNCHANGED historyVars
         /\ builds' \in [Gens -> BuildType] /\ order' \in SUBSET (Gens \X Gens) => LifecycleTypeOK'
  <1>0. LifecycleTypeOK /\ RunInv /\ run \in RunType
    BY DEF IInv, LifecycleTypeOK
  <1>1. /\ pc = "discover" /\ pc' \in {"discover", "ingest"}
        /\ pc' = "ingest" => run.todo = {g}
        /\ prog' = prog /\ tip' = tip /\ UNCHANGED historyVars
        /\ chain' = chain /\ beat' = beat /\ manual' = manual
        /\ g \in run.todo
    BY DEF Discovering, Goto, NextToDiscover
  <1>2. g \in Current /\ builds[g].status \in {"active", "building"}
    BY <1>0, <1>1 DEF RunInv, Current, Building, WithStatus
  <1>3. /\ run' \in RunType /\ run'.todo = run.todo \ {g}
        /\ run'.gen = run.gen /\ run'.began = run.began /\ run'.absent = run.absent
    BY <1>0 DEF Discovering, RunType
  <1>4. run'.errors = (run.errors \/ failed)
    BY <1>0 DEF Discovering, RunType
  <1>5. builds' \in [Gens -> BuildType] /\ order' \in SUBSET (Gens \X Gens) => LifecycleTypeOK'
    BY <1>0, <1>1, <1>3 DEF LifecycleTypeOK, Phases, historyVars
  <1> QED
    BY <1>1, <1>2, <1>3, <1>4, <1>5

(* A complete discovery queues everything that is final and not yet known.  *)
LEMMA DiscoverKeeps == ASSUME IInv, NEW g \in Gens, Discover(g) PROVE IInv'
  <1> DEFINE q == [builds[g] EXCEPT !.queued = builds[g].queued \cup (1 .. tip \ Known(builds[g])),
                                    !.frontier = tip]
             b == Completed(q, TRUE)
             old == {p \in order : p[1] # g}
             new == {<<h, g>> : h \in {g} \cup {x \in Gens : Discovered(x)}}
  <1>0. /\ LifecycleTypeOK /\ OneActiveBuild /\ RunInv /\ OrderInv
        /\ builds[g] \in BuildType /\ tip \in Nat /\ tip <= MaxSig
    BY TypeFacts DEF IInv
  <1>a. /\ Discovering(g, FALSE) /\ faults' = faults
        /\ builds' = [builds EXCEPT ![g] = b]
        /\ order' = old \cup new
    BY DEF Discover
  <1>b. faults' \in 0 .. MaxFaults
    BY <1>0, <1>a DEF LifecycleTypeOK
  <1>1. /\ pc = "discover" /\ pc' \in {"discover", "ingest"}
        /\ pc' = "ingest" => run.todo = {g}
        /\ g \in run.todo /\ g \in Current
        /\ builds[g].status \in {"active", "building"}
        /\ run' \in RunType /\ run'.todo = run.todo \ {g}
        /\ run'.gen = run.gen /\ run'.began = run.began /\ run'.absent = run.absent
        /\ run'.errors = (run.errors \/ FALSE)
        /\ prog' = prog /\ tip' = tip /\ UNCHANGED historyVars
        /\ builds' \in [Gens -> BuildType] /\ order' \in SUBSET (Gens \X Gens) => LifecycleTypeOK'
    BY <1>a, <1>b, DiscoveringFacts, Zenon
  <1>2. /\ q \in BuildType
        /\ q.status = builds[g].status /\ q.frontier = tip
        /\ q.queued = builds[g].queued \cup (1 .. tip \ Known(builds[g]))
        /\ q.recorded = builds[g].recorded /\ q.gaps = builds[g].gaps
    <2>1. 1 .. tip \subseteq Sigs /\ tip \in 0 .. MaxSig
      BY <1>0, ConstantFacts DEF Sigs
    <2> QED
      BY <1>0, <2>1 DEF BuildType
  <1>3. /\ b \in BuildType
        /\ b.status = builds[g].status /\ b.frontier = tip
        /\ b.queued = builds[g].queued \cup (1 .. tip \ Known(builds[g]))
        /\ b.recorded = builds[g].recorded /\ b.gaps = builds[g].gaps
    BY <1>2, CompletedKeeps
  <1>4. /\ Known(builds[g]) \subseteq 1 .. tip
        /\ builds[g].queued \cap (builds[g].recorded \cup builds[g].gaps) = {}
        /\ builds[g].recorded \cap builds[g].gaps = {}
    BY <1>0 DEF OneActiveBuild
  <1>5. /\ Known(builds[g]) \subseteq Known(b) /\ Known(b) \subseteq 1 .. tip
        /\ 1 .. b.frontier \subseteq Known(b)
        /\ b.queued \cap (b.recorded \cup b.gaps) = {} /\ b.recorded \cap b.gaps = {}
    BY <1>3, <1>4 DEF Known
  <1> HIDE DEF q, b
  <1>6. /\ builds' \in [Gens -> BuildType]
        /\ builds'[g] = b /\ \A h \in Gens \ {g} : builds'[h] = builds[h]
        /\ \A h \in Gens : builds'[h].frontier >= builds[h].frontier
        /\ \A h \in Gens : builds'[h].frontier <= tip
        /\ Current' = Current
        /\ OneActiveBuild' /\ ReportInv'
    BY <1>1, <1>3, <1>5, <1>a, OneBuildChanges
  <1>7. \A h \in Gens : Discovered(h)' <=> h = g \/ Discovered(h)
    BY <1>a DEF Discovered
  <1>8. order' \in SUBSET (Gens \X Gens)
    BY <1>0, <1>a DEF LifecycleTypeOK
  <1>9. OrderInv'
    <2>1. \A h \in Gens : builds[h].frontier \in Nat
      BY <1>0, TypeFacts
    <2>2. \A h \in Gens : ~Discovered(h)' => builds'[h].frontier = 0
      BY <1>0, <1>6, <1>7 DEF OrderInv
    <2>3. ASSUME NEW x \in Gens, NEW y \in Gens, <<x, y>> \in order'
          PROVE  Discovered(x)' /\ Discovered(y)' /\ builds'[x].frontier <= builds'[y].frontier
      <3>1. CASE <<x, y>> \in old
        <4>1. x # g /\ Discovered(x) /\ Discovered(y) /\ builds[x].frontier <= builds[y].frontier
          BY <1>0, <3>1 DEF OrderInv
        <4>2. builds'[x] = builds[x] /\ builds'[y].frontier >= builds[y].frontier
          BY <1>6, <4>1
        <4>3. builds'[y].frontier \in Nat
          BY <1>6 DEF BuildType
        <4> QED
          BY <1>7, <2>1, <4>1, <4>2, <4>3
      <3>2. CASE <<x, y>> \in new
        <4>1. y = g /\ (x = g \/ Discovered(x))
          BY <3>2
        <4>2. builds'[y].frontier = tip
          BY <1>3, <1>6, <4>1
        <4> QED
          BY <1>6, <1>7, <4>1, <4>2
      <3> QED
        BY <1>a, <2>3, <3>1, <3>2
    <2>4. \A h \in Gens : builds'[h].status = "none" => builds'[h] = NoBuild /\ ~Discovered(h)'
      <3>1. builds'[g].status # "none"
        BY <1>1, <1>3, <1>6
      <3> QED
        BY <1>0, <1>6, <1>7, <3>1 DEF OrderInv
    <2> QED
      BY <1>1, <1>6, <2>2, <2>3, <2>4 DEF OrderInv
  <1>10. RunInv'
    <2>1. run.began <= tip
      BY <1>0 DEF RunInv
    <2>2. ~run.errors => \A h \in Current \ (run.todo \ {g}) : run.began <= builds'[h].frontier
      <3> SUFFICES ASSUME ~run.errors, NEW h \in Current \ (run.todo \ {g})
                   PROVE  run.began <= builds'[h].frontier
        OBVIOUS
      <3>1. h \in Gens
        BY DEF Current, WithStatus, Building
      <3>2. CASE h = g
        BY <1>3, <1>6, <2>1, <3>2
      <3>3. CASE h # g
        BY <1>0, <1>1, <1>6, <3>1, <3>3 DEF RunInv
      <3> QED
        BY <3>2, <3>3
    <2>3. pc' = "ingest" => run'.todo = {}
      BY <1>1
    <2> QED
      BY <1>0, <1>1, <1>6, <2>1, <2>2, <2>3
      DEF RunInv, BeforeDiscovery, AfterDiscovery, InRun
  <1> QED
    BY <1>1, <1>6, <1>8, <1>9, <1>10 DEF IInv

(* The order and the frontiers stay: only sets of signatures move.         *)
LEMMA OrderStays ==
  ASSUME IInv, LifecycleTypeOK', order' = order, tip' = tip,
         \A h \in Gens : builds'[h].frontier = builds[h].frontier
                         /\ builds'[h].status = builds[h].status,
         \A h \in Gens : builds[h].status = "none" => builds'[h] = builds[h]
  PROVE  OrderInv'
  BY DEF IInv, OrderInv, Discovered

(* The chunks of a discovery that fails are above the frontier.            *)
LEMMA DiscoverFailsKeeps == ASSUME IInv, NEW g \in Gens, DiscoverFails(g) PROVE IInv'
  <1>0. /\ LifecycleTypeOK /\ OneActiveBuild /\ RunInv /\ OrderInv
        /\ builds[g] \in BuildType /\ tip \in Nat /\ tip <= MaxSig
    BY TypeFacts DEF IInv
  <1>1. PICK from \in builds[g].frontier + 1 .. tip + 1 :
           builds' = [builds EXCEPT ![g].queued = @ \cup (from .. tip \ Known(builds[g]))]
    BY DEF DiscoverFails
  <1> DEFINE b == [builds[g] EXCEPT !.queued = builds[g].queued \cup (from .. tip \ Known(builds[g]))]
  <1>a. /\ Discovering(g, TRUE) /\ faults' \in 0 .. MaxFaults /\ order' = order
        /\ builds' = [builds EXCEPT ![g] = b]
    <2>1. Discovering(g, TRUE) /\ faults < MaxFaults /\ faults' = faults + 1 /\ order' = order
      BY DEF DiscoverFails, Fault
    <2>2. faults' \in 0 .. MaxFaults
      BY <1>0, <2>1, ConstantFacts DEF LifecycleTypeOK
    <2>3. builds \in [Gens -> BuildType]
      BY <1>0 DEF LifecycleTypeOK
    <2> QED
      BY <1>1, <2>1, <2>2, <2>3
  <1>2. /\ pc = "discover" /\ pc' \in {"discover", "ingest"}
        /\ g \in run.todo /\ g \in Current
        /\ builds[g].status \in {"active", "building"}
        /\ run' \in RunType /\ run'.todo = run.todo \ {g}
        /\ run'.gen = run.gen /\ run'.began = run.began /\ run'.absent = run.absent
        /\ run'.errors = (run.errors \/ TRUE)
        /\ prog' = prog /\ tip' = tip /\ UNCHANGED historyVars
        /\ builds' \in [Gens -> BuildType] /\ order' \in SUBSET (Gens \X Gens) => LifecycleTypeOK'
    BY <1>a, DiscoveringFacts, Zenon
  <1>3. from \in Nat /\ from >= 1 /\ from .. tip \subseteq 1 .. tip
    BY <1>0 DEF BuildType
  <1>4. /\ b \in BuildType
        /\ b.status = builds[g].status /\ b.frontier = builds[g].frontier
        /\ b.queued = builds[g].queued \cup (from .. tip \ Known(builds[g]))
        /\ b.recorded = builds[g].recorded /\ b.gaps = builds[g].gaps
    <2>1. from .. tip \subseteq Sigs
      BY <1>0, <1>3, ConstantFacts DEF Sigs
    <2> QED
      BY <1>0, <2>1 DEF BuildType
  <1>5. /\ Known(builds[g]) \subseteq 1 .. tip
        /\ builds[g].queued \cap (builds[g].recorded \cup builds[g].gaps) = {}
        /\ builds[g].recorded \cap builds[g].gaps = {}
    BY <1>0 DEF OneActiveBuild
  <1>6. /\ Known(builds[g]) \subseteq Known(b) /\ Known(b) \subseteq 1 .. tip
        /\ b.queued \cap (b.recorded \cup b.gaps) = {} /\ b.recorded \cap b.gaps = {}
    BY <1>3, <1>4, <1>5 DEF Known
  <1> HIDE DEF b
  <1>7. /\ builds' \in [Gens -> BuildType]
        /\ builds'[g] = b /\ \A h \in Gens \ {g} : builds'[h] = builds[h]
        /\ Current' = Current
        /\ OneActiveBuild' /\ ReportInv'
    BY <1>2, <1>4, <1>6, <1>a, OneBuildChanges
  <1>8. LifecycleTypeOK'
    BY <1>0, <1>2, <1>7, <1>a DEF LifecycleTypeOK
  <1>9. OrderInv'
    BY <1>2, <1>4, <1>7, <1>8, <1>a, OrderStays
  <1>10. RunInv'
    BY <1>0, <1>2, <1>7 DEF RunInv, BeforeDiscovery, AfterDiscovery, InRun
  <1> QED
    BY <1>7, <1>8, <1>9, <1>10 DEF IInv

(* Ingest and gap retries move signatures between the three sets.          *)
LEMMA MovingKeeps ==
  ASSUME IInv, NEW g \in Gens, NEW b \in BuildType, builds' = [builds EXCEPT ![g] = b],
         b.status = builds[g].status, b.frontier = builds[g].frontier,
         builds[g].status = "none" => b = builds[g],
         Known(b) = Known(builds[g]),
         b.queued \cap (b.recorded \cup b.gaps) = {}, b.recorded \cap b.gaps = {},
         builds[g].recorded \cup builds[g].gaps \subseteq b.recorded \cup b.gaps,
         prog' = prog, tip' = tip, order' = order, chain' = chain, beat' = beat, manual' = manual,
         UNCHANGED historyVars,
         faults' \in 0 .. MaxFaults,
         run' \in RunType, run'.gen = run.gen, run'.began = run.began, run'.absent = run.absent,
         run.errors => run'.errors,
         pc \in {"ingest", "gaps"}, pc' \in {"ingest", "gaps", "promote", "report"}
  PROVE  IInv'
  <1>0. LifecycleTypeOK /\ OneActiveBuild /\ RunInv /\ OrderInv /\ builds[g] \in BuildType
    BY TypeFacts DEF IInv
  <1>1. Known(b) \subseteq 1 .. tip /\ (b.status \in {"none", "retired"} => Known(b) = {})
    BY <1>0 DEF OneActiveBuild
  <1>2. /\ builds' \in [Gens -> BuildType]
        /\ builds'[g] = b /\ \A h \in Gens \ {g} : builds'[h] = builds[h]
        /\ Current' = Current
        /\ OneActiveBuild' /\ ReportInv'
    BY <1>1, OneBuildChanges
  <1>3. LifecycleTypeOK'
    BY <1>0, <1>2 DEF LifecycleTypeOK, Phases, historyVars
  <1>4. \A h \in Gens : builds'[h].frontier = builds[h].frontier /\ builds'[h].status = builds[h].status
    BY <1>2
  <1>5. OrderInv'
    BY <1>2, <1>3, <1>4, OrderStays
  <1>6. \A h \in Current : h \in Gens
    BY DEF Current, WithStatus, Building
  <1>7. RunInv'
    BY <1>0, <1>2, <1>4, <1>6 DEF RunInv, BeforeDiscovery, AfterDiscovery, InRun
  <1> QED
    BY <1>2, <1>3, <1>5, <1>7 DEF IInv

LEMMA DrainKeeps == ASSUME IInv, NEW g \in Gens, Drain(g) PROVE IInv'
  <1>0. /\ LifecycleTypeOK /\ OneActiveBuild /\ OrderInv /\ builds[g] \in BuildType
    BY TypeFacts DEF IInv
  <1>1. PICK done \in SUBSET builds[g].queued, gaps \in SUBSET builds[g].queued, error \in BOOLEAN :
          /\ done \cap gaps = {}
          /\ LET b == builds[g]
                 left == b.queued \ (done \cup gaps)
                 clean == left = {} /\ gaps = {} /\ ~error
             IN  /\ IF clean THEN UNCHANGED faults ELSE Fault
                 /\ builds' = [builds EXCEPT ![g] =
                       Completed([b EXCEPT !.queued = left,
                                           !.recorded = @ \cup done,
                                           !.gaps = @ \cup gaps],
                                 Discovered(g))]
                 /\ run' = [run EXCEPT !.work = @ \ {g},
                                       !.errors = @ \/ error,
                                       !.progress = @ \/ done \cup gaps # {}]
    BY DEF Drain
  <1> DEFINE m == [builds[g] EXCEPT !.queued = builds[g].queued \ (done \cup gaps),
                                    !.recorded = builds[g].recorded \cup done,
                                    !.gaps = builds[g].gaps \cup gaps]
             b == Completed(m, Discovered(g))
  <1>2. builds' = [builds EXCEPT ![g] = b]
    BY <1>1
  <1>3. faults' \in 0 .. MaxFaults
    BY <1>0, <1>1, ConstantFacts DEF Fault, LifecycleTypeOK
  <1>4. /\ run' \in RunType /\ run'.gen = run.gen /\ run'.began = run.began
        /\ run'.absent = run.absent
    BY <1>0, <1>1 DEF LifecycleTypeOK, RunType
  <1>5. run.errors => run'.errors
    BY <1>0, <1>1 DEF LifecycleTypeOK, RunType
  <1>6. /\ m \in BuildType /\ m.status = builds[g].status /\ m.frontier = builds[g].frontier
        /\ m.queued = builds[g].queued \ (done \cup gaps)
        /\ m.recorded = builds[g].recorded \cup done
        /\ m.gaps = builds[g].gaps \cup gaps
    BY <1>0, <1>1 DEF BuildType
  <1>7. Discovered(g) \in BOOLEAN
    BY DEF Discovered
  <1>8. /\ b \in BuildType /\ b.status = m.status /\ b.frontier = m.frontier
        /\ b.queued = m.queued /\ b.recorded = m.recorded /\ b.gaps = m.gaps
        /\ ~Discovered(g) => b = m
    BY <1>6, <1>7, CompletedKeeps
  <1>9. /\ builds[g].queued \cap (builds[g].recorded \cup builds[g].gaps) = {}
        /\ builds[g].recorded \cap builds[g].gaps = {}
    BY <1>0 DEF OneActiveBuild
  <1>10. /\ Known(b) = Known(builds[g])
         /\ b.queued \cap (b.recorded \cup b.gaps) = {} /\ b.recorded \cap b.gaps = {}
         /\ builds[g].recorded \cup builds[g].gaps \subseteq b.recorded \cup b.gaps
    BY <1>1, <1>6, <1>8, <1>9 DEF Known
  <1>11. builds[g].status = "none" => b = builds[g]
    <2> SUFFICES ASSUME builds[g].status = "none" PROVE b = builds[g]
      OBVIOUS
    <2>1. Known(builds[g]) = {} /\ ~Discovered(g)
      BY <1>0 DEF OneActiveBuild, OrderInv
    <2>2. done = {} /\ gaps = {} /\ builds[g].queued = {}
      BY <1>1, <2>1 DEF Known
    <2>3. m = builds[g]
      BY <1>0, <2>2 DEF BuildType
    <2> QED
      BY <1>8, <2>1, <2>3
  <1> HIDE DEF m, b
  <1>12. /\ prog' = prog /\ tip' = tip /\ order' = order /\ chain' = chain /\ beat' = beat
         /\ manual' = manual /\ UNCHANGED historyVars
         /\ pc = "ingest" /\ pc' \in {"gaps", "ingest"}
    BY DEF Drain, Goto
  <1> QED
    BY <1>2, <1>3, <1>4, <1>5, <1>6, <1>8, <1>10, <1>11, <1>12, MovingKeeps

LEMMA RetryGapsKeeps == IInv /\ RetryGaps => IInv'
  <1> SUFFICES ASSUME IInv, RetryGaps PROVE IInv'
    OBVIOUS
  <1> DEFINE g == run.gen
  <1>0. /\ LifecycleTypeOK /\ OneActiveBuild /\ RunInv /\ g \in Gens /\ builds[g] \in BuildType
        /\ builds \in [Gens -> BuildType] /\ pc = "gaps"
    BY TypeFacts DEF IInv, RetryGaps, LifecycleTypeOK
  <1>1. PICK repaired \in SUBSET builds[g].gaps :
          builds' = [builds EXCEPT ![g].gaps = @ \ repaired, ![g].recorded = @ \cup repaired]
    BY DEF RetryGaps
  <1> DEFINE b == [builds[g] EXCEPT !.gaps = builds[g].gaps \ repaired,
                                    !.recorded = builds[g].recorded \cup repaired]
  <1>2. builds' = [builds EXCEPT ![g] = b]
    BY <1>0, <1>1
  <1>3. /\ b \in BuildType /\ b.status = builds[g].status /\ b.frontier = builds[g].frontier
        /\ b.queued = builds[g].queued
        /\ b.recorded = builds[g].recorded \cup repaired /\ b.gaps = builds[g].gaps \ repaired
    BY <1>0, <1>1 DEF BuildType
  <1>4. /\ builds[g].queued \cap (builds[g].recorded \cup builds[g].gaps) = {}
        /\ builds[g].recorded \cap builds[g].gaps = {}
    BY <1>0 DEF OneActiveBuild
  <1>5. /\ Known(b) = Known(builds[g])
        /\ b.queued \cap (b.recorded \cup b.gaps) = {} /\ b.recorded \cap b.gaps = {}
        /\ builds[g].recorded \cup builds[g].gaps \subseteq b.recorded \cup b.gaps
    BY <1>1, <1>3, <1>4 DEF Known
  <1>6. builds[g].status # "none"
    BY <1>0, ActiveIsCurrent DEF RunInv, InRun
  <1> HIDE DEF b
  <1>7. /\ prog' = prog /\ tip' = tip /\ order' = order /\ chain' = chain /\ beat' = beat
        /\ manual' = manual /\ UNCHANGED historyVars
        /\ pc' \in {"promote", "report"}
    BY DEF RetryGaps, Goto, AfterLane
  <1>8. /\ faults' \in 0 .. MaxFaults
        /\ run' \in RunType /\ run'.gen = run.gen /\ run'.began = run.began
        /\ run'.absent = run.absent /\ (run.errors => run'.errors)
    <2>1. run \in RunType /\ faults \in 0 .. MaxFaults
      BY <1>0 DEF LifecycleTypeOK
    <2>2. CASE run' = run /\ faults' = faults
      BY <2>1, <2>2
    <2>3. CASE Fault /\ run' = [run EXCEPT !.errors = TRUE]
      <3>1. faults' \in 0 .. MaxFaults
        BY <2>1, <2>3, ConstantFacts DEF Fault
      <3>2. [run EXCEPT !.errors = TRUE] \in RunType
        BY <2>1 DEF RunType
      <3>3. /\ run'.gen = run.gen /\ run'.began = run.began /\ run'.absent = run.absent
            /\ run'.errors
        BY <2>1, <2>3 DEF RunType
      <3> QED
        BY <2>3, <3>1, <3>2, <3>3
    <2> QED
      BY <2>2, <2>3 DEF RetryGaps
  <1> QED
    BY <1>0, <1>2, <1>3, <1>5, <1>6, <1>7, <1>8, MovingKeeps

-----------------------------------------------------------------------------
(* Generations come and go                                                 *)

(* A new generation is empty and was never discovered.                     *)
LEMMA StartBuildKeeps == IInv /\ StartBuild => IInv'
  <1> SUFFICES ASSUME IInv, StartBuild PROVE IInv'
    OBVIOUS
  <1>0. LifecycleTypeOK /\ OneActiveBuild /\ RunInv /\ OrderInv /\ ReportInv
    BY DEF IInv
  <1>1. PICK g \in Gens : /\ builds[g].status = "none"
                          /\ builds' = [builds EXCEPT ![g] = NewBuild("building")]
    BY DEF StartBuild
  <1> DEFINE b == NewBuild("building")
  <1>2. b \in BuildType /\ b.status = "building" /\ b.frontier = 0 /\ Known(b) = {}
    BY NewBuildType
  <1>3. b.queued = {} /\ b.recorded = {} /\ b.gaps = {}
    BY <1>2 DEF Known
  <1> HIDE DEF b
  <1>4. /\ builds' \in [Gens -> BuildType]
        /\ builds'[g] = b /\ \A h \in Gens \ {g} : builds'[h] = builds[h]
    BY <1>0, <1>1, <1>2 DEF LifecycleTypeOK, b
  <1>5. /\ tip' = tip /\ order' = order /\ prog' = prog /\ run' = run /\ chain' = chain
        /\ beat' = beat /\ manual' = manual /\ UNCHANGED historyVars
        /\ Building = {} /\ pc' \in {"start", "context"}
    BY DEF StartBuild, Goto
  <1>6. faults' \in 0 .. MaxFaults
    BY <1>0, ConstantFacts DEF StartBuild, Fault, LifecycleTypeOK
  <1>7. prog.gen \in Gens /\ prog.gen # g
    BY <1>0, <1>1, ActiveIsCurrent
  <1>8. LifecycleTypeOK'
    BY <1>0, <1>4, <1>5, <1>6 DEF LifecycleTypeOK, Phases, historyVars
  <1>9. WithStatus("active")' = {prog.gen} /\ Building' = {g}
    <2>1. WithStatus("active")' = WithStatus("active")
      BY <1>1, <1>2, <1>4 DEF WithStatus
    <2>2. Building' = Building \cup {g}
      BY <1>1, <1>2, <1>4 DEF Building, WithStatus
    <2> QED
      BY <1>0, <1>5, <2>1, <2>2 DEF OneActiveBuild
  <1>10. ASSUME NEW h \in Gens
         PROVE  LET c == builds'[h]
                IN  /\ c.status \in {"none", "retired"} => Known(c) = {}
                    /\ c.queued \cap (c.recorded \cup c.gaps) = {}
                    /\ c.recorded \cap c.gaps = {}
                    /\ c.status \in {"active", "building"} => 1 .. c.frontier \subseteq Known(c)
                    /\ Known(c) \subseteq 1 .. tip
    <2>1. CASE h = g
      BY <1>2, <1>3, <1>4, <2>1
    <2>2. CASE h # g
      BY <1>0, <1>4, <2>2 DEF OneActiveBuild
    <2> QED
      BY <2>1, <2>2
  <1>11. OneActiveBuild'
    <2>1. \A x, y \in Building' : x = y
      BY <1>9
    <2> QED
      BY <1>5, <1>9, <1>10, <2>1 DEF OneActiveBuild, Known
  <1>12. OrderInv'
    <2>1. ~Discovered(g) /\ builds[g].frontier = 0
      BY <1>0, <1>1 DEF OrderInv
    <2>2. \A h \in Gens : builds'[h].frontier = builds[h].frontier
      BY <1>2, <1>4, <2>1
    <2>3. \A h \in Gens : builds'[h].status = "none" => builds'[h] = builds[h]
      BY <1>2, <1>4
    <2> QED
      BY <1>0, <1>5, <2>2, <2>3 DEF OrderInv, Discovered
  <1>13. RunInv'
    BY <1>0, <1>5 DEF RunInv, BeforeDiscovery, AfterDiscovery, InRun
  <1>14. ReportInv'
    BY <1>0, <1>4, <1>5, <1>7 DEF ReportInv, OkRunIsComplete, historyVars
  <1> QED
    BY <1>8, <1>11, <1>12, <1>13, <1>14 DEF IInv

(* What a promotion keeps: up to the old frontier, the new ledger and gaps  *)
(* hold everything.                                                        *)
LEMMA CaughtUpHasAll ==
  ASSUME IInv, NEW g \in Building, CaughtUp(g)
  PROVE  /\ g \in Gens /\ g # prog.gen
         /\ builds[prog.gen].frontier <= builds[g].frontier
         /\ 1 .. builds[prog.gen].frontier \subseteq builds[g].recorded \cup builds[g].gaps
         /\ builds[g].queued = {}
  <1>0. LifecycleTypeOK /\ OneActiveBuild /\ OrderInv
    BY DEF IInv
  <1>1. g \in Gens /\ builds[g].status = "building"
    BY DEF Building, WithStatus
  <1>2. prog.gen \in Gens /\ builds[prog.gen].status = "active" /\ prog.gen \in WithStatus("active")
    BY <1>0, ActiveIsCurrent DEF OneActiveBuild
  <1>3. builds[g].queued = {} /\ (Discovered(prog.gen) => <<prog.gen, g>> \in order)
    BY <1>2 DEF CaughtUp, DiscoveredLast
  <1>4. builds[prog.gen].frontier \in Nat /\ builds[g].frontier \in Nat
    BY <1>0, <1>1, <1>2, TypeFacts
  <1>5. builds[prog.gen].frontier <= builds[g].frontier
    BY <1>0, <1>1, <1>2, <1>3, <1>4 DEF OrderInv
  <1>6. 1 .. builds[g].frontier \subseteq builds[g].recorded \cup builds[g].gaps
    BY <1>0, <1>1, <1>3 DEF OneActiveBuild, Known
  <1> QED
    BY <1>1, <1>2, <1>3, <1>4, <1>5, <1>6

LEMMA SwappedGenerations ==
  ASSUME IInv, NEW g \in Building, builds' = Swapped(g)
  PROVE  /\ builds' \in [Gens -> BuildType]
         /\ g \in Gens /\ g # prog.gen
         /\ \A h \in Gens : builds'[h].frontier = builds[h].frontier
         /\ /\ builds'[g].status = "active" /\ builds'[g].queued = builds[g].queued
            /\ builds'[g].recorded = builds[g].recorded /\ builds'[g].gaps = builds[g].gaps
         /\ builds'[prog.gen].status = "retired" /\ Known(builds'[prog.gen]) = {}
         /\ \A h \in Gens \ {g, prog.gen} :
               builds'[h] = builds[h] /\ builds[h].status \in {"none", "retired"}
  <1>0. LifecycleTypeOK /\ OneActiveBuild /\ builds \in [Gens -> BuildType]
    BY DEF IInv, LifecycleTypeOK
  <1>1. g \in Gens /\ builds[g].status = "building" /\ Building = {g}
    BY <1>0 DEF Building, WithStatus, OneActiveBuild
  <1>2. prog.gen \in Gens /\ builds[prog.gen].status = "active" /\ WithStatus("active") = {prog.gen}
    BY <1>0, ActiveIsCurrent DEF OneActiveBuild
  <1>3. builds'[g] = [builds[g] EXCEPT !.status = "active"]
    BY <1>1 DEF Swapped
  <1>4. /\ builds'[g] \in BuildType /\ builds'[g].frontier = builds[g].frontier
        /\ builds'[g].status = "active" /\ builds'[g].queued = builds[g].queued
        /\ builds'[g].recorded = builds[g].recorded /\ builds'[g].gaps = builds[g].gaps
    BY <1>0, <1>1, <1>3 DEF BuildType
  <1>5. builds'[prog.gen] = [builds[prog.gen] EXCEPT !.status = "retired", !.queued = {},
                                                     !.recorded = {}, !.gaps = {}]
    BY <1>1, <1>2 DEF Swapped
  <1>6. /\ builds'[prog.gen] \in BuildType
        /\ builds'[prog.gen].frontier = builds[prog.gen].frontier
        /\ builds'[prog.gen].status = "retired" /\ builds'[prog.gen].queued = {}
        /\ builds'[prog.gen].recorded = {} /\ builds'[prog.gen].gaps = {}
    <2>1. builds[prog.gen] \in BuildType
      BY <1>0, <1>2
    <2> DEFINE empty == {}
    <2>2. empty \in SUBSET Sigs
      OBVIOUS
    <2> HIDE DEF empty
    <2>3. [builds[prog.gen] EXCEPT !.status = "retired", !.queued = empty,
                                   !.recorded = empty, !.gaps = empty] \in BuildType
      BY <2>1, <2>2 DEF BuildType
    <2>a. builds'[prog.gen] \in BuildType
      BY <1>5, <2>3 DEF empty
    <2>4. /\ builds'[prog.gen].frontier = builds[prog.gen].frontier
          /\ builds'[prog.gen].status = "retired" /\ builds'[prog.gen].queued = {}
          /\ builds'[prog.gen].recorded = {} /\ builds'[prog.gen].gaps = {}
      BY <1>5, <2>1 DEF BuildType
    <2> QED
      BY <2>a, <2>4
  <1>7. ASSUME NEW h \in Gens \ {g, prog.gen}
        PROVE  builds'[h] = builds[h] /\ builds[h].status \in {"none", "retired"}
    <2>1. builds[h].status # "active" /\ builds[h].status # "building"
      BY <1>1, <1>2 DEF WithStatus, Building
    <2>2. builds'[h] = builds[h]
      BY <2>1 DEF Swapped
    <2>3. builds[h] \in BuildType
      BY <1>0
    <2> QED
      BY <2>1, <2>2, <2>3 DEF BuildType
  <1>8. \A h \in Gens : builds'[h] \in BuildType /\ builds'[h].frontier = builds[h].frontier
    BY <1>0, <1>4, <1>6, <1>7
  <1>9. builds' \in [Gens -> BuildType]
    <2> DEFINE e(h) == CASE h = g                       -> [builds[h] EXCEPT !.status = "active"]
                         [] builds[h].status = "active" ->
                               [builds[h] EXCEPT !.status = "retired", !.queued = {}, !.recorded = {}, !.gaps = {}]
                         [] OTHER                       -> builds[h]
    <2>1. builds' = [h \in Gens |-> e(h)]
      BY DEF Swapped
    <2> HIDE DEF e
    <2> QED
      BY <1>8, <2>1
  <1> QED
    BY <1>1, <1>2, <1>4, <1>6, <1>7, <1>8, <1>9 DEF Known

LEMMA PromoteKeeps == IInv /\ Promote => IInv'
  <1> SUFFICES ASSUME IInv, Promote PROVE IInv'
    OBVIOUS
  <1>0. LifecycleTypeOK /\ OneActiveBuild /\ RunInv /\ OrderInv /\ ReportInv
    BY DEF IInv
  <1>1. PICK g \in Building : /\ CaughtUp(g)
                              /\ builds' = Swapped(g)
                              /\ prog' = [prog EXCEPT !.gen = g]
                              /\ \/ run' = [run EXCEPT !.gen = g] /\ UNCHANGED faults
                                 \/ Fault /\ UNCHANGED run
    BY DEF Promote
  <1>2. /\ builds' \in [Gens -> BuildType]
        /\ g \in Gens /\ g # prog.gen
        /\ \A h \in Gens : builds'[h].frontier = builds[h].frontier
        /\ builds'[g].status = "active" /\ builds'[g].queued = builds[g].queued
        /\ builds'[g].recorded = builds[g].recorded /\ builds'[g].gaps = builds[g].gaps
        /\ builds'[prog.gen].status = "retired" /\ Known(builds'[prog.gen]) = {}
        /\ \A h \in Gens \ {g, prog.gen} :
              builds'[h] = builds[h] /\ builds[h].status \in {"none", "retired"}
    BY <1>1, SwappedGenerations
  <1>3. /\ builds[prog.gen].frontier <= builds[g].frontier
        /\ 1 .. builds[prog.gen].frontier \subseteq builds[g].recorded \cup builds[g].gaps
        /\ builds[g].queued = {}
    BY <1>1, CaughtUpHasAll
  <1>4. /\ tip' = tip /\ order' = order /\ chain' = chain /\ beat' = beat /\ manual' = manual
        /\ UNCHANGED historyVars /\ pc = "promote" /\ pc' = "report"
    BY DEF Promote, Goto
  <1>5. /\ prog' \in ProgramType /\ prog'.gen = g /\ prog'.status = prog.status
        /\ prog'.npr = prog.npr /\ prog'.failures = prog.failures
    BY <1>0, <1>1, <1>2 DEF LifecycleTypeOK, ProgramType
  <1>6. /\ run' \in RunType /\ run'.began = run.began
        /\ run'.errors = run.errors /\ run'.absent = run.absent
    BY <1>0, <1>1, <1>2 DEF LifecycleTypeOK, RunType
  <1>7. faults' \in 0 .. MaxFaults
    BY <1>0, <1>1, ConstantFacts DEF Fault, LifecycleTypeOK
  <1>8. LifecycleTypeOK'
    BY <1>0, <1>2, <1>4, <1>5, <1>6, <1>7 DEF LifecycleTypeOK, Phases, historyVars
  <1>9. WithStatus("active")' = {g} /\ Building' = {}
    <2>1. \A h \in Gens : builds'[h].status = "active" <=> h = g
      BY <1>2
    <2>2. \A h \in Gens : builds'[h].status # "building"
      BY <1>2
    <2> QED
      BY <1>2, <2>1, <2>2 DEF WithStatus, Building
  <1>10. ASSUME NEW h \in Gens
         PROVE  LET c == builds'[h]
                IN  /\ c.status \in {"none", "retired"} => Known(c) = {}
                    /\ c.queued \cap (c.recorded \cup c.gaps) = {}
                    /\ c.recorded \cap c.gaps = {}
                    /\ c.status \in {"active", "building"} => 1 .. c.frontier \subseteq Known(c)
                    /\ Known(c) \subseteq 1 .. tip
    <2>1. CASE h = g
      <3>1. builds[g].status = "building"
        BY DEF Building, WithStatus
      <3>2. Known(builds'[g]) = Known(builds[g])
        BY <1>2 DEF Known
      <3> QED
        BY <1>0, <1>2, <2>1, <3>1, <3>2 DEF OneActiveBuild
    <2>2. CASE h = prog.gen
      BY <1>2, <2>2 DEF Known
    <2>3. CASE h \in Gens \ {g, prog.gen}
      BY <1>0, <1>2, <2>3 DEF OneActiveBuild
    <2> QED
      BY <2>1, <2>2, <2>3
  <1>11. OneActiveBuild'
    BY <1>4, <1>5, <1>9, <1>10 DEF OneActiveBuild, Known
  <1>12. OrderInv'
    <2>1. \A h \in Gens : builds'[h].status = "none" => builds'[h] = builds[h]
      BY <1>2
    <2> QED
      BY <1>0, <1>2, <1>4, <2>1 DEF OrderInv, Discovered
  <1>13. RunInv'
    <2>1. Current' = {g} /\ g \in Current
      BY <1>9 DEF Current
    <2>2. run.began <= tip
      BY <1>0 DEF RunInv
    <2>3. ~run.errors /\ ~run.absent => run.began <= builds'[g].frontier
      BY <1>0, <1>2, <1>4, <2>1 DEF RunInv, AfterDiscovery
    <2>4. builds'[prog'.gen].queued = {}
      BY <1>2, <1>3, <1>5
    <2> QED
      BY <1>4, <1>6, <2>1, <2>2, <2>3, <2>4 DEF RunInv, BeforeDiscovery, AfterDiscovery, InRun
  <1>14. ReportInv'
    <2>1. okTip \in Nat /\ builds[prog.gen].frontier \in Nat /\ builds[g].frontier \in Nat
      BY <1>0, <1>2, TypeFacts DEF LifecycleTypeOK
    <2>2. prog.status = "ok" => okTip <= builds[g].frontier
                                /\ 1 .. okTip \subseteq builds[g].recorded \cup builds[g].gaps
      BY <1>0, <1>3, <2>1 DEF ReportInv
    <2> QED
      BY <1>0, <1>2, <1>4, <1>5, <2>2 DEF ReportInv, OkRunIsComplete, historyVars
  <1> QED
    BY <1>8, <1>11, <1>12, <1>13, <1>14 DEF IInv

-----------------------------------------------------------------------------
(* The report                                                              *)

(* An empty backlog is an empty queue.                                     *)
LEMMA PendingIsZero ==
  ASSUME LifecycleTypeOK
  PROVE  Pending \in Nat /\ (Pending = 0 => builds[run.gen].queued = {})
  <1>1. builds[run.gen].queued \subseteq 1 .. MaxSig
    BY TypeFacts DEF BuildType, Sigs
  <1>2. IsFiniteSet(builds[run.gen].queued)
    <2>1. IsFiniteSet(1 .. MaxSig)
      BY ConstantFacts, FS_Interval
    <2> QED
      BY <1>1, <2>1, FS_Subset
  <1> QED
    BY <1>2, FS_CardinalityType, FS_EmptySet DEF Pending

(* The status is one of four, and the two counters follow their reasons.   *)
LEMMA StatusFacts ==
  ASSUME LifecycleTypeOK, OneActiveBuild
  PROVE  /\ Status \in {"ok", "lagging", "failed", "not_deployed"}
         /\ NoProgressRuns \in 0 .. 3 /\ Failures \in 0 .. 3
         /\ Status = "ok" => ~run.absent /\ ~run.errors /\ builds[run.gen].queued = {}
         /\ NoProgressRuns >= 3 /\ Outcome # "failed" => Status = "failed"
         /\ Outcome = "failed" => Status = "failed" /\ NoProgressRuns = prog.npr
         /\ Outcome # "failed" /\ Idle => NoProgressRuns = Count(prog.npr)
  <1>1. Outcome \in {"ok", "failed", "not_deployed"}
    BY DEF Outcome
  <1>2. Outcome = "ok" => ~run.absent /\ ~run.errors
    BY DEF Outcome
  <1>3. prog.npr \in 0 .. 3 /\ prog.failures \in 0 .. 3
    BY TypeFacts
  <1>4. Count(prog.npr) \in 0 .. 3 /\ Count(prog.failures) \in 0 .. 3
    BY <1>3 DEF Count
  <1>5. NoProgressRuns \in 0 .. 3
    BY <1>3, <1>4 DEF NoProgressRuns
  <1>6. Failures \in 0 .. 3
    BY <1>4 DEF Failures
  <1>7. Idle => Outcome = "ok"
    BY DEF Idle
  <1>8. NoProgressRuns >= 3 /\ Outcome # "failed" => Outcome = "ok"
    BY <1>7 DEF NoProgressRuns
  <1>9. Status \in {"ok", "lagging", "failed", "not_deployed"}
    BY <1>1 DEF Status
  <1>10. Status = "ok" => Outcome = "ok" /\ Pending = 0
    BY DEF Status
  <1>11. NoProgressRuns >= 3 /\ Outcome # "failed" => Status = "failed"
    BY <1>8 DEF Status
  <1>12. Outcome = "failed" => Status = "failed" /\ NoProgressRuns = prog.npr
    BY DEF Status, NoProgressRuns
  <1>13. Outcome # "failed" /\ Idle => NoProgressRuns = Count(prog.npr)
    BY DEF NoProgressRuns
  <1> QED
    BY <1>2, <1>5, <1>6, <1>9, <1>10, <1>11, <1>12, <1>13, PendingIsZero

LEMMA ReportKeeps == IInv /\ Report => IInv'
  <1> SUFFICES ASSUME IInv, Report PROVE IInv'
    OBVIOUS
  <1>0. LifecycleTypeOK /\ OneActiveBuild /\ RunInv /\ OrderInv /\ ReportInv
    BY DEF IInv
  <1>1. /\ builds' = builds /\ order' = order /\ tip' = tip /\ chain' = chain
        /\ manual' = manual /\ beat' = 0 /\ pc = "report" /\ pc' \in {"report", "check"}
    BY DEF Report, Goto
  <1>2. prog' = [prog EXCEPT !.status = Status, !.npr = NoProgressRuns, !.failures = Failures]
    BY DEF Report
  <1>3. /\ Status \in {"ok", "lagging", "failed", "not_deployed"}
        /\ NoProgressRuns \in 0 .. 3 /\ Failures \in 0 .. 3
        /\ Status = "ok" => ~run.absent /\ ~run.errors /\ builds[run.gen].queued = {}
        /\ NoProgressRuns >= 3 /\ Outcome # "failed" => Status = "failed"
        /\ Outcome = "failed" => Status = "failed" /\ NoProgressRuns = prog.npr
        /\ Outcome # "failed" /\ Idle => NoProgressRuns = Count(prog.npr)
    BY <1>0, StatusFacts
  <1>4. /\ prog' \in ProgramType /\ prog'.gen = prog.gen
        /\ prog'.status = Status /\ prog'.npr = NoProgressRuns /\ prog'.failures = Failures
    <2>1. prog \in ProgramType
      BY <1>0 DEF LifecycleTypeOK
    <2> QED
      BY <1>2, <1>3, <2>1 DEF ProgramType
  <1>5. /\ run' \in RunType /\ run'.gen = run.gen /\ run'.began = run.began
        /\ run'.errors = run.errors /\ run'.absent = run.absent
    <2>1. run \in RunType /\ (IF Status = "failed" THEN 1 ELSE 0) \in {0, 1}
      BY <1>0 DEF LifecycleTypeOK
    <2>2. run' = [run EXCEPT !.reported = TRUE, !.exit = IF Status = "failed" THEN 1 ELSE 0]
      BY DEF Report
    <2> QED
      BY <2>1, <2>2 DEF RunType
  <1>6. faults' \in 0 .. MaxFaults
    BY <1>0, ConstantFacts DEF Report, Fault, LifecycleTypeOK
  <1>7. /\ okTip' = IF Status = "ok" THEN run.began ELSE okTip
        /\ failedRuns' = IF Status # "failed" THEN 0
                         ELSE IF run.reported THEN failedRuns ELSE Count(failedRuns)
        /\ idleRuns' = IF Outcome = "failed" THEN idleRuns
                       ELSE IF ~Idle THEN 0
                       ELSE IF run.reported THEN idleRuns ELSE Count(idleRuns)
    BY DEF Report
  <1>8. /\ failedRuns \in 0 .. 3 /\ idleRuns \in 0 .. 3
        /\ prog.failures \in 0 .. 3 /\ prog.npr \in 0 .. 3
        /\ failedRuns <= prog.failures /\ idleRuns <= prog.npr
    BY <1>0, TypeFacts DEF LifecycleTypeOK, ReportInv
  <1>9. failedRuns' \in 0 .. 3 /\ failedRuns' <= Failures
    BY <1>7, <1>8, CountGrows DEF Failures
  <1>10. idleRuns' \in 0 .. 3 /\ idleRuns' <= NoProgressRuns
    <2>1. CASE Outcome = "failed"
      BY <1>3, <1>7, <1>8, <2>1
    <2>2. CASE Outcome # "failed" /\ ~Idle
      BY <1>3, <1>7, <2>2
    <2>3. CASE Outcome # "failed" /\ Idle
      BY <1>3, <1>7, <1>8, <2>3, CountGrows
    <2> QED
      BY <2>1, <2>2, <2>3
  <1>11. LifecycleTypeOK'
    <2>1. okTip' \in 0 .. MaxSig
      BY <1>0, <1>7 DEF LifecycleTypeOK, RunType
    <2>2. beat' \in BeatAges \cup {Missing}
      BY <1>1, ConstantFacts
    <2> QED
      BY <1>0, <1>1, <1>4, <1>5, <1>6, <1>9, <1>10, <2>1, <2>2 DEF LifecycleTypeOK, Phases
  <1>12. OneActiveBuild' /\ OrderInv'
    BY <1>1, <1>4, <1>11, <1>0, TypeFacts, SameGenerations
  <1>13. RunInv'
    BY <1>0, <1>1, <1>4, <1>5
    DEF RunInv, BeforeDiscovery, AfterDiscovery, InRun, Current, WithStatus, Building
  <1>14. Status = "ok" =>
           /\ run.began <= builds[prog.gen].frontier
           /\ 1 .. run.began \subseteq builds[prog.gen].recorded \cup builds[prog.gen].gaps
    <2> SUFFICES ASSUME Status = "ok"
                 PROVE  /\ run.began <= builds[prog.gen].frontier
                        /\ 1 .. run.began \subseteq builds[prog.gen].recorded \cup builds[prog.gen].gaps
      OBVIOUS
    <2>1. /\ prog.gen \in Gens /\ prog.gen \in Current /\ builds[prog.gen].status = "active"
      BY <1>0, ActiveIsCurrent
    <2>2. run.began <= builds[prog.gen].frontier
      BY <1>0, <1>1, <1>3, <2>1 DEF RunInv, AfterDiscovery
    <2>3. builds[prog.gen].queued = {}
      BY <1>0, <1>1, <1>3 DEF RunInv
    <2>4. 1 .. builds[prog.gen].frontier \subseteq builds[prog.gen].recorded \cup builds[prog.gen].gaps
      BY <1>0, <2>1, <2>3 DEF OneActiveBuild, Known
    <2>5. run.began \in Nat /\ builds[prog.gen].frontier \in Nat
      BY <1>0, <2>1, TypeFacts
    <2> QED
      BY <2>2, <2>4, <2>5
  <1>15. ReportInv'
    <2>1. /\ Status = "ok" => okTip' = run.began
          /\ prog'.npr >= 3 => prog'.status = "failed"
      BY <1>3, <1>4, <1>7
    <2> QED
      BY <1>1, <1>4, <1>9, <1>10, <1>14, <2>1 DEF ReportInv, OkRunIsComplete
  <1> QED
    BY <1>11, <1>12, <1>13, <1>15 DEF IInv

-----------------------------------------------------------------------------
(* The theorems                                                            *)

LEMMA InitIInv == Init => IInv
  <1> SUFFICES ASSUME Init PROVE IInv
    OBVIOUS
  <1> USE ConstantFacts
  <1>1. /\ prog = [deploy |-> "unknown", gen |-> 1, status |-> "idle", npr |-> 0, failures |-> 0]
        /\ order = {} /\ tip = 0 /\ pc = "idle" /\ run = NoRun
        /\ okTip = 0 /\ failedRuns = 0 /\ idleRuns = 0
        /\ builds = [g \in Gens |-> IF g = 1 THEN NewBuild("active") ELSE NoBuild]
    BY DEF Init
  <1>2. /\ NoBuild \in BuildType /\ NoBuild.status = "none" /\ NoBuild.frontier = 0
        /\ Known(NoBuild) = {} /\ NoBuild.queued = {}
        /\ NoBuild.recorded = {} /\ NoBuild.gaps = {}
    BY DEF NoBuild, BuildType, Known
  <1>3. /\ NewBuild("active") \in BuildType /\ NewBuild("active").status = "active"
        /\ NewBuild("active").frontier = 0 /\ Known(NewBuild("active")) = {}
    BY NewBuildType
  <1>4. /\ builds \in [Gens -> BuildType]
        /\ builds[1] = NewBuild("active") /\ \A g \in Gens \ {1} : builds[g] = NoBuild
    BY <1>1, <1>2, <1>3
  <1>5. prog \in ProgramType
    BY <1>1 DEF ProgramType
  <1>6. LifecycleTypeOK
    BY <1>1, <1>4, <1>5, NoRunType DEF Init, LifecycleTypeOK, Phases
  <1>7. \A g \in Gens : Known(builds[g]) = {} /\ builds[g].frontier = 0
    BY <1>2, <1>3, <1>4
  <1>8. OneActiveBuild
    <2>1. WithStatus("active") = {1}
      BY <1>2, <1>3, <1>4 DEF WithStatus
    <2>2. Building = {}
      BY <1>2, <1>3, <1>4 DEF Building, WithStatus
    <2>3. \A g \in Gens : builds[g].queued = {} /\ builds[g].recorded = {} /\ builds[g].gaps = {}
      BY <1>7 DEF Known
    <2> QED
      BY <1>1, <1>7, <2>1, <2>2, <2>3 DEF OneActiveBuild
  <1>9. RunInv
    BY <1>1, NoRunType DEF RunInv, BeforeDiscovery, AfterDiscovery, InRun, NoRun
  <1>10. OrderInv
    BY <1>1, <1>3, <1>4, <1>7 DEF OrderInv, Discovered
  <1>11. ReportInv
    BY <1>1, <1>7 DEF ReportInv, OkRunIsComplete
  <1> QED
    BY <1>6, <1>8, <1>9, <1>10, <1>11 DEF IInv

LEMMA NextKeeps == IInv /\ [Next]_vars => IInv'
  <1> SUFFICES ASSUME IInv, [Next]_vars PROVE IInv'
    OBVIOUS
  <1>1. CASE Deploy \/ Close \/ Finalise \/ Tick \/ RunElsewhere
    BY <1>1, EnvironmentKeeps
  <1>2. CASE ScheduledRun \/ RebuildRun \/ Abort \/ StartRefused \/ Heartbeat
    BY <1>2, BeginAndEndKeep
  <1>3. CASE LaneStep
    BY <1>3, DetectKeeps, SnapshotKeeps, DiscoverKeeps, DiscoverFailsKeeps, DrainKeeps,
       RetryGapsKeeps
    DEF LaneStep
  <1>4. CASE StartBuild \/ ReadContext \/ Promote \/ DoNotPromote
    BY <1>4, StartBuildKeeps, ReadContextKeeps, PromoteKeeps, DoNotPromoteKeeps
  <1>5. CASE Report \/ ReportFails \/ Check
    BY <1>5, ReportKeeps, EndOfRunKeeps
  <1>6. CASE UNCHANGED vars
    BY <1>6
    DEF vars, databaseVars, historyVars, IInv, LifecycleTypeOK, OneActiveBuild, RunInv, OrderInv,
        ReportInv, OkRunIsComplete, BeforeDiscovery, AfterDiscovery, InRun, Current, WithStatus,
        Building, Discovered
  <1> QED
    BY <1>1, <1>2, <1>3, <1>4, <1>5, <1>6 DEF Next, RunStep

(* The strengthened invariant holds of every behaviour of the runs.         *)
THEOREM InductiveInvariant == Spec => []IInv
  BY InitIInv, NextKeeps, PTL DEF Spec

(* lk_start_build and lk_promote_build: whatever calls are lost or repeated, *)
(* one generation is active, one at most is building, and no generation      *)
(* loses or counts twice a signature below its frontier.                     *)
THEOREM GenerationsAreConsistent == Spec => []LifecycleInv
  <1>1. IInv => LifecycleInv
    BY DEF IInv, LifecycleInv
  <1> QED
    BY <1>1, InductiveInvariant, PTL

(* lk_report_run: "ok" stands for every transaction that was final when the  *)
(* run began.                                                                *)
THEOREM OkMeansComplete == Spec => []OkRunIsComplete
  <1>1. IInv => OkRunIsComplete
    BY DEF IInv, ReportInv
  <1> QED
    BY <1>1, InductiveInvariant, PTL

(* lk_report_run: three reported runs without progress in any generation,    *)
(* with a queue that is not empty, are a failure.                            *)
THEOREM StalledQueueIsReported == Spec => []StalledQueueFails
  <1>1. IInv => StalledQueueFails
    BY TypeFacts DEF IInv, ReportInv, StalledQueueFails, LifecycleTypeOK
  <1> QED
    BY <1>1, InductiveInvariant, PTL

(* computeFreshness: a live program that failed twice is shown as such.      *)
THEOREM RepeatedFailuresAreShown == Spec => []FailuresAreSeen
  <1>1. IInv => FailuresAreSeen
    <2> SUFFICES ASSUME IInv, failedRuns >= 2, prog.deploy = "live",
                        NEW cron
                 PROVE  State(beat, cron, Programs) \in {"delayed", "stale"}
      BY DEF FailuresAreSeen
    <2>1. prog.failures >= 2
      BY TypeFacts DEF IInv, ReportInv, LifecycleTypeOK
    <2>2. \E p \in Live(Programs) : Failing(p)
      <3> DEFINE p == [key |-> 1, live |-> prog.deploy = "live",
                       complete |-> builds[prog.gen].complete,
                       pending |-> Cardinality(builds[prog.gen].queued),
                       ingested |-> Cardinality(builds[prog.gen].recorded),
                       failures |-> prog.failures, through |-> 0]
      <3>1. p \in Programs
        BY Zenon DEF Programs
      <3>2. p.live = (prog.deploy = "live") /\ p.failures = prog.failures
        BY Zenon
      <3> HIDE DEF p
      <3>3. p \in Live(Programs)
        BY <3>1, <3>2, Zenon DEF Live
      <3> QED
        BY <2>1, <3>2, <3>3 DEF Failing
    <2> QED
      BY <2>2 DEF State
  <1> QED
    BY <1>1, InductiveInvariant, PTL

(* lk_promote_build: what the old generation had discovered is in the new    *)
(* one's ledger or gap list when the dashboard starts to read it.            *)
THEOREM PromotionsKeepDiscoveries == Spec => PromotionKeepsDiscoveries
  <1> DEFINE Kept == \A new \in Gens : prog.gen # new /\ prog'.gen = new =>
                        /\ 1 .. builds[prog.gen].frontier \subseteq builds'[new].recorded \cup builds'[new].gaps
                        /\ builds'[new].queued = {}
  <1>1. IInv /\ [Next]_vars => [Kept]_vars
    <2> SUFFICES ASSUME IInv, Next, NEW new \in Gens, prog.gen # new, prog'.gen = new
                 PROVE  /\ 1 .. builds[prog.gen].frontier
                              \subseteq builds'[new].recorded \cup builds'[new].gaps
                        /\ builds'[new].queued = {}
      OBVIOUS
    <2>0. prog \in ProgramType
      BY DEF IInv, LifecycleTypeOK
    <2>1. Promote
      <3>1. ~(Deploy \/ Close \/ Finalise \/ Tick \/ RunElsewhere \/ ScheduledRun \/ RebuildRun \/ Abort)
        BY DEF Deploy, Close, Finalise, Tick, RunElsewhere, ScheduledRun, RebuildRun, Begin, Abort,
               databaseVars
      <3>2. ~LaneStep
        BY <2>0 DEF LaneStep, Detect, DetectFails, Snapshot, Discover, DiscoverFails, Discovering,
                    Drain, RetryGaps, databaseVars, ProgramType
      <3>3. ~(StartBuild \/ StartRefused \/ ReadContext \/ DoNotPromote \/ ReportFails \/ Check \/ Heartbeat)
        BY DEF StartBuild, StartRefused, ReadContext, DoNotPromote, ReportFails, Check, Heartbeat,
               databaseVars
      <3>4. ~Report
        BY <2>0 DEF Report, ProgramType
      <3> QED
        BY <3>1, <3>2, <3>3, <3>4 DEF Next, RunStep
    <2>2. PICK g \in Building : /\ CaughtUp(g)
                                /\ builds' = Swapped(g)
                                /\ prog' = [prog EXCEPT !.gen = g]
      BY <2>1 DEF Promote
    <2>3. new = g
      BY <2>0, <2>2 DEF ProgramType
    <2>4. /\ builds'[g].queued = builds[g].queued
          /\ builds'[g].recorded = builds[g].recorded /\ builds'[g].gaps = builds[g].gaps
      BY <2>2, SwappedGenerations
    <2> QED
      BY <2>2, <2>3, <2>4, CaughtUpHasAll
  <1> QED
    BY <1>1, InductiveInvariant, PTL DEF Spec, PromotionKeepsDiscoveries
=============================================================================
