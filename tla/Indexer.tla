------------------------------- MODULE Indexer -------------------------------
(***************************************************************************)
(* One program's life under the worker: runs that discover signatures,     *)
(* queue them, drain the queue, retry gaps, reparse and compact, against   *)
(* the event log of EventLog.tla.  Runs are serialised by the workflow's   *)
(* concurrency group.  A run may be killed at any step, may give up a      *)
(* phase with an error, may run out of budget, and repeats a database call *)
(* that was executed although its answer was lost; each of these is a      *)
(* fault, and their number is bounded.  A fetch may always fail.           *)
(*                                                                         *)
(* The chain appears as the newest slot the endpoints serve (tip).  How    *)
(* one discovery pages through two endpoints is abstracted: it returns     *)
(* every served signature from the frontier slot up, or fails.             *)
(***************************************************************************)
EXTENDS EventLog

CONSTANTS
    Text,                (* Text[s]: the place of a signature in text order   *)
    ChunkSize,           (* signatures per lk_enqueue call (1000)             *)
    BatchSize,           (* signatures per lk_pending read (20)               *)
    GapLimit,            (* open gaps retried per run (10)                    *)
    Unstorable,          (* signatures whose rows the database rejects        *)
    LagCrossesMidnight,  (* may a slot be served only after its day ended?    *)
    MaxFaults            (* bound: faults of all runs together                *)

ASSUME IndexerAssumption ==
    /\ Text \in [Sigs -> Nat]
    /\ \A s, t \in Sigs : Text[s] = Text[t] => s = t
    /\ ChunkSize \in Nat \ {0}
    /\ BatchSize \in Nat \ {0}
    /\ GapLimit \in Nat \ {0}
    /\ Unstorable \subseteq Sigs
    /\ LagCrossesMidnight \in BOOLEAN
    /\ MaxFaults \in Nat

VARIABLES
    tip,       (* newest slot the endpoints serve                            *)
    pc,        (* what the current run does next, "idle" between runs        *)
    run,       (* id of the current run                                      *)
    began,     (* day the current run started                                *)
    version,   (* parser version of the current run                          *)
    found,     (* discovered signatures not queued yet                       *)
    final,     (* the arguments of discovery's final lk_enqueue call         *)
    batch,     (* signatures read from the database and still to be fetched  *)
    fetched,   (* signatures of the batch that were fetched and parsed       *)
    faults,    (* faults so far                                              *)
    triedNow,  (* history: queued signatures marked during the current run   *)
    runsTried, (* history: in how many runs each was marked, up to MaxAttempts   *)
    retried    (* history: gaps the worker has tried to repair               *)

workVars == <<found, final, batch, fetched>>
runVars == <<run, began, version>>
historyVars == <<triedNow, runsTried, retried>>
indexerVars == <<vars, tip, pc, runVars, workVars, faults, historyVars>>

Phases == {"idle", "discover", "queue", "read", "fetch", "mark", "isolate",
           "gaps", "retry", "reparse", "compact"}

-----------------------------------------------------------------------------
(* Helpers *)

Visible == {s \in Sigs : Slot[s] <= tip}

(* order by slot, signature *)
Before(s, t) == Slot[s] < Slot[t] \/ (Slot[s] = Slot[t] /\ Text[s] < Text[t])
OlderIn(S, s) == {t \in S : Before(t, s)}
NewerIn(S, s) == {t \in S : Before(s, t)}
OldestOf(S, n) == {s \in S : Cardinality(OlderIn(S, s)) < n}
NewestOf(S, n) == {s \in S : Cardinality(NewerIn(S, s)) < n}
First(S) == CHOOSE s \in S : OlderIn(S, s) = {}

Goto(l) == pc' = l

DropWork ==
    /\ found' = {}
    /\ final' = NoFinal
    /\ batch' = {}
    /\ fetched' = {}

Fault ==
    /\ faults < MaxFaults
    /\ faults' = faults + 1

(* The call was executed, but its answer is lost: the run sends it again. *)
AnswerLost == Fault /\ UNCHANGED <<pc, workVars>>

-----------------------------------------------------------------------------
(* The chain and the clock *)

(* Another slot becomes final. *)
Finalise ==
    /\ \E s \in Sigs :
        /\ OnChain(s)
        /\ Slot[s] > tip
        /\ \A t \in Sigs : Slot[t] > tip => Slot[s] <= Slot[t]
        /\ tip' = Slot[s]
    /\ UNCHANGED <<vars, pc, runVars, workVars, faults, historyVars>>

(* Finality lags the clock by seconds: by the end of a day everything of the *)
(* day before is served, and, unless the lag may cross midnight, everything  *)
(* of the day itself.  The job's timeout (70 minutes) ends a run before it    *)
(* sees a second midnight.                                                   *)
NextDay ==
    /\ \A s \in Sigs :
        Day[s] < today \/ (Day[s] = today /\ ~LagCrossesMidnight) => s \in Visible
    /\ pc = "idle" \/ began = today
    /\ Tick
    /\ UNCHANGED <<tip, pc, runVars, workVars, faults, historyVars>>

-----------------------------------------------------------------------------
(* A run starts, and what ends it or one of its phases early *)

(* Run ids are only compared with lastRun, so an id that no queued signature *)
(* holds is as good as one never used before.                                *)
FreshRuns == {r \in RunIds : \A s \in pending : lastRun[s] # r}

StartRun ==
    /\ pc = "idle"
    /\ FreshRuns # {}
    /\ run' = CHOOSE r \in FreshRuns : TRUE
    /\ began' = today
    /\ version' \in {v \in Versions : version <= v}
    /\ triedNow' = {}
    /\ Goto("discover")
    /\ UNCHANGED <<vars, tip, workVars, faults, runsTried, retried>>

Kill ==
    /\ pc # "idle"
    /\ Fault
    /\ Goto("idle")
    /\ DropWork
    /\ UNCHANGED <<vars, tip, runVars, historyVars>>

(* An error ends the phase it occurs in, not the run. *)
AfterError ==
    CASE pc = "discover"                              -> {"read", "compact"}
      [] pc = "queue"                                 -> {"read"}
      [] pc \in {"read", "fetch", "mark", "isolate"}   -> {"gaps"}
      [] pc \in {"gaps", "retry"}                      -> {"reparse"}
      [] pc = "reparse"                                -> {"compact"}
      [] pc = "compact"                                -> {"idle"}

PhaseFails ==
    /\ pc # "idle"
    /\ Fault
    /\ pc' \in AfterError
    /\ DropWork
    /\ UNCHANGED <<vars, tip, runVars, historyVars>>

OutOfBudget ==
    /\ pc \in {"read", "gaps", "reparse"}
    /\ Fault
    /\ Goto("compact")
    /\ UNCHANGED <<vars, tip, runVars, workVars, historyVars>>

-----------------------------------------------------------------------------
(* discover: everything served from the frontier slot up, then chunks of it, *)
(* newest first, and the frontier in a call of its own at the very end.      *)

Discover ==
    /\ pc = "discover"
    /\ LET seen == {s \in Visible : Slot[s] >= frontier}
           top  == {s \in seen : \A t \in seen : Slot[t] <= Slot[s]}
       IN  /\ frontier # 0 => seen # {}
           /\ found' = seen
           /\ final' = [slot |-> IF seen = {} THEN 0 ELSE Slot[First(top)],
                        at |-> today, end |-> frontier = 0]
    /\ Goto("queue")
    /\ UNCHANGED <<vars, tip, runVars, batch, fetched, faults, historyVars>>

(* Seeded fault: the frontier moves with every chunk.                       *)
FinalInEveryChunk == final

ChunkFinal == NoFinal

QueueChunk ==
    /\ pc = "queue"
    /\ found # {}
    /\ LET chunk == NewestOf(found, ChunkSize)
       IN  /\ Enqueue(chunk, ChunkFinal)
           /\ \/ /\ found' = found \ chunk
                 /\ UNCHANGED <<pc, final, batch, fetched, faults>>
              \/ AnswerLost
    /\ UNCHANGED <<tip, runVars, historyVars>>

(* Seeded fault: discovered_at taken after paging.                          *)
FinalAtTheEnd == [final EXCEPT !.at = today]

FinalCall == final

QueueFinal ==
    /\ pc = "queue"
    /\ found = {}
    /\ Enqueue({}, FinalCall)
    /\ \/ Goto("read") /\ DropWork /\ UNCHANGED faults
       \/ AnswerLost
    /\ UNCHANGED <<tip, runVars, historyVars>>

-----------------------------------------------------------------------------
(* ingestBatch: the oldest queued signatures not tried by this run are       *)
(* fetched one by one; a failed fetch is marked at once, the others are      *)
(* ingested together.                                                        *)

TakeBatch ==
    /\ pc = "read"
    /\ LET open == {s \in pending : lastRun[s] # run}
       IN  /\ batch' = OldestOf(open, BatchSize)
           /\ Goto(IF open = {} THEN "gaps" ELSE "fetch")
    /\ UNCHANGED <<vars, tip, runVars, found, final, fetched, faults, historyVars>>

(* fetchTransaction of the oldest signature of the batch *)
Fetch ==
    /\ pc = "fetch"
    /\ batch # {}
    /\ LET s == First(batch)
       IN  \/ /\ batch' = batch \ {s}
              /\ fetched' = fetched \cup {s}
              /\ UNCHANGED pc
           \/ Goto("mark") /\ UNCHANGED <<batch, fetched>>
    /\ UNCHANGED <<vars, tip, runVars, found, final, faults, historyVars>>

(* The signature being marked: one that could not be fetched, or, once the   *)
(* batch is fetched, one whose rows were rejected.                           *)
Marked == IF batch # {} THEN First(batch) ELSE First(fetched)

Mark ==
    /\ pc = "mark"
    /\ LET s == Marked
       IN  /\ IF s \in pending
              THEN /\ MarkAttempt(s, run)
                   /\ triedNow' = triedNow \cup {s}
                   /\ runsTried' = [runsTried EXCEPT
                        ![s] = IF s \in triedNow \/ @ = MaxAttempts THEN @ ELSE @ + 1]
              ELSE UNCHANGED <<vars, triedNow, runsTried>>
           /\ \/ /\ Goto(IF batch # {} THEN "fetch" ELSE "isolate")
                 /\ batch' = batch \ {s}
                 /\ fetched' = fetched \ {s}
                 /\ UNCHANGED <<found, final, faults>>
              \/ AnswerLost
    /\ UNCHANGED <<tip, runVars, retried>>

(* ingestIsolating, first the whole batch ... *)
IngestFetched ==
    /\ pc = "fetch"
    /\ batch = {}
    /\ fetched \cap Unstorable = {}
    /\ \/ /\ fetched # {}
          /\ Ingest(fetched, version, FALSE)
          /\ \/ Goto("read") /\ DropWork /\ UNCHANGED faults
             \/ AnswerLost
       \/ /\ fetched = {}
          /\ Goto("read")
          /\ UNCHANGED <<vars, workVars, faults>>
    /\ UNCHANGED <<tip, runVars, historyVars>>

(* ... then, when the database rejects its data, one signature at a time. *)
BatchRejected ==
    /\ pc = "fetch"
    /\ batch = {}
    /\ fetched \cap Unstorable # {}
    /\ Goto("isolate")
    /\ UNCHANGED <<vars, tip, runVars, workVars, faults, historyVars>>

IngestAlone ==
    /\ pc = "isolate"
    /\ fetched # {}
    /\ First(fetched) \notin Unstorable
    /\ Ingest({First(fetched)}, version, FALSE)
    /\ \/ /\ fetched' = fetched \ {First(fetched)}
          /\ UNCHANGED <<pc, found, final, batch, faults>>
       \/ AnswerLost
    /\ UNCHANGED <<tip, runVars, historyVars>>

RejectAlone ==
    /\ pc = "isolate"
    /\ \/ fetched = {} /\ Goto("read")
       \/ fetched # {} /\ First(fetched) \in Unstorable /\ Goto("mark")
    /\ UNCHANGED <<vars, tip, runVars, workVars, faults, historyVars>>

-----------------------------------------------------------------------------
(* retryGaps: the oldest open gaps of unsealed days, one by one.  A retry    *)
(* that fails only counts an attempt on the gap.                             *)

TakeGaps ==
    /\ pc = "gaps"
    /\ batch' = OldestOf({s \in Sigs : gapState[s] = "open" /\ Day[s] \notin sealed},
                         GapLimit)
    /\ Goto("retry")
    /\ UNCHANGED <<vars, tip, runVars, found, final, fetched, faults, historyVars>>

(* Seeded fault: a gap repair that replaces nothing.                        *)
RepairKeeping(s) == Ingest({s}, version, FALSE)

Repair(s) == Ingest({s}, version, TRUE)

RetryGap ==
    /\ pc = "retry"
    /\ batch # {}
    /\ LET s == First(batch)
       IN  /\ \/ s \notin Unstorable /\ Repair(s)
              \/ UNCHANGED vars
           /\ retried' = retried \cup {s}
           /\ \/ /\ batch' = batch \ {s}
                 /\ UNCHANGED <<pc, found, final, fetched, faults>>
              \/ AnswerLost
    /\ UNCHANGED <<tip, runVars, triedNow, runsTried>>

GapsDone ==
    /\ pc = "retry"
    /\ batch = {}
    /\ Goto("reparse")
    /\ UNCHANGED <<vars, tip, runVars, workVars, faults, historyVars>>

-----------------------------------------------------------------------------
(* reparse (in mode "reparse" only): batches of signatures that have rows of *)
(* an older parser version on an unsealed day, while all of them succeed.    *)

Candidates ==
    OldestOf({r.sig : r \in {q \in events : /\ q.pv \in 1..version - 1
                                            /\ Day[q.sig] \notin sealed}},
             BatchSize)

Reparse ==
    /\ pc = "reparse"
    /\ \E F \in SUBSET (Candidates \ Unstorable) :
        /\ F # {}
        /\ Ingest(F, version, TRUE)
        /\ Goto(IF F = Candidates THEN "reparse" ELSE "compact")
    /\ UNCHANGED <<tip, runVars, workVars, faults, historyVars>>

ReparseDone ==
    /\ pc = "reparse"
    /\ Goto("compact")
    /\ UNCHANGED <<vars, tip, runVars, workVars, faults, historyVars>>

-----------------------------------------------------------------------------
CompactAndEnd ==
    /\ pc = "compact"
    /\ Compact
    /\ \/ Goto("idle") /\ UNCHANGED <<workVars, faults>>
       \/ AnswerLost
    /\ UNCHANGED <<tip, runVars, historyVars>>

-----------------------------------------------------------------------------
IndexerInit ==
    /\ Init
    /\ tip = 0
    /\ pc = "idle"
    /\ run = NoRun
    /\ began = 1
    /\ version = 0
    /\ found = {} /\ final = NoFinal /\ batch = {} /\ fetched = {}
    /\ faults = 0
    /\ triedNow = {}
    /\ runsTried = [s \in Sigs |-> 0]
    /\ retried = {}

(* The steps of a run that no fault stops. *)
WorkerStep ==
    \/ Discover \/ QueueChunk \/ QueueFinal
    \/ TakeBatch \/ Fetch \/ Mark
    \/ IngestFetched \/ BatchRejected \/ IngestAlone \/ RejectAlone
    \/ TakeGaps \/ RetryGap \/ GapsDone
    \/ Reparse \/ ReparseDone
    \/ CompactAndEnd

IndexerNext ==
    \/ Finalise
    \/ NextDay
    \/ StartRun
    \/ Kill
    \/ PhaseFails
    \/ OutOfBudget
    \/ WorkerStep

IndexerSpec == IndexerInit /\ [][IndexerNext]_indexerVars

-----------------------------------------------------------------------------
(* Properties *)

(* The worker's variables hold values of their types, and a batch is fetched *)
(* only in the phases that drain it.                                         *)
IndexerTypeOK ==
    /\ TypeOK
    /\ tip \in Nat
    /\ pc \in Phases
    /\ run \in RunIds \cup {NoRun}
    /\ began \in Days
    /\ version \in Versions \cup {0}
    /\ found \subseteq Sigs /\ batch \subseteq Sigs /\ fetched \subseteq Sigs
    /\ final \in Finals \cup {NoFinal}
    /\ faults \in 0..MaxFaults
    /\ triedNow \subseteq Sigs /\ retried \subseteq Sigs
    /\ runsTried \in [Sigs -> 0..MaxAttempts]
    /\ batch \cap fetched = {}
    /\ pc \in {"idle", "discover"} => found \cup batch \cup fetched = {}

(* Invariant D of lk.builds: every signature below the frontier is in the    *)
(* queue or in a rollup, wherever a discovery was killed, failed or repeated *)
(* a call between its first chunk and its final call.                        *)
InvariantD ==
    \A s \in Sigs : Slot[s] < frontier => s \in pending \cup Recorded

(* A day is final only when every signature the chain put on it is in its    *)
(* rollup: lk.horizon's five bounds together leave nothing behind.           *)
SealedDaysComplete ==
    \A s \in Sigs : Day[s] \in compacted => s \in Recorded

(* "5 failed runs: the signature becomes an explicit gap": a signature is    *)
(* given up only after attempts in MaxAttempts different runs, however often *)
(* an lk_mark_attempt was sent again inside one run.                         *)
GapAfterSeparateRuns ==
    \A s \in Sigs : gapState[s] # "none" => runsTried[s] >= MaxAttempts

(* A run, with its kills, errors and repeated calls, is one of the           *)
(* behaviours of overlapping callers that EventLog.tla allows, so what holds *)
(* there for every caller holds for the worker.                              *)
ImplementsEventLog == Spec

(* lk.complete_through: the dashboard's "data complete through".             *)
CompleteThrough ==
    IF pending = {} THEN discoveredAt
                    ELSE CHOOSE d \in {Day[s] : s \in pending} :
                            \A s \in pending : d <= Day[s]

(* "Every transaction of every deployed program up to this time has been     *)
(* ingested": every signature of a day before complete_through is in a       *)
(* rollup, as its rows or as a gap, at every moment a reader may look.       *)
CompleteThroughHolds ==
    \A s \in Sigs : Day[s] < CompleteThrough => s \in Recorded

(* Once faults have stopped, every signature the endpoints serve ends up in  *)
(* a rollup, with its rows or as a gap: no signature that cannot be fetched  *)
(* or stored blocks those behind it.                                         *)
EventuallyRecorded ==
    \A s \in Sigs : s \in Visible ~> s \in Recorded

(* "... an explicit gap (counted as unparsed, listed in health, retried       *)
(* later)": an open gap is retried by some later run.                        *)
GapEventuallyRetried ==
    \A s \in Sigs : gapState[s] = "open" ~> s \in retried

(* The cron starts a run after every run, and a run that no fault stops      *)
(* takes its steps.                                                          *)
FairIndexerSpec ==
    IndexerSpec /\ WF_indexerVars(StartRun) /\ WF_indexerVars(WorkerStep)
=============================================================================
