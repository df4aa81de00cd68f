---------------------------- MODULE Indexer_proofs ----------------------------
(***************************************************************************)
(* Proofs about the worker for every feed, every chunk and batch size and  *)
(* any number of faults: a run, with its kills, errors and repeated calls, *)
(* is a behaviour of the event log, and what only a worker whose runs are  *)
(* serialised can promise on top of it: complete days, gaps that are the   *)
(* outcome of separate runs, rows of one parse.                            *)
(***************************************************************************)
EXTENDS Indexer, EventLog_proofs, WellFoundedInduction

-----------------------------------------------------------------------------
(* Picking the oldest: the text order decides between equal slots            *)

LEMMA SigTypes ==
    ASSUME NEW s \in Sigs
    PROVE  Slot[s] \in Nat /\ Text[s] \in Nat /\ Day[s] \in Days /\ Day[s] \in Nat
BY SigsAssumption, IndexerAssumption, LimitsAssumption DEF Days

LEMMA BeforeIsAnOrder ==
    /\ \A s \in Sigs : ~Before(s, s)
    /\ \A s, t, u \in Sigs : Before(s, t) /\ Before(t, u) => Before(s, u)
    /\ \A s, t \in Sigs : s # t => Before(s, t) \/ Before(t, s)
<1>1. \A s \in Sigs : ~Before(s, s)
  BY SigTypes DEF Before
<1>2. ASSUME NEW s \in Sigs, NEW t \in Sigs, NEW u \in Sigs,
             Before(s, t), Before(t, u)
      PROVE  Before(s, u)
  BY <1>2, SigTypes DEF Before
<1>3. ASSUME NEW s \in Sigs, NEW t \in Sigs, s # t
      PROVE  Before(s, t) \/ Before(t, s)
  BY <1>3, SigTypes, IndexerAssumption DEF Before
<1> QED
  BY <1>1, <1>2, <1>3

(* A set of signatures has an oldest one: of the finite sets of signatures   *)
(* before each of them, one holds none of the others.                        *)
LEMMA OldestExists ==
    ASSUME NEW S \in SUBSET Sigs, S # {}
    PROVE  \E s \in S : OlderIn(S, s) = {}
<1> DEFINE T == {OlderIn(S, s) : s \in S}
<1>1. IsFiniteSet(S)
  BY SigsAssumption, FS_Subset
<1>2. IsWellFoundedOn(StrictSubsetOrdering(S), SUBSET S)
  <2>1. FiniteSubsetsOf(S) = SUBSET S
    BY <1>1, FS_FiniteSubsetsOfFinite
  <2> QED
    BY <2>1, FS_StrictSubsetOrderingWellFounded
<1>3. PICK U \in T : \A V \in T : <<V, U>> \notin StrictSubsetOrdering(S)
  <2>1. T \subseteq SUBSET S
    BY DEF OlderIn
  <2>2. T # {}
    OBVIOUS
  <2> HIDE DEF T
  <2> QED
    BY <1>2, <2>1, <2>2, WFMin
<1>4. PICK s \in S : U = OlderIn(S, s)
  OBVIOUS
<1>5. ASSUME NEW t \in OlderIn(S, s) PROVE FALSE
  <2>1. t \in S /\ Before(t, s)
    BY <1>5 DEF OlderIn
  <2>2. OlderIn(S, t) \subseteq OlderIn(S, s) /\ t \notin OlderIn(S, t)
    BY <2>1, BeforeIsAnOrder DEF OlderIn
  <2>3. <<OlderIn(S, t), U>> \in StrictSubsetOrdering(S)
    BY <1>4, <1>5, <2>2 DEF StrictSubsetOrdering, OlderIn
  <2> QED
    BY <1>3, <2>1, <2>3
<1> QED
  BY <1>5

(* First picks the oldest member.                                            *)
LEMMA FirstIsMember ==
    ASSUME NEW S \in SUBSET Sigs, S # {}
    PROVE  First(S) \in S
BY OldestExists DEF First

(* A discovery that finds something finds a newest slot.                     *)
LEMMA NewestSlotExists ==
    ASSUME NEW S \in SUBSET Sigs, S # {}
    PROVE  \E s \in S : \A t \in S : Slot[t] <= Slot[s]
<1> DEFINE Above(s) == {t \in S : Slot[s] < Slot[t]}
           T == {Above(s) : s \in S}
<1>1. IsFiniteSet(S)
  BY SigsAssumption, FS_Subset
<1>2. IsWellFoundedOn(StrictSubsetOrdering(S), SUBSET S)
  <2>1. FiniteSubsetsOf(S) = SUBSET S
    BY <1>1, FS_FiniteSubsetsOfFinite
  <2> QED
    BY <2>1, FS_StrictSubsetOrderingWellFounded
<1>3. PICK U \in T : \A V \in T : <<V, U>> \notin StrictSubsetOrdering(S)
  <2>1. T \subseteq SUBSET S
    OBVIOUS
  <2>2. T # {}
    OBVIOUS
  <2> HIDE DEF T
  <2> QED
    BY <1>2, <2>1, <2>2, WFMin
<1>4. PICK s \in S : U = Above(s)
  OBVIOUS
<1>5. ASSUME NEW t \in S, ~(Slot[t] <= Slot[s]) PROVE FALSE
  <2>1. Slot[s] < Slot[t] /\ Slot[s] \in Nat /\ Slot[t] \in Nat
    BY <1>5, SigTypes
  <2>2. Above(t) \subseteq Above(s) /\ t \in Above(s) /\ t \notin Above(t)
    <3>1. ASSUME NEW u \in Above(t) PROVE u \in Above(s)
      <4>1. u \in Sigs /\ Slot[u] \in Nat
        BY SigTypes
      <4> QED
        BY <2>1, <4>1
    <3> QED
      BY <2>1, <3>1
  <2>3. <<Above(t), U>> \in StrictSubsetOrdering(S)
    BY <1>4, <2>2 DEF StrictSubsetOrdering
  <2> QED
    BY <1>3, <2>3
<1> QED
  BY <1>5

LEMMA OldestNewestSubset ==
    \A S, n : OldestOf(S, n) \subseteq S /\ NewestOf(S, n) \subseteq S
BY DEF OldestOf, NewestOf

-----------------------------------------------------------------------------
(* What any callers of the log keep beyond Inv                               *)

(* The queue and the rollups together hold no signature that the queue did   *)
(* not accept.                                                               *)
KnownIsKept == pending \cup Recorded \subseteq known

OpenGapsRecorded == \A s \in Sigs : gapState[s] = "open" => s \in Recorded

(* A final day with a rollup is sealed.                                      *)
RollupsSealed == \A d \in compacted : daily[d] # {} => d \in sealed

LogInv == Inv /\ KnownIsKept /\ OpenGapsRecorded /\ RollupsSealed

(* lk_ingest records exactly signatures of its call, and no rollup loses one. *)
LEMMA IngestEffect ==
    ASSUME Inv, NEW S \in SUBSET Sigs, NEW v \in Versions, NEW replace \in BOOLEAN,
           Ingest(S, v, replace)
    PROVE  /\ Recorded \subseteq Recorded' /\ Recorded' \subseteq Recorded \cup S
           /\ \A d \in compacted : daily'[d] = daily[d]
           /\ pending' = pending \ S
           /\ UNCHANGED <<known, compacted, sealed>>
<1> DEFINE kept == Kept(S, replace)
           inserted == Inserted(ParseAll(S, v), kept)
<1>1. /\ events' = kept \cup inserted
      /\ RecomputeDays(DaysOf(inserted \cup (events \ kept)), events')
      /\ pending' = pending \ S
      /\ UNCHANGED <<known, compacted, sealed>>
  BY DEF Ingest, Dequeue, retentionVars
<1>2. kept \subseteq events
  BY DEF Kept
<1>3. inserted \subseteq Row /\ SigsOf(inserted) \subseteq S
  BY InsertedRows DEF SigsOf
<1>4. SigsOf(events \ kept) \subseteq SigsOf(inserted)
  <2> SUFFICES ASSUME NEW r \in events \ kept PROVE r.sig \in SigsOf(inserted)
    BY DEF SigsOf
  <2>1. r.sig \in S /\ \A q \in kept : q.sig # r.sig
    BY DEF Kept
  <2> QED
    BY <1>2, <2>1, NewRowsInserted DEF Inv
<1> HIDE DEF inserted, kept
<1>5. Recorded' = Recorded \cup SigsOf(inserted)
  BY <1>1, <1>2, <1>3, <1>4, LedgerWrite DEF Inv
<1>6. \A d \in compacted : daily'[d] = daily[d]
  BY <1>1 DEF RecomputeDays, Rewritable, Recomputed, Inv, TypeOK
<1> QED
  BY <1>1, <1>3, <1>5, <1>6

(* An attempt that exhausts the limit records its signature and no other.    *)
LEMMA ConvertEffect ==
    ASSUME Inv, NEW s \in Sigs, NEW r \in RunIds, ConvertToGap(s, r)
    PROVE  /\ Recorded' = Recorded \cup {s}
           /\ \A d \in compacted : daily'[d] = daily[d]
           /\ s \in pending
           /\ events' = events \cup {GapRow(s)}
           /\ s \notin Ledgered
           /\ pending' = pending \ {s}
           /\ UNCHANGED <<known, compacted, sealed>>
<1>1. /\ events' = events \cup Inserted({GapRow(s)}, events)
      /\ RecomputeDays({Day[s]}, events')
      /\ pending' = pending \ {s}
      /\ UNCHANGED <<known, compacted, sealed>>
      /\ s \in pending
  BY DEF ConvertToGap, Dequeue, retentionVars
<1>2. s \notin Ledgered
  BY <1>1 DEF Inv, QueueLedgerDisjoint
<1>3. events' = events \cup {GapRow(s)}
  BY <1>1, <1>2, GapRowIsRow DEF Inserted, SameKey, Ledgered, SigsOf
<1> DEFINE I == {GapRow(s)}
<1>4. I \subseteq Row /\ SigsOf(I) = {s} /\ DaysOf(I) = {Day[s]}
  BY GapRowIsRow DEF SigsOf, DaysOf
<1>5. I \cup (events \ events) = I /\ SigsOf(events \ events) = {}
  BY DEF SigsOf
<1>6. events' = events \cup I
  BY <1>3
<1> HIDE DEF I
<1>7. Recorded' = Recorded \cup SigsOf(I)
  <2>1. RecomputeDays(DaysOf(I \cup (events \ events)), events')
    BY <1>1, <1>4, <1>5
  <2>2. SigsOf(events \ events) \subseteq SigsOf(I) /\ events \in SUBSET events /\ I \in SUBSET Row
    BY <1>4, <1>5
  <2>3. TypeOK /\ DailyIsRecompute /\ RollupRowsOnTheirDay
    BY DEF Inv
  <2> QED
    BY <1>1, <1>6, <2>1, <2>2, <2>3, LedgerWrite
<1>8. \A d \in compacted : daily'[d] = daily[d]
  BY <1>1 DEF RecomputeDays, Rewritable, Recomputed, Inv, TypeOK
<1> QED
  BY <1>1, <1>2, <1>3, <1>4, <1>7, <1>8

LEMMA LogInvInit == Init => LogInv
<1> SUFFICES ASSUME Init PROVE LogInv
  OBVIOUS
<1>1. Recorded = {}
  BY DEF Init, Recorded, SigsOf
<1> QED
  BY <1>1, InvInit DEF Init, LogInv, KnownIsKept, OpenGapsRecorded, RollupsSealed

LEMMA LogIngest ==
    ASSUME LogInv, NEW S \in SUBSET known, NEW v \in Versions, NEW replace \in BOOLEAN,
           Ingest(S, v, replace)
    PROVE  KnownIsKept' /\ OpenGapsRecorded' /\ RollupsSealed'
<1> USE DEF LogInv
<1>1. S \in SUBSET Sigs
  BY DEF Inv, TypeOK
<1>2. /\ Recorded \subseteq Recorded' /\ Recorded' \subseteq Recorded \cup S
      /\ \A d \in compacted : daily'[d] = daily[d]
      /\ pending' = pending \ S
      /\ UNCHANGED <<known, compacted, sealed>>
  BY <1>1, IngestEffect
<1>3. \A s \in Sigs : gapState'[s] = "open" => gapState[s] = "open"
  BY DEF Ingest
<1> QED
  BY <1>2, <1>3 DEF KnownIsKept, OpenGapsRecorded, RollupsSealed

LEMMA LogInvStep == LogInv /\ [Next]_vars => LogInv'
<1> SUFFICES ASSUME LogInv, [Next]_vars PROVE LogInv'
  OBVIOUS
<1> DEFINE Rest == KnownIsKept /\ OpenGapsRecorded /\ RollupsSealed
<1>1. Inv /\ Inv' /\ KnownIsKept /\ OpenGapsRecorded /\ RollupsSealed
  BY InvStep DEF LogInv
<1> SUFFICES Rest'
  BY <1>1 DEF LogInv
<1>2. Ledgered \subseteq known
  BY <1>1, RecordedLedgered DEF Inv, KnownIsKept
<1>3. ASSUME UNCHANGED <<daily, gapState, compacted, sealed>>,
             pending' \subseteq known', known \subseteq known'
      PROVE  Rest'
  <2>1. Recorded' = Recorded
    BY <1>3 DEF Recorded, SigsOf
  <2> QED
    BY <1>1, <1>3, <2>1 DEF KnownIsKept, OpenGapsRecorded, RollupsSealed
<1>4. ASSUME NEW S, NEW f, Enqueue(S, f)
      PROVE  Rest'
  BY <1>1, <1>3, <1>4 DEF Enqueue, retentionVars, gapVars, KnownIsKept
<1>5. CASE EnqueueChunk
  BY <1>4, <1>5 DEF EnqueueChunk
<1>6. CASE EnqueueFinal
  BY <1>4, <1>6 DEF EnqueueFinal
<1>7. CASE IngestBatch
  BY <1>7, LogIngest DEF IngestBatch
<1>8. CASE ReplaceBatch
  BY <1>2, <1>8, LogIngest DEF ReplaceBatch
<1>9. ASSUME NEW s \in Sigs, NEW r \in RunIds, MarkAttempt(s, r)
      PROVE  Rest'
  <2>1. CASE CountAttempt(s, r)
    BY <1>1, <1>3, <2>1 DEF CountAttempt, retentionVars, gapVars, KnownIsKept
  <2>2. CASE ConvertToGap(s, r)
    <3>1. /\ Recorded' = Recorded \cup {s}
          /\ \A d \in compacted : daily'[d] = daily[d]
          /\ s \in pending
          /\ pending' = pending \ {s}
          /\ UNCHANGED <<known, compacted, sealed>>
      BY <1>1, <2>2, ConvertEffect
    <3>2. gapState' = [gapState EXCEPT ![s] = "open"]
      BY <2>2 DEF ConvertToGap
    <3>3. \A t \in Sigs : gapState'[t] = "open" => t = s \/ gapState[t] = "open"
      BY <1>1, <3>2 DEF Inv, TypeOK
    <3> QED
      BY <1>1, <3>1, <3>3 DEF KnownIsKept, OpenGapsRecorded, RollupsSealed
  <2> QED
    BY <1>9, <2>1, <2>2 DEF MarkAttempt
<1>10. CASE Compact
  <2>1. /\ UNCHANGED <<pending, daily, gapState, known>>
        /\ \A d \in compacted' : d \in compacted \/ d \in {e \in Days : BeforeHorizon(e)}
        /\ sealed' = sealed \cup {d \in {e \in Days : BeforeHorizon(e)} : daily[d] # {}}
    BY <1>10 DEF Compact, queueVars, gapVars
  <2>2. Recorded' = Recorded
    BY <2>1 DEF Recorded, SigsOf
  <2>3. RollupsSealed'
    BY <1>1, <2>1 DEF RollupsSealed
  <2> QED
    BY <1>1, <2>1, <2>2, <2>3 DEF KnownIsKept, OpenGapsRecorded
<1>11. CASE Tick
  BY <1>1, <1>3, <1>11 DEF Tick, queueVars, retentionVars, gapVars, KnownIsKept
<1>12. CASE UNCHANGED vars
  BY <1>1, <1>3, <1>12 DEF vars, queueVars, retentionVars, gapVars, KnownIsKept
<1> QED
  BY <1>1, <1>5, <1>6, <1>7, <1>8, <1>9, <1>10, <1>11, <1>12 DEF Next

(* An open gap that lk_open_gaps offers, one of an unsealed day, is in the    *)
(* ledger.                                                                   *)
LEMMA OfferedGapIsLedgered ==
    ASSUME LogInv, NEW s \in Sigs, gapState[s] = "open", Day[s] \notin sealed
    PROVE  s \in Ledgered
<1>1. s \in Recorded
  BY DEF LogInv, OpenGapsRecorded
<1>2. PICK d \in Days : \E r \in daily[d] : r.sig = s
  BY <1>1 DEF Recorded, SigsOf
<1>3. d = Day[s] /\ daily[d] # {}
  BY <1>2 DEF LogInv, Inv, RollupRowsOnTheirDay
<1>4. Day[s] \notin compacted
  BY <1>3 DEF LogInv, RollupsSealed
<1> QED
  BY <1>1, <1>4, RecordedLedgered DEF LogInv, Inv

-----------------------------------------------------------------------------
(* What a run holds between its steps                                        *)

(* What a run holds in its hands, phase by phase.                            *)
HandsMatchPhase ==
    /\ pc # "idle" => run \in RunIds /\ version \in Versions
    /\ found # {} => pc = "queue"
    /\ batch # {} => pc \in {"fetch", "mark", "retry"}
    /\ fetched # {} => pc \in {"fetch", "mark", "isolate"}
    /\ pc = "mark" => batch \cup fetched # {}

(* Nothing is served, found or queued before it is on the chain.             *)
ServedExists ==
    /\ Visible \cup found \subseteq {s \in Sigs : OnChain(s)}
    /\ pc = "queue" =>
        /\ final \in Finals
        /\ final.at <= today
        /\ \A s \in Sigs : final.slot = Slot[s] => OnChain(s)

(* What a run fetches was queued before; what it retries is in the ledger.   *)
BatchIsKnown ==
    /\ pc \in {"fetch", "mark", "isolate"} => batch \cup fetched \subseteq known
    /\ pc = "retry" => batch \subseteq Ledgered

RunInv == LogInv /\ IndexerTypeOK /\ HandsMatchPhase /\ ServedExists /\ BatchIsKnown

LEMMA LogTypes ==
    ASSUME LogInv
    PROVE  /\ TypeOK /\ Inv
           /\ pending \subseteq Sigs /\ known \subseteq Sigs
           /\ pending \subseteq known
           /\ Ledgered \subseteq Recorded /\ Recorded \subseteq known
           /\ known \subseteq pending \cup Recorded
           /\ today \in Days /\ frontier \in Nat /\ discoveredAt \in 0..LastDay
BY RecordedLedgered DEF LogInv, Inv, TypeOK, KnownIsKept, NothingLost

LEMMA SameLog ==
    ASSUME UNCHANGED vars
    PROVE  /\ UNCHANGED <<pending, attempts, lastRun, events, daily, sealed, compacted>>
           /\ UNCHANGED <<gapState, gapSince, frontier, discoveredAt, today, known>>
           /\ Ledgered' = Ledgered /\ Recorded' = Recorded
BY DEF vars, queueVars, retentionVars, gapVars, discoveryVars, Ledgered, Recorded, SigsOf

(* The signature a run marks is one it holds.                                *)
LEMMA MarkedIsHeld ==
    ASSUME IndexerTypeOK, batch \cup fetched # {}
    PROVE  /\ Marked \in batch \cup fetched /\ Marked \in Sigs
           /\ batch # {} => Marked = First(batch) /\ Marked \in batch
           /\ batch = {} => Marked = First(fetched) /\ Marked \in fetched
BY FirstIsMember DEF Marked, IndexerTypeOK

LEMMA CandidatesLedgered == Candidates \subseteq Ledgered
BY OldestNewestSubset DEF Candidates, Ledgered, SigsOf

-----------------------------------------------------------------------------
(* Every step of a run is a step of the event log                            *)

LEMMA EnqueueIsStep ==
    ASSUME RunInv, NEW S \in SUBSET found, Enqueue(S, NoFinal)
    PROVE  Next
<1>1. S \in SUBSET {s \in Sigs : OnChain(s)}
  BY DEF RunInv, ServedExists
<1> QED
  BY <1>1 DEF Next, EnqueueChunk

LEMMA IngestIsStep ==
    ASSUME RunInv, NEW S, NEW replace \in BOOLEAN, S # {}, pc # "idle",
           IF replace THEN S \subseteq Ledgered ELSE S \subseteq known,
           Ingest(S, version, replace)
    PROVE  Next
<1>1. version \in Versions
  BY DEF RunInv, HandsMatchPhase
<1>2. CASE replace = TRUE
  BY <1>1, <1>2 DEF Next, ReplaceBatch
<1>3. CASE replace = FALSE
  BY <1>1, <1>3 DEF Next, IngestBatch
<1> QED
  BY <1>2, <1>3

LEMMA StepIsLogStep == RunInv /\ [IndexerNext]_indexerVars => [Next]_vars
<1> SUFFICES ASSUME RunInv, [IndexerNext]_indexerVars
             PROVE  Next \/ UNCHANGED vars
  OBVIOUS
<1>0. IndexerTypeOK /\ LogInv /\ HandsMatchPhase
  BY DEF RunInv
<1>1. CASE NextDay
  BY <1>1 DEF NextDay, Next
<1>2. CASE QueueChunk
  <2>1. NewestOf(found, ChunkSize) \in SUBSET found
    BY OldestNewestSubset
  <2> QED
    BY <1>2, <2>1, EnqueueIsStep DEF QueueChunk, ChunkFinal
<1>3. CASE QueueFinal
  BY <1>3 DEF QueueFinal, FinalCall, Next, EnqueueFinal, RunInv, ServedExists
<1>4. CASE Mark
  <2>1. Marked \in Sigs /\ run \in RunIds
    BY <1>0, <1>4, MarkedIsHeld DEF Mark, HandsMatchPhase
  <2> QED
    BY <1>4, <2>1 DEF Mark, Next
<1>5. CASE IngestFetched
  <2>1. fetched \subseteq known /\ pc # "idle"
    BY <1>5 DEF IngestFetched, RunInv, BatchIsKnown
  <2> QED
    BY <1>5, <2>1, IngestIsStep DEF IngestFetched
<1>6. CASE IngestAlone
  <2>1. First(fetched) \in known /\ pc # "idle"
    BY <1>0, <1>6, FirstIsMember DEF IngestAlone, RunInv, BatchIsKnown, IndexerTypeOK
  <2>2. {First(fetched)} \subseteq known /\ {First(fetched)} # {}
    BY <2>1
  <2> QED
    BY <1>6, <2>1, <2>2, IngestIsStep DEF IngestAlone
<1>7. CASE RetryGap
  <2>1. First(batch) \in Ledgered /\ pc # "idle"
    BY <1>0, <1>7, FirstIsMember DEF RetryGap, RunInv, BatchIsKnown, IndexerTypeOK
  <2>2. {First(batch)} \subseteq Ledgered /\ {First(batch)} # {}
    BY <2>1
  <2>3. Repair(First(batch)) => Next
    BY <2>1, <2>2, IngestIsStep DEF Repair
  <2> QED
    BY <1>7, <2>3 DEF RetryGap
<1>8. CASE Reparse
  <2>1. PICK F \in SUBSET (Candidates \ Unstorable) : F # {} /\ Ingest(F, version, TRUE)
    BY <1>8 DEF Reparse
  <2>2. F \subseteq Ledgered /\ pc # "idle"
    BY <1>8, CandidatesLedgered DEF Reparse
  <2> QED
    BY <2>1, <2>2, IngestIsStep
<1>9. CASE CompactAndEnd
  BY <1>9 DEF CompactAndEnd, Next
<1>10. CASE \/ Finalise \/ StartRun \/ Kill \/ PhaseFails \/ OutOfBudget
            \/ Discover \/ TakeBatch \/ Fetch \/ BatchRejected \/ RejectAlone
            \/ TakeGaps \/ GapsDone \/ ReparseDone
  BY <1>10 DEF Finalise, StartRun, Kill, PhaseFails, OutOfBudget, Discover, TakeBatch,
               Fetch, BatchRejected, RejectAlone, TakeGaps, GapsDone, ReparseDone
<1>11. CASE UNCHANGED indexerVars
  BY <1>11 DEF indexerVars
<1> QED
  BY <1>1, <1>2, <1>3, <1>4, <1>5, <1>6, <1>7, <1>8, <1>9, <1>10, <1>11
  DEF IndexerNext, WorkerStep

-----------------------------------------------------------------------------
(* RunInv is inductive                                                       *)

LEMMA RunInvInit == IndexerInit => RunInv
<1> SUFFICES ASSUME IndexerInit PROVE RunInv
  OBVIOUS
<1>1. Init /\ LogInv /\ TypeOK
  BY LogInvInit, TypeInit DEF IndexerInit
<1>2. IndexerTypeOK
  BY <1>1, LimitsAssumption, IndexerAssumption DEF IndexerInit, IndexerTypeOK, Phases, Days
<1>3. Visible = {}
  BY SigsAssumption DEF IndexerInit, Visible
<1> QED
  BY <1>1, <1>2, <1>3
  DEF IndexerInit, RunInv, HandsMatchPhase, ServedExists, BatchIsKnown

(* Time passes and the accepted signatures stay accepted.                    *)
LEMMA LogGrows ==
    ASSUME LogInv, [Next]_vars
    PROVE  known \subseteq known' /\ today <= today' /\ today' \in Days
<1>1. LogInv' /\ today \in Nat
  BY LogInvStep, LogTypes DEF Days
<1>2. today' \in Days
  BY <1>1 DEF LogInv, Inv, TypeOK
<1>3. CASE UNCHANGED vars
  BY <1>1, <1>2, <1>3, SameLog
<1>4. CASE Next
  <2>1. ASSUME NEW S, NEW f, Enqueue(S, f)
        PROVE  known \subseteq known' /\ today' = today
    BY <2>1 DEF Enqueue
  <2>2. ASSUME NEW S, NEW v, NEW replace, Ingest(S, v, replace)
        PROVE  known' = known /\ today' = today
    BY <2>2 DEF Ingest
  <2>3. ASSUME NEW s, NEW r, MarkAttempt(s, r)
        PROVE  known' = known /\ today' = today
    BY <2>3 DEF MarkAttempt, CountAttempt, ConvertToGap
  <2>4. (Compact => known' = known /\ today' = today) /\ (Tick => known' = known /\ today' = today + 1)
    BY DEF Compact, Tick
  <2>5. known \subseteq known' /\ (today' = today \/ today' = today + 1)
    <3>1. CASE EnqueueChunk \/ EnqueueFinal
      BY <2>1, <3>1 DEF EnqueueChunk, EnqueueFinal
    <3>2. CASE IngestBatch \/ ReplaceBatch
      BY <2>2, <3>2 DEF IngestBatch, ReplaceBatch
    <3>3. CASE \E s \in Sigs, r \in RunIds : MarkAttempt(s, r)
      BY <2>3, <3>3
    <3> QED
      BY <1>4, <2>4, <3>1, <3>2, <3>3 DEF Next
  <2> QED
    BY <1>1, <1>2, <2>5
<1> QED
  BY <1>2, <1>3, <1>4

(* lk_ingest never takes a signature out of the ledger.                      *)
LEMMA IngestKeepsLedgered ==
    ASSUME LogInv, NEW S \in SUBSET Sigs, NEW v \in Versions, NEW replace \in BOOLEAN,
           Ingest(S, v, replace)
    PROVE  Ledgered \subseteq Ledgered'
<1> DEFINE kept == Kept(S, replace)
<1>1. events' = kept \cup Inserted(ParseAll(S, v), kept) /\ kept \subseteq events
  BY DEF Ingest, Kept
<1> SUFFICES ASSUME NEW r \in events PROVE r.sig \in SigsOf(events')
  BY DEF Ledgered, SigsOf
<1>2. CASE r \in kept
  BY <1>1, <1>2 DEF SigsOf
<1>3. CASE r \notin kept
  <2>1. r.sig \in S /\ \A q \in kept : q.sig # r.sig
    BY <1>3 DEF Kept
  <2>2. r.sig \in SigsOf(Inserted(ParseAll(S, v), kept))
    BY <1>1, <2>1, NewRowsInserted DEF LogInv, Inv
  <2> QED
    BY <1>1, <2>2 DEF SigsOf
<1> QED
  BY <1>2, <1>3

(* Steps of the worker that leave the database, the chain and what it found  *)
(* alone.                                                                    *)
LEMMA ServedStays ==
    ASSUME RunInv, [Next]_vars, UNCHANGED <<tip, found, final>>,
           pc' = "queue" => pc = "queue"
    PROVE  ServedExists'
<1>1. today <= today' /\ today' \in Nat /\ today \in Nat
  BY LogGrows, LogTypes DEF RunInv, Days
<1>2. \A s \in Sigs : OnChain(s) => OnChain(s)'
  BY <1>1, SigTypes DEF OnChain
<1>3. Visible' = Visible
  BY DEF Visible
<1>4. pc = "queue" => final'.at <= today'
  <2>1. pc = "queue" => final.at \in Nat
    BY DEF RunInv, ServedExists, Finals, Days
  <2> QED
    BY <1>1, <2>1 DEF RunInv, ServedExists
<1> QED
  BY <1>2, <1>3, <1>4 DEF RunInv, ServedExists

(* An error never leads back to a phase that holds work.                     *)
LEMMA PhaseAfterError ==
    ASSUME pc \in Phases, pc # "idle"
    PROVE  AfterError \subseteq {"read", "gaps", "reparse", "compact", "idle"}
<1>1. CASE pc = "discover"
  BY <1>1 DEF AfterError
<1>2. CASE pc = "queue"
  BY <1>2 DEF AfterError
<1>3. CASE pc \in {"read", "fetch", "mark", "isolate"}
  BY <1>3 DEF AfterError
<1>4. CASE pc \in {"gaps", "retry"}
  BY <1>4 DEF AfterError
<1>5. CASE pc = "reparse"
  BY <1>5 DEF AfterError
<1>6. CASE pc = "compact"
  BY <1>6 DEF AfterError
<1> QED
  BY <1>1, <1>2, <1>3, <1>4, <1>5, <1>6 DEF Phases

LEMMA RunInvStep == RunInv /\ [IndexerNext]_indexerVars => RunInv'
<1> SUFFICES ASSUME RunInv, [IndexerNext]_indexerVars PROVE RunInv'
  OBVIOUS
<1> DEFINE Shape == IndexerTypeOK /\ HandsMatchPhase
           Hands == Shape /\ ServedExists /\ BatchIsKnown
<1>1. [Next]_vars /\ LogInv /\ IndexerTypeOK /\ HandsMatchPhase /\ ServedExists /\ BatchIsKnown
  BY StepIsLogStep DEF RunInv
<1>2. LogInv' /\ TypeOK'
  BY <1>1, LogInvStep DEF LogInv, Inv
<1>3. known \subseteq known' /\ today <= today' /\ today' \in Days /\ today \in Days
  BY <1>1, LogGrows, LogTypes
<1>4. pending \subseteq known /\ known \subseteq Sigs
  BY <1>1, LogTypes
<1> SUFFICES Hands'
  BY <1>2 DEF RunInv
<1>5. ASSUME UNCHANGED <<tip, found, final>>, pc' = "queue" => pc = "queue"
      PROVE  ServedExists'
  BY <1>1, <1>5, ServedStays
<1> USE DEF IndexerTypeOK, HandsMatchPhase, Phases, Goto, DropWork, runVars, workVars,
            historyVars, Fault, AnswerLost
<1> HIDE DEF Hands
<1>6. CASE Finalise
  <2>1. Shape'
    BY <1>1, <1>2, <1>6, SigTypes DEF Finalise
  <2>2. ServedExists'
    <3>1. PICK s \in Sigs : OnChain(s) /\ tip' = Slot[s]
      BY <1>6 DEF Finalise
    <3>2. UNCHANGED <<found, final, pc, today>>
      BY <1>6, SameLog DEF Finalise
    <3>3. ASSUME NEW t \in Sigs, Slot[t] <= tip' PROVE OnChain(t)'
      BY <3>1, <3>2, <3>3, <1>3, SigTypes, SigsAssumption DEF OnChain, Days
    <3>4. \A t \in Sigs : OnChain(t) => OnChain(t)'
      BY <3>2 DEF OnChain
    <3> QED
      BY <1>1, <3>2, <3>3, <3>4 DEF ServedExists, Visible
  <2>3. BatchIsKnown'
    BY <1>1, <1>6, SameLog DEF Finalise, BatchIsKnown
  <2> QED
    BY <2>1, <2>2, <2>3 DEF Hands
<1>7. CASE NextDay
  <2>1. Shape'
    BY <1>1, <1>2, <1>7 DEF NextDay
  <2>2. Ledgered' = Ledgered /\ known' = known
    BY <1>7 DEF NextDay, Tick, Ledgered, SigsOf
  <2>3. ServedExists'
    BY <1>5, <1>7 DEF NextDay
  <2> QED
    BY <1>1, <1>7, <2>1, <2>2, <2>3 DEF NextDay, BatchIsKnown, Hands
<1>8. CASE StartRun
  <2>1. FreshRuns \subseteq RunIds /\ FreshRuns # {}
    BY <1>8 DEF StartRun, FreshRuns
  <2>2. run' \in RunIds /\ version' \in Versions /\ began' \in Days
    BY <1>3, <1>8, <2>1 DEF StartRun
  <2> QED
    BY <1>1, <1>2, <1>5, <1>8, <2>2 DEF StartRun, BatchIsKnown, Hands
<1>9. CASE Kill \/ PhaseFails
  <2>1. pc' \in Phases \ {"queue", "fetch", "mark", "isolate", "retry", "discover"}
    BY <1>1, <1>9, PhaseAfterError DEF Kill, PhaseFails
  <2>2. Shape'
    BY <1>1, <1>2, <1>9, <2>1, IndexerAssumption DEF Kill, PhaseFails
  <2>3. ServedExists'
    BY <1>1, <1>9, <2>1, SameLog DEF Kill, PhaseFails, ServedExists, Visible, OnChain
  <2> QED
    BY <2>1, <2>2, <2>3 DEF BatchIsKnown, Hands
<1>10. CASE OutOfBudget
  BY <1>1, <1>2, <1>5, <1>10, IndexerAssumption DEF OutOfBudget, BatchIsKnown, Hands
<1>11. CASE Discover
  <2> DEFINE seen == {s \in Visible : Slot[s] >= frontier}
             top == {s \in seen : \A t \in seen : Slot[t] <= Slot[s]}
  <2>1. /\ pc = "discover" /\ pc' = "queue" /\ found' = seen
        /\ final' = [slot |-> IF seen = {} THEN 0 ELSE Slot[First(top)],
                     at |-> today, end |-> frontier = 0]
        /\ UNCHANGED <<vars, tip, runVars, batch, fetched, faults, historyVars>>
    BY <1>11 DEF Discover
  <2>2. seen \subseteq Sigs /\ \A s \in seen : OnChain(s)
    BY <1>1 DEF Visible, ServedExists
  <2>3. seen # {} => First(top) \in seen
    <3>1. seen # {} => top # {}
      BY <2>2, NewestSlotExists
    <3> QED
      BY <2>2, <3>1, FirstIsMember
  <2> HIDE DEF seen, top
  <2>4. final' \in Finals
    BY <1>3, <2>1, <2>2, <2>3 DEF Finals
  <2>5. Shape'
    BY <1>1, <1>2, <2>1, <2>2, <2>4
  <2>6. \A s \in Sigs : final'.slot = Slot[s] => OnChain(s)
    <3> SUFFICES ASSUME NEW s \in Sigs, final'.slot = Slot[s] PROVE Day[s] <= today
      BY DEF OnChain
    <3>1. CASE seen = {}
      BY <2>1, <3>1, SigsAssumption
    <3>2. CASE seen # {}
      <4>1. First(top) \in Sigs /\ Slot[s] = Slot[First(top)] /\ Day[First(top)] <= today
        BY <2>1, <2>2, <2>3, <3>2 DEF OnChain
      <4>2. Day[s] <= Day[First(top)]
        BY <4>1, SigTypes, SigsAssumption
      <4> QED
        BY <1>3, <4>1, <4>2, SigTypes DEF Days
    <3> QED
      BY <3>1, <3>2
  <2>7. ServedExists'
    BY <1>1, <1>3, <2>1, <2>2, <2>4, <2>6, SameLog DEF ServedExists, Visible, OnChain, Days
  <2> QED
    BY <2>1, <2>5, <2>7 DEF BatchIsKnown, Hands
<1>12. CASE QueueChunk
  <2>1. found' \subseteq found /\ UNCHANGED <<tip, final, pc, runVars, batch, fetched, historyVars>>
        /\ faults' \in 0..MaxFaults /\ today' = today /\ pc = "queue"
    BY <1>1, <1>12, IndexerAssumption DEF QueueChunk, Enqueue
  <2>2. Shape'
    BY <1>1, <1>2, <2>1
  <2>3. ServedExists'
    BY <1>1, <2>1 DEF ServedExists, Visible, OnChain
  <2> QED
    BY <2>1, <2>2, <2>3 DEF BatchIsKnown, Hands
<1>13. CASE QueueFinal
  <2>1. pc = "queue" /\ pc' \in {"queue", "read"} /\ faults' \in 0..MaxFaults
        /\ UNCHANGED <<tip, runVars, historyVars>>
        /\ (pc' = "read" => found' = {} /\ final' = NoFinal /\ batch' = {} /\ fetched' = {})
        /\ (pc' = "queue" => UNCHANGED <<found, final, batch, fetched>>)
        /\ today' = today
    BY <1>1, <1>13, IndexerAssumption DEF QueueFinal, Enqueue
  <2>2. Shape'
    BY <1>1, <1>2, <2>1
  <2>3. ServedExists'
    BY <1>1, <2>1 DEF ServedExists, Visible, OnChain
  <2> QED
    BY <2>1, <2>2, <2>3 DEF BatchIsKnown, Hands
<1>14. CASE TakeBatch
  <2> DEFINE open == {s \in pending : lastRun[s] # run}
  <2>0. pc = "read" /\ UNCHANGED <<vars, tip, runVars, found, final, fetched, faults, historyVars>>
        /\ batch' = OldestOf(open, BatchSize)
        /\ pc' = IF open = {} THEN "gaps" ELSE "fetch"
    BY <1>14 DEF TakeBatch
  <2>1. batch' \subseteq open /\ open \subseteq pending
    BY <2>0, OldestNewestSubset
  <2> HIDE DEF open
  <2>2. pc = "read" /\ UNCHANGED <<vars, tip, runVars, found, final, fetched, faults, historyVars>>
        /\ (pc' = "fetch" \/ (pc' = "gaps" /\ batch' = {}))
    BY <2>0, <2>1
  <2>3. Shape'
    BY <1>1, <1>2, <1>4, <2>1, <2>2
  <2>4. ServedExists'
    BY <1>5, <2>2
  <2> QED
    BY <1>1, <1>3, <1>4, <2>1, <2>2, <2>3, <2>4 DEF BatchIsKnown, Hands
<1>15. CASE Fetch
  <2>1. First(batch) \in batch /\ pc = "fetch" /\ batch # {}
    BY <1>1, <1>15, FirstIsMember DEF Fetch
  <2>2. /\ UNCHANGED <<vars, tip, runVars, found, final, faults, historyVars>>
        /\ \/ /\ batch' = batch \ {First(batch)}
              /\ fetched' = fetched \cup {First(batch)}
              /\ UNCHANGED pc
           \/ pc' = "mark" /\ UNCHANGED <<batch, fetched>>
    BY <1>15 DEF Fetch
  <2>3. Shape'
    BY <1>1, <1>2, <2>1, <2>2
  <2>4. ServedExists'
    BY <1>5, <2>1, <2>2
  <2> QED
    BY <1>1, <1>3, <2>1, <2>2, <2>3, <2>4 DEF BatchIsKnown, Hands
<1>16. CASE Mark
  <2>1. pc = "mark" /\ Marked \in batch \cup fetched /\ Marked \in Sigs
    BY <1>1, <1>16, MarkedIsHeld DEF Mark
  <2>2. /\ UNCHANGED <<tip, runVars, retried>>
        /\ \/ /\ pc' = IF batch # {} THEN "fetch" ELSE "isolate"
              /\ batch' = batch \ {Marked}
              /\ fetched' = fetched \ {Marked}
              /\ UNCHANGED <<found, final, faults>>
           \/ faults' \in 0..MaxFaults /\ UNCHANGED <<pc, found, final, batch, fetched>>
    BY <1>1, <1>16, IndexerAssumption DEF Mark
  <2>3. triedNow' \subseteq Sigs /\ runsTried' \in [Sigs -> 0..MaxAttempts]
    <3>1. CASE UNCHANGED <<triedNow, runsTried>>
      BY <1>1, <3>1
    <3>2. CASE /\ triedNow' = triedNow \cup {Marked}
               /\ runsTried' = [runsTried EXCEPT ![Marked] =
                     IF Marked \in triedNow \/ @ = MaxAttempts THEN @ ELSE @ + 1]
      BY <1>1, <2>1, <3>2, LimitsAssumption
    <3> QED
      BY <1>16, <3>1, <3>2 DEF Mark
  <2>4. Shape'
    BY <1>1, <1>2, <2>1, <2>2, <2>3
  <2>5. ServedExists'
    BY <1>5, <2>1, <2>2
  <2> QED
    BY <1>1, <1>3, <2>1, <2>2, <2>4, <2>5 DEF BatchIsKnown, Hands
<1>17. CASE IngestFetched
  <2>1. /\ pc = "fetch" /\ batch = {}
        /\ UNCHANGED <<tip, runVars, historyVars>>
        /\ \/ /\ pc' = "read" /\ found' = {} /\ final' = NoFinal /\ batch' = {} /\ fetched' = {}
              /\ UNCHANGED faults
           \/ faults' \in 0..MaxFaults /\ UNCHANGED <<pc, found, final, batch, fetched>>
           \/ fetched = {} /\ pc' = "read" /\ UNCHANGED <<found, final, batch, fetched, faults>>
    <3>1. CASE AnswerLost
      BY <1>1, <1>17, <3>1, IndexerAssumption DEF IngestFetched
    <3>2. CASE ~AnswerLost
      <4> HIDE DEF AnswerLost
      <4> QED
        BY <1>17, <3>2 DEF IngestFetched
    <3> QED
      BY <3>1, <3>2
  <2>2. Shape'
    BY <1>1, <1>2, <2>1
  <2>3. ServedExists'
    BY <1>1, <1>3, <2>1, ServedStays, SigTypes DEF ServedExists, Visible, OnChain, Days
  <2> QED
    BY <1>1, <1>3, <2>1, <2>2, <2>3 DEF BatchIsKnown, Hands
<1>18. CASE BatchRejected \/ RejectAlone
  <2>1. /\ \/ pc = "fetch" /\ batch = {} /\ pc' = "isolate"
           \/ pc = "isolate" /\ fetched = {} /\ pc' = "read"
           \/ pc = "isolate" /\ fetched # {} /\ pc' = "mark"
        /\ UNCHANGED <<vars, tip, runVars, workVars, faults, historyVars>>
    BY <1>18 DEF BatchRejected, RejectAlone
  <2>2. Shape'
    BY <1>1, <1>2, <2>1
  <2>3. ServedExists'
    BY <1>5, <2>1
  <2> QED
    BY <1>1, <1>3, <2>1, <2>2, <2>3 DEF BatchIsKnown, Hands
<1>19. CASE IngestAlone
  <2>1. /\ pc = "isolate"
        /\ UNCHANGED <<tip, runVars, historyVars, pc, found, final, batch>>
        /\ faults' \in 0..MaxFaults /\ fetched' \subseteq fetched
    BY <1>1, <1>19, IndexerAssumption DEF IngestAlone
  <2>2. Shape'
    BY <1>1, <1>2, <2>1
  <2>3. ServedExists'
    BY <1>5, <2>1
  <2> QED
    BY <1>1, <1>3, <2>1, <2>2, <2>3 DEF BatchIsKnown, Hands
<1>20. CASE TakeGaps
  <2>1. batch' \subseteq {s \in Sigs : gapState[s] = "open" /\ Day[s] \notin sealed}
    BY <1>20, OldestNewestSubset DEF TakeGaps
  <2>2. batch' \subseteq Ledgered
    BY <1>1, <2>1, OfferedGapIsLedgered
  <2>3. pc = "gaps" /\ pc' = "retry"
        /\ UNCHANGED <<vars, tip, runVars, found, final, fetched, faults, historyVars>>
    BY <1>20 DEF TakeGaps
  <2>4. Shape'
    BY <1>1, <1>2, <2>1, <2>3
  <2>5. ServedExists'
    BY <1>5, <2>3
  <2> QED
    BY <2>2, <2>3, <2>4, <2>5, SameLog DEF BatchIsKnown, Hands
<1>21. CASE RetryGap
  <2>1. First(batch) \in batch /\ pc = "retry" /\ batch \subseteq Sigs
    BY <1>1, <1>21, FirstIsMember DEF RetryGap
  <2>2. /\ UNCHANGED <<tip, runVars, triedNow, runsTried, pc, found, final, fetched>>
        /\ faults' \in 0..MaxFaults /\ batch' \subseteq batch
        /\ retried' = retried \cup {First(batch)}
        /\ Repair(First(batch)) \/ UNCHANGED vars
    BY <1>1, <1>21, IndexerAssumption DEF RetryGap
  <2>3. Ledgered \subseteq Ledgered'
    <3>1. version \in Versions /\ {First(batch)} \in SUBSET Sigs
      BY <1>1, <2>1
    <3>2. CASE Repair(First(batch))
      BY <1>1, <3>1, <3>2, IngestKeepsLedgered DEF Repair
    <3> QED
      BY <2>2, <3>2, SameLog
  <2>4. Shape'
    BY <1>1, <1>2, <2>1, <2>2
  <2>5. ServedExists'
    BY <1>5, <2>2
  <2> QED
    BY <1>1, <2>1, <2>2, <2>3, <2>4, <2>5 DEF BatchIsKnown, Hands
<1>22. CASE GapsDone \/ ReparseDone
  <2>1. /\ \/ pc = "retry" /\ batch = {} /\ pc' = "reparse"
           \/ pc = "reparse" /\ pc' = "compact"
        /\ UNCHANGED <<vars, tip, runVars, workVars, faults, historyVars>>
    BY <1>22 DEF GapsDone, ReparseDone
  <2>2. Shape'
    BY <1>1, <1>2, <2>1
  <2> QED
    BY <1>5, <2>1, <2>2 DEF BatchIsKnown, Hands
<1>23. CASE Reparse
  <2>1. pc = "reparse" /\ pc' \in {"reparse", "compact"}
        /\ UNCHANGED <<tip, runVars, workVars, faults, historyVars>>
    BY <1>23 DEF Reparse
  <2>2. Shape'
    BY <1>1, <1>2, <2>1
  <2> QED
    BY <1>5, <2>1, <2>2 DEF BatchIsKnown, Hands
<1>24. CASE CompactAndEnd
  <2>1. pc = "compact" /\ pc' \in {"compact", "idle"} /\ faults' \in 0..MaxFaults
        /\ UNCHANGED <<tip, runVars, workVars, historyVars>>
    BY <1>1, <1>24, IndexerAssumption DEF CompactAndEnd
  <2>2. Shape'
    BY <1>1, <1>2, <2>1
  <2> QED
    BY <1>5, <2>1, <2>2 DEF BatchIsKnown, Hands
<1>25. CASE UNCHANGED indexerVars
  <2>1. UNCHANGED <<vars, tip, pc, runVars, workVars, faults, historyVars>>
    BY <1>25 DEF indexerVars
  <2>2. Shape'
    BY <1>1, <1>2, <2>1
  <2> QED
    BY <1>1, <1>5, <2>1, <2>2, SameLog DEF BatchIsKnown, Hands
<1> QED
  BY <1>6, <1>7, <1>8, <1>9, <1>10, <1>11, <1>12, <1>13, <1>14, <1>15, <1>16, <1>17,
     <1>18, <1>19, <1>20, <1>21, <1>22, <1>23, <1>24, <1>25
  DEF IndexerNext, WorkerStep

(* The invariant of a run: types, work in hand, and what the log keeps.      *)
THEOREM RunInvAlways == IndexerSpec => []RunInv
BY RunInvInit, RunInvStep, PTL DEF IndexerSpec

(* The worker's variables keep their types, and its batch is drained in the   *)
(* phases that fetch, whatever faults stop, repeat or abort them.            *)
THEOREM IndexerTypeCorrect == IndexerSpec => []IndexerTypeOK
<1>1. RunInv => IndexerTypeOK
  BY DEF RunInv
<1> QED
  BY <1>1, RunInvAlways, PTL

(* A run of the worker, with its kills, errors, lost answers and budget, is a *)
(* behaviour of the event log: every database call it makes is one that       *)
(* EventLog's callers may make, in a state where they may make it.            *)
THEOREM IndexerImplementsEventLog == IndexerSpec => ImplementsEventLog
<1>1. IndexerInit => Init
  BY DEF IndexerInit
<1>2. RunInv /\ [IndexerNext]_indexerVars => [Next]_vars
  BY StepIsLogStep
<1> QED
  BY <1>1, <1>2, RunInvAlways, PTL DEF IndexerSpec, ImplementsEventLog, Spec

-----------------------------------------------------------------------------
(* Nothing is missed, when what a day brought is served before the next one  *)

(* Every signature of a past day is served.                                  *)
ServedInTime == \A s \in Sigs : Day[s] < today => s \in Visible

(* Nothing below the frontier, before the last discovery or on a final day   *)
(* was missed, and what a discovery still holds closes the rest.             *)
NothingMissed ==
    \A s \in Sigs :
        /\ Slot[s] < frontier \/ Day[s] < discoveredAt \/ Day[s] \in compacted
                => s \in known
        /\ pc = "queue" /\ (Slot[s] < final.slot \/ Day[s] < final.at)
                => s \in found \cup known

CoverInv == RunInv /\ ServedInTime /\ NothingMissed

(* Only three calls move what the log holds complete: the final call of a     *)
(* discovery the frontier and discovered_at, lk_compact the final days.      *)
LEMMA BoundsKept ==
    ASSUME IndexerNext, ~QueueFinal, ~CompactAndEnd
    PROVE  /\ UNCHANGED compacted
           /\ ~QueueChunk => UNCHANGED <<frontier, discoveredAt>>
           /\ ~NextDay => UNCHANGED today
<1>1. ASSUME NEW S, NEW v, NEW replace, Ingest(S, v, replace)
      PROVE  UNCHANGED <<frontier, discoveredAt, compacted, today>>
  BY <1>1 DEF Ingest, discoveryVars, retentionVars
<1>2. ASSUME NEW s, NEW r, MarkAttempt(s, r)
      PROVE  UNCHANGED <<frontier, discoveredAt, compacted, today>>
  BY <1>2 DEF MarkAttempt, CountAttempt, ConvertToGap, discoveryVars, retentionVars
<1>3. UNCHANGED vars => UNCHANGED <<frontier, discoveredAt, compacted, today>>
  BY SameLog
<1>4. CASE QueueChunk
  BY <1>4 DEF QueueChunk, Enqueue, retentionVars
<1>5. CASE NextDay
  BY <1>5 DEF NextDay, Tick, discoveryVars, retentionVars
<1>6. CASE Mark
  BY <1>2, <1>3, <1>6 DEF Mark
<1>7. CASE IngestFetched \/ IngestAlone \/ RetryGap \/ Reparse
  BY <1>1, <1>3, <1>7 DEF IngestFetched, IngestAlone, RetryGap, Reparse, Repair
<1>8. CASE \/ Finalise \/ StartRun \/ Kill \/ PhaseFails \/ OutOfBudget
           \/ Discover \/ TakeBatch \/ Fetch \/ BatchRejected \/ RejectAlone
           \/ TakeGaps \/ GapsDone \/ ReparseDone
  BY <1>3, <1>8
  DEF Finalise, StartRun, Kill, PhaseFails, OutOfBudget, Discover, TakeBatch,
      Fetch, BatchRejected, RejectAlone, TakeGaps, GapsDone, ReparseDone
<1> QED
  BY <1>4, <1>5, <1>6, <1>7, <1>8 DEF IndexerNext, WorkerStep

(* What a discovery found and will report changes only while it queues.      *)
LEMMA DiscoveryKept ==
    ASSUME RunInv, IndexerNext, pc' = "queue", ~Discover, ~QueueChunk
    PROVE  pc = "queue" /\ UNCHANGED <<found, final>>
<1> USE DEF Goto, DropWork, workVars, Fault, AnswerLost
<1>1. pc \in Phases
  BY DEF RunInv, IndexerTypeOK
<1>2. CASE Finalise \/ NextDay
  BY <1>2 DEF Finalise, NextDay
<1>3. CASE StartRun \/ OutOfBudget
  BY <1>3 DEF StartRun, OutOfBudget
<1>4. CASE Kill \/ PhaseFails
  BY <1>1, <1>4, PhaseAfterError DEF Kill, PhaseFails
<1>5. CASE QueueFinal
  BY <1>5 DEF QueueFinal
<1>6. CASE TakeBatch \/ Fetch \/ Mark \/ IngestFetched \/ BatchRejected \/ IngestAlone \/ RejectAlone
  BY <1>6 DEF TakeBatch, Fetch, Mark, IngestFetched, BatchRejected, IngestAlone, RejectAlone
<1>7. CASE TakeGaps \/ RetryGap \/ GapsDone \/ Reparse \/ ReparseDone \/ CompactAndEnd
  BY <1>7 DEF TakeGaps, RetryGap, GapsDone, Reparse, ReparseDone, CompactAndEnd
<1> QED
  BY <1>2, <1>3, <1>4, <1>5, <1>6, <1>7 DEF IndexerNext, WorkerStep

(* The newest slot served only moves forward.                                *)
LEMMA VisibleGrows == IndexerNext /\ tip \in Nat => Visible \subseteq Visible'
<1> SUFFICES ASSUME IndexerNext, tip \in Nat PROVE Visible \subseteq Visible'
  OBVIOUS
<1>1. CASE Finalise
  <2>1. PICK s \in Sigs : Slot[s] > tip /\ tip' = Slot[s]
    BY <1>1 DEF Finalise
  <2> QED
    BY <2>1, SigTypes DEF Visible
<1>2. CASE ~Finalise
  <2>1. tip' = tip
    BY <1>2 DEF IndexerNext, WorkerStep, NextDay, StartRun, Kill, PhaseFails, OutOfBudget,
       Discover, QueueChunk, QueueFinal, TakeBatch, Fetch, Mark, IngestFetched,
       BatchRejected, IngestAlone, RejectAlone, TakeGaps, RetryGap, GapsDone, Reparse,
       ReparseDone, CompactAndEnd
  <2> QED
    BY <2>1 DEF Visible
<1> QED
  BY <1>1, <1>2

(* What lk_enqueue does not accept of a chunk was accepted before.           *)
LEMMA ChunkIsKnown ==
    ASSUME RunInv, NothingMissed, NEW S \in SUBSET Sigs, NEW f, Enqueue(S, f)
    PROVE  S \subseteq known'
<1> SUFFICES ASSUME NEW s \in S, s \notin Accepted(S) PROVE s \in known
  BY DEF Enqueue
<1>1. s \in Ledgered \/ Day[s] \in compacted
  BY DEF Accepted, Queueable
<1> QED
  BY <1>1, LogTypes DEF RunInv, NothingMissed

LEMMA CoverInvInit == IndexerInit => CoverInv
<1> SUFFICES ASSUME IndexerInit PROVE CoverInv
  OBVIOUS
<1>1. frontier = 0 /\ discoveredAt = 0 /\ compacted = {} /\ today = 1 /\ pc = "idle"
  BY DEF IndexerInit, Init
<1>2. ASSUME NEW s \in Sigs
      PROVE  ~(Slot[s] < 0) /\ ~(Day[s] < 0) /\ ~(Day[s] < 1)
  BY SigTypes DEF Days
<1> QED
  BY <1>1, <1>2, RunInvInit DEF CoverInv, ServedInTime, NothingMissed

LEMMA CoverInvStep ==
    LagCrossesMidnight = FALSE =>
        (CoverInv /\ [IndexerNext]_indexerVars => CoverInv')
<1> SUFFICES ASSUME LagCrossesMidnight = FALSE, CoverInv, [IndexerNext]_indexerVars
             PROVE  CoverInv'
  OBVIOUS
<1>1. RunInv /\ RunInv' /\ ServedInTime /\ NothingMissed
  BY RunInvStep DEF CoverInv
<1>2. known \subseteq known' /\ today \in Nat /\ tip \in Nat /\ known \subseteq Sigs
      /\ discoveredAt \in Nat /\ frontier \in Nat /\ LogInv
  BY <1>1, StepIsLogStep, LogGrows, LogTypes DEF RunInv, IndexerTypeOK, Days
<1> SUFFICES ServedInTime' /\ NothingMissed'
  BY <1>1 DEF CoverInv
<1>3. CASE UNCHANGED indexerVars
  <2>1. UNCHANGED <<vars, tip, pc, found, final>>
    BY <1>3 DEF indexerVars, workVars
  <2> QED
    BY <1>1, <2>1, SameLog DEF ServedInTime, NothingMissed, Visible
<1>4. CASE IndexerNext
  <2>1. ServedInTime'
    <3> SUFFICES ASSUME NEW s \in Sigs, Day[s] < today' PROVE s \in Visible'
      BY DEF ServedInTime
    <3>1. Visible \subseteq Visible'
      BY <1>2, <1>4, VisibleGrows
    <3>2. CASE NextDay
      <4>1. Day[s] < today \/ Day[s] = today
        BY <1>2, <3>2, SigTypes DEF NextDay, Tick
      <4> QED
        BY <3>1, <3>2, <4>1 DEF NextDay
    <3>3. CASE ~NextDay
      <4>1. today' = today
        <5>1. CASE QueueFinal \/ CompactAndEnd
          BY <5>1 DEF QueueFinal, CompactAndEnd, Enqueue, Compact
        <5> QED
          BY <1>4, <3>3, <5>1, BoundsKept
      <4> QED
        BY <1>1, <3>1, <4>1 DEF ServedInTime
    <3> QED
      BY <3>2, <3>3
  <2>2. ASSUME NEW s \in Sigs,
               Slot[s] < frontier' \/ Day[s] < discoveredAt' \/ Day[s] \in compacted'
        PROVE  s \in known'
    <3>1. Slot[s] < frontier \/ Day[s] < discoveredAt \/ Day[s] \in compacted => s \in known'
      BY <1>1, <1>2 DEF NothingMissed
    <3>2. CASE QueueFinal
      <4>1. /\ pc = "queue" /\ found = {} /\ compacted' = compacted
            /\ frontier' = Later(frontier, final.slot)
            /\ discoveredAt' = Later(discoveredAt, final.at)
        BY <3>2 DEF QueueFinal, FinalCall, Enqueue, retentionVars
      <4>2. Slot[s] < final.slot \/ Day[s] < final.at => s \in known'
        BY <1>1, <1>2, <4>1 DEF NothingMissed
      <4> QED
        BY <2>2, <3>1, <4>1, <4>2 DEF Later
    <3>3. CASE CompactAndEnd
      <4>1. /\ UNCHANGED <<frontier, discoveredAt>>
            /\ \A d \in compacted' : d \in compacted \/ BeforeHorizon(d)
        BY <3>3 DEF CompactAndEnd, Compact, discoveryVars
      <4>2. BeforeHorizon(Day[s]) => Day[s] < discoveredAt
        BY DEF BeforeHorizon
      <4> QED
        BY <2>2, <3>1, <4>1, <4>2
    <3>4. CASE QueueChunk
      <4>1. frontier' = Later(frontier, 0) /\ discoveredAt' = Later(discoveredAt, 0)
            /\ compacted' = compacted
        BY <3>4 DEF QueueChunk, ChunkFinal, NoFinal, Enqueue, retentionVars
      <4> QED
        BY <1>2, <2>2, <3>1, <4>1 DEF Later
    <3> QED
      BY <1>4, <2>2, <3>1, <3>2, <3>3, <3>4, BoundsKept
  <2>3. ASSUME NEW s \in Sigs, pc' = "queue", Slot[s] < final'.slot \/ Day[s] < final'.at
        PROVE  s \in found' \cup known'
    <3>1. CASE Discover
      <4> DEFINE seen == {t \in Visible : Slot[t] >= frontier}
                 top == {t \in seen : \A u \in seen : Slot[u] <= Slot[t]}
      <4>1. /\ found' = seen /\ known' = known
            /\ final' = [slot |-> IF seen = {} THEN 0 ELSE Slot[First(top)],
                         at |-> today, end |-> frontier = 0]
        BY <3>1, SameLog DEF Discover
      <4>2. Slot[s] < frontier \/ (Slot[s] >= frontier /\ Slot[s] \in Nat)
        BY <1>2, SigTypes
      <4>3. s \in Visible => s \in found' \cup known'
        BY <1>1, <4>1, <4>2 DEF NothingMissed
      <4>4. CASE Day[s] < final'.at
        BY <1>1, <4>1, <4>3, <4>4 DEF ServedInTime
      <4>5. CASE Slot[s] < final'.slot
        <5>1. seen # {} /\ seen \subseteq Sigs
          BY <4>1, <4>5, SigTypes DEF Visible
        <5>2. First(top) \in seen
          <6>1. top # {}
            BY <5>1, NewestSlotExists
          <6> QED
            BY <5>1, <6>1, FirstIsMember
        <5>3. Slot[s] < Slot[First(top)] /\ Slot[First(top)] <= tip /\ First(top) \in Sigs
          BY <4>1, <4>5, <5>1, <5>2 DEF Visible
        <5>4. Slot[s] <= tip
          BY <1>2, <5>3, SigTypes
        <5> QED
          BY <4>3, <5>4 DEF Visible
      <4> QED
        BY <2>3, <4>4, <4>5
    <3>2. CASE QueueChunk
      <4> DEFINE chunk == NewestOf(found, ChunkSize)
      <4>1. /\ pc = "queue" /\ final' = final /\ Enqueue(chunk, ChunkFinal)
            /\ found \ chunk \subseteq found'
        BY <3>2 DEF QueueChunk, AnswerLost, Fault, workVars
      <4>2. chunk \subseteq known'
        <5>1. chunk \in SUBSET Sigs
          BY <1>1, OldestNewestSubset DEF RunInv, IndexerTypeOK
        <5> QED
          BY <1>1, <4>1, <5>1, ChunkIsKnown
      <4>3. s \in found \cup known
        BY <1>1, <2>3, <4>1 DEF NothingMissed
      <4> QED
        BY <1>2, <4>1, <4>2, <4>3
    <3>3. CASE ~Discover /\ ~QueueChunk
      BY <1>1, <1>2, <1>4, <2>3, <3>3, DiscoveryKept DEF NothingMissed
    <3> QED
      BY <3>1, <3>2, <3>3
  <2> QED
    BY <2>1, <2>2, <2>3 DEF NothingMissed
<1> QED
  BY <1>3, <1>4

LEMMA CoverInvAlways == LagCrossesMidnight = FALSE => (IndexerSpec => []CoverInv)
<1> SUFFICES ASSUME LagCrossesMidnight = FALSE
             PROVE  IndexerSpec => []CoverInv
  OBVIOUS
<1>1. CoverInv /\ [IndexerNext]_indexerVars => CoverInv'
  BY CoverInvStep
<1> QED
  BY <1>1, CoverInvInit, PTL DEF IndexerSpec

(* Invariant D: when finality never lags past midnight, every signature below *)
(* the frontier is queued or in a rollup, whatever was killed or repeated.   *)
THEOREM FrontierStaysComplete ==
    LagCrossesMidnight = FALSE => (IndexerSpec => []InvariantD)
<1>1. CoverInv => InvariantD
  BY LogTypes DEF CoverInv, NothingMissed, InvariantD, RunInv
<1> QED
  BY <1>1, CoverInvAlways, PTL

(* A final day has every signature the chain put on it in its rollup: the     *)
(* bounds of lk.horizon together leave nothing behind.                       *)
THEOREM SealedDaysStayComplete ==
    LagCrossesMidnight = FALSE => (IndexerSpec => []SealedDaysComplete)
<1>1. CoverInv => SealedDaysComplete
  <2> SUFFICES ASSUME CoverInv, NEW s \in Sigs, Day[s] \in compacted
               PROVE  s \in Recorded
    BY DEF SealedDaysComplete
  <2>1. s \in pending \cup Recorded
    BY LogTypes DEF CoverInv, NothingMissed, RunInv
  <2>2. s \notin pending
    BY DEF CoverInv, RunInv, LogInv, Inv, QueueNeverRefused
  <2> QED
    BY <2>1, <2>2
<1> QED
  BY <1>1, CoverInvAlways, PTL

-----------------------------------------------------------------------------
(* complete_through, where every discovery fits in one lk_enqueue call       *)

(* The queue accepts nothing before what lies below it.                      *)
KnownFromBelow ==
    /\ \A t \in known, s \in Sigs : Slot[s] < Slot[t] => s \in known
    /\ \A t \in found : Slot[t] <= final.slot

ThroughInv == CoverInv /\ KnownFromBelow

(* Only lk_enqueue accepts signatures.                                       *)
LEMMA KnownKept ==
    ASSUME IndexerNext, ~QueueChunk
    PROVE  known' = known
<1>1. ASSUME NEW S, NEW v, NEW replace, Ingest(S, v, replace) PROVE known' = known
  BY <1>1 DEF Ingest
<1>2. ASSUME NEW s, NEW r, MarkAttempt(s, r) PROVE known' = known
  BY <1>2 DEF MarkAttempt, CountAttempt, ConvertToGap
<1>3. UNCHANGED vars => known' = known
  BY SameLog
<1>4. CASE QueueFinal \/ CompactAndEnd \/ NextDay
  BY <1>4 DEF QueueFinal, Enqueue, Accepted, CompactAndEnd, Compact, NextDay, Tick
<1>5. CASE Mark
  BY <1>2, <1>3, <1>5 DEF Mark
<1>6. CASE IngestFetched \/ IngestAlone \/ RetryGap \/ Reparse
  BY <1>1, <1>3, <1>6 DEF IngestFetched, IngestAlone, RetryGap, Reparse, Repair
<1>7. CASE \/ Finalise \/ StartRun \/ Kill \/ PhaseFails \/ OutOfBudget
           \/ Discover \/ TakeBatch \/ Fetch \/ BatchRejected \/ RejectAlone
           \/ TakeGaps \/ GapsDone \/ ReparseDone
  BY <1>3, <1>7
  DEF Finalise, StartRun, Kill, PhaseFails, OutOfBudget, Discover, TakeBatch,
      Fetch, BatchRejected, RejectAlone, TakeGaps, GapsDone, ReparseDone
<1> QED
  BY <1>4, <1>5, <1>6, <1>7 DEF IndexerNext, WorkerStep

LEMMA ChunkIsEverything ==
    ASSUME Cardinality(Sigs) <= ChunkSize, NEW S \in SUBSET Sigs
    PROVE  NewestOf(S, ChunkSize) = S
<1> SUFFICES ASSUME NEW s \in S PROVE Cardinality(NewerIn(S, s)) < ChunkSize
  BY DEF NewestOf
<1>1. s \notin NewerIn(S, s) /\ NewerIn(S, s) \subseteq Sigs /\ s \in Sigs
  BY BeforeIsAnOrder DEF NewerIn
<1>2. IsFiniteSet(Sigs) /\ ChunkSize \in Nat
  BY SigsAssumption, IndexerAssumption
<1>3. IsFiniteSet(NewerIn(S, s)) /\ Cardinality(NewerIn(S, s)) <= Cardinality(Sigs)
      /\ (Cardinality(Sigs) = Cardinality(NewerIn(S, s)) => Sigs = NewerIn(S, s))
  BY <1>1, <1>2, FS_Subset
<1>4. Cardinality(NewerIn(S, s)) \in Nat /\ Cardinality(Sigs) \in Nat
  BY <1>2, <1>3, FS_CardinalityType
<1> QED
  BY <1>1, <1>2, <1>3, <1>4

LEMMA ThroughInvStep ==
    ASSUME LagCrossesMidnight = FALSE, Cardinality(Sigs) <= ChunkSize,
           ThroughInv, [IndexerNext]_indexerVars
    PROVE  ThroughInv'
<1>1. CoverInv /\ CoverInv' /\ KnownFromBelow
  BY CoverInvStep DEF ThroughInv
<1>2. RunInv /\ RunInv' /\ NothingMissed /\ known \subseteq Sigs /\ found \subseteq Sigs
  BY <1>1, LogTypes DEF CoverInv, RunInv, IndexerTypeOK
<1> SUFFICES KnownFromBelow'
  BY <1>1 DEF ThroughInv
<1>3. CASE UNCHANGED indexerVars
  <2>1. UNCHANGED <<vars, found, final>>
    BY <1>3 DEF indexerVars, workVars
  <2> QED
    BY <1>1, <2>1, SameLog DEF KnownFromBelow
<1>4. CASE Discover
  <2> DEFINE seen == {t \in Visible : Slot[t] >= frontier}
             top == {t \in seen : \A u \in seen : Slot[u] <= Slot[t]}
  <2>1. /\ found' = seen /\ known' = known
        /\ final' = [slot |-> IF seen = {} THEN 0 ELSE Slot[First(top)],
                     at |-> today, end |-> frontier = 0]
    BY <1>4, SameLog DEF Discover
  <2>2. seen # {} => First(top) \in top
    <3>1. seen \subseteq Sigs
      BY DEF Visible
    <3>2. seen # {} => top # {}
      BY <3>1, NewestSlotExists
    <3> QED
      BY <3>1, <3>2, FirstIsMember
  <2> QED
    BY <1>1, <2>1, <2>2 DEF KnownFromBelow
<1>5. CASE QueueChunk
  <2>1. NewestOf(found, ChunkSize) = found
    BY <1>2, ChunkIsEverything
  <2>2. /\ pc = "queue" /\ final' = final /\ Enqueue(found, ChunkFinal)
        /\ found' \subseteq found
    BY <1>5, <2>1 DEF QueueChunk, AnswerLost, Fault, workVars
  <2>3. found \cup known \subseteq known' /\ known' \subseteq found \cup known
    <3>1. found \subseteq known'
      BY <1>2, <2>2, ChunkIsKnown
    <3> QED
      BY <2>2, <3>1 DEF Enqueue, Accepted
  <2>4. ASSUME NEW t \in known', NEW s \in Sigs, Slot[s] < Slot[t] PROVE s \in known'
    <3>1. CASE t \in known
      BY <1>1, <2>3, <2>4, <3>1 DEF KnownFromBelow
    <3>2. CASE t \in found
      <4>1. final.slot \in Nat
        <5>1. final.slot \in {0} \cup {Slot[u] : u \in Sigs}
          BY <1>2, <2>2 DEF RunInv, ServedExists, Finals
        <5> QED
          BY <5>1, SigTypes
      <4>2. Slot[t] <= final.slot /\ t \in Sigs
        BY <1>1, <1>2, <3>2 DEF KnownFromBelow
      <4>3. Slot[s] < final.slot
        BY <2>4, <4>1, <4>2, SigTypes
      <4> QED
        BY <1>2, <2>2, <2>3, <4>3 DEF NothingMissed
    <3> QED
      BY <2>3, <3>1, <3>2
  <2> QED
    BY <1>1, <2>2, <2>4 DEF KnownFromBelow
<1>6. CASE IndexerNext /\ ~Discover /\ ~QueueChunk
  <2>1. known' = known
    BY <1>6, KnownKept
  <2>2. pc' = "queue" => UNCHANGED <<found, final>>
    BY <1>2, <1>6, DiscoveryKept
  <2>3. pc' # "queue" => found' = {}
    BY <1>2 DEF RunInv, HandsMatchPhase
  <2> QED
    BY <1>1, <2>1, <2>2, <2>3 DEF KnownFromBelow
<1> QED
  BY <1>3, <1>4, <1>5, <1>6

LEMMA ThroughIsComplete == ThroughInv => CompleteThroughHolds
<1> SUFFICES ASSUME ThroughInv, NEW s \in Sigs, Day[s] < CompleteThrough
             PROVE  s \in Recorded
  BY DEF CompleteThroughHolds
<1>1. /\ pending \subseteq known /\ known \subseteq pending \cup Recorded
      /\ pending \subseteq Sigs /\ NothingMissed /\ KnownFromBelow
  BY LogTypes DEF ThroughInv, CoverInv, RunInv
<1>2. CASE pending = {}
  BY <1>1, <1>2 DEF CompleteThrough, NothingMissed
<1>3. CASE pending # {}
  <2> DEFINE least == CompleteThrough
  <2>1. \E d \in {Day[t] : t \in pending} : \A t \in pending : d <= Day[t]
    <3>1. PICK m \in pending : OlderIn(pending, m) = {}
      BY <1>1, <1>3, OldestExists
    <3>2. ASSUME NEW t \in pending PROVE Day[m] <= Day[t]
      <4>1. ~Before(t, m) /\ t \in Sigs /\ m \in Sigs
        BY <1>1, <3>1 DEF OlderIn
      <4>2. Slot[m] <= Slot[t]
        BY <4>1, SigTypes DEF Before
      <4> QED
        BY <4>1, <4>2, SigsAssumption
    <3> QED
      BY <3>2
  <2>2. /\ least \in {Day[t] : t \in pending}
        /\ \A t \in pending : least <= Day[t]
    BY <1>3, <2>1 DEF CompleteThrough
  <2>3. PICK m \in pending : least = Day[m]
    BY <2>2
  <2> HIDE DEF least
  <2>4. Day[s] < least /\ m \in Sigs
    BY <1>1 DEF least
  <2>5. Slot[s] < Slot[m]
    <3>1. CASE Slot[m] <= Slot[s]
      <4>1. Day[m] <= Day[s]
        BY <2>4, <3>1, SigsAssumption
      <4> QED
        BY <2>3, <2>4, <4>1, SigTypes
    <3> QED
      BY <2>4, <3>1, SigTypes
  <2>6. s \in known
    BY <1>1, <2>3, <2>5 DEF KnownFromBelow
  <2>7. s \notin pending
    BY <2>2, <2>4, <2>3, SigTypes
  <2> QED
    BY <1>1, <2>6, <2>7
<1> QED
  BY <1>2, <1>3

(* "Every transaction up to this time has been ingested" is true of           *)
(* complete_through for a program whose whole feed fits in one lk_enqueue     *)
(* chunk; beyond that the chunks, newest first, make it false for a while.   *)
THEOREM CompleteThroughStaysTrue ==
    LagCrossesMidnight = FALSE /\ Cardinality(Sigs) <= ChunkSize =>
        (IndexerSpec => []CompleteThroughHolds)
<1> SUFFICES ASSUME LagCrossesMidnight = FALSE, Cardinality(Sigs) <= ChunkSize
             PROVE  IndexerSpec => []CompleteThroughHolds
  OBVIOUS
<1>1. IndexerInit => ThroughInv
  BY CoverInvInit DEF ThroughInv, KnownFromBelow, IndexerInit, Init
<1>2. ThroughInv /\ [IndexerNext]_indexerVars => ThroughInv'
  BY ThroughInvStep
<1>3. ThroughInv => CompleteThroughHolds
  BY ThroughIsComplete
<1> QED
  BY <1>1, <1>2, <1>3, PTL DEF IndexerSpec

-----------------------------------------------------------------------------
(* Attempts are counted once per run                                         *)

(* An attempt counted in the database is one of a run of its own; within a    *)
(* run, last_attempt_run remembers what was counted.                         *)
AttemptsAreRuns ==
    /\ \A s \in Sigs : attempts[s] <= runsTried[s]
    /\ \A s \in triedNow \cap pending : lastRun[s] = run
    /\ pc \in {"discover", "queue"} => triedNow = {}
    /\ GapAfterSeparateRuns

AttemptInv == RunInv /\ AttemptsAreRuns

(* Only marking counts; a signature that leaves the queue starts at 0 again.  *)
LEMMA AttemptsKept ==
    ASSUME RunInv, IndexerNext, ~Mark
    PROVE  /\ runsTried' = runsTried
           /\ triedNow' = {} \/ (triedNow' = triedNow /\ run' = run)
           /\ \A s \in Sigs : /\ attempts'[s] \in {attempts[s], 0}
                              /\ gapState'[s] # "none" => gapState[s] # "none"
           /\ \A s \in pending \cap pending' : lastRun'[s] = lastRun[s]
           /\ pending' \subseteq pending \/ QueueChunk
<1> DEFINE Kept0 ==
        /\ \A s \in Sigs : /\ attempts'[s] \in {attempts[s], 0}
                           /\ gapState'[s] # "none" => gapState[s] # "none"
        /\ \A s \in pending \cap pending' : lastRun'[s] = lastRun[s]
<1> USE DEF historyVars, runVars
<1>0. TypeOK /\ pending \subseteq Sigs
  BY LogTypes DEF RunInv
<1>1. ASSUME NEW S, NEW v, NEW replace, Ingest(S, v, replace)
      PROVE  Kept0 /\ pending' \subseteq pending
  BY <1>0, <1>1 DEF Ingest, Dequeue, TypeOK
<1>2. ASSUME NEW S, NEW f, Enqueue(S, f)
      PROVE  Kept0 /\ (S = {} => pending' \subseteq pending)
  BY <1>2 DEF Enqueue, gapVars, Accepted
<1>3. ASSUME UNCHANGED vars PROVE Kept0 /\ pending' \subseteq pending
  BY <1>3, SameLog
<1> HIDE DEF Kept0
<1>4. CASE QueueChunk \/ QueueFinal
  BY <1>2, <1>4 DEF QueueChunk, QueueFinal, Kept0
<1>5. CASE NextDay \/ CompactAndEnd
  BY <1>5 DEF NextDay, Tick, CompactAndEnd, Compact, queueVars, gapVars, Kept0
<1>6. CASE IngestFetched \/ IngestAlone \/ RetryGap \/ Reparse
  BY <1>1, <1>3, <1>6 DEF IngestFetched, IngestAlone, RetryGap, Reparse, Repair, Kept0
<1>7. CASE \/ Finalise \/ StartRun \/ Kill \/ PhaseFails \/ OutOfBudget
           \/ Discover \/ TakeBatch \/ Fetch \/ BatchRejected \/ RejectAlone
           \/ TakeGaps \/ GapsDone \/ ReparseDone
  BY <1>3, <1>7
  DEF Finalise, StartRun, Kill, PhaseFails, OutOfBudget, Discover, TakeBatch,
      Fetch, BatchRejected, RejectAlone, TakeGaps, GapsDone, ReparseDone, Kept0
<1> QED
  BY <1>4, <1>5, <1>6, <1>7 DEF IndexerNext, WorkerStep

LEMMA MarkCounts ==
    ASSUME AttemptInv, Mark
    PROVE  AttemptsAreRuns'
<1> DEFINE s == Marked
<1>0. RunInv /\ AttemptsAreRuns /\ TypeOK /\ IndexerTypeOK
  BY LogTypes DEF AttemptInv, RunInv
<1>1. s \in Sigs /\ pc = "mark" /\ run \in RunIds
  BY <1>0, MarkedIsHeld DEF Mark, RunInv, HandsMatchPhase
<1>2. run' = run /\ pc' \notin {"discover", "queue"}
  BY <1>1 DEF Mark, runVars, Goto, AnswerLost
<1> HIDE DEF s
<1>3. CASE UNCHANGED <<vars, triedNow, runsTried>>
  BY <1>0, <1>2, <1>3, SameLog DEF AttemptsAreRuns, GapAfterSeparateRuns
<1>4. CASE /\ s \in pending
           /\ MarkAttempt(s, run)
           /\ triedNow' = triedNow \cup {s}
           /\ runsTried' = [runsTried EXCEPT
                ![s] = IF s \in triedNow \/ @ = MaxAttempts THEN @ ELSE @ + 1]
  <2>1. /\ attempts[s] \in 0..MaxAttempts - 1 /\ MaxAttempts \in Nat
        /\ attempts[s] <= runsTried[s] /\ runsTried[s] \in 0..MaxAttempts
        /\ lastRun[s] # run => s \notin triedNow
    BY <1>0, <1>1, <1>4, LimitsAssumption DEF AttemptsAreRuns, TypeOK, IndexerTypeOK
  <2>2. /\ AttemptsAfter(s, run) <= runsTried'[s]
        /\ AttemptsAfter(s, run) <= MaxAttempts
        /\ runsTried[s] <= runsTried'[s]
    BY <1>0, <1>1, <1>4, <2>1 DEF AttemptsAfter, IndexerTypeOK
  <2>3. \A t \in Sigs : t # s => runsTried'[t] = runsTried[t]
    BY <1>0, <1>4 DEF IndexerTypeOK
  <2>4. CASE CountAttempt(s, run)
    <3>1. /\ attempts' = [attempts EXCEPT ![s] = AttemptsAfter(s, run)]
          /\ lastRun' = [lastRun EXCEPT ![s] = run]
          /\ UNCHANGED <<pending, gapState>>
      BY <2>4 DEF CountAttempt, gapVars
    <3>2. \A t \in Sigs : attempts'[t] <= runsTried'[t]
      BY <1>0, <2>2, <2>3, <3>1 DEF AttemptsAreRuns, TypeOK
    <3>3. \A t \in triedNow' \cap pending' : lastRun'[t] = run'
      BY <1>0, <1>2, <1>4, <3>1 DEF AttemptsAreRuns, TypeOK
    <3>4. ASSUME NEW t \in Sigs, gapState[t] # "none"
          PROVE  runsTried'[t] >= MaxAttempts
      BY <1>0, <2>1, <2>2, <2>3, <3>4 DEF AttemptsAreRuns, GapAfterSeparateRuns, IndexerTypeOK
    <3> QED
      BY <1>2, <3>1, <3>2, <3>3, <3>4 DEF AttemptsAreRuns, GapAfterSeparateRuns
  <2>5. CASE ConvertToGap(s, run)
    <3>1. /\ pending' = pending \ {s}
          /\ attempts' = [t \in Sigs |-> IF t \in {s} THEN 0 ELSE attempts[t]]
          /\ lastRun' = [t \in Sigs |-> IF t \in {s} THEN NoRun ELSE lastRun[t]]
          /\ gapState' = [gapState EXCEPT ![s] = "open"]
          /\ AttemptsAfter(s, run) >= MaxAttempts
      BY <2>5 DEF ConvertToGap, Dequeue, Exhausted
    <3>2. \A t \in Sigs : attempts'[t] <= runsTried'[t]
      <4>1. 0 <= runsTried'[s]
        BY <1>0, <1>1, <1>4, <2>1 DEF IndexerTypeOK
      <4> QED
        BY <1>0, <2>3, <3>1, <4>1 DEF AttemptsAreRuns
    <3>3. \A t \in triedNow' \cap pending' : lastRun'[t] = run'
      BY <1>0, <1>2, <1>4, <3>1 DEF AttemptsAreRuns, TypeOK
    <3>4. ASSUME NEW t \in Sigs, gapState'[t] # "none"
          PROVE  runsTried'[t] >= MaxAttempts
      <4>1. CASE t = s
        <5>1. AttemptsAfter(s, run) \in Int /\ runsTried'[s] \in Int
          BY <1>0, <1>1, <1>4, <2>1 DEF AttemptsAfter, IndexerTypeOK
        <5> QED
          BY <2>1, <2>2, <3>1, <4>1, <5>1
      <4>2. CASE t # s
        BY <1>0, <2>3, <3>1, <3>4, <4>2 DEF AttemptsAreRuns, GapAfterSeparateRuns, TypeOK
      <4> QED
        BY <4>1, <4>2
    <3> QED
      BY <1>2, <3>2, <3>3, <3>4 DEF AttemptsAreRuns, GapAfterSeparateRuns
  <2> QED
    BY <1>4, <2>4, <2>5 DEF MarkAttempt
<1> QED
  BY <1>3, <1>4 DEF Mark, s

LEMMA AttemptInvStep == AttemptInv /\ [IndexerNext]_indexerVars => AttemptInv'
<1> SUFFICES ASSUME AttemptInv, [IndexerNext]_indexerVars PROVE AttemptsAreRuns'
  BY RunInvStep DEF AttemptInv
<1>1. RunInv /\ RunInv' /\ AttemptsAreRuns
  BY RunInvStep DEF AttemptInv
<1>2. CASE UNCHANGED indexerVars
  <2>1. UNCHANGED <<vars, pc, run, triedNow, runsTried>>
    BY <1>2 DEF indexerVars, runVars, historyVars
  <2> QED
    BY <1>1, <2>1, SameLog DEF AttemptsAreRuns, GapAfterSeparateRuns
<1>3. CASE Mark
  BY <1>3, MarkCounts
<1>4. CASE IndexerNext /\ ~Mark
  <2>1. /\ runsTried' = runsTried
        /\ triedNow' = {} \/ (triedNow' = triedNow /\ run' = run)
        /\ \A s \in Sigs : /\ attempts'[s] \in {attempts[s], 0}
                           /\ gapState'[s] # "none" => gapState[s] # "none"
        /\ \A s \in pending \cap pending' : lastRun'[s] = lastRun[s]
        /\ pending' \subseteq pending \/ QueueChunk
    BY <1>1, <1>4, AttemptsKept
  <2>2. \A s \in Sigs : attempts'[s] <= runsTried'[s]
    <3>1. \A s \in Sigs : 0 <= runsTried[s]
      BY <1>1 DEF RunInv, IndexerTypeOK
    <3> QED
      BY <1>1, <2>1, <3>1 DEF AttemptsAreRuns
  <2>3. QueueChunk => triedNow = {} /\ triedNow' = {}
    BY <1>1, <2>1 DEF QueueChunk, AttemptsAreRuns
  <2>4. \A s \in triedNow' \cap pending' : lastRun'[s] = run'
    BY <1>1, <2>1, <2>3 DEF AttemptsAreRuns
  <2>5. GapAfterSeparateRuns'
    BY <1>1, <2>1 DEF AttemptsAreRuns, GapAfterSeparateRuns
  <2>6. ASSUME pc' \in {"discover", "queue"} PROVE triedNow' = {}
    <3>1. CASE StartRun
      BY <3>1 DEF StartRun
    <3>2. CASE ~StartRun
      <4>1. pc \in {"discover", "queue"}
        <5>1. CASE pc' = "queue"
          BY <1>1, <1>4, <5>1, DiscoveryKept DEF Discover, QueueChunk
        <5>2. CASE pc' = "discover"
          <6>1. pc \in Phases
            BY <1>1 DEF RunInv, IndexerTypeOK
          <6>2. ~Kill /\ ~PhaseFails
            BY <5>2, <6>1, PhaseAfterError DEF Kill, PhaseFails, Goto
          <6> QED
            BY <1>4, <3>2, <5>2, <6>2
            DEF IndexerNext, WorkerStep, Finalise, NextDay, OutOfBudget, Discover,
                QueueChunk, QueueFinal, TakeBatch, Fetch, IngestFetched, BatchRejected,
                IngestAlone, RejectAlone, TakeGaps, RetryGap, GapsDone, Reparse,
                ReparseDone, CompactAndEnd, Goto, AnswerLost, workVars
        <5> QED
          BY <2>6, <5>1, <5>2
      <4> QED
        BY <1>1, <2>1, <4>1 DEF AttemptsAreRuns
    <3> QED
      BY <3>1, <3>2
  <2> QED
    BY <2>2, <2>4, <2>5, <2>6 DEF AttemptsAreRuns
<1> QED
  BY <1>2, <1>3, <1>4

(* "5 failed runs: the signature becomes an explicit gap": however often       *)
(* lk_mark_attempt is sent again within a run, the run counts once.          *)
THEOREM GapsComeFromSeparateRuns == IndexerSpec => []GapAfterSeparateRuns
<1>1. IndexerInit => AttemptInv
  BY RunInvInit DEF AttemptInv, AttemptsAreRuns, GapAfterSeparateRuns, IndexerInit, Init
<1>2. AttemptInv => GapAfterSeparateRuns
  BY DEF AttemptInv, AttemptsAreRuns
<1> QED
  BY <1>1, <1>2, AttemptInvStep, PTL DEF IndexerSpec

-----------------------------------------------------------------------------
(* The rows of a signature come from one parse                               *)

RowsOf(s) == {r \in events : r.sig = s}

(* What a run fetches is still queued, or was ingested by this very run, or   *)
(* was given up by the mark whose answer the run is waiting for.             *)
HandsAreUnparsed ==
    \A s \in batch \cup fetched : pc \in {"fetch", "mark", "isolate"} =>
        \/ s \in pending
        \/ RowsOf(s) = Parse(s, version)
        \/ pc = "mark" /\ s = Marked /\ RowsOf(s) = {GapRow(s)}

RowsInv == RunInv /\ UnparsedRowIsOpenGap /\ RowsFromOneParse /\ HandsAreUnparsed

LEMMA RowsOfLedgered ==
    /\ \A s : s \in Ledgered <=> RowsOf(s) # {}
    /\ \A s \in Sigs : GapRow(s) \in events <=> GapRow(s) \in RowsOf(s)
BY GapRowIsRow DEF Ledgered, SigsOf, RowsOf

(* No parser version makes the row of a gap.                                 *)
LEMMA GapRowIsNoParse ==
    ASSUME NEW s \in Sigs, NEW v \in Versions
    PROVE  GapRow(s) \notin Parse(s, v)
BY ParserAssumption DEF GapRow, Parse

(* Ingesting a signature that is new, was ingested by the same version or is  *)
(* replaced leaves exactly the rows of that parse.                           *)
LEMMA IngestRows ==
    ASSUME NEW S \in SUBSET Sigs, NEW v \in Versions, NEW replace \in BOOLEAN,
           Ingest(S, v, replace)
    PROVE  /\ \A s \in Sigs \ S : RowsOf(s)' = RowsOf(s)
           /\ \A s \in S : (replace \/ RowsOf(s) = {} \/ RowsOf(s) = Parse(s, v))
                            => RowsOf(s)' = Parse(s, v)
<1> DEFINE kept == Kept(S, replace)
           inserted == Inserted(ParseAll(S, v), kept)
           KeptOf(s) == {r \in kept : r.sig = s}
<1>1. events' = kept \cup inserted /\ kept \subseteq events
  BY DEF Ingest, Kept
<1>2. ASSUME NEW s \in Sigs \ S PROVE RowsOf(s)' = RowsOf(s)
  <2>1. \A r \in inserted : r.sig \in S
    BY InsertedRows
  <2>2. \A r \in events : r.sig = s => r \in kept
    BY <1>2 DEF Kept
  <2> QED
    BY <1>1, <2>1, <2>2, <1>2 DEF RowsOf
<1>3. ASSUME NEW s \in S PROVE {r \in ParseAll(S, v) : r.sig = s} = Parse(s, v)
  <2>1. \A t \in S : \A r \in Parse(t, v) : r.sig = t
    BY ParseRows
  <2> QED
    BY <2>1 DEF ParseAll
<1>4. ASSUME NEW s \in S, KeptOf(s) = {} PROVE RowsOf(s)' = Parse(s, v)
  <2>1. \A r \in Parse(s, v) : r \in inserted
    <3> SUFFICES ASSUME NEW r \in Parse(s, v), NEW q \in kept, SameKey(r, q) PROVE FALSE
      BY DEF Inserted, ParseAll
    <3>1. r.sig = s
      BY ParseRows
    <3> QED
      BY <1>4, <3>1 DEF SameKey
  <2>2. \A r \in inserted : r.sig = s => r \in Parse(s, v)
    BY <1>3 DEF Inserted
  <2>3. \A r \in Parse(s, v) : r.sig = s
    BY ParseRows
  <2> QED
    BY <1>1, <1>4, <2>1, <2>2, <2>3 DEF RowsOf
<1>5. ASSUME NEW s \in S, KeptOf(s) = Parse(s, v) PROVE RowsOf(s)' = Parse(s, v)
  <2>1. \A r \in inserted : r.sig # s
    <3> SUFFICES ASSUME NEW r \in inserted, r.sig = s PROVE FALSE
      OBVIOUS
    <3>1. r \in Parse(s, v)
      BY <1>3 DEF Inserted
    <3>2. r \in kept
      BY <1>5, <3>1
    <3> QED
      BY <3>2 DEF Inserted, SameKey
  <2> QED
    BY <1>1, <1>5, <2>1 DEF RowsOf
<1>6. ASSUME NEW s \in S PROVE KeptOf(s) = IF replace THEN {} ELSE RowsOf(s)
  BY DEF Kept, RowsOf
<1> HIDE DEF KeptOf
<1> QED
  BY <1>2, <1>4, <1>5, <1>6

(* So such an ingest keeps the rows of every signature from one parse, and    *)
(* its gap row an open gap's.                                                *)
LEMMA IngestKeepsRows ==
    ASSUME RowsInv, NEW S \in SUBSET Sigs, NEW v \in Versions, NEW replace \in BOOLEAN,
           Ingest(S, v, replace),
           \A s \in S : replace \/ s \in pending \/ RowsOf(s) = Parse(s, v)
    PROVE  /\ UnparsedRowIsOpenGap' /\ RowsFromOneParse'
           /\ \A s \in S : RowsOf(s)' = Parse(s, v)
           /\ \A s \in Sigs \ S : RowsOf(s)' = RowsOf(s)
           /\ pending' = pending \ S
<1>1. \A s \in pending : RowsOf(s) = {}
  BY RowsOfLedgered DEF RowsInv, RunInv, LogInv, Inv, QueueLedgerDisjoint
<1>2. /\ \A s \in Sigs \ S : RowsOf(s)' = RowsOf(s)
      /\ \A s \in S : RowsOf(s)' = Parse(s, v)
  BY <1>1, IngestRows
<1>3. pending' = pending \ S /\ \A s \in Sigs \ S : gapState'[s] = gapState[s]
  BY DEF Ingest, Dequeue
<1>4. UnparsedRowIsOpenGap'
  <2> SUFFICES ASSUME NEW s \in Sigs, GapRow(s) \in events' PROVE gapState'[s] = "open"
    BY DEF UnparsedRowIsOpenGap, GapRow
  <2>1. GapRow(s) \in RowsOf(s)'
    BY GapRowIsRow DEF RowsOf
  <2>2. s \notin S
    BY <1>2, <2>1, GapRowIsNoParse
  <2>3. GapRow(s) \in events
    BY <1>2, <2>1, <2>2 DEF RowsOf
  <2> QED
    BY <1>3, <2>2, <2>3 DEF RowsInv, UnparsedRowIsOpenGap
<1>5. RowsFromOneParse'
  <2> SUFFICES ASSUME NEW s, s \in Ledgered'
               PROVE  RowsOf(s)' = {GapRow(s)} \/ \E w \in Versions : RowsOf(s)' = Parse(s, w)
    BY DEF RowsFromOneParse, RowsOf, GapRow, Parse
  <2>1. CASE s \in S
    BY <1>2, <2>1
  <2>2. CASE s \in Sigs \ S
    <3>1. s \in Ledgered
      BY <1>2, <2>2 DEF Ledgered, SigsOf, RowsOf
    <3> QED
      BY <1>2, <2>2, <3>1 DEF RowsInv, RowsFromOneParse, RowsOf
  <2>3. s \in Sigs
    <3>1. events' \subseteq events \cup Inserted(ParseAll(S, v), Kept(S, replace))
      BY DEF Ingest, Kept
    <3>2. events \subseteq Row
      BY LogTypes DEF RowsInv, RunInv, TypeOK
    <3>3. events' \subseteq Row
      BY <3>1, <3>2, InsertedRows
    <3> QED
      BY <3>3 DEF Ledgered, SigsOf, Row
  <2> QED
    BY <2>1, <2>2, <2>3
<1> QED
  BY <1>2, <1>3, <1>4, <1>5

(* Steps that leave the ledger's rows and the gap list alone.                *)
LEMMA SameRows ==
    ASSUME RowsInv, UNCHANGED <<events, gapState>>
    PROVE  UnparsedRowIsOpenGap' /\ RowsFromOneParse' /\ \A s : RowsOf(s)' = RowsOf(s)
BY DEF RowsInv, UnparsedRowIsOpenGap, RowsFromOneParse, RowsOf, Ledgered, SigsOf

LEMMA CompactKeepsRows ==
    ASSUME RowsInv, Compact
    PROVE  UnparsedRowIsOpenGap' /\ RowsFromOneParse'
<1>1. gapState' = gapState /\ events' \subseteq events
  BY DEF Compact, gapVars
<1>2. \A s : RowsOf(s)' = RowsOf(s) \/ RowsOf(s)' = {}
  BY DEF Compact, RowsOf
<1>3. UnparsedRowIsOpenGap'
  BY <1>1 DEF RowsInv, UnparsedRowIsOpenGap, GapRow
<1>4. RowsFromOneParse'
  <2> SUFFICES ASSUME NEW s, s \in Ledgered'
               PROVE  RowsOf(s)' = {GapRow(s)} \/ \E w \in Versions : RowsOf(s)' = Parse(s, w)
    BY DEF RowsFromOneParse, RowsOf, GapRow, Parse
  <2>1. RowsOf(s)' # {}
    BY DEF Ledgered, SigsOf, RowsOf
  <2>2. RowsOf(s)' = RowsOf(s) /\ s \in Ledgered
    BY <1>2, <2>1, RowsOfLedgered
  <2> QED
    BY <2>2 DEF RowsInv, RowsFromOneParse, RowsOf
<1> QED
  BY <1>3, <1>4

(* The gap row of a signature given up is its only row.                      *)
LEMMA ConvertKeepsRows ==
    ASSUME RowsInv, NEW s \in Sigs, NEW r \in RunIds, ConvertToGap(s, r)
    PROVE  /\ UnparsedRowIsOpenGap' /\ RowsFromOneParse'
           /\ RowsOf(s)' = {GapRow(s)}
           /\ \A t \in Sigs \ {s} : RowsOf(t)' = RowsOf(t)
           /\ pending' = pending \ {s}
<1>1. /\ s \notin Ledgered /\ events' = events \cup {GapRow(s)}
      /\ pending' = pending \ {s}
  BY ConvertEffect DEF RowsInv, RunInv, LogInv
<1>2. gapState' = [gapState EXCEPT ![s] = "open"] /\ gapState \in [Sigs -> {"none", "open", "resolved"}]
  BY LogTypes DEF ConvertToGap, RowsInv, RunInv, TypeOK
<1>3. RowsOf(s) = {}
  BY <1>1, RowsOfLedgered
<1>4. RowsOf(s)' = {GapRow(s)} /\ \A t \in Sigs \ {s} : RowsOf(t)' = RowsOf(t)
  BY <1>1, <1>3, GapRowIsRow DEF RowsOf
<1>5. UnparsedRowIsOpenGap'
  <2> SUFFICES ASSUME NEW t \in Sigs, GapRow(t) \in events' PROVE gapState'[t] = "open"
    BY DEF UnparsedRowIsOpenGap, GapRow
  <2>1. t = s \/ GapRow(t) \in events
    BY <1>1, GapRowIsRow
  <2> QED
    BY <1>2, <2>1 DEF RowsInv, UnparsedRowIsOpenGap
<1>6. RowsFromOneParse'
  <2> SUFFICES ASSUME NEW t, t \in Ledgered'
               PROVE  RowsOf(t)' = {GapRow(t)} \/ \E w \in Versions : RowsOf(t)' = Parse(t, w)
    BY DEF RowsFromOneParse, RowsOf, GapRow, Parse
  <2>1. t = s \/ (t \in Ledgered /\ t \in Sigs)
    <3>1. Ledgered \subseteq Sigs
      BY LogTypes DEF RowsInv, RunInv
    <3> QED
      BY <1>1, <3>1, GapRowIsRow DEF Ledgered, SigsOf
  <2>2. CASE t = s
    BY <1>4, <2>2
  <2>3. CASE t # s
    BY <1>4, <2>1, <2>3 DEF RowsInv, RowsFromOneParse, RowsOf
  <2> QED
    BY <2>2, <2>3
<1> QED
  BY <1>1, <1>4, <1>5, <1>6

(* What a run holds while it fetches changes only in these steps.            *)
LEMMA HandsKept ==
    ASSUME RunInv, IndexerNext, pc' \in {"fetch", "mark", "isolate"},
           ~TakeBatch, ~Fetch, ~Mark, ~IngestFetched, ~BatchRejected,
           ~IngestAlone, ~RejectAlone
    PROVE  UNCHANGED <<pc, batch, fetched, version, events, pending, gapState>>
<1> USE DEF Goto, DropWork, workVars, runVars
<1>1. pc \in Phases
  BY DEF RunInv, IndexerTypeOK
<1>2. CASE Finalise
  BY <1>2, SameLog DEF Finalise
<1>3. CASE NextDay
  BY <1>3 DEF NextDay, Tick, queueVars, gapVars
<1>4. CASE Kill \/ PhaseFails
  BY <1>1, <1>4, PhaseAfterError DEF Kill, PhaseFails
<1>5. CASE \/ StartRun \/ OutOfBudget \/ Discover \/ QueueChunk \/ QueueFinal
           \/ TakeGaps \/ RetryGap \/ GapsDone \/ Reparse \/ ReparseDone \/ CompactAndEnd
  BY <1>5 DEF StartRun, OutOfBudget, Discover, QueueChunk, QueueFinal,
              TakeGaps, RetryGap, GapsDone, Reparse, ReparseDone, CompactAndEnd, AnswerLost
<1> QED
  BY <1>2, <1>3, <1>4, <1>5 DEF IndexerNext, WorkerStep

(* Steps that neither ingest, nor give up, nor compact write no row.         *)
LEMMA RowsKept ==
    ASSUME IndexerNext, ~Mark, ~IngestFetched, ~IngestAlone, ~RetryGap, ~Reparse,
           ~CompactAndEnd
    PROVE  UNCHANGED <<events, gapState>>
<1>1. CASE QueueChunk \/ QueueFinal
  BY <1>1 DEF QueueChunk, QueueFinal, Enqueue, gapVars
<1>2. CASE NextDay
  BY <1>2 DEF NextDay, Tick, gapVars
<1>3. CASE \/ Finalise \/ StartRun \/ Kill \/ PhaseFails \/ OutOfBudget
           \/ Discover \/ TakeBatch \/ Fetch \/ BatchRejected \/ RejectAlone
           \/ TakeGaps \/ GapsDone \/ ReparseDone
  BY <1>3, SameLog
  DEF Finalise, StartRun, Kill, PhaseFails, OutOfBudget, Discover, TakeBatch,
      Fetch, BatchRejected, RejectAlone, TakeGaps, GapsDone, ReparseDone
<1> QED
  BY <1>1, <1>2, <1>3 DEF IndexerNext, WorkerStep

(* Marking what could not be fetched keeps it, or makes it a gap and lets go. *)
LEMMA MarkRows ==
    ASSUME RowsInv, Mark
    PROVE  UnparsedRowIsOpenGap' /\ RowsFromOneParse' /\ HandsAreUnparsed'
<1>0. PICK s \in Sigs : s = Marked
  BY MarkedIsHeld DEF Mark, RowsInv, RunInv, HandsMatchPhase
<1> DEFINE Given(t) == \/ t \in pending'
                       \/ RowsOf(t)' = Parse(t, version)
           GivenUp == RowsOf(s)' = {GapRow(s)}
<1>1. /\ pc = "mark" /\ run \in RunIds /\ batch \cup fetched \subseteq Sigs
      /\ \A t \in batch \cup fetched :
            \/ t \in pending
            \/ RowsOf(t) = Parse(t, version)
            \/ t = s /\ RowsOf(t) = {GapRow(t)}
  BY <1>0 DEF Mark, RowsInv, RunInv, HandsMatchPhase, HandsAreUnparsed, IndexerTypeOK
<1>2. version' = version
  BY DEF Mark, runVars
<1>3. /\ UnparsedRowIsOpenGap' /\ RowsFromOneParse'
      /\ \A t \in batch \cup fetched : Given(t) \/ (t = s /\ GivenUp)
  <2>1. CASE UNCHANGED <<pending, events, gapState>>
    BY <1>1, <2>1, SameRows
  <2>2. CASE s \in pending /\ ConvertToGap(s, run)
    BY <1>1, <2>2, ConvertKeepsRows
  <2> QED
    <3>1. \/ UNCHANGED vars
          \/ s \in pending /\ CountAttempt(s, run)
          \/ s \in pending /\ ConvertToGap(s, run)
      BY <1>0 DEF Mark, MarkAttempt
    <3> QED
      BY <2>1, <2>2, <3>1, SameLog DEF CountAttempt, gapVars
<1>4. CASE pc' \in {"fetch", "isolate"} /\ batch' = batch \ {s} /\ fetched' = fetched \ {s}
  BY <1>2, <1>3, <1>4 DEF HandsAreUnparsed
<1>5. CASE pc' = "mark" /\ UNCHANGED <<batch, fetched>>
  <2>1. Marked' = s
    BY <1>0, <1>5 DEF Marked, First, OlderIn, Before
  <2> QED
    BY <1>2, <1>3, <1>5, <2>1 DEF HandsAreUnparsed, GapRow
<1> QED
  BY <1>0, <1>1, <1>3, <1>4, <1>5 DEF Mark, Goto, AnswerLost, workVars

(* An ingest by the run that holds the signatures, its answer lost or not.    *)
LEMMA IngestStepRows ==
    ASSUME RowsInv, IngestFetched \/ IngestAlone
    PROVE  UnparsedRowIsOpenGap' /\ RowsFromOneParse' /\ HandsAreUnparsed'
<1>1. /\ version \in Versions /\ batch = {} /\ fetched \subseteq Sigs
      /\ \A s \in fetched : s \in pending \/ RowsOf(s) = Parse(s, version)
      /\ pc \in {"fetch", "isolate"}
  BY DEF RowsInv, RunInv, HandsMatchPhase, HandsAreUnparsed, IndexerTypeOK,
         IngestFetched, IngestAlone
<1>2. version' = version
  BY DEF IngestFetched, IngestAlone, runVars
<1>3. ASSUME NEW S \in SUBSET fetched, Ingest(S, version, FALSE)
      PROVE  /\ UnparsedRowIsOpenGap' /\ RowsFromOneParse'
             /\ \A s \in fetched : s \in pending' \/ RowsOf(s)' = Parse(s, version)
  <2>1. /\ UnparsedRowIsOpenGap' /\ RowsFromOneParse'
        /\ \A s \in S : RowsOf(s)' = Parse(s, version)
        /\ \A s \in Sigs \ S : RowsOf(s)' = RowsOf(s)
        /\ pending' = pending \ S
    BY <1>1, <1>3, IngestKeepsRows
  <2> QED
    BY <1>1, <2>1
<1>4. fetched' \subseteq fetched /\ batch' = {}
  BY <1>1 DEF IngestFetched, IngestAlone, DropWork, AnswerLost, workVars
<1>5. CASE \E S \in SUBSET fetched : Ingest(S, version, FALSE)
  BY <1>2, <1>3, <1>4, <1>5 DEF HandsAreUnparsed
<1>6. CASE UNCHANGED vars /\ fetched = {}
  BY <1>4, <1>6, SameRows, SameLog DEF HandsAreUnparsed
<1>7. fetched # {} => First(fetched) \in fetched
  BY <1>1, FirstIsMember
<1> QED
  BY <1>5, <1>6, <1>7 DEF IngestFetched, IngestAlone

(* A repair or a reparse replaces whatever rows the signature had.           *)
LEMMA ReplaceRows ==
    ASSUME RowsInv, RetryGap \/ Reparse
    PROVE  UnparsedRowIsOpenGap' /\ RowsFromOneParse'
<1>1. version \in Versions /\ batch \subseteq Sigs /\ Candidates \subseteq Sigs
  BY CandidatesLedgered, LogTypes, SigTypes
  DEF RowsInv, RunInv, HandsMatchPhase, IndexerTypeOK, RetryGap, Reparse
<1>2. ASSUME NEW S \in SUBSET Sigs, Ingest(S, version, TRUE)
      PROVE  UnparsedRowIsOpenGap' /\ RowsFromOneParse'
  BY <1>1, <1>2, IngestKeepsRows
<1>3. CASE UNCHANGED vars
  BY <1>3, SameRows, SameLog
<1>4. CASE Reparse
  BY <1>1, <1>2, <1>4 DEF Reparse
<1>5. CASE RetryGap
  <2>1. First(batch) \in Sigs
    BY <1>1, <1>5, FirstIsMember DEF RetryGap
  <2> QED
    BY <1>2, <1>3, <1>5, <2>1 DEF RetryGap, Repair
<1> QED
  BY <1>4, <1>5

LEMMA RowsInvStep == RowsInv /\ [IndexerNext]_indexerVars => RowsInv'
<1> SUFFICES ASSUME RowsInv, [IndexerNext]_indexerVars
             PROVE  UnparsedRowIsOpenGap' /\ RowsFromOneParse' /\ HandsAreUnparsed'
  BY RunInvStep DEF RowsInv
<1>1. RunInv /\ HandsAreUnparsed
  BY DEF RowsInv
<1> DEFINE Hands == pc' \in {"fetch", "mark", "isolate"}
<1>2. ~Hands => HandsAreUnparsed'
  BY DEF HandsAreUnparsed
<1>3. ASSUME UNCHANGED <<pending, events, gapState, pc, batch, fetched, version>>
      PROVE  UnparsedRowIsOpenGap' /\ RowsFromOneParse' /\ HandsAreUnparsed'
  <2>1. Marked' = Marked
    BY <1>3 DEF Marked, First, OlderIn, Before
  <2> QED
    BY <1>1, <1>3, <2>1, SameRows DEF HandsAreUnparsed, GapRow
<1>4. ASSUME UNCHANGED <<pending, events, gapState, version>>,
             batch' \cup fetched' \subseteq batch \cup fetched \cup pending,
             pc \in {"read", "fetch", "isolate"}
      PROVE  UnparsedRowIsOpenGap' /\ RowsFromOneParse' /\ HandsAreUnparsed'
  <2>1. \A s \in batch' \cup fetched' : s \in pending \/ RowsOf(s) = Parse(s, version)
    <3>1. pc = "read" => batch \cup fetched = {}
      BY <1>1 DEF RunInv, HandsMatchPhase
    <3> QED
      BY <1>1, <1>4, <3>1 DEF HandsAreUnparsed
  <2> QED
    BY <1>4, <2>1, SameRows DEF HandsAreUnparsed
<1>5. CASE UNCHANGED indexerVars
  BY <1>3, <1>5, SameLog DEF indexerVars, workVars, runVars
<1>6. CASE Mark
  BY <1>6, MarkRows
<1>7. CASE IngestFetched \/ IngestAlone
  BY <1>7, IngestStepRows
<1>8. CASE TakeBatch
  <2>1. batch' \subseteq pending
    BY <1>8, OldestNewestSubset DEF TakeBatch
  <2> QED
    BY <1>4, <1>8, <2>1, SameLog DEF TakeBatch, runVars
<1>9. CASE Fetch
  <2>1. First(batch) \in batch
    BY <1>1, <1>9, FirstIsMember DEF Fetch, RunInv, IndexerTypeOK
  <2> QED
    BY <1>4, <1>9, <2>1, SameLog DEF Fetch, runVars
<1>10. CASE BatchRejected \/ RejectAlone
  BY <1>4, <1>10, SameLog DEF BatchRejected, RejectAlone, runVars, workVars
<1>11. CASE RetryGap \/ Reparse
  <2>1. ~Hands
    BY <1>11 DEF RetryGap, Reparse, Goto, AnswerLost
  <2> QED
    BY <1>2, <1>11, <2>1, ReplaceRows
<1>12. CASE CompactAndEnd
  <2>1. ~Hands
    BY <1>12 DEF CompactAndEnd, Goto, AnswerLost
  <2> QED
    BY <1>2, <1>12, <2>1, CompactKeepsRows DEF CompactAndEnd
<1>13. CASE /\ IndexerNext
            /\ ~Mark /\ ~IngestFetched /\ ~IngestAlone /\ ~TakeBatch /\ ~Fetch
            /\ ~BatchRejected /\ ~RejectAlone /\ ~RetryGap /\ ~Reparse /\ ~CompactAndEnd
  <2>1. CASE Hands
    BY <1>1, <1>3, <1>13, <2>1, HandsKept
  <2>2. CASE ~Hands
    BY <1>2, <1>13, <2>2, RowsKept, SameRows
  <2> QED
    BY <2>1, <2>2
<1> QED
  BY <1>5, <1>6, <1>7, <1>8, <1>9, <1>10, <1>11, <1>12, <1>13

LEMMA RowsInvAlways == IndexerSpec => []RowsInv
<1>1. IndexerInit => RowsInv
  BY RunInvInit
  DEF RowsInv, UnparsedRowIsOpenGap, RowsFromOneParse, HandsAreUnparsed, IndexerInit,
      Init, Ledgered, SigsOf
<1> QED
  BY <1>1, RowsInvStep, PTL DEF IndexerSpec

(* "(counted as unparsed, listed in health, retried later)": under the worker *)
(* the kind 253 row of every signature is that of an open gap.               *)
THEOREM UnparsedRowsAreOpenGaps == IndexerSpec => []UnparsedRowIsOpenGap
<1>1. RowsInv => UnparsedRowIsOpenGap
  BY DEF RowsInv
<1> QED
  BY <1>1, RowsInvAlways, PTL

(* Replays, late batches and reparses of one worker leave the rows of one     *)
(* parse: what lk_ingest's "on conflict do nothing" needs to be harmless.     *)
THEOREM RowsComeFromOneParse == IndexerSpec => []RowsFromOneParse
<1>1. RowsInv => RowsFromOneParse
  BY DEF RowsInv
<1> QED
  BY <1>1, RowsInvAlways, PTL
=============================================================================
