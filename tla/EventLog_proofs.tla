--------------------------- MODULE EventLog_proofs ---------------------------
(***************************************************************************)
(* Proofs about the event log for every feed, every set of parser          *)
(* versions and runs, and every retention: types, the inductive invariant  *)
(* Inv, the safety properties that follow from it, and that each call is    *)
(* one step of SignatureLedger or leaves its variables alone.              *)
(***************************************************************************)
EXTENDS EventLog, TLAPS, FiniteSetTheorems

-----------------------------------------------------------------------------
(* Facts about ledger rows *)

(* The parser's rows are ledger rows of the signature, at least one of them. *)
LEMMA ParseRows ==
    ASSUME NEW s \in Sigs, NEW v \in Versions
    PROVE  /\ Parse(s, v) \subseteq Row
           /\ \A r \in Parse(s, v) : r.sig = s
           /\ [sig |-> s, seq |-> 0, pv |-> v] \in Parse(s, v)
<1>1. Width[s][v] \in Nat
  BY ParserAssumption
<1>2. 0 \in 0..Width[s][v] /\ 0..Width[s][v] \subseteq Nat
  BY <1>1
<1> QED
  BY <1>2, ParserAssumption DEF Parse, Row

LEMMA GapRowIsRow ==
    ASSUME NEW s \in Sigs
    PROVE  GapRow(s) \in Row /\ GapRow(s).sig = s
BY DEF GapRow, Row

(* What lk_ingest inserts are rows of the call's signatures. *)
LEMMA InsertedRows ==
    ASSUME NEW S \in SUBSET Sigs, NEW v \in Versions, NEW kept
    PROVE  \A r \in Inserted(ParseAll(S, v), kept) :
                r \in Row /\ r.sig \in S
<1> SUFFICES ASSUME NEW r \in Inserted(ParseAll(S, v), kept)
             PROVE  r \in Row /\ r.sig \in S
  OBVIOUS
<1>1. PICK s \in S : r \in Parse(s, v)
  BY DEF Inserted, ParseAll
<1>2. Parse(s, v) \subseteq Row /\ \A q \in Parse(s, v) : q.sig = s
  BY ParseRows
<1> QED
  BY <1>1, <1>2

LEMMA LedgeredSigs == events \subseteq Row => Ledgered \subseteq Sigs
BY DEF Ledgered, SigsOf, Row

-----------------------------------------------------------------------------
(* Type correctness *)

LEMMA TypeInit == Init => TypeOK
<1> USE SigsAssumption, ParserAssumption, LimitsAssumption
<1> SUFFICES ASSUME Init PROVE TypeOK
  OBVIOUS
<1>1. attempts \in [Sigs -> 0..MaxAttempts - 1] /\ gapSince \in [Sigs -> 0..LastDay]
  BY DEF Init
<1>2. lastRun \in [Sigs -> RunIds \cup {NoRun}]
      /\ gapState \in [Sigs -> {"none", "open", "resolved"}]
  BY DEF Init
<1>3. daily \in [Days -> SUBSET Row] /\ discoveredAt \in 0..LastDay /\ today \in Days
  BY DEF Init, Days
<1> QED
  BY <1>1, <1>2, <1>3 DEF Init, TypeOK

LEMMA TypeStep == TypeOK /\ [Next]_vars => TypeOK'
<1> USE SigsAssumption, ParserAssumption, LimitsAssumption
<1> SUFFICES ASSUME TypeOK, [Next]_vars
             PROVE  TypeOK'
  OBVIOUS
<1> USE DEF TypeOK
<1>1. ASSUME NEW S \in SUBSET Sigs, NEW f \in Finals \cup {NoFinal}, Enqueue(S, f)
      PROVE  TypeOK'
  <2>1. f.slot \in Nat /\ f.at \in 0..LastDay /\ f.end \in BOOLEAN
    <3>1. CASE f = NoFinal
      BY <3>1 DEF NoFinal
    <3>2. CASE f \in Finals
      <4>1. f.slot \in {0} \cup {Slot[s] : s \in Sigs} /\ f.at \in Days /\ f.end \in BOOLEAN
        BY <3>2 DEF Finals
      <4> QED
        BY <4>1 DEF Days
    <3> QED
      BY <3>1, <3>2
  <2>2. frontier' \in Nat /\ discoveredAt' \in 0..LastDay /\ historyEnd' \in BOOLEAN
    BY <1>1, <2>1 DEF Enqueue, Later
  <2>3. backfillComplete' \in BOOLEAN
    BY <1>1 DEF Enqueue, MaybeCompleteBackfill
  <2>4. pending' \subseteq Sigs /\ known' \subseteq Sigs
    BY <1>1 DEF Enqueue, Accepted
  <2> QED
    BY <1>1, <2>2, <2>3, <2>4 DEF Enqueue, retentionVars, gapVars
<1>2. ASSUME NEW S \in SUBSET Sigs, NEW v \in Versions, NEW replace \in BOOLEAN,
             Ingest(S, v, replace)
      PROVE  TypeOK'
  <2> DEFINE kept == Kept(S, replace)
             inserted == Inserted(ParseAll(S, v), kept)
  <2>1. kept \subseteq events
    BY DEF Kept
  <2>2. events' \subseteq Row
    <3>1. inserted \subseteq Row
      BY InsertedRows
    <3> QED
      BY <1>2, <2>1, <3>1 DEF Ingest
  <2>3. daily' \in [Days -> SUBSET Row]
    BY <1>2, <2>2 DEF Ingest, RecomputeDays, Recomputed, RowsOn
  <2>4. pending' \subseteq Sigs /\ attempts' \in [Sigs -> 0..MaxAttempts - 1]
        /\ lastRun' \in [Sigs -> RunIds \cup {NoRun}]
    BY <1>2 DEF Ingest, Dequeue
  <2>5. gapState' \in [Sigs -> {"none", "open", "resolved"}]
    BY <1>2 DEF Ingest
  <2>6. ingestedSigs' \in Nat
    <3>1. IsFiniteSet(NewSigs(S))
      BY FS_Subset DEF NewSigs
    <3> QED
      BY <1>2, <3>1, FS_CardinalityType DEF Ingest
  <2>7. backfillComplete' \in BOOLEAN
    BY <1>2 DEF Ingest, MaybeCompleteBackfill
  <2> QED
    BY <1>2, <2>2, <2>3, <2>4, <2>5, <2>6, <2>7
    DEF Ingest, retentionVars, discoveryVars
<1>3. ASSUME NEW s \in Sigs, NEW r \in RunIds, CountAttempt(s, r)
      PROVE  TypeOK'
  <2>1. AttemptsAfter(s, r) \in 0..MaxAttempts - 1
    BY <1>3 DEF CountAttempt, AttemptsAfter, Exhausted
  <2> QED
    BY <1>3, <2>1 DEF CountAttempt, retentionVars, gapVars, discoveryVars
<1>4. ASSUME NEW s \in Sigs, NEW r \in RunIds, ConvertToGap(s, r)
      PROVE  TypeOK'
  <2>1. events' \subseteq Row
    BY <1>4, GapRowIsRow DEF ConvertToGap, Inserted
  <2>2. daily' \in [Days -> SUBSET Row]
    BY <1>4, <2>1 DEF ConvertToGap, RecomputeDays, Recomputed, RowsOn
  <2>3. pending' \subseteq Sigs /\ attempts' \in [Sigs -> 0..MaxAttempts - 1]
        /\ lastRun' \in [Sigs -> RunIds \cup {NoRun}]
    BY <1>4 DEF ConvertToGap, Dequeue
  <2>4. gapState' \in [Sigs -> {"none", "open", "resolved"}]
        /\ gapSince' \in [Sigs -> 0..LastDay]
    BY <1>4 DEF ConvertToGap, Days
  <2>5. ingestedSigs' \in Nat /\ backfillComplete' \in BOOLEAN
    BY <1>4 DEF ConvertToGap, MaybeCompleteBackfill
  <2> QED
    BY <1>4, <2>1, <2>2, <2>3, <2>4, <2>5
    DEF ConvertToGap, retentionVars, discoveryVars
<1>5. CASE Compact
  BY <1>5 DEF Compact, queueVars, gapVars, discoveryVars
<1>6. CASE Tick
  BY <1>6 DEF Tick, queueVars, retentionVars, gapVars, discoveryVars, Days
<1>7. CASE UNCHANGED vars
  BY <1>7 DEF vars, queueVars, retentionVars, gapVars, discoveryVars
<1>8. CASE EnqueueChunk
  BY <1>1, <1>8 DEF EnqueueChunk
<1>9. CASE EnqueueFinal
  BY <1>1, <1>9 DEF EnqueueFinal
<1>10. CASE IngestBatch
  BY <1>2, <1>10 DEF IngestBatch
<1>11. CASE ReplaceBatch
  BY <1>2, <1>11, LedgeredSigs DEF ReplaceBatch
<1>12. CASE \E s \in Sigs, r \in RunIds : MarkAttempt(s, r)
  BY <1>3, <1>4, <1>12 DEF MarkAttempt
<1> QED
  BY <1>5, <1>6, <1>7, <1>8, <1>9, <1>10, <1>11, <1>12 DEF Next

(* Every variable of the event log keeps the type of its column.             *)
THEOREM TypeCorrect == Spec => []TypeOK
BY TypeInit, TypeStep, PTL DEF Spec

-----------------------------------------------------------------------------
(* The ledger and its rollups *)

(* A signature of the ledger is in a rollup; on an open day, also conversely. *)
LEMMA RecordedLedgered ==
    ASSUME TypeOK, DailyIsRecompute, RollupRowsOnTheirDay
    PROVE  /\ Ledgered \subseteq Recorded
           /\ Recorded \subseteq Sigs
           /\ \A s \in Recorded : Day[s] \notin compacted => s \in Ledgered
<1> USE SigsAssumption
<1>1. Ledgered \subseteq Recorded
  <2> SUFFICES ASSUME NEW r \in events PROVE r.sig \in Recorded
    BY DEF Ledgered, SigsOf
  <2>1. r.sig \in Sigs /\ Day[r.sig] \in Days
    BY DEF TypeOK, Row
  <2>2. r \in RowsOn(events, Day[r.sig])
    BY DEF RowsOn
  <2>3. r \in daily[Day[r.sig]]
    BY <2>1, <2>2 DEF DailyIsRecompute
  <2> QED
    BY <2>1, <2>3 DEF Recorded, SigsOf
<1>2. ASSUME NEW s \in Recorded
      PROVE  \E d \in Days : \E r \in daily[d] : r.sig = s /\ Day[s] = d /\ s \in Sigs
  <2>1. PICK d \in Days : s \in SigsOf(daily[d])
    BY DEF Recorded
  <2>2. PICK r \in daily[d] : r.sig = s
    BY <2>1 DEF SigsOf
  <2>3. r \in Row
    BY <2>2 DEF TypeOK
  <2> QED
    BY <2>2, <2>3 DEF RollupRowsOnTheirDay, Row
<1>3. ASSUME NEW s \in Recorded, Day[s] \notin compacted
      PROVE  s \in Ledgered
  <2>1. PICK d \in Days : \E r \in daily[d] : r.sig = s /\ Day[s] = d
    BY <1>2
  <2>2. PICK r \in daily[d] : r.sig = s
    BY <2>1
  <2>3. r \in events
    BY <2>1, <2>2, <1>3 DEF DailyIsRecompute, RowsOn
  <2> QED
    BY <2>2, <2>3 DEF Ledgered, SigsOf
<1> QED
  BY <1>1, <1>2, <1>3

(* What a write of lk_ingest or lk_mark_attempt does to the rollups: kept    *)
(* rows stay, the rows I come in, every signature that lost rows gets some   *)
(* of I, and the days of both are recomputed.                                *)
LEMMA LedgerWrite ==
    ASSUME TypeOK, DailyIsRecompute, RollupRowsOnTheirDay,
           NEW kept \in SUBSET events, NEW I \in SUBSET Row,
           SigsOf(events \ kept) \subseteq SigsOf(I),
           events' = kept \cup I,
           RecomputeDays(DaysOf(I \cup (events \ kept)), events'),
           UNCHANGED compacted
    PROVE  /\ DailyIsRecompute'
           /\ RollupRowsOnTheirDay'
           /\ Recorded' = Recorded \cup SigsOf(I)
           /\ \A s \in SigsOf(I) : Day[s] \notin compacted
<1> DEFINE D == DaysOf(I \cup (events \ kept))
<1>1. /\ \A r \in I \cup (events \ kept) : Day[r.sig] \in D
      /\ D \cap compacted = {}
      /\ daily' = [d \in Days |-> IF d \in D THEN RowsOn(events', d) ELSE daily[d]]
  BY DEF RecomputeDays, Rewritable, Recomputed, DaysOf
<1>2. ASSUME NEW d \in Days, d \notin D
      PROVE  RowsOn(events', d) = RowsOn(events, d)
  BY <1>1, <1>2 DEF RowsOn
<1>3. \A r \in I : r.sig \in Sigs /\ Day[r.sig] \in Days
  BY SigsAssumption DEF Row
<1> HIDE DEF D
<1>4. DailyIsRecompute'
  <2> SUFFICES ASSUME NEW d \in Days
               PROVE  IF d \in compacted THEN RowsOn(events', d) = {}
                                         ELSE daily'[d] = RowsOn(events', d)
    BY DEF DailyIsRecompute, RowsOn
  <2>1. CASE d \in D
    BY <2>1, <1>1
  <2>2. CASE d \notin D
    BY <2>2, <1>1, <1>2 DEF DailyIsRecompute
  <2> QED
    BY <2>1, <2>2
<1>5. RollupRowsOnTheirDay'
  <2> SUFFICES ASSUME NEW d \in Days, NEW r \in daily'[d]
               PROVE  Day[r.sig] = d
    BY DEF RollupRowsOnTheirDay
  <2>1. CASE d \in D
    BY <2>1, <1>1 DEF RowsOn
  <2>2. CASE d \notin D
    BY <2>2, <1>1 DEF RollupRowsOnTheirDay
  <2> QED
    BY <2>1, <2>2
<1>6. Recorded' \subseteq Recorded \cup SigsOf(I)
  <2> SUFFICES ASSUME NEW d \in Days, NEW r \in daily'[d]
               PROVE  r.sig \in Recorded \cup SigsOf(I)
    BY DEF Recorded, SigsOf
  <2>1. CASE d \in D
    <3>1. r \in kept \cup I
      BY <2>1, <1>1 DEF RowsOn
    <3>2. CASE r \in I
      BY <3>2 DEF SigsOf
    <3>3. CASE r \in kept
      BY <3>3, RecordedLedgered DEF Ledgered, SigsOf
    <3> QED
      BY <3>1, <3>2, <3>3
  <2>2. CASE d \notin D
    BY <2>2, <1>1 DEF Recorded, SigsOf
  <2> QED
    BY <2>1, <2>2
<1>7. SigsOf(I) \subseteq Recorded'
  <2> SUFFICES ASSUME NEW r \in I PROVE r.sig \in Recorded'
    BY DEF SigsOf
  <2>1. r \in daily'[Day[r.sig]]
    BY <1>1, <1>3 DEF RowsOn
  <2> QED
    BY <2>1, <1>3 DEF Recorded, SigsOf
<1>8. Recorded \subseteq Recorded'
  <2> SUFFICES ASSUME NEW d \in Days, NEW r \in daily[d]
               PROVE  r.sig \in Recorded'
    BY DEF Recorded, SigsOf
  <2>1. CASE d \notin D
    BY <2>1, <1>1 DEF Recorded, SigsOf
  <2>2. CASE d \in D
    <3>1. r \in events /\ Day[r.sig] = d
      BY <2>2, <1>1 DEF DailyIsRecompute, RowsOn
    <3>2. CASE r \in kept
      <4>1. r \in daily'[d]
        BY <3>1, <3>2, <2>2, <1>1 DEF RowsOn
      <4> QED
        BY <4>1 DEF Recorded, SigsOf
    <3>3. CASE r \notin kept
      BY <3>1, <3>3, <1>7 DEF SigsOf
    <3> QED
      BY <3>2, <3>3
  <2> QED
    BY <2>1, <2>2
<1> QED
  BY <1>1, <1>4, <1>5, <1>6, <1>7, <1>8 DEF SigsOf

(* Adding signatures that no rollup holds raises the count of the recorded   *)
(* ones by their number.                                                     *)
LEMMA CountNew ==
    ASSUME NEW R \in SUBSET Sigs, NEW N \in SUBSET Sigs, N \cap R = {}
    PROVE  Cardinality(R \cup N) = Cardinality(R) + Cardinality(N)
<1>1. IsFiniteSet(R) /\ IsFiniteSet(N)
  BY SigsAssumption, FS_Subset
<1>2. R \cap N = {}
  OBVIOUS
<1>3. Cardinality(R \cap N) = 0
  BY <1>2, FS_EmptySet
<1>4. Cardinality(R) \in Nat /\ Cardinality(N) \in Nat
  BY <1>1, FS_CardinalityType
<1>5. Cardinality(R \cup N) = Cardinality(R) + Cardinality(N) - Cardinality(R \cap N)
  BY <1>1, FS_Union
<1> QED
  BY <1>3, <1>4, <1>5

-----------------------------------------------------------------------------
(* The inductive invariant *)

LEMMA InvInit == Init => Inv
<1> SUFFICES ASSUME Init PROVE Inv
  OBVIOUS
<1>1. TypeOK
  BY TypeInit
<1>2. Recorded = {} /\ Ledgered = {}
  BY DEF Init, Recorded, Ledgered, SigsOf
<1>3. DailyIsRecompute
  BY DEF Init, DailyIsRecompute, RowsOn
<1>4. CountedOnce
  BY <1>2, FS_EmptySet DEF Init, CountedOnce
<1>5. RollupRowsOnTheirDay
  BY DEF Init, RollupRowsOnTheirDay
<1> QED
  BY <1>1, <1>2, <1>3, <1>4, <1>5
  DEF Init, Inv, QueueLedgerDisjoint, SealedIsCompacted, QueueNeverRefused, NothingLost

(* A signature that is not in the ledger has all its new rows inserted. *)
LEMMA NewRowsInserted ==
    ASSUME TypeOK, NEW S \in SUBSET Sigs, NEW v \in Versions,
           NEW kept \in SUBSET events, NEW s \in S,
           \A r \in kept : r.sig # s
    PROVE  s \in SigsOf(Inserted(ParseAll(S, v), kept))
<1> DEFINE first == [sig |-> s, seq |-> 0, pv |-> v]
<1>1. first \in Parse(s, v)
  BY ParseRows
<1>2. first \in Inserted(ParseAll(S, v), kept)
  BY <1>1 DEF Inserted, ParseAll, SameKey
<1>3. first.sig = s
  OBVIOUS
<1> QED
  BY <1>2, <1>3 DEF SigsOf

LEMMA InvIngest ==
    ASSUME Inv, NEW S \in SUBSET Sigs, NEW v \in Versions, NEW replace \in BOOLEAN,
           Ingest(S, v, replace), TypeOK'
    PROVE  Inv'
<1> DEFINE kept == Kept(S, replace)
           inserted == Inserted(ParseAll(S, v), kept)
<1> USE DEF Inv
<1>1. kept \subseteq events /\ \A r \in events \ kept : r.sig \in S /\ replace
  BY DEF Kept
<1>2. inserted \subseteq Row /\ SigsOf(inserted) \subseteq S
  BY InsertedRows DEF SigsOf
<1>3. SigsOf(events \ kept) \subseteq SigsOf(inserted)
  <2> SUFFICES ASSUME NEW r \in events \ kept PROVE r.sig \in SigsOf(inserted)
    BY DEF SigsOf
  <2>1. r.sig \in S /\ \A q \in kept : q.sig # r.sig
    BY <1>1 DEF Kept
  <2> QED
    BY <1>1, <2>1, NewRowsInserted
<1>4. events' = kept \cup inserted /\ UNCHANGED <<sealed, compacted, known>>
      /\ RecomputeDays(DaysOf(inserted \cup (events \ kept)), events')
      /\ pending' = pending \ S
      /\ ingestedSigs' = ingestedSigs + Cardinality(NewSigs(S))
  BY DEF Ingest, Dequeue, retentionVars
<1> HIDE DEF inserted
<1>5. /\ DailyIsRecompute' /\ RollupRowsOnTheirDay'
      /\ Recorded' = Recorded \cup SigsOf(inserted)
      /\ \A s \in SigsOf(inserted) : Day[s] \notin compacted
  BY <1>1, <1>2, <1>3, <1>4, LedgerWrite
<1>6. QueueLedgerDisjoint'
  BY <1>1, <1>2, <1>4 DEF QueueLedgerDisjoint, Ledgered, SigsOf
<1>7. SealedIsCompacted' /\ QueueNeverRefused'
  BY <1>4 DEF SealedIsCompacted, QueueNeverRefused, Rewritable
<1>8. NewSigs(S) \subseteq SigsOf(inserted)
  <2> SUFFICES ASSUME NEW s \in NewSigs(S) PROVE s \in SigsOf(inserted)
    OBVIOUS
  <2>1. s \in S /\ \A r \in kept : r.sig # s
    BY <1>1 DEF NewSigs, Ledgered, SigsOf
  <2> QED
    BY <1>1, <2>1, NewRowsInserted DEF inserted
<1>9. NothingLost'
  <2> SUFFICES ASSUME NEW s \in known, s \notin pending' PROVE s \in Recorded'
    BY <1>4 DEF NothingLost
  <2>1. CASE s \in Recorded
    BY <2>1, <1>5
  <2>2. CASE s \in pending
    BY <2>2, <1>4, <1>5, <1>8 DEF QueueLedgerDisjoint, NewSigs
  <2> QED
    BY <2>1, <2>2 DEF NothingLost
<1>10. CountedOnce'
  <2>1. Recorded' = Recorded \cup NewSigs(S)
    BY <1>2, <1>5, <1>8, RecordedLedgered DEF NewSigs
  <2>2. NewSigs(S) \cap Recorded = {}
    BY <1>5, <1>8, RecordedLedgered DEF NewSigs
  <2>3. NewSigs(S) \subseteq Sigs /\ Recorded \subseteq Sigs
    BY RecordedLedgered DEF NewSigs
  <2>4. Cardinality(Recorded \cup NewSigs(S)) = Cardinality(Recorded) + Cardinality(NewSigs(S))
    BY <2>2, <2>3, CountNew
  <2> QED
    BY <2>1, <2>4, <1>4 DEF CountedOnce
<1> QED
  BY <1>5, <1>6, <1>7, <1>9, <1>10

LEMMA InvConvertToGap ==
    ASSUME Inv, NEW s \in Sigs, NEW r \in RunIds, ConvertToGap(s, r), TypeOK'
    PROVE  Inv'
<1> DEFINE I == {GapRow(s)}
<1> USE DEF Inv
<1>1. s \in pending /\ s \notin Ledgered /\ s \notin Recorded
  <2>1. s \in pending /\ s \notin Ledgered /\ Day[s] \notin compacted
    BY DEF ConvertToGap, QueueLedgerDisjoint, QueueNeverRefused
  <2> QED
    BY <2>1, RecordedLedgered
<1>2. Inserted(I, events) = I
  BY <1>1, GapRowIsRow DEF Inserted, SameKey, Ledgered, SigsOf
<1>3. I \subseteq Row /\ SigsOf(I) = {s}
  BY GapRowIsRow DEF SigsOf
<1> HIDE DEF I
<1>4. events' = events \cup I /\ UNCHANGED <<sealed, compacted, known>>
      /\ RecomputeDays({Day[s]}, events')
      /\ pending' = pending \ {s}
      /\ ingestedSigs' = ingestedSigs + 1
  BY <1>2 DEF ConvertToGap, Dequeue, retentionVars, I
<1>5. /\ DailyIsRecompute' /\ RollupRowsOnTheirDay'
      /\ Recorded' = Recorded \cup {s}
  <2>1. I \cup (events \ events) = I /\ SigsOf(events \ events) = {}
    BY DEF SigsOf
  <2>2. DaysOf(I) = {Day[s]}
    BY GapRowIsRow DEF DaysOf, I
  <2>3. RecomputeDays(DaysOf(I \cup (events \ events)), events')
    BY <1>4, <2>1, <2>2
  <2>4. SigsOf(events \ events) \subseteq SigsOf(I) /\ events \in SUBSET events /\ I \in SUBSET Row
    BY <1>3, <2>1
  <2> HIDE DEF Inv
  <2>5. TypeOK /\ DailyIsRecompute /\ RollupRowsOnTheirDay
    BY DEF Inv
  <2> QED
    BY <1>3, <1>4, <2>3, <2>4, <2>5, LedgerWrite
<1>6. QueueLedgerDisjoint'
  BY <1>3, <1>4 DEF QueueLedgerDisjoint, Ledgered, SigsOf
<1>7. SealedIsCompacted' /\ QueueNeverRefused'
  BY <1>4 DEF SealedIsCompacted, QueueNeverRefused, Rewritable
<1>8. NothingLost'
  BY <1>4, <1>5 DEF NothingLost
<1>9. CountedOnce'
  <2>1. IsFiniteSet(Recorded)
    BY SigsAssumption, RecordedLedgered, FS_Subset
  <2> QED
    BY <1>1, <1>4, <1>5, <2>1, FS_AddElement DEF CountedOnce
<1> QED
  BY <1>5, <1>6, <1>7, <1>8, <1>9

LEMMA InvEnqueue ==
    ASSUME Inv, NEW S \in SUBSET Sigs, NEW f, Enqueue(S, f), TypeOK'
    PROVE  Inv'
<1> USE DEF Inv
<1>1. /\ UNCHANGED <<events, daily, sealed, compacted, ingestedSigs>>
      /\ pending' = pending \cup Accepted(S)
      /\ known' = known \cup Accepted(S)
  BY DEF Enqueue, retentionVars
<1>2. Recorded' = Recorded /\ Ledgered' = Ledgered
  BY <1>1 DEF Recorded, Ledgered, SigsOf
<1>3. \A s \in Accepted(S) : s \notin Ledgered /\ Day[s] \notin compacted
  BY DEF Accepted, Queueable
<1>4. QueueLedgerDisjoint' /\ NothingLost'
  BY <1>1, <1>2, <1>3 DEF QueueLedgerDisjoint, NothingLost
<1>5. SealedIsCompacted' /\ QueueNeverRefused'
  BY <1>1, <1>3 DEF SealedIsCompacted, QueueNeverRefused, Rewritable
<1>6. DailyIsRecompute' /\ RollupRowsOnTheirDay' /\ CountedOnce'
  BY <1>1, <1>2 DEF DailyIsRecompute, RowsOn, RollupRowsOnTheirDay, CountedOnce
<1> QED
  BY <1>4, <1>5, <1>6

LEMMA InvCompact ==
    ASSUME Inv, Compact, TypeOK'
    PROVE  Inv'
<1> DEFINE final == {d \in Days : BeforeHorizon(d)}
<1> USE DEF Inv
<1>1. /\ sealed' = sealed \cup {d \in final : daily[d] # {}}
      /\ events' = {r \in events : Day[r.sig] \notin final}
      /\ compacted' = compacted \cup final
      /\ UNCHANGED <<pending, daily, ingestedSigs, known>>
  BY DEF Compact, queueVars
<1>2. \A s \in pending : Day[s] \notin final
  <2> SUFFICES ASSUME NEW s \in pending, BeforeHorizon(Day[s]) PROVE FALSE
    OBVIOUS
  <2>1. Day[s] < Day[s] /\ Day[s] \in Int
    BY SigsAssumption DEF BeforeHorizon, TypeOK, Days
  <2> QED
    BY <2>1
<1> HIDE DEF final
<1>3. DailyIsRecompute'
  BY <1>1 DEF DailyIsRecompute, RowsOn
<1>4. QueueLedgerDisjoint'
  BY <1>1 DEF QueueLedgerDisjoint, Ledgered, SigsOf
<1>5. SealedIsCompacted' /\ QueueNeverRefused'
  BY <1>1, <1>2 DEF SealedIsCompacted, QueueNeverRefused, Rewritable
<1>6. Recorded' = Recorded
  BY <1>1 DEF Recorded, SigsOf
<1>7. RollupRowsOnTheirDay' /\ NothingLost' /\ CountedOnce'
  BY <1>1, <1>6 DEF RollupRowsOnTheirDay, NothingLost, CountedOnce
<1> QED
  BY <1>3, <1>4, <1>5, <1>7

(* Steps that leave the ledger, the rollups and the queue's members alone. *)
LEMMA InvUnchanged ==
    ASSUME Inv, TypeOK',
           UNCHANGED <<pending, events, daily, sealed, compacted, ingestedSigs, known>>
    PROVE  Inv'
<1>1. Recorded' = Recorded /\ Ledgered' = Ledgered
  BY DEF Recorded, Ledgered, SigsOf
<1>2. QueueLedgerDisjoint' /\ NothingLost' /\ CountedOnce'
  BY <1>1 DEF Inv, QueueLedgerDisjoint, NothingLost, CountedOnce
<1>3. DailyIsRecompute' /\ RollupRowsOnTheirDay'
  BY DEF Inv, DailyIsRecompute, RowsOn, RollupRowsOnTheirDay
<1>4. SealedIsCompacted' /\ QueueNeverRefused'
  BY DEF Inv, SealedIsCompacted, QueueNeverRefused, Rewritable
<1> QED
  BY <1>2, <1>3, <1>4 DEF Inv

LEMMA InvStep == Inv /\ [Next]_vars => Inv'
<1> SUFFICES ASSUME Inv, [Next]_vars PROVE Inv'
  OBVIOUS
<1>0. TypeOK'
  BY TypeStep DEF Inv
<1>1. CASE EnqueueChunk
  BY <1>0, <1>1, InvEnqueue DEF EnqueueChunk
<1>2. CASE EnqueueFinal
  BY <1>0, <1>2, InvEnqueue DEF EnqueueFinal
<1>3. CASE IngestBatch
  BY <1>0, <1>3, InvIngest DEF IngestBatch, Inv, TypeOK
<1>4. CASE ReplaceBatch
  <2>1. Ledgered \subseteq Sigs
    BY LedgeredSigs DEF Inv, TypeOK
  <2> QED
    BY <1>0, <1>4, <2>1, InvIngest DEF ReplaceBatch
<1>5. ASSUME NEW s \in Sigs, NEW r \in RunIds, MarkAttempt(s, r)
      PROVE  Inv'
  <2>1. CASE CountAttempt(s, r)
    BY <1>0, <2>1, InvUnchanged DEF CountAttempt, retentionVars
  <2>2. CASE ConvertToGap(s, r)
    BY <1>0, <2>2, InvConvertToGap
  <2> QED
    BY <1>5, <2>1, <2>2 DEF MarkAttempt
<1>6. CASE Compact
  BY <1>0, <1>6, InvCompact
<1>7. CASE Tick
  BY <1>0, <1>7, InvUnchanged DEF Tick, queueVars, retentionVars
<1>8. CASE UNCHANGED vars
  BY <1>0, <1>8, InvUnchanged DEF vars, queueVars, retentionVars
<1> QED
  BY <1>1, <1>2, <1>3, <1>4, <1>5, <1>6, <1>7, <1>8 DEF Next

(* The inductive invariant: queue, ledger, rollups, gaps and retention of    *)
(* lk_enqueue, lk_ingest, lk_mark_attempt and lk_compact stay consistent.    *)
THEOREM InvAlways == Spec => []Inv
BY InvInit, InvStep, PTL DEF Spec

-----------------------------------------------------------------------------
(* What the invariant gives *)

(* A signature is never in the queue and in the ledger at once.              *)
THEOREM QueueAndLedgerStayDisjoint == Spec => []QueueLedgerDisjoint
<1>1. Inv => QueueLedgerDisjoint
  BY DEF Inv
<1> QED
  BY <1>1, InvAlways, PTL

(* R1: an open day's rollup is always the recompute from its ledger rows.    *)
THEOREM RollupsStayRecomputed == Spec => []DailyIsRecompute
<1>1. Inv => DailyIsRecompute
  BY DEF Inv
<1> QED
  BY <1>1, InvAlways, PTL

(* recompute_days never refuses the day of a queued signature.               *)
THEOREM QueueStaysIngestible == Spec => []QueueNeverRefused
<1>1. Inv => QueueNeverRefused
  BY DEF Inv
<1> QED
  BY <1>1, InvAlways, PTL

(* A signature the queue accepted is in the queue or in a rollup ever after. *)
THEOREM NothingIsEverLost == Spec => []NothingLost
<1>1. Inv => NothingLost
  BY DEF Inv
<1> QED
  BY <1>1, InvAlways, PTL

(* ingested_sigs is always the number of recorded signatures.                *)
THEOREM EachCountedOnce == Spec => []CountedOnce
<1>1. Inv => CountedOnce
  BY DEF Inv
<1> QED
  BY <1>1, InvAlways, PTL

(* No call rewrites the rollup of a sealed day, or unseals it.               *)
THEOREM SealedStaysForever == Spec => SealedForever
<1> DEFINE Frozen == \A d \in sealed : d \in sealed' /\ daily'[d] = daily[d]
<1>1. TypeOK /\ [Next]_vars => Frozen
  <2> SUFFICES ASSUME TypeOK, [Next]_vars, NEW d \in sealed
               PROVE  d \in sealed' /\ daily'[d] = daily[d]
    OBVIOUS
  <2>1. d \in Days
    BY DEF TypeOK
  <2>2. ASSUME NEW D, NEW E, RecomputeDays(D, E)
        PROVE  daily'[d] = daily[d]
    BY <2>1, <2>2 DEF RecomputeDays, Rewritable, Recomputed
  <2>3. ASSUME NEW S, NEW v, NEW replace, Ingest(S, v, replace)
        PROVE  sealed' = sealed /\ daily'[d] = daily[d]
    BY <2>2, <2>3 DEF Ingest, retentionVars
  <2>4. ASSUME NEW s, NEW r, ConvertToGap(s, r)
        PROVE  sealed' = sealed /\ daily'[d] = daily[d]
    BY <2>2, <2>4 DEF ConvertToGap, retentionVars
  <2>5. CASE EnqueueChunk
    BY <2>5 DEF EnqueueChunk, Enqueue, retentionVars
  <2>6. CASE EnqueueFinal
    BY <2>6 DEF EnqueueFinal, Enqueue, retentionVars
  <2>7. CASE IngestBatch
    BY <2>3, <2>7 DEF IngestBatch
  <2>8. CASE ReplaceBatch
    BY <2>3, <2>8 DEF ReplaceBatch
  <2>9. CASE \E s \in Sigs, r \in RunIds : MarkAttempt(s, r)
    BY <2>4, <2>9 DEF MarkAttempt, CountAttempt, retentionVars
  <2>10. CASE Compact
    BY <2>10 DEF Compact
  <2>11. CASE Tick
    BY <2>11 DEF Tick, retentionVars
  <2>12. CASE UNCHANGED vars
    BY <2>12 DEF vars, retentionVars
  <2> QED
    BY <2>5, <2>6, <2>7, <2>8, <2>9, <2>10, <2>11, <2>12 DEF Next
<1>2. [Next]_vars /\ TypeOK => [Frozen]_vars
  BY <1>1
<1> QED
  BY <1>2, TypeCorrect, PTL DEF Spec, SealedForever

(* The day of a young open gap stays open, its kind 253 row in the ledger.   *)
THEOREM YoungGapsStayRepairable == Spec => []YoungGapStaysRepairable
<1>1. Init => YoungGapStaysRepairable
  BY DEF Init, YoungGapStaysRepairable, HoldingGaps
<1>2. Inv /\ YoungGapStaysRepairable /\ [Next]_vars => YoungGapStaysRepairable'
  <2> SUFFICES ASSUME Inv, YoungGapStaysRepairable, [Next]_vars,
                      NEW g \in Sigs, g \in HoldingGaps'
               PROVE  GapRow(g) \in events' /\ Day[g] \notin sealed' \cup compacted'
    BY DEF YoungGapStaysRepairable, HoldingGaps, Rewritable
  <2>1. g \in HoldingGaps => GapRow(g) \in events /\ Day[g] \notin sealed \cup compacted
    BY DEF YoungGapStaysRepairable, Rewritable
  <2>2. ASSUME UNCHANGED <<events, sealed, compacted, gapState, gapSince>>,
               today' = today \/ today' = today + 1
        PROVE  GapRow(g) \in events' /\ Day[g] \notin sealed' \cup compacted'
    <3>1. today \in Int /\ gapSince[g] \in Int /\ GapWindow \in Int
      BY LimitsAssumption DEF Inv, TypeOK, Days
    <3>2. g \in HoldingGaps
      BY <2>2, <3>1 DEF HoldingGaps
    <3> QED
      BY <2>1, <2>2, <3>2
  <2>3. ASSUME NEW S \in SUBSET Sigs, NEW v \in Versions, NEW replace \in BOOLEAN,
               Ingest(S, v, replace)
        PROVE  GapRow(g) \in events' /\ Day[g] \notin sealed' \cup compacted'
    <3>1. g \in HoldingGaps /\ g \notin S
      BY <2>3 DEF Ingest, HoldingGaps, Inv, TypeOK
    <3>2. GapRow(g) \in Kept(S, replace)
      BY <2>1, <3>1, GapRowIsRow DEF Kept
    <3> QED
      BY <2>1, <2>3, <3>1, <3>2 DEF Ingest, retentionVars
  <2>4. ASSUME NEW s \in Sigs, NEW r \in RunIds, ConvertToGap(s, r)
        PROVE  GapRow(g) \in events' /\ Day[g] \notin sealed' \cup compacted'
    <3>1. s \in pending /\ s \notin Ledgered /\ Day[s] \notin sealed \cup compacted
      BY <2>4 DEF ConvertToGap, Inv, QueueLedgerDisjoint, QueueNeverRefused, Rewritable
    <3>2. GapRow(s) \in events'
      BY <2>4, <3>1, GapRowIsRow DEF ConvertToGap, Inserted, SameKey, Ledgered, SigsOf
    <3>3. CASE g = s
      BY <2>4, <3>1, <3>2, <3>3 DEF ConvertToGap, retentionVars
    <3>4. CASE g # s
      <4>1. g \in HoldingGaps
        BY <2>4, <3>4 DEF ConvertToGap, HoldingGaps, Inv, TypeOK
      <4> QED
        BY <2>1, <2>4, <4>1 DEF ConvertToGap, retentionVars
    <3> QED
      BY <3>3, <3>4
  <2>5. CASE EnqueueChunk
    BY <2>2, <2>5 DEF EnqueueChunk, Enqueue, retentionVars, gapVars
  <2>6. CASE EnqueueFinal
    BY <2>2, <2>6 DEF EnqueueFinal, Enqueue, retentionVars, gapVars
  <2>7. CASE IngestBatch
    BY <2>3, <2>7 DEF IngestBatch, Inv, TypeOK
  <2>8. CASE ReplaceBatch
    BY <2>3, <2>8, LedgeredSigs DEF ReplaceBatch, Inv, TypeOK
  <2>9. ASSUME NEW s \in Sigs, NEW r \in RunIds, MarkAttempt(s, r)
        PROVE  GapRow(g) \in events' /\ Day[g] \notin sealed' \cup compacted'
    BY <2>2, <2>4, <2>9 DEF MarkAttempt, CountAttempt, retentionVars, gapVars
  <2>10. CASE Compact
    <3>1. g \in HoldingGaps
      BY <2>10 DEF Compact, HoldingGaps, gapVars
    <3>2. ~BeforeHorizon(Day[g])
      <4>1. Day[g] \in Int
        BY SigsAssumption DEF Days
      <4> QED
        BY <3>1, <4>1 DEF BeforeHorizon
    <3>3. Day[GapRow(g).sig] = Day[g]
      BY GapRowIsRow
    <3> QED
      BY <2>1, <2>10, <3>1, <3>2, <3>3 DEF Compact
  <2>11. CASE Tick
    BY <2>2, <2>11 DEF Tick, retentionVars, gapVars
  <2>12. CASE UNCHANGED vars
    BY <2>2, <2>12 DEF vars, retentionVars, gapVars
  <2> QED
    BY <2>5, <2>6, <2>7, <2>8, <2>9, <2>10, <2>11, <2>12 DEF Next
<1> QED
  BY <1>1, <1>2, InvAlways, PTL DEF Spec

-----------------------------------------------------------------------------
(* The abstract ledger *)

Final == {s \in Sigs : Day[s] \in compacted}

(* A signature with a kind 253 row, in a rollup that is open or final. *)
Gapped(s) == GapRow(s) \in daily[Day[s]]

-----------------------------------------------------------------------------
(* Where a signature stands *)

LEMMA StatusOf ==
    ASSUME Inv, NEW s \in Sigs
    PROVE  /\ s \in pending => Status[s] = "queued"
           /\ s \notin pending /\ Gapped(s) => Status[s] = "gap"
           /\ s \notin pending /\ ~Gapped(s) /\ s \in Recorded => Status[s] = "recorded"
           /\ s \notin pending /\ s \notin Recorded => Status[s] = "absent"
<1>1. Day[s] \in Days /\ GapRow(s).sig = s
  BY SigsAssumption, GapRowIsRow
<1>2. \A d \in Days : GapRow(s) \in daily[d] => d = Day[s]
  BY <1>1 DEF Inv, RollupRowsOnTheirDay
<1>3. (\E d \in Days : GapRow(s) \in daily[d]) <=> Gapped(s)
  BY <1>1, <1>2 DEF Gapped
<1>4. Gapped(s) => s \in Recorded
  BY <1>1 DEF Gapped, Recorded, SigsOf
<1> QED
  BY <1>3, <1>4 DEF Status

(* On an open day the gap rows of the rollup are those of the ledger. *)
LEMMA OpenGapRows ==
    ASSUME Inv, NEW s \in Sigs, Day[s] \notin compacted
    PROVE  Gapped(s) <=> GapRow(s) \in events
<1>1. Day[s] \in Days /\ GapRow(s).sig = s
  BY SigsAssumption, GapRowIsRow
<1>2. daily[Day[s]] = RowsOn(events, Day[s])
  BY <1>1 DEF Inv, DailyIsRecompute
<1> QED
  BY <1>1, <1>2 DEF Gapped, RowsOn

LEMMA QueuedIsNew ==
    ASSUME Inv
    PROVE  \A s \in pending : s \in Sigs /\ s \notin Ledgered /\ s \notin Final
BY DEF Inv, TypeOK, QueueLedgerDisjoint, QueueNeverRefused, Final

LEMMA LedgeredIsOpen ==
    ASSUME Inv
    PROVE  \A s \in Ledgered : s \in Sigs /\ s \notin pending /\ s \in Recorded
                               /\ Day[s] \notin compacted
<1> SUFFICES ASSUME NEW r \in events
             PROVE  r.sig \in Sigs /\ r.sig \notin pending /\ r.sig \in Recorded
                    /\ Day[r.sig] \notin compacted
  BY DEF Ledgered, SigsOf
<1>1. r.sig \in Sigs /\ Day[r.sig] \in Days /\ r.sig \in Ledgered
  BY SigsAssumption DEF Inv, TypeOK, Row, Ledgered, SigsOf
<1>2. r \in RowsOn(events, Day[r.sig])
  BY DEF RowsOn
<1>3. Day[r.sig] \notin compacted
  BY <1>1, <1>2 DEF Inv, DailyIsRecompute
<1> QED
  BY <1>1, <1>3, RecordedLedgered DEF Inv, QueueLedgerDisjoint

-----------------------------------------------------------------------------
(* The abstract step behind each call *)

LEMMA EnqueueAccepts ==
    ASSUME Inv, Inv', NEW S \in SUBSET Sigs, NEW f, Enqueue(S, f)
    PROVE  Ledger!Accept(Accepted(S) \ pending)
<1> DEFINE A == Accepted(S) \ pending
<1>1. /\ pending' = pending \cup A
      /\ UNCHANGED <<events, daily, compacted, ingestedSigs>>
      /\ A \subseteq Sigs
  BY DEF Enqueue, retentionVars, Accepted
<1>2. Recorded' = Recorded
  BY <1>1 DEF Recorded, SigsOf
<1>3. \A s \in A : s \notin Recorded /\ s \notin Final
  BY RecordedLedgered DEF Accepted, Queueable, Final, Inv
<1>4. \A s \in A : Status[s] = "absent" /\ s \notin Final
  BY <1>1, <1>3, StatusOf
<1>5. ASSUME NEW s \in Sigs
      PROVE  Status'[s] = IF s \in A THEN "queued" ELSE Status[s]
  BY <1>1 DEF Status, Recorded, SigsOf
<1>6. Status' = [s \in Sigs |-> IF s \in A THEN "queued" ELSE Status[s]]
  BY <1>5 DEF Status
<1> QED
  BY <1>1, <1>4, <1>6 DEF Ledger!Accept, Ledger!Settle, Final

LEMMA ConvertGivesUp ==
    ASSUME Inv, Inv', NEW s \in Sigs, NEW r \in RunIds, ConvertToGap(s, r)
    PROVE  Ledger!GiveUp(s)
<1>1. /\ s \in pending
      /\ pending' = pending \ {s}
      /\ compacted' = compacted
      /\ ingestedSigs' = ingestedSigs + 1
      /\ RecomputeDays({Day[s]}, events')
      /\ events' = events \cup Inserted({GapRow(s)}, events)
  BY DEF ConvertToGap, Dequeue, retentionVars
<1>2. Status[s] = "queued" /\ s \notin Final /\ s \notin Ledgered
  BY <1>1, StatusOf, QueuedIsNew
<1>3. events' = events \cup {GapRow(s)}
  BY <1>1, <1>2, GapRowIsRow DEF Inserted, SameKey, Ledgered, SigsOf
<1>4. Day[s] \in Days /\ GapRow(s).sig = s
  BY SigsAssumption, GapRowIsRow
<1>5. daily' = [d \in Days |-> IF d = Day[s] THEN RowsOn(events', d) ELSE daily[d]]
  BY <1>1 DEF RecomputeDays, Recomputed
<1>6. daily[Day[s]] = RowsOn(events, Day[s])
  BY <1>2, <1>4 DEF Inv, DailyIsRecompute, Final
<1>7. daily' = [d \in Days |-> IF d = Day[s] THEN daily[d] \cup {GapRow(s)} ELSE daily[d]]
  BY <1>3, <1>4, <1>5, <1>6 DEF RowsOn
<1>8. ASSUME NEW t \in Sigs, t # s
      PROVE  Status'[t] = Status[t]
  <2>1. GapRow(t).sig = t
    BY GapRowIsRow
  <2>2. \A d \in Days : GapRow(t) \in daily'[d] <=> GapRow(t) \in daily[d]
    BY <1>4, <1>7, <1>8, <2>1
  <2>3. t \in Recorded' <=> t \in Recorded
    BY <1>4, <1>7, <1>8 DEF Recorded, SigsOf
  <2> QED
    BY <1>1, <1>8, <2>2, <2>3 DEF Status
<1>9. Status'[s] = "gap"
  BY <1>1, <1>4, <1>7 DEF Status
<1>10. Status' = [t \in Sigs |-> IF t \in {s} THEN "gap" ELSE Status[t]]
  BY <1>8, <1>9 DEF Status
<1> QED
  BY <1>1, <1>2, <1>10 DEF Ledger!GiveUp, Ledger!Settle, Final

LEMMA CompactFinalises ==
    ASSUME Inv, Inv', Compact, NEW F, F = Final'
    PROVE  Ledger!Finalise(F)
<1>1. /\ UNCHANGED <<pending, daily, ingestedSigs>>
      /\ compacted \subseteq compacted'
  BY DEF Compact, queueVars
<1>2. Status' = Status
  BY <1>1 DEF Status, Recorded, SigsOf
<1>3. ASSUME NEW s \in Final' PROVE Status[s] # "queued"
  <2>1. s \in Sigs /\ s \notin pending
    BY <1>1 DEF Final, Inv, QueueNeverRefused
  <2> QED
    BY <2>1 DEF Status
<1>4. Final' = Final \cup Final'
  BY <1>1 DEF Final
<1> QED
  BY <1>1, <1>2, <1>3, <1>4 DEF Ledger!Finalise, Final

(* The abstract ledger counts with the same Cardinality. *)
LEMMA SameCardinality == \A S : Ledger!Cardinality(S) = Cardinality(S)
BY Zenon DEF Ledger!Cardinality, Cardinality

(* The signatures an ingest settles: queued ones, and gaps if it replaces.   *)
Settled(S, replace) ==
    {s \in S : s \in pending \/ (replace /\ Gapped(s))}

LEMMA IngestRecords ==
    ASSUME Inv, Inv', NEW S \in SUBSET Sigs, NEW v \in Versions,
           NEW replace \in BOOLEAN, Ingest(S, v, replace),
           S \subseteq pending \cup Ledgered
    PROVE  Ledger!Record(Settled(S, replace))
<1> DEFINE kept == Kept(S, replace)
           inserted == Inserted(ParseAll(S, v), kept)
           R == Settled(S, replace)
<1>1. /\ events' = kept \cup inserted
      /\ compacted' = compacted
      /\ pending' = pending \ S
      /\ ingestedSigs' = ingestedSigs + Cardinality(NewSigs(S))
      /\ kept \subseteq events
      /\ RecomputeDays(DaysOf(inserted \cup (events \ kept)), events')
  BY DEF Ingest, Dequeue, retentionVars, Kept
<1>2. \A r \in inserted : r \in Row /\ r.sig \in S /\ r.pv = v
  <2>1. \A r \in inserted : r \in Row /\ r.sig \in S
    BY InsertedRows
  <2>2. \A r \in ParseAll(S, v) : r.pv = v
    BY DEF ParseAll, Parse
  <2> QED
    BY <2>1, <2>2 DEF Inserted
<1>3. \A s \in S : s \in Sigs /\ Day[s] \notin compacted
  BY QueuedIsNew, LedgeredIsOpen DEF Final
<1> HIDE DEF inserted
<1>4. ASSUME NEW s \in Sigs
      PROVE  GapRow(s) \notin inserted
  <2>1. GapRow(s).pv = 0 /\ v # 0
    BY ParserAssumption DEF GapRow
  <2> QED
    BY <1>2, <2>1
(* The gap row of a signature survives unless it is replaced. *)
<1>5. ASSUME NEW s \in Sigs
      PROVE  Gapped(s)' <=> Gapped(s) /\ ~(replace /\ s \in S)
  <2>1. CASE Day[s] \in compacted
    <3>1. daily'[Day[s]] = daily[Day[s]]
      BY <1>1, <2>1, SigsAssumption DEF RecomputeDays, Rewritable, Recomputed
    <3> QED
      BY <1>3, <2>1, <3>1 DEF Gapped
  <2>2. CASE Day[s] \notin compacted
    <3>1. Gapped(s)' <=> GapRow(s) \in events'
      <4>1. Day[s] \in Days /\ GapRow(s).sig = s
        BY SigsAssumption, GapRowIsRow
      <4>2. daily'[Day[s]] = RowsOn(events', Day[s])
        BY <1>1, <2>2, <4>1 DEF Inv, DailyIsRecompute, RowsOn
      <4> QED
        BY <4>1, <4>2 DEF Gapped, RowsOn, GapRow
    <3>2. GapRow(s) \in events' <=> GapRow(s) \in kept
      BY <1>1, <1>4
    <3>3. GapRow(s) \in kept <=> GapRow(s) \in events /\ ~(replace /\ s \in S)
      BY GapRowIsRow DEF Kept
    <3> QED
      BY <2>2, <3>1, <3>2, <3>3, OpenGapRows
  <2> QED
    BY <2>1, <2>2
<1>6. S \subseteq Recorded' /\ Recorded \subseteq Recorded' /\ Recorded' \subseteq Recorded \cup S
  <2>1. /\ inserted \subseteq Row /\ SigsOf(inserted) \subseteq S
        /\ kept \in SUBSET events
    BY <1>1, <1>2 DEF SigsOf
  <2>2. SigsOf(events \ kept) \subseteq SigsOf(inserted)
    <3> SUFFICES ASSUME NEW r \in events \ kept PROVE r.sig \in SigsOf(inserted)
      BY DEF SigsOf
    <3>1. r.sig \in S /\ \A q \in kept : q.sig # r.sig
      BY DEF Kept
    <3> QED
      BY <1>1, <3>1, NewRowsInserted DEF Inv, inserted
  <2>3. Recorded' = Recorded \cup SigsOf(inserted)
    BY <1>1, <2>1, <2>2, LedgerWrite DEF Inv
  <2>4. ASSUME NEW s \in S PROVE s \in Recorded'
    <3>1. CASE s \in Ledgered
      BY <2>3, <3>1, LedgeredIsOpen
    <3>2. CASE s \notin Ledgered
      <4>1. \A r \in kept : r.sig # s
        BY <1>1, <3>2 DEF Ledgered, SigsOf
      <4>2. s \in SigsOf(inserted)
        BY <1>1, <4>1, NewRowsInserted DEF Inv, inserted
      <4> QED
        BY <2>3, <4>2
    <3> QED
      BY <3>1, <3>2
  <2> QED
    BY <2>1, <2>3, <2>4
<1>7. \A s \in R : Status[s] \in {"queued", "gap"} /\ s \notin Final
  BY <1>3, StatusOf DEF Settled, Final
<1>8. ASSUME NEW s \in Sigs
      PROVE  Status'[s] = IF s \in R THEN "recorded" ELSE Status[s]
  <2>1. /\ s \in pending' => Status'[s] = "queued"
        /\ s \notin pending' /\ Gapped(s)' => Status'[s] = "gap"
        /\ s \notin pending' /\ ~Gapped(s)' /\ s \in Recorded' => Status'[s] = "recorded"
        /\ s \notin pending' /\ s \notin Recorded' => Status'[s] = "absent"
    <3>1. (\E d \in Days : GapRow(s) \in daily'[d]) <=> Gapped(s)'
      <4>1. Day[s] \in Days /\ GapRow(s).sig = s
        BY SigsAssumption, GapRowIsRow
      <4>2. \A d \in Days : GapRow(s) \in daily'[d] => d = Day[s]
        BY <4>1 DEF Inv, RollupRowsOnTheirDay
      <4> QED
        BY <4>1, <4>2 DEF Gapped, GapRow
    <3>2. Gapped(s)' => s \in Recorded'
      <4>1. Day[s] \in Days /\ GapRow(s).sig = s
        BY SigsAssumption, GapRowIsRow
      <4> QED
        BY <4>1 DEF Gapped, Recorded, SigsOf, GapRow
    <3> QED
      BY <3>1, <3>2 DEF Status, GapRow
  <2>2. s \in pending => ~Gapped(s)
    <3>1. s \in pending => s \notin Recorded
      BY QueuedIsNew, RecordedLedgered DEF Inv, Final
    <3>2. Gapped(s) => s \in Recorded
      <4>1. Day[s] \in Days /\ GapRow(s).sig = s
        BY SigsAssumption, GapRowIsRow
      <4> QED
        BY <4>1 DEF Gapped, Recorded, SigsOf
    <3> QED
      BY <3>1, <3>2
  <2>3. Gapped(s) => s \in Recorded
    <3>1. Day[s] \in Days /\ GapRow(s).sig = s
      BY SigsAssumption, GapRowIsRow
    <3> QED
      BY <3>1 DEF Gapped, Recorded, SigsOf
  <2>4. CASE s \in R
    BY <1>1, <1>5, <1>6, <2>1, <2>2, <2>4 DEF Settled
  <2>5. CASE s \in S \ R
    <3>1. s \notin pending /\ s \in Recorded
      BY <2>5, LedgeredIsOpen DEF Settled
    <3> QED
      BY <1>1, <1>5, <1>6, <2>1, <2>5, <3>1, StatusOf DEF Settled
  <2>6. CASE s \notin S
    BY <1>1, <1>5, <1>6, <2>1, <2>6, StatusOf DEF Settled
  <2> QED
    BY <2>4, <2>5, <2>6 DEF Settled
<1>9. Status' = [s \in Sigs |-> IF s \in R THEN "recorded" ELSE Status[s]]
  BY <1>8 DEF Status
<1>10. {s \in R : Status[s] = "queued"} = NewSigs(S)
  <2>1. ASSUME NEW s \in R PROVE Status[s] = "queued" <=> s \in pending
    BY <2>1, StatusOf DEF Settled
  <2>2. ASSUME NEW s \in NewSigs(S) PROVE s \in R /\ s \in pending
    BY DEF NewSigs, Settled
  <2>3. ASSUME NEW s \in R, s \in pending PROVE s \in NewSigs(S)
    BY <2>3, QueuedIsNew DEF NewSigs, Settled
  <2> QED
    BY <2>1, <2>2, <2>3
<1>11. ingestedSigs' = ingestedSigs + Ledger!Cardinality({s \in R : Status[s] = "queued"})
  BY <1>1, <1>10, SameCardinality
<1> QED
  BY <1>1, <1>7, <1>9, <1>11 DEF Ledger!Record, Ledger!Settle, Final

-----------------------------------------------------------------------------
(* The refinement *)

LEMMA LedgerInit == Init => Ledger!Init
<1> SUFFICES ASSUME Init PROVE Ledger!Init
  OBVIOUS
<1>1. Status = [s \in Sigs |-> "absent"]
  BY DEF Init, Status, Recorded, SigsOf
<1>2. Final = {}
  BY DEF Init, Final
<1> QED
  BY <1>1, <1>2 DEF Init, Ledger!Init, Final

LEMMA LedgerStep == Inv /\ Inv' /\ [Next]_vars => [Ledger!Next]_(Ledger!ledgerVars)
<1> SUFFICES ASSUME Inv, Inv', [Next]_vars
             PROVE  Ledger!Next \/ UNCHANGED Ledger!ledgerVars
  BY DEF Ledger!ledgerVars
<1>1. ASSUME NEW S \in SUBSET Sigs, NEW f, Enqueue(S, f)
      PROVE  Ledger!Next
  BY <1>1, EnqueueAccepts DEF Accepted, Ledger!Next
<1>2. ASSUME NEW S \in SUBSET Sigs, NEW v \in Versions, NEW replace \in BOOLEAN,
             Ingest(S, v, replace), S \subseteq pending \cup Ledgered
      PROVE  Ledger!Next
  <2>1. Ledger!Record(Settled(S, replace)) /\ Settled(S, replace) \in SUBSET Sigs
    BY <1>2, IngestRecords DEF Settled
  <2> QED
    BY <2>1 DEF Ledger!Next
<1>3. ASSUME UNCHANGED <<pending, daily, compacted, ingestedSigs>>
      PROVE  UNCHANGED Ledger!ledgerVars
  BY <1>3 DEF Ledger!ledgerVars, Status, Recorded, SigsOf
<1>4. CASE EnqueueChunk
  BY <1>1, <1>4 DEF EnqueueChunk
<1>5. CASE EnqueueFinal
  BY <1>1, <1>5 DEF EnqueueFinal
<1>6. CASE IngestBatch
  <2>1. PICK S \in SUBSET known, v \in Versions : Ingest(S, v, FALSE)
    BY <1>6 DEF IngestBatch
  <2>2. S \subseteq Sigs
    BY DEF Inv, TypeOK
  (* One that is neither queued nor in the ledger was compacted: refused. *)
  <2>3. ASSUME NEW s \in S, s \notin pending, s \notin Ledgered PROVE FALSE
    <3>1. s \in Recorded /\ Day[s] \in compacted
      BY <2>3, RecordedLedgered DEF Inv, NothingLost
    <3>2. s \in SigsOf(Inserted(ParseAll(S, v), events))
      BY <2>2, <2>3, NewRowsInserted DEF Inv, Ledgered, SigsOf
    <3>3. Day[s] \in DaysOf(Inserted(ParseAll(S, v), events))
      BY <3>2 DEF DaysOf, SigsOf
    <3>4. Kept(S, FALSE) = events /\ events \ events = {}
      BY DEF Kept
    <3> QED
      BY <2>1, <3>1, <3>3, <3>4 DEF Ingest, RecomputeDays, Rewritable
  <2> QED
    BY <1>2, <2>1, <2>2, <2>3
<1>7. CASE ReplaceBatch
  <2>1. Ledgered \subseteq Sigs
    BY LedgeredSigs DEF Inv, TypeOK
  <2> QED
    BY <1>2, <1>7, <2>1 DEF ReplaceBatch
<1>8. ASSUME NEW s \in Sigs, NEW r \in RunIds, MarkAttempt(s, r)
      PROVE  Ledger!Next \/ UNCHANGED Ledger!ledgerVars
  <2>1. CASE CountAttempt(s, r)
    BY <1>3, <2>1 DEF CountAttempt, retentionVars
  <2>2. CASE ConvertToGap(s, r)
    BY <2>2, ConvertGivesUp DEF Ledger!Next
  <2> QED
    BY <1>8, <2>1, <2>2 DEF MarkAttempt
<1>9. CASE Compact
  <2>1. PICK F \in SUBSET Sigs : F = Final'
    BY DEF Final
  <2>2. Ledger!Finalise(F)
    BY <1>9, <2>1, CompactFinalises
  <2> QED
    BY <2>2 DEF Ledger!Next
<1>10. CASE Tick
  BY <1>3, <1>10 DEF Tick, queueVars, retentionVars
<1>11. CASE UNCHANGED vars
  BY <1>3, <1>11 DEF vars, queueVars, retentionVars
<1> QED
  BY <1>4, <1>5, <1>6, <1>7, <1>8, <1>9, <1>10, <1>11 DEF Next

(* Whatever callers do, the event log behaves as the abstract ledger: a      *)
(* signature is accepted once, settled once, counted once and then final.    *)
THEOREM EventLogImplementsLedger == Spec => ImplementsLedger
<1>1. Spec => []Inv
  BY InvAlways
<1> QED
  BY <1>1, LedgerInit, LedgerStep, PTL DEF Spec, ImplementsLedger, Ledger!Spec
=============================================================================
