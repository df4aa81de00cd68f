------------------------------ MODULE EventLog ------------------------------
(***************************************************************************)
(* The durable side of the indexer for one build, that is one (program,    *)
(* generation) pair: the queue lk.pending, the ledger lk.events, the gap   *)
(* list lk.gaps, the rollups lk.daily and the progress columns of          *)
(* lk.builds, with one action for every SECURITY DEFINER function that     *)
(* writes them.  Every function takes the build's advisory lock first and  *)
(* runs in one transaction, so a call is one step; callers may overlap,    *)
(* repeat a call, or act on what they read long ago.                       *)
(*                                                                         *)
(* Abstractions.  A rollup row is represented by the set of ledger rows it *)
(* was computed from (lk.rollup is a function of those rows and of nothing *)
(* else).  A ledger row is identified by its signature, its ix_seq and the *)
(* parser version that produced it; version 0 marks the kind 253 row of a  *)
(* signature nobody could fetch.  Time is counted in UTC days.  A          *)
(* nullable column is 0 while it is null.                                  *)
(***************************************************************************)
EXTENDS Integers, FiniteSets

CONSTANTS
    Sigs,         (* signatures of the program's feed                        *)
    Slot,         (* Slot[s]: the slot of a signature                        *)
    Day,          (* Day[s]: the UTC day of its block_time                   *)
    Versions,     (* parser versions that may run                            *)
    Width,        (* Width[s][v]: the last ix_seq version v gives s          *)
    RunIds,       (* ids of worker runs                                      *)
    NoRun,        (* last_attempt_run of a signature never attempted         *)
    MaxAttempts,  (* failed runs before a signature becomes a gap (5)        *)
    Retention,    (* days of events kept (35, at least 31)                   *)
    GapWindow,    (* days an open gap holds sealing back (30)                *)
    LastDay       (* bound: the model's last day                             *)

Days == 1..LastDay

ASSUME SigsAssumption ==
    /\ IsFiniteSet(Sigs)
    /\ Slot \in [Sigs -> Nat \ {0}]
    /\ Day \in [Sigs -> Days]
    (* slots are produced in time order *)
    /\ \A s, t \in Sigs : Slot[s] <= Slot[t] => Day[s] <= Day[t]

ASSUME ParserAssumption ==
    /\ Versions \subseteq Nat \ {0}
    /\ Width \in [Sigs -> [Versions -> Nat]]

ASSUME LimitsAssumption ==
    /\ NoRun \notin RunIds
    /\ MaxAttempts \in Nat \ {0}
    /\ Retention \in Nat
    /\ GapWindow \in Nat
    /\ LastDay \in Nat \ {0}

VARIABLES
    pending,          (* lk.pending: the signatures in the queue               *)
    attempts,         (* lk.pending.attempts                                   *)
    lastRun,          (* lk.pending.last_attempt_run                           *)
    events,           (* lk.events: the ledger rows                            *)
    daily,            (* lk.daily: the rows each day's rollup was computed from *)
    sealed,           (* days whose lk.daily row is sealed                     *)
    compacted,        (* days before lk.builds.compacted_before                *)
    gapState,         (* lk.gaps: no row, resolved_at null, resolved_at set    *)
    gapSince,         (* lk.gaps.first_seen_at                                 *)
    frontier,         (* lk.builds.frontier_slot                               *)
    discoveredAt,     (* lk.builds.discovered_at                               *)
    historyEnd,       (* lk.builds.history_end_reached                         *)
    backfillComplete, (* lk.builds.backfill_complete                           *)
    ingestedSigs,     (* lk.builds.ingested_sigs                               *)
    today,            (* the database clock                                    *)
    known             (* history: every signature the queue ever accepted      *)

queueVars == <<pending, attempts, lastRun>>
gapVars == <<gapState, gapSince>>
discoveryVars == <<frontier, discoveredAt, historyEnd>>
retentionVars == <<sealed, compacted>>
vars == <<queueVars, events, daily, retentionVars, gapVars, discoveryVars,
          backfillComplete, ingestedSigs, today, known>>

-----------------------------------------------------------------------------
(* Ledger rows *)

Row == [sig : Sigs, seq : Nat, pv : Versions \cup {0}]

(* The rows version v of the parser makes of signature s, ix_seq 0 among them. *)
Parse(s, v) == {[sig |-> s, seq |-> i, pv |-> v] : i \in 0..Width[s][v]}

(* The rows a version makes of a batch. *)
ParseAll(S, v) == UNION {Parse(s, v) : s \in S}

(* The kind 253 row that stands for a signature nobody could fetch. *)
GapRow(s) == [sig |-> s, seq |-> 0, pv |-> 0]

SigsOf(rows) == {r.sig : r \in rows}
DaysOf(rows) == {Day[r.sig] : r \in rows}
RowsOn(rows, d) == {r \in rows : Day[r.sig] = d}
SameKey(r, q) == r.sig = q.sig /\ r.seq = q.seq

Ledgered == SigsOf(events)
Recorded == UNION {SigsOf(daily[d]) : d \in Days}

-----------------------------------------------------------------------------
(* lk.recompute_days: the rollups of the days D are rebuilt from the ledger  *)
(* rows E of those days.  It raises, and the whole call rolls back, when one *)
(* of the days is sealed or compacted.                                       *)

(* Seeded fault: recompute_days without its refusals.                       *)
RewritableAlways(D) == TRUE

Rewritable(D) == D \cap (sealed \cup compacted) = {}

(* Seeded fault: the day is added to, not replaced.                         *)
RecomputedByAdding(D, E) ==
    [d \in Days |-> IF d \in D THEN daily[d] \cup RowsOn(E, d) ELSE daily[d]]

Recomputed(D, E) ==
    [d \in Days |-> IF d \in D THEN RowsOn(E, d) ELSE daily[d]]

RecomputeDays(D, E) ==
    /\ Rewritable(D)
    /\ daily' = Recomputed(D, E)

(* lk.maybe_complete_backfill, once the queue is P and history_end_reached is h. *)
Completes(P, h) == h /\ P = {}

MaybeCompleteBackfill(P, h) ==
    backfillComplete' = (backfillComplete \/ Completes(P, h))

(* The queue columns after the signatures S have left the queue. *)
Dequeue(S) ==
    /\ pending' = pending \ S
    /\ attempts' = [s \in Sigs |-> IF s \in S THEN 0 ELSE attempts[s]]
    /\ lastRun' = [s \in Sigs |-> IF s \in S THEN NoRun ELSE lastRun[s]]

-----------------------------------------------------------------------------
(* lk_enqueue *)

(* Seeded fault: enqueues what the ledger already holds.                    *)
QueueableAgain(s) == Day[s] \notin compacted

(* Seeded fault: enqueues below compacted_before.                           *)
QueueableWhenCompacted(s) == s \notin Ledgered

Queueable(s) == s \notin Ledgered /\ Day[s] \notin compacted

Accepted(S) == {s \in S : Queueable(s)}

Finals == [slot : {0} \cup {Slot[s] : s \in Sigs}, at : Days, end : BOOLEAN]
NoFinal == [slot |-> 0, at |-> 0, end |-> FALSE]

Later(a, b) == IF a < b THEN b ELSE a

(* A chunk S of discovered signatures, with NoFinal, or the final call that *)
(* moves the frontier.                                                      *)
Enqueue(S, f) ==
    /\ pending' = pending \cup Accepted(S)
    /\ known' = known \cup Accepted(S)
    /\ frontier' = Later(frontier, f.slot)
    /\ discoveredAt' = Later(discoveredAt, f.at)
    /\ historyEnd' = (historyEnd \/ f.end)
    /\ MaybeCompleteBackfill(pending', historyEnd')
    /\ UNCHANGED <<attempts, lastRun, events, daily, retentionVars, gapVars,
                   ingestedSigs, today>>

-----------------------------------------------------------------------------
(* lk_ingest *)

(* Seeded fault: p_replace deletes nothing.                                 *)
KeptAlways(S, replace) == events

(* Rows left in the ledger before the insert. *)
Kept(S, replace) ==
    IF replace THEN {r \in events : r.sig \notin S} ELSE events

(* insert ... on conflict do nothing *)
Inserted(rows, kept) == {r \in rows : \A q \in kept : ~SameKey(r, q)}

(* Seeded fault: counts every signature of the call.                        *)
NewSigsOfCall(S) == S

NewSigs(S) == S \ Ledgered

Ingest(S, v, replace) ==
    LET kept     == Kept(S, replace)
        inserted == Inserted(ParseAll(S, v), kept)
    IN  /\ events' = kept \cup inserted
        /\ RecomputeDays(DaysOf(inserted \cup (events \ kept)), events')
        /\ Dequeue(S)
        /\ gapState' = [s \in Sigs |-> IF s \in S /\ gapState[s] = "open"
                                       THEN "resolved" ELSE gapState[s]]
        /\ ingestedSigs' = ingestedSigs + Cardinality(NewSigs(S))
        /\ MaybeCompleteBackfill(pending', historyEnd)
        /\ UNCHANGED <<gapSince, retentionVars, discoveryVars, today, known>>

-----------------------------------------------------------------------------
(* lk_mark_attempt, for a signature that is in the queue.  For one that is   *)
(* not, the function only counts the attempt on the open gap's row, which no *)
(* other function reads.                                                     *)

(* Seeded fault: counts a repeated call again.                              *)
AttemptsCountedPerCall(s, r) == attempts[s] + 1

(* Seeded fault: counts the first run only.                                 *)
AttemptsOfFirstRun(s, r) ==
    IF lastRun[s] = NoRun THEN attempts[s] + 1 ELSE attempts[s]

AttemptsAfter(s, r) ==
    IF lastRun[s] = r THEN attempts[s] ELSE attempts[s] + 1

(* Seeded fault: converts one attempt late.                                 *)
ExhaustedOneLate(n) == n > MaxAttempts

Exhausted(n) == n >= MaxAttempts

CountAttempt(s, r) ==
    /\ s \in pending
    /\ ~Exhausted(AttemptsAfter(s, r))
    /\ attempts' = [attempts EXCEPT ![s] = AttemptsAfter(s, r)]
    /\ lastRun' = [lastRun EXCEPT ![s] = r]
    /\ UNCHANGED <<pending, events, daily, retentionVars, gapVars,
                   discoveryVars, backfillComplete, ingestedSigs, today, known>>

(* The attempt that exhausts the limit: the signature becomes a gap. *)
ConvertToGap(s, r) ==
    /\ s \in pending
    /\ Exhausted(AttemptsAfter(s, r))
    /\ events' = events \cup Inserted({GapRow(s)}, events)
    /\ RecomputeDays({Day[s]}, events')
    /\ Dequeue({s})
    /\ gapState' = [gapState EXCEPT ![s] = "open"]
    /\ gapSince' = [gapSince EXCEPT ![s] = IF gapState[s] = "none" THEN today ELSE @]
    /\ ingestedSigs' = ingestedSigs + 1
    /\ MaybeCompleteBackfill(pending', historyEnd)
    /\ UNCHANGED <<retentionVars, discoveryVars, today, known>>

MarkAttempt(s, r) == CountAttempt(s, r) \/ ConvertToGap(s, r)

-----------------------------------------------------------------------------
(* lk_compact *)

(* Open gaps that still hold sealing back. *)
HoldingGaps ==
    {s \in Sigs : gapState[s] = "open" /\ today < gapSince[s] + GapWindow}

(* Seeded fault: the horizon ignores gaps.                                  *)
BeforeHorizonOfQueue(d) ==
    /\ backfillComplete
    /\ d < discoveredAt
    /\ d + Retention < today
    /\ \A s \in pending : d < Day[s]

(* Seeded fault: the horizon ignores the queue.                             *)
BeforeHorizonOfGaps(d) ==
    /\ backfillComplete
    /\ d < discoveredAt
    /\ d + Retention < today
    /\ \A s \in HoldingGaps : d < Day[s]

(* d lies before lk.horizon: it may be sealed. *)
BeforeHorizon(d) ==
    /\ backfillComplete
    /\ d < discoveredAt
    /\ d + Retention < today
    /\ \A s \in pending \cup HoldingGaps : d < Day[s]

Compact ==
    LET final == {d \in Days : BeforeHorizon(d)}
    IN  /\ sealed' = sealed \cup {d \in final : daily[d] # {}}
        /\ events' = {r \in events : Day[r.sig] \notin final}
        /\ compacted' = compacted \cup final
        /\ UNCHANGED <<queueVars, daily, gapVars, discoveryVars,
                       backfillComplete, ingestedSigs, today, known>>

-----------------------------------------------------------------------------
(* The clock *)

Tick ==
    /\ today < LastDay
    /\ today' = today + 1
    /\ UNCHANGED <<queueVars, events, daily, retentionVars, gapVars,
                   discoveryVars, backfillComplete, ingestedSigs, known>>

-----------------------------------------------------------------------------
(* Overlapping callers: chunks and final calls of any discovery, batches     *)
(* read at any time by workers of any version, attempts of any run.          *)

Init ==
    /\ pending = {}
    /\ attempts = [s \in Sigs |-> 0]
    /\ lastRun = [s \in Sigs |-> NoRun]
    /\ events = {}
    /\ daily = [d \in Days |-> {}]
    /\ sealed = {}
    /\ compacted = {}
    /\ gapState = [s \in Sigs |-> "none"]
    /\ gapSince = [s \in Sigs |-> 0]
    /\ frontier = 0
    /\ discoveredAt = 0
    /\ historyEnd = FALSE
    /\ backfillComplete = FALSE
    /\ ingestedSigs = 0
    /\ today = 1
    /\ known = {}

(* A chain signature exists from its day on. *)
OnChain(s) == Day[s] <= today

EnqueueChunk ==
    \E S \in SUBSET {s \in Sigs : OnChain(s)} : Enqueue(S, NoFinal)

EnqueueFinal ==
    \E f \in Finals :
        /\ \A s \in Sigs : f.slot = Slot[s] => OnChain(s)
        /\ f.at <= today
        /\ Enqueue({}, f)

IngestBatch ==
    \E S \in SUBSET known, v \in Versions :
        S # {} /\ Ingest(S, v, FALSE)

(* A gap retry or a reparse: signatures read from the ledger. *)
ReplaceBatch ==
    \E S \in SUBSET Ledgered, v \in Versions :
        S # {} /\ Ingest(S, v, TRUE)

Next ==
    \/ EnqueueChunk
    \/ EnqueueFinal
    \/ IngestBatch
    \/ ReplaceBatch
    \/ \E s \in Sigs, r \in RunIds : MarkAttempt(s, r)
    \/ Compact
    \/ Tick

Spec == Init /\ [][Next]_vars

-----------------------------------------------------------------------------
(* Properties *)

(* Every variable holds values of its column's type. *)
TypeOK ==
    /\ pending \subseteq Sigs
    /\ attempts \in [Sigs -> 0..MaxAttempts - 1]
    /\ lastRun \in [Sigs -> RunIds \cup {NoRun}]
    /\ events \subseteq Row
    /\ daily \in [Days -> SUBSET Row]
    /\ sealed \subseteq Days
    /\ compacted \subseteq Days
    /\ gapState \in [Sigs -> {"none", "open", "resolved"}]
    /\ gapSince \in [Sigs -> 0..LastDay]
    /\ frontier \in Nat
    /\ discoveredAt \in 0..LastDay
    /\ historyEnd \in BOOLEAN
    /\ backfillComplete \in BOOLEAN
    /\ ingestedSigs \in Nat
    /\ today \in Days
    /\ known \subseteq Sigs

(* A signature is never both in the queue and in the ledger: lk_enqueue      *)
(* refuses a ledgered one, lk_ingest and lk_mark_attempt dequeue what they   *)
(* insert, and none of them can be overtaken between its check and its write. *)
QueueLedgerDisjoint == pending \cap Ledgered = {}

(* R1, what lk_verify checks every run: the stored rollup of every day that  *)
(* is still open is a fresh recompute from the ledger, and the ledger holds  *)
(* no row of a compacted day, however calls were replayed or reordered.      *)
DailyIsRecompute ==
    \A d \in Days :
        IF d \in compacted THEN RowsOn(events, d) = {}
                           ELSE daily[d] = RowsOn(events, d)

(* ingested_sigs counts each recorded signature exactly once, although it is *)
(* bumped by lk_ingest and by lk_mark_attempt and both may be replayed, and  *)
(* although compaction deletes the rows that were counted.                   *)
CountedOnce == ingestedSigs = Cardinality(Recorded)

(* "Nothing is skipped": a signature the queue accepted is in the queue or   *)
(* in a rollup ever after, across gaps, repairs, reparses and compaction.    *)
NothingLost == known \subseteq pending \cup Recorded

(* No queued signature's day is ever compacted, so recompute_days can never  *)
(* refuse the ingest or the gap conversion of a queued signature (a refusal  *)
(* is not a data rejection and would block the queue behind it for good).    *)
QueueNeverRefused ==
    \A s \in pending : Day[s] \notin compacted /\ Rewritable({Day[s]})

(* The day of a gap younger than the window stays open, so that the gap's    *)
(* retry can still replace its row.                                          *)
YoungGapStaysRepairable ==
    \A s \in HoldingGaps : GapRow(s) \in events /\ Rewritable({Day[s]})

(* The inductive invariant behind the five above: with them, a sealed day is  *)
(* compacted and a rollup, open or final, holds rows of its own day only.    *)
SealedIsCompacted == sealed \subseteq compacted

RollupRowsOnTheirDay ==
    \A d \in Days : \A r \in daily[d] : Day[r.sig] = d

Inv ==
    /\ TypeOK
    /\ QueueLedgerDisjoint
    /\ DailyIsRecompute
    /\ SealedIsCompacted
    /\ RollupRowsOnTheirDay
    /\ QueueNeverRefused
    /\ NothingLost
    /\ CountedOnce

(* A sealed day keeps its rollup for ever. *)
SealedForever ==
    [][\A d \in sealed : d \in sealed' /\ daily'[d] = daily[d]]_vars

(* The rows of a signature all come from one parse, or are its gap row alone. *)
(* The README's claim that replays, overlapping or out-of-order batches and   *)
(* reparses all give identical results needs it.                              *)
RowsFromOneParse ==
    \A s \in Ledgered :
        LET rows == {r \in events : r.sig = s}
        IN  rows = {GapRow(s)} \/ \E v \in Versions : rows = Parse(s, v)

(* "(counted as unparsed, listed in health, retried later)": a kind 253 row   *)
(* belongs to an open gap, so that lk_open_gaps still offers it for a retry.  *)
UnparsedRowIsOpenGap ==
    \A s \in Sigs : GapRow(s) \in events => gapState[s] = "open"

(* The event log implements the abstract ledger.                             *)
Status == [s \in Sigs |->
    IF s \in pending THEN "queued"
    ELSE IF \E d \in Days : GapRow(s) \in daily[d] THEN "gap"
    ELSE IF s \in Recorded THEN "recorded"
    ELSE "absent"]

Ledger == INSTANCE SignatureLedger WITH
    status  <- Status,
    final   <- {s \in Sigs : Day[s] \in compacted},
    counted <- ingestedSigs

(* Every call is a step of the abstract ledger or leaves it alone.           *)
ImplementsLedger == Ledger!Spec
=============================================================================
