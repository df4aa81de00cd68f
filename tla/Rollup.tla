------------------------------- MODULE Rollup --------------------------------
(***************************************************************************)
(* The flow metrics of a transaction: lk.rollup over the rows its programs  *)
(* hold, the cluster's total (lk.cluster_metrics), and the independent      *)
(* reference of verify/referenceRollup.ts.  Each program's copy is fetched   *)
(* and ingested on its own: it may be missing, a gap, or the row of a parse *)
(* error while the other copy is already counted, and a gap may be repaired. *)
(*                                                                         *)
(* Metrics add up over transactions, so one is enough.  Distinct wallets    *)
(* and payers, and amounts copied from account balances, are left out.      *)
(***************************************************************************)
EXTENDS Parser

CONSTANT MaxCounted     \* bound on the instructions of a transaction that is ingested

VARIABLE copies         \* how each program's copy is in lk.events

rollupVars == <<parserVars, copies>>

CopyStates == {"absent", "gap", "error", "parsed"}
NoCopies == [p \in Programs |-> "absent"]

\* The transactions of a program's feed.
InFeed(p) == Own(p) # {} \/ \E i \in 1 .. Len(trace) : trace[i].ix.target = p

Copy(p) ==
    CASE copies[p] = "absent" -> {}
      [] copies[p] = "gap" -> OneRow(KindUnparsed)
      [] copies[p] = "error" -> OneRow(KindNoise)
      [] copies[p] = "parsed" -> Rows(p)

\* lk_ingest, or lk_mark_attempt for a signature no endpoint served; a gap may
\* still be repaired.
IngestCopy(p, how) ==
    /\ tx.landed /\ InFeed(p) /\ Len(trace) <= MaxCounted
    /\ copies[p] = "absent" \/ (copies[p] = "gap" /\ how # "gap")
    /\ copies' = [copies EXCEPT ![p] = how]
    /\ UNCHANGED parserVars

RollupInit == ParserInit /\ copies = NoCopies

RollupNext ==
    \/ ParserNext /\ UNCHANGED copies
    \/ \E p \in Programs, how \in CopyStates \ {"absent"} : IngestCopy(p, how)

RollupSpec == RollupInit /\ [][RollupNext]_rollupVars

-----------------------------------------------------------------------------
(* lk.rollup                                                                *)

Classes == {"noise", "other_ix", "retired", "duplicate", "lazorkit", "cpi", "limits", "other"}
Auths == {"passkey", "session", "ed25519", "deferred", "unknown"}

One(condition) == IF condition THEN 1 ELSE 0
Number(rows, Has(_)) == Cardinality({r \in rows : Has(r)})
FeesOf(rows) == MapThenSumSet(LAMBDA r : r.fee, rows)

\* coalesce(fail_class, 'other') of max(fail_class): every row of a transaction
\* carries the same class.
ClassOf(rows) ==
    LET classes == {r.class : r \in rows} \ {"none"}
    IN  IF classes = {} THEN "other" ELSE CHOOSE c \in classes : TRUE

AuthName(r) == IF r.auth = "none" THEN "unknown" ELSE r.auth

\* The cte r: sums over the rows that succeeded, whatever their transaction.
RowMetrics(rows) ==
    LET FeeRow(r) == r.ok /\ r.kind \in FeeKinds
    IN  [ixs |-> Number(rows, LAMBDA r : r.kind <= MaxIxKind),
         inner |-> Number(rows, LAMBDA r : r.kind <= MaxIxKind /\ r.inner),
         created |-> Number(rows, LAMBDA r : r.ok /\ r.kind = CreateWalletIx),
         createdPasskey |-> Number(rows, LAMBDA r : r.ok /\ r.kind = CreateWalletIx /\ r.auth = "passkey"),
         executes |-> Number(rows, LAMBDA r : r.ok /\ r.kind = ExecuteIx),
         fees |-> FeesOf({r \in rows : FeeRow(r)}),
         feeEvents |-> Number(rows, LAMBDA r : FeeRow(r) /\ r.fee > 0),
         feeEligible |-> Number(rows, FeeRow),
         feeSuffix |-> Number(rows, LAMBDA r : FeeRow(r) /\ r.suffix),
         byKind |-> [k \in 0 .. MaxIxKind |->
                       <<Number(rows, LAMBDA r : r.kind = k /\ r.ok),
                         Number(rows, LAMBDA r : r.kind = k /\ ~r.ok)>>],
         byAuth |-> [a \in Auths |->
                       Number(rows, LAMBDA r : r.ok /\ r.kind \in {ExecuteIx, ExecuteDeferredIx} /\ AuthName(r) = a)]]

\* The cte's t, f and fs: the transaction itself.
TxMetrics(rows) ==
    LET real == \E r \in rows : r.kind <= MaxIxKind
        unparsed == \E r \in rows : r.kind = KindUnparsed
        failed == \E r \in rows : ~r.ok
        shared == \E r \in rows : r.shared
        dropped == IF \E r \in rows : r.ixError THEN "other_ix" ELSE ClassOf(rows)
    IN  [sigs |-> One(rows # {}), sigsFailed |-> One(failed),
         txs |-> One(real), txsFailed |-> One(real /\ failed),
         noise |-> One(rows # {} /\ ~real /\ ~unparsed), unparsed |-> One(unparsed),
         retired |-> One(real /\ failed /\ ClassOf(rows) = "retired"),
         sharedTxs |-> One(real /\ shared), sharedFailed |-> One(real /\ shared /\ failed),
         byFail |-> [c \in Classes |-> One(real /\ failed /\ ClassOf(rows) = c)],
         sharedByFail |-> [c \in Classes |-> One(real /\ shared /\ failed /\ dropped = c)]]

\* lk.cluster_metrics: both programs, less v2's copy of a shared transaction.
ClusterMetrics ==
    LET v1 == TxMetrics(Copy("v1"))
        v2 == TxMetrics(Copy("v2"))
    IN  [sigs |-> v1.sigs + v2.sigs - v2.sharedTxs,
         txs |-> v1.txs + v2.txs - v2.sharedTxs,
         txsFailed |-> v1.txsFailed + v2.txsFailed - v2.sharedFailed,
         byFail |-> [c \in Classes |-> v1.byFail[c] + v2.byFail[c] - v2.sharedByFail[c]]]

-----------------------------------------------------------------------------
(* verify/referenceRollup.ts, over the rows in their order.                 *)

FirstRow(rows) == CHOOSE r \in rows : \A s \in rows : r.seq <= s.seq

ReferenceTx(rows) ==
    LET first == FirstRow(rows)
        real == \E r \in rows : r.kind <= MaxIxKind
        class == IF first.class = "none" THEN "other" ELSE first.class
        counted == real /\ ~first.ok
    IN  [sigs |-> 1, sigsFailed |-> One(~first.ok), txs |-> One(real), txsFailed |-> One(counted),
         noise |-> IF real \/ \E r \in rows : r.kind = KindUnparsed THEN 0 ELSE 1,
         unparsed |-> IF ~real /\ \E r \in rows : r.kind = KindUnparsed THEN 1 ELSE 0,
         retired |-> One(counted /\ first.class = "retired"),
         sharedTxs |-> One(real /\ \E r \in rows : r.shared),
         byFail |-> [c \in Classes |-> One(counted /\ class = c)]]

ReferenceRows(rows) ==
    LET ok == {r \in rows : r.ok}
        eligible == {r \in ok : r.kind \in FeeKinds}
    IN  [ixs |-> Cardinality({r \in rows : r.kind <= MaxIxKind}),
         inner |-> Cardinality({r \in rows : r.kind <= MaxIxKind /\ r.inner}),
         created |-> Cardinality({r \in ok : r.kind = CreateWalletIx}),
         createdPasskey |-> Cardinality({r \in ok : r.kind = CreateWalletIx /\ r.auth = "passkey"}),
         executes |-> Cardinality({r \in ok : r.kind = ExecuteIx}),
         fees |-> FeesOf(eligible),
         feeEvents |-> Cardinality({r \in eligible : r.fee > 0}),
         feeEligible |-> Cardinality(eligible),
         feeSuffix |-> Cardinality({r \in eligible : r.suffix}),
         byKind |-> [k \in 0 .. MaxIxKind |->
                       LET of == {r \in rows : r.kind = k}
                       IN  <<Cardinality(of \cap ok), Cardinality(of \ ok)>>],
         byAuth |-> [a \in Auths |->
                       Cardinality({r \in ok : r.kind \in {ExecuteIx, ExecuteDeferredIx} /\ AuthName(r) = a})]]

-----------------------------------------------------------------------------

\* The SQL and the reference, written apart, say the same of one program's rows.
ReferenceAgrees ==
    \A p \in Programs : Copy(p) # {} =>
      /\ ReferenceRows(Copy(p)) = RowMetrics(Copy(p))
      /\ \A metric \in DOMAIN ReferenceTx(Copy(p)) :
           ReferenceTx(Copy(p))[metric] = TxMetrics(Copy(p))[metric]

Active == {p \in Programs : \E i \in 1 .. Len(trace) : IsReal(i, p)}

\* The class a failed transaction belongs under: as the program sees it whose
\* instruction failed, if it did anything but be pinged, else as the others do.
Blamed ==
    LET own == {p \in Active : tx.err.at # 0 /\ Program(tx.err.at) = p}
    IN  FailClass(CHOOSE p \in (IF own = {} THEN Active ELSE own) : TRUE)

AllParsed == \A p \in Programs : InFeed(p) => copies[p] = "parsed"

\* A transaction of both programs is in both feeds.  lk.cluster_metrics never
\* counts it twice; once both copies are parsed it counts exactly once, under
\* the class of the program whose instruction failed and no other.
ClusterCountsOnce ==
    /\ ClusterMetrics.txs <= 1 /\ ClusterMetrics.txsFailed <= 1
    /\ AllParsed =>
         /\ ClusterMetrics.txs = One(Active # {})
         /\ ClusterMetrics.txsFailed = One(Active # {} /\ ~Succeeded)
         /\ \A c \in Classes :
              ClusterMetrics.byFail[c] = One(Active # {} /\ ~Succeeded /\ c = Blamed)

\* From the runtime's calls to the dashboard's totals (parseTransaction,
\* lk.rollup, lk.cluster_metrics, referenceRollup): no fee and no transaction is
\* counted twice, and what is parsed is counted.
CountedOnce == tx.landed => FeesCountedOnce /\ ReferenceAgrees /\ ClusterCountsOnce
=============================================================================
