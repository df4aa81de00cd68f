----------------------------- MODULE StateChecks -----------------------------
(***************************************************************************)
(* The comparison of history with state: takeSnapshot (state/snapshot.ts)   *)
(* and decodeProgramState (state/decoders.ts) count the accounts a program  *)
(* owns at one slot, discovery and ingest collect its transactions, and     *)
(* lk.check_invariants compares the two (I1 to I6).  Transactions land while *)
(* a run works, its calls fail between any two steps, and the state and the *)
(* frontier it leaves behind are of different slots.  verify/chain.ts then   *)
(* compares the chain's signatures with the stored days, up to the frontier. *)
(* The accounts and the signatures are answers of different nodes, so a      *)
(* listing may end anywhere below the chain's newest slot, the snapshot's    *)
(* slot included.                                                           *)
(*                                                                         *)
(* A slot holds one transaction of one instruction.  An account is a tag,   *)
(* an address and, for a shard or a fee record, an amount; what the checks  *)
(* do not read of it is left out.  What an instruction does to accounts is  *)
(* the program's business, modelled as the checks take it to be.            *)
(***************************************************************************)
EXTENDS Integers, Sequences, FiniteSets, FiniteSetsExt

CONSTANTS
    Version,        \* 1 or 2: only v2 keeps a total of fees per payer
    MaxSlot,        \* bound on the transactions
    MaxReads        \* bound on snapshots and discoveries, the two stamps of a run

ASSUME ChecksAssumption ==
    Version \in {1, 2} /\ MaxSlot \in Nat /\ MaxReads \in Nat

VARIABLES
    history,        \* the chain's transactions, by slot
    accounts,       \* the program's accounts
    state,          \* lk.state_current, or NoState
    reading,        \* the worker's accounts or discovery in flight, or NotReading
    queued,         \* lk.pending: slots
    rows,           \* lk.events: slots
    unread,         \* slots whose rows are unparsed gaps
    frontier, discoveredAt, backfilled,     \* lk.builds; 0 is null
    now,            \* stamps taken so far
    trailed         \* history variable: the listing of the last completed discovery
                    \* ended below the slot of the snapshot stored then

checksVars == <<history, accounts, state, reading, queued, rows, unread,
                frontier, discoveredAt, backfilled, now, trailed>>

NoState == [at |-> 0]
NotReading == [step |-> "none"]

CreateWallet == 0
AddAuthority == 1
RemoveAuthority == 2
CreateSession == 5
Authorize == 6
ExecuteDeferred == 7
ReclaimDeferred == 8
RevokeSession == 9
WithdrawTreasury == 13
InitializeTreasuryShard == 14
MigrateWallet == 17
CloseExpiredSession == 18

Kinds == {CreateWallet, AddAuthority, RemoveAuthority, CreateSession, Authorize,
          ExecuteDeferred, ReclaimDeferred, RevokeSession, WithdrawTreasury,
          InitializeTreasuryShard, MigrateWallet, CloseExpiredSession}

Slot == Len(history) + 1
New(tag, lamports) == {[tag |-> tag, address |-> Slot, lamports |-> lamports]}
Tagged(tag) == {a \in accounts : a.tag = tag}

ChecksInit ==
    /\ history = <<>> /\ accounts = {}
    /\ state = NoState /\ reading = NotReading
    /\ queued = {} /\ rows = {} /\ unread = {}
    /\ frontier = 0 /\ discoveredAt = 0 /\ backfilled = FALSE /\ now = 0 /\ trailed = FALSE

-----------------------------------------------------------------------------
(* The program.                                                             *)

\* A fee of one lamport goes to a shard when there is one, and is added to the
\* payer's record.
Charged(set) ==
    LET shards == {a \in set : a.tag = "shard"}
        paid == {a \in set : a.tag = "feeRecord"}
        total == IF paid = {} THEN 0 ELSE (CHOOSE a \in paid : TRUE).lamports
    IN  IF shards = {} THEN set
        ELSE LET shard == CHOOSE a \in shards : TRUE
             IN  (set \ ({shard} \cup paid))
                 \cup {[shard EXCEPT !.lamports = @ + 1],
                       [tag |-> "feeRecord", address |-> 0, lamports |-> total + 1]}

Fee(kind) == IF kind \in {CreateWallet, ExecuteDeferred} /\ Tagged("shard") # {} THEN 1 ELSE 0

\* The accounts after an instruction, in every way it may have succeeded, with
\* the amount its row carries.
Effects(kind) ==
    LET Without(tag) == {[set |-> accounts \ {a}, amount |-> a.lamports] : a \in Tagged(tag)}
        With(set) == {[set |-> accounts \cup set, amount |-> 0]}
        Paid(effects) == {[e EXCEPT !.set = Charged(@)] : e \in effects}
    IN CASE kind = CreateWallet -> Paid(With(New("wallet", 0) \cup New("authority", 0)))
         [] kind = AddAuthority ->
              IF Tagged("wallet") = {} THEN {} ELSE With(New("authority", 0))
         [] kind = RemoveAuthority ->
              IF Cardinality(Tagged("authority")) > Cardinality(Tagged("wallet"))
              THEN Without("authority") ELSE {}
         [] kind = MigrateWallet ->
              {[set |-> accounts \ {w, a}, amount |-> 0] :
                  w \in Tagged("wallet"), a \in Tagged("authority")}
         [] kind \in {CreateSession, Authorize} ->
              IF Tagged("wallet") = {} THEN {}
              ELSE With(New(IF kind = CreateSession THEN "session" ELSE "deferred", 0))
         [] kind \in {RevokeSession, CloseExpiredSession} -> Without("session")
         [] kind = ReclaimDeferred -> Without("deferred")
         [] kind = ExecuteDeferred -> Paid(Without("deferred"))
         [] kind = InitializeTreasuryShard ->
              IF Tagged("shard") # {} THEN {}
              ELSE {[set |-> accounts \cup New("shard", 2), amount |-> 2]}
         [] kind = WithdrawTreasury ->
              {[set |-> (accounts \ {a}) \cup {[a EXCEPT !.lamports = 1]}, amount |-> a.lamports - 1] :
                  a \in Tagged("shard")}

\* A transaction is finalised: it succeeds, or fails and changes nothing.
Finalised(kind) ==
    /\ Len(history) < MaxSlot
    /\ \/ \E effect \in Effects(kind) :
            /\ history' = Append(history, [kind |-> kind, ok |-> TRUE,
                                           fee |-> Fee(kind), amount |-> effect.amount])
            /\ accounts' = effect.set
       \/ /\ kind = CreateWallet
          /\ history' = Append(history, [kind |-> kind, ok |-> FALSE, fee |-> 0, amount |-> 0])
          /\ UNCHANGED accounts
    /\ UNCHANGED <<state, reading, queued, rows, unread, frontier, discoveredAt, backfilled, now, trailed>>

-----------------------------------------------------------------------------
(* A run: the snapshot, then discovery, then ingest.                        *)

\* The sum of f: f[x] units of each x, counted.
Total(f) == Cardinality(UNION {{x} \X (1 .. f[x]) : x \in DOMAIN f})

\* decodeProgramState: what the checks read of the totals.
Decode(set) ==
    LET Count(tag) == Cardinality({a \in set : a.tag = tag})
        Lamports(tag) == Total([a \in {b \in set : b.tag = tag} |-> a.lamports])
    IN  [wallets |-> Count("wallet"), authorities |-> Count("authority"),
         sessions |-> Count("session"), deferred |-> Count("deferred"),
         shards |-> Count("shard"), shardLamports |-> Lamports("shard"),
         feesPaid |-> Lamports("feeRecord")]

CanRead == reading = NotReading /\ now < MaxReads
Chain == <<history, accounts>>

\* getProgramAccounts answers at a slot, and the time of the answer is kept.
GetAccounts ==
    /\ CanRead
    /\ now' = now + 1
    /\ reading' = [step |-> "state", at |-> now', slot |-> Len(history), totals |-> Decode(accounts)]
    /\ UNCHANGED <<Chain, state, queued, rows, unread, frontier, discoveredAt, backfilled, trailed>>

\* The rent and the vault balances follow, then lk_write_state.
WriteState ==
    /\ reading.step = "state"
    /\ state' = [at |-> reading.at, slot |-> reading.slot, totals |-> reading.totals]
    /\ reading' = NotReading
    /\ UNCHANGED <<Chain, queued, rows, unread, frontier, discoveredAt, backfilled, now, trailed>>

\* discover takes its stamp before it reads the first page.
StartDiscovery ==
    /\ CanRead
    /\ now' = now + 1
    /\ reading' = [step |-> "pages", at |-> now']
    /\ UNCHANGED <<Chain, state, queued, rows, unread, frontier, discoveredAt, backfilled, trailed>>

Unqueued == (1 .. Len(history)) \ (queued \cup rows \cup unread)

\* All pages were read: what the listing showed is queued.  It ends where its
\* node is; one without any signature is refused once there is a frontier.
QueueAll ==
    /\ reading.step = "pages"
    /\ \E top \in 0 .. Len(history) :
          /\ top = 0 => frontier = 0
          /\ queued' = queued \cup (Unqueued \cap 1 .. top)
          /\ reading' = [step |-> "final", at |-> reading.at, top |-> top]
    /\ UNCHANGED <<Chain, state, rows, unread, frontier, discoveredAt, backfilled, now, trailed>>

\* The last call stamps the frontier, which never moves back; a first discovery
\* reached the history's end.
StampDiscovery ==
    /\ reading.step = "final"
    /\ frontier' = Max({frontier, reading.top})
    /\ discoveredAt' = Max({discoveredAt, reading.at})
    /\ backfilled' = (backfilled \/ queued = {})
    /\ trailed' = (state # NoState /\ reading.top < state.slot)
    /\ reading' = NotReading
    /\ UNCHANGED <<Chain, state, queued, rows, unread, now>>

\* A call of the snapshot or of discovery throws; chunks already queued stay.
ReadFails ==
    /\ reading # NotReading
    /\ reading' = NotReading
    /\ \E chunk \in (IF reading.step = "pages" THEN SUBSET Unqueued ELSE {{}}) :
          queued' = queued \cup chunk
    /\ UNCHANGED <<Chain, state, rows, unread, frontier, discoveredAt, backfilled, now, trailed>>

\* A signature leaves the queue with its rows, or as a gap after five runs.
Ingested(slot) ==
    /\ slot \in queued /\ reading = NotReading
    /\ queued' = queued \ {slot}
    /\ \/ rows' = rows \cup {slot} /\ UNCHANGED unread
       \/ unread' = unread \cup {slot} /\ UNCHANGED rows
    /\ backfilled' = (backfilled \/ (discoveredAt > 0 /\ queued' = {}))
    /\ UNCHANGED <<Chain, state, reading, frontier, discoveredAt, now, trailed>>

\* retryGaps: the transaction was served after all.
RepairGap(slot) ==
    /\ slot \in unread /\ reading = NotReading
    /\ unread' = unread \ {slot}
    /\ rows' = rows \cup {slot}
    /\ UNCHANGED <<Chain, state, reading, queued, frontier, discoveredAt, backfilled, now, trailed>>

ChecksNext ==
    \/ \E kind \in Kinds : Finalised(kind)
    \/ GetAccounts \/ WriteState
    \/ StartDiscovery \/ QueueAll \/ StampDiscovery \/ ReadFails
    \/ \E slot \in 1 .. MaxSlot : Ingested(slot) \/ RepairGap(slot)

ChecksSpec == ChecksInit /\ [][ChecksNext]_checksVars

-----------------------------------------------------------------------------
(* lk.check_invariants                                                      *)

Ready ==
    /\ backfilled /\ queued = {}
    /\ state # NoState
    /\ discoveredAt >= state.at

\* A seeded fault: the days are compared as they are.
AfterStateOmitted(slots) == {}

\* The events whose effect the snapshot does not show.
AfterState(slots) == {s \in slots : s > state.slot}

\* H(x): over every day, less what landed after the snapshot.
Ok(set, kinds) == {s \in set : history[s].ok /\ history[s].kind \in kinds}
Held(slots) == slots \ AfterState(slots)
Counted(slots, kind) == Cardinality(Ok(Held(slots), {kind}))
Amount(slots, kind) == Total([s \in Ok(Held(slots), {kind}) |-> history[s].amount])
Fees(slots) == Total([s \in Ok(Held(slots), {CreateWallet, 4, ExecuteDeferred}) |-> history[s].fee])

\* The checks a program shows, each with its two sides.
Checks ==
    LET N(kind) == Counted(rows, kind)
        t == state.totals
        funded == Amount(rows, InitializeTreasuryShard)
    IN  [I1 |-> <<t.wallets, N(CreateWallet) - N(MigrateWallet)>>,
         I2 |-> IF Version = 2 THEN <<t.feesPaid, Fees(rows)>> ELSE <<0, 0>>,
         I3 |-> IF t.shards > 0 \/ funded > 0
                THEN <<t.shardLamports, funded + Fees(rows) - Amount(rows, WithdrawTreasury)>>
                ELSE <<0, 0>>,
         I4 |-> <<t.sessions, N(CreateSession) - N(RevokeSession) - N(CloseExpiredSession)>>,
         I5 |-> <<t.deferred, N(Authorize) - N(ExecuteDeferred) - N(ReclaimDeferred)>>,
         I6 |-> <<t.authorities, N(CreateWallet) + N(AddAuthority)
                                 - N(RemoveAuthority) - N(MigrateWallet)>>]

-----------------------------------------------------------------------------
(* npm run verify:chain                                                     *)

\* lk_verify_counts says the two are comparable.
Comparable == backfilled /\ queued = {} /\ frontier > 0

\* compareDays, with all of history in one day: signatures and failed ones of a
\* listing that shows the chain up to a slot.
DayOf(slots) == <<Cardinality(slots), Cardinality({s \in slots : ~history[s].ok})>>
ChainDay(seen) == {s \in 1 .. seen : s <= frontier}
StoredDay == rows \cup unread

-----------------------------------------------------------------------------

\* A check of lk.check_invariants that reports is never wrong about a complete
\* history: when the queue is empty and discovery is younger than the snapshot,
\* no gap hides a transaction the snapshot shows, and the listing of that
\* discovery did not trail the snapshot (the stamps, which are all that v_ready
\* compares, do not exclude that it did), the two sides agree, whatever landed,
\* failed or was half-read in between.  After a listing that trailed, the next
\* one that does not makes the report right again.
InvariantsAgree ==
    Ready /\ ~trailed /\ unread \subseteq AfterState(unread)
        => \A id \in DOMAIN Checks : Checks[id][1] = Checks[id][2]

\* verify:chain finds no signature of the chain missing from a comparable
\* build, and no mismatch at all unless a discovery that failed had queued
\* signatures above the frontier, or its own listing ends below the frontier.
HistoryAgrees ==
    Comparable => \A seen \in 0 .. Len(history) :
      /\ ChainDay(seen) \subseteq StoredDay
      /\ StoredDay \subseteq 1 .. frontier /\ frontier <= seen
           => DayOf(ChainDay(seen)) = DayOf(StoredDay)

ChecksAgree == InvariantsAgree /\ HistoryAgrees
=============================================================================
