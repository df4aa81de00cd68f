------------------------------ MODULE Dashboard -----------------------------
(***************************************************************************)
(* A reader's page, from the database to the screen: the API function and  *)
(* its memo, the CDN in front of it, one tab that fetches, refreshes and   *)
(* aborts, and the copies it keeps in the browser's storage.               *)
(*                                                                         *)
(* Time is counted in ticks; requests are answered within a tick (the      *)
(* platform ends a function that takes longer, and the page's request with *)
(* it).  The API and the network change state freely, at most MaxOutages   *)
(* times; a reader acts at most MaxClicks times.  What the database        *)
(* contains (content) does not change while the page is watched.           *)
(*                                                                         *)
(* "key" is the (cluster, window) of a request or a payload.               *)
(***************************************************************************)
EXTENDS Views, Sequences

CONSTANTS
    Keys,       \* the (cluster, window) pairs a reader selects
    Setups,     \* what the database contains, with the size of the storage:
                \* [content |-> [worker, cron, programs by cluster, binaries],
                \* quota |-> units], a copy taking 2 units, an index entry 1
    MemoAge,    \* ticks an instance answers from its memo      (60 s)
    MaxAge,     \* s-maxage of a payload, in ticks              (300 s)
    Swr,        \* its stale-while-revalidate                   (900 s)
    Refresh,    \* ticks between two automatic refreshes        (5 min)
    MaxCached,  \* copies kept in storage                       (4)
    MaxClicks, MaxOutages

(* A row of lk.dash_programs.                                               *)
ProgramRow ==
    [key : Nat \ {0}, version : {1, 2},
     status : {"live", "not_deployed", "closed", "unknown"},
     kind : {"v1-full", "v1-sunset", "v2-full", "unknown", "none"},
     match : BOOLEAN, sha : Nat, last : Nat \cup {Missing}, complete : BOOLEAN,
     pending : Nat, ingested : Nat, failures : Nat, through : Nat \cup {Missing}]

(* The stored kind of a program is the one the known-builds table now gives  *)
(* its hash.                                                                *)
KindIsCurrent(p, binaries) == \A b \in binaries : b.sha = p.sha => b.kind = p.kind

(* A cluster has one program of each version, under the keys the migration   *)
(* seeds.  A binary matches when its hash is in the known-builds table as it *)
(* is read; its kind was stored when it was detected and is kept until the   *)
(* next deploy, so it stays "unknown" when its hash is listed later (rows    *)
(* are only ever added to that table).                                      *)
ClusterPrograms(cluster, binaries) ==
    {rows \in SUBSET ProgramRow :
        /\ {p.version : p \in rows} = {1, 2}
        /\ \A p, q \in rows : p.version = q.version => p = q
        /\ \A p \in rows :
             /\ p.key = IF p.version = 1 THEN ClusterKeys(cluster).v1 ELSE ClusterKeys(cluster).v2
             /\ p.match <=> \E b \in binaries : b.sha = p.sha
             /\ p.kind = "unknown" \/ KindIsCurrent(p, binaries)}

ASSUME ContentAssumption ==
    \A s \in Setups :
        /\ s \in [content : {s.content}, quota : Nat]
        /\ s.content.worker \in Nat \cup {Missing}
        /\ s.content.cron \in [age : Nat \cup {Missing}, workflow : GithubStates]
        /\ \A b \in s.content.binaries : b.kind \in {"v1-full", "v1-sunset", "v2-full"}
        /\ \A cluster \in Clusters :
             s.content.programs[cluster] \in ClusterPrograms(cluster, s.content.binaries)

ASSUME DashboardAssumption ==
    /\ Keys # {} /\ Keys \subseteq [cluster : Clusters, window : Windows]
    /\ MemoAge \in Nat \ {0} /\ MaxAge \in Nat \ {0} /\ Swr \in Nat
    /\ Refresh \in Nat \ {0} /\ MaxCached \in Nat \ {0}
    /\ MaxClicks \in Nat /\ MaxOutages \in Nat

VARIABLES
    content, quota,
    api,        \* what a request to the API meets
    memo,       \* key -> the payload an instance remembers
    cdn,        \* key -> the response the CDN holds, and since when
    sel,        \* the selection
    visible, awake,   \* is the tab visible, and for how many ticks
    timer,      \* ticks to the next automatic refresh
    req,        \* the request under way
    loaded,     \* the latest result, and the key it was asked for
    store,      \* the keys with a saved copy of their payload
    index,      \* the saved keys, oldest first
    unsaved,    \* keys whose latest save failed
    clicks, outages

vars == <<content, quota, api, memo, cdn, sel, visible, awake, timer, req, loaded,
          store, index, unsaved, clicks, outages>>

server == <<memo, cdn>>
storage == <<store, index, unsaved>>
env == <<content, quota, api, outages>>

(* "up"; "skewed": the database answers with fields the page does not know;  *)
(* "old_schema", "missing": the migration is not applied; "down": 5xx or no  *)
(* answer; "gateway": the platform answers for the function; "offline".      *)
ApiStates == {"up", "skewed", "old_schema", "missing", "down", "gateway", "offline"}

None == [kind |-> "none"]

AgeCap == MemoAge + MaxAge + Swr + Refresh + 1
Older(age) == IF age < AgeCap THEN age + 1 ELSE AgeCap

-----------------------------------------------------------------------------
(* The API function and the CDN.                                            *)

Response(kind, key) == [kind |-> kind, key |-> key, age |-> 0]

(* what the function answers without its memo *)
Compute(key) ==
    CASE api = "up"     -> Response("payload", key)
      [] api = "skewed" -> Response("skewed", key)
      [] api \in {"old_schema", "missing"} -> Response("setup_required", key)
      [] api = "gateway" -> Response("gateway", key)
      [] OTHER -> Response("unavailable", key)

Remembered(r) == r.kind \in {"payload", "skewed"}

(* The page's own check of a payload's fields: what it does not recognise is *)
(* shown all the same, but no copy of it is saved.                           *)
Valid(r) == r.kind = "payload"

Handler(key) == IF memo[key] # None THEN memo[key] ELSE Compute(key)

Cacheable(r) == r.kind \in {"payload", "skewed", "setup_required"}
FreshFor(r) == IF r.kind = "setup_required" THEN 1 ELSE MaxAge
StaleFor(r) == IF r.kind = "setup_required" THEN 0 ELSE Swr

(* the CDN calls the function and keeps its answer when it may *)
Fetched(key, r) ==
    /\ memo' = IF Remembered(r) THEN [memo EXCEPT ![key] = r] ELSE memo
    /\ cdn' = IF Cacheable(r) THEN [cdn EXCEPT ![key] = [kind |-> "held", r |-> r, since |-> 0]]
              ELSE cdn

-----------------------------------------------------------------------------
(* The storage.                                                             *)

Rest(s, n) == SubSeq(s, n + 1, Len(s))
Listed(s) == {s[i] : i \in DOMAIN s}
Fits(copies, listed) == 2 * Cardinality(copies) + listed <= quota

(* Seeded fault: the limit counts the copy that is about to be written.      *)
TrimToOneMore(n) == IF n > MaxCached THEN n - MaxCached ELSE 0

(* how many copies must go before a new one is written: all but the newest  *)
(* MaxCached - 1                                                            *)
TrimTo(n) == IF n >= MaxCached THEN n - MaxCached + 1 ELSE 0

(* the entries of s other than key, in their order *)
Without(s, key) ==
    LET kept == {i \in DOMAIN s : s[i] # key}
        nth(n) == CHOOSE i \in kept : Cardinality({j \in kept : j <= i}) = n
    IN  [n \in 1..Cardinality(kept) |-> s[nth(n)]]

(* The copy is written, then the index; a failed write drops the oldest copy *)
(* and starts over, until nothing is left to drop.                           *)
WriteCached(key) ==
    LET others == Without(index, key)
        start == TrimTo(Len(others))
        left(n) == store \ {others[i] : i \in 1..n}
        copyFits(n) == Fits(left(n) \cup {key}, Len(index))
        bothFit(n) == copyFits(n) /\ Fits(left(n) \cup {key}, Len(others) - n + 1)
        tries == {n \in start..Len(others) : bothFit(n)}
        n == IF tries = {} THEN Len(others) ELSE CHOOSE m \in tries : \A o \in tries : m <= o
    IN  /\ store' = left(n) \cup (IF copyFits(n) THEN {key} ELSE {})
        /\ index' = IF tries = {} THEN index ELSE Append(Rest(others, n), key)
        /\ unsaved' = IF tries = {} THEN unsaved \cup {key} ELSE unsaved \ {key}

-----------------------------------------------------------------------------
(* The tab.                                                                 *)

(* A result for a request, kept with the key that was asked for; "from" is   *)
(* the key of the figures in it.  The copy saved for the key goes with a     *)
(* failure; an answer is saved under its own key.                            *)
Failed(kind, key) ==
    [kind |-> kind, key |-> key, cached |-> key \in store,
     from |-> key, age |-> 0]

Answered(kind, key, r) == [kind |-> kind, key |-> key, cached |-> FALSE, from |-> r.key, age |-> r.age]

(* a body that cannot be read is null: the status alone decides *)
Unreadable(key, r) == Failed(IF r.kind = "unavailable" THEN "unavailable" ELSE "error", key)

(* The effect of a new selection or refresh: the request under way is        *)
(* aborted. One that waits for its answer ends silently; one that reads its  *)
(* body reads null and reports that as a result of its own key.              *)
Restart(key) ==
    /\ req' = [kind |-> "sent", key |-> key]
    /\ loaded' = IF req.kind = "body" THEN Unreadable(req.key, req.r) ELSE loaded

(* Seeded fault: the latest result is shown whatever it was asked for.       *)
ShownWhatever == loaded

Shown == IF loaded.kind # "none" /\ loaded.key = sel THEN loaded ELSE None

Programs == content.programs[sel.cluster]
Freshness == Computed(content.worker, content.cron, FreshnessPrograms(Programs))
View == ViewFromResult(Shown, Freshness)

-----------------------------------------------------------------------------
Init ==
    /\ \E s \in Setups : content = s.content /\ quota = s.quota
    /\ api \in ApiStates
    /\ memo = [k \in Keys |-> None]
    /\ cdn = [k \in Keys |-> None]
    /\ sel \in Keys
    /\ visible = TRUE
    /\ awake = 0
    /\ timer = Refresh
    /\ req = [kind |-> "sent", key |-> sel]
    /\ loaded = None
    /\ store = {}
    /\ index = <<>>
    /\ unsaved = {}
    /\ clicks = 0
    /\ outages = 0

Click == clicks < MaxClicks /\ clicks' = clicks + 1

Select(key) ==
    /\ Click
    /\ key # sel
    /\ sel' = key
    /\ Restart(key)
    /\ UNCHANGED <<env, server, visible, awake, timer, storage>>

RefreshNow ==
    /\ Click
    /\ Restart(sel)
    /\ UNCHANGED <<env, server, sel, visible, awake, timer, storage>>

(* the page is opened again at the address it wrote *)
Reload ==
    /\ Click
    /\ LET url == SerializeUrl([cluster |-> sel.cluster, window |-> sel.window, version |-> "all"])
           state == ParseUrl(url, "mainnet")
       IN  sel' = [cluster |-> state.cluster, window |-> state.window]
    /\ req' = [kind |-> "sent", key |-> sel']
    /\ loaded' = None
    /\ timer' = Refresh
    /\ visible' = TRUE
    /\ awake' = 0
    /\ UNCHANGED <<env, server, storage>>

HideOrShow ==
    /\ Click
    /\ visible' = ~visible
    /\ awake' = 0
    /\ UNCHANGED <<env, server, sel, timer, req, loaded, storage>>

(* Seeded fault: a page that shows an error stops refreshing.                *)
AutoRefreshOfAnswers ==
    /\ timer = 0
    /\ timer' = Refresh
    /\ IF visible /\ Shown.kind = "ok" THEN Restart(sel) ELSE UNCHANGED <<req, loaded>>
    /\ UNCHANGED <<env, server, sel, visible, awake, storage, clicks>>

(* The interval fires whether or not the tab is visible; only a visible one  *)
(* refreshes.                                                                *)
AutoRefresh ==
    /\ timer = 0
    /\ timer' = Refresh
    /\ IF visible THEN Restart(sel) ELSE UNCHANGED <<req, loaded>>
    /\ UNCHANGED <<env, server, sel, visible, awake, storage, clicks>>

(* The CDN answers from what it holds, refreshing it behind a stale answer,  *)
(* or else from the function.                                                *)
Serve ==
    /\ req.kind = "sent"
    /\ api # "offline"
    /\ LET key == req.key
           held == cdn[key]
       IN  IF held # None
           THEN /\ req' = [kind |-> "body", key |-> key, r |-> held.r]
                /\ IF held.since < FreshFor(held.r) THEN UNCHANGED server
                   ELSE Fetched(key, Handler(key))
           ELSE /\ req' = [kind |-> "body", key |-> key, r |-> Handler(key)]
                /\ Fetched(key, Handler(key))
    /\ UNCHANGED <<env, sel, visible, awake, timer, loaded, storage, clicks>>

NotServed ==
    /\ req.kind = "sent"
    /\ api = "offline"
    /\ loaded' = Failed("unavailable", req.key)
    /\ req' = None
    /\ UNCHANGED <<env, server, sel, visible, awake, timer, storage, clicks>>

Deliver ==
    /\ req.kind = "body"
    /\ req' = None
    /\ LET r == req.r
       IN  CASE r.kind = "unavailable" ->
                    loaded' = Failed("unavailable", req.key) /\ UNCHANGED storage
             [] r.kind = "gateway" ->
                    loaded' = Failed("error", req.key) /\ UNCHANGED storage
             [] r.kind = "setup_required" ->
                    loaded' = Answered("setup_required", req.key, r) /\ UNCHANGED storage
             [] r.kind \in {"payload", "skewed"} /\ ~Valid(r) ->
                    loaded' = Answered("ok", req.key, r) /\ UNCHANGED storage
             [] OTHER ->
                    loaded' = Answered("ok", req.key, r) /\ WriteCached(r.key)
    /\ UNCHANGED <<env, server, sel, visible, awake, timer, clicks>>

BodyFails ==
    /\ req.kind = "body"
    /\ api = "offline"
    /\ req' = None
    /\ loaded' = Unreadable(req.key, req.r)
    /\ UNCHANGED <<env, server, sel, visible, awake, timer, storage, clicks>>

(* an instance ends, and its memo with it *)
ColdStart ==
    /\ \E k \in Keys : memo[k] # None
    /\ memo' = [k \in Keys |-> None]
    /\ UNCHANGED <<env, cdn, sel, visible, awake, timer, req, loaded, storage, clicks>>

ApiChanges ==
    /\ outages < MaxOutages
    /\ outages' = outages + 1
    /\ api' \in ApiStates \ {api}
    /\ UNCHANGED <<content, quota, server, sel, visible, awake, timer, req, loaded, storage, clicks>>

Aged(r) == [r EXCEPT !.age = Older(r.age)]

(* Seeded fault: what an instance remembers never expires.                   *)
RememberedForever(r) == IF r = None THEN None ELSE Aged(r)

(* an entry too old to be answered from is the same as none *)
MemoOn(r) == IF r = None \/ r.age + 1 >= MemoAge THEN None ELSE Aged(r)

HeldOn(h) ==
    IF h = None \/ h.since + 1 >= FreshFor(h.r) + StaleFor(h.r) THEN None
    ELSE [kind |-> "held", r |-> Aged(h.r), since |-> h.since + 1]

Tick ==
    /\ req = None
    /\ timer > 0
    /\ timer' = timer - 1
    /\ awake' = IF visible /\ awake <= Refresh THEN awake + 1 ELSE awake
    /\ memo' = [k \in Keys |-> MemoOn(memo[k])]
    /\ cdn' = [k \in Keys |-> HeldOn(cdn[k])]
    /\ loaded' = IF loaded.kind = "ok" THEN Aged(loaded) ELSE loaded
    /\ UNCHANGED <<env, sel, visible, req, storage, clicks>>

Next ==
    \/ \E key \in Keys : Select(key)
    \/ RefreshNow
    \/ Reload
    \/ HideOrShow
    \/ AutoRefresh
    \/ Serve
    \/ NotServed
    \/ Deliver
    \/ BodyFails
    \/ ColdStart
    \/ ApiChanges
    \/ Tick

(* Requests are answered, and the clock and the interval run.               *)
Fairness ==
    /\ WF_vars(Serve)
    /\ WF_vars(NotServed)
    /\ WF_vars(Deliver)
    /\ WF_vars(AutoRefresh)
    /\ WF_vars(Tick)

Spec == Init /\ [][Next]_vars /\ Fairness

-----------------------------------------------------------------------------
(* Properties.                                                              *)

ResultKinds == {"none", "ok", "setup_required", "unavailable", "error"}

DashboardTypeOK ==
    /\ [content |-> content, quota |-> quota] \in Setups /\ api \in ApiStates
    /\ sel \in Keys /\ visible \in BOOLEAN /\ awake \in 0..(Refresh + 1) /\ timer \in 0..Refresh
    /\ \A k \in Keys : memo[k] # None => Remembered(memo[k]) /\ memo[k].key = k
    /\ \A k \in Keys : cdn[k] # None => Cacheable(cdn[k].r) /\ cdn[k].r.key = k
    /\ req.kind \in {"none", "sent", "body"}
    /\ loaded.kind \in ResultKinds
    /\ store \subseteq Keys /\ unsaved \subseteq Keys
    /\ Listed(index) \subseteq Keys /\ clicks \in 0..MaxClicks /\ outages \in 0..MaxOutages

(* The figures on the page, read now or saved earlier, are those of the      *)
(* cluster and window selected, whatever was requested, aborted, remembered  *)
(* or cached in between.                                                     *)
ShowsTheSelection == View.kind = "data" => Shown.from = sel

DashboardInv == DashboardTypeOK /\ ShowsTheSelection

(* A tab that has been visible for longer than an interval shows no answer   *)
(* older than the memo, the CDN and that interval together allow; an older   *)
(* payload is shown only as a saved copy, under the banner that says so.     *)
ShownAgeBounded ==
    visible /\ awake > Refresh /\ View.kind = "data" /\ ~View.cached =>
        Shown.age <= (MemoAge - 1) + (MaxAge + Swr - 1) + Refresh

(* Every saved copy is listed, so that it can be dropped when the storage    *)
(* fills up, except those whose latest save failed halfway; and no more are  *)
(* kept than the limit and those.                                            *)
CopiesAreListed ==
    /\ store \ Listed(index) \subseteq unsaved
    /\ Cardinality(store \ unsaved) <= MaxCached
    /\ Len(index) = Cardinality(Listed(index))

(* The parts of the page that are computed apart from each other agree on a  *)
(* program: its card, its note, its build and the figures' scope.  The badge *)
(* follows the stored kind, the match the table as it is read.  So for a     *)
(* build listed after its detection the badge may be "unrecognised" beside a *)
(* match, and v1's sunset build be expected although it is deployed; the     *)
(* last clause is about the other builds.                                    *)
CardAgrees(p) ==
    LET badge == ProgramBadge(p)
        next == ExpectedNext(p, content.binaries, sel.cluster)
    IN  /\ ReleaseMatch(p) = "unrecognised" => badge \in {"unrecognised", "retired"}
        /\ badge \in {"live", "dormant", "backfill"} => ReleaseMatch(p) = "known"
        /\ ~Deployed(p) =>
               DeploymentNote(p, content.binaries, sel.cluster).text =
                   CASE badge = "unknown" -> "not_checked"
                     [] badge = "closed"  -> "closed"
                     [] OTHER -> IF next = {} THEN "no_account" ELSE "no_account_expecting"
        /\ Deployed(p) /\ KindIsCurrent(p, content.binaries) =>
               /\ ReleaseMatch(p) = "known" => badge # "unrecognised"
               /\ p.sha \notin {b.sha : b \in next}

FiltersAgree(filter) ==
    LET inView == VisiblePrograms(Programs, filter)
    IN  /\ "charts" \in Sections(Programs, filter) <=> \E p \in inView : FreshnessProgram(p).live
        /\ filter # "all" => {p.key : p \in inView} = {ScopeForVersion(sel.cluster, filter)}

(* What the API computes and what the page computes from the same programs   *)
(* agree: no banner means every deployed program shows a complete history    *)
(* and the uptime monitor is content; a program is named by the catching-up  *)
(* banner exactly when its own progress is short of the end or its history   *)
(* is not complete (a first discovery that was cut short leaves a drained    *)
(* queue, which counts as 100 % of what is known so far); a card says        *)
(* "live" only of a program the API gives no reason about; there are charts  *)
(* exactly when the API sees a live program; and a saved copy never passes   *)
(* for a fresh answer.                                                       *)
PageAgrees ==
    View.kind = "data" =>
        LET banner == View.banner
            live == {p \in Programs : Deployed(p)}
            named == {m.key : m \in banner.messages} \ {0}
            about(code) == {r.key : r \in {q \in Freshness.reasons : q.code = code}}
        IN  /\ banner = NoBanner => ~View.cached /\ \A p \in live : BackfillPermille(p) = 1000
            /\ View.cached => banner.state = "unavailable"
            /\ ~View.cached => (HealthStatus(Freshness.state) = 503 <=> banner.state = "stale")
            /\ banner.state = "catching_up" =>
                    named = {p.key : p \in {q \in live : BackfillPermille(q) # 1000 \/ ~q.complete}}
            /\ banner.state = "delayed" => named = {p.key : p \in {q \in live : q.failures >= 2}}
            /\ \A p \in Programs : ProgramBadge(p) = "live" => p.key \notin about("backfill")
            /\ \A p \in Programs : ProgramBadge(p) = "backfill" => p.key \in about("backfill")
            /\ \A p \in Programs : CardAgrees(p)
            /\ \A filter \in VersionFilters : FiltersAgree(filter)

(* Once the API answers and the reader leaves the page open, its figures are *)
(* fresh again and stay so: neither the memo, the CDN, an aborted request    *)
(* nor a saved copy keeps an outage on the screen.                           *)
RecoversFromOutage ==
    <>[](api = "up" /\ visible) => <>[](View.kind = "data" /\ ~View.cached)
=============================================================================
