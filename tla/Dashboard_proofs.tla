--------------------------- MODULE Dashboard_proofs ---------------------------
(***************************************************************************)
(* Proofs about Dashboard, for every set of selections, every age that the  *)
(* memo, the CDN and the interval may have, and any number of clicks and    *)
(* outages: what a page shows belongs to its selection, and is not older    *)
(* than those ages together allow; the saved copies are listed and bounded,  *)
(* whatever the storage refuses; and the banner, the badges, the cards and   *)
(* the filters say the same of every program.                              *)
(***************************************************************************)
EXTENDS Dashboard, FiniteSetTheorems, WellFoundedInduction, TLAPS

-----------------------------------------------------------------------------
(* The invariant                                                           *)

AnswerKinds == {"payload", "skewed", "setup_required", "gateway", "unavailable"}
Answers == [kind : AnswerKinds, key : Keys, age : Nat]
Helds == [kind : {"held"}, r : Answers, since : Nat]
Results == [kind : {"ok", "setup_required", "unavailable", "error"}, key : Keys,
            cached : BOOLEAN, from : Keys, age : Nat]

(* the age of an answer when it reaches the page *)
AgeOnArrival == (MemoAge - 1) + (MaxAge + Swr - 1)

MemoHolds(m, k) ==
    m = None \/ (m \in Answers /\ Remembered(m) /\ m.key = k /\ m.age < MemoAge)

CdnHolds(h, k) ==
    \/ h = None
    \/ /\ h \in Helds /\ Cacheable(h.r) /\ h.r.key = k
       /\ h.since < FreshFor(h.r) + StaleFor(h.r)
       /\ Remembered(h.r) => h.r.age <= (MemoAge - 1) + h.since

ReqHolds(q) ==
    \/ q = None
    \/ q \in [kind : {"sent"}, key : Keys]
    \/ /\ q \in [kind : {"body"}, key : Keys, r : Answers] /\ q.r.key = q.key
       /\ Remembered(q.r) => q.r.age <= AgeOnArrival

ResultHolds(l) ==
    l = None \/ (l \in Results /\ l.from = l.key)

TabHolds ==
    /\ sel \in Keys /\ visible \in BOOLEAN
    /\ awake \in 0 .. (Refresh + 1) /\ timer \in 0 .. Refresh

(* The last interval of a visible tab ended with a refresh: unless an answer *)
(* is on its way, the figures arrived since then.                            *)
AgeHolds(q, l, v, a, t) ==
    l.kind = "ok" =>
        /\ v /\ q = None /\ a + t > Refresh => l.age <= AgeOnArrival + (Refresh - t)
        /\ v /\ a > Refresh => l.age <= AgeOnArrival + Refresh

IInv ==
    /\ memo \in [Keys -> {None} \cup Answers] /\ \A k \in Keys : MemoHolds(memo[k], k)
    /\ cdn \in [Keys -> {None} \cup Helds] /\ \A k \in Keys : CdnHolds(cdn[k], k)
    /\ ReqHolds(req) /\ ResultHolds(loaded) /\ TabHolds
    /\ AgeHolds(req, loaded, visible, awake, timer)

LEMMA Ages ==
  /\ MemoAge \in Nat /\ MemoAge >= 1 /\ MaxAge \in Nat /\ MaxAge >= 1
  /\ Swr \in Nat /\ Refresh \in Nat /\ Refresh >= 1
  /\ AgeOnArrival \in Nat /\ MemoAge - 1 <= AgeOnArrival
  BY DashboardAssumption DEF AgeOnArrival

(* A tick adds at most one to an age.                                      *)
LEMMA AgedFacts ==
  ASSUME NEW r, NEW age \in Nat, r.age = age
  PROVE  Older(age) \in Nat /\ Older(age) <= age + 1
  BY Ages DEF Older, AgeCap

LEMMA NoneIsNone ==
  /\ None \notin Answers /\ None \notin Helds /\ None \notin Results
  /\ None.kind = "none"
  BY DEF None, Answers, AnswerKinds, Helds, Results

-----------------------------------------------------------------------------
(* The API function and the CDN                                            *)

(* Whatever the function answers is about the key it was asked for.        *)
LEMMA HandlerFacts ==
  ASSUME IInv, NEW key \in Keys
  PROVE  LET r == Handler(key)
         IN  r \in Answers /\ r.key = key /\ r.age <= MemoAge - 1
  <1>1. /\ Compute(key) \in Answers /\ Compute(key).key = key /\ Compute(key).age = 0
    BY DEF Compute, Response, Answers, AnswerKinds
  <1>2. memo[key] # None =>
           memo[key] \in Answers /\ memo[key].key = key /\ memo[key].age < MemoAge
    BY DEF IInv, MemoHolds
  <1>3. memo[key] # None => memo[key].age \in Nat
    BY <1>2 DEF Answers
  <1> QED
    BY <1>1, <1>2, <1>3, Ages DEF Handler

LEMMA FetchedKeeps ==
  ASSUME IInv, NEW key \in Keys, NEW r \in Answers, r.key = key, r.age <= MemoAge - 1,
         Fetched(key, r)
  PROVE  /\ memo' \in [Keys -> {None} \cup Answers] /\ \A k \in Keys : MemoHolds(memo'[k], k)
         /\ cdn' \in [Keys -> {None} \cup Helds] /\ \A k \in Keys : CdnHolds(cdn'[k], k)
  <1>0. r.age \in Nat
    BY DEF Answers
  <1>1. MemoHolds(r, key) \/ ~Remembered(r)
    BY <1>0, Ages DEF MemoHolds
  <1>2. memo' \in [Keys -> {None} \cup Answers] /\ \A k \in Keys : MemoHolds(memo'[k], k)
    BY <1>1 DEF IInv, Fetched
  <1> DEFINE h == [kind |-> "held", r |-> r, since |-> 0]
  <1>3. h \in Helds /\ h.r = r /\ h.since = 0
    BY DEF Helds
  <1>4. 0 < FreshFor(r) + StaleFor(r)
    BY Ages DEF FreshFor, StaleFor
  <1>5. Cacheable(r) => CdnHolds(h, key)
    BY <1>0, <1>3, <1>4, Ages DEF CdnHolds
  <1>6. cdn' = IF Cacheable(r) THEN [cdn EXCEPT ![key] = h] ELSE cdn
    BY DEF Fetched
  <1> HIDE DEF h
  <1>7. cdn' \in [Keys -> {None} \cup Helds] /\ \A k \in Keys : CdnHolds(cdn'[k], k)
    BY <1>3, <1>5, <1>6 DEF IInv
  <1> QED
    BY <1>2, <1>7

-----------------------------------------------------------------------------
(* The tab                                                                 *)

ServerHolds ==
    /\ memo \in [Keys -> {None} \cup Answers] /\ \A k \in Keys : MemoHolds(memo[k], k)
    /\ cdn \in [Keys -> {None} \cup Helds] /\ \A k \in Keys : CdnHolds(cdn[k], k)

PageHolds ==
    /\ ReqHolds(req) /\ ResultHolds(loaded) /\ TabHolds
    /\ AgeHolds(req, loaded, visible, awake, timer)

(* A failure is a result of its own key.                                   *)
LEMMA FailedFacts ==
  ASSUME NEW key \in Keys, NEW kind \in {"unavailable", "error"}
  PROVE  ResultHolds(Failed(kind, key)) /\ Failed(kind, key).kind = kind
  BY DEF Failed, ResultHolds, Results

LEMMA UnreadableFacts ==
  ASSUME NEW key \in Keys, NEW r
  PROVE  ResultHolds(Unreadable(key, r)) /\ Unreadable(key, r).kind # "ok"
  BY FailedFacts DEF Unreadable

(* An answer is a result of its own key, as old as it was when it was read. *)
LEMMA AnsweredFacts ==
  ASSUME NEW key \in Keys, NEW r \in Answers, r.key = key, NEW kind \in {"ok", "setup_required"}
  PROVE  LET l == Answered(kind, key, r)
         IN  ResultHolds(l) /\ l.kind = kind /\ l.age = r.age
  BY DEF Answered, ResultHolds, Results, Answers

LEMMA Kinds ==
  /\ None.kind = "none"
  /\ \A q \in [kind : {"sent"}, key : Keys] : q.kind = "sent" /\ q.key \in Keys /\ q # None
  /\ \A q \in [kind : {"body"}, key : Keys, r : Answers] :
        q.kind = "body" /\ q.key \in Keys /\ q.r \in Answers /\ q # None
  BY DEF None

(* A request starts: nothing is on its way but it, and the result that an   *)
(* aborted one leaves behind is not an answer.                             *)
LEMMA RestartKeeps ==
  ASSUME IInv, NEW key \in Keys, Restart(key)
  PROVE  /\ ReqHolds(req') /\ ResultHolds(loaded')
         /\ req' # None
         /\ loaded' = loaded \/ loaded'.kind # "ok"
  <1>1. req' \in [kind : {"sent"}, key : Keys]
    BY DEF Restart
  <1>2. ReqHolds(req') /\ req' # None
    BY <1>1, Kinds DEF ReqHolds
  <1>3. CASE req.kind = "body"
    <2>1. req.key \in Keys
      BY <1>3, Kinds DEF IInv, ReqHolds
    <2>2. loaded' = Unreadable(req.key, req.r)
      BY <1>3 DEF Restart
    <2> QED
      BY <1>2, <2>1, <2>2, UnreadableFacts
  <1>4. CASE req.kind # "body"
    BY <1>2, <1>4 DEF Restart, IInv
  <1> QED
    BY <1>3, <1>4

(* While a request is under way only the bound on a page that has been      *)
(* visible for an interval says anything, and a restart leaves it alone.    *)
LEMMA AgeAfterRestart ==
  ASSUME IInv, NEW q, q # None, NEW l, l = loaded \/ l.kind # "ok", NEW t
  PROVE  AgeHolds(q, l, visible, awake, t)
  BY DEF IInv, AgeHolds

LEMMA ServerStutters ==
  ASSUME IInv, UNCHANGED server
  PROVE  ServerHolds'
  BY DEF IInv, server, ServerHolds, MemoHolds, CdnHolds, Remembered, Cacheable, FreshFor, StaleFor

LEMMA SelectKeeps ==
  ASSUME IInv, NEW key \in Keys, Select(key)
  PROVE  ServerHolds' /\ PageHolds'
  <1>1. ServerHolds'
    BY ServerStutters DEF Select
  <1>2. Restart(key) /\ sel' = key /\ UNCHANGED <<visible, awake, timer>>
    BY DEF Select
  <1>3. AgeHolds(req', loaded', visible, awake, timer)
    BY <1>2, RestartKeeps, AgeAfterRestart
  <1>4. TabHolds'
    BY <1>2 DEF IInv, TabHolds
  <1>5. AgeHolds(req', loaded', visible', awake', timer')
    BY <1>2, <1>3
  <1> QED
    BY <1>1, <1>2, <1>4, <1>5, RestartKeeps DEF PageHolds

LEMMA RefreshNowKeeps ==
  ASSUME IInv, RefreshNow
  PROVE  ServerHolds' /\ PageHolds'
  <1>1. ServerHolds'
    BY ServerStutters DEF RefreshNow
  <1>2. Restart(sel) /\ sel \in Keys /\ UNCHANGED <<sel, visible, awake, timer>>
    BY DEF RefreshNow, IInv, TabHolds
  <1>3. AgeHolds(req', loaded', visible, awake, timer)
    BY <1>2, RestartKeeps, AgeAfterRestart
  <1>4. TabHolds'
    BY <1>2 DEF IInv, TabHolds
  <1>5. AgeHolds(req', loaded', visible', awake', timer')
    BY <1>2, <1>3
  <1> QED
    BY <1>1, <1>2, <1>4, <1>5, RestartKeeps DEF PageHolds

(* The address of the page gives its selection back.                       *)
LEMMA ReloadKeeps ==
  ASSUME IInv, Reload
  PROVE  ServerHolds' /\ PageHolds'
  <1>1. ServerHolds'
    BY ServerStutters DEF Reload
  <1>2. sel \in [cluster : Clusters, window : Windows] /\ sel \in Keys
    BY DashboardAssumption DEF IInv, TabHolds
  <1>3. sel' = sel
    BY <1>2 DEF Reload, SerializeUrl, ParseUrl
  <1>4. /\ req' = [kind |-> "sent", key |-> sel']
        /\ loaded' = None /\ timer' = Refresh /\ visible' = TRUE /\ awake' = 0
    BY DEF Reload
  <1>5. TabHolds'
    BY <1>2, <1>3, <1>4, Ages DEF TabHolds
  <1>6. ReqHolds(req') /\ ResultHolds(loaded')
    BY <1>2, <1>3, <1>4 DEF ReqHolds, ResultHolds
  <1>7. AgeHolds(req', loaded', visible', awake', timer')
    BY <1>4, NoneIsNone DEF AgeHolds
  <1> QED
    BY <1>1, <1>5, <1>6, <1>7 DEF PageHolds

LEMMA HideOrShowKeeps ==
  ASSUME IInv, HideOrShow
  PROVE  ServerHolds' /\ PageHolds'
  <1>1. ServerHolds'
    BY ServerStutters DEF HideOrShow
  <1>2. visible' = ~visible /\ awake' = 0 /\ UNCHANGED <<sel, timer, req, loaded>>
    BY DEF HideOrShow
  <1>3. TabHolds'
    BY <1>2, Ages DEF IInv, TabHolds
  <1>4. AgeHolds(req', loaded', visible', awake', timer')
    BY <1>2, <1>3, Ages DEF AgeHolds, TabHolds
  <1> QED
    BY <1>1, <1>2, <1>3, <1>4 DEF PageHolds, IInv

LEMMA AutoRefreshKeeps ==
  ASSUME IInv, AutoRefresh
  PROVE  ServerHolds' /\ PageHolds'
  <1>1. ServerHolds'
    BY ServerStutters DEF AutoRefresh
  <1>2. sel \in Keys /\ UNCHANGED <<sel, visible, awake>> /\ timer' = Refresh
    BY DEF AutoRefresh, IInv, TabHolds
  <1>3. TabHolds'
    BY <1>2, Ages DEF IInv, TabHolds
  <1>4. CASE visible
    <2>1. Restart(sel)
      BY <1>4 DEF AutoRefresh
    <2>2. AgeHolds(req', loaded', visible, awake, timer')
      BY <1>2, <2>1, RestartKeeps, AgeAfterRestart
    <2> QED
      BY <1>1, <1>2, <1>3, <2>1, <2>2, RestartKeeps DEF PageHolds
  <1>5. CASE ~visible
    <2>1. UNCHANGED <<req, loaded>>
      BY <1>5 DEF AutoRefresh
    <2>2. AgeHolds(req', loaded', visible', awake', timer')
      BY <1>2, <1>5 DEF AgeHolds
    <2> QED
      BY <1>1, <1>3, <2>1, <2>2 DEF PageHolds, IInv
  <1> QED
    BY <1>4, <1>5

(* What the CDN holds is answered while it is fresh or stale, so that the   *)
(* answer is no older than the memo and the CDN together allow.            *)
LEMMA HeldFacts ==
  ASSUME IInv, NEW key \in Keys, cdn[key] # None
  PROVE  LET r == cdn[key].r
         IN  /\ r \in Answers /\ r.key = key
             /\ Remembered(r) => r.age <= AgeOnArrival
  <1>1. CdnHolds(cdn[key], key)
    BY DEF IInv
  <1> DEFINE h == cdn[key]
  <1>2. /\ h \in Helds /\ h.r.key = key /\ h.since < FreshFor(h.r) + StaleFor(h.r)
        /\ Remembered(h.r) => h.r.age <= (MemoAge - 1) + h.since
    BY <1>1 DEF CdnHolds
  <1>3. h.r \in Answers /\ h.since \in Nat
    BY <1>2 DEF Helds
  <1>4. h.r.age \in Nat
    BY <1>3 DEF Answers
  <1>5. Remembered(h.r) => FreshFor(h.r) = MaxAge /\ StaleFor(h.r) = Swr
    BY DEF Remembered, FreshFor, StaleFor
  <1> HIDE DEF h
  <1>6. Remembered(h.r) => h.r.age <= AgeOnArrival
    BY <1>2, <1>3, <1>4, <1>5, Ages DEF AgeOnArrival
  <1> QED
    BY <1>2, <1>3, <1>6 DEF h

LEMMA BodyHolds ==
  ASSUME NEW key \in Keys, NEW r \in Answers, r.key = key,
         Remembered(r) => r.age <= AgeOnArrival
  PROVE  LET q == [kind |-> "body", key |-> key, r |-> r]
         IN  ReqHolds(q) /\ q # None
  BY Kinds DEF ReqHolds

LEMMA ServeKeeps ==
  ASSUME IInv, Serve
  PROVE  ServerHolds' /\ PageHolds'
  <1> DEFINE key == req.key
  <1>1. key \in Keys
    BY Kinds DEF Serve, IInv, ReqHolds
  <1>2. UNCHANGED <<sel, visible, awake, timer, loaded>>
    BY DEF Serve
  <1> DEFINE f == Handler(key)
  <1>3. f \in Answers /\ f.key = key /\ f.age <= MemoAge - 1
    BY <1>1, HandlerFacts
  <1>4. f.age \in Nat
    BY <1>3 DEF Answers
  <1>5. \/ cdn[key] # None /\ req' = [kind |-> "body", key |-> key, r |-> cdn[key].r]
        \/ req' = [kind |-> "body", key |-> key, r |-> f]
    BY DEF Serve
  <1>6. UNCHANGED server \/ Fetched(key, f)
    BY DEF Serve
  <1> HIDE DEF key, f
  <1>7. ServerHolds'
    <2>1. CASE UNCHANGED server
      BY <2>1, ServerStutters
    <2>2. CASE Fetched(key, f)
      <3>1. /\ memo' \in [Keys -> {None} \cup Answers] /\ \A k \in Keys : MemoHolds(memo'[k], k)
            /\ cdn' \in [Keys -> {None} \cup Helds] /\ \A k \in Keys : CdnHolds(cdn'[k], k)
        BY <2>2, <1>1, <1>3, FetchedKeeps
      <3> QED
        BY <3>1 DEF ServerHolds
    <2> QED
      BY <1>6, <2>1, <2>2
  <1>8. f.age <= AgeOnArrival
    BY <1>3, <1>4, Ages
  <1>9. ReqHolds(req') /\ req' # None
    BY <1>1, <1>3, <1>5, <1>8, HeldFacts, BodyHolds
  <1>10. AgeHolds(req', loaded, visible, awake, timer)
    BY <1>9, AgeAfterRestart
  <1> QED
    BY <1>2, <1>7, <1>9, <1>10 DEF PageHolds, IInv, TabHolds

(* A result that is not an answer has no age to bound.                     *)
LEMMA NoAge ==
  ASSUME NEW q, NEW l, l.kind # "ok", NEW v, NEW a, NEW t
  PROVE  AgeHolds(q, l, v, a, t)
  BY DEF AgeHolds

LEMMA NotServedKeeps ==
  ASSUME IInv, NotServed
  PROVE  ServerHolds' /\ PageHolds'
  <1>1. ServerHolds' /\ UNCHANGED <<sel, visible, awake, timer>>
    BY ServerStutters DEF NotServed
  <1>2. req.key \in Keys
    BY Kinds DEF NotServed, IInv, ReqHolds
  <1>3. loaded' = Failed("unavailable", req.key) /\ req' = None
    BY DEF NotServed
  <1>4. ResultHolds(loaded') /\ loaded'.kind # "ok" /\ ReqHolds(req')
    BY <1>2, <1>3, FailedFacts DEF ReqHolds
  <1>5. AgeHolds(req', loaded', visible', awake', timer')
    BY <1>4, NoAge
  <1> QED
    BY <1>1, <1>4, <1>5 DEF PageHolds, IInv, TabHolds

LEMMA BodyFailsKeeps ==
  ASSUME IInv, BodyFails
  PROVE  ServerHolds' /\ PageHolds'
  <1>1. ServerHolds' /\ UNCHANGED <<sel, visible, awake, timer>>
    BY ServerStutters DEF BodyFails
  <1>2. req.key \in Keys
    BY Kinds DEF BodyFails, IInv, ReqHolds
  <1>3. loaded' = Unreadable(req.key, req.r) /\ req' = None
    BY DEF BodyFails
  <1>4. ResultHolds(loaded') /\ loaded'.kind # "ok" /\ ReqHolds(req')
    BY <1>2, <1>3, UnreadableFacts DEF ReqHolds
  <1>5. AgeHolds(req', loaded', visible', awake', timer')
    BY <1>4, NoAge
  <1> QED
    BY <1>1, <1>4, <1>5 DEF PageHolds, IInv, TabHolds

(* An answer arrives, no older than the memo and the CDN allow.            *)
LEMMA DeliverKeeps ==
  ASSUME IInv, Deliver
  PROVE  ServerHolds' /\ PageHolds'
  <1>1. ServerHolds' /\ req' = None /\ UNCHANGED <<sel, visible, awake, timer>>
    BY ServerStutters DEF Deliver
  <1> DEFINE r == req.r  key == req.key
  <1>2. /\ key \in Keys /\ r \in Answers /\ r.key = key
        /\ Remembered(r) => r.age <= AgeOnArrival
    BY Kinds DEF Deliver, IInv, ReqHolds
  <1>3. r.kind \in AnswerKinds /\ r.age \in Nat
    BY <1>2 DEF Answers
  <1>4. \/ loaded' = Failed("unavailable", key) \/ loaded' = Failed("error", key)
        \/ loaded' = Answered("setup_required", key, r)
        \/ loaded' = Answered("ok", key, r) /\ Remembered(r)
    BY <1>3 DEF Deliver, AnswerKinds, Remembered
  <1> HIDE DEF r, key
  <1>5. ResultHolds(loaded') /\ (loaded'.kind = "ok" => loaded'.age <= AgeOnArrival)
    BY <1>2, <1>4, FailedFacts, AnsweredFacts
  <1>6. loaded'.kind = "ok" => loaded'.age \in Nat
    BY <1>5, NoneIsNone DEF ResultHolds, Results
  <1>7. AgeHolds(req', loaded', visible', awake', timer')
    BY <1>1, <1>5, <1>6, Ages DEF AgeHolds, IInv, TabHolds
  <1> QED
    BY <1>1, <1>5, <1>7 DEF PageHolds, IInv, TabHolds, ReqHolds

LEMMA ColdStartKeeps ==
  ASSUME IInv, ColdStart
  PROVE  ServerHolds' /\ PageHolds'
  <1>1. UNCHANGED <<cdn, req, loaded, sel, visible, awake, timer>>
        /\ memo' = [k \in Keys |-> None]
    BY DEF ColdStart
  <1>2. ServerHolds'
    BY <1>1 DEF IInv, ServerHolds, MemoHolds, CdnHolds, Remembered, Cacheable, FreshFor, StaleFor
  <1> QED
    BY <1>1, <1>2 DEF PageHolds, IInv, TabHolds

LEMMA StutterKeeps ==
  ASSUME IInv, UNCHANGED <<memo, cdn, sel, visible, awake, timer, req, loaded>>
  PROVE  ServerHolds' /\ PageHolds'
  <1>1. ServerHolds'
    BY ServerStutters DEF server
  <1> QED
    BY <1>1 DEF PageHolds, IInv, TabHolds

-----------------------------------------------------------------------------
(* The clock                                                               *)

LEMMA AgedAnswer ==
  ASSUME NEW r \in Answers
  PROVE  /\ Aged(r) \in Answers /\ Aged(r).key = r.key /\ Aged(r).kind = r.kind
         /\ Aged(r).age <= r.age + 1
  <1>1. r.age \in Nat
    BY DEF Answers
  <1>2. Older(r.age) \in Nat /\ Older(r.age) <= r.age + 1
    BY <1>1, AgedFacts
  <1> QED
    BY <1>2 DEF Aged, Answers

LEMMA MemoTicks ==
  ASSUME NEW k \in Keys, NEW m \in {None} \cup Answers, MemoHolds(m, k)
  PROVE  MemoOn(m) \in {None} \cup Answers /\ MemoHolds(MemoOn(m), k)
  <1>1. CASE MemoOn(m) = None
    BY <1>1 DEF MemoHolds
  <1>2. CASE MemoOn(m) # None
    <2>1. m # None /\ m.age + 1 < MemoAge /\ MemoOn(m) = Aged(m) /\ m \in Answers
      <3>1. m # None /\ ~(m.age + 1 >= MemoAge) /\ MemoOn(m) = Aged(m)
        BY <1>2 DEF MemoOn
      <3>2. m \in Answers
        BY <3>1
      <3>3. m.age \in Nat
        BY <3>2 DEF Answers
      <3> QED
        BY <3>1, <3>2, <3>3, Ages
    <2>2. Remembered(m) /\ m.key = k
      BY <2>1 DEF MemoHolds
    <2>3. m.age \in Nat /\ Aged(m).age \in Nat
      BY <2>1, AgedAnswer DEF Answers
    <2>4. Aged(m).age < MemoAge
      BY <2>1, <2>3, AgedAnswer, Ages
    <2>5. Remembered(Aged(m))
      BY <2>1, <2>2, AgedAnswer DEF Remembered
    <2> QED
      BY <2>1, <2>2, <2>4, <2>5, AgedAnswer DEF MemoHolds
  <1> QED
    BY <1>1, <1>2

LEMMA CdnTicks ==
  ASSUME NEW k \in Keys, NEW h \in {None} \cup Helds, CdnHolds(h, k)
  PROVE  HeldOn(h) \in {None} \cup Helds /\ CdnHolds(HeldOn(h), k)
  <1>1. CASE HeldOn(h) = None
    BY <1>1 DEF CdnHolds
  <1>2. CASE HeldOn(h) # None
    <2> DEFINE n == [kind |-> "held", r |-> Aged(h.r), since |-> h.since + 1]
    <2>1. h # None /\ ~(h.since + 1 >= FreshFor(h.r) + StaleFor(h.r)) /\ HeldOn(h) = n
      BY <1>2 DEF HeldOn
    <2>2. /\ h \in Helds /\ Cacheable(h.r) /\ h.r.key = k
          /\ Remembered(h.r) => h.r.age <= (MemoAge - 1) + h.since
      BY <2>1 DEF CdnHolds
    <2>3. h.r \in Answers /\ h.since \in Nat
      BY <2>2 DEF Helds
    <2>4. h.r.age \in Nat /\ Aged(h.r).age \in Nat
      BY <2>3, AgedAnswer DEF Answers
    <2>5. n \in Helds /\ n.r = Aged(h.r) /\ n.since = h.since + 1
      BY <2>3, AgedAnswer DEF Helds
    <2>6. Aged(h.r).kind = h.r.kind /\ Aged(h.r).key = k
      BY <2>2, <2>3, AgedAnswer
    <2>7. Cacheable(n.r) /\ FreshFor(n.r) = FreshFor(h.r) /\ StaleFor(n.r) = StaleFor(h.r)
          /\ (Remembered(n.r) <=> Remembered(h.r))
      BY <2>2, <2>5, <2>6 DEF Cacheable, FreshFor, StaleFor, Remembered
    <2>8. n.since < FreshFor(n.r) + StaleFor(n.r)
      <3>1. FreshFor(h.r) + StaleFor(h.r) \in Nat
        BY Ages DEF FreshFor, StaleFor
      <3> QED
        BY <2>1, <2>3, <2>5, <2>7, <3>1
    <2>9. Remembered(n.r) => n.r.age <= (MemoAge - 1) + n.since
      BY <2>2, <2>3, <2>4, <2>5, <2>7, AgedAnswer, Ages
    <2> HIDE DEF n
    <2> QED
      BY <2>1, <2>5, <2>6, <2>7, <2>8, <2>9 DEF CdnHolds
  <1> QED
    BY <1>1, <1>2

(* An interval that is one tick shorter leaves the figures one tick older.  *)
LEMMA AgeTicks ==
  ASSUME IInv, Tick
  PROVE  AgeHolds(req', loaded', visible', awake', timer')
  <1>1. /\ visible' = visible /\ req' = req /\ req = None /\ timer' = timer - 1
        /\ awake' = (IF visible /\ awake <= Refresh THEN awake + 1 ELSE awake)
    BY DEF Tick
  <1>2. SUFFICES ASSUME loaded'.kind = "ok", visible, awake' + timer' > Refresh
                 PROVE  loaded'.age <= AgeOnArrival + (Refresh - timer')
    <2>1. awake' \in Nat /\ timer' \in Nat /\ timer' <= Refresh
      BY <1>1, Ages DEF IInv, TabHolds, Tick
    <2>2. loaded'.kind = "ok" => loaded'.age \in Nat
      <3>1. CASE loaded.kind = "ok"
        <4>1. loaded.age \in Nat /\ loaded \in Results
          BY <3>1, NoneIsNone DEF IInv, ResultHolds, Results
        <4> QED
          BY <3>1, <4>1, AgedFacts DEF Tick, Aged, Results
      <3>2. CASE loaded.kind # "ok"
        BY <3>2 DEF Tick
      <3> QED
        BY <3>1, <3>2
    <2> QED
      BY <1>1, <2>1, <2>2, Ages DEF AgeHolds
  <1>3. loaded.kind = "ok" /\ loaded' = Aged(loaded)
    BY <1>2 DEF Tick
  <1>4. loaded \in Results /\ loaded.age \in Nat
    BY <1>3, NoneIsNone DEF IInv, ResultHolds, Results
  <1>5. loaded'.age \in Nat /\ loaded'.age <= loaded.age + 1
    BY <1>3, <1>4, AgedFacts DEF Aged, Results
  <1>6. awake \in Nat /\ awake <= Refresh + 1 /\ timer \in Nat /\ timer > 0 /\ timer <= Refresh
    BY Ages DEF IInv, TabHolds, Tick
  <1>7. awake + timer > Refresh
    BY <1>1, <1>2, <1>6, Ages
  <1>8. loaded.age <= AgeOnArrival + (Refresh - timer)
    BY <1>1, <1>2, <1>3, <1>7 DEF IInv, AgeHolds
  <1> QED
    BY <1>1, <1>4, <1>5, <1>6, <1>8, Ages

LEMMA TickKeeps ==
  ASSUME IInv, Tick
  PROVE  ServerHolds' /\ PageHolds'
  <1>1. \A k \in Keys : memo[k] \in {None} \cup Answers /\ cdn[k] \in {None} \cup Helds
    BY DEF IInv
  <1>2. \A k \in Keys : MemoOn(memo[k]) \in {None} \cup Answers /\ MemoHolds(MemoOn(memo[k]), k)
    BY <1>1, MemoTicks DEF IInv
  <1>3. \A k \in Keys : HeldOn(cdn[k]) \in {None} \cup Helds /\ CdnHolds(HeldOn(cdn[k]), k)
    BY <1>1, CdnTicks DEF IInv
  <1>4. memo' = [k \in Keys |-> MemoOn(memo[k])] /\ cdn' = [k \in Keys |-> HeldOn(cdn[k])]
    BY DEF Tick
  <1>5. /\ memo' \in [Keys -> {None} \cup Answers] /\ \A k \in Keys : MemoHolds(memo'[k], k)
        /\ cdn' \in [Keys -> {None} \cup Helds] /\ \A k \in Keys : CdnHolds(cdn'[k], k)
    BY <1>2, <1>3, <1>4
  <1>6. ServerHolds'
    BY <1>5 DEF ServerHolds
  <1>7. TabHolds'
    BY Ages DEF IInv, TabHolds, Tick
  <1>8. ResultHolds(loaded')
    <2>1. CASE loaded.kind = "ok"
      <3>1. loaded \in Results /\ loaded.from = loaded.key /\ loaded.age \in Nat
        BY <2>1, NoneIsNone DEF IInv, ResultHolds, Results
      <3>2. Older(loaded.age) \in Nat
        BY <3>1, AgedFacts
      <3> QED
        BY <2>1, <3>1, <3>2 DEF Tick, Aged, ResultHolds, Results
    <2>2. CASE loaded.kind # "ok"
      BY <2>2 DEF Tick, IInv
    <2> QED
      BY <2>1, <2>2
  <1>9. ReqHolds(req')
    BY DEF Tick, ReqHolds
  <1> QED
    BY <1>6, <1>7, <1>8, <1>9, AgeTicks DEF PageHolds

-----------------------------------------------------------------------------
(* The theorems                                                            *)

LEMMA InitHolds == Init => IInv
  <1> SUFFICES ASSUME Init PROVE IInv
    OBVIOUS
  <1>1. /\ memo \in [Keys -> {None} \cup Answers] /\ \A k \in Keys : MemoHolds(memo[k], k)
        /\ cdn \in [Keys -> {None} \cup Helds] /\ \A k \in Keys : CdnHolds(cdn[k], k)
    BY DEF Init, MemoHolds, CdnHolds
  <1>2. ReqHolds(req) /\ ResultHolds(loaded) /\ TabHolds
    BY Ages DEF Init, ReqHolds, ResultHolds, TabHolds
  <1>3. AgeHolds(req, loaded, visible, awake, timer)
    BY NoneIsNone, NoAge DEF Init
  <1> QED
    BY <1>1, <1>2, <1>3 DEF IInv

LEMMA NextHolds == IInv /\ [Next]_vars => IInv'
  <1> SUFFICES ASSUME IInv, [Next]_vars PROVE ServerHolds' /\ PageHolds'
    BY DEF IInv, ServerHolds, PageHolds
  <1>1. CASE \E key \in Keys : Select(key)
    BY <1>1, SelectKeeps
  <1>2. CASE RefreshNow
    BY <1>2, RefreshNowKeeps
  <1>3. CASE Reload
    BY <1>3, ReloadKeeps
  <1>4. CASE HideOrShow
    BY <1>4, HideOrShowKeeps
  <1>5. CASE AutoRefresh
    BY <1>5, AutoRefreshKeeps
  <1>6. CASE Serve
    BY <1>6, ServeKeeps
  <1>7. CASE NotServed
    BY <1>7, NotServedKeeps
  <1>8. CASE Deliver
    BY <1>8, DeliverKeeps
  <1>9. CASE BodyFails
    BY <1>9, BodyFailsKeeps
  <1>10. CASE ColdStart
    BY <1>10, ColdStartKeeps
  <1>11. CASE ApiChanges
    BY <1>11, StutterKeeps DEF ApiChanges, server
  <1>12. CASE Tick
    BY <1>12, TickKeeps
  <1>13. CASE UNCHANGED vars
    BY <1>13, StutterKeeps DEF vars
  <1> QED
    BY <1>1, <1>2, <1>3, <1>4, <1>5, <1>6, <1>7, <1>8, <1>9, <1>10, <1>11, <1>12, <1>13
    DEF Next

(* The invariant holds of every page.                                      *)
THEOREM InductiveInvariant == Spec => []IInv
  BY InitHolds, NextHolds, PTL DEF Spec

(* Figures that are not marked as a saved copy are an answer's, asked for    *)
(* under the selection the page has now.                                   *)
LEMMA DataIsShown ==
  ASSUME View.kind = "data"
  PROVE  /\ Shown = loaded /\ loaded.key = sel /\ loaded.kind # "none"
         /\ ~View.cached => loaded.kind = "ok"
  <1>1. Shown = None \/ (Shown = loaded /\ loaded.key = sel /\ loaded.kind # "none")
    BY DEF Shown
  <1>2. Shown # None
    BY NoneIsNone DEF View, ViewFromResult, Loading
  <1>3. ~View.cached => Shown.kind = "ok"
    BY NoneIsNone DEF View, ViewFromResult, Loading
  <1> QED
    BY <1>1, <1>2, <1>3

(* What the page shows, read now or saved earlier, is about the cluster and  *)
(* window that are selected (App.tsx:57, fetchDashboard.ts:46).             *)
THEOREM FiguresBelongToSelection == Spec => []ShowsTheSelection
  <1>1. IInv => ShowsTheSelection
    <2> SUFFICES ASSUME IInv, View.kind = "data" PROVE Shown.from = sel
      BY DEF ShowsTheSelection
    <2>1. Shown = loaded /\ loaded.key = sel /\ loaded # None
      BY DataIsShown, NoneIsNone
    <2> QED
      BY <2>1 DEF IInv, ResultHolds
  <1> QED
    BY <1>1, InductiveInvariant, PTL

(* A tab that has been visible for longer than an interval shows no answer   *)
(* older than the memo, the CDN and the interval together allow             *)
(* (api/dashboard.ts:25-42, App.tsx:46-55).                                 *)
THEOREM AnswersAreRecent == Spec => []ShownAgeBounded
  <1>1. IInv => ShownAgeBounded
    <2> SUFFICES ASSUME IInv, visible, awake > Refresh, View.kind = "data", ~View.cached
                 PROVE  Shown.age <= AgeOnArrival + Refresh
      BY DEF ShownAgeBounded, AgeOnArrival
    <2>1. Shown = loaded /\ loaded.kind = "ok"
      BY DataIsShown
    <2> QED
      BY <2>1 DEF IInv, AgeHolds
  <1> QED
    BY <1>1, InductiveInvariant, PTL

-----------------------------------------------------------------------------
(* The storage                                                             *)

(* The index lists every copy once, but for those whose latest save failed.  *)
StorageInv ==
    /\ index \in Seq(Keys) /\ Len(index) <= MaxCached
    /\ \A i, j \in 1..Len(index) : index[i] = index[j] => i = j
    /\ store \subseteq Keys /\ unsaved \subseteq Keys
    /\ store \ Listed(index) \subseteq unsaved

(* Of the initial intervals that end in a set of numbers, one is smallest.   *)
LEMMA LeastExists ==
  ASSUME NEW S \in SUBSET Nat, S # {}
  PROVE  \E n \in S : \A m \in S : n <= m
  <1> DEFINE T == {1..n : n \in S}
  <1>1. IsWellFoundedOn(StrictSubsetOrdering(Nat), FiniteSubsetsOf(Nat))
    BY FS_StrictSubsetOrderingWellFounded
  <1>2. PICK U \in T : \A V \in T : <<V, U>> \notin StrictSubsetOrdering(Nat)
    <2>1. T \subseteq FiniteSubsetsOf(Nat)
      <3>1. ASSUME NEW n \in S PROVE 1..n \in SUBSET Nat /\ IsFiniteSet(1..n)
        BY FS_Interval
      <3> QED
        BY <3>1 DEF FiniteSubsetsOf
    <2>2. T # {}
      OBVIOUS
    <2> HIDE DEF T
    <2> QED
      BY <1>1, <2>1, <2>2, WFMin
  <1>3. PICK n \in S : U = 1..n
    OBVIOUS
  <1>4. ASSUME NEW m \in S, m < n PROVE FALSE
    <2>1. 1..m \subseteq U /\ n \in U /\ n \notin 1..m
      BY <1>3, <1>4
    <2>2. U \subseteq Nat
      BY <1>3
    <2>3. <<1..m, U>> \in StrictSubsetOrdering(Nat)
      BY <2>1, <2>2 DEF StrictSubsetOrdering
    <2> QED
      BY <1>2, <1>4, <2>3
  <1> QED
    BY <1>4

(* What is left of a list without a key: the other entries, each once.       *)
LEMMA WithoutFacts ==
  ASSUME NEW s \in Seq(Keys), NEW key,
         \A i, j \in 1..Len(s) : s[i] = s[j] => i = j
  PROVE  LET o == Without(s, key)
         IN  /\ o \in Seq(Keys)
             /\ Listed(o) = Listed(s) \ {key}
             /\ \A i, j \in 1..Len(o) : o[i] = o[j] => i = j
  <1> DEFINE kept == {i \in DOMAIN s : s[i] # key}
             N == Cardinality(kept)
             UpTo(i) == {j \in kept : j <= i}
             rank == [i \in kept |-> Cardinality(UpTo(i))]
             nth(n) == CHOOSE i \in kept : Cardinality(UpTo(i)) = n
             o == [n \in 1..N |-> s[nth(n)]]
  <1>1. Without(s, key) = o
    BY DEF Without
  <1>2. DOMAIN s = 1..Len(s) /\ Len(s) \in Nat /\ kept \subseteq 1..Len(s) /\ kept \subseteq Nat
    OBVIOUS
  <1>3. IsFiniteSet(kept) /\ N \in Nat
    <2>1. IsFiniteSet(1..Len(s))
      BY <1>2, FS_Interval
    <2> QED
      BY <1>2, <2>1, FS_Subset, FS_CardinalityType
  <1>4. ASSUME NEW i \in kept PROVE IsFiniteSet(UpTo(i)) /\ Cardinality(UpTo(i)) \in 1..N
    <2>1. IsFiniteSet(UpTo(i)) /\ Cardinality(UpTo(i)) <= N
      BY <1>3, FS_Subset
    <2>2. i \in UpTo(i)
      BY <1>2
    <2>3. Cardinality(UpTo(i)) \in Nat /\ Cardinality(UpTo(i)) # 0
      BY <2>1, <2>2, FS_CardinalityType, FS_EmptySet
    <2> QED
      BY <1>3, <2>1, <2>3
  <1>5. ASSUME NEW i \in kept, NEW j \in kept, i < j
        PROVE  Cardinality(UpTo(i)) # Cardinality(UpTo(j))
    <2>1. UpTo(i) \in SUBSET UpTo(j) /\ j \in UpTo(j) /\ j \notin UpTo(i)
      BY <1>2, <1>5
    <2> QED
      BY <1>4, <2>1, FS_Subset
  <1> HIDE DEF UpTo
  <1>6. \A i, j \in kept : rank[i] = rank[j] => i = j
    BY <1>2, <1>5
  <1>7. \A n \in 1..N : \E i \in kept : Cardinality(UpTo(i)) = n
    <2>1. rank \in [kept -> 1..N]
      BY <1>4
    <2>2. rank \in Injection(kept, 1..N)
      <3> HIDE DEF rank
      <3> QED
        BY <1>6, <2>1 DEF Injection, IsInjective
    <2>3. IsFiniteSet(1..N) /\ Cardinality(1..N) = N
      BY <1>3, FS_Interval
    <2>4. rank \in Surjection(kept, 1..N)
      <3> HIDE DEF rank
      <3> QED
        BY <2>2, <2>3, FS_Injection
    <2> QED
      BY <2>4 DEF Surjection
  <1>8. \A n \in 1..N : nth(n) \in kept /\ Cardinality(UpTo(nth(n))) = n
    BY <1>7
  <1>9. \A i \in kept : Cardinality(UpTo(i)) \in 1..N /\ nth(Cardinality(UpTo(i))) = i
    BY <1>4, <1>6, <1>8
  <1> HIDE DEF nth
  <1>10. \A n \in 1..N : o[n] = s[nth(n)] /\ o[n] \in Keys /\ o[n] # key
    BY <1>2, <1>8
  <1>11. DOMAIN o = 1..N /\ o \in Seq(Keys) /\ Len(o) = N
    BY <1>3, <1>10
  <1>12. Listed(o) \subseteq Listed(s) \ {key}
    BY <1>2, <1>8, <1>10, <1>11 DEF Listed
  <1>13. Listed(s) \ {key} \subseteq Listed(o)
    <2> SUFFICES ASSUME NEW i \in kept PROVE s[i] \in Listed(o)
      BY DEF Listed
    <2>1. Cardinality(UpTo(i)) \in 1..N /\ nth(Cardinality(UpTo(i))) = i
      BY <1>9
    <2>2. o[Cardinality(UpTo(i))] = s[i]
      BY <1>10, <2>1
    <2> QED
      BY <1>11, <2>1, <2>2 DEF Listed
  <1>14. ASSUME NEW i \in 1..N, NEW j \in 1..N, o[i] = o[j] PROVE i = j
    <2>1. nth(i) = nth(j)
      BY <1>2, <1>8, <1>10, <1>14
    <2> QED
      BY <1>8, <2>1
  <1> HIDE DEF o
  <1> QED
    BY <1>1, <1>11, <1>12, <1>13, <1>14

(* Dropping the oldest and appending a key that is not listed.               *)
LEMMA Rewritten ==
  ASSUME NEW o \in Seq(Keys), NEW n \in 0..Len(o), NEW key \in Keys, key \notin Listed(o),
         \A i, j \in 1..Len(o) : o[i] = o[j] => i = j
  PROVE  LET s == Append(Rest(o, n), key)
         IN  /\ s \in Seq(Keys) /\ Len(s) = Len(o) - n + 1
             /\ \A i, j \in 1..Len(s) : s[i] = s[j] => i = j
             /\ \A k \in Listed(o) : k \in Listed(s) \/ k \in {o[i] : i \in 1..n}
             /\ key \in Listed(s)
  <1> DEFINE rest == SubSeq(o, n + 1, Len(o))
             s == Append(rest, key)
  <1>1. /\ Len(o) \in Nat /\ rest \in Seq(Keys) /\ Len(rest) = Len(o) - n
        /\ \A i \in 1..Len(rest) : rest[i] = o[i + n]
    OBVIOUS
  <1> HIDE DEF rest
  <1>2. /\ s \in Seq(Keys) /\ Len(rest) \in Nat /\ Len(s) = Len(rest) + 1
        /\ DOMAIN s = 1..Len(rest) + 1
        /\ \A i \in 1..Len(rest) : s[i] = rest[i]
        /\ s[Len(rest) + 1] = key
    <2>1. Len(rest) \in Nat
      BY <1>1
    <2>2. s \in Seq(Keys) /\ Len(s) = Len(rest) + 1
      BY <1>1
    <2>3. s[Len(rest) + 1] = key
      BY <1>1
    <2>4. \A i \in 1..Len(rest) : s[i] = rest[i]
      BY <1>1
    <2> HIDE DEF s
    <2>5. DOMAIN s = 1..Len(rest) + 1
      BY <2>2
    <2> QED
      BY <2>1, <2>2, <2>3, <2>4, <2>5
  <1> HIDE DEF s
  <1>3. \A i \in 1..Len(rest) : s[i] = o[i + n] /\ i + n \in 1..Len(o)
    BY <1>1, <1>2
  <1>4. \A i \in 1..Len(rest) : s[i] # key
    BY <1>3 DEF Listed
  <1>5. ASSUME NEW i \in 1..Len(s), NEW j \in 1..Len(s), s[i] = s[j] PROVE i = j
    <2>1. CASE i \in 1..Len(rest) /\ j \in 1..Len(rest)
      BY <1>1, <1>3, <1>5, <2>1
    <2>2. i \in 1..Len(rest) \/ i = Len(rest) + 1
      BY <1>2
    <2>3. j \in 1..Len(rest) \/ j = Len(rest) + 1
      BY <1>2
    <2>4. CASE i = Len(rest) + 1 /\ j \in 1..Len(rest)
      BY <1>2, <1>4, <1>5, <2>4
    <2>5. CASE j = Len(rest) + 1 /\ i \in 1..Len(rest)
      BY <1>2, <1>4, <1>5, <2>5
    <2> QED
      BY <2>1, <2>2, <2>3, <2>4, <2>5
  <1>6. ASSUME NEW i \in 1..Len(o), i \notin 1..n PROVE o[i] \in Listed(s)
    <2>1. i - n \in 1..Len(rest) /\ s[i - n] = o[i]
      BY <1>1, <1>3, <1>6
    <2>2. i - n \in DOMAIN s
      BY <1>1, <1>2, <2>1
    <2> QED
      BY <2>1, <2>2 DEF Listed
  <1>7. key \in Listed(s)
    BY <1>1, <1>2 DEF Listed
  <1>8. \A k \in Listed(o) : k \in Listed(s) \/ k \in {o[i] : i \in 1..n}
    BY <1>6 DEF Listed
  <1> QED
    BY <1>1, <1>2, <1>5, <1>7, <1>8 DEF Rest, rest, s

(* A save that succeeds lists the copy it wrote and only forgets copies it    *)
(* dropped; one that fails is remembered as such.                            *)
LEMMA WriteKeepsStorage ==
  ASSUME StorageInv, NEW key \in Keys, WriteCached(key)
  PROVE  StorageInv'
  <1> DEFINE others == Without(index, key)
             start == TrimTo(Len(others))
             left(n) == store \ {others[i] : i \in 1..n}
             copyFits(n) == Fits(left(n) \cup {key}, Len(index))
             bothFit(n) == copyFits(n) /\ Fits(left(n) \cup {key}, Len(others) - n + 1)
             tries == {n \in start..Len(others) : bothFit(n)}
             last == IF tries = {} THEN Len(others)
                     ELSE CHOOSE m \in tries : \A o \in tries : m <= o
  <1>1. /\ store' = left(last) \cup (IF copyFits(last) THEN {key} ELSE {})
        /\ index' = IF tries = {} THEN index ELSE Append(Rest(others, last), key)
        /\ unsaved' = IF tries = {} THEN unsaved \cup {key} ELSE unsaved \ {key}
    BY DEF WriteCached
  <1>2. /\ others \in Seq(Keys) /\ Listed(others) = Listed(index) \ {key}
        /\ \A i, j \in 1..Len(others) : others[i] = others[j] => i = j
    BY WithoutFacts DEF StorageInv
  <1>3. Len(others) \in Nat /\ start \in Nat /\ Len(others) - start < MaxCached
    BY <1>2, DashboardAssumption DEF TrimTo
  <1> HIDE DEF others, copyFits, bothFit, start
  <1>4. store' \subseteq left(last) \cup {key}
    BY <1>1
  <1>5. CASE tries = {}
    <2>1. index' = index /\ unsaved' = unsaved \cup {key} /\ store' \subseteq store \cup {key}
      BY <1>1, <1>4, <1>5
    <2> HIDE DEF tries, left, last
    <2> QED
      BY <2>1 DEF StorageInv, Listed
  <1>6. CASE tries # {}
    <2>1. last \in start..Len(others)
      <3>1. tries \in SUBSET Nat /\ tries \subseteq start..Len(others)
        BY <1>3
      <3> HIDE DEF tries
      <3> QED
        BY <1>6, <3>1, LeastExists
    <2>2. /\ index' = Append(Rest(others, last), key) /\ unsaved' = unsaved \ {key}
          /\ store' \subseteq (store \ {others[i] : i \in 1..last}) \cup {key}
      BY <1>1, <1>4, <1>6
    <2> HIDE DEF tries, left, last
    <2>3. last \in 0..Len(others) /\ key \notin Listed(others)
      BY <1>2, <1>3, <2>1
    <2>4. /\ index' \in Seq(Keys) /\ Len(index') = Len(others) - last + 1
          /\ \A i, j \in 1..Len(index') : index'[i] = index'[j] => i = j
          /\ \A k \in Listed(others) : k \in Listed(index') \/ k \in {others[i] : i \in 1..last}
          /\ key \in Listed(index')
      BY <1>2, <2>2, <2>3, Rewritten
    <2>5. Len(index') <= MaxCached
      BY <1>3, <2>1, <2>4, DashboardAssumption
    <2>6. ASSUME NEW k \in store', k \notin Listed(index') PROVE k \in unsaved'
      <3>1. k # key /\ k \in store /\ k \notin {others[i] : i \in 1..last}
        BY <2>2, <2>4, <2>6
      <3>2. k \notin Listed(index)
        BY <1>2, <2>4, <2>6, <3>1
      <3> QED
        BY <2>2, <3>1, <3>2 DEF StorageInv
    <2>7. store' \subseteq Keys /\ unsaved' \subseteq Keys
      BY <2>2 DEF StorageInv
    <2>8. (Listed(index))' = Listed(index')
      BY DEF Listed
    <2> QED
      BY <2>4, <2>5, <2>6, <2>7, <2>8 DEF StorageInv
  <1> QED
    BY <1>5, <1>6

LEMMA StorageStutters ==
  ASSUME StorageInv, UNCHANGED storage
  PROVE  StorageInv'
  BY DEF StorageInv, storage, Listed

(* Only an answer that arrives is saved, under the key it is about.          *)
LEMMA StorageStep == IInv /\ StorageInv /\ [Next]_vars => StorageInv'
  <1> SUFFICES ASSUME IInv, StorageInv, [Next]_vars PROVE StorageInv'
    OBVIOUS
  <1>1. CASE Deliver
    <2>1. req.r \in Answers
      BY <1>1, Kinds DEF Deliver, IInv, ReqHolds
    <2>2. req.r.key \in Keys
      BY <2>1 DEF Answers
    <2>3. UNCHANGED storage \/ WriteCached(req.r.key)
      BY <1>1 DEF Deliver
    <2> QED
      BY <2>2, <2>3, StorageStutters, WriteKeepsStorage
  <1>2. CASE ~Deliver
    <2>1. UNCHANGED storage
      BY <1>2 DEF Next, Select, RefreshNow, Reload, HideOrShow, AutoRefresh, Serve,
                  NotServed, BodyFails, ColdStart, ApiChanges, Tick, vars, storage
    <2> QED
      BY <2>1, StorageStutters
  <1> QED
    BY <1>1, <1>2

LEMMA StorageAlways == Spec => []StorageInv
  <1>1. Init => StorageInv
    BY DashboardAssumption DEF Init, StorageInv, Listed
  <1> QED
    BY <1>1, StorageStep, InductiveInvariant, PTL DEF Spec

(* Every saved copy can be dropped when the storage fills up, but those whose *)
(* latest save failed halfway, and there are no more than the limit: whatever *)
(* the quota refuses, and in whatever order keys are saved again              *)
(* (fetchDashboard.ts:69-95).                                               *)
THEOREM CopiesStayListed == Spec => []CopiesAreListed
  <1>1. StorageInv => CopiesAreListed
    <2> SUFFICES ASSUME StorageInv PROVE CopiesAreListed
      OBVIOUS
    <2> DEFINE D == 1..Len(index)
    <2>1. index \in [D -> Keys] /\ DOMAIN index = D /\ Len(index) \in Nat
      BY DEF StorageInv
    <2>2. IsFiniteSet(D) /\ Cardinality(D) = Len(index)
      <3>1. Len(index) \in Nat
        BY DEF StorageInv
      <3>2. Cardinality(1..Len(index)) = IF 1 > Len(index) THEN 0 ELSE Len(index) - 1 + 1
        BY <3>1, FS_Interval
      <3>3. IsFiniteSet(1..Len(index))
        BY <3>1, FS_Interval
      <3> QED
        BY <3>1, <3>2, <3>3
    <2>3. index \in Surjection(D, Listed(index)) /\ index \in Injection(D, Listed(index))
      <3>1. \A i, j \in D : index[i] = index[j] => i = j
        BY DEF StorageInv
      <3>2. Listed(index) = {index[i] : i \in D}
        BY <2>1 DEF Listed
      <3> HIDE DEF D
      <3>3. index \in [D -> Listed(index)]
        BY <2>1, <3>2
      <3>4. index \in Surjection(D, Listed(index))
        BY <3>2, <3>3 DEF Surjection
      <3>5. \A i, j \in DOMAIN index : index[i] = index[j] => i = j
        BY <3>1, <3>3
      <3>6. index \in Injection(D, Listed(index))
        BY <3>3, <3>5 DEF Injection, IsInjective
      <3> QED
        BY <3>4, <3>6
    <2>4. IsFiniteSet(Listed(index)) /\ Cardinality(Listed(index)) = Len(index)
      BY <2>2, <2>3, FS_Surjection
    <2>5. store \ unsaved \in SUBSET Listed(index)
      BY DEF StorageInv
    <2>6. /\ Cardinality(store \ unsaved) <= Cardinality(Listed(index))
          /\ Cardinality(store \ unsaved) \in Nat
      BY <2>4, <2>5, FS_Subset, FS_CardinalityType
    <2> QED
      BY <2>1, <2>4, <2>6, DashboardAssumption DEF CopiesAreListed, StorageInv
  <1> QED
    BY <1>1, StorageAlways, PTL

-----------------------------------------------------------------------------
(* The types                                                               *)

(* The database is one of the given ones, and the bounds hold.              *)
EnvInv ==
    /\ [content |-> content, quota |-> quota] \in Setups /\ api \in ApiStates
    /\ clicks \in 0..MaxClicks /\ outages \in 0..MaxOutages

LEMMA EnvAlways == Spec => []EnvInv
  <1>1. Init => EnvInv
    <2> SUFFICES ASSUME Init PROVE EnvInv
      OBVIOUS
    <2>1. PICK s \in Setups : content = s.content /\ quota = s.quota
      BY DEF Init
    <2>2. s = [content |-> content, quota |-> quota]
      BY <2>1, ContentAssumption
    <2> QED
      BY <2>1, <2>2, DashboardAssumption DEF Init, EnvInv
  <1>2. EnvInv /\ [Next]_vars => EnvInv'
    <2> SUFFICES ASSUME EnvInv, [Next]_vars PROVE EnvInv'
      OBVIOUS
    <2>1. UNCHANGED <<content, quota>>
      BY DEF Next, Select, RefreshNow, Reload, HideOrShow, AutoRefresh, Serve, NotServed,
             Deliver, BodyFails, ColdStart, ApiChanges, Tick, vars, env
    <2>2. api' \in ApiStates /\ outages' \in 0..MaxOutages
      <3>1. CASE ApiChanges
        BY <3>1, DashboardAssumption DEF ApiChanges, EnvInv
      <3>2. CASE ~ApiChanges
        BY <3>2 DEF Next, Select, RefreshNow, Reload, HideOrShow, AutoRefresh, Serve,
                    NotServed, Deliver, BodyFails, ColdStart, Tick, vars, env, EnvInv
      <3> QED
        BY <3>1, <3>2
    <2>3. clicks' \in 0..MaxClicks
      <3>1. clicks' = clicks \/ Click
        BY DEF Next, Select, RefreshNow, Reload, HideOrShow, AutoRefresh, Serve, NotServed,
               Deliver, BodyFails, ColdStart, ApiChanges, Tick, vars
      <3> QED
        BY <3>1, DashboardAssumption DEF Click, EnvInv
    <2> QED
      BY <2>1, <2>2, <2>3 DEF EnvInv
  <1> QED
    BY <1>1, <1>2, PTL DEF Spec

(* Every variable keeps its type, and the figures are those selected.        *)
THEOREM DashboardIsCorrect == Spec => []DashboardInv
  <1>1. IInv /\ StorageInv /\ EnvInv => DashboardTypeOK
    <2> SUFFICES ASSUME IInv, StorageInv, EnvInv PROVE DashboardTypeOK
      OBVIOUS
    <2>1. req.kind \in {"none", "sent", "body"}
      BY Kinds DEF IInv, ReqHolds
    <2>2. loaded.kind \in ResultKinds
      BY NoneIsNone DEF IInv, ResultHolds, Results, ResultKinds
    <2>3. Listed(index) \subseteq Keys
      BY DEF StorageInv, Listed
    <2>4. \A k \in Keys : memo[k] # None => Remembered(memo[k]) /\ memo[k].key = k
      BY DEF IInv, MemoHolds
    <2>5. \A k \in Keys : cdn[k] # None => Cacheable(cdn[k].r) /\ cdn[k].r.key = k
      BY DEF IInv, CdnHolds
    <2> QED
      BY <2>1, <2>2, <2>3, <2>4, <2>5 DEF DashboardTypeOK, IInv, TabHolds, StorageInv, EnvInv
  <1> QED
    BY <1>1, InductiveInvariant, StorageAlways, EnvAlways, FiguresBelongToSelection, PTL
    DEF DashboardInv

-----------------------------------------------------------------------------
(* The page                                                                *)

LEMMA ClusterRows ==
  ASSUME NEW cluster \in Clusters, NEW binaries, NEW P \in ClusterPrograms(cluster, binaries)
  PROVE  /\ \A p \in P : p \in ProgramRow /\ p.key # 0
         /\ \A p, q \in P : p.key = q.key => p = q
         /\ \A p \in P : p.key = IF p.version = 1 THEN ClusterKeys(cluster).v1
                                 ELSE ClusterKeys(cluster).v2
         /\ {p.version : p \in P} = {1, 2}
         /\ \A p \in P : p.match <=> \E b \in binaries : b.sha = p.sha
  <1>1. ClusterKeys(cluster).v1 # ClusterKeys(cluster).v2
    BY DEF ClusterKeys
  <1>2. \A p \in P : p \in ProgramRow
    BY DEF ClusterPrograms
  <1>3. \A p \in P : p.key # 0 /\ p.version \in {1, 2}
    BY <1>2 DEF ProgramRow
  <1>4. \A p \in P : p.key = IF p.version = 1 THEN ClusterKeys(cluster).v1
                             ELSE ClusterKeys(cluster).v2
    BY DEF ClusterPrograms
  <1>5. \A p, q \in P : p.version = q.version => p = q
    BY DEF ClusterPrograms
  <1>6. {p.version : p \in P} = {1, 2}
    BY DEF ClusterPrograms
  <1>7. \A p \in P : p.match <=> \E b \in binaries : b.sha = p.sha
    BY DEF ClusterPrograms
  <1>8. \A p, q \in P : p.key = q.key => p = q
    BY <1>1, <1>3, <1>4, <1>5
  <1> QED
    BY <1>2, <1>3, <1>4, <1>6, <1>7, <1>8

(* A program with a backlog never shows 100 %.                              *)
LEMMA ShortOfTheEnd ==
  ASSUME NEW a \in Nat, NEW b \in Nat, b > 0
  PROVE  (1000 * a) \div (a + b) # 1000
  <1>1. a + b \in Nat \ {0} /\ 1000 * a \in Nat
    OBVIOUS
  <1>2. PICK q \in Int, n \in Nat \ {0} : n = a + b /\ q = (1000 * a) \div (a + b)
    BY <1>1
  <1>3. n * q <= 1000 * a
    BY <1>1, <1>2, SMT
  <1>4. q = 1000 => 1000 * (a + b) <= 1000 * a
    BY <1>2, <1>3
  <1> QED
    BY <1>2, <1>4

LEMMA BehindIsShort ==
  ASSUME NEW p \in ProgramRow
  PROVE  ~p.complete \/ p.pending > 0 <=> BackfillPermille(p) # 1000 \/ ~p.complete
  <1>1. p.pending \in Nat /\ p.ingested \in Nat
    BY DEF ProgramRow
  <1>2. p.pending > 0 => (1000 * p.ingested) \div (p.ingested + p.pending) # 1000
    BY <1>1, ShortOfTheEnd
  <1>3. CASE p.complete /\ p.pending > 0
    <2>1. p.ingested + p.pending # 0 /\ p.pending # 0
      BY <1>1, <1>3
    <2>2. BackfillPermille(p) = (1000 * p.ingested) \div (p.ingested + p.pending)
      BY <2>1, <1>3 DEF BackfillPermille
    <2> QED
      BY <2>2, <1>2, <1>3
  <1>4. CASE p.complete /\ ~(p.pending > 0)
    <2>1. p.pending = 0
      BY <1>1, <1>4
    <2> QED
      BY <2>1, <1>4 DEF BackfillPermille
  <1> QED
    BY <1>3, <1>4

(* A card and the parts of it that are computed apart agree.                *)
LEMMA CardsAgree ==
  ASSUME sel \in Keys, Programs \in ClusterPrograms(sel.cluster, content.binaries),
         \A b \in content.binaries : b.kind \in {"v1-full", "v1-sunset", "v2-full"},
         NEW p \in Programs
  PROVE  CardAgrees(p)
  <1> DEFINE next == ExpectedNext(p, content.binaries, sel.cluster)
  <1>1. sel.cluster \in Clusters
    BY DashboardAssumption
  <1>2. /\ p \in ProgramRow
        /\ p.match <=> \E b \in content.binaries : b.sha = p.sha
    BY <1>1, ClusterRows
  <1>3. ReleaseMatch(p) = "unrecognised" => ProgramBadge(p) \in {"unrecognised", "retired"}
    BY <1>2 DEF ReleaseMatch, ProgramBadge, Deployed, ProgramRow
  <1>4. ProgramBadge(p) \in {"live", "dormant", "backfill"} => ReleaseMatch(p) = "known"
    BY <1>2 DEF ReleaseMatch, ProgramBadge, Deployed, ProgramRow
  <1>5. ~Deployed(p) =>
          DeploymentNote(p, content.binaries, sel.cluster).text =
              CASE ProgramBadge(p) = "unknown" -> "not_checked"
                [] ProgramBadge(p) = "closed"  -> "closed"
                [] OTHER -> IF next = {} THEN "no_account" ELSE "no_account_expecting"
    <2> HIDE DEF next
    <2>1. DeploymentNote(p, content.binaries, sel.cluster) =
            CASE p.status = "unknown" -> Says("not_checked", p.key)
              [] p.status = "closed"  -> Says("closed", p.key)
              [] OTHER -> Says(IF next = {} THEN "no_account" ELSE "no_account_expecting", p.key)
      BY DEF DeploymentNote, next
    <2>2. ~Deployed(p) => ProgramBadge(p) = p.status
      BY DEF ProgramBadge
    <2> QED
      BY <2>1, <2>2 DEF Says
  <1>6. Deployed(p) /\ KindIsCurrent(p, content.binaries) => p.sha \notin {b.sha : b \in next}
    <2> SUFFICES ASSUME Deployed(p), KindIsCurrent(p, content.binaries),
                        NEW b \in next, b.sha = p.sha
                 PROVE  FALSE
      OBVIOUS
    <2>1. CASE p.version = 1
      <3>1. p.kind # "v1-sunset" /\ b \in content.binaries /\ b.kind = "v1-sunset"
        BY <2>1 DEF ExpectedNext
      <3> QED
        BY <3>1 DEF KindIsCurrent
    <2>2. CASE p.version # 1
      BY <2>2 DEF ExpectedNext
    <2> QED
      BY <2>1, <2>2
  <1>7. Deployed(p) /\ KindIsCurrent(p, content.binaries) /\ ReleaseMatch(p) = "known"
          => ProgramBadge(p) # "unrecognised"
    <2> SUFFICES ASSUME Deployed(p), KindIsCurrent(p, content.binaries), p.match
                 PROVE  ProgramBadge(p) # "unrecognised"
      BY DEF ReleaseMatch
    <2>1. p.kind \in {"v1-full", "v1-sunset", "v2-full"}
      BY <1>2 DEF KindIsCurrent
    <2> QED
      BY <2>1 DEF ProgramBadge
  <1> QED
    BY <1>3, <1>4, <1>5, <1>6, <1>7 DEF CardAgrees

(* The sections and the scope of the figures follow the programs in view.    *)
LEMMA EveryFilterAgrees ==
  ASSUME sel \in Keys, Programs \in ClusterPrograms(sel.cluster, content.binaries),
         NEW filter \in VersionFilters
  PROVE  FiltersAgree(filter)
  <1> DEFINE inView == VisiblePrograms(Programs, filter)
  <1>1. sel.cluster \in Clusters
    BY DashboardAssumption
  <1>2. /\ \A p \in Programs : p \in ProgramRow
        /\ \A p \in Programs : p.key = IF p.version = 1 THEN ClusterKeys(sel.cluster).v1
                                       ELSE ClusterKeys(sel.cluster).v2
        /\ {p.version : p \in Programs} = {1, 2}
    BY <1>1, ClusterRows
  <1>3. "charts" \in Sections(Programs, filter) <=> \E p \in inView : FreshnessProgram(p).live
    <2>1. (\E p \in inView : FreshnessProgram(p).live) <=> \E p \in inView : Deployed(p)
      BY DEF FreshnessProgram
    <2> HIDE DEF inView
    <2>2. CASE \E p \in inView : Deployed(p)
      BY <2>1, <2>2 DEF Sections, inView
    <2>3. CASE ~\E p \in inView : Deployed(p)
      BY <2>1, <2>3 DEF Sections, inView
    <2> QED
      BY <2>2, <2>3
  <1>4. filter # "all" => {p.key : p \in inView} = {ScopeForVersion(sel.cluster, filter)}
    <2>1. \A p \in Programs : p.version \in {1, 2}
      BY <1>2
    <2>2. CASE filter = "1"
      <3>1. inView = {p \in Programs : p.version = 1}
        BY <2>1, <2>2 DEF VisiblePrograms
      <3>2. PICK p \in Programs : p.version = 1
        BY <1>2
      <3>3. \A q \in inView : q.key = ClusterKeys(sel.cluster).v1
        BY <3>1, <1>2
      <3>4. p \in inView
        BY <3>1, <3>2
      <3>5. ScopeForVersion(sel.cluster, filter) = ClusterKeys(sel.cluster).v1
        BY <2>2 DEF ScopeForVersion
      <3> HIDE DEF inView
      <3> QED
        BY <3>3, <3>4, <3>5
    <2>3. CASE filter = "2"
      <3>1. inView = {p \in Programs : p.version = 2}
        BY <2>1, <2>3 DEF VisiblePrograms
      <3>2. PICK p \in Programs : p.version = 2
        BY <1>2
      <3>3. \A q \in inView : q.key = ClusterKeys(sel.cluster).v2
        BY <3>1, <1>2
      <3>4. p \in inView
        BY <3>1, <3>2
      <3>5. ScopeForVersion(sel.cluster, filter) = ClusterKeys(sel.cluster).v2
        BY <2>3 DEF ScopeForVersion
      <3> HIDE DEF inView
      <3> QED
        BY <3>3, <3>4, <3>5
    <2> QED
      BY <2>2, <2>3 DEF VersionFilters
  <1> QED
    BY <1>3, <1>4 DEF FiltersAgree

(* The state the API computes, and what its reasons are about.              *)
LEMMA FreshnessFacts ==
  /\ Freshness.state = State(content.worker, content.cron, FreshnessPrograms(Programs))
  /\ Freshness.state \in {"live", "catching_up", "delayed", "stale"}
  /\ Freshness.reasons = Reasons(content.worker, content.cron, FreshnessPrograms(Programs))
  /\ Live(FreshnessPrograms(Programs)) = {FreshnessProgram(p) : p \in {q \in Programs : Deployed(q)}}
  <1>1. Freshness.state \in {"live", "catching_up", "delayed", "stale"}
    BY DEF Freshness, Computed, State
  <1>2. Live(FreshnessPrograms(Programs)) = {FreshnessProgram(p) : p \in {q \in Programs : Deployed(q)}}
    BY DEF Live, FreshnessPrograms, FreshnessProgram
  <1>3. Freshness.state = State(content.worker, content.cron, FreshnessPrograms(Programs))
    BY DEF Freshness, Computed
  <1>4. Freshness.reasons = Reasons(content.worker, content.cron, FreshnessPrograms(Programs))
    BY DEF Freshness, Computed
  <1> QED
    BY <1>1, <1>2, <1>3, <1>4

(* the keys a reason of the freshness rules is about *)
ReasonKeys(code) == {r.key : r \in {q \in Freshness.reasons : q.code = code}}

LiveRows == {p \in Programs : Deployed(p)}

LEMMA ReasonsAboutPrograms ==
  /\ ReasonKeys("program_failing") = {p.key : p \in {q \in LiveRows : q.failures >= 2}}
  /\ ReasonKeys("backfill") = {p.key : p \in {q \in LiveRows : ~q.complete}}
  /\ ReasonKeys("backlog") = {p.key : p \in {q \in LiveRows : q.complete /\ q.pending > 0}}
  /\ \A r \in Freshness.reasons : r.code = "never_run" => r.key = 0
  <1> DEFINE F == Live(FreshnessPrograms(Programs))
             failing == {[code |-> "program_failing", key |-> p.key] : p \in {q \in F : Failing(q)}}
             backfill == {[code |-> "backfill", key |-> p.key] : p \in {q \in F : ~q.complete}}
             backlog == {[code |-> "backlog", key |-> p.key] : p \in {q \in F : q.complete /\ q.pending > 0}}
             other(c) == [code |-> c, key |-> 0]
  <1>1. \A r : r \in Freshness.reasons =>
                 r \in failing \/ r \in backfill \/ r \in backlog
                 \/ r \in {other("workflow_disabled"), other("never_run"), other("worker_old")}
    BY FreshnessFacts DEF Reasons
  <1>2. failing \subseteq Freshness.reasons /\ backfill \subseteq Freshness.reasons
        /\ backlog \subseteq Freshness.reasons
    BY FreshnessFacts DEF Reasons
  <1>3. F = {FreshnessProgram(p) : p \in LiveRows}
    BY FreshnessFacts DEF LiveRows
  <1>4. \A p : FreshnessProgram(p).key = p.key /\ FreshnessProgram(p).complete = p.complete
               /\ FreshnessProgram(p).pending = p.pending /\ FreshnessProgram(p).failures = p.failures
    BY DEF FreshnessProgram
  <1>5. ReasonKeys("program_failing") = {p.key : p \in {q \in F : Failing(q)}}
    <2> DEFINE about == {q \in F : Failing(q)}
    <2>1. \A r \in Freshness.reasons : r.code = "program_failing" => \E p \in about : r.key = p.key
      BY <1>1
    <2>2. \A p \in about : [code |-> "program_failing", key |-> p.key] \in Freshness.reasons
      BY <1>2
    <2> HIDE DEF about
    <2>3. ReasonKeys("program_failing") \subseteq {p.key : p \in about}
      BY <2>1 DEF ReasonKeys
    <2>4. ASSUME NEW p \in about PROVE p.key \in ReasonKeys("program_failing")
      <3>1. PICK r \in Freshness.reasons : r = [code |-> "program_failing", key |-> p.key]
        BY <2>2
      <3> QED
        BY <3>1 DEF ReasonKeys
    <2> QED
      BY <2>3, <2>4 DEF about
  <1>6. ReasonKeys("backfill") = {p.key : p \in {q \in F : ~q.complete}}
    <2> DEFINE about == {q \in F : ~q.complete}
    <2>1. \A r \in Freshness.reasons : r.code = "backfill" => \E p \in about : r.key = p.key
      BY <1>1
    <2>2. \A p \in about : [code |-> "backfill", key |-> p.key] \in Freshness.reasons
      BY <1>2
    <2> HIDE DEF about
    <2>3. ReasonKeys("backfill") \subseteq {p.key : p \in about}
      BY <2>1 DEF ReasonKeys
    <2>4. ASSUME NEW p \in about PROVE p.key \in ReasonKeys("backfill")
      <3>1. PICK r \in Freshness.reasons : r = [code |-> "backfill", key |-> p.key]
        BY <2>2
      <3> QED
        BY <3>1 DEF ReasonKeys
    <2> QED
      BY <2>3, <2>4 DEF about
  <1>7. ReasonKeys("backlog") = {p.key : p \in {q \in F : q.complete /\ q.pending > 0}}
    <2> DEFINE about == {q \in F : q.complete /\ q.pending > 0}
    <2>1. \A r \in Freshness.reasons : r.code = "backlog" => \E p \in about : r.key = p.key
      BY <1>1
    <2>2. \A p \in about : [code |-> "backlog", key |-> p.key] \in Freshness.reasons
      BY <1>2
    <2> HIDE DEF about
    <2>3. ReasonKeys("backlog") \subseteq {p.key : p \in about}
      BY <2>1 DEF ReasonKeys
    <2>4. ASSUME NEW p \in about PROVE p.key \in ReasonKeys("backlog")
      <3>1. PICK r \in Freshness.reasons : r = [code |-> "backlog", key |-> p.key]
        BY <2>2
      <3> QED
        BY <3>1 DEF ReasonKeys
    <2> QED
      BY <2>3, <2>4 DEF about
  <1>8. \A r \in Freshness.reasons : r.code = "never_run" => r.key = 0
    BY <1>1
  <1> HIDE DEF F
  <1>9. {p.key : p \in {q \in F : Failing(q)}} = {p.key : p \in {q \in LiveRows : q.failures >= 2}}
    BY <1>3, <1>4 DEF Failing
  <1>10. {p.key : p \in {q \in F : ~q.complete}} = {p.key : p \in {q \in LiveRows : ~q.complete}}
    BY <1>3, <1>4
  <1>11. {p.key : p \in {q \in F : q.complete /\ q.pending > 0}}
           = {p.key : p \in {q \in LiveRows : q.complete /\ q.pending > 0}}
    BY <1>3, <1>4
  <1> QED
    BY <1>5, <1>6, <1>7, <1>8, <1>9, <1>10, <1>11

(* The page has figures: they arrived now, or they are a saved copy.         *)
LEMMA DataViews ==
  ASSUME loaded = None \/ loaded \in Results, View.kind = "data"
  PROVE  \/ View.cached = FALSE /\ View.banner = SelectBanner(Freshness, FALSE)
         \/ /\ View.cached = TRUE
            /\ View.banner = SelectBanner([Freshness EXCEPT !.state = "unavailable"], TRUE)
  <1>1. Shown = None \/ Shown \in Results
    BY DEF Shown
  <1>2. CASE Shown = None
    BY <1>2 DEF View, ViewFromResult, None, Loading
  <1>3. CASE Shown \in Results
    <2>1. Shown.kind \in {"ok", "setup_required", "unavailable", "error"} /\ Shown.cached \in BOOLEAN
      BY <1>3 DEF Results
    <2>2. CASE Shown.kind = "ok"
      BY <2>2 DEF View, ViewFromResult
    <2>3. CASE Shown.kind = "setup_required"
      BY <2>3 DEF View, ViewFromResult
    <2>4. CASE Shown.kind \in {"unavailable", "error"} /\ Shown.cached
      BY <2>4 DEF View, ViewFromResult
    <2>5. CASE Shown.kind = "unavailable" /\ ~Shown.cached
      BY <2>5 DEF View, ViewFromResult
    <2>6. CASE Shown.kind = "error" /\ ~Shown.cached
      BY <2>6 DEF View, ViewFromResult
    <2> QED
      BY <2>1, <2>2, <2>3, <2>4, <2>5, <2>6
  <1> QED
    BY <1>1, <1>2, <1>3

(* The programs the catching-up banner names.                               *)
LEMMA NamedWhileCatchingUp ==
  ASSUME sel \in Keys, Programs \in ClusterPrograms(sel.cluster, content.binaries),
         Freshness.state = "catching_up"
  PROVE  {m.key : m \in Messages(Freshness, FALSE)} \ {0}
           = {p.key : p \in {q \in LiveRows : BackfillPermille(q) # 1000 \/ ~q.complete}}
  <1> DEFINE about == {r \in Freshness.reasons : r.code \in {"backfill", "backlog"}}
             progress == {CatchUpMessage(Freshness, r) : r \in about}
             said == progress
                     \cup {Says("not_run_yet", 0) : r \in {q \in Freshness.reasons : q.code = "never_run"}}
  <1>1. Messages(Freshness, FALSE) = IF said = {} THEN {Says("processing", 0)} ELSE said
    BY DEF Messages
  <1>2. \A r : CatchUpMessage(Freshness, r).key = r.key
    BY DEF CatchUpMessage, Says
  <1>3. {m.key : m \in progress} = {r.key : r \in about}
    <2> HIDE DEF about
    <2> QED
      BY <1>2
  <1>4. {m.key : m \in Messages(Freshness, FALSE)} \ {0} = {r.key : r \in about} \ {0}
    <2>1. \A m \in said : m \in progress \/ m = Says("not_run_yet", 0)
      OBVIOUS
    <2>2. progress \subseteq said
      OBVIOUS
    <2>3. Says("not_run_yet", 0).key = 0 /\ Says("processing", 0).key = 0
      BY DEF Says
    <2> HIDE DEF said, progress, about
    <2> QED
      BY <1>1, <1>3, <2>1, <2>2, <2>3
  <1>5. {r.key : r \in about} = ReasonKeys("backfill") \cup ReasonKeys("backlog")
    BY DEF ReasonKeys
  <1>6. {r.key : r \in about} = {p.key : p \in {q \in LiveRows : ~q.complete \/ q.pending > 0}}
    <2> HIDE DEF about
    <2> QED
      BY <1>5, ReasonsAboutPrograms
  <1>7. \A p \in LiveRows : p \in ProgramRow /\ p.key # 0
    BY ClusterRows, DashboardAssumption DEF LiveRows
  <1>8. {q \in LiveRows : ~q.complete \/ q.pending > 0}
          = {q \in LiveRows : BackfillPermille(q) # 1000 \/ ~q.complete}
    BY <1>7, BehindIsShort
  <1> HIDE DEF about
  <1> QED
    BY <1>4, <1>6, <1>7, <1>8

(* The programs the banner names when a run failed twice.                    *)
LEMMA NamedWhileDelayed ==
  ASSUME sel \in Keys, Programs \in ClusterPrograms(sel.cluster, content.binaries),
         Freshness.state = "delayed"
  PROVE  {m.key : m \in Messages(Freshness, FALSE)} \ {0}
           = {p.key : p \in {q \in LiveRows : q.failures >= 2}}
  <1>1. Messages(Freshness, FALSE) =
          {Says("delayed", 0)}
          \cup {Says("failing", r.key) : r \in {q \in Freshness.reasons : q.code = "program_failing"}}
    BY DEF Messages
  <1>2. \A text, key : Says(text, key).key = key
    BY DEF Says
  <1>3. {m.key : m \in Messages(Freshness, FALSE)} = {0} \cup ReasonKeys("program_failing")
    <2> DEFINE R == {q \in Freshness.reasons : q.code = "program_failing"}
               failing == {Says("failing", r.key) : r \in R}
    <2>1. ReasonKeys("program_failing") = {r.key : r \in R}
      BY DEF ReasonKeys
    <2> HIDE DEF R
    <2>2. {m.key : m \in failing} = {r.key : r \in R}
      BY <1>2
    <2>3. Messages(Freshness, FALSE) = {Says("delayed", 0)} \cup failing
      BY <1>1 DEF R
    <2> HIDE DEF failing
    <2> QED
      BY <1>2, <2>1, <2>2, <2>3
  <1>4. \A p \in LiveRows : p.key # 0
    BY ClusterRows, DashboardAssumption DEF LiveRows
  <1> QED
    BY <1>3, <1>4, ReasonsAboutPrograms

LEMMA PartsAgree ==
  ASSUME sel \in Keys, Programs \in ClusterPrograms(sel.cluster, content.binaries),
         \A b \in content.binaries : b.kind \in {"v1-full", "v1-sunset", "v2-full"},
         loaded = None \/ loaded \in Results
  PROVE  PageAgrees
  <1> SUFFICES ASSUME View.kind = "data"
      PROVE  LET banner == View.banner
                 live == {p \in Programs : Deployed(p)}
                 named == {m.key : m \in banner.messages} \ {0}
                 about(code) == {r.key : r \in {q \in Freshness.reasons : q.code = code}}
             IN  /\ banner = NoBanner => ~View.cached /\ \A p \in live : BackfillPermille(p) = 1000
                 /\ View.cached => banner.state = "unavailable"
                 /\ ~View.cached => (HealthStatus(Freshness.state) = 503 <=> banner.state = "stale")
                 /\ banner.state = "catching_up" =>
                         named = {p.key : p \in {q \in live : BackfillPermille(q) # 1000 \/ ~q.complete}}
                 /\ banner.state = "delayed" => named = {p.key : p \in {q \in live : q.failures >= 2}}
                 /\ \A p \in Programs : ProgramBadge(p) = "live" => p.key \notin about("backfill")
                 /\ \A p \in Programs : ProgramBadge(p) = "backfill" => p.key \in about("backfill")
                 /\ \A p \in Programs : CardAgrees(p)
                 /\ \A filter \in VersionFilters : FiltersAgree(filter)
    BY DEF PageAgrees
  <1> DEFINE banner == View.banner
             live == {p \in Programs : Deployed(p)}
  <1>1. sel.cluster \in Clusters
    BY DashboardAssumption
  <1>2. live = LiveRows
    BY DEF LiveRows
  <1>3. \/ View.cached = FALSE /\ banner = SelectBanner(Freshness, FALSE)
        \/ View.cached = TRUE /\ banner = SelectBanner([Freshness EXCEPT !.state = "unavailable"], TRUE)
    BY DataViews
  <1>4. View.cached => banner.state = "unavailable"
    BY <1>3 DEF SelectBanner, Freshness, Computed
  <1>5. ~View.cached => banner.state = Freshness.state
    BY <1>3 DEF SelectBanner, NoBanner
  <1>6. ~View.cached => (HealthStatus(Freshness.state) = 503 <=> banner.state = "stale")
    <2>1. Freshness.state \in {"live", "catching_up", "delayed", "stale"}
      BY FreshnessFacts
    <2>2. HealthStatus(Freshness.state) = 503 <=> Freshness.state = "stale"
      BY <2>1 DEF HealthStatus
    <2> QED
      BY <1>5, <2>2
  <1>7. ~View.cached /\ Freshness.state # "live" => banner.messages = Messages(Freshness, FALSE)
    <2>1. Freshness.state # "live" => SelectBanner(Freshness, FALSE).messages = Messages(Freshness, FALSE)
      BY DEF SelectBanner
    <2> QED
      BY <1>3, <2>1
  <1>8. banner = NoBanner => ~View.cached /\ \A p \in live : BackfillPermille(p) = 1000
    <2> SUFFICES ASSUME banner = NoBanner
        PROVE  ~View.cached /\ \A p \in live : BackfillPermille(p) = 1000
      OBVIOUS
    <2>1. banner.state = "live"
      BY DEF NoBanner
    <2>2. ~View.cached /\ Freshness.state = "live"
      BY <1>4, <1>5, <2>1
    <2>3. \A p \in Live(FreshnessPrograms(Programs)) : ~Behind(p)
      BY <2>2, FreshnessFacts DEF State
    <2>4. \A p \in live : FreshnessProgram(p) \in Live(FreshnessPrograms(Programs))
      BY FreshnessFacts
    <2>5. \A p \in live : p.complete /\ ~(p.pending > 0)
      BY <2>3, <2>4 DEF Behind, FreshnessProgram
    <2>6. \A p \in live : p \in ProgramRow
      BY <1>1, ClusterRows
    <2> QED
      BY <2>2, <2>5, <2>6 DEF BackfillPermille, ProgramRow
  <1>9. banner.state = "catching_up" =>
          {m.key : m \in banner.messages} \ {0}
            = {p.key : p \in {q \in live : BackfillPermille(q) # 1000 \/ ~q.complete}}
    BY <1>2, <1>4, <1>5, <1>7, NamedWhileCatchingUp
  <1>10. banner.state = "delayed" =>
           {m.key : m \in banner.messages} \ {0} = {p.key : p \in {q \in live : q.failures >= 2}}
    BY <1>2, <1>4, <1>5, <1>7, NamedWhileDelayed
  <1>11. ReasonKeys("backfill") = {p.key : p \in {q \in live : ~q.complete}}
    BY <1>2, ReasonsAboutPrograms
  <1>12. \A p \in Programs : ProgramBadge(p) = "live" => p.key \notin ReasonKeys("backfill")
    <2>1. \A p \in Programs : ProgramBadge(p) = "live" => p.complete
      BY <1>1, ClusterRows DEF ProgramBadge, Deployed, ProgramRow
    <2>2. \A p, q \in Programs : p.key = q.key => p = q
      BY <1>1, ClusterRows
    <2> QED
      BY <1>11, <2>1, <2>2
  <1>13. \A p \in Programs : ProgramBadge(p) = "backfill" => p.key \in ReasonKeys("backfill")
    <2>1. \A p \in Programs : ProgramBadge(p) = "backfill" => Deployed(p) /\ ~p.complete
      BY <1>1, ClusterRows DEF ProgramBadge, Deployed, ProgramRow
    <2> QED
      BY <1>11, <2>1
  <1>14. \A p \in Programs : CardAgrees(p)
    BY CardsAgree
  <1>15. \A filter \in VersionFilters : FiltersAgree(filter)
    BY EveryFilterAgrees
  <1> QED
    BY <1>4, <1>6, <1>8, <1>9, <1>10, <1>12, <1>13, <1>14, <1>15 DEF ReasonKeys

(* The parts of the page that are computed apart from each other say the     *)
(* same of every program, whatever rows the database contains and whatever   *)
(* was answered, remembered, saved or aborted: the banner, the uptime        *)
(* monitor, the cards, the notes, the charts and the scope of the figures    *)
(* (freshness.ts, view.ts, selectors.ts, Dashboard.tsx).  What a card says   *)
(* of its build is claimed only where the kind stored at the detection is    *)
(* the one known_binaries gives its hash now: deployment.ts:59 does not ask  *)
(* again when a hash is listed later.                                        *)
THEOREM PartsOfThePageAgree == Spec => []PageAgrees
  <1>1. IInv /\ EnvInv => PageAgrees
    <2> SUFFICES ASSUME IInv, EnvInv PROVE PageAgrees
      OBVIOUS
    <2>1. sel \in Keys /\ (loaded = None \/ loaded \in Results)
      BY DEF IInv, TabHolds, ResultHolds
    <2>2. sel.cluster \in Clusters
      BY <2>1, DashboardAssumption
    <2>3. PICK s \in Setups : s = [content |-> content, quota |-> quota]
      BY DEF EnvInv
    <2>4. s.content.programs[sel.cluster] \in ClusterPrograms(sel.cluster, s.content.binaries)
      BY <2>2, ContentAssumption
    <2>5. Programs \in ClusterPrograms(sel.cluster, content.binaries)
      BY <2>3, <2>4 DEF Programs
    <2>6. \A b \in content.binaries : b.kind \in {"v1-full", "v1-sunset", "v2-full"}
      BY <2>3, ContentAssumption
    <2> QED
      BY <2>1, <2>5, <2>6, PartsAgree
  <1> QED
    BY <1>1, InductiveInvariant, EnvAlways, PTL
=============================================================================
