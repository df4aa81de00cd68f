-------------------------- MODULE Discovery_proofs --------------------------
(***************************************************************************)
(* Proofs about discovery for every feed, every page limit and chunk size  *)
(* and every behaviour of the two endpoints, provided that the archival    *)
(* endpoint knows some of the program's signatures from the start.         *)
(***************************************************************************)
EXTENDS Discovery, TLAPS

-----------------------------------------------------------------------------
(* Facts about the feed and the pages *)

(* A window that ends between two slots holds all of its newest slot.        *)
LEMMA WindowHoldsItsSlot ==
    ASSUME NEW to \in SlotEnds, to # 0,
           NEW i \in Feed, Slot[i] <= Slot[to]
    PROVE  i <= to
<1> SUFFICES ASSUME to < i PROVE FALSE
  BY FeedAssumption DEF SlotEnds, Feed
<1>1. to \in 1..Last - 1 /\ Slot[to] < Slot[to + 1]
  BY FeedAssumption DEF SlotEnds, Feed
<1>2. to + 1 \in Feed /\ to + 1 <= i
  BY <1>1, FeedAssumption DEF Feed
<1>3. Slot[to + 1] <= Slot[i]
  BY <1>2, FeedAssumption
<1> QED
  BY <1>1, <1>2, <1>3, FeedAssumption DEF Feed

LEMMA SlotEndsInFeed == SlotEnds \subseteq 0..Last
BY FeedAssumption DEF SlotEnds

(* A page is a run of the feed from its newest signature down.               *)
LEMMA PageRange ==
    ASSUME TypeOK
    PROVE  /\ From \in 1..Last + 1
           /\ To \in 0..Last
           /\ Top \in 0..Last
           /\ Bottom \in Int
           /\ From <= Bottom
           /\ Page \subseteq Feed
           /\ Page # {} => Bottom \in Feed /\ Top \in Feed /\ Bottom <= Top
           /\ limit \in Nat \ {0}
<1>1. limit \in Nat \ {0} /\ Last \in Nat \ {0}
  BY FeedAssumption, LimitsAssumption DEF TypeOK
<1>2. From \in 1..Last + 1 /\ To \in 0..Last
  BY <1>1, SlotEndsInFeed DEF TypeOK, From, To
<1>3. Top \in 0..Last
  BY <1>1, <1>2 DEF TypeOK, Top, Smaller
<1>4. Bottom \in Int /\ From <= Bottom
  BY <1>1, <1>2, <1>3 DEF Bottom, Larger
<1>5. Page \subseteq Feed
  BY <1>1, <1>2, <1>3, <1>4 DEF Page, Feed
<1>6. Page # {} => Bottom \in Feed /\ Top \in Feed /\ Bottom <= Top
  BY <1>1, <1>2, <1>3, <1>4 DEF Page, Feed
<1> QED
  BY <1>1, <1>2, <1>3, <1>4, <1>5, <1>6

(* A full page holds signatures, and a short one ends where the endpoint's   *)
(* window begins.                                                            *)
LEMMA FullPage ==
    ASSUME TypeOK, ~PageIsShort
    PROVE  Page # {}
<1>1. From + limit - 1 <= Top
  BY PageRange DEF PageIsShort
<1>2. Bottom <= Top
  BY <1>1, PageRange DEF Bottom, Larger
<1> QED
  BY <1>2, PageRange DEF Page

LEMMA ShortPage ==
    ASSUME TypeOK, PageIsShort
    PROVE  Bottom = From
BY PageRange DEF PageIsShort, Bottom, Larger

(* A page that does not reach the frontier is collected whole; of one that   *)
(* does, what lies above some signature of it.                               *)
LEMMA WholePageWanted == ~ReachesFrontier => Wanted = Page
BY DEF ReachesFrontier

LEMMA NewestIsWanted ==
    ASSUME TypeOK, Wanted # {}
    PROVE  Top \in Wanted
<1>1. PICK j \in Page : Slot[j] >= frontier
  BY DEF Wanted
<1>2. j \in Feed /\ Top \in Feed /\ j <= Top /\ Top \in Page
  BY <1>1, PageRange DEF Page
<1>3. Slot[j] <= Slot[Top]
  BY <1>2, FeedAssumption
<1> QED
  BY <1>1, <1>2, <1>3, FeedAssumption DEF Wanted, TypeOK

(* Nothing lies between a page and what was collected before it: the page    *)
(* starts right below it or, after a restart, overlaps it.                   *)
LEMMA PageMeetsCollected ==
    ASSUME Inv, Answered, newest # 0, Page # {} \/ From = 1
    PROVE  oldestSeen <= Top + 1
<1> USE DEF Inv
<1>1. /\ oldestSeen \in Feed
      /\ before # 0 => /\ before = oldestSeen
                       /\ endpoint = "primary" => before <= primaryTo
      /\ before = 0 => endpoint = "archival" /\ floor = Slot[oldestSeen]
  BY FeedAssumption DEF CollectedIsContiguous, Answered, TypeOK, Feed
<1>2. CASE before # 0
  <2>1. before <= To
    BY <1>1, <1>2, SlotEndsInFeed, FeedAssumption
       DEF Answered, BeforeUnknown, To, TypeOK
  <2>2. Top = before - 1
    BY <1>2, <2>1, PageRange, FeedAssumption DEF Top, Smaller, TypeOK
  <2> QED
    BY <1>1, <1>2, <2>2, FeedAssumption DEF Feed
<1>3. CASE before = 0
  <2>1. Top = archivalTo
    BY <1>1, <1>3 DEF Top, To
  <2>2. archivalTo \in SlotEnds /\ archivalTo # 0
    BY DEF TypeOK, ArchivalKnows
  <2>3. archivalTo \in Feed
    BY <2>2, SlotEndsInFeed, FeedAssumption DEF Feed
  <2>4. Page # {}
    <3>1. From = 1 => Top \in Page
      BY <2>1, <2>3, PageRange DEF Page, Bottom, Larger, Feed
    <3> QED
      BY <3>1
  <2>5. floor # 0
    BY <1>1, <1>3, FeedAssumption
  <2>6. Slot[oldestSeen] <= Slot[archivalTo]
    BY <1>1, <1>3, <2>1, <2>3, <2>4, <2>5, FeedAssumption DEF Answered, Overlaps
  <2>7. oldestSeen <= archivalTo
    BY <1>1, <2>2, <2>6, WindowHoldsItsSlot
  <2> QED
    BY <1>1, <2>1, <2>3, <2>7, FeedAssumption DEF Feed
<1> QED
  BY <1>2, <1>3

(* So what is collected after a page has no hole from the page's oldest      *)
(* signature, or any other, up to the newest.                                *)
LEMMA NoHole ==
    ASSUME Inv, Answered, Collect,
           NEW i \in Feed, Page # {} => Bottom <= i,
           Page = {} /\ newest # 0 => oldestSeen <= i,
           i <= newest', i \in Page => i \in Wanted
    PROVE  i \in found'
<1> USE DEF Inv
<1>1. CASE i \in Page
  BY <1>1 DEF Collect
<1>2. CASE i \notin Page /\ newest = 0
  <2>1. newest' = Top /\ Page # {}
    BY <1>2, FeedAssumption DEF Collect, Feed, Wanted
  <2> QED
    BY <1>2, <2>1, PageRange DEF Page, Feed
<1>3. CASE i \notin Page /\ newest # 0
  <2>1. newest' = newest /\ oldestSeen..newest \subseteq found
    BY <1>3 DEF Collect, CollectedIsContiguous, Answered
  <2>2. Page # {} => oldestSeen <= Top + 1
    BY <1>3, PageMeetsCollected
  <2>3. oldestSeen \in Int /\ newest \in Int
    BY FeedAssumption DEF TypeOK
  <2>4. oldestSeen <= i
    BY <1>3, <2>2, <2>3, PageRange, FeedAssumption DEF Page, Feed
  <2>5. i \in oldestSeen..newest
    BY <2>1, <2>3, <2>4, FeedAssumption DEF Feed
  <2> QED
    BY <2>1, <2>5 DEF Collect
<1> QED
  BY <1>1, <1>2, <1>3

-----------------------------------------------------------------------------
(* Type correctness *)

LEMMA TypeInit == Init => TypeOK
BY FeedAssumption, LimitsAssumption DEF Init, TypeOK, SlotEnds

LEMMA SlotIsNat == \A i \in Feed : Slot[i] \in Nat
BY FeedAssumption

(* What a page adds, and the values the next page starts from.               *)
LEMMA CollectType ==
    ASSUME TypeOK, Collect
    PROVE  /\ found' \subseteq Feed
           /\ found \subseteq found'
           /\ newest' \in 0..Last
           /\ floor' \in Nat
           /\ LastSeen \in 0..Last
<1>1. Page \subseteq Feed /\ Top \in 0..Last /\ (Page # {} => Bottom \in Feed)
  BY PageRange
<1>2. found' \subseteq Feed /\ found \subseteq found'
  BY <1>1 DEF Collect, Wanted, TypeOK
<1>3. newest' \in 0..Last /\ floor' \in Nat
  BY <1>1 DEF Collect, TypeOK
<1>4. LastSeen \in 0..Last
  BY <1>1, FeedAssumption DEF LastSeen, TypeOK, Feed
<1> QED
  BY <1>2, <1>3, <1>4

LEMMA LeaveType ==
    ASSUME TypeOK, Leave, frontier' \in Nat, queued' \subseteq Feed,
           faults' \in 0..MaxFaults
    PROVE  TypeOK'
<1>1. 0 \in 0..Last
  BY FeedAssumption
<1> QED
  BY <1>1 DEF Leave, TypeOK, primaryVars, archivalVars, windowVars, Feed, SlotEnds

LEMMA TypeStep ==
    ASSUME TypeOK, [Next]_vars
    PROVE  TypeOK'
<1> USE DEF primaryVars, archivalVars, windowVars, buildVars, pagingVars
<1>1. CASE PrimaryGrows
  BY <1>1 DEF PrimaryGrows, TypeOK, SlotEnds, Feed
<1>2. CASE PrimaryForgets
  <2>1. primaryFrom' \in 1..Last + 1
    BY <1>2, SlotEndsInFeed, FeedAssumption DEF PrimaryForgets, TypeOK
  <2> QED
    BY <1>2, <2>1 DEF PrimaryForgets, TypeOK, SlotEnds, Feed
<1>3. CASE ArchivalGrows
  BY <1>3 DEF ArchivalGrows, TypeOK, SlotEnds, Feed
<1>4. CASE ArchivalTruncated
  <2>1. archivalFrom' \in 1..Last + 1 /\ faults' \in 0..MaxFaults
    BY <1>4, LimitsAssumption, FeedAssumption DEF ArchivalTruncated, TypeOK
  <2> QED
    BY <1>4, <2>1 DEF ArchivalTruncated, TypeOK, SlotEnds, Feed
<1>5. CASE ArchivalRecovers
  <2>1. archivalFrom' \in 1..Last + 1
    BY <1>5, FeedAssumption DEF ArchivalRecovers
  <2> QED
    BY <1>5, <2>1 DEF ArchivalRecovers, TypeOK, SlotEnds, Feed
<1>6. CASE Start
  BY <1>6 DEF Start, TypeOK, SlotEnds, Feed
<1>7. CASE PageReachesFrontier
  BY <1>7, CollectType
     DEF PageReachesFrontier, Done, SentSet, TypeOK, SlotEnds, Feed
<1>8. CASE PageIsFull
  <2>1. Bottom \in 0..Last
    BY <1>8, FullPage, PageRange, FeedAssumption DEF PageIsFull, Feed
  <2>2. unsent \subseteq found'
    BY <1>8, CollectType DEF PageIsFull, TypeOK
  <2> QED
    BY <1>8, <2>1, <2>2, CollectType DEF PageIsFull, TypeOK, SlotEnds, Feed
<1>9. CASE PrimaryEnds
  <2>1. before' \in 0..Last
    BY <1>9, PageRange, FeedAssumption DEF PrimaryEnds, TypeOK, Feed
  <2>2. unsent \subseteq found'
    BY <1>9, CollectType DEF PrimaryEnds, TypeOK
  <2> QED
    BY <1>9, <2>1, <2>2, CollectType DEF PrimaryEnds, TypeOK, SlotEnds, Feed
<1>10. CASE HistoryEnds
  BY <1>10, CollectType DEF HistoryEnds, Done, SentSet, TypeOK, SlotEnds, Feed
<1>11. CASE Restart
  <2>1. floor' \in Nat
    BY <1>11, SlotIsNat, FeedAssumption DEF Restart, FloorAt, TypeOK, Feed
  <2>2. before' \in 0..Last
    BY <1>11, FeedAssumption DEF Restart
  <2> QED
    BY <1>11, <2>1, <2>2 DEF Restart, TypeOK, SlotEnds, Feed
<1>12. CASE NoOverlap \/ EndsAboveFrontier
  BY <1>12, LeaveType DEF NoOverlap, EndsAboveFrontier, TypeOK
<1>13. CASE QueueChunk
  BY <1>13 DEF QueueChunk, TypeOK, SlotEnds, Feed
<1>14. CASE MoveFrontier
  <2>1. frontier' \in Nat
    BY <1>14, SlotIsNat DEF MoveFrontier, TypeOK, Feed
  <2> QED
    BY <1>14, <2>1, LeaveType DEF MoveFrontier, TypeOK
<1>15. CASE Fail
  <2>1. faults' \in 0..MaxFaults
    BY <1>15, LimitsAssumption DEF Fail, TypeOK
  <2> QED
    BY <1>15, <2>1, LeaveType DEF Fail, TypeOK
<1>16. CASE UNCHANGED vars
  BY <1>16 DEF vars, TypeOK, SlotEnds, Feed
<1> QED
  BY <1>1, <1>2, <1>3, <1>4, <1>5, <1>6, <1>7, <1>8, <1>9, <1>10, <1>11,
     <1>12, <1>13, <1>14, <1>15, <1>16 DEF Next, Discover

(* Every variable keeps its type.                                            *)
THEOREM TypeCorrect == Spec => []TypeOK
<1>1. Init => TypeOK
  BY TypeInit
<1>2. TypeOK /\ [Next]_vars => TypeOK'
  BY TypeStep
<1> QED
  BY <1>1, <1>2, PTL DEF Spec
-----------------------------------------------------------------------------
(* The inductive invariant *)

LEMMA InvInit == Init /\ ArchivalStart # 0 => Inv
<1> SUFFICES ASSUME Init, ArchivalStart # 0 PROVE Inv
  OBVIOUS
<1>1. TypeOK
  BY TypeInit
<1>2. FrontierSlotQueued
  BY FeedAssumption DEF Init, FrontierSlotQueued
<1>3. NewestEndsItsSlot
  BY DEF Init, NewestEndsItsSlot, SlotEnds
<1> QED
  BY <1>1, <1>2, <1>3
     DEF Init, Inv, PagesCoverFeed, ArchivalKnows, IdleHoldsNothing,
         PagingStartsAtTheTop, CollectedIsContiguous, FoundIsSent

(* The endpoints only touch how far the next page reaches.                   *)
LEMMA InvWindows ==
    ASSUME Inv, TypeOK',
           \/ PrimaryGrows \/ PrimaryForgets
           \/ ArchivalGrows \/ ArchivalTruncated \/ ArchivalRecovers
    PROVE  Inv'
<1> USE DEF primaryVars, archivalVars, windowVars, buildVars, pagingVars
<1>1. UNCHANGED <<entry, buildVars, pc, pagingVars, unsent>>
  BY DEF PrimaryGrows, PrimaryForgets, ArchivalGrows, ArchivalTruncated,
         ArchivalRecovers
<1>2. ArchivalKnows'
  BY SlotEndsInFeed
     DEF Inv, ArchivalKnows, TypeOK, PrimaryGrows, PrimaryForgets, ArchivalGrows,
         ArchivalTruncated, ArchivalRecovers
<1>3. primaryTo \in Nat /\ primaryTo' \in Nat /\ primaryTo <= primaryTo'
  BY SlotEndsInFeed
     DEF Inv, TypeOK, PrimaryGrows, PrimaryForgets, ArchivalGrows,
         ArchivalTruncated, ArchivalRecovers
<1>4. CollectedIsContiguous'
  BY <1>1, <1>3, FeedAssumption DEF Inv, CollectedIsContiguous, TypeOK
<1>5. /\ PagesCoverFeed' /\ FrontierSlotQueued' /\ IdleHoldsNothing'
      /\ PagingStartsAtTheTop' /\ FoundIsSent'
  BY <1>1 DEF Inv, PagesCoverFeed, FrontierSlotQueued, IdleHoldsNothing,
              PagingStartsAtTheTop, FoundIsSent
<1>6. NewestEndsItsSlot'
  BY <1>1 DEF Inv, NewestEndsItsSlot, SlotEnds
<1> QED
  BY <1>2, <1>4, <1>5, <1>6 DEF Inv

(* A discovery that ends, well or badly, leaves only the build behind.       *)
LEMMA InvLeave ==
    ASSUME Inv, TypeOK', Leave, FrontierSlotQueued', frontier' = 0 => frontier = 0
    PROVE  Inv'
<1>1. NewestEndsItsSlot'
  BY DEF Leave, NewestEndsItsSlot, SlotEnds
<1> QED
  BY <1>1 DEF Inv, Leave, primaryVars, archivalVars, windowVars, PagesCoverFeed,
              ArchivalKnows, IdleHoldsNothing, PagingStartsAtTheTop,
              CollectedIsContiguous, FoundIsSent

LEMMA InvStart ==
    ASSUME Inv, TypeOK', Start
    PROVE  Inv'
<1> USE DEF primaryVars, archivalVars, windowVars, buildVars
<1>1. NewestEndsItsSlot'
  BY DEF Inv, Start, NewestEndsItsSlot, SlotEnds
<1> QED
  BY <1>1 DEF Inv, Start, PagesCoverFeed, ArchivalKnows, FrontierSlotQueued,
              IdleHoldsNothing, PagingStartsAtTheTop, CollectedIsContiguous,
              FoundIsSent

(* The first page of a discovery starts at the endpoint's newest signature.  *)
LEMMA CollectKeepsNewest ==
    ASSUME Inv, Answered, Collect
    PROVE  NewestEndsItsSlot'
<1>1. CASE newest' = newest
  BY <1>1 DEF Inv, NewestEndsItsSlot, SlotEnds
<1>2. CASE newest' # newest
  <2>1. newest = 0 /\ newest' = Top
    BY <1>2 DEF Collect
  <2>2. before = 0
    BY <2>1 DEF Inv, PagingStartsAtTheTop, Answered
  <2>3. Top \in SlotEnds
    BY <2>2 DEF Inv, TypeOK, Top, To
  <2> QED
    BY <2>1, <2>3 DEF NewestEndsItsSlot, SlotEnds
<1> QED
  BY <1>1, <1>2

(* A page after which paging goes on leaves the collected signatures without *)
(* a hole, and the next page right below them.                               *)
LEMMA InvPageGoesOn ==
    ASSUME Inv, TypeOK', PageIsFull \/ PrimaryEnds
    PROVE  Inv'
<1> USE DEF primaryVars, archivalVars, windowVars, buildVars
<1>1. /\ Answered /\ Collect /\ oldestSeen' = LastSeen
      /\ UNCHANGED <<windowVars, entry, buildVars, pc, unsent, faults>>
      /\ pc = "page" /\ Wanted = Page
  BY WholePageWanted DEF PageIsFull, PrimaryEnds, Answered
<1>2. TypeOK /\ TypeOK'
  BY DEF Inv
<1>3. ASSUME newest' # 0
      PROVE  oldestSeen' # 0 /\ oldestSeen'..newest' \subseteq found'
  <2>1. CASE Page # {}
    <3>1. oldestSeen' = Bottom /\ Bottom \in Feed
      BY <1>1, <1>2, <2>1, PageRange DEF LastSeen
    <3>2. ASSUME NEW i \in oldestSeen'..newest' PROVE i \in found'
      <4>1. i \in Feed /\ Bottom <= i /\ i <= newest'
        BY <1>2, <3>1, <3>2, FeedAssumption DEF TypeOK, Feed
      <4> QED
        BY <1>1, <2>1, <4>1, NoHole
    <3> QED
      BY <3>1, <3>2 DEF Feed
  <2>2. CASE Page = {}
    <3>1. oldestSeen' = oldestSeen /\ newest' = newest /\ found \subseteq found'
      BY <1>1, <2>2 DEF LastSeen, Collect
    <3> QED
      BY <1>1, <1>3, <3>1 DEF Inv, CollectedIsContiguous
  <2> QED
    BY <2>1, <2>2
<1>4. ASSUME newest' # 0
      PROVE  /\ before' # 0 => /\ before' = oldestSeen'
                               /\ endpoint' = "primary" => before' <= primaryTo'
             /\ before' = 0 => endpoint' = "archival" /\ floor' = Slot[oldestSeen']
  <2>1. CASE PageIsFull
    <3>1. Page # {}
      BY <1>2, <2>1, FullPage DEF PageIsFull
    <3>2. before' = Bottom /\ oldestSeen' = Bottom /\ Bottom \in Feed
          /\ Bottom <= Top /\ endpoint' = endpoint
      BY <1>1, <1>2, <2>1, <3>1, PageRange DEF PageIsFull, LastSeen
    <3>3. endpoint = "primary" => Top <= primaryTo
      BY <1>2, SlotEndsInFeed DEF Top, To, Smaller, TypeOK
    <3> QED
      BY <1>1, <1>2, <3>2, <3>3, PageRange, SlotEndsInFeed DEF Feed, TypeOK
  <2>2. CASE PrimaryEnds /\ Page # {}
    <3>1. before' = Bottom /\ oldestSeen' = Bottom /\ Bottom \in Feed
          /\ endpoint' = "archival"
      BY <1>1, <1>2, <2>2, PageRange DEF PrimaryEnds, LastSeen
    <3> QED
      BY <3>1 DEF Feed
  <2>3. CASE PrimaryEnds /\ Page = {}
    <3>1. before' = before /\ oldestSeen' = oldestSeen /\ newest' = newest
          /\ endpoint' = "archival" /\ endpoint # "archival"
      BY <1>1, <2>3 DEF PrimaryEnds, LastSeen, Trusted, Collect
    <3>2. before # 0 /\ before = oldestSeen
      BY <1>1, <1>4, <3>1 DEF Inv, CollectedIsContiguous
    <3> QED
      BY <3>1, <3>2
  <2> QED
    BY <2>1, <2>2, <2>3
<1>5. CollectedIsContiguous'
  BY <1>3, <1>4 DEF CollectedIsContiguous
<1>6. ASSUME newest' = 0 PROVE before' = 0
  <2>1. newest = 0 /\ before = 0
    BY <1>1, <1>2, <1>6, PageRange DEF Inv, Collect, PagingStartsAtTheTop, Feed
  <2>2. Page = {}
    BY <1>1, <1>2, <1>6, <2>1, PageRange DEF Collect, Feed
  <2> QED
    BY <1>2, <2>1, <2>2, FullPage DEF PageIsFull, PrimaryEnds
<1>7. PagingStartsAtTheTop'
  BY <1>6 DEF PagingStartsAtTheTop
<1>8. NewestEndsItsSlot'
  BY <1>1, CollectKeepsNewest
<1>9. PagesCoverFeed' /\ ArchivalKnows' /\ FrontierSlotQueued'
      /\ IdleHoldsNothing' /\ FoundIsSent'
  BY <1>1 DEF Inv, PagesCoverFeed, ArchivalKnows, FrontierSlotQueued,
              IdleHoldsNothing, FoundIsSent
<1> QED
  BY <1>2, <1>5, <1>7, <1>8, <1>9 DEF Inv
(* The page that ends paging: what is collected reaches down to signatures  *)
(* that are queued already, or to the program's first one.                   *)
LEMMA InvPagingEnds ==
    ASSUME Inv, TypeOK', PageReachesFrontier \/ HistoryEnds
    PROVE  Inv'
<1> USE DEF primaryVars, archivalVars, windowVars, buildVars
<1>1. /\ Answered /\ Collect /\ pc' = "queue" /\ unsent' = found'
      /\ UNCHANGED <<windowVars, entry, buildVars, faults>>
  BY DEF PageReachesFrontier, HistoryEnds, Done, SentSet
<1>2. TypeOK
  BY DEF Inv
<1>3. ASSUME NEW i \in Feed, i <= newest'
      PROVE  i \in found' \cup queued
  <2>1. /\ Slot[i] \in Nat /\ frontier \in Nat /\ i \in Int /\ 1 <= i
        /\ oldestSeen \in Int
    BY <1>2, SlotIsNat, FeedAssumption DEF TypeOK, Feed
  <2>2. CASE Slot[i] <= frontier
    BY <2>2 DEF Inv, FrontierSlotQueued
  <2>3. CASE PageReachesFrontier /\ frontier < Slot[i]
    <3>1. PICK j \in Page : ~(Slot[j] >= frontier)
      BY <2>3 DEF PageReachesFrontier, ReachesFrontier, Wanted
    <3>2. j \in Feed /\ Bottom <= j /\ Bottom \in Int
      BY <1>2, <3>1, PageRange DEF Page
    <3>3. j <= i
      <4>1. CASE i <= j
        <5>1. Slot[i] <= Slot[j] /\ Slot[j] \in Nat
          BY <3>2, <4>1, FeedAssumption
        <5> QED
          BY <2>1, <2>3, <3>1, <5>1
      <4>2. CASE ~(i <= j)
        BY <3>2, <4>2, FeedAssumption DEF Feed
      <4> QED
        BY <4>1, <4>2
    <3>4. Bottom <= i
      BY <2>1, <3>2, <3>3, FeedAssumption DEF Feed
    <3>5. i \in Page => i \in Wanted
      BY <2>1, <2>3 DEF Wanted
    <3> QED
      BY <1>1, <1>3, <3>1, <3>4, <3>5, NoHole
  <2>4. CASE HistoryEnds /\ frontier < Slot[i]
    <3>1. PageIsShort /\ Wanted = Page /\ endpoint = "archival"
      BY <2>4, WholePageWanted DEF HistoryEnds, Trusted
    <3>2. Bottom = From /\ From = archivalFrom
      BY <1>2, <3>1, ShortPage DEF From
    <3>3. CASE frontier = 0
      <4>1. From = 1
        BY <3>2, <3>3 DEF Inv, ArchivalKnows
      <4>2. Page = {} /\ newest # 0 => oldestSeen <= i
        <5> SUFFICES ASSUME Page = {}, newest # 0 PROVE oldestSeen <= i
          OBVIOUS
        <5>1. oldestSeen <= Top + 1
          BY <1>1, <4>1, PageMeetsCollected
        <5>2. Top < 1 /\ Top \in Int
          BY <1>2, <3>2, <4>1, PageRange DEF Page
        <5> QED
          BY <2>1, <5>1, <5>2
      <4> QED
        BY <1>1, <1>3, <2>1, <3>1, <3>2, <4>1, <4>2, NoHole
    <3>4. CASE frontier # 0
      <4>1. LastSeen # 0 /\ Slot[LastSeen] <= frontier
        BY <2>4, <3>4 DEF HistoryEnds, EndsAtFrontier
      <4>2. LastSeen \in Feed
        BY <1>1, <1>2, <4>1, CollectType, FeedAssumption DEF Feed
      <4>3. LastSeen <= i
        <5> SUFFICES ASSUME i <= LastSeen PROVE FALSE
          BY <2>1, <4>2, FeedAssumption DEF Feed
        <5>1. Slot[i] <= Slot[LastSeen] /\ Slot[LastSeen] \in Nat
          BY <4>2, FeedAssumption
        <5> QED
          BY <2>1, <2>4, <4>1, <5>1
      <4> QED
        BY <1>1, <1>3, <3>1, <4>3, NoHole DEF LastSeen
    <3> QED
      BY <3>3, <3>4
  <2> QED
    BY <2>1, <2>2, <2>3, <2>4
<1>4. PagesCoverFeed'
  <2>1. newest' \in 0..Last
    BY <1>1, <1>2, CollectType
  <2> QED
    BY <1>1, <1>3, <2>1, FeedAssumption DEF PagesCoverFeed, Feed
<1>5. NewestEndsItsSlot'
  BY <1>1, CollectKeepsNewest
<1>6. ArchivalKnows' /\ FrontierSlotQueued' /\ IdleHoldsNothing'
      /\ PagingStartsAtTheTop' /\ CollectedIsContiguous' /\ FoundIsSent'
  BY <1>1 DEF Inv, ArchivalKnows, FrontierSlotQueued, IdleHoldsNothing,
              PagingStartsAtTheTop, CollectedIsContiguous, FoundIsSent
<1> QED
  BY <1>4, <1>5, <1>6 DEF Inv

(* A restart forgets `before` and remembers the slot to meet.                *)
LEMMA InvRestart ==
    ASSUME Inv, TypeOK', Restart
    PROVE  Inv'
<1> USE DEF primaryVars, archivalVars, windowVars, buildVars
<1>1. endpoint = "archival" /\ endpoint' = "archival"
  BY DEF Restart, BeforeUnknown, BeforeTruncated
<1>2. CollectedIsContiguous'
  BY <1>1 DEF Inv, Restart, CollectedIsContiguous, FloorAt
<1>3. NewestEndsItsSlot'
  BY DEF Inv, Restart, NewestEndsItsSlot, SlotEnds
<1>4. PagesCoverFeed' /\ ArchivalKnows' /\ FrontierSlotQueued'
      /\ IdleHoldsNothing' /\ PagingStartsAtTheTop' /\ FoundIsSent'
  BY DEF Inv, Restart, PagesCoverFeed, ArchivalKnows, FrontierSlotQueued,
         IdleHoldsNothing, PagingStartsAtTheTop, FoundIsSent
<1> QED
  BY <1>2, <1>3, <1>4 DEF Inv

LEMMA InvQueueChunk ==
    ASSUME Inv, TypeOK', QueueChunk
    PROVE  Inv'
<1> USE DEF primaryVars, archivalVars, windowVars, pagingVars
<1>1. PICK S \in SUBSET unsent :
        /\ queued' = queued \cup S /\ unsent' = unsent \ S
        /\ UNCHANGED <<windowVars, entry, frontier, pc, pagingVars, faults>>
  BY DEF QueueChunk
<1>2. FoundIsSent' /\ FrontierSlotQueued' /\ PagesCoverFeed'
  BY <1>1 DEF Inv, FoundIsSent, FrontierSlotQueued, PagesCoverFeed
<1>3. NewestEndsItsSlot'
  BY <1>1 DEF Inv, NewestEndsItsSlot, SlotEnds
<1>4. ArchivalKnows' /\ IdleHoldsNothing' /\ PagingStartsAtTheTop'
      /\ CollectedIsContiguous'
  BY <1>1 DEF Inv, ArchivalKnows, IdleHoldsNothing, PagingStartsAtTheTop,
              CollectedIsContiguous
<1> QED
  BY <1>2, <1>3, <1>4 DEF Inv

(* What the final call promises: the frontier does not move back, and its    *)
(* new slot and everything below it is queued.                               *)
LEMMA FrontierPassesQueued ==
    ASSUME Inv, MoveFrontier
    PROVE  /\ frontier <= frontier'
           /\ \A i \in Feed : Slot[i] <= frontier' => i \in queued
<1>1. frontier \in Nat /\ newest \in 0..Last /\ newest \in SlotEnds
  BY DEF Inv, TypeOK, NewestEndsItsSlot
<1>2. newest # 0 => newest \in Feed /\ Slot[newest] \in Nat
  BY <1>1, SlotIsNat, FeedAssumption DEF Feed
<1>3. frontier <= frontier'
  BY <1>1, <1>2 DEF MoveFrontier
<1>4. ASSUME NEW i \in Feed, Slot[i] <= frontier' PROVE i \in queued
  <2>1. CASE frontier' = frontier
    BY <1>4, <2>1 DEF Inv, FrontierSlotQueued
  <2>2. CASE frontier' # frontier
    <3>1. newest # 0 /\ frontier' = Slot[newest]
      BY <2>2 DEF MoveFrontier
    <3>2. i <= newest
      BY <1>1, <1>4, <3>1, WindowHoldsItsSlot
    <3>3. i \in found \cup queued
      BY <1>1, <3>1, <3>2, FeedAssumption
         DEF Inv, PagesCoverFeed, MoveFrontier, Feed
    <3>4. found \subseteq queued
      BY DEF Inv, FoundIsSent, MoveFrontier, AllSent
    <3> QED
      BY <3>3, <3>4
  <2> QED
    BY <2>1, <2>2
<1> QED
  BY <1>3, <1>4

LEMMA InvMoveFrontier ==
    ASSUME Inv, TypeOK', MoveFrontier
    PROVE  Inv'
<1>1. FrontierSlotQueued'
  BY FrontierPassesQueued DEF FrontierSlotQueued, MoveFrontier
<1>2. frontier' = 0 => frontier = 0
  BY FrontierPassesQueued DEF Inv, TypeOK
<1> QED
  BY <1>1, <1>2, InvLeave DEF MoveFrontier

LEMMA InvStep ==
    ASSUME Inv, [Next]_vars
    PROVE  Inv'
<1>1. TypeOK'
  BY TypeStep DEF Inv
<1>2. CASE \/ PrimaryGrows \/ PrimaryForgets
           \/ ArchivalGrows \/ ArchivalTruncated \/ ArchivalRecovers
  BY <1>1, <1>2, InvWindows
<1>3. CASE Start
  BY <1>1, <1>3, InvStart
<1>4. CASE PageReachesFrontier \/ HistoryEnds
  BY <1>1, <1>4, InvPagingEnds
<1>5. CASE PageIsFull \/ PrimaryEnds
  BY <1>1, <1>5, InvPageGoesOn
<1>6. CASE Restart
  BY <1>1, <1>6, InvRestart
<1>7. CASE NoOverlap \/ EndsAboveFrontier \/ Fail
  <2>1. Leave /\ UNCHANGED buildVars
    BY <1>7 DEF NoOverlap, EndsAboveFrontier, Fail
  <2>2. FrontierSlotQueued' /\ frontier' = frontier
    BY <2>1 DEF Inv, FrontierSlotQueued, buildVars
  <2> QED
    BY <1>1, <2>1, <2>2, InvLeave
<1>8. CASE QueueChunk
  BY <1>1, <1>8, InvQueueChunk
<1>9. CASE MoveFrontier
  BY <1>1, <1>9, InvMoveFrontier
<1>10. CASE UNCHANGED vars
  BY <1>10 DEF vars, primaryVars, archivalVars, windowVars, buildVars, pagingVars,
               Inv, TypeOK, PagesCoverFeed, ArchivalKnows, FrontierSlotQueued,
               NewestEndsItsSlot, IdleHoldsNothing, PagingStartsAtTheTop,
               CollectedIsContiguous, FoundIsSent, SlotEnds, Feed
<1> QED
  BY <1>2, <1>3, <1>4, <1>5, <1>6, <1>7, <1>8, <1>9, <1>10 DEF Next, Discover

(* The inductive invariant: what discover holds between two pages is the    *)
(* contiguous top of the feed, and what it sent is queued.                   *)
THEOREM InvAlways == ArchivalStart # 0 => (Spec => []Inv)
<1>1. Init /\ ArchivalStart # 0 => Inv
  BY InvInit
<1>2. Inv /\ [Next]_vars => Inv'
  BY InvStep
<1> QED
  BY <1>1, <1>2, PTL DEF Spec

-----------------------------------------------------------------------------
(* What discovery promises, where the archival endpoint knows the program    *)

(* Every signature below the frontier was queued, whatever the endpoints     *)
(* forget, truncate or serve late and wherever discoveries fail.             *)
THEOREM FrontierHidesNothing ==
    ArchivalStart # 0 => (Spec => []InvariantD)
<1>1. Inv => InvariantD
  BY SlotIsNat DEF Inv, TypeOK, FrontierSlotQueued, InvariantD
<1> QED
  BY <1>1, InvAlways, PTL

(* The pages of one discovery, over both endpoints and across a restart,     *)
(* leave no hole.                                                            *)
THEOREM PagesLeaveNoHole ==
    ArchivalStart # 0 => (Spec => []PagesCoverFeed)
<1>1. Inv => PagesCoverFeed
  BY DEF Inv
<1> QED
  BY <1>1, InvAlways, PTL

(* The frontier never moves back, and only past queued signatures.           *)
THEOREM FrontierStaysBehindTheQueue ==
    ArchivalStart # 0 => (Spec => FrontierMovesLast)
<1> DEFINE Move == /\ frontier <= frontier'
                   /\ frontier' # frontier =>
                        \A i \in Feed : Slot[i] <= frontier' => i \in queued
<1>1. ASSUME Inv, [Next]_vars PROVE [Move]_vars
  <2>1. frontier \in Nat
    BY <1>1 DEF Inv, TypeOK
  <2>2. CASE MoveFrontier
    BY <1>1, <2>2, FrontierPassesQueued
  <2>3. CASE ~MoveFrontier
    <3>1. frontier' = frontier
      BY <1>1, <2>3
         DEF Next, Discover, vars, primaryVars, archivalVars, windowVars,
             buildVars, pagingVars, PrimaryGrows, PrimaryForgets, ArchivalGrows,
             ArchivalTruncated, ArchivalRecovers, Start, PageReachesFrontier,
             PageIsFull, PrimaryEnds, HistoryEnds, Restart, NoOverlap,
             EndsAboveFrontier, Fail, QueueChunk
    <3> QED
      BY <2>1, <3>1
  <2> QED
    BY <2>2, <2>3
<1> QED
  BY <1>1, InvAlways, PTL DEF Spec, FrontierMovesLast
=============================================================================
