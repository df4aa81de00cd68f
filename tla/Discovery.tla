------------------------------ MODULE Discovery ------------------------------
(***************************************************************************)
(* One build's discoveries: each pages getSignaturesForAddress from the    *)
(* newest signature down to the build's frontier slot, first on the        *)
(* primary endpoint and, where that one ends early, on the archival one,   *)
(* queues what it found and moves the frontier in its last call.           *)
(*                                                                         *)
(* The feed is the program's signatures, numbered from the oldest.  Each   *)
(* endpoint serves a window of it that ends between two slots: the primary *)
(* forgets old signatures, the archival endpoint keeps them all but may,   *)
(* once the first pass is over, answer for a while from a node with less   *)
(* history, and both may lag.  Where only one endpoint is configured it    *)
(* plays the archival part from the first page on.                         *)
(*                                                                         *)
(* The queue is reduced to the signatures it has accepted; what becomes of *)
(* them is the subject of EventLog.tla.                                    *)
(***************************************************************************)
EXTENDS Integers, FiniteSets

CONSTANTS
    Last,           (* signatures of the feed                                *)
    Slot,           (* Slot[i]: the slot of the i-th signature               *)
    FirstPageLimit, (* limit of the first page of an incremental pass (100)  *)
    PageLimit,      (* limit of every other page (1000)                      *)
    ChunkSize,      (* signatures per lk_enqueue call (1000)                 *)
    ArchivalStart,  (* the newest signature the archival endpoint starts with *)
    MaxFaults       (* bound: errors, kills and truncations of history       *)

Feed == 1..Last

(* The last signatures of slots, where an endpoint's window may end. *)
SlotEnds == {0, Last} \cup {i \in 1..Last - 1 : Slot[i] < Slot[i + 1]}

ASSUME FeedAssumption ==
    /\ Last \in Nat \ {0}
    /\ Slot \in [Feed -> Nat \ {0}]
    /\ \A i, j \in Feed : i <= j => Slot[i] <= Slot[j]
    /\ ArchivalStart \in SlotEnds

ASSUME LimitsAssumption ==
    /\ FirstPageLimit \in Nat \ {0}
    /\ PageLimit \in Nat \ {0}
    /\ ChunkSize \in Nat \ {0}
    /\ MaxFaults \in Nat

VARIABLES
    primaryFrom, (* the oldest signature the primary still serves            *)
    primaryTo,   (* the newest signature the primary serves                  *)
    archivalFrom, (* the oldest signature the archival endpoint serves       *)
    archivalTo,  (* the newest signature the archival endpoint serves        *)
    entry,       (* configuration: the endpoint a discovery starts on        *)
    frontier,    (* lk.builds.frontier_slot, 0 while null                    *)
    queued,      (* signatures that lk_enqueue has accepted                  *)
    pc,          (* "idle", "page" or "queue"                                *)
    endpoint,    (* the endpoint being paged                                 *)
    before,      (* the `before` of the next page, 0 while undefined         *)
    limit,       (* the limit of the next page                               *)
    found,       (* signatures collected so far                              *)
    newest,      (* the first one collected, 0 while there is none           *)
    oldestSeen,  (* the last one collected, 0 while there is none            *)
    floor,       (* continuityFloor, 0 while null                            *)
    unsent,      (* collected signatures not sent to lk_enqueue yet          *)
    faults       (* errors, kills and truncations so far                     *)

primaryVars == <<primaryFrom, primaryTo>>
archivalVars == <<archivalFrom, archivalTo>>
windowVars == <<primaryVars, archivalVars>>
buildVars == <<frontier, queued>>
pagingVars == <<endpoint, before, limit, found, newest, oldestSeen, floor>>
vars == <<windowVars, entry, buildVars, pc, pagingVars, unsent, faults>>

-----------------------------------------------------------------------------
(* The endpoints *)

PrimaryGrows ==
    /\ primaryTo' \in {i \in SlotEnds : primaryTo < i}
    /\ UNCHANGED <<primaryFrom, archivalVars, entry, buildVars, pc, pagingVars,
                   unsent, faults>>

PrimaryForgets ==
    /\ primaryFrom <= primaryTo
    /\ primaryFrom' = primaryFrom + 1
    /\ UNCHANGED <<primaryTo, archivalVars, entry, buildVars, pc, pagingVars,
                   unsent, faults>>

ArchivalGrows ==
    /\ archivalTo' \in {i \in SlotEnds : archivalTo < i}
    /\ UNCHANGED <<primaryVars, archivalFrom, entry, buildVars, pc, pagingVars,
                   unsent, faults>>

ArchivalTruncated ==
    /\ frontier # 0
    /\ faults < MaxFaults
    /\ faults' = faults + 1
    /\ archivalFrom' \in archivalFrom + 1..Last + 1
    /\ UNCHANGED <<primaryVars, archivalTo, entry, buildVars, pc, pagingVars,
                   unsent>>

ArchivalRecovers ==
    /\ archivalFrom # 1
    /\ archivalFrom' = 1
    /\ UNCHANGED <<primaryVars, archivalTo, entry, buildVars, pc, pagingVars,
                   unsent, faults>>

From == IF endpoint = "archival" THEN archivalFrom ELSE primaryFrom
To == IF endpoint = "archival" THEN archivalTo ELSE primaryTo

Smaller(a, b) == IF a < b THEN a ELSE b
Larger(a, b) == IF a < b THEN b ELSE a

(* The page of getSignaturesForAddress at `before` and `limit`: from its      *)
(* newest signature, if it has one, down to its oldest.                       *)
Top == IF before = 0 THEN To ELSE Smaller(To, before - 1)
Bottom == Larger(From, Top - limit + 1)
Page == Bottom..Top

PageIsShort == Top < From + limit - 1

(* The archival endpoint lags behind the `before` taken from the primary. *)
BeforeUnknown == endpoint = "archival" /\ before > archivalTo

(* A node without the history around `before` may answer "not found" or with *)
(* an empty page.                                                            *)
BeforeTruncated == endpoint = "archival" /\ before # 0 /\ before < archivalFrom

-----------------------------------------------------------------------------
(* discover *)

Start ==
    /\ pc = "idle"
    /\ pc' = "page"
    /\ limit' = IF frontier = 0 THEN PageLimit ELSE FirstPageLimit
    /\ UNCHANGED <<windowVars, entry, buildVars, endpoint, before, found, newest,
                   oldestSeen, floor, unsent, faults>>

(* discover returns or throws: its local variables are gone. *)
Leave ==
    /\ pc' = "idle"
    /\ endpoint' = entry
    /\ before' = 0
    /\ limit' = PageLimit
    /\ found' = {}
    /\ newest' = 0
    /\ oldestSeen' = 0
    /\ floor' = 0
    /\ unsent' = {}
    /\ UNCHANGED <<windowVars, entry>>

(* Seeded fault: no overlap check after a restart.                          *)
OverlapNotChecked == TRUE

Overlaps == floor # 0 /\ Page # {} => Slot[Top] >= floor

(* The page was answered and, after a restart, overlaps what was collected.  *)
Answered ==
    /\ pc = "page"
    /\ ~BeforeUnknown
    /\ Overlaps

(* Signatures from the frontier slot up. *)
Wanted == {i \in Page : Slot[i] >= frontier}

ReachesFrontier == Wanted # Page

(* The last signature collected, with this page's. *)
LastSeen == IF Page # {} THEN Bottom ELSE oldestSeen

Collect ==
    /\ found' = found \cup Wanted
    /\ newest' = IF newest = 0 /\ Wanted # {} THEN Top ELSE newest
    /\ floor' = 0

(* Seeded fault: sends the last page only.                                  *)
SentPage == Page

SentSet == found'

Done ==
    /\ pc' = "queue"
    /\ unsent' = SentSet
    /\ UNCHANGED <<endpoint, before, limit>>

PageReachesFrontier ==
    /\ Answered
    /\ ReachesFrontier
    /\ Collect
    /\ Done
    (* which no one reads again *)
    /\ UNCHANGED oldestSeen
    /\ UNCHANGED <<windowVars, entry, buildVars, faults>>

(* A full page: the next one starts below it. *)
PageIsFull ==
    /\ Answered
    /\ ~ReachesFrontier
    /\ ~PageIsShort
    /\ Collect
    /\ oldestSeen' = LastSeen
    /\ before' = Bottom
    /\ limit' = PageLimit
    /\ UNCHANGED <<windowVars, entry, buildVars, pc, endpoint, unsent, faults>>

(* Seeded fault: any short page ends history.                               *)
EveryEndpointTrusted == TRUE

Trusted == endpoint = "archival"

(* A short page of the primary: the archival endpoint continues below it. *)
PrimaryEnds ==
    /\ Answered
    /\ ~ReachesFrontier
    /\ PageIsShort
    /\ ~Trusted
    /\ Collect
    /\ endpoint' = "archival"
    /\ oldestSeen' = LastSeen
    /\ before' = IF Page # {} THEN Bottom ELSE before
    /\ limit' = PageLimit
    /\ UNCHANGED <<windowVars, entry, buildVars, pc, unsent, faults>>

(* Seeded fault: the frontier slot itself is refused.                       *)
PassesFrontier == frontier # 0 => LastSeen # 0 /\ Slot[LastSeen] < frontier

EndsAtFrontier == frontier # 0 => LastSeen # 0 /\ Slot[LastSeen] <= frontier

(* A short page of the archival endpoint is the end of history: fine for a   *)
(* first pass, and for a later one that ends in the frontier slot.           *)
HistoryEnds ==
    /\ Answered
    /\ ~ReachesFrontier
    /\ PageIsShort
    /\ Trusted
    /\ Collect
    /\ EndsAtFrontier
    /\ oldestSeen' = LastSeen
    /\ Done
    /\ UNCHANGED <<windowVars, entry, buildVars, faults>>

(* Seeded fault: the restart forgets where it stood.                        *)
FloorForgotten(i) == 0

FloorAt(i) == IF i = 0 THEN 0 ELSE Slot[i]

(* Three more tries find the archival endpoint where it was (ArchivalGrows   *)
(* may come first): paging restarts from its top.                            *)
Restart ==
    /\ pc = "page"
    /\ BeforeUnknown \/ BeforeTruncated
    /\ before' = 0
    /\ limit' = PageLimit
    /\ floor' = FloorAt(oldestSeen)
    /\ UNCHANGED <<windowVars, entry, buildVars, pc, endpoint, found, newest,
                   oldestSeen, unsent, faults>>

(* "archival endpoint lags behind the primary" *)
NoOverlap ==
    /\ pc = "page"
    /\ ~BeforeUnknown
    /\ ~Overlaps
    /\ Leave
    /\ UNCHANGED <<buildVars, faults>>

(* "archival history ended above the frontier" *)
EndsAboveFrontier ==
    /\ Answered
    /\ ~ReachesFrontier
    /\ PageIsShort
    /\ Trusted
    /\ ~EndsAtFrontier
    /\ Leave
    /\ UNCHANGED <<buildVars, faults>>

(* A failed call, a slot without a block time, a kill. *)
Fail ==
    /\ pc # "idle"
    /\ faults < MaxFaults
    /\ faults' = faults + 1
    /\ Leave
    /\ UNCHANGED buildVars

(* Chunks of what was collected.  Which signatures share a chunk makes no    *)
(* difference here (Indexer.tla keeps their order).                          *)
QueueChunk ==
    /\ pc = "queue"
    /\ \E S \in SUBSET unsent :
        /\ Cardinality(S) = Smaller(ChunkSize, Cardinality(unsent))
        /\ S # {}
        /\ queued' = queued \cup S
        /\ unsent' = unsent \ S
    /\ UNCHANGED <<windowVars, entry, frontier, pc, pagingVars, faults>>

(* Seeded fault: the final call after one chunk.                            *)
SentWithFirstChunk == TRUE

AllSent == unsent = {}

(* The final call. *)
MoveFrontier ==
    /\ pc = "queue"
    /\ AllSent
    /\ frontier' = IF newest # 0 /\ Slot[newest] > frontier THEN Slot[newest] ELSE frontier
    /\ Leave
    /\ UNCHANGED <<queued, faults>>

-----------------------------------------------------------------------------
Init ==
    /\ primaryFrom = 1
    /\ primaryTo \in SlotEnds
    /\ archivalFrom = 1
    /\ archivalTo = ArchivalStart
    /\ entry \in {"primary", "archival"}
    /\ frontier = 0
    /\ queued = {}
    /\ pc = "idle"
    /\ endpoint = entry
    /\ before = 0
    /\ limit = PageLimit
    /\ found = {}
    /\ newest = 0
    /\ oldestSeen = 0
    /\ floor = 0
    /\ unsent = {}
    /\ faults = 0

Discover ==
    \/ Start
    \/ PageReachesFrontier \/ PageIsFull \/ PrimaryEnds \/ HistoryEnds
    \/ Restart \/ NoOverlap \/ EndsAboveFrontier
    \/ QueueChunk \/ MoveFrontier

Next ==
    \/ PrimaryGrows
    \/ PrimaryForgets
    \/ ArchivalGrows
    \/ ArchivalTruncated
    \/ ArchivalRecovers
    \/ Discover
    \/ Fail

Spec == Init /\ [][Next]_vars

-----------------------------------------------------------------------------
(* Properties *)

(* Every variable holds values of its type. *)
TypeOK ==
    /\ primaryFrom \in 1..Last + 1
    /\ primaryTo \in SlotEnds
    /\ archivalFrom \in 1..Last + 1
    /\ archivalTo \in SlotEnds
    /\ entry \in {"primary", "archival"}
    /\ endpoint \in {"primary", "archival"}
    /\ frontier \in Nat
    /\ queued \subseteq Feed
    /\ pc \in {"idle", "page", "queue"}
    /\ before \in 0..Last
    /\ limit \in {FirstPageLimit, PageLimit}
    /\ found \subseteq Feed
    /\ newest \in 0..Last
    /\ oldestSeen \in 0..Last
    /\ floor \in Nat
    /\ unsent \subseteq found
    /\ faults \in 0..MaxFaults

(* Invariant D of lk.builds: every signature below the frontier was queued,  *)
(* whatever the endpoints served on the way and wherever discoveries failed. *)
InvariantD == \A i \in Feed : Slot[i] < frontier => i \in queued

(* With what one discovery hands to lk_enqueue, everything up to the newest  *)
(* signature it saw is queued: pages of two endpoints, switches, restarts    *)
(* and truncated answers leave no hole.                                      *)
PagesCoverFeed ==
    pc = "queue" /\ newest # 0 => 1..newest \subseteq found \cup queued

(* What makes the two inductive.  The archival endpoint knows the program,   *)
(* all of it during the first pass; the frontier slot itself is queued;      *)
(* what is collected starts with the last signature of a slot and is a run   *)
(* of the feed without holes; and the next page starts right below it or,    *)
(* after a restart, will be compared with its last signature.                *)
ArchivalKnows == archivalTo # 0 /\ (frontier = 0 => archivalFrom = 1)

FrontierSlotQueued == \A i \in Feed : Slot[i] <= frontier => i \in queued

NewestEndsItsSlot == newest \in SlotEnds

IdleHoldsNothing == pc = "idle" => newest = 0 /\ before = 0

PagingStartsAtTheTop == pc = "page" /\ newest = 0 => before = 0

CollectedIsContiguous ==
    pc = "page" /\ newest # 0 =>
        /\ oldestSeen # 0
        /\ oldestSeen..newest \subseteq found
        /\ before # 0 => /\ before = oldestSeen
                         /\ endpoint = "primary" => before <= primaryTo
        /\ before = 0 => endpoint = "archival" /\ floor = Slot[oldestSeen]

FoundIsSent == pc = "queue" => found \subseteq queued \cup unsent

Inv ==
    /\ TypeOK
    /\ PagesCoverFeed
    /\ ArchivalKnows
    /\ FrontierSlotQueued
    /\ NewestEndsItsSlot
    /\ IdleHoldsNothing
    /\ PagingStartsAtTheTop
    /\ CollectedIsContiguous
    /\ FoundIsSent

(* The frontier never moves back, and its new slot and everything below is   *)
(* queued when it moves.                                                     *)
FrontierMovesLast ==
    [][/\ frontier <= frontier'
       /\ frontier' # frontier =>
            \A i \in Feed : Slot[i] <= frontier' => i \in queued]_vars

(* Once errors stop and the archival endpoint catches up and serves all of   *)
(* history again, every signature reaches the queue: no answer leaves        *)
(* discovery refusing for ever.                                              *)
EventuallyQueued == \A i \in Feed : <>(i \in queued)

(* The worker starts discoveries again and again and takes their steps; the  *)
(* endpoints catch up with the chain.                                        *)
FairSpec ==
    /\ Spec
    /\ WF_vars(Discover)
    /\ WF_vars(PrimaryGrows)
    /\ WF_vars(ArchivalGrows)
    /\ WF_vars(ArchivalRecovers)
=============================================================================
