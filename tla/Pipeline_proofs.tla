--------------------------- MODULE Pipeline_proofs ---------------------------
(***************************************************************************)
(* Proofs about the stages of Pipeline, for every rate, retry limit,       *)
(* pause, image and number of upgrades: the client keeps its slots, and a  *)
(* detection that nothing disturbed describes the chain.  The state checks *)
(* and the rollups have modules of their own.  At the end: every behaviour *)
(* of the pipeline is one of each of its stages.                           *)
(***************************************************************************)
EXTENDS Pipeline, StateChecks_proofs, Rollup_proofs

-----------------------------------------------------------------------------
(* The client.  RpcInv is inductive as it stands.                          *)

\* Minutes divided by a positive rate: a slot is a number of tenths.
LEMMA IntervalIsNat == ASSUME NEW r \in Nat, r >= MinRate PROVE Interval(r) \in Nat
  <1>1. r > 0
    BY RpcAssumption
  <1> QED
    BY <1>1 DEF Interval, Minute

\* Halving or creeping up, the rate stays between its limits.
LEMMA RateMoves ==
  ASSUME NEW r \in Nat, MinRate <= r, r <= BaseRate
  PROVE  /\ Lower(BaseRate, (r * 3) \div 2) \in Nat
         /\ MinRate <= Lower(BaseRate, (r * 3) \div 2)
         /\ Lower(BaseRate, (r * 3) \div 2) <= BaseRate
         /\ Later(MinRate, r \div 2) \in Nat
         /\ MinRate <= Later(MinRate, r \div 2)
         /\ Later(MinRate, r \div 2) <= BaseRate
  <1>1. MinRate \in Nat /\ BaseRate \in Nat /\ BaseRate >= MinRate
    BY RpcAssumption
  <1>2. (r * 3) \div 2 \in Nat /\ (r * 3) \div 2 >= r
    OBVIOUS
  <1>3. r \div 2 \in Nat /\ r \div 2 <= r
    OBVIOUS
  <1> QED
    BY <1>1, <1>2, <1>3 DEF Lower, Later

\* However much time passes, both instants stay in order.
LEMMA PassingKeepsOrder ==
  ASSUME RpcInv, NEW time \in Nat, Passes(time)
  PROVE  nextIn' \in Nat /\ owed' \in Nat /\ owed' <= nextIn'
  BY DEF RpcInv, RpcTypeOK, SlotsAreSpaced, Passes, After, Later

LEMMA RpcInitInv == RpcInit => RpcInv
  BY RpcAssumption
  DEF RpcInit, RpcInv, RpcTypeOK, SlotsAreSpaced, RateInRange, RetriesAreBounded

LEMMA CallKeeps == RpcInv /\ Call => RpcInv'
  BY RpcAssumption
  DEF Call, RpcInv, RpcTypeOK, SlotsAreSpaced, RateInRange, RetriesAreBounded

LEMMA TakeKeeps == RpcInv /\ Take => RpcInv'
  <1> SUFFICES ASSUME RpcInv, Take PROVE RpcInv'
    OBVIOUS
  <1>1. Interval(rate) \in Nat
    BY IntervalIsNat DEF RpcInv, RpcTypeOK, RateInRange
  <1> QED
    BY <1>1 DEF Take, RpcInv, RpcTypeOK, SlotsAreSpaced, RateInRange, RetriesAreBounded

\* AnswerOk, the only answer that may raise the rate.
LEMMA AnswerOkKeeps ==
  ASSUME RpcInv, NEW time \in Nat, AnswerOk(time)
  PROVE  RpcInv'
  <1>1. nextIn' \in Nat /\ owed' \in Nat /\ owed' <= nextIn'
    BY PassingKeepsOrder DEF AnswerOk
  <1>2. rate' \in Nat /\ MinRate <= rate' /\ rate' <= BaseRate /\ successes' \in 0 .. CreepAfter
    BY RateMoves, RpcAssumption
    DEF AnswerOk, RateSucceeds, RpcInv, RpcTypeOK, RateInRange
  <1> QED
    BY <1>1, <1>2
    DEF AnswerOk, Settle, RpcInv, RpcTypeOK, SlotsAreSpaced, RateInRange, RetriesAreBounded

LEMMA Answer429Keeps ==
  ASSUME RpcInv, NEW time \in Nat, NEW pause \in Nat, Answer429(time, pause)
  PROVE  RpcInv'
  <1>1. CASE throttled >= Max429
    <2>1. nextIn' \in Nat /\ owed' \in Nat /\ owed' <= nextIn'
      BY <1>1, PassingKeepsOrder DEF Answer429
    <2> QED
      BY <1>1, <2>1
      DEF Answer429, Settle, RpcInv, RpcTypeOK, SlotsAreSpaced, RateInRange, RetriesAreBounded
  <1>2. CASE ~(throttled >= Max429)
    <2>1. nextIn' \in Nat /\ owed' \in Nat /\ owed' <= nextIn'
      BY <1>2 DEF Answer429, Pushed, After, Later, RpcInv, RpcTypeOK, SlotsAreSpaced
    <2>2. rate' \in Nat /\ MinRate <= rate' /\ rate' <= BaseRate
      BY <1>2, RateMoves DEF Answer429, RpcInv, RpcTypeOK, RateInRange
    <2>3. successes' \in 0 .. CreepAfter /\ throttled' \in Nat /\ throttled' <= Max429
      BY <1>2, RpcAssumption DEF Answer429, RpcInv, RpcTypeOK
    <2> QED
      BY <1>2, <2>1, <2>2, <2>3
      DEF Answer429, RpcInv, RpcTypeOK, SlotsAreSpaced, RateInRange, RetriesAreBounded
  <1> QED
    BY <1>1, <1>2

LEMMA AnswerFailsKeeps ==
  ASSUME RpcInv, NEW time \in Nat, AnswerFails(time)
  PROVE  RpcInv'
  <1>0. Len(Backoffs) \in Nat
    BY RpcAssumption
  <1>1. CASE transient < Len(Backoffs)
    <2>1. transient + 1 \in 1 .. Len(Backoffs)
      BY <1>0, <1>1 DEF RpcInv, RpcTypeOK
    <2>2. Backoffs[transient + 1] \in Nat
      BY <2>1, RpcAssumption
    <2>3. Passes(time + Backoffs[transient + 1]) /\ time + Backoffs[transient + 1] \in Nat
      BY <1>1, <2>2 DEF AnswerFails
    <2>4. nextIn' \in Nat /\ owed' \in Nat /\ owed' <= nextIn'
      BY <2>3, PassingKeepsOrder
    <2> QED
      BY <1>0, <1>1, <2>4
      DEF AnswerFails, RpcInv, RpcTypeOK, SlotsAreSpaced, RateInRange, RetriesAreBounded
  <1>2. CASE ~(transient < Len(Backoffs))
    <2>1. nextIn' \in Nat /\ owed' \in Nat /\ owed' <= nextIn'
      BY <1>2, PassingKeepsOrder DEF AnswerFails
    <2> QED
      BY <1>2, <2>1
      DEF AnswerFails, Settle, RpcInv, RpcTypeOK, SlotsAreSpaced, RateInRange, RetriesAreBounded
  <1> QED
    BY <1>1, <1>2

\* A refused call and the time between two calls move only the instants.
LEMMA PassingKeeps ==
  ASSUME RpcInv, NEW time \in Nat, AnswerRefused(time) \/ Elsewhere(time)
  PROVE  RpcInv'
  <1>1. nextIn' \in Nat /\ owed' \in Nat /\ owed' <= nextIn'
    BY PassingKeepsOrder DEF AnswerRefused, Elsewhere
  <1> QED
    BY <1>1
    DEF AnswerRefused, Elsewhere, Settle,
        RpcInv, RpcTypeOK, SlotsAreSpaced, RateInRange, RetriesAreBounded

LEMMA RpcNextKeeps == RpcInv /\ RpcNext => RpcInv'
  <1> SUFFICES ASSUME RpcInv, RpcNext PROVE RpcInv'
    OBVIOUS
  <1>0. Durations \subseteq Nat /\ RetryAfters \subseteq Nat
    BY RpcAssumption
  <1>1. CASE Call \/ Take
    BY <1>1, CallKeeps, TakeKeeps
  <1>2. CASE \E time \in Durations :
                AnswerOk(time) \/ AnswerFails(time) \/ AnswerRefused(time) \/ Elsewhere(time)
    BY <1>0, <1>2, AnswerOkKeeps, AnswerFailsKeeps, PassingKeeps
  <1>3. CASE \E time \in Durations, pause \in RetryAfters : Answer429(time, pause)
    BY <1>0, <1>3, Answer429Keeps
  <1> QED
    BY <1>1, <1>2, <1>3 DEF RpcNext

LEMMA RpcStutters == RpcInv /\ UNCHANGED rpcVars => RpcInv'
  BY DEF rpcVars, RpcInv, RpcTypeOK, SlotsAreSpaced, RateInRange, RetriesAreBounded

\* RpcClient.call and Pacer (worker/rpc): in every behaviour of the client the
\* rate keeps its limits, no slot comes before the pause or interval that was
\* promised, and the retries of a call are bounded.
THEOREM RpcClientIsCorrect == RpcSpec => []RpcInv
  <1>1. RpcInv /\ [RpcNext]_rpcVars => RpcInv'
    BY RpcNextKeeps, RpcStutters
  <1> QED
    BY <1>1, RpcInitInv, PTL DEF RpcSpec

-----------------------------------------------------------------------------
(* The deployment.  What an undisturbed detection reads is current because *)
(* slots only grow: an image read too late is filed under a slot that is   *)
(* gone, so the next header asks for the image again.                      *)

Statuses == {"unknown", "not_deployed", "live", "closed"}
Authorities == {"key", "none"}
Identities == {IdentifyElf([elf |-> elf]) : elf \in Elfs}
BinaryKinds == {"none", "unknown"} \cup {KnownKind[i] : i \in DOMAIN KnownKind}

ReadsTypeOK ==
    /\ onChain \in {Absent, Closed}
                   \cup [slot : Nat \ {0}, elf : Elfs, tail : Tails, authority : Authorities]
    /\ row \in [status : Statuses, slot : Nat, authority : Authorities,
                identity : Identities \cup {NoIdentity}, kind : BinaryKinds]
    /\ \/ detect = NoDetection
       \/ detect \in [at : {"program", "header"}, known : {row}]
       \/ detect \in [at : {"image"}, slot : Nat, authority : Authorities]
    /\ undisturbed \in BOOLEAN /\ settled \in BOOLEAN

\* What a read in progress has seen of the account, now or earlier.
SeenInv ==
    /\ detect.at \in {"header", "image"} \/ row.status \in {"live", "closed"} => onChain # Absent
    /\ detect.at = "image" /\ HasAccount(onChain) =>
          /\ detect.slot <= onChain.slot
          /\ undisturbed => detect.slot = onChain.slot /\ detect.authority = onChain.authority

\* A row that names the current slot has its image.
SlotInv ==
    /\ onChain = Absent => row.slot = 0 /\ row.identity = NoIdentity
    /\ HasAccount(onChain) =>
          /\ row.slot <= onChain.slot
          /\ row.slot = onChain.slot /\ row.identity # NoIdentity =>
                row.identity = IdentifyElf(onChain) /\ row.kind = ClassifyBinary(row.identity)

ReadsInv == ReadsTypeOK /\ SeenInv /\ SlotInv /\ DeploymentIsCurrent

LEMMA IdentityOfImage ==
  ASSUME NEW image, image.elf \in Elfs
  PROVE  /\ IdentifyElf(image) \in Identities
         /\ IdentifyElf(image) # NoIdentity
         /\ ClassifyBinary(IdentifyElf(image)) \in BinaryKinds
         /\ IdentifyElf(image) = IdentifyElf([elf |-> image.elf, tail |-> 0])
  <1>1. IdentifyElf(image) = IdentifyElf([elf |-> image.elf])
    BY DEF IdentifyElf
  <1>2. IdentifyElf(image).elf # NoIdentity.elf
    BY ReadsAssumption DEF IdentifyElf, NoIdentity
  <1>3. ClassifyBinary(IdentifyElf(image)) \in BinaryKinds
    BY DEF ClassifyBinary, BinaryKinds
  <1>4. IdentifyElf(image) = IdentifyElf([elf |-> image.elf, tail |-> 0])
    BY DEF IdentifyElf
  <1> QED
    BY <1>1, <1>2, <1>3, <1>4 DEF Identities

LEMMA ReadsInitInv == ReadsInit => ReadsInv
  <1> SUFFICES ASSUME ReadsInit PROVE ReadsInv
    OBVIOUS
  <1> USE DEF ReadsInit
  <1>a. onChain \in {Absent, Closed}
                    \cup [slot : Nat \ {0}, elf : Elfs, tail : Tails, authority : Authorities]
    BY DEF Accounts, Authorities
  <1>b. row \in [status : Statuses, slot : Nat, authority : Authorities,
                 identity : Identities \cup {NoIdentity}, kind : BinaryKinds]
    BY DEF NoRow, Statuses, BinaryKinds, Authorities
  <1>1. ReadsTypeOK
    BY <1>a, <1>b DEF ReadsTypeOK
  <1>2. SeenInv
    BY DEF SeenInv, NoDetection, NoRow
  <1>3. SlotInv
    BY DEF SlotInv, NoRow, HasAccount, Accounts, Absent
  <1> QED
    BY <1>1, <1>2, <1>3 DEF ReadsInv, DeploymentIsCurrent

\* Whatever is finalised, no read in progress counts as undisturbed any more,
\* and the slot passes every slot that was read.
LEMMA ChainKeeps == ReadsInv /\ ChainChanges => ReadsInv'
  <1> SUFFICES ASSUME ReadsInv, ChainChanges PROVE ReadsInv'
    OBVIOUS
  <1>0. /\ row' = row /\ detect' = detect
        /\ undisturbed' = FALSE /\ settled' = FALSE
    BY DEF ChainChanges
  <1>1. /\ onChain' \in {Absent, Closed}
                   \cup [slot : Nat \ {0}, elf : Elfs, tail : Tails, authority : Authorities]
        /\ onChain' # Absent
        /\ HasAccount(onChain') =>
              \/ onChain = Absent
              \/ /\ HasAccount(onChain)
                 /\ \/ onChain'.slot = onChain.slot /\ onChain'.elf = onChain.elf
                    \/ onChain'.slot > onChain.slot
    <2>1. CASE Deploy
      BY <2>1 DEF Deploy, Accounts, Absent, Authorities
    <2>2. CASE Upgrade
      BY <2>2 DEF Upgrade, Accounts, Absent, Closed, HasAccount, Authorities, ReadsInv, ReadsTypeOK
    <2>3. CASE SetAuthority
      BY <2>3 DEF SetAuthority, Absent, Closed, HasAccount, Authorities, ReadsInv, ReadsTypeOK
    <2>4. CASE CloseProgram
      BY <2>4 DEF CloseProgram, Absent, Closed, HasAccount
    <2> QED
      BY <2>1, <2>2, <2>3, <2>4 DEF ChainChanges
  <1>2. ReadsTypeOK'
    BY <1>0, <1>1 DEF ReadsInv, ReadsTypeOK
  <1>3. SeenInv'
    <2>1. detect.at = "image" /\ HasAccount(onChain') => detect.slot <= onChain'.slot
      <3> SUFFICES ASSUME detect.at = "image", HasAccount(onChain')
                   PROVE  detect.slot <= onChain'.slot
        OBVIOUS
      <3>1. detect.slot \in Nat
        BY DEF ReadsInv, ReadsTypeOK, NoDetection
      <3>2. HasAccount(onChain) /\ detect.slot <= onChain.slot
        BY <1>1 DEF ReadsInv, SeenInv
      <3>3. onChain.slot \in Int /\ onChain'.slot \in Int
        BY <1>1 DEF ReadsInv, ReadsTypeOK, Absent, Closed
      <3> QED
        BY <1>1, <3>1, <3>2, <3>3 DEF ReadsInv, SeenInv
    <2> QED
      BY <1>0, <1>1, <2>1 DEF SeenInv
  <1>4. SlotInv'
    <2>1. /\ row.slot \in Nat
          /\ onChain.slot \in Int /\ onChain'.slot \in Int
      BY <1>1 DEF ReadsInv, ReadsTypeOK, Absent, Closed
    <2>2. CASE onChain = Absent
      BY <1>0, <1>1, <2>1, <2>2 DEF ReadsInv, SlotInv, HasAccount
    <2>3. CASE onChain # Absent
      <3>1. HasAccount(onChain') =>
               /\ row.slot <= onChain.slot
               /\ onChain'.slot >= onChain.slot
               /\ onChain'.slot = onChain.slot => IdentifyElf(onChain') = IdentifyElf(onChain)
        BY <1>1, <2>1, <2>3 DEF ReadsInv, SlotInv, IdentifyElf
      <3> QED
        BY <1>0, <1>1, <2>1, <2>3, <3>1 DEF ReadsInv, SlotInv
    <2> QED
      BY <2>2, <2>3
  <1> QED
    BY <1>0, <1>2, <1>3, <1>4 DEF ReadsInv, DeploymentIsCurrent

\* The row is read, or a detection ends without writing anything.
LEMMA StartOrFailKeeps == ReadsInv /\ (StartDetection \/ DetectionFails) => ReadsInv'
  <1> SUFFICES ASSUME ReadsInv, StartDetection \/ DetectionFails PROVE ReadsInv'
    OBVIOUS
  <1>0. /\ onChain' = onChain /\ row' = row /\ settled' = settled
        /\ undisturbed' \in BOOLEAN
        /\ detect' = NoDetection \/ detect' = [at |-> "program", known |-> row]
    BY DEF StartDetection, DetectionFails, ReadsInv, ReadsTypeOK
  <1>1. ReadsTypeOK'
    BY <1>0 DEF ReadsInv, ReadsTypeOK
  <1>2. SeenInv'
    BY <1>0 DEF ReadsInv, SeenInv, NoDetection
  <1>3. SlotInv' /\ DeploymentIsCurrent'
    BY <1>0 DEF ReadsInv, SlotInv, DeploymentIsCurrent, DescribesChain
  <1> QED
    BY <1>1, <1>2, <1>3 DEF ReadsInv

\* No account: the status says so at once.
LEMMA ReadProgramKeeps == ReadsInv /\ ReadProgram => ReadsInv'
  <1> SUFFICES ASSUME ReadsInv, ReadProgram PROVE ReadsInv'
    OBVIOUS
  <1>0. onChain' = onChain /\ undisturbed' = undisturbed /\ detect.at = "program"
    BY DEF ReadProgram, Detecting
  <1>1. CASE HasAccount(onChain)
    <2>1. /\ row' = row /\ settled' = settled /\ onChain # Absent
          /\ detect' \in [at : {"header"}, known : {row}]
      BY <1>0, <1>1 DEF ReadProgram, ReadsInv, ReadsTypeOK, NoDetection, HasAccount, Absent
    <2>2. ReadsTypeOK'
      BY <1>0, <2>1 DEF ReadsInv, ReadsTypeOK
    <2>3. SeenInv'
      BY <1>0, <2>1 DEF ReadsInv, SeenInv
    <2>4. SlotInv' /\ DeploymentIsCurrent'
      BY <1>0, <2>1 DEF ReadsInv, SlotInv, DeploymentIsCurrent, DescribesChain
    <2> QED
      BY <2>2, <2>3, <2>4 DEF ReadsInv
  <1>2. CASE ~HasAccount(onChain)
    <2>1. /\ settled' = undisturbed /\ detect' = NoDetection
          /\ row' = [row EXCEPT !.status =
                       IF @ \in {"live", "closed"} THEN "closed" ELSE "not_deployed"]
      BY <1>2 DEF ReadProgram
    <2>2. /\ row' \in [status : Statuses, slot : Nat, authority : Authorities,
                       identity : Identities \cup {NoIdentity}, kind : BinaryKinds]
          /\ row'.slot = row.slot /\ row'.identity = row.identity
          /\ row.status \in {"live", "closed"} => row'.status = "closed"
          /\ row.status \notin {"live", "closed"} => row'.status = "not_deployed"
      <3>1. row \in [status : Statuses, slot : Nat, authority : Authorities,
                      identity : Identities \cup {NoIdentity}, kind : BinaryKinds]
        BY DEF ReadsInv, ReadsTypeOK
      <3>2. CASE row.status \in {"live", "closed"}
        <4>1. row' = [row EXCEPT !.status = "closed"]
          BY <2>1, <3>2
        <4> QED
          BY <3>1, <3>2, <4>1 DEF Statuses
      <3>3. CASE row.status \notin {"live", "closed"}
        <4>1. row' = [row EXCEPT !.status = "not_deployed"]
          BY <2>1, <3>3
        <4> QED
          BY <3>1, <3>3, <4>1 DEF Statuses
      <3> QED
        BY <3>2, <3>3
    <2>3. ReadsTypeOK'
      BY <1>0, <2>1, <2>2 DEF ReadsInv, ReadsTypeOK
    <2>4. SeenInv'
      BY <1>0, <2>1, <2>2 DEF ReadsInv, SeenInv, NoDetection
    <2>5. SlotInv'
      BY <1>0, <1>2, <2>2 DEF ReadsInv, SlotInv
    <2>6. onChain = Absent \/ onChain = Closed
      BY <1>2 DEF ReadsInv, ReadsTypeOK, HasAccount
    <2>7. DescribesChain'
      BY <1>0, <1>2, <2>2, <2>6 DEF DescribesChain, ReadsInv, SeenInv
    <2> QED
      BY <2>3, <2>4, <2>5, <2>7 DEF ReadsInv, DeploymentIsCurrent
  <1> QED
    BY <1>1, <1>2

\* A header that needs no image: the row names this slot and has its image.
LEMMA ReadHeaderKeeps == ReadsInv /\ ReadHeader => ReadsInv'
  <1> SUFFICES ASSUME ReadsInv, ReadHeader PROVE ReadsInv'
    OBVIOUS
  <1>0. /\ onChain' = onChain /\ undisturbed' = undisturbed
        /\ HasAccount(onChain) /\ detect.at = "header" /\ detect.known = row
        /\ onChain # Absent
        /\ onChain \in [slot : Nat \ {0}, elf : Elfs, tail : Tails, authority : Authorities]
    BY DEF ReadHeader, Detecting, SetLive, ReadsInv, ReadsTypeOK, NoDetection,
           HasAccount, Absent, Closed
  <1>1. CASE NeedsImage(onChain, row)
    <2>1. /\ row' = row /\ settled' = settled
          /\ detect' = [at |-> "image", slot |-> onChain.slot, authority |-> onChain.authority]
      BY <1>0, <1>1 DEF ReadHeader
    <2>2. ReadsTypeOK'
      BY <1>0, <2>1 DEF ReadsInv, ReadsTypeOK
    <2>3. SeenInv'
      BY <1>0, <2>1 DEF ReadsInv, SeenInv
    <2>4. SlotInv' /\ DeploymentIsCurrent'
      BY <1>0, <2>1 DEF ReadsInv, SlotInv, DeploymentIsCurrent, DescribesChain
    <2> QED
      BY <2>2, <2>3, <2>4 DEF ReadsInv
  <1>2. CASE ~NeedsImage(onChain, row)
    <2>1. /\ row' = [row EXCEPT !.status = "live", !.authority = onChain.authority]
          /\ settled' = undisturbed /\ detect' = NoDetection
      BY <1>0, <1>2 DEF ReadHeader, SetLive
    <2>2. row.slot = onChain.slot /\ row.identity # NoIdentity
      BY <1>2 DEF NeedsImage
    <2>3. /\ row' \in [status : Statuses, slot : Nat, authority : Authorities,
                       identity : Identities \cup {NoIdentity}, kind : BinaryKinds]
          /\ row'.slot = row.slot /\ row'.identity = row.identity /\ row'.kind = row.kind
          /\ row'.status = "live" /\ row'.authority = onChain.authority
      BY <1>0, <2>1 DEF ReadsInv, ReadsTypeOK, Statuses
    <2>4. ReadsTypeOK'
      BY <1>0, <2>1, <2>3 DEF ReadsInv, ReadsTypeOK
    <2>5. SeenInv'
      BY <1>0, <2>1, <2>3 DEF ReadsInv, SeenInv, NoDetection
    <2>6. SlotInv'
      BY <1>0, <2>3 DEF ReadsInv, SlotInv
    <2>7. row.identity = IdentifyElf(onChain) /\ row.kind = ClassifyBinary(row.identity)
      BY <1>0, <2>2 DEF ReadsInv, SlotInv
    <2>8. DescribesChain'
      BY <1>0, <2>2, <2>3, <2>7, IdentityOfImage DEF DescribesChain
    <2> QED
      BY <2>4, <2>5, <2>6, <2>8 DEF ReadsInv, DeploymentIsCurrent
  <1> QED
    BY <1>1, <1>2

\* The image: of the slot in the header, or of a later one.
LEMMA ReadImageKeeps == ReadsInv /\ ReadImage => ReadsInv'
  <1> SUFFICES ASSUME ReadsInv, ReadImage PROVE ReadsInv'
    OBVIOUS
  <1>0. /\ onChain' = onChain /\ undisturbed' = undisturbed
        /\ HasAccount(onChain) /\ detect.at = "image"
        /\ onChain # Absent
        /\ onChain \in [slot : Nat \ {0}, elf : Elfs, tail : Tails, authority : Authorities]
        /\ detect \in [at : {"image"}, slot : Nat, authority : Authorities]
    BY DEF ReadImage, Detecting, SetLive, ReadsInv, ReadsTypeOK, NoDetection,
           HasAccount, Absent, Closed
  <1>1. /\ IdentifyElf(onChain) \in Identities /\ IdentifyElf(onChain) # NoIdentity
        /\ ClassifyBinary(IdentifyElf(onChain)) \in BinaryKinds
        /\ IdentifyElf(onChain) = IdentifyElf([elf |-> onChain.elf, tail |-> 0])
    BY <1>0, IdentityOfImage
  <1>2. /\ row' = [status |-> "live", slot |-> detect.slot, authority |-> detect.authority,
                   identity |-> IdentifyElf(onChain), kind |-> ClassifyBinary(IdentifyElf(onChain))]
        /\ settled' = undisturbed /\ detect' = NoDetection
    BY <1>1 DEF ReadImage, SetLive
  <1>3. /\ detect.slot <= onChain.slot
        /\ undisturbed => detect.slot = onChain.slot /\ detect.authority = onChain.authority
    BY <1>0 DEF ReadsInv, SeenInv
  <1>4. row' \in [status : Statuses, slot : Nat, authority : Authorities,
                  identity : Identities \cup {NoIdentity}, kind : BinaryKinds]
    BY <1>0, <1>1, <1>2 DEF Statuses
  <1>5. ReadsTypeOK'
    BY <1>0, <1>2, <1>4 DEF ReadsInv, ReadsTypeOK
  <1>6. SeenInv'
    BY <1>0, <1>2 DEF SeenInv, NoDetection
  <1>7. SlotInv'
    BY <1>0, <1>2, <1>3 DEF SlotInv
  <1>8. settled' => DescribesChain'
    BY <1>0, <1>1, <1>2, <1>3 DEF DescribesChain
  <1> QED
    BY <1>5, <1>6, <1>7, <1>8 DEF ReadsInv, DeploymentIsCurrent

LEMMA ReadsNextKeeps == ReadsInv /\ ReadsNext => ReadsInv'
  BY ChainKeeps, StartOrFailKeeps, ReadProgramKeeps, ReadHeaderKeeps, ReadImageKeeps
  DEF ReadsNext

LEMMA ReadsStutters == ReadsInv /\ UNCHANGED readsVars => ReadsInv'
  BY DEF readsVars, ReadsInv, ReadsTypeOK, SeenInv, SlotInv, DeploymentIsCurrent, DescribesChain

\* detectDeployment and lk_set_deployment: whatever is deployed, upgraded or
\* closed between their reads, a detection that nothing disturbed leaves the
\* row describing what is deployed.
THEOREM DetectionIsCurrent == ReadsSpec => []DeploymentIsCurrent
  <1>1. ReadsInv /\ [ReadsNext]_readsVars => ReadsInv'
    BY ReadsNextKeeps, ReadsStutters
  <1>2. ReadsInv => DeploymentIsCurrent
    BY DEF ReadsInv
  <1> QED
    BY <1>1, <1>2, ReadsInitInv, PTL DEF ReadsSpec

-----------------------------------------------------------------------------
(* The composition: each stage's step is a step of that stage and a        *)
(* stutter of the others, so what holds of a stage holds of the pipeline.  *)

LEMMA StepOfEachStage ==
  ASSUME [Next]_vars
  PROVE  /\ [RpcNext]_rpcVars /\ [ReadsNext]_readsVars
         /\ [ChecksNext]_checksVars /\ [RollupNext]_rollupVars
  BY DEF Next, vars, CallStage, DeploymentStage, StateStage, TransactionStage

\* Every behaviour of the pipeline is one of the client (worker/rpc) ...
THEOREM PipelineCalls == Spec => RpcSpec
  <1>1. Init => RpcInit
    BY DEF Init
  <1> QED
    BY <1>1, StepOfEachStage, PTL DEF Spec, RpcSpec

\* ... of the detection (worker/loop/deployment.ts) ...
THEOREM PipelineDetects == Spec => ReadsSpec
  <1>1. Init => ReadsInit
    BY DEF Init
  <1> QED
    BY <1>1, StepOfEachStage, PTL DEF Spec, ReadsSpec

\* ... of the snapshots and their comparison (worker/state, worker/verify) ...
THEOREM PipelineCompares == Spec => ChecksSpec
  <1>1. Init => ChecksInit
    BY DEF Init
  <1> QED
    BY <1>1, StepOfEachStage, PTL DEF Spec, ChecksSpec

\* ... and of the parser with its rollups (worker/parse, lk.rollup).
THEOREM PipelineRollsUp == Spec => RollupSpec
  <1>1. Init => RollupInit
    BY DEF Init
  <1> QED
    BY <1>1, StepOfEachStage, PTL DEF Spec, RollupSpec
=============================================================================
