------------------------------ MODULE ChainReads -----------------------------
(***************************************************************************)
(* What a run reads of a program's deployment: detectDeployment            *)
(* (loop/deployment.ts), the identity of the binary (chain/binary.ts) and    *)
(* lk_set_deployment.  The three account reads are separate calls, and an   *)
(* upgrade, an authority change or the close of the program may be         *)
(* finalised between any two of them.  The program's row is read once, at   *)
(* the start of the run.                                                    *)
(***************************************************************************)
EXTENDS Integers, FiniteSets, FiniteSetsExt

CONSTANTS
    Elfs,           \* the images that may be deployed
    Tables,         \* the ends of each image's program and section header tables
    Sections,       \* its sections: [end, nobits]
    KnownKind,      \* lk.known_binaries: the kind of an identity, for some of them
    Tails,          \* the zero tails ExtendProgram may leave
    MaxUpgrades, MaxDetections

ASSUME ReadsAssumption ==
    /\ MaxUpgrades \in Nat /\ MaxDetections \in Nat
    /\ \A elf \in Elfs : Tables[elf] \subseteq Nat /\ IsFiniteSet(Tables[elf])
    /\ "none" \notin Elfs

VARIABLES
    onChain,        \* the programdata account, or Absent, or Closed
    row,            \* lk.programs: the deployment columns
    deploys,        \* lk.deploys: the slots observed with their identity
    detect,         \* the detection in progress, or NoDetection
    undisturbed,    \* history: nothing changed since this detection began
    settled,        \* history: nor since the last completed one began
    detections

readsVars == <<onChain, row, deploys, detect, undisturbed, settled, detections>>

Absent == [slot |-> 0]
Closed == [slot |-> -1]
HasAccount(state) == state.slot > 0
NoIdentity == [elf |-> "none", size |-> 0]
NoDetection == [at |-> "none"]

Accounts(slot) == [slot : {slot}, elf : Elfs, tail : Tails, authority : {"key", "none"}]

\* elfBound: the end of the tables and of every section that has bytes in the
\* file; the zeros behind it never count.
ElfBound(elf) ==
    Max({64} \cup Tables[elf] \cup {s.end : s \in {x \in Sections[elf] : ~x.nobits}})

\* identifyElf: a hash stands for the bytes it is taken of.
IdentifyElf(image) == [elf |-> image.elf, size |-> ElfBound(image.elf)]

\* classifyBinary
ClassifyBinary(identity) ==
    IF identity \in DOMAIN KnownKind THEN KnownKind[identity] ELSE "unknown"

NoRow == [status |-> "unknown", slot |-> 0, authority |-> "none",
          identity |-> NoIdentity, kind |-> "none"]

ReadsInit ==
    /\ onChain \in {Absent} \cup Accounts(1)
    /\ row = NoRow /\ deploys = {} /\ detect = NoDetection
    /\ undisturbed = FALSE /\ settled = FALSE /\ detections = 0

-----------------------------------------------------------------------------
(* The chain: any of these may be finalised while a detection runs.        *)

Deploy == onChain = Absent /\ onChain' \in Accounts(1)

\* An upgrade or an extension: a new slot and perhaps a new image.
Upgrade ==
    /\ HasAccount(onChain) /\ onChain.slot <= MaxUpgrades
    /\ onChain' \in Accounts(onChain.slot + 1)

SetAuthority ==
    /\ HasAccount(onChain) /\ onChain.authority = "key"
    /\ onChain' = [onChain EXCEPT !.authority = "none"]

CloseProgram == HasAccount(onChain) /\ onChain' = Closed

ChainChanges ==
    /\ Deploy \/ Upgrade \/ SetAuthority \/ CloseProgram
    /\ undisturbed' = FALSE /\ settled' = FALSE
    /\ UNCHANGED <<row, deploys, detect, detections>>

-----------------------------------------------------------------------------
(* detectDeployment                                                         *)

Detecting(step) == detect.at = step /\ UNCHANGED <<onChain, detections>>

\* lk_worker_context: the row as this run's detection will see it.
StartDetection ==
    /\ detect = NoDetection /\ detections < MaxDetections
    /\ detections' = detections + 1
    /\ detect' = [at |-> "program", known |-> row]
    /\ undisturbed' = TRUE
    /\ UNCHANGED <<onChain, row, deploys, settled>>

\* lk_set_deployment of a live program: the authority always, the rest only
\* with a full read; a row of lk.deploys per slot.
SetLive(header, full) ==
    /\ row' = IF full = NoIdentity
              THEN [row EXCEPT !.status = "live", !.authority = header.authority]
              ELSE [status |-> "live", slot |-> header.slot, authority |-> header.authority,
                    identity |-> full, kind |-> ClassifyBinary(full)]
    /\ deploys' = IF full = NoIdentity THEN deploys
                  ELSE {d \in deploys : d.slot # header.slot}
                       \cup {[slot |-> header.slot, identity |-> full]}
    /\ settled' = undisturbed
    /\ detect' = NoDetection
    /\ UNCHANGED undisturbed

\* The 36 bytes of the program account: no account means never deployed, or
\* closed when the row already knew it.
ReadProgram ==
    /\ Detecting("program")
    /\ IF HasAccount(onChain)
       THEN /\ detect' = [detect EXCEPT !.at = "header"]
            /\ UNCHANGED <<row, deploys, settled, undisturbed>>
       ELSE /\ row' = [row EXCEPT !.status =
                         IF @ \in {"live", "closed"} THEN "closed" ELSE "not_deployed"]
            /\ settled' = undisturbed
            /\ detect' = NoDetection
            /\ UNCHANGED <<deploys, undisturbed>>

\* A seeded fault: a known hash is never read again.
NeedsFirstImage(header, known) == known.identity = NoIdentity

\* The full image is read when the slot moved or no hash is known.
NeedsImage(header, known) == header.slot # known.slot \/ known.identity = NoIdentity

ReadHeader ==
    /\ Detecting("header")
    /\ HasAccount(onChain)
    /\ IF NeedsImage(onChain, detect.known)
       THEN /\ detect' = [at |-> "image", slot |-> onChain.slot, authority |-> onChain.authority]
            /\ UNCHANGED <<row, deploys, settled, undisturbed>>
       ELSE SetLive(onChain, NoIdentity)

ReadImage ==
    /\ Detecting("image")
    /\ HasAccount(onChain)
    /\ SetLive(detect, IdentifyElf(onChain))

\* A read or the write throws, or finds the programdata gone: nothing is
\* written and the run goes on without this program.
DetectionFails ==
    /\ detect # NoDetection
    /\ detect' = NoDetection
    /\ UNCHANGED <<onChain, row, deploys, undisturbed, settled, detections>>

ReadsNext ==
    \/ ChainChanges
    \/ StartDetection \/ ReadProgram \/ ReadHeader \/ ReadImage \/ DetectionFails

ReadsSpec == ReadsInit /\ [][ReadsNext]_readsVars

-----------------------------------------------------------------------------

\* The row describes what is deployed.  A known image is recognised whatever
\* zeros follow it.
DescribesChain ==
    IF HasAccount(onChain)
    THEN /\ row.status = "live"
         /\ row.slot = onChain.slot /\ row.authority = onChain.authority
         /\ row.identity = IdentifyElf([elf |-> onChain.elf, tail |-> 0])
         /\ row.kind = ClassifyBinary(row.identity)
    ELSE \/ row.status = "not_deployed"
         \/ row.status = "closed" /\ onChain = Closed

\* A detection (detectDeployment, lk_set_deployment) that nothing on the chain
\* disturbed leaves the row describing what is deployed, also when an earlier
\* one was disturbed between its header and its image and recorded a slot with
\* the image of another.
DeploymentIsCurrent == settled => DescribesChain
=============================================================================
