------------------------------- MODULE Parser --------------------------------
(***************************************************************************)
(* worker/parse: a transaction becomes rows of lk.events, once for each     *)
(* program of the cluster whose feed it is in.  The module grows a          *)
(* transaction as the runtime executes it (an instruction may call others,  *)
(* which may call others), lands it with or without an error and with or    *)
(* without the recorded stack heights, and parses it as parseTransaction    *)
(* does: from a flat list per top-level instruction.                        *)
(*                                                                         *)
(* An instruction is the program it runs and what the parser tells apart in *)
(* it; every instruction of a transaction has the same payer.  Amounts are   *)
(* one lamport per transfer; fields that are copied or decoded and that no   *)
(* total here reads (wallet, ref, app, tokens, called programs) are left     *)
(* out.                                                                     *)
(***************************************************************************)
EXTENDS Integers, Sequences, FiniteSets, FiniteSetsExt

CONSTANTS
    Instructions,   \* the instructions a transaction may hold
    MaxIxs,         \* bound on their number
    MaxHeight,      \* bound on the depth of calls
    Details         \* the errors an instruction may return

Programs == {"v1", "v2"}
Other == [v1 |-> "v2", v2 |-> "v1"]

ASSUME ParserAssumption ==
    /\ Instructions \subseteq
         [program : Programs \cup {"system", "secp256r1", "loader", "other"},
          kind : 0 .. 18 \cup {254, 255},   \* of a LazorKit instruction, else 255
          target : Programs \cup {"none"},  \* whose shard a transfer pays, what the loader acts on
          suffix : BOOLEAN,                 \* it ends with the fee accounts
          signer : {"passkey", "session", "ed25519", "none"}]
              \* who its authority account is derived from; a new wallet's owner type
    /\ MaxIxs \in Nat /\ MaxHeight \in Nat

VARIABLES
    trace,      \* the instructions executed, in order, each with its height
    tx          \* the landed transaction, or NotLanded

parserVars == <<trace, tx>>

NotLanded == [landed |-> FALSE]

MaxIxKind == 18
KindUnparsed == 253
KindNoise == 254
KindNone == 255
CreateWalletIx == 0
ExecuteIx == 4
ExecuteDeferredIx == 7
AuthorizeIx == 6
FeeKinds == {CreateWalletIx, ExecuteIx, ExecuteDeferredIx}
SignerKinds == {1, 2, 3, ExecuteIx, 5, 9, 17}

ParserInit == trace = <<>> /\ tx = NotLanded

-----------------------------------------------------------------------------
(* The runtime.                                                             *)

\* The instruction a new one at height h is called by: the last one at h - 1.
CallerAt(h) ==
    IF h = 1 THEN 0 ELSE Max({0} \cup {i \in 1 .. Len(trace) : trace[i].height = h - 1})

\* The next instruction: a top-level one, or a call of one still running.
Invoke(ix, h) ==
    /\ ~tx.landed /\ Len(trace) < MaxIxs
    /\ h = 1 \/ (trace # <<>> /\ h <= trace[Len(trace)].height + 1)
    /\ ix.program = "secp256r1" => h = 1
    /\ h > 1 => trace[CallerAt(h)].ix.program \in Programs \cup {"other"}
    /\ trace' = Append(trace, [ix |-> ix, height |-> h, caller |-> CallerAt(h)])
    /\ UNCHANGED tx

TopOf(i) == Max({t \in 1 .. i : trace[t].height = 1})
Tops == {i \in 1 .. Len(trace) : trace[i].height = 1}

NoError == [at |-> 0, detail |-> "none"]
\* An error of the whole transaction, or of the last top-level instruction that
\* called anything or of a later one.
Errors ==
    {[at |-> 0, detail |-> d] : d \in {"limits", "other"}}
    \cup {[at |-> t, detail |-> d] :
            t \in {x \in Tops : \A y \in Tops : y > x => y = Len(trace) \/ y + 1 \in Tops},
            d \in Details}

Land(err, heights) ==
    /\ ~tx.landed /\ trace # <<>>
    /\ tx' = [landed |-> TRUE, err |-> err, heights |-> heights]
    /\ UNCHANGED trace

ParserNext ==
    \/ \E ix \in Instructions, h \in 1 .. MaxHeight : Invoke(ix, h)
    \/ \E heights \in BOOLEAN : Land(NoError, heights)
    \/ \E err \in Errors : Land(err, TRUE)

-----------------------------------------------------------------------------
(* parseTransaction, for program p.                                         *)

Succeeded == tx.err = NoError
Program(i) == trace[i].ix.program
Kind(i) == trace[i].ix.kind
IsReal(i, p) == Program(i) = p /\ Kind(i) <= MaxIxKind
Own(p) == {i \in 1 .. Len(trace) : Program(i) = p}

\* The inner instructions of the same top-level instruction behind i.
Following(i) == {j \in i + 1 .. Len(trace) : TopOf(j) = TopOf(i)}

\* A seeded fault: the list is read to its end.
ChildrenToTheEnd(i) ==
    {j \in Following(i) : ~tx.heights \/ trace[j].height = trace[i].height + 1}

\* directChildren: the flat list is read until it returns to the height of i.
\* Without recorded heights everything below belongs to the top level, and a
\* nested instruction has no children.
DirectChildren(i) ==
    IF tx.heights
    THEN {j \in Following(i) :
            /\ trace[j].height = trace[i].height + 1
            /\ \A k \in i + 1 .. j : trace[k].height > trace[i].height}
    ELSE IF trace[i].height = 1 THEN Following(i) ELSE {}

\* classifyFailure: LIMIT_ERRORS and the instruction's own codes.
OwnClass(i, detail) ==
    IF Kind(i) = KindNoise THEN "noise"
    ELSE CASE detail = "4018" -> "retired"
           [] detail \in {"3006", "AccountAlreadyInitialized"} -> "duplicate"
           [] detail = "ProgramFailedToComplete" -> "limits"
           [] detail = "below 3001" -> "cpi"
           [] OTHER -> "lazorkit"

FailClass(p) ==
    CASE Succeeded -> "none"
      [] ~Succeeded /\ tx.err.at = 0 -> tx.err.detail
      [] tx.err.at # 0 /\ Program(tx.err.at) # p -> "other_ix"
      [] OTHER -> OwnClass(tx.err.at, tx.err.detail)

\* extractFields: the first direct child that pays a shard of p.
FeeTransfer(i, p) ==
    IF Kind(i) \notin FeeKinds THEN {}
    ELSE LET paid == {j \in DirectChildren(i) : Program(j) = "system" /\ trace[j].ix.target = p}
         IN  IF paid = {} THEN {} ELSE {Min(paid)}

\* classifySigner: a passkey signature is checked by the precompile right
\* before a top-level instruction.
Signer(i) ==
    IF /\ trace[i].height = 1
       /\ \E t \in Tops : t < i /\ Program(t) = "secp256r1" /\ \A u \in Tops : u <= t \/ u >= i
    THEN "passkey" ELSE trace[i].ix.signer

Auth(i) ==
    CASE Kind(i) = CreateWalletIx -> trace[i].ix.signer
      [] Kind(i) = AuthorizeIx -> "passkey"
      [] Kind(i) = ExecuteDeferredIx -> "deferred"
      [] Kind(i) \in SignerKinds -> Signer(i)
      [] OTHER -> "none"

\* A real instruction of the cluster's other program is anywhere in it.
Shared(p) == \E i \in 1 .. Len(trace) : IsReal(i, Other[p])

InstructionFailed == ~Succeeded /\ tx.err.at # 0

RowOf(i, p, class) ==
    [kind |-> Kind(i), inner |-> trace[i].height > 1, ok |-> Succeeded, class |-> class,
     fee |-> IF Succeeded THEN Cardinality(FeeTransfer(i, p)) ELSE 0,
     auth |-> Auth(i), suffix |-> Kind(i) \in FeeKinds /\ trace[i].ix.suffix,
     shared |-> Shared(p), ixError |-> InstructionFailed, loader |-> FALSE, seq |-> i]

\* A transaction of the feed without an instruction of the program.
LoaderOps(p) == {i \in Tops : Program(i) = "loader" /\ trace[i].ix.target = p}
NoneRow(p) ==
    [kind |-> KindNone, inner |-> FALSE, ok |-> Succeeded,
     class |-> IF Succeeded THEN "none" ELSE "noise", fee |-> 0,
     auth |-> "none", suffix |-> FALSE,
     shared |-> Shared(p), ixError |-> InstructionFailed, loader |-> LoaderOps(p) # {}, seq |-> 0]

Rows(p) ==
    LET real == \E i \in Own(p) : IsReal(i, p)
        class == IF Succeeded \/ real THEN FailClass(p) ELSE "noise"
    IN  IF Own(p) = {} THEN {NoneRow(p)} ELSE {RowOf(i, p, class) : i \in Own(p)}

\* The catch clause, and lk_mark_attempt's row of a signature no endpoint
\* served: neither is shared, and a failed transaction's class is 'other'.
OneRow(kind) ==
    {[kind |-> kind, inner |-> FALSE, ok |-> Succeeded,
      class |-> IF Succeeded THEN "none" ELSE "other", fee |-> 0,
      auth |-> "none", suffix |-> FALSE,
      shared |-> FALSE, ixError |-> FALSE, loader |-> FALSE, seq |-> 0]}

-----------------------------------------------------------------------------

\* The calls an instruction really made.
Calls(i) == {j \in 1 .. Len(trace) : trace[j].caller = i}

\* parseTransaction and extractFields attribute a payment to a shard at most
\* once, to an instruction of the shard's own program, and with recorded
\* heights to the instruction that called for it, however the calls nest.
FeesCountedOnce ==
    \A p \in Programs : \A i \in Own(p) :
      /\ tx.heights => DirectChildren(i) = Calls(i)
      /\ \A q \in Programs : \A j \in Own(q) :
           i # j => FeeTransfer(i, p) \cap FeeTransfer(j, q) = {}
=============================================================================
