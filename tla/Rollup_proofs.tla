---------------------------- MODULE Rollup_proofs ----------------------------
(***************************************************************************)
(* Proofs about Parser and Rollup, for every set of instructions and every *)
(* size, depth and error of a transaction: however its calls nest, and      *)
(* whichever copies of it are missing, gaps or parse errors, no fee and no  *)
(* transaction is counted twice, and the dashboard's totals and the          *)
(* independent reference say the same.                                     *)
(***************************************************************************)
EXTENDS Rollup, FiniteSetTheorems, WellFoundedInduction, TLAPS

-----------------------------------------------------------------------------
(* Least and greatest elements                                             *)

LEMMA LeastExists ==
  ASSUME NEW S \in SUBSET Nat, S # {}
  PROVE  \E n \in S : \A m \in S : n <= m
  <1> DEFINE T == {1..n : n \in S}
  <1>1. PICK U \in T : \A V \in T : <<V, U>> \notin StrictSubsetOrdering(Nat)
    <2>1. T \subseteq FiniteSubsetsOf(Nat)
      <3>1. ASSUME NEW n \in S PROVE 1..n \in SUBSET Nat /\ IsFiniteSet(1..n)
        BY FS_Interval
      <3> QED
        BY <3>1 DEF FiniteSubsetsOf
    <2>2. T # {}
      OBVIOUS
    <2> HIDE DEF T
    <2> QED
      BY FS_StrictSubsetOrderingWellFounded, <2>1, <2>2, WFMin
  <1>2. PICK n \in S : U = 1..n
    OBVIOUS
  <1>3. ASSUME NEW m \in S, m < n PROVE FALSE
    <2>1. 1..m \subseteq U /\ n \in U /\ n \notin 1..m
      BY <1>2, <1>3
    <2>2. <<1..m, U>> \in StrictSubsetOrdering(Nat)
      BY <1>2, <2>1 DEF StrictSubsetOrdering
    <2> QED
      BY <1>1, <1>3, <2>2
  <1> QED
    BY <1>2, <1>3

LEMMA MinIsLeast ==
  ASSUME NEW S \in SUBSET Nat, S # {}
  PROVE  Min(S) \in S /\ \A m \in S : Min(S) <= m
  BY LeastExists DEF Min

LEMMA MaxIsGreatest ==
  ASSUME NEW S \in SUBSET Nat, S # {}, NEW bound \in Nat, \A s \in S : s <= bound
  PROVE  Max(S) \in S /\ \A m \in S : Max(S) >= m
  <1> DEFINE T == {bound - s : s \in S}
  <1>1. T \in SUBSET Nat /\ T # {}
    <2>1. \A s \in S : bound - s \in Nat
      OBVIOUS
    <2> QED
      BY <2>1
  <1>2. PICK t \in T : \A u \in T : t <= u
    BY <1>1, LeastExists
  <1>3. PICK n \in S : t = bound - n
    OBVIOUS
  <1>4. \A m \in S : n >= m
    BY <1>2, <1>3
  <1> QED
    BY <1>3, <1>4 DEF Max

-----------------------------------------------------------------------------
(* The trace                                                               *)

H(i) == trace[i].height

Step == [ix : Instructions, height : Nat \ {0}, caller : Nat]

(* the last instruction before j that runs one level above it, or 0 *)
CalledFrom(j, c) ==
    /\ c \in 0 .. j - 1
    /\ H(j) = 1 => c = 0
    /\ c # 0 => H(c) = H(j) - 1
    /\ H(j) # 1 => \A k \in c + 1 .. j - 1 : H(k) # H(j) - 1

(* Calls only nest one level at a time, and the caller is the last one above. *)
TraceInv ==
    /\ trace \in Seq(Step)
    /\ \A j \in 1 .. Len(trace) : H(j) = 1 \/ (j > 1 /\ H(j) <= H(j - 1) + 1)
    /\ \A j \in 1 .. Len(trace) : CalledFrom(j, trace[j].caller)

LEMMA TraceFacts ==
  ASSUME TraceInv
  PROVE  /\ Len(trace) \in Nat /\ DOMAIN trace = 1 .. Len(trace)
         /\ \A i \in 1 .. Len(trace) : trace[i] \in Step /\ H(i) \in Nat /\ H(i) >= 1
  <1>1. Len(trace) \in Nat /\ DOMAIN trace = 1 .. Len(trace)
    BY DEF TraceInv
  <1>2. \A i \in 1 .. Len(trace) : trace[i] \in Step
    BY DEF TraceInv
  <1> QED
    BY <1>1, <1>2 DEF Step, H

LEMMA InvokeKeepsTrace ==
  ASSUME TraceInv, NEW ix \in Instructions, NEW h \in 1 .. MaxHeight, Invoke(ix, h)
  PROVE  TraceInv'
  <1> DEFINE n == Len(trace)
             new == [ix |-> ix, height |-> h, caller |-> CallerAt(h)]
             S == {0} \cup {i \in 1 .. n : H(i) = h - 1}
  <1>1. h \in Nat \ {0}
    BY ParserAssumption
  <1>2. n \in Nat /\ \A i \in 1 .. n : trace[i] \in Step /\ H(i) \in Nat
    BY TraceFacts
  <1>3. CallerAt(h) \in 0 .. n
    <2>1. CASE h = 1
      BY <1>2, <2>1 DEF CallerAt
    <2>2. CASE h # 1
      <3>1. S \in SUBSET Nat /\ S # {} /\ \A s \in S : s <= n /\ s \in 0 .. n
        BY <1>2
      <3>2. CallerAt(h) = Max(S)
        BY <2>2 DEF CallerAt, H
      <3> HIDE DEF S
      <3> QED
        BY <3>1, <3>2, <1>2, MaxIsGreatest
    <2> QED
      BY <2>1, <2>2
  <1>4. h # 1 => /\ CallerAt(h) # 0 => H(CallerAt(h)) = h - 1
                 /\ \A k \in CallerAt(h) + 1 .. n : H(k) # h - 1
    <2> SUFFICES ASSUME h # 1
                 PROVE  /\ CallerAt(h) # 0 => H(CallerAt(h)) = h - 1
                        /\ \A k \in CallerAt(h) + 1 .. n : H(k) # h - 1
      OBVIOUS
    <2>1. S \in SUBSET Nat /\ S # {} /\ \A s \in S : s <= n
      BY <1>2
    <2>2. CallerAt(h) = Max(S)
      BY DEF CallerAt, H
    <2>3. CallerAt(h) \in S /\ \A m \in S : CallerAt(h) >= m
      <3> HIDE DEF S
      <3> QED
        BY <2>1, <2>2, <1>2, MaxIsGreatest
    <2>4. CallerAt(h) # 0 => H(CallerAt(h)) = h - 1
      BY <2>3
    <2>5. ASSUME NEW k \in CallerAt(h) + 1 .. n, H(k) = h - 1 PROVE FALSE
      <3>1. k \in S
        BY <2>5, <1>2, <1>3
      <3> HIDE DEF S
      <3> QED
        BY <3>1, <2>3, <2>5, <1>2, <1>3
    <2> QED
      BY <2>4, <2>5
  <1>5. new \in Step
    BY <1>1, <1>2, <1>3 DEF Step
  <1>6. trace' = Append(trace, new)
    BY DEF Invoke
  <1> HIDE DEF new
  <1>7. trace' \in Seq(Step) /\ Len(trace') = n + 1
    BY <1>5, <1>6 DEF TraceInv
  <1>8. \A i \in 1 .. n : trace'[i] = trace[i]
    BY <1>6 DEF TraceInv
  <1>9. trace'[n + 1] = new
    BY <1>6 DEF TraceInv
  <1>10. new.height = h /\ new.caller = CallerAt(h)
    BY DEF new
  <1> HIDE DEF n
  <1>11. h = 1 \/ (n + 1 > 1 /\ h <= H(n) + 1)
    <2>1. h = 1 \/ (trace # <<>> /\ h <= H(n) + 1)
      BY DEF Invoke, H, n
    <2>2. trace # <<>> => n > 0
      BY <1>2 DEF n, TraceInv
    <2> QED
      BY <2>1, <2>2, <1>2
  <1>12. \A j \in 1 .. n + 1 :
           trace'[j].height = 1 \/ (j > 1 /\ trace'[j].height <= trace'[j - 1].height + 1)
    <2>1. ASSUME NEW j \in 1 .. n
          PROVE  trace'[j].height = 1 \/ (j > 1 /\ trace'[j].height <= trace'[j - 1].height + 1)
      BY <1>2, <1>8 DEF TraceInv, H, n
    <2>2. trace'[n + 1].height = 1
          \/ (n + 1 > 1 /\ trace'[n + 1].height <= trace'[n + 1 - 1].height + 1)
      <3>1. CASE h = 1
        BY <3>1, <1>9, <1>10
      <3>2. CASE n + 1 > 1 /\ h <= H(n) + 1
        <4>1. n \in 1 .. n /\ n + 1 - 1 = n
          BY <3>2, <1>2
        <4>2. trace'[n + 1 - 1].height = H(n)
          BY <4>1, <1>8 DEF H
        <4> QED
          BY <3>2, <4>2, <1>9, <1>10
      <3> QED
        BY <1>11, <3>1, <3>2
    <2> QED
      BY <2>1, <2>2, <1>2
  <1>13. ASSUME NEW j \in 1 .. n + 1 PROVE CalledFrom(j, trace[j].caller)'
    <2>1. CASE j \in 1 .. n
      <3>1. CalledFrom(j, trace[j].caller)
        BY <2>1 DEF TraceInv, n
      <3>2. \A k \in 1 .. j : trace'[k] = trace[k]
        BY <2>1, <1>2, <1>8
      <3> QED
        BY <1>2, <2>1, <3>1, <3>2 DEF CalledFrom, H
    <2>2. CASE j = n + 1
      <3>1. PICK c \in 0 .. n : c = CallerAt(h)
        BY <1>3
      <3>2. trace'[j].height = h /\ trace'[j].caller = c
        BY <1>9, <1>10, <2>2, <3>1
      <3>3. j - 1 = n
        BY <1>2, <2>2
      <3>4. h = 1 => c = 0
        BY <3>1 DEF CallerAt
      <3>5. c # 0 => trace'[c].height = h - 1
        <4>1. h # 1 /\ c # 0 => trace[c].height = h - 1
          BY <1>4, <3>1 DEF H
        <4> QED
          BY <4>1, <3>4, <1>2, <1>8
      <3>6. h # 1 => \A k \in c + 1 .. n : trace'[k].height # h - 1
        <4>1. \A k \in c + 1 .. n : trace'[k] = trace[k]
          BY <1>2, <1>8
        <4> QED
          BY <4>1, <1>4, <3>1 DEF H
      <3> QED
        BY <3>2, <3>3, <3>4, <3>5, <3>6 DEF CalledFrom, H
    <2> QED
      BY <2>1, <2>2, <1>2
  <1> QED
    BY <1>7, <1>12, <1>13 DEF TraceInv, H

-----------------------------------------------------------------------------
(* The children                                                            *)

LEMMA TopOfFacts ==
  ASSUME TraceInv, NEW i \in 1 .. Len(trace)
  PROVE  /\ TopOf(i) \in 1 .. i /\ H(TopOf(i)) = 1
         /\ \A t \in TopOf(i) + 1 .. i : H(t) # 1
  <1> DEFINE S == {t \in 1 .. i : H(t) = 1}
             D == {j \in 1 .. Len(trace) : j <= i /\ H(j) = 1}
  <1>1. Len(trace) \in Nat /\ \A j \in 1 .. Len(trace) : H(j) \in Nat /\ H(j) >= 1
    BY TraceFacts
  <1>2. 1 \in S
    BY <1>1 DEF TraceInv
  <1>3. S \in SUBSET Nat /\ \A s \in S : s <= i
    OBVIOUS
  <1>4. TopOf(i) = Max(S)
    BY DEF TopOf, H
  <1>5. TopOf(i) \in S /\ \A m \in S : TopOf(i) >= m
    <2> HIDE DEF S
    <2> QED
      BY <1>2, <1>3, <1>4, MaxIsGreatest
  <1>6. ASSUME NEW t \in TopOf(i) + 1 .. i, H(t) = 1 PROVE FALSE
    <2>1. t \in S
      BY <1>5, <1>6
    <2> QED
      BY <2>1, <1>5, <1>6
  <1> QED
    BY <1>5, <1>6

LEMMA TopOfIs ==
  ASSUME TraceInv, NEW i \in 1 .. Len(trace), NEW t \in 1 .. i, H(t) = 1,
         \A k \in t + 1 .. i : H(k) # 1
  PROVE  TopOf(i) = t
  <1>1. TopOf(i) \in 1 .. i /\ H(TopOf(i)) = 1 /\ \A k \in TopOf(i) + 1 .. i : H(k) # 1
    BY TopOfFacts
  <1>2. ~(TopOf(i) < t) /\ ~(t < TopOf(i))
    BY <1>1
  <1> QED
    BY <1>1, <1>2

(* Two instructions share no child.                                         *)
LEMMA ChildrenAreDisjoint ==
  ASSUME TraceInv, NEW i \in 1 .. Len(trace), NEW j \in 1 .. Len(trace), i # j
  PROVE  DirectChildren(i) \cap DirectChildren(j) = {}
  <1>1. Len(trace) \in Nat /\ \A k \in 1 .. Len(trace) : H(k) \in Nat
    BY TraceFacts
  <1>2. ASSUME tx.heights, NEW a \in 1 .. Len(trace), NEW b \in 1 .. Len(trace), a < b,
               NEW k \in DirectChildren(a) \cap DirectChildren(b)
        PROVE  FALSE
    <2>1. k \in a + 1 .. Len(trace) /\ k \in b + 1 .. Len(trace)
      BY <1>2 DEF DirectChildren, Following
    <2>2. H(k) = H(a) + 1 /\ H(k) = H(b) + 1 /\ \A m \in a + 1 .. k : H(m) > H(a)
      BY <1>2 DEF DirectChildren, H
    <2>3. b \in a + 1 .. k
      BY <1>2, <2>1
    <2> QED
      BY <1>1, <2>2, <2>3
  <1>3. ASSUME ~tx.heights, NEW k \in DirectChildren(i) \cap DirectChildren(j) PROVE FALSE
    <2>1. ASSUME NEW a \in {i, j} PROVE H(a) = 1 /\ TopOf(k) = TopOf(a)
      <3>1. k \in DirectChildren(a)
        BY <1>3
      <3>2. DirectChildren(a) = IF H(a) = 1 THEN Following(a) ELSE {}
        BY <1>3 DEF DirectChildren, H
      <3>3. H(a) = 1 /\ k \in Following(a)
        BY <3>1, <3>2
      <3> QED
        BY <3>3 DEF Following
    <2>2. ASSUME NEW a \in {i, j} PROVE TopOf(a) = a
      <3>1. a \in 1 .. Len(trace) /\ a \in 1 .. a /\ H(a) = 1
        BY <1>1, <2>1
      <3>2. \A m \in a + 1 .. a : H(m) # 1
        BY <3>1
      <3> QED
        BY <3>1, <3>2, TopOfIs
    <2> QED
      BY <2>1, <2>2
  <1>4. i < j \/ j < i
    BY <1>1
  <1> QED
    BY <1>2, <1>3, <1>4

(* Between an instruction and its child, everything is below it.            *)
LEMMA BelowTheCaller ==
  ASSUME TraceInv, NEW j \in 1 .. Len(trace), NEW i \in 1 .. j - 1,
         trace[j].caller = i
  PROVE  H(j) = H(i) + 1 /\ \A k \in i + 1 .. j : H(k) > H(i)
  <1>1. Len(trace) \in Nat /\ \A k \in 1 .. Len(trace) : H(k) \in Nat /\ H(k) >= 1
    BY TraceFacts
  <1>2. CalledFrom(j, i)
    BY DEF TraceInv
  <1>3. i # 0 /\ H(i) = H(j) - 1 /\ H(j) # 1 /\ \A k \in i + 1 .. j - 1 : H(k) # H(j) - 1
    BY <1>2 DEF CalledFrom
  <1>4. H(j) = H(i) + 1
    BY <1>1, <1>3
  <1> DEFINE S == {k \in i + 1 .. j : ~(H(k) > H(i))}
  <1>5. ASSUME S # {} PROVE FALSE
    <2>1. S \in SUBSET Nat /\ j \in Nat /\ \A s \in S : s <= j
      BY <1>1
    <2>2. PICK m \in S : \A s \in S : m >= s
      <3> HIDE DEF S
      <3> QED
        BY <1>5, <2>1, MaxIsGreatest
    <2>3. m \in i + 1 .. j /\ H(m) <= H(i) /\ m # j
      BY <1>1, <1>4
    <2>4. m + 1 \in i + 1 .. j /\ m + 1 \in 1 .. Len(trace) /\ m + 1 - 1 = m
      BY <1>1, <2>3
    <2>5. H(m + 1) > H(i)
      BY <1>1, <2>2, <2>4
    <2>6. H(m + 1) <= H(m) + 1
      <3>1. H(m + 1) = 1 \/ H(m + 1) <= H(m + 1 - 1) + 1
        BY <2>4 DEF TraceInv
      <3>2. H(m + 1) # 1
        BY <1>1, <2>4, <2>5
      <3> QED
        BY <2>4, <3>1, <3>2
    <2>7. H(m) = H(i)
      BY <1>1, <2>3, <2>4, <2>5, <2>6
    <2>8. m \in i + 1 .. j - 1 /\ H(m) = H(j) - 1
      BY <1>1, <1>4, <2>3, <2>7
    <2> QED
      BY <1>3, <2>8
  <1> QED
    BY <1>1, <1>4, <1>5

(* With recorded heights, the flat list gives back the calls.               *)
LEMMA ChildrenAreCalls ==
  ASSUME TraceInv, tx.heights, NEW i \in 1 .. Len(trace)
  PROVE  DirectChildren(i) = Calls(i)
  <1>1. Len(trace) \in Nat /\ \A k \in 1 .. Len(trace) : H(k) \in Nat /\ H(k) >= 1
    BY TraceFacts
  <1>2. ASSUME NEW j \in Calls(i) PROVE j \in DirectChildren(i)
    <2>1. j \in 1 .. Len(trace) /\ trace[j].caller = i
      BY <1>2 DEF Calls
    <2>2. i \in 1 .. j - 1
      BY <1>1, <2>1 DEF TraceInv, CalledFrom
    <2>3. H(j) = H(i) + 1 /\ \A k \in i + 1 .. j : H(k) > H(i)
      BY <2>1, <2>2, BelowTheCaller
    <2>4. PICK t \in 1 .. i : t = TopOf(i) /\ H(t) = 1 /\ \A k \in t + 1 .. i : H(k) # 1
      BY TopOfFacts
    <2>5. \A k \in t + 1 .. j : H(k) # 1
      BY <1>1, <2>1, <2>3, <2>4
    <2>6. TopOf(j) = t
      BY <2>1, <2>2, <2>4, <2>5, TopOfIs
    <2>7. j \in i + 1 .. Len(trace)
      BY <1>1, <2>1, <2>2
    <2>8. j \in Following(i)
      BY <2>4, <2>6, <2>7 DEF Following
    <2> QED
      BY <2>3, <2>8 DEF DirectChildren, H
  <1>3. ASSUME NEW j \in DirectChildren(i) PROVE j \in Calls(i)
    <2>1. /\ j \in i + 1 .. Len(trace) /\ H(j) = H(i) + 1
          /\ \A k \in i + 1 .. j : H(k) > H(i)
      BY <1>3 DEF DirectChildren, Following, H
    <2>2. j \in 1 .. Len(trace)
      BY <1>1, <2>1
    <2>3. PICK c \in 0 .. j - 1 : c = trace[j].caller /\ CalledFrom(j, c)
      BY <2>2 DEF TraceInv, CalledFrom
    <2>4. H(j) # 1 /\ H(j) - 1 = H(i)
      BY <1>1, <2>1, <2>2
    <2>5. \A k \in c + 1 .. j - 1 : H(k) # H(i)
      BY <2>3, <2>4 DEF CalledFrom
    <2>6. ~(c < i)
      BY <1>1, <2>1, <2>3, <2>5
    <2>7. ~(c > i)
      <3> SUFFICES ASSUME c > i PROVE FALSE
        OBVIOUS
      <3>1. H(c) = H(i) /\ c \in i + 1 .. j
        BY <1>1, <2>1, <2>3, <2>4 DEF CalledFrom
      <3> QED
        BY <1>1, <2>1, <2>2, <3>1
    <2> QED
      BY <2>2, <2>3, <2>6, <2>7 DEF Calls
  <1> QED
    BY <1>2, <1>3

LEMMA FeeTransferIsChild ==
  ASSUME TraceInv, NEW p, NEW i \in 1 .. Len(trace)
  PROVE  FeeTransfer(i, p) \subseteq DirectChildren(i)
  <1> DEFINE paid == {j \in DirectChildren(i) : Program(j) = "system" /\ trace[j].ix.target = p}
  <1>1. Len(trace) \in Nat
    BY TraceFacts
  <1>2. DirectChildren(i) \subseteq Nat
    BY <1>1 DEF DirectChildren, Following
  <1>3. paid # {} => Min(paid) \in paid
    <2>1. paid \in SUBSET Nat
      BY <1>2
    <2> HIDE DEF paid
    <2> QED
      BY <2>1, MinIsLeast
  <1> QED
    BY <1>3 DEF FeeTransfer

LEMMA FeesOnce == TraceInv => FeesCountedOnce
  <1> SUFFICES ASSUME TraceInv, NEW p \in Programs, NEW i \in Own(p)
               PROVE  /\ tx.heights => DirectChildren(i) = Calls(i)
                      /\ \A q \in Programs : \A j \in Own(q) :
                           i # j => FeeTransfer(i, p) \cap FeeTransfer(j, q) = {}
    BY DEF FeesCountedOnce
  <1>1. i \in 1 .. Len(trace) /\ \A q : \A j \in Own(q) : j \in 1 .. Len(trace)
    BY DEF Own
  <1>2. tx.heights => DirectChildren(i) = Calls(i)
    BY <1>1, ChildrenAreCalls
  <1>3. ASSUME NEW q \in Programs, NEW j \in Own(q), i # j
        PROVE  FeeTransfer(i, p) \cap FeeTransfer(j, q) = {}
    <2>1. DirectChildren(i) \cap DirectChildren(j) = {}
      BY <1>1, <1>3, ChildrenAreDisjoint
    <2>2. FeeTransfer(i, p) \subseteq DirectChildren(i) /\ FeeTransfer(j, q) \subseteq DirectChildren(j)
      BY <1>1, FeeTransferIsChild
    <2> QED
      BY <2>1, <2>2
  <1> QED
    BY <1>2, <1>3

-----------------------------------------------------------------------------
(* The rows                                                                *)

(* An error is of the whole transaction or of one of its instructions.       *)
TxInv ==
    \/ tx = NotLanded
    \/ /\ tx.landed /\ tx.err.at \in Nat
       /\ tx.err = NoError \/ tx.err.at # 0 \/ tx.err.detail \in {"limits", "other"}

CopiesInv ==
    /\ copies \in [Programs -> CopyStates]
    /\ \A p \in Programs : copies[p] # "absent" => tx.landed /\ InFeed(p)

RollupInv == TraceInv /\ TxInv /\ CopiesInv

(* the program's copy is parsed, and it holds an instruction of the program *)
CopyIsReal(p) == copies[p] = "parsed" /\ p \in Active

LEMMA SuccessHasNoClass ==
  ASSUME TxInv, tx.landed, NEW p
  PROVE  FailClass(p) = "none" <=> Succeeded
  <1>1. ASSUME NEW i, NEW d PROVE OwnClass(i, d) # "none"
    BY DEF OwnClass
  <1>2. CASE Succeeded
    BY <1>2 DEF FailClass, Succeeded, NoError
  <1>3. CASE ~Succeeded /\ tx.err.at = 0
    <2>1. tx.err.detail \in {"limits", "other"}
      BY <1>3 DEF TxInv, Succeeded, NotLanded
    <2>2. FailClass(p) = tx.err.detail
      BY <1>3 DEF FailClass
    <2> QED
      BY <1>3, <2>1, <2>2
  <1>4. CASE ~Succeeded /\ tx.err.at # 0
    <2>1. FailClass(p) \in {"other_ix", OwnClass(tx.err.at, tx.err.detail)}
      BY <1>4 DEF FailClass
    <2> QED
      BY <1>1, <1>4, <2>1
  <1> QED
    BY <1>2, <1>3, <1>4

LEMMA ParsedFacts ==
  ASSUME TraceInv, TxInv, tx.landed, NEW p \in Programs
  PROVE  /\ Rows(p) # {}
         /\ (\E r \in Rows(p) : r.kind <= MaxIxKind) <=> p \in Active
         /\ \A r \in Rows(p) : r.kind # KindUnparsed /\ r.ok = Succeeded /\ r.seq \in Nat
         /\ \A r \in Rows(p) : r.class = "none" <=> Succeeded
         /\ \A r, s \in Rows(p) : r.class = s.class
         /\ \A r \in Rows(p) : r.shared = Shared(p) /\ r.ixError = InstructionFailed
         /\ p \in Active => \A r \in Rows(p) : r.class = FailClass(p)
  <1> DEFINE real == \E i \in Own(p) : IsReal(i, p)
             class == IF Succeeded \/ real THEN FailClass(p) ELSE "noise"
  <1>1. p \in Active <=> real
    BY DEF Active, IsReal, Own
  <1>2. class = "none" <=> Succeeded
    BY SuccessHasNoClass
  <1>3. Len(trace) \in Nat /\ Own(p) \subseteq 1 .. Len(trace)
    BY TraceFacts DEF Own
  <1>4. ASSUME NEW i \in 1 .. Len(trace) PROVE Kind(i) \in 0 .. 255 /\ Kind(i) # KindUnparsed
    <2>1. trace[i].ix \in Instructions
      BY TraceFacts DEF Step
    <2>2. trace[i].ix.kind \in 0 .. 18 \cup {254, 255}
      BY <2>1, ParserAssumption
    <2>3. PICK k \in 0 .. 18 \cup {254, 255} : k = Kind(i)
      BY <2>2 DEF Kind
    <2>4. k \in 0 .. 255 /\ k # 253
      OBVIOUS
    <2> QED
      BY <2>3, <2>4 DEF KindUnparsed
  <1>5. CASE Own(p) = {}
    <2>1. Rows(p) = {NoneRow(p)} /\ ~real
      BY <1>5 DEF Rows
    <2>2. /\ NoneRow(p).kind = 255 /\ NoneRow(p).ok = Succeeded /\ NoneRow(p).seq = 0
          /\ NoneRow(p).class = (IF Succeeded THEN "none" ELSE "noise")
          /\ NoneRow(p).shared = Shared(p) /\ NoneRow(p).ixError = InstructionFailed
      BY DEF NoneRow, KindNone
    <2> QED
      BY <1>1, <2>1, <2>2 DEF MaxIxKind, KindUnparsed
  <1>6. CASE Own(p) # {}
    <2> HIDE DEF real, class
    <2>1. Rows(p) = {RowOf(i, p, class) : i \in Own(p)}
      BY <1>6 DEF Rows, class, real
    <2>2. \A i : /\ RowOf(i, p, class).kind = Kind(i) /\ RowOf(i, p, class).ok = Succeeded
                 /\ RowOf(i, p, class).seq = i /\ RowOf(i, p, class).class = class
                 /\ RowOf(i, p, class).shared = Shared(p)
                 /\ RowOf(i, p, class).ixError = InstructionFailed
      BY DEF RowOf
    <2>3. (\E r \in Rows(p) : r.kind <= MaxIxKind) <=> \E i \in Own(p) : Kind(i) <= MaxIxKind
      BY <2>1, <2>2
    <2>4. (\E i \in Own(p) : Kind(i) <= MaxIxKind) <=> real
      BY DEF real, IsReal, Own
    <2>5. real => class = FailClass(p)
      BY DEF class
    <2> QED
      BY <1>1, <1>2, <1>3, <1>4, <1>6, <2>1, <2>2, <2>3, <2>4, <2>5
  <1> QED
    BY <1>5, <1>6

LEMMA CopyFacts ==
  ASSUME RollupInv, tx.landed, NEW p \in Programs
  PROVE  /\ Copy(p) # {} <=> copies[p] # "absent"
         /\ (\E r \in Copy(p) : r.kind <= MaxIxKind) <=> CopyIsReal(p)
         /\ (\E r \in Copy(p) : r.kind = KindUnparsed) <=> copies[p] = "gap"
         /\ \A r \in Copy(p) : r.ok = Succeeded /\ r.seq \in Nat
         /\ \A r \in Copy(p) : r.class = "none" <=> Succeeded
         /\ \A r, s \in Copy(p) : r.class = s.class
         /\ CopyIsReal(p) => \A r \in Copy(p) : /\ r.class = FailClass(p) /\ r.shared = Shared(p)
                                               /\ r.ixError = InstructionFailed
  <1> USE DEF MaxIxKind, KindUnparsed, KindNoise
  <1>1. copies[p] \in CopyStates
    BY DEF RollupInv, CopiesInv
  <1>2. CASE copies[p] = "absent"
    BY <1>2 DEF Copy, CopyIsReal
  <1>3. CASE copies[p] \in {"gap", "error"}
    <2>1. PICK k \in {253, 254} : Copy(p) = OneRow(k) /\ (k = 253 <=> copies[p] = "gap")
      BY <1>3 DEF Copy
    <2>2. \A r \in OneRow(k) : /\ r.kind = k /\ r.ok = Succeeded /\ r.seq = 0
                               /\ r.class = (IF Succeeded THEN "none" ELSE "other")
      BY DEF OneRow
    <2>3. OneRow(k) # {}
      <3>1. \A x : {x} # {}
        OBVIOUS
      <3> QED
        BY <3>1, Zenon DEF OneRow
    <2> QED
      BY <1>3, <2>1, <2>2, <2>3 DEF CopyIsReal
  <1>4. CASE copies[p] = "parsed"
    <2>1. Copy(p) = Rows(p)
      BY <1>4 DEF Copy
    <2> QED
      BY <1>4, <2>1, ParsedFacts DEF CopyIsReal, RollupInv
  <1> QED
    BY <1>1, <1>2, <1>3, <1>4 DEF CopyStates

-----------------------------------------------------------------------------
(* The totals and the reference                                            *)

LEMMA FirstRowIsRow ==
  ASSUME NEW rows, rows # {}, \A r \in rows : r.seq \in Nat
  PROVE  FirstRow(rows) \in rows
  <1> DEFINE S == {r.seq : r \in rows}
  <1>1. S \in SUBSET Nat /\ S # {}
    OBVIOUS
  <1>2. PICK n \in S : \A m \in S : n <= m
    BY <1>1, LeastExists
  <1>3. PICK r \in rows : \A s \in rows : r.seq <= s.seq
    BY <1>2
  <1> QED
    BY <1>3 DEF FirstRow

(* the class lk.rollup takes from rows that agree on it *)
LEMMA ClassOfRows ==
  ASSUME NEW rows, NEW r \in rows, r.class # "none", \A s \in rows : s.class = r.class
  PROVE  ClassOf(rows) = r.class
  <1>1. {s.class : s \in rows} \ {"none"} = {r.class}
    OBVIOUS
  <1> QED
    BY <1>1 DEF ClassOf

LEMMA ReferenceOfTransaction ==
  ASSUME RollupInv, tx.landed, NEW p \in Programs, Copy(p) # {},
         NEW metric \in DOMAIN ReferenceTx(Copy(p))
  PROVE  ReferenceTx(Copy(p))[metric] = TxMetrics(Copy(p))[metric]
  <1> DEFINE rows == Copy(p)
             first == FirstRow(rows)
             real == \E r \in rows : r.kind <= MaxIxKind
             unparsed == \E r \in rows : r.kind = KindUnparsed
             failed == \E r \in rows : ~r.ok
             shared == \E r \in rows : r.shared
             class == IF first.class = "none" THEN "other" ELSE first.class
             counted == real /\ ~first.ok
  <1>1. first \in rows
    BY FirstRowIsRow, CopyFacts
  <1>2. real => ~unparsed
    BY CopyFacts DEF CopyIsReal
  <1>3. failed <=> ~first.ok
    BY <1>1, CopyFacts
  <1>4. ~first.ok => class = ClassOf(rows) /\ class = first.class
    <2> SUFFICES ASSUME ~first.ok PROVE class = ClassOf(rows) /\ class = first.class
      OBVIOUS
    <2>1. first.class # "none" /\ \A s \in rows : s.class = first.class
      BY <1>1, CopyFacts
    <2> HIDE DEF rows, first
    <2> QED
      BY <1>1, <2>1, ClassOfRows DEF class
  <1>5. ReferenceTx(rows) =
          [sigs |-> 1, sigsFailed |-> One(~first.ok), txs |-> One(real), txsFailed |-> One(counted),
           noise |-> IF real \/ unparsed THEN 0 ELSE 1,
           unparsed |-> IF ~real /\ unparsed THEN 1 ELSE 0,
           retired |-> One(counted /\ first.class = "retired"),
           sharedTxs |-> One(real /\ shared),
           byFail |-> [c \in Classes |-> One(counted /\ class = c)]]
    BY DEF ReferenceTx
  <1>6. /\ TxMetrics(rows).sigs = One(rows # {}) /\ TxMetrics(rows).sigsFailed = One(failed)
        /\ TxMetrics(rows).txs = One(real) /\ TxMetrics(rows).txsFailed = One(real /\ failed)
        /\ TxMetrics(rows).noise = One(rows # {} /\ ~real /\ ~unparsed)
        /\ TxMetrics(rows).unparsed = One(unparsed)
        /\ TxMetrics(rows).retired = One(real /\ failed /\ ClassOf(rows) = "retired")
        /\ TxMetrics(rows).sharedTxs = One(real /\ shared)
        /\ TxMetrics(rows).byFail = [c \in Classes |-> One(real /\ failed /\ ClassOf(rows) = c)]
    BY DEF TxMetrics
  <1>7. metric \in {"sigs", "sigsFailed", "txs", "txsFailed", "noise", "unparsed", "retired",
                    "sharedTxs", "byFail"}
    <2> HIDE DEF first, real, unparsed, failed, shared, class, counted
    <2> QED
      BY <1>5
  <1>8. rows # {}
    OBVIOUS
  <1> HIDE DEF rows, first, real, unparsed, failed, shared, class
  <1>9. [c \in Classes |-> One(counted /\ class = c)]
          = [c \in Classes |-> One(real /\ failed /\ ClassOf(rows) = c)]
    BY <1>3, <1>4 DEF One
  <1>10. (IF real \/ unparsed THEN 0 ELSE 1) = One(rows # {} /\ ~real /\ ~unparsed)
    BY <1>8 DEF One
  <1>11. (IF ~real /\ unparsed THEN 1 ELSE 0) = One(unparsed)
    BY <1>2 DEF One
  <1>12. One(counted /\ first.class = "retired") = One(real /\ failed /\ ClassOf(rows) = "retired")
    BY <1>3, <1>4 DEF One
  <1>13. One(~first.ok) = One(failed) /\ One(counted) = One(real /\ failed) /\ One(rows # {}) = 1
    BY <1>3, <1>8 DEF One
  <1> QED
    BY <1>5, <1>6, <1>7, <1>9, <1>10, <1>11, <1>12, <1>13 DEF rows

(* The sums over a program's rows are over the same rows.                    *)
LEMMA ReferenceOfRows ==
  ASSUME NEW rows, \A r \in rows : r.ok \in BOOLEAN
  PROVE  ReferenceRows(rows) = RowMetrics(rows)
  <1> DEFINE ok == {r \in rows : r.ok}
             eligible == {r \in ok : r.kind \in FeeKinds}
             of(k) == {r \in rows : r.kind = k}
  <1>1. eligible = {r \in rows : r.ok /\ r.kind \in FeeKinds}
    OBVIOUS
  <1>2. {r \in ok : r.kind = CreateWalletIx} = {r \in rows : r.ok /\ r.kind = CreateWalletIx}
    OBVIOUS
  <1>3. {r \in ok : r.kind = CreateWalletIx /\ r.auth = "passkey"}
          = {r \in rows : r.ok /\ r.kind = CreateWalletIx /\ r.auth = "passkey"}
    OBVIOUS
  <1>4. {r \in ok : r.kind = ExecuteIx} = {r \in rows : r.ok /\ r.kind = ExecuteIx}
    OBVIOUS
  <1>5. {r \in eligible : r.fee > 0} = {r \in rows : (r.ok /\ r.kind \in FeeKinds) /\ r.fee > 0}
    OBVIOUS
  <1>6. {r \in eligible : r.suffix} = {r \in rows : (r.ok /\ r.kind \in FeeKinds) /\ r.suffix}
    OBVIOUS
  <1>7. \A k : of(k) \cap ok = {r \in rows : r.kind = k /\ r.ok}
               /\ of(k) \ ok = {r \in rows : r.kind = k /\ ~r.ok}
    OBVIOUS
  <1>8. \A a : {r \in ok : r.kind \in {ExecuteIx, ExecuteDeferredIx} /\ AuthName(r) = a}
               = {r \in rows : r.ok /\ r.kind \in {ExecuteIx, ExecuteDeferredIx} /\ AuthName(r) = a}
    OBVIOUS
  <1>9. [k \in 0 .. MaxIxKind |-> <<Cardinality(of(k) \cap ok), Cardinality(of(k) \ ok)>>]
          = [k \in 0 .. MaxIxKind |->
               <<Cardinality({r \in rows : r.kind = k /\ r.ok}),
                 Cardinality({r \in rows : r.kind = k /\ ~r.ok})>>]
    BY <1>7
  <1>10. [a \in Auths |->
            Cardinality({r \in ok : r.kind \in {ExecuteIx, ExecuteDeferredIx} /\ AuthName(r) = a})]
          = [a \in Auths |->
               Cardinality({r \in rows : r.ok /\ r.kind \in {ExecuteIx, ExecuteDeferredIx}
                                         /\ AuthName(r) = a})]
    BY <1>8
  <1> QED
    BY <1>1, <1>2, <1>3, <1>4, <1>5, <1>6, <1>9, <1>10, Zenon
    DEF ReferenceRows, RowMetrics, Number

LEMMA RowsAgree == RollupInv /\ tx.landed => ReferenceAgrees
  <1> SUFFICES ASSUME RollupInv, tx.landed, NEW p \in Programs, Copy(p) # {}
               PROVE  /\ ReferenceRows(Copy(p)) = RowMetrics(Copy(p))
                      /\ \A metric \in DOMAIN ReferenceTx(Copy(p)) :
                           ReferenceTx(Copy(p))[metric] = TxMetrics(Copy(p))[metric]
    BY DEF ReferenceAgrees
  <1>1. \A r \in Copy(p) : r.ok \in BOOLEAN
    BY CopyFacts DEF Succeeded
  <1>2. ReferenceRows(Copy(p)) = RowMetrics(Copy(p))
    BY <1>1, ReferenceOfRows
  <1> QED
    BY <1>2, ReferenceOfTransaction

(* what a copy adds to the totals *)
LEMMA MetricsOfCopy ==
  ASSUME RollupInv, tx.landed, NEW p \in Programs
  PROVE  LET m == TxMetrics(Copy(p))
             real == CopyIsReal(p)
             dropped == IF InstructionFailed THEN "other_ix" ELSE FailClass(p)
         IN  /\ m.txs = One(real) /\ m.txsFailed = One(real /\ ~Succeeded)
             /\ m.sharedTxs = One(real /\ Shared(p))
             /\ m.sharedFailed = One(real /\ Shared(p) /\ ~Succeeded)
             /\ \A c \in Classes :
                  /\ m.byFail[c] = One(real /\ ~Succeeded /\ FailClass(p) = c)
                  /\ m.sharedByFail[c] =
                       One(real /\ Shared(p) /\ ~Succeeded /\ dropped = c)
  <1> DEFINE rows == Copy(p)
             m == TxMetrics(rows)
             real == \E r \in rows : r.kind <= MaxIxKind
             failed == \E r \in rows : ~r.ok
             shared == \E r \in rows : r.shared
             of == IF \E r \in rows : r.ixError THEN "other_ix" ELSE ClassOf(rows)
             dropped == IF InstructionFailed THEN "other_ix" ELSE FailClass(p)
  <1>1. /\ m.txs = One(real) /\ m.txsFailed = One(real /\ failed)
        /\ m.sharedTxs = One(real /\ shared) /\ m.sharedFailed = One(real /\ shared /\ failed)
        /\ m.byFail = [c \in Classes |-> One(real /\ failed /\ ClassOf(rows) = c)]
        /\ m.sharedByFail = [c \in Classes |-> One(real /\ shared /\ failed /\ of = c)]
    BY DEF TxMetrics
  <1>2. real <=> CopyIsReal(p)
    BY CopyFacts
  <1>3. CopyIsReal(p) => /\ failed <=> ~Succeeded
                         /\ shared <=> Shared(p)
                         /\ ~Succeeded => ClassOf(rows) = FailClass(p) /\ of = dropped
    <2> SUFFICES ASSUME CopyIsReal(p)
                 PROVE  /\ failed <=> ~Succeeded
                        /\ shared <=> Shared(p)
                        /\ ~Succeeded => ClassOf(rows) = FailClass(p) /\ of = dropped
      OBVIOUS
    <2>1. PICK r \in rows : r.kind <= MaxIxKind
      BY CopyFacts
    <2>2. \A s \in rows : /\ s.ok = Succeeded /\ s.shared = Shared(p) /\ s.ixError = InstructionFailed
                          /\ s.class = FailClass(p)
      BY CopyFacts
    <2>3. ~Succeeded => r.class # "none"
      BY <2>1, CopyFacts
    <2> HIDE DEF rows
    <2>4. ~Succeeded => ClassOf(rows) = FailClass(p)
      BY <2>1, <2>2, <2>3, ClassOfRows
    <2> QED
      BY <2>1, <2>2, <2>4
  <1> HIDE DEF m, real, failed, shared, of, dropped
  <1>4. m.txs = One(CopyIsReal(p)) /\ m.txsFailed = One(CopyIsReal(p) /\ ~Succeeded)
    BY <1>1, <1>2, <1>3 DEF One
  <1>5. /\ m.sharedTxs = One(CopyIsReal(p) /\ Shared(p))
        /\ m.sharedFailed = One(CopyIsReal(p) /\ Shared(p) /\ ~Succeeded)
    BY <1>1, <1>2, <1>3 DEF One
  <1>6. ASSUME NEW c \in Classes
        PROVE  m.byFail[c] = One(CopyIsReal(p) /\ ~Succeeded /\ FailClass(p) = c)
    BY <1>1, <1>2, <1>3 DEF One
  <1>7. ASSUME NEW c \in Classes
        PROVE  m.sharedByFail[c] = One(CopyIsReal(p) /\ Shared(p) /\ ~Succeeded /\ dropped = c)
    BY <1>1, <1>2, <1>3 DEF One
  <1> QED
    BY <1>4, <1>5, <1>6, <1>7 DEF m, dropped

LEMMA SharedIsTheOther ==
  /\ Shared("v2") <=> "v1" \in Active
  /\ Shared("v1") <=> "v2" \in Active
  BY DEF Shared, Active, Other, Programs

LEMMA RealWhenParsed ==
  ASSUME RollupInv, AllParsed, NEW p \in Programs
  PROVE  CopyIsReal(p) <=> p \in Active
  <1>1. p \in Active => InFeed(p)
    BY DEF Active, IsReal, InFeed, Own
  <1> QED
    BY <1>1 DEF AllParsed, CopyIsReal

(* The class a failed transaction is blamed on.                             *)
LEMMA BlamedClass ==
  ASSUME TxInv, tx.landed, ~Succeeded, Active # {}
  PROVE  /\ tx.err.at = 0 => Blamed = tx.err.detail
         /\ tx.err.at # 0 =>
              Blamed = IF Program(tx.err.at) \in Active
                       THEN OwnClass(tx.err.at, tx.err.detail) ELSE "other_ix"
         /\ \A p : FailClass(p) = IF tx.err.at = 0 THEN tx.err.detail
                                  ELSE IF Program(tx.err.at) # p THEN "other_ix"
                                  ELSE OwnClass(tx.err.at, tx.err.detail)
  <1> DEFINE own == {p \in Active : tx.err.at # 0 /\ Program(tx.err.at) = p}
             chosen == CHOOSE p \in (IF own = {} THEN Active ELSE own) : TRUE
  <1>1. \A p : FailClass(p) = IF tx.err.at = 0 THEN tx.err.detail
                              ELSE IF Program(tx.err.at) # p THEN "other_ix"
                              ELSE OwnClass(tx.err.at, tx.err.detail)
    BY DEF FailClass
  <1>2. chosen \in (IF own = {} THEN Active ELSE own)
    OBVIOUS
  <1>3. Blamed = FailClass(chosen)
    BY DEF Blamed
  <1>4. CASE tx.err.at = 0
    BY <1>1, <1>3, <1>4
  <1>5. CASE tx.err.at # 0 /\ Program(tx.err.at) \in Active
    <2>1. Program(tx.err.at) \in own
      BY <1>5
    <2>2. chosen = Program(tx.err.at)
      BY <1>2, <2>1
    <2> HIDE DEF chosen
    <2> QED
      BY <1>1, <1>3, <1>5, <2>2
  <1>6. CASE tx.err.at # 0 /\ Program(tx.err.at) \notin Active
    <2>1. own = {}
      BY <1>6
    <2>2. chosen # Program(tx.err.at)
      BY <1>2, <1>6, <2>1
    <2> HIDE DEF chosen
    <2> QED
      BY <1>1, <1>3, <1>6, <2>2
  <1> QED
    BY <1>1, <1>4, <1>5, <1>6

LEMMA ClusterOnce == RollupInv /\ tx.landed => ClusterCountsOnce
  <1> SUFFICES ASSUME RollupInv, tx.landed PROVE ClusterCountsOnce
    OBVIOUS
  <1> DEFINE v1 == TxMetrics(Copy("v1"))
             v2 == TxMetrics(Copy("v2"))
             r1 == CopyIsReal("v1")
             r2 == CopyIsReal("v2")
             s2 == Shared("v2")
             F == ~Succeeded
             dropped == IF InstructionFailed THEN "other_ix" ELSE FailClass("v2")
  <1>1. /\ ClusterMetrics.txs = v1.txs + v2.txs - v2.sharedTxs
        /\ ClusterMetrics.txsFailed = v1.txsFailed + v2.txsFailed - v2.sharedFailed
        /\ \A c \in Classes :
             ClusterMetrics.byFail[c] = v1.byFail[c] + v2.byFail[c] - v2.sharedByFail[c]
    BY DEF ClusterMetrics
  <1>2. /\ v1.txs = One(r1) /\ v1.txsFailed = One(r1 /\ F)
        /\ \A c \in Classes : v1.byFail[c] = One(r1 /\ F /\ FailClass("v1") = c)
    BY MetricsOfCopy DEF Programs
  <1>3. /\ v2.txs = One(r2) /\ v2.txsFailed = One(r2 /\ F)
        /\ v2.sharedTxs = One(r2 /\ s2) /\ v2.sharedFailed = One(r2 /\ s2 /\ F)
        /\ \A c \in Classes : /\ v2.byFail[c] = One(r2 /\ F /\ FailClass("v2") = c)
                              /\ v2.sharedByFail[c] = One(r2 /\ s2 /\ F /\ dropped = c)
    BY MetricsOfCopy DEF Programs
  <1>4. r1 => s2
    BY SharedIsTheOther DEF CopyIsReal
  <1>5. AllParsed => (r1 <=> "v1" \in Active) /\ (r2 <=> "v2" \in Active) /\ (s2 <=> "v1" \in Active)
    BY RealWhenParsed, SharedIsTheOther DEF Programs
  <1>6. Active # {} <=> "v1" \in Active \/ "v2" \in Active
    BY DEF Active, Programs
  <1> HIDE DEF v1, v2, r1, r2, s2, dropped
  <1>7. ClusterMetrics.txs = One(r1) + One(r2) - One(r2 /\ s2)
    BY <1>1, <1>2, <1>3
  <1>8. ClusterMetrics.txsFailed = One(r1 /\ F) + One(r2 /\ F) - One(r2 /\ s2 /\ F)
    BY <1>1, <1>2, <1>3
  <1>9. ClusterMetrics.txs <= 1 /\ ClusterMetrics.txsFailed <= 1
    BY <1>4, <1>7, <1>8 DEF One
  <1>10. AllParsed => /\ ClusterMetrics.txs = One(Active # {})
                      /\ ClusterMetrics.txsFailed = One(Active # {} /\ F)
    BY <1>5, <1>6, <1>7, <1>8 DEF One
  <1>11. ASSUME AllParsed, NEW c \in Classes
         PROVE  ClusterMetrics.byFail[c] = One(Active # {} /\ F /\ c = Blamed)
    <2>1. ClusterMetrics.byFail[c] =
            One(r1 /\ F /\ FailClass("v1") = c) + One(r2 /\ F /\ FailClass("v2") = c)
            - One(r2 /\ s2 /\ F /\ dropped = c)
      BY <1>1, <1>2, <1>3
    <2>2. CASE ~F \/ Active = {}
      BY <1>5, <1>6, <1>11, <2>1, <2>2 DEF One
    <2>3. CASE F /\ Active # {}
      <3>1. TxInv
        BY DEF RollupInv
      <3>2. tx.err.at = 0 => /\ FailClass("v1") = Blamed /\ FailClass("v2") = Blamed
                             /\ dropped = FailClass("v2")
        BY <2>3, <3>1, BlamedClass DEF dropped, InstructionFailed
      <3>3. tx.err.at # 0 => dropped = "other_ix"
        BY <2>3 DEF dropped, InstructionFailed
      <3>4. CASE tx.err.at = 0
        BY <1>5, <1>6, <1>11, <2>1, <2>3, <3>2, <3>4 DEF One
      <3>5. CASE tx.err.at # 0
        <4> DEFINE at == Program(tx.err.at)
        <4>1. /\ FailClass("v1") = IF at # "v1" THEN "other_ix" ELSE OwnClass(tx.err.at, tx.err.detail)
              /\ FailClass("v2") = IF at # "v2" THEN "other_ix" ELSE OwnClass(tx.err.at, tx.err.detail)
              /\ Blamed = IF at \in Active THEN OwnClass(tx.err.at, tx.err.detail) ELSE "other_ix"
          BY <2>3, <3>1, <3>5, BlamedClass
        <4>2. at \in Active <=> (at = "v1" /\ "v1" \in Active) \/ (at = "v2" /\ "v2" \in Active)
          BY DEF Active, Programs
        <4> HIDE DEF at
        <4> QED
          BY <1>5, <1>6, <1>11, <2>1, <2>3, <3>3, <3>5, <4>1, <4>2 DEF One
      <3> QED
        BY <3>4, <3>5
    <2> QED
      BY <2>2, <2>3
  <1> QED
    BY <1>9, <1>10, <1>11 DEF ClusterCountsOnce

-----------------------------------------------------------------------------
(* The invariant                                                           *)

LEMMA RollupInitInv == RollupInit => RollupInv
  <1> SUFFICES ASSUME RollupInit PROVE RollupInv
    OBVIOUS
  <1>1. TraceInv
    BY DEF RollupInit, ParserInit, TraceInv
  <1>2. TxInv /\ CopiesInv
    BY DEF RollupInit, ParserInit, TxInv, CopiesInv, NoCopies, CopyStates
  <1> QED
    BY <1>1, <1>2 DEF RollupInv

LEMMA LandKeeps ==
  ASSUME RollupInv, NEW err, NEW heights \in BOOLEAN, Land(err, heights),
         err \in Errors \cup {NoError}, UNCHANGED copies
  PROVE  RollupInv'
  <1>1. err.at \in Nat /\ (err = NoError \/ err.at # 0 \/ err.detail \in {"limits", "other"})
    <2>1. Len(trace) \in Nat
      BY TraceFacts DEF RollupInv
    <2>2. CASE err = NoError
      BY <2>2 DEF NoError
    <2>3. CASE err \in {[at |-> 0, detail |-> d] : d \in {"limits", "other"}}
      BY <2>3
    <2>4. CASE err \in Errors \ {[at |-> 0, detail |-> d] : d \in {"limits", "other"}}
      <3>1. PICK t \in Tops, d \in Details : err = [at |-> t, detail |-> d]
        BY <2>4 DEF Errors
      <3>2. t \in Nat /\ t # 0
        BY <2>1 DEF Tops
      <3> QED
        BY <3>1, <3>2
    <2> QED
      BY <2>2, <2>3, <2>4
  <1>2. tx' = [landed |-> TRUE, err |-> err, heights |-> heights] /\ trace' = trace /\ copies' = copies
    BY DEF Land
  <1>3. TxInv'
    BY <1>1, <1>2 DEF TxInv
  <1>4. TraceInv' /\ CopiesInv'
    BY <1>2 DEF RollupInv, TraceInv, CopiesInv, H, CalledFrom, InFeed, Own, Program
  <1> QED
    BY <1>3, <1>4 DEF RollupInv

LEMMA RollupNextKeeps == RollupInv /\ [RollupNext]_rollupVars => RollupInv'
  <1> SUFFICES ASSUME RollupInv, [RollupNext]_rollupVars PROVE RollupInv'
    OBVIOUS
  <1>1. ASSUME NEW ix \in Instructions, NEW h \in 1 .. MaxHeight, Invoke(ix, h), UNCHANGED copies
        PROVE  RollupInv'
    <2>1. TraceInv'
      BY <1>1, InvokeKeepsTrace DEF RollupInv
    <2>2. tx' = tx /\ copies' = copies /\ ~tx.landed
      BY <1>1 DEF Invoke
    <2>3. TxInv' /\ CopiesInv'
      BY <2>2 DEF RollupInv, TxInv, CopiesInv
    <2> QED
      BY <2>1, <2>3 DEF RollupInv
  <1>2. ASSUME NEW heights \in BOOLEAN, NEW err \in Errors \cup {NoError}, Land(err, heights),
               UNCHANGED copies
        PROVE  RollupInv'
    BY <1>2, LandKeeps
  <1>3. ASSUME NEW p \in Programs, NEW how \in CopyStates \ {"absent"}, IngestCopy(p, how)
        PROVE  RollupInv'
    <2>1. trace' = trace /\ tx' = tx /\ tx.landed /\ InFeed(p) /\ copies' = [copies EXCEPT ![p] = how]
      BY <1>3 DEF IngestCopy, parserVars
    <2>2. TraceInv' /\ TxInv'
      BY <2>1 DEF RollupInv, TraceInv, TxInv, H, CalledFrom
    <2>3. \A q : InFeed(q)' <=> InFeed(q)
      BY <2>1 DEF InFeed, Own, Program
    <2>4. CopiesInv'
      BY <2>1, <2>3 DEF RollupInv, CopiesInv
    <2> QED
      BY <2>2, <2>4 DEF RollupInv
  <1>4. CASE UNCHANGED rollupVars
    BY <1>4 DEF rollupVars, parserVars, RollupInv, TraceInv, TxInv, CopiesInv, H, CalledFrom, InFeed,
                Own, Program
  <1> QED
    BY <1>1, <1>2, <1>3, <1>4 DEF RollupNext, ParserNext

(* From the runtime's calls to the dashboard's totals: a payment belongs to   *)
(* one instruction, the SQL and the reference say the same of every copy, and *)
(* the cluster counts a shared transaction once, under the class of the       *)
(* program whose instruction failed (parse/transaction.ts, lk.rollup,         *)
(* lk.cluster_metrics, verify/referenceRollup.ts).                           *)
THEOREM NothingIsCountedTwice == RollupSpec => []CountedOnce
  <1>1. RollupInv => CountedOnce
    BY FeesOnce, RowsAgree, ClusterOnce DEF CountedOnce, RollupInv
  <1> QED
    BY <1>1, RollupInitInv, RollupNextKeeps, PTL DEF RollupSpec
=============================================================================
