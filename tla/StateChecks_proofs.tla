-------------------------- MODULE StateChecks_proofs --------------------------
(***************************************************************************)
(* Proofs about the comparison of history with state, for any number of    *)
(* transactions and of runs: the totals of the accounts at a slot are the  *)
(* sums of what landed up to it, and a discovery younger than a snapshot   *)
(* has collected all of that unless its listing trailed the snapshot; so a *)
(* check that reports is right but for that.                               *)
(***************************************************************************)
EXTENDS StateChecks, FiniteSetTheorems, TLAPS

-----------------------------------------------------------------------------
(* Sums and counts                                                         *)

UnitsOf(f) == UNION {{x} \X (1 .. f[x]) : x \in DOMAIN f}

LEMMA UnitsAreFinite ==
  ASSUME NEW S, IsFiniteSet(S), NEW f \in [S -> Nat]
  PROVE  IsFiniteSet(UnitsOf(f)) /\ Total(f) \in Nat
  <1> DEFINE F == [x \in S |-> {x} \X (1 .. f[x])]
             T == {{x} \X (1 .. f[x]) : x \in S}
  <1>1. F \in Surjection(S, T)
    BY DEF Surjection
  <1>2. IsFiniteSet(T)
    BY <1>1, FS_Surjection
  <1>3. ASSUME NEW x \in S PROVE IsFiniteSet({x} \X (1 .. f[x]))
    <2>1. PICK n \in Nat : n = f[x]
      OBVIOUS
    <2>2. IsFiniteSet(1 .. n)
      BY FS_Interval
    <2>3. IsFiniteSet({x})
      BY FS_Singleton
    <2> QED
      BY <2>1, <2>2, <2>3, FS_Product
  <1>4. \A U \in T : IsFiniteSet(U)
    BY <1>3
  <1>5. UnitsOf(f) = UNION T
    BY DEF UnitsOf
  <1> HIDE DEF T
  <1>6. IsFiniteSet(UnitsOf(f))
    BY <1>2, <1>4, <1>5, FS_UNION
  <1>7. Total(f) = Cardinality(UnitsOf(f))
    BY DEF Total, UnitsOf
  <1> QED
    BY <1>6, <1>7, FS_CardinalityType

LEMMA TotalOfNone == ASSUME NEW f \in [{} -> Nat] PROVE Total(f) = 0
  <1>1. UnitsOf(f) = {}
    BY DEF UnitsOf
  <1> QED
    BY <1>1, FS_EmptySet DEF Total, UnitsOf

\* g is f with one argument more.
OneMore(S, x, f, g) ==
    /\ IsFiniteSet(S) /\ x \notin S
    /\ f \in [S -> Nat] /\ g \in [S \cup {x} -> Nat]
    /\ \A y \in S : g[y] = f[y]

LEMMA TotalAdds ==
  ASSUME NEW S, NEW x, NEW f, NEW g, OneMore(S, x, f, g)
  PROVE  Total(g) = Total(f) + g[x]
  <1> USE DEF OneMore
  <1> DEFINE own == {x} \X (1 .. g[x])
  <1>1. UnitsOf(g) = UnitsOf(f) \cup own
    BY DEF UnitsOf
  <1>2. UnitsOf(f) \cap own = {}
    BY DEF UnitsOf
  <1>3. g[x] \in Nat
    OBVIOUS
  <1>4. IsFiniteSet(own) /\ Cardinality(own) = g[x]
    <2>1. IsFiniteSet({x}) /\ Cardinality({x}) = 1
      BY FS_Singleton
    <2>2. IsFiniteSet(1 .. g[x]) /\ Cardinality(1 .. g[x]) = g[x]
      <3>1. PICK n \in Nat : n = g[x]
        BY <1>3
      <3>2. IsFiniteSet(1 .. n)
        BY FS_Interval
      <3>3. Cardinality(1 .. n) = IF 1 > n THEN 0 ELSE n - 1 + 1
        BY FS_Interval
      <3>4. Cardinality(1 .. n) = n
        BY <3>3
      <3> QED
        BY <3>1, <3>2, <3>4
    <2>3. IsFiniteSet(own) /\ Cardinality(own) = Cardinality({x}) * Cardinality(1 .. g[x])
      BY <2>1, <2>2, FS_Product
    <2> QED
      BY <1>3, <2>1, <2>2, <2>3
  <1>5. IsFiniteSet(UnitsOf(f))
    BY UnitsAreFinite
  <1> HIDE DEF own
  <1>6. Cardinality(UnitsOf(f) \cap own) = 0
    BY <1>2, FS_EmptySet
  <1>7. Cardinality(UnitsOf(f) \cup own) =
          Cardinality(UnitsOf(f)) + Cardinality(own) - Cardinality(UnitsOf(f) \cap own)
    BY <1>4, <1>5, FS_Union
  <1>8. Cardinality(UnitsOf(f)) \in Nat
    BY <1>5, FS_CardinalityType
  <1>9. Total(g) = Cardinality(UnitsOf(g)) /\ Total(f) = Cardinality(UnitsOf(f))
    BY DEF Total, UnitsOf
  <1> QED
    BY <1>1, <1>3, <1>4, <1>6, <1>7, <1>8, <1>9

\* One element more, and one element less.
LEMMA CountAdds ==
  ASSUME NEW S, IsFiniteSet(S), NEW x, x \notin S
  PROVE  Cardinality(S \cup {x}) = Cardinality(S) + 1
  BY FS_AddElement

-----------------------------------------------------------------------------
(* The program's accounts                                                  *)

Tags == {"wallet", "authority", "session", "deferred", "shard", "feeRecord"}
TaggedIn(set, tag) == {a \in set : a.tag = tag}
HowMany(set, tag) == Cardinality(TaggedIn(set, tag))
LamportsIn(set, tag) == Total([a \in TaggedIn(set, tag) |-> a.lamports])

\* Addresses are slots that passed; there is one shard and one fee record.
AccountsOf(n) == [tag : Tags, address : 0 .. n, lamports : Nat]
Unique(set) == \A a, b \in set : a.tag = b.tag /\ a.tag \in {"shard", "feeRecord"} => a = b
AccountsInv(set, n) ==
    /\ IsFiniteSet(set) /\ set \subseteq AccountsOf(n)
    /\ Unique(set)
    /\ \A a \in set : a.tag = "shard" => a.lamports > 0

Only(condition, amount) == IF condition THEN amount ELSE 0

LEMMA DecodeCounts ==
  ASSUME NEW set
  PROVE  /\ Decode(set).wallets = HowMany(set, "wallet")
         /\ Decode(set).authorities = HowMany(set, "authority")
         /\ Decode(set).sessions = HowMany(set, "session")
         /\ Decode(set).deferred = HowMany(set, "deferred")
         /\ Decode(set).shardLamports = LamportsIn(set, "shard")
         /\ Decode(set).feesPaid = LamportsIn(set, "feeRecord")
  BY DEF Decode, HowMany, LamportsIn, TaggedIn

LEMMA CountsAreNat ==
  ASSUME NEW set, IsFiniteSet(set), NEW tag, \A a \in set : a.lamports \in Nat
  PROVE  /\ IsFiniteSet(TaggedIn(set, tag))
         /\ HowMany(set, tag) \in Nat /\ LamportsIn(set, tag) \in Nat
  <1>1. TaggedIn(set, tag) \subseteq set
    BY DEF TaggedIn
  <1>2. IsFiniteSet(TaggedIn(set, tag))
    BY <1>1, FS_Subset
  <1>3. HowMany(set, tag) \in Nat
    BY <1>2, FS_CardinalityType DEF HowMany
  <1>4. [a \in TaggedIn(set, tag) |-> a.lamports] \in [TaggedIn(set, tag) -> Nat]
    BY <1>1
  <1> QED
    BY <1>2, <1>3, <1>4, UnitsAreFinite DEF LamportsIn

LEMMA AccountAdds ==
  ASSUME NEW set, IsFiniteSet(set), NEW new, new \notin set, NEW tag,
         \A a \in set \cup {new} : a.lamports \in Nat
  PROVE  /\ HowMany(set \cup {new}, tag) = HowMany(set, tag) + Only(new.tag = tag, 1)
         /\ LamportsIn(set \cup {new}, tag) =
              LamportsIn(set, tag) + Only(new.tag = tag, new.lamports)
  <1> DEFINE old == TaggedIn(set, tag)
             all == TaggedIn(set \cup {new}, tag)
             f == [a \in old |-> a.lamports]
             g == [a \in all |-> a.lamports]
  <1>1. IsFiniteSet(old) /\ HowMany(set, tag) \in Nat /\ LamportsIn(set, tag) \in Nat
    BY CountsAreNat
  <1>2. new.lamports \in Nat /\ new \notin old
    BY DEF TaggedIn
  <1>3. CASE new.tag # tag
    <2>1. all = old
      BY <1>3 DEF TaggedIn
    <2>2. HowMany(set \cup {new}, tag) = HowMany(set, tag)
      BY <2>1 DEF HowMany
    <2>3. LamportsIn(set \cup {new}, tag) = LamportsIn(set, tag)
      BY <2>1 DEF LamportsIn
    <2> QED
      BY <1>1, <1>3, <2>2, <2>3 DEF Only
  <1>4. CASE new.tag = tag
    <2>1. all = old \cup {new}
      BY <1>4 DEF TaggedIn
    <2>2. HowMany(set \cup {new}, tag) = HowMany(set, tag) + 1
      BY <1>1, <1>2, <2>1, CountAdds DEF HowMany
    <2>3. f \in [old -> Nat]
      BY DEF TaggedIn
    <2>4. g \in [old \cup {new} -> Nat]
      BY <2>1 DEF TaggedIn
    <2>5. \A a \in old : g[a] = f[a]
      BY <2>1
    <2>6. g[new] = new.lamports
      BY <2>1
    <2>7. LamportsIn(set, tag) = Total(f) /\ LamportsIn(set \cup {new}, tag) = Total(g)
      BY DEF LamportsIn
    <2> HIDE DEF old, all, f, g
    <2>8. OneMore(old, new, f, g)
      BY <1>1, <1>2, <2>3, <2>4, <2>5 DEF OneMore
    <2>9. Total(g) = Total(f) + g[new]
      BY <2>8, TotalAdds
    <2> QED
      BY <1>1, <1>2, <1>4, <2>2, <2>6, <2>7, <2>9 DEF Only
  <1> QED
    BY <1>3, <1>4

LEMMA AccountDrops ==
  ASSUME NEW set, IsFiniteSet(set), NEW old \in set, NEW tag,
         \A a \in set : a.lamports \in Nat
  PROVE  /\ HowMany(set, tag) = HowMany(set \ {old}, tag) + Only(old.tag = tag, 1)
         /\ LamportsIn(set, tag) =
              LamportsIn(set \ {old}, tag) + Only(old.tag = tag, old.lamports)
  <1>1. PICK rest : rest = set \ {old}
    OBVIOUS
  <1>2. IsFiniteSet(rest)
    BY <1>1, FS_Subset
  <1>3. set = rest \cup {old} /\ old \notin rest
    BY <1>1
  <1>4. \A a \in rest \cup {old} : a.lamports \in Nat
    BY <1>3
  <1> QED
    BY <1>1, <1>2, <1>3, <1>4, AccountAdds

LEMMA AccountSwaps ==
  ASSUME NEW set, IsFiniteSet(set), NEW old \in set, NEW new, new \notin set \ {old},
         new.tag = old.tag, NEW tag, \A a \in set \cup {new} : a.lamports \in Nat
  PROVE  /\ HowMany((set \ {old}) \cup {new}, tag) = HowMany(set, tag)
         /\ LamportsIn((set \ {old}) \cup {new}, tag) =
              LamportsIn(set, tag) + Only(old.tag = tag, new.lamports - old.lamports)
  <1>1. PICK rest : rest = set \ {old}
    OBVIOUS
  <1>2. IsFiniteSet(rest) /\ new \notin rest
    BY <1>1, FS_Subset
  <1>3. \A a \in rest \cup {new} : a.lamports \in Nat
    BY <1>1
  <1>4. /\ HowMany(rest \cup {new}, tag) = HowMany(rest, tag) + Only(new.tag = tag, 1)
        /\ LamportsIn(rest \cup {new}, tag) =
             LamportsIn(rest, tag) + Only(new.tag = tag, new.lamports)
    BY <1>2, <1>3, AccountAdds
  <1>5. /\ HowMany(set, tag) = HowMany(rest, tag) + Only(old.tag = tag, 1)
        /\ LamportsIn(set, tag) = LamportsIn(rest, tag) + Only(old.tag = tag, old.lamports)
    BY <1>1, AccountDrops
  <1>6. HowMany(rest, tag) \in Nat /\ LamportsIn(rest, tag) \in Nat
    BY <1>2, <1>3, CountsAreNat
  <1>7. old.lamports \in Nat /\ new.lamports \in Nat
    OBVIOUS
  <1>8. CASE old.tag = tag
    BY <1>1, <1>4, <1>5, <1>6, <1>7, <1>8 DEF Only
  <1>9. CASE old.tag # tag
    BY <1>1, <1>4, <1>5, <1>6, <1>7, <1>9 DEF Only
  <1> QED
    BY <1>8, <1>9

\* Whose fee goes where: one lamport more for the shard and for the payer.
ChargeOn(set) == Only(TaggedIn(set, "shard") # {}, 1)

LEMMA ChargedChanges ==
  ASSUME NEW n \in Nat, NEW set, AccountsInv(set, n)
  PROVE  /\ AccountsInv(Charged(set), n)
         /\ \A tag \in Tags \ {"feeRecord"} : HowMany(Charged(set), tag) = HowMany(set, tag)
         /\ LamportsIn(Charged(set), "shard") = LamportsIn(set, "shard") + ChargeOn(set)
         /\ LamportsIn(Charged(set), "feeRecord") = LamportsIn(set, "feeRecord") + ChargeOn(set)
  <1> DEFINE shards == TaggedIn(set, "shard")
             paid == TaggedIn(set, "feeRecord")
  <1>0. /\ IsFiniteSet(set) /\ \A a \in set : a.lamports \in Nat
        /\ \A tag : HowMany(set, tag) \in Nat /\ LamportsIn(set, tag) \in Nat
    <2>1. IsFiniteSet(set) /\ \A a \in set : a.lamports \in Nat
      BY DEF AccountsInv, AccountsOf
    <2> QED
      BY <2>1, CountsAreNat
  <1>1. CASE shards = {}
    <2>1. Charged(set) = set
      BY <1>1 DEF Charged, TaggedIn
    <2>2. ChargeOn(set) = 0
      BY <1>1 DEF ChargeOn, Only
    <2> QED
      BY <1>0, <2>1, <2>2
  <1>2. CASE shards # {}
    <2>1. PICK shard : shard = CHOOSE a \in shards : TRUE
      OBVIOUS
    <2>2. shard \in set /\ shard.tag = "shard" /\ shard \in AccountsOf(n)
      BY <1>2, <2>1 DEF TaggedIn, AccountsInv
    <2>3. \A a \in set : a.tag = "shard" => a = shard
      BY <2>2 DEF AccountsInv, Unique
    <2>4. PICK more : more = [shard EXCEPT !.lamports = @ + 1]
      OBVIOUS
    <2>5. /\ more.tag = "shard" /\ more.lamports = shard.lamports + 1
          /\ more \in AccountsOf(n) /\ more.lamports > 0
      BY <2>2, <2>4 DEF AccountsOf
    <2>6. PICK total : total = IF paid = {} THEN 0 ELSE (CHOOSE a \in paid : TRUE).lamports
      OBVIOUS
    <2>7. PICK new : new = [tag |-> "feeRecord", address |-> 0, lamports |-> total + 1]
      OBVIOUS
    <2>8. PICK mid : mid = (set \ {shard}) \cup {more}
      OBVIOUS
    <2>9. Charged(set) = (set \ ({shard} \cup paid)) \cup {more, new}
      BY <1>2, <2>1, <2>4, <2>6, <2>7 DEF Charged, TaggedIn
    <2>10. /\ AccountsInv(mid, n)
           /\ TaggedIn(mid, "feeRecord") = paid
      <3>1. IsFiniteSet(set \ {shard})
        BY <1>0, FS_Subset
      <3>2. IsFiniteSet(mid)
        BY <2>8, <3>1, FS_AddElement
      <3>3. mid \subseteq AccountsOf(n)
        BY <2>5, <2>8 DEF AccountsInv
      <3>4. Unique(mid)
        BY <2>3, <2>5, <2>8 DEF AccountsInv, Unique
      <3>5. \A a \in mid : a.tag = "shard" => a.lamports > 0
        BY <2>5, <2>8 DEF AccountsInv
      <3>6. TaggedIn(mid, "feeRecord") = paid
        BY <2>2, <2>5, <2>8 DEF TaggedIn
      <3> QED
        BY <3>2, <3>3, <3>4, <3>5, <3>6 DEF AccountsInv
    <2>11. \A a \in mid : a.lamports \in Nat
      BY <2>10 DEF AccountsInv, AccountsOf
    <2>12. \A tag : /\ HowMany(mid, tag) = HowMany(set, tag)
                    /\ LamportsIn(mid, tag) = LamportsIn(set, tag) + Only("shard" = tag, 1)
      <3> SUFFICES ASSUME NEW tag
                   PROVE  /\ HowMany(mid, tag) = HowMany(set, tag)
                          /\ LamportsIn(mid, tag) = LamportsIn(set, tag) + Only("shard" = tag, 1)
        OBVIOUS
      <3>1. more \notin set \ {shard}
        BY <2>3, <2>5
      <3>2. \A a \in set \cup {more} : a.lamports \in Nat
        BY <1>0, <2>2, <2>5 DEF AccountsOf
      <3>3. /\ HowMany(mid, tag) = HowMany(set, tag)
            /\ LamportsIn(mid, tag) =
                 LamportsIn(set, tag) + Only("shard" = tag, more.lamports - shard.lamports)
        BY <1>0, <2>2, <2>5, <2>8, <3>1, <3>2, AccountSwaps
      <3>4. more.lamports - shard.lamports = 1
        BY <2>2, <2>5 DEF AccountsOf
      <3> QED
        BY <3>3, <3>4
    <2>13. ChargeOn(set) = 1
      BY <1>2 DEF ChargeOn, Only
    <2>14. /\ new.tag = "feeRecord" /\ new.lamports = total + 1
      BY <2>7
    <2>15. CASE paid = {}
      <3>1. total = 0 /\ new \in AccountsOf(n) /\ new.lamports = 1
        BY <2>6, <2>7, <2>15 DEF AccountsOf, Tags
      <3>2. Charged(set) = mid \cup {new}
        BY <2>8, <2>9, <2>15
      <3>3. new \notin mid
        BY <2>10, <2>14, <2>15 DEF TaggedIn
      <3>4. \A a \in mid \cup {new} : a.lamports \in Nat
        BY <2>11, <3>1
      <3>5. \A tag : /\ HowMany(Charged(set), tag) = HowMany(mid, tag) + Only("feeRecord" = tag, 1)
                     /\ LamportsIn(Charged(set), tag) = LamportsIn(mid, tag) + Only("feeRecord" = tag, 1)
        BY <2>10, <2>14, <3>1, <3>2, <3>3, <3>4, AccountAdds DEF AccountsInv
      <3>6. AccountsInv(Charged(set), n)
        <4>1. IsFiniteSet(Charged(set))
          BY <2>10, <3>2, FS_AddElement DEF AccountsInv
        <4>2. Unique(Charged(set))
          BY <2>10, <2>14, <2>15, <3>2 DEF AccountsInv, Unique, TaggedIn
        <4> QED
          BY <2>10, <2>14, <3>1, <3>2, <4>1, <4>2 DEF AccountsInv
      <3> QED
        BY <1>0, <2>12, <2>13, <3>5, <3>6 DEF Only, Tags
    <2>16. CASE paid # {}
      <3>1. PICK old : old = CHOOSE a \in paid : TRUE
        OBVIOUS
      <3>2. old \in mid /\ old.tag = "feeRecord" /\ old.lamports \in Nat
        BY <2>10, <2>11, <2>16, <3>1 DEF TaggedIn
      <3>3. paid = {old}
        BY <2>10, <3>2 DEF AccountsInv, Unique, TaggedIn
      <3>4. total = old.lamports
        BY <2>6, <2>16, <3>1
      <3>5. new \in AccountsOf(n) /\ new.lamports = old.lamports + 1
        BY <2>7, <3>2, <3>4 DEF AccountsOf, Tags
      <3>6. Charged(set) = (mid \ {old}) \cup {new}
        <4>1. more \notin paid
          BY <2>5 DEF TaggedIn
        <4> QED
          BY <2>8, <2>9, <3>3, <4>1
      <3>7. new \notin mid \ {old}
        BY <2>10, <2>14, <3>3 DEF TaggedIn
      <3>8. \A a \in mid \cup {new} : a.lamports \in Nat
        BY <2>11, <3>2, <3>5
      <3>9. \A tag : /\ HowMany(Charged(set), tag) = HowMany(mid, tag)
                     /\ LamportsIn(Charged(set), tag) =
                          LamportsIn(mid, tag) + Only("feeRecord" = tag, 1)
        <4>1. new.lamports - old.lamports = 1
          BY <3>2, <3>5
        <4> QED
          BY <2>10, <2>14, <3>2, <3>6, <3>7, <3>8, <4>1, AccountSwaps DEF AccountsInv
      <3>10. AccountsInv(Charged(set), n)
        <4>1. IsFiniteSet(mid \ {old})
          BY <2>10, FS_Subset DEF AccountsInv
        <4>2. IsFiniteSet(Charged(set))
          BY <3>6, <4>1, FS_AddElement
        <4>3. Unique(Charged(set))
          BY <2>10, <2>14, <3>3, <3>6 DEF AccountsInv, Unique, TaggedIn
        <4> QED
          BY <2>10, <2>14, <3>5, <3>6, <4>2, <4>3 DEF AccountsInv
      <3> QED
        BY <1>0, <2>12, <2>13, <3>9, <3>10 DEF Only, Tags
    <2> QED
      BY <2>15, <2>16
  <1> QED
    BY <1>1, <1>2

-----------------------------------------------------------------------------
(* What an instruction changes                                             *)

\* The counts after an instruction, in terms of those before it.
Changes(before, after, kind, fee, amount) ==
    /\ HowMany(after, "wallet") =
         HowMany(before, "wallet") + Only(kind = CreateWallet, 1) - Only(kind = MigrateWallet, 1)
    /\ HowMany(after, "authority") =
         HowMany(before, "authority") + Only(kind = CreateWallet, 1) + Only(kind = AddAuthority, 1)
         - Only(kind = RemoveAuthority, 1) - Only(kind = MigrateWallet, 1)
    /\ HowMany(after, "session") =
         HowMany(before, "session") + Only(kind = CreateSession, 1)
         - Only(kind = RevokeSession, 1) - Only(kind = CloseExpiredSession, 1)
    /\ HowMany(after, "deferred") =
         HowMany(before, "deferred") + Only(kind = Authorize, 1)
         - Only(kind = ExecuteDeferred, 1) - Only(kind = ReclaimDeferred, 1)
    /\ LamportsIn(after, "shard") =
         LamportsIn(before, "shard") + fee + Only(kind = InitializeTreasuryShard, amount)
         - Only(kind = WithdrawTreasury, amount)
    /\ LamportsIn(after, "feeRecord") = LamportsIn(before, "feeRecord") + fee

Effective(kind, effect) ==
    /\ effect.amount \in Nat
    /\ AccountsInv(effect.set, Slot)
    /\ Changes(accounts, effect.set, kind, Fee(kind), effect.amount)

Tx == [kind : Kinds, ok : BOOLEAN, fee : Nat, amount : Nat]
Founded == history \in Seq(Tx) /\ AccountsInv(accounts, Len(history))

LEMMA BeforeEffect ==
  ASSUME Founded
  PROVE  /\ Len(history) \in Nat /\ Slot \in Nat /\ Slot > Len(history)
         /\ IsFiniteSet(accounts) /\ accounts \subseteq AccountsOf(Len(history))
         /\ AccountsOf(Len(history)) \subseteq AccountsOf(Slot)
         /\ AccountsInv(accounts, Slot)
         /\ \A a \in accounts : a.lamports \in Nat /\ a.address # Slot
         /\ \A tag : HowMany(accounts, tag) \in Nat /\ LamportsIn(accounts, tag) \in Nat
  <1>1. Len(history) \in Nat /\ Slot \in Nat /\ Slot > Len(history)
    BY DEF Founded, Slot
  <1>2. IsFiniteSet(accounts) /\ accounts \subseteq AccountsOf(Len(history))
    BY DEF Founded, AccountsInv
  <1>3. AccountsOf(Len(history)) \subseteq AccountsOf(Slot)
    <2>1. PICK m \in Nat, n \in Nat : m = Len(history) /\ n = Slot /\ m < n
      BY <1>1
    <2>2. 0 .. m \subseteq 0 .. n
      BY <2>1
    <2> QED
      BY <2>1, <2>2 DEF AccountsOf
  <1>4. \A a \in accounts : a.lamports \in Nat /\ a.address # Slot
    BY <1>1, <1>2 DEF AccountsOf
  <1>5. AccountsInv(accounts, Slot)
    BY <1>2, <1>3 DEF Founded, AccountsInv
  <1> QED
    BY <1>1, <1>2, <1>3, <1>4, <1>5, CountsAreNat

\* A new account of a tag that may have many.
LEMMA NewAccount ==
  ASSUME NEW n \in Nat, NEW set, AccountsInv(set, n), NEW tag \in Tags \ {"shard", "feeRecord"},
         NEW new, new = [tag |-> tag, address |-> n, lamports |-> 0], new \notin set
  PROVE  /\ AccountsInv(set \cup {new}, n)
         /\ TaggedIn(set \cup {new}, "shard") = TaggedIn(set, "shard")
         /\ \A t : /\ HowMany(set \cup {new}, t) = HowMany(set, t) + Only(tag = t, 1)
                   /\ LamportsIn(set \cup {new}, t) = LamportsIn(set, t)
  <1>1. new.tag = tag /\ new.lamports = 0 /\ new \in AccountsOf(n)
    BY DEF AccountsOf
  <1>2. IsFiniteSet(set) /\ \A a \in set \cup {new} : a.lamports \in Nat
    BY <1>1 DEF AccountsInv, AccountsOf
  <1>3. IsFiniteSet(set \cup {new})
    BY <1>2, FS_AddElement
  <1>4. Unique(set \cup {new})
    BY <1>1 DEF AccountsInv, Unique
  <1>5. AccountsInv(set \cup {new}, n)
    BY <1>1, <1>3, <1>4 DEF AccountsInv
  <1>6. TaggedIn(set \cup {new}, "shard") = TaggedIn(set, "shard")
    BY <1>1 DEF TaggedIn
  <1>7. ASSUME NEW t
        PROVE  /\ HowMany(set \cup {new}, t) = HowMany(set, t) + Only(tag = t, 1)
               /\ LamportsIn(set \cup {new}, t) = LamportsIn(set, t)
    <2>1. /\ HowMany(set \cup {new}, t) = HowMany(set, t) + Only(new.tag = t, 1)
          /\ LamportsIn(set \cup {new}, t) = LamportsIn(set, t) + Only(new.tag = t, new.lamports)
      BY <1>2, AccountAdds
    <2>2. LamportsIn(set, t) \in Nat
      BY <1>2, CountsAreNat
    <2>3. Only(new.tag = t, new.lamports) = 0
      BY <1>1 DEF Only
    <2> QED
      BY <1>1, <2>1, <2>2, <2>3
  <1> QED
    BY <1>5, <1>6, <1>7

\* An account of such a tag less.
LEMMA ClosedAccount ==
  ASSUME NEW n \in Nat, NEW set, AccountsInv(set, n), NEW old \in set,
         old.tag \notin {"shard", "feeRecord"}
  PROVE  /\ AccountsInv(set \ {old}, n)
         /\ TaggedIn(set \ {old}, "shard") = TaggedIn(set, "shard")
         /\ \A t : HowMany(set \ {old}, t) = HowMany(set, t) - Only(old.tag = t, 1)
         /\ \A t \in {"shard", "feeRecord"} : LamportsIn(set \ {old}, t) = LamportsIn(set, t)
  <1>1. IsFiniteSet(set) /\ \A a \in set : a.lamports \in Nat
    BY DEF AccountsInv, AccountsOf
  <1>2. IsFiniteSet(set \ {old})
    BY <1>1, FS_Subset
  <1>3. AccountsInv(set \ {old}, n)
    BY <1>2 DEF AccountsInv, Unique
  <1>4. TaggedIn(set \ {old}, "shard") = TaggedIn(set, "shard")
    BY DEF TaggedIn
  <1>5. ASSUME NEW t
        PROVE  HowMany(set \ {old}, t) = HowMany(set, t) - Only(old.tag = t, 1)
    <2>1. HowMany(set, t) = HowMany(set \ {old}, t) + Only(old.tag = t, 1)
      BY <1>1, AccountDrops
    <2>2. HowMany(set \ {old}, t) \in Nat
      BY <1>1, <1>2, CountsAreNat
    <2>3. Only(old.tag = t, 1) \in Nat
      BY DEF Only
    <2> QED
      BY <2>1, <2>2, <2>3
  <1>6. ASSUME NEW t \in {"shard", "feeRecord"}
        PROVE  LamportsIn(set \ {old}, t) = LamportsIn(set, t)
    <2>1. TaggedIn(set \ {old}, t) = TaggedIn(set, t)
      BY DEF TaggedIn
    <2> QED
      BY <2>1 DEF LamportsIn
  <1> QED
    BY <1>3, <1>4, <1>5, <1>6

\* AddAuthority, CreateSession and Authorize.
LEMMA OpeningEffects ==
  ASSUME Founded, NEW kind \in {AddAuthority, CreateSession, Authorize}, NEW effect \in Effects(kind)
  PROVE  Effective(kind, effect)
  <1> USE DEF CreateWallet, AddAuthority, RemoveAuthority, CreateSession, Authorize, ExecuteDeferred,
              ReclaimDeferred, RevokeSession, WithdrawTreasury, InitializeTreasuryShard,
              MigrateWallet, CloseExpiredSession
  <1>1. PICK tag : tag = CASE kind = AddAuthority -> "authority"
                           [] kind = CreateSession -> "session"
                           [] kind = Authorize -> "deferred"
    OBVIOUS
  <1>2. PICK new : new = [tag |-> tag, address |-> Slot, lamports |-> 0]
    OBVIOUS
  <1>3. effect.set = accounts \cup {new} /\ effect.amount = 0
    <2>1. CASE kind = AddAuthority
      BY <1>1, <1>2, <2>1 DEF Effects, New
    <2>2. CASE kind = CreateSession
      BY <1>1, <1>2, <2>2 DEF Effects, New
    <2>3. CASE kind = Authorize
      BY <1>1, <1>2, <2>3 DEF Effects, New
    <2> QED
      BY <2>1, <2>2, <2>3
  <1>4. tag \in {"authority", "session", "deferred"}
    BY <1>1
  <1>5. new.address = Slot
    BY <1>2
  <1>6. new \notin accounts
    BY <1>5, BeforeEffect
  <1>7. /\ AccountsInv(effect.set, Slot)
        /\ \A t : /\ HowMany(effect.set, t) = HowMany(accounts, t) + Only(tag = t, 1)
                  /\ LamportsIn(effect.set, t) = LamportsIn(accounts, t)
    <2>1. Slot \in Nat /\ AccountsInv(accounts, Slot)
      BY BeforeEffect
    <2>2. tag \in Tags \ {"shard", "feeRecord"}
      BY <1>4 DEF Tags
    <2>3. PICK n \in Nat : n = Slot
      BY <2>1
    <2>4. AccountsInv(accounts, n) /\ new = [tag |-> tag, address |-> n, lamports |-> 0]
      BY <1>2, <2>1, <2>3
    <2>5. /\ AccountsInv(accounts \cup {new}, n)
          /\ \A t : /\ HowMany(accounts \cup {new}, t) = HowMany(accounts, t) + Only(tag = t, 1)
                    /\ LamportsIn(accounts \cup {new}, t) = LamportsIn(accounts, t)
      BY <1>6, <2>2, <2>4, NewAccount
    <2> QED
      BY <1>3, <2>3, <2>5
  <1>8. Fee(kind) = 0
    BY DEF Fee
  <1>9. \A t : HowMany(accounts, t) \in Nat /\ LamportsIn(accounts, t) \in Nat
    BY BeforeEffect
  <1>10. Changes(accounts, effect.set, kind, 0, 0)
    <2>1. CASE kind = AddAuthority
      BY <1>1, <1>7, <1>9, <2>1 DEF Changes, Only
    <2>2. CASE kind = CreateSession
      BY <1>1, <1>7, <1>9, <2>2 DEF Changes, Only
    <2>3. CASE kind = Authorize
      BY <1>1, <1>7, <1>9, <2>3 DEF Changes, Only
    <2> QED
      BY <2>1, <2>2, <2>3
  <1> QED
    BY <1>3, <1>7, <1>8, <1>10 DEF Effective

\* RemoveAuthority, RevokeSession, CloseExpiredSession and ReclaimDeferred.
LEMMA ClosingEffects ==
  ASSUME Founded,
         NEW kind \in {RemoveAuthority, RevokeSession, CloseExpiredSession, ReclaimDeferred},
         NEW effect \in Effects(kind)
  PROVE  Effective(kind, effect)
  <1> USE DEF CreateWallet, AddAuthority, RemoveAuthority, CreateSession, Authorize, ExecuteDeferred,
              ReclaimDeferred, RevokeSession, WithdrawTreasury, InitializeTreasuryShard,
              MigrateWallet, CloseExpiredSession
  <1>1. PICK tag : tag = CASE kind = RemoveAuthority -> "authority"
                           [] kind \in {RevokeSession, CloseExpiredSession} -> "session"
                           [] kind = ReclaimDeferred -> "deferred"
    OBVIOUS
  <1>2. effect \in {[set |-> accounts \ {a}, amount |-> a.lamports] : a \in TaggedIn(accounts, tag)}
    <2>1. CASE kind = RemoveAuthority
      BY <1>1, <2>1 DEF Effects, Tagged, TaggedIn
    <2>2. CASE kind \in {RevokeSession, CloseExpiredSession}
      BY <1>1, <2>2 DEF Effects, Tagged, TaggedIn
    <2>3. CASE kind = ReclaimDeferred
      BY <1>1, <2>3 DEF Effects, Tagged, TaggedIn
    <2> QED
      BY <2>1, <2>2, <2>3
  <1>3. PICK old \in accounts : /\ old.tag = tag
                                /\ effect.set = accounts \ {old} /\ effect.amount = old.lamports
    BY <1>2 DEF TaggedIn
  <1>4. tag \in {"authority", "session", "deferred"}
    BY <1>1
  <1>5. /\ AccountsInv(effect.set, Slot)
        /\ \A t : HowMany(effect.set, t) = HowMany(accounts, t) - Only(tag = t, 1)
        /\ \A t \in {"shard", "feeRecord"} : LamportsIn(effect.set, t) = LamportsIn(accounts, t)
    <2>1. PICK n \in Nat : n = Slot /\ AccountsInv(accounts, n)
      BY BeforeEffect
    <2>2. old.tag \notin {"shard", "feeRecord"}
      BY <1>3, <1>4
    <2>3. /\ AccountsInv(accounts \ {old}, n)
          /\ \A t : HowMany(accounts \ {old}, t) = HowMany(accounts, t) - Only(old.tag = t, 1)
          /\ \A t \in {"shard", "feeRecord"} : LamportsIn(accounts \ {old}, t) = LamportsIn(accounts, t)
      BY <2>1, <2>2, ClosedAccount
    <2> QED
      BY <1>3, <2>1, <2>3
  <1>6. Fee(kind) = 0 /\ effect.amount \in Nat
    BY <1>3, BeforeEffect DEF Fee
  <1>7. \A t : HowMany(accounts, t) \in Nat /\ LamportsIn(accounts, t) \in Nat
    BY BeforeEffect
  <1>8. Changes(accounts, effect.set, kind, 0, effect.amount)
    <2>1. CASE kind = RemoveAuthority
      BY <1>1, <1>5, <1>7, <2>1 DEF Changes, Only
    <2>2. CASE kind \in {RevokeSession, CloseExpiredSession}
      BY <1>1, <1>5, <1>7, <2>2 DEF Changes, Only
    <2>3. CASE kind = ReclaimDeferred
      BY <1>1, <1>5, <1>7, <2>3 DEF Changes, Only
    <2> QED
      BY <2>1, <2>2, <2>3
  <1> QED
    BY <1>5, <1>6, <1>8 DEF Effective

\* A wallet migrates with an authority.
LEMMA MigrationEffects ==
  ASSUME Founded, NEW effect \in Effects(MigrateWallet)
  PROVE  Effective(MigrateWallet, effect)
  <1> USE DEF CreateWallet, AddAuthority, RemoveAuthority, CreateSession, Authorize, ExecuteDeferred,
              ReclaimDeferred, RevokeSession, WithdrawTreasury, InitializeTreasuryShard,
              MigrateWallet, CloseExpiredSession
  <1>1. effect \in {[set |-> accounts \ {w, a}, amount |-> 0] :
                       w \in Tagged("wallet"), a \in Tagged("authority")}
    BY DEF Effects
  <1>2. PICK w \in accounts, a \in accounts :
          /\ w.tag = "wallet" /\ a.tag = "authority"
          /\ effect.set = accounts \ {w, a} /\ effect.amount = 0
    BY <1>1 DEF Tagged
  <1>3. PICK mid : mid = accounts \ {w}
    OBVIOUS
  <1>4. a \in mid /\ effect.set = mid \ {a}
    BY <1>2, <1>3
  <1>5. /\ AccountsInv(mid, Slot)
        /\ \A t : HowMany(mid, t) = HowMany(accounts, t) - Only("wallet" = t, 1)
        /\ \A t \in {"shard", "feeRecord"} : LamportsIn(mid, t) = LamportsIn(accounts, t)
    <2>1. PICK n \in Nat : n = Slot /\ AccountsInv(accounts, n)
      BY BeforeEffect
    <2>2. w.tag \notin {"shard", "feeRecord"}
      BY <1>2
    <2>3. /\ AccountsInv(accounts \ {w}, n)
          /\ \A t : HowMany(accounts \ {w}, t) = HowMany(accounts, t) - Only(w.tag = t, 1)
          /\ \A t \in {"shard", "feeRecord"} : LamportsIn(accounts \ {w}, t) = LamportsIn(accounts, t)
      BY <2>1, <2>2, ClosedAccount
    <2> QED
      BY <1>2, <1>3, <2>1, <2>3
  <1>6. /\ AccountsInv(effect.set, Slot)
        /\ \A t : HowMany(effect.set, t) = HowMany(mid, t) - Only("authority" = t, 1)
        /\ \A t \in {"shard", "feeRecord"} : LamportsIn(effect.set, t) = LamportsIn(mid, t)
    <2>1. PICK n \in Nat : n = Slot /\ AccountsInv(mid, n)
      BY <1>5, BeforeEffect
    <2>2. a.tag \notin {"shard", "feeRecord"}
      BY <1>2
    <2>3. /\ AccountsInv(mid \ {a}, n)
          /\ \A t : HowMany(mid \ {a}, t) = HowMany(mid, t) - Only(a.tag = t, 1)
          /\ \A t \in {"shard", "feeRecord"} : LamportsIn(mid \ {a}, t) = LamportsIn(mid, t)
      BY <1>4, <2>1, <2>2, ClosedAccount
    <2> QED
      BY <1>2, <1>4, <2>1, <2>3
  <1>7. Fee(MigrateWallet) = 0
    BY DEF Fee
  <1>8. \A t : HowMany(accounts, t) \in Nat /\ LamportsIn(accounts, t) \in Nat
    BY BeforeEffect
  <1>9. Changes(accounts, effect.set, MigrateWallet, 0, 0)
    BY <1>5, <1>6, <1>8 DEF Changes, Only
  <1> QED
    BY <1>2, <1>6, <1>7, <1>9 DEF Effective

\* CreateWallet: two accounts, and a fee.
LEMMA WalletEffects ==
  ASSUME Founded, NEW effect \in Effects(CreateWallet)
  PROVE  Effective(CreateWallet, effect)
  <1> USE DEF CreateWallet, AddAuthority, RemoveAuthority, CreateSession, Authorize, ExecuteDeferred,
              ReclaimDeferred, RevokeSession, WithdrawTreasury, InitializeTreasuryShard,
              MigrateWallet, CloseExpiredSession
  <1>1. PICK n \in Nat : n = Slot /\ AccountsInv(accounts, n)
    BY BeforeEffect
  <1>2. PICK w : w = [tag |-> "wallet", address |-> n, lamports |-> 0]
    OBVIOUS
  <1>3. PICK a : a = [tag |-> "authority", address |-> n, lamports |-> 0]
    OBVIOUS
  <1>4. PICK one : one = accounts \cup {w}
    OBVIOUS
  <1>5. PICK two : two = one \cup {a}
    OBVIOUS
  <1>6. effect.set = Charged(two) /\ effect.amount = 0
    <2>1. two = accounts \cup (New("wallet", 0) \cup New("authority", 0))
      BY <1>1, <1>2, <1>3, <1>4, <1>5 DEF New
    <2>2. Effects(CreateWallet) =
            {[e EXCEPT !.set = Charged(@)] :
               e \in {[set |-> accounts \cup (New("wallet", 0) \cup New("authority", 0)),
                       amount |-> 0]}}
      BY DEF Effects
    <2>3. PICK e : e = [set |-> two, amount |-> 0] /\ effect = [e EXCEPT !.set = Charged(@)]
      BY <2>1, <2>2
    <2> QED
      BY <2>3
  <1>7. w.tag = "wallet" /\ a.tag = "authority" /\ w.address = n /\ a.address = n
    BY <1>2, <1>3
  <1>8. w \notin accounts /\ a \notin one
    BY <1>1, <1>4, <1>7, BeforeEffect
  <1>9. /\ AccountsInv(one, n)
        /\ TaggedIn(one, "shard") = TaggedIn(accounts, "shard")
        /\ \A t : /\ HowMany(one, t) = HowMany(accounts, t) + Only("wallet" = t, 1)
                  /\ LamportsIn(one, t) = LamportsIn(accounts, t)
    <2>1. "wallet" \in Tags \ {"shard", "feeRecord"}
      BY DEF Tags
    <2> QED
      BY <1>1, <1>2, <1>4, <1>8, <2>1, NewAccount
  <1>10. /\ AccountsInv(two, n)
         /\ TaggedIn(two, "shard") = TaggedIn(one, "shard")
         /\ \A t : /\ HowMany(two, t) = HowMany(one, t) + Only("authority" = t, 1)
                   /\ LamportsIn(two, t) = LamportsIn(one, t)
    <2>1. "authority" \in Tags \ {"shard", "feeRecord"}
      BY DEF Tags
    <2> QED
      BY <1>3, <1>5, <1>8, <1>9, <2>1, NewAccount
  <1>11. /\ AccountsInv(effect.set, n)
         /\ \A tag \in Tags \ {"feeRecord"} : HowMany(effect.set, tag) = HowMany(two, tag)
         /\ LamportsIn(effect.set, "shard") = LamportsIn(two, "shard") + ChargeOn(two)
         /\ LamportsIn(effect.set, "feeRecord") = LamportsIn(two, "feeRecord") + ChargeOn(two)
    BY <1>6, <1>10, ChargedChanges
  <1>12. ChargeOn(two) = Fee(CreateWallet)
    BY <1>9, <1>10 DEF ChargeOn, Fee, Only, TaggedIn, Tagged
  <1>13. \A t : HowMany(accounts, t) \in Nat /\ LamportsIn(accounts, t) \in Nat
    BY BeforeEffect
  <1>14. Fee(CreateWallet) \in Nat
    BY DEF Fee
  <1>15. Changes(accounts, effect.set, CreateWallet, Fee(CreateWallet), 0)
    <2> HIDE DEF CreateWallet
    <2>1. /\ CreateWallet # MigrateWallet /\ CreateWallet # AddAuthority
          /\ CreateWallet # RemoveAuthority /\ CreateWallet # CreateSession
          /\ CreateWallet # RevokeSession /\ CreateWallet # CloseExpiredSession
          /\ CreateWallet # Authorize /\ CreateWallet # ExecuteDeferred
          /\ CreateWallet # ReclaimDeferred /\ CreateWallet # InitializeTreasuryShard
          /\ CreateWallet # WithdrawTreasury
      BY DEF CreateWallet
    <2>2. /\ "wallet" \in Tags \ {"feeRecord"} /\ "authority" \in Tags \ {"feeRecord"}
          /\ "session" \in Tags \ {"feeRecord"} /\ "deferred" \in Tags \ {"feeRecord"}
      BY DEF Tags
    <2> QED
      BY <1>9, <1>10, <1>11, <1>12, <1>13, <1>14, <2>1, <2>2 DEF Changes, Only
  <1> QED
    BY <1>1, <1>6, <1>11, <1>15 DEF Effective

\* ExecuteDeferred: the deferred action's account closes, and a fee.
LEMMA DeferredEffects ==
  ASSUME Founded, NEW effect \in Effects(ExecuteDeferred)
  PROVE  Effective(ExecuteDeferred, effect)
  <1> USE DEF CreateWallet, AddAuthority, RemoveAuthority, CreateSession, Authorize, ExecuteDeferred,
              ReclaimDeferred, RevokeSession, WithdrawTreasury, InitializeTreasuryShard,
              MigrateWallet, CloseExpiredSession
  <1>1. PICK n \in Nat : n = Slot /\ AccountsInv(accounts, n)
    BY BeforeEffect
  <1>2. Effects(ExecuteDeferred) =
          {[e EXCEPT !.set = Charged(@)] :
             e \in {[set |-> accounts \ {a}, amount |-> a.lamports] : a \in Tagged("deferred")}}
    BY DEF Effects
  <1>3. PICK old \in Tagged("deferred") :
          effect = [set |-> Charged(accounts \ {old}), amount |-> old.lamports]
    <2>1. PICK e \in {[set |-> accounts \ {a}, amount |-> a.lamports] : a \in Tagged("deferred")} :
             effect = [e EXCEPT !.set = Charged(@)]
      BY <1>2
    <2>2. PICK old \in Tagged("deferred") : e = [set |-> accounts \ {old}, amount |-> old.lamports]
      OBVIOUS
    <2>3. effect = [set |-> Charged(accounts \ {old}), amount |-> old.lamports]
      BY <2>1, <2>2
    <2> QED
      BY <2>3
  <1>4. old \in accounts /\ old.tag = "deferred" /\ old.lamports \in Nat
    BY <1>3, BeforeEffect DEF Tagged
  <1>5. PICK rest : rest = accounts \ {old}
    OBVIOUS
  <1>6. effect.set = Charged(rest) /\ effect.amount = old.lamports
    BY <1>3, <1>5
  <1>7. /\ AccountsInv(rest, n)
        /\ TaggedIn(rest, "shard") = TaggedIn(accounts, "shard")
        /\ \A t : HowMany(rest, t) = HowMany(accounts, t) - Only("deferred" = t, 1)
        /\ \A t \in {"shard", "feeRecord"} : LamportsIn(rest, t) = LamportsIn(accounts, t)
    BY <1>1, <1>4, <1>5, ClosedAccount
  <1>8. /\ AccountsInv(effect.set, n)
        /\ \A tag \in Tags \ {"feeRecord"} : HowMany(effect.set, tag) = HowMany(rest, tag)
        /\ LamportsIn(effect.set, "shard") = LamportsIn(rest, "shard") + ChargeOn(rest)
        /\ LamportsIn(effect.set, "feeRecord") = LamportsIn(rest, "feeRecord") + ChargeOn(rest)
    BY <1>6, <1>7, ChargedChanges
  <1>9. ChargeOn(rest) = Fee(ExecuteDeferred)
    BY <1>7 DEF ChargeOn, Fee, Only, TaggedIn, Tagged
  <1>10. \A t : HowMany(accounts, t) \in Nat /\ LamportsIn(accounts, t) \in Nat
    BY BeforeEffect
  <1>11. Fee(ExecuteDeferred) \in Nat
    BY DEF Fee
  <1>12. Changes(accounts, effect.set, ExecuteDeferred, Fee(ExecuteDeferred), effect.amount)
    <2>1. /\ ExecuteDeferred # MigrateWallet /\ ExecuteDeferred # AddAuthority
          /\ ExecuteDeferred # RemoveAuthority /\ ExecuteDeferred # CreateSession
          /\ ExecuteDeferred # RevokeSession /\ ExecuteDeferred # CloseExpiredSession
          /\ ExecuteDeferred # Authorize /\ ExecuteDeferred # CreateWallet
          /\ ExecuteDeferred # ReclaimDeferred /\ ExecuteDeferred # InitializeTreasuryShard
          /\ ExecuteDeferred # WithdrawTreasury
      OBVIOUS
    <2> HIDE DEF ExecuteDeferred
    <2>2. /\ "wallet" \in Tags \ {"feeRecord"} /\ "authority" \in Tags \ {"feeRecord"}
          /\ "session" \in Tags \ {"feeRecord"} /\ "deferred" \in Tags \ {"feeRecord"}
      BY DEF Tags
    <2> QED
      BY <1>7, <1>8, <1>9, <1>10, <1>11, <2>1, <2>2 DEF Changes, Only
  <1> QED
    BY <1>1, <1>4, <1>6, <1>8, <1>12 DEF Effective

\* InitializeTreasuryShard, when there is none.
LEMMA ShardEffects ==
  ASSUME Founded, NEW effect \in Effects(InitializeTreasuryShard)
  PROVE  Effective(InitializeTreasuryShard, effect)
  <1> USE DEF CreateWallet, AddAuthority, RemoveAuthority, CreateSession, Authorize, ExecuteDeferred,
              ReclaimDeferred, RevokeSession, WithdrawTreasury, InitializeTreasuryShard,
              MigrateWallet, CloseExpiredSession
  <1>1. PICK n \in Nat : n = Slot /\ AccountsInv(accounts, n)
    BY BeforeEffect
  <1>2. PICK new : new = [tag |-> "shard", address |-> n, lamports |-> 2]
    OBVIOUS
  <1>3. /\ TaggedIn(accounts, "shard") = {}
        /\ effect.set = accounts \cup {new} /\ effect.amount = 2
    BY <1>1, <1>2 DEF Effects, New, Tagged, TaggedIn
  <1>4. new.tag = "shard" /\ new.lamports = 2 /\ new \in AccountsOf(n)
    BY <1>2 DEF AccountsOf, Tags
  <1>5. new \notin accounts
    BY <1>3, <1>4 DEF TaggedIn
  <1>6. AccountsInv(effect.set, n)
    <2>1. IsFiniteSet(effect.set)
      BY <1>1, <1>3, FS_AddElement DEF AccountsInv
    <2>2. Unique(effect.set)
      BY <1>1, <1>3, <1>4 DEF AccountsInv, Unique, TaggedIn
    <2> QED
      BY <1>1, <1>3, <1>4, <2>1, <2>2 DEF AccountsInv
  <1>7. ASSUME NEW t
        PROVE  /\ HowMany(effect.set, t) = HowMany(accounts, t) + Only("shard" = t, 1)
               /\ LamportsIn(effect.set, t) = LamportsIn(accounts, t) + Only("shard" = t, 2)
    <2>1. IsFiniteSet(accounts) /\ \A a \in accounts \cup {new} : a.lamports \in Nat
      BY <1>4, BeforeEffect
    <2> QED
      BY <1>3, <1>4, <1>5, <2>1, AccountAdds
  <1>8. \A t : HowMany(accounts, t) \in Nat /\ LamportsIn(accounts, t) \in Nat
    BY BeforeEffect
  <1>9. Fee(InitializeTreasuryShard) = 0
    BY DEF Fee
  <1>10. Changes(accounts, effect.set, InitializeTreasuryShard, 0, 2)
    BY <1>7, <1>8 DEF Changes, Only
  <1> QED
    BY <1>1, <1>3, <1>6, <1>9, <1>10 DEF Effective

\* WithdrawTreasury leaves one lamport.
LEMMA WithdrawEffects ==
  ASSUME Founded, NEW effect \in Effects(WithdrawTreasury)
  PROVE  Effective(WithdrawTreasury, effect)
  <1> USE DEF CreateWallet, AddAuthority, RemoveAuthority, CreateSession, Authorize, ExecuteDeferred,
              ReclaimDeferred, RevokeSession, WithdrawTreasury, InitializeTreasuryShard,
              MigrateWallet, CloseExpiredSession
  <1>1. PICK n \in Nat : n = Slot /\ AccountsInv(accounts, n)
    BY BeforeEffect
  <1>2. effect \in {[set |-> (accounts \ {a}) \cup {[a EXCEPT !.lamports = 1]},
                     amount |-> a.lamports - 1] : a \in Tagged("shard")}
    BY DEF Effects
  <1>3. PICK old \in Tagged("shard") :
          /\ effect.set = (accounts \ {old}) \cup {[old EXCEPT !.lamports = 1]}
          /\ effect.amount = old.lamports - 1
    BY <1>2
  <1>4. PICK new : new = [old EXCEPT !.lamports = 1]
    OBVIOUS
  <1>5. old \in accounts /\ old.tag = "shard" /\ old.lamports \in Nat /\ old.lamports > 0
    BY <1>1, <1>3 DEF Tagged, AccountsInv, AccountsOf
  <1>6. new.tag = "shard" /\ new.lamports = 1 /\ new \in AccountsOf(n)
    BY <1>1, <1>4, <1>5 DEF AccountsInv, AccountsOf
  <1>7. effect.set = (accounts \ {old}) \cup {new} /\ new \notin accounts \ {old}
    BY <1>1, <1>3, <1>4, <1>5, <1>6 DEF AccountsInv, Unique
  <1>8. AccountsInv(effect.set, n)
    <2>1. IsFiniteSet(accounts \ {old})
      BY <1>1, FS_Subset DEF AccountsInv
    <2>2. IsFiniteSet(effect.set)
      BY <1>7, <2>1, FS_AddElement
    <2>3. Unique(effect.set)
      BY <1>1, <1>5, <1>6, <1>7 DEF AccountsInv, Unique
    <2> QED
      BY <1>1, <1>6, <1>7, <2>2, <2>3 DEF AccountsInv
  <1>9. ASSUME NEW t
        PROVE  /\ HowMany(effect.set, t) = HowMany(accounts, t)
               /\ LamportsIn(effect.set, t) =
                    LamportsIn(accounts, t) + Only("shard" = t, 1 - old.lamports)
    <2>1. IsFiniteSet(accounts) /\ \A a \in accounts \cup {new} : a.lamports \in Nat
      BY <1>6, BeforeEffect
    <2> QED
      BY <1>5, <1>6, <1>7, <2>1, AccountSwaps
  <1>10. \A t : HowMany(accounts, t) \in Nat /\ LamportsIn(accounts, t) \in Nat
    BY BeforeEffect
  <1>11. Fee(WithdrawTreasury) = 0
    BY DEF Fee
  <1>12. Changes(accounts, effect.set, WithdrawTreasury, 0, old.lamports - 1)
    BY <1>5, <1>9, <1>10 DEF Changes, Only
  <1> QED
    BY <1>1, <1>3, <1>5, <1>8, <1>11, <1>12 DEF Effective

LEMMA EveryEffect ==
  ASSUME Founded, NEW kind \in Kinds, NEW effect \in Effects(kind)
  PROVE  Effective(kind, effect)
  BY OpeningEffects, ClosingEffects, MigrationEffects, WalletEffects, DeferredEffects,
     ShardEffects, WithdrawEffects
  DEF Kinds

-----------------------------------------------------------------------------
(* What a history says of the accounts                                     *)

Landed(h, n, kinds) == {s \in 1 .. n : h[s].ok /\ h[s].kind \in kinds}
NumberOf(h, n, kind) == Cardinality(Landed(h, n, {kind}))
PaidBy(h, n, kind) == Total([s \in Landed(h, n, {kind}) |-> h[s].amount])
FeesUpTo(h, n) == Total([s \in Landed(h, n, {CreateWallet, 4, ExecuteDeferred}) |-> h[s].fee])

\* The totals of the accounts at slot n, from the transactions up to there.
Books(t, h, n) ==
    /\ t.wallets = NumberOf(h, n, CreateWallet) - NumberOf(h, n, MigrateWallet)
    /\ t.feesPaid = FeesUpTo(h, n)
    /\ t.shardLamports = PaidBy(h, n, InitializeTreasuryShard) + FeesUpTo(h, n)
                         - PaidBy(h, n, WithdrawTreasury)
    /\ t.sessions = NumberOf(h, n, CreateSession) - NumberOf(h, n, RevokeSession)
                    - NumberOf(h, n, CloseExpiredSession)
    /\ t.deferred = NumberOf(h, n, Authorize) - NumberOf(h, n, ExecuteDeferred)
                    - NumberOf(h, n, ReclaimDeferred)
    /\ t.authorities = NumberOf(h, n, CreateWallet) + NumberOf(h, n, AddAuthority)
                       - NumberOf(h, n, RemoveAuthority) - NumberOf(h, n, MigrateWallet)

LEMMA LandedIsFinite ==
  ASSUME NEW h \in Seq(Tx), NEW n \in 0 .. Len(h), NEW kinds
  PROVE  /\ IsFiniteSet(Landed(h, n, kinds)) /\ n \in Nat
         /\ \A s \in Landed(h, n, kinds) : h[s] \in Tx
  <1>1. n \in Nat /\ Len(h) \in Nat
    OBVIOUS
  <1>2. IsFiniteSet(1 .. n)
    BY <1>1, FS_Interval
  <1>3. Landed(h, n, kinds) \subseteq 1 .. n
    BY DEF Landed
  <1>4. IsFiniteSet(Landed(h, n, kinds))
    BY <1>2, <1>3, FS_Subset
  <1>5. \A s \in 1 .. n : h[s] \in Tx
    BY <1>1
  <1> QED
    BY <1>1, <1>3, <1>4, <1>5

LEMMA HistoryCountsAreNat ==
  ASSUME NEW h \in Seq(Tx), NEW n \in 0 .. Len(h), NEW kind
  PROVE  NumberOf(h, n, kind) \in Nat /\ PaidBy(h, n, kind) \in Nat /\ FeesUpTo(h, n) \in Nat
  <1>1. NumberOf(h, n, kind) \in Nat
    BY LandedIsFinite, FS_CardinalityType DEF NumberOf
  <1>2. PaidBy(h, n, kind) \in Nat
    <2>1. [s \in Landed(h, n, {kind}) |-> h[s].amount] \in [Landed(h, n, {kind}) -> Nat]
      BY LandedIsFinite DEF Tx
    <2> QED
      BY <2>1, LandedIsFinite, UnitsAreFinite DEF PaidBy
  <1>3. FeesUpTo(h, n) \in Nat
    <2>1. PICK kinds : kinds = {CreateWallet, 4, ExecuteDeferred}
      OBVIOUS
    <2>2. [s \in Landed(h, n, kinds) |-> h[s].fee] \in [Landed(h, n, kinds) -> Nat]
      BY LandedIsFinite DEF Tx
    <2> QED
      BY <2>1, <2>2, LandedIsFinite, UnitsAreFinite DEF FeesUpTo
  <1> QED
    BY <1>1, <1>2, <1>3

LEMMA NothingLanded ==
  ASSUME NEW h, NEW kind
  PROVE  NumberOf(h, 0, kind) = 0 /\ PaidBy(h, 0, kind) = 0 /\ FeesUpTo(h, 0) = 0
  <1>1. \A kinds : Landed(h, 0, kinds) = {}
    BY DEF Landed
  <1>2. NumberOf(h, 0, kind) = 0
    BY <1>1, FS_EmptySet DEF NumberOf
  <1>3. PaidBy(h, 0, kind) = 0
    <2>1. [s \in Landed(h, 0, {kind}) |-> h[s].amount] \in [{} -> Nat]
      BY <1>1
    <2> QED
      BY <2>1, TotalOfNone DEF PaidBy
  <1>4. FeesUpTo(h, 0) = 0
    <2>1. [s \in Landed(h, 0, {CreateWallet, 4, ExecuteDeferred}) |-> h[s].fee] \in [{} -> Nat]
      BY <1>1
    <2> QED
      BY <2>1, TotalOfNone DEF FeesUpTo
  <1> QED
    BY <1>2, <1>3, <1>4

\* The books of a slot do not change when later transactions land.
LEMMA BooksStay ==
  ASSUME NEW h \in Seq(Tx), NEW tx \in Tx, NEW n \in 0 .. Len(h)
  PROVE  /\ n \in 0 .. Len(Append(h, tx))
         /\ \A kind : /\ NumberOf(Append(h, tx), n, kind) = NumberOf(h, n, kind)
                      /\ PaidBy(Append(h, tx), n, kind) = PaidBy(h, n, kind)
         /\ FeesUpTo(Append(h, tx), n) = FeesUpTo(h, n)
         /\ \A t : Books(t, Append(h, tx), n) = Books(t, h, n)
  <1>1. PICK g : g = Append(h, tx)
    OBVIOUS
  <1>2. Len(g) = Len(h) + 1
    BY <1>1
  <1>3. \A s \in 1 .. n : g[s] = h[s]
    BY <1>1
  <1>4. ASSUME NEW kinds
        PROVE  /\ Landed(g, n, kinds) = Landed(h, n, kinds)
               /\ \A s \in Landed(h, n, kinds) : g[s] = h[s]
    BY <1>3 DEF Landed
  <1>5. ASSUME NEW kind
        PROVE  NumberOf(g, n, kind) = NumberOf(h, n, kind) /\ PaidBy(g, n, kind) = PaidBy(h, n, kind)
    <2>1. NumberOf(g, n, kind) = NumberOf(h, n, kind)
      BY <1>4 DEF NumberOf
    <2>2. [s \in Landed(g, n, {kind}) |-> g[s].amount] = [s \in Landed(h, n, {kind}) |-> h[s].amount]
      BY <1>4
    <2> QED
      BY <2>1, <2>2 DEF PaidBy
  <1>6. FeesUpTo(g, n) = FeesUpTo(h, n)
    <2>1. PICK kinds : kinds = {CreateWallet, 4, ExecuteDeferred}
      OBVIOUS
    <2>2. [s \in Landed(g, n, kinds) |-> g[s].fee] = [s \in Landed(h, n, kinds) |-> h[s].fee]
      BY <1>4
    <2> QED
      BY <2>1, <2>2 DEF FeesUpTo
  <1>7. ASSUME NEW t PROVE Books(t, g, n) = Books(t, h, n)
    BY <1>5, <1>6 DEF Books
  <1> QED
    BY <1>1, <1>2, <1>5, <1>6, <1>7

\* The books of the slot that lands.
LEMMA BooksMove ==
  ASSUME NEW h \in Seq(Tx), NEW tx \in Tx, NEW n, n = Len(h)
  PROVE  /\ \A kind : /\ NumberOf(Append(h, tx), n + 1, kind) =
                           NumberOf(h, n, kind) + Only(tx.ok /\ tx.kind = kind, 1)
                      /\ PaidBy(Append(h, tx), n + 1, kind) =
                           PaidBy(h, n, kind) + Only(tx.ok /\ tx.kind = kind, tx.amount)
         /\ FeesUpTo(Append(h, tx), n + 1) =
              FeesUpTo(h, n)
              + Only(tx.ok /\ tx.kind \in {CreateWallet, 4, ExecuteDeferred}, tx.fee)
  <1>1. PICK g : g = Append(h, tx)
    OBVIOUS
  <1>0. PICK m : m = n + 1
    OBVIOUS
  <1>2. Len(g) = m /\ n \in Nat /\ n \in 0 .. Len(h)
    BY <1>0, <1>1
  <1>3. g[m] = tx
    BY <1>0, <1>1
  <1>4. \A s \in 1 .. n : g[s] = h[s]
    BY <1>1
  <1>5. ASSUME NEW kinds
        PROVE  /\ tx.ok /\ tx.kind \in kinds =>
                     Landed(g, m, kinds) = Landed(h, n, kinds) \cup {m}
               /\ ~(tx.ok /\ tx.kind \in kinds) => Landed(g, m, kinds) = Landed(h, n, kinds)
               /\ m \notin Landed(h, n, kinds)
               /\ \A s \in Landed(h, n, kinds) : g[s] = h[s]
    <2>1. 1 .. m = (1 .. n) \cup {m} /\ m \notin 1 .. n
      BY <1>0, <1>2
    <2> QED
      BY <1>3, <1>4, <2>1 DEF Landed
  <1>6. ASSUME NEW kind
        PROVE  NumberOf(g, m, kind) = NumberOf(h, n, kind) + Only(tx.ok /\ tx.kind = kind, 1)
    <2>1. IsFiniteSet(Landed(h, n, {kind}))
      BY <1>2, LandedIsFinite
    <2>2. NumberOf(h, n, kind) \in Nat
      BY <1>2, HistoryCountsAreNat
    <2>3. CASE tx.ok /\ tx.kind = kind
      BY <1>5, <2>1, <2>3, CountAdds DEF NumberOf, Only
    <2>4. CASE ~(tx.ok /\ tx.kind = kind)
      BY <1>5, <2>2, <2>4 DEF NumberOf, Only
    <2> QED
      BY <2>3, <2>4
  <1>7. ASSUME NEW kind
        PROVE  PaidBy(g, m, kind) = PaidBy(h, n, kind) + Only(tx.ok /\ tx.kind = kind, tx.amount)
    <2> DEFINE S == Landed(h, n, {kind})
               f == [s \in S |-> h[s].amount]
               e == [s \in Landed(g, m, {kind}) |-> g[s].amount]
    <2>1. IsFiniteSet(S)
      BY <1>2, LandedIsFinite
    <2>5. f \in [S -> Nat]
      BY <1>2, LandedIsFinite DEF Tx
    <2>2. PaidBy(h, n, kind) \in Nat
      BY <1>2, HistoryCountsAreNat
    <2>3. CASE tx.ok /\ tx.kind = kind
      <3>1. e \in [S \cup {m} -> Nat]
        <4>1. g[m].amount \in Nat
          BY <1>3 DEF Tx
        <4>2. \A s \in S : h[s] \in Tx /\ g[s] = h[s]
          BY <1>2, <1>5, LandedIsFinite
        <4>3. \A s \in S : g[s].amount \in Nat
          BY <4>2 DEF Tx
        <4> QED
          BY <1>5, <2>3, <4>1, <4>3
      <3>2. e[m] = tx.amount
        BY <1>3, <1>5, <2>3
      <3>6. \A s \in S : e[s] = f[s]
        BY <1>3, <1>5, <2>3
      <3>3. m \notin S
        BY <1>5
      <3>4. PaidBy(g, m, kind) = Total(e) /\ PaidBy(h, n, kind) = Total(f)
        BY DEF PaidBy
      <3> HIDE DEF S, f, e
      <3>7. OneMore(S, m, f, e)
        BY <2>1, <2>5, <3>1, <3>3, <3>6 DEF OneMore
      <3>5. Total(e) = Total(f) + e[m]
        BY <3>7, TotalAdds
      <3> QED
        BY <2>3, <3>2, <3>4, <3>5 DEF Only
    <2>4. CASE ~(tx.ok /\ tx.kind = kind)
      <3>1. e = f
        BY <1>5, <2>4
      <3>2. PaidBy(g, m, kind) = PaidBy(h, n, kind)
        BY <3>1 DEF PaidBy
      <3> QED
        BY <2>2, <2>4, <3>2 DEF Only
    <2> QED
      BY <2>3, <2>4
  <1>8. FeesUpTo(g, m) =
          FeesUpTo(h, n) + Only(tx.ok /\ tx.kind \in {CreateWallet, 4, ExecuteDeferred}, tx.fee)
    <2>0. PICK kinds : kinds = {CreateWallet, 4, ExecuteDeferred}
      OBVIOUS
    <2> DEFINE S == Landed(h, n, kinds)
               f == [s \in S |-> h[s].fee]
               e == [s \in Landed(g, m, kinds) |-> g[s].fee]
    <2>1. IsFiniteSet(S)
      BY <1>2, LandedIsFinite
    <2>5. f \in [S -> Nat]
      BY <1>2, LandedIsFinite DEF Tx
    <2>2. FeesUpTo(h, n) \in Nat
      BY <1>2, HistoryCountsAreNat
    <2>3. CASE tx.ok /\ tx.kind \in kinds
      <3>1. e \in [S \cup {m} -> Nat]
        <4>1. g[m].fee \in Nat
          BY <1>3 DEF Tx
        <4>2. \A s \in S : h[s] \in Tx /\ g[s] = h[s]
          BY <1>2, <1>5, LandedIsFinite
        <4>3. \A s \in S : g[s].fee \in Nat
          BY <4>2 DEF Tx
        <4> QED
          BY <1>5, <2>3, <4>1, <4>3
      <3>2. e[m] = tx.fee
        BY <1>3, <1>5, <2>3
      <3>6. \A s \in S : e[s] = f[s]
        BY <1>3, <1>5, <2>3
      <3>3. m \notin S
        BY <1>5
      <3>4. FeesUpTo(g, m) = Total(e) /\ FeesUpTo(h, n) = Total(f)
        BY <2>0 DEF FeesUpTo
      <3> HIDE DEF S, f, e
      <3>7. OneMore(S, m, f, e)
        BY <2>1, <2>5, <3>1, <3>3, <3>6 DEF OneMore
      <3>5. Total(e) = Total(f) + e[m]
        BY <3>7, TotalAdds
      <3> QED
        BY <2>0, <2>3, <3>2, <3>4, <3>5 DEF Only
    <2>4. CASE ~(tx.ok /\ tx.kind \in kinds)
      <3>1. e = f
        BY <1>5, <2>4
      <3>2. FeesUpTo(g, m) = FeesUpTo(h, n)
        BY <2>0, <3>1 DEF FeesUpTo
      <3> QED
        BY <2>0, <2>2, <2>4, <3>2 DEF Only
    <2> QED
      BY <2>3, <2>4
  <1> QED
    BY <1>0, <1>1, <1>6, <1>7, <1>8

-----------------------------------------------------------------------------
(* The invariant                                                           *)

\* The accounts, a snapshot being read and the snapshot stored each have the
\* totals of the transactions up to their slot.
BooksInv ==
    /\ Founded
    /\ Books(Decode(accounts), history, Len(history))
    /\ reading.step = "state" =>
          reading.slot \in 0 .. Len(history) /\ Books(reading.totals, history, reading.slot)
    /\ state # NoState =>
          state.slot \in 0 .. Len(history) /\ Books(state.totals, history, state.slot)

Collected == queued \cup rows \cup unread
Through(n) == 1 .. n \subseteq Collected

\* The stamp of a reading is the last one taken, and what it read before its
\* last call is collected.
StampsInv ==
    /\ now \in Nat /\ discoveredAt \in 0 .. now /\ frontier \in 0 .. Len(history)
    /\ state.at \in 0 .. now
    /\ \/ reading = NotReading
       \/ reading.step = "state" /\ reading.at = now /\ discoveredAt < now
       \/ reading.step = "pages" /\ reading.at = now
       \/ /\ reading.step = "final" /\ reading.at = now
          /\ reading.top \in 0 .. Len(history) /\ Through(reading.top)

\* A discovery younger than the snapshot, whose listing did not trail it,
\* collected what the snapshot shows.
CollectedInv ==
    /\ Collected \subseteq 1 .. Len(history)
    /\ Through(frontier)
    /\ state # NoState /\ discoveredAt >= state.at /\ ~trailed => Through(state.slot)

ChecksInv == BooksInv /\ StampsInv /\ CollectedInv

LEMMA ChecksInitInv == ChecksInit => ChecksInv
  <1> SUFFICES ASSUME ChecksInit PROVE ChecksInv
    OBVIOUS
  <1> USE DEF ChecksInit
  <1>0. reading.step = "none" /\ state.at = 0
    BY DEF NotReading, NoState
  <1>1. Founded
    <2>1. IsFiniteSet(accounts)
      BY FS_EmptySet
    <2>2. history \in Seq(Tx)
      OBVIOUS
    <2> QED
      BY <2>1, <2>2 DEF Founded, AccountsInv, Unique
  <1>2. Books(Decode(accounts), history, Len(history))
    <2>1. Len(history) = 0
      OBVIOUS
    <2>2. \A tag : HowMany(accounts, tag) = 0 /\ LamportsIn(accounts, tag) = 0
      <3> SUFFICES ASSUME NEW tag PROVE HowMany(accounts, tag) = 0 /\ LamportsIn(accounts, tag) = 0
        OBVIOUS
      <3>1. TaggedIn(accounts, tag) = {}
        BY DEF TaggedIn
      <3>2. [a \in TaggedIn(accounts, tag) |-> a.lamports] \in [{} -> Nat]
        BY <3>1
      <3>3. HowMany(accounts, tag) = 0
        BY <3>1, FS_EmptySet DEF HowMany
      <3> QED
        BY <3>2, <3>3, TotalOfNone DEF LamportsIn
    <2>3. \A kind : /\ NumberOf(history, 0, kind) = 0 /\ PaidBy(history, 0, kind) = 0
                    /\ FeesUpTo(history, 0) = 0
      BY NothingLanded
    <2> QED
      BY <2>1, <2>2, <2>3, DecodeCounts DEF Books
  <1>3. BooksInv
    BY <1>0, <1>1, <1>2 DEF BooksInv
  <1>4. StampsInv
    BY <1>0 DEF StampsInv
  <1>5. CollectedInv
    BY DEF CollectedInv, Collected, Through
  <1> QED
    BY <1>3, <1>4, <1>5 DEF ChecksInv

\* A transaction that succeeded moves the accounts and the books alike.
LEMMA BooksFollow ==
  ASSUME Founded, Books(Decode(accounts), history, Len(history)),
         NEW kind \in Kinds, NEW effect, Effective(kind, effect),
         NEW tx, tx = [kind |-> kind, ok |-> TRUE, fee |-> Fee(kind), amount |-> effect.amount]
  PROVE  tx \in Tx /\ Books(Decode(effect.set), Append(history, tx), Len(history) + 1)
  <1> DEFINE h == history
             n == Len(history)
  <1>1. n \in Nat /\ h \in Seq(Tx) /\ n \in 0 .. Len(h)
    BY DEF Founded
  <1>2. Fee(kind) \in Nat /\ effect.amount \in Nat
    BY DEF Fee, Effective
  <1>3. /\ tx \in Tx
        /\ tx.ok = TRUE /\ tx.kind = kind /\ tx.fee = Fee(kind) /\ tx.amount = effect.amount
    BY <1>2 DEF Tx
  <1>4. /\ \A k : /\ NumberOf(Append(h, tx), n + 1, k) = NumberOf(h, n, k) + Only(kind = k, 1)
                  /\ PaidBy(Append(h, tx), n + 1, k) = PaidBy(h, n, k) + Only(kind = k, effect.amount)
        /\ FeesUpTo(Append(h, tx), n + 1) =
             FeesUpTo(h, n) + Only(kind \in {CreateWallet, 4, ExecuteDeferred}, Fee(kind))
    BY <1>1, <1>3, BooksMove DEF Only
  <1>5. Only(kind \in {CreateWallet, 4, ExecuteDeferred}, Fee(kind)) = Fee(kind)
    BY DEF Only, Fee
  <1>6. \A k : NumberOf(h, n, k) \in Nat /\ PaidBy(h, n, k) \in Nat /\ FeesUpTo(h, n) \in Nat
    BY <1>1, HistoryCountsAreNat
  <1>7. Changes(accounts, effect.set, kind, Fee(kind), effect.amount)
    BY DEF Effective
  <1>8. /\ \A k : Only(kind = k, 1) \in Nat
        /\ \A k : Only(kind = k, effect.amount) \in Nat
    BY <1>2 DEF Only
  <1> DEFINE g == Append(h, tx)
             m == n + 1
             one == Decode(accounts)
             two == Decode(effect.set)
  <1>9. /\ one.wallets = HowMany(accounts, "wallet") /\ two.wallets = HowMany(effect.set, "wallet")
        /\ one.authorities = HowMany(accounts, "authority")
        /\ two.authorities = HowMany(effect.set, "authority")
        /\ one.sessions = HowMany(accounts, "session") /\ two.sessions = HowMany(effect.set, "session")
        /\ one.deferred = HowMany(accounts, "deferred") /\ two.deferred = HowMany(effect.set, "deferred")
        /\ one.shardLamports = LamportsIn(accounts, "shard")
        /\ two.shardLamports = LamportsIn(effect.set, "shard")
        /\ one.feesPaid = LamportsIn(accounts, "feeRecord")
        /\ two.feesPaid = LamportsIn(effect.set, "feeRecord")
    BY DecodeCounts
  <1>10. Books(one, h, n)
    OBVIOUS
  <1>11. /\ \A k : /\ NumberOf(g, m, k) = NumberOf(h, n, k) + Only(kind = k, 1)
                   /\ PaidBy(g, m, k) = PaidBy(h, n, k) + Only(kind = k, effect.amount)
         /\ FeesUpTo(g, m) = FeesUpTo(h, n) + Fee(kind)
    BY <1>4, <1>5
  <1> HIDE DEF g, m, one, two, h, n
  <1>12. /\ one.wallets = NumberOf(h, n, CreateWallet) - NumberOf(h, n, MigrateWallet)
         /\ one.feesPaid = FeesUpTo(h, n)
         /\ one.shardLamports = PaidBy(h, n, InitializeTreasuryShard) + FeesUpTo(h, n)
                                - PaidBy(h, n, WithdrawTreasury)
         /\ one.sessions = NumberOf(h, n, CreateSession) - NumberOf(h, n, RevokeSession)
                           - NumberOf(h, n, CloseExpiredSession)
         /\ one.deferred = NumberOf(h, n, Authorize) - NumberOf(h, n, ExecuteDeferred)
                           - NumberOf(h, n, ReclaimDeferred)
         /\ one.authorities = NumberOf(h, n, CreateWallet) + NumberOf(h, n, AddAuthority)
                              - NumberOf(h, n, RemoveAuthority) - NumberOf(h, n, MigrateWallet)
    BY <1>10 DEF Books
  <1>13. /\ two.wallets = one.wallets + Only(kind = CreateWallet, 1) - Only(kind = MigrateWallet, 1)
         /\ two.feesPaid = one.feesPaid + Fee(kind)
         /\ two.shardLamports = one.shardLamports + Fee(kind)
              + Only(kind = InitializeTreasuryShard, effect.amount)
              - Only(kind = WithdrawTreasury, effect.amount)
         /\ two.sessions = one.sessions + Only(kind = CreateSession, 1)
                           - Only(kind = RevokeSession, 1) - Only(kind = CloseExpiredSession, 1)
         /\ two.deferred = one.deferred + Only(kind = Authorize, 1)
                           - Only(kind = ExecuteDeferred, 1) - Only(kind = ReclaimDeferred, 1)
         /\ two.authorities = one.authorities + Only(kind = CreateWallet, 1)
              + Only(kind = AddAuthority, 1) - Only(kind = RemoveAuthority, 1)
              - Only(kind = MigrateWallet, 1)
    BY <1>7, <1>9 DEF Changes
  <1> DEFINE Moved(k) == /\ NumberOf(g, m, k) = NumberOf(h, n, k) + Only(kind = k, 1)
                         /\ PaidBy(g, m, k) = PaidBy(h, n, k) + Only(kind = k, effect.amount)
                         /\ NumberOf(h, n, k) \in Nat /\ PaidBy(h, n, k) \in Nat
                         /\ Only(kind = k, 1) \in Nat /\ Only(kind = k, effect.amount) \in Nat
  <1>14. \A k : Moved(k)
    BY <1>6, <1>8, <1>11
  <1>15. FeesUpTo(h, n) \in Nat /\ FeesUpTo(g, m) = FeesUpTo(h, n) + Fee(kind)
    BY <1>6, <1>11
  <1>16. Books(two, g, m)
    <2>1. two.wallets = NumberOf(g, m, CreateWallet) - NumberOf(g, m, MigrateWallet)
      <3>1. Moved(CreateWallet) /\ Moved(MigrateWallet)
        BY <1>14
      <3> QED
        BY <1>12, <1>13, <3>1
    <2>2. two.feesPaid = FeesUpTo(g, m)
      BY <1>12, <1>13, <1>15
    <2>3. two.shardLamports = PaidBy(g, m, InitializeTreasuryShard) + FeesUpTo(g, m)
                              - PaidBy(g, m, WithdrawTreasury)
      <3>1. Moved(InitializeTreasuryShard) /\ Moved(WithdrawTreasury)
        BY <1>14
      <3> QED
        BY <1>2, <1>15, <1>12, <1>13, <3>1
    <2>4. two.sessions = NumberOf(g, m, CreateSession) - NumberOf(g, m, RevokeSession)
                         - NumberOf(g, m, CloseExpiredSession)
      <3>1. Moved(CreateSession) /\ Moved(RevokeSession) /\ Moved(CloseExpiredSession)
        BY <1>14
      <3> QED
        BY <1>12, <1>13, <3>1
    <2>5. two.deferred = NumberOf(g, m, Authorize) - NumberOf(g, m, ExecuteDeferred)
                         - NumberOf(g, m, ReclaimDeferred)
      <3>1. Moved(Authorize) /\ Moved(ExecuteDeferred) /\ Moved(ReclaimDeferred)
        BY <1>14
      <3> QED
        BY <1>12, <1>13, <3>1
    <2>6. two.authorities = NumberOf(g, m, CreateWallet) + NumberOf(g, m, AddAuthority)
                            - NumberOf(g, m, RemoveAuthority) - NumberOf(g, m, MigrateWallet)
      <3>1. Moved(CreateWallet) /\ Moved(AddAuthority) /\ Moved(RemoveAuthority) /\ Moved(MigrateWallet)
        BY <1>14
      <3>2. PICK c \in Nat, a \in Nat, r \in Nat, w \in Nat :
               /\ c = NumberOf(h, n, CreateWallet) /\ a = NumberOf(h, n, AddAuthority)
               /\ r = NumberOf(h, n, RemoveAuthority) /\ w = NumberOf(h, n, MigrateWallet)
        BY <3>1
      <3>3. PICK dc \in Nat, da \in Nat, dr \in Nat, dw \in Nat :
               /\ dc = Only(kind = CreateWallet, 1) /\ da = Only(kind = AddAuthority, 1)
               /\ dr = Only(kind = RemoveAuthority, 1) /\ dw = Only(kind = MigrateWallet, 1)
        BY <3>1
      <3>4. /\ NumberOf(g, m, CreateWallet) = c + dc /\ NumberOf(g, m, AddAuthority) = a + da
            /\ NumberOf(g, m, RemoveAuthority) = r + dr /\ NumberOf(g, m, MigrateWallet) = w + dw
        BY <3>1, <3>2, <3>3
      <3>5. one.authorities = c + a - r - w
        BY <1>12, <3>2
      <3>6. two.authorities = (c + a - r - w) + dc + da - dr - dw
        BY <1>13, <3>3, <3>5
      <3>7. two.authorities = (c + dc) + (a + da) - (r + dr) - (w + dw)
        BY <3>6
      <3> QED
        BY <3>4, <3>7
    <2> QED
      BY <2>1, <2>2, <2>3, <2>4, <2>5, <2>6 DEF Books
  <1> QED
    BY <1>3, <1>16 DEF g, m, two, h, n

\* A transaction that failed moves neither.
LEMMA BooksIgnoreFailures ==
  ASSUME Founded, Books(Decode(accounts), history, Len(history)),
         NEW tx, tx = [kind |-> CreateWallet, ok |-> FALSE, fee |-> 0, amount |-> 0]
  PROVE  tx \in Tx /\ Books(Decode(accounts), Append(history, tx), Len(history) + 1)
  <1> DEFINE h == history
             n == Len(history)
  <1>1. n \in Nat /\ h \in Seq(Tx) /\ n \in 0 .. Len(h)
    BY DEF Founded
  <1>2. tx \in Tx /\ tx.ok = FALSE
    BY DEF Tx, Kinds
  <1>3. /\ \A k : /\ NumberOf(Append(h, tx), n + 1, k) = NumberOf(h, n, k) + 0
                  /\ PaidBy(Append(h, tx), n + 1, k) = PaidBy(h, n, k) + 0
        /\ FeesUpTo(Append(h, tx), n + 1) = FeesUpTo(h, n) + 0
    BY <1>1, <1>2, BooksMove DEF Only
  <1>4. \A k : NumberOf(h, n, k) \in Nat /\ PaidBy(h, n, k) \in Nat /\ FeesUpTo(h, n) \in Nat
    BY <1>1, HistoryCountsAreNat
  <1>5. ASSUME NEW k
        PROVE  /\ NumberOf(Append(h, tx), n + 1, k) = NumberOf(h, n, k)
               /\ PaidBy(Append(h, tx), n + 1, k) = PaidBy(h, n, k)
               /\ FeesUpTo(Append(h, tx), n + 1) = FeesUpTo(h, n)
    <2>1. \A x \in Nat : x + 0 = x
      OBVIOUS
    <2> HIDE DEF h, n
    <2> QED
      BY <1>3, <1>4, <2>1
  <1> QED
    BY <1>2, <1>5 DEF Books

\* What lands changes neither a stamp nor what was collected, and the books of
\* the slots before it stay.
LEMMA FinalisedKeeps ==
  ASSUME ChecksInv, NEW kind \in Kinds, Finalised(kind)
  PROVE  ChecksInv'
  <1>0. /\ state' = state /\ reading' = reading /\ queued' = queued /\ rows' = rows
        /\ unread' = unread /\ frontier' = frontier /\ discoveredAt' = discoveredAt /\ now' = now
        /\ trailed' = trailed
    BY DEF Finalised
  <1>1. PICK tx \in Tx :
          /\ history' = Append(history, tx)
          /\ AccountsInv(accounts', Len(history) + 1)
          /\ Books(Decode(accounts'), Append(history, tx), Len(history) + 1)
    <2>1. Founded /\ Books(Decode(accounts), history, Len(history))
      BY DEF ChecksInv, BooksInv
    <2>2. CASE \E effect \in Effects(kind) :
                  /\ history' = Append(history, [kind |-> kind, ok |-> TRUE,
                                                 fee |-> Fee(kind), amount |-> effect.amount])
                  /\ accounts' = effect.set
      <3>1. PICK effect \in Effects(kind) :
                  /\ history' = Append(history, [kind |-> kind, ok |-> TRUE,
                                                 fee |-> Fee(kind), amount |-> effect.amount])
                  /\ accounts' = effect.set
        BY <2>2
      <3>2. Effective(kind, effect)
        BY <2>1, EveryEffect
      <3>3. PICK tx : tx = [kind |-> kind, ok |-> TRUE, fee |-> Fee(kind), amount |-> effect.amount]
        OBVIOUS
      <3>4. tx \in Tx /\ Books(Decode(effect.set), Append(history, tx), Len(history) + 1)
        BY <2>1, <3>2, <3>3, BooksFollow
      <3>5. AccountsInv(effect.set, Len(history) + 1)
        BY <3>2 DEF Effective, Slot
      <3> QED
        BY <3>1, <3>3, <3>4, <3>5
    <2>3. CASE /\ kind = CreateWallet
               /\ history' = Append(history, [kind |-> kind, ok |-> FALSE, fee |-> 0, amount |-> 0])
               /\ UNCHANGED accounts
      <3>1. PICK tx : tx = [kind |-> CreateWallet, ok |-> FALSE, fee |-> 0, amount |-> 0]
        OBVIOUS
      <3>2. tx \in Tx /\ Books(Decode(accounts), Append(history, tx), Len(history) + 1)
        BY <2>1, <3>1, BooksIgnoreFailures
      <3>3. AccountsInv(accounts, Len(history) + 1)
        BY <2>1, BeforeEffect DEF Slot
      <3> QED
        BY <2>3, <3>1, <3>2, <3>3
    <2> QED
      BY <2>2, <2>3 DEF Finalised
  <1>2. history \in Seq(Tx) /\ Len(history) \in Nat
    BY DEF ChecksInv, BooksInv, Founded
  <1>3. Len(history') = Len(history) + 1 /\ history' \in Seq(Tx)
    BY <1>1, <1>2
  <1>4. 0 .. Len(history) \subseteq 0 .. Len(history')
    BY <1>2, <1>3
  <1>5. BooksInv'
    <2>1. Founded'
      BY <1>1, <1>3 DEF Founded
    <2>2. Books(Decode(accounts'), history', Len(history'))
      BY <1>1, <1>3
    <2>3. reading.step = "state" =>
             reading.slot \in 0 .. Len(history') /\ Books(reading.totals, history', reading.slot)
      BY <1>1, <1>2, BooksStay DEF ChecksInv, BooksInv
    <2>4. state # NoState =>
             state.slot \in 0 .. Len(history') /\ Books(state.totals, history', state.slot)
      BY <1>1, <1>2, BooksStay DEF ChecksInv, BooksInv
    <2> QED
      BY <1>0, <2>1, <2>2, <2>3, <2>4 DEF BooksInv
  <1>6. StampsInv'
    BY <1>0, <1>4 DEF ChecksInv, StampsInv, Through, Collected
  <1>7. CollectedInv'
    <2>1. 1 .. Len(history) \subseteq 1 .. Len(history')
      BY <1>2, <1>3
    <2> QED
      BY <1>0, <2>1 DEF ChecksInv, CollectedInv, Through, Collected
  <1> QED
    BY <1>5, <1>6, <1>7 DEF ChecksInv

\* A snapshot at hand has the books of its slot, and none is at hand after any
\* other step.
LEMMA BooksFrame ==
  ASSUME BooksInv, UNCHANGED <<history, accounts, state>>,
         reading' = reading \/ reading'.step # "state"
  PROVE  BooksInv'
  BY DEF BooksInv, Founded, Books

LEMMA GetAccountsKeeps == ChecksInv /\ GetAccounts => ChecksInv'
  <1> SUFFICES ASSUME ChecksInv, GetAccounts PROVE ChecksInv'
    OBVIOUS
  <1>0. /\ UNCHANGED <<history, accounts, state, queued, rows, unread, frontier, discoveredAt, trailed>>
        /\ now' = now + 1
        /\ reading'.step = "state" /\ reading'.at = now'
        /\ reading'.slot = Len(history) /\ reading'.totals = Decode(accounts)
    BY DEF GetAccounts, Chain
  <1>1. Len(history) \in Nat
    BY DEF ChecksInv, BooksInv, Founded
  <1>2. BooksInv'
    <2>1. /\ Founded' /\ Books(Decode(accounts), history, Len(history))'
          /\ (state # NoState =>
               state.slot \in 0 .. Len(history) /\ Books(state.totals, history, state.slot))'
      BY <1>0 DEF ChecksInv, BooksInv, Founded, Books
    <2>2. reading'.slot \in 0 .. Len(history')
      BY <1>0, <1>1
    <2>3. Books(reading'.totals, history', reading'.slot)
      BY <1>0 DEF ChecksInv, BooksInv
    <2> QED
      BY <2>1, <2>2, <2>3 DEF BooksInv
  <1>3. StampsInv'
    BY <1>0 DEF ChecksInv, StampsInv
  <1>4. CollectedInv'
    BY <1>0 DEF ChecksInv, CollectedInv, Through, Collected
  <1> QED
    BY <1>2, <1>3, <1>4 DEF ChecksInv

LEMMA WriteStateKeeps == ChecksInv /\ WriteState => ChecksInv'
  <1> SUFFICES ASSUME ChecksInv, WriteState PROVE ChecksInv'
    OBVIOUS
  <1>0. /\ UNCHANGED <<history, accounts, queued, rows, unread, frontier, discoveredAt, now, trailed>>
        /\ reading.step = "state" /\ reading' = NotReading /\ reading'.step = "none"
        /\ state'.at = reading.at /\ state'.slot = reading.slot /\ state'.totals = reading.totals
    BY DEF WriteState, Chain, NotReading
  <1>1. reading.at = now /\ discoveredAt < now /\ now \in Nat /\ discoveredAt \in Nat
    BY <1>0 DEF ChecksInv, StampsInv, NotReading
  <1>2. BooksInv'
    <2>1. Founded' /\ Books(Decode(accounts), history, Len(history))'
      BY <1>0 DEF ChecksInv, BooksInv, Founded, Books
    <2>2. state'.slot \in 0 .. Len(history') /\ Books(state'.totals, history', state'.slot)
      BY <1>0 DEF ChecksInv, BooksInv
    <2> QED
      BY <1>0, <2>1, <2>2 DEF BooksInv
  <1>3. StampsInv'
    BY <1>0, <1>1 DEF ChecksInv, StampsInv
  <1>4. CollectedInv'
    BY <1>0, <1>1 DEF ChecksInv, CollectedInv, Through, Collected
  <1> QED
    BY <1>2, <1>3, <1>4 DEF ChecksInv

LEMMA StartDiscoveryKeeps == ChecksInv /\ StartDiscovery => ChecksInv'
  <1> SUFFICES ASSUME ChecksInv, StartDiscovery PROVE ChecksInv'
    OBVIOUS
  <1>0. /\ UNCHANGED <<history, accounts, state, queued, rows, unread, frontier, discoveredAt, trailed>>
        /\ now' = now + 1 /\ reading'.step = "pages" /\ reading'.at = now'
    BY DEF StartDiscovery, Chain
  <1>1. BooksInv'
    BY <1>0, BooksFrame DEF ChecksInv
  <1>2. StampsInv'
    BY <1>0 DEF ChecksInv, StampsInv
  <1>3. CollectedInv'
    BY <1>0 DEF ChecksInv, CollectedInv, Through, Collected
  <1> QED
    BY <1>1, <1>2, <1>3 DEF ChecksInv

\* Every signature the listing shows is collected.
LEMMA QueueAllKeeps == ChecksInv /\ QueueAll => ChecksInv'
  <1> SUFFICES ASSUME ChecksInv, QueueAll PROVE ChecksInv'
    OBVIOUS
  <1>0. PICK top \in 0 .. Len(history) :
          /\ UNCHANGED <<history, accounts, state, rows, unread, frontier, discoveredAt, now, trailed>>
          /\ reading.step = "pages" /\ reading'.step = "final"
          /\ reading'.at = reading.at /\ reading'.top = top
          /\ queued' = queued \cup (Unqueued \cap 1 .. top)
    BY DEF QueueAll, Chain
  <1>1. Len(history) \in Nat
    BY DEF ChecksInv, BooksInv, Founded
  <1>2. 1 .. top \subseteq 1 .. Len(history)
    BY <1>1
  <1>3. /\ Collected \subseteq Collected' /\ 1 .. top \subseteq Collected'
        /\ Collected' \subseteq 1 .. Len(history)
    BY <1>0, <1>2 DEF ChecksInv, CollectedInv, Collected, Unqueued
  <1>4. reading.at = now
    BY <1>0 DEF ChecksInv, StampsInv, NotReading
  <1>5. BooksInv'
    BY <1>0, BooksFrame DEF ChecksInv
  <1>6. StampsInv'
    BY <1>0, <1>3, <1>4 DEF ChecksInv, StampsInv, Through
  <1>7. CollectedInv'
    BY <1>0, <1>3 DEF ChecksInv, CollectedInv, Through
  <1> QED
    BY <1>5, <1>6, <1>7 DEF ChecksInv

LEMMA MaxOfTwo ==
  ASSUME NEW a \in Nat, NEW b \in Nat
  PROVE  Max({a, b}) = IF a >= b THEN a ELSE b
  <1>1. ASSUME NEW m \in {a, b}, \A y \in {a, b} : m >= y
        PROVE  m = IF a >= b THEN a ELSE b
    BY <1>1
  <1>2. \E m \in {a, b} : \A y \in {a, b} : m >= y
    OBVIOUS
  <1> QED
    BY <1>1, <1>2 DEF Max

LEMMA StampDiscoveryKeeps == ChecksInv /\ StampDiscovery => ChecksInv'
  <1> SUFFICES ASSUME ChecksInv, StampDiscovery PROVE ChecksInv'
    OBVIOUS
  <1>0. /\ UNCHANGED <<history, accounts, state, queued, rows, unread, now>>
        /\ reading.step = "final" /\ reading' = NotReading /\ reading'.step = "none"
        /\ frontier' = Max({frontier, reading.top})
        /\ discoveredAt' = Max({discoveredAt, reading.at})
        /\ trailed' <=> (state # NoState /\ reading.top < state.slot)
    BY DEF StampDiscovery, Chain, NotReading
  <1>1. reading.at = now /\ reading.top \in 0 .. Len(history) /\ Through(reading.top)
    BY <1>0 DEF ChecksInv, StampsInv, NotReading
  <1>2. /\ now \in Nat /\ discoveredAt \in Nat /\ discoveredAt <= now
        /\ frontier \in Nat /\ reading.top \in Nat /\ Len(history) \in Nat
        /\ frontier <= Len(history) /\ reading.top <= Len(history)
    BY <1>1 DEF ChecksInv, StampsInv, BooksInv, Founded
  <1>3. /\ frontier' = frontier \/ frontier' = reading.top
        /\ discoveredAt' = now
    BY <1>0, <1>1, <1>2, MaxOfTwo
  <1>4. BooksInv'
    BY <1>0, BooksFrame DEF ChecksInv
  <1>5. StampsInv'
    BY <1>0, <1>2, <1>3 DEF ChecksInv, StampsInv
  <1>6. CollectedInv'
    <2>1. state # NoState => state.slot \in Nat
      BY DEF ChecksInv, BooksInv
    <2>2. state # NoState /\ ~trailed' => 1 .. state.slot \subseteq 1 .. reading.top
      BY <1>0, <1>2, <2>1
    <2>3. Through(frontier) /\ Collected \subseteq 1 .. Len(history)
      BY DEF ChecksInv, CollectedInv
    <2> QED
      BY <1>0, <1>1, <1>3, <2>2, <2>3 DEF CollectedInv, Through, Collected
  <1> QED
    BY <1>4, <1>5, <1>6 DEF ChecksInv

\* The chunks that stay are signatures of the chain.
LEMMA ReadFailsKeeps == ChecksInv /\ ReadFails => ChecksInv'
  <1> SUFFICES ASSUME ChecksInv, ReadFails PROVE ChecksInv'
    OBVIOUS
  <1>0. /\ UNCHANGED <<history, accounts, state, rows, unread, frontier, discoveredAt, now, trailed>>
        /\ reading' = NotReading /\ reading'.step = "none"
    BY DEF ReadFails, Chain, NotReading
  <1>1. PICK chunk \in SUBSET Unqueued : queued' = queued \cup chunk
    BY DEF ReadFails
  <1>2. BooksInv'
    BY <1>0, BooksFrame DEF ChecksInv
  <1>3. StampsInv'
    BY <1>0 DEF ChecksInv, StampsInv
  <1>4. Collected \subseteq Collected' /\ Collected' \subseteq Collected \cup Unqueued
    BY <1>0, <1>1 DEF Collected
  <1>5. CollectedInv'
    BY <1>0, <1>4 DEF ChecksInv, CollectedInv, Through, Unqueued
  <1> QED
    BY <1>2, <1>3, <1>5 DEF ChecksInv

\* A signature moves between the queue, the gaps and the rows.
LEMMA IngestKeeps ==
  ASSUME ChecksInv, NEW slot, Ingested(slot) \/ RepairGap(slot)
  PROVE  ChecksInv'
  <1>0. /\ UNCHANGED <<history, accounts, state, reading, frontier, discoveredAt, now, trailed>>
        /\ Collected' = Collected
    BY DEF Ingested, RepairGap, Chain, Collected
  <1>1. BooksInv'
    BY <1>0, BooksFrame DEF ChecksInv
  <1>2. StampsInv'
    BY <1>0 DEF ChecksInv, StampsInv, Through
  <1>3. CollectedInv'
    BY <1>0 DEF ChecksInv, CollectedInv, Through
  <1> QED
    BY <1>1, <1>2, <1>3 DEF ChecksInv

LEMMA ChecksNextKeeps == ChecksInv /\ [ChecksNext]_checksVars => ChecksInv'
  <1> SUFFICES ASSUME ChecksInv, [ChecksNext]_checksVars PROVE ChecksInv'
    OBVIOUS
  <1>1. CASE \E kind \in Kinds : Finalised(kind)
    BY <1>1, FinalisedKeeps
  <1>2. CASE GetAccounts \/ WriteState \/ StartDiscovery
    BY <1>2, GetAccountsKeeps, WriteStateKeeps, StartDiscoveryKeeps
  <1>3. CASE QueueAll \/ StampDiscovery \/ ReadFails
    BY <1>3, QueueAllKeeps, StampDiscoveryKeeps, ReadFailsKeeps
  <1>4. CASE \E slot \in 1 .. MaxSlot : Ingested(slot) \/ RepairGap(slot)
    BY <1>4, IngestKeeps
  <1>5. CASE UNCHANGED checksVars
    BY <1>5 DEF checksVars, ChecksInv, BooksInv, Founded, Books, StampsInv, CollectedInv,
                Through, Collected
  <1> QED
    BY <1>1, <1>2, <1>3, <1>4, <1>5 DEF ChecksNext

-----------------------------------------------------------------------------
(* What the checks report                                                  *)

\* Without the events after the snapshot, the days hold the slots up to it.
LEMMA HeldUpToState ==
  ASSUME ChecksInv, Ready, ~trailed, unread \subseteq AfterState(unread)
  PROVE  Held(rows) = 1 .. state.slot
  <1>1. /\ state.slot \in Nat /\ Len(history) \in Nat
        /\ 1 .. state.slot \subseteq rows \cup unread
        /\ rows \subseteq 1 .. Len(history)
    BY DEF ChecksInv, BooksInv, CollectedInv, Through, Collected, Ready, Founded
  <1>2. \A s \in unread : s > state.slot
    BY DEF AfterState
  <1>3. 1 .. state.slot \subseteq rows
    BY <1>1, <1>2
  <1>4. PICK n \in Nat : n = state.slot
    BY <1>1
  <1>5. \A s \in rows : s \in Nat /\ s >= 1
    BY <1>1
  <1>6. Held(rows) = {s \in rows : ~(s > n)}
    BY <1>4 DEF Held, AfterState
  <1>7. {s \in rows : ~(s > n)} = 1 .. n
    <2>1. ASSUME NEW s \in rows PROVE ~(s > n) <=> s \in 1 .. n
      BY <1>5
    <2>2. 1 .. n \subseteq rows
      BY <1>3, <1>4
    <2> QED
      BY <2>1, <2>2
  <1> QED
    BY <1>4, <1>6, <1>7

LEMMA ReportsAgree == ChecksInv => InvariantsAgree
  <1> SUFFICES ASSUME ChecksInv, Ready, ~trailed, unread \subseteq AfterState(unread),
                      NEW id \in DOMAIN Checks
               PROVE  Checks[id][1] = Checks[id][2]
    BY DEF InvariantsAgree
  <1>1. Held(rows) = 1 .. state.slot
    BY HeldUpToState
  <1>2. /\ \A kind : /\ Counted(rows, kind) = NumberOf(history, state.slot, kind)
                     /\ Amount(rows, kind) = PaidBy(history, state.slot, kind)
        /\ Fees(rows) = FeesUpTo(history, state.slot)
    BY <1>1 DEF Counted, Amount, Fees, Ok, NumberOf, PaidBy, FeesUpTo, Landed
  <1>3. Books(state.totals, history, state.slot)
    BY DEF ChecksInv, BooksInv, Ready
  <1> QED
    BY <1>2, <1>3 DEF Checks, Books

LEMMA DaysAgree == ChecksInv => HistoryAgrees
  <1> SUFFICES ASSUME ChecksInv, Comparable, NEW seen \in 0 .. Len(history)
               PROVE  /\ ChainDay(seen) \subseteq StoredDay
                      /\ StoredDay \subseteq 1 .. frontier /\ frontier <= seen
                           => DayOf(ChainDay(seen)) = DayOf(StoredDay)
    BY DEF HistoryAgrees
  <1>1. frontier \in Nat /\ Len(history) \in Nat /\ seen \in Nat
    BY DEF ChecksInv, BooksInv, StampsInv, Founded
  <1>2. /\ ChainDay(seen) \subseteq 1 .. frontier
        /\ frontier <= seen => ChainDay(seen) = 1 .. frontier
    BY <1>1 DEF ChainDay
  <1>3. Collected = StoredDay
    BY DEF Comparable, Collected, StoredDay
  <1>4. 1 .. frontier \subseteq StoredDay
    BY <1>3 DEF ChecksInv, CollectedInv, Through
  <1> QED
    BY <1>2, <1>4

\* lk.check_invariants (I1 to I6) and verify:chain are right whatever the
\* instructions, the transactions that fail, the calls that fail between any
\* two steps of a run, the transactions that land meanwhile, and wherever the
\* listings end, but for the one that ends below the snapshot it is compared
\* with (or, in verify:chain, below the frontier).
THEOREM ChecksAreRightUnlessListingTrails == ChecksSpec => []ChecksAgree
  <1>1. ChecksInv => ChecksAgree
    BY ReportsAgree, DaysAgree DEF ChecksAgree
  <1> QED
    BY <1>1, ChecksInitInv, ChecksNextKeeps, PTL DEF ChecksSpec
=============================================================================
