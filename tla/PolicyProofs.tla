---------------------------- MODULE PolicyProofs ----------------------------
(***************************************************************************)
(* Proofs about SampledLFU and Policy, for any keys, hashes, costs, limits *)
(* and samples.                                                            *)
(*                                                                         *)
(* The tracked keys, the array and its index agree, and the counters are   *)
(* those of the tracked keys.  Every step of Policy is a step of           *)
(* SampledLFU or leaves it alone.  An Add that gets its room leaves its    *)
(* loop with the limits met or with nothing tracked; everything else that  *)
(* may change the number of entries lowers it, or is a refusal.  The       *)
(* frequencies do not depend on any of this.                               *)
(***************************************************************************)
EXTENDS Policy, FiniteSums

-----------------------------------------------------------------------------
(* SampledLFU: types, and the array with its index.                        *)

LfuInv == LfuType /\ DenseArray /\ numEntries = Len(keys)

\* The invariant holds in an empty structure, new or cleared.
LEMMA InitInv == LfuInit => LfuInv
<1> SUFFICES ASSUME LfuInit PROVE LfuInv
  OBVIOUS
<1> USE DEF LfuInit
<1>1. Tracked = {} /\ DOMAIN keyIndex = {} /\ Len(keys) = 0
  BY DEF Tracked
<1>2. LfuType
  BY <1>1 DEF LfuType, Tracked
<1>3. DenseArray
  BY <1>1 DEF DenseArray
<1> QED BY <1>1, <1>2, <1>3 DEF LfuInv

\* A new cost leaves the array and the index alone.
LEMMA RecostInv ==
  ASSUME LfuInv, NEW k \in Key, NEW c \in Cost, Recost(k, c)
  PROVE  LfuInv'
<1> USE DEF LfuInv, Recost
<1>1. Tracked' = Tracked
  BY DEF Tracked, LfuType
<1>2. LfuType'
  BY <1>1, LimitAssumption DEF LfuType, Tracked
<1>3. DenseArray'
  BY <1>1 DEF DenseArray
<1> QED BY <1>2, <1>3

\* Add of a new key puts it behind all others.
LEMMA InsertInv ==
  ASSUME LfuInv, NEW k \in Key, NEW c \in Cost, k \notin Tracked, LfuAdd(k, c)
  PROVE  LfuInv'
<1> DEFINE n == Len(keys)
<1>1. /\ costs' = Set(costs, k, c) /\ keys' = Append(keys, k)
      /\ keyIndex' = Set(keyIndex, k, n + 1)
      /\ usedCost' = usedCost + c /\ numEntries' = numEntries + 1
  BY DEF LfuAdd, Recost
<1>2. /\ n \in Nat /\ DOMAIN keyIndex = Tracked /\ Tracked \subseteq Key
      /\ \A i \in 1 .. n : keys[i] \in Tracked
  BY DEF LfuInv, LfuType, DenseArray
<1>3. Tracked' = Tracked \cup {k} /\ DOMAIN keyIndex' = Tracked \cup {k}
  BY <1>1, <1>2 DEF Set, Tracked
<1>4. /\ Len(keys') = n + 1 /\ keys' \in Seq(Key) /\ keys'[n + 1] = k
      /\ \A i \in 1 .. n : keys'[i] = keys[i]
  BY <1>1 DEF LfuInv, LfuType
<1>5. keyIndex'[k] = n + 1 /\ \A j \in Tracked : keyIndex'[j] = keyIndex[j]
  BY <1>1, <1>2 DEF Set
<1>6. LfuType'
  <2>1. costs' \in [Tracked' -> Cost]
    BY <1>1, <1>3 DEF Set, Tracked, LfuInv, LfuType
  <2>2. keyIndex' \in [DOMAIN keyIndex' -> Nat \ {0}]
    BY <1>1, <1>2, <1>3 DEF Set, LfuInv, LfuType
  <2> QED
    BY <1>1, <1>2, <1>3, <1>4, <2>1, <2>2, LimitAssumption DEF LfuInv, LfuType
<1>7. DenseArray'
  BY <1>2, <1>3, <1>4, <1>5 DEF LfuInv, DenseArray
<1> QED BY <1>1, <1>4, <1>6, <1>7 DEF LfuInv

\* Swap-delete: the last key takes the place of the deleted one.
LEMMA DeleteInv ==
  ASSUME LfuInv, NEW k \in Tracked, LfuDel(k)
  PROVE  LfuInv'
<1> DEFINE n == Len(keys)
           p == keyIndex[k]
<1>1. /\ n \in Nat /\ p \in 1 .. n /\ k \in Key
      /\ DOMAIN keyIndex = Tracked /\ keys[p] = k
  BY DEF LfuInv, LfuType, DenseArray
<1>2. /\ costs' = Unset(costs, k) /\ usedCost' = usedCost - costs[k]
      /\ numEntries' = numEntries - 1
      /\ SwapDelete(k)
  BY <1>1 DEF LfuDel
<1>3. Tracked' = Tracked \ {k}
  BY <1>2 DEF Unset, Tracked
<1>4. /\ keys' \in Seq(Key) /\ Len(keys') = n - 1
      /\ \A i \in 1 .. n - 1 : keys'[i] = IF i = p THEN keys[n] ELSE keys[i]
  <2> DEFINE moved == [keys EXCEPT ![p] = keys[n]]
  <2>1. moved \in Seq(Key) /\ Len(moved) = n
    BY <1>1 DEF LfuInv, LfuType
  <2>2. \A i \in 1 .. n : moved[i] = IF i = p THEN keys[n] ELSE keys[i]
    BY <1>1 DEF LfuInv, LfuType
  <2>3. keys' = SubSeq(moved, 1, n - 1)
    BY <1>2 DEF SwapDelete
  <2> HIDE DEF moved
  <2> QED BY <1>1, <2>1, <2>2, <2>3
<1>5. /\ DOMAIN keyIndex' = Tracked \ {k}
      /\ \A j \in Tracked \ {k} : keyIndex'[j] = IF j = keys[n] THEN p ELSE keyIndex[j]
  <2>1. CASE p = n
    BY <1>1, <1>2, <2>1 DEF SwapDelete, Unset
  <2>2. CASE p # n
    BY <1>1, <1>2, <2>2 DEF SwapDelete, Unset, LfuInv, LfuType
  <2> QED BY <2>1, <2>2
<1>6. /\ keys[n] \in Tracked
      /\ \A i \in 1 .. n : keys[i] \in Tracked /\ keyIndex[keys[i]] = i
      /\ \A j \in Tracked : keyIndex[j] \in 1 .. n /\ keys[keyIndex[j]] = j
  BY <1>1 DEF LfuInv, DenseArray
<1>7. LfuType'
  <2>1. costs' \in [Tracked' -> Cost]
    BY <1>2, <1>3 DEF Unset, Tracked, LfuInv, LfuType
  <2>2. costs[k] \in Nat
    BY LimitAssumption DEF LfuInv, LfuType
  <2>3. keyIndex' = [j \in DOMAIN keyIndex' |-> keyIndex'[j]]
    BY <1>2 DEF SwapDelete, Unset
  <2>4. keyIndex' \in [DOMAIN keyIndex' -> Nat \ {0}]
    BY <1>1, <1>5, <1>6, <2>3
  <2> QED
    BY <1>2, <1>3, <1>4, <1>5, <2>1, <2>2, <2>4 DEF LfuInv, LfuType
<1>8. DenseArray'
  <2>1. DOMAIN keyIndex' = Tracked'
    BY <1>3, <1>5
  <2>2. ASSUME NEW j \in Tracked'
        PROVE  keyIndex'[j] \in 1 .. n - 1 /\ keys'[keyIndex'[j]] = j
    <3>1. j \in Tracked /\ j # k  BY <1>3
    <3>2. CASE j = keys[n]
      <4>1. p # n /\ keyIndex'[j] = p  BY <1>1, <1>5, <3>1, <3>2
      <4> QED BY <1>1, <1>4, <3>2, <4>1
    <3>3. CASE j # keys[n]
      <4>1. keyIndex'[j] = keyIndex[j]  BY <1>5, <3>1, <3>3
      <4>2. keyIndex[j] \in 1 .. n - 1 /\ keyIndex[j] # p
        BY <1>1, <1>6, <3>1, <3>3
      <4> QED BY <1>4, <1>6, <3>1, <4>1, <4>2
    <3> QED BY <3>2, <3>3
  <2>3. ASSUME NEW i \in 1 .. n - 1
        PROVE  keys'[i] \in Tracked' /\ keyIndex'[keys'[i]] = i
    <3>1. i \in 1 .. n /\ n \in 1 .. n /\ i # n  BY <1>1
    <3>2. CASE i = p
      <4>1. keys'[i] = keys[n] /\ keys[n] # k  BY <1>1, <1>4, <1>6, <3>1, <3>2
      <4> QED BY <1>3, <1>5, <1>6, <3>2, <4>1
    <3>3. CASE i # p
      <4>1. keys'[i] = keys[i] /\ keys[i] # k /\ keys[i] # keys[n]
        BY <1>1, <1>4, <1>6, <3>1, <3>3
      <4> QED BY <1>3, <1>5, <1>6, <3>1, <4>1
    <3> QED BY <3>2, <3>3
  <2> QED BY <1>4, <2>1, <2>2, <2>3 DEF DenseArray
<1> QED BY <1>1, <1>2, <1>4, <1>7, <1>8 DEF LfuInv

\* So the invariant is inductive.
LEMMA NextInv == LfuInv /\ [LfuNext]_lfuVars => LfuInv'
<1> SUFFICES ASSUME LfuInv, [LfuNext]_lfuVars PROVE LfuInv'
  OBVIOUS
<1>1. ASSUME NEW k \in Key, NEW c \in Cost, Recost(k, c) PROVE LfuInv'
  BY <1>1, RecostInv
<1>2. ASSUME NEW k \in Key, NEW c \in Cost, LfuAdd(k, c) PROVE LfuInv'
  BY <1>1, <1>2, InsertInv DEF LfuAdd
<1>3. ASSUME NEW k \in Tracked, LfuDel(k) PROVE LfuInv'
  BY <1>3, DeleteInv
<1>4. CASE LfuClear
  <2>1. LfuInit'
    BY <1>4 DEF LfuClear, LfuInit
  <2> QED BY <2>1, InitInv, PTL
<1>5. CASE UNCHANGED lfuVars
  BY <1>5 DEF lfuVars, LfuInv, LfuType, DenseArray, Tracked
<1> QED
  BY <1>1, <1>2, <1>3, <1>4, <1>5 DEF LfuNext, LfuUpdate, LfuDel

\* Every operation of SampledLFU keeps the array, the index and the tracked
\* keys in agreement: swap-delete always moves the key it says it moves.
THEOREM ArrayDense == LfuSpec => []DenseArray
<1>1. LfuInv => DenseArray
  BY DEF LfuInv
<1> QED BY InitInv, NextInv, <1>1, PTL DEF LfuSpec

-----------------------------------------------------------------------------
(* SampledLFU: the counters.                                               *)

CountInv == IsFiniteSet(Tracked) /\ CountersExact

\* usedCost as a sum with laws.
LEMMA UsedIsSum == CountersExact <=> /\ numEntries = Cardinality(Tracked)
                                     /\ usedCost = SumOver(costs, Tracked)
BY DEF CountersExact, SumOver

LEMMA UsedIsSumNext ==
  ASSUME numEntries' = Cardinality(Tracked'), usedCost' = SumOver(costs', Tracked')
  PROVE  CountersExact'
BY DEF CountersExact, SumOver, MapThenSumSet, MapThenFoldSet

\* Recost adds the difference of the costs.
LEMMA RecostCount ==
  ASSUME LfuInv, CountInv, NEW k \in Key, NEW c \in Cost, Recost(k, c)
  PROVE  CountInv'
<1>1. /\ k \in Tracked /\ usedCost' = usedCost + c - costs[k] /\ numEntries' = numEntries
      /\ Tracked' = Tracked
      /\ costs'[k] = c /\ \A j \in Tracked \ {k} : costs'[j] = costs[j]
  BY DEF Recost, Tracked, LfuInv, LfuType
<1>2. \A j \in Tracked : costs[j] \in Int /\ c \in Int
  BY LimitAssumption DEF LfuInv, LfuType
<1>3. PICK f, e, S : f = costs /\ e = costs' /\ S = Tracked
  OBVIOUS
<1>4. SumOver(e, S) = SumOver(f, S) - f[k] + e[k] /\ SumOver(f, S) \in Int
  BY <1>1, <1>2, <1>3, SumChange, SumType DEF CountInv
<1>5. usedCost = SumOver(f, S)
  BY <1>3, UsedIsSum DEF CountInv
<1>6. usedCost' = SumOver(e, S)
  BY <1>1, <1>2, <1>3, <1>4, <1>5
<1>7. numEntries' = Cardinality(Tracked') /\ usedCost' = SumOver(costs', Tracked')
  BY <1>1, <1>3, <1>6, UsedIsSum DEF CountInv
<1>8. CountersExact'
  BY <1>7, UsedIsSumNext
<1> QED BY <1>1, <1>8 DEF CountInv

\* Add of a new key counts it.
LEMMA InsertCount ==
  ASSUME LfuInv, CountInv, NEW k \in Key, NEW c \in Cost, k \notin Tracked, LfuAdd(k, c)
  PROVE  CountInv'
<1>1. /\ usedCost' = usedCost + c /\ numEntries' = numEntries + 1
      /\ Tracked' = Tracked \cup {k}
      /\ costs'[k] = c /\ \A j \in Tracked : costs'[j] = costs[j]
  BY DEF LfuAdd, Recost, Set, Tracked
<1>2. /\ \A j \in Tracked : costs[j] \in Int
      /\ c \in Int /\ Cardinality(Tracked) \in Nat
  BY LimitAssumption, FS_CardinalityType DEF LfuInv, LfuType, CountInv
<1>3. PICK f, e, S : f = costs /\ e = costs' /\ S = Tracked
  OBVIOUS
<1>4. SumOver(e, S \cup {k}) = SumOver(e, S) + e[k]
  <2>1. IsFiniteSet(S) /\ k \notin S /\ \A y \in S \cup {k} : e[y] \in Int
    BY <1>1, <1>2, <1>3 DEF CountInv
  <2> QED BY <2>1, SumInsert
<1>5. SumOver(f, S) = SumOver(e, S) /\ SumOver(f, S) \in Int
  BY <1>1, <1>2, <1>3, SumCongruence, SumType DEF CountInv
<1>6. usedCost = SumOver(f, S) /\ numEntries = Cardinality(S)
  BY <1>3, UsedIsSum DEF CountInv
<1>7. usedCost' = SumOver(costs', Tracked')
  BY <1>1, <1>3, <1>4, <1>5, <1>6
<1>8. IsFiniteSet(Tracked') /\ numEntries' = Cardinality(Tracked')
  BY <1>1, <1>2, <1>3, <1>6, FS_AddElement DEF CountInv
<1> QED BY <1>7, <1>8, UsedIsSumNext DEF CountInv

\* Del takes away what the key cost.
LEMMA DeleteCount ==
  ASSUME LfuInv, CountInv, NEW k \in Tracked, LfuDel(k)
  PROVE  CountInv'
<1>1. /\ usedCost' = usedCost - costs[k] /\ numEntries' = numEntries - 1
      /\ Tracked' = Tracked \ {k}
      /\ \A j \in Tracked \ {k} : costs'[j] = costs[j]
  BY DEF LfuDel, Unset, Tracked
<1>2. /\ \A j \in Tracked : costs[j] \in Int
      /\ Cardinality(Tracked) \in Nat
  BY LimitAssumption, FS_CardinalityType DEF LfuInv, LfuType, CountInv
<1>3. PICK f, e, S : f = costs /\ e = costs' /\ S = Tracked
  OBVIOUS
<1>4. SumOver(f, S \ {k}) = SumOver(f, S) - f[k]
  BY <1>2, <1>3, SumDelete DEF CountInv
<1>5. IsFiniteSet(S \ {k}) /\ Cardinality(S \ {k}) = Cardinality(S) - 1
  BY <1>3, FS_RemoveElement DEF CountInv
<1>6. SumOver(f, S \ {k}) = SumOver(e, S \ {k})
  BY <1>1, <1>2, <1>3, <1>5, SumCongruence
<1>7. usedCost = SumOver(f, S) /\ numEntries = Cardinality(S)
  BY <1>3, UsedIsSum DEF CountInv
<1>8. usedCost' = SumOver(costs', Tracked')
  BY <1>1, <1>3, <1>4, <1>6, <1>7
<1>9. IsFiniteSet(Tracked') /\ numEntries' = Cardinality(Tracked')
  BY <1>1, <1>3, <1>5, <1>7
<1> QED BY <1>8, <1>9, UsedIsSumNext DEF CountInv

\* An empty structure, new or cleared, uses nothing.
LEMMA EmptyCount ==
  ASSUME costs' = <<>>, usedCost' = 0, numEntries' = 0
  PROVE  CountInv'
<1>1. Tracked' = {}
  BY DEF Tracked
<1>2. PICK e : e = costs'
  OBVIOUS
<1>3. SumOver(e, {}) = 0
  BY FS_EmptySet, SumType
<1>4. IsFiniteSet(Tracked') /\ Cardinality(Tracked') = 0 /\ SumOver(costs', Tracked') = 0
  BY <1>1, <1>2, <1>3, FS_EmptySet
<1> QED BY <1>4, UsedIsSumNext DEF CountInv

LEMMA InitCount == LfuInit => CountInv
<1> SUFFICES ASSUME LfuInit PROVE CountInv
  OBVIOUS
<1>1. Tracked = {}
  BY DEF Tracked, LfuInit
<1>2. PICK f : f = costs
  OBVIOUS
<1>3. SumOver(f, {}) = 0
  BY FS_EmptySet, SumType
<1> QED BY <1>1, <1>2, <1>3, UsedIsSum, FS_EmptySet DEF CountInv, LfuInit

LEMMA NextCount == LfuInv /\ CountInv /\ [LfuNext]_lfuVars => CountInv'
<1> SUFFICES ASSUME LfuInv, CountInv, [LfuNext]_lfuVars PROVE CountInv'
  OBVIOUS
<1>1. ASSUME NEW k \in Key, NEW c \in Cost, Recost(k, c) PROVE CountInv'
  BY <1>1, RecostCount
<1>2. ASSUME NEW k \in Key, NEW c \in Cost, LfuAdd(k, c) PROVE CountInv'
  BY <1>1, <1>2, InsertCount DEF LfuAdd
<1>3. ASSUME NEW k \in Tracked, LfuDel(k) PROVE CountInv'
  BY <1>3, DeleteCount
<1>4. CASE LfuClear
  BY <1>4, EmptyCount DEF LfuClear
<1>5. CASE UNCHANGED lfuVars
  <2>1. UNCHANGED <<costs, usedCost, numEntries, Tracked>>
    BY <1>5 DEF lfuVars, Tracked
  <2>2. usedCost' = SumOver(costs', Tracked') /\ numEntries' = Cardinality(Tracked')
    BY <2>1, UsedIsSum DEF CountInv
  <2> QED BY <2>1, <2>2, UsedIsSumNext DEF CountInv
<1> QED
  BY <1>1, <1>2, <1>3, <1>4, <1>5 DEF LfuNext, LfuUpdate, LfuDel

-----------------------------------------------------------------------------
(* Policy: the limit.                                                      *)

\* What the proof needs to know of an Add under way.
AddKnown ==
  add.pc # "none" =>
    /\ add = [f \in DOMAIN add |-> add[f]] /\ {"pc", "key", "cost"} \subseteq DOMAIN add
    /\ add.key \in Key /\ add.cost \in Cost

PolicyInv == LfuInv /\ AddKnown /\ EvictsBackToLimit

\* What a step does to the number of entries.
LEMMA Lowers ==
  ASSUME LfuInv, NEW k, LfuDel(k)
  PROVE  [LfuNext]_lfuVars /\ numEntries' <= numEntries
<1>1. CASE k \in Tracked
  <2>1. k \in Key  BY <1>1 DEF LfuInv, LfuType
  <2> QED BY <1>1, <2>1 DEF LfuNext, LfuDel, LfuInv, LfuType
<1>2. CASE k \notin Tracked
  BY <1>2 DEF LfuDel, lfuVars, LfuInv, LfuType
<1> QED BY <1>1, <1>2

LEMMA Keeps ==
  ASSUME LfuInv, NEW k \in Key, NEW c \in Cost, LfuUpdate(k, c)
  PROVE  [LfuNext]_lfuVars /\ numEntries' = numEntries
BY DEF LfuNext, LfuUpdate, Recost, lfuVars

LEMMA Raises ==
  ASSUME LfuInv, NEW k \in Key, NEW c \in Cost, LfuAdd(k, c)
  PROVE  [LfuNext]_lfuVars /\ numEntries' <= numEntries + 1
BY DEF LfuNext, LfuAdd, Recost, LfuInv, LfuType

LEMMA PolicyInitInv == PolicyInit => PolicyInv
<1>1. PolicyInit => LfuInv
  BY InitInv DEF PolicyInit
<1>2. PolicyInit => AddKnown
  BY DEF PolicyInit, AddKnown, NoAdd
<1>3. PolicyInit => EvictsBackToLimit
  BY LimitAssumption DEF PolicyInit, LfuInit, EvictsBackToLimit
<1> QED BY <1>1, <1>2, <1>3 DEF PolicyInv

\* A step that neither ends an Add nor changes the entries.
LEMMA QuietInv ==
  ASSUME PolicyInv, UNCHANGED <<lfuVars, refused>>, AddKnown'
  PROVE  PolicyInv'
<1>1. LfuInv'  BY NextInv DEF PolicyInv
<1> QED BY <1>1 DEF PolicyInv, EvictsBackToLimit, lfuVars

\* A step that removes entries.
LEMMA LowersInv ==
  ASSUME PolicyInv, NEW k, LfuDel(k), refused' = refused, AddKnown'
  PROVE  PolicyInv'
<1>1. [LfuNext]_lfuVars /\ numEntries' <= numEntries  BY Lowers DEF PolicyInv
<1>2. LfuInv'  BY <1>1, NextInv DEF PolicyInv
<1>3. numEntries \in Int /\ numEntries' \in Int
  BY <1>2 DEF PolicyInv, LfuInv, LfuType
<1> QED BY <1>1, <1>2, <1>3, LimitAssumption DEF PolicyInv, EvictsBackToLimit

\* A step that changes the cost of a key.
LEMMA UpdateInv ==
  ASSUME PolicyInv, NEW k \in Key, NEW c \in Cost, LfuUpdate(k, c),
         refused' = refused, AddKnown'
  PROVE  PolicyInv'
<1>1. [LfuNext]_lfuVars /\ numEntries' = numEntries  BY Keeps DEF PolicyInv
<1>2. LfuInv'  BY <1>1, NextInv DEF PolicyInv
<1> QED BY <1>1, <1>2 DEF PolicyInv, EvictsBackToLimit

\* The loop over the victims ends with the limit met or with nothing tracked.
LEMMA InsertRoomInv ==
  ASSUME PolicyInv, AddInsert
  PROVE  PolicyInv'
<1>1. add.pc # "none" /\ add.key \in Key /\ add.cost \in Cost
  BY DEF AddInsert, PolicyInv, AddKnown
<1>2. /\ [LfuNext]_lfuVars
      /\ numEntries' <= numEntries + 1
  BY <1>1, Raises DEF PolicyInv, AddInsert
<1>3. LfuInv'  BY <1>2, NextInv DEF PolicyInv
<1>4. numEntries \in Int /\ numEntries' \in Int
  BY <1>3 DEF PolicyInv, LfuInv, LfuType
<1>5. MaxEntries > 0 => numEntries <= MaxEntries
  <2>1. CASE keys = <<>>
    BY <2>1, LimitAssumption DEF PolicyInv, LfuInv
  <2>2. CASE ~NeedsEviction
    BY <2>2, <1>4, LimitAssumption DEF NeedsEviction
  <2> QED BY <2>1, <2>2 DEF AddInsert, StillOver
<1>6. AddKnown'
  BY DEF AddInsert, AddKnown, NoAdd
<1> QED BY <1>2, <1>3, <1>4, <1>5, <1>6, LimitAssumption DEF PolicyInv, EvictsBackToLimit

\* A refused Add gives up the limit, and says so.
LEMMA RefuseInv ==
  ASSUME PolicyInv, AddRefuse
  PROVE  PolicyInv'
<1>1. add.key \in Key /\ add.cost \in Cost
  BY DEF AddRefuse, PolicyInv, AddKnown
<1>2. [LfuNext]_lfuVars
  BY <1>1, Raises DEF PolicyInv, AddRefuse
<1>3. LfuInv'  BY <1>2, NextInv DEF PolicyInv
<1>4. AddKnown' /\ EvictsBackToLimit'
  BY DEF AddRefuse, AddKnown, NoAdd, EvictsBackToLimit
<1> QED BY <1>3, <1>4 DEF PolicyInv

LEMMA PolicyNextInv == PolicyInv /\ [PolicyNext]_vars => PolicyInv'
<1> SUFFICES ASSUME PolicyInv, [PolicyNext]_vars PROVE PolicyInv'
  OBVIOUS
<1>0. AddKnown  BY DEF PolicyInv
<1>1. ASSUME NEW k \in Key, Access(k) PROVE PolicyInv'
  <2>1. AddKnown'  BY <1>0, <1>1 DEF Access, AddKnown
  <2> QED BY <1>1, <2>1, QuietInv DEF Access, resultVars
<1>2. ASSUME NEW k \in Key, Del(k) PROVE PolicyInv'
  <2>1. AddKnown'  BY <1>0, <1>2 DEF Del, AddKnown
  <2> QED BY <1>2, <2>1, LowersInv DEF Del, resultVars
<1>3. ASSUME NEW k \in Key, NEW c \in Cost, AddCall(k, c) PROVE PolicyInv'
  <2>1. AddKnown'  BY <1>3 DEF AddCall, AddKnown
  <2> QED BY <1>3, <2>1, QuietInv DEF AddCall, resultVars
<1>4. ASSUME NEW k \in Key, NEW c \in Cost, Update(k, c) PROVE PolicyInv'
  <2>1. AddKnown'  BY <1>0, <1>4 DEF Update, AddKnown
  <2> QED BY <1>4, <2>1, UpdateInv DEF Update, resultVars
<1>5. CASE AddTracked
  <2>1. AddKnown'  BY <1>5 DEF AddTracked, AddKnown, NoAdd
  <2>2. add.key \in Key /\ add.cost \in Cost  BY <1>0, <1>5 DEF AddTracked, AddKnown
  <2> QED BY <1>5, <2>1, <2>2, UpdateInv DEF AddTracked, resultVars
<1>6. CASE AddSample
  <2>1. add.key \in Key /\ add.cost \in Cost  BY <1>0, <1>6 DEF AddSample, AddKnown
  <2>2. PICK s \in Samples :
          add' = [pc |-> "estimate", key |-> add.key, cost |-> add.cost,
                  victims |-> add.victims, sample |-> s, victim |-> NoKey,
                  lowest |-> Infinity]
    BY <1>6 DEF AddSample
  <2>3. AddKnown'  BY <2>1, <2>2 DEF AddKnown
  <2> QED BY <1>6, <2>3, QuietInv DEF AddSample, resultVars
<1>7. CASE AddEstimate
  <2>1. add.pc # "none"  BY <1>7 DEF AddEstimate
  <2>2. AddKnown'  BY <1>0, <1>7, <2>1 DEF AddEstimate, AddKnown
  <2> QED BY <1>7, <2>2, QuietInv DEF AddEstimate, resultVars
<1>8. CASE AddIncoming
  <2>1. add.key \in Key /\ add.cost \in Cost  BY <1>0, <1>8 DEF AddIncoming, AddKnown
  <2>2. AddKnown'  BY <1>8, <2>1 DEF AddIncoming, AddKnown
  <2> QED BY <1>8, <2>2, QuietInv DEF AddIncoming, resultVars
<1>9. CASE AddEvict
  <2>1. add.key \in Key /\ add.cost \in Cost  BY <1>0, <1>9 DEF AddEvict, AddKnown
  <2>2. AddKnown'  BY <1>9, <2>1 DEF AddEvict, AddKnown
  <2> QED BY <1>9, <2>2, LowersInv DEF AddEvict, resultVars
<1>10. CASE AddRefuse  BY <1>10, RefuseInv
<1>11. CASE AddInsert  BY <1>11, InsertRoomInv
<1>12. CASE Clear
  <2>1. LfuInv'  BY <1>12, NextInv DEF Clear, LfuNext, PolicyInv
  <2>2. AddKnown'  BY <1>0, <1>12 DEF Clear, AddKnown
  <2>3. EvictsBackToLimit'
    BY <1>12, LimitAssumption DEF Clear, LfuClear, EvictsBackToLimit
  <2> QED BY <2>1, <2>2, <2>3 DEF PolicyInv
<1>13. CASE UNCHANGED vars
  <2>1. AddKnown'  BY <1>0, <1>13 DEF vars, AddKnown
  <2> QED BY <1>13, <2>1, QuietInv DEF vars, resultVars
<1> QED
  BY <1>1, <1>2, <1>3, <1>4, <1>5, <1>6, <1>7, <1>8, <1>9, <1>10, <1>11, <1>12, <1>13
  DEF PolicyNext

\* Every step of the policy is one of SampledLFU, or leaves it alone.
LEMMA PolicyStepsLfu == PolicyInv /\ [PolicyNext]_vars => [LfuNext]_lfuVars
<1> SUFFICES ASSUME PolicyInv, [PolicyNext]_vars PROVE [LfuNext]_lfuVars
  OBVIOUS
<1>1. LfuInv /\ (add.pc # "none" => add.key \in Key /\ add.cost \in Cost)
  BY DEF PolicyInv, AddKnown
<1>2. ASSUME NEW k \in Key, Access(k) \/ Del(k) PROVE [LfuNext]_lfuVars
  BY <1>1, <1>2, Lowers DEF Access, Del
<1>3. ASSUME NEW k \in Key, NEW c \in Cost, AddCall(k, c) \/ Update(k, c)
      PROVE  [LfuNext]_lfuVars
  BY <1>1, <1>3, Keeps DEF AddCall, Update
<1>4. CASE AddTracked
  BY <1>1, <1>4, Keeps DEF AddTracked
<1>5. CASE AddSample \/ AddEstimate \/ AddIncoming
  BY <1>5 DEF AddSample, AddEstimate, AddIncoming
<1>6. CASE AddEvict
  BY <1>1, <1>6, Lowers DEF AddEvict
<1>7. CASE AddRefuse \/ AddInsert
  BY <1>1, <1>7, Raises DEF AddRefuse, AddInsert
<1>8. CASE Clear
  BY <1>8 DEF Clear, LfuNext
<1>9. CASE UNCHANGED vars
  BY <1>9 DEF vars
<1> QED BY <1>2, <1>3, <1>4, <1>5, <1>6, <1>7, <1>8, <1>9 DEF PolicyNext

-----------------------------------------------------------------------------
(* Policy: the frequencies.                                                *)

TinyInv ==
  /\ freq \in [Hashes -> 0 .. MaxFreq] /\ door \subseteq Hashes
  /\ incrs \in 0 .. ResetAt - 1
  /\ seen \in [Hashes -> 0 .. MaxFreq + 1]
  /\ NeverUnderestimates

\* Half of a counter is at least half of what it counts beyond the first access.
LEMMA Halves ==
  ASSUME NEW f \in 0 .. MaxFreq, NEW s \in 0 .. MaxFreq + 1, s <= f + 1
  PROVE  /\ f \div 2 \in 0 .. MaxFreq
         /\ (IF s > 0 THEN (s - 1) \div 2 ELSE 0) \in 0 .. MaxFreq + 1
         /\ f \div 2 >= (IF s > 0 THEN (s - 1) \div 2 ELSE 0)
BY PolicyAssumption

\* An increment adds at least as much to the estimate as to the accesses,
\* unless the counter is full; the reset halves both.
LEMMA IncrementTiny ==
  ASSUME TinyInv, NEW h \in Hashes, Increment(h)
  PROVE  TinyInv'
<1>1. MaxFreq \in Nat \ {0} /\ ResetAt \in Nat \ {0} /\ incrs \in 0 .. ResetAt - 1
  BY PolicyAssumption DEF TinyInv
<1>2. PICK others \in SUBSET (Clash[h] \ {h}) :
        LET known == h \in door
            f == [g \in Hashes |-> IF known /\ g \in others \cup {h}
                                   THEN Saturate(freq[g] + 1) ELSE freq[g]]
            d == IF known THEN door ELSE door \cup {h} \cup others
            s == [seen EXCEPT ![h] = IF @ > MaxFreq THEN @ ELSE @ + 1]
        IN  IF incrs + 1 >= ResetAt
            THEN /\ freq' = [g \in Hashes |-> f[g] \div 2] /\ door' = {} /\ incrs' = 0
                 /\ seen' = [g \in Hashes |-> IF s[g] > 0 THEN (s[g] - 1) \div 2 ELSE 0]
            ELSE /\ freq' = f /\ door' = d /\ incrs' = incrs + 1 /\ seen' = s
  BY DEF Increment
<1> DEFINE known == h \in door
           f == [g \in Hashes |-> IF known /\ g \in others \cup {h}
                                  THEN Saturate(freq[g] + 1) ELSE freq[g]]
           d == IF known THEN door ELSE door \cup {h} \cup others
           s == [seen EXCEPT ![h] = IF @ > MaxFreq THEN @ ELSE @ + 1]
<1>3. others \subseteq Hashes /\ d \subseteq Hashes /\ door \subseteq d
  BY PolicyAssumption DEF TinyInv
<1>4. ASSUME NEW g \in Hashes
      PROVE  /\ f[g] \in 0 .. MaxFreq /\ s[g] \in 0 .. MaxFreq + 1
             /\ f[g] + (IF g \in d THEN 1 ELSE 0) >= s[g]
  <2>1. /\ freq[g] \in 0 .. MaxFreq /\ seen[g] \in 0 .. MaxFreq + 1
        /\ freq[g] + (IF g \in door THEN 1 ELSE 0) >= seen[g]
    BY DEF TinyInv, NeverUnderestimates, Estimate, EstimateOf
  <2>2. f[g] = IF known /\ g \in others \cup {h} THEN Saturate(freq[g] + 1) ELSE freq[g]
    OBVIOUS
  <2>3. s[g] = IF g = h /\ seen[g] <= MaxFreq THEN seen[g] + 1 ELSE seen[g]
    BY <1>1, <2>1 DEF TinyInv
  <2>4. g = h => g \in d
    BY DEF TinyInv
  <2>5. Saturate(freq[g] + 1) = IF freq[g] + 1 > MaxFreq THEN MaxFreq ELSE freq[g] + 1
    BY DEF Saturate
  <2>6. f[g] >= freq[g] /\ f[g] \in 0 .. MaxFreq /\ s[g] \in 0 .. MaxFreq + 1
    BY <1>1, <2>1, <2>2, <2>3, <2>5
  <2>7. f[g] + (IF g \in d THEN 1 ELSE 0) >= s[g]
    <3>1. CASE g # h
      BY <1>1, <1>3, <2>1, <2>3, <2>6, <3>1
    <3>2. CASE g = h /\ ~known
      BY <1>1, <2>1, <2>3, <2>4, <2>6, <3>2
    <3>3. CASE g = h /\ known
      BY <1>1, <2>1, <2>2, <2>3, <2>4, <2>5, <3>3
    <3> QED BY <3>1, <3>2, <3>3
  <2> QED BY <2>6, <2>7
<1>5. CASE incrs + 1 >= ResetAt
  <2>1. /\ freq' = [g \in Hashes |-> f[g] \div 2] /\ door' = {} /\ incrs' = 0
        /\ seen' = [g \in Hashes |-> IF s[g] > 0 THEN (s[g] - 1) \div 2 ELSE 0]
    BY <1>2, <1>5
  <2> HIDE DEF f, s, d
  <2>2. ASSUME NEW g \in Hashes
        PROVE  /\ f[g] \div 2 \in 0 .. MaxFreq
               /\ (IF s[g] > 0 THEN (s[g] - 1) \div 2 ELSE 0) \in 0 .. MaxFreq + 1
               /\ f[g] \div 2 >= (IF s[g] > 0 THEN (s[g] - 1) \div 2 ELSE 0)
    <3>1. f[g] \in 0 .. MaxFreq /\ s[g] \in 0 .. MaxFreq + 1 /\ s[g] <= f[g] + 1
      BY <1>1, <1>4
    <3>2. PICK x, y : x = f[g] /\ y = s[g]
      OBVIOUS
    <3> QED BY <3>1, <3>2, Halves
  <2>3. freq' \in [Hashes -> 0 .. MaxFreq] /\ seen' \in [Hashes -> 0 .. MaxFreq + 1]
    BY <2>1, <2>2
  <2>4. incrs' \in 0 .. ResetAt - 1
    BY <1>1, <2>1
  <2>5. NeverUnderestimates'
    <3>1. ASSUME NEW g \in Hashes PROVE freq'[g] >= seen'[g] /\ freq'[g] \in Int /\ g \notin door'
      BY <2>1, <2>2
    <3> QED BY <3>1 DEF NeverUnderestimates, Estimate, EstimateOf
  <2> QED BY <2>1, <2>3, <2>4, <2>5 DEF TinyInv
<1>6. CASE ~(incrs + 1 >= ResetAt)
  <2>1. freq' = f /\ door' = d /\ incrs' = incrs + 1 /\ seen' = s
    BY <1>2, <1>6
  <2>2. DOMAIN s = Hashes
    BY DEF TinyInv
  <2>3. freq' \in [Hashes -> 0 .. MaxFreq] /\ seen' \in [Hashes -> 0 .. MaxFreq + 1]
    BY <1>4, <2>1, <2>2
  <2>4. incrs' \in 0 .. ResetAt - 1
    BY <1>1, <1>6, <2>1
  <2>5. NeverUnderestimates'
    BY <1>4, <2>1 DEF NeverUnderestimates, Estimate, EstimateOf
  <2> QED BY <1>3, <2>1, <2>3, <2>4, <2>5 DEF TinyInv
<1> QED BY <1>5, <1>6

LEMMA PolicyNextTiny == TinyInv /\ [PolicyNext]_vars => TinyInv'
<1> SUFFICES ASSUME TinyInv, [PolicyNext]_vars PROVE TinyInv'
  OBVIOUS
<1>1. CASE UNCHANGED tinyVars
  BY <1>1 DEF tinyVars, TinyInv, NeverUnderestimates, Estimate, EstimateOf
<1>2. ASSUME NEW k \in Key, Increment(HashOf[k]) PROVE TinyInv'
  BY <1>2, IncrementTiny, PolicyAssumption
<1>3. CASE Clear
  BY <1>3, PolicyAssumption DEF Clear, TinyInv, NeverUnderestimates, Estimate, EstimateOf
<1> QED
  BY <1>1, <1>2, <1>3
  DEF PolicyNext, Access, AddCall, AddTracked, AddSample, AddEstimate, AddIncoming,
      AddEvict, AddRefuse, AddInsert, Del, Update, vars

-----------------------------------------------------------------------------
(* Policy: an Add under way.                                               *)

Pending == [pc : {"check", "loop"}, key : Key, cost : Cost, victims : SUBSET Key]
Scanning == [pc : {"estimate"}, key : Key, cost : Cost, victims : SUBSET Key,
             sample : Seq(Key), victim : Key \cup {NoKey}, lowest : Nat]
Admitting == [pc : {"admit"}, key : Key, cost : Cost, victims : SUBSET Key,
              victim : Key, incoming : Nat]

\* The scan has keys to look at that are tracked, or has found its victim: the
\* first estimate is below Infinity.
AddInv ==
  /\ add \in {NoAdd} \cup Pending \cup Scanning \cup Admitting
  /\ add.pc = "estimate" =>
       /\ add.sample \in Seq(Tracked)
       /\ \/ add.victim \in Tracked
          \/ add.sample # <<>> /\ add.lowest = Infinity
  /\ add.pc = "admit" => add.victim \in Tracked

\* A sample of a policy that tracks something has a tracked key.
LEMMA SamplesTracked ==
  ASSUME LfuInv, CountInv, keys # <<>>, NEW s \in Samples
  PROVE  s \in Seq(Tracked) /\ s # <<>>
<1>1. keys \in Seq(Key) /\ \A i \in 1 .. Len(keys) : keys[i] \in Tracked
  BY DEF LfuInv, LfuType, DenseArray
<1>2. CASE s = keys
  <2>1. keys \in [1 .. Len(keys) -> Tracked] /\ Len(keys) \in Nat
    BY <1>1
  <2> QED BY <1>2, <2>1
<1>3. CASE s # keys
  <2>1. s \in SetToAllKPermutations(ToSet(keys)) /\ Len(s) = SampleSize
    BY <1>3 DEF Samples
  <2>2. PICK t \in SUBSET ToSet(keys) : s \in SetToSeqs(t)
    BY <2>1 DEF SetToAllKPermutations
  <2>3. t \in SUBSET Tracked
    BY <1>1, <2>2 DEF ToSet
  <2>4. Cardinality(t) \in Nat
    BY <2>3, FS_Subset, FS_CardinalityType DEF CountInv
  <2>5. s \in [1 .. Cardinality(t) -> Tracked]
    BY <2>2, <2>3 DEF SetToSeqs
  <2>6. s \in Seq(Tracked)
    BY <2>4, <2>5
  <2>7. s # <<>>
    BY <2>1, PolicyAssumption
  <2> QED BY <2>6, <2>7
<1> QED BY <1>2, <1>3

LEMMA EstimateType ==
  ASSUME TinyInv, NEW k \in Key
  PROVE  Estimate(HashOf[k]) \in 0 .. MaxFreq + 1 /\ Infinity = MaxFreq + 2
<1>1. HashOf[k] \in Hashes /\ MaxFreq \in Nat
  BY PolicyAssumption
<1>2. freq[HashOf[k]] \in 0 .. MaxFreq
  BY <1>1 DEF TinyInv
<1> QED BY <1>1, <1>2 DEF Estimate, EstimateOf, Infinity

LEMMA PolicyNextAdd ==
  ASSUME PolicyInv, CountInv, TinyInv, AddInv, [PolicyNext]_vars
  PROVE  AddInv'
<1>0. Tracked \subseteq Key
  BY DEF PolicyInv, LfuInv, LfuType
<1>1. CASE UNCHANGED <<costs, add>>
  BY <1>1 DEF AddInv, Tracked
<1>2. CASE add' = NoAdd
  BY <1>2 DEF AddInv, NoAdd
<1>3. ASSUME NEW k \in Key, NEW c \in Cost, AddCall(k, c) PROVE AddInv'
  BY <1>3 DEF AddCall, AddInv, Pending
<1>4. CASE AddSample
  <2>1. PICK s \in Samples :
          add' = [pc |-> "estimate", key |-> add.key, cost |-> add.cost,
                  victims |-> add.victims, sample |-> s, victim |-> NoKey,
                  lowest |-> Infinity]
    BY <1>4 DEF AddSample
  <2>2. add \in Pending
    BY <1>4 DEF AddSample, AddInv, NoAdd, Scanning, Admitting
  <2>3. s \in Seq(Tracked) /\ s # <<>>
    BY <1>4, <2>1, SamplesTracked DEF AddSample, PolicyInv
  <2>4. s \in Seq(Key)
    BY <1>0, <2>3
  <2>5. Tracked' = Tracked
    BY <1>4 DEF AddSample, lfuVars, Tracked
  <2>6. add' \in Scanning
    BY <2>1, <2>2, <2>4, PolicyAssumption DEF Pending, Scanning, Infinity
  <2> QED BY <2>1, <2>3, <2>5, <2>6 DEF AddInv
<1>5. CASE AddEstimate
  <2> DEFINE k == Head(add.sample)
             f == Estimate(HashOf[k])
             lower == f < add.lowest
  <2>1. add \in Scanning /\ add.sample # <<>> /\ add.sample \in Seq(Tracked)
    BY <1>5 DEF AddEstimate, AddInv, NoAdd, Pending, Admitting
  <2>2. k \in Tracked /\ Tail(add.sample) \in Seq(Tracked) /\ Tail(add.sample) \in Seq(Key)
    BY <1>0, <2>1
  <2>3. f \in Nat /\ f < Infinity
    BY <1>0, <2>2, EstimateType, PolicyAssumption
  <2>4. add' = [add EXCEPT !.sample = Tail(@), !.victim = IF lower THEN k ELSE @,
                           !.lowest = IF lower THEN f ELSE @]
    BY <1>5 DEF AddEstimate
  <2>5. Tracked' = Tracked
    BY <1>5 DEF AddEstimate, lfuVars, Tracked
  <2> HIDE DEF k, f
  <2>6. add' \in Scanning
    BY <1>0, <2>1, <2>2, <2>3, <2>4 DEF Scanning
  <2>7. add'.victim \in Tracked
    BY <1>5, <2>1, <2>2, <2>3, <2>4 DEF AddEstimate, AddInv, Scanning
  <2>8. add'.sample = Tail(add.sample)
    BY <2>1, <2>4 DEF Scanning
  <2> QED BY <2>2, <2>5, <2>6, <2>7, <2>8 DEF AddInv, Scanning
<1>6. CASE AddIncoming
  <2>1. add \in Scanning /\ add.victim \in Tracked
    BY <1>6 DEF AddIncoming, AddInv, NoAdd, Pending, Admitting
  <2>2. Estimate(HashOf[add.key]) \in Nat
    BY <2>1, EstimateType, PolicyAssumption DEF Scanning
  <2>3. Tracked' = Tracked
    BY <1>6 DEF AddIncoming, lfuVars, Tracked
  <2> QED BY <1>0, <1>6, <2>1, <2>2, <2>3 DEF AddIncoming, AddInv, Scanning, Admitting
<1>7. CASE AddEvict
  <2>1. add \in Admitting
    BY <1>7 DEF AddEvict, AddInv, NoAdd, Pending, Scanning
  <2> QED BY <1>7, <2>1 DEF AddEvict, AddInv, Admitting, Pending
<1>8. ASSUME add = NoAdd, add' = add PROVE AddInv'
  BY <1>2, <1>8
<1>9. ASSUME NEW k \in Key, Access(k) PROVE AddInv'
  BY <1>1, <1>9 DEF Access, lfuVars
<1> QED
  BY <1>1, <1>2, <1>3, <1>4, <1>5, <1>6, <1>7, <1>8, <1>9
  DEF PolicyNext, AddTracked, AddRefuse, AddInsert, Del, Update, Clear, vars, lfuVars

\* What the last Add returned.
ResultInv == added \in BOOLEAN /\ refused \in BOOLEAN

PolicyFullInv == PolicyInv /\ CountInv /\ TinyInv /\ AddInv /\ ResultInv

LEMMA PolicyInitFull == PolicyInit => PolicyFullInv
<1> SUFFICES ASSUME PolicyInit PROVE PolicyFullInv
  OBVIOUS
<1>1. PolicyInv /\ CountInv
  BY PolicyInitInv, InitCount DEF PolicyInit
<1>2. TinyInv
  BY PolicyAssumption
  DEF PolicyInit, TinyInv, NeverUnderestimates, Estimate, EstimateOf
<1>3. AddInv /\ ResultInv
  BY DEF PolicyInit, AddInv, ResultInv, NoAdd
<1> QED BY <1>1, <1>2, <1>3 DEF PolicyFullInv

LEMMA PolicyNextFull == PolicyFullInv /\ [PolicyNext]_vars => PolicyFullInv'
<1> SUFFICES ASSUME PolicyFullInv, [PolicyNext]_vars PROVE PolicyFullInv'
  OBVIOUS
<1> USE DEF PolicyFullInv
<1>1. PolicyInv'
  BY PolicyNextInv
<1>2. CountInv'
  BY PolicyStepsLfu, NextCount DEF PolicyInv
<1>3. TinyInv' /\ AddInv'
  BY PolicyNextTiny, PolicyNextAdd
<1>4. ResultInv'
  <2>1. UNCHANGED resultVars \/ (added' = TRUE /\ refused' \in BOOLEAN)
    BY DEF PolicyNext, Access, AddCall, AddTracked, AddSample, AddEstimate, AddIncoming,
           AddEvict, AddRefuse, AddInsert, Del, Update, Clear, vars, resultVars
  <2> QED BY <2>1 DEF ResultInv, resultVars
<1> QED BY <1>1, <1>2, <1>3, <1>4

-----------------------------------------------------------------------------
(* The theorems about Policy.                                              *)

\* PolicyFullInv holds, however Access, Del, Update and Clear come between.
THEOREM PolicyInvariant == PolicySpec => []PolicyFullInv
BY PolicyInitFull, PolicyNextFull, PTL DEF PolicySpec

\* Types: in particular no counter exceeds its four bits, and an Add has a
\* tracked victim once it has looked at its sample.
THEOREM PolicyType == PolicySpec => []TypeOK
<1>1. PolicyFullInv => TypeOK
  BY DEF PolicyFullInv, PolicyInv, LfuInv, TinyInv, AddInv, ResultInv, TypeOK, NoAdd,
         Pending, Scanning, Admitting
<1> QED BY <1>1, PolicyInvariant, PTL

\* usedCost and numEntries, which decide on eviction, are always those of the
\* tracked keys: Recost, Add and Del add and take away exactly what changes.
THEOREM PolicyCountsExact == PolicySpec => []CountersExact
<1>1. PolicyFullInv => CountersExact
  BY DEF PolicyFullInv, CountInv
<1> QED BY <1>1, PolicyInvariant, PTL

\* Estimate is never below the number of accesses, aged like the sketch, as far
\* as a counter reaches: for any collisions, any reset and any saturation.
THEOREM EstimateIsUpperBound == PolicySpec => []NeverUnderestimates
<1>1. PolicyFullInv => NeverUnderestimates
  BY DEF PolicyFullInv, TinyInv
<1> QED BY <1>1, PolicyInvariant, PTL

\* The dense array under Policy: whatever Add, Del, Update and Clear do, it
\* holds every tracked key once and keyIndex says where.
THEOREM PolicyArrayDense == PolicySpec => []DenseArray
<1>1. PolicyInv => DenseArray  BY DEF PolicyInv, LfuInv
<1> QED BY PolicyInitInv, PolicyNextInv, <1>1, PTL DEF PolicySpec

\* After an Add that got its room the limit on entries is exceeded by one at
\* most, whatever refusals came before it and however Access moves the
\* frequencies while victims are chosen.
THEOREM LimitRestored == PolicySpec => []EvictsBackToLimit
<1>1. PolicyInv => EvictsBackToLimit  BY DEF PolicyInv
<1> QED BY PolicyInitInv, PolicyNextInv, <1>1, PTL DEF PolicySpec
=============================================================================
