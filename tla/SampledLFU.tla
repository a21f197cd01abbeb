----------------------------- MODULE SampledLFU -----------------------------
(***************************************************************************)
(* SampledLFU of internal/policy/sampledlfu.go: the tracked keys with      *)
(* their costs, and a dense array of the keys with the place of each key   *)
(* in it, from which a random sample is drawn in constant time.  Every     *)
(* operation holds the lock s.mu throughout.  Places count from 1 here,    *)
(* from 0 in the code.                                                     *)
(***************************************************************************)
EXTENDS Integers, Sequences, FiniteSets

CONSTANTS Key,         \* what callers track
          Cost,        \* what they say a key costs
          MaxCost,     \* s.maxCost, 0 = no limit
          MaxEntries   \* s.maxEntries, 0 = no limit

ASSUME LimitAssumption ==
  /\ Cost \subseteq Nat \ {0}
  /\ MaxCost \in Nat /\ MaxEntries \in Nat

VARIABLES costs,       \* s.costs: the cost of each tracked key
          keys,        \* s.keys, the dense array
          keyIndex,    \* s.keyIndex: the place of each key in keys
          usedCost, numEntries

lfuVars == <<costs, keys, keyIndex, usedCost, numEntries>>

Tracked == DOMAIN costs

LfuType ==
  /\ Tracked \subseteq Key /\ costs \in [Tracked -> Cost]
  /\ keys \in Seq(Key)
  /\ DOMAIN keyIndex \subseteq Key /\ keyIndex \in [DOMAIN keyIndex -> Nat \ {0}]
  /\ usedCost \in Int /\ numEntries \in Int

LfuInit ==
  /\ costs = <<>> /\ keys = <<>> /\ keyIndex = <<>>
  /\ usedCost = 0 /\ numEntries = 0

\* A map with an entry set, and a map with an entry deleted
Set(f, k, v) == [j \in DOMAIN f \cup {k} |-> IF j = k THEN v ELSE f[j]]
Unset(f, k) == [j \in DOMAIN f \ {k} |-> f[j]]

\* mutant: the new cost is added to the old one's
RecostWhole(k, c) ==
  /\ k \in Tracked
  /\ usedCost' = usedCost + c
  /\ costs' = [costs EXCEPT ![k] = c]
  /\ UNCHANGED <<keys, keyIndex, numEntries>>

\* A tracked key gets a new cost: Update, and Add of a tracked key.
Recost(k, c) ==
  /\ k \in Tracked
  /\ usedCost' = usedCost + c - costs[k]
  /\ costs' = [costs EXCEPT ![k] = c]
  /\ UNCHANGED <<keys, keyIndex, numEntries>>

LfuAdd(k, c) ==
  \/ Recost(k, c)
  \/ /\ k \notin Tracked
     /\ costs' = Set(costs, k, c)
     /\ keys' = Append(keys, k)
     /\ keyIndex' = Set(keyIndex, k, Len(keys) + 1)
     /\ usedCost' = usedCost + c
     /\ numEntries' = numEntries + 1

LfuUpdate(k, c) ==
  \/ Recost(k, c)
  \/ k \notin Tracked /\ UNCHANGED lfuVars

\* mutant: the key that moves keeps its old place
SwapDeleteStale(k) ==
  LET idx == keyIndex[k]
      last == Len(keys)
  IN  /\ keys' = SubSeq([keys EXCEPT ![idx] = keys[last]], 1, last - 1)
      /\ keyIndex' = Unset(keyIndex, k)

\* The last key moves to the place of the deleted one.
SwapDelete(k) ==
  LET idx == keyIndex[k]
      last == Len(keys)
  IN  /\ keys' = SubSeq([keys EXCEPT ![idx] = keys[last]], 1, last - 1)
      /\ keyIndex' = Unset(IF idx = last THEN keyIndex
                           ELSE [keyIndex EXCEPT ![keys[last]] = idx], k)

LfuDel(k) ==
  \/ k \notin Tracked /\ UNCHANGED lfuVars
  \/ /\ k \in Tracked
     /\ usedCost' = usedCost - costs[k]
     /\ numEntries' = numEntries - 1
     /\ costs' = Unset(costs, k)
     /\ \/ k \in DOMAIN keyIndex /\ SwapDelete(k)
        \/ k \notin DOMAIN keyIndex /\ UNCHANGED <<keys, keyIndex>>

LfuClear ==
  /\ costs' = <<>> /\ keys' = <<>> /\ keyIndex' = <<>>
  /\ usedCost' = 0 /\ numEntries' = 0

NeedsEviction ==
  \/ MaxCost > 0 /\ usedCost > MaxCost
  \/ MaxEntries > 0 /\ numEntries > MaxEntries

-----------------------------------------------------------------------------
LfuNext ==
  \/ \E k \in Key, c \in Cost : LfuAdd(k, c) \/ LfuUpdate(k, c)
  \/ \E k \in Key : LfuDel(k)
  \/ LfuClear

LfuSpec == LfuInit /\ [][LfuNext]_lfuVars

\* The array holds every tracked key once, and keyIndex says where: swap-delete
\* can then move the right key, and a sample is drawn from tracked keys only.
DenseArray ==
  /\ DOMAIN keyIndex = Tracked
  /\ \A k \in Tracked : keyIndex[k] \in 1 .. Len(keys) /\ keys[keyIndex[k]] = k
  /\ \A i \in 1 .. Len(keys) : keys[i] \in Tracked /\ keyIndex[keys[i]] = i
=============================================================================
