----------------------------- MODULE CuckooFilter -----------------------------
(***************************************************************************)
(* CuckooFilter of internal/policy/cuckoo.go.  Add, Delete and Reset hold  *)
(* cf.mu, but every slot is an atomic of its own and Contains takes no     *)
(* lock: it can look at the buckets in the middle of a relocation, which   *)
(* moves one fingerprint at a time.  A key is its low bits (its bucket)    *)
(* and its fingerprint, an odd number.                                     *)
(***************************************************************************)
EXTENDS Integers, SequencesExt, FiniteSetsExt

CONSTANTS CuckooKeys,     \* records: hash (low bits) and fp (fingerprint)
          IndexBits,      \* bits of the index of a bucket
          BucketSize,     \* 4 in the code
          MaxKicks,       \* 500 in the code
          MaxFailed       \* bound: no relocation after so many failures

\* 16 bits, of which the last is set
Fingerprints == {n \in Nat : n < 65536 /\ n % 2 = 1}

ASSUME CuckooAssumption ==
  /\ CuckooKeys \subseteq [hash : Nat, fp : Fingerprints]
  /\ {BucketSize, MaxKicks} \subseteq Nat \ {0} /\ {IndexBits, MaxFailed} \subseteq Nat

VARIABLES slots,      \* cf.buckets: the fingerprint in each slot, 0 if none
          count,      \* cf.count
          kicked,     \* the Add that is relocating, if any
          lookup,     \* a Contains under way
          credit,     \* history: adds less deletions, by home
          lost        \* history: fingerprints dropped, by home

cuckooVars == <<slots, count, kicked, lookup, credit, lost>>

Idle == [pc |-> "idle"]
Multiplier == 1540483477 \* 0x5bd1e995

\* A power of 2
NumBuckets ==
  LET power[b \in 0 .. IndexBits] == IF b = 0 THEN 1 ELSE 2 * power[b - 1]
  IN  power[IndexBits]

Index1(key) == key.hash % NumBuckets

\* The exclusive or of two numbers, in the low bits that make an index
Xor(i, j) ==
  LET low[b \in 0 .. IndexBits] ==
        [x \in Nat \X Nat |->
           IF b = 0 THEN 0
           ELSE 2 * low[b - 1][<<x[1] \div 2, x[2] \div 2>>] + ((x[1] + x[2]) % 2)]
  IN  low[IndexBits][<<i, j>>]

\* The displacement is fp * Multiplier; only the bits of an index matter.
IndexAlt(i, fp) == Xor(i, (fp % NumBuckets) * (Multiplier % NumBuckets))

\* A fingerprint and the buckets it can be in: what the filter knows of a key
HomeOf(fp, i) == [fp |-> fp, in |-> {i, IndexAlt(i, fp)}]
Home(key) == HomeOf(key.fp, Index1(key))
Homes == {Home(k) : k \in CuckooKeys}

Places == (0 .. NumBuckets - 1) \X (1 .. BucketSize)

\* The slots of bucket i that hold fp
Holding(i, fp) == {j \in 1 .. BucketSize : slots[<<i, j>>] = fp}

BucketContains(i, fp) == Holding(i, fp) # {}

\* insertToBucket and deleteFromBucket: the first such slot
First(i, fp) == <<i, Min(Holding(i, fp))>>

\* How many slots hold a fingerprint where a key with this home looks for it
Stored(home) == Cardinality({p \in Places : slots[p] = home.fp /\ p[1] \in home.in})

InHand(home) == IF kicked # Idle /\ HomeOf(kicked.fp, kicked.i) = home THEN 1 ELSE 0

-----------------------------------------------------------------------------
CuckooInit ==
  /\ slots = [p \in Places |-> 0] /\ count = 0
  /\ kicked = Idle /\ lookup = Idle
  /\ credit = [h \in Homes |-> 0] /\ lost = [h \in Homes |-> 0]

\* The fingerprint fp goes into bucket i, which has room.
Insert(i, fp) ==
  /\ BucketContains(i, 0)
  /\ slots' = [slots EXCEPT ![First(i, 0)] = fp]
  /\ count' = count + 1

Credited(key, n) == credit' = [credit EXCEPT ![Home(key)] = @ + n]

CuckooAdd(key) ==
  /\ kicked = Idle
  /\ LET i1 == Index1(key) IN
     \/ Insert(i1, key.fp)
     \/ ~BucketContains(i1, 0) /\ Insert(IndexAlt(i1, key.fp), key.fp)
  /\ Credited(key, 1)
  /\ UNCHANGED <<kicked, lookup, lost>>

\* Both buckets are full: relocate starts at the first.
CuckooRelocate(key) ==
  /\ kicked = Idle
  /\ MapThenSumSet(LAMBDA h : lost[h], Homes) < MaxFailed
  /\ LET i1 == Index1(key) IN
     /\ ~BucketContains(i1, 0) /\ ~BucketContains(IndexAlt(i1, key.fp), 0)
     /\ kicked' = [pc |-> "kick", fp |-> key.fp, i |-> i1, n |-> 0]
  /\ Credited(key, 1)
  /\ UNCHANGED <<slots, count, lookup, lost>>

\* A Contains under way that looks for one of these fingerprints is marked.
Disturb(homes) ==
  lookup' = IF lookup # Idle /\ Home(lookup.key) \in homes
            THEN [lookup EXCEPT !.disturbed = TRUE] ELSE lookup

\* mutant: the other bucket is computed from the fingerprint put in
CuckooSwapOtherAlt ==
  /\ kicked.pc = "kick" /\ kicked.n < MaxKicks
  /\ LET p == <<kicked.i, (kicked.n % BucketSize) + 1>> IN
     /\ slots' = [slots EXCEPT ![p] = kicked.fp]
     /\ kicked' = [kicked EXCEPT !.pc = "place", !.fp = slots[p],
                                 !.i = IndexAlt(@, kicked.fp)]
     /\ Disturb({HomeOf(slots[p], kicked.i)})
  /\ UNCHANGED <<count, credit, lost>>

\* One kick: the fingerprint in hand changes places with another, which goes
\* on to its other bucket.
CuckooSwap ==
  /\ kicked.pc = "kick" /\ kicked.n < MaxKicks
  /\ LET p == <<kicked.i, (kicked.n % BucketSize) + 1>> IN
     /\ slots' = [slots EXCEPT ![p] = kicked.fp]
     /\ kicked' = [kicked EXCEPT !.pc = "place", !.fp = slots[p],
                                 !.i = IndexAlt(@, slots[p])]
     /\ Disturb({HomeOf(slots[p], kicked.i)})
  /\ UNCHANGED <<count, credit, lost>>

\* mutant: a relocation that ends well does not count the new fingerprint
CuckooPlaceUncounted ==
  /\ kicked.pc = "place"
  /\ \/ /\ BucketContains(kicked.i, 0)
        /\ slots' = [slots EXCEPT ![First(kicked.i, 0)] = kicked.fp]
        /\ kicked' = Idle
     \/ /\ ~BucketContains(kicked.i, 0)
        /\ kicked' = [kicked EXCEPT !.pc = "kick", !.n = @ + 1]
        /\ UNCHANGED slots
  /\ UNCHANGED <<count, lookup, credit, lost>>

CuckooPlace ==
  /\ kicked.pc = "place"
  /\ \/ Insert(kicked.i, kicked.fp) /\ kicked' = Idle
     \/ /\ ~BucketContains(kicked.i, 0)
        /\ kicked' = [kicked EXCEPT !.pc = "kick", !.n = @ + 1]
        /\ UNCHANGED <<slots, count>>
  /\ UNCHANGED <<lookup, credit, lost>>

\* Too many kicks: Add returns false.  Its own fingerprint may be in the filter
\* by now; the one in hand, perhaps of another key, is dropped.
CuckooFail ==
  /\ kicked.pc = "kick" /\ kicked.n = MaxKicks
  /\ kicked' = Idle
  /\ lost' = [lost EXCEPT ![HomeOf(kicked.fp, kicked.i)] = @ + 1]
  /\ UNCHANGED <<slots, count, lookup, credit>>

CuckooDelete(key) ==
  /\ kicked = Idle
  /\ LET i1 == Index1(key)
         i2 == IndexAlt(i1, key.fp)
         i == IF BucketContains(i1, key.fp) THEN i1 ELSE i2
     IN  /\ BucketContains(i, key.fp)
         /\ slots' = [slots EXCEPT ![First(i, key.fp)] = 0]
  /\ count' = count - 1
  /\ Credited(key, -1) /\ Disturb({Home(key)})
  /\ UNCHANGED <<kicked, lost>>

CuckooReset ==
  /\ kicked = Idle
  /\ slots' = [p \in Places |-> 0] /\ count' = 0
  /\ credit' = [h \in Homes |-> 0] /\ lost' = [h \in Homes |-> 0]
  /\ Disturb(Homes)
  /\ UNCHANGED kicked

\* The slots in the order in which Contains loads them, from 0: those of the first
\* bucket of its key and then those of the second
SlotSeen(key, n) ==
  <<IF n < BucketSize THEN Index1(key) ELSE IndexAlt(Index1(key), key.fp), (n % BucketSize) + 1>>

CuckooLook(key) ==
  /\ lookup = Idle
  /\ lookup' = [pc |-> "look", key |-> key, n |-> 0,
                added |-> credit[Home(key)] > lost[Home(key)],
                disturbed |-> InHand(Home(key)) > 0]
  /\ UNCHANGED <<slots, count, kicked, credit, lost>>

\* Contains loads a slot, and is done if that has the fingerprint, or with false
\* if it was the last.
CuckooLookSlot ==
  /\ lookup.pc = "look"
  /\ lookup' = IF lookup.n = 2 * BucketSize \/ slots[SlotSeen(lookup.key, lookup.n)] = lookup.key.fp
               THEN Idle ELSE [lookup EXCEPT !.n = @ + 1]
  /\ UNCHANGED <<slots, count, kicked, credit, lost>>

CuckooNext ==
  \/ \E key \in CuckooKeys : \/ CuckooAdd(key) \/ CuckooRelocate(key)
                             \/ CuckooDelete(key) \/ CuckooLook(key)
  \/ CuckooSwap \/ CuckooPlace \/ CuckooFail \/ CuckooReset \/ CuckooLookSlot

-----------------------------------------------------------------------------
(* Properties.                                                             *)

\* No relocation duplicates a fingerprint or puts it where its key does not look
\* for it, and only a failed Add drops one: for every home, what was added and
\* not deleted is stored, in hand or lost.  Count is the number of full slots.
FingerprintsKept ==
  /\ \A h \in Homes : Stored(h) + InHand(h) + lost[h] = credit[h]
  /\ count = Cardinality({p \in Places : slots[p] # 0})

\* A Contains of a key that was added finds it, unless a relocation moved the
\* fingerprint meanwhile (or had it in hand), or it was deleted: the lock-free
\* lookup, which loads one slot after the other, can give a false negative in no
\* other case.
MissesOnlyMoved ==
  lookup # Idle /\ lookup.added /\ ~lookup.disturbed => lookup.n < 2 * BucketSize
=============================================================================
