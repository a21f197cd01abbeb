----------------------------- MODULE GCFreeStore -----------------------------
(***************************************************************************)
(* One shard of GCFreeStore (internal/store/gcfree.go): entries serialized *)
(* one behind the other in a byte array, which is compacted or doubled     *)
(* when an entry does not fit.  Set holds sh.mu to its end, so it is one   *)
(* action; Delete and Clear change s.size after they have left the lock.   *)
(* data maps the offset of each written header to what it says; lengths    *)
(* are in bytes, scaled down.  A Go run-time panic (a slice bound out of   *)
(* range) ends the behaviour.                                              *)
(***************************************************************************)
EXTENDS Integers, SequencesExt, FiniteSetsExt

CONSTANTS GcKeys,        \* records: hash and len; keys may share a hash
          ValueLens,     \* lengths of the values that callers store
          Expiries,      \* expirations they pass, 0 = none
          HeaderSize,    \* entryHeaderSize, 24
          ShardSize,     \* initial length of the array, 4096 or more
          MaxGcNow,      \* bound: the clock stops here
          MaxArray,      \* bound: no Set when the array is larger
          MaxLeaks,      \* bound: no Set after so many lost entries
          MaxLate        \* bound: no Delete or Clear while so many are late

ASSUME GcAssumption ==
  /\ GcKeys \subseteq [hash : Nat, len : Nat]
  /\ ValueLens \subseteq Nat /\ Expiries \subseteq Nat
  /\ {HeaderSize, ShardSize} \subseteq Nat \ {0}
  /\ {MaxGcNow, MaxArray, MaxLeaks, MaxLate} \subseteq Nat

VARIABLES hashmap,    \* sh.hashmap: offset of each hash
          data,       \* sh.data: the header and key at each offset
          dataLen,    \* len(sh.data)
          tail,       \* sh.tail
          deleted,    \* sh.deleted
          gcSize,     \* s.size
          deletes,    \* calls of Delete between Unlock and size.Add
          clears,     \* calls of Clear between the last Unlock and size.Store
          gcNow,      \* clock.NowNano
          panicked,   \* an operation has panicked
          latest,     \* history: what was last set for a hash, not deleted
          unfit,      \* history: the hashes whose entry compaction spoiled
          overflowed, \* history: a compaction has made too little room
          leaks,      \* history: entries compaction dropped from the map
          miscounted  \* history: the last size.Store of a Clear came too late

gcVars == <<hashmap, data, dataLen, tail, deleted, gcSize, deletes, clears, gcNow,
            panicked, latest, unfit, overflowed, leaks, miscounted>>

GcHashes == {k.hash : k \in GcKeys}

EntrySize(keyLen, valueLen) == HeaderSize + keyLen + valueLen
SizeAt(d, offset) == EntrySize(d[offset].keyLen, d[offset].valueLen)

GcWith(f, i, v) == [j \in DOMAIN f \cup {i} |-> IF j = i THEN v ELSE f[j]]
GcWithout(f, i) == [j \in DOMAIN f \ {i} |-> f[j]]

\* Deletion zeroes the key length in the header.
Marked(d, offset) == [d EXCEPT ![offset].keyLen = 0]

-----------------------------------------------------------------------------
\* Get: the entry at the offset of the hash, if it is whole, is this key's and
\* has not expired
GcGet(key) ==
  IF key.hash \notin DOMAIN hashmap THEN {}
  ELSE LET offset == hashmap[key.hash]
           e == data[offset]
       IN  IF /\ offset + SizeAt(data, offset) <= dataLen
              /\ e.key = key /\ e.keyLen = key.len
              /\ e.exp = 0 \/ gcNow <= e.exp
           THEN {e.valueLen} ELSE {}

\* compact: the hashes that survive it; those with an empty key count as deleted
Survivors(s) ==
  {h \in DOMAIN s.map : /\ s.data[s.map[h]].keyLen # 0
                        /\ s.map[h] + SizeAt(s.data, s.map[h]) <= s.len}

\* compact copies one entry behind the others.
CopyEntry(s, t, h) ==
  [t EXCEPT !.map = GcWith(@, h, t.tail),
            !.data = GcWith(@, t.tail, s.data[s.map[h]]),
            !.tail = @ + SizeAt(s.data, s.map[h])]

\* compact goes over the map, whose order is any order.
Compacted(s) ==
  {FoldLeft(LAMBDA t, h : CopyEntry(s, t, h),
            [map |-> <<>>, data |-> <<>>, len |-> s.len, tail |-> 0, deleted |-> 0],
            order) : order \in SetToSeqs(Survivors(s))}

\* mutant: the array is doubled once, however much is needed
GrownOnce(s, needed) == [s EXCEPT !.len = 2 * @]

\* grow: doubled, and doubled again while the entry does not fit
GrownArray(s, needed) ==
  LET newSize[i \in 0 .. needed] ==
        IF i = 0 THEN 2 * s.len
        ELSE LET n == newSize[i - 1] IN IF n < s.tail + needed THEN 2 * n ELSE n
  IN  [s EXCEPT !.len = newSize[needed]]

\* mutant: the sizes of the old entry are read after it was marked
ReplaceReadsLate(s, hash) ==
  IF hash \notin DOMAIN s.map THEN s
  ELSE LET d == Marked(s.data, s.map[hash])
       IN  [s EXCEPT !.deleted = @ + SizeAt(d, s.map[hash]), !.data = d]

\* Set of a hash that is present: its old entry counts as deleted.
Replace(s, hash) ==
  IF hash \notin DOMAIN s.map THEN s
  ELSE [s EXCEPT !.deleted = @ + SizeAt(s.data, s.map[hash]),
                 !.data = Marked(@, s.map[hash])]

Fits(s, n) == s.tail + n <= s.len
ShouldCompact(s) == s.deleted > s.len \div 4

\* What becomes of the array before an entry of n bytes is written
MadeRoom(s, n) ==
  IF Fits(s, n) THEN {s} ELSE IF ShouldCompact(s) THEN Compacted(s) ELSE {GrownArray(s, n)}

\* grow copies data[:tail], and the writing slices up to where the value starts.
GrowPanics(s, n) == ~Fits(s, n) /\ ~ShouldCompact(s) /\ s.tail > s.len
WritePanics(s, key) == s.tail + EntrySize(key.len, 0) > s.len

Array == [map |-> hashmap, data |-> data, len |-> dataLen, tail |-> tail, deleted |-> deleted]

-----------------------------------------------------------------------------
GcInit ==
  /\ hashmap = <<>> /\ data = <<>> /\ dataLen = ShardSize /\ tail = 0 /\ deleted = 0
  /\ gcSize = 0 /\ deletes = 0 /\ clears = 0 /\ gcNow = 1 /\ panicked = FALSE
  /\ latest = <<>> /\ unfit = {} /\ overflowed = FALSE /\ leaks = 0 /\ miscounted = FALSE

BecomesShard(s) ==
  /\ hashmap' = s.map /\ data' = s.data
  /\ dataLen' = s.len /\ tail' = s.tail /\ deleted' = s.deleted

\* The end of Set, with the array s: the entry is written, whole or not.
WriteEntry(s, key, valueLen, exp) ==
  LET n == EntrySize(key.len, valueLen)
      entry == [key |-> key, keyLen |-> key.len, valueLen |-> valueLen, exp |-> exp]
  IN  /\ ~WritePanics(s, key)
      /\ BecomesShard([s EXCEPT !.map = GcWith(@, key.hash, s.tail),
                                !.data = GcWith(@, s.tail, entry), !.tail = @ + n])
      /\ unfit' = (unfit \ {key.hash})
                  \cup (DOMAIN hashmap \ (DOMAIN s.map \cup {key.hash}))
                  \cup (IF Fits(s, n) THEN {} ELSE {key.hash})
      /\ leaks' = leaks + Cardinality(DOMAIN hashmap \ (DOMAIN s.map \cup {key.hash}))
      /\ latest' = GcWith(latest, key.hash, entry)
      /\ UNCHANGED panicked

\* A Set that panics leaves the array as far as it had come.
GcPanic(s) ==
  /\ panicked' = TRUE
  /\ BecomesShard(s)
  /\ UNCHANGED <<latest, unfit, leaks>>

GcSet(key, valueLen, exp) ==
  /\ ~panicked /\ dataLen <= MaxArray /\ leaks <= MaxLeaks
  /\ LET n == EntrySize(key.len, valueLen)
         s == Replace(Array, key.hash)
     IN  IF GrowPanics(s, n) THEN GcPanic(s) /\ UNCHANGED overflowed
         ELSE \E t \in MadeRoom(s, n) :
                /\ WriteEntry(t, key, valueLen, exp) \/ (WritePanics(t, key) /\ GcPanic(t))
                /\ overflowed' = (overflowed \/ (ShouldCompact(s) /\ ~Fits(t, n)))
  /\ gcSize' = gcSize + (IF key.hash \in DOMAIN hashmap THEN 0 ELSE 1)
  /\ UNCHANGED <<deletes, clears, gcNow, miscounted>>

Late == deletes + clears

GcDelete(hash) ==
  /\ ~panicked /\ Late < MaxLate
  /\ IF hash \in DOMAIN hashmap
     THEN /\ deleted' = deleted + SizeAt(data, hashmap[hash])
          /\ data' = Marked(data, hashmap[hash])
          /\ hashmap' = GcWithout(hashmap, hash)
          /\ deletes' = deletes + 1
     ELSE UNCHANGED <<deleted, data, hashmap, deletes>>
  /\ latest' = GcWithout(latest, hash) /\ unfit' = unfit \ {hash}
  /\ UNCHANGED <<dataLen, tail, gcSize, clears, gcNow, panicked, overflowed, leaks, miscounted>>

\* mutant: what Delete takes off the count is a copy read before
GcDeleteStores ==
  /\ ~panicked /\ deletes > 0
  /\ gcSize' = Cardinality(DOMAIN hashmap) /\ deletes' = deletes - 1
  /\ UNCHANGED <<hashmap, data, dataLen, tail, deleted, clears, gcNow, panicked,
                 latest, unfit, overflowed, leaks, miscounted>>

\* The end of Delete, without the lock
GcDeleteSize ==
  /\ ~panicked /\ deletes > 0
  /\ gcSize' = gcSize - 1 /\ deletes' = deletes - 1
  /\ UNCHANGED <<hashmap, data, dataLen, tail, deleted, clears, gcNow, panicked,
                 latest, unfit, overflowed, leaks, miscounted>>

\* Clear keeps the array; nothing points into it any more.
GcClear ==
  /\ ~panicked /\ Late < MaxLate
  /\ hashmap' = <<>> /\ data' = <<>> /\ tail' = 0 /\ deleted' = 0
  /\ clears' = clears + 1
  /\ latest' = <<>> /\ unfit' = {} /\ leaks' = 0
  /\ UNCHANGED <<dataLen, gcSize, deletes, gcNow, panicked, overflowed, miscounted>>

\* The end of Clear, without the lock: it stores zero over whatever the calls
\* that came in between have counted or have yet to count.
GcClearSize ==
  /\ ~panicked /\ clears > 0
  /\ gcSize' = 0 /\ clears' = clears - 1
  /\ miscounted' = (deletes # 0 \/ DOMAIN hashmap # {})
  /\ UNCHANGED <<hashmap, data, dataLen, tail, deleted, deletes, gcNow, panicked,
                 latest, unfit, overflowed, leaks>>

GcTick ==
  /\ ~panicked /\ gcNow < MaxGcNow
  /\ gcNow' = gcNow + 1
  /\ UNCHANGED <<hashmap, data, dataLen, tail, deleted, gcSize, deletes, clears, panicked,
                 latest, unfit, overflowed, leaks, miscounted>>

GcNext ==
  \/ \E key \in GcKeys, n \in ValueLens, exp \in Expiries : GcSet(key, n, exp)
  \/ \E hash \in GcHashes : GcDelete(hash)
  \/ GcDeleteSize \/ GcClear \/ GcClearSize \/ GcTick

\* A shard of GCFreeStore by itself
GcSpec == GcInit /\ [][GcNext]_gcVars

-----------------------------------------------------------------------------
(* Properties.                                                             *)

\* What was set last for a hash is what Get returns, until it expires, through
\* replacing, compaction and growth; other keys with that hash get nothing.  Two
\* entries are lost although Set returned true: one that does not fit the array
\* compact leaves (Set does not look again), and one with an empty key when the
\* array is compacted.  Only after the first does an operation panic.
ReadsLastSet ==
  /\ panicked => overflowed
  /\ ~panicked => \A key \in GcKeys :
       GcGet(key) = IF /\ key.hash \in DOMAIN latest \ unfit
                       /\ latest[key.hash].key = key
                       /\ latest[key.hash].exp = 0 \/ gcNow <= latest[key.hash].exp
                    THEN {latest[key.hash].valueLen} ELSE {}
  /\ ~overflowed => \A h \in unfit : latest[h].key.len = 0

\* The bytes before tail are those of the entries in the map and the deleted
\* ones, through replacing, compaction and growth: that is what decides when to
\* compact, and whether it makes room.
SpaceAccounted ==
  ~panicked =>
    tail = deleted + MapThenSumSet(LAMBDA h : SizeAt(data, hashmap[h]), DOMAIN hashmap)

\* Len is the number of entries, plus those that a Delete under way has removed
\* and will count, whatever calls come between the two halves of a Delete.  That
\* excepts a Clear under way, a Clear that another call has overlapped, until a
\* Clear runs alone, and the entries compaction drops.
LenAccounted ==
  ~panicked /\ clears = 0 /\ ~miscounted /\ leaks = 0 =>
    gcSize = Cardinality(DOMAIN hashmap) + deletes
=============================================================================
