------------------------------- MODULE Iterator -------------------------------
(***************************************************************************)
(* Iterator of iterator.go over a ShardedStore, while other goroutines     *)
(* change the store.  Scan walks the shards from a cursor and locks one at *)
(* a time; an iteration by prefix asks the radix tree for hashes and looks *)
(* each up in the store.  Go visits a map, and so a shard or the children  *)
(* of a radix node, in another order each time.  A prefix or a pattern     *)
(* stands for the keys it matches; the radix tree holds the keys of the    *)
(* store.                                                                  *)
(***************************************************************************)
EXTENDS Integers, SequencesExt, FiniteSetsExt

CONSTANTS IterKeys,     \* the hashes of keys that may be in the store
          NumShards,    \* a power of 2
          Calls,        \* what makes the iterator: "Scan", "ScanPrefix", "ScanMatch"
          Counts,       \* page sizes that callers ask for
          MaxChanges,   \* bound: how often others change the store
          MaxFalse      \* bound: no call of Next after so many false answers

ASSUME IteratorAssumption ==
  /\ IterKeys \subseteq Nat /\ IsFiniteSet(IterKeys) /\ NumShards \in Nat \ {0}
  /\ Calls \subseteq {"Scan", "ScanPrefix", "ScanMatch"}
  /\ Counts \subseteq Int /\ {MaxChanges, MaxFalse} \subseteq Nat

VARIABLES stored,     \* the store and the radix tree: keys that are present
          expired,    \* those whose time is over
          replaced,   \* history: keys that others have stored or deleted
          iter,       \* the fields of the Iterator
          fetch,      \* the fetchPage that Next is in
          yielded,    \* history: the entries Next has moved to
          ended,      \* history: how often Next has returned false
          changes,    \* history: how often others changed the store
          cut         \* history: shards that a Scan saw in more than one piece

iterVars == <<stored, expired, replaced, iter, fetch, yielded, ended, changes, cut>>
storeVars == <<stored, expired, replaced, changes>>

NoFetch == [pc |-> "user"]
ShardOf(key) == key % NumShards
ShardKeys(i) == {k \in stored : ShardOf(k) = i}

-----------------------------------------------------------------------------
\* Scan, ScanPrefix and ScanMatch make an iterator from the start.  A pattern comes
\* with its literal prefix, which each key it matches has.  An iteration goes by
\* prefix if it has one and the cache has a radix tree.
IterInit ==
  /\ stored \in SUBSET IterKeys /\ expired \in SUBSET stored /\ replaced = {}
  /\ \E call \in Calls, byPrefix \in BOOLEAN, count \in Counts, prefix \in SUBSET IterKeys :
     \E pattern \in IF call = "ScanMatch" THEN SUBSET prefix ELSE {IterKeys} :
       /\ call = "Scan" => prefix = IterKeys /\ ~byPrefix
       /\ iter = [byPrefix |-> byPrefix, count |-> IF count <= 0 THEN 10 ELSE count,
                  prefix |-> prefix, pattern |-> pattern, shard |-> 0, item |-> 0,
                  buffer |-> <<>>, page |-> <<>>, pos |-> 0, done |-> FALSE]
  /\ fetch = NoFetch /\ yielded = <<>> /\ ended = 0 /\ changes = 0 /\ cut = {}

\* The keys that pass the filters of matchEntry
Wanted == iter.prefix \cap iter.pattern

\* Where a Scan goes on: in the middle of this shard if item is not 0
Cursor == IF fetch.pc \in {"scan", "scanned"} THEN fetch ELSE iter

InShard(i) == ~iter.byPrefix /\ Cursor.shard = i /\ Cursor.item > 0

\* Others store, delete or let expire a key.
IterChange(key) ==
  /\ changes < MaxChanges
  /\ \/ /\ stored' = stored \cup {key} /\ expired' = expired \ {key}
        /\ replaced' = replaced \cup {key}
        /\ cut' = cut \cup {i \in {ShardOf(key)} : InShard(i)}
     \/ /\ stored' = stored \ {key} /\ expired' = expired \ {key}
        /\ replaced' = replaced \cup {key} /\ UNCHANGED cut
     \/ key \in stored /\ expired' = expired \cup {key} /\ UNCHANGED <<stored, replaced, cut>>
  /\ changes' = changes + 1
  /\ UNCHANGED <<iter, fetch, yielded, ended>>

Answer(found) ==
  /\ fetch' = NoFetch
  /\ ended' = ended + (IF found THEN 0 ELSE 1)

\* Next, on the page it has or at the end
IterNext ==
  /\ fetch = NoFetch /\ ended < MaxFalse
  /\ iter.pos + 1 < Len(iter.page) \/ iter.done
  /\ iter' = [iter EXCEPT !.pos = @ + 1]
  /\ Answer(iter.pos + 1 < Len(iter.page))
  /\ yielded' = IF iter.pos + 1 < Len(iter.page)
                THEN Append(yielded, iter.page[iter.pos + 2]) ELSE yielded
  /\ UNCHANGED <<storeVars, cut>>

StartScan(it) == [pc |-> "scan", shard |-> it.shard, item |-> it.item, entries |-> <<>>]

\* Next goes on to another page; the buffer may hold one already.
IterFetch ==
  /\ fetch = NoFetch /\ ended < MaxFalse
  /\ iter.pos + 1 >= Len(iter.page) /\ ~iter.done
  /\ iter' = [iter EXCEPT !.pos = @ + 1]
  /\ fetch' = IF iter.byPrefix THEN [pc |-> "find"]
              ELSE IF iter.buffer = <<>> THEN StartScan(iter) ELSE [pc |-> "serve"]
  /\ UNCHANGED <<storeVars, yielded, ended, cut>>

\* fetchPage: one page from the buffer
IterServe ==
  /\ fetch.pc = "serve"
  /\ IF iter.buffer = <<>> THEN Answer(FALSE) /\ UNCHANGED <<iter, yielded>>
     ELSE LET n == Min({iter.count, Len(iter.buffer)})
          IN  /\ iter' = [iter EXCEPT !.page = SubSeq(iter.buffer, 1, n), !.pos = 0,
                                      !.buffer = SubSeq(@, n + 1, Len(@))]
              /\ Answer(TRUE) /\ yielded' = Append(yielded, iter.buffer[1])
  /\ UNCHANGED <<storeVars, cut>>

-----------------------------------------------------------------------------
\* What Scan takes of a shard visited in this order
Taken(order) ==
  SubSeq(order, fetch.item + 1,
         Min({Len(order), fetch.item + 2 * iter.count - Len(fetch.entries)}))

\* mutant: the cursor points at the last entry taken, not behind it
NextItemAgain(taken) == fetch.item + Len(taken) - 1

\* The index in the shard at which the next Scan begins
NextItem(taken) == fetch.item + Len(taken)

\* Scan of one shard, up to as many entries as it may return
ScanShard ==
  /\ fetch.pc = "scan" /\ fetch.shard < NumShards
  /\ \E order \in SetToSeqs(ShardKeys(fetch.shard)) :
       LET all == fetch.entries \o Taken(order)
       IN  IF Taken(order) # <<>> /\ Len(all) >= 2 * iter.count
           THEN /\ fetch' = [pc |-> "scanned", entries |-> all, over |-> FALSE,
                             shard |-> fetch.shard, item |-> NextItem(Taken(order))]
                /\ cut' = cut \cup {i \in {fetch.shard} :
                                      fetch.item + Len(Taken(order)) < Len(order)}
           ELSE /\ fetch' = [fetch EXCEPT !.entries = all, !.shard = @ + 1, !.item = 0]
                /\ UNCHANGED cut
  /\ UNCHANGED <<storeVars, iter, yielded, ended>>

\* Behind the last shard the cursor is 0 again.
ScanEnd ==
  /\ fetch.pc = "scan" /\ fetch.shard = NumShards
  /\ fetch' = [pc |-> "scanned", entries |-> fetch.entries, over |-> TRUE,
               shard |-> 0, item |-> 0]
  /\ UNCHANGED <<storeVars, iter, yielded, ended, cut>>

\* fetchPage keeps an entry that matches.  Which entry of a replaced key the scan
\* saw, and when that one expires, is open.
MatchEntry ==
  /\ fetch.pc = "scanned" /\ fetch.entries # <<>>
  /\ \E keep \in BOOLEAN :
       /\ keep => Head(fetch.entries) \in Wanted
       /\ Head(fetch.entries) \in replaced \/ keep = (Head(fetch.entries) \in Wanted \ expired)
       /\ iter' = IF keep THEN [iter EXCEPT !.buffer = Append(@, Head(fetch.entries))] ELSE iter
  /\ fetch' = [fetch EXCEPT !.entries = Tail(@)]
  /\ UNCHANGED <<storeVars, yielded, ended, cut>>

\* After the last one, it scans again until there is something in the buffer.
ScanMatched ==
  /\ fetch.pc = "scanned" /\ fetch.entries = <<>>
  /\ iter' = [iter EXCEPT !.shard = fetch.shard, !.item = fetch.item, !.done = fetch.over]
  /\ fetch' = IF iter.buffer = <<>> /\ ~fetch.over THEN StartScan(fetch) ELSE [pc |-> "serve"]
  /\ UNCHANGED <<storeVars, yielded, ended, cut>>

-----------------------------------------------------------------------------
\* FindByPrefix with a limit: so many of the keys, in any order
FoundHashes(limit) ==
  {SubSeq(order, 1, Min({limit, Len(order)})) : order \in SetToSeqs(stored \cap iter.prefix)}

\* fetchPrefixPage: the cursor is an index into the hashes.
PrefixFind ==
  /\ fetch.pc = "find"
  /\ \E hashes \in FoundHashes(2 * iter.count) :
       IF iter.item >= Len(hashes)
       THEN Answer(FALSE) /\ iter' = [iter EXCEPT !.done = TRUE]
       ELSE /\ fetch' = [pc |-> "collect", hashes |-> hashes, i |-> iter.item + 1,
                         entries |-> <<>>]
            /\ UNCHANGED <<iter, ended>>
  /\ UNCHANGED <<storeVars, yielded, cut>>

Collecting == fetch.i <= Len(fetch.hashes) /\ Len(fetch.entries) < iter.count

\* A hash is looked up; its entry may be gone, expired or not match the pattern.
PrefixCollect ==
  /\ fetch.pc = "collect" /\ Collecting
  /\ LET k == fetch.hashes[fetch.i]
     IN  fetch' = [fetch EXCEPT !.i = @ + 1,
                                !.entries = IF k \in (stored \cap Wanted) \ expired
                                            THEN Append(@, k) ELSE @]
  /\ UNCHANGED <<storeVars, iter, yielded, ended, cut>>

\* The cursor moves on by the entries found, not by the hashes looked up.
PrefixPage ==
  /\ fetch.pc = "collect" /\ ~Collecting
  /\ LET n == Len(fetch.entries)
     IN  /\ iter' = [iter EXCEPT !.page = fetch.entries, !.pos = 0, !.item = @ + n,
                                 !.done = @ \/ iter.item + n >= Len(fetch.hashes)]
         /\ Answer(n > 0)
         /\ yielded' = IF n > 0 THEN Append(yielded, fetch.entries[1]) ELSE yielded
  /\ UNCHANGED <<storeVars, cut>>

IteratorNext ==
  \/ \E key \in IterKeys : IterChange(key)
  \/ IterNext \/ IterFetch \/ IterServe \/ ScanShard \/ ScanEnd \/ MatchEntry \/ ScanMatched
  \/ PrefixFind \/ PrefixCollect \/ PrefixPage

IteratorSpec == IterInit /\ [][IteratorNext]_iterVars

-----------------------------------------------------------------------------
(* Properties.                                                             *)

\* What an iteration is for while others change the store: it moves only to keys
\* that pass its filters, and a Scan moves to each of them that stays in the store
\* once, unless Next returned false with the rest of the last scan in the buffer.
\* That holds across the borders of pages, scans and shards, as long as the shard
\* of the key was seen in one piece: a cursor into the middle of a map means
\* nothing the next time.
SteadyServedOnce ==
  LET seen == yielded \o iter.buffer
  IN  /\ ToSet(yielded) \subseteq Wanted
      /\ ~iter.byPrefix => \A k \in IterKeys : ShardOf(k) \notin cut =>
           /\ \A m, n \in DOMAIN seen : seen[m] = k /\ seen[n] = k => m = n
           /\ ended > 0 /\ k \in (stored \cap Wanted) \ (expired \cup replaced) =>
                k \in ToSet(seen)

\* What Next says of itself: it returns false when the entries are exhausted, so
\* that All collects all remaining entries.  Over a store nobody changes, each
\* that matches has then been moved to.
NextExhausts ==
  ended > 0 /\ changes = 0 => (stored \cap Wanted) \ expired \subseteq ToSet(yielded)
=============================================================================
