# A TLA+ specification of go-mcache

go-mcache is an in-memory cache for Go. Its data lives in structures that are
each safe on their own (a sharded map, an admission and eviction policy, a
timing wheel, a radix tree, atomic counters, a lock-free ring) and that no
common lock ties together. Most of what can go wrong goes wrong between them,
in orders of steps that a test hardly reaches. This directory models these
parts, the older driver that the package still offers, and the data structures
beside them; checks them with TLC on small instances; and proves with TLAPS,
for instances of any size, the safety properties of the ring, the write buffer,
the cache, the wheel, the policy, the legacy driver, the lock-free filter, the
garbage-free store and the iterator.

## 1. The system

| Component | State | Operations | What makes it correct |
|---|---|---|---|
| `RingBuffer` (`internal/buffer/ring.go`) | slots with a value and a sequence number, `head`, `tail` | `Push`, `Pop`, `Len` | FIFO in the order of claims; nothing lost or duplicated; no data race on the value; no spurious failure |
| `WriteBuffer`, `LossyBuffer` (same file) | a ring, channels `flushCh`, `syncCh`, `stopCh`, `doneCh`, a batch | `Push`, `Flush`, `FlushSync`, `Close`, the goroutine `flushLoop` | order kept through batches; `FlushSync` and `Close` return after what was accepted is flushed, and do return |
| `Cache` (`cache.go`) | the structures below, `liveCost`, `closed`, `clearMu` | `Get`, `Set`, `SetWithCost`, `Delete`, `Clear`, `Close`, `Wait`, the goroutine `expirationWorker` | store, policy, radix tree and counters agree |
| `ShardedStore` (`internal/store/sharded.go`) | maps under one lock per shard, atomic `size` | `Set`, `UpdateExistingByHash`, `DeleteByHash`, `DeleteIfExpired`, `Clear`, scans | `size` is the number of entries |
| `ExpiryWheel` (`internal/store/expiry_wheel.go`) | buckets of events, `currentTick` | `Schedule`, `Advance`, `Clear` | every event is returned at its tick; no entry with a TTL loses its event |
| `clock` | a cached time, refreshed by a goroutine | `NowNano` | monotone, may skip values |
| `Policy`, `PolicyLockFree`, `SampledLFU`, `TinyLFU`, sketches, Bloom filters (`internal/policy`) | tracked keys with costs, a dense array with an index, frequency counters | `Add`, `Update`, `Del`, `Access`, `Clear` | the limits hold; the array and its index agree; frequencies are not under-estimated |
| `TinyLFULockFree` and its sketch and Bloom filter | atomic words of packed counters and bits, a count of increments | `Increment`, `IncrementBatch`, `Estimate`, `Clear` | no access is lost to a race, nor is a reset |
| radix tree, glob (`internal/radix`, `internal/glob`) | a tree of string keys; a compiled pattern | `Insert`, `Delete`, `FindByPrefix`; `Compile`, `Match` | a set of keys; matches begin with the prefix searched for |
| `Iterator` (`iterator.go`) | a prefix, a pattern, a page, a buffer and a cursor | `Next`, `All` | it moves to entries that match, and to each that stays in the store once |
| legacy `CacheDriver`, `SafeMap`, `GC` (`mcache.go`, `safeMap`, `gcmap`) | a map, a heap of expirations, a timer, a wake-up channel | `Set`, `Get`, `Remove`, `Truncate`, `Close`, the goroutine `run` | an expired key is removed; a shorter expiration wakes the loop |
| `SwissTable`, `GCFreeStore`, `ExpiryHeap`, `CuckooFilter` | data structures that the cache does not use | | a map, a store, a heap, a set |
| metrics, options, hashing, pools, allocation, prefetch | counters, configuration, memory | | |

How they interact. A client's `Set` runs through the store, the policy, the
store again for each victim, the counters, the wheel and the radix tree, one
critical section after the other. The expiration worker does the same for
events of the wheel. `Clear` resets the structures one by one; `clearMu` keeps
it apart from the worker, and from nobody else. With a write buffer, the
flush goroutine runs the calls instead of the client, and `Wait` and `Clear`
wait for it. Reads record accesses through a lossy buffer into the policy.

What is hard: the sequence-number protocol of the ring; a call of one client
in the middle of another's on the same key, or on a key that it evicts; events
that outlive their entries; a `Clear` or `Close` in the middle of everything;
rounding and ties of times; waiting goroutines that nobody answers. The list,
with lines, is `hazards` in `PROJECT.json`.

## 2. The modules

| Module | Models | Built on |
|---|---|---|
| `TicketQueue` | what the ring promises: a bounded FIFO queue in which a push claims a ticket and publishes it later, and a pop takes a ticket and frees its place later | |
| `RingBuffer` | `RingBuffer.Push` and `Pop`, one action per atomic load, store and compare-and-swap and per plain access to the value | refines `TicketQueue` |
| `RingBufferProofs` | the proofs about `RingBuffer` | extends `RingBuffer` |
| `WriteBuffer` | `WriteBuffer`, and with `RetryLimit = 0` `LossyBuffer`, which differs in nothing else | extends `TicketQueue` |
| `WriteBufferProofs` | the proofs about it | extends `WriteBuffer` |
| `Cache`, `MCCache` | `cache.go`, with a write buffer or without (the default) | |
| `CacheProofs` | the proofs about it | extends `Cache`, `FiniteSums` |
| `ExpiryWheel`, `MCExpiryWheel` | the wheel with the store, clients, `Clear` and the worker around it | |
| `ExpiryWheelProofs` | the proofs about it | extends `ExpiryWheel` |
| `SampledLFU` | the tracked keys, their costs, the dense array and its index | |
| `Policy`, `MCPolicy` | `Policy` and `TinyLFU`: admission, frequencies, the search for victims | extends `SampledLFU` |
| `PolicyProofs` | the proofs about both | extends `Policy`, `FiniteSums` |
| `LockFreeLFU` | `TinyLFULockFree` with its sketch and doorkeeper, one action per atomic operation | |
| `LegacyGC`, `MCLegacyGC` | the legacy driver: `mcache.go`, `safeMap`, `gcmap`, `item` | |
| `LegacyGCProofs` | the proofs about it | extends `LegacyGC` |
| `FiniteSums` | laws of the sum over a finite set, for the proofs that need them | |
| `Iterator` | `Scan`, `ScanPrefix` and `ScanMatch`: `Next` and its pages over `ShardedStore.Scan` and `FindByPrefix`, with the filters of `matchEntry` | |
| `RadixTree` | the radix tree, node by node | |
| `Glob` | compiling and matching patterns | |
| `SwissTable`, `CuckooFilter`, `GCFreeStore` | data structures of the package that the cache does not use | |
| `MCParts` | one instance of seven parts that call none of the others | extends `RadixTree`, `SwissTable`, `CuckooFilter`, `GCFreeStore`, `Glob`, `LockFreeLFU`, `Iterator` |
| `PartsProofs` | the proofs about five of them, each in its section | extends `LockFreeLFU`, `GCFreeStore`, `Iterator`, `SwissTable`, `CuckooFilter`, `FiniteSums` |

**RingBuffer.** `seq`, `value`, `head`, `tail` are the fields of the code;
`ppc`, `cpc` are the lines a producer and a consumer are at, `ptail`, `chead`
the indices they loaded, `cval` the value a pop has read. A `Push` is
`PushCall`, `PushLoadTail`, `PushLoadSeq`, `PushCAS` or `PushCASFails`,
`PushWrite`, `PushPublish`. `log` and `popped` are history: the items in the
order of their claims, and the results of pops. 64-bit indices do not wrap in
the model; the code would need 2^64 pushes for that.

**WriteBuffer.** `ppc` is a producer in `Push` (with the two loads of `Len` as
two steps), `fpc` the flush loop: `select`, then pops, frees, flushes and, for
`flushAll`, looks whether the ring is empty. `serving` is what the round was
started for: a batch, the stop signal or a waiter. `syncCh` is the queue of
requests, `closedDone` the closed reply channels. `need` is history: how far
flushing must have come when a caller returns.

**Cache.** A call is a list of critical sections in `todo[actor]`. Each action
runs the first one and replaces it by what the code does next: `Peek` becomes
`Update` or `Add`, `Add` becomes the evictions followed by `Put`, `Put` becomes
`Size`, `Cost`, `Schedule`, `RadixInsert`, and so on. Between two sections any
other actor may run. The policy's choice of victims depends on estimated
frequencies and on a random sample, so the model lets it choose any tracked
keys, as long as `NeedsEviction` holds before each. A shard holds one key,
which allows every interleaving a coarser lock allows. Whether there is a write
buffer is chosen in `Init`. With one, a `Set` or `Delete` begins with `Push`:
it joins `queue`, or, when the queue is full, the client goes on with the call
itself. `FlushBatch` hands a batch of the oldest writes to the flush goroutine,
whose steps are the same critical sections, one write after the other; `Wait`,
and `Clear` and `Close` before they do anything else, wait for it. `queue` is
the bounded FIFO queue that `WriteBuffer` describes in detail. Two ghosts
record overlaps: `raced` are the keys that two calls have worked on at the same
time (a queued write works on nothing yet), `clearRaced` says that a `Clear`
has overlapped another client's call. `last` is the write issued last for each
key, `overtaken` the keys for which a fallback met an older write in the queue.

**ExpiryWheel.** Buckets, cursor, rounding and re-bucketing as in the code. A
client computes an expiration, stores, and schedules in three steps, with the
clock moving in between; `Clear` empties the store and then the wheel. An
event carries as a ghost the cursor at the time it was scheduled, so that the
tick at which it must be returned can be stated exactly (`DueTick`).

**SampledLFU, Policy.** `costs`, `keys`, `keyIndex`, `usedCost`, `numEntries`
are the fields of the code; places in the array count from 1. `freq` is, for
each hash, the least of its counters in the sketch, which is all that
`Estimate` reads; `door` is the set of hashes the doorkeeper contains. Hashes
that share counters or bits are in `Clash`: an access of one may or may not
raise the other's estimate. `add` is the `Add` that holds `p.mu`: it draws a
sample, estimates its keys one by one, estimates the incoming key and then the
victim again, and evicts or gives up. `Access` takes no such lock and may run
between any two of these reads. `seen` is history: the accesses of each hash;
when the sketch is halved, so is `seen`, without the one that was in the
doorkeeper. This is `Policy`; `PolicyLockFree`, which the
default configuration chooses, has the same search for victims over an
admission filter without locks, whose races are in `LockFreeLFU`.

**LockFreeLFU.** `sketch` holds the words of each row, each with a few
counters; `doorkeeper` is the set of bits that are set. An increment tests and
sets its bits one by one (`DoorLoad`, `DoorCAS`), counts in every row if all
were set (`SketchLoad`, `SketchCAS`), adds to the count (`CountAdd`), and may
claim the reset (`ClaimReset`), which halves one word of the sketch at a time
and then stores zero in one word of the doorkeeper after the other
(`ZeroDoorWord`), while others go on. `Clear` stores zero in every word of both,
with no lock either. `accessed` is history.

**LegacyGC.** Calls are lists of critical sections, as in `Cache`. `heap` maps
the scheduled keys to their times; of several with the least time any may be at
the root. `Set` reads the clock for the item and `ExpiredAt` reads it again for
the heap. `pc` is where the goroutine of `GC.run` is: it arms the timer under
the lock, sleeps in `select`, takes what is due off the heap, and flushes the
keys from the map one by one. The wake-up is a step of the client after it has
left the lock (`SignalWakeUp`). A timer may fire up to `Lag` before the cached
clock shows its time, so the loop can wake and find nothing due. `tied` records
the items that were flushed at the very time of their expiration.

**Iterator.** `iter` is the iterator's fields, `fetch` the `fetchPage` under
way. Whether there is a radix tree is chosen in `IterInit`, with the call that
makes the iterator, the store, what is expired in it, and the filters: a prefix
and a pattern are sets, the keys they match, and a pattern lies within its
literal prefix (module `Glob`). `Scan` takes one shard per step and visits it in
an order of its own each time, as Go does with maps; its entries then go through
`matchEntry` one by one. By prefix the hashes of a search are looked up one by
one. Others may store, delete or let expire a key at any moment (`IterChange`).
A scan holds the entries it found, not the keys, so what it says of a key that
was replaced meanwhile is left open (`MatchEntry`). `yielded` is history, and
`cut` the shards that a scan has seen in more than one piece: it stopped in the
middle of one, or a key was stored in one while the cursor stood in it.

**RadixTree, Glob.** Nodes are records, recursive operators follow the
recursive functions of the code, and every operation is one action because it
holds the lock. A search stops at its limit and meets the children of a node in
any order. Keys and patterns are sequences of characters, since splits and
wildcards are about single characters.

**SwissTable.** Groups of control bytes with probing and growth. `Size` reads
an atomic counter without the lock, and a growth sets that to 0 and counts it
up again; the model shows it between operations only (the tests alone call it).

**CuckooFilter.** Buckets of fingerprints, where relocation moves one at a time
while a lookup without a lock loads one slot after the other.

**GCFreeStore.** A byte array in which each entry has an offset and a length,
compacted or doubled when an entry does not fit. `Set` is one action, since it
holds the lock of the shard to its end; `Delete` and `Clear` are two, one under
the lock and one that changes the size after it (`GcDeleteSize`, `GcClearSize`),
with anything in between. `deletes` and `clears` count the calls between their
halves. `panicked` says that a slice expression of the code was out of range.

## 3. What TLC checks

| Run | Instance | Properties |
|---|---|---|
| `ring` | 2 producers with 2 pushes each, 2 consumers, 2 slots | `TypeOK`, `PopsInClaimOrder`, `NoValueRace`, `RingInv`, `ImplementsTicketQueue`, `FailsOnlyWhenBlocked` |
| `write_buffer` | 2 producers, 3 items, a FlushSync, a Close, ring of 2, batches of 1, one retry | `TypeOK`, `FlushedInOrder`, `FlushedBeforeReturn` |
| `buffer_live` | the same with 2 items and no retry (`LossyBuffer`) | `EventuallyFlushed`, `CallersReturn` |
| `flush_after_close` | as `buffer_live` | violates `FlushSyncReturns` |
| `cache` | 2 clients making 3 calls, 2 keys, one round of the worker, cost limit 1, no buffer or one of 2 with batches of 1 | `TypeOK`, `LenExact`, `CostExact`, `StructuresAgree`, `LastWriteWins`, `NoEarlyExpiry` |
| `expiry` | 2 clients making 3 calls, 2 keys, 2 buckets, resolution 2, times up to 6 | `TypeOK`, `NoOverdueEvent`, `ForgottenOnlyByTieOrClear` |
| `expiry_leak` | as `expiry` | violates `NeverForgotten` |
| `policy` | 4 keys with 2 hashes, costs 1 and 2, limits of 1 entry and a cost of 3, counters up to 2, reset after 5 | `TypeOK`, `DenseArray`, `CountersExact`, `NeverUnderestimates`, `EvictsBackToLimit` |
| `policy_reject` | as `policy` | violates `ColdItemRejected` |
| `legacy` | 2 clients making 2 calls, 2 keys, TTLs of 0, 1 and 2, polling every 3, times up to 3 | `TypeOK`, `NeverOversleeps`, `ForgottenOnlyByTie`, `ExpiredIsRemoved` |
| `parts` | one of seven parts at a time, as below | `TreeIsKeySet`, `SwissIsMap`, `FingerprintsKept`, `MissesOnlyMoved`, `ReadsLastSet`, `SpaceAccounted`, `LenAccounted`, `PatternMeaning`, `ResetNotLost`, `CountsEveryAccess`, `SteadyServedOnce` |
| `iterator_loss` | a Scan over any store of 3 keys in one shard, pages of 2 | violates `NextExhausts` |

*Why the bounds are enough.* In `ring`, four pushes over two slots go around
the ring twice, so a stale index can meet a slot of the next revolution, and
every goroutine can be overtaken by the other of its kind. In `write_buffer`,
three items over a ring of two make it full, and every flush takes several
batches. In `cache`, three calls are what the known races need (an entry that
is there, and two calls that meet on it), and the two kinds of entries callers
offer include one that is over the cost limit, so that evictions happen, and
one with a TTL shorter than a step of the clock, so that it can expire within
the run. Three writes to a queue of two fill it, so that the third falls back;
with a buffer, a round of the worker takes the place of one of the calls
(`CallsLeft`). In `expiry`, times up to 6 with a resolution of 2 are
three ticks over two buckets: every bucket is met again after a revolution,
TTLs fall on and between ticks, and the clock can skip a whole revolution. In
`policy`, two keys share a hash with each other and the two hashes share
counters; with four keys and a limit of one entry, a key can be refused and
another one still be new; a counter saturates, and the reset comes before and
after it does; up to two keys all are sampled, three and more by choice.
Nothing else bounds that run: its state space is finite. Keys and clients of
`cache` and `expiry`, and keys of one hash in `policy`, are symmetric; none of
their properties is a liveness property. In `legacy`, two calls are what the
races with the sleeping loop need: one to schedule a key, and one that
shortens, removes or truncates while the first still has to send its wake-up.
The TTLs are shorter than the poll interval. The clock goes one beyond the
expiration of a TTL of 1, and as far as that of a longer one, which is there to
be shortened. There is no symmetry, as a liveness property is checked. Deadlock
is checked in `ring` and `policy`, where something can always be called again.
The other instances end when their calls are used up, the clock stops, a
pattern is compiled or a store has panicked.

In `parts`, each instance is chosen so that its structure goes through its hard
cases:

- radix tree: 9 keys over two characters, among them the empty one, keys that
  end where others split, and branches that merge when a key goes; a limit of 2
  and the default one;
- swiss table: groups of 2 slots, 1 or 2 groups to begin with, 5 hashes of which
  three share a control byte and several a group, so that probes go past
  tombstones and the table grows;
- cuckoo filter: 4 buckets of 2, three fingerprints of which two start in the
  same bucket, 3 kicks, one failed relocation;
- byte-array store: a header of 2 and an array of 4, values of 1 and 13, so that
  an entry may need the array to be doubled more than once, or may not fit after
  compaction; sets go on after it was doubled to 8; two keys with one hash and
  one empty key. Two calls may be between their halves, as `Len` needs it: a
  `Delete` beside another, or beside a `Clear`;
- glob: all patterns of up to 3 pieces out of 12, with wildcards, sets, ranges in
  both directions, an unclosed set and escapes, against all keys of up to 3
  characters;
- lock-free filter: 2 threads, 4 batches, two hashes that share a word in each
  row, a counter in one row and a bit of the doorkeeper, a reset after 5;
- iterator: 4 keys in 2 shards, any of them stored, and any of those expired, at
  the start; one change by others. Pages of 1 make scans of 2 entries, which stop
  inside the shard with three keys, span both shards, and end with an entry left
  in the buffer; a page of 10 (the default, for a count of 0) takes the whole
  store at once. Scans are checked with every pattern, iterations by prefix with
  one prefix and every pattern that comes with it (`MCIteration`). A `ScanPrefix`
  differs from a `ScanMatch` only in letting its whole prefix pass.

`MaxArray`, `MaxLeaks`, `MaxLate`, `MaxFailed`, `MaxBatches`, `MaxChanges` and
`MaxFalse` bound these runs; the modules name what each one bounds.

*Fairness.* `WriteBuffer`: goroutines that can run do run: weak fairness
of `PushStep`, `FlushSyncStep`, `CloseReturn` and `FlushLoop`, the last of
which includes the ticker. `select` picks at random among the ready cases, so
a case that is ready again and again is taken: strong fairness of `SelectStop`
and `SelectSync`. Nobody is obliged to call anything. The instance has
finitely many items; with producers that never pause, `flushAll` could find
the ring non-empty for ever, which these runs do not exclude. `LegacyGC`: weak
fairness of each client inside a call, of the goroutine of `GC` and of the
clock, because Go schedules every goroutine and time goes on. A `select` with
several ready cases may take any; no fairness among them is needed, since both
the timer and the wake-up lead back to the heap.

*What the runs say about the code.*

- The ring and the buffers keep their promises in every interleaving, with one
  exception: `FlushSync` against `Close`. The request sits in the buffered
  `syncCh`; if `flushLoop` takes `stopCh` first it exits without an answer, and
  `FlushSync` (and with it `Wait` and `Clear`) never returns.
- The write issued last for a key is the one that stays, through the buffer, its
  batches and the worker (`LastWriteWins`), as long as no two calls work on the
  key at once. The exception is a fallback: it is applied while an older write
  of its key is still queued, and that one then overwrites it.
- `Len` is exact unless a `Clear` overlaps another client's call. It stays
  exact through all races of `Set`, `Delete`, eviction and expiration.
- `liveCost`, the policy and the radix tree are exact as long as no two calls
  work on a key at once. Nothing stronger holds. A `Delete` that meets a `Set`
  of its key, or a `Set` whose key another `Set` picks as victim before it is
  stored, leaves an entry that the policy does not track and never evicts.
- An entry with a TTL can lose its event in two ways: the tie (`expiry_leak`),
  and being stored between the two halves of a `Clear`. Reads still refuse
  expired entries; what is lost is the memory, the callback and the slot.
- An event scheduled behind the cursor waits for the next turn of its bucket,
  which is 4096 ticks in the code. `DueTick` says so.
- The policy never rejects anything. When `Admit` refuses a candidate, `Add`
  stops looking for victims and tracks the key all the same (`policy_reject`),
  so `Set` returns true, `OnReject` is never called, and the cache grows by one
  entry per refusal until an `Add` is admitted, which evicts the surplus. Even
  then it holds one entry more than the limit, as room is made before the new
  key is counted (`EvictsBackToLimit`).
- `LockFreeLFU`: until the first reset an estimate misses at most one access for
  each other thread (two threads may both take a hash for a new one), and the
  reset is not lost although its claim fails whenever another increment comes
  first: the last of them claims it.
- The legacy loop never sleeps past an expiration, although the wake-up is sent
  without the lock and is dropped when one is pending. It forgets an entry in
  the same kind of tie as the wheel: a key leaves the heap when its time is
  reached, the map gives it up only when its time is over. Reads still refuse
  it.
- While others change the store, an iteration moves only to keys that match, and
  a scan to each of them that stays in the store once (`SteadyServedOnce`), with
  two exceptions that are also true of a store nobody changes. It ends one page
  early: the last scan fetches up to two pages, `done` is set with it, and what
  is still in the buffer is never served (`iterator_loss`). And a cursor inside
  a shard is an index into a map that Go visits in another order each time: a
  shard that is scanned in pieces (`cut`) can yield one entry twice and another
  not at all.
- By prefix an iteration promises less, so `SteadyServedOnce` claims no more than
  that it moves to keys that match: `FindByPrefix` is asked for two pages of
  hashes every time, so what lies behind them is never reached; and the cursor,
  an index into these hashes, moves on by the entries that matched, so some are
  served twice and others not at all. `NextExhausts` is stated of these
  iterations too, and with `Calls = {"ScanPrefix"}` and a count of 1 TLC finds it
  violated just as well.
- The radix tree is the set of its keys. `WalkPrefix`, which nothing in the
  package calls, passes the right hashes under wrong names when the prefix ends
  inside a node: it appends the key's rest to the prefix, without the rest of
  the node. `TreeIsKeySet` claims the names only for prefixes that are keys, and
  for the empty one.
- Glob: every match begins with the literal prefix. `*` matches separators just
  as `**` does, whatever the comments say, and a range that ends at the byte
  0xFF is a loop without an end.
- The swiss table is a map through collisions, tombstones and growth. Its
  `Sample` is the first slots, not random ones.
- Cuckoo filter: an `Add` that fails after its kicks has stored its own
  fingerprint and dropped another one, so a key that was added is denied. A
  lookup can miss a key that is there when a relocation moves its fingerprint
  meanwhile, and in no other case (`MissesOnlyMoved`).
- `GCFreeStore`: what was set last is what `Get` returns, and the bytes of the
  array are accounted for. But `Set` returns true also when compaction did not
  make enough room: the entry is cut short and is never read, or the
  call panics, or a later one does. An entry with an empty key looks deleted to
  the compaction, which drops it and leaves `Len` too high. And `Len` is wrong
  for good after a `Clear` that another call overlaps: `Clear` stores 0 into the
  size after it has left the locks, over whatever was counted since (`miscounted`).
  Nothing else upsets it (`LenAccounted`), although `Delete` counts late, too.

## 4. What is proved

Every theorem is about all values of the constants that the `ASSUME` of the
module allows. These assumptions are the ones of the code or of the model's
bounds: numbers that are natural, names that differ, sets of keys that are
finite because each key stands for a shard.

### The ring (`RingBufferProofs`)

The theorems of `RingBufferProofs` are about any sets of producers and consumers
and any capacity; all theorems but the first assume `Capacity >= 2`. (With one
slot, the sequence numbers of "published" and "free for the next revolution"
are the same, and the protocol does not work. `NewCache` asks for at least two
slots.)

- `TypeCorrect`: `Spec => []TypeOK`.
- `RingInvariant`: `Spec => []RingInv`.
- `Fifo`, `RaceFree`: `PopsInClaimOrder` and `NoValueRace` always hold.
- `Refinement`: `Spec => ImplementsTicketQueue`.
- `NoSpuriousFailure`: `Spec => FailsOnlyWhenBlocked`.

*The argument.* Neither the order of pops nor the absence of races is inductive:
both depend on what the sequence numbers mean. `RingInv` says it. Ticket `t`
owns slot `t mod Capacity` as long as `head <= t < head + Capacity`. If it is
claimed, its slot carries `t + 1` and the item, or some `Push` is about to
write it (`PendingTickets`). If it is not, its slot carries `t`, or some `Pop`
is about to free it (`ClaimableTickets`). A goroutine between its
compare-and-swap and its last store has a ticket of its own (`WriterTickets`,
`DrainerTickets`). One before it knows that its sequence number is current if
its index is (`BeforeCAS`), which is why the compare-and-swap on the index
alone suffices. And sequence numbers never fall behind (`PassedTickets`), which
is why a stale index is never mistaken for a full or an empty ring. Two
tickets less than `Capacity` apart have different slots; that arithmetic is in
the first lemmas. Each action then has a lemma, with a step per conjunct that
it can disturb. Type correctness and `RingInv` give the other theorems; for the
refinement, `PushCAS`, `PushPublish`, `PopCAS` and `PopFree` are the steps of
`TicketQueue`, and every other action is a stutter.

### The write buffer (`WriteBufferProofs`)

- `WriteBufferType`, `FlushOrder`: `TypeOK` and `FlushedInOrder` always hold.
- `ReturnsAfterFlush`: `FlushedBeforeReturn`, an action property.
- `WriteBufferInvariant`: the inductive invariant `WBInv` they follow from.

*The argument.* `flushLoop` alone moves `head`, and what it has taken is in
`flushed` or in its batch, in order. That a caller returns in time is not about
the caller at all: it is that whoever has been told that the flush is complete
lacks nothing (`DoneFlushed`). When `flushAll` finds the ring empty with an
empty batch, every ticket claimed so far has been flushed, and no caller waits
for a ticket that nobody has claimed (`NeedClaimed`). A waiter's need stays what
it was when it sent its channel (`ServedWaits`, `StopWaits`).

### The cache (`CacheProofs`)

- `CacheType`: `TypeOK`.
- `StructuresStayInLine`: `StructuresAgree`.
- `ExpiryNeverEarly`: `NoEarlyExpiry`, an action property.
- `CacheInvariant`: the inductive invariant `CacheInv` they follow from.
- `LenStaysExact`, `CostStaysExact`: `LenExact` and `CostExact`, from
  `ExactInvariant`, which adds `ExactInv` to `CacheInv`.
- `LastWriteStays`: `LastWriteWins`, from `FreshInvariant`, which adds
  `FreshInv`.

*The argument.* `CallInv` says what the sections of a call carry, `OrderInv` in
which order they come: what follows a store operation comes before the next
victim, and the victims before the next write of a batch. With that, the
sections left of all calls that concern a key (`Duties`) tell what may be wrong
with it: `Settled` says that the tree disagrees with the store only while a
tree section is left, that the policy disagrees only while one of its sections,
an eviction or a `Put` is left, and that each section left finds what it was
made for (`Meets`). For a key that no two calls have worked on at once, one
call has all the duties (`AloneInv`), so its own order decides. A key nobody
works on has none, and all three structures agree.

*The counters.* `LenExact` and `CostExact` compare sums over all actors with
sums over the store. What each section does is a `Turn`: it replaces the first
section of a call (`Follows`), changes the store and one counter at most
(`Moves`), and the change of the counter, of what is owed and of the store
cancel out (`Balance`). That has one lemma per section; what a turn keeps has
another, once for all of them. The two properties alone are not inductive, for
two reasons. `doSet` adds the whole cost, so `Put` balances only if the key is
not stored: `NewInv` says so of any key that nobody raced for. And during a
`Clear` nothing balances: `ResetInv` says that what a `Clear` with no one
beside it has not emptied yet is still on its list, so that all is zero when it
lets go of `clearMu`. Both need `ClearAlone`, that the worker cannot run
meanwhile (`LockInv`, who clears or expires holds `clearMu`), and where in a
call `Unlock`, `Add` and `Put` stand (`ListInv`). A sum over actors changes
with one actor's call only (`OwedChange`), by the laws of `FiniteSums`; the
assumption that there are finitely many clients is what makes it one.

*The last write.* `FreshKey` says of a key that nobody raced for and no write
overtook: the newest of its writes in the queue stems from the one issued last
(`last`); if none is queued, the newest of those that any call has under way
does; and if none is under way either, the store holds what that write leaves:
its entry, or none if it was a `Delete`, or if the entry was evicted, expired
or cleared since. The first of the three needs the order of the queue, since a
batch is taken from its front; the second the order of a call (`OrderInv`),
since what a batch has begun is finished before its next write; the third
`AloneInv`, since nobody else stores the key meanwhile. A write that is pushed
is not under way (`Under`), which is why a client blocked on a full buffer
disturbs nothing until it falls back, and then `overtaken` records whether it
met an older write of its key.

### The wheel (`ExpiryWheelProofs`)

- `WheelType`, `NothingOverdue`, `ForgottenRarely`: `TypeOK`, `NoOverdueEvent`
  and `ForgottenOnlyByTieOrClear`. `WheelInvariant` is the inductive invariant.

*The argument.* An event stays in the bucket of its tick, and the cursor had not
passed the tick at which it is due when it was put there (`EventInv`). Every
tick the cursor passes drains that tick's bucket, so the cursor can reach the
due tick only in an `Advance` that visits the event's bucket. Because `Schedule`
rounds up, what this `Advance` puts back has a tick that the cursor has not
reached. The assumption `Resolution <= MaxNow` only says that the bounded clock
reaches a first tick.

### The policy (`PolicyProofs`)

For any keys, hashes, collisions between them, costs, limits and sample sizes:

- `ArrayDense`, `PolicyArrayDense`: `DenseArray`, of `SampledLFU` alone and as
  `Policy` uses it.
- `LimitRestored`: `EvictsBackToLimit`.
- `PolicyType`, `PolicyCountsExact`, `EstimateIsUpperBound`: `TypeOK`,
  `CountersExact` and `NeverUnderestimates`, from `PolicyInvariant`.

*The argument.* `LfuInv` is types, `DenseArray` and `numEntries = Len(keys)`.
The step that matters is `DeleteInv`: after swap-delete the array is the old
one with its last key in the place of the deleted one and one place less, and
the index changes at that key only; the two agree whether or not the deleted
key was the last. `PolicyInv` adds that a running `Add` has a key and a cost,
which makes every step of `Policy` a step of `SampledLFU` or a stutter. The
loop over the victims ends with the limit met or with an empty array, and
with `numEntries = Len(keys)` an empty array counts no entries
(`InsertRoomInv`); no other step raises the number of entries, except a
refusal, which `refused` records. That `usedCost` is the sum of the costs
(`CountInv`) needs the laws of sums below. For the estimates, `TinyInv` counts
the access that only the doorkeeper knows: a counter is at most one behind the
history, and not at all for a hash that is not in the doorkeeper; halving keeps
that, because the history is halved without that access.

### The legacy driver (`LegacyGCProofs`)

- `LegacyType`, `LoopAwake`, `ForgottenOnTie`: `TypeOK`, `NeverOversleeps` and
  `ForgottenOnlyByTie`, from `LegacyInvariant`.

*The argument.* What is left of the one call that works on a key says what may
be wrong with it (`Mid`): between `InsertItem` and `Schedule` the item may be in
the map without being in the heap, and `Expired` reads the clock no earlier than
the item did. When nothing is left, the item is scheduled no earlier than its
expiration or is about to be flushed (`Kept`). `NeverOversleeps` is inductive as
it stands. The assumption that there is a longest TTL holds of any finite set.

### The lock-free filter (`PartsProofs`)

- `ResetHappens`: `ResetNotLost`. As long as the count is at the threshold or
  above, the thread that took it to its present value has still to claim the
  reset (`ClaimInv`); an older claim fails.
- `CountersFit`: every packed counter stays within its width (`NoCarry`), since
  the compare-and-swap finds the word in which the thread has seen a counter
  below its maximum (`LoadInv`).
- `AccessesCounted`: `CountsEveryAccess`, for any number of threads, any hashes
  that share counters or bits, and any batches. It assumes that threads, hashes
  and rows are finitely many, and that there is a thread and a row.

*The argument for the last.* Until the first reset, an increment of a hash is,
for each row, counted, or the counter is at its maximum, or a thread owes it
(`AccessInv`). A thread owes what is left of its batch, and one more: before the
hash is in the doorkeeper, the increment for which it has found a bit clear;
afterwards the one that it may have lost in this way. It loses no more than one,
since the bits that it has not looked at are all that the doorkeeper may lack
(`PlaceInv`), and a bit is cleared by a reset only. So what a thread owes grows
with the doorkeeper and falls only as a counter grows; with every thread at
rest, the sum over the threads is their number if the hash is in the doorkeeper,
and zero if it is not. TLC checked both parts on the instance of `parts`.

### The garbage-free store (`PartsProofs`)

- `SpaceAddsUp`, `LenAddsUp`, `LastSetIsRead`: `SpaceAccounted`, `LenAccounted`
  and `ReadsLastSet`, from `GcInvariant`. For any keys and hashes, lengths of
  values, header size and size of the array, and any number of calls of `Delete`
  and `Clear` between their halves.

*The argument.* `ArrayInv` says that every entry in the map lies below the tail
and that the sizes of these entries, with the deleted bytes, add up to it. That
is what lets a compaction succeed: it copies the entries one by one to the
front of the array, in the order of the map, which is none; by the laws of sums
the order does not matter, and what has been copied and what is left have room
(`SumSubset`). An entry need not lie whole in the array (`Whole`): `Set` does
not look again after a compaction that made too little room. `HistoryInv` says
that the entries in the map are those last set for their hashes, and that `unfit`
are the ones cut short or dropped; as long as no compaction made too little
room, the tail is within the array and only entries with empty keys are lost. A
growth doubles the array as often as needed; the number of doublings is the
least that suffices (`GrownArray`), which exists since the array has a byte.
`CountInTime` relates the size to the entries in the map and to the deletions
that have yet to count; it is conditional, as a `Clear` that is overlapped spoils
it, and the next `Clear` that runs alone restores it.

### The iterator (`PartsProofs`)

- `SteadyKeysServed`: `SteadyServedOnce`, from `IterInvariant`. For any store and
  changes of it, prefix, pattern, number of shards and page sizes. It assumes
  that there are finitely many hashes, of 64 bits in the code.

*The argument.* What an iteration has moved to, the rest of its page, its buffer
and, in a scan, the entries taken so far stand in one line, and every step of
`Next` only moves the borders in it, or drops what does not match, or appends
what a scan takes of a shard. `Lined` says of the line, for each shard that is
not `cut`: each of its keys is in it at most once, and none that the scans have
still to come to (`ToScan`); those that are wanted and stay in the store
(`Steady`) are in it once the scans have come to them. A scan takes a whole
shard, or it stops in the middle and the shard is cut, or it comes back to one
that is cut; so what it takes of a shard in one piece is all of its keys, in
whatever order (`ScanTakes`). A key stored in a shard in which the cursor stands
would spoil that, and is what makes `IterChange` add to `cut`. There is one
stage for each place `Next` can be in (`ScanUser` to `ScanScanned`). When it
returns false, the scans are over, and the line is what was moved to and the
buffer. By prefix the line claims only that what is in it passes the filters.

### The swiss table (`PartsProofs`)

- `TableIsMap`: `SwissIsMap`, from `SwissInvariant`. For any hashes, costs and
  capacities, any group size and any range of `h2`.

*The argument.* `TableInv` says of each full slot that it has the control byte of
its hash and that the probe for the hash comes to its group: the groups that the
probe looks at before have no empty slot (`Reaches`). A lookup ends at the first
group with an empty slot, so it has passed the slot by then (`FindsFull`); that
is why a deletion must leave a tombstone, and all that an insertion and a
deletion do to a group is to leave it fewer empty slots (`StillReaches`). An
insertion takes the first slot of its probe that is not full, so every group
before it is full (`PlaceKeeps`); the load factor leaves it one (`RoomIsFree`),
because the probe comes to every group (`ProbesAll`). A growth is the same step
over and over, from an empty table of twice the groups (`PlacesAll`), by an
induction over the entries it visits, each once (`OrderedLists`,
`FullEntriesOnce`). `HoldsCosts` adds that the entries are the costs last stored.
Since the entries visited have different hashes, `Len`, `Range` and `Sample`
count them (`UpToSize`).

### The cuckoo filter (`PartsProofs`)

- `NoneMislaid`, `FoundUnlessMoved`: `FingerprintsKept` and `MissesOnlyMoved`,
  from `CuckooInvariant`. For any keys, number of kicks, size of buckets, and
  number of buckets that is a power of 2.

*The argument.* The comment on `indexAlt` says that the exclusive or undoes
itself; `AltBack` proves it, bit by bit (`OneMoreBack`), for the recursive
function that `Xor` is. So a fingerprint has one home, the same from either of
its buckets (`HomeSame`, `HomeFits`), and what the filter holds can be counted by
homes. `SlotInv` and `KickInv` say that each fingerprint is in a bucket of its
home, also the one in hand, and that a kick starts at a full bucket, so that it
takes a fingerprint out and not an empty slot. An exchange moves one home from
the slots into the hand and another one back (`SwapCounts`); all other actions
change one home's count with its credit or its losses. For the lookup, `LookInv`
says that the fingerprint is in one of the slots that it has still to load
(`ToCome`), as long as nobody has disturbed it: what was added and is not lost or
in hand is in a slot of its two buckets (`PlaceSeen`), a slot that was loaded did
not have it, and whoever changes the place it is in has disturbed the lookup
(`LookChange`).

### Sums (`FiniteSums`)

`MapThenSumSet` folds over a set by choosing elements in some order. That the
order does not matter, and what the sum becomes when an element is added,
removed or changed, is an induction over finite sets. The theorems of the
library that do such an induction take an operator as their parameter; here it
is done on a *set* of subsets (`SubsetInduction`), from the well-foundedness of
the naturals (`WFMin`, `NatLessThanWellFounded`), which takes a relation.
`SumInsert`, `SumDelete`, `SumChange`, `SumRaise` and `SumCongruence` are what
the other modules cite.

### Only model-checked

All liveness, which TLAPS does not handle: `EventuallyFlushed`, `CallersReturn`
and `ExpiredIsRemoved`. `RadixTree` and `Glob` are built on `RECURSIVE`
operators (`TreeIsKeySet`, `PatternMeaning`), which TLAPS cannot
reason about; they stay with TLC.

## 5. Not modelled

Values are left out where no property is about them: hashes, the contents of
entries, metrics. `Get`, `Has` and the batch reads change nothing but access
statistics, which `Policy` and `LockFreeLFU` take as accesses at any time.
Callbacks (`OnEvict`, `OnExpire`, `OnReject`) are not called in the model: they
are the user's code, and one that calls back into the cache with `clearMu` held
is a hazard in the list. `Iterator.Close` and iterators resumed from a cursor a
caller has kept, `GC.Stop` and the methods of `SafeMap` and `ShardedStore` that
no one calls, `SetMaxCost` and `SetMaxEntries`, the blocked Bloom filter and
`ExpiryHeap` (both unused) are left out. Metrics, options, hashing, pools,
aligned allocation and prefetch hold no state whose order of changes matters.
`components` in `PROJECT.json` lists every part with its status and the reason.

## 6. What is open

Every safety property that the runs check is proved, except those of the radix
tree and the glob patterns, for the reasons in section 4. The next steps would
be:

1. The radix tree as recursive functions on a finite set of nodes, instead of
   recursive operators, so that `TreeIsKeySet` can be stated to the provers.
2. Clients that call `SetMaxCost` and `SetMaxEntries` while others set.
