----------------------------- MODULE LockFreeLFU -----------------------------
(***************************************************************************)
(* TinyLFULockFree of internal/policy/tinylfu_lockfree.go, the admission   *)
(* of PolicyLockFree: a count-min sketch of atomic words, a doorkeeper of  *)
(* atomic bits and an atomic count of increments.  Hits in the cache and   *)
(* flushes of the read buffer call Increment and IncrementBatch without a  *)
(* lock, while whoever takes the count to resetAt halves the counters, one *)
(* word at a time.  One action is one atomic load, store, add or CAS.  An  *)
(* Increment is an IncrementBatch of one hash.                             *)
(***************************************************************************)
EXTENDS Integers, SequencesExt, FiniteSetsExt

CONSTANTS Threads,
          LfHashes,      \* hashes that callers pass
          Rows,          \* rows of the sketch, 1 .. 4 in the code
          CounterOf,     \* the counter of each hash in each row
          WordSize,      \* counters of a word, 4 in the code
          MaxCounter,    \* 255 in the code
          DoorBits,      \* the sequence of bits of each hash in the doorkeeper
          DoorWordSize,  \* bits of a word of the doorkeeper, 64 in the code
          LfResetAt,     \* t.resetAt
          Batches,       \* the sequences of hashes that callers pass
          MaxBatches     \* bound: how many calls are made

ASSUME LockFreeAssumption ==
  /\ IsFiniteSet(Threads) /\ Threads # {} /\ IsFiniteSet(LfHashes)
  /\ IsFiniteSet(Rows) /\ Rows # {} /\ Rows \subseteq Nat
  /\ CounterOf \in [LfHashes -> [Rows -> Nat]]
  /\ DoorBits \in [LfHashes -> Seq(Nat)]
  /\ {WordSize, DoorWordSize, MaxCounter, LfResetAt} \subseteq Nat \ {0} /\ MaxBatches \in Nat
  /\ Batches \subseteq Seq(LfHashes)

VARIABLES sketch,     \* s.rows: the words of each row
          doorkeeper, \* the bits of the bloom filter that are set
          increments, \* t.incrs
          thread,     \* where each thread is in its call
          batches,    \* how many calls were made
          accessed,   \* history: increments of each hash that were called
          aged        \* history: a reset or Clear has begun

lfVars == <<sketch, doorkeeper, increments, thread, batches, accessed, aged>>

Words == 0 .. Max({CounterOf[h][r] : h \in LfHashes, r \in Rows}) \div WordSize
WordOf(h, r) == CounterOf[h][r] \div WordSize
InWord(h, r) == CounterOf[h][r] % WordSize

DoorWord(b) == b \div DoorWordSize
DoorWords == {DoorWord(b) : b \in UNION {ToSet(DoorBits[h]) : h \in LfHashes}}
InDoorWord(w) == {b \in doorkeeper : DoorWord(b) = w}

ZeroWord == [i \in 0 .. WordSize - 1 |-> 0]
Halved(w) == [i \in DOMAIN w |-> w[i] \div 2]

Resting == [pc |-> "rest"]
At(t, p) == thread[t].pc = p
Goes(t, next) == thread' = [thread EXCEPT ![t] = next]

Hash(t) == Head(thread[t].todo)
Bit(t) == Head(thread[t].bits)

\* What a thread does for the hash at the head of its list, or at the end of it
NextHash(todo, n) ==
  IF todo = <<>> THEN [pc |-> "count", n |-> n]
  ELSE [pc |-> "door", todo |-> todo, n |-> n, bits |-> DoorBits[Head(todo)], present |-> TRUE]

Estimate(h) == Min({sketch[r][WordOf(h, r)][InWord(h, r)] : r \in Rows})
               + (IF ToSet(DoorBits[h]) \subseteq doorkeeper THEN 1 ELSE 0)

-----------------------------------------------------------------------------
LfInit ==
  /\ sketch = [r \in Rows |-> [w \in Words |-> ZeroWord]]
  /\ doorkeeper = {} /\ increments = 0
  /\ thread = [t \in Threads |-> Resting]
  /\ batches = 0 /\ accessed = [h \in LfHashes |-> 0] /\ aged = FALSE

LfCall(t, hashes) ==
  /\ At(t, "rest") /\ batches < MaxBatches
  /\ batches' = batches + 1
  /\ Goes(t, NextHash(hashes, Len(hashes)))
  /\ accessed' = [h \in LfHashes |->
                    accessed[h] + Cardinality({i \in DOMAIN hashes : hashes[i] = h})]
  /\ UNCHANGED <<sketch, doorkeeper, increments, aged>>

\* door.Add: a bit that is found set is left alone ...
DoorLoad(t) ==
  /\ At(t, "door") /\ thread[t].bits # <<>>
  /\ Goes(t, IF Bit(t) \in doorkeeper THEN [thread[t] EXCEPT !.bits = Tail(@)]
             ELSE [pc |-> "doorCAS", todo |-> thread[t].todo, n |-> thread[t].n,
                   bits |-> thread[t].bits, old |-> InDoorWord(DoorWord(Bit(t)))])
  /\ UNCHANGED <<sketch, doorkeeper, increments, batches, accessed, aged>>

\* ... and one that is not makes the hash a new one, even when another thread
\* sets it before the CAS, which fails if the word has changed.
DoorCAS(t) ==
  /\ At(t, "doorCAS")
  /\ LET set == InDoorWord(DoorWord(Bit(t))) = thread[t].old
     IN  /\ doorkeeper' = IF set THEN doorkeeper \cup {Bit(t)} ELSE doorkeeper
         /\ Goes(t, [pc |-> "door", todo |-> thread[t].todo, n |-> thread[t].n,
                     bits |-> IF set THEN Tail(thread[t].bits) ELSE thread[t].bits,
                     present |-> FALSE])
  /\ UNCHANGED <<sketch, increments, batches, accessed, aged>>

\* Only a hash that was in the doorkeeper is counted in the sketch.
DoorDone(t) ==
  /\ At(t, "door") /\ thread[t].bits = <<>>
  /\ Goes(t, IF thread[t].present
             THEN [pc |-> "load", todo |-> thread[t].todo, n |-> thread[t].n, rows |-> Rows]
             ELSE NextHash(Tail(thread[t].todo), thread[t].n))
  /\ UNCHANGED <<sketch, doorkeeper, increments, batches, accessed, aged>>

\* freq.Increment: the first row that is left
Row(t) == Min(thread[t].rows)
RowDone(t) ==
  LET left == thread[t].rows \ {Row(t)}
  IN  IF left = {} THEN NextHash(Tail(thread[t].todo), thread[t].n)
      ELSE [pc |-> "load", todo |-> thread[t].todo, n |-> thread[t].n, rows |-> left]

\* incrementAt: a counter at its maximum stays.
SketchLoad(t) ==
  /\ At(t, "load")
  /\ LET old == sketch[Row(t)][WordOf(Hash(t), Row(t))]
     IN  Goes(t, IF old[InWord(Hash(t), Row(t))] >= MaxCounter THEN RowDone(t)
                 ELSE [pc |-> "cas", todo |-> thread[t].todo, n |-> thread[t].n,
                       rows |-> thread[t].rows, old |-> old])
  /\ UNCHANGED <<sketch, doorkeeper, increments, batches, accessed, aged>>

\* mutant: a store in place of the CAS
SketchStore(t) ==
  /\ At(t, "cas")
  /\ LET w == WordOf(Hash(t), Row(t))
     IN  sketch' = [sketch EXCEPT ![Row(t)][w] =
                      [thread[t].old EXCEPT ![InWord(Hash(t), Row(t))] = @ + 1]]
  /\ Goes(t, RowDone(t))
  /\ UNCHANGED <<doorkeeper, increments, batches, accessed, aged>>

SketchCAS(t) ==
  /\ At(t, "cas")
  /\ LET w == WordOf(Hash(t), Row(t))
     IN  IF sketch[Row(t)][w] = thread[t].old
         THEN /\ sketch' = [sketch EXCEPT ![Row(t)][w][InWord(Hash(t), Row(t))] = @ + 1]
              /\ Goes(t, RowDone(t))
         ELSE /\ Goes(t, [pc |-> "load", todo |-> thread[t].todo, n |-> thread[t].n,
                          rows |-> thread[t].rows])
              /\ UNCHANGED sketch
  /\ UNCHANGED <<doorkeeper, increments, batches, accessed, aged>>

\* mutant: only the thread that reaches resetAt exactly tries to reset
CountAddExact(t) ==
  /\ At(t, "count")
  /\ LET n == increments + thread[t].n
     IN  /\ increments' = n
         /\ Goes(t, IF n = LfResetAt THEN [pc |-> "claim", old |-> n] ELSE Resting)
  /\ UNCHANGED <<sketch, doorkeeper, batches, accessed, aged>>

\* incrs.Add
CountAdd(t) ==
  /\ At(t, "count")
  /\ LET n == increments + thread[t].n
     IN  /\ increments' = n
         /\ Goes(t, IF n >= LfResetAt THEN [pc |-> "claim", old |-> n] ELSE Resting)
  /\ UNCHANGED <<sketch, doorkeeper, batches, accessed, aged>>

\* The CAS that claims the reset fails if another thread has counted since.
ClaimReset(t) ==
  /\ At(t, "claim")
  /\ IF increments = thread[t].old
     THEN /\ increments' = 0 /\ aged' = TRUE
          /\ Goes(t, [pc |-> "halve", left |-> Rows \X Words, old |-> ZeroWord, door |-> DoorWords])
     ELSE Goes(t, Resting) /\ UNCHANGED <<increments, aged>>
  /\ UNCHANGED <<sketch, doorkeeper, batches, accessed>>

FirstWord(t) == CHOOSE p \in thread[t].left : \A q \in thread[t].left :
                  p[1] < q[1] \/ (p[1] = q[1] /\ p[2] <= q[2])

\* freq.Reset: load and CAS of each word, row by row
HalveLoad(t) ==
  /\ At(t, "halve") /\ thread[t].left # {}
  /\ Goes(t, [thread[t] EXCEPT !.pc = "halveCAS",
                               !.old = sketch[FirstWord(t)[1]][FirstWord(t)[2]]])
  /\ UNCHANGED <<sketch, doorkeeper, increments, batches, accessed, aged>>

HalveCAS(t) ==
  /\ At(t, "halveCAS")
  /\ LET p == FirstWord(t)
         set == sketch[p[1]][p[2]] = thread[t].old
     IN  /\ sketch' = IF set THEN [sketch EXCEPT ![p[1]][p[2]] = Halved(@)] ELSE sketch
         /\ Goes(t, [thread[t] EXCEPT !.pc = "halve", !.left = IF set THEN @ \ {p} ELSE @,
                                      !.old = ZeroWord])
  /\ UNCHANGED <<doorkeeper, increments, batches, accessed, aged>>

\* door.Reset: a store of each word, after which the thread goes on to next
ZeroDoorWord(t, next) ==
  LET w == Min(thread[t].door)
  IN  /\ doorkeeper' = doorkeeper \ InDoorWord(w)
      /\ Goes(t, IF thread[t].door \subseteq {w} THEN next ELSE [thread[t] EXCEPT !.door = @ \ {w}])

DoorReset(t) ==
  /\ At(t, "halve") /\ thread[t].left = {}
  /\ ZeroDoorWord(t, Resting)
  /\ UNCHANGED <<sketch, increments, batches, accessed, aged>>

\* Clear: the words, the doorkeeper and then the count, each a store
LfClear(t) ==
  /\ At(t, "rest") /\ batches < MaxBatches
  /\ batches' = batches + 1 /\ aged' = TRUE
  /\ Goes(t, [pc |-> "clear", left |-> Rows \X Words, door |-> DoorWords])
  /\ UNCHANGED <<sketch, doorkeeper, increments, accessed>>

ClearWord(t) ==
  /\ At(t, "clear") /\ thread[t].left # {}
  /\ LET p == FirstWord(t)
     IN  /\ sketch' = [sketch EXCEPT ![p[1]][p[2]] = ZeroWord]
         /\ Goes(t, [thread[t] EXCEPT !.left = @ \ {p}])
  /\ UNCHANGED <<doorkeeper, increments, batches, accessed, aged>>

ClearDoor(t) ==
  /\ At(t, "clear") /\ thread[t].left = {}
  /\ ZeroDoorWord(t, [pc |-> "clearCount"])
  /\ UNCHANGED <<sketch, increments, batches, accessed, aged>>

ClearCount(t) ==
  /\ At(t, "clearCount")
  /\ increments' = 0 /\ Goes(t, Resting)
  /\ UNCHANGED <<sketch, doorkeeper, batches, accessed, aged>>

LfStep(t) ==
  \/ \E hashes \in Batches : LfCall(t, hashes)
  \/ DoorLoad(t) \/ DoorCAS(t) \/ DoorDone(t) \/ SketchLoad(t) \/ SketchCAS(t)
  \/ CountAdd(t) \/ ClaimReset(t) \/ HalveLoad(t) \/ HalveCAS(t) \/ DoorReset(t)
  \/ LfClear(t) \/ ClearWord(t) \/ ClearDoor(t) \/ ClearCount(t)

LfNext == \E t \in Threads : LfStep(t)

-----------------------------------------------------------------------------
(* Properties.                                                             *)

AllRest == \A t \in Threads : At(t, "rest")

\* The reset is not lost: when threads have raced past resetAt and each other's
\* CAS, one of them has reset in the end, and the count is below it.
ResetNotLost == AllRest => increments < LfResetAt

\* Until the first reset no increment is lost, however threads race on a word
\* and on the bits of the doorkeeper: a hash is estimated at its accesses, as
\* far as a counter reaches, less one for each other thread, which may take it
\* for a new one at the same time.
CountsEveryAccess ==
  AllRest /\ ~aged =>
    \A h \in LfHashes :
      Estimate(h) >= Min({MaxCounter + 1, accessed[h] - (Cardinality(Threads) - 1)})
=============================================================================
