---------------------------- MODULE PartsProofs ----------------------------
(***************************************************************************)
(* Proofs about five parts that share no state: LockFreeLFU, GCFreeStore,  *)
(* Iterator, SwissTable and CuckooFilter, for any values of their          *)
(* constants.  Each has a section.                                         *)
(*                                                                         *)
(* LockFreeLFU: as long as the count is at resetAt or above, the thread    *)
(* that took it to its present value is about to claim the reset, and no   *)
(* other thread's CAS succeeds (ClaimInv); and a thread that goes on to    *)
(* the CAS of a word has seen a counter below its maximum in it (LoadInv), *)
(* which the CAS finds still there.  Up to the first reset, an increment   *)
(* that was called is in the counters of its hash, is still owed by its    *)
(* thread, or is the one that the doorkeeper has swallowed for that thread *)
(* (CountInv).                                                             *)
(*                                                                         *)
(* GCFreeStore: the entries in the map and the deleted ones fill the byte  *)
(* array up to the tail, in any order, so that a compaction which copies   *)
(* them one by one ends where the sum of their sizes does (ArrayInv); the  *)
(* count is that of the entries in the map and of those whose Delete has   *)
(* yet to take them off, whichever order the halves of the calls come in   *)
(* (CountInTime); an entry in the map is the one its hash was set to last  *)
(* (HistoryInv).                                                           *)
(*                                                                         *)
(* Iterator: the entries an iteration has moved to, those in its page and  *)
(* its buffer and those that its scan has taken stand in one line.  As     *)
(* long as a shard is seen in one piece, the line holds each of its keys   *)
(* once at most, and each that is wanted and stays in the store once the   *)
(* scans have come to it, although each scan sees a shard in another       *)
(* order; the cursor never stands before what was taken of its shard       *)
(* (ScanUser to ScanScanned).  By prefix nothing is moved to that does not *)
(* pass the filters (PrefixUser to PrefixCollecting).                      *)
(*                                                                         *)
(* SwissTable: a full slot has the control byte of its hash and is in a    *)
(* group that the probe for the hash comes to, since no group before it    *)
(* has an empty slot (TableInv); an insertion only makes groups fuller, a  *)
(* deletion leaves a tombstone, and a growth places all entries again, by  *)
(* the same rule.  The full slots are as many as the costs that were       *)
(* stored, and hold these (HoldsCosts).                                    *)
(*                                                                         *)
(* CuckooFilter: the exclusive or that gives the other bucket undoes       *)
(* itself (AltBack), so that a fingerprint has one home, in whichever of   *)
(* its buckets it is (HomeFits).  Each is in a bucket of its home          *)
(* (SlotInv), also the one in hand (KickInv), so a kick, which exchanges   *)
(* the two, and every other action change the balance of one home at most  *)
(* (PutCounts, TakeCounts, SwapCounts).  A lookup goes slot by slot: what  *)
(* it has not seen yet holds the fingerprint until somebody changes the    *)
(* place it is in (LookChange).                                            *)
(***************************************************************************)
EXTENDS LockFreeLFU, GCFreeStore, Iterator, SwissTable, CuckooFilter, FiniteSums,
        SequenceTheorems, TLAPS

-----------------------------------------------------------------------------
(* LockFreeLFU.                                                            *)

LfSpec == LfInit /\ [][LfNext]_lfVars

\* Counter i of word w in row r
Counter(r, w, i) == sketch[r][w][i]

\* A byte of a word holds what a counter may count to, however the increments,
\* the halving and the clearing of a word interleave: it never carries over
\* into the byte beside it.
NoCarry ==
  \A r \in Rows, w \in Words, i \in 0 .. WordSize - 1 : Counter(r, w, i) \in 0 .. MaxCounter

-----------------------------------------------------------------------------
(* The inductive invariant.                                                *)

\* What a thread has added up, and the count it claims a reset for, are numbers.
ThreadInv ==
  /\ increments \in Nat
  /\ DOMAIN thread = Threads
  /\ \A t \in Threads :
       /\ "pc" \in DOMAIN thread[t]
       /\ thread[t].pc \in {"door", "doorCAS", "load", "cas", "count"} => thread[t].n \in Nat

\* Whoever took the count to where it is, at resetAt or above, is about to claim
\* the reset.
ClaimInv ==
  increments >= LfResetAt =>
    \E t \in Threads : At(t, "claim") /\ thread[t].old = increments

\* The words of the sketch, and the word a thread has loaded to count in.
SketchInv ==
  /\ DOMAIN sketch = Rows
  /\ \A r \in Rows : DOMAIN sketch[r] = Words
  /\ \A r \in Rows, w \in Words : sketch[r][w] \in [0 .. WordSize - 1 -> 0 .. MaxCounter]

LoadInv ==
  \A t \in Threads :
    At(t, "cas") => ~(thread[t].old[InWord(Hash(t), Row(t))] >= MaxCounter)

LfInv == ThreadInv /\ ClaimInv /\ SketchInv /\ LoadInv

\* A thread that takes one step leaves the others where they are.
LEMMA GoesThread ==
  ASSUME NEW t \in Threads, DOMAIN thread = Threads, NEW next, Goes(t, next)
  PROVE  /\ DOMAIN thread' = Threads /\ thread'[t] = next
         /\ \A s \in Threads \ {t} : thread'[s] = thread[s]
BY DEF Goes

\* A step that neither counts nor is about to claim a reset.
LEMMA ClaimUnchanged ==
  ASSUME ThreadInv, ClaimInv, NEW t \in Threads, NEW next, Goes(t, next),
         ~At(t, "claim"), UNCHANGED increments
  PROVE  ClaimInv'
<1>1. \A s \in Threads \ {t} : thread'[s] = thread[s]
  BY GoesThread DEF ThreadInv
<1> QED BY <1>1 DEF ClaimInv, At

\* A step to a place that is not in the middle of counting.
LEMMA ThreadAway ==
  ASSUME ThreadInv, NEW t \in Threads, NEW next, Goes(t, next), increments' \in Nat,
         "pc" \in DOMAIN next,
         next.pc \in {"door", "doorCAS", "load", "cas", "count"} => next.n \in Nat
  PROVE  ThreadInv'
BY GoesThread DEF ThreadInv

\* A step that does not load a word to count in.
LEMMA LoadUnchanged ==
  ASSUME ThreadInv, LoadInv, NEW t \in Threads, NEW next, Goes(t, next), next.pc # "cas"
  PROVE  LoadInv'
<1>1. DOMAIN thread' = Threads /\ thread'[t] = next
      /\ \A s \in Threads \ {t} : thread'[s] = thread[s]
  BY GoesThread DEF ThreadInv
<1> SUFFICES ASSUME NEW s \in Threads, thread'[s].pc = "cas"
             PROVE  ~(thread[s].old[InWord(Hash(s), Row(s))] >= MaxCounter)'
  BY DEF LoadInv, At
<1>2. s # t /\ thread'[s] = thread[s]
  BY <1>1
<1>3. Hash(s)' = Hash(s) /\ Row(s)' = Row(s)
  BY <1>2 DEF Hash, Row
<1> QED BY <1>2, <1>3 DEF LoadInv, At, InWord

LEMMA SketchUnchanged ==
  ASSUME SketchInv, UNCHANGED sketch
  PROVE  SketchInv'
BY DEF SketchInv

\* What a thread does next in its batch.
LEMMA NextHashThread ==
  ASSUME NEW todo, NEW n \in Nat
  PROVE  /\ "pc" \in DOMAIN NextHash(todo, n)
         /\ NextHash(todo, n).pc \in {"door", "count"}
         /\ NextHash(todo, n).n = n
BY DEF NextHash

LEMMA RowDoneThread ==
  ASSUME NEW t \in Threads, thread[t].n \in Nat
  PROVE  /\ "pc" \in DOMAIN RowDone(t)
         /\ RowDone(t).pc \in {"door", "count", "load"}
         /\ RowDone(t).n = thread[t].n
<1> DEFINE left == thread[t].rows \ {Row(t)}
<1>1. CASE left = {}
  <2>1. RowDone(t) = NextHash(Tail(thread[t].todo), thread[t].n)
    BY <1>1 DEF RowDone
  <2> QED BY <2>1, NextHashThread
<1>2. CASE left # {}
  <2>1. RowDone(t) = [pc |-> "load", todo |-> thread[t].todo, n |-> thread[t].n, rows |-> left]
    BY <1>2 DEF RowDone
  <2> QED BY <2>1
<1> QED BY <1>1, <1>2

LEMMA InitLf == LfInit => LfInv
<1> SUFFICES ASSUME LfInit PROVE LfInv
  OBVIOUS
<1>1. ZeroWord \in [0 .. WordSize - 1 -> 0 .. MaxCounter]
  BY LockFreeAssumption DEF ZeroWord
<1>2. \A t \in Threads : thread[t].pc = "rest" /\ "pc" \in DOMAIN thread[t]
  BY DEF LfInit, Resting
<1>3. ThreadInv
  BY <1>2 DEF ThreadInv, LfInit
<1>4. ClaimInv
  BY LockFreeAssumption DEF ClaimInv, LfInit
<1>5. SketchInv
  BY <1>1 DEF SketchInv, LfInit
<1>6. LoadInv
  BY <1>2 DEF LoadInv, At
<1> QED BY <1>3, <1>4, <1>5, <1>6 DEF LfInv
-----------------------------------------------------------------------------
(* Every action preserves the invariant.                                   *)

\* A step that touches neither the sketch nor the count.
LEMMA QuietStep ==
  ASSUME LfInv, NEW t \in Threads, NEW next, Goes(t, next), ~At(t, "claim"),
         UNCHANGED <<sketch, increments>>, "pc" \in DOMAIN next, next.pc # "cas",
         next.pc \in {"door", "doorCAS", "load", "count"} => next.n \in Nat
  PROVE  LfInv'
<1> USE DEF LfInv
<1>1. increments' \in Nat
  BY DEF ThreadInv
<1> QED BY <1>1, ClaimUnchanged, ThreadAway, LoadUnchanged, SketchUnchanged

LEMMA LfCallInv ==
  ASSUME LfInv, NEW t \in Threads, NEW hashes \in Batches, LfCall(t, hashes)
  PROVE  LfInv'
<1>1. PICK next : next = NextHash(hashes, Len(hashes))
  OBVIOUS
<1>2. Len(hashes) \in Nat
  BY LockFreeAssumption
<1>3. /\ "pc" \in DOMAIN next /\ next.pc \in {"door", "count"} /\ next.n \in Nat
  BY <1>1, <1>2, NextHashThread
<1>4. Goes(t, next) /\ ~At(t, "claim") /\ UNCHANGED <<sketch, increments>>
  BY <1>1 DEF LfCall, At
<1> QED BY <1>3, <1>4, QuietStep

LEMMA DoorLoadInv ==
  ASSUME LfInv, NEW t \in Threads, DoorLoad(t)
  PROVE  LfInv'
<1>1. thread[t].pc = "door" /\ "pc" \in DOMAIN thread[t] /\ thread[t].n \in Nat
  BY DEF LfInv, ThreadInv, DoorLoad, At
<1>2. CASE Bit(t) \in doorkeeper
  <2>1. PICK next : next = [thread[t] EXCEPT !.bits = Tail(@)]
    OBVIOUS
  <2>2. "pc" \in DOMAIN next /\ next.pc = "door" /\ next.n \in Nat
    BY <1>1, <2>1
  <2>3. Goes(t, next) /\ ~At(t, "claim") /\ UNCHANGED <<sketch, increments>>
    BY <1>2, <2>1 DEF DoorLoad, At
  <2> QED BY <2>2, <2>3, QuietStep
<1>3. CASE Bit(t) \notin doorkeeper
  <2>1. PICK next : next = [pc |-> "doorCAS", todo |-> thread[t].todo, n |-> thread[t].n,
                            bits |-> thread[t].bits, old |-> InDoorWord(DoorWord(Bit(t)))]
    OBVIOUS
  <2>2. "pc" \in DOMAIN next /\ next.pc = "doorCAS" /\ next.n \in Nat
    BY <1>1, <2>1
  <2>3. Goes(t, next) /\ ~At(t, "claim") /\ UNCHANGED <<sketch, increments>>
    BY <1>3, <2>1 DEF DoorLoad, At
  <2> QED BY <2>2, <2>3, QuietStep
<1> QED BY <1>2, <1>3

LEMMA DoorCASInv ==
  ASSUME LfInv, NEW t \in Threads, DoorCAS(t)
  PROVE  LfInv'
<1>1. PICK bits : bits = IF InDoorWord(DoorWord(Bit(t))) = thread[t].old THEN Tail(thread[t].bits)
                         ELSE thread[t].bits
  OBVIOUS
<1>2. PICK next : next = [pc |-> "door", todo |-> thread[t].todo, n |-> thread[t].n,
                          bits |-> bits, present |-> FALSE]
  OBVIOUS
<1>3. "pc" \in DOMAIN next /\ next.pc = "door" /\ next.n \in Nat
  BY <1>2 DEF LfInv, ThreadInv, DoorCAS, At
<1>4. Goes(t, next) /\ ~At(t, "claim") /\ UNCHANGED <<sketch, increments>>
  BY <1>1, <1>2 DEF DoorCAS, At
<1> QED BY <1>3, <1>4, QuietStep

LEMMA DoorDoneInv ==
  ASSUME LfInv, NEW t \in Threads, DoorDone(t)
  PROVE  LfInv'
<1>1. thread[t].n \in Nat /\ ~At(t, "claim") /\ UNCHANGED <<sketch, increments>>
  BY DEF LfInv, ThreadInv, DoorDone, At
<1>2. CASE thread[t].present
  <2>1. PICK next : next = [pc |-> "load", todo |-> thread[t].todo, n |-> thread[t].n,
                            rows |-> Rows]
    OBVIOUS
  <2>2. "pc" \in DOMAIN next /\ next.pc = "load" /\ next.n \in Nat
    BY <1>1, <2>1
  <2>3. Goes(t, next)
    BY <1>2, <2>1 DEF DoorDone
  <2> QED BY <1>1, <2>2, <2>3, QuietStep
<1>3. CASE ~thread[t].present
  <2>1. PICK next : next = NextHash(Tail(thread[t].todo), thread[t].n)
    OBVIOUS
  <2>2. "pc" \in DOMAIN next /\ next.pc \in {"door", "count"} /\ next.n \in Nat
    BY <1>1, <2>1, NextHashThread
  <2>3. Goes(t, next)
    BY <1>3, <2>1 DEF DoorDone
  <2> QED BY <1>1, <2>2, <2>3, QuietStep
<1> QED BY <1>2, <1>3

LEMMA SketchLoadInv ==
  ASSUME LfInv, NEW t \in Threads, SketchLoad(t)
  PROVE  LfInv'
<1>1. thread[t].n \in Nat /\ ~At(t, "claim") /\ UNCHANGED <<sketch, increments>>
  BY DEF LfInv, ThreadInv, SketchLoad, At
<1>2. PICK old : old = sketch[Row(t)][WordOf(Hash(t), Row(t))]
  OBVIOUS
<1>3. CASE old[InWord(Hash(t), Row(t))] >= MaxCounter
  <2>1. PICK next : next = RowDone(t)
    OBVIOUS
  <2>2. "pc" \in DOMAIN next /\ next.pc \in {"door", "count", "load"} /\ next.n \in Nat
    BY <1>1, <2>1, RowDoneThread
  <2>3. Goes(t, next)
    BY <1>2, <1>3, <2>1 DEF SketchLoad
  <2> QED BY <1>1, <2>2, <2>3, QuietStep
<1>4. CASE ~(old[InWord(Hash(t), Row(t))] >= MaxCounter)
  <2>1. PICK next : next = [pc |-> "cas", todo |-> thread[t].todo, n |-> thread[t].n,
                            rows |-> thread[t].rows, old |-> old]
    OBVIOUS
  <2>2. "pc" \in DOMAIN next /\ next.pc = "cas" /\ next.n \in Nat
    BY <1>1, <2>1
  <2>3. Goes(t, next)
    BY <1>2, <1>4, <2>1 DEF SketchLoad
  <2>4. increments' \in Nat
    BY <1>1 DEF LfInv, ThreadInv
  <2>5. ThreadInv' /\ ClaimInv' /\ SketchInv'
    BY <1>1, <2>2, <2>3, <2>4, ClaimUnchanged, ThreadAway, SketchUnchanged DEF LfInv
  <2>6. LoadInv'
    <3>1. /\ thread'[t] = next /\ \A s \in Threads \ {t} : thread'[s] = thread[s]
      BY <2>3, GoesThread DEF LfInv, ThreadInv
    <3> SUFFICES ASSUME NEW s \in Threads, thread'[s].pc = "cas"
                 PROVE  ~(thread[s].old[InWord(Hash(s), Row(s))] >= MaxCounter)'
      BY DEF LoadInv, At
    <3>2. CASE s = t
      <4>1. Hash(t)' = Hash(t) /\ Row(t)' = Row(t) /\ thread'[t].old = old
        BY <2>1, <3>1 DEF Hash, Row
      <4> QED BY <3>2, <4>1, <1>4 DEF InWord
    <3>3. CASE s # t
      <4>1. thread'[s] = thread[s]
        BY <3>1, <3>3
      <4>2. Hash(s)' = Hash(s) /\ Row(s)' = Row(s)
        BY <4>1 DEF Hash, Row
      <4> QED BY <4>1, <4>2 DEF LfInv, LoadInv, At, InWord
    <3> QED BY <3>2, <3>3
  <2> QED BY <2>5, <2>6 DEF LfInv
<1> QED BY <1>3, <1>4

\* The CAS of a word adds to a counter that the thread has seen below its
\* maximum, and that is what it has seen.
LEMMA SketchCASInv ==
  ASSUME LfInv, NEW t \in Threads, SketchCAS(t)
  PROVE  LfInv'
<1>1. /\ thread[t].n \in Nat /\ ~At(t, "claim") /\ UNCHANGED increments
      /\ increments' \in Nat
  BY DEF LfInv, ThreadInv, SketchCAS, At
<1>2. PICK r : r = Row(t)
  OBVIOUS
<1>3. PICK w : w = WordOf(Hash(t), Row(t))
  OBVIOUS
<1>4. PICK i : i = InWord(Hash(t), Row(t))
  OBVIOUS
<1>5. CASE sketch[r][w] = thread[t].old
  <2>1. ~(sketch[r][w][i] >= MaxCounter)
    BY <1>4, <1>5 DEF LfInv, LoadInv, SketchCAS
  <2>2. sketch' = [sketch EXCEPT ![r][w][i] = @ + 1]
    BY <1>2, <1>3, <1>4, <1>5 DEF SketchCAS
  <2>3. SketchInv'
    <3>0. MaxCounter \in Nat
      BY LockFreeAssumption
    <3>1. DOMAIN sketch' = Rows /\ \A q \in Rows : DOMAIN sketch'[q] = Words
      BY <2>2 DEF LfInv, SketchInv
    <3>2. ASSUME NEW q \in Rows, NEW v \in Words
          PROVE  sketch'[q][v] \in [0 .. WordSize - 1 -> 0 .. MaxCounter]
      <4>1. sketch[q][v] \in [0 .. WordSize - 1 -> 0 .. MaxCounter]
        BY DEF LfInv, SketchInv
      <4>2. CASE q = r /\ v = w
        <5>1. sketch'[q][v] = [sketch[q][v] EXCEPT ![i] = @ + 1]
          BY <2>2, <4>2 DEF LfInv, SketchInv
        <5>2. ~(sketch[q][v][i] >= MaxCounter)
          BY <2>1, <4>2
        <5>3. ASSUME i \in 0 .. WordSize - 1
              PROVE  sketch[q][v][i] + 1 \in 0 .. MaxCounter
          <6>1. PICK x : x = sketch[q][v][i]
            OBVIOUS
          <6>2. x \in 0 .. MaxCounter
            BY <4>1, <5>3, <6>1
          <6>3. ~(x >= MaxCounter)
            BY <5>2, <6>1
          <6>4. x + 1 \in 0 .. MaxCounter
            BY ONLY <3>0, <6>2, <6>3
          <6> QED BY <6>1, <6>4
        <5> QED BY <4>1, <5>1, <5>3
      <4>3. CASE ~(q = r /\ v = w)
        <5>1. sketch'[q][v] = sketch[q][v]
          BY <2>2, <4>3 DEF LfInv, SketchInv
        <5> QED BY <4>1, <5>1
      <4> QED BY <4>2, <4>3
    <3> QED BY <3>1, <3>2 DEF SketchInv
  <2>4. PICK next : next = RowDone(t)
    OBVIOUS
  <2>5. "pc" \in DOMAIN next /\ next.pc \in {"door", "count", "load"} /\ next.n \in Nat
    BY <1>1, <2>4, RowDoneThread
  <2>6. Goes(t, next)
    BY <1>2, <1>3, <1>5, <2>4 DEF SketchCAS
  <2> QED BY <1>1, <2>3, <2>5, <2>6, ClaimUnchanged, ThreadAway, LoadUnchanged DEF LfInv
<1>6. CASE sketch[r][w] # thread[t].old
  <2>1. PICK next : next = [pc |-> "load", todo |-> thread[t].todo, n |-> thread[t].n,
                            rows |-> thread[t].rows]
    OBVIOUS
  <2>2. "pc" \in DOMAIN next /\ next.pc = "load" /\ next.n \in Nat
    BY <1>1, <2>1
  <2>3. Goes(t, next) /\ UNCHANGED <<sketch, increments>>
    BY <1>1, <1>2, <1>3, <1>6, <2>1 DEF SketchCAS
  <2> QED BY <1>1, <2>2, <2>3, QuietStep
<1> QED BY <1>5, <1>6

LEMMA CountAddInv ==
  ASSUME LfInv, NEW t \in Threads, CountAdd(t)
  PROVE  LfInv'
<1>0. LfResetAt \in Nat
  BY LockFreeAssumption
<1>1. /\ thread[t].n \in Nat /\ ~At(t, "claim") /\ UNCHANGED sketch
      /\ increments \in Nat
  BY DEF LfInv, ThreadInv, CountAdd, At
<1>2. PICK n \in Nat : n = increments + thread[t].n
  BY <1>1
<1>3. increments' = n
  BY <1>2 DEF CountAdd
<1>4. PICK next : next = IF n >= LfResetAt THEN [pc |-> "claim", old |-> n] ELSE Resting
  OBVIOUS
<1>5. Goes(t, next)
  BY <1>2, <1>4 DEF CountAdd
<1>6. "pc" \in DOMAIN next /\ next.pc \in {"claim", "rest"}
  BY <1>4 DEF Resting
<1>7. ThreadInv' /\ LoadInv' /\ SketchInv'
  BY <1>1, <1>2, <1>3, <1>5, <1>6, ThreadAway, LoadUnchanged, SketchUnchanged DEF LfInv
<1>8. ClaimInv'
  <2>1. thread'[t] = next
    BY <1>5, GoesThread DEF LfInv, ThreadInv
  <2>2. n >= LfResetAt => next.pc = "claim" /\ next.old = n
    BY <1>4
  <2> QED BY <2>1, <2>2, <1>3 DEF ClaimInv, At
<1> QED BY <1>7, <1>8 DEF LfInv

\* A claim that fails is one that another thread has overtaken: that thread, or
\* the last of them, holds the count now.
LEMMA ClaimResetInv ==
  ASSUME LfInv, NEW t \in Threads, ClaimReset(t)
  PROVE  LfInv'
<1>0. LfResetAt \in Nat \ {0} /\ increments \in Nat /\ UNCHANGED sketch
  BY LockFreeAssumption DEF LfInv, ThreadInv, ClaimReset
<1>1. CASE increments = thread[t].old
  <2>1. PICK next : next = [pc |-> "halve", left |-> Rows \X Words, old |-> ZeroWord, door |-> DoorWords]
    OBVIOUS
  <2>2. "pc" \in DOMAIN next /\ next.pc = "halve"
    BY <2>1
  <2>3. Goes(t, next) /\ increments' = 0
    BY <1>1, <2>1 DEF ClaimReset
  <2>4. ThreadInv' /\ LoadInv' /\ SketchInv'
    BY <1>0, <2>2, <2>3, ThreadAway, LoadUnchanged, SketchUnchanged DEF LfInv
  <2>5. ClaimInv'
    BY <1>0, <2>3 DEF ClaimInv
  <2> QED BY <2>4, <2>5 DEF LfInv
<1>2. CASE increments # thread[t].old
  <2>1. PICK next : next = Resting
    OBVIOUS
  <2>2. "pc" \in DOMAIN next /\ next.pc = "rest"
    BY <2>1 DEF Resting
  <2>3. Goes(t, next) /\ increments' = increments
    BY <1>2, <2>1 DEF ClaimReset
  <2>4. ThreadInv' /\ LoadInv' /\ SketchInv'
    BY <1>0, <2>2, <2>3, ThreadAway, LoadUnchanged, SketchUnchanged DEF LfInv
  <2>5. ClaimInv'
    <3>1. \A s \in Threads \ {t} : thread'[s] = thread[s]
      BY <2>3, GoesThread DEF LfInv, ThreadInv
    <3> QED BY <3>1, <1>2, <2>3 DEF LfInv, ClaimInv, At
  <2> QED BY <2>4, <2>5 DEF LfInv
<1> QED BY <1>1, <1>2

LEMMA HalveLoadInv ==
  ASSUME LfInv, NEW t \in Threads, HalveLoad(t)
  PROVE  LfInv'
<1>1. PICK next : next = [thread[t] EXCEPT !.pc = "halveCAS",
                            !.old = sketch[FirstWord(t)[1]][FirstWord(t)[2]]]
  OBVIOUS
<1>2. "pc" \in DOMAIN next /\ next.pc = "halveCAS"
  BY <1>1 DEF LfInv, ThreadInv
<1>3. Goes(t, next) /\ ~At(t, "claim") /\ UNCHANGED <<sketch, increments>>
  BY <1>1 DEF HalveLoad, At
<1> QED BY <1>2, <1>3, QuietStep

\* Halving a counter keeps it in its byte.
LEMMA HalvedWord ==
  ASSUME NEW word \in [0 .. WordSize - 1 -> 0 .. MaxCounter]
  PROVE  Halved(word) \in [0 .. WordSize - 1 -> 0 .. MaxCounter]
<1>1. ASSUME NEW x \in 0 .. MaxCounter PROVE x \div 2 \in 0 .. MaxCounter
  BY LockFreeAssumption, <1>1
<1> QED BY <1>1 DEF Halved

\* A step that sets one word of the sketch to a word.
LEMMA WordSet ==
  ASSUME SketchInv, NEW r, NEW w, NEW word,
         r \in Rows /\ w \in Words => word \in [0 .. WordSize - 1 -> 0 .. MaxCounter],
         sketch' = [sketch EXCEPT ![r][w] = word]
  PROVE  SketchInv'
<1>1. DOMAIN sketch' = Rows /\ \A q \in Rows : DOMAIN sketch'[q] = Words
  BY DEF SketchInv
<1>2. ASSUME NEW q \in Rows, NEW v \in Words
      PROVE  sketch'[q][v] \in [0 .. WordSize - 1 -> 0 .. MaxCounter]
  <2>1. CASE q = r /\ v = w
    BY <2>1 DEF SketchInv
  <2>2. CASE ~(q = r /\ v = w)
    <3>1. sketch'[q][v] = sketch[q][v]
      BY <2>2 DEF SketchInv
    <3> QED BY <3>1 DEF SketchInv
  <2> QED BY <2>1, <2>2
<1> QED BY <1>1, <1>2 DEF SketchInv

LEMMA HalveCASInv ==
  ASSUME LfInv, NEW t \in Threads, HalveCAS(t)
  PROVE  LfInv'
<1>1. PICK p : p = FirstWord(t)
  OBVIOUS
<1>2. PICK set : set = (sketch[p[1]][p[2]] = thread[t].old)
  OBVIOUS
<1>3. PICK next : next = [thread[t] EXCEPT !.pc = "halve", !.left = IF set THEN @ \ {p} ELSE @,
                                           !.old = ZeroWord]
  OBVIOUS
<1>4. "pc" \in DOMAIN next /\ next.pc = "halve"
  BY <1>3 DEF LfInv, ThreadInv
<1>5. Goes(t, next) /\ ~At(t, "claim") /\ UNCHANGED increments
  BY <1>1, <1>2, <1>3 DEF HalveCAS, At
<1>6. increments' \in Nat
  BY <1>5 DEF LfInv, ThreadInv
<1>7. SketchInv'
  <2>1. CASE sketch[p[1]][p[2]] = thread[t].old
    <3>1. PICK word : word = Halved(sketch[p[1]][p[2]])
      OBVIOUS
    <3>2. sketch' = [sketch EXCEPT ![p[1]][p[2]] = word]
      BY <1>1, <2>1, <3>1 DEF HalveCAS
    <3>3. p[1] \in Rows /\ p[2] \in Words => word \in [0 .. WordSize - 1 -> 0 .. MaxCounter]
      BY <3>1, HalvedWord DEF LfInv, SketchInv
    <3> QED BY <3>2, <3>3, WordSet DEF LfInv
  <2>2. CASE sketch[p[1]][p[2]] # thread[t].old
    <3>1. UNCHANGED sketch
      BY <1>1, <2>2 DEF HalveCAS
    <3> QED BY <3>1, SketchUnchanged DEF LfInv
  <2> QED BY <2>1, <2>2
<1> QED BY <1>4, <1>5, <1>6, <1>7, ClaimUnchanged, ThreadAway, LoadUnchanged DEF LfInv

\* A word of the doorkeeper is zeroed, and the thread goes on to the next one if
\* there is one.
LEMMA ZeroDoorInv ==
  ASSUME LfInv, NEW t \in Threads, thread[t].pc \in {"halve", "clear"},
         NEW next, "pc" \in DOMAIN next, next.pc \in {"rest", "clearCount"},
         ZeroDoorWord(t, next), UNCHANGED <<sketch, increments>>
  PROVE  LfInv'
<1>1. PICK s, w : s = thread[t] /\ w = Min(thread[t].door)
  OBVIOUS
<1>2. PICK after : after = IF s.door \subseteq {w} THEN next ELSE [s EXCEPT !.door = @ \ {w}]
  OBVIOUS
<1>3. Goes(t, after) /\ ~At(t, "claim")
  BY <1>1, <1>2 DEF ZeroDoorWord, At
<1>4. "pc" \in DOMAIN s /\ s.pc \in {"halve", "clear"}
  BY <1>1 DEF LfInv, ThreadInv
<1>5. "pc" \in DOMAIN after /\ after.pc \in {"rest", "clearCount", "halve", "clear"}
  <2>1. CASE s.door \subseteq {w}
    BY <1>2, <2>1
  <2>2. CASE ~(s.door \subseteq {w})
    BY <1>2, <1>4, <2>2
  <2> QED BY <2>1, <2>2
<1> QED BY <1>3, <1>5, QuietStep

LEMMA DoorResetInv ==
  ASSUME LfInv, NEW t \in Threads, DoorReset(t)
  PROVE  LfInv'
<1>1. PICK next : next = Resting
  OBVIOUS
<1>2. "pc" \in DOMAIN next /\ next.pc = "rest"
  BY <1>1 DEF Resting
<1>3. ZeroDoorWord(t, next) /\ thread[t].pc = "halve" /\ UNCHANGED <<sketch, increments>>
  BY <1>1 DEF DoorReset, At
<1> QED BY <1>2, <1>3, ZeroDoorInv

LEMMA LfClearInv ==
  ASSUME LfInv, NEW t \in Threads, LfClear(t)
  PROVE  LfInv'
<1>1. PICK next : next = [pc |-> "clear", left |-> Rows \X Words, door |-> DoorWords]
  OBVIOUS
<1>2. "pc" \in DOMAIN next /\ next.pc = "clear"
  BY <1>1
<1>3. Goes(t, next) /\ ~At(t, "claim") /\ UNCHANGED <<sketch, increments>>
  BY <1>1 DEF LfClear, At
<1> QED BY <1>2, <1>3, QuietStep

LEMMA ClearWordInv ==
  ASSUME LfInv, NEW t \in Threads, ClearWord(t)
  PROVE  LfInv'
<1>1. PICK p : p = FirstWord(t)
  OBVIOUS
<1>2. PICK next : next = [thread[t] EXCEPT !.left = @ \ {p}]
  OBVIOUS
<1>3. "pc" \in DOMAIN next /\ next.pc = "clear"
  BY <1>2 DEF LfInv, ThreadInv, ClearWord, At
<1>4. Goes(t, next) /\ ~At(t, "claim") /\ UNCHANGED increments
  BY <1>1, <1>2 DEF ClearWord, At
<1>5. increments' \in Nat
  BY <1>4 DEF LfInv, ThreadInv
<1>6. SketchInv'
  <2>1. PICK word : word = ZeroWord
    OBVIOUS
  <2>2. word \in [0 .. WordSize - 1 -> 0 .. MaxCounter]
    BY <2>1, LockFreeAssumption DEF ZeroWord
  <2>3. sketch' = [sketch EXCEPT ![p[1]][p[2]] = word]
    BY <1>1, <2>1 DEF ClearWord
  <2> QED BY <2>2, <2>3, WordSet DEF LfInv
<1> QED BY <1>3, <1>4, <1>5, <1>6, ClaimUnchanged, ThreadAway, LoadUnchanged DEF LfInv

LEMMA ClearDoorInv ==
  ASSUME LfInv, NEW t \in Threads, ClearDoor(t)
  PROVE  LfInv'
<1>1. PICK next : next = [pc |-> "clearCount"]
  OBVIOUS
<1>2. "pc" \in DOMAIN next /\ next.pc = "clearCount"
  BY <1>1
<1>3. ZeroDoorWord(t, next) /\ thread[t].pc = "clear" /\ UNCHANGED <<sketch, increments>>
  BY <1>1 DEF ClearDoor, At
<1> QED BY <1>2, <1>3, ZeroDoorInv

LEMMA ClearCountInv ==
  ASSUME LfInv, NEW t \in Threads, ClearCount(t)
  PROVE  LfInv'
<1>1. PICK next : next = Resting
  OBVIOUS
<1>2. "pc" \in DOMAIN next /\ next.pc = "rest"
  BY <1>1 DEF Resting
<1>3. Goes(t, next) /\ increments' = 0 /\ UNCHANGED sketch
  BY <1>1 DEF ClearCount
<1>4. ClaimInv'
  BY <1>3, LockFreeAssumption DEF ClaimInv
<1> QED BY <1>2, <1>3, <1>4, ThreadAway, LoadUnchanged, SketchUnchanged DEF LfInv
-----------------------------------------------------------------------------
(* The theorems.                                                           *)

\* LfInv holds however the atomic steps of the threads interleave.
THEOREM LfInvariant == LfSpec => []LfInv
<1>1. LfInv /\ [LfNext]_lfVars => LfInv'
  <2>1. ASSUME LfInv, LfNext PROVE LfInv'
    <3>1. PICK t \in Threads : LfStep(t)
      BY <2>1 DEF LfNext
    <3> QED BY <2>1, <3>1, LfCallInv, DoorLoadInv, DoorCASInv, DoorDoneInv, SketchLoadInv,
               SketchCASInv, CountAddInv, ClaimResetInv, HalveLoadInv, HalveCASInv,
               DoorResetInv, LfClearInv, ClearWordInv, ClearDoorInv, ClearCountInv
               DEF LfStep
  <2>2. LfInv /\ UNCHANGED lfVars => LfInv'
    BY DEF lfVars, LfInv, ThreadInv, ClaimInv, SketchInv, LoadInv, At, Hash, Row, InWord
  <2> QED BY <2>1, <2>2
<1> QED BY <1>1, InitLf, PTL DEF LfSpec

\* However many threads race past resetAt and each other's CAS, one of them
\* resets: with every thread at rest the count is below resetAt.
THEOREM ResetHappens == LfSpec => []ResetNotLost
<1>1. LfInv => ResetNotLost
  <2> SUFFICES ASSUME LfInv, AllRest PROVE increments < LfResetAt
    BY DEF ResetNotLost
  <2>1. ~(increments >= LfResetAt)
    BY DEF LfInv, ClaimInv, AllRest, At
  <2>2. increments \in Nat /\ LfResetAt \in Nat
    BY LockFreeAssumption DEF LfInv, ThreadInv
  <2> QED BY <2>1, <2>2
<1> QED BY <1>1, LfInvariant, PTL

\* No counter leaves its byte, whatever increments, resets and clears race on
\* the word it shares with three others.
THEOREM CountersFit == LfSpec => []NoCarry
<1>1. LfInv => NoCarry
  BY DEF LfInv, SketchInv, NoCarry, Counter
<1> QED BY <1>1, LfInvariant, PTL
-----------------------------------------------------------------------------
(* No increment is lost.  An increment of a hash is settled in a row once  *)
(* the counter has it, or is at its maximum; until then a thread owes it.  *)
(* A thread that has found a bit of the hash clear owes one increment for  *)
(* good, the one the doorkeeper swallows, but it can find one clear only   *)
(* until the hash is in the doorkeeper: from then on each thread may owe   *)
(* one, and none comes to owe more.                                        *)

AllBits(h, door) == ToSet(DoorBits[h]) \subseteq door
CountIn(q, h) == Cardinality({i \in DOMAIN q : q[i] = h})

\* s is where a thread is in its call.
Counting(s) == s.pc \in {"door", "doorCAS", "load", "cas"}

\* It will count the hash it is at in row r, as h is in the doorkeeper so far.
Ahead(s, h, r) ==
  /\ Head(s.todo) = h
  /\ \/ s.pc = "door" /\ s.present
     \/ s.pc \in {"load", "cas"} /\ r \in s.rows

\* It has found a bit of h clear.
Trying(s, h) ==
  /\ Counting(s) /\ Head(s.todo) = h
  /\ s.pc = "doorCAS" \/ (s.pc = "door" /\ ~s.present)

Left(s, h, r) ==
  IF Counting(s) THEN CountIn(Tail(s.todo), h) + (IF Ahead(s, h, r) THEN 1 ELSE 0) ELSE 0

Owed(s, h, r, door) == Left(s, h, r) + (IF AllBits(h, door) \/ Trying(s, h) THEN 1 ELSE 0)
OwedBy(h, r) == [t \in Threads |-> Owed(thread[t], h, r, doorkeeper)]

\* What a thread carries before the first reset: the bits of the hash that it
\* has not looked at are all that the doorkeeper may lack.
Placed(s, door) ==
  /\ s.pc \in {"rest", "count", "claim", "door", "doorCAS", "load", "cas"}
  /\ Counting(s) => s.todo \in Seq(LfHashes) /\ s.todo # <<>>
  /\ s.pc \in {"door", "doorCAS"} =>
       /\ s.bits \in Seq(Nat) /\ ToSet(s.bits) \subseteq ToSet(DoorBits[Head(s.todo)])
       /\ ToSet(DoorBits[Head(s.todo)]) \subseteq door \cup ToSet(s.bits)
  /\ s.pc = "door" => s.present \in BOOLEAN /\ {"pc", "todo", "bits", "present"} \subseteq DOMAIN s
  /\ s.pc = "doorCAS" => s.bits # <<>>
  /\ s.pc \in {"load", "cas"} =>
       s.rows \subseteq Rows /\ s.rows # {} /\ AllBits(Head(s.todo), door)

PlaceInv == ~aged => \A t \in Threads : Placed(thread[t], doorkeeper)

CountOf(h, r) == sketch[r][WordOf(h, r)][InWord(h, r)]

Kept(h, r) ==
  \/ AllBits(h, doorkeeper) /\ CountOf(h, r) >= MaxCounter
  \/ accessed[h] <= (IF AllBits(h, doorkeeper) THEN CountOf(h, r) ELSE 0)
                    + SumOver(OwedBy(h, r), Threads)

AccessInv == ~aged => \A h \in LfHashes, r \in Rows : Kept(h, r)
AccessedType == \A h \in LfHashes : accessed[h] \in Nat

CountInv == PlaceInv /\ AccessInv /\ AccessedType

\* The counter of a hash is in one of the words.
LEMMA Quotients ==
  ASSUME NEW k \in Nat \ {0}, NEW a \in Nat, NEW b \in Nat, a <= b
  PROVE  a \div k \in 0 .. b \div k /\ a % k \in 0 .. k - 1
<1>1. PICK p, q, m, n : p = a \div k /\ q = b \div k /\ m = a % k /\ n = b % k
  OBVIOUS
<1>2. /\ p \in Int /\ q \in Int /\ m \in 0 .. k - 1 /\ n \in 0 .. k - 1
      /\ a = k * p + m /\ b = k * q + n
  BY <1>1
<1>3. p >= 0
  <2> SUFFICES ASSUME ~(p >= 0) PROVE FALSE
    OBVIOUS
  <2>1. p + 1 <= 0
    BY <1>2
  <2>2. k * (p + 1) <= 0
    BY <1>2, <2>1
  <2>3. k * (p + 1) = k * p + k
    BY <1>2
  <2> QED BY <1>2, <2>2, <2>3
<1>4. p <= q
  <2> SUFFICES ASSUME ~(p <= q) PROVE FALSE
    OBVIOUS
  <2>1. q + 1 <= p
    BY <1>2
  <2>2. k * (q + 1) <= k * p
    BY <1>2, <2>1
  <2>3. k * (q + 1) = k * q + k
    BY <1>2
  <2> QED BY <1>2, <2>2, <2>3
<1> QED BY <1>1, <1>2, <1>3, <1>4

LEMMA CounterPlace ==
  ASSUME NEW h \in LfHashes, NEW r \in Rows
  PROVE  WordOf(h, r) \in Words /\ InWord(h, r) \in 0 .. WordSize - 1
<1> DEFINE T == {CounterOf[g][q] : g \in LfHashes, q \in Rows}
           top == [g \in LfHashes |-> CHOOSE n \in Nat : \A q \in Rows : CounterOf[g][q] <= n]
<1>1. IsFiniteSet(LfHashes) /\ IsFiniteSet(Rows) /\ WordSize \in Nat \ {0}
      /\ \A g \in LfHashes, q \in Rows : CounterOf[g][q] \in Nat
  BY LockFreeAssumption
<1>2. T \in SUBSET Nat /\ CounterOf[h][r] \in T
  BY <1>1
<1>3. \A g \in LfHashes : top[g] \in Nat /\ \A q \in Rows : CounterOf[g][q] <= top[g]
  <2> SUFFICES ASSUME NEW g \in LfHashes
               PROVE  top[g] \in Nat /\ \A q \in Rows : CounterOf[g][q] <= top[g]
    OBVIOUS
  <2>1. PICK f : f = CounterOf[g]
    OBVIOUS
  <2>2. \A q \in Rows : f[q] \in Nat
    BY <1>1, <2>1
  <2>3. \E n \in Nat : \A q \in Rows : f[q] <= n
    BY <1>1, <2>2, FiniteBound
  <2> QED BY <2>1, <2>3
<1>4. PICK f : f = top
  OBVIOUS
<1>5. PICK n \in Nat : \A g \in LfHashes : f[g] <= n
  <2> HIDE DEF T, top
  <2>1. IsFiniteSet(LfHashes) /\ \A g \in LfHashes : f[g] \in Nat
    BY <1>1, <1>3, <1>4
  <2> QED BY ONLY <2>1, FiniteBound
<1>6. \A m \in T : m <= n
  <2> SUFFICES ASSUME NEW g \in LfHashes, NEW q \in Rows PROVE CounterOf[g][q] <= n
    OBVIOUS
  <2>1. CounterOf[g][q] <= f[g] /\ f[g] <= n /\ f[g] \in Nat /\ CounterOf[g][q] \in Nat
    BY <1>1, <1>3, <1>4, <1>5
  <2> QED BY <2>1
<1>7. Words = 0 .. Max(T) \div WordSize
  BY DEF Words
<1> HIDE DEF T, top
<1>8. \E g \in T : \A m \in T : g >= m
  BY <1>2, <1>6, GreatestNumber
<1>9. Max(T) \in T /\ \A m \in T : Max(T) >= m
  BY <1>8 DEF Max
<1>10. CounterOf[h][r] <= Max(T) /\ Max(T) \in Nat /\ CounterOf[h][r] \in Nat
  BY <1>2, <1>9
<1> QED BY <1>1, <1>7, <1>10, Quotients DEF WordOf, InWord

\* The first of the rows that are left is one of them.
LEMMA FirstRow ==
  ASSUME NEW rows \in SUBSET Rows, rows # {}
  PROVE  Min(rows) \in rows
<1>1. \E n \in rows : \A m \in rows : n <= m
  BY LockFreeAssumption, LeastNumber
<1> QED BY <1>1 DEF Min

\* How often a hash is in a list.
LEMMA CountInType ==
  ASSUME NEW q \in Seq(LfHashes), NEW h
  PROVE  CountIn(q, h) \in Nat /\ CountIn(<<>>, h) = 0
<1>1. IsFiniteSet(1 .. Len(q)) /\ DOMAIN q = 1 .. Len(q)
  <2>1. Len(q) \in Nat
    OBVIOUS
  <2> QED BY <2>1, FS_Interval
<1>2. IsFiniteSet({i \in DOMAIN q : q[i] = h})
  BY <1>1, FS_Subset
<1>3. {i \in DOMAIN <<>> : <<>>[i] = h} = {}
  OBVIOUS
<1> QED BY <1>2, <1>3, FS_CardinalityType, FS_EmptySet DEF CountIn

LEMMA CountInTail ==
  ASSUME NEW q \in Seq(LfHashes), q # <<>>, NEW h
  PROVE  /\ CountIn(q, h) = CountIn(Tail(q), h) + (IF Head(q) = h THEN 1 ELSE 0)
         /\ CountIn(Tail(q), h) \in Nat /\ Tail(q) \in Seq(LfHashes)
<1>1. PICK n : n = Len(q)
  OBVIOUS
<1>2. n \in Nat \ {0} /\ DOMAIN q = 1 .. n /\ Head(q) = q[1]
  BY <1>1
<1>3. PICK p : p = Tail(q)
  OBVIOUS
<1>4. p \in Seq(LfHashes) /\ DOMAIN p = 1 .. n - 1 /\ \A i \in 1 .. n - 1 : p[i] = q[i + 1]
  BY <1>1, <1>2, <1>3
<1>5. PICK A, B : /\ A = {i \in 1 .. n - 1 : q[i + 1] = h}
                  /\ B = {i \in 2 .. n : q[i] = h}
  OBVIOUS
<1>6. CountIn(p, h) = Cardinality(A) /\ IsFiniteSet(A) /\ Cardinality(A) \in Nat
  <2>1. {i \in DOMAIN p : p[i] = h} = A
    BY <1>4, <1>5
  <2>2. IsFiniteSet(1 .. n - 1) /\ A \in SUBSET (1 .. n - 1)
    BY <1>2, <1>5, FS_Interval
  <2> QED BY <2>1, <2>2, FS_Subset, FS_CardinalityType DEF CountIn
<1>7. IsFiniteSet(B) /\ Cardinality(B) = Cardinality(A)
  <2>1. PICK f : f = [i \in A |-> i + 1]
    OBVIOUS
  <2>2. f \in Bijection(A, B)
    <3>1. f \in [A -> B] /\ \A i, j \in A : f[i] = f[j] => i = j
      BY <1>2, <1>5, <2>1
    <3>2. \A j \in B : \E i \in A : f[i] = j
      <4> SUFFICES ASSUME NEW j \in B PROVE j - 1 \in A /\ f[j - 1] = j
        OBVIOUS
      <4>1. j \in 2 .. n /\ q[j] = h /\ (j - 1) + 1 = j
        BY <1>2, <1>5
      <4>2. j - 1 \in 1 .. n - 1 /\ q[(j - 1) + 1] = h
        BY <1>2, <4>1
      <4> QED BY <1>5, <2>1, <4>1, <4>2
    <3> QED BY <3>1, <3>2 DEF Bijection, Injection, Surjection, IsInjective
  <2>3. ExistsBijection(A, B)
    BY <2>2 DEF ExistsBijection
  <2> QED BY <1>6, <2>3, FS_Bijection
<1>8. {i \in DOMAIN q : q[i] = h} = IF q[1] = h THEN B \cup {1} ELSE B
  BY <1>2, <1>5
<1>9. 1 \notin B
  BY <1>5
<1>10. Cardinality(B \cup {1}) = Cardinality(B) + 1
  BY <1>7, <1>9, FS_AddElement
<1>11. CountIn(q, h) = Cardinality(A) + (IF Head(q) = h THEN 1 ELSE 0)
  <2>1. CountIn(q, h) = Cardinality(IF q[1] = h THEN B \cup {1} ELSE B)
    BY <1>8 DEF CountIn
  <2>2. CountIn(q, h) = Cardinality(B) + (IF q[1] = h THEN 1 ELSE 0)
    <3>1. CASE q[1] = h
      BY <1>6, <1>7, <1>10, <2>1, <3>1
    <3>2. CASE q[1] # h
      BY <1>6, <1>7, <2>1, <3>2
    <3> QED BY <3>1, <3>2
  <2> QED BY <1>2, <1>7, <2>2
<1> QED BY <1>3, <1>4, <1>6, <1>11

\* What a thread owes is a number, and grows with the doorkeeper.
LEMMA OwedType ==
  ASSUME NEW s, NEW door, Placed(s, door), NEW h, NEW r
  PROVE  /\ Left(s, h, r) \in Nat /\ Owed(s, h, r, door) \in Nat
         /\ Counting(s) => CountIn(Tail(s.todo), h) \in Nat /\ Tail(s.todo) \in Seq(LfHashes)
<1>1. ASSUME Counting(s)
      PROVE  CountIn(Tail(s.todo), h) \in Nat /\ Tail(s.todo) \in Seq(LfHashes)
  <2>1. PICK q : q = s.todo
    OBVIOUS
  <2>2. q \in Seq(LfHashes) /\ q # <<>>
    BY <1>1, <2>1 DEF Placed
  <2> QED BY <2>1, <2>2, CountInTail
<1>2. Left(s, h, r) \in Nat
  BY <1>1 DEF Left
<1> QED BY <1>1, <1>2 DEF Owed

LEMMA PlacedGrows ==
  ASSUME NEW s, NEW door, NEW more, door \subseteq more, Placed(s, door)
  PROVE  /\ Placed(s, more)
         /\ \A h, r : Owed(s, h, r, door) <= Owed(s, h, r, more)
<1>1. \A h : AllBits(h, door) => AllBits(h, more)
  BY DEF AllBits
<1>2. Placed(s, more)
  BY <1>1 DEF Placed
<1>3. ASSUME NEW h, NEW r PROVE Owed(s, h, r, door) <= Owed(s, h, r, more)
  BY <1>1, OwedType DEF Owed
<1> QED BY <1>2, <1>3

\* A thread that goes on to the hashes of todo owes an increment for each.
LEMMA NextHashOwes ==
  ASSUME NEW todo \in Seq(LfHashes), NEW n, NEW door
  PROVE  /\ Placed(NextHash(todo, n), door)
         /\ \A h, r : /\ Left(NextHash(todo, n), h, r) = CountIn(todo, h)
                      /\ ~Trying(NextHash(todo, n), h)
<1>1. PICK s : s = NextHash(todo, n)
  OBVIOUS
<1>2. CASE todo = <<>>
  <2>1. s.pc = "count"
    BY <1>1, <1>2 DEF NextHash
  <2>2. Placed(s, door) /\ ~Counting(s)
    BY <2>1 DEF Placed, Counting
  <2>3. \A h : CountIn(todo, h) = 0
    BY <1>2, CountInType
  <2> QED BY <1>1, <2>2, <2>3 DEF Left, Trying
<1>3. CASE todo # <<>>
  <2>1. /\ s.pc = "door" /\ s.todo = todo /\ s.bits = DoorBits[Head(todo)] /\ s.present = TRUE
        /\ {"pc", "todo", "bits", "present"} \subseteq DOMAIN s
    BY <1>1, <1>3 DEF NextHash
  <2>2. Head(todo) \in LfHashes /\ DoorBits[Head(todo)] \in Seq(Nat)
    BY <1>3, LockFreeAssumption
  <2>3. Placed(s, door)
    BY <1>3, <2>1, <2>2 DEF Placed, Counting
  <2>4. ASSUME NEW h, NEW r PROVE Left(s, h, r) = CountIn(todo, h) /\ ~Trying(s, h)
    <3>1. CountIn(todo, h) = CountIn(Tail(todo), h) + (IF Head(todo) = h THEN 1 ELSE 0)
      BY <1>3, CountInTail
    <3>2. Ahead(s, h, r) <=> Head(todo) = h
      BY <2>1 DEF Ahead
    <3> QED BY <2>1, <3>1, <3>2 DEF Left, Trying, Counting
  <2> QED BY <1>1, <2>3, <2>4
<1> QED BY <1>2, <1>3

\* A thread that is done with the first of the rows that were left.
LEMMA RowDoneOwes ==
  ASSUME NEW t, NEW s, s = thread[t], NEW door, Placed(s, door), s.pc \in {"load", "cas"}
  PROVE  /\ Row(t) \in s.rows /\ Row(t) \in Rows
         /\ Placed(RowDone(t), door)
         /\ \A h, r :
              /\ ~Trying(RowDone(t), h)
              /\ Left(RowDone(t), h, r)
                   = CountIn(Tail(s.todo), h)
                     + (IF Head(s.todo) = h /\ r \in s.rows \ {Row(t)} THEN 1 ELSE 0)
<1>1. PICK k, left, next : k = Row(t) /\ left = s.rows \ {k} /\ next = RowDone(t)
  OBVIOUS
<1>2. /\ s.todo \in Seq(LfHashes) /\ s.todo # <<>> /\ s.rows \subseteq Rows /\ s.rows # {}
      /\ AllBits(Head(s.todo), door)
  BY DEF Placed, Counting
<1>3. k \in s.rows /\ k \in Rows
  <2>1. PICK rows : rows = s.rows
    OBVIOUS
  <2>2. Min(rows) \in rows
    BY <1>2, <2>1, FirstRow
  <2> QED BY <1>1, <1>2, <2>1, <2>2 DEF Row
<1>4. Tail(s.todo) \in Seq(LfHashes) /\ \A h : CountIn(Tail(s.todo), h) \in Nat
  BY <1>2, CountInTail
<1>5. CASE left = {}
  <2>1. next = NextHash(Tail(s.todo), s.n)
    BY <1>1, <1>5 DEF RowDone
  <2>2. PICK todo, n : todo = Tail(s.todo) /\ n = s.n
    OBVIOUS
  <2>3. /\ Placed(next, door)
        /\ \A h, r : Left(next, h, r) = CountIn(todo, h) /\ ~Trying(next, h)
    BY <1>4, <2>1, <2>2, NextHashOwes
  <2> QED BY <1>1, <1>3, <1>4, <1>5, <2>2, <2>3
<1>6. CASE left # {}
  <2>1. next.pc = "load" /\ next.todo = s.todo /\ next.rows = left
    BY <1>1, <1>6 DEF RowDone
  <2>2. Placed(next, door)
    BY <1>1, <1>2, <1>6, <2>1 DEF Placed, Counting
  <2>3. \A h, r : Ahead(next, h, r) <=> Head(s.todo) = h /\ r \in left
    BY <2>1 DEF Ahead
  <2>4. \A h, r : /\ ~Trying(next, h)
                  /\ Left(next, h, r) = CountIn(Tail(s.todo), h)
                                        + (IF Head(s.todo) = h /\ r \in left THEN 1 ELSE 0)
    BY <2>1, <2>3 DEF Left, Trying, Counting
  <2> QED BY <1>1, <1>3, <2>2, <2>4
<1> QED BY <1>5, <1>6
-----------------------------------------------------------------------------
(* A step of one thread.                                                   *)

\* A counter of the sketch, now and after a step.
LEMMA CountOfType ==
  ASSUME NEW h \in LfHashes, NEW r \in Rows
  PROVE  /\ SketchInv => CountOf(h, r) \in 0 .. MaxCounter
         /\ SketchInv' => CountOf(h, r)' \in 0 .. MaxCounter
<1>1. PICK w, i : w = WordOf(h, r) /\ i = InWord(h, r)
  OBVIOUS
<1>2. w \in Words /\ i \in 0 .. WordSize - 1
  BY <1>1, CounterPlace
<1>3. CountOf(h, r) = sketch[r][w][i] /\ CountOf(h, r)' = sketch'[r][w][i]
  BY <1>1 DEF CountOf, WordOf, InWord
<1>4. \A v \in [0 .. WordSize - 1 -> 0 .. MaxCounter] : v[i] \in 0 .. MaxCounter
  BY <1>2
<1>5. SketchInv => sketch[r][w] \in [0 .. WordSize - 1 -> 0 .. MaxCounter]
  BY <1>2 DEF SketchInv
<1>6. SketchInv' => sketch'[r][w] \in [0 .. WordSize - 1 -> 0 .. MaxCounter]
  BY <1>2 DEF SketchInv
<1> QED BY <1>3, <1>4, <1>5, <1>6

\* The other threads stay where they are.
LEMMA PlaceStep ==
  ASSUME LfInv, PlaceInv, ~aged, NEW t \in Threads, NEW next, Goes(t, next),
         doorkeeper \subseteq doorkeeper', Placed(next, doorkeeper')
  PROVE  /\ PlaceInv' /\ thread'[t] = next
         /\ \A s \in Threads \ {t} : thread'[s] = thread[s]
<1>1. thread'[t] = next /\ \A s \in Threads \ {t} : thread'[s] = thread[s]
  BY GoesThread DEF LfInv, ThreadInv
<1>2. ASSUME NEW s \in Threads PROVE Placed(thread'[s], doorkeeper')
  <2>1. CASE s = t
    BY <1>1, <2>1
  <2>2. CASE s # t
    <3>1. PICK x, door, more : x = thread[s] /\ door = doorkeeper /\ more = doorkeeper'
      OBVIOUS
    <3>2. Placed(x, door) /\ door \subseteq more
      BY <3>1 DEF PlaceInv
    <3>3. Placed(x, more)
      BY <3>2, PlacedGrows
    <3> QED BY <1>1, <2>2, <3>1, <3>3
  <2> QED BY <2>1, <2>2
<1> QED BY <1>1, <1>2 DEF PlaceInv

\* A step in which d increments of h are called, and the counter of h grows by g,
\* keeps them all if what the thread owes makes up for the difference.
LEMMA AccessStep ==
  ASSUME LfInv, PlaceInv, ~aged, NEW t \in Threads, NEW next, Goes(t, next),
         doorkeeper \subseteq doorkeeper', Placed(next, doorkeeper'),
         NEW h \in LfHashes, NEW r \in Rows, Kept(h, r), accessed[h] \in Nat,
         SketchInv', NEW d \in Nat, NEW g \in Nat, accessed'[h] = accessed[h] + d,
         CountOf(h, r)' >= CountOf(h, r) + g, g # 0 => AllBits(h, doorkeeper),
         Owed(thread[t], h, r, doorkeeper) + d - g <= Owed(next, h, r, doorkeeper')
  PROVE  Kept(h, r)'
<1>1. PICK f, e : f = OwedBy(h, r) /\ e = OwedBy(h, r)'
  OBVIOUS
<1>2. PICK a, c, m, door, more :
        /\ a = accessed[h] /\ c = CountOf(h, r) /\ m = CountOf(h, r)'
        /\ door = doorkeeper /\ more = doorkeeper'
  OBVIOUS
<1>3. /\ thread'[t] = next /\ \A s \in Threads \ {t} : thread'[s] = thread[s]
      /\ \A s \in Threads : Placed(thread[s], door) /\ Placed(thread'[s], more)
  <2>1. PlaceInv' /\ thread'[t] = next /\ \A s \in Threads \ {t} : thread'[s] = thread[s]
    BY PlaceStep
  <2>2. \A s \in Threads : Placed(thread[s], door)
    BY <1>2 DEF PlaceInv
  <2>3. \A s \in Threads : Placed(thread'[s], more)
    <3>1. ASSUME NEW s \in Threads, s # t PROVE Placed(thread'[s], more)
      <4>1. PICK x : x = thread[s]
        OBVIOUS
      <4>2. Placed(x, door) /\ door \subseteq more
        BY <1>2, <2>2, <4>1
      <4> QED BY <2>1, <3>1, <4>1, <4>2, PlacedGrows
    <3>2. Placed(thread'[t], more)
      BY <1>2, <2>1
    <3> QED BY <3>1, <3>2
  <2> QED BY <2>1, <2>2, <2>3
<1>4. /\ \A s \in Threads : f[s] = Owed(thread[s], h, r, door)
      /\ \A s \in Threads : e[s] = Owed(thread'[s], h, r, more)
  BY <1>1, <1>2 DEF OwedBy
<1>5. ASSUME NEW s \in Threads
      PROVE  f[s] \in Int /\ e[s] \in Int /\ (s # t => f[s] <= e[s])
  <2>1. PICK x, y : x = thread[s] /\ y = thread'[s]
    OBVIOUS
  <2>2. Placed(x, door) /\ Placed(y, more) /\ (s # t => x = y) /\ door \subseteq more
    BY <1>2, <1>3, <2>1
  <2>3. Owed(x, h, r, door) \in Nat /\ Owed(y, h, r, more) \in Nat
    BY <2>2, OwedType
  <2>4. s # t => Owed(x, h, r, door) <= Owed(y, h, r, more)
    BY <2>2, PlacedGrows
  <2> QED BY <1>4, <2>1, <2>3, <2>4
<1>6. f[t] + (d - g) <= e[t]
  BY <1>2, <1>3, <1>4, <1>5
<1>7. SumOver(f, Threads) + (d - g) <= SumOver(e, Threads)
  <2>1. d - g \in Int /\ IsFiniteSet(Threads)
    BY LockFreeAssumption
  <2>2. /\ \A s \in Threads : f[s] \in Int /\ e[s] \in Int
        /\ \A s \in Threads \ {t} : f[s] <= e[s]
    BY <1>5
  <2> QED BY <1>6, <2>1, <2>2, SumRaise
<1>8. SumOver(f, Threads) \in Int /\ SumOver(e, Threads) \in Int
  BY <1>5, SumType, LockFreeAssumption
<1>9. c \in Nat /\ m \in Nat /\ m >= c + g /\ a \in Nat /\ MaxCounter \in Nat
  <2>1. c \in 0 .. MaxCounter
    BY <1>2, CountOfType DEF LfInv
  <2>2. CountOf(h, r)' \in 0 .. MaxCounter
    BY CountOfType
  <2> QED BY <1>2, <2>1, <2>2, LockFreeAssumption
<1>10. AllBits(h, door) => AllBits(h, more)
  BY <1>2 DEF AllBits
<1>11. \/ AllBits(h, door) /\ c >= MaxCounter
       \/ a <= (IF AllBits(h, door) THEN c ELSE 0) + SumOver(f, Threads)
  BY <1>1, <1>2 DEF Kept
<1>12. g # 0 => AllBits(h, door)
  BY <1>2
<1>13. \/ AllBits(h, more) /\ m >= MaxCounter
       \/ a + d <= (IF AllBits(h, more) THEN m ELSE 0) + SumOver(e, Threads)
  <2>1. PICK x, y : x = SumOver(f, Threads) /\ y = SumOver(e, Threads)
    OBVIOUS
  <2>2. x \in Int /\ y \in Int /\ x + (d - g) <= y
    BY <1>7, <1>8, <2>1
  <2>3. CASE AllBits(h, door) /\ c >= MaxCounter
    BY <1>9, <1>10, <2>3
  <2>4. CASE a <= (IF AllBits(h, door) THEN c ELSE 0) + x
    <3>1. CASE AllBits(h, door)
      BY <1>9, <1>10, <2>1, <2>2, <2>4, <3>1
    <3>2. CASE ~AllBits(h, door)
      BY <1>9, <1>12, <2>1, <2>2, <2>4, <3>2
    <3> QED BY <3>1, <3>2
  <2> QED BY <1>11, <2>1, <2>3, <2>4
<1> QED BY <1>1, <1>2, <1>13 DEF Kept

\* A step that leaves the sketch and the doorkeeper alone.
LEMMA QuietAccess ==
  ASSUME LfInv, CountInv, ~aged, NEW t \in Threads, NEW next, Goes(t, next),
         UNCHANGED <<sketch, doorkeeper, accessed>>, Placed(next, doorkeeper),
         \A h \in LfHashes, r \in Rows :
           \/ AllBits(h, doorkeeper) /\ CountOf(h, r) >= MaxCounter
           \/ Owed(thread[t], h, r, doorkeeper) <= Owed(next, h, r, doorkeeper)
  PROVE  CountInv'
<1> USE DEF CountInv
<1>1. /\ PlaceInv' /\ AccessedType' /\ SketchInv' /\ doorkeeper \subseteq doorkeeper'
      /\ Placed(next, doorkeeper')
  BY PlaceStep, SketchUnchanged DEF AccessedType, LfInv
<1>2. ASSUME NEW h \in LfHashes, NEW r \in Rows PROVE Kept(h, r)'
  <2>1. CountOf(h, r)' = CountOf(h, r) /\ CountOf(h, r) \in Int
    BY CountOfType DEF CountOf, WordOf, InWord, LfInv
  <2>2. CASE AllBits(h, doorkeeper) /\ CountOf(h, r) >= MaxCounter
    BY <2>1, <2>2 DEF Kept
  <2>3. CASE Owed(thread[t], h, r, doorkeeper) <= Owed(next, h, r, doorkeeper)
    <3>1. Kept(h, r) /\ accessed[h] \in Nat
      BY DEF AccessInv, AccessedType
    <3>2. PICK x, y, door : /\ x = Owed(thread[t], h, r, doorkeeper) /\ door = doorkeeper
                            /\ y = Owed(next, h, r, doorkeeper)
      OBVIOUS
    <3>3. x \in Nat /\ y \in Nat
      <4>1. PICK s : s = thread[t]
        OBVIOUS
      <4>2. Placed(s, door) /\ Placed(next, door)
        BY <3>2, <4>1 DEF PlaceInv
      <4> QED BY <3>2, <4>1, <4>2, OwedType
    <3>4. Owed(thread[t], h, r, doorkeeper) + 0 - 0 <= Owed(next, h, r, doorkeeper')
      <4>1. Owed(next, h, r, doorkeeper') = y
        BY <3>2
      <4> QED BY <2>3, <3>2, <3>3, <4>1
    <3>5. accessed'[h] = accessed[h] + 0 /\ CountOf(h, r)' >= CountOf(h, r) + 0
      BY <2>1, <3>1
    <3> QED BY <1>1, <3>1, <3>4, <3>5, AccessStep
  <2> QED BY <2>2, <2>3
<1> QED BY <1>1, <1>2 DEF AccessInv

\* A call owes what it counts as called.
LEMMA CallAccess ==
  ASSUME LfInv, CountInv, ~aged, NEW t \in Threads, NEW hashes \in Batches, LfCall(t, hashes)
  PROVE  CountInv'
<1> USE DEF CountInv
<1>1. PICK next, s, door : /\ next = NextHash(hashes, Len(hashes)) /\ s = thread[t]
                           /\ door = doorkeeper
  OBVIOUS
<1>2. /\ Goes(t, next) /\ UNCHANGED <<sketch, doorkeeper>> /\ s.pc = "rest"
      /\ \A h \in LfHashes : accessed'[h] = accessed[h] + CountIn(hashes, h)
  BY <1>1 DEF LfCall, At, CountIn
<1>3. hashes \in Seq(LfHashes)
  BY LockFreeAssumption
<1>4. /\ Placed(next, door)
      /\ \A h, r : Left(next, h, r) = CountIn(hashes, h) /\ ~Trying(next, h)
  BY <1>1, <1>3, NextHashOwes
<1>5. \A h : CountIn(hashes, h) \in Nat
  BY <1>3, CountInType
<1>6. /\ PlaceInv' /\ SketchInv' /\ doorkeeper \subseteq doorkeeper'
      /\ Placed(next, doorkeeper')
  BY <1>1, <1>2, <1>4, PlaceStep, SketchUnchanged DEF LfInv
<1>7. AccessedType'
  BY <1>2, <1>5 DEF AccessedType
<1>8. ASSUME NEW h \in LfHashes, NEW r \in Rows PROVE Kept(h, r)'
  <2>1. CountOf(h, r)' = CountOf(h, r) /\ CountOf(h, r) \in Int
    BY <1>2, CountOfType DEF CountOf, WordOf, InWord, LfInv
  <2>2. Kept(h, r) /\ accessed[h] \in Nat
    BY DEF AccessInv, AccessedType
  <2>3. PICK d \in Nat : d = CountIn(hashes, h)
    BY <1>5
  <2>4. Owed(s, h, r, door) + d - 0 <= Owed(next, h, r, door)
    <3>1. Left(s, h, r) = 0 /\ ~Trying(s, h)
      BY <1>2 DEF Left, Trying, Counting
    <3>2. Left(next, h, r) = d /\ ~Trying(next, h)
      BY <1>4, <2>3
    <3> QED BY <3>1, <3>2 DEF Owed
  <2>5. Owed(thread[t], h, r, doorkeeper) + d - 0 <= Owed(next, h, r, doorkeeper')
    BY <1>1, <1>2, <2>4
  <2>6. accessed'[h] = accessed[h] + d /\ CountOf(h, r)' >= CountOf(h, r) + 0
    BY <1>2, <2>1, <2>3
  <2> QED BY <1>2, <1>6, <2>2, <2>5, <2>6, AccessStep
<1> QED BY <1>6, <1>7, <1>8 DEF AccessInv

\* The bits of a list: the first, and those of the rest.
LEMMA SetOfTail ==
  ASSUME NEW q \in Seq(Nat), q # <<>>
  PROVE  ToSet(q) = {Head(q)} \cup ToSet(Tail(q))
<1>1. PICK n, p : n = Len(q) /\ p = Tail(q)
  OBVIOUS
<1>2. n \in Nat \ {0} /\ DOMAIN q = 1 .. n /\ Head(q) = q[1]
  BY <1>1
<1>3. DOMAIN p = 1 .. n - 1 /\ \A i \in 1 .. n - 1 : p[i] = q[i + 1]
  BY <1>1, <1>2
<1>4. ToSet(q) = {q[i] : i \in 1 .. n} /\ ToSet(p) = {p[i] : i \in 1 .. n - 1}
  BY <1>2, <1>3 DEF ToSet
<1>5. ASSUME NEW i \in 1 .. n PROVE q[i] \in {q[1]} \cup ToSet(p)
  <2>1. CASE i = 1
    BY <2>1
  <2>2. CASE i # 1
    <3>1. i - 1 \in 1 .. n - 1 /\ (i - 1) + 1 = i
      BY <1>2, <2>2
    <3>2. p[i - 1] = q[i]
      BY <1>3, <3>1
    <3> QED BY <1>4, <3>1, <3>2
  <2> QED BY <2>1, <2>2
<1>6. ASSUME NEW i \in 1 .. n - 1 PROVE p[i] \in ToSet(q)
  <2>1. i + 1 \in 1 .. n /\ p[i] = q[i + 1]
    BY <1>2, <1>3
  <2> QED BY <1>4, <2>1
<1>7. q[1] \in ToSet(q)
  BY <1>2, <1>4
<1>8. ToSet(q) \subseteq {q[1]} \cup ToSet(p) /\ ToSet(p) \subseteq ToSet(q)
  BY <1>4, <1>5, <1>6
<1> QED BY <1>1, <1>2, <1>7, <1>8

\* A bit that is found clear takes a hash that was about to be counted to the
\* doorkeeper, which does not have it.
LEMMA DoorLoadAccess ==
  ASSUME LfInv, CountInv, ~aged, NEW t \in Threads, DoorLoad(t)
  PROVE  CountInv'
<1>1. PICK s, door, bit : s = thread[t] /\ door = doorkeeper /\ bit = Head(s.bits)
  OBVIOUS
<1>2. /\ s.pc = "door" /\ s.bits # <<>> /\ Placed(s, door)
      /\ UNCHANGED <<sketch, doorkeeper, accessed>>
  BY <1>1 DEF DoorLoad, At, CountInv, PlaceInv
<1>3. /\ s.todo \in Seq(LfHashes) /\ s.todo # <<>> /\ s.bits \in Seq(Nat)
      /\ ToSet(s.bits) \subseteq ToSet(DoorBits[Head(s.todo)])
      /\ ToSet(DoorBits[Head(s.todo)]) \subseteq door \cup ToSet(s.bits)
      /\ s.present \in BOOLEAN
  BY <1>2 DEF Placed, Counting
<1>4. /\ Tail(s.bits) \in Seq(Nat) /\ bit \in ToSet(s.bits)
      /\ ToSet(s.bits) = {bit} \cup ToSet(Tail(s.bits))
  <2>1. PICK q : q = s.bits
    OBVIOUS
  <2>2. q \in Seq(Nat) /\ q # <<>>
    BY <1>2, <1>3, <2>1
  <2>3. Tail(q) \in Seq(Nat)
    BY <2>2
  <2>4. ToSet(q) = {Head(q)} \cup ToSet(Tail(q))
    BY <2>2, SetOfTail
  <2> QED BY <1>1, <2>1, <2>3, <2>4
<1>5. \A h, r : Left(s, h, r) \in Nat
  BY <1>2, OwedType
<1>6. CASE bit \in door
  <2>1. PICK next : next = [s EXCEPT !.bits = Tail(@)]
    OBVIOUS
  <2>2. Goes(t, next)
    BY <1>1, <1>6, <2>1 DEF DoorLoad, Bit
  <2>3. /\ next.pc = "door" /\ next.todo = s.todo /\ next.bits = Tail(s.bits)
        /\ next.present = s.present /\ {"pc", "todo", "bits", "present"} \subseteq DOMAIN next
    <3>1. {"pc", "todo", "bits", "present"} \subseteq DOMAIN s
      BY <1>2 DEF Placed
    <3> QED BY <1>2, <2>1, <3>1
  <2>4. Placed(next, door)
    BY <1>3, <1>4, <1>6, <2>3 DEF Placed, Counting
  <2>5. \A h, r : Left(next, h, r) = Left(s, h, r) /\ (Trying(next, h) <=> Trying(s, h))
    BY <1>2, <2>3 DEF Left, Ahead, Trying, Counting
  <2>6. \A h, r : Owed(s, h, r, door) <= Owed(next, h, r, door)
    BY <1>5, <2>5 DEF Owed
  <2> QED BY <1>1, <1>2, <2>2, <2>4, <2>6, QuietAccess
<1>7. CASE bit \notin door
  <2>1. PICK next : next = [pc |-> "doorCAS", todo |-> s.todo, n |-> s.n, bits |-> s.bits,
                            old |-> InDoorWord(DoorWord(bit))]
    OBVIOUS
  <2>2. Goes(t, next)
    BY <1>1, <1>7, <2>1 DEF DoorLoad, Bit
  <2>3. next.pc = "doorCAS" /\ next.todo = s.todo /\ next.bits = s.bits
    BY <2>1
  <2>4. Placed(next, door)
    BY <1>2, <1>3, <2>3 DEF Placed, Counting
  <2>5. ~AllBits(Head(s.todo), door)
    BY <1>3, <1>4, <1>7 DEF AllBits
  <2>6. ASSUME NEW h, NEW r PROVE Owed(s, h, r, door) <= Owed(next, h, r, door)
    <3>0. CountIn(Tail(s.todo), h) \in Nat
      BY <1>2, OwedType DEF Counting
    <3>1. Left(next, h, r) = CountIn(Tail(s.todo), h)
      BY <2>3, <3>0 DEF Left, Ahead, Counting
    <3>2. CASE h = Head(s.todo)
      <4>1. Trying(next, h) /\ ~AllBits(h, door)
        BY <2>3, <2>5, <3>2 DEF Trying, Counting
      <4>2. Trying(s, h) <=> ~s.present
        BY <1>2, <3>2 DEF Trying, Counting
      <4>3. Left(s, h, r) = CountIn(Tail(s.todo), h) + (IF s.present THEN 1 ELSE 0)
        BY <1>2, <3>2 DEF Left, Ahead, Counting
      <4> QED BY <3>0, <3>1, <4>1, <4>2, <4>3 DEF Owed
    <3>3. CASE h # Head(s.todo)
      <4>1. ~Trying(next, h) /\ ~Trying(s, h)
        BY <2>3, <3>3 DEF Trying
      <4>2. Left(s, h, r) = CountIn(Tail(s.todo), h)
        BY <1>2, <3>0, <3>3 DEF Left, Ahead, Counting
      <4> QED BY <3>0, <3>1, <4>1, <4>2 DEF Owed
    <3> QED BY <3>2, <3>3
  <2> QED BY <1>1, <1>2, <2>2, <2>4, <2>6, QuietAccess
<1> QED BY <1>6, <1>7

\* The CAS, whether it sets the bit or not, leaves the thread trying.
LEMMA DoorCASAccess ==
  ASSUME LfInv, CountInv, ~aged, NEW t \in Threads, DoorCAS(t)
  PROVE  CountInv'
<1> USE DEF CountInv
<1>1. PICK s, door, more, bit : /\ s = thread[t] /\ door = doorkeeper /\ more = doorkeeper'
                                /\ bit = Head(s.bits)
  OBVIOUS
<1>0. PICK now : now = InDoorWord(DoorWord(bit))
  OBVIOUS
<1>2. PICK next : next = [pc |-> "door", todo |-> s.todo, n |-> s.n,
                          bits |-> IF now = s.old THEN Tail(s.bits) ELSE s.bits,
                          present |-> FALSE]
  OBVIOUS
<1>3. /\ s.pc = "doorCAS" /\ Placed(s, door) /\ UNCHANGED <<sketch, accessed>> /\ Goes(t, next)
      /\ more = IF now = s.old THEN door \cup {bit} ELSE door
  BY <1>0, <1>1, <1>2 DEF DoorCAS, At, Bit, PlaceInv
<1>4. /\ s.todo \in Seq(LfHashes) /\ s.todo # <<>> /\ s.bits \in Seq(Nat) /\ s.bits # <<>>
      /\ ToSet(s.bits) \subseteq ToSet(DoorBits[Head(s.todo)])
      /\ ToSet(DoorBits[Head(s.todo)]) \subseteq door \cup ToSet(s.bits)
  BY <1>3 DEF Placed, Counting
<1>5. Tail(s.bits) \in Seq(Nat) /\ ToSet(s.bits) = {bit} \cup ToSet(Tail(s.bits))
  <2>1. PICK q : q = s.bits
    OBVIOUS
  <2>2. q \in Seq(Nat) /\ q # <<>>
    BY <1>4, <2>1
  <2>3. Tail(q) \in Seq(Nat)
    BY <2>2
  <2> QED BY <1>1, <2>1, <2>2, <2>3, SetOfTail
<1>6. /\ next.pc = "door" /\ next.todo = s.todo /\ next.present = FALSE
      /\ next.bits = IF now = s.old THEN Tail(s.bits) ELSE s.bits
      /\ {"pc", "todo", "bits", "present"} \subseteq DOMAIN next
  BY <1>2
<1>7. Placed(next, more)
  <2>1. CASE now = s.old
    BY <1>3, <1>4, <1>5, <1>6, <2>1 DEF Placed, Counting
  <2>2. CASE now # s.old
    BY <1>3, <1>4, <1>6, <2>2 DEF Placed, Counting
  <2> QED BY <2>1, <2>2
<1>8. door \subseteq more
  BY <1>3
<1>9. PlaceInv' /\ SketchInv' /\ AccessedType'
  BY <1>1, <1>3, <1>7, <1>8, PlaceStep, SketchUnchanged DEF LfInv, AccessedType
<1>10. ASSUME NEW h \in LfHashes, NEW r \in Rows PROVE Kept(h, r)'
  <2>1. CountOf(h, r)' = CountOf(h, r) /\ CountOf(h, r) \in Int
    BY <1>3, CountOfType DEF CountOf, WordOf, InWord, LfInv
  <2>2. Kept(h, r) /\ accessed[h] \in Nat
    BY DEF AccessInv, AccessedType
  <2>3. Left(s, h, r) \in Nat
    BY <1>3, OwedType
  <2>4. Owed(s, h, r, door) + 0 - 0 <= Owed(next, h, r, more)
    <3>1. Left(next, h, r) = Left(s, h, r)
      BY <1>3, <1>6 DEF Left, Ahead, Counting
    <3>2. Trying(next, h) <=> Trying(s, h)
      BY <1>3, <1>6 DEF Trying, Counting
    <3>3. AllBits(h, door) => AllBits(h, more)
      BY <1>8 DEF AllBits
    <3> QED BY <2>3, <3>1, <3>2, <3>3 DEF Owed
  <2>5. Owed(thread[t], h, r, doorkeeper) + 0 - 0 <= Owed(next, h, r, doorkeeper')
    BY <1>1, <2>4
  <2>6. accessed'[h] = accessed[h] + 0 /\ CountOf(h, r)' >= CountOf(h, r) + 0
    BY <1>3, <2>1, <2>2
  <2>7. doorkeeper \subseteq doorkeeper' /\ Placed(next, doorkeeper')
    BY <1>1, <1>7, <1>8
  <2> QED BY <1>3, <1>9, <2>2, <2>5, <2>6, <2>7, AccessStep
<1> QED BY <1>9, <1>10 DEF AccessInv

\* Every bit was looked at, so the hash is in the doorkeeper; one that was not
\* there before is owed for good.
LEMMA DoorDoneAccess ==
  ASSUME LfInv, CountInv, ~aged, NEW t \in Threads, DoorDone(t)
  PROVE  CountInv'
<1>1. PICK s, door : s = thread[t] /\ door = doorkeeper
  OBVIOUS
<1>2. /\ s.pc = "door" /\ s.bits = <<>> /\ Placed(s, door)
      /\ UNCHANGED <<sketch, doorkeeper, accessed>>
  BY <1>1 DEF DoorDone, At, CountInv, PlaceInv
<1>3. /\ s.todo \in Seq(LfHashes) /\ s.todo # <<>>
      /\ ToSet(DoorBits[Head(s.todo)]) \subseteq door \cup ToSet(s.bits)
      /\ s.present \in BOOLEAN
  BY <1>2 DEF Placed, Counting
<1>4. AllBits(Head(s.todo), door)
  <2>1. ToSet(<<>>) = {}
    BY DEF ToSet
  <2> QED BY <1>2, <1>3, <2>1 DEF AllBits
<1>5. PICK p : p = Tail(s.todo)
  OBVIOUS
<1>6. p \in Seq(LfHashes) /\ \A h : CountIn(p, h) \in Nat
  BY <1>2, <1>5, OwedType DEF Counting
<1>7. CASE s.present
  <2>1. PICK next : next = [pc |-> "load", todo |-> s.todo, n |-> s.n, rows |-> Rows]
    OBVIOUS
  <2>2. Goes(t, next)
    BY <1>1, <1>7, <2>1 DEF DoorDone
  <2>3. next.pc = "load" /\ next.todo = s.todo /\ next.rows = Rows
    BY <2>1
  <2>4. Placed(next, door)
    BY <1>3, <1>4, <2>3, LockFreeAssumption DEF Placed, Counting
  <2>5. ASSUME NEW h \in LfHashes, NEW r \in Rows PROVE Owed(s, h, r, door) <= Owed(next, h, r, door)
    <3>1. ~Trying(s, h) /\ ~Trying(next, h)
      BY <1>2, <1>7, <2>3 DEF Trying
    <3>2. Ahead(s, h, r) <=> Ahead(next, h, r)
      BY <1>2, <1>7, <2>3 DEF Ahead
    <3>3. Left(s, h, r) = Left(next, h, r)
      BY <1>2, <2>3, <3>2 DEF Left, Counting
    <3>4. Left(s, h, r) \in Nat
      BY <1>2, OwedType
    <3> QED BY <3>1, <3>3, <3>4 DEF Owed
  <2> QED BY <1>1, <1>2, <2>2, <2>4, <2>5, QuietAccess
<1>8. CASE ~s.present
  <2>1. PICK next, n : n = s.n /\ next = NextHash(p, n)
    OBVIOUS
  <2>2. Goes(t, next)
    BY <1>1, <1>5, <1>8, <2>1 DEF DoorDone
  <2>3. Placed(next, door) /\ \A h, r : Left(next, h, r) = CountIn(p, h)
    BY <1>6, <2>1, NextHashOwes
  <2>4. ASSUME NEW h \in LfHashes, NEW r \in Rows PROVE Owed(s, h, r, door) <= Owed(next, h, r, door)
    <3>1. ~Ahead(s, h, r)
      BY <1>2, <1>8 DEF Ahead
    <3>2. Left(s, h, r) = CountIn(p, h)
      BY <1>2, <1>5, <1>6, <3>1 DEF Left, Counting
    <3>3. Trying(s, h) => AllBits(h, door)
      BY <1>4 DEF Trying
    <3>4. CountIn(p, h) \in Nat
      BY <1>6
    <3> QED BY <2>3, <3>2, <3>3, <3>4 DEF Owed
  <2> QED BY <1>1, <1>2, <2>2, <2>3, <2>4, QuietAccess
<1> QED BY <1>7, <1>8

\* A thread that looks at its word goes past a counter at its maximum only.
LEMMA SketchLoadAccess ==
  ASSUME LfInv, CountInv, ~aged, NEW t \in Threads, SketchLoad(t)
  PROVE  CountInv'
<1>1. PICK s, door, k, g : s = thread[t] /\ door = doorkeeper /\ k = Row(t) /\ g = Hash(t)
  OBVIOUS
<1>2. /\ s.pc = "load" /\ Placed(s, door) /\ g = Head(s.todo)
      /\ UNCHANGED <<sketch, doorkeeper, accessed>>
  BY <1>1 DEF SketchLoad, At, CountInv, PlaceInv, Hash
<1>3. PICK after : after = RowDone(t)
  OBVIOUS
<1>4. /\ k \in s.rows /\ k \in Rows /\ Placed(after, door)
      /\ \A h, r : /\ ~Trying(after, h)
                   /\ Left(after, h, r) = CountIn(Tail(s.todo), h)
                        + (IF Head(s.todo) = h /\ r \in s.rows \ {k} THEN 1 ELSE 0)
  BY <1>1, <1>2, <1>3, RowDoneOwes
<1>5. \A h : CountIn(Tail(s.todo), h) \in Nat
  BY <1>2, OwedType DEF Counting
<1>6. \A h, r : /\ ~Trying(s, h)
                /\ Left(s, h, r) = CountIn(Tail(s.todo), h)
                                   + (IF Head(s.todo) = h /\ r \in s.rows THEN 1 ELSE 0)
  BY <1>2 DEF Trying, Left, Ahead, Counting
<1>7. s.todo \in Seq(LfHashes) /\ s.todo # <<>> /\ AllBits(g, door)
      /\ s.rows \subseteq Rows /\ s.rows # {}
  BY <1>2 DEF Placed, Counting
<1>8. CASE CountOf(g, k) >= MaxCounter
  <2>1. Goes(t, after)
    BY <1>1, <1>3, <1>8 DEF SketchLoad, CountOf
  <2>2. ASSUME NEW h \in LfHashes, NEW r \in Rows
        PROVE  \/ AllBits(h, door) /\ CountOf(h, r) >= MaxCounter
               \/ Owed(s, h, r, door) <= Owed(after, h, r, door)
    <3>1. CASE h = g /\ r = k
      BY <1>7, <1>8, <3>1
    <3>2. CASE ~(h = g /\ r = k)
      <4>1. Left(s, h, r) = Left(after, h, r)
        BY <1>2, <1>4, <1>6, <3>2
      <4>2. Left(s, h, r) \in Nat
        BY <1>2, OwedType
      <4> QED BY <1>4, <1>6, <4>1, <4>2 DEF Owed
    <3> QED BY <3>1, <3>2
  <2> QED BY <1>1, <1>2, <1>4, <2>1, <2>2, QuietAccess
<1>9. CASE ~(CountOf(g, k) >= MaxCounter)
  <2>1. PICK next : next = [pc |-> "cas", todo |-> s.todo, n |-> s.n, rows |-> s.rows,
                            old |-> sketch[k][WordOf(g, k)]]
    OBVIOUS
  <2>2. Goes(t, next)
    BY <1>1, <1>9, <2>1 DEF SketchLoad, CountOf
  <2>3. next.pc = "cas" /\ next.todo = s.todo /\ next.rows = s.rows
    BY <2>1
  <2>4. Placed(next, door)
    BY <1>2, <1>7, <2>3 DEF Placed, Counting
  <2>5. ASSUME NEW h, NEW r PROVE Owed(s, h, r, door) <= Owed(next, h, r, door)
    <3>1. ~Trying(next, h)
      BY <2>3 DEF Trying
    <3>2. Left(next, h, r) = Left(s, h, r) /\ Left(s, h, r) \in Nat
      BY <1>2, <2>3, OwedType DEF Left, Ahead, Counting
    <3> QED BY <1>6, <3>1, <3>2 DEF Owed
  <2> QED BY <1>1, <1>2, <2>2, <2>4, <2>5, QuietAccess
<1> QED BY <1>8, <1>9

\* A CAS that succeeds counts the hash in its row; a counter that it shares with
\* another hash only makes that one look more frequent.
LEMMA SketchCASAccess ==
  ASSUME LfInv, CountInv, ~aged, NEW t \in Threads, SketchCAS(t)
  PROVE  CountInv'
<1> USE DEF CountInv
<1>1. PICK s, door, k, g, w, i : /\ s = thread[t] /\ door = doorkeeper /\ k = Row(t)
                                 /\ g = Hash(t) /\ w = WordOf(g, k) /\ i = InWord(g, k)
  OBVIOUS
<1>2. /\ s.pc = "cas" /\ Placed(s, door) /\ g = Head(s.todo)
      /\ UNCHANGED <<doorkeeper, accessed>>
  BY <1>1 DEF SketchCAS, At, PlaceInv, Hash
<1>3. PICK after : after = RowDone(t)
  OBVIOUS
<1>4. /\ k \in s.rows /\ k \in Rows /\ Placed(after, door)
      /\ \A h, r : /\ ~Trying(after, h)
                   /\ Left(after, h, r) = CountIn(Tail(s.todo), h)
                        + (IF Head(s.todo) = h /\ r \in s.rows \ {k} THEN 1 ELSE 0)
  BY <1>1, <1>2, <1>3, RowDoneOwes
<1>5. \A h : CountIn(Tail(s.todo), h) \in Nat
  BY <1>2, OwedType DEF Counting
<1>6. \A h, r : /\ ~Trying(s, h)
                /\ Left(s, h, r) = CountIn(Tail(s.todo), h)
                                   + (IF Head(s.todo) = h /\ r \in s.rows THEN 1 ELSE 0)
  BY <1>2 DEF Trying, Left, Ahead, Counting
<1>7. s.todo \in Seq(LfHashes) /\ s.todo # <<>> /\ AllBits(g, door)
      /\ s.rows \subseteq Rows /\ s.rows # {} /\ g \in LfHashes
  <2>1. s.todo \in Seq(LfHashes) /\ s.todo # <<>>
    BY <1>2 DEF Placed, Counting
  <2>2. PICK q : q = s.todo
    OBVIOUS
  <2>3. Head(q) \in LfHashes
    BY <2>1, <2>2
  <2> QED BY <1>2, <2>1, <2>2, <2>3 DEF Placed
<1>8. CASE sketch[k][w] = s.old
  <2>1. Goes(t, after) /\ sketch' = [sketch EXCEPT ![k][w][i] = @ + 1]
    BY <1>1, <1>3, <1>8 DEF SketchCAS
  <2>2. PlaceInv' /\ AccessedType' /\ SketchInv'
    <3>1. Placed(after, doorkeeper') /\ doorkeeper \subseteq doorkeeper'
      BY <1>1, <1>2, <1>4
    <3> QED BY <1>2, <2>1, <3>1, PlaceStep, SketchCASInv DEF LfInv, AccessedType
  <2>3. ASSUME NEW h \in LfHashes, NEW r \in Rows PROVE Kept(h, r)'
    <3>1. PICK d : d = IF h = g /\ r = k THEN 1 ELSE 0
      OBVIOUS
    <3>2. d \in Nat /\ (d # 0 => AllBits(h, door))
      BY <1>7, <3>1
    <3>3. CountOf(h, r)' >= CountOf(h, r) + d
      <4>1. PICK v, j : v = WordOf(h, r) /\ j = InWord(h, r)
        OBVIOUS
      <4>2. v \in Words /\ j \in 0 .. WordSize - 1 /\ w \in Words /\ i \in 0 .. WordSize - 1
        BY <1>1, <1>4, <1>7, <4>1, CounterPlace
      <4>3. CountOf(h, r) = sketch[r][v][j] /\ CountOf(h, r)' = sketch'[r][v][j]
        BY <4>1 DEF CountOf, WordOf, InWord
      <4>4. CountOf(h, r) \in Int
        BY CountOfType DEF LfInv
      <4>5. \A q \in Rows, u \in Words : DOMAIN sketch[q] = Words /\ DOMAIN sketch[q][u] = 0 .. WordSize - 1
        BY DEF LfInv, SketchInv
      <4>6. sketch'[r][v][j] = sketch[r][v][j] + (IF r = k /\ v = w /\ j = i THEN 1 ELSE 0)
        <5>1. DOMAIN sketch = Rows
          BY DEF LfInv, SketchInv
        <5>2. CASE r = k /\ v = w /\ j = i
          BY <1>4, <2>1, <4>2, <4>5, <5>1, <5>2
        <5>3. CASE ~(r = k /\ v = w /\ j = i)
          <6>1. sketch'[r][v][j] = sketch[r][v][j]
            BY <1>4, <2>1, <4>2, <4>5, <5>1, <5>3
          <6> QED BY <4>3, <4>4, <5>3, <6>1
        <5> QED BY <5>2, <5>3
      <4>7. h = g /\ r = k => v = w /\ j = i
        BY <1>1, <4>1
      <4> QED BY <3>1, <4>3, <4>4, <4>6, <4>7
    <3>4. Owed(s, h, r, door) + 0 - d <= Owed(after, h, r, door)
      <4>1. Left(s, h, r) - d <= Left(after, h, r)
        BY <1>2, <1>4, <1>5, <1>6, <3>1
      <4>2. Left(s, h, r) \in Nat /\ Left(after, h, r) \in Nat
        BY <1>2, <1>4, OwedType
      <4> QED BY <1>4, <1>6, <3>2, <4>1, <4>2 DEF Owed
    <3>5. Owed(thread[t], h, r, doorkeeper) + 0 - d <= Owed(after, h, r, doorkeeper')
      BY <1>1, <1>2, <3>4
    <3>6. Kept(h, r) /\ accessed[h] \in Nat /\ accessed'[h] = accessed[h] + 0
      BY <1>2 DEF AccessInv, AccessedType
    <3>7. /\ doorkeeper \subseteq doorkeeper' /\ Placed(after, doorkeeper')
          /\ d # 0 => AllBits(h, doorkeeper)
      BY <1>1, <1>2, <1>4, <3>2
    <3> QED BY <2>1, <2>2, <3>2, <3>3, <3>5, <3>6, <3>7, AccessStep
  <2> QED BY <2>2, <2>3 DEF AccessInv
<1>9. CASE sketch[k][w] # s.old
  <2>1. PICK next : next = [pc |-> "load", todo |-> s.todo, n |-> s.n, rows |-> s.rows]
    OBVIOUS
  <2>2. Goes(t, next) /\ UNCHANGED sketch
    BY <1>1, <1>9, <2>1 DEF SketchCAS
  <2>3. next.pc = "load" /\ next.todo = s.todo /\ next.rows = s.rows
    BY <2>1
  <2>4. Placed(next, door)
    BY <1>2, <1>7, <2>3 DEF Placed, Counting
  <2>5. ASSUME NEW h, NEW r PROVE Owed(s, h, r, door) <= Owed(next, h, r, door)
    <3>1. ~Trying(next, h)
      BY <2>3 DEF Trying
    <3>2. Left(next, h, r) = Left(s, h, r) /\ Left(s, h, r) \in Nat
      BY <1>2, <2>3, OwedType DEF Left, Ahead, Counting
    <3> QED BY <1>6, <3>1, <3>2 DEF Owed
  <2> QED BY <1>1, <1>2, <2>2, <2>4, <2>5, QuietAccess
<1> QED BY <1>8, <1>9

\* A step between places where nothing is owed.
LEMMA IdleAccess ==
  ASSUME LfInv, CountInv, ~aged, NEW t \in Threads, NEW next, Goes(t, next),
         UNCHANGED <<sketch, doorkeeper, accessed>>,
         thread[t].pc \in {"rest", "count", "claim"}, next.pc \in {"rest", "count", "claim"}
  PROVE  CountInv'
<1>1. PICK s, door : s = thread[t] /\ door = doorkeeper
  OBVIOUS
<1>2. Placed(next, door)
  BY DEF Placed, Counting
<1>3. ASSUME NEW h, NEW r PROVE Owed(s, h, r, door) <= Owed(next, h, r, door)
  <2>1. Left(s, h, r) = 0 /\ Left(next, h, r) = 0 /\ ~Trying(s, h) /\ ~Trying(next, h)
    BY <1>1 DEF Left, Trying, Counting
  <2> QED BY <2>1 DEF Owed
<1> QED BY <1>1, <1>2, <1>3, QuietAccess

\* Nothing is claimed any more once a reset or Clear has begun.
LEMMA AgedAccess ==
  ASSUME CountInv, aged', NEW t \in Threads, LfStep(t)
  PROVE  CountInv'
<1>1. AccessedType'
  <2>1. CASE UNCHANGED accessed
    BY <2>1 DEF CountInv, AccessedType
  <2>2. CASE \E hashes \in Batches : LfCall(t, hashes)
    <3>1. PICK hashes \in Batches : LfCall(t, hashes)
      BY <2>2
    <3>2. \A h \in LfHashes : accessed'[h] = accessed[h] + CountIn(hashes, h)
      BY <3>1 DEF LfCall, CountIn
    <3>3. \A h : CountIn(hashes, h) \in Nat
      BY CountInType, LockFreeAssumption
    <3> QED BY <3>2, <3>3 DEF CountInv, AccessedType
  <2> QED BY <2>1, <2>2
       DEF LfStep, DoorLoad, DoorCAS, DoorDone, SketchLoad, SketchCAS, CountAdd, ClaimReset,
           HalveLoad, HalveCAS, DoorReset, LfClear, ClearWord, ClearDoor, ClearCount
<1> QED BY <1>1 DEF CountInv, PlaceInv, AccessInv

\* Any step of a thread.
LEMMA StepAccess ==
  ASSUME LfInv, CountInv, NEW t \in Threads, LfStep(t)
  PROVE  CountInv'
<1>1. CASE aged'
  BY <1>1, AgedAccess
<1>2. CASE ~aged'
  <2>1. ~aged
    BY <1>2 DEF LfStep, LfCall, DoorLoad, DoorCAS, DoorDone, SketchLoad, SketchCAS, CountAdd,
        ClaimReset, HalveLoad, HalveCAS, DoorReset, LfClear, ClearWord, ClearDoor, ClearCount
  <2>2. /\ ~HalveLoad(t) /\ ~HalveCAS(t) /\ ~DoorReset(t) /\ ~LfClear(t)
        /\ ~ClearWord(t) /\ ~ClearDoor(t) /\ ~ClearCount(t)
    <3>1. thread[t].pc \notin {"halve", "halveCAS", "clear", "clearCount"}
      BY <2>1 DEF CountInv, PlaceInv, Placed
    <3> QED BY <1>2, <3>1 DEF HalveLoad, HalveCAS, DoorReset, LfClear, ClearWord, ClearDoor,
                              ClearCount, At
  <2>3. CASE CountAdd(t)
    <3>1. PICK n : n = increments + thread[t].n
      OBVIOUS
    <3>2. PICK next : next = IF n >= LfResetAt THEN [pc |-> "claim", old |-> n] ELSE Resting
      OBVIOUS
    <3>3. Goes(t, next)
      BY <2>3, <3>1, <3>2 DEF CountAdd
    <3>4. thread[t].pc = "count" /\ UNCHANGED <<sketch, doorkeeper, accessed>>
      BY <2>3 DEF CountAdd, At
    <3>5. next.pc \in {"rest", "count", "claim"}
      BY <3>2 DEF Resting
    <3> QED BY <2>1, <3>3, <3>4, <3>5, IdleAccess
  <2>4. CASE ClaimReset(t)
    <3>1. PICK next : next = Resting
      OBVIOUS
    <3>2. Goes(t, next) /\ thread[t].pc = "claim" /\ UNCHANGED <<sketch, doorkeeper, accessed>>
      BY <1>2, <2>4, <3>1 DEF ClaimReset, At
    <3>3. next.pc \in {"rest", "count", "claim"}
      BY <3>1 DEF Resting
    <3> QED BY <2>1, <3>2, <3>3, IdleAccess
  <2> QED BY <2>1, <2>2, <2>3, <2>4, CallAccess, DoorLoadAccess, DoorCASAccess, DoorDoneAccess,
             SketchLoadAccess, SketchCASAccess DEF LfStep
<1> QED BY <1>1, <1>2

LEMMA InitAccess == LfInit => CountInv
<1> SUFFICES ASSUME LfInit PROVE CountInv
  OBVIOUS
<1>1. /\ \A t \in Threads : thread[t].pc = "rest"
      /\ \A h \in LfHashes : accessed[h] = 0
  BY DEF LfInit, Resting
<1>2. PlaceInv /\ AccessedType
  BY <1>1 DEF PlaceInv, Placed, Counting, AccessedType
<1>3. ASSUME NEW h \in LfHashes, NEW r \in Rows PROVE Kept(h, r)
  <2>1. PICK f, door : f = OwedBy(h, r) /\ door = doorkeeper
    OBVIOUS
  <2>2. CountOf(h, r) \in Nat
    <3>1. SketchInv
      BY InitLf DEF LfInv
    <3>2. CountOf(h, r) \in 0 .. MaxCounter
      BY <3>1, CountOfType
    <3> QED BY <3>2
  <2>3. \A t \in Threads : f[t] \in Nat
    <3> SUFFICES ASSUME NEW t \in Threads PROVE f[t] \in Nat
      OBVIOUS
    <3>1. PICK s : s = thread[t]
      OBVIOUS
    <3>2. s.pc = "rest" /\ f[t] = Owed(s, h, r, door)
      BY <1>1, <2>1, <3>1 DEF OwedBy
    <3>3. Placed(s, door)
      BY <3>2 DEF Placed, Counting
    <3> QED BY <3>2, <3>3, OwedType
  <2>4. SumOver(f, Threads) >= 0
    <3>1. PICK z : z = [t \in Threads |-> 0]
      OBVIOUS
    <3>2. \A t \in Threads : z[t] = 0 /\ z[t] \in Int /\ f[t] \in Int /\ z[t] <= f[t]
      BY <2>3, <3>1
    <3>3. SumOver(z, Threads) = 0
      BY <3>2, SumZero, LockFreeAssumption
    <3>4. SumOver(z, Threads) <= SumOver(f, Threads)
      BY <3>2, SumMonotone, LockFreeAssumption
    <3>5. SumOver(f, Threads) \in Int
      BY <3>2, SumType, LockFreeAssumption
    <3> QED BY <3>3, <3>4, <3>5
  <2>5. SumOver(f, Threads) \in Int
    <3>1. IsFiniteSet(Threads) /\ \A t \in Threads : f[t] \in Int
      BY <2>3, LockFreeAssumption
    <3> QED BY ONLY <3>1, SumType
  <2> QED BY <1>1, <2>1, <2>2, <2>4, <2>5 DEF Kept
<1> QED BY <1>2, <1>3 DEF CountInv, AccessInv

\* CountInv holds however the atomic steps of the threads interleave.
THEOREM AccessInvariant == LfSpec => []CountInv
<1>1. LfInv /\ CountInv /\ [LfNext]_lfVars => CountInv'
  <2>1. ASSUME LfInv, CountInv, LfNext PROVE CountInv'
    <3>1. PICK t \in Threads : LfStep(t)
      BY <2>1 DEF LfNext
    <3> QED BY <2>1, <3>1, StepAccess
  <2>2. CountInv /\ UNCHANGED lfVars => CountInv'
    BY DEF lfVars, CountInv, PlaceInv, AccessInv, AccessedType, Kept, CountOf, OwedBy, WordOf, InWord
  <2> QED BY <2>1, <2>2
<1> QED BY <1>1, InitAccess, LfInvariant, PTL DEF LfSpec

\* What the counters of a hash and the doorkeeper add up to.
LEMMA EstimateBounds ==
  ASSUME NEW h \in LfHashes, SketchInv, NEW n \in Int, \A r \in Rows : CountOf(h, r) >= n
  PROVE  Estimate(h) >= n + (IF AllBits(h, doorkeeper) THEN 1 ELSE 0)
<1>1. PICK T : T = {CountOf(h, r) : r \in Rows}
  OBVIOUS
<1>2. T \in SUBSET Nat /\ T # {} /\ \A m \in T : m >= n
  <2>1. \A r \in Rows : CountOf(h, r) \in Nat
    <3> SUFFICES ASSUME NEW r \in Rows PROVE CountOf(h, r) \in Nat
      OBVIOUS
    <3>1. CountOf(h, r) \in 0 .. MaxCounter
      BY CountOfType
    <3> QED BY <3>1
  <2> QED BY <1>1, <2>1, LockFreeAssumption
<1>3. \E m \in T : \A k \in T : m <= k
  BY <1>2, LeastNumber
<1>4. Min(T) \in T
  BY <1>3 DEF Min
<1>5. Estimate(h) = Min(T) + (IF AllBits(h, doorkeeper) THEN 1 ELSE 0)
  BY <1>1 DEF Estimate, CountOf, AllBits
<1>6. PICK m, one : m = Min(T) /\ one = IF AllBits(h, doorkeeper) THEN 1 ELSE 0
  OBVIOUS
<1>7. m \in Int /\ m >= n /\ one \in Int /\ Estimate(h) = m + one
  <2>1. m \in T
    BY <1>4, <1>6
  <2>2. m \in Nat /\ m >= n
    BY <1>2, <2>1
  <2> QED BY <1>5, <1>6, <2>2
<1>8. m + one >= n + one
  BY <1>7
<1> QED BY <1>6, <1>7, <1>8

\* Until the first reset a hash is estimated at its increments, less one for each
\* thread but one, however the threads raced on its bits and on its words.
THEOREM AccessesCounted == LfSpec => []CountsEveryAccess
<1>1. LfInv /\ CountInv => CountsEveryAccess
  <2> SUFFICES ASSUME LfInv, CountInv, AllRest, ~aged, NEW h \in LfHashes
               PROVE  Estimate(h) >= Min({MaxCounter + 1, accessed[h] - (Cardinality(Threads) - 1)})
    BY DEF CountsEveryAccess
  <2>1. PICK a, n, door, one : /\ a = accessed[h] /\ n = Cardinality(Threads) /\ door = doorkeeper
                               /\ one = IF AllBits(h, door) THEN 1 ELSE 0
    OBVIOUS
  <2>2. /\ a \in Nat /\ n \in Nat \ {0} /\ MaxCounter \in Nat
    <3>1. IsFiniteSet(Threads) /\ Threads # {} /\ MaxCounter \in Nat
      BY LockFreeAssumption
    <3>2. Cardinality(Threads) \in Nat
      BY ONLY <3>1, FS_CardinalityType
    <3>3. Cardinality(Threads) # 0
      BY ONLY <3>1, FS_EmptySet
    <3>4. a \in Nat
      BY <2>1 DEF CountInv, AccessedType
    <3> QED BY <2>1, <3>1, <3>2, <3>3, <3>4
  <2>3. ASSUME NEW r \in Rows PROVE SumOver(OwedBy(h, r), Threads) = one * n
    <3>1. PICK f : f = OwedBy(h, r)
      OBVIOUS
    <3>2. ASSUME NEW t \in Threads PROVE f[t] = one
      <4>1. PICK s : s = thread[t]
        OBVIOUS
      <4>2. s.pc = "rest" /\ f[t] = Owed(s, h, r, door)
        BY <2>1, <3>1, <4>1 DEF OwedBy, AllRest, At
      <4>3. Left(s, h, r) = 0 /\ ~Trying(s, h)
        BY <4>2 DEF Left, Trying, Counting
      <4> QED BY <2>1, <4>2, <4>3 DEF Owed
    <3>3. CASE AllBits(h, door)
      <4>1. \A t \in Threads : f[t] = 1
        BY <2>1, <3>2, <3>3
      <4>2. SumOver(f, Threads) = n
        BY <2>1, <4>1, SumOnes, LockFreeAssumption
      <4> QED BY <2>1, <2>2, <3>1, <3>3, <4>2
    <3>4. CASE ~AllBits(h, door)
      <4>1. \A t \in Threads : f[t] = 0
        BY <2>1, <3>2, <3>4
      <4>2. SumOver(f, Threads) = 0
        BY <4>1, SumZero, LockFreeAssumption
      <4> QED BY <2>1, <2>2, <3>1, <3>4, <4>2
    <3> QED BY <3>3, <3>4
  <2>4. PICK low : low = IF a - (n - 1) <= MaxCounter + 1 THEN a - (n - 1) ELSE MaxCounter + 1
    OBVIOUS
  <2>5. low \in Int
    BY <2>2, <2>4
  <2>6. ASSUME NEW r \in Rows PROVE CountOf(h, r) >= low - one
    <3>1. PICK c : c = CountOf(h, r)
      OBVIOUS
    <3>2. c \in 0 .. MaxCounter
      BY <3>1, CountOfType DEF LfInv
    <3>3. \/ AllBits(h, door) /\ c >= MaxCounter
          \/ a <= (IF AllBits(h, door) THEN c ELSE 0) + one * n
      BY <2>1, <2>3, <3>1 DEF CountInv, AccessInv, Kept
    <3>4. CASE AllBits(h, door)
      <4>1. one = 1 /\ one * n = n
        BY <2>1, <2>2, <3>4
      <4>2. c >= MaxCounter \/ a <= c + n
        BY <3>3, <3>4, <4>1
      <4> QED BY <2>2, <2>4, <3>1, <3>2, <4>1, <4>2
    <3>5. CASE ~AllBits(h, door)
      <4>1. one = 0 /\ one * n = 0
        BY <2>1, <2>2, <3>5
      <4>2. a <= 0
        BY <3>3, <3>5, <4>1
      <4> QED BY <2>2, <2>4, <3>1, <3>2, <4>1, <4>2
    <3> QED BY <3>4, <3>5
  <2>7. Estimate(h) >= low
    <3>1. one \in {0, 1}
      BY <2>1
    <3>2. PICK m : m = low - one
      OBVIOUS
    <3>3. m \in Int /\ \A r \in Rows : CountOf(h, r) >= m
      BY <2>5, <2>6, <3>1, <3>2
    <3>4. Estimate(h) >= m + (IF AllBits(h, doorkeeper) THEN 1 ELSE 0)
      BY <3>3, EstimateBounds DEF LfInv
    <3>5. m + (IF AllBits(h, doorkeeper) THEN 1 ELSE 0) = low
      BY <2>1, <2>5, <3>1, <3>2
    <3> QED BY <3>4, <3>5
  <2>8. Min({MaxCounter + 1, a - (n - 1)}) = low
    <3>1. PICK x, y : x = MaxCounter + 1 /\ y = a - (n - 1)
      OBVIOUS
    <3>2. x \in Int /\ y \in Int /\ low = IF y <= x THEN y ELSE x
      BY <2>2, <2>4, <3>1
    <3>3. \A z : z \in {x, y} /\ (\A v \in {x, y} : z <= v) <=> z = low
      BY <3>2
    <3>4. Min({x, y}) = low
      BY <3>3 DEF Min
    <3> QED BY <3>1, <3>4
  <2> QED BY <2>1, <2>7, <2>8
<1> QED BY <1>1, LfInvariant, AccessInvariant, PTL

-----------------------------------------------------------------------------
(* GCFreeStore.                                                            *)

-----------------------------------------------------------------------------
(* The inductive invariant.                                                *)

GcEntries == [key : GcKeys, keyLen : Nat, valueLen : Nat, exp : Nat]

IsArray(s) == s = [map |-> s.map, data |-> s.data, len |-> s.len, tail |-> s.tail, deleted |-> s.deleted]
EntryOf(s, h) == s.data[s.map[h]]
SizeOf(s, h) == SizeAt(s.data, s.map[h])
SizesIn(s) == [h \in DOMAIN s.map |-> SizeOf(s, h)]
Whole(s, h) == s.map[h] + SizeOf(s, h) <= s.len

\* The entry of h lies below the tail and is of a key with that hash.
EntryInv(s, h) ==
  /\ h \in DOMAIN s.map /\ s.map[h] \in Nat /\ s.map[h] \in DOMAIN s.data
  /\ EntryOf(s, h) \in GcEntries
  /\ EntryOf(s, h).key.hash = h /\ EntryOf(s, h).keyLen = EntryOf(s, h).key.len
  /\ s.map[h] + SizeOf(s, h) <= s.tail

\* The entries of the hashes D, with the deleted ones, fill the array to the
\* tail; what lies whole in the array has room there.
ArrayInv(s, D) ==
  /\ IsArray(s) /\ s.len \in Nat \ {0} /\ s.tail \in Nat /\ s.deleted \in Nat
  /\ IsFiniteSet(D) /\ \A h \in D : EntryInv(s, h)
  /\ s.tail = s.deleted + SumOver(SizesIn(s), D)
  /\ SumOver(SizesIn(s), {h \in D : Whole(s, h)}) <= s.len

\* The entries of the hashes D are what was set last, l; u are those that
\* are lost, o whether a compaction has made too little room.
HistoryInv(s, D, l, u, o) ==
  /\ \A h \in D : h \in DOMAIN l /\ l[h] = EntryOf(s, h) /\ (h \in u <=> ~Whole(s, h))
  /\ \A h \in DOMAIN l \ D : h \in u
  /\ u \subseteq DOMAIN l
  /\ ~o => s.tail <= s.len /\ \A h \in u : l[h].key.len = 0

\* Both, of the hashes that are in the map of array s.
ShardInv(s, l, u, o) == ArrayInv(s, DOMAIN s.map) /\ HistoryInv(s, DOMAIN s.map, l, u, o)

\* Len is that of the map, but for the calls that are late with it, once every
\* Clear has stored its zero and none stored it over another call.
CountInTime == leaks = 0 /\ clears = 0 /\ ~miscounted => gcSize = Cardinality(DOMAIN hashmap) + deletes

CountTypes == leaks \in Nat /\ deletes \in Nat /\ clears \in Nat /\ gcSize \in Int

GcInv ==
  /\ panicked \in BOOLEAN /\ overflowed \in BOOLEAN
  /\ panicked => overflowed
  /\ ~panicked => /\ ShardInv(Array, latest, unfit, overflowed)
                  /\ CountTypes /\ CountInTime

\* A sum over fewer elements is no greater, if none is negative.
LEMMA SumSubset ==
  ASSUME NEW S, IsFiniteSet(S), NEW f, \A x \in S : f[x] \in Nat, NEW R \in SUBSET S
  PROVE  SumOver(f, R) <= SumOver(f, S) /\ SumOver(f, S) \in Nat
<1> DEFINE Q == {t \in SUBSET S : SumOver(f, t) \in Nat /\ \A r \in SUBSET t : SumOver(f, r) <= SumOver(f, t)}
<1>0. \A t \in SUBSET S : IsFiniteSet(t) /\ \A x \in t : f[x] \in Int /\ f[x] >= 0
  BY FS_Subset
<1>1. ASSUME NEW t \in SUBSET S, \A x \in t : \A r \in SUBSET (t \ {x}) : r \in Q
      PROVE  t \in Q
  <2>1. SumOver(f, t) \in Int
    BY <1>0, SumType
  <2>2. ASSUME NEW x \in t
        PROVE  /\ SumOver(f, t) = SumOver(f, t \ {x}) + f[x] /\ f[x] \in Nat
               /\ SumOver(f, t \ {x}) \in Nat
               /\ \A r \in SUBSET (t \ {x}) : SumOver(f, r) <= SumOver(f, t \ {x}) /\ SumOver(f, r) \in Nat
    <3>0. PICK W : W = t \ {x}
      OBVIOUS
    <3>1. SumOver(f, W) = SumOver(f, t) - f[x]
      BY <1>0, <3>0, SumDelete
    <3>2. W \in Q /\ f[x] \in Nat
      BY <1>1, <2>2, <3>0
    <3>3. \A r \in SUBSET W : r \in Q
      BY <1>1, <2>2, <3>0
    <3>4. SumOver(f, W) \in Nat /\ \A r \in SUBSET W : SumOver(f, r) <= SumOver(f, W) /\ SumOver(f, r) \in Nat
      BY <3>2, <3>3
    <3>5. SumOver(f, t) = SumOver(f, W) + f[x]
      BY <2>1, <3>1, <3>2, <3>4
    <3> QED BY <3>0, <3>2, <3>4, <3>5
  <2>3. SumOver(f, t) \in Nat
    <3>1. CASE t = {}
      <4>1. SumOver(f, t) = 0
        BY <1>0, <3>1, SumType
      <4> QED BY <4>1
    <3>2. CASE t # {}
      <4>1. PICK x : x \in t
        BY <3>2
      <4>2. PICK W : W = t \ {x}
        OBVIOUS
      <4>3. SumOver(f, t) = SumOver(f, W) + f[x] /\ f[x] \in Nat /\ SumOver(f, W) \in Nat
        BY <2>2, <4>1, <4>2
      <4> QED BY <4>3
    <3> QED BY <3>1, <3>2
  <2>4. ASSUME NEW r \in SUBSET t PROVE SumOver(f, r) <= SumOver(f, t)
    <3>1. CASE r = t
      BY <2>3, <3>1
    <3>2. CASE r # t
      <4>1. PICK x \in t : x \notin r
        BY <3>2
      <4>2. r \in SUBSET (t \ {x})
        BY <4>1
      <4>3. PICK W : W = t \ {x}
        OBVIOUS
      <4>4. SumOver(f, t) = SumOver(f, W) + f[x] /\ f[x] \in Nat /\ SumOver(f, W) \in Nat
        BY <2>2, <4>1, <4>3
      <4>5. SumOver(f, r) <= SumOver(f, W) /\ SumOver(f, r) \in Nat
        BY <2>2, <4>1, <4>2, <4>3
      <4> QED BY <4>4, <4>5
    <3> QED BY <3>1, <3>2
  <2> QED BY <2>3, <2>4
<1>2. \A t \in SUBSET S : t \in Q
  <2> HIDE DEF Q
  <2> QED BY <1>1, SubsetInduction
<1> QED BY <1>2

\* Sizes are numbers greater than 0.
LEMMA EntrySizes ==
  ASSUME NEW s, NEW D, \A h \in D : EntryInv(s, h)
  PROVE  \A h \in D : /\ SizeOf(s, h) \in Nat /\ SizeOf(s, h) > 0
                      /\ SizesIn(s)[h] = SizeOf(s, h) /\ s.map[h] \in Nat
<1> SUFFICES ASSUME NEW h \in D PROVE SizeOf(s, h) \in Nat /\ SizeOf(s, h) > 0
  BY DEF SizesIn, EntryInv
<1>1. EntryOf(s, h) \in GcEntries
  BY DEF EntryInv
<1> QED BY <1>1, GcAssumption DEF SizeOf, SizeAt, EntryOf, EntrySize, GcEntries

\* As long as the entries stay what they are, so do their sizes and the sums.
LEMMA SameSizes ==
  ASSUME NEW s, NEW t, NEW D, IsFiniteSet(D), \A h \in D : EntryInv(s, h),
         \A h \in D : h \in DOMAIN t.map /\ EntryOf(t, h) = EntryOf(s, h)
  PROVE  /\ \A h \in D : SizeOf(t, h) = SizeOf(s, h)
         /\ \A R \in SUBSET D : SumOver(SizesIn(t), R) = SumOver(SizesIn(s), R)
<1>1. \A h \in D : SizeOf(t, h) = SizeOf(s, h)
  BY DEF SizeOf, SizeAt, EntryOf
<1>2. PICK f, e : f = SizesIn(s) /\ e = SizesIn(t)
  OBVIOUS
<1>3. \A h \in D : f[h] \in Int /\ f[h] = e[h]
  <2>1. \A h \in D : f[h] = SizeOf(s, h) /\ f[h] \in Int
    BY <1>2, EntrySizes
  <2>2. \A h \in D : e[h] = SizeOf(t, h)
    BY <1>2 DEF SizesIn
  <2> QED BY <1>1, <2>1, <2>2
<1>4. ASSUME NEW R \in SUBSET D PROVE SumOver(e, R) = SumOver(f, R)
  <2>1. IsFiniteSet(R)
    BY FS_Subset
  <2> QED BY <1>3, <2>1, SumCongruence
<1> QED BY <1>1, <1>2, <1>4

\* The entries that an array holds whole have room in it, if all of them do.
LEMMA WholeFits ==
  ASSUME NEW s, NEW D, IsFiniteSet(D), \A h \in D : EntryInv(s, h), s.len \in Nat, s.tail \in Nat,
         s.deleted \in Nat, s.tail = s.deleted + SumOver(SizesIn(s), D), s.tail <= s.len
  PROVE  SumOver(SizesIn(s), {h \in D : Whole(s, h)}) <= s.len
<1>1. PICK f, R : f = SizesIn(s) /\ R = {h \in D : Whole(s, h)}
  OBVIOUS
<1>2. \A h \in D : f[h] \in Nat
  BY <1>1, EntrySizes
<1>3. SumOver(f, R) <= SumOver(f, D) /\ SumOver(f, D) \in Nat
  BY <1>1, <1>2, SumSubset
<1>4. SumOver(f, R) \in Int
  <2>1. IsFiniteSet(R) /\ \A h \in R : f[h] \in Int
    BY <1>1, <1>2, FS_Subset
  <2> QED BY <2>1, SumType
<1> QED BY <1>1, <1>3, <1>4

-----------------------------------------------------------------------------
(* What the operations do to the array.                                    *)

\* Entries that stay in place, in an array as long and as full as before.
LEMMA KeepArray ==
  ASSUME NEW s, NEW D, ArrayInv(s, D), NEW t, IsArray(t), t.tail = s.tail, t.len = s.len,
         NEW C \in SUBSET D,
         \A h \in C : /\ h \in DOMAIN t.map /\ t.map[h] = s.map[h]
                      /\ s.map[h] \in DOMAIN t.data /\ t.data[s.map[h]] = s.data[s.map[h]],
         t.deleted \in Nat, t.tail = t.deleted + SumOver(SizesIn(s), C)
  PROVE  /\ ArrayInv(t, C)
         /\ \A h \in C : EntryOf(t, h) = EntryOf(s, h) /\ (Whole(t, h) <=> Whole(s, h))
<1>1. IsFiniteSet(D) /\ IsFiniteSet(C) /\ \A h \in C : EntryInv(s, h)
  BY FS_Subset DEF ArrayInv
<1>2. \A h \in C : h \in DOMAIN t.map /\ EntryOf(t, h) = EntryOf(s, h) /\ t.map[h] = s.map[h]
  BY DEF EntryOf
<1>3. /\ \A h \in C : SizeOf(t, h) = SizeOf(s, h)
      /\ \A R \in SUBSET C : SumOver(SizesIn(t), R) = SumOver(SizesIn(s), R)
  BY <1>1, <1>2, SameSizes
<1>4. \A h \in C : EntryInv(t, h)
  BY <1>1, <1>2, <1>3 DEF EntryInv
<1>5. \A h \in C : Whole(t, h) <=> Whole(s, h)
  BY <1>2, <1>3 DEF Whole
<1>6. PICK R, Q : R = {h \in C : Whole(t, h)} /\ Q = {h \in D : Whole(s, h)}
  OBVIOUS
<1>7. SumOver(SizesIn(s), R) <= SumOver(SizesIn(s), Q)
  <2>0. Q \in SUBSET D /\ R \in SUBSET Q
    BY <1>5, <1>6
  <2>1. IsFiniteSet(Q)
    BY <1>1, <2>0, FS_Subset
  <2>2. \A h \in Q : SizesIn(s)[h] \in Nat
    BY <2>0, EntrySizes DEF ArrayInv
  <2> QED BY <2>0, <2>1, <2>2, SumSubset
<1>8. SumOver(SizesIn(t), R) = SumOver(SizesIn(s), R) /\ SumOver(SizesIn(t), C) = SumOver(SizesIn(s), C)
  BY <1>3, <1>6
<1>9. SumOver(SizesIn(s), Q) <= s.len /\ s.len \in Nat \ {0} /\ s.tail \in Nat
  BY <1>6 DEF ArrayInv
<1>10. SumOver(SizesIn(s), R) \in Int /\ SumOver(SizesIn(s), Q) \in Int
  <2>1. IsFiniteSet(Q) /\ IsFiniteSet(R) /\ R \subseteq D /\ Q \subseteq D
    BY <1>1, <1>6, FS_Subset
  <2>2. \A h \in D : SizesIn(s)[h] \in Int
    BY EntrySizes DEF ArrayInv
  <2> QED BY <2>1, <2>2, SumType
<1>11. SumOver(SizesIn(t), {h \in C : Whole(t, h)}) <= t.len
  BY <1>6, <1>7, <1>8, <1>9, <1>10
<1>12. t.len \in Nat \ {0} /\ t.tail \in Nat /\ t.tail = t.deleted + SumOver(SizesIn(t), C)
  BY <1>8, <1>9
<1> QED BY <1>1, <1>2, <1>4, <1>5, <1>11, <1>12 DEF ArrayInv

\* An entry is marked as deleted and counted as such.
LEMMA MarkArray ==
  ASSUME NEW s, NEW D, ArrayInv(s, D), NEW h \in D, NEW t, IsArray(t), t.tail = s.tail, t.len = s.len,
         t.deleted = s.deleted + SizeOf(s, h), t.data = Marked(s.data, s.map[h]),
         \A g \in D \ {h} : g \in DOMAIN t.map /\ t.map[g] = s.map[g]
  PROVE  /\ ArrayInv(t, D \ {h})
         /\ \A g \in D \ {h} : EntryOf(t, g) = EntryOf(s, g) /\ (Whole(t, g) <=> Whole(s, g))
<1>1. \A g \in D : EntryInv(s, g)
  BY DEF ArrayInv
<1>2. ASSUME NEW g \in D \ {h}
      PROVE  s.map[g] # s.map[h] /\ s.map[g] \in DOMAIN t.data /\ t.data[s.map[g]] = s.data[s.map[g]]
  <2>1. EntryOf(s, g).key.hash = g /\ EntryOf(s, h).key.hash = h /\ s.map[g] \in DOMAIN s.data
    BY <1>1 DEF EntryInv
  <2>2. s.map[g] # s.map[h]
    BY <1>2, <2>1 DEF EntryOf
  <2> QED BY <2>1, <2>2 DEF Marked
<1>3. IsFiniteSet(D) /\ \A g \in D : SizesIn(s)[g] \in Int /\ SizesIn(s)[g] = SizeOf(s, g)
  <2>1. IsFiniteSet(D)
    BY DEF ArrayInv
  <2>2. \A g \in D : SizeOf(s, g) \in Nat /\ SizesIn(s)[g] = SizeOf(s, g)
    BY <1>1, EntrySizes
  <2> QED BY <2>1, <2>2
<1>4. SumOver(SizesIn(s), D \ {h}) = SumOver(SizesIn(s), D) - SizeOf(s, h)
  <2>1. PICK f : f = SizesIn(s)
    OBVIOUS
  <2>2. SumOver(f, D \ {h}) = SumOver(f, D) - f[h]
    BY <1>3, <2>1, SumDelete
  <2> QED BY <1>3, <2>1, <2>2
<1>5. SumOver(SizesIn(s), D) \in Int /\ SizeOf(s, h) \in Nat
  <2>1. SumOver(SizesIn(s), D) \in Int
    BY <1>3, SumType
  <2> QED BY <1>1, <2>1, EntrySizes
<1>6. s.tail = s.deleted + SumOver(SizesIn(s), D) /\ s.deleted \in Nat
  BY DEF ArrayInv
<1>7. t.deleted \in Nat /\ t.tail = t.deleted + SumOver(SizesIn(s), D \ {h})
  BY <1>4, <1>5, <1>6
<1>8. D \ {h} \in SUBSET D
  OBVIOUS
<1> QED BY <1>2, <1>7, <1>8, KeepArray

\* Set counts the old entry of its hash as deleted.
LEMMA ReplaceArray ==
  ASSUME NEW s, ArrayInv(s, DOMAIN s.map), NEW h, NEW t, t = Replace(s, h)
  PROVE  /\ t.map = s.map /\ t.len = s.len /\ t.tail = s.tail
         /\ ArrayInv(t, DOMAIN s.map \ {h})
         /\ \A g \in DOMAIN s.map \ {h} : EntryOf(t, g) = EntryOf(s, g) /\ (Whole(t, g) <=> Whole(s, g))
         /\ h \in DOMAIN s.map => EntryOf(t, h).keyLen = 0
<1>0. IsArray(s)
  BY DEF ArrayInv
<1>1. CASE h \notin DOMAIN s.map
  <2>1. t = s /\ DOMAIN s.map \ {h} = DOMAIN s.map
    BY <1>1 DEF Replace
  <2> QED BY <1>1, <2>1
<1>2. CASE h \in DOMAIN s.map
  <2>1. t = [s EXCEPT !.deleted = s.deleted + SizeOf(s, h), !.data = Marked(s.data, s.map[h])]
    BY <1>2 DEF Replace, SizeOf
  <2>2. /\ IsArray(t) /\ t.map = s.map /\ t.len = s.len /\ t.tail = s.tail
        /\ t.deleted = s.deleted + SizeOf(s, h) /\ t.data = Marked(s.data, s.map[h])
    BY <1>0, <2>1 DEF IsArray
  <2>3. EntryOf(t, h).keyLen = 0
    <3>1. EntryInv(s, h)
      BY <1>2 DEF ArrayInv
    <3>2. s.map[h] \in DOMAIN s.data /\ s.data[s.map[h]] \in GcEntries
      BY <3>1 DEF EntryInv, EntryOf
    <3> QED BY <2>2, <3>2 DEF EntryOf, Marked, GcEntries
  <2>4. \A g \in DOMAIN s.map \ {h} : g \in DOMAIN t.map /\ t.map[g] = s.map[g]
    BY <2>2
  <2> QED BY <1>2, <2>2, <2>3, <2>4, MarkArray
<1> QED BY <1>1, <1>2

\* An array of which no more is used becomes longer.
LEMMA LongerArray ==
  ASSUME NEW s, NEW D, ArrayInv(s, D), s.tail <= s.len, NEW n \in Nat, n >= s.len,
         NEW t, t = [s EXCEPT !.len = n]
  PROVE  /\ t.map = s.map /\ t.len = n /\ t.tail = s.tail /\ ArrayInv(t, D)
         /\ \A h \in D : EntryOf(t, h) = EntryOf(s, h) /\ Whole(t, h) /\ Whole(s, h)
<1>1. /\ IsArray(s) /\ s.len \in Nat \ {0} /\ s.tail \in Nat /\ s.deleted \in Nat
      /\ IsFiniteSet(D) /\ \A h \in D : EntryInv(s, h)
      /\ s.tail = s.deleted + SumOver(SizesIn(s), D)
  BY DEF ArrayInv
<1>2. /\ IsArray(t) /\ t.map = s.map /\ t.data = s.data /\ t.len = n /\ t.tail = s.tail
      /\ t.deleted = s.deleted
  BY <1>1 DEF IsArray
<1>3. SizesIn(t) = SizesIn(s)
  BY <1>2 DEF SizesIn, SizeOf
<1>4. \A h \in D : EntryInv(t, h) /\ EntryOf(t, h) = EntryOf(s, h) /\ SizeOf(t, h) = SizeOf(s, h)
  BY <1>1, <1>2 DEF EntryInv, EntryOf, SizeOf
<1>5. t.len \in Nat \ {0} /\ t.tail <= t.len
  BY <1>1, <1>2
<1>6. SumOver(SizesIn(t), {h \in D : Whole(t, h)}) <= t.len
  BY <1>1, <1>2, <1>3, <1>4, <1>5, WholeFits
<1>7. \A h \in D : Whole(t, h) /\ Whole(s, h)
  <2> SUFFICES ASSUME NEW h \in D PROVE Whole(t, h) /\ Whole(s, h)
    OBVIOUS
  <2>1. SizeOf(s, h) \in Nat /\ s.map[h] \in Nat /\ s.map[h] + SizeOf(s, h) <= s.tail
    BY <1>1, EntrySizes DEF EntryInv
  <2> QED BY <1>1, <1>2, <1>4, <2>1 DEF Whole
<1> QED BY <1>1, <1>2, <1>3, <1>4, <1>5, <1>6, <1>7 DEF ArrayInv

\* The sizes that grow tries, one after the other.
Doubling(g, len, want, k) ==
  g = [i \in 0 .. k |-> IF i = 0 THEN 2 * len
                        ELSE IF g[i - 1] < want THEN 2 * g[i - 1] ELSE g[i - 1]]

\* They exist.
LEMMA DoublingExists ==
  ASSUME NEW len \in Nat, NEW want \in Nat, NEW k \in Nat
  PROVE  \E g : Doubling(g, len, want, k)
<1> DEFINE Step(g) == [i \in 0 .. k |-> IF i = 0 THEN 2 * len
                                        ELSE IF g[i - 1] < want THEN 2 * g[i - 1] ELSE g[i - 1]]
           Partial(n) == \E g \in [0 .. k -> Nat] : \A i \in 0 .. k : i <= n => g[i] = Step(g)[i]
           Missing == {n \in Nat : ~Partial(n)}
<1>1. Partial(0)
  <2> DEFINE g == [i \in 0 .. k |-> 2 * len]
  <2>1. g \in [0 .. k -> Nat]
    OBVIOUS
  <2>2. \A i \in 0 .. k : i <= 0 => g[i] = Step(g)[i]
    OBVIOUS
  <2> QED BY <2>1, <2>2
<1>2. ASSUME NEW n \in Nat, Partial(n) PROVE Partial(n + 1)
  <2>1. PICK g \in [0 .. k -> Nat] : \A i \in 0 .. k : i <= n => g[i] = Step(g)[i]
    BY <1>2
  <2> DEFINE h == Step(g)
  <2>2. h \in [0 .. k -> Nat]
    <3> SUFFICES ASSUME NEW i \in 0 .. k PROVE h[i] \in Nat
      OBVIOUS
    <3>1. CASE i = 0
      BY <3>1
    <3>2. CASE i # 0
      <4>1. i - 1 \in 0 .. k
        BY <3>2
      <4>2. g[i - 1] \in Nat
        BY <4>1
      <4> QED BY <3>2, <4>2
    <3> QED BY <3>1, <3>2
  <2>3. ASSUME NEW i \in 0 .. k, i <= n + 1 PROVE h[i] = Step(h)[i]
    <3>1. CASE i = 0
      BY <3>1
    <3>2. CASE i # 0
      <4>1. i - 1 \in 0 .. k /\ i - 1 <= n
        BY <2>3, <3>2
      <4>2. g[i - 1] = h[i - 1]
        BY <2>1, <4>1
      <4> QED BY <3>2, <4>2
    <3> QED BY <3>1, <3>2
  <2> QED BY <2>2, <2>3
<1>3. Missing = {}
  <2> SUFFICES ASSUME Missing # {} PROVE FALSE
    OBVIOUS
  <2>1. Missing \in SUBSET Nat
    OBVIOUS
  <2>2. PICK n \in Missing : \A m \in Missing : n <= m
    BY <2>1, LeastNumber
  <2>3. n \in Nat /\ ~Partial(n)
    BY <2>2
  <2> HIDE DEF Partial
  <2>4. n # 0
    BY <1>1, <2>3
  <2>5. n - 1 \in Nat /\ n - 1 \notin Missing
    BY <2>2, <2>3, <2>4
  <2>6. Partial(n - 1)
    BY <2>5
  <2> QED BY <1>2, <2>3, <2>5, <2>6
<1>4. Partial(k)
  <2> HIDE DEF Partial
  <2> QED BY <1>3
<1>5. PICK g \in [0 .. k -> Nat] : \A i \in 0 .. k : g[i] = Step(g)[i]
  <2>1. \A i \in 0 .. k : i <= k
    OBVIOUS
  <2> HIDE DEF Step
  <2> QED BY <1>4, <2>1
<1>6. g = Step(g)
  BY <1>5
<1> QED BY <1>6 DEF Doubling

\* Each is a number, no smaller than the last, and more unless it is enough.
LEMMA DoublingGrows ==
  ASSUME NEW len \in Nat \ {0}, NEW want \in Nat, NEW k \in Nat, NEW g, Doubling(g, len, want, k)
  PROVE  \A i \in 0 .. k : g[i] \in Nat /\ g[i] >= len /\ (g[i] >= want \/ g[i] >= len + i)
<1> DEFINE Good(i) == g[i] \in Nat /\ g[i] >= len /\ (g[i] >= want \/ g[i] >= len + i)
           Bad == {i \in 0 .. k : ~Good(i)}
<1>1. g[0] = 2 * len
  BY DEF Doubling
<1>2. \A i \in 1 .. k : g[i] = IF g[i - 1] < want THEN 2 * g[i - 1] ELSE g[i - 1]
  BY DEF Doubling
<1>3. SUFFICES Bad = {}
  OBVIOUS
<1>4. SUFFICES ASSUME Bad # {} PROVE FALSE
  OBVIOUS
<1>5. PICK i \in Bad : \A j \in Bad : i <= j
  <2>1. Bad \in SUBSET Nat
    OBVIOUS
  <2> HIDE DEF Bad
  <2> QED BY <1>4, <2>1, LeastNumber
<1>6. i \in 0 .. k /\ ~Good(i)
  BY <1>5
<1>7. i # 0
  BY <1>1, <1>6
<1>8. i - 1 \in 0 .. k /\ Good(i - 1) /\ i \in 1 .. k
  BY <1>5, <1>6, <1>7
<1> QED BY <1>2, <1>6, <1>8

\* grow makes the array long enough.
LEMMA GrowArray ==
  ASSUME NEW s, NEW D, ArrayInv(s, D), s.tail <= s.len, NEW n \in Nat, NEW t, t = GrownArray(s, n)
  PROVE  /\ t.map = s.map /\ t.tail = s.tail /\ ArrayInv(t, D) /\ Fits(t, n) /\ t.tail <= t.len
         /\ \A h \in D : EntryOf(t, h) = EntryOf(s, h) /\ Whole(t, h) /\ Whole(s, h)
<1>1. s.len \in Nat \ {0} /\ s.tail \in Nat /\ s.tail + n \in Nat
  BY DEF ArrayInv
<1> DEFINE g == CHOOSE g : Doubling(g, s.len, s.tail + n, n)
<1>2. Doubling(g, s.len, s.tail + n, n)
  <2> HIDE DEF Doubling
  <2> QED BY <1>1, DoublingExists
<1>3. t = [s EXCEPT !.len = g[n]]
  BY DEF GrownArray, Doubling
<1> HIDE DEF g
<1>4. g[n] \in Nat /\ g[n] >= s.len /\ g[n] >= s.tail + n
  BY <1>1, <1>2, DoublingGrows
<1>5. /\ t.map = s.map /\ t.len = g[n] /\ t.tail = s.tail /\ ArrayInv(t, D)
      /\ \A h \in D : EntryOf(t, h) = EntryOf(s, h) /\ Whole(t, h) /\ Whole(s, h)
  BY <1>3, <1>4, LongerArray
<1> QED BY <1>1, <1>4, <1>5 DEF Fits

\* An entry of n bytes for hash h.
EntryFor(e, h, n) ==
  /\ e \in GcEntries /\ e.key.hash = h /\ e.keyLen = e.key.len
  /\ n = EntrySize(e.keyLen, e.valueLen)

\* An entry is put behind the others.
Behind(s, h, e) ==
  [s EXCEPT !.map = GcWith(@, h, s.tail), !.data = GcWith(@, s.tail, e),
            !.tail = @ + EntrySize(e.keyLen, e.valueLen)]

IsBehind(t, s, h, e) == t = Behind(s, h, e)

\* E are the hashes D and one that is not in D, h.
Adds(E, D, h) == h \notin D /\ E = D \cup {h}

\* An entry appended behind the tail leaves the others where they are.
LEMMA AppendArray ==
  ASSUME NEW s, NEW D, ArrayInv(s, D), NEW h, NEW e, NEW n, EntryFor(e, h, n),
         NEW E, Adds(E, D, h), NEW t, IsBehind(t, s, h, e)
  PROVE  /\ DOMAIN t.map = DOMAIN s.map \cup {h} /\ t.len = s.len /\ t.deleted = s.deleted
         /\ t.tail = s.tail + n
         /\ ArrayInv(t, E)
         /\ \A g \in D : EntryOf(t, g) = EntryOf(s, g) /\ (Whole(t, g) <=> Whole(s, g))
         /\ EntryOf(t, h) = e
         /\ Whole(t, h) <=> Fits(s, n)
<1>1. /\ IsArray(s) /\ s.len \in Nat \ {0} /\ s.tail \in Nat /\ s.deleted \in Nat
      /\ IsFiniteSet(D) /\ \A g \in D : EntryInv(s, g)
      /\ s.tail = s.deleted + SumOver(SizesIn(s), D)
      /\ SumOver(SizesIn(s), {g \in D : Whole(s, g)}) <= s.len
  BY DEF ArrayInv
<1>0. h \notin D /\ E = D \cup {h}
  BY DEF Adds
<1>2. e \in GcEntries /\ e.key.hash = h /\ e.keyLen = e.key.len /\ n = EntrySize(e.keyLen, e.valueLen)
  BY DEF EntryFor
<1>3. n \in Nat /\ n > 0
  BY <1>2, GcAssumption DEF EntrySize, GcEntries
<1>4. /\ IsArray(t) /\ t.map = GcWith(s.map, h, s.tail) /\ t.data = GcWith(s.data, s.tail, e)
      /\ t.len = s.len /\ t.deleted = s.deleted /\ t.tail = s.tail + n
  <2>1. t = Behind(s, h, e)
    BY DEF IsBehind
  <2> QED BY <1>1, <1>2, <2>1 DEF IsArray, Behind
<1>5. DOMAIN t.map = DOMAIN s.map \cup {h} /\ t.map[h] = s.tail /\ t.data[s.tail] = e /\ s.tail \in DOMAIN t.data
  BY <1>4 DEF GcWith
<1>6. ASSUME NEW g \in D
      PROVE  /\ g \in DOMAIN t.map /\ t.map[g] = s.map[g] /\ EntryOf(t, g) = EntryOf(s, g)
             /\ s.map[g] \in DOMAIN t.data
  <2>1. /\ g \in DOMAIN s.map /\ s.map[g] \in Nat /\ s.map[g] \in DOMAIN s.data
        /\ s.map[g] + SizeOf(s, g) <= s.tail
    BY <1>1 DEF EntryInv
  <2>2. SizeOf(s, g) \in Nat /\ SizeOf(s, g) > 0
    BY <1>1, EntrySizes
  <2>3. s.map[g] # s.tail
    BY <1>1, <2>1, <2>2
  <2>4. t.map[g] = s.map[g] /\ g \in DOMAIN t.map
    BY <1>0, <1>4, <2>1 DEF GcWith
  <2>5. t.data[s.map[g]] = s.data[s.map[g]] /\ s.map[g] \in DOMAIN t.data
    BY <1>4, <2>1, <2>3 DEF GcWith
  <2> QED BY <2>4, <2>5 DEF EntryOf
<1>7. /\ \A g \in D : SizeOf(t, g) = SizeOf(s, g)
      /\ \A R \in SUBSET D : SumOver(SizesIn(t), R) = SumOver(SizesIn(s), R)
  BY <1>1, <1>6, SameSizes
<1>8. EntryOf(t, h) = e /\ SizeOf(t, h) = n
  BY <1>2, <1>5 DEF EntryOf, SizeOf, SizeAt
<1>9. ASSUME NEW g \in E PROVE EntryInv(t, g)
  <2>1. CASE g = h
    BY <1>1, <1>2, <1>3, <1>4, <1>5, <1>8, <2>1 DEF EntryInv
  <2>2. CASE g \in D
    <3>1. EntryInv(s, g) /\ SizeOf(s, g) \in Nat
      BY <1>1, <2>2, EntrySizes
    <3>2. s.map[g] + SizeOf(s, g) <= t.tail
      BY <1>1, <1>3, <1>4, <3>1 DEF EntryInv
    <3> QED BY <1>6, <1>7, <2>2, <3>1, <3>2 DEF EntryInv
  <2> QED BY <1>0, <2>1, <2>2
<1>10. \A g \in D : Whole(t, g) <=> Whole(s, g)
  BY <1>4, <1>6, <1>7 DEF Whole
<1>11. Whole(t, h) <=> Fits(s, n)
  BY <1>4, <1>5, <1>8 DEF Whole, Fits
<1>12. PICK f : f = SizesIn(t)
  OBVIOUS
<1>13. IsFiniteSet(E) /\ \A g \in E : f[g] \in Int /\ f[g] = SizeOf(t, g)
  <2>1. IsFiniteSet(E)
    BY <1>0, <1>1, FS_AddElement
  <2>2. \A g \in E : SizeOf(t, g) \in Nat /\ SizesIn(t)[g] = SizeOf(t, g)
    BY <1>9, EntrySizes
  <2> QED BY <1>12, <2>1, <2>2
<1>14. SumOver(f, E) = SumOver(f, D) + n
  <2>1. IsFiniteSet(D) /\ h \notin D /\ \A g \in D \cup {h} : f[g] \in Int
    BY <1>0, <1>1, <1>13
  <2>2. SumOver(f, D \cup {h}) = SumOver(f, D) + f[h]
    BY <2>1, SumInsert
  <2> QED BY <1>0, <1>8, <1>13, <2>2
<1>15. SumOver(f, D) = SumOver(SizesIn(s), D) /\ SumOver(f, D) \in Int
  <2>1. SumOver(f, D) \in Int
    BY <1>0, <1>1, <1>13, SumType
  <2> QED BY <1>7, <1>12, <2>1
<1>16. t.tail \in Nat /\ t.tail = t.deleted + SumOver(f, E)
  BY <1>1, <1>3, <1>4, <1>14, <1>15
<1>17. SumOver(SizesIn(t), {g \in E : Whole(t, g)}) <= t.len
  <2>1. CASE t.tail <= t.len
    <3>1. IsFiniteSet(E) /\ t.len \in Nat /\ t.deleted \in Nat
      BY <1>1, <1>4, <1>13
    <3> QED BY <1>9, <1>12, <1>16, <2>1, <3>1, WholeFits
  <2>2. CASE t.tail > t.len
    <3>1. ~Whole(t, h)
      BY <1>1, <1>3, <1>4, <1>11, <2>2 DEF Fits
    <3>2. {g \in E : Whole(t, g)} = {g \in D : Whole(s, g)}
      BY <1>0, <1>10, <3>1
    <3> QED BY <1>1, <1>4, <1>7, <3>2
  <2> QED BY <1>1, <1>4, <1>16, <2>1, <2>2
<1>18. ArrayInv(t, E)
  BY <1>1, <1>4, <1>9, <1>12, <1>13, <1>16, <1>17 DEF ArrayInv
<1> QED BY <1>2, <1>4, <1>5, <1>6, <1>8, <1>10, <1>11, <1>18

-----------------------------------------------------------------------------
(* Compaction: a fold over the hashes in any order.                        *)
EmptyArray(len) == [map |-> <<>>, data |-> <<>>, len |-> len, tail |-> 0, deleted |-> 0]
Copied(s, q) == FoldLeft(LAMBDA t, h : CopyEntry(s, t, h), EmptyArray(s.len), q)

\* g is the recursive function of that fold.
CopyOf(g, s, q) ==
  g = [r \in SUBSET DOMAIN q |-> IF r = {} THEN EmptyArray(s.len)
                                 ELSE CopyEntry(s, g[r \ {Max(r)}], q[Max(r)])]

\* The greatest of some numbers.
LEMMA MaxOf ==
  ASSUME NEW n \in Nat
  PROVE  /\ \A r \in SUBSET (1 .. n) : r # {} => Max(r) \in r
         /\ n > 0 => Max(1 .. n) = n
<1>1. ASSUME NEW r \in SUBSET (1 .. n), r # {} PROVE Max(r) \in r
  <2>1. r \in SUBSET Nat /\ \A m \in r : m <= n
    OBVIOUS
  <2>2. \E g \in r : \A m \in r : g >= m
    BY <1>1, <2>1, GreatestNumber
  <2> QED BY <2>2 DEF Max
<1>2. ASSUME n > 0 PROVE Max(1 .. n) = n
  <2>1. n \in 1 .. n /\ \A y \in 1 .. n : n >= y
    BY <1>2
  <2>2. \A x \in 1 .. n : (\A y \in 1 .. n : x >= y) => x = n
    BY <2>1
  <2> QED BY <2>1, <2>2 DEF Max
<1> QED BY <1>1, <1>2

\* The recursive function exists.
LEMMA CopyExists ==
  ASSUME NEW s, NEW q, NEW n \in Nat, DOMAIN q = 1 .. n
  PROVE  \E g : CopyOf(g, s, q)
<1>0. PICK S : S = 1 .. n
  OBVIOUS
<1> DEFINE Next(g) == [r \in SUBSET S |-> IF r = {} THEN EmptyArray(s.len)
                                          ELSE CopyEntry(s, g[r \ {Max(r)}], q[Max(r)])]
           Partial(m) == \E g : \A r \in SUBSET S : Cardinality(r) <= m => g[r] = Next(g)[r]
           Missing == {m \in Nat : ~Partial(m)}
<1>1. IsFiniteSet(S) /\ \A r \in SUBSET S : IsFiniteSet(r) /\ Cardinality(r) \in Nat
  <2>1. IsFiniteSet(S)
    BY <1>0, FS_Interval
  <2> QED BY <2>1, FS_Subset, FS_CardinalityType
<1>2. \A r \in SUBSET S : r # {} => Max(r) \in r
  BY <1>0, MaxOf
<1>3. \A r \in SUBSET S : r # {} => /\ r \ {Max(r)} \in SUBSET S
                                    /\ Cardinality(r \ {Max(r)}) = Cardinality(r) - 1
  BY <1>1, <1>2, FS_RemoveElement
<1>4. Partial(0)
  <2> DEFINE g == [r \in SUBSET S |-> EmptyArray(s.len)]
  <2>1. \A r \in SUBSET S : Cardinality(r) <= 0 => r = {}
    BY <1>1, FS_EmptySet
  <2>2. \A r \in SUBSET S : Cardinality(r) <= 0 => g[r] = Next(g)[r]
    BY <2>1
  <2> QED BY <2>2
<1>5. ASSUME NEW m \in Nat, Partial(m) PROVE Partial(m + 1)
  <2>1. PICK g : \A r \in SUBSET S : Cardinality(r) <= m => g[r] = Next(g)[r]
    BY <1>5
  <2> DEFINE h == Next(g)
  <2>2. ASSUME NEW r \in SUBSET S, Cardinality(r) <= m + 1 PROVE h[r] = Next(h)[r]
    <3>1. CASE r = {}
      BY <3>1
    <3>2. CASE r # {}
      <4> DEFINE u == r \ {Max(r)}
      <4>1. u \in SUBSET S /\ Cardinality(u) <= m
        BY <1>1, <1>3, <2>2, <3>2
      <4>2. g[u] = h[u]
        BY <2>1, <4>1
      <4> QED BY <3>2, <4>2
    <3> QED BY <3>1, <3>2
  <2> QED BY <2>2
<1>6. Missing = {}
  <2> SUFFICES ASSUME Missing # {} PROVE FALSE
    OBVIOUS
  <2>1. Missing \in SUBSET Nat
    OBVIOUS
  <2>2. PICK m \in Missing : \A l \in Missing : m <= l
    BY <2>1, LeastNumber
  <2>3. m \in Nat /\ ~Partial(m)
    BY <2>2
  <2> HIDE DEF Partial
  <2>4. m # 0
    BY <1>4, <2>3
  <2>5. m - 1 \in Nat /\ m - 1 \notin Missing
    BY <2>2, <2>3, <2>4
  <2>6. Partial(m - 1)
    BY <2>5
  <2> QED BY <1>5, <2>3, <2>5, <2>6
<1>7. Partial(Cardinality(S))
  <2> HIDE DEF Partial
  <2> QED BY <1>1, <1>6
<1>8. PICK g : \A r \in SUBSET S : Cardinality(r) <= Cardinality(S) => g[r] = Next(g)[r]
  BY <1>7
<1>9. \A r \in SUBSET S : g[r] = Next(g)[r]
  BY <1>1, <1>8, FS_Subset
<1> DEFINE f == Next(g)
<1>10. f = Next(f)
  <2>1. \A r \in SUBSET S : r # {} => f[r \ {Max(r)}] = g[r \ {Max(r)}]
    BY <1>3, <1>9
  <2> QED BY <2>1
<1> QED BY <1>0, <1>10 DEF CopyOf

\* The fold is that function.
LEMMA CopyIs ==
  ASSUME NEW s, NEW q, NEW n \in Nat, DOMAIN q = 1 .. n
  PROVE  \E g : CopyOf(g, s, q) /\ Copied(s, q) = g[DOMAIN q]
<1> DEFINE g == CHOOSE g : CopyOf(g, s, q)
<1>1. CopyOf(g, s, q)
  <2> HIDE DEF CopyOf
  <2> QED BY CopyExists
<1>2. Copied(s, q) = g[DOMAIN q]
  BY DEF Copied, FoldLeft, MapThenFoldSet, CopyOf, EmptyArray
<1> HIDE DEF g
<1> QED BY <1>1, <1>2

\* The hashes of a list up to place k.
UpTo(q, k) == {q[i] : i \in 1 .. k}

\* What has been copied when k hashes have been visited.
CopiedInv(s, t, q, k) ==
  /\ ArrayInv(t, UpTo(q, k)) /\ DOMAIN t.map = UpTo(q, k)
  /\ t.len = s.len /\ t.deleted = 0
  /\ \A h \in UpTo(q, k) : EntryOf(t, h) = EntryOf(s, h)

\* An order of a finite set visits each element once.
LEMMA OrderOfSet ==
  ASSUME NEW S, IsFiniteSet(S), NEW q \in SetToSeqs(S)
  PROVE  /\ Cardinality(S) \in Nat /\ DOMAIN q = 1 .. Cardinality(S)
         /\ \A i, j \in 1 .. Cardinality(S) : i # j => q[i] # q[j]
         /\ UpTo(q, Cardinality(S)) = S
<1>1. PICK n : n = Cardinality(S)
  OBVIOUS
<1>2. n \in Nat
  BY <1>1, FS_CardinalityType
<1>3. q \in [1 .. n -> S] /\ \A i, j \in 1 .. n : i # j => q[i] # q[j]
  BY <1>1 DEF SetToSeqs
<1>4. q \in Injection(1 .. n, S)
  BY <1>3 DEF Injection, IsInjective
<1>5. Cardinality(1 .. n) = n
  BY <1>2, FS_Interval
<1>6. q \in Surjection(1 .. n, S)
  BY <1>1, <1>4, <1>5, FS_Injection
<1>7. \A x \in S : \E i \in 1 .. n : q[i] = x
  BY <1>6 DEF Surjection
<1>8. UpTo(q, n) = S
  BY <1>3, <1>7 DEF UpTo
<1> QED BY <1>1, <1>2, <1>3, <1>8

\* Copying one more entry.
LEMMA CopyNext ==
  ASSUME NEW s, NEW D, \A h \in D : EntryInv(s, h), NEW q, NEW n \in Nat, NEW k \in 0 .. n - 1,
         \A i \in 1 .. n : q[i] \in D, \A i, j \in 1 .. n : i # j => q[i] # q[j],
         NEW t, CopiedInv(s, t, q, k)
  PROVE  CopiedInv(s, CopyEntry(s, t, q[k + 1]), q, k + 1)
<1>1. PICK h, u, C, e : h = q[k + 1] /\ u = CopyEntry(s, t, h) /\ C = UpTo(q, k) /\ e = EntryOf(s, h)
  OBVIOUS
<1>2. k + 1 \in 1 .. n /\ h \in D
  BY <1>1
<1>3. EntryInv(s, h)
  BY <1>2
<1>4. PICK m : EntryFor(e, h, m)
  BY <1>1, <1>3 DEF EntryInv, EntryFor
<1>5. h \notin C /\ UpTo(q, k + 1) = C \cup {h}
  <2>1. \A i \in 1 .. k : i \in 1 .. n /\ i # k + 1
    OBVIOUS
  <2>2. h \notin C
    BY <1>1, <1>2, <2>1 DEF UpTo
  <2>3. 1 .. k + 1 = (1 .. k) \cup {k + 1}
    OBVIOUS
  <2> QED BY <1>1, <2>2, <2>3 DEF UpTo
<1>6. IsBehind(u, t, h, e)
  BY <1>1 DEF CopyEntry, IsBehind, Behind, EntryOf, SizeAt
<1>7. ArrayInv(t, C) /\ DOMAIN t.map = C /\ t.len = s.len /\ t.deleted = 0
  BY <1>1 DEF CopiedInv
<1>8. /\ DOMAIN u.map = C \cup {h} /\ u.len = s.len /\ u.deleted = 0 /\ ArrayInv(u, C \cup {h})
      /\ \A g \in C : EntryOf(u, g) = EntryOf(t, g)
      /\ EntryOf(u, h) = e
  <2>0. PICK E : E = C \cup {h}
    OBVIOUS
  <2>1. Adds(E, C, h) /\ ArrayInv(t, C)
    BY <1>5, <1>7, <2>0 DEF Adds
  <2>2. /\ DOMAIN u.map = DOMAIN t.map \cup {h} /\ u.len = t.len /\ u.deleted = t.deleted
        /\ ArrayInv(u, E)
        /\ \A g \in C : EntryOf(u, g) = EntryOf(t, g)
        /\ EntryOf(u, h) = e
    BY <1>4, <1>6, <2>1, AppendArray
  <2> QED BY <1>7, <2>0, <2>2
<1>9. \A g \in C : EntryOf(u, g) = EntryOf(s, g)
  BY <1>1, <1>8 DEF CopiedInv
<1> QED BY <1>1, <1>5, <1>8, <1>9 DEF CopiedInv

\* compact: the entries that survive it, behind one another.
LEMMA CompactArray ==
  ASSUME NEW s, NEW D, ArrayInv(s, D), NEW C, C = Survivors(s), C \subseteq D, NEW t \in Compacted(s)
  PROVE  /\ ArrayInv(t, C) /\ DOMAIN t.map = C /\ t.len = s.len /\ t.tail <= t.len
         /\ \A h \in C : EntryOf(t, h) = EntryOf(s, h) /\ Whole(t, h) /\ Whole(s, h)
<1>1. /\ s.len \in Nat \ {0} /\ IsFiniteSet(D) /\ \A h \in D : EntryInv(s, h)
      /\ SumOver(SizesIn(s), {h \in D : Whole(s, h)}) <= s.len
  BY DEF ArrayInv
<1>2. IsFiniteSet(C)
  BY <1>1, FS_Subset
<1>3. PICK q \in SetToSeqs(C) : t = Copied(s, q)
  BY DEF Compacted, Copied, EmptyArray
<1>4. PICK n : n = Cardinality(C)
  OBVIOUS
<1>5. /\ n \in Nat /\ DOMAIN q = 1 .. n /\ UpTo(q, n) = C
      /\ \A i, j \in 1 .. n : i # j => q[i] # q[j]
  BY <1>2, <1>4, OrderOfSet
<1>6. \A i \in 1 .. n : q[i] \in D
  BY <1>5 DEF UpTo
<1>7. PICK g : CopyOf(g, s, q) /\ t = g[1 .. n]
  BY <1>3, <1>5, CopyIs
<1> DEFINE Bad == {k \in 0 .. n : ~CopiedInv(s, g[1 .. k], q, k)}
<1>8. CopiedInv(s, g[1 .. 0], q, 0)
  <2>1. g[1 .. 0] = EmptyArray(s.len)
    <3>1. 1 .. 0 = {}
      OBVIOUS
    <3> QED BY <1>7, <3>1 DEF CopyOf
  <2>2. PICK e : e = EmptyArray(s.len)
    OBVIOUS
  <2>3. UpTo(q, 0) = {}
    BY DEF UpTo
  <2>4. /\ IsArray(e) /\ DOMAIN e.map = {} /\ e.len = s.len /\ e.tail = 0 /\ e.deleted = 0
    BY <2>2 DEF EmptyArray, IsArray
  <2>5. IsFiniteSet({}) /\ \A f : SumOver(f, {}) = 0
    <3>1. IsFiniteSet({})
      BY FS_EmptySet
    <3>2. ASSUME NEW f PROVE SumOver(f, {}) = 0
      <4>1. PICK S : S = {}
        OBVIOUS
      <4>2. IsFiniteSet(S) /\ \A x \in S : f[x] \in Int
        BY <3>1, <4>1
      <4>3. S = {} => SumOver(f, S) = 0
        BY <4>2, SumType
      <4> QED BY <4>1, <4>3
    <3> QED BY <3>1, <3>2
  <2>6. ArrayInv(e, {})
    <3>1. {h \in {} : Whole(e, h)} = {}
      OBVIOUS
    <3> QED BY <1>1, <2>4, <2>5, <3>1 DEF ArrayInv
  <2> QED BY <2>1, <2>2, <2>3, <2>4, <2>6 DEF CopiedInv
<1>9. ASSUME NEW k \in 0 .. n - 1, CopiedInv(s, g[1 .. k], q, k) PROVE CopiedInv(s, g[1 .. k + 1], q, k + 1)
  <2>1. PICK r, m : r = 1 .. k + 1 /\ m = k + 1
    OBVIOUS
  <2>2. r # {} /\ r \in SUBSET DOMAIN q /\ m \in Nat /\ m > 0
    <3>1. k \in Nat /\ k + 1 <= n
      BY <1>5
    <3>2. m \in Nat /\ m > 0 /\ m \in r
      BY <2>1, <3>1
    <3>3. r \in SUBSET (1 .. n)
      BY <1>5, <2>1, <3>1
    <3> QED BY <1>5, <3>2, <3>3
  <2>3. Max(r) = m
    BY <2>1, <2>2, MaxOf
  <2>4. r \ {m} = 1 .. k
    BY <2>1
  <2>5. g[r] = CopyEntry(s, g[r \ {Max(r)}], q[Max(r)])
    BY <1>7, <2>2 DEF CopyOf
  <2>6. g[r] = CopyEntry(s, g[1 .. k], q[m])
    BY <2>3, <2>4, <2>5
  <2>7. CopiedInv(s, CopyEntry(s, g[1 .. k], q[k + 1]), q, k + 1)
    BY <1>1, <1>5, <1>6, <1>9, CopyNext
  <2> QED BY <2>1, <2>6, <2>7
<1>10. CopiedInv(s, t, q, n)
  <2>1. SUFFICES ASSUME Bad # {} PROVE FALSE
    BY <1>5, <1>7
  <2>2. PICK k \in Bad : \A j \in Bad : k <= j
    <3>1. Bad \in SUBSET Nat
      OBVIOUS
    <3> HIDE DEF Bad
    <3> QED BY <2>1, <3>1, LeastNumber
  <2>3. k \in 0 .. n /\ ~CopiedInv(s, g[1 .. k], q, k)
    BY <2>2
  <2>4. k # 0
    BY <1>8, <2>3
  <2>5. k - 1 \in 0 .. n - 1 /\ k - 1 \notin Bad /\ (k - 1) + 1 = k
    BY <1>5, <2>2, <2>3, <2>4
  <2>6. CopiedInv(s, g[1 .. k - 1], q, k - 1)
    BY <1>5, <2>5
  <2> QED BY <1>9, <2>3, <2>5, <2>6
<1>11. /\ ArrayInv(t, C) /\ DOMAIN t.map = C /\ t.len = s.len /\ t.deleted = 0
       /\ \A h \in C : EntryOf(t, h) = EntryOf(s, h)
  BY <1>5, <1>10 DEF CopiedInv
<1>12. t.tail = SumOver(SizesIn(s), C)
  <2>1. SumOver(SizesIn(t), C) = SumOver(SizesIn(s), C)
    BY <1>1, <1>2, <1>11, SameSizes
  <2>2. t.tail \in Nat /\ t.tail = t.deleted + SumOver(SizesIn(t), C)
    BY <1>11 DEF ArrayInv
  <2>3. SumOver(SizesIn(t), C) \in Int
    <3>1. \A h \in C : EntryInv(t, h)
      BY <1>11 DEF ArrayInv
    <3>2. PICK f : f = SizesIn(t)
      OBVIOUS
    <3>3. \A h \in C : f[h] \in Int
      <4>1. \A h \in C : SizeOf(t, h) \in Nat /\ SizesIn(t)[h] = SizeOf(t, h)
        BY <3>1, EntrySizes
      <4> QED BY <3>2, <4>1
    <3>4. SumOver(f, C) \in Int
      BY <1>2, <3>3, SumType
    <3> QED BY <3>2, <3>4
  <2> QED BY <1>11, <2>1, <2>2, <2>3
<1>13. \A h \in C : Whole(s, h)
  BY DEF Survivors, Whole, SizeOf
<1>14. t.tail <= t.len
  <2>1. PICK Q, f : Q = {h \in D : Whole(s, h)} /\ f = SizesIn(s)
    OBVIOUS
  <2>2. Q \in SUBSET D /\ C \in SUBSET Q
    BY <1>13, <2>1
  <2>3. IsFiniteSet(Q)
    BY <1>1, <2>2, FS_Subset
  <2>4. \A h \in Q : f[h] \in Nat
    BY <1>1, <2>1, <2>2, EntrySizes
  <2>5. SumOver(f, C) <= SumOver(f, Q) /\ SumOver(f, Q) \in Nat
    BY <2>2, <2>3, <2>4, SumSubset
  <2>6. t.tail \in Nat /\ t.tail = SumOver(f, C)
    BY <1>11, <1>12, <2>1 DEF ArrayInv
  <2> QED BY <1>1, <1>11, <2>1, <2>5, <2>6
<1>15. \A h \in C : Whole(t, h)
  <2> SUFFICES ASSUME NEW h \in C PROVE Whole(t, h)
    OBVIOUS
  <2>1. EntryInv(t, h) /\ t.tail \in Nat /\ t.len \in Nat
    BY <1>11 DEF ArrayInv
  <2>2. SizeOf(t, h) \in Nat /\ t.map[h] \in Nat
    BY <1>11, EntrySizes DEF ArrayInv
  <2>3. t.map[h] + SizeOf(t, h) <= t.tail
    BY <2>1 DEF EntryInv
  <2> QED BY <1>14, <2>1, <2>2, <2>3 DEF Whole
<1> QED BY <1>11, <1>13, <1>14, <1>15

-----------------------------------------------------------------------------
(* Set.                                                                    *)

\* The hashes of an array other than h.
Others(D, s, h) == D = DOMAIN s.map \ {h}

\* Making room for n bytes, when the entry of h counts as deleted, keeps what
\* fits of the others; without compaction there is room then.
LEMMA RoomArray ==
  ASSUME NEW s, NEW h, NEW D, Others(D, s, h), ArrayInv(s, D),
         h \in DOMAIN s.map => EntryOf(s, h).keyLen = 0,
         NEW n \in Nat, ~GrowPanics(s, n), NEW t \in MadeRoom(s, n), NEW C, Others(C, t, h)
  PROVE  /\ C \subseteq D /\ DOMAIN t.map \subseteq DOMAIN s.map /\ ArrayInv(t, C)
         /\ \A g \in C : EntryOf(t, g) = EntryOf(s, g) /\ (Whole(t, g) <=> Whole(s, g))
         /\ \A g \in D \ C : EntryOf(s, g).keyLen = 0 \/ ~Whole(s, g)
         /\ Fits(t, n) \/ ShouldCompact(s)
<1>0. D = DOMAIN s.map \ {h} /\ C = DOMAIN t.map \ {h}
  BY DEF Others
<1>1. CASE Fits(s, n)
  <2>1. t = s
    BY <1>1 DEF MadeRoom
  <2> QED BY <1>0, <1>1, <2>1
<1>2. CASE ~Fits(s, n) /\ ShouldCompact(s)
  <2>1. t \in Compacted(s)
    BY <1>2 DEF MadeRoom
  <2>2. PICK S : S = Survivors(s)
    OBVIOUS
  <2>3. S \subseteq D
    <3>1. \A g \in S : g \in DOMAIN s.map /\ EntryOf(s, g).keyLen # 0
      BY <2>2 DEF Survivors, EntryOf
    <3> QED BY <1>0, <3>1
  <2>4. /\ ArrayInv(t, S) /\ DOMAIN t.map = S
        /\ \A g \in S : EntryOf(t, g) = EntryOf(s, g) /\ Whole(t, g) /\ Whole(s, g)
    BY <2>1, <2>2, <2>3, CompactArray
  <2>5. C = S
    BY <1>0, <2>3, <2>4
  <2>6. \A g \in D \ S : EntryOf(s, g).keyLen = 0 \/ ~Whole(s, g)
    BY <1>0, <2>2 DEF Survivors, EntryOf, Whole, SizeOf
  <2> QED BY <1>0, <1>2, <2>3, <2>4, <2>5, <2>6
<1>3. CASE ~Fits(s, n) /\ ~ShouldCompact(s)
  <2>1. t = GrownArray(s, n)
    BY <1>3 DEF MadeRoom
  <2>2. s.tail \in Nat /\ s.len \in Nat
    BY DEF ArrayInv
  <2>3. s.tail <= s.len
    BY <1>3, <2>2 DEF GrowPanics
  <2>4. /\ t.map = s.map /\ ArrayInv(t, D) /\ Fits(t, n)
        /\ \A g \in D : EntryOf(t, g) = EntryOf(s, g) /\ Whole(t, g) /\ Whole(s, g)
    BY <2>1, <2>3, GrowArray
  <2>5. C = D
    BY <1>0, <2>4
  <2> QED BY <1>0, <2>4, <2>5
<1> QED BY <1>1, <1>2, <1>3

\* r is array s where the entry of h counts as deleted, t is what it is given
\* room in; v are the hashes whose entry is lost then, if u were before.
Replaced(r, s, h, n) == r = Replace(s, h) /\ ~GrowPanics(r, n)
LostThen(v, u, s, t, h, n) ==
  v = (u \ {h}) \cup (DOMAIN s.map \ (DOMAIN t.map \cup {h})) \cup (IF Fits(t, n) THEN {} ELSE {h})

\* What Set leaves of array s and of the history l, u, o.
LEMMA SetArray ==
  ASSUME NEW s, NEW l, NEW u, NEW o \in BOOLEAN, ShardInv(s, l, u, o),
         NEW h, NEW e, NEW n, EntryFor(e, h, n),
         NEW r, Replaced(r, s, h, n),
         NEW t \in MadeRoom(r, n), NEW z, IsBehind(z, t, h, e),
         NEW v, LostThen(v, u, s, t, h, n),
         NEW p \in BOOLEAN, p <=> (o \/ (ShouldCompact(r) /\ ~Fits(t, n)))
  PROVE  /\ DOMAIN z.map = DOMAIN t.map \cup {h} /\ DOMAIN t.map \subseteq DOMAIN s.map
         /\ ShardInv(z, GcWith(l, h, e), v, p)
         /\ t.tail \in Nat /\ t.len \in Nat /\ (Fits(t, n) \/ p)
<1>0. r = Replace(s, h) /\ ~GrowPanics(r, n)
  BY DEF Replaced
<1>1. PICK D, C : D = DOMAIN s.map \ {h} /\ C = DOMAIN t.map \ {h}
  OBVIOUS
<1>2. /\ r.map = s.map /\ r.len = s.len /\ r.tail = s.tail /\ ArrayInv(r, D)
      /\ \A g \in D : EntryOf(r, g) = EntryOf(s, g) /\ (Whole(r, g) <=> Whole(s, g))
      /\ h \in DOMAIN r.map => EntryOf(r, h).keyLen = 0
  <2>1. /\ r.map = s.map /\ r.len = s.len /\ r.tail = s.tail
        /\ ArrayInv(r, DOMAIN s.map \ {h})
        /\ \A g \in DOMAIN s.map \ {h} : EntryOf(r, g) = EntryOf(s, g) /\ (Whole(r, g) <=> Whole(s, g))
        /\ h \in DOMAIN s.map => EntryOf(r, h).keyLen = 0
    BY <1>0, ReplaceArray DEF ShardInv
  <2> QED BY <1>1, <2>1
<1>3. n \in Nat
  BY GcAssumption DEF EntrySize, GcEntries, EntryFor
<1>4. /\ C \subseteq D /\ DOMAIN t.map \subseteq DOMAIN r.map /\ ArrayInv(t, C)
      /\ \A g \in C : EntryOf(t, g) = EntryOf(r, g) /\ (Whole(t, g) <=> Whole(r, g))
      /\ \A g \in D \ C : EntryOf(r, g).keyLen = 0 \/ ~Whole(r, g)
      /\ Fits(t, n) \/ ShouldCompact(r)
  <2>1. Others(D, r, h) /\ Others(C, t, h) /\ ArrayInv(r, D)
    BY <1>1, <1>2 DEF Others
  <2>2. h \in DOMAIN r.map => EntryOf(r, h).keyLen = 0
    BY <1>2
  <2> QED BY <1>0, <1>3, <2>1, <2>2, RoomArray
<1>5. /\ DOMAIN z.map = DOMAIN t.map \cup {h} /\ z.len = t.len /\ z.tail = t.tail + n
      /\ ArrayInv(z, C \cup {h})
      /\ \A g \in C : EntryOf(z, g) = EntryOf(t, g) /\ (Whole(z, g) <=> Whole(t, g))
      /\ EntryOf(z, h) = e /\ (Whole(z, h) <=> Fits(t, n))
  <2>0. PICK E : E = C \cup {h}
    OBVIOUS
  <2>1. Adds(E, C, h) /\ ArrayInv(t, C)
    BY <1>1, <1>4, <2>0 DEF Adds
  <2>2. /\ DOMAIN z.map = DOMAIN t.map \cup {h} /\ z.len = t.len /\ z.tail = t.tail + n
        /\ ArrayInv(z, E)
        /\ \A g \in C : EntryOf(z, g) = EntryOf(t, g) /\ (Whole(z, g) <=> Whole(t, g))
        /\ EntryOf(z, h) = e /\ (Whole(z, h) <=> Fits(t, n))
    BY <2>1, AppendArray
  <2> QED BY <2>0, <2>2
<1>6. DOMAIN z.map = C \cup {h}
  BY <1>1, <1>5
<1>7. PICK m : m = GcWith(l, h, e)
  OBVIOUS
<1>8. DOMAIN m = DOMAIN l \cup {h} /\ m[h] = e /\ \A g \in DOMAIN l \ {h} : m[g] = l[g]
  BY <1>7 DEF GcWith
<1>9. v = (u \ {h}) \cup (D \ C) \cup (IF Fits(t, n) THEN {} ELSE {h})
  BY <1>1 DEF LostThen
<1>10. /\ \A g \in DOMAIN s.map : g \in DOMAIN l /\ l[g] = EntryOf(s, g) /\ (g \in u <=> ~Whole(s, g))
       /\ \A g \in DOMAIN l \ DOMAIN s.map : g \in u
       /\ u \subseteq DOMAIN l
       /\ ~o => s.tail <= s.len /\ \A g \in u : l[g].key.len = 0
  BY DEF HistoryInv, ShardInv
<1>11. ASSUME NEW g \in C \cup {h} PROVE g \in DOMAIN m /\ m[g] = EntryOf(z, g) /\ (g \in v <=> ~Whole(z, g))
  <2>1. CASE g = h
    <3>1. h \in v <=> ~Fits(t, n)
      BY <1>1, <1>9
    <3> QED BY <1>5, <1>8, <2>1, <3>1
  <2>2. CASE g \in C
    <3>1. g # h /\ g \in D /\ g \in DOMAIN s.map
      BY <1>1, <1>4, <2>2
    <3>2. g \in v <=> g \in u
      BY <1>9, <2>2, <3>1
    <3>3. EntryOf(z, g) = EntryOf(s, g) /\ (Whole(z, g) <=> Whole(s, g))
      BY <1>2, <1>4, <1>5, <2>2, <3>1
    <3> QED BY <1>8, <1>10, <3>1, <3>2, <3>3
  <2> QED BY <2>1, <2>2
<1>12. \A g \in DOMAIN m \ (C \cup {h}) : g \in v
  BY <1>1, <1>8, <1>9, <1>10
<1>13. v \subseteq DOMAIN m
  BY <1>1, <1>8, <1>9, <1>10
<1>14. ASSUME ~p PROVE z.tail <= z.len /\ \A g \in v : m[g].key.len = 0
  <2>1. ~o /\ Fits(t, n)
    BY <1>4, <1>14
  <2>2. z.tail <= z.len
    BY <1>5, <2>1 DEF Fits
  <2>3. ASSUME NEW g \in D \ C PROVE l[g].key.len = 0 /\ g \in DOMAIN l
    <3>1. EntryInv(s, g) /\ s.tail <= s.len /\ s.tail \in Nat /\ s.len \in Nat /\ l[g] = EntryOf(s, g)
      BY <1>1, <1>10, <2>1 DEF ArrayInv, ShardInv
    <3>2. \A d \in {g} : EntryInv(s, d)
      BY <3>1
    <3>3. SizeOf(s, g) \in Nat /\ s.map[g] \in Nat
      BY <3>2, EntrySizes
    <3>4. Whole(s, g)
      BY <3>1, <3>3 DEF EntryInv, Whole
    <3>5. EntryOf(s, g).keyLen = 0
      BY <1>2, <1>4, <3>4
    <3> QED BY <1>1, <1>10, <3>1, <3>5 DEF EntryInv
  <2>4. ASSUME NEW g \in v PROVE m[g].key.len = 0
    <3>1. g \in u \ {h} \/ g \in D \ C
      BY <1>9, <2>1
    <3>2. g # h /\ g \in DOMAIN l /\ l[g].key.len = 0
      BY <1>1, <1>10, <2>1, <2>3, <3>1
    <3> QED BY <1>8, <3>2
  <2> QED BY <2>2, <2>4
<1>15. HistoryInv(z, C \cup {h}, m, v, p)
  BY <1>11, <1>12, <1>13, <1>14 DEF HistoryInv
<1>16. t.tail \in Nat /\ t.len \in Nat /\ (Fits(t, n) \/ p)
  BY <1>4 DEF ArrayInv
<1> QED BY <1>2, <1>4, <1>5, <1>6, <1>7, <1>15, <1>16 DEF ShardInv

\* Of the hashes A, Set keeps B and adds h, which makes X; Z have leaked.
Leaking(A, B, h, X, Z) == B \subseteq A /\ X = B \cup {h} /\ Z = A \ X

\* Nothing else becomes of them.
LEMMA KeptAndLeaked ==
  ASSUME NEW A, IsFiniteSet(A), NEW B, NEW h, NEW X, NEW Z, Leaking(A, B, h, X, Z)
  PROVE  /\ Cardinality(X) \in Nat /\ Cardinality(Z) \in Nat /\ Cardinality(A) \in Nat
         /\ Cardinality(X) + Cardinality(Z) = Cardinality(A) + (IF h \in A THEN 0 ELSE 1)
<1>0. PICK Y : Y = A \cup {h}
  OBVIOUS
<1>1. Y = A \cup {h} /\ Z = A \ X /\ B \subseteq A /\ X = B \cup {h}
  BY <1>0 DEF Leaking
<1>2. IsFiniteSet(Y) /\ Cardinality(Y) = Cardinality(A) + (IF h \in A THEN 0 ELSE 1)
  BY <1>1, FS_AddElement, FS_CardinalityType
<1>3. Y \cap X = X /\ Y \ X = Z
  BY <1>1
<1>4. IsFiniteSet(X) /\ IsFiniteSet(Z)
  <2>1. X \in SUBSET Y /\ Z \in SUBSET Y
    BY <1>1
  <2> QED BY <1>2, <2>1, FS_Subset
<1>5. Cardinality(Y \ X) = Cardinality(Y) - Cardinality(Y \cap X)
  BY <1>2, FS_Difference
<1>6. Cardinality(Z) = Cardinality(Y) - Cardinality(X)
  BY <1>3, <1>5
<1>7. Cardinality(X) \in Nat /\ Cardinality(Z) \in Nat /\ Cardinality(A) \in Nat /\ Cardinality(Y) \in Nat
  BY <1>2, <1>4, FS_CardinalityType
<1> QED BY <1>1, <1>2, <1>6, <1>7

-----------------------------------------------------------------------------
(* The steps of the store.                                                 *)

\* Set keeps the invariant.
LEMMA GcSetInv ==
  ASSUME NEW key \in GcKeys, NEW len \in ValueLens, NEW exp \in Expiries, GcInv, GcSet(key, len, exp)
  PROVE  GcInv'
<1>1. PICK s, h, n, e, r : /\ s = Array /\ h = key.hash /\ n = EntrySize(key.len, len)
                           /\ e = [key |-> key, keyLen |-> key.len, valueLen |-> len, exp |-> exp]
                           /\ r = Replace(s, h)
  OBVIOUS
<1>2. EntryFor(e, h, n)
  BY <1>1, GcAssumption DEF EntryFor, GcEntries
<1>3. n \in Nat /\ n >= EntrySize(key.len, 0) /\ EntrySize(key.len, 0) \in Nat
  BY <1>1, GcAssumption DEF EntrySize
<1>4. s.map = hashmap /\ s.data = data /\ s.len = dataLen /\ s.tail = tail /\ s.deleted = deleted
  BY <1>1 DEF Array
<1>5. /\ ~panicked /\ panicked \in BOOLEAN /\ overflowed \in BOOLEAN
      /\ ShardInv(s, latest, unfit, overflowed)
      /\ CountTypes /\ CountInTime
  BY <1>1, <1>4 DEF GcInv, GcSet
<1>6. CASE GrowPanics(r, n)
  <2>1. panicked' = TRUE /\ overflowed' = overflowed
    BY <1>1, <1>6 DEF GcSet, GcPanic
  <2>2. r.tail = s.tail /\ r.len = s.len
    BY <1>1 DEF Replace
  <2>3. overflowed
    BY <1>5, <1>6, <2>2 DEF GrowPanics, ShardInv, HistoryInv, ArrayInv
  <2> QED BY <1>5, <2>1, <2>3 DEF GcInv
<1>7. CASE ~GrowPanics(r, n)
  <2>1. PICK t \in MadeRoom(r, n) :
           /\ WriteEntry(t, key, len, exp) \/ (WritePanics(t, key) /\ GcPanic(t))
           /\ overflowed' = (overflowed \/ (ShouldCompact(r) /\ ~Fits(t, n)))
    BY <1>1, <1>7 DEF GcSet
  <2>2. PICK z, v, p :
           /\ z = Behind(t, h, e) /\ p = overflowed'
           /\ v = (unfit \ {h}) \cup (DOMAIN s.map \ (DOMAIN t.map \cup {h})) \cup (IF Fits(t, n) THEN {} ELSE {h})
    OBVIOUS
  <2>3. p \in BOOLEAN /\ (p <=> (overflowed \/ (ShouldCompact(r) /\ ~Fits(t, n))))
    BY <2>1, <2>2
  <2>4. IsBehind(z, t, h, e)
    BY <2>2 DEF IsBehind
  <2>5. PICK l, u, o : l = latest /\ u = unfit /\ o = overflowed
    OBVIOUS
  <2>6. /\ DOMAIN z.map = DOMAIN t.map \cup {h} /\ DOMAIN t.map \subseteq DOMAIN s.map
        /\ ShardInv(z, GcWith(l, h, e), v, p)
        /\ t.tail \in Nat /\ t.len \in Nat /\ (Fits(t, n) \/ p)
    <3>1. o \in BOOLEAN /\ (p <=> (o \/ (ShouldCompact(r) /\ ~Fits(t, n)))) /\ ShardInv(s, l, u, o)
      BY <1>5, <2>3, <2>5
    <3>2. Replaced(r, s, h, n) /\ LostThen(v, u, s, t, h, n)
      BY <1>1, <1>7, <2>2, <2>5 DEF Replaced, LostThen
    <3> QED BY <1>2, <2>3, <2>4, <3>1, <3>2, SetArray
  <2>7. CASE WriteEntry(t, key, len, exp)
    <3>1. /\ panicked' = panicked /\ unfit' = v /\ latest' = GcWith(latest, h, e)
          /\ leaks' = leaks + Cardinality(DOMAIN hashmap \ (DOMAIN t.map \cup {h}))
      BY <1>1, <1>4, <2>2, <2>7 DEF WriteEntry
    <3>2. /\ gcSize' = gcSize + (IF h \in DOMAIN hashmap THEN 0 ELSE 1)
          /\ deletes' = deletes /\ clears' = clears /\ miscounted' = miscounted
      BY <1>1 DEF GcSet
    <3>3. /\ hashmap' = z.map /\ data' = z.data /\ dataLen' = z.len /\ tail' = z.tail /\ deleted' = z.deleted
      BY <1>1, <2>2, <2>7 DEF WriteEntry, BecomesShard, Behind
    <3>4. Array' = z
      BY <2>6, <3>3 DEF Array, ShardInv, ArrayInv, IsArray
    <3>5. CountTypes' /\ CountInTime'
      <4>1. PICK A, B, X, Z : A = DOMAIN hashmap /\ B = DOMAIN t.map /\ X = B \cup {h} /\ Z = A \ X
        OBVIOUS
      <4>2. IsFiniteSet(A) /\ Leaking(A, B, h, X, Z) /\ DOMAIN hashmap' = X
        BY <1>4, <1>5, <2>6, <3>3, <4>1 DEF ShardInv, ArrayInv, Leaking
      <4>3. /\ Cardinality(X) \in Nat /\ Cardinality(Z) \in Nat /\ Cardinality(A) \in Nat
            /\ Cardinality(X) + Cardinality(Z) = Cardinality(A) + (IF h \in A THEN 0 ELSE 1)
        BY <4>2, KeptAndLeaked
      <4>4. leaks' = leaks + Cardinality(Z) /\ gcSize' = gcSize + (IF h \in A THEN 0 ELSE 1)
        BY <3>1, <3>2, <4>1
      <4>5. CountTypes'
        BY <1>5, <3>2, <4>3, <4>4 DEF CountTypes
      <4>6. CASE leaks' # 0 \/ clears # 0 \/ miscounted
        BY <3>2, <4>5, <4>6 DEF CountInTime
      <4>7. CASE leaks' = 0 /\ clears = 0 /\ ~miscounted
        <5>1. leaks = 0 /\ Cardinality(Z) = 0
          BY <1>5, <4>3, <4>4, <4>7 DEF CountTypes
        <5>2. gcSize = Cardinality(A) + deletes
          BY <1>5, <4>1, <4>7, <5>1 DEF CountInTime
        <5>3. gcSize' = Cardinality(X) + deletes'
          BY <1>5, <3>2, <4>3, <4>4, <5>1, <5>2 DEF CountTypes
        <5> QED BY <4>2, <4>5, <5>3 DEF CountInTime
      <4> QED BY <4>6, <4>7
    <3>6. ShardInv(Array', latest', unfit', overflowed')
      BY <2>2, <2>5, <2>6, <3>1, <3>4
    <3> QED BY <1>5, <2>2, <2>3, <3>1, <3>5, <3>6 DEF GcInv
  <2>8. CASE WritePanics(t, key) /\ GcPanic(t)
    <3>1. panicked' = TRUE
      BY <2>8 DEF GcPanic
    <3>2. ~Fits(t, n)
      BY <1>3, <2>6, <2>8 DEF WritePanics, Fits
    <3> QED BY <2>2, <2>3, <2>6, <3>1, <3>2 DEF GcInv
  <2> QED BY <2>1, <2>7, <2>8
<1> QED BY <1>6, <1>7

\* Delete and Clear keep it.
LEMMA GcDeleteInv ==
  ASSUME NEW hash \in GcHashes, GcInv, GcDelete(hash)
  PROVE  GcInv'
<1>1. PICK s, l, u, o : s = Array /\ l = latest /\ u = unfit /\ o = overflowed
  OBVIOUS
<1>2. /\ ~panicked /\ panicked \in BOOLEAN /\ overflowed \in BOOLEAN /\ ShardInv(s, l, u, o)
      /\ CountTypes /\ CountInTime
  BY <1>1 DEF GcInv, GcDelete
<1>3. s.map = hashmap /\ s.data = data /\ s.len = dataLen /\ s.tail = tail /\ s.deleted = deleted
  BY <1>1 DEF Array
<1>4. /\ panicked' = panicked /\ overflowed' = overflowed /\ leaks' = leaks
      /\ gcSize' = gcSize /\ clears' = clears /\ miscounted' = miscounted
      /\ dataLen' = dataLen /\ tail' = tail
      /\ latest' = GcWithout(l, hash) /\ unfit' = u \ {hash}
  BY <1>1 DEF GcDelete
<1>5. /\ ArrayInv(s, DOMAIN s.map)
      /\ \A h \in DOMAIN s.map : h \in DOMAIN l /\ l[h] = EntryOf(s, h) /\ (h \in u <=> ~Whole(s, h))
      /\ \A h \in DOMAIN l \ DOMAIN s.map : h \in u
      /\ u \subseteq DOMAIN l
      /\ ~o => s.tail <= s.len /\ \A h \in u : l[h].key.len = 0
  BY <1>2 DEF ShardInv, HistoryInv
<1>6. PICK m, v : m = latest' /\ v = unfit'
  OBVIOUS
<1>7. /\ DOMAIN m = DOMAIN l \ {hash} /\ v = u \ {hash} /\ \A h \in DOMAIN m : m[h] = l[h]
  BY <1>4, <1>6 DEF GcWithout
<1>8. CASE hash \notin DOMAIN hashmap
  <2>1. hashmap' = hashmap /\ data' = data /\ deleted' = deleted /\ deletes' = deletes
    BY <1>8 DEF GcDelete
  <2>2. Array' = s
    BY <1>1, <1>4, <2>1 DEF Array
  <2>3. HistoryInv(s, DOMAIN s.map, m, v, o)
    BY <1>3, <1>5, <1>7, <1>8 DEF HistoryInv
  <2>4. ShardInv(Array', latest', unfit', overflowed')
    BY <1>1, <1>4, <1>5, <1>6, <2>2, <2>3 DEF ShardInv
  <2> QED BY <1>2, <1>4, <2>1, <2>4 DEF GcInv, CountTypes, CountInTime
<1>9. CASE hash \in DOMAIN hashmap
  <2>1. /\ deleted' = deleted + SizeAt(data, hashmap[hash]) /\ data' = Marked(data, hashmap[hash])
        /\ hashmap' = GcWithout(hashmap, hash) /\ deletes' = deletes + 1
    BY <1>9 DEF GcDelete
  <2>2. PICK t, D, C : t = Array' /\ D = DOMAIN s.map /\ C = D \ {hash}
    OBVIOUS
  <2>3. /\ IsArray(t) /\ t.tail = s.tail /\ t.len = s.len
        /\ t.deleted = s.deleted + SizeOf(s, hash) /\ t.data = Marked(s.data, s.map[hash])
        /\ t.map = GcWithout(s.map, hash)
    BY <1>3, <1>4, <2>1, <2>2 DEF Array, IsArray, SizeOf
  <2>4. DOMAIN t.map = C /\ \A g \in D \ {hash} : g \in DOMAIN t.map /\ t.map[g] = s.map[g]
    BY <2>2, <2>3 DEF GcWithout
  <2>5. hash \in D /\ ArrayInv(s, D)
    BY <1>3, <1>5, <1>9, <2>2
  <2>6. /\ ArrayInv(t, D \ {hash})
        /\ \A g \in D \ {hash} : EntryOf(t, g) = EntryOf(s, g) /\ (Whole(t, g) <=> Whole(s, g))
    BY <2>3, <2>4, <2>5, MarkArray
  <2>7. HistoryInv(t, C, m, v, o)
    BY <1>5, <1>7, <2>2, <2>3, <2>6 DEF HistoryInv
  <2>8. ShardInv(Array', latest', unfit', overflowed')
    BY <1>1, <1>4, <1>6, <2>2, <2>4, <2>6, <2>7 DEF ShardInv
  <2>9. CountTypes' /\ CountInTime'
    <3>1. DOMAIN hashmap' = C /\ DOMAIN hashmap = D
      BY <1>3, <2>1, <2>2 DEF GcWithout
    <3>2. IsFiniteSet(D)
      BY <2>5 DEF ArrayInv
    <3>3. Cardinality(D \ {hash}) = Cardinality(D) - 1 /\ Cardinality(D) \in Nat
      BY <2>5, <3>2, FS_RemoveElement, FS_CardinalityType
    <3>4. Cardinality(C) = Cardinality(D) - 1
      BY <2>2, <3>3
    <3>5. Cardinality(DOMAIN hashmap') + deletes' = Cardinality(DOMAIN hashmap) + deletes
      BY <1>2, <2>1, <3>1, <3>3, <3>4 DEF CountTypes
    <3> QED BY <1>2, <1>4, <2>1, <3>5 DEF CountTypes, CountInTime
  <2> QED BY <1>2, <1>4, <2>8, <2>9 DEF GcInv
<1> QED BY <1>8, <1>9

\* An array without entries.
LEMMA NothingStored ==
  ASSUME NEW s, IsArray(s), DOMAIN s.map = {}, s.len \in Nat \ {0}, s.tail = 0, s.deleted = 0,
         NEW l, DOMAIN l = {}, NEW u, u = {}, NEW o
  PROVE  ShardInv(s, l, u, o)
<1>1. IsFiniteSet({}) /\ \A f : SumOver(f, {}) = 0
  <2>1. IsFiniteSet({})
    BY FS_EmptySet
  <2>2. ASSUME NEW f PROVE SumOver(f, {}) = 0
    <3>1. PICK S : S = {}
      OBVIOUS
    <3>2. IsFiniteSet(S) /\ \A x \in S : f[x] \in Int
      BY <2>1, <3>1
    <3>3. S = {} => SumOver(f, S) = 0
      BY <3>2, SumType
    <3> QED BY <3>1, <3>3
  <2> QED BY <2>1, <2>2
<1>2. PICK D : D = {}
  OBVIOUS
<1>3. {h \in D : Whole(s, h)} = {}
  BY <1>2
<1>4. ArrayInv(s, D)
  BY <1>1, <1>2, <1>3 DEF ArrayInv
<1>5. HistoryInv(s, D, l, u, o)
  BY <1>2 DEF HistoryInv
<1> QED BY <1>2, <1>4, <1>5 DEF ShardInv

\* Clear forgets every entry, but keeps the array.
LEMMA GcClearInv ==
  ASSUME GcInv, GcClear
  PROVE  GcInv'
<1>1. /\ panicked' = panicked /\ overflowed' = overflowed /\ dataLen' = dataLen
      /\ hashmap' = <<>> /\ data' = <<>> /\ tail' = 0 /\ deleted' = 0 /\ clears' = clears + 1
      /\ latest' = <<>> /\ unfit' = {} /\ leaks' = 0 /\ ~panicked
      /\ gcSize' = gcSize /\ deletes' = deletes
  BY DEF GcClear
<1>2. dataLen \in Nat \ {0} /\ panicked \in BOOLEAN /\ overflowed \in BOOLEAN /\ CountTypes
  BY <1>1 DEF GcInv, ShardInv, ArrayInv, Array
<1>3. PICK t, l, u, o : t = Array' /\ l = latest' /\ u = unfit' /\ o = overflowed'
  OBVIOUS
<1>4. /\ IsArray(t) /\ DOMAIN t.map = {} /\ t.len \in Nat \ {0} /\ t.tail = 0 /\ t.deleted = 0
  BY <1>1, <1>2, <1>3 DEF Array, IsArray
<1>5. DOMAIN l = {} /\ u = {}
  BY <1>1, <1>3
<1>6. ShardInv(Array', latest', unfit', overflowed')
  BY <1>3, <1>4, <1>5, NothingStored
<1>7. CountTypes' /\ CountInTime'
  BY <1>1, <1>2 DEF CountTypes, CountInTime
<1> QED BY <1>1, <1>2, <1>6, <1>7 DEF GcInv

\* What Delete and Clear do to the count, after they have left the lock
LEMMA GcSizeInv ==
  ASSUME GcInv, GcDeleteSize \/ GcClearSize
  PROVE  GcInv'
<1>1. /\ UNCHANGED <<hashmap, data, dataLen, tail, deleted, panicked, latest, unfit, overflowed, leaks>>
      /\ ~panicked
  BY DEF GcDeleteSize, GcClearSize
<1>2. Array' = Array
  BY <1>1 DEF Array
<1>3. CountTypes /\ CountInTime
  BY <1>1 DEF GcInv
<1>4. CASE GcDeleteSize
  <2>1. gcSize' = gcSize - 1 /\ deletes' = deletes - 1 /\ deletes > 0 /\ clears' = clears /\ miscounted' = miscounted
    BY <1>4 DEF GcDeleteSize
  <2>2. CountTypes'
    BY <1>1, <1>3, <2>1 DEF CountTypes
  <2>3. CountInTime'
    <3>1. IsFiniteSet(DOMAIN hashmap)
      BY <1>1 DEF GcInv, ShardInv, ArrayInv, Array
    <3>2. Cardinality(DOMAIN hashmap) \in Nat
      BY <3>1, FS_CardinalityType
    <3> QED BY <1>1, <1>3, <2>1, <3>2 DEF CountTypes, CountInTime
  <2> QED BY <1>1, <1>2, <2>2, <2>3 DEF GcInv
<1>5. CASE GcClearSize
  <2>1. /\ gcSize' = 0 /\ clears' = clears - 1 /\ clears > 0 /\ deletes' = deletes
        /\ miscounted' = (deletes # 0 \/ DOMAIN hashmap # {})
    BY <1>5 DEF GcClearSize
  <2>2. CountTypes'
    BY <1>1, <1>3, <2>1 DEF CountTypes
  <2>3. CountInTime'
    <3>1. Cardinality({}) = 0
      BY FS_EmptySet
    <3>2. ~miscounted' => deletes' = 0 /\ DOMAIN hashmap' = {}
      BY <1>1, <2>1
    <3>3. ~miscounted' => gcSize' = Cardinality(DOMAIN hashmap') + deletes'
      BY <2>1, <3>1, <3>2
    <3> QED BY <3>3 DEF CountInTime
  <2> QED BY <1>1, <1>2, <2>2, <2>3 DEF GcInv
<1> QED BY <1>4, <1>5

\* An empty array satisfies GcInv.
LEMMA GcInitInv ==
  ASSUME GcInit
  PROVE  GcInv
<1>1. PICK t, l, u, o : t = Array /\ l = latest /\ u = unfit /\ o = overflowed
  OBVIOUS
<1>2. /\ IsArray(t) /\ DOMAIN t.map = {} /\ t.len \in Nat \ {0} /\ t.tail = 0 /\ t.deleted = 0
  BY <1>1, GcAssumption DEF Array, IsArray, GcInit
<1>3. DOMAIN l = {} /\ u = {}
  BY <1>1 DEF GcInit
<1>4. ShardInv(Array, latest, unfit, overflowed)
  BY <1>1, <1>2, <1>3, NothingStored
<1>5. CountTypes /\ CountInTime
  <2>1. DOMAIN hashmap = {} /\ Cardinality({}) = 0
    BY FS_EmptySet DEF GcInit
  <2> QED BY <2>1 DEF GcInit, CountTypes, CountInTime
<1> QED BY <1>4, <1>5 DEF GcInv, GcInit

\* GcInv holds of whatever is set, deleted, cleared and compacted away: an entry
\* in the map lies below the tail, sizes add up to it, and it is the last one set.
THEOREM GcInvariant == GcSpec => []GcInv
<1>1. GcInit => GcInv
  BY GcInitInv
<1>2. GcInv /\ [GcNext]_gcVars => GcInv'
  <2> SUFFICES ASSUME GcInv, [GcNext]_gcVars PROVE GcInv'
    OBVIOUS
  <2>1. ASSUME NEW key \in GcKeys, NEW n \in ValueLens, NEW exp \in Expiries, GcSet(key, n, exp) PROVE GcInv'
    BY <2>1, GcSetInv
  <2>2. ASSUME NEW hash \in GcHashes, GcDelete(hash) PROVE GcInv'
    BY <2>2, GcDeleteInv
  <2>3. CASE GcClear
    BY <2>3, GcClearInv
  <2>4. CASE GcTick \/ UNCHANGED gcVars
    <3>1. UNCHANGED <<hashmap, data, dataLen, tail, deleted, gcSize, deletes, clears, panicked,
                      latest, unfit, overflowed, leaks, miscounted>>
      BY <2>4 DEF GcTick, gcVars
    <3>2. Array' = Array
      BY <3>1 DEF Array
    <3> QED BY <3>1, <3>2 DEF GcInv, CountTypes, CountInTime
  <2>5. CASE GcDeleteSize \/ GcClearSize
    BY <2>5, GcSizeInv
  <2> QED BY <2>1, <2>2, <2>3, <2>4, <2>5 DEF GcNext
<1> QED BY <1>1, <1>2, PTL DEF GcSpec

\* The bytes of the entries in map m over the array d.
BytesOf(m, d) == MapThenSumSet(LAMBDA h : SizeAt(d, m[h]), DOMAIN m)

BytesSums(h, m, d) ==
  h = [s \in SUBSET DOMAIN m |-> IF s = {} THEN 0
                                 ELSE SizeAt(d, m[Chosen(s)]) + h[s \ {Chosen(s)}]]

\* The sizes as the model adds them up, and as they are added up here
LEMMA BytesAt == MapThenSumSet(LAMBDA h : SizeAt(data, hashmap[h]), DOMAIN hashmap) = BytesOf(hashmap, data)
BY DEF BytesOf, MapThenSumSet, MapThenFoldSet

\* The recursion under that sum.
LEMMA BytesIs ==
  ASSUME NEW m, NEW d, NEW g, BytesSums(g, m, d)
  PROVE  \E h : BytesSums(h, m, d) /\ BytesOf(m, d) = h[DOMAIN m]
BY DEF BytesOf, MapThenSumSet, MapThenFoldSet, BytesSums, Chosen

\* They are the sum of the sizes.
LEMMA BytesAreSum ==
  ASSUME NEW m, NEW d, IsFiniteSet(DOMAIN m), NEW f, \A h \in DOMAIN m : f[h] = SizeAt(d, m[h]) /\ f[h] \in Int
  PROVE  BytesOf(m, d) = SumOver(f, DOMAIN m)
<1>1. PICK S : S = DOMAIN m
  OBVIOUS
<1>2. \A s \in SUBSET S : s # {} => Chosen(s) \in S
  BY DEF Chosen
<1>3. \A h : BytesSums(h, m, d) <=> Sums(h, f, S)
  <2> SUFFICES ASSUME NEW h PROVE BytesSums(h, m, d) <=> Sums(h, f, S)
    OBVIOUS
  <2>1. \A s \in SUBSET S :
          (IF s = {} THEN 0 ELSE SizeAt(d, m[Chosen(s)]) + h[s \ {Chosen(s)}])
            = (IF s = {} THEN 0 ELSE f[Chosen(s)] + h[s \ {Chosen(s)}])
    BY <1>1, <1>2
  <2> QED BY <1>1, <2>1 DEF BytesSums, Sums
<1>4. IsFiniteSet(S) /\ \A h \in S : f[h] \in Int
  BY <1>1
<1>5. PICK g : BytesSums(g, m, d)
  BY <1>3, <1>4, SumsExist
<1>6. PICK h : BytesSums(h, m, d) /\ BytesOf(m, d) = h[DOMAIN m]
  BY <1>5, BytesIs
<1>7. PICK e : Sums(e, f, S) /\ SumOver(f, S) = e[S]
  BY <1>3, <1>5, SumIs
<1>8. Sums(h, f, S)
  BY <1>3, <1>6
<1>9. h[S] = e[S]
  BY <1>4, <1>7, <1>8, SumsAgree
<1> QED BY <1>1, <1>6, <1>7, <1>9

\* The invariant accounts for every byte below the tail.
LEMMA SpaceAdds == GcInv => SpaceAccounted
<1> SUFFICES ASSUME GcInv, ~panicked
             PROVE  tail = deleted + BytesOf(hashmap, data)
  BY BytesAt DEF SpaceAccounted
<1>1. PICK s, f, D : s = Array /\ f = SizesIn(s) /\ D = DOMAIN hashmap
  OBVIOUS
<1>2. s.map = hashmap /\ s.data = data /\ s.tail = tail /\ s.deleted = deleted
  BY <1>1 DEF Array
<1>3. ArrayInv(s, D)
  BY <1>1, <1>2 DEF GcInv, ShardInv
<1>4. IsFiniteSet(D) /\ (\A h \in D : EntryInv(s, h)) /\ s.tail = s.deleted + SumOver(f, D)
  BY <1>1, <1>3 DEF ArrayInv
<1>5. \A h \in D : f[h] = SizeAt(data, hashmap[h]) /\ f[h] \in Int
  <2>1. \A h \in D : f[h] = SizeOf(s, h) /\ f[h] \in Int
    BY <1>1, <1>4, EntrySizes
  <2> QED BY <1>2, <2>1 DEF SizeOf
<1>6. BytesOf(hashmap, data) = SumOver(f, D)
  BY <1>1, <1>4, <1>5, BytesAreSum
<1> QED BY <1>2, <1>3, <1>4, <1>6

\* SpaceAccounted: without a panic of a compaction that left too little room, the
\* entries in the map and the deleted bytes are what lies below the tail.
THEOREM SpaceAddsUp == GcSpec => []SpaceAccounted
BY GcInvariant, SpaceAdds, PTL

\* LenAccounted: although Delete and Clear change the count after they have left
\* the lock, Len is off by no more than the Deletes that have yet to count, except
\* for a Clear under way or overlapped and for entries that compact has dropped.
THEOREM LenAddsUp == GcSpec => []LenAccounted
<1>1. GcInv => LenAccounted
  BY DEF GcInv, CountInTime, LenAccounted
<1> QED BY <1>1, GcInvariant, PTL

\* The invariant has Get return what was set last.
LEMMA LastIsRead ==
  ASSUME GcInv, ~panicked, NEW key \in GcKeys
  PROVE  GcGet(key) = IF /\ key.hash \in DOMAIN latest \ unfit
                         /\ latest[key.hash].key = key
                         /\ latest[key.hash].exp = 0 \/ gcNow <= latest[key.hash].exp
                      THEN {latest[key.hash].valueLen} ELSE {}
<1>1. PICK s, h, l, u, o : s = Array /\ h = key.hash /\ l = latest /\ u = unfit /\ o = overflowed
  OBVIOUS
<1>2. s.map = hashmap /\ s.data = data /\ s.len = dataLen
  BY <1>1 DEF Array
<1>3. ShardInv(s, l, u, o)
  BY <1>1 DEF GcInv
<1>4. /\ \A g \in DOMAIN hashmap : EntryInv(s, g) /\ g \in DOMAIN l /\ l[g] = EntryOf(s, g) /\ (g \in u <=> ~Whole(s, g))
      /\ \A g \in DOMAIN l \ DOMAIN hashmap : g \in u
  BY <1>2, <1>3 DEF ShardInv, ArrayInv, HistoryInv
<1>5. CASE h \notin DOMAIN hashmap
  <2>1. GcGet(key) = {}
    BY <1>1, <1>5 DEF GcGet
  <2>2. key.hash \notin DOMAIN latest \ unfit
    BY <1>1, <1>4, <1>5
  <2> QED BY <2>1, <2>2
<1>6. CASE h \in DOMAIN hashmap
  <2>1. PICK e : e = data[hashmap[h]]
    OBVIOUS
  <2>2. e = l[h] /\ e.keyLen = e.key.len /\ h \in DOMAIN l
    BY <1>2, <1>4, <1>6, <2>1 DEF EntryInv, EntryOf
  <2>3. h \in DOMAIN l \ u <=> hashmap[h] + SizeAt(data, hashmap[h]) <= dataLen
    BY <1>2, <1>4, <1>6 DEF Whole, SizeOf
  <2>4. GcGet(key) = IF /\ hashmap[h] + SizeAt(data, hashmap[h]) <= dataLen
                        /\ e.key = key /\ e.keyLen = key.len
                        /\ e.exp = 0 \/ gcNow <= e.exp
                     THEN {e.valueLen} ELSE {}
    BY <1>1, <1>6, <2>1 DEF GcGet
  <2>5. GcGet(key) = IF h \in DOMAIN l \ u /\ e.key = key /\ (e.exp = 0 \/ gcNow <= e.exp)
                     THEN {e.valueLen} ELSE {}
    BY <2>2, <2>3, <2>4
  <2> QED BY <1>1, <2>2, <2>5
<1> QED BY <1>5, <1>6

\* ReadsLastSet: Get of a key returns what Set last wrote under its hash, if it was
\* of that key and has not expired, whatever was deleted and however often the
\* array was grown and compacted in between; it misses only what did not fit the
\* array that compact left, and entries with an empty key that compact dropped.
THEOREM LastSetIsRead == GcSpec => []ReadsLastSet
<1>1. GcInv => ReadsLastSet
  <2> SUFFICES ASSUME GcInv PROVE ReadsLastSet
    OBVIOUS
  <2>1. panicked => overflowed
    BY DEF GcInv
  <2>3. ~overflowed => \A h \in unfit : latest[h].key.len = 0
    <3>1. ~overflowed => ~panicked
      BY <2>1
    <3> QED BY <3>1 DEF GcInv, ShardInv, HistoryInv
  <2> QED BY <2>1, <2>3, LastIsRead DEF ReadsLastSet
<1> QED BY <1>1, GcInvariant, PTL

-----------------------------------------------------------------------------
(* Iterator.                                                               *)

\* The lesser of two numbers.
LEMMA MinOfTwo ==
  ASSUME NEW a \in Nat, NEW b \in Nat
  PROVE  Min({a, b}) = IF a <= b THEN a ELSE b
<1>1. PICK c : c = IF a <= b THEN a ELSE b
  OBVIOUS
<1>2. c \in {a, b} /\ \A y \in {a, b} : c <= y
  BY <1>1
<1>3. \A x \in {a, b} : (\A y \in {a, b} : x <= y) => x = c
  BY <1>1
<1> QED BY <1>1, <1>2, <1>3 DEF Min

\* An element is in a sequence, in no more than one place, and is wanted.
In(s, k) == \E m \in DOMAIN s : s[m] = k
Once(s, k) == \A m, n \in DOMAIN s : s[m] = k /\ s[n] = k => m = n
Within(s, w) == \A k : In(s, k) => k \in w

LEMMA InBoth ==
  ASSUME NEW S, NEW s \in Seq(S), NEW t \in Seq(S), NEW k
  PROVE  In(s \o t, k) <=> In(s, k) \/ In(t, k)
<1>0. PICK a \in Nat, b \in Nat : a = Len(s) /\ b = Len(t)
  BY LenProperties
<1>1. PICK u : u = s \o t
  OBVIOUS
<1>2. /\ DOMAIN s = 1 .. a /\ DOMAIN t = 1 .. b /\ DOMAIN u = 1 .. a + b
      /\ \A m \in 1 .. a + b : u[m] = IF m <= a THEN s[m] ELSE t[m - a]
  BY <1>0, <1>1, ConcatProperties, LenProperties
<1>3. ASSUME In(u, k) PROVE In(s, k) \/ In(t, k)
  <2>1. PICK m \in 1 .. a + b : u[m] = k
    BY <1>2, <1>3 DEF In
  <2>2. CASE m <= a
    BY <1>2, <2>1, <2>2 DEF In
  <2>3. CASE ~(m <= a)
    <3>1. m - a \in 1 .. b /\ t[m - a] = k
      BY <1>2, <2>1, <2>3
    <3> QED BY <1>2, <3>1 DEF In
  <2> QED BY <2>2, <2>3
<1>4. ASSUME In(s, k) PROVE In(u, k)
  <2>1. PICK m \in 1 .. a : s[m] = k
    BY <1>2, <1>4 DEF In
  <2>2. m \in 1 .. a + b /\ u[m] = k
    BY <1>2, <2>1
  <2> QED BY <1>2, <2>2 DEF In
<1>5. ASSUME In(t, k) PROVE In(u, k)
  <2>1. PICK m \in 1 .. b : t[m] = k
    BY <1>2, <1>5 DEF In
  <2>2. a + m \in 1 .. a + b /\ u[a + m] = k
    BY <1>2, <2>1
  <2> QED BY <1>2, <2>2 DEF In
<1> QED BY <1>1, <1>3, <1>4, <1>5

LEMMA OnceBoth ==
  ASSUME NEW S, NEW s \in Seq(S), NEW t \in Seq(S), NEW k
  PROVE  Once(s \o t, k) <=> Once(s, k) /\ Once(t, k) /\ ~(In(s, k) /\ In(t, k))
<1>0. PICK a \in Nat, b \in Nat : a = Len(s) /\ b = Len(t)
  BY LenProperties
<1>1. PICK u : u = s \o t
  OBVIOUS
<1>2. /\ DOMAIN s = 1 .. a /\ DOMAIN t = 1 .. b /\ DOMAIN u = 1 .. a + b
      /\ \A m \in 1 .. a + b : u[m] = IF m <= a THEN s[m] ELSE t[m - a]
  BY <1>0, <1>1, ConcatProperties, LenProperties
<1>3. /\ \A m \in 1 .. a : m \in 1 .. a + b /\ u[m] = s[m]
      /\ \A m \in 1 .. b : a + m \in 1 .. a + b /\ u[a + m] = t[m]
  BY <1>2
<1>4. ASSUME Once(u, k) PROVE Once(s, k) /\ Once(t, k) /\ ~(In(s, k) /\ In(t, k))
  <2>1. \A m, n \in 1 .. a + b : u[m] = k /\ u[n] = k => m = n
    BY <1>2, <1>4 DEF Once
  <2>2. \A m, n \in 1 .. a : s[m] = k /\ s[n] = k => m = n
    BY <1>3, <2>1
  <2>3. ASSUME NEW m \in 1 .. b, NEW n \in 1 .. b, t[m] = k, t[n] = k PROVE m = n
    <3>1. a + m = a + n
      BY <1>3, <2>1, <2>3
    <3> QED BY <3>1
  <2>4. ASSUME NEW m \in 1 .. a, NEW n \in 1 .. b, s[m] = k, t[n] = k PROVE FALSE
    <3>1. m = a + n
      BY <1>3, <2>1, <2>4
    <3> QED BY <3>1
  <2> QED BY <1>2, <2>2, <2>3, <2>4 DEF Once, In
<1>5. ASSUME Once(s, k), Once(t, k), ~(In(s, k) /\ In(t, k)) PROVE Once(u, k)
  <2>1. /\ \A m, n \in 1 .. a : s[m] = k /\ s[n] = k => m = n
        /\ \A m, n \in 1 .. b : t[m] = k /\ t[n] = k => m = n
        /\ \A m \in 1 .. a, n \in 1 .. b : ~(s[m] = k /\ t[n] = k)
    BY <1>2, <1>5 DEF Once, In
  <2>2. SUFFICES ASSUME NEW m \in 1 .. a + b, NEW n \in 1 .. a + b, u[m] = k, u[n] = k
                 PROVE  m = n
    BY <1>2 DEF Once
  <2>3. /\ m <= a => m \in 1 .. a /\ s[m] = k
        /\ n <= a => n \in 1 .. a /\ s[n] = k
        /\ ~(m <= a) => m - a \in 1 .. b /\ t[m - a] = k
        /\ ~(n <= a) => n - a \in 1 .. b /\ t[n - a] = k
    BY <1>2, <2>2
  <2>4. CASE m <= a /\ n <= a
    BY <2>1, <2>3, <2>4
  <2>5. CASE ~(m <= a) /\ ~(n <= a)
    <3>1. m - a = n - a
      BY <2>1, <2>3, <2>5
    <3> QED BY <3>1
  <2>6. CASE ~((m <= a) <=> (n <= a))
    BY <2>1, <2>3, <2>6
  <2> QED BY <2>4, <2>5, <2>6
<1> QED BY <1>1, <1>4, <1>5

LEMMA InOne ==
  ASSUME NEW x, NEW k
  PROVE  (In(<<x>>, k) <=> k = x) /\ Once(<<x>>, k)
<1>1. PICK s : s = <<x>>
  OBVIOUS
<1>2. DOMAIN s = {1} /\ s[1] = x
  BY <1>1
<1> QED BY <1>1, <1>2 DEF In, Once

LEMMA InNone ==
  ASSUME NEW k
  PROVE  ~In(<<>>, k) /\ Once(<<>>, k)
BY DEF In, Once

LEMMA WithinBoth ==
  ASSUME NEW S, NEW s \in Seq(S), NEW t \in Seq(S), NEW w
  PROVE  Within(s \o t, w) <=> Within(s, w) /\ Within(t, w)
BY InBoth DEF Within

\* A part of a sequence.
LEMMA PartOfSeq ==
  ASSUME NEW S, NEW q \in Seq(S), NEW j \in Nat, NEW e \in 0 .. Len(q)
  PROVE  /\ SubSeq(q, j + 1, e) \in Seq(S)
         /\ Len(SubSeq(q, j + 1, e)) = (IF j < e THEN e - j ELSE 0)
         /\ \A m \in 1 .. e - j : SubSeq(q, j + 1, e)[m] = q[j + m]
<1>1. Len(q) \in Nat /\ \A i \in 1 .. Len(q) : q[i] \in S
  BY LenProperties
<1>2. PICK a : a = j + 1
  OBVIOUS
<1>3. a \in Int /\ e \in Int /\ \A i \in a .. e : q[i] \in S
  BY <1>1, <1>2
<1>4. /\ SubSeq(q, a, e) \in Seq(S) /\ Len(SubSeq(q, a, e)) = (IF a <= e THEN e - a + 1 ELSE 0)
      /\ \A i \in 1 .. e - a + 1 : SubSeq(q, a, e)[i] = q[a + i - 1]
  BY <1>3, SubSeqProperties
<1>5. e - a + 1 = e - j /\ (a <= e <=> j < e)
  BY <1>1, <1>2
<1>6. \A i \in 1 .. e - j : a + i - 1 = j + i
  BY <1>1, <1>2
<1> QED BY <1>1, <1>2, <1>4, <1>5, <1>6

\* What is behind place p of a page: nothing, or the next entry first.
LEMMA PageEnds ==
  ASSUME NEW S, NEW s \in Seq(S), NEW p \in Nat, p + 1 >= Len(s)
  PROVE  SubSeq(s, p + 2, Len(s)) = <<>>
<1>1. Len(s) \in Nat
  BY LenProperties
<1>2. PICK a, b : a = p + 2 /\ b = Len(s)
  OBVIOUS
<1>3. a \in Int /\ b \in Int /\ b < a
  BY <1>1, <1>2
<1> QED BY <1>2, <1>3, SubSeqEmpty

LEMMA PageGoesOn ==
  ASSUME NEW S, NEW y \in Seq(S), NEW s \in Seq(S), NEW p \in Nat, p + 1 < Len(s)
  PROVE  /\ s[p + 2] \in S /\ Append(y, s[p + 2]) \in Seq(S)
         /\ Append(y, s[p + 2]) \o SubSeq(s, (p + 1) + 2, Len(s)) = y \o SubSeq(s, p + 2, Len(s))
<1>1. Len(s) \in Nat /\ \A i \in 1 .. Len(s) : s[i] \in S
  BY LenProperties
<1>2. PICK a, b, x : a = p + 2 /\ b = Len(s) /\ x = s[p + 2]
  OBVIOUS
<1>3. a \in 1 .. Len(s) /\ b \in a .. Len(s) /\ x \in S
  BY <1>1, <1>2
<1>4. SubSeq(s, a, b) = <<s[a]>> \o SubSeq(s, a + 1, b)
  BY <1>3, SubSeqRecursiveFirst
<1>5. PICK r : r = SubSeq(s, a + 1, b)
  OBVIOUS
<1>6. r \in Seq(S)
  <2>1. a \in Nat /\ b \in 0 .. Len(s)
    BY <1>3
  <2> QED BY <1>5, <2>1, PartOfSeq
<1>7. (y \o <<x>>) \o r = y \o (<<x>> \o r)
  BY <1>3, <1>6, ConcatAssociative
<1>8. Append(y, x) = y \o <<x>> /\ Append(y, x) \in Seq(S)
  BY <1>3, AppendIsConcat, AppendProperties
<1>9. a + 1 = (p + 1) + 2
  BY <1>2
<1> QED BY <1>2, <1>3, <1>4, <1>5, <1>7, <1>8, <1>9

\* The first entry of a sequence goes to the end of another.
LEMMA FirstMoves ==
  ASSUME NEW S, NEW y \in Seq(S), NEW x \in S, NEW q \in Seq(S), NEW r \in Seq(S),
         NEW p, p = <<x>> \o q
  PROVE  (Append(y, x) \o q) \o r = y \o (p \o r)
<1>1. <<x>> \in Seq(S) /\ <<x>> \o q \in Seq(S)
  BY ConcatProperties
<1>2. (y \o <<x>>) \o q = y \o (<<x>> \o q)
  BY <1>1, ConcatAssociative
<1>3. (y \o (<<x>> \o q)) \o r = y \o ((<<x>> \o q) \o r)
  BY <1>1, ConcatAssociative
<1> QED BY <1>2, <1>3, AppendIsConcat

\* A page of so many entries off a buffer, of which Next moves to the first.
OffBuffer(b, n, p, r) == n \in 1 .. Len(b) /\ p = SubSeq(b, 1, n) /\ r = SubSeq(b, n + 1, Len(b))

ServedOff(y, b, p, r) ==
  /\ p \in Seq(IterKeys) /\ r \in Seq(IterKeys) /\ Append(y, b[1]) \in Seq(IterKeys)
  /\ (Append(y, b[1]) \o SubSeq(p, 2, Len(p))) \o r = y \o b

LEMMA PageOffBuffer ==
  ASSUME NEW y \in Seq(IterKeys), NEW b \in Seq(IterKeys), NEW n, NEW p, NEW r, OffBuffer(b, n, p, r)
  PROVE  ServedOff(y, b, p, r)
<1>0. PICK l : l = Len(b)
  OBVIOUS
<1>1. Len(b) \in Nat /\ n \in Nat /\ n \in 1 .. Len(b) /\ \A i \in 1 .. Len(b) : b[i] \in IterKeys
  BY LenProperties DEF OffBuffer
<1>2. p = SubSeq(b, 1, n) /\ r = SubSeq(b, n + 1, l) /\ l = Len(b)
  BY <1>0 DEF OffBuffer
<1>3. p \in Seq(IterKeys) /\ Len(p) = n /\ p[1] = b[1]
  <2>1. 0 \in Nat /\ n \in 0 .. Len(b)
    BY <1>1
  <2>2. /\ SubSeq(b, 0 + 1, n) \in Seq(IterKeys)
        /\ Len(SubSeq(b, 0 + 1, n)) = (IF 0 < n THEN n - 0 ELSE 0)
        /\ \A m \in 1 .. n - 0 : SubSeq(b, 0 + 1, n)[m] = b[0 + m]
    BY <2>1, PartOfSeq
  <2>3. 0 + 1 = 1 /\ n - 0 = n /\ 1 \in 1 .. n /\ 0 + 1 = 1 /\ 0 < n
    BY <1>1
  <2> QED BY <1>2, <2>2, <2>3
<1>4. r \in Seq(IterKeys)
  <2>1. l \in 0 .. Len(b)
    BY <1>1, <1>2
  <2> QED BY <1>1, <1>2, <2>1, PartOfSeq
<1>5. p \o r = b
  <2>1. 1 \in 1 .. Len(b) + 1 /\ n \in 1 - 1 .. Len(b) /\ l \in n .. Len(b)
    BY <1>1, <1>2
  <2>2. SubSeq(b, 1, n) \o SubSeq(b, n + 1, l) = SubSeq(b, 1, l)
    BY <2>1, ConcatAdjacentSubSeq
  <2> QED BY <1>2, <2>2, SubSeqFull
<1>6. PICK x, q : x = b[1] /\ q = SubSeq(p, 2, n)
  OBVIOUS
<1>7. x \in IterKeys /\ p = <<x>> \o q /\ q \in Seq(IterKeys)
  <2>1. 1 \in 1 .. Len(p) /\ n \in 1 .. Len(p) /\ 1 \in Nat /\ n \in 0 .. Len(p)
    BY <1>1, <1>3
  <2>2. SubSeq(p, 1, n) = <<p[1]>> \o SubSeq(p, 1 + 1, n)
    BY <1>3, <2>1, SubSeqRecursiveFirst
  <2>3. SubSeq(p, 1, n) = p
    BY <1>3, SubSeqFull
  <2>4. SubSeq(p, 1 + 1, n) \in Seq(IterKeys)
    BY <1>3, <2>1, PartOfSeq
  <2>5. 1 + 1 = 2 /\ 1 \in 1 .. Len(b)
    BY <1>1
  <2> QED BY <1>1, <1>3, <1>6, <2>2, <2>3, <2>4, <2>5
<1>8. Append(y, x) \in Seq(IterKeys)
  BY <1>7, AppendProperties
<1>9. (Append(y, x) \o q) \o r = y \o b
  <2>1. (Append(y, x) \o q) \o r = y \o (p \o r)
    BY <1>4, <1>7, FirstMoves
  <2> QED BY <1>5, <2>1
<1> QED BY <1>2, <1>3, <1>4, <1>6, <1>8, <1>9 DEF ServedOff

\* The first entry of a list goes from its front to the end of another.
HeadGoes(a, b, e) ==
  /\ Head(e) \in IterKeys /\ Tail(e) \in Seq(IterKeys) /\ Append(b, Head(e)) \in Seq(IterKeys)
  /\ e = <<Head(e)>> \o Tail(e)
  /\ (a \o Append(b, Head(e))) \o Tail(e) = (a \o b) \o e

LEMMA HeadMoves ==
  ASSUME NEW a \in Seq(IterKeys), NEW b \in Seq(IterKeys), NEW e \in Seq(IterKeys), e # <<>>
  PROVE  HeadGoes(a, b, e)
<1>1. Head(e) \in IterKeys /\ Tail(e) \in Seq(IterKeys) /\ Tail(e) = SubSeq(e, 2, Len(e))
  BY HeadTailProperties, TailIsSubSeq
<1>2. PICK x, q : x = Head(e) /\ q = Tail(e)
  OBVIOUS
<1>3. e = <<x>> \o q
  <2>1. Len(e) \in Nat /\ Len(e) # 0
    BY LenProperties, EmptySeq
  <2>2. PICK l : l = Len(e)
    OBVIOUS
  <2>3. 1 \in 1 .. Len(e) /\ l \in 1 .. Len(e)
    BY <2>1, <2>2
  <2>4. SubSeq(e, 1, l) = <<e[1]>> \o SubSeq(e, 1 + 1, l)
    BY <2>3, SubSeqRecursiveFirst
  <2>5. SubSeq(e, 1, l) = e
    BY <2>2, SubSeqFull
  <2>6. e[1] = x /\ 1 + 1 = 2
    BY <1>2
  <2> QED BY <1>1, <1>2, <2>2, <2>4, <2>5, <2>6
<1>4. x \in IterKeys /\ q \in Seq(IterKeys) /\ <<x>> \in Seq(IterKeys)
  BY <1>1, <1>2
<1>5. Append(b, x) = b \o <<x>> /\ Append(b, x) \in Seq(IterKeys)
  BY <1>4, AppendIsConcat, AppendProperties
<1>6. (a \o (b \o <<x>>)) \o q = (a \o b) \o e
  <2>1. a \o (b \o <<x>>) = (a \o b) \o <<x>>
    BY <1>4, ConcatAssociative
  <2>2. PICK c : c = a \o b
    OBVIOUS
  <2>3. c \in Seq(IterKeys)
    BY <2>2, ConcatProperties
  <2>4. (c \o <<x>>) \o q = c \o (<<x>> \o q)
    BY <1>4, <2>3, ConcatAssociative
  <2> QED BY <1>3, <2>1, <2>2, <2>4
<1> QED BY <1>2, <1>3, <1>4, <1>5, <1>6 DEF HeadGoes

-----------------------------------------------------------------------------
(* The line of entries that have come through the scans.                   *)

KeysOf(s, i) == {k \in s : ShardOf(k) = i}

\* Scans that are at entry j of shard i have not come to the key.
ToScan(k, i, j) == ShardOf(k) > i \/ (ShardOf(k) = i /\ j = 0)

\* Of the shards seen in one piece no key is twice in the line, each steady one is that
\* the scans have come to, and the cursor is not before entries of its shard.
Lined(line, i, j, over, s, steady, seams) ==
  /\ \A k \in IterKeys : ShardOf(k) \notin seams =>
       /\ Once(line, k)
       /\ ~over /\ ToScan(k, i, j) => ~In(line, k)
       /\ k \in steady /\ (over \/ ~ToScan(k, i, j)) => In(line, k)
  /\ ~over /\ j > 0 /\ i \notin seams => Cardinality(KeysOf(s, i)) <= j

LEMMA ShardIs ==
  /\ \A k \in IterKeys : k \in Nat /\ ShardOf(k) \in Nat /\ ShardOf(k) < NumShards
  /\ NumShards \in Nat \ {0}
BY IteratorAssumption DEF ShardOf

\* What a scan takes of a shard it visits in this order, if it has room for so many.
TakenOf(order, j, room) == SubSeq(order, j + 1, Min({Len(order), j + room}))

TakesRight(s, i, order, j, room, n, T) ==
  /\ n \in Nat /\ Len(order) = n /\ T \in Seq(IterKeys) /\ Len(T) \in Nat
  /\ \A k : Once(T, k) /\ (In(T, k) => ShardOf(k) = i)
  /\ j = 0 /\ Len(T) >= n => \A k \in KeysOf(s, i) : In(T, k)
  /\ Len(T) = 0 <=> n <= j
  /\ Len(T) # 0 /\ Len(T) < room => j + Len(T) = n

LEMMA ScanTakes ==
  ASSUME NEW s, s \subseteq IterKeys, NEW i, NEW order \in SetToSeqs(KeysOf(s, i)),
         NEW j \in Nat, NEW room \in Nat \ {0}, NEW n, n = Cardinality(KeysOf(s, i)),
         NEW T, T = TakenOf(order, j, room)
  PROVE  TakesRight(s, i, order, j, room, n, T)
<1>1. PICK S : S = KeysOf(s, i)
  OBVIOUS
<1>2. S \subseteq IterKeys /\ (\A k \in S : ShardOf(k) = i) /\ IsFiniteSet(S)
  BY <1>1, IteratorAssumption, FS_Subset DEF KeysOf
<1>3. /\ n \in Nat /\ DOMAIN order = 1 .. n
      /\ \A a, b \in 1 .. n : a # b => order[a] # order[b]
      /\ UpTo(order, n) = S
  BY <1>1, <1>2, OrderOfSet
<1>4. order \in [1 .. n -> S]
  BY <1>1 DEF SetToSeqs
<1>5. order \in Seq(S) /\ order \in Seq(IterKeys) /\ Len(order) = n
  <2>1. order \in [1 .. n -> IterKeys]
    BY <1>2, <1>4
  <2> QED BY <1>3, <1>4, <2>1, SeqDef, LenProperties
<1>6. PICK e : e = IF n <= j + room THEN n ELSE j + room
  OBVIOUS
<1>7. Min({Len(order), j + room}) = e /\ e \in 0 .. n /\ e \in Nat
  <2>1. PICK u : u = j + room
    OBVIOUS
  <2>2. u \in Nat
    BY <2>1
  <2>3. Min({n, u}) = IF n <= u THEN n ELSE u
    BY <1>3, <2>2, MinOfTwo
  <2>4. e \in 0 .. n /\ e \in Nat
    BY <1>3, <1>6, <2>1, <2>2
  <2> QED BY <1>5, <1>6, <2>1, <2>3, <2>4
<1>8. T = SubSeq(order, j + 1, e)
  BY <1>7 DEF TakenOf
<1>9. /\ T \in Seq(IterKeys) /\ T \in Seq(S)
      /\ Len(T) = (IF j < e THEN e - j ELSE 0)
      /\ \A m \in 1 .. e - j : T[m] = order[j + m]
  <2>1. e \in 0 .. Len(order)
    BY <1>5, <1>7
  <2>2. /\ SubSeq(order, j + 1, e) \in Seq(IterKeys)
        /\ Len(SubSeq(order, j + 1, e)) = (IF j < e THEN e - j ELSE 0)
        /\ \A m \in 1 .. e - j : SubSeq(order, j + 1, e)[m] = order[j + m]
    BY <1>5, <2>1, PartOfSeq
  <2>3. SubSeq(order, j + 1, e) \in Seq(S)
    BY <1>5, <2>1, PartOfSeq
  <2> QED BY <1>8, <2>2, <2>3
<1>10. PICK l : l = Len(T)
  OBVIOUS
<1>11. /\ l \in Nat /\ DOMAIN T = 1 .. l
       /\ \A m \in 1 .. l : T[m] = order[j + m] /\ j + m \in 1 .. n /\ T[m] \in S
  <2>1. l \in Nat /\ DOMAIN T = 1 .. l /\ \A m \in 1 .. l : T[m] \in S
    BY <1>9, <1>10, LenProperties
  <2>2. \A m \in 1 .. l : m \in 1 .. e - j /\ j + m \in 1 .. n
    BY <1>3, <1>7, <1>9, <1>10
  <2> QED BY <1>9, <2>1, <2>2
<1>12. ASSUME NEW k PROVE Once(T, k) /\ (In(T, k) => ShardOf(k) = i)
  <2>1. ASSUME NEW a \in 1 .. l, NEW b \in 1 .. l, T[a] = T[b] PROVE a = b
    <3>1. j + a = j + b
      BY <1>3, <1>11, <2>1
    <3> QED BY <1>11, <3>1
  <2>2. Once(T, k)
    <3>1. ASSUME NEW a \in 1 .. l, NEW b \in 1 .. l, T[a] = k, T[b] = k PROVE a = b
      BY <2>1, <3>1
    <3> QED BY <1>11, <3>1 DEF Once
  <2>3. In(T, k) => k \in S
    BY <1>11 DEF In
  <2> QED BY <1>2, <2>2, <2>3
<1>13. ASSUME j = 0, l >= n, NEW k \in S PROVE In(T, k)
  <2>1. PICK a \in 1 .. n : order[a] = k
    BY <1>3, <1>13 DEF UpTo
  <2>2. a \in 1 .. l /\ T[a] = k
    <3>1. a \in 1 .. l /\ j + a = a
      BY <1>3, <1>11, <1>13
    <3> QED BY <1>11, <2>1, <3>1
  <2> QED BY <1>11, <2>2 DEF In
<1>14. (l = 0 <=> n <= j) /\ (l # 0 /\ l < room => j + l = n)
  BY <1>3, <1>6, <1>9, <1>10
<1> QED BY <1>1, <1>3, <1>5, <1>9, <1>10, <1>11, <1>12, <1>13, <1>14 DEF TakesRight

\* The line behind a scan that goes on to the next shard...
LEMMA ScanGoesOn ==
  ASSUME NEW line \in Seq(IterKeys), NEW T \in Seq(IterKeys), NEW i \in Nat, NEW j \in Nat, NEW n \in Nat,
         NEW s, NEW steady, steady \subseteq s, s \subseteq IterKeys, NEW seams,
         n = Cardinality(KeysOf(s, i)), Lined(line, i, j, FALSE, s, steady, seams),
         \A k : Once(T, k) /\ (In(T, k) => ShardOf(k) = i),
         j = 0 => \A k \in KeysOf(s, i) : In(T, k),
         n <= j => T = <<>>
  PROVE  Lined(line \o T, i + 1, 0, FALSE, s, steady, seams)
<1>1. SUFFICES ASSUME NEW k \in IterKeys, ShardOf(k) \notin seams
               PROVE  /\ Once(line \o T, k)
                      /\ ToScan(k, i + 1, 0) => ~In(line \o T, k)
                      /\ k \in steady /\ ~ToScan(k, i + 1, 0) => In(line \o T, k)
  BY DEF Lined
<1>2. /\ In(line \o T, k) <=> In(line, k) \/ In(T, k)
      /\ Once(line \o T, k) <=> Once(line, k) /\ Once(T, k) /\ ~(In(line, k) /\ In(T, k))
  BY InBoth, OnceBoth
<1>3. /\ Once(line, k) /\ Once(T, k) /\ (In(T, k) => ShardOf(k) = i)
      /\ ToScan(k, i, j) => ~In(line, k)
      /\ k \in steady /\ ~ToScan(k, i, j) => In(line, k)
  BY <1>1 DEF Lined
<1>4. ShardOf(k) \in Nat
  BY ShardIs
<1>5. CASE ShardOf(k) # i
  <2>1. ToScan(k, i + 1, 0) <=> ToScan(k, i, j)
    BY <1>4, <1>5 DEF ToScan
  <2> QED BY <1>2, <1>3, <1>5, <2>1
<1>6. CASE ShardOf(k) = i
  <2>1. ~ToScan(k, i + 1, 0)
    BY <1>4, <1>6 DEF ToScan
  <2>2. CASE j = 0
    <3>1. ToScan(k, i, j)
      BY <1>6, <2>2 DEF ToScan
    <3>2. k \in steady => In(T, k)
      BY <1>6, <2>2 DEF KeysOf
    <3> QED BY <1>2, <1>3, <2>1, <3>1, <3>2
  <2>3. CASE j # 0
    <3>1. n <= j
      BY <1>1, <1>6, <2>3 DEF Lined
    <3>2. ~In(T, k)
      BY <3>1, InNone
    <3>3. ~ToScan(k, i, j)
      BY <1>4, <1>6, <2>3 DEF ToScan
    <3> QED BY <1>2, <1>3, <2>1, <3>2, <3>3
  <2> QED BY <2>2, <2>3
<1> QED BY <1>5, <1>6

\* ... and behind one that stops in this one, which then is cut if the scan stops
\* before its end.
LEMMA ScanStops ==
  ASSUME NEW line \in Seq(IterKeys), NEW T \in Seq(IterKeys), NEW i \in Nat, NEW j \in Nat, NEW n \in Nat,
         NEW l \in Nat \ {0}, NEW s, NEW steady, steady \subseteq s, s \subseteq IterKeys, NEW seams, NEW seen,
         n = Cardinality(KeysOf(s, i)), Lined(line, i, j, FALSE, s, steady, seams),
         \A k : Once(T, k) /\ (In(T, k) => ShardOf(k) = i),
         j = 0 /\ l >= n => \A k \in KeysOf(s, i) : In(T, k),
         j < n, seams \subseteq seen, i \in seen \/ j + l >= n
  PROVE  Lined(line \o T, i, j + l, FALSE, s, steady, seen)
<1>1. i \notin seen => Cardinality(KeysOf(s, i)) <= j + l
  OBVIOUS
<1>2. SUFFICES ASSUME NEW k \in IterKeys, ShardOf(k) \notin seen
               PROVE  /\ Once(line \o T, k)
                      /\ ToScan(k, i, j + l) => ~In(line \o T, k)
                      /\ k \in steady /\ ~ToScan(k, i, j + l) => In(line \o T, k)
  BY <1>1 DEF Lined
<1>3. /\ In(line \o T, k) <=> In(line, k) \/ In(T, k)
      /\ Once(line \o T, k) <=> Once(line, k) /\ Once(T, k) /\ ~(In(line, k) /\ In(T, k))
  BY InBoth, OnceBoth
<1>4. /\ Once(line, k) /\ Once(T, k) /\ (In(T, k) => ShardOf(k) = i)
      /\ ToScan(k, i, j) => ~In(line, k)
      /\ k \in steady /\ ~ToScan(k, i, j) => In(line, k)
  BY <1>2 DEF Lined
<1>5. ShardOf(k) \in Nat
  BY ShardIs
<1>6. CASE ShardOf(k) # i
  <2>1. ToScan(k, i, j + l) <=> ToScan(k, i, j)
    BY <1>5, <1>6 DEF ToScan
  <2> QED BY <1>3, <1>4, <1>6, <2>1
<1>7. CASE ShardOf(k) = i
  <2>1. ~ToScan(k, i, j + l)
    BY <1>5, <1>7 DEF ToScan
  <2>2. i \notin seams /\ j + l >= n
    BY <1>2, <1>7
  <2>3. j = 0
    BY <2>2 DEF Lined
  <2>4. ToScan(k, i, j)
    BY <1>7, <2>3 DEF ToScan
  <2>5. k \in steady => In(T, k)
    BY <1>7, <2>2, <2>3 DEF KeysOf
  <2> QED BY <1>3, <1>4, <2>1, <2>4, <2>5
<1> QED BY <1>6, <1>7

\* When the scans are behind the last shard, the line is complete.
LEMMA ScanCompletes ==
  ASSUME NEW line, NEW j, NEW s, NEW steady, NEW seams, Lined(line, NumShards, j, FALSE, s, steady, seams)
  PROVE  Lined(line, 0, 0, TRUE, s, steady, seams)
<1>1. \A k \in IterKeys : ~ToScan(k, NumShards, j)
  BY ShardIs DEF ToScan
<1> QED BY <1>1 DEF Lined

\* An entry that is not steady may go from the line.
LEMMA LineDrops ==
  ASSUME NEW a \in Seq(IterKeys), NEW x \in IterKeys, NEW q \in Seq(IterKeys), NEW e, e = <<x>> \o q,
         NEW i, NEW j, NEW over, NEW s, NEW steady, NEW seams, x \notin steady,
         Lined(a \o e, i, j, over, s, steady, seams)
  PROVE  Lined(a \o q, i, j, over, s, steady, seams)
<1>1. <<x>> \in Seq(IterKeys) /\ e \in Seq(IterKeys)
  BY ConcatProperties
<1>2. ASSUME NEW k
      PROVE  /\ In(a \o e, k) <=> In(a, k) \/ k = x \/ In(q, k)
             /\ In(a \o q, k) <=> In(a, k) \/ In(q, k)
             /\ Once(a \o e, k) => Once(a \o q, k)
  <2>1. /\ In(e, k) <=> In(<<x>>, k) \/ In(q, k)
        /\ Once(e, k) => Once(q, k)
    BY <1>1, InBoth, OnceBoth
  <2>2. In(<<x>>, k) <=> k = x
    BY InOne
  <2>3. /\ In(a \o e, k) <=> In(a, k) \/ In(e, k)
        /\ Once(a \o e, k) <=> Once(a, k) /\ Once(e, k) /\ ~(In(a, k) /\ In(e, k))
    BY <1>1, InBoth, OnceBoth
  <2>4. /\ In(a \o q, k) <=> In(a, k) \/ In(q, k)
        /\ Once(a \o q, k) <=> Once(a, k) /\ Once(q, k) /\ ~(In(a, k) /\ In(q, k))
    BY InBoth, OnceBoth
  <2> QED BY <2>1, <2>2, <2>3, <2>4
<1> QED BY <1>2 DEF Lined

\* What others do to the store takes nothing from the line.
LEMMA LineLasts ==
  ASSUME NEW line, NEW i, NEW j \in Nat, NEW over, NEW s, NEW steady, NEW seams, NEW t, NEW less, NEW seen,
         Lined(line, i, j, over, s, steady, seams), s \subseteq IterKeys, t \subseteq IterKeys,
         less \subseteq steady, seams \subseteq seen,
         j > 0 /\ i \notin seen => KeysOf(t, i) \subseteq KeysOf(s, i)
  PROVE  Lined(line, i, j, over, t, less, seen)
<1>1. ASSUME ~over, j > 0, i \notin seen PROVE Cardinality(KeysOf(t, i)) <= j
  <2>1. PICK F, G : F = KeysOf(t, i) /\ G = KeysOf(s, i)
    OBVIOUS
  <2>2. F \subseteq G /\ G \subseteq IterKeys /\ Cardinality(G) <= j
    BY <1>1, <2>1 DEF Lined, KeysOf
  <2>3. IsFiniteSet(G) /\ IsFiniteSet(F)
    BY <2>2, IteratorAssumption, FS_Subset
  <2>4. Cardinality(F) \in Nat /\ Cardinality(G) \in Nat /\ Cardinality(F) <= Cardinality(G)
    BY <2>2, <2>3, FS_CardinalityType, FS_Subset
  <2> QED BY <2>1, <2>2, <2>4
<1>2. \A k \in IterKeys : ShardOf(k) \notin seen =>
        /\ Once(line, k)
        /\ ~over /\ ToScan(k, i, j) => ~In(line, k)
        /\ k \in less /\ (over \/ ~ToScan(k, i, j)) => In(line, k)
  BY DEF Lined
<1> QED BY <1>1, <1>2 DEF Lined

-----------------------------------------------------------------------------
(* The inductive invariant of the iterator.                                *)

Iterators == [byPrefix : BOOLEAN, count : Nat \ {0}, prefix : SUBSET IterKeys, pattern : SUBSET IterKeys,
              shard : Nat, item : Nat, buffer : Seq(IterKeys), page : Seq(IterKeys), pos : Nat,
              done : BOOLEAN]

IterTypes ==
  /\ iter \in Iterators /\ stored \subseteq IterKeys
  /\ yielded \in Seq(IterKeys) /\ ended \in Nat

\* What Next has moved to and will move to on this page, and whether that is all of it
RestOfPage == SubSeq(iter.page, iter.pos + 2, Len(iter.page))
Served == yielded \o RestOfPage
AtEnd == iter.pos + 1 >= Len(iter.page)

\* The keys that match and that nobody has touched
Steady == (stored \cap Wanted) \ (expired \cup replaced)

\* Next has not been called...
ScanUser ==
  /\ fetch = NoFetch /\ (ended > 0 => iter.done /\ AtEnd)
  /\ Lined(Served \o iter.buffer, iter.shard, iter.item, iter.done, stored, Steady, cut)

\* ... or is about to serve a page from the buffer...
ScanServing ==
  /\ fetch = [pc |-> "serve"] /\ ended = 0 /\ AtEnd /\ (iter.buffer # <<>> \/ iter.done)
  /\ Lined(Served \o iter.buffer, iter.shard, iter.item, iter.done, stored, Steady, cut)

\* ... or scans to fill it...
ScanScanning ==
  /\ ended = 0 /\ AtEnd /\ ~iter.done /\ iter.buffer = <<>>
  /\ \E i, j \in Nat, e \in Seq(IterKeys) :
       /\ fetch = [pc |-> "scan", shard |-> i, item |-> j, entries |-> e]
       /\ Len(e) < 2 * iter.count
       /\ Lined(Served \o e, i, j, FALSE, stored, Steady, cut)

\* ... or goes through the entries of a scan.
ScanScanned ==
  /\ ended = 0 /\ AtEnd /\ ~iter.done
  /\ \E i, j \in Nat, e \in Seq(IterKeys), over \in BOOLEAN :
       /\ fetch = [pc |-> "scanned", entries |-> e, over |-> over, shard |-> i, item |-> j]
       /\ Lined((Served \o iter.buffer) \o e, i, j, over, stored, Steady, cut)

\* An iteration by prefix collects what passes the filters.
PrefixUser == fetch = NoFetch
PrefixFinding == fetch = [pc |-> "find"]
PrefixCollecting ==
  /\ fetch = [pc |-> "collect", hashes |-> fetch.hashes, i |-> fetch.i, entries |-> fetch.entries]
  /\ fetch.entries \in Seq(IterKeys) /\ Within(fetch.entries, Wanted)

Stage == IF iter.byPrefix THEN PrefixUser \/ PrefixFinding \/ PrefixCollecting
         ELSE ScanUser \/ ScanServing \/ ScanScanning \/ ScanScanned

IterInv == IterTypes /\ Within(Served \o iter.buffer, Wanted) /\ Stage

\* An iterator that differs from it in the page and the cursor
BecomesIter(jt, it, shard, item, buffer, page, pos, done) ==
  jt = [byPrefix |-> it.byPrefix, count |-> it.count, prefix |-> it.prefix, pattern |-> it.pattern,
        shard |-> shard, item |-> item, buffer |-> buffer, page |-> page, pos |-> pos, done |-> done]

\* The fields of an iterator have their types.
LEMMA IterIs ==
  ASSUME NEW it \in Iterators
  PROVE  /\ BecomesIter(it, it, it.shard, it.item, it.buffer, it.page, it.pos, it.done)
         /\ it.byPrefix \in BOOLEAN /\ it.count \in Nat \ {0}
         /\ it.prefix \subseteq IterKeys /\ it.pattern \subseteq IterKeys
         /\ it.shard \in Nat /\ it.item \in Nat /\ it.buffer \in Seq(IterKeys)
         /\ it.page \in Seq(IterKeys) /\ it.pos \in Nat /\ it.done \in BOOLEAN
BY DEF Iterators, BecomesIter

\* It comes to another cursor, or to another page too.
LEMMA CursorBecomes ==
  ASSUME NEW it, NEW jt, NEW shard, NEW item, NEW buffer, NEW page, NEW pos, NEW done,
         NEW i, NEW j, NEW over, BecomesIter(it, it, shard, item, buffer, page, pos, done),
         jt = [it EXCEPT !.shard = i, !.item = j, !.done = over]
  PROVE  BecomesIter(jt, it, i, j, buffer, page, pos, over)
<1>1. PICK p, c, f, q : p = it.byPrefix /\ c = it.count /\ f = it.prefix /\ q = it.pattern
  OBVIOUS
<1>2. it = [byPrefix |-> p, count |-> c, prefix |-> f, pattern |-> q, shard |-> shard, item |-> item,
            buffer |-> buffer, page |-> page, pos |-> pos, done |-> done]
  BY <1>1 DEF BecomesIter
<1>3. jt = [byPrefix |-> p, count |-> c, prefix |-> f, pattern |-> q, shard |-> i, item |-> j,
            buffer |-> buffer, page |-> page, pos |-> pos, done |-> over]
  BY <1>2
<1> QED BY <1>1, <1>3 DEF BecomesIter

LEMMA DoneBecomes ==
  ASSUME NEW it, NEW jt, NEW shard, NEW item, NEW buffer, NEW page, NEW pos, NEW done,
         NEW over, BecomesIter(it, it, shard, item, buffer, page, pos, done),
         jt = [it EXCEPT !.done = over]
  PROVE  BecomesIter(jt, it, shard, item, buffer, page, pos, over)
BY DEF BecomesIter

LEMMA PageBecomes ==
  ASSUME NEW it, NEW jt, NEW shard, NEW item, NEW buffer, NEW page, NEW pos, NEW done,
         NEW j, NEW s, NEW z, NEW over, BecomesIter(it, it, shard, item, buffer, page, pos, done),
         jt = [it EXCEPT !.page = s, !.pos = z, !.item = j, !.done = over]
  PROVE  BecomesIter(jt, it, shard, j, buffer, s, z, over)
<1>1. PICK p, c, f, q : p = it.byPrefix /\ c = it.count /\ f = it.prefix /\ q = it.pattern
  OBVIOUS
<1>2. it = [byPrefix |-> p, count |-> c, prefix |-> f, pattern |-> q, shard |-> shard, item |-> item,
            buffer |-> buffer, page |-> page, pos |-> pos, done |-> done]
  BY <1>1 DEF BecomesIter
<1>3. jt = [byPrefix |-> p, count |-> c, prefix |-> f, pattern |-> q, shard |-> shard, item |-> j,
            buffer |-> buffer, page |-> s, pos |-> z, done |-> over]
  BY <1>2
<1> QED BY <1>1, <1>3 DEF BecomesIter

\* The fields it was given are those it has.
LEMMA IterBecomes ==
  ASSUME NEW it \in Iterators, NEW shard \in Nat, NEW item \in Nat, NEW buffer \in Seq(IterKeys),
         NEW page \in Seq(IterKeys), NEW pos \in Nat, NEW done \in BOOLEAN,
         NEW jt, BecomesIter(jt, it, shard, item, buffer, page, pos, done)
  PROVE  /\ jt \in Iterators /\ jt.byPrefix = it.byPrefix /\ jt.count = it.count
         /\ jt.prefix = it.prefix /\ jt.pattern = it.pattern
         /\ jt.shard = shard /\ jt.item = item /\ jt.buffer = buffer /\ jt.page = page
         /\ jt.pos = pos /\ jt.done = done
<1>1. /\ it.byPrefix \in BOOLEAN /\ it.count \in Nat \ {0}
      /\ it.prefix \in SUBSET IterKeys /\ it.pattern \in SUBSET IterKeys
  BY IterIs
<1>2. jt = [byPrefix |-> it.byPrefix, count |-> it.count, prefix |-> it.prefix, pattern |-> it.pattern,
            shard |-> shard, item |-> item, buffer |-> buffer, page |-> page, pos |-> pos, done |-> done]
  BY DEF BecomesIter
<1> QED BY <1>1, <1>2 DEF Iterators

\* A step that changes the page and the cursor alone keeps what the iterator is for.
LEMMA IterMoves ==
  ASSUME IterTypes, NEW shard \in Nat, NEW item \in Nat, NEW buffer \in Seq(IterKeys),
         NEW page \in Seq(IterKeys), NEW pos \in Nat, NEW done \in BOOLEAN,
         BecomesIter(iter', iter, shard, item, buffer, page, pos, done),
         stored' = stored, expired' = expired, replaced' = replaced
  PROVE  /\ iter' \in Iterators /\ iter'.byPrefix = iter.byPrefix /\ iter'.count = iter.count
         /\ iter'.shard = shard /\ iter'.item = item /\ iter'.buffer = buffer /\ iter'.page = page
         /\ iter'.pos = pos /\ iter'.done = done
         /\ Wanted' = Wanted /\ Steady' = Steady
<1>1. PICK it, jt : it = iter /\ jt = iter'
  OBVIOUS
<1>2. it \in Iterators /\ BecomesIter(jt, it, shard, item, buffer, page, pos, done)
  BY <1>1 DEF IterTypes
<1>3. /\ jt \in Iterators /\ jt.byPrefix = it.byPrefix /\ jt.count = it.count
      /\ jt.prefix = it.prefix /\ jt.pattern = it.pattern
      /\ jt.shard = shard /\ jt.item = item /\ jt.buffer = buffer /\ jt.page = page
      /\ jt.pos = pos /\ jt.done = done
  BY <1>2, IterBecomes
<1>4. Wanted' = Wanted
  BY <1>1, <1>3 DEF Wanted
<1>5. Steady' = Steady
  BY <1>4 DEF Steady
<1> QED BY <1>1, <1>3, <1>4, <1>5

MovedTo(shard, item, buffer, page, pos, done) ==
  /\ iter' \in Iterators /\ iter'.byPrefix = iter.byPrefix /\ iter'.count = iter.count
  /\ iter'.shard = shard /\ iter'.item = item /\ iter'.buffer = buffer /\ iter'.page = page
  /\ iter'.pos = pos /\ iter'.done = done
  /\ Wanted' = Wanted /\ Steady' = Steady

LEMMA IterMovesTo ==
  ASSUME IterTypes, NEW shard \in Nat, NEW item \in Nat, NEW buffer \in Seq(IterKeys),
         NEW page \in Seq(IterKeys), NEW pos \in Nat, NEW done \in BOOLEAN,
         BecomesIter(iter', iter, shard, item, buffer, page, pos, done),
         stored' = stored, expired' = expired, replaced' = replaced
  PROVE  MovedTo(shard, item, buffer, page, pos, done)
BY IterMoves DEF MovedTo

\* The sequences of the invariant.
LEMMA ServedIs ==
  ASSUME IterTypes
  PROVE  /\ RestOfPage \in Seq(IterKeys) /\ Served \in Seq(IterKeys)
         /\ Served \o iter.buffer \in Seq(IterKeys)
         /\ AtEnd => RestOfPage = <<>> /\ Served = yielded
<1>1. PICK s, p, y : s = iter.page /\ p = iter.pos /\ y = yielded
  OBVIOUS
<1>2. s \in Seq(IterKeys) /\ p \in Nat /\ y \in Seq(IterKeys) /\ iter.buffer \in Seq(IterKeys)
  BY <1>1, IterIs DEF IterTypes
<1>3. SubSeq(s, p + 2, Len(s)) \in Seq(IterKeys)
  <2>1. PICK q, l : q = p + 1 /\ l = Len(s)
    OBVIOUS
  <2>2. q \in Nat /\ l \in 0 .. Len(s)
    BY <1>2, <2>1, LenProperties
  <2>3. SubSeq(s, q + 1, l) \in Seq(IterKeys)
    BY <1>2, <2>2, PartOfSeq
  <2>4. q + 1 = p + 2
    BY <1>2, <2>1
  <2> QED BY <2>1, <2>3, <2>4
<1>4. p + 1 >= Len(s) => SubSeq(s, p + 2, Len(s)) = <<>>
  BY <1>2, PageEnds
<1>5. RestOfPage \in Seq(IterKeys) /\ (AtEnd => RestOfPage = <<>>)
  BY <1>1, <1>3, <1>4 DEF RestOfPage, AtEnd
<1>6. Served \in Seq(IterKeys) /\ (AtEnd => Served = yielded)
  BY <1>2, <1>1, <1>5, ConcatProperties, ConcatEmptySeq DEF Served
<1> QED BY <1>2, <1>5, <1>6, ConcatProperties

\* What Next leaves alone
CursorKept ==
  /\ iter' \in Iterators /\ iter'.byPrefix = iter.byPrefix /\ iter'.count = iter.count
  /\ iter'.shard = iter.shard /\ iter'.item = iter.item /\ iter'.buffer = iter.buffer
  /\ iter'.done = iter.done
  /\ Wanted' = Wanted /\ Steady' = Steady /\ stored' = stored /\ cut' = cut

\* The iterator comes to another place in its page.
LEMMA NextPos ==
  ASSUME IterTypes, NEW p \in Nat, iter' = [iter EXCEPT !.pos = p], cut' = cut,
         stored' = stored, expired' = expired, replaced' = replaced
  PROVE  CursorKept /\ iter'.page = iter.page /\ iter'.pos = p
<1>1. PICK it, i, j, b, s, d :
         /\ it = iter /\ i = iter.shard /\ j = iter.item /\ b = iter.buffer /\ s = iter.page /\ d = iter.done
  OBVIOUS
<1>2. /\ it \in Iterators /\ i \in Nat /\ j \in Nat /\ b \in Seq(IterKeys) /\ s \in Seq(IterKeys)
      /\ d \in BOOLEAN /\ BecomesIter(it, it, it.shard, it.item, it.buffer, it.page, it.pos, it.done)
  BY <1>1, IterIs DEF IterTypes
<1>3. BecomesIter(iter', iter, i, j, b, s, p, d)
  BY <1>1, <1>2 DEF BecomesIter
<1> QED BY <1>1, <1>2, <1>3, IterMoves DEF CursorKept

\* Next on a page: one entry further, or the page is through.
LEMMA NextOnPage ==
  ASSUME IterTypes, IterNext
  PROVE  /\ IterTypes' /\ CursorKept /\ fetch' = NoFetch /\ Served' = Served
         /\ AtEnd => AtEnd'
         /\ ended' > 0 => ended > 0 \/ (iter.done /\ AtEnd')
<1>1. PICK s, p, y, x, q : s = iter.page /\ p = iter.pos /\ y = yielded /\ x = s[p + 2] /\ q = p + 1
  OBVIOUS
<1>2. /\ s \in Seq(IterKeys) /\ p \in Nat /\ y \in Seq(IterKeys) /\ Len(s) \in Nat /\ q \in Nat
      /\ stored \subseteq IterKeys /\ ended \in Nat
  BY <1>1, IterIs, LenProperties DEF IterTypes
<1>3. CursorKept /\ iter'.page = s /\ iter'.pos = q
  BY <1>1, <1>2, NextPos DEF IterNext, storeVars
<1>4. fetch' = NoFetch
  BY DEF IterNext, Answer
<1>5. RestOfPage = SubSeq(s, p + 2, Len(s)) /\ RestOfPage' = SubSeq(s, q + 2, Len(s))
  BY <1>1, <1>3 DEF RestOfPage
<1>6. (AtEnd <=> p + 1 >= Len(s)) /\ (AtEnd' <=> q + 1 >= Len(s))
  BY <1>1, <1>3 DEF AtEnd
<1>7. CASE p + 1 < Len(s)
  <2>1. yielded' = Append(y, x) /\ ended' = ended + 0
    BY <1>1, <1>7 DEF IterNext, Answer
  <2>2. /\ Append(y, s[p + 2]) \in Seq(IterKeys)
        /\ Append(y, s[p + 2]) \o SubSeq(s, (p + 1) + 2, Len(s)) = y \o SubSeq(s, p + 2, Len(s))
    BY <1>2, <1>7, PageGoesOn
  <2>3. Served' = Served /\ yielded' \in Seq(IterKeys)
    BY <1>1, <1>5, <2>1, <2>2 DEF Served
  <2>4. ended' = ended
    BY <1>2, <2>1
  <2>5. ~AtEnd
    BY <1>2, <1>6, <1>7
  <2>6. IterTypes'
    BY <1>2, <1>3, <2>3, <2>4 DEF IterTypes, CursorKept
  <2> QED BY <1>3, <1>4, <2>3, <2>4, <2>5, <2>6
<1>8. CASE ~(p + 1 < Len(s))
  <2>1. yielded' = y /\ ended' = ended + 1 /\ iter.done
    BY <1>1, <1>8 DEF IterNext, Answer
  <2>2. p + 1 >= Len(s) /\ q + 1 >= Len(s)
    BY <1>1, <1>2, <1>8
  <2>3. SubSeq(s, p + 2, Len(s)) = <<>> /\ SubSeq(s, q + 2, Len(s)) = <<>>
    BY <1>2, <2>2, PageEnds
  <2>4. Served' = Served
    BY <1>1, <1>5, <2>1, <2>3 DEF Served
  <2>5. ended' \in Nat
    BY <1>2, <2>1
  <2>6. IterTypes'
    BY <1>1, <1>2, <1>3, <2>1, <2>5 DEF IterTypes, CursorKept
  <2> QED BY <1>3, <1>4, <1>6, <2>1, <2>2, <2>4, <2>6
<1> QED BY <1>7, <1>8

\* Next goes on to another page.
LEMMA NextFetches ==
  ASSUME IterTypes, IterFetch
  PROVE  /\ IterTypes' /\ CursorKept /\ Served' = Served /\ AtEnd /\ AtEnd' /\ ~iter.done
         /\ ended' = ended
         /\ iter.byPrefix => fetch' = [pc |-> "find"]
         /\ ~iter.byPrefix =>
              fetch' = IF iter.buffer = <<>>
                       THEN [pc |-> "scan", shard |-> iter.shard, item |-> iter.item, entries |-> <<>>]
                       ELSE [pc |-> "serve"]
<1>1. PICK s, p, y, q : s = iter.page /\ p = iter.pos /\ y = yielded /\ q = p + 1
  OBVIOUS
<1>2. /\ s \in Seq(IterKeys) /\ p \in Nat /\ y \in Seq(IterKeys) /\ Len(s) \in Nat /\ q \in Nat
      /\ stored \subseteq IterKeys /\ ended \in Nat
  BY <1>1, IterIs, LenProperties DEF IterTypes
<1>3. CursorKept /\ iter'.page = s /\ iter'.pos = q
  BY <1>1, <1>2, NextPos DEF IterFetch, storeVars
<1>4. yielded' = y /\ ended' = ended /\ ~iter.done /\ p + 1 >= Len(s)
  BY <1>1 DEF IterFetch
<1>5. q + 1 >= Len(s)
  BY <1>1, <1>2, <1>4
<1>6. SubSeq(s, p + 2, Len(s)) = <<>> /\ SubSeq(s, q + 2, Len(s)) = <<>>
  BY <1>2, <1>4, <1>5, PageEnds
<1>7. Served' = Served /\ AtEnd /\ AtEnd'
  BY <1>1, <1>3, <1>4, <1>5, <1>6 DEF Served, RestOfPage, AtEnd
<1>8. IterTypes'
  BY <1>1, <1>2, <1>3, <1>4 DEF IterTypes, CursorKept
<1>9. /\ iter.byPrefix => fetch' = [pc |-> "find"]
      /\ ~iter.byPrefix =>
           fetch' = IF iter.buffer = <<>>
                    THEN [pc |-> "scan", shard |-> iter.shard, item |-> iter.item, entries |-> <<>>]
                    ELSE [pc |-> "serve"]
  BY DEF IterFetch, StartScan
<1> QED BY <1>3, <1>4, <1>7, <1>8, <1>9

\* So a call of Next leaves the line as it is.
LEMMA ScanNextKeeps ==
  ASSUME IterInv, ~iter.byPrefix, ScanUser, IterNext
  PROVE  IterInv'
<1>1. /\ IterTypes' /\ CursorKept /\ fetch' = NoFetch /\ Served' = Served
      /\ AtEnd => AtEnd'
      /\ ended' > 0 => ended > 0 \/ (iter.done /\ AtEnd')
  BY NextOnPage DEF IterInv
<1>2. ScanUser'
  BY <1>1 DEF ScanUser, CursorKept
<1>3. Within(Served' \o iter'.buffer, Wanted')
  BY <1>1 DEF IterInv, CursorKept
<1> QED BY <1>1, <1>2, <1>3 DEF IterInv, Stage, CursorKept

LEMMA ScanFetchKeeps ==
  ASSUME IterInv, ~iter.byPrefix, ScanUser, IterFetch
  PROVE  IterInv'
<1>1. /\ IterTypes' /\ CursorKept /\ Served' = Served /\ AtEnd /\ AtEnd' /\ ~iter.done
      /\ ended' = ended
      /\ fetch' = IF iter.buffer = <<>>
                  THEN [pc |-> "scan", shard |-> iter.shard, item |-> iter.item, entries |-> <<>>]
                  ELSE [pc |-> "serve"]
  BY NextFetches DEF IterInv
<1>2. ended = 0 /\ IterTypes
  BY <1>1 DEF ScanUser, IterInv, IterTypes
<1>3. Lined(Served \o iter.buffer, iter.shard, iter.item, FALSE, stored, Steady, cut)
  <2>1. iter.done = FALSE
    BY <1>1, <1>2, IterIs DEF IterTypes
  <2> QED BY <2>1 DEF ScanUser
<1>4. CASE iter.buffer = <<>>
  <2>1. PICK i, j, e : i = iter.shard /\ j = iter.item /\ e = iter.buffer
    OBVIOUS
  <2>2. i \in Nat /\ j \in Nat /\ e \in Seq(IterKeys) /\ Len(e) = 0 /\ iter'.count \in Nat \ {0}
    BY <1>1, <1>2, <1>4, <2>1, IterIs DEF IterTypes
  <2>3. Len(e) < 2 * iter'.count
    BY <2>2
  <2>4. fetch' = [pc |-> "scan", shard |-> i, item |-> j, entries |-> e]
    BY <1>1, <1>4, <2>1
  <2>5. Lined(Served' \o e, i, j, FALSE, stored', Steady', cut')
    BY <1>1, <1>3, <2>1 DEF CursorKept
  <2>6. ended' = 0 /\ ~iter'.done /\ iter'.buffer = <<>>
    BY <1>1, <1>2, <1>4 DEF CursorKept
  <2>7. ScanScanning'
    BY <1>1, <2>2, <2>3, <2>4, <2>5, <2>6 DEF ScanScanning
  <2> QED BY <1>1, <2>7 DEF IterInv, Stage, CursorKept
<1>5. CASE iter.buffer # <<>>
  <2>1. fetch' = [pc |-> "serve"] /\ ended' = 0 /\ iter'.buffer # <<>>
    BY <1>1, <1>2, <1>5 DEF CursorKept
  <2>2. Lined(Served' \o iter'.buffer, iter'.shard, iter'.item, iter'.done, stored', Steady', cut')
    BY <1>1 DEF ScanUser, CursorKept
  <2>3. ScanServing'
    BY <1>1, <2>1, <2>2 DEF ScanServing
  <2> QED BY <1>1, <2>3 DEF IterInv, Stage, CursorKept
<1> QED BY <1>4, <1>5


\* fetchPage serves a page from the buffer, or Next returns false.
LEMMA ServeKeeps ==
  ASSUME IterInv, ~iter.byPrefix, ScanServing, IterServe
  PROVE  IterInv'
<1>1. PICK b, i, j, d, y : b = iter.buffer /\ i = iter.shard /\ j = iter.item /\ d = iter.done /\ y = yielded
  OBVIOUS
<1>2. /\ IterTypes /\ b \in Seq(IterKeys) /\ i \in Nat /\ j \in Nat /\ d \in BOOLEAN
      /\ y \in Seq(IterKeys) /\ stored \subseteq IterKeys /\ Len(b) \in Nat
  BY <1>1, IterIs, LenProperties DEF IterInv, IterTypes
<1>3. /\ stored' = stored /\ expired' = expired /\ replaced' = replaced /\ cut' = cut
      /\ fetch' = NoFetch
  BY DEF IterServe, storeVars, Answer
<1>4. Served = y /\ Within(y \o b, Wanted) /\ Lined(y \o b, i, j, d, stored, Steady, cut)
  BY <1>1, <1>2, ServedIs DEF ScanServing, IterInv
<1>5. CASE b = <<>>
  <2>1. iter' = iter /\ yielded' = yielded /\ ended' = ended + 1
    BY <1>1, <1>5 DEF IterServe, Answer
  <2>2. ended' \in Nat /\ IterTypes' /\ iter'.done /\ AtEnd'
    BY <1>1, <1>2, <1>3, <1>5, <2>1 DEF IterTypes, ScanServing, AtEnd
  <2>3. Served' = Served /\ Steady' = Steady /\ Wanted' = Wanted
    BY <1>3, <2>1 DEF Served, RestOfPage, Steady, Wanted
  <2>4. ScanUser'
    BY <1>3, <2>1, <2>2, <2>3 DEF ScanUser, ScanServing
  <2> QED BY <2>1, <2>2, <2>3, <2>4 DEF IterInv, Stage
<1>6. CASE b # <<>>
  <2>1. PICK n, l, p, r : /\ n = Min({iter.count, Len(b)}) /\ l = Len(b)
                          /\ p = SubSeq(b, 1, n) /\ r = SubSeq(b, n + 1, Len(b))
    OBVIOUS
  <2>2. n \in 1 .. Len(b)
    <3>1. PICK c : c = iter.count
      OBVIOUS
    <3>2. c \in Nat \ {0} /\ l \in Nat \ {0}
      <4>1. c \in Nat \ {0}
        BY <1>2, <3>1, IterIs DEF IterTypes
      <4>2. l \in Nat /\ l # 0
        BY <1>2, <1>6, <2>1, EmptySeq
      <4> QED BY <4>1, <4>2
    <3>3. Min({c, l}) = IF c <= l THEN c ELSE l
      BY <3>2, MinOfTwo
    <3> QED BY <2>1, <3>1, <3>2, <3>3
  <2>3. /\ p \in Seq(IterKeys) /\ r \in Seq(IterKeys) /\ Append(y, b[1]) \in Seq(IterKeys)
        /\ (Append(y, b[1]) \o SubSeq(p, 2, Len(p))) \o r = y \o b
    <3>1. OffBuffer(b, n, p, r)
      BY <2>1, <2>2 DEF OffBuffer
    <3>2. ServedOff(y, b, p, r)
      BY <1>2, <3>1, PageOffBuffer
    <3> QED BY <3>2 DEF ServedOff
  <2>4. /\ iter' = [iter EXCEPT !.page = p, !.pos = 0, !.buffer = r]
        /\ ended' = ended + 0 /\ yielded' = Append(y, b[1])
    BY <1>1, <1>6, <2>1 DEF IterServe, Answer
  <2>5. BecomesIter(iter', iter, i, j, r, p, 0, d)
    <3>1. BecomesIter(iter, iter, iter.shard, iter.item, iter.buffer, iter.page, iter.pos, iter.done)
      BY <1>2, IterIs DEF IterTypes
    <3> QED BY <1>1, <2>4, <3>1 DEF BecomesIter
  <2>6. /\ iter' \in Iterators /\ iter'.byPrefix = iter.byPrefix /\ iter'.count = iter.count
        /\ iter'.shard = i /\ iter'.item = j /\ iter'.buffer = r /\ iter'.page = p
        /\ iter'.pos = 0 /\ iter'.done = d
        /\ Wanted' = Wanted /\ Steady' = Steady
    BY <1>2, <1>3, <2>3, <2>5, IterMoves
  <2>7. ended' = 0
    BY <2>4 DEF ScanServing
  <2>8. Served' \o iter'.buffer = y \o b
    <3>1. RestOfPage' = SubSeq(p, 2, Len(p))
      BY <2>6 DEF RestOfPage
    <3> QED BY <2>3, <2>4, <2>6, <3>1 DEF Served
  <2>9. IterTypes'
    BY <1>2, <1>3, <2>3, <2>4, <2>6, <2>7 DEF IterTypes
  <2>10. ScanUser'
    BY <1>3, <1>4, <2>6, <2>7, <2>8 DEF ScanUser
  <2>11. Within(Served' \o iter'.buffer, Wanted')
    BY <1>4, <2>6, <2>8
  <2> QED BY <2>6, <2>9, <2>10, <2>11 DEF IterInv, Stage
<1> QED BY <1>5, <1>6

\* A scan of one shard.
LEMMA ShardKeeps ==
  ASSUME IterInv, ~iter.byPrefix, ScanScanning, ScanShard
  PROVE  IterInv'
<1>0. \A d, t \in Seq(IterKeys) : /\ Served \o d \in Seq(IterKeys) /\ d \o t \in Seq(IterKeys)
                                  /\ Served \o (d \o t) = (Served \o d) \o t
  <2>1. Served \in Seq(IterKeys)
    BY ServedIs DEF IterInv
  <2> SUFFICES ASSUME NEW d \in Seq(IterKeys), NEW t \in Seq(IterKeys)
               PROVE  /\ Served \o d \in Seq(IterKeys) /\ d \o t \in Seq(IterKeys)
                      /\ Served \o (d \o t) = (Served \o d) \o t
    OBVIOUS
  <2>2. Served \o d \in Seq(IterKeys) /\ d \o t \in Seq(IterKeys)
    BY <2>1, ConcatProperties
  <2>3. (Served \o d) \o t = Served \o (d \o t)
    BY <2>1, ConcatAssociative
  <2> QED BY <2>2, <2>3
<1>1. PICK i \in Nat, j \in Nat, e \in Seq(IterKeys) :
        /\ fetch = [pc |-> "scan", shard |-> i, item |-> j, entries |-> e]
        /\ Len(e) < 2 * iter.count
        /\ Lined(Served \o e, i, j, FALSE, stored, Steady, cut)
  BY DEF ScanScanning
<1>2. /\ IterTypes /\ iter.count \in Nat \ {0} /\ stored \subseteq IterKeys /\ Steady \subseteq stored
      /\ Served \in Seq(IterKeys) /\ Len(e) \in Nat
  BY IterIs, ServedIs, LenProperties DEF IterInv, IterTypes, Steady
<1>3. /\ stored' = stored /\ expired' = expired /\ replaced' = replaced /\ iter' = iter
      /\ yielded' = yielded /\ ended' = ended
  BY DEF ScanShard, storeVars
<1>4. /\ Served' = Served /\ Steady' = Steady /\ Wanted' = Wanted /\ AtEnd' /\ IterTypes'
      /\ Within(Served' \o iter'.buffer, Wanted')
  BY <1>2, <1>3 DEF Served, RestOfPage, Steady, Wanted, AtEnd, IterTypes, ScanScanning, IterInv
<1>5. ended' = 0 /\ ~iter'.done /\ iter'.buffer = <<>> /\ ~iter'.byPrefix
  BY <1>3 DEF ScanScanning
<1>6. PICK room, k : room = 2 * iter.count - Len(e) /\ k = i + 1
  OBVIOUS
<1>7. room \in Nat \ {0} /\ k \in Nat /\ j + 2 * iter.count - Len(e) = j + room
  BY <1>1, <1>2, <1>6
<1>8. PICK order \in SetToSeqs(KeysOf(stored, i)) :
       LET T == TakenOf(order, j, room)
           all == e \o T
       IN  IF T # <<>> /\ Len(all) >= 2 * iter.count
           THEN /\ fetch' = [pc |-> "scanned", entries |-> all, over |-> FALSE,
                             shard |-> i, item |-> j + Len(T)]
                /\ cut' = cut \cup {h \in {i} : j + Len(T) < Len(order)}
           ELSE /\ fetch' = [fetch EXCEPT !.entries = all, !.shard = k, !.item = 0]
                /\ cut' = cut
  <2>1. fetch.shard = i /\ fetch.item = j /\ fetch.entries = e
    BY <1>1
  <2>2. ShardKeys(i) = KeysOf(stored, i)
    BY DEF ShardKeys, KeysOf
  <2>3. PICK order \in SetToSeqs(ShardKeys(i)) :
          LET all == e \o Taken(order)
          IN  IF Taken(order) # <<>> /\ Len(all) >= 2 * iter.count
              THEN /\ fetch' = [pc |-> "scanned", entries |-> all, over |-> FALSE,
                                shard |-> i, item |-> NextItem(Taken(order))]
                   /\ cut' = cut \cup {h \in {i} : j + Len(Taken(order)) < Len(order)}
              ELSE /\ fetch' = [fetch EXCEPT !.entries = all, !.shard = i + 1, !.item = 0]
                   /\ cut' = cut
    BY <2>1 DEF ScanShard
  <2>4. Taken(order) = TakenOf(order, j, room)
    BY <1>7, <2>1 DEF Taken, TakenOf
  <2>5. NextItem(Taken(order)) = j + Len(Taken(order))
    BY <2>1 DEF NextItem
  <2> QED BY <1>6, <2>2, <2>3, <2>4, <2>5
<1>9. PICK n, T : n = Cardinality(KeysOf(stored, i)) /\ T = TakenOf(order, j, room)
  OBVIOUS
<1>10. /\ n \in Nat /\ Len(order) = n /\ T \in Seq(IterKeys) /\ Len(T) \in Nat
       /\ \A h : Once(T, h) /\ (In(T, h) => ShardOf(h) = i)
       /\ j = 0 /\ Len(T) >= n => \A h \in KeysOf(stored, i) : In(T, h)
       /\ Len(T) = 0 <=> n <= j
       /\ Len(T) # 0 /\ Len(T) < room => j + Len(T) = n
  <2>1. PICK s : s = stored
    OBVIOUS
  <2>2. /\ s \subseteq IterKeys /\ order \in SetToSeqs(KeysOf(s, i)) /\ n = Cardinality(KeysOf(s, i))
    BY <1>2, <1>8, <1>9, <2>1
  <2>3. TakesRight(s, i, order, j, room, n, T)
    BY <1>7, <1>9, <2>2, ScanTakes
  <2> QED BY <2>1, <2>3 DEF TakesRight
<1>11. PICK l, a, seen : l = Len(T) /\ a = e \o T /\ seen = cut'
  OBVIOUS
<1>12. a \in Seq(IterKeys) /\ Len(a) = Len(e) + l /\ (T = <<>> <=> l = 0)
  <2>1. a \in Seq(IterKeys) /\ Len(a) = Len(e) + l
    BY <1>10, <1>11, ConcatProperties
  <2>2. T = <<>> <=> l = 0
    BY <1>10, <1>11, EmptySeq
  <2> QED BY <2>1, <2>2
<1>13. Served \o a = (Served \o e) \o T /\ Served \o e \in Seq(IterKeys)
  BY <1>0, <1>10, <1>11
<1>14. CASE T # <<>> /\ Len(a) >= 2 * iter.count
  <2>1. /\ fetch' = [pc |-> "scanned", entries |-> a, over |-> FALSE, shard |-> i, item |-> j + l]
        /\ cut' = cut \cup {h \in {i} : j + l < n}
    BY <1>8, <1>9, <1>10, <1>11, <1>14
  <2>2. l \in Nat \ {0} /\ j < n
    BY <1>10, <1>11, <1>12, <1>14
  <2>3. cut \subseteq seen /\ (i \in seen \/ ~(j + l < n))
    BY <1>11, <2>1
  <2>4. i \in seen \/ j + l >= n
    BY <1>10, <1>11, <2>3
  <2>5. Lined((Served \o e) \o T, i, j + l, FALSE, stored, Steady, seen)
    BY <1>1, <1>2, <1>9, <1>10, <1>11, <1>13, <2>2, <2>3, <2>4, ScanStops
  <2>6. PICK m : m = j + l
    OBVIOUS
  <2>7. m \in Nat
    BY <1>10, <1>11, <2>6
  <2>8. Lined((Served' \o iter'.buffer) \o a, i, m, FALSE, stored', Steady', cut')
    <3>1. Served \o <<>> = Served
      BY <1>2, ConcatEmptySeq
    <3> QED BY <1>3, <1>4, <1>5, <1>11, <1>13, <2>5, <2>6, <3>1
  <2>9. fetch' = [pc |-> "scanned", entries |-> a, over |-> FALSE, shard |-> i, item |-> m]
    BY <2>1, <2>6
  <2>10. ScanScanned'
    BY <1>4, <1>5, <1>12, <2>7, <2>8, <2>9 DEF ScanScanned
  <2> QED BY <1>4, <1>5, <2>10 DEF IterInv, Stage
<1>15. CASE ~(T # <<>> /\ Len(a) >= 2 * iter.count)
  <2>1. cut' = cut /\ fetch' = [fetch EXCEPT !.entries = a, !.shard = k, !.item = 0]
    BY <1>8, <1>9, <1>11, <1>15
  <2>2. fetch' = [pc |-> "scan", shard |-> k, item |-> 0, entries |-> a]
    BY <1>1, <2>1
  <2>3. Len(a) < 2 * iter.count /\ (l = 0 \/ l < room)
    BY <1>1, <1>2, <1>6, <1>10, <1>11, <1>12, <1>15
  <2>4. j = 0 => \A h \in KeysOf(stored, i) : In(T, h)
    <3>1. j = 0 => l >= n
      BY <1>10, <1>11, <2>3
    <3> QED BY <1>10, <1>11, <3>1
  <2>5. n <= j => T = <<>>
    BY <1>10, <1>11, <1>12
  <2>6. Lined((Served \o e) \o T, k, 0, FALSE, stored, Steady, cut)
    BY <1>1, <1>2, <1>6, <1>9, <1>10, <1>13, <2>4, <2>5, ScanGoesOn
  <2>7. Lined(Served' \o a, k, 0, FALSE, stored', Steady', cut') /\ Len(a) < 2 * iter'.count
    BY <1>3, <1>4, <1>13, <2>1, <2>3, <2>6
  <2>8. ScanScanning'
    BY <1>4, <1>5, <1>7, <1>12, <2>2, <2>7 DEF ScanScanning
  <2> QED BY <1>4, <1>5, <2>8 DEF IterInv, Stage
<1> QED BY <1>14, <1>15

\* Behind the last shard the scans have seen the whole store.
LEMMA EndKeeps ==
  ASSUME IterInv, ~iter.byPrefix, ScanScanning, ScanEnd
  PROVE  IterInv'
<1>1. PICK i \in Nat, j \in Nat, e \in Seq(IterKeys) :
        /\ fetch = [pc |-> "scan", shard |-> i, item |-> j, entries |-> e]
        /\ Lined(Served \o e, i, j, FALSE, stored, Steady, cut)
  BY DEF ScanScanning
<1>2. IterTypes /\ Served \in Seq(IterKeys)
  BY ServedIs DEF IterInv
<1>3. /\ stored' = stored /\ expired' = expired /\ replaced' = replaced /\ iter' = iter
      /\ yielded' = yielded /\ ended' = ended /\ cut' = cut
  BY DEF ScanEnd, storeVars
<1>4. /\ Served' = Served /\ Steady' = Steady /\ Wanted' = Wanted /\ AtEnd' /\ IterTypes'
      /\ Within(Served' \o iter'.buffer, Wanted')
  BY <1>2, <1>3 DEF Served, RestOfPage, Steady, Wanted, AtEnd, IterTypes, ScanScanning, IterInv
<1>5. ended' = 0 /\ ~iter'.done /\ iter'.buffer = <<>> /\ ~iter'.byPrefix
  BY <1>3 DEF ScanScanning
<1>6. i = NumShards /\ fetch' = [pc |-> "scanned", entries |-> e, over |-> TRUE, shard |-> 0, item |-> 0]
  <2>1. fetch.shard = i /\ fetch.entries = e
    BY <1>1
  <2> QED BY <2>1 DEF ScanEnd
<1>7. Lined(Served \o e, 0, 0, TRUE, stored, Steady, cut)
  BY <1>1, <1>6, ScanCompletes
<1>8. Lined((Served' \o iter'.buffer) \o e, 0, 0, TRUE, stored', Steady', cut')
  <2>1. Served \o <<>> = Served
    BY <1>2, ConcatEmptySeq
  <2> QED BY <1>3, <1>4, <1>5, <1>7, <2>1
<1>9. ScanScanned'
  BY <1>4, <1>5, <1>6, <1>8 DEF ScanScanned
<1> QED BY <1>4, <1>5, <1>9 DEF IterInv, Stage

\* An entry of a scan that matches goes to the end of the buffer; the line loses none
\* that is steady.
LEMMA EntryKeeps ==
  ASSUME IterInv, ~iter.byPrefix, ScanScanned, MatchEntry
  PROVE  IterInv'
<1>1. PICK i \in Nat, j \in Nat, e \in Seq(IterKeys), over \in BOOLEAN :
        /\ fetch = [pc |-> "scanned", entries |-> e, over |-> over, shard |-> i, item |-> j]
        /\ Lined((Served \o iter.buffer) \o e, i, j, over, stored, Steady, cut)
  BY DEF ScanScanned
<1>2. PICK b, a, x, q, w : b = iter.buffer /\ a = Served /\ x = Head(e) /\ q = Tail(e) /\ w = Wanted
  OBVIOUS
<1>3. /\ IterTypes /\ b \in Seq(IterKeys) /\ a \in Seq(IterKeys) /\ a \o b \in Seq(IterKeys)
      /\ Within(a \o b, w)
  BY <1>2, IterIs, ServedIs DEF IterInv, IterTypes
<1>4. /\ stored' = stored /\ expired' = expired /\ replaced' = replaced
      /\ yielded' = yielded /\ ended' = ended /\ cut' = cut
  BY DEF MatchEntry, storeVars
<1>5. e # <<>> /\ fetch' = [pc |-> "scanned", entries |-> q, over |-> over, shard |-> i, item |-> j]
  <2>1. fetch.entries = e /\ fetch' = [fetch EXCEPT !.entries = Tail(fetch.entries)]
    BY <1>1 DEF MatchEntry
  <2>2. fetch' = [fetch EXCEPT !.entries = q]
    BY <1>2, <2>1
  <2>3. fetch' = [pc |-> "scanned", entries |-> q, over |-> over, shard |-> i, item |-> j]
    BY <1>1, <2>2
  <2> QED BY <2>1, <2>3 DEF MatchEntry
<1>6. /\ x \in IterKeys /\ q \in Seq(IterKeys) /\ Append(b, x) \in Seq(IterKeys)
      /\ e = <<x>> \o q
      /\ (a \o Append(b, x)) \o q = (a \o b) \o e
  <2>1. HeadGoes(a, b, e)
    BY <1>3, <1>5, HeadMoves
  <2> QED BY <1>2, <2>1 DEF HeadGoes
<1>7. PICK keep \in BOOLEAN :
        /\ keep => x \in w
        /\ x \in replaced \/ keep = (x \in w \ expired)
        /\ iter' = IF keep THEN [iter EXCEPT !.buffer = Append(b, x)] ELSE iter
  <2>1. fetch.entries = e
    BY <1>1
  <2> QED BY <1>2, <2>1 DEF MatchEntry
<1>8. PICK c : c = IF keep THEN Append(b, x) ELSE b
  OBVIOUS
<1>9. /\ iter' \in Iterators /\ iter'.byPrefix = iter.byPrefix /\ iter'.count = iter.count
      /\ iter'.shard = iter.shard /\ iter'.item = iter.item /\ iter'.buffer = c /\ iter'.page = iter.page
      /\ iter'.pos = iter.pos /\ iter'.done = iter.done /\ Wanted' = w /\ Steady' = Steady
  <2>1. PICK h, m, s, p, d : h = iter.shard /\ m = iter.item /\ s = iter.page /\ p = iter.pos /\ d = iter.done
    OBVIOUS
  <2>2. /\ h \in Nat /\ m \in Nat /\ s \in Seq(IterKeys) /\ p \in Nat /\ d \in BOOLEAN
        /\ BecomesIter(iter, iter, h, m, b, s, p, d)
    BY <1>2, <1>3, <2>1, IterIs DEF IterTypes
  <2>3. c \in Seq(IterKeys)
    BY <1>3, <1>6, <1>8
  <2>4. BecomesIter(iter', iter, h, m, c, s, p, d)
    <3>1. CASE keep
      <4>1. iter' = [iter EXCEPT !.buffer = c]
        BY <1>7, <1>8, <3>1
      <4> QED BY <2>2, <4>1 DEF BecomesIter
    <3>2. CASE ~keep
      BY <1>7, <1>8, <2>2, <3>2
    <3> QED BY <3>1, <3>2
  <2>5. /\ iter' \in Iterators /\ iter'.byPrefix = iter.byPrefix /\ iter'.count = iter.count
        /\ iter'.shard = h /\ iter'.item = m /\ iter'.buffer = c /\ iter'.page = s
        /\ iter'.pos = p /\ iter'.done = d /\ Wanted' = Wanted /\ Steady' = Steady
    BY <1>3, <1>4, <2>2, <2>3, <2>4, IterMoves
  <2> QED BY <1>2, <2>1, <2>5
<1>10. Served' = a
  BY <1>2, <1>4, <1>9 DEF Served, RestOfPage
<1>11. IterTypes' /\ AtEnd' /\ ended' = 0 /\ ~iter'.done
  BY <1>3, <1>4, <1>9 DEF IterTypes, AtEnd, ScanScanned
<1>12. /\ Lined((a \o c) \o q, i, j, over, stored, Steady, cut) /\ Within(a \o c, w)
  <2>1. CASE keep
    <3>1. Within(a \o c, w)
      <4>1. <<x>> \in Seq(IterKeys) /\ c = b \o <<x>>
        BY <1>3, <1>6, <1>8, <2>1, AppendIsConcat
      <4>2. Within(<<x>>, w)
        BY <1>7, <2>1, InOne DEF Within
      <4>3. Within(a, w) /\ Within(b, w)
        BY <1>3, WithinBoth
      <4>4. c \in Seq(IterKeys) /\ Within(c, w)
        <5>1. Within(b \o <<x>>, w)
          BY <1>3, <4>1, <4>2, <4>3, WithinBoth
        <5> QED BY <1>6, <1>8, <2>1, <4>1, <5>1
      <4> QED BY <1>3, <4>3, <4>4, WithinBoth
    <3>2. (a \o c) \o q = (a \o b) \o e
      BY <1>6, <1>8, <2>1
    <3> QED BY <1>1, <1>2, <3>1, <3>2
  <2>2. CASE ~keep
    <3>1. x \notin Steady
      BY <1>2, <1>7, <2>2 DEF Steady
    <3>2. Lined((a \o b) \o e, i, j, over, stored, Steady, cut)
      BY <1>1, <1>2
    <3>3. PICK ab, s, t, ct : ab = a \o b /\ s = stored /\ t = Steady /\ ct = cut
      OBVIOUS
    <3>4. Lined(ab \o q, i, j, over, s, t, ct)
      <4>1. /\ ab \in Seq(IterKeys) /\ x \notin t /\ Lined(ab \o e, i, j, over, s, t, ct)
        BY <1>3, <3>1, <3>2, <3>3
      <4> QED BY <1>6, <4>1, LineDrops
    <3> QED BY <1>3, <1>8, <2>2, <3>3, <3>4
  <2> QED BY <2>1, <2>2
<1>13. ScanScanned'
  BY <1>4, <1>5, <1>6, <1>9, <1>10, <1>11, <1>12 DEF ScanScanned
<1> QED BY <1>9, <1>10, <1>11, <1>12, <1>13 DEF IterInv, Stage

\* After the last entry of a scan the buffer is served or filled by another.
LEMMA MatchedKeeps ==
  ASSUME IterInv, ~iter.byPrefix, ScanScanned, ScanMatched
  PROVE  IterInv'
<1>1. PICK i \in Nat, j \in Nat, e \in Seq(IterKeys), over \in BOOLEAN :
        /\ fetch = [pc |-> "scanned", entries |-> e, over |-> over, shard |-> i, item |-> j]
        /\ Lined((Served \o iter.buffer) \o e, i, j, over, stored, Steady, cut)
  BY DEF ScanScanned
<1>2. PICK b, a, w : b = iter.buffer /\ a = Served /\ w = Wanted
  OBVIOUS
<1>3. /\ IterTypes /\ b \in Seq(IterKeys) /\ a \in Seq(IterKeys) /\ a \o b \in Seq(IterKeys)
      /\ Within(a \o b, w)
  BY <1>2, IterIs, ServedIs DEF IterInv, IterTypes
<1>4. /\ stored' = stored /\ expired' = expired /\ replaced' = replaced
      /\ yielded' = yielded /\ ended' = ended /\ cut' = cut
  BY DEF ScanMatched, storeVars
<1>5. /\ e = <<>> /\ iter' = [iter EXCEPT !.shard = i, !.item = j, !.done = over]
      /\ fetch' = IF b = <<>> /\ ~over THEN [pc |-> "scan", shard |-> i, item |-> j, entries |-> e]
                  ELSE [pc |-> "serve"]
  <2>1. fetch.entries = e /\ fetch.shard = i /\ fetch.item = j /\ fetch.over = over
    BY <1>1
  <2> QED BY <1>2, <2>1 DEF ScanMatched, StartScan
<1>6. /\ iter' \in Iterators /\ iter'.byPrefix = iter.byPrefix /\ iter'.count = iter.count
      /\ iter'.shard = i /\ iter'.item = j /\ iter'.buffer = b /\ iter'.page = iter.page
      /\ iter'.pos = iter.pos /\ iter'.done = over /\ Wanted' = w /\ Steady' = Steady
  <2>1. PICK s, p : s = iter.page /\ p = iter.pos
    OBVIOUS
  <2>2. /\ s \in Seq(IterKeys) /\ p \in Nat
        /\ BecomesIter(iter, iter, iter.shard, iter.item, b, s, p, iter.done)
    BY <1>2, <1>3, <2>1, IterIs DEF IterTypes
  <2>3. BecomesIter(iter', iter, i, j, b, s, p, over)
    <3>1. iter' = [iter EXCEPT !.shard = i, !.item = j, !.done = over]
      BY <1>5
    <3> QED BY <2>2, <3>1, CursorBecomes
  <2>4. /\ iter' \in Iterators /\ iter'.byPrefix = iter.byPrefix /\ iter'.count = iter.count
        /\ iter'.shard = i /\ iter'.item = j /\ iter'.buffer = b /\ iter'.page = s
        /\ iter'.pos = p /\ iter'.done = over /\ Wanted' = Wanted /\ Steady' = Steady
    BY <1>1, <1>3, <1>4, <2>2, <2>3, IterMoves
  <2> QED BY <1>2, <2>1, <2>4
<1>7. Served' = a
  BY <1>2, <1>4, <1>6 DEF Served, RestOfPage
<1>8. IterTypes' /\ AtEnd' /\ ended' = 0 /\ Within(Served' \o iter'.buffer, Wanted')
  BY <1>3, <1>4, <1>6, <1>7 DEF IterTypes, AtEnd, ScanScanned
<1>9. Lined(a \o b, i, j, over, stored, Steady, cut)
  <2>1. (a \o b) \o <<>> = a \o b
    BY <1>3, ConcatEmptySeq
  <2> QED BY <1>1, <1>2, <1>5, <2>1
<1>10. CASE b = <<>> /\ ~over
  <2>1. Len(e) < 2 * iter'.count
    <3>1. iter'.count \in Nat \ {0} /\ Len(e) = 0
      BY <1>3, <1>5, <1>6, IterIs DEF IterTypes
    <3> QED BY <3>1
  <2>2. Lined(Served' \o e, i, j, FALSE, stored', Steady', cut')
    <3>1. over = FALSE
      BY <1>1, <1>10
    <3> QED BY <1>4, <1>5, <1>6, <1>7, <1>9, <1>10, <3>1
  <2>3. fetch' = [pc |-> "scan", shard |-> i, item |-> j, entries |-> e] /\ ~iter'.done /\ iter'.buffer = <<>>
    BY <1>5, <1>6, <1>10
  <2>4. ScanScanning'
    BY <1>8, <2>1, <2>2, <2>3 DEF ScanScanning
  <2> QED BY <1>6, <1>8, <2>4 DEF IterInv, Stage
<1>11. CASE ~(b = <<>> /\ ~over)
  <2>1. fetch' = [pc |-> "serve"] /\ (iter'.buffer # <<>> \/ iter'.done)
    BY <1>5, <1>6, <1>11
  <2>2. Lined(Served' \o iter'.buffer, iter'.shard, iter'.item, iter'.done, stored', Steady', cut')
    BY <1>4, <1>6, <1>7, <1>9
  <2>3. ScanServing'
    BY <1>8, <2>1, <2>2 DEF ScanServing
  <2> QED BY <1>6, <1>8, <2>3 DEF IterInv, Stage
<1> QED BY <1>10, <1>11

\* An iteration by prefix looks for hashes...
LEMMA FindKeeps ==
  ASSUME IterInv, iter.byPrefix, PrefixFinding, PrefixFind
  PROVE  IterInv'
<1>1. /\ stored' = stored /\ expired' = expired /\ replaced' = replaced /\ yielded' = yielded
      /\ IterTypes
  BY DEF PrefixFind, storeVars, IterInv
<1>2. PICK hashes \in FoundHashes(2 * iter.count) :
        IF iter.item >= Len(hashes)
        THEN Answer(FALSE) /\ iter' = [iter EXCEPT !.done = TRUE]
        ELSE /\ fetch' = [pc |-> "collect", hashes |-> hashes, i |-> iter.item + 1, entries |-> <<>>]
             /\ iter' = iter /\ ended' = ended
  BY DEF PrefixFind
<1>3. CASE iter.item >= Len(hashes)
  <2>1. fetch' = NoFetch /\ ended' = ended + 1 /\ iter' = [iter EXCEPT !.done = TRUE]
    BY <1>2, <1>3 DEF Answer
  <2>2. PICK h, m, b, s, p, d : /\ h = iter.shard /\ m = iter.item /\ b = iter.buffer
                                /\ s = iter.page /\ p = iter.pos /\ d = TRUE
    OBVIOUS
  <2>3. /\ h \in Nat /\ m \in Nat /\ b \in Seq(IterKeys) /\ s \in Seq(IterKeys) /\ p \in Nat /\ d \in BOOLEAN
        /\ BecomesIter(iter, iter, h, m, b, s, p, iter.done)
    BY <1>1, <2>2, IterIs DEF IterTypes
  <2>4. iter' = [iter EXCEPT !.done = d]
    BY <2>1, <2>2
  <2>5. BecomesIter(iter', iter, h, m, b, s, p, d)
    BY <2>3, <2>4, DoneBecomes
  <2>6. /\ iter' \in Iterators /\ iter'.byPrefix = iter.byPrefix /\ iter'.count = iter.count
        /\ iter'.shard = h /\ iter'.item = m /\ iter'.buffer = b /\ iter'.page = s
        /\ iter'.pos = p /\ iter'.done = d /\ Wanted' = Wanted /\ Steady' = Steady
    <3>1. MovedTo(h, m, b, s, p, d)
      BY <1>1, <2>3, <2>5, IterMovesTo
    <3> QED BY <3>1 DEF MovedTo
  <2>7. Served' = Served
    BY <1>1, <2>2, <2>6 DEF Served, RestOfPage
  <2>8. ended' \in Nat
    BY <1>1, <2>1 DEF IterTypes
  <2>9. IterTypes' /\ Within(Served' \o iter'.buffer, Wanted')
    BY <1>1, <2>2, <2>6, <2>7, <2>8 DEF IterTypes, IterInv
  <2> QED BY <2>1, <2>6, <2>9 DEF IterInv, Stage, PrefixUser
<1>4. CASE ~(iter.item >= Len(hashes))
  <2>1. PICK h, i, e : h = hashes /\ i = iter.item + 1 /\ e = <<>>
    OBVIOUS
  <2>2. fetch' = [pc |-> "collect", hashes |-> h, i |-> i, entries |-> e] /\ iter' = iter /\ ended' = ended
    BY <1>2, <1>4, <2>1
  <2>3. e \in Seq(IterKeys) /\ Within(e, Wanted')
    <3>1. e \in Seq(IterKeys)
      BY <2>1
    <3>2. \A k : ~In(e, k)
      BY <2>1, InNone
    <3> QED BY <3>1, <3>2 DEF Within
  <2>4. PrefixCollecting'
    <3>1. fetch'.hashes = h /\ fetch'.i = i /\ fetch'.entries = e
      BY <2>2
    <3> QED BY <2>2, <2>3, <3>1 DEF PrefixCollecting
  <2>5. IterTypes' /\ Served' = Served /\ Wanted' = Wanted
    BY <1>1, <2>2 DEF IterTypes, Served, RestOfPage, Wanted
  <2> QED BY <2>2, <2>4, <2>5 DEF IterInv, Stage
<1> QED BY <1>3, <1>4

\* ... looks each up...
LEMMA CollectKeeps ==
  ASSUME IterInv, iter.byPrefix, PrefixCollecting, PrefixCollect
  PROVE  IterInv'
<1>1. /\ stored' = stored /\ expired' = expired /\ yielded' = yielded /\ iter' = iter /\ ended' = ended
      /\ IterTypes /\ stored \subseteq IterKeys
  BY DEF PrefixCollect, storeVars, IterInv, IterTypes
<1>2. PICK h, i, e :
        /\ e \in Seq(IterKeys) /\ Within(e, Wanted)
        /\ fetch = [pc |-> "collect", hashes |-> h, i |-> i, entries |-> e]
  BY DEF PrefixCollecting
<1>3. PICK k, f : k = h[i] /\ f = IF k \in (stored \cap Wanted) \ expired THEN Append(e, k) ELSE e
  OBVIOUS
<1>4. f \in Seq(IterKeys) /\ Within(f, Wanted)
  <2>1. CASE k \in (stored \cap Wanted) \ expired
    <3>1. k \in IterKeys /\ k \in Wanted /\ f = Append(e, k)
      BY <1>1, <1>3, <2>1
    <3>2. <<k>> \in Seq(IterKeys) /\ f = e \o <<k>>
      BY <1>2, <3>1, AppendIsConcat
    <3>3. Within(<<k>>, Wanted)
      BY <3>1, InOne DEF Within
    <3>4. Append(e, k) \in Seq(IterKeys)
      BY <1>2, <3>1, AppendProperties
    <3>5. Within(e \o <<k>>, Wanted)
      BY <1>2, <3>2, <3>3, WithinBoth
    <3> QED BY <3>1, <3>2, <3>4, <3>5
  <2>2. CASE k \notin (stored \cap Wanted) \ expired
    BY <1>2, <1>3, <2>2
  <2> QED BY <2>1, <2>2
<1>5. PICK j : j = i + 1
  OBVIOUS
<1>6. fetch' = [pc |-> "collect", hashes |-> h, i |-> j, entries |-> f]
  <2>1. fetch.hashes = h /\ fetch.i = i /\ fetch.entries = e
    BY <1>2
  <2>2. fetch' = [fetch EXCEPT !.i = fetch.i + 1,
                               !.entries = IF fetch.hashes[fetch.i] \in (stored \cap Wanted) \ expired
                                           THEN Append(fetch.entries, fetch.hashes[fetch.i]) ELSE fetch.entries]
    BY DEF PrefixCollect
  <2>3. fetch' = [fetch EXCEPT !.i = j, !.entries = f]
    BY <1>3, <1>5, <2>1, <2>2
  <2>4. PICK g, g1 : g = fetch /\ g1 = fetch'
    OBVIOUS
  <2>5. g1 = [g EXCEPT !.i = j, !.entries = f] /\ g = [pc |-> "collect", hashes |-> h, i |-> i, entries |-> e]
    BY <1>2, <2>3, <2>4
  <2>6. g1 = [pc |-> "collect", hashes |-> h, i |-> j, entries |-> f]
    BY <2>5
  <2> QED BY <2>4, <2>6
<1>7. IterTypes' /\ Served' = Served /\ Wanted' = Wanted
  BY <1>1 DEF IterTypes, Served, RestOfPage, Wanted
<1>8. PrefixCollecting'
  <2>1. f \in Seq(IterKeys) /\ Within(f, Wanted')
    BY <1>4, <1>7
  <2>2. fetch'.hashes = h /\ fetch'.i = j /\ fetch'.entries = f
    BY <1>6
  <2> QED BY <1>6, <2>1, <2>2 DEF PrefixCollecting
<1> QED BY <1>1, <1>7, <1>8 DEF IterInv, Stage

\* ... and makes a page of those that match.
LEMMA PageKeeps ==
  ASSUME IterInv, iter.byPrefix, PrefixCollecting, PrefixPage
  PROVE  IterInv'
<1>1. /\ stored' = stored /\ expired' = expired /\ replaced' = replaced /\ IterTypes
  BY DEF PrefixPage, storeVars, IterInv
<1>2. PICK h, i, e :
        /\ e \in Seq(IterKeys) /\ Within(e, Wanted)
        /\ fetch = [pc |-> "collect", hashes |-> h, i |-> i, entries |-> e]
  BY DEF PrefixCollecting
<1>3. PICK n, d, m, b, s, y, w :
        /\ n = Len(e) /\ d = (iter.done \/ iter.item + n >= Len(h)) /\ m = iter.item + n
        /\ b = iter.buffer /\ s = iter.shard /\ y = yielded /\ w = Wanted
  OBVIOUS
<1>4. /\ n \in Nat /\ d \in BOOLEAN /\ m \in Nat /\ b \in Seq(IterKeys) /\ s \in Nat /\ y \in Seq(IterKeys)
      /\ ended \in Nat
  <2>1. n \in Nat
    BY <1>2, <1>3, LenProperties
  <2>2. iter.item \in Nat /\ b \in Seq(IterKeys) /\ s \in Nat /\ y \in Seq(IterKeys) /\ ended \in Nat
    BY <1>1, <1>3, IterIs DEF IterTypes
  <2>3. m \in Nat
    BY <1>3, <2>1, <2>2
  <2>4. d \in BOOLEAN
    BY <1>3
  <2> QED BY <2>1, <2>2, <2>3, <2>4
<1>5. /\ iter' = [iter EXCEPT !.page = e, !.pos = 0, !.item = m, !.done = d]
      /\ fetch' = NoFetch /\ ended' = ended + (IF n > 0 THEN 0 ELSE 1)
      /\ yielded' = IF n > 0 THEN Append(y, e[1]) ELSE y
  <2>1. fetch.entries = e /\ fetch.hashes = h
    BY <1>2
  <2> QED BY <1>3, <2>1 DEF PrefixPage, Answer
<1>6. BecomesIter(iter', iter, s, m, b, e, 0, d)
  <2>1. PICK p, o, j, g : p = iter.pos /\ o = iter.done /\ j = iter.item /\ g = iter.page
    OBVIOUS
  <2>2. BecomesIter(iter, iter, s, j, b, g, p, o)
    BY <1>1, <1>3, <2>1, IterIs DEF IterTypes
  <2> QED BY <1>5, <2>2, PageBecomes
<1>7. /\ iter' \in Iterators /\ iter'.byPrefix = iter.byPrefix /\ iter'.buffer = b
      /\ iter'.page = e /\ iter'.pos = 0 /\ Wanted' = w
  <2>1. PICK z : z = 0
    OBVIOUS
  <2>2. z \in Nat /\ BecomesIter(iter', iter, s, m, b, e, z, d)
    BY <1>6, <2>1
  <2>3. /\ iter' \in Iterators /\ iter'.byPrefix = iter.byPrefix /\ iter'.count = iter.count
        /\ iter'.shard = s /\ iter'.item = m /\ iter'.buffer = b /\ iter'.page = e
        /\ iter'.pos = z /\ iter'.done = d /\ Wanted' = Wanted /\ Steady' = Steady
    <3>1. MovedTo(s, m, b, e, z, d)
      BY <1>1, <1>2, <1>4, <2>2, IterMovesTo
    <3> QED BY <3>1 DEF MovedTo
  <2> QED BY <1>3, <2>1, <2>3
<1>8. Within(y, w) /\ Within(b, w)
  <2>1. /\ RestOfPage \in Seq(IterKeys) /\ Served \in Seq(IterKeys) /\ Within(Served \o b, w)
    BY <1>1, <1>3, ServedIs DEF IterInv
  <2>2. Within(Served, w) /\ Within(b, w)
    BY <1>4, <2>1, WithinBoth
  <2> QED BY <1>3, <1>4, <2>1, <2>2, WithinBoth DEF Served
<1>9. PICK r : r = SubSeq(e, 0 + 2, Len(e))
  OBVIOUS
<1>10. Served' = yielded' \o r
  BY <1>7, <1>9 DEF Served, RestOfPage
<1>11. yielded' \in Seq(IterKeys) /\ r \in Seq(IterKeys) /\ Within(yielded' \o r, w)
  <2>1. CASE n > 0
    <3>1. PICK l : l = Len(e)
      OBVIOUS
    <3>2. l \in 1 .. Len(e) /\ 1 \in 1 .. Len(e) /\ 1 \in Nat /\ l \in 0 .. Len(e)
      BY <1>3, <1>4, <2>1, <3>1
    <3>3. SubSeq(e, 1, l) = <<e[1]>> \o SubSeq(e, 1 + 1, l) /\ SubSeq(e, 1, l) = e
      BY <1>2, <3>1, <3>2, SubSeqRecursiveFirst, SubSeqFull
    <3>4. SubSeq(e, 1 + 1, l) \in Seq(IterKeys)
      BY <1>2, <3>2, PartOfSeq
    <3>5. e = <<e[1]>> \o r /\ r \in Seq(IterKeys) /\ e[1] \in IterKeys
      <4>1. 1 + 1 = 2 /\ 0 + 2 = 2
        OBVIOUS
      <4>2. e[1] \in IterKeys
        BY <1>2, <3>2, LenProperties
      <4> QED BY <1>9, <3>1, <3>3, <3>4, <4>1, <4>2
    <3>6. PICK x : x = e[1]
      OBVIOUS
    <3>7. x \in IterKeys /\ <<x>> \in Seq(IterKeys) /\ e = <<x>> \o r
      BY <3>5, <3>6
    <3>8. Within(<<x>>, w) /\ Within(r, w)
      BY <1>2, <1>3, <3>5, <3>7, WithinBoth
    <3>9. yielded' = y \o <<x>> /\ yielded' \in Seq(IterKeys)
      <4>1. yielded' = Append(y, x)
        BY <1>5, <2>1, <3>6
      <4> QED BY <1>4, <3>7, <4>1, AppendIsConcat, AppendProperties
    <3>10. Within(yielded', w)
      BY <1>4, <1>8, <3>7, <3>8, <3>9, WithinBoth
    <3> QED BY <3>5, <3>8, <3>9, <3>10, WithinBoth
  <2>2. CASE ~(n > 0)
    <3>1. n = 0 /\ yielded' = y
      BY <1>4, <1>5, <2>2
    <3>2. r = <<>>
      <4>1. PICK a, l : a = 0 + 2 /\ l = Len(e)
        OBVIOUS
      <4>2. l = 0
        BY <1>3, <3>1, <4>1
      <4>3. a \in Int /\ l \in Int /\ l < a
        BY <4>1, <4>2
      <4> QED BY <1>9, <4>1, <4>3, SubSeqEmpty
    <3>3. r \in Seq(IterKeys) /\ Within(r, w)
      BY <3>2, InNone DEF Within
    <3> QED BY <1>4, <1>8, <3>1, <3>3, WithinBoth
  <2> QED BY <2>1, <2>2
<1>12. Within(Served' \o iter'.buffer, Wanted')
  <2>1. yielded' \o r \in Seq(IterKeys)
    BY <1>11, ConcatProperties
  <2> QED BY <1>4, <1>7, <1>8, <1>10, <1>11, <2>1, WithinBoth
<1>13. IterTypes'
  <2>1. ended' \in Nat
    BY <1>4, <1>5
  <2> QED BY <1>1, <1>7, <1>11, <2>1 DEF IterTypes
<1> QED BY <1>5, <1>7, <1>12, <1>13 DEF IterInv, Stage, PrefixUser


\* A call of Next on an iteration by prefix.
LEMMA PrefixNextKeeps ==
  ASSUME IterInv, iter.byPrefix, PrefixUser, IterNext
  PROVE  IterInv'
<1>1. IterTypes' /\ CursorKept /\ fetch' = NoFetch /\ Served' = Served
  BY NextOnPage DEF IterInv
<1> QED BY <1>1 DEF IterInv, Stage, PrefixUser, CursorKept

LEMMA PrefixFetchKeeps ==
  ASSUME IterInv, iter.byPrefix, PrefixUser, IterFetch
  PROVE  IterInv'
<1>1. IterTypes' /\ CursorKept /\ fetch' = [pc |-> "find"] /\ Served' = Served
  BY NextFetches DEF IterInv
<1> QED BY <1>1 DEF IterInv, Stage, PrefixFinding, CursorKept

\* What others do makes no key steady, and a shard that gains a key is cut if the scans
\* are in the middle of it.
LEMMA ChangeIs ==
  ASSUME IterTypes, NEW key \in IterKeys, IterChange(key)
  PROVE  /\ iter' = iter /\ fetch' = fetch /\ ended' = ended
         /\ IterTypes' /\ Wanted' = Wanted /\ Served' = Served /\ AtEnd' = AtEnd
         /\ Steady' \subseteq Steady /\ Steady \subseteq stored /\ cut \subseteq cut'
         /\ \A i : InShard(i) /\ i \notin cut' => KeysOf(stored', i) \subseteq KeysOf(stored, i)
<1>1. iter' = iter /\ fetch' = fetch /\ yielded' = yielded /\ ended' = ended
  BY DEF IterChange
<1>2. Wanted' = Wanted /\ Served' = Served /\ AtEnd' = AtEnd
  BY <1>1 DEF Wanted, Served, RestOfPage, AtEnd
<1>3. CASE /\ stored' = stored \cup {key} /\ expired' = expired \ {key}
           /\ replaced' = replaced \cup {key}
           /\ cut' = cut \cup {i \in {ShardOf(key)} : InShard(i)}
  <2>1. \A i : InShard(i) /\ i \notin cut' => ShardOf(key) # i
    BY <1>3
  <2> QED BY <1>1, <1>2, <1>3, <2>1 DEF Steady, KeysOf, IterTypes
<1>4. CASE /\ stored' = stored \ {key} /\ expired' = expired \ {key}
           /\ replaced' = replaced \cup {key} /\ cut' = cut
  BY <1>1, <1>2, <1>4 DEF Steady, KeysOf, IterTypes
<1>5. CASE /\ expired' = expired \cup {key} /\ stored' = stored /\ replaced' = replaced /\ cut' = cut
  BY <1>1, <1>2, <1>5 DEF Steady, KeysOf, IterTypes
<1> QED BY <1>3, <1>4, <1>5 DEF IterChange

LEMMA ChangeKeeps ==
  ASSUME IterInv, NEW key \in IterKeys, IterChange(key)
  PROVE  IterInv'
<1>1. /\ iter' = iter /\ fetch' = fetch /\ ended' = ended
      /\ IterTypes' /\ Wanted' = Wanted /\ Served' = Served /\ AtEnd' = AtEnd
      /\ Steady' \subseteq Steady /\ Steady \subseteq stored /\ cut \subseteq cut'
      /\ \A i : InShard(i) /\ i \notin cut' => KeysOf(stored', i) \subseteq KeysOf(stored, i)
  BY ChangeIs DEF IterInv
<1>2. /\ stored \subseteq IterKeys /\ stored' \subseteq IterKeys /\ iter.shard \in Nat /\ iter.item \in Nat
  BY <1>1, IterIs DEF IterInv, IterTypes
<1>3. CASE iter.byPrefix
  BY <1>1, <1>3 DEF IterInv, Stage, PrefixUser, PrefixFinding, PrefixCollecting
<1>4. ASSUME ~iter.byPrefix, NEW i, NEW j \in Nat, Cursor.shard = i, Cursor.item = j,
             NEW line, NEW over, Lined(line, i, j, over, stored, Steady, cut)
      PROVE  Lined(line, i, j, over, stored', Steady', cut')
  <2>1. PICK s, steady, seams, t, less, seen :
          /\ s = stored /\ steady = Steady /\ seams = cut
          /\ t = stored' /\ less = Steady' /\ seen = cut'
    OBVIOUS
  <2>2. j > 0 /\ i \notin seen => KeysOf(t, i) \subseteq KeysOf(s, i)
    BY <1>1, <1>4, <2>1 DEF InShard
  <2>3. Lined(line, i, j, over, s, steady, seams)
    BY <1>4, <2>1
  <2>4. s \subseteq IterKeys /\ t \subseteq IterKeys /\ less \subseteq steady /\ seams \subseteq seen
    BY <1>1, <1>2, <2>1
  <2>5. Lined(line, i, j, over, t, less, seen)
    BY <2>2, <2>3, <2>4, LineLasts
  <2> QED BY <2>1, <2>5
<1>5. CASE ~iter.byPrefix /\ ScanUser
  <2>1. Cursor.shard = iter.shard /\ Cursor.item = iter.item
    BY <1>5 DEF Cursor, ScanUser, NoFetch
  <2>2. Lined(Served \o iter.buffer, iter.shard, iter.item, iter.done, stored', Steady', cut')
    BY <1>2, <1>4, <1>5, <2>1 DEF ScanUser
  <2>3. ScanUser'
    BY <1>1, <1>5, <2>2 DEF ScanUser
  <2> QED BY <1>1, <1>5, <2>3 DEF IterInv, Stage
<1>6. CASE ~iter.byPrefix /\ ScanServing
  <2>1. Cursor.shard = iter.shard /\ Cursor.item = iter.item
    BY <1>6 DEF Cursor, ScanServing
  <2>2. Lined(Served \o iter.buffer, iter.shard, iter.item, iter.done, stored', Steady', cut')
    BY <1>2, <1>4, <1>6, <2>1 DEF ScanServing
  <2>3. ScanServing'
    BY <1>1, <1>6, <2>2 DEF ScanServing
  <2> QED BY <1>1, <1>6, <2>3 DEF IterInv, Stage
<1>7. CASE ~iter.byPrefix /\ ScanScanning
  <2>1. PICK i \in Nat, j \in Nat, e \in Seq(IterKeys) :
          /\ fetch = [pc |-> "scan", shard |-> i, item |-> j, entries |-> e]
          /\ Len(e) < 2 * iter.count
          /\ Lined(Served \o e, i, j, FALSE, stored, Steady, cut)
    BY <1>7 DEF ScanScanning
  <2>2. Cursor.shard = i /\ Cursor.item = j
    BY <2>1 DEF Cursor
  <2>3. Lined(Served \o e, i, j, FALSE, stored', Steady', cut')
    BY <1>4, <1>7, <2>1, <2>2
  <2>4. ScanScanning'
    BY <1>1, <1>7, <2>1, <2>3 DEF ScanScanning
  <2> QED BY <1>1, <1>7, <2>4 DEF IterInv, Stage
<1>8. CASE ~iter.byPrefix /\ ScanScanned
  <2>1. PICK i \in Nat, j \in Nat, e \in Seq(IterKeys), over \in BOOLEAN :
          /\ fetch = [pc |-> "scanned", entries |-> e, over |-> over, shard |-> i, item |-> j]
          /\ Lined((Served \o iter.buffer) \o e, i, j, over, stored, Steady, cut)
    BY <1>8 DEF ScanScanned
  <2>2. Cursor.shard = i /\ Cursor.item = j
    BY <2>1 DEF Cursor
  <2>3. Lined((Served \o iter.buffer) \o e, i, j, over, stored', Steady', cut')
    BY <1>4, <1>8, <2>1, <2>2
  <2>4. ScanScanned'
    BY <1>1, <1>8, <2>1, <2>3 DEF ScanScanned
  <2> QED BY <1>1, <1>8, <2>4 DEF IterInv, Stage
<1> QED BY <1>3, <1>5, <1>6, <1>7, <1>8 DEF IterInv, Stage

\* Where Next is tells the stage.
LEMMA Stages ==
  ASSUME IterInv
  PROVE  /\ fetch = NoFetch => IF iter.byPrefix THEN PrefixUser ELSE ScanUser
         /\ fetch.pc = "serve" => ~iter.byPrefix /\ ScanServing
         /\ fetch.pc = "scan" => ~iter.byPrefix /\ ScanScanning
         /\ fetch.pc = "scanned" => ~iter.byPrefix /\ ScanScanned
         /\ fetch.pc = "find" => iter.byPrefix /\ PrefixFinding
         /\ fetch.pc = "collect" => iter.byPrefix /\ PrefixCollecting
<1>1. /\ PrefixUser => fetch.pc = "user"
      /\ PrefixFinding => fetch.pc = "find"
      /\ ScanUser => fetch.pc = "user"
      /\ ScanServing => fetch.pc = "serve"
      /\ fetch = NoFetch => fetch.pc = "user"
  BY DEF PrefixUser, PrefixFinding, ScanUser, ScanServing, NoFetch
<1>2. PrefixCollecting => fetch.pc = "collect"
  BY DEF PrefixCollecting
<1>3. ScanScanning => fetch.pc = "scan"
  BY DEF ScanScanning
<1>4. ScanScanned => fetch.pc = "scanned"
  BY DEF ScanScanned
<1> QED BY <1>1, <1>2, <1>3, <1>4 DEF IterInv, Stage

LEMMA IterStarts ==
  ASSUME IterInit
  PROVE  IterInv
<1>1. PICK byPrefix, size, prefix, pattern :
        /\ byPrefix \in BOOLEAN /\ size \in Nat \ {0}
        /\ prefix \in SUBSET IterKeys /\ pattern \in SUBSET IterKeys
        /\ iter = [byPrefix |-> byPrefix, count |-> size, prefix |-> prefix, pattern |-> pattern,
                   shard |-> 0, item |-> 0, buffer |-> <<>>, page |-> <<>>, pos |-> 0, done |-> FALSE]
  <2>1. PICK call \in Calls, byPrefix \in BOOLEAN, asked \in Counts, prefix \in SUBSET IterKeys :
          \E pattern \in IF call = "ScanMatch" THEN SUBSET prefix ELSE {IterKeys} :
             iter = [byPrefix |-> byPrefix, count |-> IF asked <= 0 THEN 10 ELSE asked,
                     prefix |-> prefix, pattern |-> pattern, shard |-> 0, item |-> 0,
                     buffer |-> <<>>, page |-> <<>>, pos |-> 0, done |-> FALSE]
    BY DEF IterInit
  <2>2. PICK pattern \in SUBSET IterKeys :
          iter = [byPrefix |-> byPrefix, count |-> IF asked <= 0 THEN 10 ELSE asked,
                  prefix |-> prefix, pattern |-> pattern, shard |-> 0, item |-> 0,
                  buffer |-> <<>>, page |-> <<>>, pos |-> 0, done |-> FALSE]
    BY <2>1
  <2>3. PICK size : size = IF asked <= 0 THEN 10 ELSE asked
    OBVIOUS
  <2>4. size \in Nat \ {0}
    BY <2>3, IteratorAssumption
  <2> QED BY <2>2, <2>3, <2>4
<1>2. fetch = NoFetch /\ yielded = <<>> /\ ended = 0 /\ cut = {} /\ stored \subseteq IterKeys
  BY DEF IterInit
<1>3. /\ iter \in Iterators /\ iter.shard = 0 /\ iter.item = 0 /\ iter.buffer = <<>>
      /\ iter.page = <<>> /\ iter.pos = 0 /\ iter.done = FALSE
  BY <1>1 DEF Iterators
<1>4. IterTypes
  BY <1>2, <1>3 DEF IterTypes
<1>5. Served \o iter.buffer = <<>>
  <2>1. AtEnd
    BY <1>3 DEF AtEnd
  <2>2. Served = <<>>
    BY <1>2, <1>4, <2>1, ServedIs
  <2> QED BY <1>3, <2>2
<1>6. \A k : ~In(<<>>, k) /\ Once(<<>>, k)
  BY InNone
<1>7. Within(Served \o iter.buffer, Wanted)
  BY <1>5, <1>6 DEF Within
<1>8. \A k \in IterKeys : ToScan(k, 0, 0)
  BY ShardIs DEF ToScan
<1>9. Lined(<<>>, 0, 0, FALSE, stored, Steady, cut)
  <2>1. PICK line, s, steady, seams : line = <<>> /\ s = stored /\ steady = Steady /\ seams = cut
    OBVIOUS
  <2>2. \A k : ~In(line, k) /\ Once(line, k)
    BY <1>6, <2>1
  <2>3. Lined(line, 0, 0, FALSE, s, steady, seams)
    BY <1>8, <2>2 DEF Lined
  <2> QED BY <2>1, <2>3
<1>10. ScanUser
  <2>1. PICK line, i, over : line = Served \o iter.buffer /\ i = iter.shard /\ over = iter.done
    OBVIOUS
  <2>2. line = <<>> /\ i = 0 /\ iter.item = 0 /\ over = FALSE
    BY <1>3, <1>5, <2>1
  <2>3. Lined(line, i, iter.item, over, stored, Steady, cut)
    BY <1>9, <2>2
  <2>4. ~(ended > 0)
    BY <1>2
  <2> QED BY <1>2, <2>1, <2>3, <2>4 DEF ScanUser
<1> QED BY <1>2, <1>4, <1>7, <1>10 DEF IterInv, Stage, PrefixUser

LEMMA IterKeeps ==
  ASSUME IterInv, [IteratorNext]_iterVars
  PROVE  IterInv'
<1>1. CASE iterVars' = iterVars
  <2>1. IterTypes' /\ Within(Served' \o iter'.buffer, Wanted') /\ Steady' = Steady
    BY <1>1 DEF iterVars, IterInv, IterTypes, Served, RestOfPage, Wanted, Steady
  <2>2. Stage'
    BY <1>1 DEF iterVars, IterInv, Stage, PrefixUser, PrefixFinding, PrefixCollecting,
                ScanUser, ScanServing, ScanScanning, ScanScanned, Served, RestOfPage, AtEnd, Wanted, Steady
  <2> QED BY <2>1, <2>2 DEF IterInv
<1>2. ASSUME NEW key \in IterKeys, IterChange(key) PROVE IterInv'
  BY <1>2, ChangeKeeps
<1>3. CASE IterNext
  <2>1. fetch = NoFetch
    BY <1>3 DEF IterNext
  <2> QED BY <1>3, <2>1, Stages, ScanNextKeeps, PrefixNextKeeps
<1>4. CASE IterFetch
  <2>1. fetch = NoFetch
    BY <1>4 DEF IterFetch
  <2> QED BY <1>4, <2>1, Stages, ScanFetchKeeps, PrefixFetchKeeps
<1>5. CASE IterServe
  <2>1. fetch.pc = "serve"
    BY <1>5 DEF IterServe
  <2> QED BY <1>5, <2>1, Stages, ServeKeeps
<1>6. CASE ScanShard
  <2>1. fetch.pc = "scan"
    BY <1>6 DEF ScanShard
  <2> QED BY <1>6, <2>1, Stages, ShardKeeps
<1>7. CASE ScanEnd
  <2>1. fetch.pc = "scan"
    BY <1>7 DEF ScanEnd
  <2> QED BY <1>7, <2>1, Stages, EndKeeps
<1>8. CASE MatchEntry
  <2>1. fetch.pc = "scanned"
    BY <1>8 DEF MatchEntry
  <2> QED BY <1>8, <2>1, Stages, EntryKeeps
<1>9. CASE ScanMatched
  <2>1. fetch.pc = "scanned"
    BY <1>9 DEF ScanMatched
  <2> QED BY <1>9, <2>1, Stages, MatchedKeeps
<1>10. CASE PrefixFind
  <2>1. fetch.pc = "find"
    BY <1>10 DEF PrefixFind
  <2> QED BY <1>10, <2>1, Stages, FindKeeps
<1>11. CASE PrefixCollect
  <2>1. fetch.pc = "collect"
    BY <1>11 DEF PrefixCollect
  <2> QED BY <1>11, <2>1, Stages, CollectKeeps
<1>12. CASE PrefixPage
  <2>1. fetch.pc = "collect"
    BY <1>12 DEF PrefixPage
  <2> QED BY <1>12, <2>1, Stages, PageKeeps
<1> QED BY <1>1, <1>2, <1>3, <1>4, <1>5, <1>6, <1>7, <1>8, <1>9, <1>10, <1>11, <1>12 DEF IteratorNext

\* The line of entries that have come through the scans is in order whatever others do to
\* the store between and during the calls of Next, and an iteration by prefix holds
\* nothing but what passes its filters.
THEOREM IterInvariant == IteratorSpec => []IterInv
<1>1. IterInit => IterInv
  BY IterStarts
<1>2. IterInv /\ [IteratorNext]_iterVars => IterInv'
  BY IterKeeps
<1> QED BY <1>1, <1>2, PTL DEF IteratorSpec

\* SteadyServedOnce: an iteration moves only to keys that pass its filters, and a Scan moves
\* once to each of them that stays in the store, the rest of the last buffer aside, as long as
\* it saw the shard of the key in one piece (fetchPage and Scan, iterator.go:82-131).
THEOREM SteadyKeysServed == IteratorSpec => []SteadyServedOnce
<1>1. ASSUME IterInv PROVE SteadyServedOnce
  <2>1. PICK y, r, b, w, seen : y = yielded /\ r = RestOfPage /\ b = iter.buffer /\ w = Wanted /\ seen = y \o b
    OBVIOUS
  <2>2. /\ y \in Seq(IterKeys) /\ r \in Seq(IterKeys) /\ b \in Seq(IterKeys) /\ Served = y \o r
        /\ Served \in Seq(IterKeys) /\ seen \in Seq(IterKeys) /\ (AtEnd => Served = y)
        /\ IterTypes
    BY <1>1, <2>1, IterIs, ServedIs, ConcatProperties DEF IterInv, IterTypes, Served
  <2>3. Within(y, w)
    BY <1>1, <2>1, <2>2, WithinBoth DEF IterInv
  <2>4. ToSet(yielded) \subseteq Wanted
    BY <2>1, <2>3 DEF Within, In, ToSet
  <2>5. ASSUME NEW k, Once(Served \o b, k) PROVE Once(seen, k)
    <3>1. PICK s : s = Served
      OBVIOUS
    <3>2. s \in Seq(IterKeys) /\ Once(s \o b, k)
      BY <2>2, <2>5, <3>1
    <3>3. Once(s, k) /\ Once(b, k) /\ ~(In(s, k) /\ In(b, k))
      BY <2>2, <3>2, OnceBoth
    <3>4. Once(y, k) /\ (In(y, k) => In(s, k))
      BY <2>2, <3>1, <3>3, OnceBoth, InBoth
    <3> QED BY <2>1, <2>2, <3>3, <3>4, OnceBoth
  <2>6. ASSUME ~iter.byPrefix, NEW k \in IterKeys, ShardOf(k) \notin cut PROVE Once(seen, k)
    <3>1. CASE ScanUser \/ ScanServing
      BY <2>1, <2>5, <2>6, <3>1 DEF ScanUser, ScanServing, Lined
    <3>2. CASE ScanScanning
      <4>1. PICK e \in Seq(IterKeys) : Once(Served \o e, k)
        BY <2>6, <3>2 DEF ScanScanning, Lined
      <4>2. b = <<>>
        BY <2>1, <3>2 DEF ScanScanning
      <4>3. Once(Served, k)
        BY <2>2, <4>1, OnceBoth
      <4>4. Served \o b = Served
        BY <2>2, <4>2, ConcatEmptySeq
      <4> QED BY <2>5, <4>3, <4>4
    <3>3. CASE ScanScanned
      <4>1. PICK e \in Seq(IterKeys) : Once((Served \o b) \o e, k)
        BY <2>1, <2>6, <3>3 DEF ScanScanned, Lined
      <4>2. Served \o b \in Seq(IterKeys)
        BY <2>2, ConcatProperties
      <4> QED BY <2>5, <4>1, <4>2, OnceBoth
    <3> QED BY <1>1, <2>6, <3>1, <3>2, <3>3 DEF IterInv, Stage
  <2>7. ASSUME ~iter.byPrefix, ended > 0, NEW k \in IterKeys, ShardOf(k) \notin cut, k \in Steady
        PROVE  In(seen, k)
    <3>1. ended # 0
      BY <2>2, <2>7 DEF IterTypes
    <3>2. ScanUser
      BY <1>1, <2>7, <3>1 DEF IterInv, Stage, ScanServing, ScanScanning, ScanScanned
    <3>3. iter.done /\ AtEnd
      BY <2>7, <3>2 DEF ScanUser
    <3>4. In(Served \o iter.buffer, k)
      BY <2>7, <3>2, <3>3 DEF ScanUser, Lined
    <3> QED BY <2>1, <2>2, <3>3, <3>4
  <2>8. PICK z : z = yielded \o iter.buffer
    OBVIOUS
  <2>9. ~iter.byPrefix => \A k \in IterKeys : ShardOf(k) \notin cut =>
          /\ Once(z, k)
          /\ ended > 0 /\ k \in Steady => In(z, k)
    BY <2>1, <2>6, <2>7, <2>8
  <2>10. \A k : /\ Once(z, k) => \A m, n \in DOMAIN z : z[m] = k /\ z[n] = k => m = n
               /\ In(z, k) => k \in ToSet(z)
    <3> SUFFICES ASSUME NEW k
                 PROVE  /\ Once(z, k) => \A m, n \in DOMAIN z : z[m] = k /\ z[n] = k => m = n
                        /\ In(z, k) => k \in ToSet(z)
      OBVIOUS
    <3>1. Once(z, k) => \A m, n \in DOMAIN z : z[m] = k /\ z[n] = k => m = n
      BY DEF Once
    <3>2. In(z, k) => k \in ToSet(z)
      BY DEF In, ToSet
    <3> QED BY <3>1, <3>2
  <2>11. ~iter.byPrefix => \A k \in IterKeys : ShardOf(k) \notin cut =>
           /\ \A m, n \in DOMAIN z : z[m] = k /\ z[n] = k => m = n
           /\ ended > 0 /\ k \in (stored \cap Wanted) \ (expired \cup replaced) => k \in ToSet(z)
    <3> SUFFICES ASSUME ~iter.byPrefix, NEW k \in IterKeys, ShardOf(k) \notin cut
                 PROVE  /\ \A m, n \in DOMAIN z : z[m] = k /\ z[n] = k => m = n
                        /\ ended > 0 /\ k \in (stored \cap Wanted) \ (expired \cup replaced) => k \in ToSet(z)
      OBVIOUS
    <3>1. Once(z, k) /\ (ended > 0 /\ k \in Steady => In(z, k))
      BY <2>9
    <3>2. \A m, n \in DOMAIN z : z[m] = k /\ z[n] = k => m = n
      BY ONLY <3>1 DEF Once
    <3>3. k \in (stored \cap Wanted) \ (expired \cup replaced) => k \in Steady
      BY DEF Steady
    <3> QED BY <2>10, <3>1, <3>2, <3>3
  <2> QED BY <2>4, <2>8, <2>11 DEF SteadyServedOnce
<1> QED BY <1>1, IterInvariant, PTL
-----------------------------------------------------------------------------
(* SwissTable.                                                             *)

SwissSpec == SwissInit /\ [][SwissNext]_swissVars

SwissEntries == [hash : Nat, cost : Nat]

Tables(n) == [groups : [1 .. n -> [1 .. GroupSize -> Int]],
              entries : [Slots(n) -> SwissEntries], size : Nat]

FullIn(t) == {s \in Slots(Len(t.groups)) : Full(t.groups[s[1]][s[2]])}

HasEmpty(t, g) == \E i \in 1 .. GroupSize : t.groups[g][i] = Empty

\* The probe for a hash comes to group g: none that it looks at before has an
\* empty slot.
Reaches(t, hash, g) ==
  \E p \in 0 .. Len(t.groups) - 1 :
    /\ ProbedGroup(t.groups, hash, p) = g
    /\ \A q \in 0 .. p - 1 : ~HasEmpty(t, ProbedGroup(t.groups, hash, q))

\* The table of n groups counts its full slots; a full slot has the control byte
\* of its hash, in a group that the probe for the hash comes to; and no two have
\* one hash.
TableInv(t, n) ==
  /\ n \in Nat \ {0} /\ Len(t.groups) = n /\ t \in Tables(n)
  /\ t.size = Cardinality(FullIn(t))
  /\ \A s \in FullIn(t) :
       /\ t.groups[s[1]][s[2]] = h2(t.entries[s].hash)
       /\ Reaches(t, t.entries[s].hash, s[1])
  /\ \A r, s \in FullIn(t) : t.entries[r].hash = t.entries[s].hash => r = s

Contents(t) == {t.entries[s] : s \in FullIn(t)}

\* The costs that f gives to hashes, as entries.
Costs(f) == {[hash |-> h, cost |-> f[h]] : h \in DOMAIN f}

\* The table holds the cost that f gives to each hash, and nothing else.
HoldsCosts(t, f) ==
  /\ TableInv(t, Len(t.groups))
  /\ DOMAIN f \in SUBSET SwissHashes /\ IsFiniteSet(DOMAIN f)
  /\ \A h \in DOMAIN f : f[h] \in SwissCosts
  /\ t.size = Cardinality(DOMAIN f)
  /\ Contents(t) = Costs(f)

\* The inductive invariant.
SwissInv == HoldsCosts(Table, costOf)

-----------------------------------------------------------------------------
(* The probe.                                                              *)

\* Multiples of n are at least n apart.
LEMMA Gap ==
  ASSUME NEW n \in Nat \ {0}, NEW q \in Nat, NEW r \in Nat, q < r
  PROVE  n * q + n <= n * r
<1>1. PICK k \in Nat : r = q + 1 + k
  <2>1. r - q - 1 \in Nat /\ r = q + 1 + (r - q - 1)
    OBVIOUS
  <2> QED BY <2>1
<1>2. n * r = n * q + n + n * k
  BY <1>1
<1>3. n * k >= 0
  OBVIOUS
<1> QED BY <1>2, <1>3

\* What is b above a multiple of n, and b less than n, leaves b.
LEMMA RemainderOf ==
  ASSUME NEW n \in Nat \ {0}, NEW k \in Nat, NEW b \in 0 .. n - 1
  PROVE  (n * k + b) % n = b
<1>1. PICK x \in Nat : x = n * k + b
  <2>1. n * k \in Nat
    OBVIOUS
  <2> QED BY <2>1
<1>2. PICK d \in Nat, m \in 0 .. n - 1 : x = n * d + m /\ x % n = m
  <2>1. x \div n \in Nat /\ x % n \in 0 .. n - 1
    OBVIOUS
  <2>2. x = n * (x \div n) + (x % n)
    OBVIOUS
  <2> QED BY <2>1, <2>2
<1>3. n * k \in Nat /\ n * d \in Nat /\ n * k + b = n * d + m
  BY <1>1, <1>2
<1>4. ~(k < d)
  <2>1. k < d => n * k + n <= n * d
    BY Gap
  <2> QED BY <1>3, <2>1
<1>5. ~(d < k)
  <2>1. d < k => n * d + n <= n * k
    BY Gap
  <2> QED BY <1>3, <2>1
<1>6. k = d
  BY <1>4, <1>5
<1> QED BY <1>1, <1>2, <1>3, <1>6

OfLen(gs, n) == Len(gs) = n

LEMMA ProbeRange ==
  ASSUME NEW gs, NEW n \in Nat \ {0}, OfLen(gs, n), NEW hash \in Nat, NEW p \in Nat
  PROVE  ProbedGroup(gs, hash, p) \in 1 .. n
<1>1. h1(hash) \in Nat
  BY SwissAssumption DEF h1
<1>2. PICK a \in Nat : a = h1(hash) + p
  BY <1>1
<1>3. a % n \in 0 .. n - 1
  OBVIOUS
<1> QED BY <1>2, <1>3 DEF ProbedGroup, OfLen

\* The probe comes to every group, if nothing ends it.
LEMMA ProbesAll ==
  ASSUME NEW gs, NEW n \in Nat \ {0}, OfLen(gs, n), NEW hash \in Nat, NEW g \in 1 .. n
  PROVE  \E p \in 0 .. n - 1 : ProbedGroup(gs, hash, p) = g
<1>1. PICK a \in Nat : a = h1(hash)
  BY SwissAssumption DEF h1
<1>2. PICK q \in Nat, r \in 0 .. n - 1 : a = n * q + r
  <2>1. a \div n \in Nat /\ a % n \in 0 .. n - 1
    OBVIOUS
  <2>2. a = n * (a \div n) + (a % n)
    OBVIOUS
  <2> QED BY <2>1, <2>2
<1>3. PICK b \in 0 .. n - 1 : g = b + 1
  <2>1. g - 1 \in 0 .. n - 1 /\ g = (g - 1) + 1
    OBVIOUS
  <2> QED BY <2>1
<1>4. CASE r <= b
  <2>1. a + (b - r) = n * q + b
    BY <1>2
  <2>2. (n * q + b) % n = b
    BY RemainderOf
  <2>3. b - r \in 0 .. n - 1
    BY <1>4
  <2> QED BY <1>1, <1>3, <2>1, <2>2, <2>3 DEF ProbedGroup, OfLen
<1>5. CASE b < r
  <2>1. n * (q + 1) = n * q + n /\ n * q \in Nat
    OBVIOUS
  <2>2. a + (b + n - r) = n * (q + 1) + b
    BY <1>2, <2>1
  <2>3. (n * (q + 1) + b) % n = b
    BY q + 1 \in Nat, RemainderOf
  <2>4. b + n - r \in 0 .. n - 1
    BY <1>5
  <2> QED BY <1>1, <1>3, <2>2, <2>3, <2>4 DEF ProbedGroup, OfLen
<1> QED BY <1>4, <1>5

\* Some slot of a set comes first.
LEMMA FirstSlot ==
  ASSUME NEW S \in SUBSET (Nat \X Nat), S # {}
  PROVE  \E s \in S : \A r \in S \ {s} : Earlier(s, r)
<1> DEFINE G == {s[1] : s \in S}
<1>1. G \in SUBSET Nat /\ G # {}
  OBVIOUS
<1>2. PICK g \in G : \A m \in G : g <= m
  BY <1>1, LeastNumber
<1> DEFINE I == {s[2] : s \in {r \in S : r[1] = g}}
<1>3. I \in SUBSET Nat /\ I # {}
  OBVIOUS
<1>4. PICK i \in I : \A m \in I : i <= m
  BY <1>3, LeastNumber
<1>5. PICK s \in S : s[1] = g /\ s[2] = i
  OBVIOUS
<1>6. ASSUME NEW r \in S \ {s} PROVE Earlier(s, r)
  <2>1. r[1] \in Nat /\ r[2] \in Nat /\ r = <<r[1], r[2]>> /\ s = <<s[1], s[2]>>
    OBVIOUS
  <2>2. g <= r[1] /\ (r[1] = g => i <= r[2])
    BY <1>2, <1>4
  <2>3. g \in Nat /\ i \in Nat /\ (r[1] # g \/ r[2] # i)
    BY <1>5, <2>1
  <2> QED BY <1>5, <2>1, <2>2, <2>3 DEF Earlier
<1> QED BY <1>6

\* A table has as many groups as its control bytes are for.
LEMMA TableLen ==
  ASSUME NEW n \in Nat, NEW X, NEW gs \in [1 .. n -> X]
  PROVE  Len(gs) = n
<1>1. gs \in Seq(X)
  OBVIOUS
<1>2. DOMAIN gs = 1 .. Len(gs) /\ Len(gs) \in Nat
  BY <1>1, LenProperties
<1>3. DOMAIN gs = 1 .. n
  OBVIOUS
<1> QED BY <1>2, <1>3

-----------------------------------------------------------------------------
(* An entry is placed.                                                     *)

FreeFor(t, hash) ==
  {s \in (0 .. Len(t.groups) - 1) \X (1 .. GroupSize) :
     ~Full(t.groups[ProbedGroup(t.groups, hash, s[1])][s[2]])}

\* Slot i of group g takes the entry.
Put(t, g, i, entry) ==
  [groups |-> [t.groups EXCEPT ![g][i] = h2(entry.hash)],
   entries |-> [t.entries EXCEPT ![<<g, i>>] = entry],
   size |-> t.size + 1]

IsPut(u, t, g, i, entry) == u = Put(t, g, i, entry)

\* The entry goes to the first free slot of its probe.
LEMMA PlaceIsPut ==
  ASSUME NEW t, NEW entry, FreeFor(t, entry.hash) # {}, Len(t.groups) \in Nat
  PROVE  \E p \in 0 .. Len(t.groups) - 1, i \in 1 .. GroupSize :
           /\ ~Full(t.groups[ProbedGroup(t.groups, entry.hash, p)][i])
           /\ \A q \in 0 .. p - 1, j \in 1 .. GroupSize :
                Full(t.groups[ProbedGroup(t.groups, entry.hash, q)][j])
           /\ IsPut(Place(t, entry), t, ProbedGroup(t.groups, entry.hash, p), i, entry)
<1> DEFINE free == FreeFor(t, entry.hash)
           first == CHOOSE s \in free : \A r \in free \ {s} : Earlier(s, r)
<1>1. GroupSize \in Nat
  BY SwissAssumption
<1>2. free \in SUBSET (Nat \X Nat)
  BY <1>1 DEF FreeFor
<1>3. first \in free /\ \A r \in free \ {first} : Earlier(first, r)
  <2>1. \E s \in free : \A r \in free \ {s} : Earlier(s, r)
    BY <1>2, FirstSlot
  <2> HIDE DEF free
  <2> QED BY <2>1
<1>4. Place(t, entry) = Put(t, ProbedGroup(t.groups, entry.hash, first[1]), first[2], entry)
  BY DEF Place, Put, FreeFor
<1> HIDE DEF first
<1>5. PICK p \in 0 .. Len(t.groups) - 1, i \in 1 .. GroupSize : first = <<p, i>> /\ p = first[1] /\ i = first[2]
  BY <1>3 DEF FreeFor
<1>6. ~Full(t.groups[ProbedGroup(t.groups, entry.hash, p)][i])
  BY <1>3, <1>5 DEF FreeFor
<1>7. ASSUME NEW q \in 0 .. p - 1, NEW j \in 1 .. GroupSize
      PROVE  Full(t.groups[ProbedGroup(t.groups, entry.hash, q)][j])
  <2> SUFFICES ASSUME ~Full(t.groups[ProbedGroup(t.groups, entry.hash, q)][j]) PROVE FALSE
    OBVIOUS
  <2>1. q \in 0 .. Len(t.groups) - 1 /\ q < p
    OBVIOUS
  <2>2. <<q, j>> \in free
    BY <2>1 DEF FreeFor
  <2>3. Earlier(first, <<q, j>>)
    BY <1>3, <1>5, <2>1, <2>2
  <2>4. p < q \/ p = q
    BY <1>5, <2>3 DEF Earlier
  <2> QED BY <2>1, <2>4
<1> QED BY <1>4, <1>5, <1>6, <1>7 DEF IsPut

\* One control byte of all is set.
LEMMA OneByte ==
  ASSUME NEW A, NEW B, NEW f \in [A -> [B -> Int]], NEW a \in A, NEW b \in B, NEW c \in Int,
         NEW g, g = [f EXCEPT ![a][b] = c]
  PROVE  /\ g \in [A -> [B -> Int]] /\ g[a][b] = c
         /\ \A x \in A, y \in B : (x # a \/ y # b) => g[x][y] = f[x][y]
<1>1. g \in [A -> [B -> Int]]
  OBVIOUS
<1>2. \A x \in A : g[x] = IF x = a THEN [f[a] EXCEPT ![b] = c] ELSE f[x]
  OBVIOUS
<1>3. f[a] \in [B -> Int]
  OBVIOUS
<1>4. g[a][b] = c
  BY <1>2, <1>3
<1>5. ASSUME NEW x \in A, NEW y \in B, x # a \/ y # b PROVE g[x][y] = f[x][y]
  <2>1. CASE x # a
    BY <1>2, <2>1
  <2>2. CASE x = a /\ y # b
    BY <1>2, <1>3, <2>2
  <2> QED BY <1>5, <2>1, <2>2
<1> QED BY <1>1, <1>4, <1>5

\* Where an entry was put in a table, the rest is as it was.
LEMMA PutTable ==
  ASSUME NEW n \in Nat \ {0}, NEW t \in Tables(n), NEW g \in 1 .. n, NEW i \in 1 .. GroupSize,
         NEW e \in SwissEntries, NEW u, IsPut(u, t, g, i, e)
  PROVE  /\ u \in Tables(n) /\ u.size = t.size + 1 /\ <<g, i>> \in Slots(n)
         /\ Len(u.groups) = n /\ Len(t.groups) = n
         /\ u.groups[g][i] = h2(e.hash) /\ u.entries[<<g, i>>] = e
         /\ \A s \in Slots(n) \ {<<g, i>>} :
              u.groups[s[1]][s[2]] = t.groups[s[1]][s[2]] /\ u.entries[s] = t.entries[s]
<1>1. u = [groups |-> [t.groups EXCEPT ![g][i] = h2(e.hash)],
           entries |-> [t.entries EXCEPT ![<<g, i>>] = e],
           size |-> t.size + 1]
  BY DEF IsPut, Put
<1>2. /\ u.groups = [t.groups EXCEPT ![g][i] = h2(e.hash)]
      /\ u.entries = [t.entries EXCEPT ![<<g, i>>] = e]
      /\ u.size = t.size + 1
  BY <1>1
<1>3. /\ t.groups \in [1 .. n -> [1 .. GroupSize -> Int]]
      /\ t.entries \in [Slots(n) -> SwissEntries] /\ t.size \in Nat
  BY DEF Tables
<1>4. h2(e.hash) \in Int
  BY SwissAssumption DEF h2, SwissEntries
<1>5. <<g, i>> \in Slots(n)
  BY DEF Slots
<1>6. /\ u.groups \in [1 .. n -> [1 .. GroupSize -> Int]]
      /\ u.groups[g][i] = h2(e.hash)
      /\ \A x \in 1 .. n, y \in 1 .. GroupSize :
           (x # g \/ y # i) => u.groups[x][y] = t.groups[x][y]
  <2>1. PICK A, B, c, v, w :
          A = 1 .. n /\ B = 1 .. GroupSize /\ c = h2(e.hash) /\ v = t.groups /\ w = u.groups
    OBVIOUS
  <2>2. v \in [A -> [B -> Int]] /\ g \in A /\ i \in B /\ c \in Int
    BY <1>3, <1>4, <2>1
  <2>3. w = [v EXCEPT ![g][i] = c]
    BY <1>2, <2>1
  <2>4. /\ w \in [A -> [B -> Int]] /\ w[g][i] = c
        /\ \A x \in A, y \in B : (x # g \/ y # i) => w[x][y] = v[x][y]
    BY ONLY <2>2, <2>3, OneByte
  <2> QED BY <2>1, <2>4
<1>7. u.entries \in [Slots(n) -> SwissEntries] /\ u.size \in Nat
  BY <1>2, <1>3, <1>5
<1>8. u \in Tables(n)
  BY <1>1, <1>2, <1>6, <1>7 DEF Tables
<1>9. u.groups[g][i] = h2(e.hash)
  BY <1>6
<1>10. u.entries[<<g, i>>] = e
  BY <1>2, <1>3, <1>5
<1>11. ASSUME NEW s \in Slots(n) \ {<<g, i>>}
       PROVE  u.groups[s[1]][s[2]] = t.groups[s[1]][s[2]] /\ u.entries[s] = t.entries[s]
  <2>1. s[1] \in 1 .. n /\ s[2] \in 1 .. GroupSize /\ s = <<s[1], s[2]>>
    BY DEF Slots
  <2>2. s[1] # g \/ s[2] # i
    BY <2>1
  <2>3. u.groups[s[1]][s[2]] = t.groups[s[1]][s[2]]
    BY <1>6, <2>1, <2>2
  <2>4. u.entries[s] = t.entries[s]
    BY <1>2, <1>3
  <2> QED BY <2>3, <2>4
<1>12. Len(u.groups) = n /\ Len(t.groups) = n
  BY <1>3, <1>6, TableLen
<1> QED BY <1>2, <1>5, <1>8, <1>9, <1>10, <1>11, <1>12

LEMMA IntervalSize ==
  ASSUME NEW n \in Nat
  PROVE  IsFiniteSet(1 .. n) /\ Cardinality(1 .. n) = n
<1>1. IsFiniteSet(1 .. n) /\ Cardinality(1 .. n) = IF 1 > n THEN 0 ELSE n - 1 + 1
  BY FS_Interval, 1 \in Int, n \in Int
<1> QED BY <1>1

LEMMA SlotsCount ==
  ASSUME NEW n \in Nat
  PROVE  IsFiniteSet(Slots(n)) /\ Cardinality(Slots(n)) = n * GroupSize
<1>1. GroupSize \in Nat
  BY SwissAssumption
<1>2. PICK A : A = 1 .. n
  OBVIOUS
<1>3. PICK B : B = 1 .. GroupSize
  OBVIOUS
<1>4. IsFiniteSet(A) /\ Cardinality(A) = n /\ IsFiniteSet(B) /\ Cardinality(B) = GroupSize
  BY <1>1, <1>2, <1>3, IntervalSize
<1>5. IsFiniteSet(A \X B) /\ Cardinality(A \X B) = Cardinality(A) * Cardinality(B)
  BY <1>4, FS_Product
<1> QED BY <1>2, <1>3, <1>4, <1>5 DEF Slots

LEMMA FullFinite ==
  ASSUME NEW n \in Nat, NEW t, Len(t.groups) = n
  PROVE  /\ FullIn(t) \in SUBSET Slots(n) /\ IsFiniteSet(FullIn(t))
         /\ Cardinality(FullIn(t)) \in Nat /\ Cardinality(FullIn(t)) <= n * GroupSize
         /\ FullIn(t) = Slots(n) => Cardinality(FullIn(t)) = n * GroupSize
<1>1. FullIn(t) \in SUBSET Slots(n)
  BY DEF FullIn
<1>2. IsFiniteSet(Slots(n)) /\ Cardinality(Slots(n)) = n * GroupSize
  BY SlotsCount
<1> QED BY <1>1, <1>2, FS_Subset, FS_CardinalityType

\* As long as a slot is not full, a probe that nothing ends comes to it.
LEMMA RoomIsFree ==
  ASSUME NEW n, NEW t, TableInv(t, n), t.size < n * GroupSize, NEW hash \in Nat
  PROVE  FreeFor(t, hash) # {}
<1>1. n \in Nat \ {0} /\ Len(t.groups) = n /\ t.size = Cardinality(FullIn(t))
  BY DEF TableInv
<1>2. FullIn(t) \in SUBSET Slots(n) /\ FullIn(t) # Slots(n)
  <2>1. PICK m \in Nat : m = n * GroupSize
    BY <1>1, SwissAssumption
  <2>2. t.size # m
    <3>1. t.size \in Nat
      BY <1>1, FullFinite
    <3> QED BY <2>1, <3>1
  <2> QED BY <1>1, <2>1, <2>2, FullFinite
<1>3. PICK s \in Slots(n) : s \notin FullIn(t)
  BY <1>2
<1>4. s[1] \in 1 .. n /\ s[2] \in 1 .. GroupSize /\ ~Full(t.groups[s[1]][s[2]])
  <2>1. ~Full(t.groups[s[1]][s[2]])
    BY <1>1, <1>3 DEF FullIn
  <2> QED BY <2>1 DEF Slots
<1>5. PICK p \in 0 .. n - 1 : ProbedGroup(t.groups, hash, p) = s[1]
  <2>1. PICK g \in 1 .. n : g = s[1]
    BY <1>4
  <2>2. PICK gs : gs = t.groups
    OBVIOUS
  <2>3. n \in Nat \ {0} /\ OfLen(gs, n)
    BY <1>1, <2>2 DEF OfLen
  <2>4. \E p \in 0 .. n - 1 : ProbedGroup(gs, hash, p) = g
    BY ONLY <2>3, hash \in Nat, g \in 1 .. n, ProbesAll
  <2> QED BY <2>1, <2>2, <2>4
<1>6. <<p, s[2]>> \in FreeFor(t, hash)
  BY <1>1, <1>4, <1>5 DEF FreeFor
<1> QED BY <1>6

\* No full slot of the table has this hash.
Lacks(t, hash) == \A s \in FullIn(t) : t.entries[s].hash # hash

\* A group with an empty slot in the one table has one in the other.
FewerEmpty(u, t, n) ==
  Len(u.groups) = n /\ Len(t.groups) = n /\ \A g \in 1 .. n : HasEmpty(u, g) => HasEmpty(t, g)

\* Where a probe comes to, it still does when groups have lost empty slots.
LEMMA StillReaches ==
  ASSUME NEW n \in Nat \ {0}, NEW u, NEW t, FewerEmpty(u, t, n), NEW hash \in Nat, NEW g,
         Reaches(t, hash, g)
  PROVE  Reaches(u, hash, g)
<1>1. Len(u.groups) = n /\ Len(t.groups) = n
  BY DEF FewerEmpty
<1>2. \A q : ProbedGroup(u.groups, hash, q) = ProbedGroup(t.groups, hash, q)
  BY <1>1 DEF ProbedGroup
<1>3. PICK p \in 0 .. n - 1 :
        /\ ProbedGroup(t.groups, hash, p) = g
        /\ \A q \in 0 .. p - 1 : ~HasEmpty(t, ProbedGroup(t.groups, hash, q))
  BY <1>1 DEF Reaches
<1>4. ASSUME NEW q \in 0 .. p - 1 PROVE ~HasEmpty(u, ProbedGroup(u.groups, hash, q))
  <2>1. PICK gs : gs = t.groups
    OBVIOUS
  <2>2. OfLen(gs, n)
    BY <1>1, <2>1 DEF OfLen
  <2>3. ProbedGroup(gs, hash, q) \in 1 .. n
    BY <2>2, ProbeRange, q \in Nat
  <2>4. ~HasEmpty(t, ProbedGroup(gs, hash, q))
    BY <1>3, <2>1
  <2> QED BY <1>2, <2>1, <2>3, <2>4 DEF FewerEmpty
<1> QED BY <1>1, <1>2, <1>3, <1>4 DEF Reaches

\* An entry for a hash that the table lacks, put in a slot that is free and that
\* its probe comes to, is one more of the table.
LEMMA PutKeeps ==
  ASSUME NEW n, NEW t, TableInv(t, n), NEW g \in 1 .. n, NEW i \in 1 .. GroupSize,
         ~Full(t.groups[g][i]), NEW e \in SwissEntries, Lacks(t, e.hash),
         Reaches(t, e.hash, g), NEW u, IsPut(u, t, g, i, e)
  PROVE  TableInv(u, n) /\ Contents(u) = Contents(t) \cup {e} /\ u.size = t.size + 1
<1>1. n \in Nat \ {0} /\ Len(t.groups) = n /\ t \in Tables(n) /\ t.size = Cardinality(FullIn(t))
  BY DEF TableInv
<1>2. /\ u \in Tables(n) /\ u.size = t.size + 1 /\ <<g, i>> \in Slots(n)
      /\ Len(u.groups) = n
      /\ u.groups[g][i] = h2(e.hash) /\ u.entries[<<g, i>>] = e
      /\ \A s \in Slots(n) \ {<<g, i>>} :
           u.groups[s[1]][s[2]] = t.groups[s[1]][s[2]] /\ u.entries[s] = t.entries[s]
  BY <1>1, PutTable
<1>3. e.hash \in Nat /\ h2(e.hash) \in Nat
  BY SwissAssumption DEF SwissEntries, h2
<1>4. Full(u.groups[g][i])
  BY <1>2, <1>3 DEF Full, Empty, Deleted
<1>5. PICK x : x = <<g, i>> /\ x[1] = g /\ x[2] = i
  <2>1. <<g, i>>[1] = g /\ <<g, i>>[2] = i
    OBVIOUS
  <2> QED BY <2>1
<1>6. /\ FullIn(u) = FullIn(t) \cup {x} /\ x \notin FullIn(t)
  <2>1. x \notin FullIn(t) /\ x \in Slots(n)
    BY <1>2, <1>5 DEF FullIn
  <2>2. ASSUME NEW s \in Slots(n), s # x
        PROVE  Full(u.groups[s[1]][s[2]]) <=> Full(t.groups[s[1]][s[2]])
    BY <1>2, <1>5, <2>2
  <2>3. Full(u.groups[x[1]][x[2]])
    BY <1>4, <1>5
  <2> HIDE DEF Full
  <2> QED BY <1>1, <1>2, <2>1, <2>2, <2>3 DEF FullIn
<1>7. FullIn(t) \in SUBSET Slots(n) /\ IsFiniteSet(FullIn(t)) /\ Cardinality(FullIn(t)) \in Nat
  BY <1>1, FullFinite
<1>8. u.size = Cardinality(FullIn(u))
  <2>1. Cardinality(FullIn(t) \cup {x}) = Cardinality(FullIn(t)) + 1
    BY <1>6, <1>7, FS_AddElement
  <2> QED BY <1>1, <1>2, <1>6, <2>1
<1>9. u.entries[x] = e /\ u.groups[x[1]][x[2]] = h2(e.hash)
  BY <1>2, <1>5
<1>10. ASSUME NEW s \in FullIn(t)
       PROVE  /\ u.entries[s] = t.entries[s] /\ t.entries[s] \in SwissEntries
              /\ u.groups[s[1]][s[2]] = h2(t.entries[s].hash)
              /\ Reaches(t, t.entries[s].hash, s[1]) /\ t.entries[s].hash # e.hash
  <2>1. s \in Slots(n) \ {x}
    BY <1>6, <1>7
  <2>2. u.entries[s] = t.entries[s] /\ u.groups[s[1]][s[2]] = t.groups[s[1]][s[2]]
    BY <1>2, <1>5, <2>1
  <2>3. t.entries[s] \in SwissEntries
    BY <1>1, <2>1 DEF Tables
  <2> QED BY <2>2, <2>3 DEF TableInv, Lacks
<1>11. FewerEmpty(u, t, n)
  <2> SUFFICES ASSUME NEW y \in 1 .. n, HasEmpty(u, y) PROVE HasEmpty(t, y)
    BY <1>1, <1>2 DEF FewerEmpty
  <2>1. PICK j \in 1 .. GroupSize : u.groups[y][j] = Empty
    BY DEF HasEmpty
  <2>2. <<y, j>> \in Slots(n) /\ <<y, j>> # <<g, i>>
    BY <1>4, <2>1 DEF Slots, Full
  <2>3. t.groups[y][j] = Empty
    BY <1>2, <2>1, <2>2
  <2> QED BY <2>3 DEF HasEmpty
<1>12. \A s \in FullIn(u) : /\ u.groups[s[1]][s[2]] = h2(u.entries[s].hash)
                            /\ Reaches(u, u.entries[s].hash, s[1])
  <2> SUFFICES ASSUME NEW s \in FullIn(u)
               PROVE  /\ u.groups[s[1]][s[2]] = h2(u.entries[s].hash)
                      /\ Reaches(u, u.entries[s].hash, s[1])
    OBVIOUS
  <2>1. CASE s = x
    BY <1>1, <1>3, <1>5, <1>9, <1>11, <2>1, StillReaches
  <2>2. CASE s \in FullIn(t)
    <3>1. t.entries[s].hash \in Nat
      BY <1>10, <2>2 DEF SwissEntries
    <3> QED BY <1>1, <1>10, <1>11, <2>2, <3>1, StillReaches
  <2> QED BY <1>6, <2>1, <2>2
<1>13. \A r, s \in FullIn(u) : u.entries[r].hash = u.entries[s].hash => r = s
  <2>1. \A r, s \in FullIn(t) : t.entries[r].hash = t.entries[s].hash => r = s
    BY DEF TableInv
  <2> QED BY <1>6, <1>9, <1>10, <2>1
<1>14. Contents(u) = Contents(t) \cup {e}
  BY <1>6, <1>9, <1>10 DEF Contents
<1> QED BY <1>1, <1>2, <1>8, <1>12, <1>13, <1>14 DEF TableInv

\* A table with room for one more entry takes it.
LEMMA PlaceKeeps ==
  ASSUME NEW n, NEW t, TableInv(t, n), t.size < n * GroupSize, NEW e \in SwissEntries,
         Lacks(t, e.hash), NEW u, u = Place(t, e)
  PROVE  TableInv(u, n) /\ Contents(u) = Contents(t) \cup {e} /\ u.size = t.size + 1
<1>1. n \in Nat \ {0} /\ Len(t.groups) = n
  BY DEF TableInv
<1>2. e.hash \in Nat
  BY DEF SwissEntries
<1>3. FreeFor(t, e.hash) # {}
  BY <1>2, RoomIsFree
<1>4. PICK p \in 0 .. n - 1, i \in 1 .. GroupSize :
        /\ ~Full(t.groups[ProbedGroup(t.groups, e.hash, p)][i])
        /\ \A q \in 0 .. p - 1, j \in 1 .. GroupSize :
             Full(t.groups[ProbedGroup(t.groups, e.hash, q)][j])
        /\ IsPut(u, t, ProbedGroup(t.groups, e.hash, p), i, e)
  BY <1>1, <1>3, PlaceIsPut
<1>5. PICK g : g = ProbedGroup(t.groups, e.hash, p)
  OBVIOUS
<1>6. g \in 1 .. n
  <2>1. PICK gs : gs = t.groups
    OBVIOUS
  <2>2. OfLen(gs, n)
    BY <1>1, <2>1 DEF OfLen
  <2> QED BY <1>1, <1>2, <1>5, <2>1, <2>2, ProbeRange, p \in Nat
<1>7. \A q \in 0 .. p - 1 : ~HasEmpty(t, ProbedGroup(t.groups, e.hash, q))
  BY <1>4 DEF HasEmpty, Full
<1>8. Reaches(t, e.hash, g)
  BY <1>1, <1>5, <1>7 DEF Reaches
<1> QED BY <1>4, <1>5, <1>6, <1>8, PutKeeps

-----------------------------------------------------------------------------
(* The order in which slots are visited.                                   *)

Before(S, s) == {r \in S : Earlier(r, s)}

\* The elements of S in order: the j-th has j - 1 before it.
Ordered(q, S) ==
  q = [j \in 1 .. Cardinality(S) |-> CHOOSE s \in S : Cardinality(Before(S, s)) = j - 1]

\* Every element of S is in q, once.
Lists(q, S) ==
  /\ q \in [1 .. Cardinality(S) -> S]
  /\ \A i, j \in 1 .. Cardinality(S) : q[i] = q[j] => i = j
  /\ \A s \in S : \E j \in 1 .. Cardinality(S) : q[j] = s

LEMMA OrderedLists ==
  ASSUME NEW S \in SUBSET (Nat \X Nat), IsFiniteSet(S), NEW q, Ordered(q, S)
  PROVE  Lists(q, S)
<1>1. PICK c \in Nat : c = Cardinality(S)
  BY FS_CardinalityType
<1>2. ASSUME NEW s \in S
      PROVE  Cardinality(Before(S, s)) \in Nat /\ Cardinality(Before(S, s)) < c
  <2>1. Before(S, s) \in SUBSET S /\ s \notin Before(S, s)
    <3>1. s[1] \in Nat /\ s[2] \in Nat
      OBVIOUS
    <3> QED BY <3>1 DEF Before, Earlier
  <2>2. /\ IsFiniteSet(Before(S, s)) /\ Cardinality(Before(S, s)) <= c
        /\ Cardinality(Before(S, s)) = c => Before(S, s) = S
    BY <1>1, <2>1, FS_Subset
  <2>3. Cardinality(Before(S, s)) \in Nat
    BY <2>2, FS_CardinalityType
  <2> QED BY <2>1, <2>2, <2>3
<1>3. ASSUME NEW r \in S, NEW s \in S, Earlier(r, s)
      PROVE  Cardinality(Before(S, r)) < Cardinality(Before(S, s))
  <2>1. Before(S, r) \in SUBSET Before(S, s)
    <3> SUFFICES ASSUME NEW x \in S, Earlier(x, r) PROVE Earlier(x, s)
      BY DEF Before
    <3>1. /\ x[1] \in Nat /\ x[2] \in Nat /\ r[1] \in Nat /\ r[2] \in Nat
          /\ s[1] \in Nat /\ s[2] \in Nat
      OBVIOUS
    <3> QED BY <1>3, <3>1 DEF Earlier
  <2>2. r \in Before(S, s) /\ r \notin Before(S, r)
    <3>1. r[1] \in Nat /\ r[2] \in Nat
      OBVIOUS
    <3> QED BY <1>3, <3>1 DEF Before, Earlier
  <2>3. IsFiniteSet(Before(S, s))
    <3>1. Before(S, s) \in SUBSET S
      BY DEF Before
    <3> QED BY <3>1, FS_Subset
  <2>4. /\ Cardinality(Before(S, r)) <= Cardinality(Before(S, s))
        /\ Cardinality(Before(S, r)) = Cardinality(Before(S, s)) => Before(S, r) = Before(S, s)
    BY <2>1, <2>3, FS_Subset
  <2> QED BY <1>2, <2>2, <2>4
<1>4. ASSUME NEW r \in S, NEW s \in S, r # s PROVE Earlier(r, s) \/ Earlier(s, r)
  <2>1. /\ r[1] \in Nat /\ r[2] \in Nat /\ r = <<r[1], r[2]>>
        /\ s[1] \in Nat /\ s[2] \in Nat /\ s = <<s[1], s[2]>>
    OBVIOUS
  <2>2. r[1] # s[1] \/ r[2] # s[2]
    BY <1>4, <2>1
  <2> QED BY <2>1, <2>2 DEF Earlier
<1> DEFINE rank == [s \in S |-> Cardinality(Before(S, s)) + 1]
<1>5. rank \in [S -> 1 .. c]
  BY <1>2
<1>6. \A r, s \in S : rank[r] = rank[s] => r = s
  <2> SUFFICES ASSUME NEW r \in S, NEW s \in S, r # s PROVE rank[r] # rank[s]
    OBVIOUS
  <2>1. CASE Earlier(r, s)
    BY <1>2, <1>3, <2>1
  <2>2. CASE Earlier(s, r)
    BY <1>2, <1>3, <2>2
  <2> QED BY <1>4, <2>1, <2>2
<1>7. \A j \in 1 .. c : \E s \in S : rank[s] = j
  <2> HIDE DEF rank
  <2>1. rank \in Injection(S, 1 .. c)
    BY <1>5, <1>6 DEF Injection, IsInjective
  <2>2. IsFiniteSet(1 .. c) /\ Cardinality(1 .. c) = Cardinality(S)
    BY <1>1, IntervalSize
  <2>3. rank \in Surjection(S, 1 .. c)
    BY <2>1, <2>2, FS_Injection
  <2> QED BY <2>3 DEF Surjection
<1>8. ASSUME NEW j \in 1 .. c PROVE q[j] \in S /\ rank[q[j]] = j
  <2>1. q[j] = CHOOSE s \in S : Cardinality(Before(S, s)) = j - 1
    BY <1>1 DEF Ordered
  <2>2. \E s \in S : Cardinality(Before(S, s)) = j - 1
    <3>1. PICK s \in S : rank[s] = j
      BY <1>7
    <3> QED BY <1>2, <3>1
  <2>3. q[j] \in S /\ Cardinality(Before(S, q[j])) = j - 1
    BY <2>1, <2>2
  <2> QED BY <2>3
<1> HIDE DEF rank
<1>9. q \in [1 .. c -> S]
  BY <1>1, <1>8 DEF Ordered
<1>10. \A s \in S : \E j \in 1 .. c : q[j] = s
  <2> SUFFICES ASSUME NEW s \in S PROVE \E j \in 1 .. c : q[j] = s
    OBVIOUS
  <2>1. rank[s] \in 1 .. c
    BY <1>5
  <2> QED BY <1>6, <1>8, <2>1
<1> QED BY <1>1, <1>8, <1>9, <1>10 DEF Lists

\* The entries in the order of their slots: each one once, and one for a hash.
ListsEntries(q, t) ==
  /\ t.size \in Nat /\ q \in [1 .. t.size -> SwissEntries]
  /\ \A i, j \in 1 .. t.size : q[i].hash = q[j].hash => i = j
  /\ UpTo(q, t.size) = Contents(t)

LEMMA EntriesOnce ==
  ASSUME NEW n, NEW t, TableInv(t, n), NEW v, Ordered(v, FullIn(t)),
         NEW q, q = [j \in DOMAIN v |-> t.entries[v[j]]]
  PROVE  ListsEntries(q, t)
<1>1. /\ n \in Nat \ {0} /\ Len(t.groups) = n /\ t \in Tables(n)
      /\ \A r, s \in FullIn(t) : t.entries[r].hash = t.entries[s].hash => r = s
  BY DEF TableInv
<1>2. PICK m \in Nat : m = t.size /\ m = Cardinality(FullIn(t))
  BY <1>1, FullFinite DEF TableInv
<1>3. FullIn(t) \in SUBSET (Nat \X Nat) /\ IsFiniteSet(FullIn(t)) /\ FullIn(t) \in SUBSET Slots(n)
  BY <1>1, FullFinite, SwissAssumption DEF Slots
<1>4. /\ v \in [1 .. m -> FullIn(t)]
      /\ \A i, j \in 1 .. m : v[i] = v[j] => i = j
      /\ \A s \in FullIn(t) : \E j \in 1 .. m : v[j] = s
  BY <1>2, <1>3, OrderedLists DEF Lists
<1>5. DOMAIN v = 1 .. m /\ DOMAIN q = 1 .. m
  BY <1>4
<1>6. ASSUME NEW j \in 1 .. m
      PROVE  v[j] \in FullIn(t) /\ q[j] = t.entries[v[j]] /\ q[j] \in SwissEntries
  <2>1. v[j] \in FullIn(t) /\ q[j] = t.entries[v[j]]
    BY <1>4, <1>5
  <2>2. t.entries[v[j]] \in SwissEntries
    BY <1>1, <1>3, <2>1 DEF Tables
  <2> QED BY <2>1, <2>2
<1>7. q \in [1 .. m -> SwissEntries]
  BY <1>5, <1>6
<1>8. \A i, j \in 1 .. m : q[i].hash = q[j].hash => i = j
  BY <1>1, <1>4, <1>6
<1>9. UpTo(q, m) = Contents(t)
  BY <1>4, <1>6 DEF UpTo, Contents
<1> QED BY <1>2, <1>7, <1>8, <1>9 DEF ListsEntries

LEMMA FullEntriesOnce ==
  ASSUME NEW n, TableInv(Table, n)
  PROVE  ListsEntries(FullEntries, Table)
<1>1. PICK v : v = FullSlots
  OBVIOUS
<1>2. Table.groups = groups /\ Table.entries = entries
  BY DEF Table
<1>3. Ordered(v, FullIn(Table))
  BY <1>1, <1>2 DEF FullSlots, FullIn, Ordered, Before
<1>4. FullEntries = [j \in DOMAIN v |-> Table.entries[v[j]]]
  BY <1>1, <1>2 DEF FullEntries
<1> QED BY <1>3, <1>4, EntriesOnce

-----------------------------------------------------------------------------
(* growLocked.                                                             *)

NewTable(n) == [groups |-> EmptyGroups(n), entries |-> NoEntries(n), size |-> 0]

LEMMA NewTableInv ==
  ASSUME NEW n \in Nat \ {0}, NEW t, t = NewTable(n)
  PROVE  TableInv(t, n) /\ Contents(t) = {} /\ t.size = 0
<1>1. /\ t = [groups |-> EmptyGroups(n), entries |-> NoEntries(n), size |-> 0]
      /\ t.groups = EmptyGroups(n) /\ t.entries = NoEntries(n) /\ t.size = 0
  BY DEF NewTable
<1>2. t.groups \in [1 .. n -> [1 .. GroupSize -> Int]]
  BY <1>1 DEF EmptyGroups, Empty
<1>3. t.entries \in [Slots(n) -> SwissEntries]
  BY <1>1 DEF NoEntries, NoEntry, SwissEntries
<1>4. t \in Tables(n)
  BY <1>1, <1>2, <1>3 DEF Tables
<1>5. Len(t.groups) = n
  BY <1>2, TableLen
<1>6. FullIn(t) = {}
  <2> SUFFICES ASSUME NEW s \in Slots(n) PROVE ~Full(t.groups[s[1]][s[2]])
    BY <1>5 DEF FullIn
  <2>1. s[1] \in 1 .. n /\ s[2] \in 1 .. GroupSize
    BY DEF Slots
  <2>2. t.groups[s[1]][s[2]] = Empty
    BY <1>1, <2>1 DEF EmptyGroups
  <2> QED BY <2>2 DEF Full
<1>7. Cardinality(FullIn(t)) = 0
  BY <1>6, FS_EmptySet
<1> QED BY <1>1, <1>4, <1>5, <1>6, <1>7 DEF TableInv, Contents

\* What has been placed again after k entries.
PlacedInv(t, n, q, k) == TableInv(t, n) /\ Contents(t) = UpTo(q, k) /\ t.size = k

LEMMA PlaceNext ==
  ASSUME NEW n, NEW m \in Nat, m <= n * GroupSize, n \in Nat,
         NEW q \in [1 .. m -> SwissEntries],
         \A i, j \in 1 .. m : q[i].hash = q[j].hash => i = j,
         NEW k \in 0 .. m - 1, NEW t, PlacedInv(t, n, q, k)
  PROVE  PlacedInv(Place(t, q[k + 1]), n, q, k + 1)
<1>1. PICK e, u : e = q[k + 1] /\ u = Place(t, e)
  OBVIOUS
<1>2. k + 1 \in 1 .. m /\ e \in SwissEntries
  BY <1>1
<1>3. TableInv(t, n) /\ Contents(t) = UpTo(q, k) /\ t.size = k
  BY DEF PlacedInv
<1>4. Lacks(t, e.hash)
  <2> SUFFICES ASSUME NEW s \in FullIn(t), t.entries[s].hash = e.hash PROVE FALSE
    BY DEF Lacks
  <2>1. t.entries[s] \in UpTo(q, k)
    BY <1>3 DEF Contents
  <2>2. PICK i \in 1 .. k : t.entries[s] = q[i]
    BY <2>1 DEF UpTo
  <2>3. i \in 1 .. m /\ i # k + 1
    OBVIOUS
  <2> QED BY <1>1, <1>2, <2>2, <2>3
<1>5. t.size < n * GroupSize
  <2>1. PICK c \in Nat : c = n * GroupSize
    BY SwissAssumption
  <2> QED BY <1>3, <2>1
<1>6. TableInv(u, n) /\ Contents(u) = Contents(t) \cup {e} /\ u.size = t.size + 1
  BY <1>1, <1>2, <1>3, <1>4, <1>5, PlaceKeeps
<1>7. UpTo(q, k + 1) = UpTo(q, k) \cup {e}
  <2>1. 1 .. k + 1 = (1 .. k) \cup {k + 1}
    OBVIOUS
  <2> QED BY <1>1, <2>1 DEF UpTo
<1> QED BY <1>1, <1>3, <1>6, <1>7 DEF PlacedInv

\* g is the recursive function of the fold that places the entries q in a table.
PlacingOf(g, base, q) ==
  g = [r \in SUBSET DOMAIN q |-> IF r = {} THEN base ELSE Place(g[r \ {Max(r)}], q[Max(r)])]

\* The recursive function exists.
LEMMA PlacingExists ==
  ASSUME NEW base, NEW q, NEW n \in Nat, DOMAIN q = 1 .. n
  PROVE  \E g : PlacingOf(g, base, q)
<1>0. PICK S : S = 1 .. n
  OBVIOUS
<1> DEFINE Next(g) == [r \in SUBSET S |-> IF r = {} THEN base
                                          ELSE Place(g[r \ {Max(r)}], q[Max(r)])]
           Partial(m) == \E g : \A r \in SUBSET S : Cardinality(r) <= m => g[r] = Next(g)[r]
           Missing == {m \in Nat : ~Partial(m)}
<1>1. IsFiniteSet(S) /\ \A r \in SUBSET S : IsFiniteSet(r) /\ Cardinality(r) \in Nat
  <2>1. IsFiniteSet(S)
    BY <1>0, FS_Interval
  <2> QED BY <2>1, FS_Subset, FS_CardinalityType
<1>2. \A r \in SUBSET S : r # {} => Max(r) \in r
  BY <1>0, MaxOf
<1>3. \A r \in SUBSET S : r # {} => /\ r \ {Max(r)} \in SUBSET S
                                    /\ Cardinality(r \ {Max(r)}) = Cardinality(r) - 1
  BY <1>1, <1>2, FS_RemoveElement
<1>4. Partial(0)
  <2> DEFINE g == [r \in SUBSET S |-> base]
  <2>1. \A r \in SUBSET S : Cardinality(r) <= 0 => r = {}
    BY <1>1, FS_EmptySet
  <2>2. \A r \in SUBSET S : Cardinality(r) <= 0 => g[r] = Next(g)[r]
    BY <2>1
  <2> QED BY <2>2
<1>5. ASSUME NEW m \in Nat, Partial(m) PROVE Partial(m + 1)
  <2>1. PICK g : \A r \in SUBSET S : Cardinality(r) <= m => g[r] = Next(g)[r]
    BY <1>5
  <2> DEFINE h == Next(g)
  <2>2. ASSUME NEW r \in SUBSET S, Cardinality(r) <= m + 1 PROVE h[r] = Next(h)[r]
    <3>1. CASE r = {}
      BY <3>1
    <3>2. CASE r # {}
      <4> DEFINE u == r \ {Max(r)}
      <4>1. u \in SUBSET S /\ Cardinality(u) <= m
        BY <1>1, <1>3, <2>2, <3>2
      <4>2. g[u] = h[u]
        BY <2>1, <4>1
      <4> QED BY <3>2, <4>2
    <3> QED BY <3>1, <3>2
  <2> QED BY <2>2
<1>6. Missing = {}
  <2> SUFFICES ASSUME Missing # {} PROVE FALSE
    OBVIOUS
  <2>1. Missing \in SUBSET Nat
    OBVIOUS
  <2>2. PICK m \in Missing : \A l \in Missing : m <= l
    BY <2>1, LeastNumber
  <2>3. m \in Nat /\ ~Partial(m)
    BY <2>2
  <2> HIDE DEF Partial
  <2>4. m # 0
    BY <1>4, <2>3
  <2>5. m - 1 \in Nat /\ m - 1 \notin Missing
    BY <2>2, <2>3, <2>4
  <2>6. Partial(m - 1)
    BY <2>5
  <2> QED BY <1>5, <2>3, <2>5, <2>6
<1>7. Partial(Cardinality(S))
  <2> HIDE DEF Partial
  <2> QED BY <1>1, <1>6
<1>8. PICK g : \A r \in SUBSET S : Cardinality(r) <= Cardinality(S) => g[r] = Next(g)[r]
  BY <1>7
<1>9. \A r \in SUBSET S : g[r] = Next(g)[r]
  BY <1>1, <1>8, FS_Subset
<1> DEFINE f == Next(g)
<1>10. f = Next(f)
  <2>1. \A r \in SUBSET S : r # {} => f[r \ {Max(r)}] = g[r \ {Max(r)}]
    BY <1>3, <1>9
  <2> QED BY <2>1
<1> QED BY <1>0, <1>10 DEF PlacingOf

\* The fold is that function.
LEMMA PlacingIs ==
  ASSUME NEW base, NEW q, NEW n \in Nat, DOMAIN q = 1 .. n
  PROVE  \E g : PlacingOf(g, base, q) /\ FoldLeft(Place, base, q) = g[DOMAIN q]
<1> DEFINE g == CHOOSE g : PlacingOf(g, base, q)
<1>1. PlacingOf(g, base, q)
  <2> HIDE DEF PlacingOf
  <2> QED BY PlacingExists
<1>2. FoldLeft(Place, base, q) = g[DOMAIN q]
  BY DEF FoldLeft, MapThenFoldSet, PlacingOf
<1> HIDE DEF g
<1> QED BY <1>1, <1>2

\* Entries with different hashes that a new table has slots for are all placed.
LEMMA PlacesAll ==
  ASSUME NEW n \in Nat \ {0}, NEW m \in Nat, m <= n * GroupSize,
         NEW q \in [1 .. m -> SwissEntries],
         \A i, j \in 1 .. m : q[i].hash = q[j].hash => i = j
  PROVE  PlacedInv(FoldLeft(Place, NewTable(n), q), n, q, m)
<1>1. PICK base : base = NewTable(n)
  OBVIOUS
<1>2. PICK g : PlacingOf(g, base, q) /\ FoldLeft(Place, base, q) = g[1 .. m]
  BY PlacingIs
<1> DEFINE Bad == {k \in 0 .. m : ~PlacedInv(g[1 .. k], n, q, k)}
<1>3. PlacedInv(g[1 .. 0], n, q, 0)
  <2>1. 1 .. 0 = {}
    OBVIOUS
  <2>2. g[{}] = base
    BY <1>2 DEF PlacingOf
  <2>3. UpTo(q, 0) = {}
    BY <2>1 DEF UpTo
  <2>4. TableInv(base, n) /\ Contents(base) = {} /\ base.size = 0
    BY <1>1, NewTableInv
  <2> QED BY <2>1, <2>2, <2>3, <2>4 DEF PlacedInv
<1>4. ASSUME NEW k \in 0 .. m - 1, PlacedInv(g[1 .. k], n, q, k)
      PROVE  PlacedInv(g[1 .. k + 1], n, q, k + 1)
  <2>1. PICK r : r = 1 .. k + 1
    OBVIOUS
  <2>2. r \in SUBSET (1 .. m) /\ r # {} /\ Max(r) = k + 1
    <3>1. PICK j \in Nat : j = k + 1 /\ j > 0 /\ j <= m
      OBVIOUS
    <3>2. r \in SUBSET (1 .. m) /\ j \in r
      BY <2>1, <3>1
    <3>3. Max(1 .. j) = j
      BY <3>1, MaxOf
    <3> QED BY <2>1, <3>1, <3>2, <3>3
  <2>3. r \ {Max(r)} = 1 .. k
    BY <2>1, <2>2
  <2>4. g[r] = Place(g[r \ {Max(r)}], q[Max(r)])
    BY <1>2, <2>2 DEF PlacingOf
  <2>5. PICK t : t = g[1 .. k]
    OBVIOUS
  <2>6. PlacedInv(Place(t, q[k + 1]), n, q, k + 1)
    BY <1>4, <2>5, PlaceNext
  <2> QED BY <2>1, <2>2, <2>3, <2>4, <2>5, <2>6
<1>5. Bad = {}
  <2> SUFFICES ASSUME Bad # {} PROVE FALSE
    OBVIOUS
  <2>1. Bad \in SUBSET Nat
    OBVIOUS
  <2>2. PICK k \in Bad : \A l \in Bad : k <= l
    BY <2>1, LeastNumber
  <2>3. k \in 0 .. m /\ ~PlacedInv(g[1 .. k], n, q, k)
    BY <2>2
  <2> HIDE DEF Bad
  <2>4. k # 0
    BY <1>3, <2>3
  <2>5. k - 1 \in 0 .. m - 1 /\ k - 1 \notin Bad
    BY <2>2, <2>3, <2>4
  <2>6. PICK l \in 0 .. m - 1 : l = k - 1 /\ l + 1 = k
    BY <2>3, <2>5
  <2>7. PlacedInv(g[1 .. l], n, q, l)
    <3>1. l \in 0 .. m
      OBVIOUS
    <3> QED BY <2>5, <2>6, <3>1 DEF Bad
  <2> QED BY <1>4, <2>3, <2>6, <2>7
<1> QED BY <1>1, <1>2, <1>5

LEMMA GrownKeeps ==
  ASSUME NEW n, TableInv(Table, n), NEW u, u = Grown
  PROVE  TableInv(u, 2 * n) /\ Contents(u) = Contents(Table) /\ u.size = swissSize
<1>1. n \in Nat \ {0} /\ Len(groups) = n
  BY DEF TableInv, Table
<1>2. PICK m, q : m = Table.size /\ q = FullEntries
  OBVIOUS
<1>3. /\ m \in Nat /\ q \in [1 .. m -> SwissEntries] /\ UpTo(q, m) = Contents(Table)
      /\ \A i, j \in 1 .. m : q[i].hash = q[j].hash => i = j
  BY <1>2, FullEntriesOnce DEF ListsEntries
<1>4. PICK l \in Nat \ {0} : l = 2 * n
  BY <1>1
<1>5. m <= l * GroupSize
  <2>1. Table.size = Cardinality(FullIn(Table)) /\ Len(Table.groups) = n
    BY DEF TableInv
  <2>2. m <= n * GroupSize
    BY <1>1, <1>2, <2>1, FullFinite
  <2>3. PICK c \in Nat : c = n * GroupSize
    BY <1>1, SwissAssumption
  <2>4. l * GroupSize = c + c
    BY <1>1, <1>4, <2>3, SwissAssumption
  <2> QED BY <1>3, <2>2, <2>3, <2>4
<1>6. u = FoldLeft(Place, NewTable(l), q)
  BY <1>1, <1>2, <1>4 DEF Grown, NewTable
<1>7. PlacedInv(u, l, q, m)
  BY <1>3, <1>5, <1>6, PlacesAll
<1>8. m = swissSize
  BY <1>2 DEF Table
<1> QED BY <1>3, <1>4, <1>7, <1>8 DEF PlacedInv

-----------------------------------------------------------------------------
(* findLocked.                                                             *)

\* The probe for a hash finds the full slots with that hash: none of them is
\* behind the group that ends it.
LEMMA FindsFull ==
  ASSUME NEW n, TableInv(Table, n), NEW hash \in Nat
  PROVE  FindSlots(hash) = {s \in FullIn(Table) : entries[s].hash = hash}
<1>0. PICK t : t = Table /\ t.groups = groups /\ t.entries = entries
  <2>1. Table.groups = groups /\ Table.entries = entries
    BY DEF Table
  <2> QED BY <2>1
<1>1. /\ n \in Nat \ {0} /\ Len(groups) = n /\ t \in Tables(n)
      /\ groups \in [1 .. n -> [1 .. GroupSize -> Int]]
  BY <1>0 DEF TableInv, Tables
<1>2. PICK gs : gs = groups /\ OfLen(gs, n)
  BY <1>1 DEF OfLen
<1>3. ASSUME NEW p \in 0 .. n - 1 PROVE ProbedGroup(groups, hash, p) \in 1 .. n
  <2>1. ProbedGroup(gs, hash, p) \in 1 .. n
    BY <1>1, <1>2, ProbeRange, p \in Nat
  <2> QED BY <1>2, <2>1
<1>4. ASSUME NEW g \in 1 .. n PROVE Empty \in ToSet(groups[g]) <=> HasEmpty(t, g)
  <2>1. DOMAIN groups[g] = 1 .. GroupSize
    BY <1>1
  <2> QED BY <1>0, <2>1 DEF ToSet, HasEmpty
<1> DEFINE last == {p \in 0 .. n - 1 : Empty \in ToSet(groups[ProbedGroup(groups, hash, p)])}
           reach == IF last = {} THEN n - 1 ELSE Min(last)
<1>5. /\ reach \in 0 .. n - 1
      /\ \A p \in 0 .. n - 1 : reach < p => HasEmpty(t, ProbedGroup(groups, hash, reach))
  <2>1. CASE last = {}
    BY <1>1, <2>1
  <2>2. CASE last # {}
    <3>1. last \in SUBSET Nat
      OBVIOUS
    <3>2. \E x \in last : \A y \in last : x <= y
      BY <2>2, <3>1, LeastNumber
    <3>3. reach \in last
      <4> HIDE DEF last
      <4> QED BY <2>2, <3>2 DEF Min
    <3> HIDE DEF reach
    <3>4. reach \in 0 .. n - 1 /\ Empty \in ToSet(groups[ProbedGroup(groups, hash, reach)])
      BY <3>3
    <3> QED BY <1>3, <1>4, <3>4
  <2> QED BY <2>1, <2>2
<1>6. FindSlots(hash) =
        {s \in {ProbedGroup(groups, hash, p) : p \in 0 .. reach} \X (1 .. GroupSize) :
           groups[s[1]][s[2]] = h2(hash) /\ entries[s].hash = hash}
  BY <1>1 DEF FindSlots
<1> HIDE DEF last, reach
<1>7. h2(hash) \in Nat /\ Full(h2(hash))
  <2>1. h2(hash) \in Nat
    BY SwissAssumption DEF h2
  <2> QED BY <2>1 DEF Full, Empty, Deleted
<1>8. ASSUME NEW s \in FindSlots(hash) PROVE s \in FullIn(Table) /\ entries[s].hash = hash
  <2>1. PICK p \in 0 .. reach, i \in 1 .. GroupSize : s = <<ProbedGroup(groups, hash, p), i>>
    BY <1>6
  <2>2. groups[s[1]][s[2]] = h2(hash) /\ entries[s].hash = hash
    BY <1>6
  <2>3. s \in Slots(n)
    <3>1. p \in 0 .. n - 1
      BY <1>1, <1>5
    <3>2. PICK g : g = ProbedGroup(groups, hash, p)
      OBVIOUS
    <3>3. g \in 1 .. n
      BY <1>3, <3>1, <3>2
    <3> QED BY <2>1, <3>2, <3>3 DEF Slots
  <2> QED BY <1>0, <1>1, <1>7, <2>2, <2>3 DEF FullIn
<1>9. ASSUME NEW s \in FullIn(Table), entries[s].hash = hash PROVE s \in FindSlots(hash)
  <2>1. groups[s[1]][s[2]] = h2(hash) /\ Reaches(t, hash, s[1]) /\ s \in Slots(n)
    BY <1>0, <1>1, <1>9 DEF TableInv, FullIn
  <2>2. PICK p \in 0 .. n - 1 :
          /\ ProbedGroup(groups, hash, p) = s[1]
          /\ \A q \in 0 .. p - 1 : ~HasEmpty(t, ProbedGroup(groups, hash, q))
    BY <1>0, <1>1, <2>1 DEF Reaches
  <2>3. p \in 0 .. reach
    <3> SUFFICES ASSUME reach < p PROVE FALSE
      BY <1>5
    <3>1. reach \in 0 .. p - 1
      BY <1>5
    <3> QED BY <1>5, <2>2, <3>1
  <2>4. s = <<s[1], s[2]>> /\ s[2] \in 1 .. GroupSize
    BY <2>1 DEF Slots
  <2>5. s \in {ProbedGroup(groups, hash, x) : x \in 0 .. reach} \X (1 .. GroupSize)
    BY <2>2, <2>3, <2>4
  <2> QED BY <1>6, <1>9, <2>1, <2>5
<1> QED BY <1>8, <1>9

\* A hash is found if and only if it has a cost, in the slot with that cost.
LEMMA FindsCost ==
  ASSUME SwissInv, NEW h \in SwissHashes
  PROVE  /\ Found(h) <=> h \in DOMAIN costOf
         /\ Found(h) => SlotOf(h) \in FullIn(Table) /\ entries[SlotOf(h)] = [hash |-> h, cost |-> costOf[h]]
<1>1. /\ TableInv(Table, Len(Table.groups)) /\ Contents(Table) = Costs(costOf)
      /\ h \in Nat /\ Table.entries = entries
  BY SwissAssumption DEF SwissInv, HoldsCosts, Table
<1>2. FindSlots(h) = {s \in FullIn(Table) : entries[s].hash = h}
  BY <1>1, FindsFull
<1>3. ASSUME NEW s \in FindSlots(h)
      PROVE  h \in DOMAIN costOf /\ s \in FullIn(Table) /\ entries[s] = [hash |-> h, cost |-> costOf[h]]
  <2>1. s \in FullIn(Table) /\ entries[s].hash = h
    BY <1>2
  <2>2. entries[s] \in Costs(costOf)
    BY <1>1, <2>1 DEF Contents
  <2>3. PICK k \in DOMAIN costOf : entries[s] = [hash |-> k, cost |-> costOf[k]]
    BY <2>2 DEF Costs
  <2>4. k = h
    BY <2>1, <2>3
  <2> QED BY <2>1, <2>3, <2>4
<1>4. ASSUME h \in DOMAIN costOf PROVE FindSlots(h) # {}
  <2>1. [hash |-> h, cost |-> costOf[h]] \in Contents(Table)
    BY <1>1, <1>4 DEF Costs
  <2>2. PICK s \in FullIn(Table) : entries[s] = [hash |-> h, cost |-> costOf[h]]
    BY <1>1, <2>1 DEF Contents
  <2>3. entries[s].hash = h
    BY <2>2
  <2> QED BY <1>2, <2>2, <2>3
<1>5. Found(h) => SlotOf(h) \in FindSlots(h)
  BY DEF Found, SlotOf
<1> QED BY <1>3, <1>4, <1>5 DEF Found

-----------------------------------------------------------------------------
(* The actions.                                                            *)

\* A table as a record of its three fields.
IsRecord(t) == t = [groups |-> t.groups, entries |-> t.entries, size |-> t.size]

HasAt(t, h, s) == s \in FullIn(t) /\ t.entries[s].hash = h

\* Slot r has the cost that f gives to hash k.
HasCost(t, f, r, k) == t.entries[r] = [hash |-> k, cost |-> f[k]]

\* The other slots have the costs of the other hashes.
OthersMatch(t, f, h, s) ==
  /\ h \in DOMAIN f /\ HasCost(t, f, s, h)
  /\ \A r \in FullIn(t) \ {s} : \E k \in DOMAIN f \ {h} : HasCost(t, f, r, k)
  /\ \A k \in DOMAIN f \ {h} : \E r \in FullIn(t) \ {s} : HasCost(t, f, r, k)

LEMMA OtherCosts ==
  ASSUME NEW t, NEW f, HoldsCosts(t, f), NEW s, NEW h, HasAt(t, h, s)
  PROVE  OthersMatch(t, f, h, s)
<1>0. s \in FullIn(t) /\ t.entries[s].hash = h
  BY DEF HasAt
<1>1. /\ Contents(t) = Costs(f)
      /\ \A q, r \in FullIn(t) : t.entries[q].hash = t.entries[r].hash => q = r
  BY DEF HoldsCosts, TableInv
<1>2. \A r \in FullIn(t) : \E k \in DOMAIN f : t.entries[r] = [hash |-> k, cost |-> f[k]]
  BY <1>1 DEF Contents, Costs
<1>3. \A k \in DOMAIN f : \E r \in FullIn(t) : t.entries[r] = [hash |-> k, cost |-> f[k]]
  BY <1>1 DEF Contents, Costs
<1>4. h \in DOMAIN f /\ t.entries[s] = [hash |-> h, cost |-> f[h]]
  <2>1. PICK k \in DOMAIN f : t.entries[s] = [hash |-> k, cost |-> f[k]]
    BY <1>0, <1>2
  <2>2. t.entries[s].hash = k
    BY <2>1
  <2> QED BY <1>0, <2>1, <2>2
<1>5. ASSUME NEW r \in FullIn(t) \ {s}
      PROVE  \E k \in DOMAIN f \ {h} : t.entries[r] = [hash |-> k, cost |-> f[k]]
  <2>1. PICK k \in DOMAIN f : t.entries[r] = [hash |-> k, cost |-> f[k]]
    BY <1>2
  <2>2. t.entries[r].hash = k
    BY <2>1
  <2> QED BY <1>0, <1>1, <2>1, <2>2
<1>6. ASSUME NEW k \in DOMAIN f \ {h}
      PROVE  \E r \in FullIn(t) \ {s} : t.entries[r] = [hash |-> k, cost |-> f[k]]
  <2>1. PICK r \in FullIn(t) : t.entries[r] = [hash |-> k, cost |-> f[k]]
    BY <1>3
  <2>2. t.entries[r].hash = k
    BY <2>1
  <2> QED BY <1>0, <2>1, <2>2
<1> QED BY <1>4, <1>5, <1>6 DEF OthersMatch, HasCost

\* Each full slot has the cost of a hash, and each hash has a slot.
LEMMA CostsMatch ==
  ASSUME NEW t, NEW f,
         \A r \in FullIn(t) : \E k \in DOMAIN f : HasCost(t, f, r, k),
         \A k \in DOMAIN f : \E r \in FullIn(t) : HasCost(t, f, r, k)
  PROVE  Contents(t) = Costs(f)
<1>1. ASSUME NEW e \in Contents(t) PROVE e \in Costs(f)
  <2>1. PICK r \in FullIn(t) : e = t.entries[r]
    BY DEF Contents
  <2>2. PICK k \in DOMAIN f : HasCost(t, f, r, k)
    OBVIOUS
  <2>3. e = [hash |-> k, cost |-> f[k]]
    BY <2>1, <2>2 DEF HasCost
  <2> QED BY <2>3 DEF Costs
<1>2. ASSUME NEW e \in Costs(f) PROVE e \in Contents(t)
  <2>1. PICK k \in DOMAIN f : e = [hash |-> k, cost |-> f[k]]
    BY DEF Costs
  <2>2. PICK r \in FullIn(t) : HasCost(t, f, r, k)
    OBVIOUS
  <2>3. e = t.entries[r]
    BY <2>1, <2>2 DEF HasCost
  <2> QED BY <2>3 DEF Contents
<1> QED BY <1>1, <1>2

\* u is the table t with another cost in slot s.
IsUpdate(u, t, s, c) ==
  /\ IsRecord(u) /\ u.groups = t.groups /\ u.size = t.size
  /\ u.entries = [t.entries EXCEPT ![s].cost = c]

LEMMA UpdateKeeps ==
  ASSUME NEW t, NEW f, HoldsCosts(t, f), NEW s, NEW h \in SwissHashes, HasAt(t, h, s),
         NEW c \in SwissCosts,
         NEW u, IsUpdate(u, t, s, c), NEW g, g = [f EXCEPT ![h] = c]
  PROVE  HoldsCosts(u, g)
<1>0. /\ IsRecord(u) /\ u.groups = t.groups /\ u.size = t.size
      /\ u.entries = [t.entries EXCEPT ![s].cost = c]
  BY DEF IsUpdate
<1>1. PICK n : n = Len(t.groups)
  OBVIOUS
<1>2. /\ n \in Nat \ {0} /\ t \in Tables(n) /\ t.size = Cardinality(FullIn(t)) /\ TableInv(t, n)
  BY <1>1 DEF HoldsCosts, TableInv
<1>3. FullIn(t) \in SUBSET Slots(n) /\ FullIn(u) = FullIn(t)
      /\ s \in FullIn(t) /\ t.entries[s].hash = h
  BY <1>0, <1>1 DEF FullIn, HasAt
<1>4. t.entries \in [Slots(n) -> SwissEntries]
  BY <1>2 DEF Tables
<1>5. c \in Nat /\ h \in Nat
  BY SwissAssumption
<1>6. t.entries[s] \in SwissEntries
  BY <1>3, <1>4
<1>7. u.entries[s] = [hash |-> h, cost |-> c] /\ u.entries[s] \in SwissEntries
  <2>1. u.entries[s] = [t.entries[s] EXCEPT !.cost = c]
    BY <1>0, <1>3, <1>4
  <2>2. PICK e \in SwissEntries : e = t.entries[s] /\ e.hash = h
    BY <1>3, <1>6
  <2>3. [e EXCEPT !.cost = c] = [hash |-> h, cost |-> c]
    BY <2>2 DEF SwissEntries
  <2> QED BY <1>5, <2>1, <2>2, <2>3 DEF SwissEntries
<1>8. \A r \in Slots(n) \ {s} : u.entries[r] = t.entries[r]
  BY <1>0, <1>4
<1>9. u.entries \in [Slots(n) -> SwissEntries]
  <2>1. u.entries = [r \in Slots(n) |-> u.entries[r]]
    BY <1>0, <1>4
  <2>2. \A r \in Slots(n) : u.entries[r] \in SwissEntries
    BY <1>4, <1>7, <1>8
  <2> QED BY <2>1, <2>2
<1>10. u \in Tables(n) /\ Len(u.groups) = n
  BY <1>0, <1>1, <1>2, <1>9 DEF Tables, IsRecord
<1>11. \A r \in FullIn(t) : u.entries[r].hash = t.entries[r].hash
  BY <1>3, <1>7, <1>8
<1>12. TableInv(u, n)
  <2>1. \A r \in FullIn(t) : /\ u.groups[r[1]][r[2]] = h2(u.entries[r].hash)
                             /\ Reaches(u, u.entries[r].hash, r[1])
    BY <1>0, <1>2, <1>11 DEF TableInv, Reaches, HasEmpty
  <2>2. \A q, r \in FullIn(t) : u.entries[q].hash = u.entries[r].hash => q = r
    BY <1>2, <1>11 DEF TableInv
  <2> QED BY <1>0, <1>2, <1>3, <1>10, <2>1, <2>2 DEF TableInv
<1>13. OthersMatch(t, f, h, s)
  BY OtherCosts
<1>14. DOMAIN g = DOMAIN f /\ g[h] = c /\ \A k \in DOMAIN f \ {h} : g[k] = f[k]
  BY <1>13 DEF OthersMatch
<1>15. Contents(u) = Costs(g)
  <2>1. HasCost(u, g, s, h)
    BY <1>7, <1>14 DEF HasCost
  <2>2. \A r \in FullIn(t) \ {s}, k \in DOMAIN f \ {h} : HasCost(t, f, r, k) => HasCost(u, g, r, k)
    BY <1>3, <1>8, <1>14 DEF HasCost
  <2>3. ASSUME NEW r \in FullIn(u) PROVE \E k \in DOMAIN g : HasCost(u, g, r, k)
    <3>1. CASE r = s
      BY <1>13, <1>14, <2>1, <3>1 DEF OthersMatch
    <3>2. CASE r # s
      <4>1. r \in FullIn(t) \ {s}
        BY <1>3, <3>2
      <4>2. PICK k \in DOMAIN f \ {h} : HasCost(t, f, r, k)
        BY <1>13, <4>1 DEF OthersMatch
      <4> QED BY <1>14, <2>2, <4>1, <4>2
    <3> QED BY <3>1, <3>2
  <2>4. ASSUME NEW k \in DOMAIN g PROVE \E r \in FullIn(u) : HasCost(u, g, r, k)
    <3>1. CASE k = h
      BY <1>3, <2>1, <3>1
    <3>2. CASE k # h
      <4>1. k \in DOMAIN f \ {h}
        BY <1>14, <3>2
      <4>2. PICK r \in FullIn(t) \ {s} : HasCost(t, f, r, k)
        BY <1>13, <4>1 DEF OthersMatch
      <4> QED BY <1>3, <2>2, <4>1, <4>2
    <3> QED BY <3>1, <3>2
  <2> QED BY <2>3, <2>4, CostsMatch
<1>16. /\ DOMAIN g \in SUBSET SwissHashes /\ IsFiniteSet(DOMAIN g) /\ u.size = Cardinality(DOMAIN g)
       /\ \A k \in DOMAIN g : g[k] \in SwissCosts
  BY <1>0, <1>14 DEF HoldsCosts
<1> QED BY <1>10, <1>12, <1>15, <1>16 DEF HoldsCosts

LEMMA InsertKeeps ==
  ASSUME NEW t, NEW f, HoldsCosts(t, f), NEW h \in SwissHashes, h \notin DOMAIN f,
         NEW c \in SwissCosts, NEW n, NEW v, TableInv(v, n), Contents(v) = Contents(t),
         v.size = t.size, v.size < n * GroupSize,
         NEW u, u = Place(v, [hash |-> h, cost |-> c]), NEW g, g = With(f, h, c)
  PROVE  HoldsCosts(u, g)
<1>1. PICK e : e = [hash |-> h, cost |-> c]
  OBVIOUS
<1>2. e \in SwissEntries /\ e.hash = h
  BY <1>1, SwissAssumption DEF SwissEntries
<1>3. Contents(t) = Costs(f) /\ IsFiniteSet(DOMAIN f) /\ t.size = Cardinality(DOMAIN f)
  BY DEF HoldsCosts
<1>4. Lacks(v, e.hash)
  <2> SUFFICES ASSUME NEW s \in FullIn(v), v.entries[s].hash = h PROVE FALSE
    BY <1>2 DEF Lacks
  <2>1. v.entries[s] \in Costs(f)
    BY <1>3 DEF Contents
  <2>2. PICK k \in DOMAIN f : v.entries[s] = [hash |-> k, cost |-> f[k]]
    BY <2>1 DEF Costs
  <2>3. k = h
    BY <2>2
  <2> QED BY <2>3
<1>5. TableInv(u, n) /\ Contents(u) = Contents(v) \cup {e} /\ u.size = v.size + 1
  BY <1>1, <1>2, <1>4, PlaceKeeps
<1>6. /\ DOMAIN g = DOMAIN f \cup {h} /\ g[h] = c /\ \A k \in DOMAIN f : g[k] = f[k]
  BY DEF With
<1>7. Costs(g) = Costs(f) \cup {e}
  BY <1>1, <1>6 DEF Costs
<1>8. IsFiniteSet(DOMAIN g) /\ Cardinality(DOMAIN g) = Cardinality(DOMAIN f) + 1
  BY <1>3, <1>6, FS_AddElement
<1>9. DOMAIN g \in SUBSET SwissHashes /\ \A k \in DOMAIN g : g[k] \in SwissCosts
  BY <1>6 DEF HoldsCosts
<1>10. TableInv(u, Len(u.groups))
  BY <1>5 DEF TableInv
<1> QED BY <1>3, <1>5, <1>7, <1>8, <1>9, <1>10 DEF HoldsCosts

\* u is the table t with slot s deleted, and g is f without h.
IsDelete(u, t, s) ==
  /\ IsRecord(u) /\ u.groups = [t.groups EXCEPT ![s[1]][s[2]] = Deleted]
  /\ u.entries = [t.entries EXCEPT ![s] = NoEntry] /\ u.size = t.size - 1

Without(f, h) == [k \in DOMAIN f \ {h} |-> f[k]]

\* A hash that is deleted leaves its slot deleted, which ends no probe.
LEMMA DeleteKeeps ==
  ASSUME NEW t, NEW f, HoldsCosts(t, f), NEW s, NEW h, HasAt(t, h, s),
         NEW u, IsDelete(u, t, s), NEW g, g = Without(f, h)
  PROVE  HoldsCosts(u, g)
<1>0. /\ IsRecord(u) /\ u.groups = [t.groups EXCEPT ![s[1]][s[2]] = Deleted]
      /\ u.entries = [t.entries EXCEPT ![s] = NoEntry] /\ u.size = t.size - 1
      /\ g = [k \in DOMAIN f \ {h} |-> f[k]]
  BY DEF IsDelete, Without
<1>1. PICK n : n = Len(t.groups)
  OBVIOUS
<1>2. /\ n \in Nat \ {0} /\ t \in Tables(n) /\ t.size = Cardinality(FullIn(t)) /\ TableInv(t, n)
  BY <1>1 DEF HoldsCosts, TableInv
<1>3. FullIn(t) \in SUBSET Slots(n) /\ IsFiniteSet(FullIn(t)) /\ Cardinality(FullIn(t)) \in Nat
  BY <1>1, <1>2, FullFinite
<1>4. s \in FullIn(t) /\ s \in Slots(n)
  BY <1>3 DEF HasAt
<1>5. s[1] \in 1 .. n /\ s[2] \in 1 .. GroupSize /\ s = <<s[1], s[2]>>
  BY <1>4 DEF Slots
<1>6. /\ t.groups \in [1 .. n -> [1 .. GroupSize -> Int]]
      /\ t.entries \in [Slots(n) -> SwissEntries] /\ Deleted \in Int /\ NoEntry \in SwissEntries
  BY <1>2 DEF Tables, Deleted, NoEntry, SwissEntries
<1>7. /\ u.groups \in [1 .. n -> [1 .. GroupSize -> Int]]
      /\ u.groups[s[1]][s[2]] = Deleted
      /\ \A x \in 1 .. n, y \in 1 .. GroupSize :
           (x # s[1] \/ y # s[2]) => u.groups[x][y] = t.groups[x][y]
  <2>1. PICK A, B, a, b, c : A = 1 .. n /\ B = 1 .. GroupSize /\ a = s[1] /\ b = s[2] /\ c = Deleted
    OBVIOUS
  <2>2. t.groups \in [A -> [B -> Int]] /\ a \in A /\ b \in B /\ c \in Int
    BY <1>5, <1>6, <2>1
  <2>3. PICK v, w : v = t.groups /\ w = u.groups
    OBVIOUS
  <2>4. v \in [A -> [B -> Int]] /\ w = [v EXCEPT ![a][b] = c]
    BY <1>0, <2>1, <2>2, <2>3
  <2>5. /\ w \in [A -> [B -> Int]] /\ w[a][b] = c
        /\ \A x \in A, y \in B : (x # a \/ y # b) => w[x][y] = v[x][y]
    BY ONLY <2>2, <2>4, OneByte
  <2> QED BY <2>1, <2>3, <2>5
<1>8. ASSUME NEW r \in Slots(n) \ {s}
      PROVE  u.groups[r[1]][r[2]] = t.groups[r[1]][r[2]] /\ u.entries[r] = t.entries[r]
  <2>1. r[1] \in 1 .. n /\ r[2] \in 1 .. GroupSize /\ r = <<r[1], r[2]>>
    BY DEF Slots
  <2>2. r[1] # s[1] \/ r[2] # s[2]
    BY <1>5, <2>1
  <2>3. u.groups[r[1]][r[2]] = t.groups[r[1]][r[2]]
    BY <1>7, <2>1, <2>2
  <2>4. u.entries[r] = t.entries[r]
    BY <1>0, <1>6
  <2> QED BY <2>3, <2>4
<1>9. Len(u.groups) = n
  BY <1>2, <1>7, TableLen
<1>10. FullIn(u) = FullIn(t) \ {s}
  <2>1. ~Full(u.groups[s[1]][s[2]])
    BY <1>7 DEF Full
  <2>2. \A r \in Slots(n) \ {s} : Full(u.groups[r[1]][r[2]]) <=> Full(t.groups[r[1]][r[2]])
    BY <1>8
  <2> HIDE DEF Full
  <2> QED BY <1>1, <1>9, <2>1, <2>2 DEF FullIn
<1>11. u.size = Cardinality(FullIn(u)) /\ u.size \in Nat
  <2>1. Cardinality(FullIn(t) \ {s}) = Cardinality(FullIn(t)) - 1
    BY <1>3, <1>4, FS_RemoveElement
  <2>2. IsFiniteSet(FullIn(t) \ {s})
    BY <1>3, FS_Subset
  <2>3. Cardinality(FullIn(t) \ {s}) \in Nat
    BY <2>2, FS_CardinalityType
  <2> QED BY <1>0, <1>2, <1>10, <2>1, <2>3
<1>12. u.entries \in [Slots(n) -> SwissEntries]
  BY <1>0, <1>4, <1>6
<1>13. u \in Tables(n)
  BY <1>0, <1>7, <1>11, <1>12 DEF Tables, IsRecord
<1>14. FewerEmpty(u, t, n)
  <2> SUFFICES ASSUME NEW y \in 1 .. n, HasEmpty(u, y) PROVE HasEmpty(t, y)
    BY <1>1, <1>9 DEF FewerEmpty
  <2>1. PICK j \in 1 .. GroupSize : u.groups[y][j] = Empty
    BY DEF HasEmpty
  <2>2. y # s[1] \/ j # s[2]
    BY <1>7, <2>1 DEF Empty, Deleted
  <2>3. t.groups[y][j] = Empty
    BY <1>7, <2>1, <2>2
  <2> QED BY <2>3 DEF HasEmpty
<1>15. ASSUME NEW r \in FullIn(t) \ {s}
       PROVE  /\ u.entries[r] = t.entries[r] /\ u.groups[r[1]][r[2]] = h2(u.entries[r].hash)
              /\ Reaches(u, u.entries[r].hash, r[1])
  <2>1. r \in Slots(n) \ {s}
    BY <1>3
  <2>2. u.entries[r] = t.entries[r] /\ u.groups[r[1]][r[2]] = t.groups[r[1]][r[2]]
    BY <1>8, <2>1
  <2>3. t.entries[r].hash \in Nat
    <3>1. t.entries[r] \in SwissEntries
      BY <1>6, <2>1
    <3> QED BY <3>1 DEF SwissEntries
  <2>4. t.groups[r[1]][r[2]] = h2(t.entries[r].hash) /\ Reaches(t, t.entries[r].hash, r[1])
    BY <1>2 DEF TableInv
  <2>5. Reaches(u, t.entries[r].hash, r[1])
    BY <1>2, <1>14, <2>3, <2>4, StillReaches
  <2> QED BY <2>2, <2>4, <2>5
<1>16. \A q, r \in FullIn(u) : u.entries[q].hash = u.entries[r].hash => q = r
  <2>1. \A q, r \in FullIn(t) : t.entries[q].hash = t.entries[r].hash => q = r
    BY <1>2 DEF TableInv
  <2> QED BY <1>10, <1>15, <2>1
<1>17. TableInv(u, Len(u.groups))
  BY <1>2, <1>9, <1>10, <1>11, <1>13, <1>15, <1>16 DEF TableInv
<1>18. OthersMatch(t, f, h, s)
  BY OtherCosts
<1>19. h \in DOMAIN f /\ DOMAIN g = DOMAIN f \ {h} /\ \A k \in DOMAIN g : g[k] = f[k]
  BY <1>0, <1>18 DEF OthersMatch
<1>20. Contents(u) = Costs(g)
  <2>1. \A r \in FullIn(t) \ {s}, k \in DOMAIN f \ {h} : HasCost(t, f, r, k) => HasCost(u, g, r, k)
    BY <1>15, <1>19 DEF HasCost
  <2>2. \A r \in FullIn(u) : \E k \in DOMAIN g : HasCost(u, g, r, k)
    BY <1>10, <1>18, <1>19, <2>1 DEF OthersMatch
  <2>3. \A k \in DOMAIN g : \E r \in FullIn(u) : HasCost(u, g, r, k)
    BY <1>10, <1>18, <1>19, <2>1 DEF OthersMatch
  <2> QED BY <2>2, <2>3, CostsMatch
<1>21. IsFiniteSet(DOMAIN g) /\ u.size = Cardinality(DOMAIN g)
  <2>1. IsFiniteSet(DOMAIN f) /\ t.size = Cardinality(DOMAIN f)
    BY DEF HoldsCosts
  <2>2. IsFiniteSet(DOMAIN f \ {h}) /\ Cardinality(DOMAIN f \ {h}) = Cardinality(DOMAIN f) - 1
    BY <1>19, <2>1, FS_RemoveElement
  <2> QED BY <1>0, <1>19, <2>1, <2>2
<1>22. DOMAIN g \in SUBSET SwissHashes /\ \A k \in DOMAIN g : g[k] \in SwissCosts
  BY <1>19 DEF HoldsCosts
<1> QED BY <1>17, <1>20, <1>21, <1>22 DEF HoldsCosts

-----------------------------------------------------------------------------
(* NewSwissTable.                                                          *)

IsStep(step, D) == step \in [D -> D]

Iterates(g, n, D, a, step) ==
  g \in [0 .. n -> D] /\ g[0] = a /\ \A i \in 1 .. n : g[i] = step[g[i - 1]]

\* A recursion by the naturals up to n has a function that satisfies it.
LEMMA IteratesExist ==
  ASSUME NEW n \in Nat, NEW D, NEW a \in D, NEW step, IsStep(step, D)
  PROVE  \E g : Iterates(g, n, D, a, step)
<1>0. step \in [D -> D]
  BY DEF IsStep
<1> DEFINE Partial(m) == \E g \in [0 .. n -> D] :
             g[0] = a /\ \A i \in 1 .. n : i <= m => g[i] = step[g[i - 1]]
           Missing == {m \in Nat : ~Partial(m)}
<1>1. Partial(0)
  <2>1. [i \in 0 .. n |-> a] \in [0 .. n -> D]
    OBVIOUS
  <2>2. [i \in 0 .. n |-> a][0] = a /\ \A i \in 1 .. n : ~(i <= 0)
    OBVIOUS
  <2> QED BY <2>1, <2>2
<1>2. ASSUME NEW m \in Nat, Partial(m) PROVE Partial(m + 1)
  <2>1. PICK g \in [0 .. n -> D] :
          g[0] = a /\ \A i \in 1 .. n : i <= m => g[i] = step[g[i - 1]]
    BY <1>2
  <2>2. PICK h : h = [i \in 0 .. n |-> IF i = m + 1 THEN step[g[m]] ELSE g[i]]
    OBVIOUS
  <2>3. h \in [0 .. n -> D]
    <3>1. ASSUME NEW i \in 0 .. n PROVE h[i] \in D
      <4>1. CASE i = m + 1
        <5>1. m \in 0 .. n /\ h[i] = step[g[m]]
          BY <2>2, <4>1
        <5> QED BY <1>0, <5>1
      <4>2. CASE i # m + 1
        BY <2>2, <4>2
      <4> QED BY <4>1, <4>2
    <3> QED BY <2>2, <3>1
  <2>4. h[0] = a
    BY <2>1, <2>2
  <2>5. ASSUME NEW i \in 1 .. n, i <= m + 1 PROVE h[i] = step[h[i - 1]]
    <3>1. i - 1 \in 0 .. n /\ i - 1 # m + 1 /\ i \in 0 .. n
      BY <2>5
    <3>2. h[i - 1] = g[i - 1]
      BY <2>2, <3>1
    <3>3. CASE i = m + 1
      <4>1. h[i] = step[g[m]] /\ i - 1 = m
        BY <2>2, <3>1, <3>3
      <4> QED BY <3>2, <4>1
    <3>4. CASE i # m + 1
      <4>1. h[i] = g[i] /\ i <= m
        BY <2>2, <2>5, <3>1, <3>4
      <4> QED BY <2>1, <3>2, <4>1
    <3> QED BY <3>3, <3>4
  <2> QED BY <2>3, <2>4, <2>5
<1>3. Missing = {}
  <2> SUFFICES ASSUME Missing # {} PROVE FALSE
    OBVIOUS
  <2>1. Missing \in SUBSET Nat
    OBVIOUS
  <2>2. PICK m \in Missing : \A l \in Missing : m <= l
    BY <2>1, LeastNumber
  <2>3. m \in Nat /\ ~Partial(m)
    BY <2>2
  <2> HIDE DEF Partial
  <2>4. m # 0
    BY <1>1, <2>3
  <2>5. m - 1 \in Nat /\ m - 1 \notin Missing
    BY <2>2, <2>3, <2>4
  <2>6. Partial(m - 1)
    BY <2>5
  <2> QED BY <1>2, <2>3, <2>5, <2>6
<1>4. Partial(n)
  <2> HIDE DEF Partial
  <2> QED BY <1>3
<1>5. PICK g \in [0 .. n -> D] : g[0] = a /\ \A i \in 1 .. n : i <= n => g[i] = step[g[i - 1]]
  BY <1>4
<1> QED BY <1>5 DEF Iterates

\* The recursive function of NextPowerOf2.
Powers(g, n) == g = [i \in 0 .. n |-> IF i = 0 THEN 1 ELSE 2 * g[i - 1]]

LEMMA PowersExist ==
  ASSUME NEW n \in Nat
  PROVE  \E g : Powers(g, n)
<1> DEFINE step == [p \in Nat |-> 2 * p]
<1>1. IsStep(step, Nat)
  BY DEF IsStep
<1> HIDE DEF step
<1>2. PICK g : Iterates(g, n, Nat, 1, step)
  BY <1>1, IteratesExist
<1>3. g \in [0 .. n -> Nat] /\ g[0] = 1 /\ \A i \in 1 .. n : g[i] = step[g[i - 1]]
  BY <1>2 DEF Iterates
<1>4. ASSUME NEW i \in 0 .. n PROVE g[i] = IF i = 0 THEN 1 ELSE 2 * g[i - 1]
  <2>1. CASE i = 0
    BY <1>3, <2>1
  <2>2. CASE i # 0
    <3>1. i - 1 \in 0 .. n /\ i \in 1 .. n
      BY <2>2
    <3>2. g[i - 1] \in Nat
      BY <1>3, <3>1
    <3> QED BY <1>3, <2>2, <3>1, <3>2 DEF step
  <2> QED BY <2>1, <2>2
<1>5. Powers(g, n)
  BY <1>3, <1>4 DEF Powers
<1> QED BY <1>5

LEMMA PowersGrow ==
  ASSUME NEW n \in Nat, NEW g, Powers(g, n)
  PROVE  \A i \in 0 .. n : g[i] \in Nat /\ g[i] > i
<1> DEFINE Bad == {i \in 0 .. n : ~(g[i] \in Nat /\ g[i] > i)}
<1>1. g[0] = 1 /\ \A i \in 1 .. n : g[i] = 2 * g[i - 1]
  BY DEF Powers
<1>2. SUFFICES ASSUME Bad # {} PROVE FALSE
  OBVIOUS
<1>3. PICK i \in Bad : \A j \in Bad : i <= j
  <2>1. Bad \in SUBSET Nat
    OBVIOUS
  <2> HIDE DEF Bad
  <2> QED BY <1>2, <2>1, LeastNumber
<1>4. i \in 0 .. n /\ ~(g[i] \in Nat /\ g[i] > i) /\ i # 0
  BY <1>1, <1>3
<1>5. i - 1 \in 0 .. n /\ g[i - 1] \in Nat /\ g[i - 1] > i - 1 /\ i \in 1 .. n
  BY <1>3, <1>4
<1> QED BY <1>1, <1>4, <1>5

\* There is a power of 2 above n to start with.
LEMMA PowerAbove ==
  ASSUME NEW n \in Nat
  PROVE  NextPowerOf2(n) \in Nat \ {0} /\ NextPowerOf2(n) >= n
<1> DEFINE g == CHOOSE g : Powers(g, n)
           enough == {p \in {g[i] : i \in 0 .. n} : p >= n}
<1>1. Powers(g, n)
  <2> HIDE DEF Powers
  <2> QED BY PowersExist
<1>2. NextPowerOf2(n) = Min(enough)
  BY DEF NextPowerOf2, Powers
<1> HIDE DEF g
<1>3. \A i \in 0 .. n : g[i] \in Nat /\ g[i] > i
  BY <1>1, PowersGrow
<1>4. enough \in SUBSET Nat /\ g[n] \in enough
  <2>1. n \in 0 .. n
    OBVIOUS
  <2> QED BY <1>3, <2>1
<1>5. \A p \in enough : p \in Nat \ {0} /\ p >= n
  BY <1>3
<1> HIDE DEF enough
<1>6. \E x \in enough : \A y \in enough : x <= y
  BY <1>4, LeastNumber
<1>7. Min(enough) \in enough
  BY <1>6 DEF Min
<1> QED BY <1>2, <1>5, <1>7

LEMMA EmptyHolds ==
  ASSUME NEW n \in Nat \ {0}, NEW t, t = NewTable(n), NEW f, f = <<>>
  PROVE  HoldsCosts(t, f)
<1>1. TableInv(t, n) /\ Contents(t) = {} /\ t.size = 0
  BY NewTableInv
<1>2. DOMAIN f = {}
  OBVIOUS
<1>3. Costs(f) = {}
  BY <1>2 DEF Costs
<1>4. IsFiniteSet({}) /\ Cardinality({}) = 0
  BY FS_EmptySet
<1>5. TableInv(t, Len(t.groups))
  BY <1>1 DEF TableInv
<1> QED BY <1>1, <1>2, <1>3, <1>4, <1>5 DEF HoldsCosts

LEMMA SwissStarts == SwissInit => SwissInv
<1> SUFFICES ASSUME SwissInit PROVE SwissInv
  OBVIOUS
<1>1. PICK capacity \in Capacities :
        LET wanted == IF capacity <= 0 THEN 16 ELSE capacity
            n == NextPowerOf2((wanted + GroupSize - 1) \div GroupSize)
        IN  /\ groups = EmptyGroups(n) /\ entries = NoEntries(n)
            /\ swissSize = 0 /\ costOf = <<>>
  BY DEF SwissInit
<1>2. PICK w \in Nat \ {0} : w = IF capacity <= 0 THEN 16 ELSE capacity
  BY SwissAssumption
<1>3. PICK m : m = (w + GroupSize - 1) \div GroupSize
  OBVIOUS
<1>4. m \in Nat
  <2>1. PICK d \in Nat \ {0} : d = GroupSize
    BY SwissAssumption
  <2>2. PICK x \in Nat : x = w + d - 1
    OBVIOUS
  <2>3. x \div d \in Nat
    OBVIOUS
  <2> QED BY <1>3, <2>1, <2>2, <2>3
<1>5. PICK n \in Nat \ {0} : n = NextPowerOf2(m)
  BY <1>4, PowerAbove
<1>6. groups = EmptyGroups(n) /\ entries = NoEntries(n) /\ swissSize = 0 /\ costOf = <<>>
  BY <1>1, <1>2, <1>3, <1>5
<1>7. Table = NewTable(n)
  BY <1>6 DEF Table, NewTable
<1> QED BY <1>6, <1>7, EmptyHolds DEF SwissInv

\* A hash that is found has a slot of the table.
LEMMA FoundAt ==
  ASSUME SwissInv, NEW hash \in SwissHashes, Found(hash)
  PROVE  HasAt(Table, hash, SlotOf(hash)) /\ hash \in DOMAIN costOf
<1>1. Table.entries = entries
  BY DEF Table
<1>2. /\ hash \in DOMAIN costOf /\ SlotOf(hash) \in FullIn(Table)
      /\ entries[SlotOf(hash)] = [hash |-> hash, cost |-> costOf[hash]]
  BY FindsCost
<1>3. entries[SlotOf(hash)].hash = hash
  BY <1>2
<1> QED BY <1>1, <1>2, <1>3 DEF HasAt

LEMMA SwissUpdateInv ==
  ASSUME SwissInv, NEW hash \in SwissHashes, NEW cost \in SwissCosts, SwissUpdate(hash, cost)
  PROVE  SwissInv'
<1>1. PICK t, f, u, g, s : t = Table /\ f = costOf /\ u = Table' /\ g = costOf' /\ s = SlotOf(hash)
  OBVIOUS
<1>2. /\ Found(hash) /\ entries' = [entries EXCEPT ![s].cost = cost]
      /\ costOf' = [costOf EXCEPT ![hash] = cost]
      /\ groups' = groups /\ swissSize' = swissSize
  BY <1>1 DEF SwissUpdate
<1>3. HoldsCosts(t, f)
  BY <1>1 DEF SwissInv
<1>4. HasAt(t, hash, s)
  BY <1>1, <1>2, FoundAt
<1>5. t = [groups |-> groups, entries |-> entries, size |-> swissSize]
  BY <1>1 DEF Table
<1>6. u = [groups |-> groups', entries |-> entries', size |-> swissSize']
  BY <1>1 DEF Table
<1>7. IsUpdate(u, t, s, cost)
  BY <1>2, <1>5, <1>6 DEF IsUpdate, IsRecord
<1>8. g = [f EXCEPT ![hash] = cost]
  BY <1>1, <1>2
<1>9. HoldsCosts(u, g)
  BY <1>3, <1>4, <1>7, <1>8, UpdateKeeps
<1> QED BY <1>1, <1>9 DEF SwissInv

LEMMA SwissInsertInv ==
  ASSUME SwissInv, NEW hash \in SwissHashes, NEW cost \in SwissCosts, SwissInsert(hash, cost)
  PROVE  SwissInv'
<1>1. PICK t, f, g, v, e, u :
        /\ t = Table /\ f = costOf /\ g = costOf' /\ v = IF HasRoom THEN Table ELSE Grown
        /\ e = [hash |-> hash, cost |-> cost] /\ u = Place(v, e)
  OBVIOUS
<1>2. /\ ~Found(hash) /\ costOf' = With(costOf, hash, cost)
      /\ groups' = u.groups /\ entries' = u.entries /\ swissSize' = u.size
  BY <1>1 DEF SwissInsert
<1>3. HoldsCosts(t, f) /\ hash \notin DOMAIN f
  BY <1>1, <1>2, FindsCost DEF SwissInv
<1>4. PICK n \in Nat \ {0} : n = Len(groups) /\ TableInv(t, n)
  BY <1>1, <1>3 DEF HoldsCosts, TableInv, Table
<1>5. PICK size, c : size \in Nat /\ size = swissSize /\ size = t.size /\ c \in Nat \ {0}
                     /\ c = n * GroupSize /\ size <= c
  <2>1. t.size = swissSize /\ t.size = Cardinality(FullIn(t)) /\ Len(t.groups) = n
    BY <1>1, <1>4 DEF TableInv, Table
  <2>2. t.size \in Nat /\ t.size <= n * GroupSize
    BY <2>1, FullFinite
  <2>3. PICK d \in Nat \ {0} : d = GroupSize
    BY SwissAssumption
  <2>4. n * d \in Nat \ {0}
    OBVIOUS
  <2> QED BY <2>1, <2>2, <2>3, <2>4
<1>6. \E m : TableInv(v, m) /\ Contents(v) = Contents(t) /\ v.size = t.size /\ v.size < m * GroupSize
  <2>1. CASE HasRoom
    <3>1. 8 * (size + 1) <= 7 * c
      <4>1. 7 * n * GroupSize = 7 * c
        BY <1>5, SwissAssumption
      <4> QED BY <1>4, <1>5, <2>1, <4>1 DEF HasRoom
    <3>2. size < c
      BY <1>5, <3>1
    <3> QED BY <1>1, <1>4, <1>5, <2>1, <3>2
  <2>2. CASE ~HasRoom
    <3>1. TableInv(v, 2 * n) /\ Contents(v) = Contents(t) /\ v.size = size
      BY <1>1, <1>4, <1>5, <2>2, GrownKeeps
    <3>2. (2 * n) * GroupSize = 2 * c
      BY <1>5, SwissAssumption
    <3>3. size < 2 * c
      BY <1>5
    <3> QED BY <1>5, <3>1, <3>2, <3>3
  <2> QED BY <2>1, <2>2
<1>7. HoldsCosts(u, g)
  <2>1. g = With(f, hash, cost)
    BY <1>1, <1>2
  <2>2. PICK m : TableInv(v, m) /\ Contents(v) = Contents(t) /\ v.size = t.size /\ v.size < m * GroupSize
    BY <1>6
  <2>3. u = Place(v, [hash |-> hash, cost |-> cost])
    BY <1>1
  <2> QED BY <1>3, <2>1, <2>2, <2>3, InsertKeeps
<1>8. Table' = u
  <2>1. u \in Tables(Len(u.groups))
    BY <1>7 DEF HoldsCosts, TableInv
  <2>2. u = [groups |-> u.groups, entries |-> u.entries, size |-> u.size]
    BY <2>1 DEF Tables
  <2> QED BY <1>2, <2>2 DEF Table
<1> QED BY <1>1, <1>7, <1>8 DEF SwissInv

LEMMA SwissDeleteInv ==
  ASSUME SwissInv, NEW hash \in SwissHashes, SwissDelete(hash)
  PROVE  SwissInv'
<1>1. PICK t, f, u, g, s : t = Table /\ f = costOf /\ u = Table' /\ g = costOf' /\ s = SlotOf(hash)
  OBVIOUS
<1>2. /\ Found(hash) /\ groups' = [groups EXCEPT ![s[1]][s[2]] = Deleted]
      /\ entries' = [entries EXCEPT ![s] = NoEntry] /\ swissSize' = swissSize - 1
      /\ costOf' = [j \in DOMAIN costOf \ {hash} |-> costOf[j]]
  BY <1>1 DEF SwissDelete
<1>3. HoldsCosts(t, f)
  BY <1>1 DEF SwissInv
<1>4. HasAt(t, hash, s)
  BY <1>1, <1>2, FoundAt
<1>5. t = [groups |-> groups, entries |-> entries, size |-> swissSize]
  BY <1>1 DEF Table
<1>6. u = [groups |-> groups', entries |-> entries', size |-> swissSize']
  BY <1>1 DEF Table
<1>7. IsDelete(u, t, s)
  BY <1>2, <1>5, <1>6 DEF IsDelete, IsRecord
<1>8. g = Without(f, hash)
  BY <1>1, <1>2 DEF Without
<1>9. HoldsCosts(u, g)
  BY <1>3, <1>4, <1>7, <1>8, DeleteKeeps
<1> QED BY <1>1, <1>9 DEF SwissInv

LEMMA SwissClearInv ==
  ASSUME SwissInv, SwissClear
  PROVE  SwissInv'
<1>1. PICK n \in Nat \ {0} : n = Len(groups)
  BY DEF SwissInv, HoldsCosts, TableInv, Table
<1>2. Table' = NewTable(n) /\ costOf' = <<>>
  BY <1>1 DEF SwissClear, Table, NewTable
<1>3. HoldsCosts(Table', costOf')
  BY <1>2, EmptyHolds
<1> QED BY <1>3 DEF SwissInv

\* The table of groups is at all times a map from the hashes that have a cost to
\* their costs: each in one slot that its probe comes to.
THEOREM SwissInvariant == SwissSpec => []SwissInv
<1>1. SwissInit => SwissInv
  BY SwissStarts
<1>2. SwissInv /\ [SwissNext]_swissVars => SwissInv'
  <2> SUFFICES ASSUME SwissInv, [SwissNext]_swissVars PROVE SwissInv'
    OBVIOUS
  <2>1. ASSUME NEW hash \in SwissHashes, NEW cost \in SwissCosts, SwissInsert(hash, cost)
        PROVE  SwissInv'
    BY <2>1, SwissInsertInv
  <2>2. ASSUME NEW hash \in SwissHashes, NEW cost \in SwissCosts, SwissUpdate(hash, cost)
        PROVE  SwissInv'
    BY <2>2, SwissUpdateInv
  <2>3. ASSUME NEW hash \in SwissHashes, SwissDelete(hash) PROVE SwissInv'
    BY <2>3, SwissDeleteInv
  <2>4. CASE SwissClear
    BY <2>4, SwissClearInv
  <2>5. CASE UNCHANGED swissVars
    <3>1. Table' = Table /\ costOf' = costOf
      BY <2>5 DEF swissVars, Table
    <3> QED BY <3>1 DEF SwissInv
  <2> QED BY <2>1, <2>2, <2>3, <2>4, <2>5 DEF SwissNext
<1> QED BY <1>1, <1>2, PTL DEF SwissSpec

-----------------------------------------------------------------------------
(* The listed entries, and SwissIsMap.                                     *)

\* The first k of m entries with different hashes are k entries.
LEMMA UpToSize ==
  ASSUME NEW m \in Nat, NEW q \in [1 .. m -> SwissEntries],
         \A i, j \in 1 .. m : q[i].hash = q[j].hash => i = j,
         NEW k \in 0 .. m
  PROVE  IsFiniteSet(UpTo(q, k)) /\ Cardinality(UpTo(q, k)) = k
<1>1. PICK f : f = [i \in 1 .. k |-> q[i]]
  OBVIOUS
<1>2. f \in [1 .. k -> UpTo(q, k)]
  BY <1>1 DEF UpTo
<1>3. \A i, j \in 1 .. k : f[i] = f[j] => i = j
  BY <1>1
<1>4. \A e \in UpTo(q, k) : \E i \in 1 .. k : f[i] = e
  BY <1>1 DEF UpTo
<1>5. f \in Injection(1 .. k, UpTo(q, k)) /\ f \in Surjection(1 .. k, UpTo(q, k))
  BY <1>2, <1>3, <1>4 DEF Injection, Surjection, IsInjective
<1>6. ExistsBijection(1 .. k, UpTo(q, k))
  BY <1>5 DEF ExistsBijection, Bijection
<1>7. k \in Nat
  OBVIOUS
<1>8. IsFiniteSet(1 .. k) /\ Cardinality(1 .. k) = k
  BY <1>7, IntervalSize
<1> QED BY <1>6, <1>8, FS_Bijection

\* The elements of a sequence, and of its first k.
LEMMA ListedSet ==
  ASSUME NEW m \in Nat, NEW S, NEW q \in [1 .. m -> S], NEW k \in 0 .. m
  PROVE  /\ Len(q) = m /\ ToSet(q) = UpTo(q, m)
         /\ ToSet(SubSeq(q, 1, k)) = UpTo(q, k)
<1>1. q \in Seq(S) /\ Len(q) = m /\ DOMAIN q = 1 .. m
  OBVIOUS
<1>2. ToSet(q) = UpTo(q, m)
  BY <1>1 DEF ToSet, UpTo
<1>3. PICK p : p = SubSeq(q, 1, k)
  OBVIOUS
<1>4. DOMAIN p = 1 .. k /\ \A i \in 1 .. k : p[i] = q[i]
  BY <1>1, <1>3
<1>5. ToSet(p) = UpTo(q, k)
  BY <1>4 DEF ToSet, UpTo
<1> QED BY <1>1, <1>2, <1>3, <1>5

\* Range visits each entry once.
LEMMA RangeVisits ==
  ASSUME SwissInv
  PROVE  /\ swissSize \in Nat /\ FullEntries \in [1 .. swissSize -> SwissEntries]
         /\ \A i, j \in 1 .. swissSize : FullEntries[i].hash = FullEntries[j].hash => i = j
         /\ UpTo(FullEntries, swissSize) = Costs(costOf)
<1>1. TableInv(Table, Len(Table.groups)) /\ Contents(Table) = Costs(costOf) /\ Table.size = swissSize
  BY DEF SwissInv, HoldsCosts, Table
<1>2. ListsEntries(FullEntries, Table)
  BY <1>1, FullEntriesOnce
<1> QED BY <1>1, <1>2 DEF ListsEntries

\* Sample returns as many entries as it is asked for and there are.
LEMMA SampleSize ==
  ASSUME SwissInv, NEW n \in 0 .. swissSize + 1
  PROVE  /\ ToSet(Sample(n)) \subseteq ToSet(FullEntries)
         /\ Cardinality(ToSet(Sample(n))) = Min({n, swissSize})
<1>1. PICK m, q : m = swissSize /\ q = FullEntries
  OBVIOUS
<1>2. /\ m \in Nat /\ q \in [1 .. m -> SwissEntries] /\ n \in Nat
      /\ \A i, j \in 1 .. m : q[i].hash = q[j].hash => i = j
  BY <1>1, RangeVisits
<1>3. PICK k : k = IF n <= m THEN n ELSE m
  OBVIOUS
<1>4. k \in 0 .. m /\ Min({n, m}) = k
  BY <1>2, <1>3, MinOfTwo
<1>5. Len(q) = m /\ ToSet(q) = UpTo(q, m) /\ ToSet(SubSeq(q, 1, k)) = UpTo(q, k)
  BY <1>2, <1>4, ListedSet
<1>6. IsFiniteSet(UpTo(q, k)) /\ Cardinality(UpTo(q, k)) = k
  BY <1>2, <1>4, UpToSize
<1>7. ToSet(Sample(n)) = UpTo(q, k)
  <2>1. CASE n = 0 \/ m = 0
    <3>1. Sample(n) = <<>> /\ k = 0
      BY <1>1, <1>2, <1>3, <2>1 DEF Sample
    <3>2. ToSet(<<>>) = {} /\ UpTo(q, 0) = {}
      BY DEF ToSet, UpTo
    <3> QED BY <3>1, <3>2
  <2>2. CASE n # 0 /\ m # 0
    <3>1. ~(n <= 0 \/ swissSize = 0)
      BY <1>1, <1>2, <2>2
    <3>2. Min({n, Len(FullEntries)}) = k
      BY <1>1, <1>4, <1>5
    <3>3. Sample(n) = SubSeq(FullEntries, 1, k)
      BY <3>1, <3>2, Zenon DEF Sample
    <3> QED BY <1>1, <1>5, <3>3
  <2> QED BY <2>1, <2>2
<1>8. UpTo(q, k) \subseteq UpTo(q, m)
  BY <1>2, <1>4 DEF UpTo
<1> QED BY <1>1, <1>4, <1>5, <1>6, <1>7, <1>8

\* The invariant says all that SwissIsMap asks.
LEMMA InvIsMap == SwissInv => SwissIsMap
<1> SUFFICES ASSUME SwissInv PROVE SwissIsMap
  OBVIOUS
<1>1. swissSize = Cardinality(DOMAIN costOf) /\ DOMAIN costOf \in SUBSET SwissHashes
  BY DEF SwissInv, HoldsCosts, Table
<1>2. \A h \in SwissHashes : Found(h) <=> h \in DOMAIN costOf
  BY FindsCost
<1>3. ASSUME NEW h \in DOMAIN costOf PROVE entries[SlotOf(h)].cost = costOf[h]
  <2>1. h \in SwissHashes /\ Found(h)
    BY <1>1, <1>2
  <2>2. entries[SlotOf(h)] = [hash |-> h, cost |-> costOf[h]]
    BY <2>1, FindsCost
  <2> QED BY <2>2
<1>4. Len(FullEntries) = swissSize /\ ToSet(FullEntries) = Costs(costOf)
  <2>1. PICK m, q : m = swissSize /\ q = FullEntries
    OBVIOUS
  <2>2. m \in Nat /\ q \in [1 .. m -> SwissEntries] /\ UpTo(q, m) = Costs(costOf)
    BY <2>1, RangeVisits
  <2>3. Len(q) = m /\ ToSet(q) = UpTo(q, m)
    BY <2>2, ListedSet, m \in 0 .. m
  <2> QED BY <2>1, <2>2, <2>3
<1>5. \A n \in 0 .. swissSize + 1 :
        /\ ToSet(Sample(n)) \subseteq ToSet(FullEntries)
        /\ Cardinality(ToSet(Sample(n))) = Min({n, swissSize})
  BY SampleSize
<1> QED BY <1>1, <1>2, <1>3, <1>4, <1>5 DEF SwissIsMap, Costs

\* SwissIsMap, for any hashes, costs, capacities, group size and range of h2:
\* whatever Insert, Update, Delete, Clear and the growth do, a probe finds a hash
\* if and only if it was stored and not deleted, with its last cost; no hash has
\* two slots; and Range and Sample return the stored entries, each once.
THEOREM TableIsMap == SwissSpec => []SwissIsMap
<1> QED BY SwissInvariant, InvIsMap, PTL

-----------------------------------------------------------------------------
(* CuckooFilter.                                                           *)

CuckooSpec == CuckooInit /\ [][CuckooNext]_cuckooVars

Buckets == 0 .. NumBuckets - 1

\* The places of s with a fingerprint, and those with one that has home h
Filled(s) == {p \in Places : s[p] # 0}
Belonging(s, h) == {p \in Places : s[p] = h.fp /\ p[1] \in h.in}

Hand(k, h) == IF k # Idle /\ HomeOf(k.fp, k.i) = h THEN 1 ELSE 0

Holds(s, i, f) == \E j \in 1 .. BucketSize : s[<<i, j>>] = f

\* Every fingerprint is in a bucket of its home.
SlotInv(s) ==
  /\ s \in [Places -> Nat]
  /\ \A p \in Filled(s) : HomeOf(s[p], p[1]) \in Homes

\* So is the one in hand; where it takes another's place the bucket is full.
Kicks == [pc : {"kick", "place"}, fp : Nat, i : Buckets, n : Nat]

KickInv(s, k) ==
  \/ k = Idle
  \/ /\ k \in Kicks /\ HomeOf(k.fp, k.i) \in Homes
     /\ k.pc = "kick" => ~Holds(s, k.i, 0)

Lookups == [pc : {"look"}, key : CuckooKeys, n : 0 .. 2 * BucketSize,
            added : BOOLEAN, disturbed : BOOLEAN]

\* One of the slots that are still to be loaded has the fingerprint.
ToCome(s, key, n) == \E m \in n .. 2 * BucketSize - 1 : s[SlotSeen(key, m)] = key.fp

Answers(s, l) == l.added /\ ~l.disturbed => ToCome(s, l.key, l.n)

LookInv(s, l) == l = Idle \/ (l \in Lookups /\ Answers(s, l))

Accounts(s, k, cr, lo) ==
  \A h \in Homes : Cardinality(Belonging(s, h)) + Hand(k, h) + lo[h] = cr[h]

\* The inductive invariant.
CuckooInv ==
  /\ SlotInv(slots) /\ KickInv(slots, kicked) /\ LookInv(slots, lookup)
  /\ credit \in [Homes -> Int] /\ lost \in [Homes -> Int]
  /\ Accounts(slots, kicked, credit, lost)
  /\ count = Cardinality(Filled(slots))

-----------------------------------------------------------------------------
(* The other bucket of a fingerprint.                                      *)

LEMMA IndexBitsType == IndexBits \in Nat /\ BucketSize \in Nat \ {0} /\ MaxKicks \in Nat \ {0}
BY CuckooAssumption, Zenon DEF CuckooAssumption

\* The recursive function of NumBuckets, which is that of NextPowerOf2.
LEMMA BucketPowers ==
  \E g \in [0 .. IndexBits -> Nat \ {0}] :
    /\ g[0] = 1 /\ \A b \in 1 .. IndexBits : g[b] = 2 * g[b - 1]
    /\ g[IndexBits] = NumBuckets
<1>1. PICK n \in Nat : n = IndexBits
  BY IndexBitsType
<1>2. PICK g : g = CHOOSE f : Powers(f, n)
  OBVIOUS
<1>3. Powers(g, n)
  <2> HIDE DEF Powers
  <2> QED BY <1>2, PowersExist
<1>4. NumBuckets = g[n]
  BY <1>1, <1>2 DEF NumBuckets, Powers
<1>5. g[0] = 1 /\ \A b \in 1 .. n : g[b] = 2 * g[b - 1]
  BY <1>3 DEF Powers
<1>6. \A b \in 0 .. n : g[b] \in Nat \ {0}
  BY <1>3, PowersGrow
<1>7. g \in [0 .. n -> Nat \ {0}]
  BY <1>3, <1>6 DEF Powers
<1> QED BY <1>1, <1>4, <1>5, <1>7

\* One bit more of the exclusive or of two numbers, given f for the others.
OneMoreBit(f) ==
  [x \in Nat \X Nat |-> 2 * f[<<x[1] \div 2, x[2] \div 2>>] + ((x[1] + x[2]) % 2)]

\* The recursive function of Xor.
Lows(g, n) ==
  g = [b \in 0 .. n |->
        [x \in Nat \X Nat |->
           IF b = 0 THEN 0
           ELSE 2 * g[b - 1][<<x[1] \div 2, x[2] \div 2>>] + ((x[1] + x[2]) % 2)]]

LEMMA LowsExist ==
  ASSUME NEW n \in Nat
  PROVE  \E g : Lows(g, n)
<1> DEFINE D == [Nat \X Nat -> Nat]
           zero == [x \in Nat \X Nat |-> 0]
           step == [f \in D |-> OneMoreBit(f)]
<1>1. zero \in D
  OBVIOUS
<1>2. step \in [D -> D]
  <2>1. ASSUME NEW f \in D PROVE OneMoreBit(f) \in D
    <3>1. ASSUME NEW x \in Nat \X Nat
          PROVE  2 * f[<<x[1] \div 2, x[2] \div 2>>] + ((x[1] + x[2]) % 2) \in Nat
      <4>1. PICK i \in Nat, j \in Nat : x[1] = i /\ x[2] = j
        OBVIOUS
      <4>2. i \div 2 \in Nat /\ j \div 2 \in Nat /\ (i + j) % 2 \in Nat
        OBVIOUS
      <4>3. f[<<i \div 2, j \div 2>>] \in Nat
        BY <4>2
      <4> QED BY <4>1, <4>2, <4>3
    <3> QED BY <3>1 DEF OneMoreBit
  <2> QED BY <2>1
<1> HIDE DEF D, zero, step
<1>3. PICK g \in [0 .. n -> D] : g[0] = zero /\ \A b \in 1 .. n : g[b] = step[g[b - 1]]
  <2>1. IsStep(step, D)
    BY <1>2 DEF IsStep
  <2>2. PICK g : Iterates(g, n, D, zero, step)
    BY <1>1, <2>1, IteratesExist
  <2> QED BY <2>2 DEF Iterates
<1>4. ASSUME NEW b \in 1 .. n PROVE g[b] = OneMoreBit(g[b - 1])
  <2>1. b - 1 \in 0 .. n
    OBVIOUS
  <2>2. g[b - 1] \in D
    BY <2>1
  <2> QED BY <1>3, <2>2 DEF step
<1>5. ASSUME NEW b \in 0 .. n
      PROVE  g[b] = [x \in Nat \X Nat |->
                       IF b = 0 THEN 0
                       ELSE 2 * g[b - 1][<<x[1] \div 2, x[2] \div 2>>] + ((x[1] + x[2]) % 2)]
  <2>1. CASE b = 0
    BY <1>3, <2>1 DEF zero
  <2>2. CASE b # 0
    <3>1. g[b] = OneMoreBit(g[b - 1])
      BY <1>4, <2>2
    <3> QED BY <2>2, <3>1 DEF OneMoreBit
  <2> QED BY <2>1, <2>2
<1>6. g = [b \in 0 .. n |-> g[b]]
  OBVIOUS
<1>7. Lows(g, n)
  BY <1>5, <1>6 DEF Lows
<1> QED BY <1>7

\* The exclusive or of a bit with another one, twice, is that bit.
LEMMA BitBack ==
  ASSUME NEW i \in Nat, NEW j \in Nat, NEW y \in Nat
  PROVE  /\ (i + j) % 2 \in 0 .. 1 /\ i = 2 * (i \div 2) + (i % 2)
         /\ (2 * y + ((i + j) % 2)) \div 2 = y
         /\ ((2 * y + ((i + j) % 2)) + j) % 2 = i % 2
<1>1. PICK t \in 0 .. 1 : t = (i + j) % 2
  OBVIOUS
<1>2. (2 * y + t) \div 2 = y
  OBVIOUS
<1>3. ((2 * y + t) + j) % 2 = i % 2
  BY <1>1
<1>4. i = 2 * (i \div 2) + (i % 2)
  OBVIOUS
<1> QED BY <1>1, <1>2, <1>3, <1>4

Number(f, p) == \A i, j \in Nat : f[<<i, j>>] \in 0 .. p - 1

Undone(f, p) == \A i, j \in Nat : i < p => f[<<f[<<i, j>>], j>>] = i

\* One bit more keeps that the exclusive or undoes itself.
LEMMA OneMoreBack ==
  ASSUME NEW f, NEW p \in Nat \ {0}, Number(f, p), Undone(f, p), NEW g, g = OneMoreBit(f)
  PROVE  Number(g, 2 * p) /\ Undone(g, 2 * p)
<1>1. ASSUME NEW i \in Nat, NEW j \in Nat
      PROVE  /\ g[<<i, j>>] = 2 * f[<<i \div 2, j \div 2>>] + ((i + j) % 2)
             /\ i \div 2 \in Nat /\ j \div 2 \in Nat
  <2>1. <<i, j>> \in Nat \X Nat /\ <<i, j>>[1] = i /\ <<i, j>>[2] = j
    OBVIOUS
  <2>2. g[<<i, j>>] = 2 * f[<<i \div 2, j \div 2>>] + ((i + j) % 2)
    BY <2>1 DEF OneMoreBit
  <2> QED BY <2>2
<1>2. ASSUME NEW i \in Nat, NEW j \in Nat
      PROVE  /\ g[<<i, j>>] \in 0 .. 2 * p - 1
             /\ i < 2 * p => g[<<g[<<i, j>>], j>>] = i
  <2>1. PICK a, b : a = i \div 2 /\ b = j \div 2
    OBVIOUS
  <2>2. a \in Nat /\ b \in Nat
    BY <1>1, <2>1
  <2>3. PICK y \in 0 .. p - 1 : y = f[<<a, b>>]
    BY <2>2 DEF Number
  <2>4. PICK t \in 0 .. 1 : t = (i + j) % 2
    OBVIOUS
  <2>5. PICK x \in Nat : x = g[<<i, j>>] /\ x = 2 * y + t
    <3>1. g[<<i, j>>] = 2 * f[<<a, b>>] + t
      BY <1>1, <2>1, <2>4
    <3>2. g[<<i, j>>] = 2 * y + t
      BY <2>3, <3>1
    <3>3. 2 * y + t \in Nat
      OBVIOUS
    <3> QED BY <3>2, <3>3
  <2>6. x \in 0 .. 2 * p - 1
    BY <2>5
  <2>7. x \div 2 = y /\ (x + j) % 2 = i % 2 /\ i = 2 * a + (i % 2)
    <3>1. y \in Nat
      OBVIOUS
    <3>2. /\ i = 2 * (i \div 2) + (i % 2) /\ (2 * y + ((i + j) % 2)) \div 2 = y
          /\ ((2 * y + ((i + j) % 2)) + j) % 2 = i % 2
      BY <3>1, BitBack
    <3>3. x = 2 * y + ((i + j) % 2)
      BY <2>4, <2>5
    <3> QED BY <2>1, <3>2, <3>3
  <2>8. g[<<x, j>>] = 2 * f[<<y, b>>] + (i % 2)
    <3>1. g[<<x, j>>] = 2 * f[<<x \div 2, j \div 2>>] + ((x + j) % 2)
      BY <1>1
    <3> QED BY <2>1, <2>7, <3>1
  <2>9. ASSUME i < 2 * p PROVE g[<<x, j>>] = i
    <3>1. a < p
      <4>1. PICK r \in 0 .. 1 : r = i % 2
        OBVIOUS
      <4> QED BY <2>2, <2>7, <2>9, <4>1
    <3>2. f[<<y, b>>] = a
      BY <2>2, <2>3, <3>1 DEF Undone
    <3> QED BY <2>7, <2>8, <3>2
  <2> QED BY <2>5, <2>6, <2>9
<1> QED BY <1>2 DEF Number, Undone

LEMMA LowsBack ==
  ASSUME NEW n \in Nat, NEW g, Lows(g, n), NEW P \in [0 .. n -> Nat \ {0}],
         P[0] = 1, \A b \in 1 .. n : P[b] = 2 * P[b - 1]
  PROVE  Number(g[n], P[n]) /\ Undone(g[n], P[n])
<1> DEFINE Good(b) == Number(g[b], P[b]) /\ Undone(g[b], P[b])
           Bad == {b \in 0 .. n : ~Good(b)}
<1>1. Good(0)
  <2>1. \A i, j \in Nat : g[0][<<i, j>>] = 0
    BY DEF Lows
  <2> QED BY <2>1 DEF Number, Undone
<1>2. ASSUME NEW b \in 1 .. n, Good(b - 1) PROVE Good(b)
  <2>1. b - 1 \in 0 .. n /\ b \in 0 .. n /\ b # 0
    OBVIOUS
  <2>2. g[b] = OneMoreBit(g[b - 1])
    <3>1. PICK h : h = g
      OBVIOUS
    <3>2. g = [c \in 0 .. n |->
                [x \in Nat \X Nat |->
                   IF c = 0 THEN 0
                   ELSE 2 * h[c - 1][<<x[1] \div 2, x[2] \div 2>>] + ((x[1] + x[2]) % 2)]]
      BY <3>1 DEF Lows
    <3>3. g[b] = OneMoreBit(h[b - 1])
      BY <2>1, <3>2 DEF OneMoreBit
    <3> QED BY <3>1, <3>3
  <2>3. PICK p \in Nat \ {0} : p = P[b - 1]
    BY <2>1
  <2>4. P[b] = 2 * p
    BY <2>3
  <2>5. Number(g[b], 2 * p) /\ Undone(g[b], 2 * p)
    BY <1>2, <2>2, <2>3, OneMoreBack
  <2> QED BY <2>4, <2>5
<1> HIDE DEF Good
<1>3. SUFFICES ASSUME Bad # {} PROVE FALSE
  <2>1. n \in 0 .. n
    OBVIOUS
  <2> QED BY <2>1 DEF Good
<1>4. PICK b \in Bad : \A c \in Bad : b <= c
  <2>1. Bad \in SUBSET Nat
    OBVIOUS
  <2> HIDE DEF Bad
  <2> QED BY <1>3, <2>1, LeastNumber
<1>5. b \in 0 .. n /\ ~Good(b) /\ b # 0
  BY <1>1, <1>4
<1>6. b - 1 \in 0 .. n /\ b - 1 \notin Bad /\ b \in 1 .. n
  BY <1>4, <1>5
<1>7. Good(b - 1)
  BY <1>6
<1> QED BY <1>2, <1>5, <1>6, <1>7

\* The other bucket of a fingerprint is a bucket, and its other bucket is the
\* first again.
LEMMA AltBack ==
  /\ NumBuckets \in Nat \ {0}
  /\ \A i \in Buckets, f \in Nat :
       IndexAlt(i, f) \in Buckets /\ IndexAlt(IndexAlt(i, f), f) = i
<1>1. PICK n \in Nat : n = IndexBits
  BY IndexBitsType
<1>2. PICK P \in [0 .. n -> Nat \ {0}] :
        P[0] = 1 /\ (\A b \in 1 .. n : P[b] = 2 * P[b - 1]) /\ P[n] = NumBuckets
  BY <1>1, BucketPowers
<1>3. PICK N \in Nat \ {0} : N = NumBuckets /\ N = P[n]
  <2>1. n \in 0 .. n
    OBVIOUS
  <2> QED BY <1>2, <2>1
<1>4. PICK g : g = CHOOSE low : Lows(low, n)
  OBVIOUS
<1>5. Lows(g, n)
  <2> HIDE DEF Lows
  <2> QED BY <1>4, LowsExist
<1>6. \A i, j : Xor(i, j) = g[n][<<i, j>>]
  BY <1>1, <1>4 DEF Xor, Lows
<1>7. Number(g[n], N) /\ Undone(g[n], N)
  BY <1>2, <1>3, <1>5, LowsBack
<1>8. ASSUME NEW i \in Buckets, NEW f \in Nat
      PROVE  IndexAlt(i, f) \in Buckets /\ IndexAlt(IndexAlt(i, f), f) = i
  <2>1. PICK d \in Nat : d = (f % N) * (Multiplier % N)
    <3>1. f % N \in Nat /\ Multiplier % N \in Nat
      BY DEF Multiplier
    <3>2. \A a, b \in Nat : a * b \in Nat
      OBVIOUS
    <3> QED BY <3>1, <3>2
  <2>2. \A x : IndexAlt(x, f) = g[n][<<x, d>>]
    BY <1>3, <1>6, <2>1 DEF IndexAlt
  <2>3. i \in Nat /\ i < N
    BY <1>3 DEF Buckets
  <2>4. g[n][<<i, d>>] \in 0 .. N - 1 /\ g[n][<<g[n][<<i, d>>], d>>] = i
    BY <1>7, <2>3 DEF Number, Undone
  <2> QED BY <1>3, <2>2, <2>4 DEF Buckets
<1> QED BY <1>3, <1>8

-----------------------------------------------------------------------------
(* Homes.                                                                  *)

LEMMA KeyHome ==
  ASSUME NEW key \in CuckooKeys
  PROVE  Index1(key) \in Buckets /\ key.fp \in Nat \ {0} /\ Home(key) \in Homes
<1>1. key \in [hash : Nat, fp : Fingerprints]
  BY CuckooAssumption
<1>2. key.hash \in Nat /\ key.fp \in Nat \ {0}
  <2>1. key.hash \in Nat /\ key.fp \in Fingerprints
    BY <1>1
  <2> QED BY <2>1 DEF Fingerprints
<1>3. PICK n \in Nat \ {0} : n = NumBuckets
  BY AltBack
<1>4. key.hash % n \in 0 .. n - 1
  BY <1>2
<1> QED BY <1>2, <1>3, <1>4 DEF Index1, Buckets, Homes

\* A fingerprint has one home, in whichever of its two buckets it is.
LEMMA HomeSame ==
  ASSUME NEW i \in Buckets, NEW f \in Nat
  PROVE  HomeOf(f, IndexAlt(i, f)) = HomeOf(f, i)
BY AltBack DEF HomeOf

\* A fingerprint is where a key with home h looks for it if h is its home.
LEMMA HomeFits ==
  ASSUME NEW h \in Homes, NEW f \in Nat, NEW i \in Buckets
  PROVE  (f = h.fp /\ i \in h.in) <=> HomeOf(f, i) = h
<1>1. PICK key \in CuckooKeys : h = Home(key)
  BY DEF Homes
<1>2. PICK a \in Buckets, e \in Nat : a = Index1(key) /\ e = key.fp
  BY KeyHome
<1>3. h = HomeOf(e, a)
  BY <1>1, <1>2 DEF Home
<1>4. h.fp = e /\ h.in = {a, IndexAlt(a, e)}
  BY <1>3 DEF HomeOf
<1>5. ASSUME f = h.fp, i \in h.in PROVE HomeOf(f, i) = h
  <2>1. CASE i = a
    BY <1>3, <1>4, <1>5, <2>1
  <2>2. CASE i = IndexAlt(a, e)
    BY <1>3, <1>4, <1>5, <2>2, HomeSame
  <2> QED BY <1>4, <1>5, <2>1, <2>2
<1>6. ASSUME HomeOf(f, i) = h PROVE f = h.fp /\ i \in h.in
  BY <1>6 DEF HomeOf
<1> QED BY <1>5, <1>6

LEMMA PlacesType ==
  /\ IsFiniteSet(Places)
  /\ \A p \in Places : p[1] \in Buckets /\ p[2] \in 1 .. BucketSize /\ p = <<p[1], p[2]>>
  /\ \A i \in Buckets, j \in 1 .. BucketSize : <<i, j>> \in Places
<1>1. PICK n \in Nat : n = NumBuckets
  BY AltBack
<1>2. IsFiniteSet(0 .. n - 1)
  BY FS_Interval, 0 \in Int, n - 1 \in Int
<1>3. IsFiniteSet(1 .. BucketSize)
  BY IndexBitsType, FS_Interval, 1 \in Int, BucketSize \in Int
<1>4. IsFiniteSet((0 .. n - 1) \X (1 .. BucketSize))
  BY <1>2, <1>3, FS_Product
<1> QED BY <1>1, <1>4 DEF Places, Buckets

LEMMA Counted ==
  ASSUME NEW s
  PROVE  /\ IsFiniteSet(Filled(s)) /\ Cardinality(Filled(s)) \in Nat
         /\ \A h : IsFiniteSet(Belonging(s, h)) /\ Cardinality(Belonging(s, h)) \in Nat
<1>1. Filled(s) \in SUBSET Places /\ \A h : Belonging(s, h) \in SUBSET Places
  BY DEF Filled, Belonging
<1>2. \A S \in SUBSET Places : IsFiniteSet(S) /\ Cardinality(S) \in Nat
  BY PlacesType, FS_Subset, FS_CardinalityType
<1> QED BY <1>1, <1>2

\* u has a fingerprint more than s, which has home g.
MoreBy(u, s, g) ==
  /\ Cardinality(Filled(u)) = Cardinality(Filled(s)) + 1
  /\ \A h \in Homes :
       Cardinality(Belonging(u, h)) = Cardinality(Belonging(s, h)) + (IF h = g THEN 1 ELSE 0)

\* u is s with f at p.
IsSet(u, s, p, f) == u = [s EXCEPT ![p] = f]

LEMMA PutCounts ==
  ASSUME NEW s, SlotInv(s), NEW p \in Places, s[p] = 0,
         NEW f \in Nat \ {0}, HomeOf(f, p[1]) \in Homes, NEW u, IsSet(u, s, p, f)
  PROVE  SlotInv(u) /\ MoreBy(u, s, HomeOf(f, p[1]))
<1>1. s \in [Places -> Nat] /\ \A q \in Filled(s) : HomeOf(s[q], q[1]) \in Homes
  BY DEF SlotInv
<1>2. u \in [Places -> Nat] /\ u[p] = f /\ \A q \in Places \ {p} : u[q] = s[q]
  BY <1>1 DEF IsSet
<1>3. p \notin Filled(s) /\ Filled(u) = Filled(s) \cup {p}
  BY <1>2 DEF Filled
<1>4. SlotInv(u)
  <2>1. ASSUME NEW q \in Filled(u) PROVE HomeOf(u[q], q[1]) \in Homes
    <3>1. CASE q = p
      BY <1>2, <3>1
    <3>2. CASE q # p
      BY <1>1, <1>2, <1>3, <3>2 DEF Filled
    <3> QED BY <3>1, <3>2
  <2> QED BY <1>2, <2>1 DEF SlotInv
<1>5. Cardinality(Filled(u)) = Cardinality(Filled(s)) + 1
  BY <1>3, Counted, FS_AddElement
<1>6. ASSUME NEW h \in Homes
      PROVE  Cardinality(Belonging(u, h)) =
               Cardinality(Belonging(s, h)) + (IF h = HomeOf(f, p[1]) THEN 1 ELSE 0)
  <2>1. p[1] \in Buckets
    BY PlacesType
  <2>2. (f = h.fp /\ p[1] \in h.in) <=> HomeOf(f, p[1]) = h
    BY <2>1, HomeFits
  <2>3. h.fp # 0
    <3>1. PICK key \in CuckooKeys : h = Home(key)
      BY DEF Homes
    <3>2. h.fp = key.fp
      BY <3>1 DEF Home, HomeOf
    <3> QED BY <3>2, KeyHome
  <2>4. p \notin Belonging(s, h)
    BY <2>3 DEF Belonging
  <2>5. CASE h = HomeOf(f, p[1])
    <3>1. Belonging(u, h) = Belonging(s, h) \cup {p}
      BY <1>2, <2>2, <2>5 DEF Belonging
    <3>2. Cardinality(Belonging(s, h) \cup {p}) = Cardinality(Belonging(s, h)) + 1
      BY <2>4, Counted, FS_AddElement
    <3> QED BY <2>5, <3>1, <3>2
  <2>6. CASE h # HomeOf(f, p[1])
    <3>1. Belonging(u, h) = Belonging(s, h)
      BY <1>2, <2>2, <2>4, <2>6 DEF Belonging
    <3>2. Cardinality(Belonging(s, h)) \in Nat
      BY Counted
    <3> QED BY <2>6, <3>1, <3>2
  <2> QED BY <2>5, <2>6
<1> QED BY <1>4, <1>5, <1>6 DEF MoreBy

LEMMA TakeCounts ==
  ASSUME NEW s, SlotInv(s), NEW p \in Places, s[p] # 0, NEW u, IsSet(u, s, p, 0)
  PROVE  /\ SlotInv(u) /\ MoreBy(s, u, HomeOf(s[p], p[1])) /\ u[p] = 0
         /\ s[p] \in Nat \ {0} /\ HomeOf(s[p], p[1]) \in Homes
<1>1. s \in [Places -> Nat] /\ \A q \in Filled(s) : HomeOf(s[q], q[1]) \in Homes
  BY DEF SlotInv
<1>2. u \in [Places -> Nat] /\ u[p] = 0 /\ \A q \in Places \ {p} : u[q] = s[q]
  BY <1>1 DEF IsSet
<1>3. s[p] \in Nat \ {0} /\ HomeOf(s[p], p[1]) \in Homes
  BY <1>1 DEF Filled
<1>4. SlotInv(u)
  BY <1>1, <1>2 DEF SlotInv, Filled
<1>5. s = [u EXCEPT ![p] = s[p]]
  BY <1>1, <1>2
<1>6. IsSet(s, u, p, s[p])
  BY <1>5 DEF IsSet
<1> QED BY <1>2, <1>3, <1>4, <1>6, PutCounts

\* f takes the place of another fingerprint.
LEMMA SwapCounts ==
  ASSUME NEW s, SlotInv(s), NEW p \in Places, s[p] # 0,
         NEW f \in Nat \ {0}, HomeOf(f, p[1]) \in Homes, NEW u, IsSet(u, s, p, f)
  PROVE  /\ SlotInv(u) /\ s[p] \in Nat \ {0} /\ HomeOf(s[p], p[1]) \in Homes
         /\ Cardinality(Filled(u)) = Cardinality(Filled(s))
         /\ \A h \in Homes :
              Cardinality(Belonging(u, h)) + (IF h = HomeOf(s[p], p[1]) THEN 1 ELSE 0) =
                Cardinality(Belonging(s, h)) + (IF h = HomeOf(f, p[1]) THEN 1 ELSE 0)
<1>1. PICK v : IsSet(v, s, p, 0)
  BY DEF IsSet
<1>2. /\ SlotInv(v) /\ MoreBy(s, v, HomeOf(s[p], p[1])) /\ v[p] = 0
      /\ s[p] \in Nat \ {0} /\ HomeOf(s[p], p[1]) \in Homes
  BY <1>1, TakeCounts
<1>3. IsSet(u, v, p, f)
  <2>1. s \in [Places -> Nat]
    BY DEF SlotInv
  <2>2. [s EXCEPT ![p] = f] = [[s EXCEPT ![p] = 0] EXCEPT ![p] = f]
    BY <2>1
  <2> QED BY <1>1, <2>2 DEF IsSet
<1>4. SlotInv(u) /\ MoreBy(u, v, HomeOf(f, p[1]))
  BY <1>2, <1>3, PutCounts
<1>5. Cardinality(Filled(u)) = Cardinality(Filled(s))
  BY <1>2, <1>4, Counted DEF MoreBy
<1>6. ASSUME NEW h \in Homes
      PROVE  Cardinality(Belonging(u, h)) + (IF h = HomeOf(s[p], p[1]) THEN 1 ELSE 0) =
               Cardinality(Belonging(s, h)) + (IF h = HomeOf(f, p[1]) THEN 1 ELSE 0)
  <2>1. PICK a, b, c : /\ a = Cardinality(Belonging(u, h)) /\ b = Cardinality(Belonging(s, h))
                       /\ c = Cardinality(Belonging(v, h))
    OBVIOUS
  <2>2. a \in Nat /\ b \in Nat /\ c \in Nat
    BY <2>1, Counted
  <2>3. /\ a = c + (IF h = HomeOf(f, p[1]) THEN 1 ELSE 0)
        /\ b = c + (IF h = HomeOf(s[p], p[1]) THEN 1 ELSE 0)
    BY <1>2, <1>4, <2>1 DEF MoreBy
  <2> QED BY <2>1, <2>2, <2>3
<1> QED BY <1>2, <1>4, <1>5, <1>6

LEMMA HomeType ==
  ASSUME NEW h \in Homes
  PROVE  h.fp \in Nat \ {0}
<1>1. PICK key \in CuckooKeys : h = Home(key)
  BY DEF Homes
<1>2. h.fp = key.fp
  BY <1>1 DEF Home, HomeOf
<1> QED BY <1>2, KeyHome

\* The buckets of a key: a fingerprint of it has its home in either.
LEMMA KeyBuckets ==
  ASSUME NEW key \in CuckooKeys, NEW i, i = Index1(key) \/ i = IndexAlt(Index1(key), key.fp)
  PROVE  i \in Buckets /\ HomeOf(key.fp, i) = Home(key)
<1>1. Index1(key) \in Buckets /\ key.fp \in Nat
  BY KeyHome
<1> QED BY <1>1, AltBack, HomeSame DEF Home

-----------------------------------------------------------------------------
(* The lookup.                                                             *)

Disturbed(l, homes) ==
  IF l # Idle /\ Home(l.key) \in homes THEN [l EXCEPT !.disturbed = TRUE] ELSE l

\* What Contains loads are places where the fingerprint of the key has its home...
LEMMA SeenPlace ==
  ASSUME NEW key \in CuckooKeys, NEW n \in 0 .. 2 * BucketSize, NEW m \in n .. 2 * BucketSize - 1
  PROVE  SlotSeen(key, m) \in Places /\ HomeOf(key.fp, SlotSeen(key, m)[1]) = Home(key)
<1>1. m \in Nat /\ BucketSize \in Nat \ {0}
  BY IndexBitsType
<1>2. (m % BucketSize) + 1 \in 1 .. BucketSize
  BY <1>1
<1>3. PICK i : i = IF m < BucketSize THEN Index1(key) ELSE IndexAlt(Index1(key), key.fp)
  OBVIOUS
<1>4. i \in Buckets /\ HomeOf(key.fp, i) = Home(key)
  BY <1>3, KeyBuckets
<1>5. SlotSeen(key, m) = <<i, (m % BucketSize) + 1>>
  BY <1>3 DEF SlotSeen
<1> QED BY <1>2, <1>4, <1>5, PlacesType

LEMMA SmallRemainder ==
  ASSUME NEW b \in Nat \ {0}, NEW j \in 0 .. b - 1
  PROVE  j % b = j /\ (b + j) % b = j
<1>1. ASSUME NEW x \in Nat, NEW q \in Int, NEW m \in 0 .. b - 1, x = b * q + m, x \in {j, b + j}
      PROVE  m = j
  <2>1. CASE q <= -1
    <3>1. b * q <= b * (-1)
      BY <2>1
    <3> QED BY <1>1, <3>1
  <2>2. CASE q = 0
    BY <1>1, <2>2
  <2>3. CASE q = 1
    BY <1>1, <2>3
  <2>4. CASE q >= 2
    <3>1. b * q >= b * 2
      BY <2>4
    <3> QED BY <1>1, <3>1
  <2> QED BY <2>1, <2>2, <2>3, <2>4
<1>2. ASSUME NEW x \in {j, b + j} PROVE x % b = j
  <2>1. PICK q, m : q = x \div b /\ m = x % b
    OBVIOUS
  <2>2. x \in Nat /\ q \in Int /\ m \in 0 .. b - 1 /\ x = b * q + m
    BY <1>2, <2>1
  <2> QED BY <1>1, <1>2, <2>1, <2>2
<1> QED BY <1>2

\* ... and all of them.
LEMMA PlaceSeen ==
  ASSUME NEW key \in CuckooKeys, NEW p \in Places,
         p[1] \in {Index1(key), IndexAlt(Index1(key), key.fp)}
  PROVE  \E m \in 0 .. 2 * BucketSize - 1 : SlotSeen(key, m) = p
<1>1. BucketSize \in Nat \ {0} /\ p[2] \in 1 .. BucketSize /\ p = <<p[1], p[2]>>
  BY IndexBitsType, PlacesType
<1>2. PICK b, j : b = BucketSize /\ j = p[2] - 1
  OBVIOUS
<1>3. b \in Nat \ {0} /\ j \in 0 .. b - 1 /\ j % b = j /\ (b + j) % b = j
  <2>1. b \in Nat \ {0} /\ j \in 0 .. b - 1
    BY <1>1, <1>2
  <2> QED BY <2>1, SmallRemainder
<1>4. CASE p[1] = Index1(key)
  <2>1. SlotSeen(key, j) = <<p[1], j + 1>>
    BY <1>2, <1>3, <1>4 DEF SlotSeen
  <2>2. j \in 0 .. 2 * BucketSize - 1 /\ j + 1 = p[2]
    BY <1>1, <1>2
  <2> QED BY <1>1, <2>1, <2>2
<1>5. CASE p[1] = IndexAlt(Index1(key), key.fp)
  <2>1. SlotSeen(key, b + j) = <<p[1], j + 1>>
    BY <1>2, <1>3, <1>5 DEF SlotSeen
  <2>2. b + j \in 0 .. 2 * BucketSize - 1 /\ j + 1 = p[2]
    BY <1>1, <1>2
  <2> QED BY <1>1, <2>1, <2>2
<1> QED BY <1>4, <1>5

LEMMA LookPut ==
  ASSUME NEW s, SlotInv(s), NEW l, LookInv(s, l), NEW p \in Places, s[p] = 0,
         NEW f, NEW u, IsSet(u, s, p, f)
  PROVE  LookInv(u, l)
<1>1. SUFFICES ASSUME l # Idle, Answers(s, l), l \in Lookups PROVE Answers(u, l)
  BY DEF LookInv
<1>2. PICK key \in CuckooKeys, n \in 0 .. 2 * BucketSize : key = l.key /\ n = l.n
  BY <1>1 DEF Lookups
<1>3. SUFFICES ASSUME ToCome(s, key, n) PROVE ToCome(u, key, n)
  BY <1>1, <1>2 DEF Answers
<1>4. PICK m \in n .. 2 * BucketSize - 1 : s[SlotSeen(key, m)] = key.fp
  BY <1>3 DEF ToCome
<1>5. SlotSeen(key, m) \in Places /\ SlotSeen(key, m) # p
  BY <1>4, SeenPlace, KeyHome
<1>6. u[SlotSeen(key, m)] = s[SlotSeen(key, m)]
  BY <1>5 DEF IsSet, SlotInv
<1> QED BY <1>4, <1>6 DEF ToCome

\* A change of a place may only disturb a lookup for the fingerprint in it.
LEMMA LookChange ==
  ASSUME NEW s, SlotInv(s), NEW l, LookInv(s, l), NEW p \in Places, s[p] # 0,
         NEW f, NEW u, IsSet(u, s, p, f), NEW homes, HomeOf(s[p], p[1]) \in homes,
         NEW m, m = Disturbed(l, homes)
  PROVE  LookInv(u, m)
<1>1. CASE l = Idle
  BY <1>1 DEF LookInv, Disturbed
<1>2. CASE l # Idle /\ Home(l.key) \in homes
  <2>1. l \in Lookups /\ m = [l EXCEPT !.disturbed = TRUE]
    BY <1>2 DEF LookInv, Disturbed
  <2>2. m \in Lookups /\ m.disturbed = TRUE
    BY <2>1 DEF Lookups
  <2> QED BY <2>2 DEF LookInv, Answers
<1>3. CASE l # Idle /\ Home(l.key) \notin homes
  <2>1. l \in Lookups /\ Answers(s, l) /\ m = l
    BY <1>3 DEF LookInv, Disturbed
  <2>2. PICK key \in CuckooKeys, n \in 0 .. 2 * BucketSize : key = l.key /\ n = l.n
    BY <2>1 DEF Lookups
  <2>4. ASSUME ToCome(s, key, n) PROVE ToCome(u, key, n)
    <3>1. PICK j \in n .. 2 * BucketSize - 1 : s[SlotSeen(key, j)] = key.fp
      BY <2>4 DEF ToCome
    <3>2. SlotSeen(key, j) \in Places /\ HomeOf(key.fp, SlotSeen(key, j)[1]) = Home(key)
      BY SeenPlace
    <3>3. SlotSeen(key, j) # p
      <4> SUFFICES ASSUME SlotSeen(key, j) = p PROVE FALSE
        OBVIOUS
      <4>1. HomeOf(s[p], p[1]) = Home(key)
        BY <3>1, <3>2
      <4> QED BY <1>3, <2>2, <4>1
    <3>4. u[SlotSeen(key, j)] = s[SlotSeen(key, j)]
      BY <3>2, <3>3 DEF IsSet, SlotInv
    <3> QED BY <3>1, <3>4 DEF ToCome
  <2>5. Answers(u, l)
    BY <2>1, <2>2, <2>4 DEF Answers
  <2> QED BY <2>1, <2>5 DEF LookInv
<1> QED BY <1>1, <1>2, <1>3

-----------------------------------------------------------------------------
(* The actions.                                                            *)

LEMMA FirstPlace ==
  ASSUME NEW i \in Buckets, NEW f
  PROVE  /\ BucketContains(i, f) <=> Holds(slots, i, f)
         /\ BucketContains(i, f) =>
              First(i, f) \in Places /\ First(i, f)[1] = i /\ slots[First(i, f)] = f
<1>1. Holding(i, f) \in SUBSET Nat /\ Holding(i, f) \in SUBSET (1 .. BucketSize)
  BY DEF Holding
<1>2. BucketContains(i, f) <=> Holds(slots, i, f)
  BY DEF BucketContains, Holding, Holds
<1>3. ASSUME BucketContains(i, f)
      PROVE  First(i, f) \in Places /\ First(i, f)[1] = i /\ slots[First(i, f)] = f
  <2>1. \E x \in Holding(i, f) : \A y \in Holding(i, f) : x <= y
    BY <1>1, <1>3, LeastNumber DEF BucketContains
  <2>2. Min(Holding(i, f)) \in Holding(i, f)
    BY <2>1 DEF Min
  <2>3. PICK j \in 1 .. BucketSize : First(i, f) = <<i, j>> /\ slots[<<i, j>>] = f
    BY <2>2 DEF First, Holding
  <2> QED BY <2>3, PlacesType
<1> QED BY <1>2, <1>3

\* Nothing is stored to begin with and after Reset.
LEMMA NothingKept ==
  ASSUME NEW s, s = [p \in Places |-> 0], NEW cr, cr = [h \in Homes |-> 0]
  PROVE  /\ SlotInv(s) /\ Cardinality(Filled(s)) = 0
         /\ cr \in [Homes -> Int] /\ Accounts(s, Idle, cr, cr)
<1>1. Filled(s) = {}
  BY DEF Filled
<1>2. Cardinality({}) = 0
  BY FS_EmptySet
<1>3. ASSUME NEW h \in Homes
      PROVE  Cardinality(Belonging(s, h)) + Hand(Idle, h) + cr[h] = cr[h]
  <2>1. Belonging(s, h) = {}
    BY HomeType DEF Belonging
  <2>2. Hand(Idle, h) = 0
    BY DEF Hand
  <2> QED BY <1>2, <2>1, <2>2
<1> QED BY <1>1, <1>2, <1>3 DEF SlotInv, Accounts

LEMMA CuckooStarts == CuckooInit => CuckooInv
<1> SUFFICES ASSUME CuckooInit PROVE CuckooInv
  OBVIOUS
<1>1. /\ slots = [p \in Places |-> 0] /\ count = 0 /\ kicked = Idle /\ lookup = Idle
      /\ credit = [h \in Homes |-> 0] /\ lost = credit
  BY DEF CuckooInit
<1>2. /\ SlotInv(slots) /\ Cardinality(Filled(slots)) = 0
      /\ credit \in [Homes -> Int] /\ Accounts(slots, Idle, credit, credit)
  BY <1>1, NothingKept
<1> QED BY <1>1, <1>2 DEF CuckooInv, KickInv, LookInv

\* g's credit grows by d.
LEMMA CreditedBy ==
  ASSUME NEW cr \in [Homes -> Int], NEW g \in Homes, NEW d \in Int, NEW c,
         c = [cr EXCEPT ![g] = @ + d]
  PROVE  c \in [Homes -> Int] /\ \A h \in Homes : c[h] = cr[h] + (IF h = g THEN d ELSE 0)
OBVIOUS

LEMMA CuckooAddInv ==
  ASSUME CuckooInv, NEW key \in CuckooKeys, CuckooAdd(key)
  PROVE  CuckooInv'
<1>1. PICK i : /\ i = Index1(key) \/ i = IndexAlt(Index1(key), key.fp)
               /\ Insert(i, key.fp)
  BY DEF CuckooAdd
<1>2. /\ kicked = Idle /\ kicked' = Idle /\ lookup' = lookup /\ lost' = lost
      /\ credit' = [credit EXCEPT ![Home(key)] = @ + 1]
  BY DEF CuckooAdd, Credited
<1>3. PICK f \in Nat \ {0}, g \in Homes : f = key.fp /\ g = Home(key)
  BY KeyHome
<1>4. i \in Buckets /\ HomeOf(f, i) = g
  BY <1>1, <1>3, KeyBuckets
<1>5. PICK p : p = First(i, 0)
  OBVIOUS
<1>6. p \in Places /\ p[1] = i /\ slots[p] = 0
  BY <1>1, <1>4, <1>5, FirstPlace DEF Insert
<1>7. IsSet(slots', slots, p, f) /\ count' = count + 1
  BY <1>1, <1>3, <1>5 DEF Insert, IsSet
<1>8. /\ SlotInv(slots) /\ LookInv(slots, lookup) /\ credit \in [Homes -> Int]
      /\ lost \in [Homes -> Int] /\ Accounts(slots, Idle, credit, lost)
      /\ count = Cardinality(Filled(slots))
  BY <1>2 DEF CuckooInv
<1>9. SlotInv(slots') /\ MoreBy(slots', slots, g)
  BY <1>4, <1>6, <1>7, <1>8, PutCounts
<1>10. LookInv(slots', lookup')
  BY <1>2, <1>6, <1>7, <1>8, LookPut
<1>11. /\ credit' \in [Homes -> Int]
       /\ \A h \in Homes : credit'[h] = credit[h] + (IF h = g THEN 1 ELSE 0)
  BY <1>2, <1>3, <1>8, CreditedBy
<1>12. ASSUME NEW h \in Homes
       PROVE  Cardinality(Belonging(slots', h)) + Hand(Idle, h) + lost[h] = credit'[h]
  <2>1. PICK a, b : a = Cardinality(Belonging(slots, h)) /\ b = Hand(Idle, h)
    OBVIOUS
  <2>2. a \in Nat /\ b = 0
    BY <2>1, Counted DEF Hand
  <2>3. a + b + lost[h] = credit[h]
    BY <1>8, <2>1 DEF Accounts
  <2>4. Cardinality(Belonging(slots', h)) = a + (IF h = g THEN 1 ELSE 0)
    BY <1>9, <2>1 DEF MoreBy
  <2> QED BY <1>8, <1>11, <2>1, <2>2, <2>3, <2>4
<1>13. count' = Cardinality(Filled(slots'))
  BY <1>7, <1>8, <1>9 DEF MoreBy
<1>14. Accounts(slots', kicked', credit', lost')
  BY <1>2, <1>12 DEF Accounts
<1> QED BY <1>2, <1>8, <1>9, <1>10, <1>11, <1>13, <1>14 DEF CuckooInv, KickInv

LEMMA CuckooRelocateInv ==
  ASSUME CuckooInv, NEW key \in CuckooKeys, CuckooRelocate(key)
  PROVE  CuckooInv'
<1>1. PICK i \in Buckets, f \in Nat \ {0}, g \in Homes :
        i = Index1(key) /\ f = key.fp /\ g = Home(key) /\ HomeOf(f, i) = g
  BY KeyHome DEF Home
<1>2. /\ kicked = Idle /\ kicked' = [pc |-> "kick", fp |-> f, i |-> i, n |-> 0]
      /\ ~BucketContains(i, 0) /\ slots' = slots /\ count' = count /\ lookup' = lookup
      /\ lost' = lost /\ credit' = [credit EXCEPT ![g] = @ + 1]
  BY <1>1 DEF CuckooRelocate, Credited
<1>3. /\ SlotInv(slots) /\ LookInv(slots, lookup) /\ credit \in [Homes -> Int]
      /\ lost \in [Homes -> Int] /\ Accounts(slots, Idle, credit, lost)
      /\ count = Cardinality(Filled(slots))
  BY <1>2 DEF CuckooInv
<1>4. /\ credit' \in [Homes -> Int]
      /\ \A h \in Homes : credit'[h] = credit[h] + (IF h = g THEN 1 ELSE 0)
  BY <1>2, <1>3, CreditedBy
<1>5. PICK k : k = kicked'
  OBVIOUS
<1>6. k \in Kicks /\ k # Idle /\ k.fp = f /\ k.i = i
  BY <1>2, <1>5 DEF Kicks, Idle
<1>7. KickInv(slots, k)
  BY <1>1, <1>2, <1>6, FirstPlace DEF KickInv
<1>8. ASSUME NEW h \in Homes
      PROVE  Cardinality(Belonging(slots, h)) + Hand(k, h) + lost[h] = credit'[h]
  <2>1. Hand(Idle, h) = 0 /\ Hand(k, h) = IF h = g THEN 1 ELSE 0
    BY <1>1, <1>6 DEF Hand
  <2>2. Cardinality(Belonging(slots, h)) \in Nat
    BY Counted
  <2>3. Cardinality(Belonging(slots, h)) + Hand(Idle, h) + lost[h] = credit[h]
    BY <1>3 DEF Accounts
  <2> QED BY <1>3, <1>4, <2>1, <2>2, <2>3
<1> QED BY <1>2, <1>3, <1>4, <1>5, <1>7, <1>8 DEF CuckooInv, Accounts

\* What is in hand has a fingerprint and a bucket.
LEMMA InHandType ==
  ASSUME NEW s, NEW k, KickInv(s, k), k # Idle
  PROVE  /\ k \in Kicks /\ k.fp \in Nat \ {0} /\ k.i \in Buckets /\ k.n \in Nat
         /\ HomeOf(k.fp, k.i) \in Homes
<1>1. k \in Kicks /\ HomeOf(k.fp, k.i) \in Homes
  BY DEF KickInv
<1>2. HomeOf(k.fp, k.i).fp = k.fp
  BY DEF HomeOf
<1>3. k.fp \in Nat \ {0}
  BY <1>1, <1>2, HomeType
<1> QED BY <1>1, <1>3 DEF Kicks

LEMMA CuckooSwapInv ==
  ASSUME CuckooInv, CuckooSwap
  PROVE  CuckooInv'
<1>1. PICK k, p, e : /\ k = kicked /\ p = <<kicked.i, (kicked.n % BucketSize) + 1>>
                     /\ e = slots[p]
  OBVIOUS
<1>2. /\ k.pc = "kick" /\ slots' = [slots EXCEPT ![p] = k.fp]
      /\ kicked' = [k EXCEPT !.pc = "place", !.fp = e, !.i = IndexAlt(@, e)]
      /\ Disturb({HomeOf(e, k.i)})
      /\ count' = count /\ credit' = credit /\ lost' = lost
  BY <1>1 DEF CuckooSwap
<1>3. /\ SlotInv(slots) /\ KickInv(slots, k) /\ LookInv(slots, lookup)
      /\ credit \in [Homes -> Int] /\ lost \in [Homes -> Int]
      /\ Accounts(slots, k, credit, lost) /\ count = Cardinality(Filled(slots))
  BY <1>1 DEF CuckooInv
<1>4. k # Idle
  BY <1>2 DEF Idle
<1>5. PICK f \in Nat \ {0}, i \in Buckets, g \in Homes : f = k.fp /\ i = k.i /\ g = HomeOf(f, i)
  BY <1>3, <1>4, InHandType
<1>6. k \in Kicks /\ k.n \in Nat
  BY <1>3, <1>4, InHandType
<1>7. p \in Places /\ p[1] = i
  <2>1. PICK b \in Nat \ {0} : b = BucketSize
    BY IndexBitsType
  <2>2. (k.n % b) + 1 \in 1 .. b
    BY <1>6
  <2> QED BY <1>1, <1>5, <2>1, <2>2, PlacesType
<1>8. e # 0
  <2>1. ~Holds(slots, i, 0)
    BY <1>2, <1>3, <1>4, <1>5 DEF KickInv
  <2>2. p[2] \in 1 .. BucketSize /\ p = <<i, p[2]>>
    BY <1>7, PlacesType
  <2> QED BY <1>1, <2>1, <2>2 DEF Holds
<1>9. IsSet(slots', slots, p, f)
  BY <1>2, <1>5 DEF IsSet
<1>10. PICK v \in Homes : v = HomeOf(e, i) /\ e \in Nat \ {0}
  BY <1>1, <1>3, <1>5, <1>7, <1>8, <1>9, SwapCounts
<1>11. /\ SlotInv(slots') /\ Cardinality(Filled(slots')) = Cardinality(Filled(slots))
       /\ \A h \in Homes :
            Cardinality(Belonging(slots', h)) + (IF h = v THEN 1 ELSE 0) =
              Cardinality(Belonging(slots, h)) + (IF h = g THEN 1 ELSE 0)
  BY <1>1, <1>3, <1>5, <1>7, <1>8, <1>9, <1>10, SwapCounts
<1>12. lookup' = Disturbed(lookup, {v})
  BY <1>2, <1>5, <1>10 DEF Disturb, Disturbed
<1>13. LookInv(slots', lookup')
  BY <1>1, <1>3, <1>5, <1>7, <1>8, <1>9, <1>10, <1>12, LookChange
<1>14. PICK m : m = kicked'
  OBVIOUS
<1>15. /\ m \in Kicks /\ m # Idle /\ m.pc = "place" /\ m.fp = e /\ m.i = IndexAlt(i, e)
       /\ HomeOf(m.fp, m.i) = v
  <2>1. IndexAlt(i, e) \in Buckets /\ HomeOf(e, IndexAlt(i, e)) = v
    BY <1>10, AltBack, HomeSame
  <2>2. /\ m = [k EXCEPT !.pc = "place", !.fp = e, !.i = IndexAlt(i, e)]
    BY <1>2, <1>5, <1>14
  <2>3. m \in Kicks /\ m.pc = "place" /\ m.fp = e /\ m.i = IndexAlt(i, e)
    BY <1>6, <1>10, <2>1, <2>2 DEF Kicks
  <2> QED BY <2>1, <2>3 DEF Idle
<1>16. KickInv(slots', m)
  BY <1>10, <1>15 DEF KickInv
<1>17. ASSUME NEW h \in Homes
       PROVE  Cardinality(Belonging(slots', h)) + Hand(m, h) + lost[h] = credit[h]
  <2>1. Hand(k, h) = (IF h = g THEN 1 ELSE 0) /\ Hand(m, h) = (IF h = v THEN 1 ELSE 0)
    BY <1>4, <1>5, <1>15 DEF Hand
  <2>2. PICK a, b : /\ a = Cardinality(Belonging(slots, h)) /\ b = Cardinality(Belonging(slots', h))
    OBVIOUS
  <2>3. a \in Nat /\ b \in Nat
    BY <2>2, Counted
  <2>4. a + Hand(k, h) + lost[h] = credit[h]
    BY <1>3, <2>2 DEF Accounts
  <2>5. b + Hand(m, h) = a + Hand(k, h)
    BY <1>11, <2>1, <2>2
  <2> QED BY <1>3, <2>1, <2>2, <2>3, <2>4, <2>5
<1>18. Accounts(slots', kicked', credit', lost')
  BY <1>2, <1>14, <1>17 DEF Accounts
<1> QED BY <1>2, <1>3, <1>11, <1>13, <1>14, <1>16, <1>18 DEF CuckooInv

LEMMA CuckooPlaceInv ==
  ASSUME CuckooInv, CuckooPlace
  PROVE  CuckooInv'
<1>1. PICK k : k = kicked
  OBVIOUS
<1>2. /\ k.pc = "place" /\ lookup' = lookup /\ credit' = credit /\ lost' = lost
      /\ \/ Insert(k.i, k.fp) /\ kicked' = Idle
         \/ /\ ~BucketContains(k.i, 0) /\ kicked' = [k EXCEPT !.pc = "kick", !.n = @ + 1]
            /\ slots' = slots /\ count' = count
  BY <1>1 DEF CuckooPlace
<1>3. /\ SlotInv(slots) /\ KickInv(slots, k) /\ LookInv(slots, lookup)
      /\ credit \in [Homes -> Int] /\ lost \in [Homes -> Int]
      /\ Accounts(slots, k, credit, lost) /\ count = Cardinality(Filled(slots))
  BY <1>1 DEF CuckooInv
<1>4. k # Idle
  BY <1>2 DEF Idle
<1>5. PICK f \in Nat \ {0}, i \in Buckets, g \in Homes : f = k.fp /\ i = k.i /\ g = HomeOf(f, i)
  BY <1>3, <1>4, InHandType
<1>6. k \in Kicks /\ k.n \in Nat
  BY <1>3, <1>4, InHandType
<1>7. CASE Insert(k.i, k.fp) /\ kicked' = Idle
  <2>1. PICK p : p = First(i, 0)
    OBVIOUS
  <2>2. p \in Places /\ p[1] = i /\ slots[p] = 0
    BY <1>5, <1>7, <2>1, FirstPlace DEF Insert
  <2>3. IsSet(slots', slots, p, f) /\ count' = count + 1
    BY <1>5, <1>7, <2>1 DEF Insert, IsSet
  <2>4. SlotInv(slots') /\ MoreBy(slots', slots, g)
    BY <1>3, <1>5, <2>2, <2>3, PutCounts
  <2>5. LookInv(slots', lookup')
    BY <1>2, <1>3, <2>2, <2>3, LookPut
  <2>6. ASSUME NEW h \in Homes
        PROVE  Cardinality(Belonging(slots', h)) + Hand(Idle, h) + lost[h] = credit[h]
    <3>1. Hand(Idle, h) = 0 /\ Hand(k, h) = IF h = g THEN 1 ELSE 0
      BY <1>4, <1>5 DEF Hand
    <3>2. PICK a : a = Cardinality(Belonging(slots, h)) /\ a \in Nat
      BY Counted
    <3>3. a + Hand(k, h) + lost[h] = credit[h]
      BY <1>3, <3>2 DEF Accounts
    <3>4. Cardinality(Belonging(slots', h)) = a + (IF h = g THEN 1 ELSE 0)
      BY <2>4, <3>2 DEF MoreBy
    <3> QED BY <1>3, <3>1, <3>2, <3>3, <3>4
  <2>7. count' = Cardinality(Filled(slots'))
    BY <1>3, <2>3, <2>4 DEF MoreBy
  <2>8. Accounts(slots', kicked', credit', lost')
    BY <1>2, <1>7, <2>6 DEF Accounts
  <2> QED BY <1>2, <1>3, <1>7, <2>4, <2>5, <2>7, <2>8 DEF CuckooInv, KickInv
<1>8. CASE /\ ~BucketContains(k.i, 0) /\ kicked' = [k EXCEPT !.pc = "kick", !.n = @ + 1]
           /\ slots' = slots /\ count' = count
  <2>1. PICK m : m = kicked'
    OBVIOUS
  <2>2. m \in Kicks /\ m # Idle /\ m.fp = f /\ m.i = i
    <3>1. PICK n \in Nat : n = k.n + 1
      BY <1>6
    <3>2. m = [k EXCEPT !.pc = "kick", !.n = n]
      BY <1>8, <2>1, <3>1
    <3>3. m \in Kicks /\ m.pc = "kick" /\ m.fp = k.fp /\ m.i = k.i
      BY <1>6, <3>2 DEF Kicks
    <3> QED BY <1>5, <3>3 DEF Idle
  <2>3. KickInv(slots, m)
    <3>1. ~Holds(slots, i, 0)
      BY <1>5, <1>8, FirstPlace
    <3> QED BY <1>5, <2>2, <3>1 DEF KickInv
  <2>4. \A h : Hand(m, h) = Hand(k, h)
    BY <1>4, <1>5, <2>2 DEF Hand
  <2>5. Accounts(slots', kicked', credit', lost')
    BY <1>2, <1>3, <1>8, <2>1, <2>4 DEF Accounts
  <2> QED BY <1>2, <1>3, <1>8, <2>1, <2>3, <2>5 DEF CuckooInv
<1> QED BY <1>2, <1>7, <1>8

LEMMA CuckooFailInv ==
  ASSUME CuckooInv, CuckooFail
  PROVE  CuckooInv'
<1>1. PICK k, g : k = kicked /\ g = HomeOf(kicked.fp, kicked.i)
  OBVIOUS
<1>2. /\ k.pc = "kick" /\ kicked' = Idle /\ lost' = [lost EXCEPT ![g] = @ + 1]
      /\ slots' = slots /\ count' = count /\ lookup' = lookup /\ credit' = credit
  BY <1>1 DEF CuckooFail
<1>3. /\ SlotInv(slots) /\ KickInv(slots, k) /\ LookInv(slots, lookup)
      /\ credit \in [Homes -> Int] /\ lost \in [Homes -> Int]
      /\ Accounts(slots, k, credit, lost) /\ count = Cardinality(Filled(slots))
  BY <1>1 DEF CuckooInv
<1>4. k # Idle
  BY <1>2 DEF Idle
<1>5. g \in Homes
  BY <1>1, <1>3, <1>4, InHandType
<1>6. /\ lost' \in [Homes -> Int]
      /\ \A h \in Homes : lost'[h] = lost[h] + (IF h = g THEN 1 ELSE 0)
  BY <1>2, <1>3, <1>5, CreditedBy
<1>7. ASSUME NEW h \in Homes
      PROVE  Cardinality(Belonging(slots, h)) + Hand(Idle, h) + lost'[h] = credit[h]
  <2>1. Hand(Idle, h) = 0 /\ Hand(k, h) = IF h = g THEN 1 ELSE 0
    BY <1>1, <1>4 DEF Hand
  <2>2. Cardinality(Belonging(slots, h)) \in Nat
    BY Counted
  <2>3. Cardinality(Belonging(slots, h)) + Hand(k, h) + lost[h] = credit[h]
    BY <1>3 DEF Accounts
  <2> QED BY <1>3, <1>6, <2>1, <2>2, <2>3
<1> QED BY <1>2, <1>3, <1>6, <1>7 DEF CuckooInv, Accounts, KickInv

LEMMA CuckooDeleteInv ==
  ASSUME CuckooInv, NEW key \in CuckooKeys, CuckooDelete(key)
  PROVE  CuckooInv'
<1>1. PICK i : /\ i = Index1(key) \/ i = IndexAlt(Index1(key), key.fp)
               /\ BucketContains(i, key.fp)
               /\ slots' = [slots EXCEPT ![First(i, key.fp)] = 0]
  BY DEF CuckooDelete
<1>2. /\ kicked = Idle /\ kicked' = Idle /\ count' = count - 1 /\ lost' = lost
      /\ credit' = [credit EXCEPT ![Home(key)] = @ + (-1)] /\ Disturb({Home(key)})
  BY DEF CuckooDelete, Credited
<1>3. PICK f \in Nat \ {0}, g \in Homes : f = key.fp /\ g = Home(key)
  BY KeyHome
<1>4. i \in Buckets /\ HomeOf(f, i) = g
  BY <1>1, <1>3, KeyBuckets
<1>5. PICK p : p = First(i, f)
  OBVIOUS
<1>6. p \in Places /\ p[1] = i /\ slots[p] = f
  BY <1>1, <1>3, <1>4, <1>5, FirstPlace
<1>7. IsSet(slots', slots, p, 0)
  BY <1>1, <1>3, <1>5 DEF IsSet
<1>8. /\ SlotInv(slots) /\ LookInv(slots, lookup) /\ credit \in [Homes -> Int]
      /\ lost \in [Homes -> Int] /\ Accounts(slots, Idle, credit, lost)
      /\ count = Cardinality(Filled(slots))
  BY <1>2 DEF CuckooInv
<1>9. SlotInv(slots') /\ MoreBy(slots, slots', g)
  BY <1>3, <1>4, <1>6, <1>7, <1>8, TakeCounts
<1>10. lookup' = Disturbed(lookup, {g})
  BY <1>2, <1>3 DEF Disturb, Disturbed
<1>11. LookInv(slots', lookup')
  BY <1>3, <1>4, <1>6, <1>7, <1>8, <1>10, LookChange
<1>12. /\ credit' \in [Homes -> Int]
       /\ \A h \in Homes : credit'[h] = credit[h] + (IF h = g THEN -1 ELSE 0)
  BY <1>2, <1>3, <1>8, CreditedBy, -1 \in Int
<1>13. ASSUME NEW h \in Homes
       PROVE  Cardinality(Belonging(slots', h)) + Hand(Idle, h) + lost[h] = credit'[h]
  <2>1. PICK a, b : a = Cardinality(Belonging(slots', h)) /\ b = Hand(Idle, h)
    OBVIOUS
  <2>2. a \in Nat /\ b = 0
    BY <2>1, Counted DEF Hand
  <2>3. Cardinality(Belonging(slots, h)) = a + (IF h = g THEN 1 ELSE 0)
    BY <1>9, <2>1 DEF MoreBy
  <2>4. Cardinality(Belonging(slots, h)) + b + lost[h] = credit[h]
    BY <1>8, <2>1 DEF Accounts
  <2> QED BY <1>8, <1>12, <2>1, <2>2, <2>3, <2>4
<1>14. count' = Cardinality(Filled(slots'))
  <2>1. PICK a, b : a = Cardinality(Filled(slots')) /\ b = Cardinality(Filled(slots))
    OBVIOUS
  <2>2. a \in Nat /\ b = a + 1
    BY <1>9, <2>1, Counted DEF MoreBy
  <2> QED BY <1>2, <1>8, <2>1, <2>2
<1>15. Accounts(slots', kicked', credit', lost')
  BY <1>2, <1>13 DEF Accounts
<1> QED BY <1>2, <1>8, <1>9, <1>11, <1>12, <1>14, <1>15 DEF CuckooInv, KickInv

LEMMA CuckooResetInv ==
  ASSUME CuckooInv, CuckooReset
  PROVE  CuckooInv'
<1>1. /\ kicked = Idle /\ kicked' = Idle /\ slots' = [p \in Places |-> 0] /\ count' = 0
      /\ credit' = [h \in Homes |-> 0] /\ lost' = credit' /\ Disturb(Homes)
  BY DEF CuckooReset
<1>2. /\ SlotInv(slots') /\ Cardinality(Filled(slots')) = 0
      /\ credit' \in [Homes -> Int] /\ Accounts(slots', Idle, credit', credit')
  BY <1>1, NothingKept
<1>3. LookInv(slots', lookup')
  <2>1. LookInv(slots, lookup)
    BY DEF CuckooInv
  <2>2. CASE lookup = Idle
    BY <1>1, <2>2 DEF Disturb, LookInv
  <2>3. CASE lookup # Idle
    <3>1. lookup \in Lookups
      BY <2>1, <2>3 DEF LookInv
    <3>2. lookup.key \in CuckooKeys
      BY <3>1 DEF Lookups
    <3>3. lookup' = [lookup EXCEPT !.disturbed = TRUE]
      BY <1>1, <2>3, <3>2, KeyHome DEF Disturb
    <3>4. lookup' \in Lookups /\ lookup'.disturbed = TRUE
      BY <3>1, <3>3 DEF Lookups
    <3> QED BY <3>4 DEF LookInv, Answers
  <2> QED BY <2>2, <2>3
<1> QED BY <1>1, <1>2, <1>3 DEF CuckooInv, KickInv

LEMMA CuckooLookInv ==
  ASSUME CuckooInv, NEW key \in CuckooKeys, CuckooLook(key)
  PROVE  CuckooInv'
<1>1. PICK i \in Buckets, f \in Nat \ {0}, g \in Homes :
        i = Index1(key) /\ f = key.fp /\ g = Home(key)
  BY KeyHome
<1>2. /\ slots' = slots /\ count' = count /\ kicked' = kicked
      /\ credit' = credit /\ lost' = lost
      /\ lookup' = [pc |-> "look", key |-> key, n |-> 0, added |-> credit[g] > lost[g],
                    disturbed |-> InHand(g) > 0]
  BY <1>1 DEF CuckooLook
<1>3. /\ SlotInv(slots) /\ KickInv(slots, kicked) /\ credit \in [Homes -> Int]
      /\ lost \in [Homes -> Int] /\ Accounts(slots, kicked, credit, lost)
      /\ count = Cardinality(Filled(slots))
  BY DEF CuckooInv
<1>4. PICK l : l = lookup'
  OBVIOUS
<1>5. PICK a \in BOOLEAN, d \in BOOLEAN : a = (credit[g] > lost[g]) /\ d = (InHand(g) > 0)
  <2>1. (credit[g] > lost[g]) \in BOOLEAN /\ (InHand(g) > 0) \in BOOLEAN
    OBVIOUS
  <2> QED BY <2>1, Zenon
<1>6. l = [pc |-> "look", key |-> key, n |-> 0, added |-> a, disturbed |-> d]
  BY <1>2, <1>4, <1>5
<1>7. l \in Lookups /\ l.key = key /\ l.n = 0 /\ l.added = a /\ l.disturbed = d
  BY <1>6, IndexBitsType DEF Lookups
<1>8. ASSUME credit[g] > lost[g], ~(InHand(g) > 0)
      PROVE  ToCome(slots, key, 0)
  <2>1. InHand(g) = 0 /\ InHand(g) = Hand(kicked, g)
    BY <1>8 DEF InHand, Hand
  <2>2. PICK c \in Nat : c = Cardinality(Belonging(slots, g))
    BY Counted
  <2>3. c + 0 + lost[g] = credit[g]
    BY <1>3, <2>1, <2>2 DEF Accounts
  <2>4. c # 0
    BY <1>3, <1>8, <2>3
  <2>5. Belonging(slots, g) # {}
    BY <2>2, <2>4, FS_EmptySet
  <2>6. PICK p \in Places : slots[p] = f /\ p[1] \in {i, IndexAlt(i, f)}
    <3>1. g.fp = f /\ g.in = {i, IndexAlt(i, f)}
      BY <1>1 DEF Home, HomeOf
    <3> QED BY <2>5, <3>1 DEF Belonging
  <2>7. PICK m \in 0 .. 2 * BucketSize - 1 : SlotSeen(key, m) = p
    BY <1>1, <2>6, PlaceSeen
  <2> QED BY <1>1, <2>6, <2>7 DEF ToCome
<1>9. Answers(slots, l)
  BY <1>1, <1>5, <1>7, <1>8 DEF Answers
<1>10. LookInv(slots, l)
  BY <1>7, <1>9 DEF LookInv
<1> QED BY <1>2, <1>3, <1>4, <1>10 DEF CuckooInv

LEMMA CuckooLookSlotInv ==
  ASSUME CuckooInv, CuckooLookSlot
  PROVE  CuckooInv'
<1>1. /\ slots' = slots /\ count' = count /\ kicked' = kicked
      /\ credit' = credit /\ lost' = lost
  BY DEF CuckooLookSlot
<1>2. PICK l : l = lookup
  OBVIOUS
<1>3. /\ l.pc = "look"
      /\ lookup' = IF l.n = 2 * BucketSize \/ slots[SlotSeen(l.key, l.n)] = l.key.fp
                   THEN Idle ELSE [l EXCEPT !.n = @ + 1]
  BY <1>2 DEF CuckooLookSlot
<1>4. l \in Lookups /\ Answers(slots, l)
  BY <1>2, <1>3 DEF CuckooInv, LookInv, Idle
<1>5. LookInv(slots, lookup')
  <2>1. CASE lookup' = Idle
    BY <2>1 DEF LookInv
  <2>2. CASE lookup' # Idle
    <3>1. /\ l.n # 2 * BucketSize /\ slots[SlotSeen(l.key, l.n)] # l.key.fp
          /\ lookup' = [l EXCEPT !.n = @ + 1]
      BY <1>3, <2>2
    <3>2. l.n \in 0 .. 2 * BucketSize /\ BucketSize \in Nat
      BY <1>4, IndexBitsType DEF Lookups
    <3>3. l.n + 1 \in 0 .. 2 * BucketSize
      BY <3>1, <3>2
    <3>4. PICK m : m = lookup'
      OBVIOUS
    <3>5. /\ m \in Lookups /\ m.key = l.key /\ m.n = l.n + 1
          /\ m.added = l.added /\ m.disturbed = l.disturbed
      BY <1>4, <3>1, <3>3, <3>4 DEF Lookups
    <3>6. ASSUME ToCome(slots, l.key, l.n) PROVE ToCome(slots, l.key, l.n + 1)
      <4>1. PICK j \in l.n .. 2 * BucketSize - 1 : slots[SlotSeen(l.key, j)] = l.key.fp
        BY <3>6 DEF ToCome
      <4>2. j # l.n
        BY <3>1, <4>1
      <4>3. j \in l.n + 1 .. 2 * BucketSize - 1
        BY <3>2, <4>1, <4>2
      <4> QED BY <4>1, <4>3 DEF ToCome
    <3>7. Answers(slots, m)
      BY <1>4, <3>5, <3>6 DEF Answers
    <3> QED BY <3>4, <3>5, <3>7 DEF LookInv
  <2> QED BY <2>1, <2>2
<1> QED BY <1>1, <1>5 DEF CuckooInv

\* Every fingerprint that was added and neither deleted nor lost is in a bucket of
\* its home or in hand, and a lookup of it that nobody disturbed has still to come
\* to a slot that holds it.
THEOREM CuckooInvariant == CuckooSpec => []CuckooInv
<1>1. CuckooInit => CuckooInv
  BY CuckooStarts
<1>2. CuckooInv /\ [CuckooNext]_cuckooVars => CuckooInv'
  <2> SUFFICES ASSUME CuckooInv, [CuckooNext]_cuckooVars PROVE CuckooInv'
    OBVIOUS
  <2>1. ASSUME NEW key \in CuckooKeys, CuckooAdd(key) PROVE CuckooInv'
    BY <2>1, CuckooAddInv
  <2>2. ASSUME NEW key \in CuckooKeys, CuckooRelocate(key) PROVE CuckooInv'
    BY <2>2, CuckooRelocateInv
  <2>3. ASSUME NEW key \in CuckooKeys, CuckooDelete(key) PROVE CuckooInv'
    BY <2>3, CuckooDeleteInv
  <2>4. ASSUME NEW key \in CuckooKeys, CuckooLook(key) PROVE CuckooInv'
    BY <2>4, CuckooLookInv
  <2>5. CASE CuckooSwap
    BY <2>5, CuckooSwapInv
  <2>6. CASE CuckooPlace
    BY <2>6, CuckooPlaceInv
  <2>7. CASE CuckooFail
    BY <2>7, CuckooFailInv
  <2>8. CASE CuckooReset
    BY <2>8, CuckooResetInv
  <2>9. CASE CuckooLookSlot
    BY <2>9, CuckooLookSlotInv
  <2>10. CASE UNCHANGED cuckooVars
    BY <2>10 DEF cuckooVars, CuckooInv
  <2> QED BY <2>1, <2>2, <2>3, <2>4, <2>5, <2>6, <2>7, <2>8, <2>9, <2>10 DEF CuckooNext
<1> QED BY <1>1, <1>2, PTL DEF CuckooSpec

\* FingerprintsKept, for any keys, number and size of buckets and number of kicks:
\* no relocation duplicates a fingerprint or puts it where its key does not look
\* for it, and only an Add that fails drops one.
THEOREM NoneMislaid == CuckooSpec => []FingerprintsKept
<1>1. CuckooInv => FingerprintsKept
  BY DEF CuckooInv, Accounts, FingerprintsKept, Stored, InHand, Hand, Belonging, Filled
<1> QED BY <1>1, CuckooInvariant, PTL

\* MissesOnlyMoved, for any keys, number and size of buckets and number of kicks:
\* the Contains that takes no lock denies a key that was added only if its
\* fingerprint was moved or deleted meanwhile.
THEOREM FoundUnlessMoved == CuckooSpec => []MissesOnlyMoved
<1>1. CuckooInv => MissesOnlyMoved
  <2> SUFFICES ASSUME CuckooInv, lookup # Idle, lookup.added, ~lookup.disturbed
               PROVE  lookup.n < 2 * BucketSize
    BY DEF MissesOnlyMoved
  <2>1. lookup \in Lookups /\ Answers(slots, lookup)
    BY DEF CuckooInv, LookInv
  <2>2. lookup.n \in 0 .. 2 * BucketSize /\ BucketSize \in Nat
    BY <2>1, IndexBitsType DEF Lookups
  <2>3. ToCome(slots, lookup.key, lookup.n)
    BY <2>1 DEF Answers
  <2> QED BY <2>2, <2>3 DEF ToCome
<1> QED BY <1>1, CuckooInvariant, PTL
=============================================================================
