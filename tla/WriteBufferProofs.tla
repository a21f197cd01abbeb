------------------------- MODULE WriteBufferProofs -------------------------
(***************************************************************************)
(* Proofs about WriteBuffer and LossyBuffer, for any number of producers,  *)
(* items and waiters and any capacity, batch size, retry limit and cap of  *)
(* syncCh.                                                                 *)
(*                                                                         *)
(* The argument: flushLoop alone moves head, and what it has taken is in   *)
(* flushed or in its batch.  When flushAll has found the ring empty with   *)
(* an empty batch, flushFn has been given every ticket claimed so far, and *)
(* no caller waits for a ticket that is not claimed yet.                   *)
(***************************************************************************)
EXTENDS WriteBuffer, SequenceTheorems, FiniteSetTheorems, TLAPS

(* What a batch and its goroutine agree on. *)
LoopInv ==
  /\ fpc = "pop" => Len(batch) < BatchSize
  /\ fpc \in {"select", "check", "exit"} => batch = <<>>

\* ring.Push is called with the producer's item.
PushInv == \A p \in Producers : ppc[p] = "try" => pitem[p] \in Items

\* Nobody waits for a ticket that has not been claimed.
NeedClaimed == \A w \in Callers : need[w] <= NextTicket

\* FlushSync sends its channel once: whoever is queued, served or done waits
\* or has returned, so its need no longer changes but to 0.
ServedWaits ==
  \A w \in Waiters :
    w \in closedDone \/ w = serving \/ (\E i \in 1 .. Len(syncCh) : syncCh[i] = w)
      => wpc[w] \in {"wait", "returned"}

\* Likewise Close: flushLoop stops only for a caller of Close.
StopWaits ==
  /\ serving = "stop" => stopped
  /\ stopped => wpc[Closer] # "idle"

\* Whoever has been told that the flush is complete lacks nothing.
DoneFlushed ==
  /\ \A w \in closedDone : need[w] <= Len(flushed)
  /\ exited => stopped /\ need[Closer] <= Len(flushed)

WBInv ==
  /\ TypeOK /\ LoopInv /\ PushInv /\ FlushedInOrder
  /\ NeedClaimed /\ ServedWaits /\ StopWaits /\ DoneFlushed
-----------------------------------------------------------------------------
(* Numbers *)

\* The order of the naturals as a relation, and that it is well founded.
Less == {pair \in Nat \X Nat : pair[1] < pair[2]}

LEMMA LessWellFounded == IsWellFoundedOn(Less, Nat)
<1>1. OpToRel(<, Nat) = Less
  BY DEF OpToRel, Less
<1> QED BY <1>1, NatLessThanWellFounded

\* A set of naturals has a least element: PushCall's choice of the next unused
\* item is one of them.
LEMMA LeastNatural ==
  ASSUME NEW S \in SUBSET Nat, S # {}
  PROVE  \E m \in S : \A n \in S : m <= n
<1>1. PICK m \in S : \A n \in S : <<n, m>> \notin Less
  BY LessWellFounded, WFMin
<1>2. ASSUME NEW n \in S PROVE m <= n
  <2>1. n \in Nat /\ m \in Nat /\ <<n, m>> \notin Less  BY <1>1
  <2>2. ~(n < m)  BY <2>1 DEF Less
  <2> QED BY <2>1, <2>2
<1> QED BY <1>1, <1>2

\* A bounded set of naturals has a greatest one: Owed looks for the youngest
\* ticket that is accepted.
LEMMA GreatestNatural ==
  ASSUME NEW b \in Nat, NEW S \in SUBSET (0 .. b), S # {}
  PROVE  \E m \in S : \A n \in S : m >= n
<1> DEFINE gaps == {b - n : n \in S}
<1>1. gaps \in SUBSET Nat /\ gaps # {}
  <2>1. \A n \in S : b - n \in Nat
    OBVIOUS
  <2>2. PICK n \in S : TRUE
    OBVIOUS
  <2>3. b - n \in gaps
    BY <2>2
  <2> QED BY <2>1, <2>3
<1>2. PICK g \in gaps : \A h \in gaps : g <= h
  BY <1>1, LeastNatural
<1>3. PICK m \in S : g = b - m
  BY <1>2
<1>4. ASSUME NEW n \in S PROVE m >= n
  <2>1. b - m <= b - n  BY <1>2, <1>3
  <2> QED BY <2>1
<1> QED BY <1>4

LEMMA MinIsMember ==
  ASSUME NEW S \in SUBSET Nat, S # {}
  PROVE  Min(S) \in S
BY LeastNatural DEF Min

LEMMA MaxIsMember ==
  ASSUME NEW b \in Nat, NEW S \in SUBSET (0 .. b), S # {}
  PROVE  Max(S) \in S
BY GreatestNatural DEF Max
-----------------------------------------------------------------------------
(* Facts of a state *)

\* An item that PushCall hands to a producer is an item.
LEMMA UnusedItem == Unused # {} => Min(Unused) \in Items
BY MinIsMember, BufferAssumption DEF Unused

\* flushFn's items and the batch are the tickets before head.
LEMMA FlushedLen ==
  ASSUME TypeOK, FlushedInOrder
  PROVE  /\ Len(flushed) \in Nat /\ Len(batch) \in Nat /\ head \in Nat
         /\ Len(flushed) + Len(batch) = head
<1>1. log \in Seq(Items) /\ head \in 0 .. Len(log) /\ flushed \in Seq(Items) /\ batch \in Seq(Items)
  BY DEF TypeOK, QueueType, NextTicket
<1>2. Len(log) \in Nat /\ \A i \in 1 .. head : log[i] \in Items
  BY <1>1, ElementOfSeq
<1>3. Len(SubSeq(log, 1, head)) = head
  BY <1>1, <1>2, SubSeqProperties
<1>4. Len(flushed \o batch) = Len(flushed) + Len(batch)
  BY <1>1, ConcatProperties
<1> QED BY <1>1, <1>3, <1>4 DEF FlushedInOrder

\* What a caller of FlushSync or Close waits for has been claimed.
LEMMA OwedClaimed ==
  ASSUME TypeOK, FlushedInOrder
  PROVE  Owed \in Nat /\ Owed <= NextTicket
<1> DEFINE accepted == Len(flushed) .. head - 1 \cup published
<1>0. NextTicket \in Nat
  BY DEF TypeOK, QueueType, NextTicket
<1>1. accepted \subseteq 0 .. NextTicket - 1
  <2>1. head \in 0 .. NextTicket /\ published \subseteq head .. NextTicket - 1
    BY DEF TypeOK, QueueType, Pending
  <2>2. Len(flushed) \in Nat
    BY FlushedLen
  <2>3. \A t \in accepted : t \in Nat /\ t <= NextTicket - 1
    BY <1>0, <2>1, <2>2
  <2> HIDE DEF accepted
  <2> QED BY <1>0, <2>3
<1>2. CASE accepted = {}
  BY <1>0, <1>2 DEF Owed
<1>3. CASE accepted # {}
  <2>1. NextTicket - 1 \in Nat
    BY <1>0, <1>1, <1>3
  <2>2. Max(accepted) \in accepted
    <3> HIDE DEF accepted
    <3> QED BY <1>1, <1>3, <2>1, MaxIsMember
  <2>3. Owed = Max(accepted) + 1
    BY <1>3 DEF Owed
  <2>4. Max(accepted) \in 0 .. NextTicket - 1
    BY <1>1, <2>2
  <2>5. \A m \in 0 .. NextTicket - 1 : m + 1 \in Nat /\ m + 1 <= NextTicket
    BY <1>0
  <2> QED BY <2>3, <2>4, <2>5
<1> QED BY <1>2, <1>3

LEMMA InitWBInv == Init => WBInv
<1> SUFFICES ASSUME Init PROVE WBInv
  OBVIOUS
<1>1. TypeOK
  <2>1. QueueType
    BY DEF Init, QueueInit, QueueType, NextTicket, Pending
  <2>2. <<>> \in Seq(Waiters) /\ <<>> \in Seq(Items) /\ Len(<<>>) = 0
    BY EmptySeq
  <2>3. BatchSize \in Nat /\ RetryLimit \in Nat /\ SyncCap \in Nat
    BY BufferAssumption
  <2>4. /\ ppc \in [Producers -> {"idle", "try", "publish", "lenTail", "lenHead"}]
        /\ pitem \in [Producers -> Items \cup {NoItem}]
        /\ pidx \in [Producers -> Nat]
        /\ tries \in [Producers -> 0 .. RetryLimit]
    BY <2>3 DEF Init
  <2>5. /\ wpc \in [Callers -> {"idle", "select", "wait", "returned", "closed"}]
        /\ need \in [Callers -> Nat]
    BY DEF Init
  <2>6. /\ syncCh \in Seq(Waiters) /\ Len(syncCh) <= SyncCap
        /\ batch \in Seq(Items) /\ Len(batch) <= BatchSize
        /\ flushed \in Seq(Items)
    BY <2>2, <2>3 DEF Init
  <2> QED BY <2>1, <2>4, <2>5, <2>6 DEF Init, TypeOK
<1>2. LoopInv /\ PushInv /\ StopWaits /\ DoneFlushed
  BY BufferAssumption DEF Init, LoopInv, PushInv, StopWaits, DoneFlushed
<1>5. ServedWaits
  BY BufferAssumption DEF Init, ServedWaits
<1>3. FlushedInOrder
  <2>1. SubSeq(<<>>, 1, 0) = <<>>
    BY SubSeqEmpty
  <2> QED BY <2>1 DEF Init, QueueInit, FlushedInOrder
<1>4. NeedClaimed
  BY DEF Init, QueueInit, NeedClaimed, NextTicket
<1> QED BY <1>1, <1>2, <1>3, <1>4, <1>5 DEF WBInv
-----------------------------------------------------------------------------
(* Steps of the ring *)

\* Appending to the log leaves its prefixes alone.
LEMMA PrefixOfAppend ==
  ASSUME NEW S, NEW s \in Seq(S), NEW x \in S, NEW n \in 0 .. Len(s)
  PROVE  SubSeq(Append(s, x), 1, n) = SubSeq(s, 1, n)
<1>1. Len(s) \in Nat
  BY LenProperties
<1>2. Append(s, x) \in Seq(S) /\ \A i \in 1 .. Len(s) : Append(s, x)[i] = s[i] /\ s[i] \in S
  BY AppendProperties, ElementOfSeq
<1>3. /\ SubSeq(Append(s, x), 1, n) \in Seq(S)
      /\ Len(SubSeq(Append(s, x), 1, n)) = n
      /\ \A i \in 1 .. n : SubSeq(Append(s, x), 1, n)[i] = Append(s, x)[i]
  <2>1. \A i \in 1 .. n : Append(s, x)[i] \in S
    BY <1>1, <1>2
  <2> QED BY <1>1, <2>1, SubSeqProperties
<1>4. /\ SubSeq(s, 1, n) \in Seq(S)
      /\ Len(SubSeq(s, 1, n)) = n
      /\ \A i \in 1 .. n : SubSeq(s, 1, n)[i] = s[i]
  <2>1. \A i \in 1 .. n : s[i] \in S
    BY <1>1, <1>2
  <2> QED BY <1>1, <2>1, SubSeqProperties
<1>5. \A i \in 1 .. n : SubSeq(Append(s, x), 1, n)[i] = SubSeq(s, 1, n)[i]
  BY <1>1, <1>2, <1>3, <1>4
<1> QED BY <1>3, <1>4, <1>5, SeqEqual

\* The claim of ring.Push.
LEMMA ClaimQueue ==
  ASSUME QueueType, NEW x \in Items, Claim(x)
  PROVE  /\ QueueType' /\ NextTicket' = NextTicket + 1
         /\ SubSeq(log', 1, head') = SubSeq(log, 1, head)
<1>1. log \in Seq(Items) /\ Len(log) \in Nat /\ head \in 0 .. Len(log)
  BY LenProperties DEF QueueType, NextTicket
<1>2. log' \in Seq(Items) /\ Len(log') = Len(log) + 1
  BY <1>1, AppendProperties DEF Claim
<1>3. QueueType'
  BY <1>1, <1>2 DEF QueueType, Claim, NextTicket, Pending
<1>4. SubSeq(log', 1, head') = SubSeq(log, 1, head)
  BY <1>1, PrefixOfAppend DEF Claim
<1> QED BY <1>2, <1>3, <1>4 DEF NextTicket

\* The publication of ring.Push.
LEMMA PublishQueue ==
  ASSUME QueueType, NEW t, Publish(t)
  PROVE  QueueType'
BY DEF QueueType, Publish, NextTicket, Pending

\* ring.Pop takes the ticket at head.
LEMMA TakeQueue ==
  ASSUME QueueType, Take
  PROVE  /\ QueueType' /\ NextTicket' = NextTicket
         /\ log[head + 1] \in Items
         /\ SubSeq(log', 1, head') = SubSeq(log, 1, head) \o <<log[head + 1]>>
<1>1. log \in Seq(Items) /\ Len(log) \in Nat /\ head \in 0 .. Len(log)
  BY LenProperties DEF QueueType, NextTicket
<1>2. head + 1 \in 1 .. Len(log) /\ log' = log /\ head' = head + 1
  BY <1>1 DEF QueueType, Take, NextTicket, Pending
<1>3. log[head + 1] \in Items
  BY <1>1, <1>2, ElementOfSeq
<1>4. SubSeq(log, 1, head + 1) = SubSeq(log, 1, head) \o <<log[head + 1]>>
  <2>1. SubSeq(log, 1, head + 1) = SubSeq(log, 1, head + 1 - 1) \o <<log[head + 1]>>
    BY <1>1, <1>2, SubSeqRecursiveSecond
  <2> QED BY <1>1, <2>1
<1>5. QueueType'
  BY <1>1, <1>2 DEF QueueType, Take, NextTicket, Pending
<1> QED BY <1>2, <1>3, <1>4, <1>5 DEF NextTicket

\* The end of ring.Pop.
LEMMA FreeQueue ==
  ASSUME QueueType, NEW t, Free(t)
  PROVE  QueueType'
BY DEF QueueType, Free, NextTicket, Pending
-----------------------------------------------------------------------------
(* Steps of the producers *)

\* What the steps of Push leave alone is most of the invariant.
LEMMA PushKeeps ==
  ASSUME WBInv, UNCHANGED elseThanPush,
         NextTicket' \in Int, NextTicket' >= NextTicket
  PROVE  LoopInv' /\ NeedClaimed' /\ ServedWaits' /\ StopWaits' /\ DoneFlushed'
<1>1. LoopInv' /\ ServedWaits' /\ StopWaits' /\ DoneFlushed'
  BY DEF WBInv, elseThanPush, loopVars, callerVars, LoopInv, ServedWaits, StopWaits, DoneFlushed
<1>2. NeedClaimed'
  <2>1. NextTicket \in Int /\ \A w \in Callers : need[w] \in Nat /\ need[w] <= NextTicket
    BY DEF WBInv, TypeOK, QueueType, NextTicket, NeedClaimed
  <2> QED BY <2>1 DEF elseThanPush, callerVars, NeedClaimed
<1> QED BY <1>1, <1>2

\* The types of what the steps of Push leave alone.
LEMMA PushKeepsType ==
  ASSUME TypeOK, UNCHANGED elseThanPush, QueueType', flushCh' \in BOOLEAN,
         ppc' \in [Producers -> {"idle", "try", "publish", "lenTail", "lenHead"}],
         pitem' \in [Producers -> Items \cup {NoItem}],
         pidx' \in [Producers -> Nat],
         tries' \in [Producers -> 0 .. RetryLimit]
  PROVE  TypeOK'
BY DEF TypeOK, elseThanPush, loopVars, callerVars

LEMMA PushReturnType ==
  ASSUME TypeOK, PushInv, NEW p \in Producers, PushReturn(p)
  PROVE  /\ ppc' \in [Producers -> {"idle", "try", "publish", "lenTail", "lenHead"}]
         /\ pitem' \in [Producers -> Items \cup {NoItem}]
         /\ pidx' \in [Producers -> Nat]
         /\ tries' \in [Producers -> 0 .. RetryLimit]
         /\ PushInv'
<1>1. RetryLimit \in Nat  BY BufferAssumption
<1> QED BY <1>1 DEF TypeOK, PushInv, PushReturn

\* A step of Push that neither claims nor takes a ticket.
LEMMA PushQuiet ==
  ASSUME WBInv, UNCHANGED elseThanPush, log' = log, head' = head, TypeOK', PushInv'
  PROVE  WBInv'
<1>1. NextTicket' = NextTicket /\ NextTicket \in Int
  BY DEF NextTicket, WBInv, TypeOK, QueueType
<1>2. LoopInv' /\ NeedClaimed' /\ ServedWaits' /\ StopWaits' /\ DoneFlushed'
  BY <1>1, PushKeeps
<1>3. FlushedInOrder'
  BY DEF WBInv, FlushedInOrder, elseThanPush, loopVars
<1> QED BY <1>2, <1>3 DEF WBInv

LEMMA PushCallInv ==
  ASSUME WBInv, NEW p \in Producers, PushCall(p)
  PROVE  WBInv'
<1>1. Min(Unused) \in Items
  BY UnusedItem DEF PushCall
<1>2. /\ ppc' \in [Producers -> {"idle", "try", "publish", "lenTail", "lenHead"}]
      /\ pitem' \in [Producers -> Items \cup {NoItem}]
      /\ PushInv'
  BY <1>1 DEF WBInv, TypeOK, PushInv, PushCall
<1>3. QueueType'
  BY DEF WBInv, TypeOK, QueueType, PushCall, queueVars, NextTicket, Pending
<1>4. TypeOK'
  BY <1>2, <1>3, PushKeepsType DEF WBInv, TypeOK, PushCall
<1> QED BY <1>2, <1>4, PushQuiet DEF PushCall, queueVars

LEMMA PushClaimInv ==
  ASSUME WBInv, NEW p \in Producers, PushClaim(p)
  PROVE  WBInv'
<1>1. TypeOK /\ QueueType /\ pitem[p] \in Items
  BY DEF WBInv, TypeOK, PushInv, PushClaim
<1>2. /\ QueueType' /\ NextTicket' = NextTicket + 1
      /\ SubSeq(log', 1, head') = SubSeq(log, 1, head)
  BY <1>1, ClaimQueue DEF PushClaim
<1>3. NextTicket \in Nat
  BY <1>1 DEF QueueType, NextTicket
<1>4. /\ ppc' \in [Producers -> {"idle", "try", "publish", "lenTail", "lenHead"}]
      /\ pidx' \in [Producers -> Nat]
      /\ PushInv'
  BY <1>3 DEF WBInv, TypeOK, PushInv, PushClaim
<1>5. TypeOK'
  BY <1>1, <1>2, <1>4, PushKeepsType DEF TypeOK, PushClaim
<1>6. LoopInv' /\ NeedClaimed' /\ ServedWaits' /\ StopWaits' /\ DoneFlushed'
  BY <1>2, <1>3, PushKeeps DEF PushClaim
<1>7. FlushedInOrder'
  BY <1>2 DEF WBInv, FlushedInOrder, PushClaim, elseThanPush, loopVars
<1> QED BY <1>4, <1>5, <1>6, <1>7 DEF WBInv

LEMMA PushFullInv ==
  ASSUME WBInv, NEW p \in Producers, PushFull(p)
  PROVE  WBInv'
<1>1. QueueType' /\ flushCh' \in BOOLEAN
  BY DEF WBInv, TypeOK, QueueType, PushFull, queueVars, NextTicket, Pending
<1>2. /\ ppc' \in [Producers -> {"idle", "try", "publish", "lenTail", "lenHead"}]
      /\ pitem' \in [Producers -> Items \cup {NoItem}]
      /\ pidx' \in [Producers -> Nat]
      /\ tries' \in [Producers -> 0 .. RetryLimit]
      /\ PushInv'
  <2>1. CASE PushReturn(p)
    BY <2>1, PushReturnType DEF WBInv
  <2>2. CASE /\ tries[p] < RetryLimit
             /\ tries' = [tries EXCEPT ![p] = @ + 1]
             /\ UNCHANGED <<ppc, pitem, pidx>>
    <3>1. RetryLimit \in Nat  BY BufferAssumption
    <3>2. tries \in [Producers -> 0 .. RetryLimit]  BY DEF WBInv, TypeOK
    <3>3. tries' \in [Producers -> 0 .. RetryLimit]  BY <2>2, <3>1, <3>2
    <3> QED BY <2>2, <3>3 DEF WBInv, TypeOK, PushInv
  <2> QED BY <2>1, <2>2 DEF PushFull
<1>3. TypeOK'
  BY <1>1, <1>2, PushKeepsType DEF WBInv, PushFull
<1> QED BY <1>2, <1>3, PushQuiet DEF PushFull, queueVars

LEMMA PushPublishInv ==
  ASSUME WBInv, NEW p \in Producers, PushPublish(p)
  PROVE  WBInv'
<1>1. QueueType' /\ flushCh' \in BOOLEAN
  BY PublishQueue DEF WBInv, TypeOK, PushPublish
<1>2. /\ ppc' \in [Producers -> {"idle", "try", "publish", "lenTail", "lenHead"}]
      /\ pitem' \in [Producers -> Items \cup {NoItem}]
      /\ pidx' \in [Producers -> Nat]
      /\ tries' \in [Producers -> 0 .. RetryLimit]
      /\ PushInv'
  <2>1. CASE PushReturn(p)
    BY <2>1, PushReturnType DEF WBInv
  <2>2. CASE ppc' = [ppc EXCEPT ![p] = "lenTail"] /\ UNCHANGED <<pitem, pidx, tries>>
    BY <2>2 DEF WBInv, TypeOK, PushInv
  <2> QED BY <2>1, <2>2 DEF PushPublish
<1>3. TypeOK'
  BY <1>1, <1>2, PushKeepsType DEF WBInv, PushPublish
<1> QED BY <1>2, <1>3, PushQuiet DEF PushPublish, Publish

LEMMA PushLenTailInv ==
  ASSUME WBInv, NEW p \in Producers, PushLenTail(p)
  PROVE  WBInv'
<1>1. QueueType'
  BY DEF WBInv, TypeOK, QueueType, PushLenTail, queueVars, NextTicket, Pending
<1>2. NextTicket \in Nat
  BY DEF WBInv, TypeOK, QueueType, NextTicket
<1>3. /\ ppc' \in [Producers -> {"idle", "try", "publish", "lenTail", "lenHead"}]
      /\ pidx' \in [Producers -> Nat]
      /\ PushInv'
  BY <1>2 DEF WBInv, TypeOK, PushInv, PushLenTail
<1>4. TypeOK'
  BY <1>1, <1>3, PushKeepsType DEF WBInv, TypeOK, PushLenTail
<1> QED BY <1>3, <1>4, PushQuiet DEF PushLenTail, queueVars

LEMMA PushLenHeadInv ==
  ASSUME WBInv, NEW p \in Producers, PushLenHead(p)
  PROVE  WBInv'
<1>1. QueueType' /\ flushCh' \in BOOLEAN
  BY DEF WBInv, TypeOK, QueueType, PushLenHead, queueVars, NextTicket, Pending
<1>2. /\ ppc' \in [Producers -> {"idle", "try", "publish", "lenTail", "lenHead"}]
      /\ pitem' \in [Producers -> Items \cup {NoItem}]
      /\ pidx' \in [Producers -> Nat]
      /\ tries' \in [Producers -> 0 .. RetryLimit]
      /\ PushInv'
  BY PushReturnType DEF WBInv, PushLenHead
<1>3. TypeOK'
  BY <1>1, <1>2, PushKeepsType DEF WBInv, PushLenHead
<1> QED BY <1>2, <1>3, PushQuiet DEF PushLenHead, queueVars

LEMMA ProducerInv ==
  ASSUME WBInv, NEW p \in Producers, PushCall(p) \/ PushStep(p)
  PROVE  WBInv'
BY PushCallInv, PushClaimInv, PushFullInv, PushPublishInv, PushLenTailInv, PushLenHeadInv
   DEF PushStep
-----------------------------------------------------------------------------
(* Steps of flushLoop *)

\* What only the callers and the producers touch.
LEMMA LoopKeeps ==
  ASSUME WBInv, UNCHANGED elseThanLoop, NextTicket' = NextTicket
  PROVE  /\ PushInv' /\ NeedClaimed'
         /\ ppc' = ppc /\ pitem' = pitem /\ pidx' = pidx /\ tries' = tries
         /\ stopped' = stopped /\ wpc' = wpc /\ need' = need
BY DEF WBInv, elseThanLoop, producerVars, callerVars, PushInv, NeedClaimed

\* The select of flushLoop: a new batch for a caller that waits, for the
\* ticker, for a signal or for Close.
LEMMA StartFlushInv ==
  ASSUME WBInv, NEW s, StartFlush(s),
         flushCh' \in BOOLEAN,
         syncCh' \in Seq(Waiters), Len(syncCh') <= SyncCap,
         \A i \in 1 .. Len(syncCh') : \E j \in 1 .. Len(syncCh) : syncCh'[i] = syncCh[j],
         \/ s = "batch"
         \/ s = "stop" /\ stopped
         \/ s \in Waiters /\ \E j \in 1 .. Len(syncCh) : s = syncCh[j]
  PROVE  WBInv'
<1>1. NextTicket' = NextTicket
  BY DEF StartFlush, queueVars, NextTicket
<1>2. /\ PushInv' /\ NeedClaimed'
      /\ ppc' = ppc /\ pitem' = pitem /\ pidx' = pidx /\ tries' = tries
      /\ stopped' = stopped /\ wpc' = wpc /\ need' = need
  BY <1>1, LoopKeeps DEF StartFlush
<1>3. fpc' = "pop" /\ serving' = s /\ batch' = <<>> /\ batch = <<>>
      /\ UNCHANGED <<log, head, published, draining, exited, flushed, closedDone>>
  BY DEF StartFlush, queueVars, WBInv, LoopInv
<1>4. QueueType'
  BY <1>3 DEF WBInv, TypeOK, QueueType, NextTicket, Pending
<1>5. TypeOK'
  BY <1>2, <1>3, <1>4 DEF WBInv, TypeOK
<1>6. LoopInv'
  <2>1. Len(<<>>) = 0 /\ BatchSize > 0
    BY EmptySeq, BufferAssumption
  <2> QED BY <1>3, <2>1 DEF LoopInv
<1>7. FlushedInOrder'
  BY <1>3 DEF WBInv, FlushedInOrder
<1>8. ServedWaits'
  BY <1>2, <1>3, BufferAssumption DEF WBInv, ServedWaits
<1>9. StopWaits' /\ DoneFlushed'
  BY <1>2, <1>3, BufferAssumption DEF WBInv, StopWaits, DoneFlushed
<1> QED BY <1>2, <1>5, <1>6, <1>7, <1>8, <1>9 DEF WBInv

LEMMA SelectInv ==
  ASSUME WBInv, SelectStop \/ SelectTick \/ SelectFlush
  PROVE  WBInv'
<1>1. flushCh' \in BOOLEAN /\ syncCh' = syncCh
  BY DEF SelectStop, SelectTick, SelectFlush, WBInv, TypeOK
<1>2. StartFlush("batch") \/ (StartFlush("stop") /\ stopped)
  BY DEF SelectStop, SelectTick, SelectFlush
<1>3. syncCh \in Seq(Waiters) /\ Len(syncCh) <= SyncCap
  BY DEF WBInv, TypeOK
<1> QED BY <1>1, <1>2, <1>3, StartFlushInv

LEMMA SelectSyncInv ==
  ASSUME WBInv, SelectSync
  PROVE  WBInv'
<1>1. syncCh \in Seq(Waiters) /\ Len(syncCh) <= SyncCap /\ syncCh # <<>> /\ SyncCap \in Nat
  BY BufferAssumption DEF WBInv, TypeOK, SelectSync
<1>2. /\ Head(syncCh) \in Waiters /\ Tail(syncCh) \in Seq(Waiters)
      /\ Len(Tail(syncCh)) = Len(syncCh) - 1 /\ Len(syncCh) \in Nat \ {0}
      /\ \A i \in 1 .. Len(Tail(syncCh)) : Tail(syncCh)[i] = syncCh[i + 1]
  BY <1>1, HeadTailProperties, EmptySeq
<1>3. Head(syncCh) = syncCh[1]
  BY <1>1
<1>4. \A i \in 1 .. Len(syncCh') : \E j \in 1 .. Len(syncCh) : syncCh'[i] = syncCh[j]
  BY <1>2 DEF SelectSync
<1>5. \E j \in 1 .. Len(syncCh) : Head(syncCh) = syncCh[j]
  BY <1>2, <1>3
<1>6. /\ StartFlush(Head(syncCh)) /\ flushCh' \in BOOLEAN
      /\ syncCh' \in Seq(Waiters) /\ Len(syncCh') <= SyncCap
  BY <1>1, <1>2 DEF SelectSync, WBInv, TypeOK
<1> QED BY <1>2, <1>4, <1>5, <1>6, StartFlushInv

\* ring.Pop takes the oldest ticket into the batch, which has room for it.
LEMMA PopItemInv ==
  ASSUME WBInv, PopItem
  PROVE  WBInv'
<1>1. /\ QueueType' /\ NextTicket' = NextTicket
      /\ log[head + 1] \in Items
      /\ SubSeq(log', 1, head') = SubSeq(log, 1, head) \o <<log[head + 1]>>
  BY TakeQueue DEF WBInv, TypeOK, PopItem
<1>2. /\ PushInv' /\ NeedClaimed'
      /\ ppc' = ppc /\ pitem' = pitem /\ pidx' = pidx /\ tries' = tries
      /\ stopped' = stopped /\ wpc' = wpc /\ need' = need
  BY <1>1, LoopKeeps DEF PopItem
<1>3. /\ batch' = Append(batch, log[head + 1]) /\ fpc' = "free" /\ fpc = "pop"
      /\ UNCHANGED <<serving, flushed, flushCh, syncCh, exited, closedDone>>
  BY DEF PopItem
<1>4. batch \in Seq(Items) /\ flushed \in Seq(Items) /\ Len(batch) \in Nat /\ Len(batch) < BatchSize
  BY <1>3, LenProperties DEF WBInv, TypeOK, LoopInv
<1>5. /\ batch' \in Seq(Items) /\ Len(batch') <= BatchSize
      /\ batch' = batch \o <<log[head + 1]>>
  <2>1. Append(batch, log[head + 1]) \in Seq(Items) /\ Len(Append(batch, log[head + 1])) = Len(batch) + 1
    BY <1>1, <1>4, AppendProperties
  <2>2. BatchSize \in Nat
    BY BufferAssumption
  <2>3. Append(batch, log[head + 1]) = batch \o <<log[head + 1]>>
    BY <1>1, <1>4, AppendIsConcat
  <2> QED BY <1>3, <1>4, <2>1, <2>2, <2>3
<1>6. TypeOK'
  BY <1>1, <1>2, <1>3, <1>5 DEF WBInv, TypeOK
<1>7. FlushedInOrder'
  <2>1. <<log[head + 1]>> \in Seq(Items)
    BY <1>1
  <2>2. (flushed \o batch) \o <<log[head + 1]>> = flushed \o (batch \o <<log[head + 1]>>)
    BY <1>4, <2>1, ConcatAssociative
  <2> QED BY <1>1, <1>3, <1>5, <2>2 DEF WBInv, FlushedInOrder
<1>8. LoopInv' /\ ServedWaits' /\ StopWaits' /\ DoneFlushed'
  BY <1>2, <1>3 DEF WBInv, LoopInv, ServedWaits, StopWaits, DoneFlushed
<1> QED BY <1>2, <1>6, <1>7, <1>8 DEF WBInv

\* The steps between a Pop and flushFn.
LEMMA BatchInv ==
  ASSUME WBInv, FreeItem \/ PopEmpty
  PROVE  WBInv'
<1>1. /\ log' = log /\ head' = head /\ QueueType' /\ NextTicket' = NextTicket
  <2>1. CASE FreeItem
    BY <2>1, FreeQueue DEF FreeItem, Free, WBInv, TypeOK, NextTicket
  <2>2. CASE PopEmpty
    BY <2>2 DEF PopEmpty, queueVars, WBInv, TypeOK, QueueType, NextTicket, Pending
  <2> QED BY <2>1, <2>2
<1>2. /\ PushInv' /\ NeedClaimed'
      /\ ppc' = ppc /\ pitem' = pitem /\ pidx' = pidx /\ tries' = tries
      /\ stopped' = stopped /\ wpc' = wpc /\ need' = need
  BY <1>1, LoopKeeps DEF FreeItem, PopEmpty
<1>3. UNCHANGED <<serving, batch, flushed, flushCh, syncCh, exited, closedDone>>
  BY DEF FreeItem, PopEmpty
<1>4. fpc' \in {"flush", "pop"} /\ (fpc' = "pop" => Len(batch) < BatchSize)
  <2>1. Len(batch) \in Nat /\ BatchSize \in Nat
    BY LenProperties, BufferAssumption DEF WBInv, TypeOK
  <2> QED BY <2>1 DEF FreeItem, PopEmpty, BatchFull
<1>5. TypeOK'
  BY <1>1, <1>2, <1>3, <1>4 DEF WBInv, TypeOK
<1>6. FlushedInOrder'
  BY <1>1, <1>3 DEF WBInv, FlushedInOrder
<1>7. LoopInv' /\ ServedWaits' /\ StopWaits' /\ DoneFlushed'
  BY <1>2, <1>3, <1>4 DEF WBInv, LoopInv, ServedWaits, StopWaits, DoneFlushed
<1> QED BY <1>2, <1>5, <1>6, <1>7 DEF WBInv

\* flushFn is given the batch.
LEMMA FlushFnInv ==
  ASSUME WBInv, FlushFn
  PROVE  WBInv'
<1>1. NextTicket' = NextTicket /\ UNCHANGED <<log, head, published, draining>>
  BY DEF FlushFn, queueVars, NextTicket
<1>2. /\ PushInv' /\ NeedClaimed'
      /\ ppc' = ppc /\ pitem' = pitem /\ pidx' = pidx /\ tries' = tries
      /\ stopped' = stopped /\ wpc' = wpc /\ need' = need
  BY <1>1, LoopKeeps DEF FlushFn
<1>3. /\ flushed' = flushed \o batch /\ batch' = <<>> /\ fpc' \in {"select", "check"}
      /\ UNCHANGED <<serving, flushCh, syncCh, exited, closedDone>>
  BY DEF FlushFn
<1>4. flushed \in Seq(Items) /\ batch \in Seq(Items) /\ BatchSize \in Nat
  BY BufferAssumption DEF WBInv, TypeOK
<1>5. /\ flushed' \in Seq(Items) /\ Len(flushed') = Len(flushed) + Len(batch)
      /\ Len(flushed) \in Nat /\ Len(batch) \in Nat
      /\ batch' \in Seq(Items) /\ Len(batch') = 0
  BY <1>3, <1>4, ConcatProperties, LenProperties, EmptySeq
<1>6. TypeOK'
  <2>1. QueueType'
    BY <1>1 DEF WBInv, TypeOK, QueueType, NextTicket, Pending
  <2> QED BY <1>2, <1>3, <1>4, <1>5, <2>1 DEF WBInv, TypeOK
<1>7. FlushedInOrder'
  <2>1. (flushed \o batch) \o <<>> = flushed \o batch
    BY <1>3, <1>4, <1>5, ConcatEmptySeq
  <2> QED BY <1>1, <1>3, <2>1 DEF WBInv, FlushedInOrder
<1>8. LoopInv' /\ ServedWaits' /\ StopWaits'
  BY <1>2, <1>3 DEF WBInv, LoopInv, ServedWaits, StopWaits
<1>9. DoneFlushed'
  <2>1. \A w \in Callers : need[w] \in Nat
    BY DEF WBInv, TypeOK
  <2>2. closedDone \subseteq Callers /\ Closer \in Callers
    BY DEF WBInv, TypeOK, Callers
  <2>3. \A w \in closedDone : need[w] <= Len(flushed')
    BY <1>5, <2>1, <2>2 DEF WBInv, DoneFlushed
  <2>4. exited => stopped /\ need[Closer] <= Len(flushed')
    BY <1>5, <2>1, <2>2 DEF WBInv, DoneFlushed
  <2> QED BY <1>2, <1>3, <2>3, <2>4 DEF DoneFlushed
<1> QED BY <1>2, <1>6, <1>7, <1>8, <1>9 DEF WBInv

\* flushAll finds the ring empty only when flushFn has been given every ticket.
LEMMA FlushAllCheckInv ==
  ASSUME WBInv, FlushAllCheck
  PROVE  WBInv'
<1>1. NextTicket' = NextTicket /\ UNCHANGED <<log, head, published, draining>>
  BY DEF FlushAllCheck, queueVars, NextTicket
<1>2. /\ PushInv' /\ NeedClaimed'
      /\ ppc' = ppc /\ pitem' = pitem /\ pidx' = pidx /\ tries' = tries
      /\ stopped' = stopped /\ wpc' = wpc /\ need' = need
  BY <1>1, LoopKeeps DEF FlushAllCheck
<1>3. batch = <<>> /\ UNCHANGED <<serving, batch, flushed, flushCh, syncCh>>
  BY DEF FlushAllCheck, WBInv, LoopInv
<1>4. Drained => \A w \in Callers : need[w] <= Len(flushed)
  <2>1. Len(flushed) = head /\ NextTicket \in Nat /\ head \in Nat
    BY <1>3, FlushedLen, EmptySeq DEF WBInv, TypeOK, QueueType, NextTicket
  <2> QED BY <2>1 DEF Drained, QueueLen, WBInv, NeedClaimed
<1>5. TypeOK'
  <2>1. QueueType'
    BY <1>1 DEF WBInv, TypeOK, QueueType, NextTicket, Pending
  <2>2. fpc' \in {"pop", "select", "exit"} /\ closedDone' \subseteq Waiters /\ exited' \in BOOLEAN
    BY DEF FlushAllCheck, WBInv, TypeOK
  <2> QED BY <1>2, <1>3, <2>1, <2>2 DEF WBInv, TypeOK
<1>6. FlushedInOrder'
  BY <1>1, <1>3 DEF WBInv, FlushedInOrder
<1>7. LoopInv' /\ StopWaits'
  <2>1. Len(<<>>) = 0 /\ BatchSize > 0
    BY EmptySeq, BufferAssumption
  <2> QED BY <1>2, <1>3, <2>1 DEF WBInv, LoopInv, StopWaits
<1>8. ServedWaits'
  BY <1>2, <1>3 DEF WBInv, ServedWaits, FlushAllCheck
<1>9. DoneFlushed'
  BY <1>2, <1>3, <1>4 DEF WBInv, DoneFlushed, StopWaits, FlushAllCheck, Callers
<1> QED BY <1>2, <1>5, <1>6, <1>7, <1>8, <1>9 DEF WBInv

LEMMA FlushLoopInv ==
  ASSUME WBInv, FlushLoop
  PROVE  WBInv'
BY SelectInv, SelectSyncInv, PopItemInv, BatchInv, FlushFnInv, FlushAllCheckInv DEF FlushLoop
-----------------------------------------------------------------------------
(* Steps of Flush, FlushSync and Close *)

\* What only flushLoop and the producers touch.
LEMMA CallKeeps ==
  ASSUME WBInv, UNCHANGED elseThanCall,
         flushCh' \in BOOLEAN, stopped' \in BOOLEAN,
         syncCh' \in Seq(Waiters), Len(syncCh') <= SyncCap,
         wpc' \in [Callers -> {"idle", "select", "wait", "returned", "closed"}],
         need' \in [Callers -> Nat]
  PROVE  /\ TypeOK' /\ LoopInv' /\ PushInv' /\ FlushedInOrder'
         /\ NextTicket' = NextTicket
<1>1. UNCHANGED <<log, head, published, draining, ppc, pitem, pidx, tries, exited,
                  fpc, serving, batch, flushed, closedDone>>
  BY DEF elseThanCall, queueVars, producerVars, loopVars
<1>2. QueueType' /\ NextTicket' = NextTicket
  BY <1>1 DEF WBInv, TypeOK, QueueType, NextTicket, Pending
<1>3. TypeOK'
  BY <1>1, <1>2 DEF WBInv, TypeOK
<1> QED BY <1>1, <1>2, <1>3 DEF WBInv, LoopInv, PushInv, FlushedInOrder

LEMMA FlushInv ==
  ASSUME WBInv, Flush
  PROVE  WBInv'
<1>1. UNCHANGED <<elseThanCall, wpc, need, syncCh, stopped>> /\ flushCh' \in BOOLEAN
  BY DEF Flush, callerVars
<1>2. /\ TypeOK' /\ LoopInv' /\ PushInv' /\ FlushedInOrder'
      /\ NextTicket' = NextTicket
  BY <1>1, CallKeeps DEF WBInv, TypeOK
<1>3. UNCHANGED <<serving, flushed, closedDone, exited>>
  BY <1>1 DEF elseThanCall, loopVars
<1>4. NeedClaimed' /\ ServedWaits' /\ StopWaits' /\ DoneFlushed'
  BY <1>1, <1>2, <1>3 DEF WBInv, NeedClaimed, ServedWaits, StopWaits, DoneFlushed
<1> QED BY <1>2, <1>4 DEF WBInv

\* A call of FlushSync: the caller is not queued, served or done.
LEMMA FlushSyncCallInv ==
  ASSUME WBInv, NEW w \in Waiters, FlushSyncCall(w)
  PROVE  WBInv'
<1>0. w \in Callers /\ w # Closer /\ Closer \in Callers /\ Owed \in Nat /\ Owed <= NextTicket
  BY OwedClaimed, BufferAssumption DEF WBInv, Callers
<1>1. /\ UNCHANGED <<elseThanCall, flushCh, syncCh, stopped>>
      /\ wpc[w] = "idle"
      /\ wpc' = [wpc EXCEPT ![w] = "select"]
      /\ need' = [need EXCEPT ![w] = Owed]
  BY DEF FlushSyncCall
<1>2. /\ wpc' \in [Callers -> {"idle", "select", "wait", "returned", "closed"}]
      /\ need' \in [Callers -> Nat]
  BY <1>0, <1>1 DEF WBInv, TypeOK
<1>3. /\ TypeOK' /\ LoopInv' /\ PushInv' /\ FlushedInOrder'
      /\ NextTicket' = NextTicket
  BY <1>1, <1>2, CallKeeps DEF WBInv, TypeOK
<1>4. UNCHANGED <<serving, flushed, closedDone, exited>>
  BY <1>1 DEF elseThanCall, loopVars
<1>5. NeedClaimed'
  BY <1>0, <1>1, <1>3 DEF WBInv, TypeOK, NeedClaimed
<1>6. ServedWaits'
  BY <1>0, <1>1, <1>4 DEF WBInv, TypeOK, ServedWaits, Callers
<1>7. StopWaits'
  BY <1>0, <1>1, <1>4 DEF WBInv, TypeOK, StopWaits
<1>8. DoneFlushed'
  <2>1. w \notin closedDone /\ closedDone \subseteq Callers
    BY <1>1 DEF WBInv, TypeOK, ServedWaits, Callers
  <2> QED BY <1>0, <1>1, <1>4, <2>1 DEF WBInv, TypeOK, DoneFlushed
<1> QED BY <1>3, <1>5, <1>6, <1>7, <1>8 DEF WBInv

LEMMA FlushSyncSendInv ==
  ASSUME WBInv, NEW w \in Waiters, FlushSyncSend(w)
  PROVE  WBInv'
<1>0. w \in Callers /\ w # Closer /\ Closer \in Callers
  BY BufferAssumption DEF Callers
<1>1. /\ UNCHANGED <<elseThanCall, flushCh, need, stopped>>
      /\ syncCh' = Append(syncCh, w) /\ Len(syncCh) < SyncCap
      /\ wpc' = [wpc EXCEPT ![w] = "wait"]
  BY DEF FlushSyncSend
<1>2. /\ syncCh' \in Seq(Waiters) /\ Len(syncCh') <= SyncCap
      /\ Len(syncCh') = Len(syncCh) + 1 /\ Len(syncCh) \in Nat
      /\ syncCh'[Len(syncCh) + 1] = w
      /\ \A i \in 1 .. Len(syncCh) : syncCh'[i] = syncCh[i]
  <2>1. syncCh \in Seq(Waiters) /\ SyncCap \in Nat
    BY BufferAssumption DEF WBInv, TypeOK
  <2> QED BY <1>1, <2>1, AppendProperties, LenProperties
<1>3. wpc' \in [Callers -> {"idle", "select", "wait", "returned", "closed"}]
  BY <1>0, <1>1 DEF WBInv, TypeOK
<1>4. /\ TypeOK' /\ LoopInv' /\ PushInv' /\ FlushedInOrder'
      /\ NextTicket' = NextTicket
  BY <1>1, <1>2, <1>3, CallKeeps DEF WBInv, TypeOK
<1>5. UNCHANGED <<serving, flushed, closedDone, exited>>
  BY <1>1 DEF elseThanCall, loopVars
<1>6. NeedClaimed' /\ DoneFlushed'
  BY <1>1, <1>4, <1>5 DEF WBInv, NeedClaimed, DoneFlushed
<1>7. StopWaits'
  BY <1>0, <1>1, <1>5 DEF WBInv, TypeOK, StopWaits
<1>8. ServedWaits'
  <2> SUFFICES ASSUME NEW v \in Waiters,
                      \/ v \in closedDone \/ v = serving
                      \/ \E i \in 1 .. Len(syncCh') : syncCh'[i] = v
               PROVE  wpc'[v] \in {"wait", "returned"}
    BY <1>5 DEF ServedWaits
  <2>1. v \in Callers  BY DEF Callers
  <2>2. CASE v = w
    BY <1>1, <2>1, <2>2 DEF WBInv, TypeOK
  <2>3. CASE v # w
    <3>1. v \in closedDone \/ v = serving \/ (\E i \in 1 .. Len(syncCh) : syncCh[i] = v)
      BY <1>2, <2>3
    <3> QED BY <1>1, <2>1, <2>3, <3>1 DEF WBInv, TypeOK, ServedWaits
  <2> QED BY <2>2, <2>3
<1> QED BY <1>4, <1>6, <1>7, <1>8 DEF WBInv

\* A return lowers the need to 0.
LEMMA ReturnInv ==
  ASSUME WBInv, NEW w \in Callers, NEW how \in {"returned", "closed"},
         Return(w, how), UNCHANGED <<elseThanCall, flushCh, syncCh, stopped>>,
         how = "closed" => wpc[w] = "select"
  PROVE  WBInv'
<1>1. /\ wpc' = [wpc EXCEPT ![w] = how]
      /\ need' = [need EXCEPT ![w] = 0]
  BY DEF Return
<1>2. /\ wpc' \in [Callers -> {"idle", "select", "wait", "returned", "closed"}]
      /\ need' \in [Callers -> Nat]
  BY <1>1 DEF WBInv, TypeOK
<1>3. /\ TypeOK' /\ LoopInv' /\ PushInv' /\ FlushedInOrder'
      /\ NextTicket' = NextTicket
  BY <1>2, CallKeeps DEF WBInv, TypeOK
<1>4. UNCHANGED <<serving, flushed, closedDone, exited>>
  BY DEF elseThanCall, loopVars
<1>5. NextTicket \in Nat /\ Len(flushed) \in Nat /\ Closer \in Callers
  BY FlushedLen DEF WBInv, TypeOK, QueueType, NextTicket, Callers
<1>6. NeedClaimed'
  BY <1>1, <1>3, <1>5 DEF WBInv, TypeOK, NeedClaimed
<1>7. ServedWaits'
  <2> SUFFICES ASSUME NEW v \in Waiters,
                      \/ v \in closedDone \/ v = serving
                      \/ \E i \in 1 .. Len(syncCh) : syncCh[i] = v
               PROVE  wpc'[v] \in {"wait", "returned"}
    BY <1>4 DEF ServedWaits
  <2>1. v \in Callers /\ wpc[v] \in {"wait", "returned"}
    BY DEF Callers, WBInv, ServedWaits
  <2> QED BY <1>1, <2>1 DEF WBInv, TypeOK
<1>8. StopWaits'
  BY <1>1, <1>4, <1>5 DEF WBInv, TypeOK, StopWaits
<1>9. DoneFlushed'
  <2>1. closedDone \subseteq Callers
    BY DEF WBInv, TypeOK, Callers
  <2> QED BY <1>1, <1>4, <1>5, <2>1 DEF WBInv, TypeOK, DoneFlushed
<1> QED BY <1>3, <1>6, <1>7, <1>8, <1>9 DEF WBInv

\* The first call of Close.
LEMMA CloseCallInv ==
  ASSUME WBInv, CloseCall
  PROVE  WBInv'
<1>0. Closer \in Callers /\ Closer \notin Waiters /\ Owed \in Nat /\ Owed <= NextTicket
  BY OwedClaimed, BufferAssumption DEF WBInv, Callers
<1>1. /\ UNCHANGED <<elseThanCall, flushCh, syncCh>>
      /\ wpc[Closer] = "idle" /\ stopped' = TRUE
      /\ wpc' = [wpc EXCEPT ![Closer] = "wait"]
      /\ need' = [need EXCEPT ![Closer] = Owed]
  BY DEF CloseCall
<1>2. /\ wpc' \in [Callers -> {"idle", "select", "wait", "returned", "closed"}]
      /\ need' \in [Callers -> Nat]
  BY <1>0, <1>1 DEF WBInv, TypeOK
<1>3. /\ TypeOK' /\ LoopInv' /\ PushInv' /\ FlushedInOrder'
      /\ NextTicket' = NextTicket
  BY <1>1, <1>2, CallKeeps DEF WBInv, TypeOK
<1>4. UNCHANGED <<serving, flushed, closedDone, exited>>
  BY <1>1 DEF elseThanCall, loopVars
<1>5. NeedClaimed'
  BY <1>0, <1>1, <1>3 DEF WBInv, TypeOK, NeedClaimed
<1>6. ServedWaits'
  <2> SUFFICES ASSUME NEW v \in Waiters,
                      \/ v \in closedDone \/ v = serving
                      \/ \E i \in 1 .. Len(syncCh) : syncCh[i] = v
               PROVE  wpc'[v] \in {"wait", "returned"}
    BY <1>1, <1>4 DEF ServedWaits
  <2>1. v \in Callers /\ v # Closer /\ wpc[v] \in {"wait", "returned"}
    BY <1>0 DEF Callers, WBInv, ServedWaits
  <2> QED BY <1>1, <2>1 DEF WBInv, TypeOK
<1>7. StopWaits'
  BY <1>0, <1>1 DEF WBInv, TypeOK, StopWaits
<1>8. DoneFlushed'
  <2>1. closedDone \subseteq Waiters /\ closedDone \subseteq Callers /\ ~stopped /\ ~exited
    BY <1>1 DEF WBInv, TypeOK, Callers, StopWaits, DoneFlushed
  <2> QED BY <1>0, <1>1, <1>4, <2>1 DEF WBInv, TypeOK, DoneFlushed
<1> QED BY <1>3, <1>5, <1>6, <1>7, <1>8 DEF WBInv

LEMMA CallerInv ==
  ASSUME WBInv,
         \/ \E w \in Waiters : FlushSyncCall(w) \/ FlushSyncStep(w)
         \/ Flush \/ CloseCall \/ CloseReturn
  PROVE  WBInv'
<1>0. Waiters \subseteq Callers /\ Closer \in Callers
  BY DEF Callers
<1>1. ASSUME NEW w \in Waiters, FlushSyncStep(w) PROVE WBInv'
  <2>1. CASE FlushSyncSend(w)
    BY <2>1, FlushSyncSendInv
  <2>2. CASE FlushSyncClosed(w)
    BY <1>0, <2>2, ReturnInv DEF FlushSyncClosed
  <2>3. CASE FlushSyncReturn(w)
    BY <1>0, <2>3, ReturnInv DEF FlushSyncReturn
  <2> QED BY <1>1, <2>1, <2>2, <2>3 DEF FlushSyncStep
<1>2. CASE CloseReturn
  BY <1>0, <1>2, ReturnInv DEF CloseReturn
<1> QED BY <1>1, <1>2, FlushSyncCallInv, FlushInv, CloseCallInv
-----------------------------------------------------------------------------
LEMMA NextWBInv == WBInv /\ [Next]_vars => WBInv'
<1> SUFFICES ASSUME WBInv, [Next]_vars PROVE WBInv'
  OBVIOUS
<1>1. CASE UNCHANGED vars
  BY <1>1 DEF vars, queueVars, producerVars, loopVars, callerVars, WBInv, TypeOK,
     QueueType, NextTicket, Pending, LoopInv, PushInv, FlushedInOrder, NeedClaimed,
     ServedWaits, StopWaits, DoneFlushed
<1>2. CASE Next
  BY <1>2, ProducerInv, FlushLoopInv, CallerInv DEF Next
<1> QED BY <1>1, <1>2

\* The invariant the properties follow from.
THEOREM WriteBufferInvariant == Spec => []WBInv
BY InitWBInv, NextWBInv, PTL DEF Spec

\* The types of Push, flushLoop, FlushSync and Close.
THEOREM WriteBufferType == Spec => []TypeOK
<1>1. WBInv => TypeOK  BY DEF WBInv
<1> QED BY <1>1, WriteBufferInvariant, PTL

\* flushFn receives every accepted item once, in the order of the tickets.
THEOREM FlushOrder == Spec => []FlushedInOrder
<1>1. WBInv => FlushedInOrder  BY DEF WBInv
<1> QED BY <1>1, WriteBufferInvariant, PTL

\* A step in which a FlushSync or a Close returns.
LEMMA ReturnsFlushed ==
  ASSUME WBInv, [Next]_vars, NEW w \in Callers, wpc[w] # "returned", wpc'[w] = "returned"
  PROVE  need[w] <= Len(flushed)
<1>1. wpc' # wpc
  OBVIOUS
<1>2. wpc \in [Callers -> {"idle", "select", "wait", "returned", "closed"}]
  BY DEF WBInv, TypeOK
<1>3. ASSUME NEW p \in Producers, PushCall(p) \/ PushStep(p) PROVE FALSE
  BY <1>1, <1>3 DEF PushCall, PushStep, PushClaim, PushFull, PushPublish, PushLenTail,
     PushLenHead, elseThanPush, callerVars
<1>4. ASSUME FlushLoop PROVE FALSE
  BY <1>1, <1>4 DEF FlushLoop, SelectStop, SelectTick, SelectFlush, SelectSync, StartFlush,
     PopItem, FreeItem, PopEmpty, FlushFn, FlushAllCheck, elseThanLoop, callerVars
<1>5. ASSUME NEW v \in Waiters, FlushSyncCall(v) \/ FlushSyncSend(v) \/ FlushSyncClosed(v)
      PROVE  FALSE
  <2>1. v \in Callers  BY DEF Callers
  <2> QED BY <1>2, <1>5, <2>1 DEF FlushSyncCall, FlushSyncSend, FlushSyncClosed, Return
<1>6. ASSUME NEW v \in Waiters, FlushSyncReturn(v) PROVE need[w] <= Len(flushed)
  <2>1. v \in Callers  BY DEF Callers
  <2>2. w = v /\ v \in closedDone
    BY <1>2, <1>6, <2>1 DEF FlushSyncReturn, Return
  <2> QED BY <2>2 DEF WBInv, DoneFlushed
<1>7. ASSUME Flush \/ CloseCall PROVE FALSE
  BY <1>1, <1>2, <1>7 DEF Flush, CloseCall, callerVars, Callers
<1>8. ASSUME CloseReturn PROVE need[w] <= Len(flushed)
  <2>1. w = Closer /\ exited
    BY <1>2, <1>8 DEF CloseReturn, Return, Callers
  <2> QED BY <2>1 DEF WBInv, DoneFlushed
<1>9. ~UNCHANGED vars
  BY <1>1 DEF vars, callerVars
<1> QED BY <1>3, <1>4, <1>5, <1>6, <1>7, <1>8, <1>9 DEF Next, FlushSyncStep

\* FlushSync and Close return only when flushFn has been given everything that
\* was published when they were called.
THEOREM ReturnsAfterFlush == Spec => FlushedBeforeReturn
<1>1. WBInv /\ [Next]_vars =>
        [\A w \in Callers : wpc[w] # "returned" /\ wpc'[w] = "returned" =>
           need[w] <= Len(flushed)]_vars
  BY ReturnsFlushed
<1> QED BY <1>1, WriteBufferInvariant, PTL DEF Spec, FlushedBeforeReturn
=============================================================================
