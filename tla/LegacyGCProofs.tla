--------------------------- MODULE LegacyGCProofs ---------------------------
(***************************************************************************)
(* Proofs about LegacyGC, for any number of keys, clients and calls and    *)
(* any TTLs.                                                               *)
(*                                                                         *)
(* The argument: a key that is not raced has one call at most that works   *)
(* on it.  What is left of that call says what may be wrong with the key   *)
(* for the moment (Mid); when nothing is left the item is scheduled no     *)
(* earlier than its ExpireAt, or is about to be flushed (Kept).  The loop  *)
(* itself only takes a key off the heap to flush it.                       *)
(***************************************************************************)
EXTENDS LegacyGC, SequenceTheorems, FiniteSetTheorems, NaturalsInduction, TLAPS

-----------------------------------------------------------------------------
(* The inductive invariant.                                                *)

TruncateOps == {"TruncateShard", "TruncateHeap"}

\* What can be left of a call.
IsCall(q) ==
  Len(q) > 0 =>
    /\ q[1].op \notin TruncateOps => \A i \in 1 .. Len(q) : q[i].key = q[1].key
    /\ q[1].op \notin TruncateOps => q[1].key \in Keys
    /\ q[1].op = "InsertItem" =>
         /\ Len(q) = 2
         /\ \/ q[2].op = "Expired" /\ q[2].t \in TTLs \ {0} /\ q[1].t <= now + q[2].t
            \/ q[2].op = "RemoveKey" /\ q[1].t = 0
    /\ q[1].op = "Delete" => Len(q) = 2 /\ q[2].op = "RemoveKey"
    /\ q[1].op \in {"Expired", "Schedule", "SignalWakeUp", "RemoveKey"} => Len(q) = 1
    /\ q[1].op = "Expired" => q[1].t \in TTLs \ {0}
    /\ q[1].op = "Schedule" => q[1].t \in 1 .. now + Max(TTLs)
    /\ q[1].op \in TruncateOps =>
         /\ q[Len(q)].op = "TruncateHeap" /\ q[Len(q)].key = AnyKey
         /\ \A i \in 1 .. Len(q) - 1 : q[i].op = "TruncateShard" /\ q[i].key \in Keys

CallInv ==
  /\ DOMAIN todo = Clients
  /\ \A a \in Clients : IsCall(todo[a])

\* Two calls work on one key only if it is raced.
AloneInv ==
  \A k \in Keys \ raced : \A a, b \in Clients :
    a # b => ~(Works(todo[a], k) /\ Works(todo[b], k))

LoopInv ==
  /\ pc # "flush" => flush = <<>>
  /\ DOMAIN heap = {} => heap = <<>>

\* The item of k, if it is to expire, is scheduled or about to be flushed.
Kept(k) ==
  k \in DOMAIN items \ tied /\ items[k] > 0 =>
    \/ k \in DOMAIN heap /\ heap[k] >= items[k]
    \/ k \in ToSet(flush) /\ nowNano >= items[k]

\* What holds of key k in the middle of a call of which q is left.
Mid(q, k) ==
  /\ q[1].op = "Expired" => (k \in DOMAIN items => items[k] <= now + q[1].t)
  /\ q[1].op = "Schedule" => (k \in DOMAIN items => items[k] <= q[1].t)
  /\ q[1].op = "SignalWakeUp" => Kept(k)
  /\ q[1].op = "RemoveKey" => (k \in DOMAIN items => items[k] = 0)
  /\ q[1].op \in TruncateOps =>
       k \notin DOMAIN items \/ \E i \in 1 .. Len(q) - 1 : q[i].key = k

ItemInv ==
  \A k \in Keys \ raced :
    /\ \A a \in Clients : Works(todo[a], k) => Mid(todo[a], k)
    /\ ~Working(k) => Kept(k)

LegacyInv ==
  TypeOK /\ CallInv /\ AloneInv /\ LoopInv /\ NeverOversleeps /\ ItemInv

-----------------------------------------------------------------------------
(* Lists.                                                                  *)

LEMMA OneElement ==
  ASSUME NEW S, NEW s \in S
  PROVE  /\ <<s>> \in Seq(S) /\ Len(<<s>>) = 1 /\ <<s>>[1] = s /\ <<s>> # <<>>
         /\ <<s>> \o <<>> = <<s>> /\ Head(<<s>>) = s
<1>1. <<s>> \in Seq(S) /\ Len(<<s>>) = 1 /\ <<s>>[1] = s /\ <<s>> # <<>>
  OBVIOUS
<1>2. PICK q : q = <<s>>
  OBVIOUS
<1>3. q \in Seq(S)
  BY <1>1, <1>2
<1>4. q \o <<>> = q
  BY <1>3, ConcatEmptySeq
<1>5. Head(q) = q[1]
  BY <1>3
<1> QED BY <1>1, <1>2, <1>4, <1>5

LEMMA TwoElements ==
  ASSUME NEW S, NEW s \in S, NEW u \in S
  PROVE  /\ <<s, u>> \in Seq(S) /\ Len(<<s, u>>) = 2
         /\ <<s, u>>[1] = s /\ <<s, u>>[2] = u
OBVIOUS

\* The head and the tail of a list, by index.
LEMMA HeadAndTail ==
  ASSUME NEW S, NEW q \in Seq(S), q # <<>>
  PROVE  /\ Len(q) \in Nat \ {0} /\ Head(q) = q[1] /\ Head(q) \in S
         /\ DOMAIN q = 1 .. Len(q) /\ \A i \in 1 .. Len(q) : q[i] \in S
         /\ Tail(q) \in Seq(S) /\ Len(Tail(q)) = Len(q) - 1
         /\ \A i \in 1 .. Len(q) - 1 : Tail(q)[i] = q[i + 1]
         /\ Len(q) = 1 => Tail(q) = <<>>
<1>1. Len(q) \in Nat /\ Len(q) # 0
  BY EmptySeq, LenProperties
<1>2. /\ Head(q) \in S /\ Tail(q) \in Seq(S) /\ Len(Tail(q)) = Len(q) - 1
      /\ \A i \in 1 .. Len(Tail(q)) : Tail(q)[i] = q[i + 1]
  BY HeadTailProperties
<1>3. Head(q) = q[1]
  OBVIOUS
<1>4. DOMAIN q = 1 .. Len(q) /\ \A i \in 1 .. Len(q) : q[i] \in S
  BY LenProperties, ElementOfSeq
<1>5. Len(q) = 1 => Tail(q) = <<>>
  <2>1. PICK r : r = Tail(q)
    OBVIOUS
  <2>2. r \in Seq(S) /\ Len(r) = Len(q) - 1
    BY <1>2, <2>1
  <2>3. Len(q) = 1 => Len(r) = 0
    BY <2>2
  <2>4. Len(r) = 0 => r = <<>>
    BY <2>2, EmptySeq
  <2> QED BY <2>1, <2>3, <2>4
<1> QED BY <1>1, <1>2, <1>3, <1>4, <1>5

\* What is to be flushed after the key at the head.
LEMMA FlushRest ==
  ASSUME NEW S, NEW q \in Seq(S), q # <<>>
  PROVE  ToSet(q) \subseteq {Head(q)} \cup ToSet(Tail(q))
<1>1. /\ Len(q) \in Nat \ {0} /\ Head(q) = q[1] /\ DOMAIN q = 1 .. Len(q)
      /\ Tail(q) \in Seq(S) /\ Len(Tail(q)) = Len(q) - 1
      /\ \A i \in 1 .. Len(q) - 1 : Tail(q)[i] = q[i + 1]
  BY HeadAndTail
<1>2. DOMAIN Tail(q) = 1 .. Len(q) - 1
  BY <1>1, LenProperties
<1>3. ASSUME NEW i \in 1 .. Len(q)
      PROVE  q[i] = Head(q) \/ q[i] \in ToSet(Tail(q))
  <2>1. CASE i = 1
    BY <1>1, <2>1
  <2>2. CASE i # 1
    <3>1. i - 1 \in 1 .. Len(q) - 1 /\ (i - 1) + 1 = i
      BY <1>1, <2>2
    <3>2. Tail(q)[i - 1] = q[i]
      BY <1>1, <3>1
    <3> QED BY <1>2, <3>1, <3>2 DEF ToSet
  <2> QED BY <2>1, <2>2
<1> QED BY <1>1, <1>3 DEF ToSet

\* A sequence of the elements of a finite set.
LEMMA Listing ==
  ASSUME NEW S, IsFiniteSet(S), NEW f \in SetToSeqs(S)
  PROVE  /\ f \in Seq(S) /\ ToSet(f) = S /\ DOMAIN f = 1 .. Len(f)
         /\ \A i \in DOMAIN f : f[i] \in S
<1> DEFINE n == Cardinality(S)
<1>1. /\ n \in Nat /\ f \in [1 .. n -> S]
      /\ \A i, j \in 1 .. n : i # j => f[i] # f[j]
  BY FS_CardinalityType DEF SetToSeqs
<1>2. f \in Seq(S) /\ Len(f) = n
  BY <1>1
<1>3. f \in Injection(1 .. n, S)
  BY <1>1 DEF Injection, IsInjective
<1>4. IsFiniteSet(1 .. n) /\ Cardinality(1 .. n) = n
  BY <1>1, FS_Interval
<1>5. f \in Surjection(1 .. n, S)
  BY <1>3, <1>4, FS_Injection
<1>6. \A x \in S : \E i \in 1 .. n : f[i] = x
  BY <1>5 DEF Surjection
<1> QED BY <1>1, <1>2, <1>6 DEF ToSet

-----------------------------------------------------------------------------
(* The heap.                                                               *)

\* The longest TTL.
LEMMA LongestTTL == Max(TTLs) \in Nat /\ \A ttl \in TTLs : ttl <= Max(TTLs)
<1>1. \E m \in TTLs : \A u \in TTLs : m >= u
  BY LegacyAssumption
<1>2. Max(TTLs) \in TTLs /\ \A u \in TTLs : Max(TTLs) >= u
  BY <1>1 DEF Max
<1> QED BY <1>2, LegacyAssumption

\* The order of the times as a relation.
Less == {pair \in Nat \X Nat : pair[1] < pair[2]}

\* A heap of times has a root.
LEMMA HeapRoot ==
  ASSUME NEW h, \A k \in DOMAIN h : h[k] \in Nat, DOMAIN h # {}
  PROVE  \E k \in DOMAIN h : k \in Earliest(h)
<1> DEFINE times == {h[k] : k \in DOMAIN h}
<1>1. IsWellFoundedOn(Less, Nat)
  <2>1. OpToRel(<, Nat) = Less
    BY DEF OpToRel, Less
  <2> QED BY <2>1, NatLessThanWellFounded
<1>2. times \in SUBSET Nat /\ times # {}
  OBVIOUS
<1>3. PICK m \in times : \A n \in times : <<n, m>> \notin Less
  <2> HIDE DEF times
  <2> QED BY <1>1, <1>2, WFMin
<1>4. PICK k \in DOMAIN h : m = h[k]
  BY <1>3
<1>5. ASSUME NEW j \in DOMAIN h PROVE h[k] <= h[j]
  <2>1. h[j] \in Nat /\ h[k] \in Nat /\ <<h[j], h[k]>> \notin Less
    BY <1>3, <1>4
  <2>2. ~(h[j] < h[k])
    BY <2>1 DEF Less
  <2> QED BY <2>1, <2>2
<1> QED BY <1>5 DEF Earliest

\* Arm's choice of the root.
LEMMA ChosenRoot ==
  ASSUME NEW h, \A k \in DOMAIN h : h[k] \in Nat, DOMAIN h # {}
  PROVE  LET k == CHOOSE k \in Earliest(h) : TRUE
         IN  k \in DOMAIN h /\ \A j \in DOMAIN h : h[k] <= h[j]
<1>1. Earliest(h) # {}
  BY HeapRoot
<1> QED BY <1>1 DEF Earliest

-----------------------------------------------------------------------------
(* Calls.                                                                  *)

\* A call that does not truncate works on one key, Truncate on all of them.
LEMMA CallKey ==
  ASSUME NEW q \in Seq(Steps), IsCall(q), q # <<>>, NEW k \in Keys
  PROVE  /\ q[1].op \notin TruncateOps => (Works(q, k) <=> k = q[1].key)
         /\ q[1].op \in TruncateOps => Works(q, k)
<1>1. Len(q) \in Nat \ {0} /\ DOMAIN q = 1 .. Len(q)
  BY HeadAndTail
<1>2. CASE q[1].op \notin TruncateOps
  <2>1. q[1].key \in Keys /\ \A i \in 1 .. Len(q) : q[i].key = q[1].key
    BY <1>1, <1>2 DEF IsCall
  <2>2. AnyKey \notin Keys /\ 1 \in 1 .. Len(q)
    BY <1>1, LegacyAssumption
  <2> QED BY <1>1, <1>2, <2>1, <2>2 DEF Works
<1>3. CASE q[1].op \in TruncateOps
  <2>1. q[Len(q)].key = AnyKey
    BY <1>1, <1>3 DEF IsCall
  <2>2. Len(q) \in DOMAIN q
    BY <1>1
  <2> QED BY <1>3, <2>1, <2>2 DEF Works
<1> QED BY <1>2, <1>3

LEMMA IdleWorks ==
  ASSUME NEW k
  PROVE  ~Works(<<>>, k) /\ IsCall(<<>>)
<1>1. Len(<<>>) = 0 /\ DOMAIN <<>> = {}
  BY EmptySeq
<1> QED BY <1>1 DEF Works, IsCall

\* What is left of a call after its first section.
LEMMA CallTail ==
  ASSUME NEW q \in Seq(Steps), IsCall(q), q # <<>>
  PROVE  /\ Tail(q) \in Seq(Steps) /\ IsCall(Tail(q))
         /\ \A k : Works(Tail(q), k) => Works(q, k)
<1>1. PICK r : r = Tail(q)
  OBVIOUS
<1>2. /\ Len(q) \in Nat \ {0} /\ DOMAIN q = 1 .. Len(q) /\ \A i \in 1 .. Len(q) : q[i] \in Steps
      /\ r \in Seq(Steps) /\ Len(r) = Len(q) - 1
      /\ \A i \in 1 .. Len(q) - 1 : r[i] = q[i + 1]
  BY <1>1, HeadAndTail
<1>3. DOMAIN r = 1 .. Len(q) - 1
  BY <1>2, LenProperties
<1>4. \A k : Works(r, k) => Works(q, k)
  <2> SUFFICES ASSUME NEW k, NEW i \in 1 .. Len(q) - 1, r[i].key \in {k, AnyKey}
               PROVE  \E j \in 1 .. Len(q) : q[j].key \in {k, AnyKey}
    BY <1>2, <1>3 DEF Works
  <2>1. i + 1 \in 1 .. Len(q) /\ q[i + 1] = r[i]
    BY <1>2
  <2> QED BY <2>1
<1>5. q[1].op \in Ops
  BY <1>2 DEF Steps
<1>6. IsCall(r)
  <2>1. CASE q[1].op \in {"InsertItem", "Delete"}
    <3>1. Len(r) = 1 /\ r[1] = q[2] /\ q[2].key = q[1].key /\ q[1].key \in Keys
      <4>1. Len(q) = 2
        BY <1>2, <2>1 DEF IsCall
      <4>2. q[1].op \notin TruncateOps
        BY <2>1 DEF TruncateOps
      <4>3. 2 \in 1 .. Len(q) /\ Len(q) > 0
        BY <4>1
      <4>4. q[2].key = q[1].key /\ q[1].key \in Keys
        BY <4>2, <4>3 DEF IsCall
      <4> QED BY <1>2, <4>1, <4>4
    <3>2. r[1].op = "RemoveKey" \/ (r[1].op = "Expired" /\ r[1].t \in TTLs \ {0})
      BY <1>2, <2>1, <3>1 DEF IsCall
    <3>3. \A i \in 1 .. Len(r) : i = 1
      BY <3>1
    <3> QED BY <3>1, <3>2, <3>3 DEF IsCall, TruncateOps
  <2>2. CASE q[1].op \in {"Expired", "Schedule", "SignalWakeUp", "RemoveKey"}
    <3>1. Len(r) = 0
      BY <1>2, <2>2 DEF IsCall
    <3> QED BY <3>1 DEF IsCall
  <2>3. CASE q[1].op \in TruncateOps
    <3>1. /\ q[Len(q)].op = "TruncateHeap" /\ q[Len(q)].key = AnyKey
          /\ \A i \in 1 .. Len(q) - 1 : q[i].op = "TruncateShard" /\ q[i].key \in Keys
      BY <1>2, <2>3 DEF IsCall
    <3> SUFFICES ASSUME Len(r) > 0 PROVE IsCall(r)
      BY DEF IsCall
    <3>2. Len(q) - 1 \in 1 .. Len(q) - 1 /\ Len(r) = Len(q) - 1 /\ (Len(q) - 1) + 1 = Len(q)
      BY <1>2
    <3>3. r[Len(r)] = q[Len(q)]
      BY <1>2, <3>2
    <3>4. ASSUME NEW i \in 1 .. Len(r) - 1
          PROVE  r[i].op = "TruncateShard" /\ r[i].key \in Keys
      <4>1. i \in 1 .. Len(q) - 1 /\ i + 1 \in 1 .. Len(q) - 1
        BY <1>2
      <4> QED BY <1>2, <3>1, <4>1
    <3>5. r[1].op \in TruncateOps
      <4>1. CASE Len(r) = 1
        BY <3>1, <3>3, <4>1 DEF TruncateOps
      <4>2. CASE Len(r) # 1
        <5>1. 1 \in 1 .. Len(r) - 1
          BY <1>2, <3>2, <4>2
        <5> QED BY <3>4, <5>1 DEF TruncateOps
      <4> QED BY <4>1, <4>2
    <3>6. r[1].op \notin {"InsertItem", "Delete", "Expired", "Schedule", "SignalWakeUp", "RemoveKey"}
      BY <3>5 DEF TruncateOps
    <3> QED BY <3>1, <3>3, <3>4, <3>5, <3>6 DEF IsCall
  <2> QED BY <1>5, <2>1, <2>2, <2>3 DEF Ops, TruncateOps
<1> QED BY <1>1, <1>2, <1>4, <1>6

\* A call stays a call as the clock goes on.
LEMMA CallLater ==
  ASSUME NEW q \in Seq(Steps), IsCall(q), now \in Nat, now' \in Nat, now <= now'
  PROVE  IsCall(q)'
<1> SUFFICES ASSUME Len(q) > 0 PROVE IsCall(q)'
  BY DEF IsCall
<1>1. q # <<>>
  BY EmptySeq
<1>2. Len(q) \in Nat \ {0} /\ \A i \in 1 .. Len(q) : q[i] \in Steps
  BY <1>1, HeadAndTail
<1>3. q[1].t \in Nat
  BY <1>2 DEF Steps
<1>4. Max(TTLs) \in Nat
  BY LongestTTL
<1>5. q[1].op = "InsertItem" => q[2].t \in Nat
  <2>1. Len(q) = 2 => q[2] \in Steps
    BY <1>2
  <2> QED BY <2>1 DEF IsCall, Steps
<1>6. q[1].op = "InsertItem" =>
         /\ Len(q) = 2
         /\ \/ q[2].op = "Expired" /\ q[2].t \in TTLs \ {0} /\ q[1].t <= now' + q[2].t
            \/ q[2].op = "RemoveKey" /\ q[1].t = 0
  BY <1>3, <1>5 DEF IsCall
<1>7. q[1].op = "Schedule" => q[1].t \in 1 .. now' + Max(TTLs)
  BY <1>3, <1>4 DEF IsCall
<1> QED BY <1>6, <1>7 DEF IsCall

\* The next list of a client whose section says what is to follow.
LEMMA SectionTodo ==
  ASSUME TypeOK, CallInv, NEW a \in Clients, ~Idle(a)
  PROVE  /\ todo[a] \in Seq(Steps) /\ todo[a] # <<>> /\ IsCall(todo[a])
         /\ Head(todo[a]) = todo[a][1] /\ Head(todo[a]) \in Steps
         /\ Then(a, <<>>) => todo' = [todo EXCEPT ![a] = Tail(todo[a])]
         /\ Len(todo[a]) = 1 =>
              \A s \in Steps : Then(a, <<s>>) => todo' = [todo EXCEPT ![a] = <<s>>]
<1>1. todo[a] \in Seq(Steps) /\ todo[a] # <<>> /\ IsCall(todo[a])
  BY DEF TypeOK, CallInv, Idle
<1>2. PICK q : q = todo[a]
  OBVIOUS
<1>3. /\ Head(q) = q[1] /\ Head(q) \in Steps /\ Tail(q) \in Seq(Steps)
      /\ Len(q) = 1 => Tail(q) = <<>>
  BY <1>1, <1>2, HeadAndTail
<1>4. <<>> \o Tail(q) = Tail(q)
  BY <1>3, ConcatEmptySeq
<1>5. Then(a, <<>>) => todo' = [todo EXCEPT ![a] = Tail(q)]
  BY <1>2, <1>4 DEF Then
<1>6. ASSUME Len(q) = 1, NEW s \in Steps, Then(a, <<s>>)
      PROVE  todo' = [todo EXCEPT ![a] = <<s>>]
  <2>1. <<s>> \o Tail(q) = <<s>>
    BY <1>3, <1>6, OneElement
  <2> QED BY <1>2, <1>6, <2>1 DEF Then
<1> QED BY <1>1, <1>2, <1>3, <1>5, <1>6
-----------------------------------------------------------------------------
(* What a step that leaves a key alone keeps of it.                        *)

\* The item of k stays or goes, and stays scheduled.
Undisturbed(k) ==
  /\ k \in DOMAIN items' => k \in DOMAIN items /\ items'[k] = items[k]
  /\ Kept(k) => Kept(k)'

LEMMA ItemTypes ==
  ASSUME TypeOK
  PROVE  /\ now \in Nat /\ Max(TTLs) \in Nat
         /\ \A k \in DOMAIN items : items[k] \in Nat
         /\ \A k \in DOMAIN heap : heap[k] \in Nat /\ heap[k] > 0
         /\ nowNano \in Nat
<1>1. now \in Nat
  BY DEF TypeOK
<1> QED BY <1>1, LongestTTL DEF TypeOK

LEMMA MidSame ==
  ASSUME TypeOK, NEW q \in Seq(Steps), q # <<>>, NEW k, Mid(q, k), Undisturbed(k),
         now' \in Nat, now <= now'
  PROVE  Mid(q, k)'
<1>1. q[1] \in Steps
  BY HeadAndTail
<1>2. q[1].t \in Nat
  BY <1>1 DEF Steps
<1>3. now \in Nat /\ \A j \in DOMAIN items : items[j] \in Nat
  BY ItemTypes
<1> QED BY <1>2, <1>3 DEF Mid, Undisturbed

\* Every step of Next says which keys are raced now.
LEMMA AloneStep ==
  ASSUME Observe
  PROVE  AloneInv' /\ raced \subseteq raced'
BY DEF Observe, AloneInv

\* A step of the loop or of the clock.
LEMMA LoopStep ==
  ASSUME LegacyInv, Observe, UNCHANGED todo, now' \in Nat, now <= now',
         \A k \in Keys \ raced : Undisturbed(k)
  PROVE  CallInv' /\ AloneInv' /\ ItemInv'
<1> USE DEF LegacyInv
<1>1. AloneInv' /\ raced \subseteq raced'
  BY AloneStep
<1>2. now \in Nat
  BY ItemTypes
<1>3. CallInv'
  <2>1. ASSUME NEW a \in Clients PROVE IsCall(todo[a])'
    <3>1. PICK q : q = todo[a]
      OBVIOUS
    <3>2. q \in Seq(Steps) /\ IsCall(q)
      BY <3>1 DEF TypeOK, CallInv
    <3>3. IsCall(q)'
      BY <1>2, <3>2, CallLater
    <3> QED BY <3>1, <3>3
  <2> QED BY <2>1 DEF CallInv
<1>4. ItemInv'
  <2> SUFFICES ASSUME NEW k \in Keys \ raced
               PROVE  /\ \A a \in Clients : Works(todo[a], k) => Mid(todo[a], k)'
                      /\ ~Working(k) => Kept(k)'
    BY <1>1 DEF ItemInv, Working
  <2>1. Undisturbed(k)
    OBVIOUS
  <2>2. ASSUME NEW a \in Clients, Works(todo[a], k) PROVE Mid(todo[a], k)'
    <3>1. PICK q : q = todo[a]
      OBVIOUS
    <3>2. q \in Seq(Steps) /\ q # <<>> /\ Mid(q, k)
      BY <2>2, <3>1, IdleWorks DEF TypeOK, ItemInv
    <3>3. Mid(q, k)'
      BY <2>1, <3>2, MidSame
    <3> QED BY <3>1, <3>3
  <2>3. ~Working(k) => Kept(k)'
    BY <2>1 DEF ItemInv, Undisturbed
  <2> QED BY <2>2, <2>3
<1> QED BY <1>1, <1>3, <1>4

\* A section of client a's call, of which q is left then.
LEMMA SectionStep ==
  ASSUME LegacyInv, Observe, NEW a \in Clients, ~Idle(a), UNCHANGED now,
         NEW q \in Seq(Steps), IsCall(q), todo' = [todo EXCEPT ![a] = q],
         \A k \in Keys : Works(q, k) => Works(todo[a], k),
         \A k \in Keys \ raced : Works(todo[a], k) =>
           /\ Works(q, k) => Mid(q, k)'
           /\ ~Works(q, k) => Kept(k)',
         \A k \in Keys \ raced : ~Works(todo[a], k) => Undisturbed(k)
  PROVE  CallInv' /\ AloneInv' /\ ItemInv'
<1> USE DEF LegacyInv
<1>1. AloneInv' /\ raced \subseteq raced'
  BY AloneStep
<1>2. now \in Nat /\ now <= now' /\ now' \in Nat
  <2>1. now \in Nat
    BY ItemTypes
  <2> QED BY <2>1
<1>3. DOMAIN todo' = Clients /\ todo'[a] = q /\ \A b \in Clients \ {a} : todo'[b] = todo[b]
  BY DEF CallInv
<1>4. CallInv'
  <2>1. ASSUME NEW b \in Clients PROVE IsCall(todo[b])'
    <3>1. PICK r : r = todo'[b]
      OBVIOUS
    <3>2. r \in Seq(Steps) /\ IsCall(r)
      BY <1>3, <3>1 DEF TypeOK, CallInv
    <3>3. IsCall(r)'
      BY <1>2, <3>2, CallLater
    <3> QED BY <3>1, <3>3
  <2> QED BY <2>1, <1>3 DEF CallInv
<1>5. ItemInv'
  <2> SUFFICES ASSUME NEW k \in Keys \ raced
               PROVE  /\ \A b \in Clients : Works(todo'[b], k) => Mid(todo[b], k)'
                      /\ (\A b \in Clients : ~Works(todo'[b], k)) => Kept(k)'
    BY <1>1 DEF ItemInv, Working, Works
  <2>1. CASE Works(todo[a], k)
    <3>1. \A b \in Clients \ {a} : ~Works(todo[b], k)
      BY <2>1 DEF AloneInv
    <3>2. \A b \in Clients \ {a} : ~Works(todo'[b], k)
      BY <1>3, <3>1
    <3>3. Works(q, k) => Mid(todo[a], k)'
      <4>1. Works(q, k) => Mid(q, k)'
        BY <2>1
      <4> QED BY <1>3, <4>1
    <3>4. ~Works(q, k) => Kept(k)'
      BY <2>1
    <3> QED BY <1>3, <3>2, <3>3, <3>4
  <2>2. CASE ~Works(todo[a], k)
    <3>1. Undisturbed(k) /\ ~Works(q, k)
      BY <2>2
    <3>2. ASSUME NEW b \in Clients, Works(todo'[b], k) PROVE Mid(todo[b], k)'
      <4>1. PICK r : r = todo'[b]
        OBVIOUS
      <4>2. b # a /\ r = todo[b]
        BY <1>3, <3>1, <3>2, <4>1
      <4>3. r \in Seq(Steps) /\ r # <<>> /\ Mid(r, k)
        BY <3>2, <4>1, <4>2, IdleWorks DEF TypeOK, ItemInv
      <4>4. Mid(r, k)'
        BY <1>2, <3>1, <4>3, MidSame
      <4> QED BY <4>1, <4>4
    <3>3. ASSUME \A b \in Clients : ~Works(todo'[b], k) PROVE Kept(k)'
      <4>1. ~Working(k)
        BY <1>3, <2>2, <3>3 DEF Working
      <4> QED BY <3>1, <4>1 DEF ItemInv, Undisturbed
    <3> QED BY <3>2, <3>3
  <2> QED BY <2>1, <2>2
<1> QED BY <1>1, <1>4, <1>5

\* A section that ends with what is left of the call.
LEMMA SectionDone ==
  ASSUME LegacyInv, Observe, NEW a \in Clients, ~Idle(a), UNCHANGED now, Then(a, <<>>),
         NEW r, r = Tail(todo[a]),
         \A k \in Keys \ raced : Works(todo[a], k) =>
           /\ Works(r, k) => Mid(r, k)'
           /\ ~Works(r, k) => Kept(k)',
         \A k \in Keys \ raced : ~Works(todo[a], k) => Undisturbed(k)
  PROVE  CallInv' /\ AloneInv' /\ ItemInv' /\ \A b \in Clients : todo'[b] \in Seq(Steps)
<1>1. /\ todo[a] \in Seq(Steps) /\ todo[a] # <<>> /\ IsCall(todo[a])
      /\ todo' = [todo EXCEPT ![a] = r]
  BY SectionTodo DEF LegacyInv
<1>2. r \in Seq(Steps) /\ IsCall(r) /\ \A k : Works(r, k) => Works(todo[a], k)
  BY <1>1, CallTail
<1>3. \A b \in Clients : todo'[b] \in Seq(Steps)
  BY <1>1, <1>2 DEF LegacyInv, TypeOK, CallInv
<1> QED BY <1>1, <1>2, <1>3, SectionStep


\* A step that leaves the loop asleep, adds nothing to the heap and takes no
\* wake-up away.
LEMMA SleepSame ==
  ASSUME NeverOversleeps, UNCHANGED <<pc, timer, wake>>,
         heap' # <<>> => heap # <<>>,
         \A k \in DOMAIN heap' : k \in DOMAIN heap /\ heap'[k] = heap[k],
         \A b \in Clients : Doing(b, "SignalWakeUp") => Doing(b, "SignalWakeUp")'
  PROVE  NeverOversleeps'
BY DEF NeverOversleeps

\* A section of a call that is not the sending of a wake-up.
LEMMA OthersSignal ==
  ASSUME CallInv, NEW a \in Clients, ~Doing(a, "SignalWakeUp"),
         NEW q, todo' = [todo EXCEPT ![a] = q]
  PROVE  \A b \in Clients : Doing(b, "SignalWakeUp") => Doing(b, "SignalWakeUp")'
<1> SUFFICES ASSUME NEW b \in Clients, Doing(b, "SignalWakeUp")
             PROVE  Doing(b, "SignalWakeUp")'
  OBVIOUS
<1>1. b # a
  OBVIOUS
<1>2. todo'[b] = todo[b]
  BY <1>1 DEF CallInv
<1> QED BY <1>2 DEF Doing, Idle

\* A call that begins.
LEMMA CallStep ==
  ASSUME LegacyInv, Observe, NEW a \in Clients, NEW q \in Seq(Steps), IsCall(q), Call(a, q),
         cancelled' \in BOOLEAN, \A k \in Keys : Works(q, k) => Mid(q, k)
  PROVE  LegacyInv'
<1> USE DEF LegacyInv
<1>1. AloneInv' /\ raced \subseteq raced'
  BY AloneStep
<1>2. DOMAIN todo' = Clients /\ todo'[a] = q /\ \A b \in Clients \ {a} : todo'[b] = todo[b]
  BY DEF CallInv, Call
<1>3. todo[a] = <<>> /\ \A k : ~Works(todo[a], k)
  BY IdleWorks DEF Call, Idle
<1>4. TypeOK'
  <2>1. calls' \in 0 .. MaxCalls
    BY LegacyAssumption DEF TypeOK, Call
  <2>2. raced' \subseteq Keys
    BY DEF Observe, TypeOK
  <2>3. \A b \in Clients : todo'[b] \in Seq(Steps)
    BY <1>2 DEF TypeOK
  <2> QED BY <2>1, <2>2, <2>3 DEF TypeOK, Call, loop
<1>5. CallInv'
  <2>1. ASSUME NEW b \in Clients PROVE IsCall(todo[b])'
    <3>1. PICK r : r = todo'[b]
      OBVIOUS
    <3>2. IsCall(r)
      BY <1>2, <3>1 DEF CallInv
    <3>3. IsCall(r)'
      BY <3>2 DEF IsCall, Call
    <3> QED BY <3>1, <3>3
  <2> QED BY <2>1, <1>2 DEF CallInv
<1>6. LoopInv'
  BY DEF LoopInv, Call, loop
<1>7. NeverOversleeps'
  <2>1. ~Doing(a, "SignalWakeUp")
    BY DEF Doing, Call
  <2>2. todo' = [todo EXCEPT ![a] = q]
    BY DEF Call
  <2>3. \A b \in Clients : Doing(b, "SignalWakeUp") => Doing(b, "SignalWakeUp")'
    BY <2>1, <2>2, OthersSignal
  <2>4. UNCHANGED <<pc, timer, wake, heap>>
    BY DEF Call, loop
  <2> QED BY <2>3, <2>4, SleepSame
<1>8. ItemInv'
  <2>0. UNCHANGED <<items, heap, flush, nowNano, now, tied>>
    BY DEF Call, loop
  <2>1. ASSUME NEW k PROVE Kept(k)' = Kept(k)
    BY <2>0 DEF Kept
  <2> SUFFICES ASSUME NEW k \in Keys \ raced
               PROVE  /\ \A b \in Clients : Works(todo'[b], k) => Mid(todo[b], k)'
                      /\ (\A b \in Clients : ~Works(todo'[b], k)) => Kept(k)'
    BY <1>1 DEF ItemInv, Working, Works
  <2>2. ASSUME NEW b \in Clients, Works(todo'[b], k) PROVE Mid(todo[b], k)'
    <3>1. PICK r : r = todo'[b]
      OBVIOUS
    <3>2. Mid(r, k)
      BY <1>2, <2>2, <3>1 DEF ItemInv
    <3>3. Mid(r, k)'
      BY <2>0, <2>1, <3>2 DEF Mid
    <3> QED BY <3>1, <3>3
  <2>3. ASSUME \A b \in Clients : ~Works(todo'[b], k) PROVE Kept(k)'
    <3>1. ~Working(k)
      BY <1>2, <1>3, <2>3 DEF Working
    <3> QED BY <2>1, <3>1 DEF ItemInv
  <2> QED BY <2>2, <2>3
<1> QED BY <1>1, <1>4, <1>5, <1>6, <1>7, <1>8

\* A critical section of a call.
LEMMA StepType ==
  ASSUME NEW o \in Ops, NEW k \in Keys \cup {AnyKey}, NEW t \in Nat
  PROVE  /\ Step(o, k, t) \in Steps /\ Step(o, k, t).op = o
         /\ Step(o, k, t).key = k /\ Step(o, k, t).t = t
BY DEF Step, Steps

\* A call of two sections on one key begins.
LEMMA PairCall ==
  ASSUME LegacyInv, Observe, NEW a \in Clients, NEW s \in Steps, NEW u \in Steps,
         s.key \in Keys, u.key = s.key,
         \/ /\ s.op = "InsertItem"
            /\ \/ u.op = "Expired" /\ u.t \in TTLs \ {0} /\ s.t <= now + u.t
               \/ u.op = "RemoveKey" /\ s.t = 0
         \/ s.op = "Delete" /\ u.op = "RemoveKey",
         Call(a, <<s, u>>), UNCHANGED cancelled
  PROVE  LegacyInv'
<1>1. PICK q : q = <<s, u>>
  OBVIOUS
<1>2. q \in Seq(Steps) /\ Len(q) = 2 /\ q[1] = s /\ q[2] = u
  BY <1>1, TwoElements
<1>3. \A i \in 1 .. Len(q) : q[i].key = q[1].key
  <2>1. \A i \in 1 .. Len(q) : i = 1 \/ i = 2
    BY <1>2
  <2> QED BY <1>2, <2>1
<1>4. q[1].op \in {"InsertItem", "Delete"}
  BY <1>2
<1>5. IsCall(q)
  BY <1>2, <1>3, <1>4 DEF IsCall, TruncateOps
<1>6. \A k : Mid(q, k)
  BY <1>4 DEF Mid, TruncateOps
<1>7. cancelled' \in BOOLEAN
  BY DEF LegacyInv, TypeOK
<1> QED BY <1>1, <1>2, <1>5, <1>6, <1>7, CallStep

LEMMA SetInv ==
  ASSUME LegacyInv, Observe, NEW a \in Clients, NEW k \in Keys, NEW ttl \in TTLs, Set(a, k, ttl)
  PROVE  LegacyInv'
<1>1. now \in Nat /\ ttl \in Nat
  BY ItemTypes, LegacyAssumption DEF LegacyInv
<1>2. PICK s : s = Step("InsertItem", k, IF ttl > 0 THEN now + ttl ELSE 0)
  OBVIOUS
<1>3. PICK u : u = Step(IF ttl > 0 THEN "Expired" ELSE "RemoveKey", k, ttl)
  OBVIOUS
<1>4. /\ s \in Steps /\ s.op = "InsertItem" /\ s.key = k
      /\ s.t = IF ttl > 0 THEN now + ttl ELSE 0
  BY <1>1, <1>2, StepType DEF Ops
<1>5. /\ u \in Steps /\ u.op = IF ttl > 0 THEN "Expired" ELSE "RemoveKey"
      /\ u.key = k /\ u.t = ttl
  BY <1>1, <1>3, StepType DEF Ops
<1>6. Call(a, <<s, u>>) /\ UNCHANGED cancelled
  BY <1>2, <1>3 DEF Set
<1>7. \/ u.op = "Expired" /\ u.t \in TTLs \ {0} /\ s.t <= now + u.t
      \/ u.op = "RemoveKey" /\ s.t = 0
  BY <1>1, <1>4, <1>5
<1> QED BY <1>4, <1>5, <1>6, <1>7, PairCall

LEMMA RemoveItemInv ==
  ASSUME LegacyInv, Observe, NEW a \in Clients, NEW k \in Keys, RemoveItem(a, k)
  PROVE  LegacyInv'
<1>1. PICK s : s = Step("Delete", k, 0)
  OBVIOUS
<1>2. PICK u : u = Step("RemoveKey", k, 0)
  OBVIOUS
<1>3. s \in Steps /\ s.op = "Delete" /\ s.key = k /\ u \in Steps /\ u.op = "RemoveKey" /\ u.key = k
  BY <1>1, <1>2, StepType DEF Ops
<1>4. Call(a, <<s, u>>) /\ UNCHANGED cancelled
  BY <1>1, <1>2 DEF RemoveItem
<1> QED BY <1>3, <1>4, PairCall

LEMMA CloseInv ==
  ASSUME LegacyInv, Observe, NEW a \in Clients, Close(a)
  PROVE  LegacyInv'
<1>1. PICK q : q = <<>>
  OBVIOUS
<1>2. q \in Seq(Steps) /\ IsCall(q) /\ \A k : ~Works(q, k)
  BY <1>1, EmptySeq, IdleWorks
<1>3. Call(a, q) /\ cancelled' \in BOOLEAN
  BY <1>1 DEF Close
<1> QED BY <1>2, <1>3, CallStep

\* Truncate begins with every shard still ahead of it.
LEMMA TruncateInv ==
  ASSUME LegacyInv, Observe, NEW a \in Clients, Truncate(a)
  PROVE  LegacyInv'
<1>1. PICK order \in SetToSeqs(Keys) :
        Call(a, [i \in DOMAIN order |-> Step("TruncateShard", order[i], 0)]
                \o <<Step("TruncateHeap", AnyKey, 0)>>)
  BY DEF Truncate
<1>2. /\ order \in Seq(Keys) /\ ToSet(order) = Keys /\ DOMAIN order = 1 .. Len(order)
      /\ \A i \in DOMAIN order : order[i] \in Keys
  <2>1. IsFiniteSet(Keys)
    BY LegacyAssumption
  <2> QED BY <2>1, Listing
<1>3. PICK n : n = Len(order)
  OBVIOUS
<1>4. n \in Nat
  BY <1>2, <1>3, LenProperties
<1>5. PICK p : p = [i \in 1 .. n |-> Step("TruncateShard", order[i], 0)]
  OBVIOUS
<1>6. /\ p \in Seq(Steps) /\ Len(p) = n
      /\ \A i \in 1 .. n : p[i].op = "TruncateShard" /\ p[i].key = order[i]
  <2>1. \A i \in 1 .. n : order[i] \in Keys
    BY <1>2, <1>3
  <2>2. \A i \in 1 .. n : Step("TruncateShard", order[i], 0) \in Steps
    BY <2>1, StepType DEF Ops
  <2>3. p \in [1 .. n -> Steps]
    BY <1>5, <2>2
  <2>4. p \in Seq(Steps) /\ Len(p) = n
    BY <1>4, <2>3
  <2>5. \A i \in 1 .. n : p[i].op = "TruncateShard" /\ p[i].key = order[i]
    BY <1>5 DEF Step
  <2> QED BY <2>4, <2>5
<1>7. PICK u : u = Step("TruncateHeap", AnyKey, 0)
  OBVIOUS
<1>8. u \in Steps /\ u.op = "TruncateHeap" /\ u.key = AnyKey
  BY <1>7, StepType DEF Ops
<1>9. PICK l : l = <<u>>
  OBVIOUS
<1>10. l \in Seq(Steps) /\ Len(l) = 1 /\ l[1] = u
  BY <1>8, <1>9, OneElement
<1>11. PICK q : q = p \o l
  OBVIOUS
<1>12. /\ q \in Seq(Steps) /\ Len(q) = n + 1
       /\ \A i \in 1 .. Len(p) + Len(l) : q[i] = IF i <= Len(p) THEN p[i] ELSE l[i - Len(p)]
  <2>1. /\ p \o l \in Seq(Steps) /\ Len(p \o l) = Len(p) + Len(l)
        /\ \A i \in 1 .. Len(p) + Len(l) : (p \o l)[i] = IF i <= Len(p) THEN p[i] ELSE l[i - Len(p)]
    BY ONLY <1>6, <1>10, ConcatProperties
  <2>2. Len(p) + Len(l) = n + 1
    BY <1>6, <1>10
  <2> QED BY ONLY <2>1, <2>2, <1>11
<1>13. q[n + 1] = u /\ \A i \in 1 .. n : q[i] = p[i]
  <2>1. n + 1 \in 1 .. Len(p) + Len(l) /\ ~(n + 1 <= Len(p)) /\ (n + 1) - Len(p) = 1
    BY <1>4, <1>6, <1>10
  <2>2. \A i \in 1 .. n : i \in 1 .. Len(p) + Len(l) /\ i <= Len(p)
    BY <1>4, <1>6, <1>10
  <2> QED BY <2>1, <2>2, <1>10, <1>12
<1>14. /\ q[Len(q)].op = "TruncateHeap" /\ q[Len(q)].key = AnyKey
       /\ \A i \in 1 .. Len(q) - 1 : q[i].op = "TruncateShard" /\ q[i].key \in Keys
  <2>1. Len(q) - 1 = n
    BY <1>4, <1>12
  <2>2. \A i \in 1 .. n : order[i] \in Keys
    BY <1>2, <1>3
  <2> QED BY <2>1, <2>2, <1>6, <1>8, <1>12, <1>13
<1>15. q[1].op \in TruncateOps
  <2>1. n + 1 = 1 \/ 1 \in 1 .. n
    BY <1>4
  <2> QED BY <2>1, <1>6, <1>8, <1>13 DEF TruncateOps
<1>16. IsCall(q)
  <2>1. q[1].op \notin {"InsertItem", "Delete", "Expired", "Schedule", "SignalWakeUp", "RemoveKey"}
    BY <1>15 DEF TruncateOps
  <2> QED BY <2>1, <1>14, <1>15 DEF IsCall
<1>17. ASSUME NEW k \in Keys PROVE Mid(q, k)
  <2>1. PICK i \in 1 .. n : order[i] = k
    BY <1>2, <1>3 DEF ToSet
  <2>2. i \in 1 .. Len(q) - 1 /\ q[i].key = k
    BY <2>1, <1>4, <1>6, <1>12, <1>13
  <2>3. q[1].op \notin {"Expired", "Schedule", "SignalWakeUp", "RemoveKey"}
    BY <1>15 DEF TruncateOps
  <2> QED BY <2>2, <2>3 DEF Mid
<1>18. Call(a, q) /\ cancelled' \in BOOLEAN
  <2>1. p = [i \in DOMAIN order |-> Step("TruncateShard", order[i], 0)]
    BY <1>2, <1>3, <1>5
  <2>2. Call(a, q)
    BY <1>1, <1>7, <1>9, <1>11, <2>1
  <2> QED BY <2>2 DEF Truncate, LegacyInv, TypeOK
<1> QED BY <1>12, <1>16, <1>17, <1>18, CallStep
-----------------------------------------------------------------------------
(* The sections of the calls.                                              *)

\* InsertItem stores what the rest of the call is about to schedule.
LEMMA InsertItemInv ==
  ASSUME LegacyInv, Observe, NEW a \in Clients, InsertItem(a)
  PROVE  LegacyInv'
<1> USE DEF LegacyInv
<1>1. ~Idle(a) /\ Then(a, <<>>)
  BY DEF InsertItem, Doing
<1>2. PICK q : q = todo[a]
  OBVIOUS
<1>3. PICK r : r = Tail(q)
  OBVIOUS
<1>4. /\ q \in Seq(Steps) /\ q # <<>> /\ IsCall(q) /\ Head(q) = q[1] /\ q[1] \in Steps
      /\ todo' = [todo EXCEPT ![a] = r]
  BY <1>1, <1>2, <1>3, SectionTodo
<1>5. /\ Len(q) \in Nat \ {0} /\ \A i \in 1 .. Len(q) : q[i] \in Steps
      /\ r \in Seq(Steps) /\ Len(r) = Len(q) - 1
      /\ \A i \in 1 .. Len(q) - 1 : r[i] = q[i + 1]
  BY <1>3, <1>4, HeadAndTail
<1>6. q[1].op = "InsertItem"
  BY <1>2, <1>4 DEF InsertItem, Doing
<1>7. /\ Len(q) = 2 /\ q[1].key \in Keys /\ q[2].key = q[1].key
      /\ \/ q[2].op = "Expired" /\ q[2].t \in TTLs \ {0} /\ q[1].t <= now + q[2].t
         \/ q[2].op = "RemoveKey" /\ q[1].t = 0
  <2>1. Len(q) = 2 /\ q[1].op \notin TruncateOps
    BY <1>4, <1>5, <1>6 DEF IsCall, TruncateOps
  <2>2. 2 \in 1 .. Len(q)
    BY <2>1
  <2> QED BY <1>4, <1>5, <1>6, <2>1, <2>2 DEF IsCall
<1>8. Len(r) = 1 /\ r[1] = q[2] /\ r # <<>>
  <2>1. Len(r) = 1 /\ r[1] = q[2]
    BY <1>5, <1>7
  <2> QED BY <2>1, EmptySeq
<1>9. /\ items' = With(items, q[1].key, q[1].t) /\ tied' = tied \ {q[1].key}
      /\ UNCHANGED <<heap, wake, cancelled, loop, now, calls>>
  BY <1>2, <1>4 DEF InsertItem
<1>10. /\ DOMAIN items' = DOMAIN items \cup {q[1].key}
       /\ \A k \in DOMAIN items' : items'[k] = IF k = q[1].key THEN q[1].t ELSE items[k]
  BY <1>9 DEF With
<1>11. CallInv' /\ AloneInv' /\ ItemInv' /\ \A b \in Clients : todo'[b] \in Seq(Steps)
  <2>1. ASSUME NEW k \in Keys \ raced, Works(q, k)
        PROVE  /\ Works(r, k) => Mid(r, k)'
               /\ ~Works(r, k) => Kept(k)'
    <3>1. k = q[1].key
      BY <1>4, <1>6, <2>1, CallKey DEF TruncateOps
    <3>2. DOMAIN r = 1 .. Len(r)
      BY <1>5, LenProperties
    <3>3. Works(r, k)
      BY <1>7, <1>8, <3>1, <3>2 DEF Works
    <3>4. Mid(r, k)'
      BY <1>7, <1>8, <1>9, <1>10, <3>1 DEF Mid, TruncateOps
    <3> QED BY <3>3, <3>4
  <2>2. ASSUME NEW k \in Keys \ raced, ~Works(q, k) PROVE Undisturbed(k)
    <3>1. k # q[1].key
      BY <1>4, <1>6, <2>2, CallKey DEF TruncateOps
    <3> QED BY <1>9, <1>10, <3>1 DEF Undisturbed, Kept, loop
  <2> QED BY <1>1, <1>2, <1>3, <1>9, <2>1, <2>2, SectionDone
<1>12. TypeOK'
  <2>1. now \in Nat /\ Max(TTLs) \in Nat /\ q[1].t \in Nat
    BY <1>4, ItemTypes DEF Steps
  <2>2. q[1].t \in 0 .. now + Max(TTLs)
    <3>1. CASE q[2].t \in TTLs \ {0} /\ q[1].t <= now + q[2].t
      <4>1. q[2].t <= Max(TTLs) /\ q[2].t \in Nat
        BY <3>1, LongestTTL, LegacyAssumption
      <4> QED BY <2>1, <3>1, <4>1
    <3>2. CASE q[1].t = 0
      BY <2>1, <3>2
    <3> QED BY <1>7, <3>1, <3>2
  <2>3. DOMAIN items' \subseteq Keys /\ \A k \in DOMAIN items' : items'[k] \in 0 .. now + Max(TTLs)
    BY <1>7, <1>10, <2>2 DEF TypeOK
  <2>4. raced' \cup tied' \subseteq Keys
    BY <1>9 DEF TypeOK, Observe
  <2> QED BY <1>9, <1>11, <2>3, <2>4 DEF TypeOK, loop
<1>13. LoopInv'
  BY <1>9 DEF LoopInv, loop
<1>14. NeverOversleeps'
  <2>1. ~Doing(a, "SignalWakeUp")
    BY DEF InsertItem, Doing
  <2>2. \A b \in Clients : Doing(b, "SignalWakeUp") => Doing(b, "SignalWakeUp")'
    BY <1>4, <2>1, OthersSignal
  <2> QED BY <1>9, <2>2, SleepSame DEF loop
<1> QED BY <1>11, <1>12, <1>13, <1>14

\* What a section of client a's call finds at the head of its list.
LEMMA SectionFacts ==
  ASSUME LegacyInv, NEW a \in Clients, ~Idle(a), NEW q, q = todo[a], NEW r, r = Tail(q)
  PROVE  /\ q \in Seq(Steps) /\ q # <<>> /\ IsCall(q) /\ Head(q) = q[1] /\ q[1] \in Steps
         /\ Len(q) \in Nat \ {0} /\ r \in Seq(Steps) /\ Len(r) = Len(q) - 1
         /\ \A i \in 1 .. Len(q) - 1 : r[i] = q[i + 1]
         /\ DOMAIN r = 1 .. Len(q) - 1
         /\ Len(q) = 1 => r = <<>>
<1>1. /\ q \in Seq(Steps) /\ q # <<>> /\ IsCall(q) /\ Head(q) = q[1] /\ q[1] \in Steps
  BY SectionTodo DEF LegacyInv
<1>2. /\ Len(q) \in Nat \ {0} /\ r \in Seq(Steps) /\ Len(r) = Len(q) - 1
      /\ \A i \in 1 .. Len(q) - 1 : r[i] = q[i + 1]
      /\ Len(q) = 1 => r = <<>>
  BY <1>1, HeadAndTail
<1>3. DOMAIN r = 1 .. Len(q) - 1
  BY <1>2, LenProperties
<1> QED BY <1>1, <1>2, <1>3

\* Delete, and a shard of Truncate: the item is gone.
LEMMA DeleteItemInv ==
  ASSUME LegacyInv, Observe, NEW a \in Clients, DeleteItem(a)
  PROVE  LegacyInv'
<1> USE DEF LegacyInv
<1>1. ~Idle(a) /\ Then(a, <<>>)
  BY DEF DeleteItem, Doing
<1>2. PICK q : q = todo[a]
  OBVIOUS
<1>3. PICK r : r = Tail(q)
  OBVIOUS
<1>4. /\ q \in Seq(Steps) /\ q # <<>> /\ IsCall(q) /\ Head(q) = q[1] /\ q[1] \in Steps
      /\ Len(q) \in Nat \ {0} /\ r \in Seq(Steps) /\ Len(r) = Len(q) - 1
      /\ \A i \in 1 .. Len(q) - 1 : r[i] = q[i + 1]
      /\ DOMAIN r = 1 .. Len(q) - 1
  BY <1>1, <1>2, <1>3, SectionFacts
<1>5. q[1].op \in {"Delete", "TruncateShard"}
  BY <1>2, <1>4 DEF DeleteItem, Doing
<1>6. /\ items' = Without(items, {q[1].key})
      /\ UNCHANGED <<heap, wake, cancelled, loop, now, calls, tied>>
  BY <1>2, <1>4 DEF DeleteItem
<1>7. /\ DOMAIN items' = DOMAIN items \ {q[1].key}
      /\ \A k \in DOMAIN items' : items'[k] = items[k]
  BY <1>6 DEF Without
<1>8. ASSUME NEW k PROVE Undisturbed(k)
  BY <1>6, <1>7 DEF Undisturbed, Kept, loop
<1>9. ASSUME NEW k \in Keys \ raced, Works(q, k)
      PROVE  Works(r, k) /\ Mid(r, k)'
  <2>1. CASE q[1].op = "Delete"
    <3>1. q[1].op \notin TruncateOps
      BY <2>1 DEF TruncateOps
    <3>2. k = q[1].key
      BY <1>4, <1>9, <3>1, CallKey
    <3>3. Len(q) = 2 /\ q[2].op = "RemoveKey" /\ q[2].key = q[1].key
      <4>1. Len(q) = 2 /\ q[2].op = "RemoveKey"
        BY <1>4, <2>1 DEF IsCall
      <4>2. 2 \in 1 .. Len(q)
        BY <4>1
      <4> QED BY <1>4, <3>1, <4>1, <4>2 DEF IsCall
    <3>4. r[1] = q[2] /\ 1 \in DOMAIN r
      BY <1>4, <3>3
    <3> QED BY <1>7, <3>2, <3>3, <3>4 DEF Works, Mid, TruncateOps
  <2>2. CASE q[1].op = "TruncateShard"
    <3>1. q[1].op \in TruncateOps
      BY <2>2 DEF TruncateOps
    <3>2. /\ q[Len(q)].op = "TruncateHeap" /\ q[Len(q)].key = AnyKey
          /\ \A i \in 1 .. Len(q) - 1 : q[i].op = "TruncateShard" /\ q[i].key \in Keys
      BY <1>4, <3>1 DEF IsCall
    <3>3. Len(q) # 1
      BY <2>2, <3>2
    <3>4. Len(q) - 1 \in 1 .. Len(q) - 1 /\ (Len(q) - 1) + 1 = Len(q)
      BY <1>4, <3>3
    <3>5. r[Len(q) - 1] = q[Len(q)]
      BY <1>4, <3>4
    <3>6. Works(r, k)
      BY <1>4, <3>2, <3>4, <3>5 DEF Works
    <3>7. r[1].op \in TruncateOps
      <4>1. CASE Len(q) = 2
        BY <3>2, <3>5, <4>1 DEF TruncateOps
      <4>2. CASE Len(q) # 2
        <5>1. 2 \in 1 .. Len(q) - 1 /\ 1 \in 1 .. Len(q) - 1
          BY <1>4, <3>3, <4>2
        <5>2. r[1] = q[2]
          BY <1>4, <5>1
        <5> QED BY <3>2, <5>1, <5>2 DEF TruncateOps
      <4> QED BY <4>1, <4>2
    <3>8. k \notin DOMAIN items' \/ \E i \in 1 .. Len(r) - 1 : r[i].key = k
      <4>1. CASE k = q[1].key
        BY <1>7, <4>1
      <4>2. CASE k # q[1].key /\ k \in DOMAIN items
        <5>1. Mid(q, k)
          BY <1>2, <1>9, <4>2 DEF ItemInv
        <5>2. PICK i \in 1 .. Len(q) - 1 : q[i].key = k
          BY <3>1, <4>2, <5>1 DEF Mid
        <5>3. i - 1 \in 1 .. Len(r) - 1 /\ i - 1 \in 1 .. Len(q) - 1 /\ (i - 1) + 1 = i
          BY <1>4, <4>2, <5>2
        <5>4. r[i - 1] = q[i]
          BY <1>4, <5>3
        <5> QED BY <5>2, <5>3, <5>4
      <4>3. CASE k \notin DOMAIN items
        BY <1>7, <4>3
      <4> QED BY <4>1, <4>2, <4>3
    <3>9. r[1].op \notin {"Expired", "Schedule", "SignalWakeUp", "RemoveKey"}
      BY <3>7 DEF TruncateOps
    <3> QED BY <3>6, <3>8, <3>9 DEF Mid
  <2> QED BY <1>5, <2>1, <2>2
<1>10. CallInv' /\ AloneInv' /\ ItemInv' /\ \A b \in Clients : todo'[b] \in Seq(Steps)
  BY <1>1, <1>2, <1>3, <1>6, <1>8, <1>9, SectionDone
<1>11. TypeOK'
  <2>1. raced' \cup tied' \subseteq Keys
    BY <1>6 DEF TypeOK, Observe
  <2> QED BY <1>6, <1>7, <1>10, <2>1 DEF TypeOK, loop
<1>12. LoopInv'
  BY <1>6 DEF LoopInv, loop
<1>13. NeverOversleeps'
  <2>1. ~Doing(a, "SignalWakeUp")
    BY DEF DeleteItem, Doing
  <2>2. todo' = [todo EXCEPT ![a] = r]
    BY <1>1, <1>2, <1>3, SectionTodo
  <2>3. \A b \in Clients : Doing(b, "SignalWakeUp") => Doing(b, "SignalWakeUp")'
    BY <2>1, <2>2, OthersSignal
  <2> QED BY <1>6, <2>3, SleepSame DEF loop
<1> QED BY <1>10, <1>11, <1>12, <1>13

\* A section that is the last of its call and goes on with one more section, on
\* the same key.
LEMMA GoesOn ==
  ASSUME LegacyInv, Observe, NEW a \in Clients, ~Idle(a), UNCHANGED now,
         Len(todo[a]) = 1, todo[a][1].op \notin TruncateOps,
         NEW s \in Steps, s.key = todo[a][1].key, s.op \in {"Schedule", "SignalWakeUp"},
         s.op = "Schedule" => s.t \in 1 .. now + Max(TTLs),
         Then(a, <<s>>),
         s.key \notin raced =>
           /\ s.op = "Schedule" => (s.key \in DOMAIN items' => items'[s.key] <= s.t)
           /\ s.op = "SignalWakeUp" => Kept(s.key)',
         \A k \in Keys \ raced : k # s.key => Undisturbed(k)
  PROVE  CallInv' /\ AloneInv' /\ ItemInv' /\ \A b \in Clients : todo'[b] \in Seq(Steps)
<1> USE DEF LegacyInv
<1>1. PICK q : q = todo[a]
  OBVIOUS
<1>2. PICK r : r = <<s>>
  OBVIOUS
<1>3. /\ q \in Seq(Steps) /\ q # <<>> /\ IsCall(q) /\ Len(q) = 1
      /\ todo' = [todo EXCEPT ![a] = r]
  BY <1>1, <1>2, SectionTodo
<1>4. r \in Seq(Steps) /\ Len(r) = 1 /\ r[1] = s /\ r # <<>>
  BY <1>2, OneElement
<1>5. s.key \in Keys /\ s.key = q[1].key
  BY <1>1, <1>3 DEF IsCall
<1>6. IsCall(r)
  <2>1. \A i \in 1 .. Len(r) : i = 1
    BY <1>4
  <2> QED BY <1>4, <1>5, <2>1 DEF IsCall, TruncateOps
<1>7. \A k \in Keys : (Works(q, k) <=> k = s.key) /\ (Works(r, k) <=> k = s.key)
  BY <1>1, <1>3, <1>4, <1>5, <1>6, CallKey DEF TruncateOps
<1>8. s.key \notin raced => Mid(r, s.key)'
  BY <1>4 DEF Mid, TruncateOps
<1>9. \A b \in Clients : todo'[b] \in Seq(Steps)
  BY <1>3, <1>4 DEF TypeOK, CallInv
<1> QED BY <1>1, <1>3, <1>4, <1>6, <1>7, <1>8, <1>9, SectionStep

\* A section that ends its call.
LEMMA CallEnds ==
  ASSUME LegacyInv, Observe, NEW a \in Clients, ~Idle(a), UNCHANGED now,
         Len(todo[a]) = 1, Then(a, <<>>),
         \A k \in Keys \ raced : Works(todo[a], k) => Kept(k)',
         \A k \in Keys \ raced : ~Works(todo[a], k) => Undisturbed(k)
  PROVE  CallInv' /\ AloneInv' /\ ItemInv' /\ \A b \in Clients : todo'[b] \in Seq(Steps)
<1>1. PICK r : r = Tail(todo[a])
  OBVIOUS
<1>2. r = <<>>
  BY <1>1, SectionFacts
<1>3. \A k : ~Works(r, k)
  BY <1>2, IdleWorks
<1> QED BY <1>1, <1>3, SectionDone

LEMMA ExpiredAtInv ==
  ASSUME LegacyInv, Observe, NEW a \in Clients, ExpiredAt(a)
  PROVE  LegacyInv'
<1> USE DEF LegacyInv
<1>1. ~Idle(a) /\ UNCHANGED <<items, heap, wake, cancelled, loop, now, calls, tied>>
  BY DEF ExpiredAt, Doing
<1>2. PICK q : q = todo[a]
  OBVIOUS
<1>3. PICK r : r = Tail(q)
  OBVIOUS
<1>4. /\ q \in Seq(Steps) /\ q # <<>> /\ IsCall(q) /\ Head(q) = q[1] /\ q[1] \in Steps
      /\ Len(q) \in Nat \ {0}
  BY <1>1, <1>2, <1>3, SectionFacts
<1>5. q[1].op = "Expired"
  BY <1>2, <1>4 DEF ExpiredAt, Doing
<1>6. Len(q) = 1 /\ q[1].t \in TTLs \ {0} /\ q[1].key \in Keys /\ q[1].op \notin TruncateOps
  BY <1>4, <1>5 DEF IsCall, TruncateOps
<1>7. /\ now \in Nat /\ q[1].t \in Nat /\ now + q[1].t \in 1 .. now + Max(TTLs)
      /\ now + q[1].t \in Nat
  <2>1. now \in Nat /\ q[1].t \in Nat \ {0} /\ q[1].t <= Max(TTLs) /\ Max(TTLs) \in Nat
    BY <1>6, ItemTypes, LongestTTL, LegacyAssumption
  <2> QED BY <2>1
<1>8. PICK s : s = Step("Schedule", q[1].key, now + q[1].t)
  OBVIOUS
<1>9. s \in Steps /\ s.op = "Schedule" /\ s.key = q[1].key /\ s.t = now + q[1].t
  BY <1>6, <1>7, <1>8, StepType DEF Ops
<1>10. Then(a, <<s>>)
  BY <1>2, <1>4, <1>8 DEF ExpiredAt
<1>11. \A k : Undisturbed(k)
  BY <1>1 DEF Undisturbed, Kept, loop
<1>12. s.key \notin raced => (s.key \in DOMAIN items' => items'[s.key] <= s.t)
  <2>1. Works(q, s.key)
    BY <1>4, <1>6, <1>9, CallKey
  <2>2. s.key \notin raced => Mid(q, s.key)
    BY <1>2, <1>6, <1>9, <2>1 DEF ItemInv
  <2> QED BY <2>2, <1>1, <1>5, <1>9 DEF Mid
<1>13. CallInv' /\ AloneInv' /\ ItemInv' /\ \A b \in Clients : todo'[b] \in Seq(Steps)
  BY <1>1, <1>2, <1>6, <1>7, <1>9, <1>10, <1>11, <1>12, GoesOn
<1>14. TypeOK'
  <2>1. raced' \cup tied' \subseteq Keys
    BY <1>1 DEF TypeOK, Observe
  <2> QED BY <1>1, <1>13, <2>1 DEF TypeOK, loop
<1>15. LoopInv'
  BY <1>1 DEF LoopInv, loop
<1>16. NeverOversleeps'
  <2>1. ~Doing(a, "SignalWakeUp")
    BY DEF ExpiredAt, Doing
  <2>2. \A b \in Clients : Doing(b, "SignalWakeUp") => Doing(b, "SignalWakeUp")'
    BY <2>1, OthersSignal DEF ExpiredAt, Then
  <2> QED BY <1>1, <2>2, SleepSame DEF loop
<1> QED BY <1>13, <1>14, <1>15, <1>16

\* Schedule puts the key where its item says, and wakes the loop if the loop
\* may be waiting for something later.
LEMMA ScheduleInv ==
  ASSUME LegacyInv, Observe, NEW a \in Clients, Schedule(a)
  PROVE  LegacyInv'
<1> USE DEF LegacyInv
<1>1. ~Idle(a) /\ UNCHANGED <<items, wake, cancelled, loop, now, calls, tied>>
  BY DEF Schedule, Doing
<1>2. PICK q : q = todo[a]
  OBVIOUS
<1>3. PICK r : r = Tail(q)
  OBVIOUS
<1>4. /\ q \in Seq(Steps) /\ q # <<>> /\ IsCall(q) /\ Head(q) = q[1] /\ q[1] \in Steps
      /\ Len(q) \in Nat \ {0}
  BY <1>1, <1>2, <1>3, SectionFacts
<1>5. q[1].op = "Schedule"
  BY <1>2, <1>4 DEF Schedule, Doing
<1>6. /\ Len(q) = 1 /\ q[1].t \in 1 .. now + Max(TTLs) /\ q[1].key \in Keys
      /\ q[1].op \notin TruncateOps
  BY <1>4, <1>5 DEF IsCall, TruncateOps
<1>7. PICK k : k = q[1].key
  OBVIOUS
<1>8. PICK h : h = heap'
  OBVIOUS
<1>9. /\ h = With(heap, k, q[1].t)
      /\ \/ k \in Earliest(h) /\ Then(a, <<Step("SignalWakeUp", k, 0)>>)
         \/ Earliest(h) # {k} /\ Then(a, <<>>)
  BY <1>2, <1>4, <1>7, <1>8 DEF Schedule
<1>10. /\ DOMAIN h = DOMAIN heap \cup {k}
       /\ \A j \in DOMAIN h : h[j] = IF j = k THEN q[1].t ELSE heap[j]
  BY <1>9 DEF With
<1>11. \A j : j # k => Undisturbed(j)
  BY <1>1, <1>8, <1>10 DEF Undisturbed, Kept, loop
<1>12. \A j \in Keys : Works(q, j) <=> j = k
  BY <1>4, <1>6, <1>7, CallKey
<1>13. k \notin raced => Kept(k)'
  <2>1. k \notin raced => Mid(q, k)
    BY <1>2, <1>6, <1>7, <1>12 DEF ItemInv
  <2> QED BY <2>1, <1>1, <1>5, <1>8, <1>10 DEF Mid, Kept
<1>14. PICK s : s = Step("SignalWakeUp", k, 0)
  OBVIOUS
<1>15. s \in Steps /\ s.op = "SignalWakeUp" /\ s.key = k
  BY <1>6, <1>7, <1>14, StepType DEF Ops
<1>16. CallInv' /\ AloneInv' /\ ItemInv' /\ \A b \in Clients : todo'[b] \in Seq(Steps)
  <2>1. CASE Then(a, <<s>>)
    BY <1>1, <1>2, <1>6, <1>7, <1>11, <1>13, <1>15, <2>1, GoesOn
  <2>2. CASE Then(a, <<>>)
    BY <1>1, <1>2, <1>6, <1>7, <1>11, <1>12, <1>13, <2>2, CallEnds
  <2> QED BY <1>9, <1>14, <2>1, <2>2
<1>17. TypeOK'
  <2>1. raced' \cup tied' \subseteq Keys
    BY <1>1 DEF TypeOK, Observe
  <2>2. DOMAIN heap' \subseteq Keys /\ \A j \in DOMAIN heap' : heap'[j] \in 1 .. now + Max(TTLs)
    BY <1>6, <1>7, <1>8, <1>10 DEF TypeOK
  <2> QED BY <1>1, <1>16, <2>1, <2>2 DEF TypeOK, loop
<1>18. LoopInv'
  BY <1>1, <1>8, <1>10 DEF LoopInv, loop
<1>19. NeverOversleeps'
  <2>0. ~Doing(a, "SignalWakeUp")
    BY DEF Schedule, Doing
  <2>1. CASE Then(a, <<s>>)
    <3>1. todo' = [todo EXCEPT ![a] = <<s>>]
      BY <1>1, <1>2, <1>6, <1>15, <2>1, SectionTodo
    <3>2. todo'[a] = <<s>> /\ Head(<<s>>) = s /\ <<s>> # <<>>
      BY <1>15, <3>1, OneElement DEF CallInv
    <3>3. Doing(a, "SignalWakeUp")'
      BY <3>2, <1>15 DEF Doing, Idle
    <3> QED BY <3>3 DEF NeverOversleeps
  <2>2. CASE Earliest(h) # {k} /\ Then(a, <<>>)
    <3>1. \A b \in Clients : Doing(b, "SignalWakeUp") => Doing(b, "SignalWakeUp")'
      BY <2>0, <2>2, OthersSignal DEF Then
    <3>2. \A j \in DOMAIN h : h[j] \in Nat
      <4>1. \A j \in DOMAIN heap : heap[j] \in Nat
        BY ItemTypes
      <4>2. q[1].t \in Nat
        BY <1>6
      <4> QED BY <1>10, <4>1, <4>2
    <3>3. PICK j \in DOMAIN h : j \in Earliest(h)
      BY <1>10, <3>2, HeapRoot
    <3>4. PICK e \in DOMAIN h : e \in Earliest(h) /\ e # k
      <4>1. CASE j # k
        BY <3>3, <4>1
      <4>2. CASE j = k
        BY <2>2, <3>3, <4>2 DEF Earliest
      <4> QED BY <4>1, <4>2
    <3>5. \A i \in DOMAIN h : h[e] <= h[i]
      BY <3>4 DEF Earliest
    <3>6. e \in DOMAIN heap /\ h[e] = heap[e] /\ heap # <<>>
      <4>1. e \in DOMAIN heap /\ h[e] = heap[e]
        BY <1>10, <3>4
      <4>2. DOMAIN <<>> = {}
        OBVIOUS
      <4> QED BY <4>1, <4>2
    <3>7. UNCHANGED <<pc, timer, wake>>
      BY <1>1 DEF loop
    <3> SUFFICES ASSUME pc = "select", ~wake, \A b \in Clients : ~Doing(b, "SignalWakeUp")
                 PROVE  timer # Never /\ \A i \in DOMAIN h : timer <= h[i]
      BY <1>8, <3>1, <3>7 DEF NeverOversleeps
    <3>8. timer # Never /\ \A i \in DOMAIN heap : timer <= heap[i]
      BY <3>6 DEF NeverOversleeps
    <3>9. timer <= h[e] /\ timer \in Nat
      BY <3>6, <3>8 DEF TypeOK
    <3> QED BY <3>2, <3>5, <3>8, <3>9
  <2> QED BY <1>9, <1>14, <2>1, <2>2
<1> QED BY <1>16, <1>17, <1>18, <1>19

LEMMA SignalWakeUpInv ==
  ASSUME LegacyInv, Observe, NEW a \in Clients, SignalWakeUp(a)
  PROVE  LegacyInv'
<1> USE DEF LegacyInv
<1>1. /\ ~Idle(a) /\ Then(a, <<>>) /\ wake' = TRUE
      /\ UNCHANGED <<items, heap, cancelled, loop, now, calls, tied>>
  BY DEF SignalWakeUp, Doing
<1>2. PICK q : q = todo[a]
  OBVIOUS
<1>3. PICK r : r = Tail(q)
  OBVIOUS
<1>4. /\ q \in Seq(Steps) /\ q # <<>> /\ IsCall(q) /\ Head(q) = q[1] /\ Len(q) \in Nat \ {0}
  BY <1>1, <1>2, <1>3, SectionFacts
<1>5. q[1].op = "SignalWakeUp"
  BY <1>2, <1>4 DEF SignalWakeUp, Doing
<1>6. Len(q) = 1
  BY <1>4, <1>5 DEF IsCall
<1>7. \A k : Undisturbed(k)
  BY <1>1 DEF Undisturbed, Kept, loop
<1>8. ASSUME NEW k \in Keys \ raced, Works(todo[a], k) PROVE Kept(k)'
  <2>1. Mid(q, k)
    BY <1>2, <1>8 DEF ItemInv
  <2> QED BY <2>1, <1>5, <1>7 DEF Mid, Undisturbed
<1>9. CallInv' /\ AloneInv' /\ ItemInv' /\ \A b \in Clients : todo'[b] \in Seq(Steps)
  BY <1>1, <1>2, <1>6, <1>7, <1>8, CallEnds
<1>10. TypeOK'
  <2>1. raced' \cup tied' \subseteq Keys
    BY <1>1 DEF TypeOK, Observe
  <2> QED BY <1>1, <1>9, <2>1 DEF TypeOK, loop
<1>11. LoopInv'
  BY <1>1 DEF LoopInv, loop
<1>12. NeverOversleeps'
  BY <1>1 DEF NeverOversleeps
<1> QED BY <1>9, <1>10, <1>11, <1>12

\* RemoveKey ends a call that has left no item with an expiration behind.
LEMMA RemoveKeyInv ==
  ASSUME LegacyInv, Observe, NEW a \in Clients, RemoveKey(a)
  PROVE  LegacyInv'
<1> USE DEF LegacyInv
<1>1. /\ ~Idle(a) /\ Then(a, <<>>)
      /\ UNCHANGED <<items, wake, cancelled, loop, now, calls, tied>>
  BY DEF RemoveKey, Doing
<1>2. PICK q : q = todo[a]
  OBVIOUS
<1>3. PICK r : r = Tail(q)
  OBVIOUS
<1>4. /\ q \in Seq(Steps) /\ q # <<>> /\ IsCall(q) /\ Head(q) = q[1] /\ Len(q) \in Nat \ {0}
  BY <1>1, <1>2, <1>3, SectionFacts
<1>5. q[1].op = "RemoveKey" /\ q[1].op \notin TruncateOps
  BY <1>2, <1>4 DEF RemoveKey, Doing, TruncateOps
<1>6. Len(q) = 1
  BY <1>4, <1>5 DEF IsCall
<1>7. /\ DOMAIN heap' = DOMAIN heap \ {q[1].key} /\ \A k \in DOMAIN heap' : heap'[k] = heap[k]
      /\ DOMAIN heap' = {} => heap' = <<>>
  BY <1>2, <1>4 DEF RemoveKey, Without
<1>8. ASSUME NEW k \in Keys \ raced, ~Works(todo[a], k) PROVE Undisturbed(k)
  <2>1. k # q[1].key
    BY <1>2, <1>4, <1>5, <1>8, CallKey
  <2> QED BY <2>1, <1>1, <1>7 DEF Undisturbed, Kept, loop
<1>9. ASSUME NEW k \in Keys \ raced, Works(todo[a], k) PROVE Kept(k)'
  <2>1. Mid(q, k)
    BY <1>2, <1>9 DEF ItemInv
  <2> QED BY <2>1, <1>1, <1>5 DEF Mid, Kept
<1>10. CallInv' /\ AloneInv' /\ ItemInv' /\ \A b \in Clients : todo'[b] \in Seq(Steps)
  BY <1>1, <1>2, <1>6, <1>8, <1>9, CallEnds
<1>11. TypeOK'
  <2>1. raced' \cup tied' \subseteq Keys
    BY <1>1 DEF TypeOK, Observe
  <2> QED BY <1>1, <1>7, <1>10, <2>1 DEF TypeOK, loop
<1>12. LoopInv'
  BY <1>1, <1>7 DEF LoopInv, loop
<1>13. NeverOversleeps'
  <2>1. ~Doing(a, "SignalWakeUp")
    BY DEF RemoveKey, Doing
  <2>2. \A b \in Clients : Doing(b, "SignalWakeUp") => Doing(b, "SignalWakeUp")'
    BY <1>1, <2>1, OthersSignal DEF Then
  <2>3. heap' # <<>> => heap # <<>>
    <3>1. heap = <<>> => DOMAIN heap = {}
      OBVIOUS
    <3> QED BY <3>1, <1>7
  <2> QED BY <1>1, <1>7, <2>2, <2>3, SleepSame DEF loop
<1> QED BY <1>10, <1>11, <1>12, <1>13

\* GC.Truncate empties the heap when every shard of the map has been emptied.
LEMMA TruncateHeapInv ==
  ASSUME LegacyInv, Observe, NEW a \in Clients, TruncateHeap(a)
  PROVE  LegacyInv'
<1> USE DEF LegacyInv
<1>1. /\ ~Idle(a) /\ Then(a, <<>>) /\ heap' = <<>> /\ timer' = Never
      /\ UNCHANGED <<items, wake, cancelled, pc, nowNano, flush, now, calls, tied>>
  BY DEF TruncateHeap, Doing
<1>2. PICK q : q = todo[a]
  OBVIOUS
<1>3. PICK r : r = Tail(q)
  OBVIOUS
<1>4. /\ q \in Seq(Steps) /\ q # <<>> /\ IsCall(q) /\ Head(q) = q[1] /\ Len(q) \in Nat \ {0}
  BY <1>1, <1>2, <1>3, SectionFacts
<1>5. q[1].op = "TruncateHeap" /\ q[1].op \in TruncateOps
  BY <1>2, <1>4 DEF TruncateHeap, Doing, TruncateOps
<1>6. Len(q) = 1
  <2>1. \A i \in 1 .. Len(q) - 1 : q[i].op = "TruncateShard"
    BY <1>4, <1>5 DEF IsCall
  <2>2. 1 \notin 1 .. Len(q) - 1
    BY <1>5, <2>1
  <2>3. PICK n : n = Len(q)
    OBVIOUS
  <2>4. n \in Nat \ {0} /\ 1 \notin 1 .. n - 1
    BY <1>4, <2>2, <2>3
  <2>5. n = 1
    BY ONLY <2>4
  <2> QED BY <2>3, <2>5
<1>7. DOMAIN heap' = {}
  BY <1>1
<1>8. ASSUME NEW k \in Keys \ raced PROVE Works(todo[a], k) /\ Kept(k)'
  <2>1. Works(q, k)
    BY <1>4, <1>5, CallKey
  <2>2. Mid(q, k)
    BY <1>2, <2>1 DEF ItemInv
  <2>3. k \notin DOMAIN items
    BY <2>2, <1>5, <1>6 DEF Mid
  <2> QED BY <1>1, <1>2, <2>1, <2>3 DEF Kept
<1>9. CallInv' /\ AloneInv' /\ ItemInv' /\ \A b \in Clients : todo'[b] \in Seq(Steps)
  BY <1>1, <1>2, <1>6, <1>8, CallEnds
<1>10. TypeOK'
  <2>1. raced' \cup tied' \subseteq Keys
    BY <1>1 DEF TypeOK, Observe
  <2> QED BY <1>1, <1>7, <1>9, <2>1 DEF TypeOK, Never
<1>11. LoopInv'
  BY <1>1 DEF LoopInv
<1>12. NeverOversleeps'
  BY <1>1 DEF NeverOversleeps
<1> QED BY <1>9, <1>10, <1>11, <1>12
-----------------------------------------------------------------------------
(* The loop and the clock.                                                 *)

\* A step of the loop that does not touch the map, and only moves the times the
\* loop knows.
LEMMA QuietLoop ==
  ASSUME LegacyInv, Observe, UNCHANGED <<items, heap, cancelled, flush, now, todo, calls, tied>>,
         UNCHANGED nowNano \/ flush = <<>>,
         timer' \in Nat, wake' \in BOOLEAN, nowNano' \in 0 .. now,
         pc' \in {"arm", "select", "process", "pop", "flush", "exit"},
         pc' # "flush" => flush = <<>>, NeverOversleeps'
  PROVE  LegacyInv'
<1> USE DEF LegacyInv
<1>1. now \in Nat /\ now <= now' /\ now' \in Nat
  <2>1. now \in Nat
    BY ItemTypes
  <2> QED BY <2>1
<1>2. ToSet(<<>>) = {}
  BY DEF ToSet
<1>3. \A k : Undisturbed(k)
  BY <1>2 DEF Undisturbed, Kept
<1>4. CallInv' /\ AloneInv' /\ ItemInv'
  BY <1>1, <1>3, LoopStep
<1>5. TypeOK'
  <2>1. raced' \cup tied' \subseteq Keys
    BY DEF TypeOK, Observe
  <2> QED BY <2>1 DEF TypeOK
<1>6. LoopInv'
  BY DEF LoopInv
<1> QED BY <1>4, <1>5, <1>6

\* The loop arms its timer for the root of the heap.
LEMMA ArmInv ==
  ASSUME LegacyInv, Observe, Arm
  PROVE  LegacyInv'
<1> USE DEF LegacyInv
<1>1. /\ UNCHANGED <<items, heap, wake, cancelled, nowNano, flush, now, todo, calls, tied>>
      /\ flush = <<>>
  BY DEF Arm, LoopInv
<1>2. now \in Nat /\ nowNano \in 0 .. now /\ \A k \in DOMAIN heap : heap[k] \in Nat /\ heap[k] > 0
  BY ItemTypes DEF TypeOK
<1>3. CASE pc' = "process" /\ UNCHANGED timer
  <2>1. NeverOversleeps'
    BY <1>3 DEF NeverOversleeps
  <2> QED BY <1>1, <1>2, <1>3, <2>1, QuietLoop DEF TypeOK
<1>4. CASE /\ pc' = "select"
           /\ timer' = IF heap = <<>> THEN now + Poll
                       ELSE heap[CHOOSE k \in Earliest(heap) : TRUE]
  <2>1. CASE heap = <<>>
    <3>1. timer' \in Nat
      BY <1>2, <1>4, <2>1, LegacyAssumption
    <3>2. NeverOversleeps'
      BY <1>1, <2>1 DEF NeverOversleeps
    <3> QED BY <1>1, <1>2, <1>4, <3>1, <3>2, QuietLoop DEF TypeOK
  <2>2. CASE heap # <<>>
    <3>1. DOMAIN heap # {}
      BY <2>2 DEF LoopInv
    <3>2. PICK e : e = (CHOOSE k \in Earliest(heap) : TRUE)
      OBVIOUS
    <3>3. e \in DOMAIN heap /\ \A j \in DOMAIN heap : heap[e] <= heap[j]
      BY <1>2, <3>1, <3>2, ChosenRoot
    <3>4. timer' = heap[e]
      BY <1>4, <2>2, <3>2
    <3>5. timer' \in Nat /\ timer' # Never
      BY <1>2, <3>3, <3>4 DEF Never
    <3>6. NeverOversleeps'
      BY <1>1, <3>3, <3>4, <3>5 DEF NeverOversleeps
    <3> QED BY <1>1, <1>2, <1>4, <3>5, <3>6, QuietLoop DEF TypeOK
  <2> QED BY <2>1, <2>2
<1> QED BY <1>3, <1>4 DEF Arm

LEMMA SelectInv ==
  ASSUME LegacyInv, Observe, SelectWake \/ SelectTimer \/ SelectDone
  PROVE  LegacyInv'
<1> USE DEF LegacyInv
<1>1. /\ UNCHANGED <<items, heap, cancelled, nowNano, flush, now, todo, calls, tied>>
      /\ flush = <<>> /\ timer' = Never /\ wake' \in BOOLEAN
      /\ pc' \in {"arm", "process", "exit"}
  BY DEF SelectWake, SelectTimer, SelectDone, LoopInv, TypeOK
<1>2. NeverOversleeps'
  BY <1>1 DEF NeverOversleeps
<1>3. nowNano' \in 0 .. now
  BY <1>1 DEF TypeOK
<1> QED BY <1>1, <1>2, <1>3, QuietLoop DEF Never

LEMMA ReadClockInv ==
  ASSUME LegacyInv, Observe, ReadClock
  PROVE  LegacyInv'
<1> USE DEF LegacyInv
<1>1. flush = <<>> /\ pc' = "pop" /\ nowNano' = now /\ timer' = timer /\ wake' = wake
      /\ UNCHANGED <<items, heap, cancelled, flush, now, todo, calls, tied>>
  BY DEF ReadClock, LoopInv
<1>2. NeverOversleeps'
  BY <1>1 DEF NeverOversleeps
<1>3. nowNano' \in 0 .. now
  BY <1>1, ItemTypes
<1> QED BY <1>1, <1>2, <1>3, QuietLoop DEF TypeOK

LEMMA FlushDoneInv ==
  ASSUME LegacyInv, Observe, FlushDone
  PROVE  LegacyInv'
<1> USE DEF LegacyInv
<1>1. flush = <<>> /\ pc' = "arm" /\ nowNano' = 0 /\ timer' = timer /\ wake' = wake
      /\ UNCHANGED <<items, heap, cancelled, flush, now, todo, calls, tied>>
  BY DEF FlushDone
<1>2. NeverOversleeps'
  BY <1>1 DEF NeverOversleeps
<1>3. nowNano' \in 0 .. now
  BY <1>1, ItemTypes
<1> QED BY <1>1, <1>2, <1>3, QuietLoop DEF TypeOK

\* What is taken off the heap is what is to be flushed.
LEMMA PopDueInv ==
  ASSUME LegacyInv, Observe, PopDue
  PROVE  LegacyInv'
<1> USE DEF LegacyInv
<1>1. /\ pc' = "flush" /\ flush = <<>> /\ heap' = Without(heap, Due(nowNano))
      /\ UNCHANGED <<items, wake, cancelled, timer, nowNano, now, todo, calls, tied>>
  BY DEF PopDue, LoopInv
<1>2. Due(nowNano) \subseteq Keys /\ IsFiniteSet(Due(nowNano))
  <2>1. Due(nowNano) \subseteq Keys
    BY DEF Due, TypeOK
  <2> QED BY <2>1, LegacyAssumption, FS_Subset
<1>3. PICK f : f = flush'
  OBVIOUS
<1>4. f \in Seq(Due(nowNano)) /\ ToSet(f) = Due(nowNano)
  BY <1>2, <1>3, Listing DEF PopDue
<1>5. f \in Seq(Keys)
  BY <1>2, <1>4, SeqMonotonic
<1>6. /\ DOMAIN heap' = DOMAIN heap \ Due(nowNano) /\ \A k \in DOMAIN heap' : heap'[k] = heap[k]
      /\ DOMAIN heap' = {} => heap' = <<>>
  BY <1>1 DEF Without
<1>7. ToSet(<<>>) = {}
  BY DEF ToSet
<1>8. /\ now \in Nat /\ now <= now' /\ now' \in Nat /\ nowNano \in Nat
      /\ \A k \in DOMAIN items : items[k] \in Nat
      /\ \A k \in DOMAIN heap : heap[k] \in Nat
  <2>1. now \in Nat
    BY ItemTypes
  <2> QED BY <2>1, <1>1, ItemTypes
<1>9. ASSUME NEW k PROVE Undisturbed(k)
  <2> SUFFICES ASSUME Kept(k), k \in DOMAIN items \ tied, items[k] > 0
               PROVE  \/ k \in DOMAIN heap' /\ heap'[k] >= items[k]
                      \/ k \in ToSet(f) /\ nowNano >= items[k]
    BY <1>1, <1>3 DEF Undisturbed, Kept
  <2>1. k \in DOMAIN heap /\ heap[k] >= items[k]
    BY <1>1, <1>7 DEF Kept
  <2>2. CASE k \in Due(nowNano)
    BY <1>4, <1>8, <2>1, <2>2 DEF Due
  <2>3. CASE k \notin Due(nowNano)
    BY <1>6, <2>1, <2>3
  <2> QED BY <2>2, <2>3
<1>10. CallInv' /\ AloneInv' /\ ItemInv'
  BY <1>1, <1>8, <1>9, LoopStep
<1>11. TypeOK'
  <2>1. raced' \cup tied' \subseteq Keys
    BY <1>1 DEF TypeOK, Observe
  <2> QED BY <1>1, <1>3, <1>5, <1>6, <2>1 DEF TypeOK
<1>12. LoopInv'
  BY <1>1, <1>6 DEF LoopInv
<1>13. NeverOversleeps'
  BY <1>1 DEF NeverOversleeps
<1> QED BY <1>10, <1>11, <1>12, <1>13

\* A key that is flushed in vain has a later time in the heap, or none to wait
\* for, or is a tie.
LEMMA FlushKeyInv ==
  ASSUME LegacyInv, Observe, FlushKey
  PROVE  LegacyInv'
<1> USE DEF LegacyInv
<1>1. /\ pc = "flush" /\ flush # <<>> /\ flush' = Tail(flush)
      /\ UNCHANGED <<heap, wake, cancelled, timer, pc, nowNano, now, todo, calls>>
  BY DEF FlushKey
<1>2. PICK h : h = Head(flush)
  OBVIOUS
<1>3. /\ h \in Keys /\ flush' \in Seq(Keys) /\ ToSet(flush) \subseteq {h} \cup ToSet(Tail(flush))
  <2>1. flush \in Seq(Keys)
    BY DEF TypeOK
  <2>2. Head(flush) \in Keys /\ Tail(flush) \in Seq(Keys)
    BY <1>1, <2>1, HeadAndTail
  <2>3. ToSet(flush) \subseteq {Head(flush)} \cup ToSet(Tail(flush))
    BY <1>1, <2>1, FlushRest
  <2> QED BY <1>1, <1>2, <2>2, <2>3
<1>4. /\ items' = IF h \in DOMAIN items /\ IsExpired(items[h], nowNano)
                  THEN Without(items, {h}) ELSE items
      /\ tied' = IF h \in DOMAIN items /\ items[h] = nowNano THEN tied \cup {h} ELSE tied
  BY <1>2 DEF FlushKey
<1>5. /\ \A k \in DOMAIN items' : k \in DOMAIN items /\ items'[k] = items[k]
      /\ h \in DOMAIN items' => ~IsExpired(items[h], nowNano)
      /\ tied \subseteq tied'
      /\ h \in DOMAIN items /\ items[h] = nowNano => h \in tied'
      /\ tied' \subseteq Keys
  BY <1>3, <1>4 DEF Without, TypeOK
<1>6. now \in Nat /\ now <= now' /\ now' \in Nat /\ nowNano \in Nat
      /\ \A k \in DOMAIN items : items[k] \in Nat
  <2>1. now \in Nat
    BY ItemTypes
  <2> QED BY <2>1, <1>1, ItemTypes
<1>7. ASSUME NEW k PROVE Undisturbed(k)
  <2> SUFFICES ASSUME Kept(k), k \in DOMAIN items' \ tied', items'[k] > 0
               PROVE  \/ k \in DOMAIN heap /\ heap[k] >= items'[k]
                      \/ k \in ToSet(Tail(flush)) /\ nowNano >= items'[k]
    BY <1>1, <1>5 DEF Undisturbed, Kept
  <2>1. k \in DOMAIN items \ tied /\ items'[k] = items[k] /\ items[k] \in Nat /\ items[k] > 0
    BY <1>5, <1>6
  <2>2. \/ k \in DOMAIN heap /\ heap[k] >= items[k]
        \/ k \in ToSet(flush) /\ nowNano >= items[k]
    BY <2>1 DEF Kept
  <2>3. CASE k = h /\ nowNano >= items[k]
    <3>1. ~(nowNano > items[k])
      BY <1>5, <2>1, <2>3 DEF IsExpired
    <3>2. items[k] = nowNano
      BY <1>6, <2>1, <2>3, <3>1
    <3> QED BY <1>5, <2>1, <2>3, <3>2
  <2>4. CASE k # h /\ k \in ToSet(flush) /\ nowNano >= items[k]
    BY <1>3, <2>1, <2>4
  <2> QED BY <2>1, <2>2, <2>3, <2>4
<1>8. CallInv' /\ AloneInv' /\ ItemInv'
  BY <1>1, <1>6, <1>7, LoopStep
<1>9. TypeOK'
  <2>1. raced' \cup tied' \subseteq Keys
    BY <1>5 DEF TypeOK, Observe
  <2>2. DOMAIN items' \subseteq Keys /\ \A k \in DOMAIN items' : items'[k] \in 0 .. now + Max(TTLs)
    BY <1>5 DEF TypeOK
  <2> QED BY <1>1, <1>3, <2>1, <2>2 DEF TypeOK
<1>10. LoopInv'
  BY <1>1 DEF LoopInv
<1>11. NeverOversleeps'
  BY <1>1 DEF NeverOversleeps
<1> QED BY <1>8, <1>9, <1>10, <1>11

LEMMA ClockTickInv ==
  ASSUME LegacyInv, Observe, ClockTick
  PROVE  LegacyInv'
<1> USE DEF LegacyInv
<1>1. /\ now \in Nat /\ now' = now + 1 /\ now' \in Nat /\ now <= now' /\ now' \in 1 .. MaxNow
      /\ Max(TTLs) \in Nat
      /\ UNCHANGED <<items, heap, wake, cancelled, loop, todo, calls, tied>>
  <2>1. now \in Nat /\ Max(TTLs) \in Nat
    BY ItemTypes
  <2> QED BY <2>1, LegacyAssumption DEF ClockTick, TypeOK
<1>2. \A k : Undisturbed(k)
  BY <1>1 DEF Undisturbed, Kept, loop
<1>3. CallInv' /\ AloneInv' /\ ItemInv'
  BY <1>1, <1>2, LoopStep
<1>4. TypeOK'
  <2>1. raced' \cup tied' \subseteq Keys
    BY <1>1 DEF TypeOK, Observe
  <2>2. /\ \A k \in DOMAIN items : items[k] \in 0 .. now' + Max(TTLs)
        /\ \A k \in DOMAIN heap : heap[k] \in 1 .. now' + Max(TTLs)
        /\ nowNano \in 0 .. now'
    BY <1>1 DEF TypeOK
  <2> QED BY <1>1, <2>1, <2>2 DEF TypeOK, loop
<1>5. LoopInv'
  BY <1>1 DEF LoopInv, loop
<1>6. NeverOversleeps'
  BY <1>1 DEF NeverOversleeps, Doing, Idle, loop
<1> QED BY <1>3, <1>4, <1>5, <1>6
-----------------------------------------------------------------------------
(* The theorems.                                                           *)

LEMMA InitLegacy == Init => LegacyInv
<1> SUFFICES ASSUME Init PROVE LegacyInv
  OBVIOUS
<1> USE DEF Init
<1>1. /\ DOMAIN items = {} /\ DOMAIN heap = {} /\ heap = <<>> /\ now \in 1 .. MaxNow
      /\ \A a \in Clients : todo[a] = <<>>
  BY LegacyAssumption
<1>2. <<>> \in Seq(Steps) /\ <<>> \in Seq(Keys)
  BY EmptySeq
<1>3. TypeOK
  <2>1. nowNano \in 0 .. now /\ calls \in 0 .. MaxCalls
    BY <1>1, LegacyAssumption
  <2>2. \A a \in Clients : todo[a] \in Seq(Steps)
    BY <1>1, <1>2
  <2>3. flush \in Seq(Keys) /\ timer \in Nat
    BY <1>2 DEF Never
  <2> QED BY <1>1, <2>1, <2>2, <2>3 DEF TypeOK
<1>4. CallInv /\ AloneInv
  BY <1>1, IdleWorks DEF CallInv, AloneInv
<1>5. LoopInv /\ NeverOversleeps
  BY <1>1 DEF LoopInv, NeverOversleeps
<1>6. ItemInv
  BY <1>1, IdleWorks DEF ItemInv, Kept
<1> QED BY <1>3, <1>4, <1>5, <1>6 DEF LegacyInv

\* The sections of all calls, the loop and the clock, in any order.
THEOREM LegacyInvariant == Spec => []LegacyInv
<1>1. LegacyInv /\ [Next]_vars => LegacyInv'
  <2>1. ASSUME LegacyInv, Next PROVE LegacyInv'
    <3>0. Observe
      BY <2>1 DEF Next
    <3>1. ASSUME NEW a \in Clients, CallNext(a) PROVE LegacyInv'
      BY <2>1, <3>0, <3>1, SetInv, RemoveItemInv, TruncateInv, CloseInv DEF CallNext
    <3>2. ASSUME NEW a \in Clients, ClientStep(a) PROVE LegacyInv'
      BY <2>1, <3>0, <3>2, InsertItemInv, DeleteItemInv, ExpiredAtInv, ScheduleInv,
         SignalWakeUpInv, RemoveKeyInv, TruncateHeapInv DEF ClientStep
    <3>3. ASSUME LoopNext PROVE LegacyInv'
      BY <2>1, <3>0, <3>3, ArmInv, SelectInv, ReadClockInv, PopDueInv, FlushKeyInv,
         FlushDoneInv DEF LoopNext
    <3>4. ASSUME ClockTick PROVE LegacyInv'
      BY <2>1, <3>0, <3>4, ClockTickInv
    <3> QED BY <2>1, <3>1, <3>2, <3>3, <3>4 DEF Next
  <2>2. LegacyInv /\ UNCHANGED vars => LegacyInv'
    BY DEF vars, loop, LegacyInv, TypeOK, CallInv, IsCall, AloneInv, LoopInv, NeverOversleeps,
           ItemInv, Working, Works, Mid, Kept, Doing, Idle
  <2> QED BY <2>1, <2>2
<1> QED BY <1>1, InitLegacy, PTL DEF Spec

\* Types: in particular no expiration is further ahead of the clock than the
\* longest TTL.
THEOREM LegacyType == Spec => []TypeOK
<1>1. LegacyInv => TypeOK
  BY DEF LegacyInv
<1> QED BY <1>1, LegacyInvariant, PTL

\* The loop sleeps no longer than until the root of the heap, or a wake-up is
\* on its way, however many clients schedule, remove and truncate.
THEOREM LoopAwake == Spec => []NeverOversleeps
<1>1. LegacyInv => NeverOversleeps
  BY DEF LegacyInv
<1> QED BY <1>1, LegacyInvariant, PTL

\* The heap and the map disagree about an item with a TTL only where calls have
\* raced or the clock stood exactly at its ExpireAt.
THEOREM ForgottenOnTie == Spec => []ForgottenOnlyByTie
<1>1. LegacyInv => ForgottenOnlyByTie
  BY DEF LegacyInv, TypeOK, ItemInv, Kept, ForgottenOnlyByTie
<1> QED BY <1>1, LegacyInvariant, PTL
=============================================================================
