-------------------------- MODULE RingBufferProofs --------------------------
(***************************************************************************)
(* Proofs about RingBuffer, for any number of producers and consumers, any *)
(* number of calls and any capacity of at least two.  NewRingBuffer also   *)
(* accepts a capacity of one, for which the safety theorems are false; the *)
(* type theorem needs no such assumption.                                  *)
(*                                                                         *)
(* The argument: at any time the tickets head .. head + Capacity - 1 own   *)
(* the slots, one each (SlotDistinct), and RingInv says how far each of    *)
(* them has come and which goroutine, if any, is working on it.            *)
(***************************************************************************)
EXTENDS RingBuffer, TLAPS

\* The index an operation computes is an index of rb.data.
LEMMA SlotType ==
  ASSUME NEW t \in Nat
  PROVE  Slot(t) \in Slots
BY RingAssumption DEF Slot, Slots

\* t & mask is the remainder of a division by the capacity.
LEMMA Division ==
  ASSUME NEW t \in Nat
  PROVE  \E q \in Nat : t = Capacity * q + Slot(t)
<1>1. t \div Capacity \in Nat
  BY RingAssumption
<1>2. t = Capacity * (t \div Capacity) + Slot(t)
  BY RingAssumption DEF Slot
<1> QED BY <1>1, <1>2

\* Multiples of c are at least c apart.
LEMMA ProductGap ==
  ASSUME NEW c \in Nat \ {0}, NEW q \in Nat, NEW r \in Nat, q < r
  PROVE  c * q + c <= c * r
<1>1. PICK k \in Nat : r = q + 1 + k
  <2>1. r - q - 1 \in Nat /\ r = q + 1 + (r - q - 1)
    OBVIOUS
  <2> QED BY <2>1
<1>2. c * r = c * q + c + c * k
  BY <1>1
<1>3. c * k >= 0
  OBVIOUS
<1> QED BY <1>2, <1>3

\* Tickets less than a capacity apart have different slots.
LEMMA SlotDistinct ==
  ASSUME NEW t \in Nat, NEW u \in Nat, t < u, u < t + Capacity
  PROVE  Slot(t) # Slot(u)
<1> SUFFICES ASSUME Slot(t) = Slot(u) PROVE FALSE
  OBVIOUS
<1>0. Capacity \in Nat \ {0}
  BY RingAssumption
<1>1. PICK q \in Nat : t = Capacity * q + Slot(t)
  BY Division
<1>2. PICK r \in Nat : u = Capacity * r + Slot(u)
  BY Division
<1>3. Slot(t) \in Nat /\ Slot(u) \in Nat
  BY <1>0, SlotType DEF Slots
<1>4. Capacity * q \in Nat /\ Capacity * r \in Nat
  BY <1>0
<1>5. CASE q < r
  <2>1. Capacity * q + Capacity <= Capacity * r
    BY <1>0, <1>5, ProductGap
  <2> QED BY <2>1, <1>0, <1>1, <1>2, <1>3, <1>4
<1>6. CASE r < q
  <2>1. Capacity * r + Capacity <= Capacity * q
    BY <1>0, <1>6, ProductGap
  <2> QED BY <2>1, <1>0, <1>1, <1>2, <1>3, <1>4
<1>7. CASE r = q
  BY <1>0, <1>1, <1>2, <1>3, <1>4, <1>7
<1> QED BY <1>5, <1>6, <1>7

\* A ticket and its successor one round later share a slot.
LEMMA SlotPeriod ==
  ASSUME NEW t \in Nat
  PROVE  Slot(t + Capacity) = Slot(t)
<1>0. Capacity \in Nat \ {0}
  BY RingAssumption
<1>1. PICK q \in Nat : t = Capacity * q + Slot(t)
  BY Division
<1>2. PICK r \in Nat : t + Capacity = Capacity * r + Slot(t + Capacity)
  <2>1. t + Capacity \in Nat
    BY <1>0
  <2> QED BY ONLY <2>1, Division
<1>3. Slot(t) \in 0 .. Capacity - 1 /\ Slot(t + Capacity) \in 0 .. Capacity - 1
  BY <1>0, SlotType DEF Slots
<1>4. Capacity * q \in Nat /\ Capacity * r \in Nat
  BY <1>0
<1>5. Capacity * (q + 1) = Capacity * q + Capacity
  BY <1>0
<1>6. CASE q + 1 < r
  <2>1. Capacity * (q + 1) + Capacity <= Capacity * r
    BY <1>0, <1>6, ProductGap
  <2> QED BY <2>1, <1>0, <1>1, <1>2, <1>3, <1>4, <1>5
<1>7. CASE r < q + 1
  <2>1. Capacity * r + Capacity <= Capacity * (q + 1)
    BY <1>0, <1>7, ProductGap
  <2> QED BY <2>1, <1>0, <1>1, <1>2, <1>3, <1>4, <1>5
<1>8. CASE r = q + 1
  BY <1>0, <1>1, <1>2, <1>3, <1>4, <1>5, <1>8
<1> QED BY <1>6, <1>7, <1>8
-----------------------------------------------------------------------------
\* NewRingBuffer establishes the types.
LEMMA InitType == Init => TypeOK
BY RingAssumption DEF Init, TypeOK, Items, Slots

\* A step of Push preserves the types.
LEMMA PushType ==
  ASSUME TypeOK, NEW p \in Producers, Push(p)
  PROVE  TypeOK'
<1> USE RingAssumption DEF TypeOK, shared, producerVars, consumerVars
<1>1. Item(p) \in Items
  BY DEF Item, Items
<1>2. Slot(ptail[p]) \in Slots
  BY SlotType
<1>3. CASE PushCall(p)
  BY <1>3 DEF PushCall
<1>4. CASE PushLoadTail(p)
  BY <1>4 DEF PushLoadTail
<1>5. CASE PushLoadSeq(p)
  BY <1>5 DEF PushLoadSeq
<1>6. CASE PushCAS(p)
  BY <1>1, <1>6 DEF PushCAS
<1>7. CASE PushCASFails(p)
  BY <1>7 DEF PushCASFails
<1>8. CASE PushWrite(p)
  BY <1>1, <1>2, <1>8 DEF PushWrite
<1>9. CASE PushPublish(p)
  BY <1>2, <1>9 DEF PushPublish
<1> QED BY <1>3, <1>4, <1>5, <1>6, <1>7, <1>8, <1>9 DEF Push

\* A step of Pop preserves the types.
LEMMA PopType ==
  ASSUME TypeOK, NEW c \in Consumers, Pop(c)
  PROVE  TypeOK'
<1> USE RingAssumption DEF TypeOK, shared, producerVars, consumerVars
<1>1. Slot(chead[c]) \in Slots
  BY SlotType
<1>2. CASE PopLoadHead(c)
  BY <1>2 DEF PopLoadHead
<1>3. CASE PopLoadSeq(c)
  BY <1>3 DEF PopLoadSeq
<1>4. CASE PopCAS(c)
  BY <1>4 DEF PopCAS
<1>5. CASE PopCASFails(c)
  BY <1>5 DEF PopCASFails
<1>6. CASE PopRead(c)
  BY <1>1, <1>6 DEF PopRead
<1>7. CASE PopClear(c)
  BY <1>1, <1>7 DEF PopClear
<1>8. CASE PopFree(c)
  BY <1>1, <1>8 DEF PopFree, FreedSeq
<1> QED BY <1>2, <1>3, <1>4, <1>5, <1>6, <1>7, <1>8 DEF Pop

\* Every variable keeps its type, whatever the capacity: in particular no
\* counter becomes negative and no slot outside rb.data is written.
THEOREM TypeCorrect == Spec => []TypeOK
<1>1. TypeOK /\ [Next]_vars => TypeOK'
  <2>1. TypeOK /\ Next => TypeOK'
    BY PushType, PopType DEF Next
  <2>2. TypeOK /\ UNCHANGED vars => TypeOK'
    BY DEF vars, shared, producerVars, consumerVars, TypeOK
  <2> QED BY <2>1, <2>2
<1> QED BY <1>1, InitType, PTL DEF Spec
-----------------------------------------------------------------------------
\* SlotDistinct without a fixed order of the two tickets.
LEMMA SlotsApart ==
  ASSUME NEW t \in Nat, NEW u \in Nat,
         t # u, t < u + Capacity, u < t + Capacity
  PROVE  Slot(t) # Slot(u)
<1>1. CASE t < u
  BY <1>1, SlotDistinct
<1>2. CASE u < t
  BY <1>2, SlotDistinct
<1> QED BY <1>1, <1>2

\* In the first round a ticket is the index of its slot.
LEMMA SlotOfIndex ==
  ASSUME NEW t \in Slots
  PROVE  Slot(t) = t
<1>0. Capacity \in Nat \ {0} /\ t \in Nat /\ t < Capacity
  BY RingAssumption DEF Slots
<1>1. PICK q \in Nat : t = Capacity * q + Slot(t)
  BY <1>0, Division
<1>2. Slot(t) \in Nat
  BY <1>0, SlotType DEF Slots
<1>3. CASE q = 0
  BY <1>0, <1>1, <1>2, <1>3
<1>4. CASE 0 < q
  <2>1. Capacity * 0 + Capacity <= Capacity * q
    BY <1>0, <1>4, ProductGap
  <2> QED BY <2>1, <1>0, <1>1, <1>2
<1> QED BY <1>3, <1>4

\* NewRingBuffer establishes the invariant: every slot is free.
LEMMA InitInv == Init => RingInv
<1> SUFFICES ASSUME Init PROVE RingInv
  OBVIOUS
<1> USE RingAssumption DEF Init
<1>1. \A t \in Slots : Slot(t) = t
  BY SlotOfIndex
<1>2. ClaimableTickets
  BY <1>1 DEF ClaimableTickets, Slots
<1> QED BY <1>2 DEF RingInv, NeverOverfull, PendingTickets, WriterTickets,
        DrainerTickets, BeforeCAS, PassedTickets, PopsInClaimOrder, Writing,
        Draining

\* A step of a Push that holds no ticket disturbs nothing but what that Push
\* knows about the indices.
LEMMA PushLocal ==
  ASSUME RingInv, NEW p \in Producers,
         UNCHANGED <<shared, consumerVars, log, popped>>,
         ~Writing(p), ~Writing(p)',
         \A q \in Producers \ {p} :
           ppc'[q] = ppc[q] /\ ptail'[q] = ptail[q] /\ sent'[q] = sent[q],
         ppc'[p] \in {"loadSeq", "cas"} =>
           /\ ptail'[p] <= tail
           /\ ppc'[p] = "cas" /\ ptail'[p] = tail =>
                tail < head + Capacity /\ seq[Slot(tail)] = tail
  PROVE  RingInv'
<1> USE DEF RingInv, shared, consumerVars
<1>1. \A q \in Producers : Writing(q)' <=> Writing(q)
  BY DEF Writing
<1>2. \A q \in Producers : Writing(q) =>
        ptail'[q] = ptail[q] /\ ppc'[q] = ppc[q] /\ Item(q)' = Item(q)
  BY DEF Writing, Item
<1>3. \A c \in Consumers : Draining(c)' <=> Draining(c)
  BY DEF Draining
<1>4. PendingTickets'
  BY <1>1, <1>2 DEF PendingTickets
<1>5. ClaimableTickets' /\ DrainerTickets' /\ NeverOverfull'
  BY <1>3 DEF ClaimableTickets, DrainerTickets, NeverOverfull
<1>6. WriterTickets'
  BY <1>1, <1>2 DEF WriterTickets
<1>7. BeforeCAS' /\ PassedTickets'
  BY DEF BeforeCAS, PassedTickets
<1>8. PopsInClaimOrder'
  BY <1>3 DEF PopsInClaimOrder
<1> QED BY <1>4, <1>5, <1>6, <1>7, <1>8

\* A step of a Pop that holds no ticket disturbs nothing but what that Pop
\* knows about the indices.
LEMMA PopLocal ==
  ASSUME RingInv, NEW c \in Consumers,
         UNCHANGED <<shared, producerVars, log, popped>>,
         ~Draining(c), ~Draining(c)',
         \A d \in Consumers \ {c} :
           cpc'[d] = cpc[d] /\ chead'[d] = chead[d] /\ cval'[d] = cval[d],
         cpc'[c] \in {"loadSeq", "cas"} =>
           /\ chead'[c] <= head
           /\ cpc'[c] = "cas" /\ chead'[c] = head =>
                head < tail /\ seq[Slot(head)] = head + 1
  PROVE  RingInv'
<1> USE DEF RingInv, shared, producerVars
<1>1. \A d \in Consumers : Draining(d)' <=> Draining(d)
  BY DEF Draining
<1>2. \A d \in Consumers : Draining(d) =>
        chead'[d] = chead[d] /\ cpc'[d] = cpc[d] /\ cval'[d] = cval[d]
  OBVIOUS
<1>3. \A q \in Producers : (Writing(q)' <=> Writing(q)) /\ Item(q)' = Item(q)
  BY DEF Writing, Item
<1>4. PendingTickets' /\ WriterTickets' /\ NeverOverfull'
  BY <1>3 DEF PendingTickets, WriterTickets, NeverOverfull
<1>5. ClaimableTickets'
  BY <1>1, <1>2 DEF ClaimableTickets
<1>6. DrainerTickets'
  BY <1>1, <1>2 DEF DrainerTickets
<1>7. BeforeCAS' /\ PassedTickets'
  BY DEF BeforeCAS, PassedTickets
<1>8. PopsInClaimOrder'
  BY <1>1, <1>2 DEF PopsInClaimOrder
<1> QED BY <1>4, <1>5, <1>6, <1>7, <1>8

\* The part of TypeOK that arithmetic needs; the provers are distracted by the
\* rest of it.
Counters ==
  /\ seq \in [Slots -> Nat]
  /\ head \in Nat /\ tail \in Nat
  /\ ptail \in [Producers -> Nat]
  /\ chead \in [Consumers -> Nat]

\* A slot whose sequence number is the tail is not the slot of a pending ticket.
LEMMA FreshTail ==
  ASSUME Capacity >= 2, TypeOK, RingInv, seq[Slot(tail)] = tail
  PROVE  tail < head + Capacity
<1> Counters
  BY DEF TypeOK, Counters
<1> USE RingAssumption DEF Counters
<1> SUFFICES ASSUME tail = head + Capacity PROVE FALSE
  BY DEF RingInv, NeverOverfull
<1>1. Slot(tail) = Slot(head)
  BY SlotPeriod
<1>2. seq[Slot(head)] = head + 1 \/ seq[Slot(head)] = head
  BY DEF RingInv, PendingTickets, WriterTickets
<1> QED BY <1>1, <1>2

\* A slot whose sequence number is head + 1 holds a pending ticket.
LEMMA FreshHead ==
  ASSUME Capacity >= 2, TypeOK, RingInv, seq[Slot(head)] = head + 1
  PROVE  head < tail
<1> Counters
  BY DEF TypeOK, Counters
<1> USE RingAssumption DEF Counters
<1> SUFFICES ASSUME tail = head PROVE FALSE
  BY DEF RingInv, NeverOverfull
<1>0. tail \in tail .. head + Capacity - 1 /\ seq[Slot(tail)] # tail
  OBVIOUS
<1>1. PICK c \in Consumers : Draining(c) /\ chead[c] = tail - Capacity
  BY <1>0 DEF RingInv, ClaimableTickets
<1>2. Slot(chead[c] + Capacity) = Slot(chead[c])
  BY SlotPeriod
<1>3. seq[Slot(chead[c])] = chead[c] + 1
  BY <1>1 DEF RingInv, DrainerTickets
<1> QED BY <1>1, <1>2, <1>3

\* The steps of Push up to a failed compare-and-swap.
LEMMA PushBeforeCASInv ==
  ASSUME Capacity >= 2, TypeOK, RingInv, NEW p \in Producers,
         PushCall(p) \/ PushLoadTail(p) \/ PushLoadSeq(p) \/ PushCASFails(p)
  PROVE  RingInv'
<1> USE RingAssumption DEF TypeOK, shared
<1>1. ~Writing(p) /\ ~Writing(p)'
  BY DEF Writing, PushCall, PushLoadTail, PushLoadSeq, PushCASFails
<1>2. UNCHANGED <<shared, consumerVars, log, popped>>
  BY DEF PushCall, PushLoadTail, PushLoadSeq, PushCASFails
<1>3. \A q \in Producers \ {p} :
        ppc'[q] = ppc[q] /\ ptail'[q] = ptail[q] /\ sent'[q] = sent[q]
  BY DEF PushCall, PushLoadTail, PushLoadSeq, PushCASFails
<1>4. CASE PushCall(p) \/ PushCASFails(p)
  <2>1. ppc'[p] = "loadTail"
    BY <1>4 DEF PushCall, PushCASFails
  <2> QED BY <2>1, <1>1, <1>2, <1>3, PushLocal
<1>5. CASE PushLoadTail(p)
  <2>1. ppc'[p] = "loadSeq" /\ ptail'[p] <= tail
    BY <1>5 DEF PushLoadTail
  <2> QED BY <2>1, <1>1, <1>2, <1>3, PushLocal
<1>6. CASE PushLoadSeq(p)
  <2>1. ptail'[p] = ptail[p] /\ ptail[p] <= tail
    BY <1>6 DEF PushLoadSeq, RingInv, BeforeCAS
  <2>2. ppc'[p] = "cas" => seq[Slot(ptail[p])] = ptail[p]
    BY <1>6 DEF PushLoadSeq
  <2>3. ppc'[p] = "cas" /\ ptail'[p] = tail =>
          tail < head + Capacity /\ seq[Slot(tail)] = tail
    BY <2>1, <2>2, FreshTail
  <2> QED BY <2>1, <2>3, <1>1, <1>2, <1>3, PushLocal
<1> QED BY <1>4, <1>5, <1>6

\* The steps of Pop up to a failed compare-and-swap.
LEMMA PopBeforeCASInv ==
  ASSUME Capacity >= 2, TypeOK, RingInv, NEW c \in Consumers,
         PopLoadHead(c) \/ PopLoadSeq(c) \/ PopCASFails(c)
  PROVE  RingInv'
<1> USE RingAssumption DEF TypeOK, shared
<1>1. ~Draining(c) /\ ~Draining(c)'
  BY DEF Draining, PopLoadHead, PopLoadSeq, PopCASFails
<1>2. UNCHANGED <<shared, producerVars, log, popped>>
  BY DEF PopLoadHead, PopLoadSeq, PopCASFails
<1>3. \A d \in Consumers \ {c} :
        cpc'[d] = cpc[d] /\ chead'[d] = chead[d] /\ cval'[d] = cval[d]
  BY DEF PopLoadHead, PopLoadSeq, PopCASFails
<1>4. CASE PopCASFails(c)
  <2>1. cpc'[c] = "retry"
    BY <1>4 DEF PopCASFails
  <2> QED BY <2>1, <1>1, <1>2, <1>3, PopLocal
<1>5. CASE PopLoadHead(c)
  <2>1. cpc'[c] = "loadSeq" /\ chead'[c] <= head
    BY <1>5 DEF PopLoadHead
  <2> QED BY <2>1, <1>1, <1>2, <1>3, PopLocal
<1>6. CASE PopLoadSeq(c)
  <2>1. chead'[c] = chead[c] /\ chead[c] <= head
    BY <1>6 DEF PopLoadSeq, RingInv, BeforeCAS
  <2>2. cpc'[c] = "cas" => seq[Slot(chead[c])] = chead[c] + 1
    BY <1>6 DEF PopLoadSeq
  <2>3. cpc'[c] = "cas" /\ chead'[c] = head =>
          head < tail /\ seq[Slot(head)] = head + 1
    BY <2>1, <2>2, FreshHead
  <2> QED BY <2>1, <2>3, <1>1, <1>2, <1>3, PopLocal
<1> QED BY <1>4, <1>5, <1>6

\* The claim moves one ticket from claimable to pending, owned by its Push.
LEMMA PushCASInv ==
  ASSUME Capacity >= 2, TypeOK, RingInv, NEW p \in Producers, PushCAS(p)
  PROVE  RingInv'
<1> Counters
  BY DEF TypeOK, Counters
<1> USE RingAssumption DEF Counters
<1>1. /\ ptail[p] = tail /\ tail < head + Capacity /\ seq[Slot(tail)] = tail
      /\ head <= tail
  BY DEF PushCAS, RingInv, BeforeCAS, NeverOverfull
<1>2. /\ tail' = tail + 1
      /\ UNCHANGED <<seq, value, head, sent, ptail, cpc, chead, cval, popped>>
  BY DEF PushCAS, consumerVars
<1>3. /\ Len(log') = tail'
      /\ \A t \in 0 .. tail - 1 : log'[t + 1] = log[t + 1]
      /\ log'[tail + 1] = Item(p)
  <2>1. Item(p) \in Items
    BY DEF TypeOK, Item, Items
  <2> QED BY <2>1 DEF PushCAS, RingInv
<1>4. /\ Writing(p)' /\ ~Writing(p) /\ ppc'[p] = "write"
      /\ \A q \in Producers \ {p} : (Writing(q)' <=> Writing(q)) /\ ppc'[q] = ppc[q]
      /\ \A q \in Producers : Item(q)' = Item(q)
      /\ \A c \in Consumers : Draining(c)' <=> Draining(c)
  BY <1>2 DEF TypeOK, PushCAS, Writing, Draining, Item
<1>5. NeverOverfull'
  BY <1>1, <1>2 DEF NeverOverfull
<1>6. PendingTickets'
  <2> SUFFICES ASSUME NEW t \in head .. tail
               PROVE  \/ seq[Slot(t)] = t + 1 /\ value[Slot(t)] = log'[t + 1]
                      \/ \E q \in Producers : Writing(q)' /\ ptail[q] = t
    BY <1>2 DEF PendingTickets
  <2>1. CASE t = tail
    BY <2>1, <1>1, <1>4
  <2>2. CASE t \in head .. tail - 1
    BY <2>2, <1>3, <1>4 DEF RingInv, PendingTickets
  <2> QED BY <2>1, <2>2
<1>7. ClaimableTickets'
  <2> SUFFICES ASSUME NEW t \in tail + 1 .. head + Capacity - 1
               PROVE  \/ seq[Slot(t)] = t
                      \/ \E c \in Consumers : Draining(c) /\ chead[c] = t - Capacity
    BY <1>2, <1>4 DEF ClaimableTickets
  <2>1. t \in tail .. head + Capacity - 1
    OBVIOUS
  <2> QED BY <2>1 DEF RingInv, ClaimableTickets
<1>8. WriterTickets'
  BY <1>1, <1>2, <1>3, <1>4 DEF RingInv, WriterTickets
<1>9. DrainerTickets'
  <2> SUFFICES ASSUME NEW c \in Consumers, Draining(c)
               PROVE  /\ chead[c] < head /\ tail + 1 <= chead[c] + Capacity
                      /\ seq[Slot(chead[c])] = chead[c] + 1
                      /\ cpc[c] = "read" => value[Slot(chead[c])] = log'[chead[c] + 1]
                      /\ cpc[c] # "read" => cval[c] = log'[chead[c] + 1]
    BY <1>2, <1>4 DEF DrainerTickets
  <2>1. tail # chead[c] + Capacity
    <3> SUFFICES ASSUME tail = chead[c] + Capacity PROVE FALSE
      OBVIOUS
    <3>1. Slot(tail) = Slot(chead[c])
      BY SlotPeriod
    <3> QED BY <3>1, <1>1 DEF RingInv, DrainerTickets
  <2>2. chead[c] \in 0 .. tail - 1 /\ tail <= chead[c] + Capacity
    BY <1>1 DEF RingInv, DrainerTickets
  <2>3. log'[chead[c] + 1] = log[chead[c] + 1] /\ tail + 1 <= chead[c] + Capacity
    <3>1. tail + 1 <= chead[c] + Capacity
      <4>1. tail \in Nat /\ Capacity \in Nat
        OBVIOUS
      <4> QED BY ONLY <4>1, <2>1, <2>2
    <3> QED BY ONLY <3>1, <2>2, <1>3
  <2> QED BY <2>3 DEF RingInv, DrainerTickets
<1>10. BeforeCAS'
  BY <1>1, <1>2, <1>4 DEF RingInv, BeforeCAS, PushCAS
<1>11. PopsInClaimOrder'
  <2>1. \A r \in popped : r[1] \in 0 .. tail - 1
    BY <1>1 DEF TypeOK, RingInv, PopsInClaimOrder
  <2> QED BY <2>1, <1>2, <1>3, <1>4 DEF RingInv, PopsInClaimOrder
<1>12. PassedTickets'
  BY <1>1, <1>2 DEF RingInv, PassedTickets
<1> QED BY <1>12, <1>3, <1>5, <1>6, <1>7, <1>8, <1>9, <1>10, <1>11 DEF RingInv

\* The plain store of the item touches no slot but the Push's own.
LEMMA PushWriteInv ==
  ASSUME Capacity >= 2, TypeOK, RingInv, NEW p \in Producers, PushWrite(p)
  PROVE  RingInv'
<1> Counters
  BY DEF TypeOK, Counters
<1> USE RingAssumption DEF Counters
<1>1. /\ UNCHANGED <<seq, head, tail, sent, ptail, cpc, chead, cval, log, popped>>
      /\ value' = [value EXCEPT ![Slot(ptail[p])] = Item(p)]
  BY DEF PushWrite, consumerVars
<1>2. /\ Writing(p) /\ ppc'[p] = "publish"
      /\ \A q \in Producers \ {p} : ppc'[q] = ppc[q]
      /\ \A q \in Producers : (Writing(q)' <=> Writing(q)) /\ Item(q)' = Item(q)
      /\ \A c \in Consumers : Draining(c)' <=> Draining(c)
  BY <1>1 DEF TypeOK, PushWrite, Writing, Draining, Item
<1>3. /\ head <= ptail[p] /\ ptail[p] < tail /\ tail <= head + Capacity
      /\ Slot(ptail[p]) \in Slots
  BY <1>2, SlotType DEF RingInv, WriterTickets, NeverOverfull
<1>4. \A u \in Nat : u # ptail[p] /\ tail <= u + Capacity /\ u < head + Capacity
        => value'[Slot(u)] = value[Slot(u)]
  <2> SUFFICES ASSUME NEW u \in Nat, u # ptail[p],
                      tail <= u + Capacity, u < head + Capacity
               PROVE  value'[Slot(u)] = value[Slot(u)]
    OBVIOUS
  <2>1. Slot(u) # Slot(ptail[p])
    BY <1>3, SlotsApart
  <2> QED BY <2>1, <1>1
<1>5. PendingTickets'
  <2> SUFFICES ASSUME NEW t \in head .. tail - 1
               PROVE  \/ seq[Slot(t)] = t + 1 /\ value'[Slot(t)] = log[t + 1]
                      \/ \E q \in Producers : Writing(q) /\ ptail[q] = t
    BY <1>1, <1>2 DEF PendingTickets
  <2>1. t \in Nat /\ tail <= t + Capacity /\ t < head + Capacity
    BY <1>3
  <2>2. t # ptail[p] => value'[Slot(t)] = value[Slot(t)]
    BY <2>1, <1>4
  <2> QED BY <2>2, <1>2 DEF RingInv, PendingTickets
<1>6. ClaimableTickets' /\ NeverOverfull'
  BY <1>1, <1>2 DEF RingInv, ClaimableTickets, NeverOverfull
<1>7. WriterTickets'
  BY <1>1, <1>2, <1>3, <1>4 DEF TypeOK, RingInv, WriterTickets
<1>8. DrainerTickets'
  <2>1. \A c \in Consumers : Draining(c) =>
          value'[Slot(chead[c])] = value[Slot(chead[c])]
    <3> SUFFICES ASSUME NEW c \in Consumers, Draining(c)
                 PROVE  value'[Slot(chead[c])] = value[Slot(chead[c])]
      OBVIOUS
    <3>1. chead[c] < head /\ tail <= chead[c] + Capacity
      BY DEF RingInv, DrainerTickets
    <3>2. chead[c] # ptail[p] /\ chead[c] < head + Capacity
      BY <3>1, <1>3
    <3> QED BY <3>1, <3>2, <1>4
  <2> QED BY <2>1, <1>1, <1>2 DEF RingInv, DrainerTickets
<1>9. BeforeCAS'
  BY <1>1, <1>2 DEF RingInv, BeforeCAS
<1>10. PopsInClaimOrder'
  BY <1>1, <1>2 DEF RingInv, PopsInClaimOrder
<1>11. PassedTickets'
  BY <1>1 DEF RingInv, PassedTickets
<1> QED BY <1>11, <1>1, <1>5, <1>6, <1>7, <1>8, <1>9, <1>10 DEF RingInv

\* The store of tail + 1 publishes the Push's own ticket and no other.
LEMMA PushPublishInv ==
  ASSUME Capacity >= 2, TypeOK, RingInv, NEW p \in Producers, PushPublish(p)
  PROVE  RingInv'
<1> Counters
  BY DEF TypeOK, Counters
<1> USE RingAssumption DEF Counters
<1>1. /\ UNCHANGED <<value, head, tail, sent, ptail, cpc, chead, cval, log, popped>>
      /\ seq' = [seq EXCEPT ![Slot(ptail[p])] = ptail[p] + 1]
  BY DEF PushPublish, consumerVars
<1>2. /\ Writing(p) /\ ~Writing(p)' /\ ppc[p] = "publish" /\ ppc'[p] = "idle"
      /\ \A q \in Producers \ {p} : (Writing(q)' <=> Writing(q)) /\ ppc'[q] = ppc[q]
      /\ \A q \in Producers : Item(q)' = Item(q)
      /\ \A c \in Consumers : Draining(c)' <=> Draining(c)
  BY <1>1 DEF TypeOK, PushPublish, Writing, Draining, Item
<1>3. /\ head <= ptail[p] /\ ptail[p] < tail /\ tail <= head + Capacity
      /\ Slot(ptail[p]) \in Slots
      /\ value[Slot(ptail[p])] = log[ptail[p] + 1]
  BY <1>2, SlotType DEF RingInv, WriterTickets, NeverOverfull
<1>4. \A u \in Nat : u # ptail[p] /\ tail <= u + Capacity /\ u < head + Capacity
        => seq'[Slot(u)] = seq[Slot(u)]
  <2> SUFFICES ASSUME NEW u \in Nat, u # ptail[p],
                      tail <= u + Capacity, u < head + Capacity
               PROVE  seq'[Slot(u)] = seq[Slot(u)]
    OBVIOUS
  <2>1. Slot(u) # Slot(ptail[p])
    BY <1>3, SlotsApart
  <2> QED BY <2>1, <1>1
<1>5. PendingTickets'
  <2> SUFFICES ASSUME NEW t \in head .. tail - 1
               PROVE  \/ seq'[Slot(t)] = t + 1 /\ value[Slot(t)] = log[t + 1]
                      \/ \E q \in Producers : Writing(q)' /\ ptail[q] = t
    BY <1>1 DEF PendingTickets
  <2>1. t \in Nat /\ tail <= t + Capacity /\ t < head + Capacity
    BY <1>3
  <2>2. CASE t = ptail[p]
    BY <2>2, <1>1, <1>3
  <2>3. CASE t # ptail[p]
    <3>1. seq'[Slot(t)] = seq[Slot(t)]
      BY <2>1, <2>3, <1>4
    <3> QED BY <3>1, <2>3, <1>2 DEF RingInv, PendingTickets
  <2> QED BY <2>2, <2>3
<1>6. ClaimableTickets' /\ NeverOverfull'
  <2> SUFFICES ASSUME NEW t \in tail .. head + Capacity - 1
               PROVE  \/ seq'[Slot(t)] = t
                      \/ \E c \in Consumers : Draining(c) /\ chead[c] = t - Capacity
    BY <1>1, <1>2 DEF RingInv, ClaimableTickets, NeverOverfull
  <2>1. t \in Nat /\ tail <= t + Capacity /\ t < head + Capacity /\ t # ptail[p]
    BY <1>3
  <2>2. seq'[Slot(t)] = seq[Slot(t)]
    BY <2>1, <1>4
  <2> QED BY <2>2 DEF RingInv, ClaimableTickets
<1>7. WriterTickets'
  BY <1>1, <1>2, <1>3, <1>4 DEF TypeOK, RingInv, WriterTickets
<1>8. DrainerTickets'
  <2>1. \A c \in Consumers : Draining(c) =>
          seq'[Slot(chead[c])] = seq[Slot(chead[c])]
    <3> SUFFICES ASSUME NEW c \in Consumers, Draining(c)
                 PROVE  seq'[Slot(chead[c])] = seq[Slot(chead[c])]
      OBVIOUS
    <3>1. chead[c] < head /\ tail <= chead[c] + Capacity
      BY DEF RingInv, DrainerTickets
    <3>2. chead[c] # ptail[p] /\ chead[c] < head + Capacity
      BY <3>1, <1>3
    <3> QED BY <3>1, <3>2, <1>4
  <2> QED BY <2>1, <1>1, <1>2 DEF RingInv, DrainerTickets
<1>9. BeforeCAS'
  <2>1. tail < head + Capacity => seq'[Slot(tail)] = seq[Slot(tail)]
    BY <1>3, <1>4
  <2>2. head # ptail[p] => seq'[Slot(head)] = seq[Slot(head)]
    BY <1>3, <1>4
  <2>3. head = ptail[p] => seq'[Slot(head)] = head + 1
    BY <1>1, <1>3
  <2> QED BY <2>1, <2>2, <2>3, <1>1, <1>2 DEF RingInv, BeforeCAS
<1>10. PopsInClaimOrder'
  BY <1>1, <1>2 DEF RingInv, PopsInClaimOrder
<1>11. PassedTickets'
  <2>1. seq[Slot(ptail[p])] = ptail[p]
    BY <1>2 DEF RingInv, WriterTickets
  <2>2. \A i \in Slots : seq'[i] >= seq[i]
    BY <2>1, <1>1, <1>3
  <2>3. seq' \in [Slots -> Nat]
    BY <1>1, <1>3
  <2>4. \A t \in Nat : /\ seq'[Slot(t)] >= seq[Slot(t)]
                       /\ seq'[Slot(t)] \in Nat /\ seq[Slot(t)] \in Nat
    BY <2>2, <2>3, SlotType
  <2> QED BY <2>4, <1>1 DEF RingInv, PassedTickets
<1> QED BY <1>11, <1>1, <1>5, <1>6, <1>7, <1>8, <1>9, <1>10 DEF RingInv

\* The take moves the oldest pending ticket to the Pop that drains it.
LEMMA PopCASInv ==
  ASSUME Capacity >= 2, TypeOK, RingInv, NEW c \in Consumers, PopCAS(c)
  PROVE  RingInv'
<1> Counters
  BY DEF TypeOK, Counters
<1> USE RingAssumption DEF Counters
<1>1. /\ chead[c] = head /\ head < tail /\ seq[Slot(head)] = head + 1
      /\ tail <= head + Capacity
  BY DEF PopCAS, RingInv, BeforeCAS, NeverOverfull
<1>2. /\ head' = head + 1
      /\ UNCHANGED <<seq, value, tail, sent, ppc, ptail, chead, cval, log, popped>>
  BY DEF PopCAS, producerVars
<1>3. /\ Draining(c)' /\ ~Draining(c) /\ cpc'[c] = "read"
      /\ \A d \in Consumers \ {c} : (Draining(d)' <=> Draining(d)) /\ cpc'[d] = cpc[d]
      /\ \A q \in Producers : (Writing(q)' <=> Writing(q)) /\ Item(q)' = Item(q)
  BY <1>2 DEF TypeOK, PopCAS, Writing, Draining, Item
<1>4. /\ value[Slot(head)] = log[head + 1]
      /\ \A q \in Producers : Writing(q) => ptail[q] # head
  <2>1. head \in head .. tail - 1
    BY <1>1
  <2>2. \A q \in Producers : Writing(q) => ptail[q] # head
    BY <1>1 DEF RingInv, WriterTickets
  <2> QED BY <2>1, <2>2 DEF RingInv, PendingTickets
<1>5. NeverOverfull'
  BY <1>1, <1>2 DEF NeverOverfull
<1>6. PendingTickets'
  <2> SUFFICES ASSUME NEW t \in head + 1 .. tail - 1
               PROVE  \/ seq[Slot(t)] = t + 1 /\ value[Slot(t)] = log[t + 1]
                      \/ \E q \in Producers : Writing(q) /\ ptail[q] = t
    BY <1>2, <1>3 DEF PendingTickets
  <2>1. t \in head .. tail - 1
    OBVIOUS
  <2> QED BY <2>1 DEF RingInv, PendingTickets
<1>7. ClaimableTickets'
  <2> SUFFICES ASSUME NEW t \in tail .. head + Capacity
               PROVE  \/ seq[Slot(t)] = t
                      \/ \E d \in Consumers : Draining(d)' /\ chead[d] = t - Capacity
    BY <1>2 DEF ClaimableTickets
  <2>1. CASE t = head + Capacity
    BY <2>1, <1>1, <1>3
  <2>2. CASE t \in tail .. head + Capacity - 1
    BY <2>2, <1>3 DEF RingInv, ClaimableTickets
  <2>3. head \in Nat /\ tail \in Nat /\ Capacity \in Nat
    OBVIOUS
  <2> QED BY ONLY <2>1, <2>2, <2>3, t \in tail .. head + Capacity
<1>8. WriterTickets'
  BY <1>2, <1>3, <1>4 DEF RingInv, WriterTickets
<1>9. DrainerTickets'
  <2> SUFFICES ASSUME NEW d \in Consumers, Draining(d)'
               PROVE  /\ chead[d] < head + 1 /\ tail <= chead[d] + Capacity
                      /\ seq[Slot(chead[d])] = chead[d] + 1
                      /\ cpc'[d] = "read" => value[Slot(chead[d])] = log[chead[d] + 1]
                      /\ cpc'[d] # "read" => cval[d] = log[chead[d] + 1]
    BY <1>2 DEF DrainerTickets
  <2>1. CASE d = c
    BY <2>1, <1>1, <1>3, <1>4
  <2>2. CASE d # c
    BY <2>2, <1>3 DEF RingInv, DrainerTickets
  <2> QED BY <2>1, <2>2
<1>10. BeforeCAS'
  <2>1. \A d \in Consumers : cpc'[d] \in {"loadSeq", "cas"} =>
          chead[d] <= head + 1 /\ chead[d] # head + 1
    <3>1. \A d \in Consumers : cpc'[d] \in {"loadSeq", "cas"} => chead[d] <= head
      BY <1>3 DEF RingInv, BeforeCAS
    <3> QED BY <3>1
  <2>2. tail < head + Capacity => tail < head + 1 + Capacity
    OBVIOUS
  <2> QED BY <2>1, <2>2, <1>2 DEF RingInv, BeforeCAS
<1>11. PopsInClaimOrder'
  <2>1. \A r \in popped : r[1] \in Nat /\ r[1] < head /\ r[1] < head + 1
    BY DEF TypeOK, RingInv, PopsInClaimOrder
  <2>2. \A d \in Consumers : Draining(d) => chead[d] # head
    BY DEF RingInv, DrainerTickets
  <2>3. \A t \in 0 .. head :
          \/ \E r \in popped : r[1] = t
          \/ \E d \in Consumers : Draining(d)' /\ chead[d] = t
    <3> SUFFICES ASSUME NEW t \in 0 .. head
                 PROVE  \/ \E r \in popped : r[1] = t
                        \/ \E d \in Consumers : Draining(d)' /\ chead[d] = t
      OBVIOUS
    <3>1. CASE t = head
      BY <3>1, <1>1, <1>3
    <3>2. CASE t \in 0 .. head - 1
      BY <3>2, <1>3 DEF RingInv, PopsInClaimOrder
    <3>3. head \in Nat
      OBVIOUS
    <3> QED BY ONLY <3>1, <3>2, <3>3, t \in 0 .. head
  <2>4. \A d \in Consumers : Draining(d)' =>
          /\ \A r \in popped : r[1] # chead[d]
          /\ \A e \in Consumers \ {d} : Draining(e)' => chead[e] # chead[d]
    BY <2>1, <2>2, <1>1, <1>3 DEF RingInv, PopsInClaimOrder
  <2>5. \A r \in popped : r[2] = log[r[1] + 1]
    BY DEF RingInv, PopsInClaimOrder
  <2>6. 0 .. head' - 1 = 0 .. head
    BY <1>2
  <2>7. popped' = popped /\ chead' = chead /\ log' = log /\ head' = head + 1
    BY <1>2
  <2> QED BY ONLY <2>1, <2>3, <2>4, <2>5, <2>6, <2>7 DEF PopsInClaimOrder
<1>12. PassedTickets'
  BY <1>1, <1>2 DEF RingInv, PassedTickets
<1> QED BY <1>12, <1>2, <1>5, <1>6, <1>7, <1>8, <1>9, <1>10, <1>11 DEF RingInv

\* The plain load reads the item of the ticket the Pop took.
LEMMA PopReadInv ==
  ASSUME TypeOK, RingInv, NEW c \in Consumers, PopRead(c)
  PROVE  RingInv'
<1> Counters
  BY DEF TypeOK, Counters
<1> USE DEF Counters
<1>1. /\ UNCHANGED <<seq, value, head, tail, sent, ppc, ptail, chead, log, popped>>
      /\ cval' = [cval EXCEPT ![c] = value[Slot(chead[c])]]
  BY DEF PopRead, shared, producerVars
<1>2. /\ cpc[c] = "read" /\ cpc'[c] = "clear"
      /\ \A d \in Consumers \ {c} : cpc'[d] = cpc[d]
      /\ \A d \in Consumers : Draining(d)' <=> Draining(d)
      /\ \A q \in Producers : (Writing(q)' <=> Writing(q)) /\ Item(q)' = Item(q)
  BY <1>1 DEF TypeOK, PopRead, Writing, Draining, Item
<1>3. PendingTickets' /\ ClaimableTickets' /\ NeverOverfull'
  BY <1>1, <1>2 DEF RingInv, PendingTickets, ClaimableTickets, NeverOverfull
<1>4. WriterTickets'
  BY <1>1, <1>2 DEF RingInv, WriterTickets
<1>5. DrainerTickets'
  BY <1>1, <1>2 DEF TypeOK, RingInv, DrainerTickets
<1>6. BeforeCAS'
  BY <1>1, <1>2 DEF RingInv, BeforeCAS
<1>7. PopsInClaimOrder'
  BY <1>1, <1>2 DEF RingInv, PopsInClaimOrder
<1>8. PassedTickets'
  BY <1>1 DEF RingInv, PassedTickets
<1> QED BY <1>8, <1>1, <1>3, <1>4, <1>5, <1>6, <1>7 DEF RingInv

\* The plain store of the zero value touches no slot but the Pop's own.
LEMMA PopClearInv ==
  ASSUME Capacity >= 2, TypeOK, RingInv, NEW c \in Consumers, PopClear(c)
  PROVE  RingInv'
<1> Counters
  BY DEF TypeOK, Counters
<1> USE RingAssumption DEF Counters
<1>1. /\ UNCHANGED <<seq, head, tail, sent, ppc, ptail, chead, cval, log, popped>>
      /\ value' = [value EXCEPT ![Slot(chead[c])] = NoItem]
  BY DEF PopClear, producerVars
<1>2. /\ Draining(c) /\ cpc[c] = "clear" /\ cpc'[c] = "free"
      /\ \A d \in Consumers \ {c} : cpc'[d] = cpc[d]
      /\ \A d \in Consumers : Draining(d)' <=> Draining(d)
      /\ \A q \in Producers : (Writing(q)' <=> Writing(q)) /\ Item(q)' = Item(q)
  BY <1>1 DEF TypeOK, PopClear, Writing, Draining, Item
<1>3. /\ chead[c] < head /\ tail <= chead[c] + Capacity /\ head <= tail
      /\ Slot(chead[c]) \in Slots
  BY <1>2, SlotType DEF RingInv, DrainerTickets, NeverOverfull
<1>4. \A u \in Nat : u # chead[c] /\ tail <= u + Capacity /\ u < tail
        => value'[Slot(u)] = value[Slot(u)]
  <2> SUFFICES ASSUME NEW u \in Nat, u # chead[c], tail <= u + Capacity, u < tail
               PROVE  value'[Slot(u)] = value[Slot(u)]
    OBVIOUS
  <2>1. Slot(u) # Slot(chead[c])
    BY <1>3, SlotsApart
  <2> QED BY <2>1, <1>1
<1>5. PendingTickets'
  <2> SUFFICES ASSUME NEW t \in head .. tail - 1
               PROVE  \/ seq[Slot(t)] = t + 1 /\ value'[Slot(t)] = log[t + 1]
                      \/ \E q \in Producers : Writing(q) /\ ptail[q] = t
    BY <1>1, <1>2 DEF PendingTickets
  <2>1. t \in Nat /\ tail <= t + Capacity /\ t < tail /\ t # chead[c]
    BY <1>3
  <2>2. value'[Slot(t)] = value[Slot(t)]
    BY <2>1, <1>4
  <2> QED BY <2>2 DEF RingInv, PendingTickets
<1>6. ClaimableTickets' /\ NeverOverfull'
  BY <1>1, <1>2 DEF RingInv, ClaimableTickets, NeverOverfull
<1>7. WriterTickets'
  <2>1. \A q \in Producers : Writing(q) => value'[Slot(ptail[q])] = value[Slot(ptail[q])]
    <3> SUFFICES ASSUME NEW q \in Producers, Writing(q)
                 PROVE  value'[Slot(ptail[q])] = value[Slot(ptail[q])]
      OBVIOUS
    <3>1. head <= ptail[q] /\ ptail[q] < tail
      BY DEF RingInv, WriterTickets
    <3>2. ptail[q] \in Nat /\ ptail[q] # chead[c] /\ tail <= ptail[q] + Capacity
      BY <3>1, <1>3
    <3> QED BY <3>1, <3>2, <1>4
  <2> QED BY <2>1, <1>1, <1>2 DEF RingInv, WriterTickets
<1>8. DrainerTickets'
  <2>1. \A d \in Consumers \ {c} : Draining(d) =>
          value'[Slot(chead[d])] = value[Slot(chead[d])]
    <3> SUFFICES ASSUME NEW d \in Consumers \ {c}, Draining(d)
                 PROVE  value'[Slot(chead[d])] = value[Slot(chead[d])]
      OBVIOUS
    <3>1. chead[d] < head /\ tail <= chead[d] + Capacity
      BY DEF RingInv, DrainerTickets
    <3>2. chead[d] # chead[c]
      BY <1>2 DEF RingInv, PopsInClaimOrder
    <3>3. chead[d] < tail
      BY <3>1, <1>3
    <3> QED BY <3>1, <3>2, <3>3, <1>4
  <2> QED BY <2>1, <1>1, <1>2 DEF RingInv, DrainerTickets
<1>9. BeforeCAS'
  BY <1>1, <1>2 DEF RingInv, BeforeCAS
<1>10. PopsInClaimOrder'
  BY <1>1, <1>2 DEF RingInv, PopsInClaimOrder
<1>11. PassedTickets'
  BY <1>1 DEF RingInv, PassedTickets
<1> QED BY <1>11, <1>1, <1>5, <1>6, <1>7, <1>8, <1>9, <1>10 DEF RingInv

\* The store of head + len(data) makes the next round's ticket claimable.
LEMMA PopFreeInv ==
  ASSUME Capacity >= 2, TypeOK, RingInv, NEW c \in Consumers, PopFree(c)
  PROVE  RingInv'
<1> Counters
  BY DEF TypeOK, Counters
<1> USE RingAssumption DEF Counters
<1>1. /\ UNCHANGED <<value, head, tail, sent, ppc, ptail, chead, cval, log>>
      /\ seq' = [seq EXCEPT ![Slot(chead[c])] = chead[c] + Capacity]
      /\ popped' = popped \cup {<<chead[c], cval[c]>>}
  BY DEF PopFree, FreedSeq, producerVars
<1>2. /\ Draining(c) /\ ~Draining(c)' /\ cpc[c] = "free" /\ cpc'[c] = "idle"
      /\ \A d \in Consumers \ {c} : (Draining(d)' <=> Draining(d)) /\ cpc'[d] = cpc[d]
      /\ \A q \in Producers : (Writing(q)' <=> Writing(q)) /\ Item(q)' = Item(q)
  BY <1>1 DEF TypeOK, PopFree, Writing, Draining, Item
<1>3. /\ chead[c] < head /\ tail <= chead[c] + Capacity /\ head <= tail
      /\ Slot(chead[c]) \in Slots
      /\ cval[c] = log[chead[c] + 1]
  BY <1>2, SlotType DEF RingInv, DrainerTickets, NeverOverfull
<1>4. \A u \in Nat : u # chead[c] /\ tail <= u + Capacity /\ u < chead[c] + Capacity
        => seq'[Slot(u)] = seq[Slot(u)]
  <2> SUFFICES ASSUME NEW u \in Nat, u # chead[c],
                      tail <= u + Capacity, u < chead[c] + Capacity
               PROVE  seq'[Slot(u)] = seq[Slot(u)]
    OBVIOUS
  <2>1. Slot(u) # Slot(chead[c])
    BY <1>3, SlotsApart
  <2> QED BY <2>1, <1>1
<1>5. /\ Slot(chead[c] + Capacity) = Slot(chead[c])
      /\ seq'[Slot(chead[c] + Capacity)] = chead[c] + Capacity
  BY <1>1, <1>3, SlotPeriod
<1>6. PendingTickets'
  <2> SUFFICES ASSUME NEW t \in head .. tail - 1
               PROVE  \/ seq'[Slot(t)] = t + 1 /\ value[Slot(t)] = log[t + 1]
                      \/ \E q \in Producers : Writing(q) /\ ptail[q] = t
    BY <1>1, <1>2 DEF PendingTickets
  <2>1. t \in Nat /\ tail <= t + Capacity /\ t < chead[c] + Capacity /\ t # chead[c]
    BY <1>3
  <2>2. seq'[Slot(t)] = seq[Slot(t)]
    BY <2>1, <1>4
  <2> QED BY <2>2 DEF RingInv, PendingTickets
<1>7. ClaimableTickets'
  <2> SUFFICES ASSUME NEW t \in tail .. head + Capacity - 1
               PROVE  \/ seq'[Slot(t)] = t
                      \/ \E d \in Consumers : Draining(d)' /\ chead[d] = t - Capacity
    BY <1>1 DEF ClaimableTickets
  <2>1. CASE t = chead[c] + Capacity
    BY <2>1, <1>5
  <2>2. CASE t # chead[c] + Capacity
    <3>1. seq'[Slot(t)] = seq[Slot(t)]
      <4>1. Slot(t) # Slot(chead[c])
        <5>1. CASE t < chead[c] + Capacity
          BY <5>1, <1>3, SlotsApart
        <5>2. CASE t > chead[c] + Capacity
          <6>1. Slot(t) # Slot(chead[c] + Capacity)
            BY <5>2, <1>3, SlotsApart
          <6> QED BY <6>1, <1>5
        <5>3. t \in Nat /\ chead[c] \in Nat /\ Capacity \in Nat
          BY <1>3
        <5> QED BY ONLY <5>1, <5>2, <5>3, <2>2
      <4> QED BY <4>1, <1>1
    <3>2. t - Capacity # chead[c]
      BY <2>2
    <3> QED BY <3>1, <3>2, <1>2 DEF RingInv, ClaimableTickets
  <2> QED BY <2>1, <2>2
<1>8. WriterTickets' /\ NeverOverfull'
  <2>1. \A q \in Producers : Writing(q) => seq'[Slot(ptail[q])] = seq[Slot(ptail[q])]
    <3> SUFFICES ASSUME NEW q \in Producers, Writing(q)
                 PROVE  seq'[Slot(ptail[q])] = seq[Slot(ptail[q])]
      OBVIOUS
    <3>1. head <= ptail[q] /\ ptail[q] < tail
      BY DEF RingInv, WriterTickets
    <3>2. /\ ptail[q] \in Nat /\ ptail[q] # chead[c]
          /\ tail <= ptail[q] + Capacity /\ ptail[q] < chead[c] + Capacity
      BY <3>1, <1>3
    <3> QED BY <3>2, <1>4
  <2> QED BY <2>1, <1>1, <1>2 DEF RingInv, WriterTickets, NeverOverfull
<1>9. DrainerTickets'
  <2>1. \A d \in Consumers \ {c} : Draining(d) =>
          seq'[Slot(chead[d])] = seq[Slot(chead[d])]
    <3> SUFFICES ASSUME NEW d \in Consumers \ {c}, Draining(d)
                 PROVE  seq'[Slot(chead[d])] = seq[Slot(chead[d])]
      OBVIOUS
    <3>1. chead[d] < head /\ tail <= chead[d] + Capacity
      BY DEF RingInv, DrainerTickets
    <3>2. chead[d] # chead[c]
      BY <1>2 DEF RingInv, PopsInClaimOrder
    <3>3. chead[d] < chead[c] + Capacity
      BY <3>1, <1>3
    <3> QED BY <3>1, <3>2, <3>3, <1>4
  <2> QED BY <2>1, <1>1, <1>2 DEF RingInv, DrainerTickets
<1>10. BeforeCAS'
  <2>1. seq[Slot(tail)] = tail => seq'[Slot(tail)] = tail
    <3>1. CASE tail = chead[c] + Capacity
      BY <3>1, <1>5
    <3>2. CASE tail # chead[c] + Capacity
      <4>1. tail < chead[c] + Capacity /\ tail # chead[c] /\ tail <= tail + Capacity
        BY <3>2, <1>3
      <4> QED BY <4>1, <1>4
    <3> QED BY <3>1, <3>2
  <2>2. head < tail => seq'[Slot(head)] = seq[Slot(head)]
    <3>1. head < tail => head < chead[c] + Capacity
      BY <1>3
    <3>2. head # chead[c] /\ tail <= head + Capacity
      BY <1>3 DEF RingInv, NeverOverfull
    <3> QED BY <3>1, <3>2, <1>4
  <2>3. \A d \in Consumers : cpc'[d] \in {"loadSeq", "cas"} => cpc'[d] = cpc[d]
    BY <1>2
  <2> QED BY <2>1, <2>2, <2>3, <1>1 DEF RingInv, BeforeCAS
<1>11. PopsInClaimOrder'
  <2>1. \A r \in popped' : r[1] < head /\ r[2] = log[r[1] + 1]
    BY <1>1, <1>3 DEF RingInv, PopsInClaimOrder
  <2>2. \A t \in 0 .. head - 1 :
          \/ \E r \in popped' : r[1] = t
          \/ \E d \in Consumers : Draining(d)' /\ chead[d] = t
    <3> SUFFICES ASSUME NEW t \in 0 .. head - 1,
                        ~ \E r \in popped' : r[1] = t
                 PROVE  \E d \in Consumers : Draining(d)' /\ chead[d] = t
      OBVIOUS
    <3>1. PICK d \in Consumers : Draining(d) /\ chead[d] = t
      BY <1>1 DEF RingInv, PopsInClaimOrder
    <3>2. <<chead[c], cval[c]>> \in popped'
      BY <1>1
    <3>3. d # c
      BY <3>1, <3>2
    <3> QED BY <3>1, <3>3, <1>2
  <2>3. \A d \in Consumers : Draining(d)' =>
          /\ \A r \in popped' : r[1] # chead[d]
          /\ \A e \in Consumers \ {d} : Draining(e)' => chead[e] # chead[d]
    <3> SUFFICES ASSUME NEW d \in Consumers, Draining(d)'
                 PROVE  /\ \A r \in popped' : r[1] # chead[d]
                        /\ \A e \in Consumers \ {d} : Draining(e)' => chead[e] # chead[d]
      OBVIOUS
    <3>1. d # c /\ Draining(d)
      BY <1>2
    <3>2. chead[d] # chead[c] /\ \A r \in popped : r[1] # chead[d]
      BY <3>1, <1>2 DEF RingInv, PopsInClaimOrder
    <3>3. \A e \in Consumers \ {d} : Draining(e)' => chead[e] # chead[d]
      BY <3>1, <1>2 DEF RingInv, PopsInClaimOrder
    <3>4. <<chead[c], cval[c]>>[1] = chead[c]
      OBVIOUS
    <3> QED BY <3>2, <3>3, <3>4, <1>1
  <2> QED BY <2>1, <2>2, <2>3, <1>1 DEF PopsInClaimOrder
<1>12. PassedTickets'
  <2>1. seq[Slot(chead[c])] = chead[c] + 1
    BY <1>2 DEF RingInv, DrainerTickets
  <2>2. \A i \in Slots : seq'[i] >= seq[i]
    BY <2>1, <1>1, <1>3
  <2>3. seq' \in [Slots -> Nat]
    BY <1>1, <1>3
  <2>4. \A t \in Nat : /\ seq'[Slot(t)] >= seq[Slot(t)]
                       /\ seq'[Slot(t)] \in Nat /\ seq[Slot(t)] \in Nat
    BY <2>2, <2>3, SlotType
  <2> QED BY <2>4, <1>1 DEF RingInv, PassedTickets
<1> QED BY <1>12, <1>1, <1>6, <1>7, <1>8, <1>9, <1>10, <1>11 DEF RingInv

-----------------------------------------------------------------------------
\* Every step preserves the invariant.
LEMMA RingStep ==
  ASSUME Capacity >= 2, TypeOK, RingInv, [Next]_vars
  PROVE  RingInv'
<1>1. CASE UNCHANGED vars
  <2>1. /\ \A p \in Producers : (Writing(p)' <=> Writing(p)) /\ Item(p)' = Item(p)
        /\ \A c \in Consumers : Draining(c)' <=> Draining(c)
    BY <1>1 DEF vars, producerVars, consumerVars, Writing, Draining, Item
  <2> QED BY <2>1, <1>1 DEF vars, shared, producerVars, consumerVars, RingInv,
             NeverOverfull, PendingTickets, ClaimableTickets, WriterTickets,
             DrainerTickets, BeforeCAS, PassedTickets, PopsInClaimOrder
<1>2. ASSUME NEW p \in Producers, Push(p) PROVE RingInv'
  BY <1>2, PushBeforeCASInv, PushCASInv, PushWriteInv, PushPublishInv DEF Push
<1>3. ASSUME NEW c \in Consumers, Pop(c) PROVE RingInv'
  BY <1>3, PopBeforeCASInv, PopCASInv, PopReadInv, PopClearInv, PopFreeInv DEF Pop
<1> QED BY <1>1, <1>2, <1>3 DEF Next

\* In every reachable state every slot is in the phase its ticket is in.
THEOREM RingInvariant ==
  ASSUME Capacity >= 2
  PROVE  Spec => []RingInv
<1>1. TypeOK /\ RingInv /\ [Next]_vars => RingInv'
  BY RingStep
<1> QED BY <1>1, InitInv, TypeCorrect, PTL DEF Spec

\* No item is lost, duplicated, reordered or corrupted.
THEOREM Fifo ==
  ASSUME Capacity >= 2
  PROVE  Spec => []PopsInClaimOrder
<1>1. RingInv => PopsInClaimOrder
  BY DEF RingInv
<1> QED BY <1>1, RingInvariant, PTL

\* The invariant rules out two goroutines on the value of one slot.
LEMMA InvNoRace ==
  ASSUME TypeOK, RingInv
  PROVE  NoValueRace
<1> Counters
  BY DEF TypeOK, Counters
<1> USE RingAssumption DEF Counters
<1>1. ASSUME NEW p \in Producers, Writing(p)
      PROVE  head <= ptail[p] /\ ptail[p] < tail /\ tail <= ptail[p] + Capacity
  BY <1>1 DEF RingInv, WriterTickets, NeverOverfull
<1>2. ASSUME NEW c \in Consumers, Draining(c)
      PROVE  chead[c] < head /\ tail <= chead[c] + Capacity /\ head <= tail
  BY <1>2 DEF RingInv, DrainerTickets, NeverOverfull
<1>3. ASSUME NEW p \in Producers, NEW q \in Producers, p # q, Writing(p), Writing(q)
      PROVE  Slot(ptail[p]) # Slot(ptail[q])
  <2>1. ptail[p] # ptail[q]
    BY <1>3 DEF RingInv, WriterTickets
  <2> QED BY <2>1, <1>1, <1>3, SlotsApart
<1>4. ASSUME NEW c \in Consumers, NEW d \in Consumers, c # d, Draining(c), Draining(d)
      PROVE  Slot(chead[c]) # Slot(chead[d])
  <2>1. chead[c] # chead[d]
    BY <1>4 DEF RingInv, PopsInClaimOrder
  <2>2. chead[c] < chead[d] + Capacity /\ chead[d] < chead[c] + Capacity
    BY <1>2, <1>4
  <2> QED BY <2>1, <2>2, SlotsApart
<1>5. ASSUME NEW p \in Producers, NEW c \in Consumers, Writing(p), Draining(c)
      PROVE  Slot(ptail[p]) # Slot(chead[c])
  <2>1. ptail[p] # chead[c] /\ ptail[p] < chead[c] + Capacity /\ chead[c] < ptail[p] + Capacity
    BY <1>1, <1>2, <1>5
  <2> QED BY <2>1, SlotsApart
<1> QED BY <1>3, <1>4, <1>5 DEF NoValueRace

\* node.value, which is not atomic, is never accessed by two goroutines at once.
THEOREM RaceFree ==
  ASSUME Capacity >= 2
  PROVE  Spec => []NoValueRace
<1>1. TypeOK /\ RingInv => NoValueRace
  BY InvNoRace
<1> QED BY <1>1, TypeCorrect, RingInvariant, PTL

-----------------------------------------------------------------------------
\* The initial ring is the empty ticket queue.
LEMMA InitRefines == Init => TQ!QueueInit
BY RingAssumption DEF Init, TQ!QueueInit, Published, BeingFreed, Draining

\* The compare-and-swap of Push is the claim of a ticket.
LEMMA PushCASRefines ==
  ASSUME Capacity >= 2, TypeOK, RingInv, NEW p \in Producers, PushCAS(p)
  PROVE  TQ!Claim(Item(p))
<1> Counters
  BY DEF TypeOK, Counters
<1> USE RingAssumption DEF Counters
<1>1. /\ tail < head + Capacity /\ seq[Slot(tail)] = tail
      /\ head <= tail /\ Len(log) = tail
  BY DEF PushCAS, RingInv, BeforeCAS, NeverOverfull
<1>2. /\ tail' = tail + 1 /\ log' = Append(log, Item(p))
      /\ UNCHANGED <<seq, head, cpc, chead>>
  BY DEF PushCAS, consumerVars
<1>3. tail - Capacity \notin BeingFreed
  <2> SUFFICES ASSUME NEW c \in Consumers, Draining(c), tail = chead[c] + Capacity
               PROVE  FALSE
    BY DEF BeingFreed
  <2>1. Slot(tail) = Slot(chead[c])
    BY SlotPeriod
  <2>2. seq[Slot(chead[c])] = chead[c] + 1
    BY DEF RingInv, DrainerTickets
  <2> QED BY <2>1, <2>2, <1>1
<1>4. Published' = Published
  BY <1>1, <1>2 DEF Published
<1>5. BeingFreed' = BeingFreed
  BY <1>2 DEF BeingFreed, Draining
<1> QED BY <1>1, <1>2, <1>3, <1>4, <1>5
        DEF TQ!Claim, TQ!HasRoom, TQ!QueueLen, TQ!NextTicket

\* The store of tail + 1 is the publication of the ticket.
LEMMA PushPublishRefines ==
  ASSUME Capacity >= 2, TypeOK, RingInv, NEW p \in Producers, PushPublish(p)
  PROVE  TQ!Publish(ptail[p])
<1> Counters
  BY DEF TypeOK, Counters
<1> USE RingAssumption DEF Counters
<1>1. /\ UNCHANGED <<head, tail, cpc, chead, log>>
      /\ seq' = [seq EXCEPT ![Slot(ptail[p])] = ptail[p] + 1]
      /\ Writing(p)
  BY DEF PushPublish, consumerVars, Writing
<1>2. /\ head <= ptail[p] /\ ptail[p] < tail /\ tail <= head + Capacity
      /\ seq[Slot(ptail[p])] = ptail[p] /\ Len(log) = tail
      /\ Slot(ptail[p]) \in Slots
  BY <1>1, SlotType DEF RingInv, WriterTickets, NeverOverfull
<1>3. \A t \in head .. tail - 1 : t # ptail[p] => seq'[Slot(t)] = seq[Slot(t)]
  <2> SUFFICES ASSUME NEW t \in head .. tail - 1, t # ptail[p]
               PROVE  seq'[Slot(t)] = seq[Slot(t)]
    OBVIOUS
  <2>1. Slot(t) # Slot(ptail[p])
    BY <1>2, SlotsApart
  <2> QED BY <2>1, <1>1
<1>4. ptail[p] \in (head .. tail - 1) \ Published
  BY <1>2 DEF Published
<1>5. seq'[Slot(ptail[p])] = ptail[p] + 1
  BY <1>1, <1>2
<1>6. Published' = Published \cup {ptail[p]}
  BY <1>1, <1>3, <1>4, <1>5 DEF Published
<1>7. BeingFreed' = BeingFreed
  BY <1>1 DEF BeingFreed, Draining
<1> QED BY <1>1, <1>2, <1>4, <1>6, <1>7 DEF TQ!Publish, TQ!Pending, TQ!NextTicket

\* The compare-and-swap of Pop takes the oldest ticket.
LEMMA PopCASRefines ==
  ASSUME TypeOK, RingInv, NEW c \in Consumers, PopCAS(c)
  PROVE  TQ!Take
<1> Counters
  BY DEF TypeOK, Counters
<1> USE RingAssumption DEF Counters
<1>1. chead[c] = head /\ head < tail /\ seq[Slot(head)] = head + 1
  BY DEF PopCAS, RingInv, BeforeCAS
<1>2. head' = head + 1 /\ UNCHANGED <<seq, tail, chead, log>>
  BY DEF PopCAS
<1>3. head \in Published
  BY <1>1 DEF Published
<1>4. Published' = Published \ {head}
  BY <1>1, <1>2 DEF Published
<1>5. /\ Draining(c)' /\ ~Draining(c)
      /\ \A d \in Consumers \ {c} : Draining(d)' <=> Draining(d)
  BY DEF TypeOK, PopCAS, Draining
<1>6. BeingFreed' = BeingFreed \cup {head}
  BY <1>1, <1>2, <1>5 DEF BeingFreed
<1> QED BY <1>2, <1>3, <1>4, <1>6 DEF TQ!Take

\* The store of head + len(data) frees the ticket's place.
LEMMA PopFreeRefines ==
  ASSUME Capacity >= 2, TypeOK, RingInv, NEW c \in Consumers, PopFree(c)
  PROVE  TQ!Free(chead[c])
<1> Counters
  BY DEF TypeOK, Counters
<1> USE RingAssumption DEF Counters
<1>1. /\ UNCHANGED <<head, tail, chead, log>>
      /\ seq' = [seq EXCEPT ![Slot(chead[c])] = chead[c] + Capacity]
      /\ Draining(c) /\ ~Draining(c)'
      /\ \A d \in Consumers \ {c} : Draining(d)' <=> Draining(d)
  BY DEF TypeOK, PopFree, FreedSeq, Draining
<1>2. chead[c] < head /\ tail <= chead[c] + Capacity
  BY <1>1 DEF RingInv, DrainerTickets
<1>3. \A t \in head .. tail - 1 : seq'[Slot(t)] = seq[Slot(t)]
  <2> SUFFICES ASSUME NEW t \in head .. tail - 1
               PROVE  seq'[Slot(t)] = seq[Slot(t)]
    OBVIOUS
  <2>1. Slot(t) # Slot(chead[c])
    BY <1>2, SlotDistinct
  <2> QED BY <2>1, <1>1
<1>4. Published' = Published
  BY <1>1, <1>3 DEF Published
<1>5. \A d \in Consumers \ {c} : Draining(d) => chead[d] # chead[c]
  BY <1>1 DEF RingInv, PopsInClaimOrder
<1>6. chead[c] \in BeingFreed /\ BeingFreed' = BeingFreed \ {chead[c]}
  BY <1>1, <1>5 DEF BeingFreed
<1> QED BY <1>1, <1>4, <1>6 DEF TQ!Free


\* The other steps of Push change nothing the queue's caller sees.
LEMMA PushStutters ==
  ASSUME TypeOK, NEW p \in Producers,
         \/ PushCall(p) \/ PushLoadTail(p) \/ PushLoadSeq(p) \/ PushCASFails(p)
         \/ PushWrite(p)
  PROVE  UNCHANGED TQ!queueVars
<1>1. UNCHANGED <<seq, head, tail, log, cpc, chead>>
  BY DEF PushCall, PushLoadTail, PushLoadSeq, PushCASFails, PushWrite, shared,
         consumerVars
<1> QED BY <1>1 DEF TQ!queueVars, Published, BeingFreed, Draining

\* The other steps of Pop change nothing the queue's caller sees.
LEMMA PopStutters ==
  ASSUME TypeOK, NEW c \in Consumers,
         \/ PopLoadHead(c) \/ PopLoadSeq(c) \/ PopCASFails(c) \/ PopRead(c)
         \/ PopClear(c)
  PROVE  UNCHANGED TQ!queueVars
<1>1. UNCHANGED <<seq, head, tail, log>>
  BY DEF PopLoadHead, PopLoadSeq, PopCASFails, PopRead, PopClear, shared
<1>2. \A d \in Consumers : /\ Draining(d)' <=> Draining(d)
                           /\ Draining(d) => chead'[d] = chead[d]
  BY DEF TypeOK, PopLoadHead, PopLoadSeq, PopCASFails, PopRead, PopClear, Draining
<1>3. BeingFreed' = BeingFreed
  BY <1>2 DEF BeingFreed
<1> QED BY <1>1, <1>3 DEF TQ!queueVars, Published

\* Every step of the ring is a step of the ticket queue or a stutter.
LEMMA StepRefines ==
  ASSUME Capacity >= 2, TypeOK, RingInv, [Next]_vars
  PROVE  [TQ!QueueNext]_(TQ!queueVars)
<1>1. CASE UNCHANGED vars
  BY <1>1 DEF vars, shared, consumerVars, TQ!queueVars, Published, BeingFreed,
              Draining
<1>2. ASSUME NEW p \in Producers, Push(p)
      PROVE  TQ!QueueNext \/ UNCHANGED TQ!queueVars
  <2>1. CASE PushCAS(p)
    <3>1. Item(p) \in Items
      BY DEF TypeOK, Item, Items
    <3> QED BY <2>1, <3>1, PushCASRefines DEF TQ!QueueNext
  <2>2. CASE PushPublish(p)
    <3>1. TQ!Publish(ptail[p])
      BY <2>2, PushPublishRefines
    <3>2. ptail[p] \in TQ!Pending
      BY <3>1 DEF TQ!Publish
    <3> QED BY <3>1, <3>2 DEF TQ!QueueNext
  <2> QED BY <1>2, <2>1, <2>2, PushStutters DEF Push
<1>3. ASSUME NEW c \in Consumers, Pop(c)
      PROVE  TQ!QueueNext \/ UNCHANGED TQ!queueVars
  <2>1. CASE PopCAS(c)
    BY <2>1, PopCASRefines DEF TQ!QueueNext
  <2>2. CASE PopFree(c)
    <3>1. TQ!Free(chead[c])
      BY <2>2, PopFreeRefines
    <3>2. chead[c] \in BeingFreed
      BY <3>1 DEF TQ!Free
    <3> QED BY <3>1, <3>2 DEF TQ!QueueNext
  <2> QED BY <1>3, <2>1, <2>2, PopStutters DEF Pop
<1> QED BY <1>1, <1>2, <1>3 DEF Next

\* The lock-free code implements the ticket queue.
THEOREM Refinement ==
  ASSUME Capacity >= 2
  PROVE  Spec => ImplementsTicketQueue
<1>1. TypeOK /\ RingInv /\ [Next]_vars => [TQ!QueueNext]_(TQ!queueVars)
  BY StepRefines
<1> QED BY <1>1, InitRefines, TypeCorrect, RingInvariant, PTL
        DEF Spec, ImplementsTicketQueue, TQ!QueueSpec

-----------------------------------------------------------------------------
\* A Push that gives up is in PushLoadSeq and has found an older round's number.
LEMMA PushFailureBlocked ==
  ASSUME Capacity >= 2, TypeOK, RingInv, [Next]_vars, NEW p \in Producers,
         ppc[p] = "loadSeq", ppc'[p] = "idle"
  PROVE  ~TQ!HasRoom
<1> Counters
  BY DEF TypeOK, Counters
<1> USE RingAssumption DEF Counters
<1>1. seq[Slot(ptail[p])] < ptail[p]
  <2>1. ~UNCHANGED vars
    BY DEF vars, producerVars
  <2>2. \A c \in Consumers : ~Pop(c)
    BY DEF Pop, PopLoadHead, PopLoadSeq, PopCAS, PopCASFails, PopRead, PopClear,
           PopFree, producerVars
  <2>3. PICK q \in Producers : Push(q)
    BY <2>1, <2>2 DEF Next
  <2>4. q = p
    BY <2>3 DEF TypeOK, Push, PushCall, PushLoadTail, PushLoadSeq, PushCAS,
                PushCASFails, PushWrite, PushPublish
  <2>5. PushLoadSeq(p)
    BY <2>3, <2>4 DEF TypeOK, Push, PushCall, PushLoadTail, PushCAS, PushCASFails,
                      PushWrite, PushPublish
  <2> QED BY <2>5 DEF TypeOK, PushLoadSeq
<1>2. ptail[p] = tail
  <2>1. ptail[p] <= tail
    BY DEF RingInv, BeforeCAS
  <2>2. ASSUME ptail[p] < tail PROVE FALSE
    <3>1. ptail[p] \in 0 .. tail - 1
      BY <2>2
    <3>2. seq[Slot(ptail[p])] >= ptail[p]
      BY <3>1 DEF RingInv, PassedTickets
    <3>3. seq[Slot(ptail[p])] \in Nat
      BY SlotType
    <3> QED BY <3>2, <3>3, <1>1
  <2> QED BY <2>1, <2>2
<1>3. Len(log) = tail /\ tail <= head + Capacity
  BY DEF RingInv, NeverOverfull
<1>4. CASE tail = head + Capacity
  BY <1>3, <1>4 DEF TQ!HasRoom, TQ!QueueLen, TQ!NextTicket
<1>5. CASE tail < head + Capacity
  <2>1. tail \in tail .. head + Capacity - 1 /\ seq[Slot(tail)] # tail
    BY <1>1, <1>2, <1>5, SlotType
  <2>2. PICK c \in Consumers : Draining(c) /\ chead[c] = tail - Capacity
    BY <2>1 DEF RingInv, ClaimableTickets
  <2> QED BY <2>2, <1>3 DEF TQ!HasRoom, TQ!QueueLen, TQ!NextTicket, BeingFreed
<1> QED BY <1>3, <1>4, <1>5

\* A Pop that gives up is in PopLoadSeq and has found its own round's number.
LEMMA PopFailureBlocked ==
  ASSUME TypeOK, RingInv, [Next]_vars, NEW c \in Consumers,
         cpc[c] = "loadSeq", cpc'[c] = "idle"
  PROVE  head \notin Published
<1> Counters
  BY DEF TypeOK, Counters
<1> USE RingAssumption DEF Counters
<1>1. seq[Slot(chead[c])] = chead[c]
  <2>1. ~UNCHANGED vars
    BY DEF vars, consumerVars
  <2>2. \A p \in Producers : ~Push(p)
    BY DEF Push, PushCall, PushLoadTail, PushLoadSeq, PushCAS, PushCASFails,
           PushWrite, PushPublish, consumerVars
  <2>3. PICK d \in Consumers : Pop(d)
    BY <2>1, <2>2 DEF Next
  <2>4. d = c
    BY <2>3 DEF TypeOK, Pop, PopLoadHead, PopLoadSeq, PopCAS, PopCASFails, PopRead,
                PopClear, PopFree
  <2>5. PopLoadSeq(c)
    BY <2>3, <2>4 DEF TypeOK, Pop, PopLoadHead, PopCAS, PopCASFails, PopRead,
                      PopClear, PopFree
  <2> QED BY <2>5 DEF TypeOK, PopLoadSeq
<1>2. chead[c] = head
  <2>1. chead[c] <= head
    BY DEF RingInv, BeforeCAS
  <2>2. ASSUME chead[c] < head PROVE FALSE
    <3>1. chead[c] \in 0 .. head - 1
      BY <2>2
    <3>2. seq[Slot(chead[c])] >= chead[c] + 1
      BY <3>1 DEF RingInv, PassedTickets
    <3> QED BY <3>2, <1>1
  <2> QED BY <2>1, <2>2
<1> QED BY <1>1, <1>2 DEF Published

\* Push returns false only when there is no room, and Pop only when the oldest
\* ticket is not published.
THEOREM NoSpuriousFailure ==
  ASSUME Capacity >= 2
  PROVE  Spec => FailsOnlyWhenBlocked
<1>1. TypeOK /\ RingInv /\ [Next]_vars =>
        [ /\ \A p \in Producers :
               ppc[p] = "loadSeq" /\ ppc'[p] = "idle" => ~TQ!HasRoom
          /\ \A c \in Consumers :
               cpc[c] = "loadSeq" /\ cpc'[c] = "idle" => head \notin Published ]_vars
  BY PushFailureBlocked, PopFailureBlocked
<1> QED BY <1>1, TypeCorrect, RingInvariant, PTL DEF Spec, FailsOnlyWhenBlocked
=============================================================================
