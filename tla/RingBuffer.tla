----------------------------- MODULE RingBuffer -----------------------------
(***************************************************************************)
(* The lock-free ring buffer of internal/buffer/ring.go, one action per    *)
(* atomic load, store or compare-and-swap.  The code calls itself MPSC;    *)
(* Pop is written with a compare-and-swap on head, so any number of        *)
(* consumers is allowed here and one consumer is a special case.           *)
(*                                                                         *)
(* tail, head and seq are 64-bit counters in the code.  They grow by one   *)
(* per operation and cannot wrap in the life of a process, so they are     *)
(* natural numbers here.                                                   *)
(***************************************************************************)
EXTENDS Integers, Sequences

CONSTANTS Producers, Consumers, Capacity,
          NoItem,     \* the zero value of the element type
          MaxPush     \* bound: calls of Push by one producer

ASSUME RingAssumption ==
  /\ Capacity \in Nat \ {0}
  /\ MaxPush \in Nat
  /\ NoItem \notin Producers \X (0 .. MaxPush)

VARIABLES seq, value,          \* node[T], per slot
          head, tail,
          sent, ppc, ptail,    \* calls so far, position and local tail of a Push
          cpc, chead, cval,    \* position and locals of a Pop
          log,                 \* history: items in the order their ticket was claimed
          popped               \* history: <<ticket, value>> of every Pop that returned one

shared == <<seq, value, head, tail>>
producerVars == <<sent, ppc, ptail>>
consumerVars == <<cpc, chead, cval>>
vars == <<shared, producerVars, consumerVars, log, popped>>

Slots == 0 .. Capacity - 1
Items == Producers \X (0 .. MaxPush)

\* tail & rb.mask, head & rb.mask
Slot(t) == t % Capacity

\* mutants of FreedSeq
FreedSeqOffByOne(t) == t + Capacity + 1
FreedSeqWrongSign(t) == t - Capacity

\* head + uint64(len(rb.data)), the number that hands a slot to the next round
FreedSeq(t) == t + Capacity

\* the item of the Push that p is in
Item(p) == <<p, sent[p]>>

TypeOK ==
  /\ seq \in [Slots -> Nat]
  /\ value \in [Slots -> Items \cup {NoItem}]
  /\ head \in Nat /\ tail \in Nat
  /\ sent \in [Producers -> 0 .. MaxPush]
  /\ ppc \in [Producers -> {"idle", "loadTail", "loadSeq", "cas", "write", "publish"}]
  /\ ptail \in [Producers -> Nat]
  /\ cpc \in [Consumers -> {"idle", "retry", "loadSeq", "cas", "read", "clear", "free"}]
  /\ chead \in [Consumers -> Nat]
  /\ cval \in [Consumers -> Items \cup {NoItem}]
  /\ log \in Seq(Items)
  /\ popped \subseteq Nat \X (Items \cup {NoItem})

\* NewRingBuffer
Init ==
  /\ seq = [i \in Slots |-> i]
  /\ value = [i \in Slots |-> NoItem]
  /\ head = 0 /\ tail = 0
  /\ sent = [p \in Producers |-> 0]
  /\ ppc = [p \in Producers |-> "idle"]
  /\ ptail = [p \in Producers |-> 0]
  /\ cpc = [c \in Consumers |-> "idle"]
  /\ chead = [c \in Consumers |-> 0]
  /\ cval = [c \in Consumers |-> NoItem]
  /\ log = <<>>
  /\ popped = {}
-----------------------------------------------------------------------------
(* Push *)

PushCall(p) ==
  /\ ppc[p] = "idle" /\ sent[p] < MaxPush
  /\ sent' = [sent EXCEPT ![p] = @ + 1]
  /\ ppc' = [ppc EXCEPT ![p] = "loadTail"]
  /\ UNCHANGED <<shared, ptail, consumerVars, log, popped>>

PushLoadTail(p) ==
  /\ ppc[p] = "loadTail"
  /\ ptail' = [ptail EXCEPT ![p] = tail]
  /\ ppc' = [ppc EXCEPT ![p] = "loadSeq"]
  /\ UNCHANGED <<shared, sent, consumerVars, log, popped>>

\* mutant: any sequence number that is not the expected one counts as full
PushLoadSeqHasty(p) ==
  /\ ppc[p] = "loadSeq"
  /\ ppc' = [ppc EXCEPT ![p] =
               IF seq[Slot(ptail[p])] = ptail[p] THEN "cas" ELSE "idle"]
  /\ UNCHANGED <<shared, sent, ptail, consumerVars, log, popped>>

\* the slot is free (go on), the buffer is full (return false), or the tail
\* that was loaded is stale (retry)
PushLoadSeq(p) ==
  /\ ppc[p] = "loadSeq"
  /\ LET s == seq[Slot(ptail[p])] IN
     \/ s = ptail[p] /\ ppc' = [ppc EXCEPT ![p] = "cas"]
     \/ s < ptail[p] /\ ppc' = [ppc EXCEPT ![p] = "idle"]
     \/ s > ptail[p] /\ ppc' = [ppc EXCEPT ![p] = "loadTail"]
  /\ UNCHANGED <<shared, sent, ptail, consumerVars, log, popped>>

\* mutant: the result of the compare-and-swap on tail is ignored
PushCASIgnored(p) ==
  /\ ppc[p] = "cas"
  /\ tail' = ptail[p] + 1
  /\ log' = Append(log, Item(p))
  /\ ppc' = [ppc EXCEPT ![p] = "write"]
  /\ UNCHANGED <<seq, value, head, sent, ptail, consumerVars, popped>>

PushCAS(p) ==
  /\ ppc[p] = "cas" /\ tail = ptail[p]
  /\ tail' = tail + 1
  /\ log' = Append(log, Item(p))
  /\ ppc' = [ppc EXCEPT ![p] = "write"]
  /\ UNCHANGED <<seq, value, head, sent, ptail, consumerVars, popped>>

PushCASFails(p) ==
  /\ ppc[p] = "cas" /\ tail # ptail[p]
  /\ ppc' = [ppc EXCEPT ![p] = "loadTail"]
  /\ UNCHANGED <<shared, sent, ptail, consumerVars, log, popped>>

PushWrite(p) ==
  /\ ppc[p] = "write"
  /\ value' = [value EXCEPT ![Slot(ptail[p])] = Item(p)]
  /\ ppc' = [ppc EXCEPT ![p] = "publish"]
  /\ UNCHANGED <<seq, head, tail, sent, ptail, consumerVars, log, popped>>

PushPublish(p) ==
  /\ ppc[p] = "publish"
  /\ seq' = [seq EXCEPT ![Slot(ptail[p])] = ptail[p] + 1]
  /\ ppc' = [ppc EXCEPT ![p] = "idle"]
  /\ UNCHANGED <<value, head, tail, sent, ptail, consumerVars, log, popped>>
-----------------------------------------------------------------------------
(* Pop *)

\* a new call, or another round of the loop
PopLoadHead(c) ==
  /\ cpc[c] \in {"idle", "retry"}
  /\ chead' = [chead EXCEPT ![c] = head]
  /\ cpc' = [cpc EXCEPT ![c] = "loadSeq"]
  /\ UNCHANGED <<shared, producerVars, cval, log, popped>>

\* an item is there (go on), the buffer is empty (return false), or the head
\* that was loaded is stale (retry)
PopLoadSeq(c) ==
  /\ cpc[c] = "loadSeq"
  /\ LET s == seq[Slot(chead[c])] IN
     \/ s = chead[c] + 1 /\ cpc' = [cpc EXCEPT ![c] = "cas"]
     \/ s = chead[c] /\ cpc' = [cpc EXCEPT ![c] = "idle"]
     \/ s \notin {chead[c], chead[c] + 1} /\ cpc' = [cpc EXCEPT ![c] = "retry"]
  /\ UNCHANGED <<shared, producerVars, chead, cval, log, popped>>

\* mutant: the result of the compare-and-swap on head is ignored
PopCASIgnored(c) ==
  /\ cpc[c] = "cas"
  /\ head' = chead[c] + 1
  /\ cpc' = [cpc EXCEPT ![c] = "read"]
  /\ UNCHANGED <<seq, value, tail, producerVars, chead, cval, log, popped>>

PopCAS(c) ==
  /\ cpc[c] = "cas" /\ head = chead[c]
  /\ head' = head + 1
  /\ cpc' = [cpc EXCEPT ![c] = "read"]
  /\ UNCHANGED <<seq, value, tail, producerVars, chead, cval, log, popped>>

PopCASFails(c) ==
  /\ cpc[c] = "cas" /\ head # chead[c]
  /\ cpc' = [cpc EXCEPT ![c] = "retry"]
  /\ UNCHANGED <<shared, producerVars, chead, cval, log, popped>>

\* mutant: a Pop that reads the slot after clearing it
PopReadCleared(c) ==
  /\ cpc[c] = "read"
  /\ cval' = [cval EXCEPT ![c] = NoItem]
  /\ cpc' = [cpc EXCEPT ![c] = "clear"]
  /\ UNCHANGED <<shared, producerVars, chead, log, popped>>

PopRead(c) ==
  /\ cpc[c] = "read"
  /\ cval' = [cval EXCEPT ![c] = value[Slot(chead[c])]]
  /\ cpc' = [cpc EXCEPT ![c] = "clear"]
  /\ UNCHANGED <<shared, producerVars, chead, log, popped>>

PopClear(c) ==
  /\ cpc[c] = "clear"
  /\ value' = [value EXCEPT ![Slot(chead[c])] = NoItem]
  /\ cpc' = [cpc EXCEPT ![c] = "free"]
  /\ UNCHANGED <<seq, head, tail, producerVars, chead, cval, log, popped>>

\* stores the sequence number that frees the slot, and returns the value
PopFree(c) ==
  /\ cpc[c] = "free"
  /\ seq' = [seq EXCEPT ![Slot(chead[c])] = FreedSeq(chead[c])]
  /\ cpc' = [cpc EXCEPT ![c] = "idle"]
  /\ popped' = popped \cup {<<chead[c], cval[c]>>}
  /\ UNCHANGED <<value, head, tail, producerVars, chead, cval, log>>
-----------------------------------------------------------------------------
Push(p) ==
  \/ PushCall(p) \/ PushLoadTail(p) \/ PushLoadSeq(p) \/ PushCAS(p)
  \/ PushCASFails(p) \/ PushWrite(p) \/ PushPublish(p)

Pop(c) ==
  \/ PopLoadHead(c) \/ PopLoadSeq(c) \/ PopCAS(c) \/ PopCASFails(c)
  \/ PopRead(c) \/ PopClear(c) \/ PopFree(c)

Next == (\E p \in Producers : Push(p)) \/ (\E c \in Consumers : Pop(c))

Spec == Init /\ [][Next]_vars
-----------------------------------------------------------------------------
(* Properties *)

\* p holds a claimed ticket that it has not published
Writing(p) == ppc[p] \in {"write", "publish"}

\* c holds a ticket it took and has not freed
Draining(c) == cpc[c] \in {"read", "clear", "free"}

\* Every Pop that returns an item returns the item of the ticket it took, and
\* every ticket is taken exactly once, in the order in which Push claimed
\* them: no item is lost, duplicated, reordered or replaced by the zero value.
PopsInClaimOrder ==
  /\ \A r \in popped : r[1] < head /\ r[2] = log[r[1] + 1]
  /\ \A t \in 0 .. head - 1 :
       \/ \E r \in popped : r[1] = t
       \/ \E c \in Consumers : Draining(c) /\ chead[c] = t
  /\ \A c \in Consumers : Draining(c) =>
       /\ \A r \in popped : r[1] # chead[c]
       /\ \A d \in Consumers \ {c} : Draining(d) => chead[d] # chead[c]

\* The plain (non-atomic) reads and writes of node.value never race: two
\* goroutines that are between their compare-and-swap and their store of
\* seq work on different slots.
NoValueRace ==
  /\ \A p, q \in Producers : p # q /\ Writing(p) /\ Writing(q) =>
       Slot(ptail[p]) # Slot(ptail[q])
  /\ \A c, d \in Consumers : c # d /\ Draining(c) /\ Draining(d) =>
       Slot(chead[c]) # Slot(chead[d])
  /\ \A p \in Producers, c \in Consumers : Writing(p) /\ Draining(c) =>
       Slot(ptail[p]) # Slot(chead[c])

\* Push says true only when it has a slot of its own: the claimed and not yet
\* popped items never outnumber the slots.
NeverOverfull == head <= tail /\ tail <= head + Capacity
-----------------------------------------------------------------------------
(* The inductive invariant.  A ticket t in head .. head + Capacity - 1 is   *)
(* the present owner of Slot(t), and seq[Slot(t)] says in which phase of    *)
(* its life the ticket is: t is free, t + 1 is published; a slot whose last *)
(* consumer has not finished still carries t - Capacity + 1.                *)

\* A claimed ticket is published, with its item in the slot, or some Push is
\* still about to publish it.
PendingTickets ==
  \A t \in head .. tail - 1 :
    \/ seq[Slot(t)] = t + 1 /\ value[Slot(t)] = log[t + 1]
    \/ \E p \in Producers : Writing(p) /\ ptail[p] = t

\* A ticket that can be claimed next has a free slot, or some Pop is still
\* about to free it.
ClaimableTickets ==
  \A t \in tail .. head + Capacity - 1 :
    \/ seq[Slot(t)] = t
    \/ \E c \in Consumers : Draining(c) /\ chead[c] = t - Capacity

WriterTickets ==
  \A p \in Producers : Writing(p) =>
    /\ head <= ptail[p] /\ ptail[p] < tail
    /\ log[ptail[p] + 1] = Item(p)
    /\ seq[Slot(ptail[p])] = ptail[p]
    /\ ppc[p] = "publish" => value[Slot(ptail[p])] = Item(p)
    /\ \A q \in Producers \ {p} : Writing(q) => ptail[q] # ptail[p]

DrainerTickets ==
  \A c \in Consumers : Draining(c) =>
    /\ chead[c] < head /\ tail <= chead[c] + Capacity
    /\ seq[Slot(chead[c])] = chead[c] + 1
    /\ cpc[c] = "read" => value[Slot(chead[c])] = log[chead[c] + 1]
    /\ cpc[c] # "read" => cval[c] = log[chead[c] + 1]

\* What a Push or Pop knows before its compare-and-swap: the index it loaded
\* may be stale, but if it is not, neither is the sequence number.
BeforeCAS ==
  /\ \A p \in Producers : ppc[p] \in {"loadSeq", "cas"} =>
       /\ ptail[p] <= tail
       /\ ppc[p] = "cas" /\ ptail[p] = tail =>
            tail < head + Capacity /\ seq[Slot(tail)] = tail
  /\ \A c \in Consumers : cpc[c] \in {"loadSeq", "cas"} =>
       /\ chead[c] <= head
       /\ cpc[c] = "cas" /\ chead[c] = head =>
            head < tail /\ seq[Slot(head)] = head + 1

\* The sequence number of a slot never falls behind a ticket that has passed
\* it, so a stale index cannot be mistaken for a full or an empty buffer.
PassedTickets ==
  /\ \A t \in 0 .. tail - 1 : seq[Slot(t)] >= t
  /\ \A t \in 0 .. head - 1 : seq[Slot(t)] >= t + 1

RingInv ==
  /\ Len(log) = tail
  /\ NeverOverfull
  /\ PendingTickets
  /\ ClaimableTickets
  /\ WriterTickets
  /\ DrainerTickets
  /\ BeforeCAS
  /\ PassedTickets
  /\ PopsInClaimOrder
-----------------------------------------------------------------------------
(* Refinement *)

Published == {t \in head .. tail - 1 : seq[Slot(t)] = t + 1}

BeingFreed == {chead[c] : c \in {d \in Consumers : Draining(d)}}

TQ == INSTANCE TicketQueue WITH published <- Published, draining <- BeingFreed

\* The ring implements the ticket queue: the compare-and-swap on tail is the
\* claim, the store of tail + 1 the publication, the compare-and-swap on head
\* the take, the store of head + len(data) the release of the place; every
\* other step of the code changes nothing a caller can see.
ImplementsTicketQueue == TQ!QueueSpec

\* A failure is never spurious: when Push returns false the queue has no room
\* at that moment, and when Pop returns false the oldest ticket is not
\* published at that moment, however stale the index they loaded was.
FailsOnlyWhenBlocked ==
  [][ /\ \A p \in Producers :
           ppc[p] = "loadSeq" /\ ppc'[p] = "idle" => ~TQ!HasRoom
      /\ \A c \in Consumers :
           cpc[c] = "loadSeq" /\ cpc'[c] = "idle" => head \notin Published ]_vars
=============================================================================
