----------------------------- MODULE TicketQueue -----------------------------
(***************************************************************************)
(* What internal/buffer/ring.go promises to its callers: a bounded FIFO    *)
(* queue of tickets.  A push first claims the next ticket and publishes it *)
(* later; a pop takes the oldest ticket once it is published and frees its *)
(* place later.  A claimed ticket that is not yet published blocks every   *)
(* younger one, which is why a pop may find nothing although a younger     *)
(* push has completed.  RingBuffer implements this module step by step;    *)
(* WriteBuffer is built on it.                                             *)
(***************************************************************************)
EXTENDS Integers, Sequences

CONSTANTS Capacity,   \* len(rb.data)
          Items       \* what producers push

ASSUME CapacityAssumption == Capacity \in Nat \ {0}

VARIABLES log,        \* every item ever claimed; ticket t is log[t + 1]
          head,       \* the next ticket to take
          published,  \* claimed tickets that a pop may take
          draining    \* tickets taken whose place is not free yet

queueVars == <<log, head, published, draining>>

NextTicket == Len(log)

Pending == head .. NextTicket - 1

\* rb.Len(): claimed and not yet taken
QueueLen == NextTicket - head

HasRoom == QueueLen < Capacity /\ NextTicket - Capacity \notin draining

QueueType ==
  /\ log \in Seq(Items)
  /\ head \in 0 .. NextTicket
  /\ published \subseteq Pending
  /\ draining \subseteq 0 .. head - 1

QueueInit ==
  /\ log = <<>>
  /\ head = 0
  /\ published = {}
  /\ draining = {}

Claim(x) ==
  /\ HasRoom
  /\ log' = Append(log, x)
  /\ UNCHANGED <<head, published, draining>>

Publish(t) ==
  /\ t \in Pending \ published
  /\ published' = published \cup {t}
  /\ UNCHANGED <<log, head, draining>>

Take ==
  /\ head \in published
  /\ head' = head + 1
  /\ published' = published \ {head}
  /\ draining' = draining \cup {head}
  /\ UNCHANGED log

Free(t) ==
  /\ t \in draining
  /\ draining' = draining \ {t}
  /\ UNCHANGED <<log, head, published>>

QueueNext ==
  \/ \E x \in Items : Claim(x)
  \/ \E t \in Pending : Publish(t)
  \/ Take
  \/ \E t \in draining : Free(t)

QueueSpec == QueueInit /\ [][QueueNext]_queueVars
=============================================================================
