------------------------------- MODULE LegacyGC -------------------------------
(***************************************************************************)
(* The legacy CacheDriver of mcache.go: clients call Set, Remove, Truncate *)
(* and Close on a SafeMap while the goroutine of gcmap sleeps until the    *)
(* earliest expiration of its heap, takes what is due off the heap and     *)
(* flushes it from the map.                                                *)
(*                                                                         *)
(* A call is a list of critical sections, as in module Cache: todo[a]      *)
(* holds the ones that the call of client a still has to run.  The clock   *)
(* is read apart from the sections, as in the code: Set reads it for the   *)
(* item and Expired reads it again for the heap.  The heap is the function *)
(* from its keys to their times; of two keys with the least time either    *)
(* may be at the root.  A shard of the map holds one key.                  *)
(***************************************************************************)
EXTENDS Integers, SequencesExt, FiniteSetsExt

CONSTANTS Keys, Clients,
          TTLs,     \* durations that callers pass, 0 = for ever
          Poll,     \* defaultPollInterval
          Lag,      \* how far the cached clock may be behind a timer
          MaxNow,   \* bound: the clock stops here
          MaxCalls, \* bound: how many calls clients make
          AnyKey    \* key of a step on every key

ASSUME LegacyAssumption ==
  /\ TTLs \subseteq Nat /\ \E longest \in TTLs : \A ttl \in TTLs : ttl <= longest
  /\ IsFiniteSet(Keys)   \* a shard of the map each
  /\ Lag \in Nat /\ {Poll, MaxNow} \subseteq Nat \ {0}
  /\ MaxCalls \in Nat /\ AnyKey \notin Keys

VARIABLES items,    \* SafeMap: the ExpireAt of each stored item
          heap,     \* GC.pq and GC.keys: when each scheduled key is due
          timer,    \* when the timer the loop waits for fires, Never if stopped
          wake,     \* a token is in wakeSignal
          cancelled,\* the context is cancelled
          pc,       \* where the goroutine is in GC.run
          nowNano,  \* the time it has read in processExpiredKeys
          flush,    \* the keys it has still to flush
          now,      \* clock.NowNano
          todo,     \* what is left of each client's call
          calls,    \* how many calls were made
          raced,    \* ghost: keys two calls have worked on at once
          tied      \* ghost: items flushed in vain at the time of their ExpireAt

loop == <<timer, pc, nowNano, flush>>
vars == <<items, heap, wake, cancelled, loop, now, todo, calls, raced, tied>>

Never == 0

Step(o, k, t) == [op |-> o, key |-> k, t |-> t]

Ops == {"InsertItem", "Expired", "Schedule", "SignalWakeUp", "RemoveKey",
        "Delete", "TruncateShard", "TruncateHeap"}

Steps == [op : Ops, key : Keys \cup {AnyKey}, t : Nat]

Idle(a) == todo[a] = <<>>
Doing(a, o) == ~Idle(a) /\ Head(todo[a]).op = o
Then(a, steps) == todo' = [todo EXCEPT ![a] = steps \o Tail(@)]

With(f, k, v) == [j \in DOMAIN f \cup {k} |-> IF j = k THEN v ELSE f[j]]
Without(f, ks) == [j \in DOMAIN f \ ks |-> f[j]]

Works(steps, k) == \E i \in DOMAIN steps : steps[i].key \in {k, AnyKey}

\* Keys with the least time in heap h; one of them is at the root.
Earliest(h) == {k \in DOMAIN h : \A j \in DOMAIN h : h[k] <= h[j]}

-----------------------------------------------------------------------------
Init ==
  /\ items = <<>> /\ heap = <<>> /\ timer = Never
  /\ wake = FALSE /\ cancelled = FALSE
  /\ pc = "arm" /\ nowNano = 0 /\ flush = <<>>
  /\ now = 1 /\ todo = [a \in Clients |-> <<>>] /\ calls = 0
  /\ raced = {} /\ tied = {}

Call(a, steps) ==
  /\ Idle(a) /\ calls < MaxCalls
  /\ calls' = calls + 1
  /\ todo' = [todo EXCEPT ![a] = steps]
  /\ UNCHANGED <<items, heap, wake, loop, now, tied>>

\* mutant: the heap is told the time, not the duration
SetPassesTime(a, k, ttl) ==
  /\ Call(a, <<Step("InsertItem", k, IF ttl > 0 THEN now + ttl ELSE 0),
               Step(IF ttl > 0 THEN "Expired" ELSE "RemoveKey", k, now + ttl)>>)
  /\ UNCHANGED cancelled

\* mutant: the key is scheduled before its item is in the map
SetSchedulesFirst(a, k, ttl) ==
  /\ Call(a, <<Step(IF ttl > 0 THEN "Expired" ELSE "RemoveKey", k, ttl),
               Step("InsertItem", k, IF ttl > 0 THEN now + ttl ELSE 0)>>)
  /\ UNCHANGED cancelled

\* Set, which takes the item's expiration from the clock here
Set(a, k, ttl) ==
  /\ Call(a, <<Step("InsertItem", k, IF ttl > 0 THEN now + ttl ELSE 0),
               Step(IF ttl > 0 THEN "Expired" ELSE "RemoveKey", k, ttl)>>)
  /\ UNCHANGED cancelled

\* CacheDriver.Remove
RemoveItem(a, k) ==
  /\ Call(a, <<Step("Delete", k, 0), Step("RemoveKey", k, 0)>>)
  /\ UNCHANGED cancelled

\* Truncate: the shards in any order, then the heap
Truncate(a) ==
  /\ \E order \in SetToSeqs(Keys) :
       Call(a, [i \in DOMAIN order |-> Step("TruncateShard", order[i], 0)]
               \o <<Step("TruncateHeap", AnyKey, 0)>>)
  /\ UNCHANGED cancelled

\* Close cancels the context and reads the map; it does not wait for the loop.
Close(a) == Call(a, <<>>) /\ cancelled' = TRUE

-----------------------------------------------------------------------------
(* The critical sections of the calls.                                     *)

InsertItem(a) ==
  /\ Doing(a, "InsertItem")
  /\ LET s == Head(todo[a])
     IN  items' = With(items, s.key, s.t) /\ tied' = tied \ {s.key}
  /\ Then(a, <<>>)
  /\ UNCHANGED <<heap, wake, cancelled, loop, now, calls>>

\* Delete, and Truncate of a shard
DeleteItem(a) ==
  /\ Doing(a, "Delete") \/ Doing(a, "TruncateShard")
  /\ items' = Without(items, {Head(todo[a]).key})
  /\ Then(a, <<>>)
  /\ UNCHANGED <<heap, wake, cancelled, loop, now, calls, tied>>

\* Expired reads the clock a second time, before it takes the lock.
ExpiredAt(a) ==
  /\ Doing(a, "Expired")
  /\ LET s == Head(todo[a]) IN Then(a, <<Step("Schedule", s.key, now + s.t)>>)
  /\ UNCHANGED <<items, heap, wake, cancelled, loop, now, calls, tied>>

\* mutant: only a key that is new in the heap wakes the loop
ScheduleWakesIfNew(a) ==
  /\ Doing(a, "Schedule")
  /\ LET s == Head(todo[a])
         h == With(heap, s.key, s.t)
     IN  /\ heap' = h
         /\ Then(a, IF Earliest(h) = {s.key} /\ s.key \notin DOMAIN heap
                    THEN <<Step("SignalWakeUp", s.key, 0)>> ELSE <<>>)
  /\ UNCHANGED <<items, wake, cancelled, loop, now, calls, tied>>

\* Expired under gc.mu: push or fix, then look whether the key is at the root
Schedule(a) ==
  /\ Doing(a, "Schedule")
  /\ LET s == Head(todo[a])
         h == With(heap, s.key, s.t)
     IN  /\ heap' = h
         /\ \/ s.key \in Earliest(h) /\ Then(a, <<Step("SignalWakeUp", s.key, 0)>>)
            \/ Earliest(h) # {s.key} /\ Then(a, <<>>)
  /\ UNCHANGED <<items, wake, cancelled, loop, now, calls, tied>>

\* signalWakeUp, without the lock; nothing if a token is already there
SignalWakeUp(a) ==
  /\ Doing(a, "SignalWakeUp")
  /\ wake' = TRUE
  /\ Then(a, <<>>)
  /\ UNCHANGED <<items, heap, cancelled, loop, now, calls, tied>>

RemoveKey(a) ==
  /\ Doing(a, "RemoveKey")
  /\ heap' = Without(heap, {Head(todo[a]).key})
  /\ Then(a, <<>>)
  /\ UNCHANGED <<items, wake, cancelled, loop, now, calls, tied>>

\* GC.Truncate stops the timer on which the loop may be waiting.
TruncateHeap(a) ==
  /\ Doing(a, "TruncateHeap")
  /\ heap' = <<>> /\ timer' = Never
  /\ Then(a, <<>>)
  /\ UNCHANGED <<items, wake, cancelled, pc, nowNano, flush, now, calls, tied>>

-----------------------------------------------------------------------------
(* The goroutine of GC.run.                                                *)

Due(t) == {k \in DOMAIN heap : heap[k] <= t}

\* The top of the loop, under gc.mu: nothing to wait for, or arm the timer
Arm ==
  /\ pc = "arm"
  /\ \/ Due(now) # {} /\ pc' = "process" /\ UNCHANGED timer
     \/ /\ Due(now) = {} /\ pc' = "select"
        /\ timer' = IF heap = <<>> THEN now + Poll
                    ELSE heap[CHOOSE k \in Earliest(heap) : TRUE]
  /\ UNCHANGED <<items, heap, wake, cancelled, nowNano, flush, now, todo, calls, tied>>

\* mutant: the loop goes back to sleep without looking at the heap
WokenInVain ==
  /\ pc = "select" /\ wake /\ wake' = FALSE
  /\ UNCHANGED <<items, heap, cancelled, loop, now, todo, calls, tied>>

SelectWake ==
  /\ pc = "select" /\ wake
  /\ wake' = FALSE /\ pc' = "arm" /\ timer' = Never
  /\ UNCHANGED <<items, heap, cancelled, nowNano, flush, now, todo, calls, tied>>

SelectTimer ==
  /\ pc = "select" /\ timer # Never /\ now + Lag >= timer
  /\ pc' = "process" /\ timer' = Never
  /\ UNCHANGED <<items, heap, wake, cancelled, nowNano, flush, now, todo, calls, tied>>

SelectDone ==
  /\ pc = "select" /\ cancelled
  /\ pc' = "exit" /\ timer' = Never
  /\ UNCHANGED <<items, heap, wake, cancelled, nowNano, flush, now, todo, calls, tied>>

\* processExpiredKeys reads the clock before it takes the lock.
ReadClock ==
  /\ pc = "process"
  /\ nowNano' = now /\ pc' = "pop"
  /\ UNCHANGED <<items, heap, wake, cancelled, timer, flush, now, todo, calls, tied>>

PopDue ==
  /\ pc = "pop"
  /\ flush' \in SetToSeqs(Due(nowNano))
  /\ heap' = Without(heap, Due(nowNano))
  /\ pc' = "flush"
  /\ UNCHANGED <<items, wake, cancelled, timer, nowNano, now, todo, calls, tied>>

\* Item.IsExpired
IsExpired(exp, t) == exp > 0 /\ t > exp

\* FlushKeys, one key under the lock of its shard
FlushKey ==
  /\ pc = "flush" /\ flush # <<>>
  /\ LET k == Head(flush)
         expired == k \in DOMAIN items /\ IsExpired(items[k], nowNano)
     IN  /\ items' = IF expired THEN Without(items, {k}) ELSE items
         /\ tied' = IF k \in DOMAIN items /\ items[k] = nowNano THEN tied \cup {k} ELSE tied
  /\ flush' = Tail(flush)
  /\ UNCHANGED <<heap, wake, cancelled, timer, pc, nowNano, now, todo, calls>>

FlushDone ==
  /\ pc = "flush" /\ flush = <<>>
  /\ pc' = "arm" /\ nowNano' = 0
  /\ UNCHANGED <<items, heap, wake, cancelled, timer, flush, now, todo, calls, tied>>

ClockTick ==
  /\ now < MaxNow /\ now' = now + 1
  /\ UNCHANGED <<items, heap, wake, cancelled, loop, todo, calls, tied>>

-----------------------------------------------------------------------------
CallNext(a) ==
  \/ \E k \in Keys, ttl \in TTLs : Set(a, k, ttl)
  \/ \E k \in Keys : RemoveItem(a, k)
  \/ Truncate(a) \/ Close(a)

ClientStep(a) ==
  \/ InsertItem(a) \/ DeleteItem(a) \/ ExpiredAt(a) \/ Schedule(a)
  \/ SignalWakeUp(a) \/ RemoveKey(a) \/ TruncateHeap(a)

LoopNext ==
  \/ Arm \/ SelectWake \/ SelectTimer \/ SelectDone
  \/ ReadClock \/ PopDue \/ FlushKey \/ FlushDone

Observe ==
  raced' = raced \cup {k \in Keys \ raced : \E a, b \in Clients :
                         a # b /\ Works(todo'[a], k) /\ Works(todo'[b], k)}

Next ==
  /\ \/ \E a \in Clients : CallNext(a) \/ ClientStep(a)
     \/ LoopNext
     \/ ClockTick
  /\ Observe

(* Go schedules every goroutine, the clock goes on, and a timer that is    *)
(* due is seen.                                                            *)
Fairness ==
  /\ \A a \in Clients : WF_vars(ClientStep(a) /\ Observe)
  /\ WF_vars(LoopNext /\ Observe)
  /\ WF_vars(ClockTick /\ Observe)

Spec == Init /\ [][Next]_vars /\ Fairness

-----------------------------------------------------------------------------
(* Properties.                                                             *)

Working(k) == \E a \in Clients : Works(todo[a], k)

\* Types: what is in the map, the heap and the loop's variables; no expiration
\* is further ahead of the clock than a TTL.
TypeOK ==
  /\ DOMAIN items \subseteq Keys
  /\ \A k \in DOMAIN items : items[k] \in 0 .. now + Max(TTLs)
  /\ DOMAIN heap \subseteq Keys
  /\ \A k \in DOMAIN heap : heap[k] \in 1 .. now + Max(TTLs)
  /\ timer \in Nat /\ wake \in BOOLEAN /\ cancelled \in BOOLEAN
  /\ pc \in {"arm", "select", "process", "pop", "flush", "exit"}
  /\ nowNano \in 0 .. now /\ flush \in Seq(Keys) /\ now \in 1 .. MaxNow
  /\ \A a \in Clients : todo[a] \in Seq(Steps)
  /\ calls \in 0 .. MaxCalls /\ raced \cup tied \subseteq Keys

\* The loop never sleeps past the earliest expiration in the heap: its timer
\* fires by then, or a wake-up is in the channel, or a call that has left the
\* lock is about to send one.  That holds although the wake-up is sent without
\* the lock and dropped when one is pending, and although Truncate stops the
\* timer under a sleeping loop.
NeverOversleeps ==
  pc = "select" /\ heap # <<>> =>
    \/ timer # Never /\ \A k \in DOMAIN heap : timer <= heap[k]
    \/ wake
    \/ \E a \in Clients : Doing(a, "SignalWakeUp")

\* An item with a TTL that no call is working on, and that no two calls have
\* worked on at once, is scheduled no earlier than its ExpireAt or is about to
\* be flushed for good.  The exception is a tie: taken off the heap at the very
\* time of its ExpireAt, it does not count as expired and is forgotten.
ForgottenOnlyByTie ==
  \A k \in DOMAIN items \ (raced \cup tied) :
    items[k] > 0 /\ ~Working(k) =>
      \/ k \in DOMAIN heap /\ heap[k] >= items[k]
      \/ k \in ToSet(flush) /\ nowNano >= items[k]

\* Whether the loop owes the removal of key k.
Overdue(k) ==
  /\ k \in DOMAIN items \ (raced \cup tied) /\ IsExpired(items[k], now)
  /\ k \in DOMAIN heap => heap[k] <= now
  /\ ~Working(k) /\ ~cancelled

\* An item past its expiration does not stay in the map while the loop runs,
\* whatever else is set, removed and truncated meanwhile.
ExpiredIsRemoved == \A k \in Keys : Overdue(k) ~> ~Overdue(k)
=============================================================================
