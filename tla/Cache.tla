------------------------------- MODULE Cache -------------------------------
(***************************************************************************)
(* Cache of cache.go, with a write buffer or without (BufferItems = 0, the *)
(* default): clients call SetWithCost, Delete, Wait, Clear and Close while *)
(* the expiration worker runs removeExpired and the flush goroutine of the *)
(* buffer runs processWriteBatch.  A call is a list of critical            *)
(* sections on six structures that no common lock ties together: the      *)
(* sharded store, its atomic size, the atomic liveCost, the policy, the    *)
(* timing wheel and the radix tree.  todo[a] holds the sections that the   *)
(* call of actor a still has to run; each action runs the first one and    *)
(* puts in its place the ones the code runs next.                          *)
(*                                                                         *)
(* A shard holds one key: that allows every interleaving a shared lock     *)
(* allows.  The policy picks its victims by estimated frequency, so here   *)
(* any tracked key may be the victim and any candidate may be refused.     *)
(* The wheel is the set of scheduled events; ExpiryWheel has its buckets.  *)
(* The buffer is the bounded queue that module WriteBuffer shows it to be. *)
(***************************************************************************)
EXTENDS Integers, SequencesExt, FiniteSetsExt

CONSTANTS Keys, Clients, Worker, Flusher,
          Offers,             \* the costs and TTLs that callers pass
          ClockStep,          \* how far the cached clock moves at once
          MaxCost, MaxEntries,\* the limits of the policy, 0 = none
          QueueCap, BatchMax, \* capacity of the write buffer, size of a batch
          MaxNow,             \* bound: the clock stops here
          MaxCalls,           \* bound: how many calls clients make
          MaxRounds,          \* bound: how often the worker's ticker fires
          AnyKey, NoKey       \* key of a step on every key, on no key

ASSUME CacheAssumption ==
  /\ Offers \subseteq [cost : Nat \ {0}, ttl : Nat]
  /\ ClockStep \in Nat \ {0}
  /\ {MaxCost, MaxEntries, MaxCalls, MaxRounds} \subseteq Nat /\ MaxNow \in Nat \ {0}
  /\ IsFiniteSet(Keys)   \* a shard of the store each
  /\ IsFiniteSet(Clients)
  /\ {AnyKey, NoKey} \cap Keys = {} /\ AnyKey # NoKey
  /\ {QueueCap, BatchMax} \subseteq Nat \ {0}
  /\ {Worker, Flusher} \cap Clients = {} /\ Worker # Flusher

Actors == Clients \cup {Worker, Flusher}
Costs == {o.cost : o \in Offers}
Entries == [cost : Costs, exp : Nat]
Events == [key : Keys, exp : Nat \ {0}]

VARIABLES store,      \* ShardedStore: the entry of each stored key
          size,       \* ShardedStore.size
          liveCost,
          tracked,    \* SampledLFU.costs: the cost of each tracked key
          radix,      \* keys in the radix tree
          wheel,      \* events in the timing wheel
          now,        \* clock.NowNano
          clearMu,    \* holders of clearMu
          closed,     \* the cache is closed and its context cancelled
          stopped,    \* the worker has left expirationWorker
          todo,       \* what is left of each actor's call
          buffered,   \* whether there is a write buffer
          queue,      \* the writes in it, as the first step of each
          flusherDone,\* the flush goroutine has exited
          calls,      \* how many calls were made
          rounds,     \* how often the ticker has fired
          last,       \* ghost: the last write issued for each key
          overtaken,  \* ghost: keys with a write applied before an older one
          raced,      \* ghost: keys two calls have worked on at once
          clearRaced  \* ghost: a Clear has overlapped another call

shared == <<store, size, liveCost, tracked, radix, wheel>>
buffer == <<buffered, queue, flusherDone>>
writes == <<last, overtaken>>
frame == <<now, closed, stopped, buffer, calls, rounds, writes>>
vars == <<shared, clearMu, todo, frame, raced, clearRaced>>

-----------------------------------------------------------------------------
(* The steps of a call.                                                    *)

Step(o, k, n, x) == [op |-> o, key |-> k, n |-> n, exp |-> x]

Ops == {"Peek", "Update", "Add", "Evict", "Put", "Remove", "Size", "Cost",
        "PolicyUpdate", "PolicyDel", "Schedule", "RadixInsert", "RadixDelete",
        "ClearLock", "ClearShard", "ClearSize", "ClearPolicy", "ClearWheel",
        "ClearRadix", "ClearCost", "Unlock",
        "ExpireLock", "Advance", "Expire",
        "Push", "Wait", "CloseBuffer", "WgWait"}

Steps == [op : Ops, key : Keys \cup {AnyKey, NoKey}, n : Int, exp : Nat]

Idle(a) == todo[a] = <<>>
Doing(a, o) == ~Idle(a) /\ Head(todo[a]).op = o
Then(a, steps) == todo' = [todo EXCEPT ![a] = steps \o Tail(@)]

\* A map with an entry set, and a map with some entries deleted
With(f, k, v) == [j \in DOMAIN f \cup {k} |-> IF j = k THEN v ELSE f[j]]
Without(f, ks) == [j \in DOMAIN f \ ks |-> f[j]]

\* mutant: the test for a TTL is dropped
ScheduleAlways(k, x) == <<Step("Schedule", k, 0, x)>>

\* The call of Schedule: none for an entry without a TTL.
ScheduleIfTTL(k, x) == IF x > 0 THEN <<Step("Schedule", k, 0, x)>> ELSE <<>>

-----------------------------------------------------------------------------
(* Keys that a call is working on, and the ghosts that record overlaps.    *)

\* A write that is not in the buffer yet does not work on its key.
Works(steps, k) ==
  /\ steps # <<>> /\ Head(steps).op # "Push"
  /\ \E i \in DOMAIN steps : steps[i].key \in {k, AnyKey}

Clearing(steps) == \E i \in DOMAIN steps : steps[i].key = AnyKey

Observe ==
  LET busy == {a \in Actors : todo'[a] # <<>>}
      Overlap(k) == \E a, b \in busy : a # b /\ Works(todo'[a], k) /\ Works(todo'[b], k)
      ClearOverlap == \E a, b \in busy \ {Worker} :
        a # b /\ Clearing(todo'[a]) /\ \E k \in Keys : Works(todo'[b], k)
  IN  /\ raced' = raced \cup {k \in Keys \ raced : Overlap(k)}
      /\ clearRaced' = (clearRaced \/ ClearOverlap)

-----------------------------------------------------------------------------
Init ==
  /\ store = <<>> /\ size = 0 /\ liveCost = 0
  /\ tracked = <<>> /\ radix = {} /\ wheel = {}
  /\ now = 1 /\ clearMu = {} /\ closed = FALSE /\ stopped = FALSE
  /\ buffered \in BOOLEAN /\ queue = <<>> /\ flusherDone = ~buffered
  /\ todo = [a \in Actors |-> <<>>] /\ calls = 0 /\ rounds = 0
  /\ last = [k \in Keys |-> Step("Remove", k, 0, 0)] /\ overtaken = {}
  /\ raced = {} /\ clearRaced = FALSE

\* Bound: with a write buffer, whose goroutine is an actor more, a round of the
\* worker takes the place of a call.
CallsLeft == calls + (IF buffered THEN rounds ELSE 0) < MaxCalls

Call(a, steps) ==
  /\ Idle(a) /\ CallsLeft
  /\ calls' = calls + 1
  /\ todo' = [todo EXCEPT ![a] = steps]

(* A call whose effect begins with step s: it goes through the write       *)
(* buffer, if there is one.                                                *)
Write(a, s) ==
  /\ ~closed
  /\ Call(a, IF buffered THEN <<Step("Push", s.key, 0, 0), s>> ELSE <<s>>)
  /\ last' = IF buffered THEN last ELSE [last EXCEPT ![s.key] = s]
  /\ UNCHANGED <<shared, clearMu, now, closed, stopped, buffer, rounds, overtaken>>

(* SetWithCost: nothing after Close; the expiration is taken from the      *)
(* clock once, here.                                                       *)
SetWithCost(a, k, o) ==
  Write(a, Step("Peek", k, o.cost, IF o.ttl > 0 THEN now + o.ttl ELSE 0))

Delete(a, k) == Write(a, Step("Remove", k, 0, 0))

\* mutant: a write that finds the buffer full is dropped
PushOrDrop(a) ==
  /\ Doing(a, "Push")
  /\ LET s == todo[a][2]
     IN  /\ todo' = [todo EXCEPT ![a] = <<>>]
         /\ queue' = IF Len(queue) < QueueCap THEN Append(queue, s) ELSE queue
         /\ last' = [last EXCEPT ![s.key] = s] /\ UNCHANGED overtaken
  /\ UNCHANGED <<shared, clearMu, now, closed, stopped, buffered, flusherDone,
                 calls, rounds>>

(* writeBuffer.Push, or the synchronous fallback when it is full.          *)
Push(a) ==
  /\ Doing(a, "Push")
  /\ LET s == todo[a][2]
     IN  /\ \/ /\ Len(queue) < QueueCap
               /\ queue' = Append(queue, s)
               /\ todo' = [todo EXCEPT ![a] = <<>>]
               /\ UNCHANGED overtaken
            \/ /\ Len(queue) >= QueueCap
               /\ Then(a, <<>>)
               /\ overtaken' = overtaken \cup ({q.key : q \in ToSet(queue)} \cap {s.key})
               /\ UNCHANGED queue
         /\ last' = [last EXCEPT ![s.key] = s]
  /\ UNCHANGED <<shared, clearMu, now, closed, stopped, buffered, flusherDone,
                 calls, rounds>>

(* processWriteBatch: a batch of the oldest writes, applied one by one.    *)
FlushBatch ==
  /\ Idle(Flusher) /\ ~flusherDone /\ queue # <<>>
  /\ \E n \in 1 .. BatchMax :
       /\ n <= Len(queue)
       /\ todo' = [todo EXCEPT ![Flusher] = SubSeq(queue, 1, n)]
       /\ queue' = SubSeq(queue, n + 1, Len(queue))
  /\ UNCHANGED <<shared, clearMu, now, closed, stopped, buffered, flusherDone,
                 calls, rounds, writes>>

(* The flush goroutine takes stopCh, finds the ring empty and exits.       *)
FlusherExit ==
  /\ Idle(Flusher) /\ ~flusherDone /\ queue = <<>>
  /\ \E a \in Clients : Doing(a, "CloseBuffer")
  /\ flusherDone' = TRUE
  /\ UNCHANGED <<shared, clearMu, todo, now, closed, stopped, buffered, queue,
                 calls, rounds, writes>>

(* Wait; without a write buffer there is no write to wait for.             *)
Wait(a) ==
  /\ buffered /\ Call(a, <<Step("Wait", NoKey, 0, 0)>>)
  /\ UNCHANGED <<shared, clearMu, now, closed, stopped, buffer, rounds, writes>>

\* FlushSync returns: the flush goroutine has seen the ring empty, or is gone.
FlushSync(a) ==
  /\ Doing(a, "Wait")
  /\ flusherDone \/ (Idle(Flusher) /\ queue = <<>>)
  /\ Then(a, <<>>)
  /\ UNCHANGED <<shared, clearMu, frame>>

(* Clear waits for the buffer first; it does not look at closed.           *)
Clear(a) ==
  /\ Call(a, (IF buffered THEN <<Step("Wait", NoKey, 0, 0)>> ELSE <<>>)
             \o <<Step("ClearLock", NoKey, 0, 0)>>)
  /\ UNCHANGED <<shared, clearMu, now, closed, stopped, buffer, rounds, writes>>

(* Close: the first call cancels the context, flushes the write buffer and *)
(* waits for the worker; a second one returns at once.                     *)
Close(a) ==
  /\ Call(a, IF closed THEN <<>>
             ELSE <<Step("CloseBuffer", NoKey, 0, 0), Step("WgWait", NoKey, 0, 0)>>)
  /\ closed' = TRUE
  /\ UNCHANGED <<shared, clearMu, now, stopped, buffer, rounds, writes>>

CloseBuffer(a) ==
  /\ Doing(a, "CloseBuffer") /\ flusherDone
  /\ Then(a, <<>>)
  /\ UNCHANGED <<shared, clearMu, frame>>

WgWait(a) ==
  /\ Doing(a, "WgWait") /\ stopped
  /\ Then(a, <<>>)
  /\ UNCHANGED <<shared, clearMu, frame>>

-----------------------------------------------------------------------------
(* setSync = tryUpdateExisting, else doSet.                                *)

\* tryUpdateExisting: PeekByHash
Peek(a) ==
  /\ Doing(a, "Peek")
  /\ LET s == Head(todo[a])
     IN  Then(a, <<[s EXCEPT !.op = IF s.key \in DOMAIN store THEN "Update" ELSE "Add"]>>)
  /\ UNCHANGED <<shared, clearMu, frame>>

\* mutant: the whole cost is added, not the difference to the replaced entry
UpdateWholeCost(a) ==
  /\ Doing(a, "Update") /\ Head(todo[a]).key \in DOMAIN store
  /\ LET s == Head(todo[a])
     IN  /\ Then(a, <<Step("Cost", s.key, s.n, 0), Step("PolicyUpdate", s.key, s.n, 0)>>)
         /\ store' = [store EXCEPT ![s.key] = [cost |-> s.n, exp |-> s.exp]]
  /\ UNCHANGED <<size, liveCost, tracked, radix, wheel, clearMu, frame>>

\* tryUpdateExisting: UpdateExistingByHash, which may find the key gone
Update(a) ==
  /\ Doing(a, "Update")
  /\ LET s == Head(todo[a])
     IN  \/ /\ s.key \notin DOMAIN store
            /\ Then(a, <<[s EXCEPT !.op = "Add"]>>)
            /\ UNCHANGED store
         \/ /\ s.key \in DOMAIN store
            /\ LET delta == s.n - store[s.key].cost
               IN  Then(a, (IF delta # 0
                            THEN <<Step("Cost", s.key, delta, 0),
                                   Step("PolicyUpdate", s.key, s.n, 0)>>
                            ELSE <<>>)
                           \o ScheduleIfTTL(s.key, s.exp))
            /\ store' = [store EXCEPT ![s.key] = [cost |-> s.n, exp |-> s.exp]]
  /\ UNCHANGED <<size, liveCost, tracked, radix, wheel, clearMu, frame>>

\* SampledLFU.NeedsEviction when the policy tracks t
NeedsEviction(t) ==
  \/ MaxCost > 0 /\ MapThenSumSet(LAMBDA k : t[k], DOMAIN t) > MaxCost
  \/ MaxEntries > 0 /\ Cardinality(DOMAIN t) > MaxEntries

\* findVictimsLocked: while the policy is over a limit, one more tracked key
\* goes, until a candidate is refused.
VictimLists ==
  {vs \in SetToAllKPermutations(DOMAIN tracked) :
     \A i \in 1 .. Len(vs) : NeedsEviction(Without(tracked, ToSet(SubSeq(vs, 1, i - 1))))}

\* doSet: policy.Add; a tracked key only gets its new cost.
Add(a) ==
  /\ Doing(a, "Add")
  /\ LET s == Head(todo[a])
         put == [s EXCEPT !.op = "Put"]
     IN  \/ /\ s.key \in DOMAIN tracked
            /\ tracked' = [tracked EXCEPT ![s.key] = s.n]
            /\ Then(a, <<put>>)
         \/ /\ s.key \notin DOMAIN tracked
            /\ \E vs \in VictimLists :
                 /\ tracked' = With(Without(tracked, ToSet(vs)), s.key, s.n)
                 /\ Then(a, [i \in DOMAIN vs |-> Step("Evict", vs[i], 0, 0)] \o <<put>>)
  /\ UNCHANGED <<store, size, liveCost, radix, wheel, clearMu, frame>>

\* evictVictim: DeleteByHash and what follows it
Evict(a) ==
  /\ Doing(a, "Evict")
  /\ LET k == Head(todo[a]).key
     IN  /\ Then(a, IF k \in DOMAIN store
                    THEN <<Step("Size", k, -1, 0), Step("Cost", k, -store[k].cost, 0),
                           Step("RadixDelete", k, 0, 0)>>
                    ELSE <<>>)
         /\ store' = Without(store, {k})
  /\ UNCHANGED <<size, liveCost, tracked, radix, wheel, clearMu, frame>>

\* doSet: store.Set and what follows it.  The whole cost is added to liveCost,
\* also when an entry is replaced.
Put(a) ==
  /\ Doing(a, "Put")
  /\ LET s == Head(todo[a])
     IN  /\ Then(a, (IF s.key \in DOMAIN store THEN <<>> ELSE <<Step("Size", s.key, 1, 0)>>)
                    \o <<Step("Cost", s.key, s.n, 0)>>
                    \o ScheduleIfTTL(s.key, s.exp)
                    \o <<Step("RadixInsert", s.key, 0, 0)>>)
         /\ store' = With(store, s.key, [cost |-> s.n, exp |-> s.exp])
  /\ UNCHANGED <<size, liveCost, tracked, radix, wheel, clearMu, frame>>

\* doDelete: DeleteByHash and what follows it
DoDelete(a) ==
  /\ Doing(a, "Remove")
  /\ LET k == Head(todo[a]).key
     IN  /\ Then(a, IF k \in DOMAIN store
                    THEN <<Step("Size", k, -1, 0), Step("Cost", k, -store[k].cost, 0),
                           Step("PolicyDel", k, 0, 0), Step("RadixDelete", k, 0, 0)>>
                    ELSE <<>>)
         /\ store' = Without(store, {k})
  /\ UNCHANGED <<size, liveCost, tracked, radix, wheel, clearMu, frame>>

-----------------------------------------------------------------------------
(* Sections on one structure that take nothing but their own lock.         *)

\* size.Add
AddSize(a) ==
  /\ Doing(a, "Size")
  /\ size' = size + Head(todo[a]).n
  /\ Then(a, <<>>)
  /\ UNCHANGED <<store, liveCost, tracked, radix, wheel, clearMu, frame>>

\* liveCost.Add
AddCost(a) ==
  /\ Doing(a, "Cost")
  /\ liveCost' = liveCost + Head(todo[a]).n
  /\ Then(a, <<>>)
  /\ UNCHANGED <<store, size, tracked, radix, wheel, clearMu, frame>>

\* policy.Update: nothing for a key the policy does not track
PolicyUpdate(a) ==
  /\ Doing(a, "PolicyUpdate")
  /\ LET s == Head(todo[a])
     IN  tracked' = [k \in DOMAIN tracked |-> IF k = s.key THEN s.n ELSE tracked[k]]
  /\ Then(a, <<>>)
  /\ UNCHANGED <<store, size, liveCost, radix, wheel, clearMu, frame>>

\* policy.Del
PolicyDel(a) ==
  /\ Doing(a, "PolicyDel")
  /\ tracked' = Without(tracked, {Head(todo[a]).key})
  /\ Then(a, <<>>)
  /\ UNCHANGED <<store, size, liveCost, radix, wheel, clearMu, frame>>

\* expiryWheel.Schedule
Schedule(a) ==
  /\ Doing(a, "Schedule")
  /\ wheel' = wheel \cup {[key |-> Head(todo[a]).key, exp |-> Head(todo[a]).exp]}
  /\ Then(a, <<>>)
  /\ UNCHANGED <<store, size, liveCost, tracked, radix, clearMu, frame>>

\* radixTree.Insert and radixTree.Delete
RadixInsert(a) ==
  /\ Doing(a, "RadixInsert")
  /\ radix' = radix \cup {Head(todo[a]).key}
  /\ Then(a, <<>>)
  /\ UNCHANGED <<store, size, liveCost, tracked, wheel, clearMu, frame>>

RadixDelete(a) ==
  /\ Doing(a, "RadixDelete")
  /\ radix' = radix \ {Head(todo[a]).key}
  /\ Then(a, <<>>)
  /\ UNCHANGED <<store, size, liveCost, tracked, wheel, clearMu, frame>>

-----------------------------------------------------------------------------
(* Clear and removeExpired, serialised by clearMu.                         *)

Lock(a) == clearMu = {} /\ clearMu' = {a}

Unlock(a) ==
  /\ Doing(a, "Unlock")
  /\ clearMu' = clearMu \ {a}
  /\ Then(a, <<>>)
  /\ UNCHANGED <<shared, frame>>

\* Clear: the shards in any order, then size, policy, wheel, radix tree and
\* liveCost.
ClearLock(a) ==
  /\ Doing(a, "ClearLock") /\ Lock(a)
  /\ \E order \in SetToSeqs(Keys) :
       Then(a, [i \in DOMAIN order |-> Step("ClearShard", order[i], 0, 0)]
               \o [i \in 1 .. 5 |-> Step(<<"ClearSize", "ClearPolicy", "ClearWheel",
                                           "ClearRadix", "ClearCost">>[i], AnyKey, 0, 0)]
               \o <<Step("Unlock", NoKey, 0, 0)>>)
  /\ UNCHANGED <<shared, frame>>

ClearShard(a) ==
  /\ Doing(a, "ClearShard")
  /\ store' = Without(store, {Head(todo[a]).key})
  /\ Then(a, <<>>)
  /\ UNCHANGED <<size, liveCost, tracked, radix, wheel, clearMu, frame>>

ClearSize(a) ==
  /\ Doing(a, "ClearSize") /\ size' = 0 /\ Then(a, <<>>)
  /\ UNCHANGED <<store, liveCost, tracked, radix, wheel, clearMu, frame>>

ClearPolicy(a) ==
  /\ Doing(a, "ClearPolicy") /\ tracked' = <<>> /\ Then(a, <<>>)
  /\ UNCHANGED <<store, size, liveCost, radix, wheel, clearMu, frame>>

ClearWheel(a) ==
  /\ Doing(a, "ClearWheel") /\ wheel' = {} /\ Then(a, <<>>)
  /\ UNCHANGED <<store, size, liveCost, tracked, radix, clearMu, frame>>

ClearRadix(a) ==
  /\ Doing(a, "ClearRadix") /\ radix' = {} /\ Then(a, <<>>)
  /\ UNCHANGED <<store, size, liveCost, tracked, wheel, clearMu, frame>>

ClearCost(a) ==
  /\ Doing(a, "ClearCost") /\ liveCost' = 0 /\ Then(a, <<>>)
  /\ UNCHANGED <<store, size, tracked, radix, wheel, clearMu, frame>>

\* expirationWorker: the ticker fires, removeExpired begins
Tick ==
  /\ Idle(Worker) /\ ~stopped /\ rounds < MaxRounds /\ (buffered => CallsLeft)
  /\ rounds' = rounds + 1
  /\ todo' = [todo EXCEPT ![Worker] = <<Step("ExpireLock", NoKey, 0, 0)>>]
  /\ UNCHANGED <<shared, clearMu, now, closed, stopped, buffer, calls, writes>>

\* expirationWorker: ctx.Done
Stop ==
  /\ Idle(Worker) /\ closed /\ ~stopped
  /\ stopped' = TRUE
  /\ UNCHANGED <<shared, clearMu, now, closed, todo, buffer, calls, rounds, writes>>

\* mutant: removeExpired without clearMu
ExpireLockFree ==
  /\ Doing(Worker, "ExpireLock") /\ UNCHANGED clearMu
  /\ Then(Worker, <<Step("Advance", NoKey, now, 0), Step("Unlock", NoKey, 0, 0)>>)
  /\ UNCHANGED <<shared, frame>>

ExpireLock ==
  /\ Doing(Worker, "ExpireLock") /\ Lock(Worker)
  /\ Then(Worker, <<Step("Advance", NoKey, now, 0), Step("Unlock", NoKey, 0, 0)>>)
  /\ UNCHANGED <<shared, frame>>

\* Advance(now): the wheel is coarse and returns some of the events that are
\* due at the time the worker read, in some order.
Advance ==
  /\ Doing(Worker, "Advance")
  /\ LET t == Head(todo[Worker]).n
     IN  \E due \in SUBSET {e \in wheel : e.exp <= t} :
           \E order \in SetToSeqs(due) :
             /\ wheel' = wheel \ due
             /\ Then(Worker, [i \in DOMAIN order |->
                                Step("Expire", order[i].key, t, order[i].exp)])
  /\ UNCHANGED <<store, size, liveCost, tracked, radix, clearMu, frame>>

\* mutant: the event's expiration is not compared with the entry's
ExpiredByEvent(s) == s.key \in DOMAIN store /\ s.n > s.exp

\* DeleteIfExpired: the entry must still have the expiration of the event
Expired(s) ==
  s.key \in DOMAIN store /\ store[s.key].exp = s.exp /\ s.n > s.exp

\* mutant: the policy keeps the expired key
ExpireTracked ==
  /\ Doing(Worker, "Expire")
  /\ LET s == Head(todo[Worker])
         k == s.key
     IN  /\ Expired(s)
         /\ Then(Worker, <<Step("Size", k, -1, 0), Step("Cost", k, -store[k].cost, 0),
                           Step("RadixDelete", k, 0, 0)>>)
         /\ store' = Without(store, {k})
  /\ UNCHANGED <<size, liveCost, tracked, radix, wheel, clearMu, frame>>

Expire ==
  /\ Doing(Worker, "Expire")
  /\ LET s == Head(todo[Worker])
         k == s.key
     IN  /\ Then(Worker, IF Expired(s)
                         THEN <<Step("Size", k, -1, 0), Step("Cost", k, -store[k].cost, 0),
                                Step("PolicyDel", k, 0, 0), Step("RadixDelete", k, 0, 0)>>
                         ELSE <<>>)
         /\ store' = IF Expired(s) THEN Without(store, {k}) ELSE store
  /\ UNCHANGED <<size, liveCost, tracked, radix, wheel, clearMu, frame>>

\* The goroutine of internal/clock refreshes the cached time.
ClockTick ==
  /\ now + ClockStep <= MaxNow /\ now' = now + ClockStep
  /\ UNCHANGED <<shared, clearMu, closed, stopped, todo, buffer, calls, rounds, writes>>

-----------------------------------------------------------------------------
CallNext(a) ==
  \/ \E k \in Keys, o \in Offers : SetWithCost(a, k, o)
  \/ \E k \in Keys : Delete(a, k)
  \/ Wait(a) \/ Clear(a) \/ Close(a)

ClientStep(a) == Push(a) \/ FlushSync(a) \/ CloseBuffer(a) \/ WgWait(a)

StepNext(a) ==
  \/ Peek(a) \/ Update(a) \/ Add(a) \/ Evict(a) \/ Put(a) \/ DoDelete(a)
  \/ AddSize(a) \/ AddCost(a) \/ PolicyUpdate(a) \/ PolicyDel(a) \/ Schedule(a)
  \/ RadixInsert(a) \/ RadixDelete(a)
  \/ ClearLock(a) \/ ClearShard(a) \/ ClearSize(a) \/ ClearPolicy(a)
  \/ ClearWheel(a) \/ ClearRadix(a) \/ ClearCost(a) \/ Unlock(a)

FlusherNext == FlushBatch \/ FlusherExit

WorkerNext == Tick \/ Stop \/ ExpireLock \/ Advance \/ Expire

Next ==
  /\ \/ \E a \in Clients : CallNext(a) \/ ClientStep(a)
     \/ \E a \in Actors : StepNext(a)
     \/ FlusherNext \/ WorkerNext
     \/ ClockTick
  /\ Observe

Spec == Init /\ [][Next]_vars

-----------------------------------------------------------------------------
(* Properties.                                                             *)

\* What an actor's call has still to add to a counter.
Owes(a, o) == FoldSeq(LAMBDA s, acc : IF s.op = o THEN acc + s.n ELSE acc, 0, todo[a])
Owed(o) == MapThenSumSet(LAMBDA a : Owes(a, o), Actors)

StoredCost == MapThenSumSet(LAMBDA k : store[k].cost, DOMAIN store)
ClearRunning == \E a \in Clients : Clearing(todo[a])

\* Types: partial functions have keys as their domain, events are in the
\* future of time zero, clearMu has one holder.
TypeOK ==
  /\ DOMAIN store \subseteq Keys /\ \A k \in DOMAIN store : store[k] \in Entries
  /\ DOMAIN tracked \subseteq Keys /\ \A k \in DOMAIN tracked : tracked[k] \in Costs
  /\ size \in Int /\ liveCost \in Int
  /\ radix \subseteq Keys /\ wheel \subseteq Events
  /\ now \in 1 .. MaxNow
  /\ clearMu \subseteq Actors /\ Cardinality(clearMu) <= 1
  /\ closed \in BOOLEAN /\ stopped \in BOOLEAN
  /\ \A a \in Actors : todo[a] \in Seq(Steps)
  /\ buffered \in BOOLEAN /\ flusherDone \in BOOLEAN
  /\ queue \in Seq(Steps) /\ Len(queue) <= QueueCap
  /\ \A k \in Keys : last[k] \in Steps /\ last[k].key = k
  /\ overtaken \subseteq Keys
  /\ calls \in 0 .. MaxCalls /\ rounds \in 0 .. MaxRounds
  /\ raced \subseteq Keys /\ clearRaced \in BOOLEAN

\* Len is exact up to the size.Add calls still under way, in every
\* interleaving of Set, Delete, eviction and expiration: an entry is counted
\* once when it enters a shard and once when it leaves, whoever removes it.
\* Only a Clear that overlaps another client's call can make it drift; the
\* worker cannot, because removeExpired holds clearMu.
LenExact ==
  ~clearRaced /\ ~ClearRunning => size + Owed("Size") = Cardinality(DOMAIN store)

\* liveCost is the cost of the stored entries, up to the additions still under
\* way, as long as no two calls work on the same key at once (a second doSet
\* of a key adds its cost without taking off the entry it replaces).
CostExact ==
  raced = {} /\ ~clearRaced /\ ~ClearRunning => liveCost + Owed("Cost") = StoredCost

\* Store, policy and radix tree agree on a key that no call is working on and
\* that no two calls have worked on at once: it is stored, tracked at its
\* stored cost and found by prefix search, or none of the three.  Eviction and
\* expiration count as calls that work on their keys.
StructuresAgree ==
  \A k \in Keys \ raced :
    (\A a \in Actors : ~Works(todo[a], k)) =>
      /\ k \in DOMAIN store <=> k \in DOMAIN tracked
      /\ k \in DOMAIN store <=> k \in radix
      /\ k \in DOMAIN store => tracked[k] = store[k].cost

\* The write issued last for a key is the one that stays: once nothing is queued
\* or under way for the key, a stored entry is that of the last Set, and there
\* is none if the last write was a Delete.  Writes go through the queue in the
\* order of Push; only a fallback that finds an older write of its key in the
\* full buffer upsets it, or two calls at work on the key at once.
LastWriteWins ==
  \A k \in Keys \ (raced \cup overtaken) :
    /\ \A a \in Actors : ~Works(todo[a], k)
    /\ \A q \in ToSet(queue) : q.key # k
    /\ k \in DOMAIN store
    => /\ last[k].op = "Peek"
       /\ store[k] = [cost |-> last[k].n, exp |-> last[k].exp]

\* The worker removes an entry only when that entry is past its own
\* expiration: an event left in the wheel by an entry that was replaced,
\* deleted or cleared meanwhile removes nothing that is still alive.
NoEarlyExpiry ==
  [][\A k \in DOMAIN store \ DOMAIN store' :
       Doing(Worker, "Expire") /\ todo'[Worker] # todo[Worker]
         => store[k].exp \in 1 .. now - 1]_vars
=============================================================================
