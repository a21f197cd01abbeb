---------------------------- MODULE ExpiryWheel ----------------------------
(***************************************************************************)
(* ExpiryWheel of internal/store/expiry_wheel.go, with the callers that    *)
(* cache.go has: clients that store an entry and then schedule it, a       *)
(* client that clears the cache, and the expiration worker that advances   *)
(* the wheel and deletes what is due.  The cached clock (internal/clock)   *)
(* moves on its own between any two steps.                                 *)
(*                                                                         *)
(* A bucket is a slice in the code and a set here: the order of events in  *)
(* a bucket decides nothing, and a duplicate of an event removes nothing   *)
(* the first one leaves.  An event carries a ghost: the tick the wheel had *)
(* reached when it was scheduled.                                          *)
(***************************************************************************)
EXTENDS Integers, FiniteSets

CONSTANTS Keys, Clients, Worker,
          TTLs,        \* the TTLs that callers pass, 0 = none
          Resolution,  \* w.resolution
          Buckets,     \* number of buckets, a power of two in the code
          MaxNow,      \* bound: the clock stops here
          MaxCalls,    \* bound: how many calls clients make
          Nobody       \* clearMu is free

ASSUME WheelAssumption ==
  /\ TTLs \subseteq Nat
  /\ Resolution \in Nat \ {0} /\ Buckets \in Nat \ {0}
  /\ MaxNow \in Nat /\ Resolution <= MaxNow /\ MaxCalls \in Nat
  /\ Worker \notin Clients /\ Nobody \notin Clients \cup {Worker}

VARIABLES now,          \* clock.NowNano
          currentTick,  \* w.currentTick
          buckets,      \* w.buckets
          store,        \* ExpireAt of each stored key, 0 = no TTL
          cpc, cev,     \* a client: what it does next, and its event
          clearMu,      \* the holder of clearMu
          wnow, held,   \* removeExpired: its now, and what Advance returned
          calls,
          tied,         \* ghost: events given up at exactly their ExpireAt
          orphaned      \* ghost: events of stored entries a Clear dropped

wheelVars == <<currentTick, buckets>>
clientVars == <<cpc, cev>>
workerVars == <<wnow, held>>
vars == <<now, wheelVars, store, clientVars, clearMu, workerVars, calls, tied, orphaned>>

Event(k, x) == [key |-> k, exp |-> x]
NoEvent == [exp |-> 0]
Scheduled == UNION {buckets[i] : i \in DOMAIN buckets}

-----------------------------------------------------------------------------
\* mutant: the division rounds down
TickFloor(x) == x \div Resolution

\* The tick by whose end a time has passed: the division rounds up.
Tick(x) == (x + Resolution - 1) \div Resolution

\* tick & mask
Bucket(t) == t % Buckets

Init ==
  /\ now \in 1 .. Resolution
  /\ currentTick = now \div Resolution
  /\ buckets = [i \in 0 .. Buckets - 1 |-> {}]
  /\ store = <<>>
  /\ cpc = [c \in Clients |-> "idle"] /\ cev = [c \in Clients |-> NoEvent]
  /\ clearMu = Nobody /\ wnow = 0 /\ held = {}
  /\ calls = 0 /\ tied = {} /\ orphaned = {}

-----------------------------------------------------------------------------
(* A client's Set: the expiration is computed, the entry is stored, and    *)
(* then scheduled if it has a TTL.                                         *)

SetCall(c, k, ttl) ==
  /\ cpc[c] = "idle" /\ calls < MaxCalls
  /\ calls' = calls + 1
  /\ cpc' = [cpc EXCEPT ![c] = "put"]
  /\ cev' = [cev EXCEPT ![c] = Event(k, IF ttl > 0 THEN now + ttl ELSE 0)]
  /\ UNCHANGED <<now, wheelVars, store, clearMu, workerVars, tied, orphaned>>

Put(c) ==
  /\ cpc[c] = "put"
  /\ LET e == cev[c]
     IN  /\ store' = [k \in DOMAIN store \cup {e.key} |->
                        IF k = e.key THEN e.exp ELSE store[k]]
         /\ cpc' = [cpc EXCEPT ![c] = IF e.exp > 0 THEN "schedule" ELSE "idle"]
         /\ cev' = [cev EXCEPT ![c] = IF e.exp > 0 THEN e ELSE NoEvent]
  /\ UNCHANGED <<now, wheelVars, clearMu, workerVars, calls, tied, orphaned>>

Schedule(c) ==
  /\ cpc[c] = "schedule"
  /\ LET e == cev[c]
     IN  buckets' = [buckets EXCEPT ![Bucket(Tick(e.exp))] =
                       @ \cup {[key |-> e.key, exp |-> e.exp, at |-> currentTick]}]
  /\ cpc' = [cpc EXCEPT ![c] = "idle"] /\ cev' = [cev EXCEPT ![c] = NoEvent]
  /\ UNCHANGED <<now, currentTick, store, clearMu, workerVars, calls, tied, orphaned>>

\* Delete, an eviction: the event stays in the wheel.
Delete(c, k) ==
  /\ cpc[c] = "idle" /\ calls < MaxCalls /\ k \in DOMAIN store
  /\ calls' = calls + 1
  /\ store' = [j \in DOMAIN store \ {k} |-> store[j]]
  /\ UNCHANGED <<now, wheelVars, clientVars, clearMu, workerVars, tied, orphaned>>

-----------------------------------------------------------------------------
(* Clear, under clearMu: the store first, the wheel later.                 *)

ClearStore(c) ==
  /\ cpc[c] = "idle" /\ calls < MaxCalls /\ clearMu = Nobody
  /\ calls' = calls + 1
  /\ clearMu' = c
  /\ store' = <<>>
  /\ cpc' = [cpc EXCEPT ![c] = "clearWheel"]
  /\ UNCHANGED <<now, wheelVars, cev, workerVars, tied, orphaned>>

ClearWheel(c) ==
  /\ cpc[c] = "clearWheel"
  /\ buckets' = [i \in DOMAIN buckets |-> {}]
  /\ currentTick' = now \div Resolution
  /\ clearMu' = Nobody
  /\ cpc' = [cpc EXCEPT ![c] = "idle"]
  /\ orphaned' = orphaned \cup
       {Event(e.key, e.exp) : e \in {e \in Scheduled : e.key \in DOMAIN store}}
  /\ UNCHANGED <<now, store, cev, workerVars, calls, tied>>

-----------------------------------------------------------------------------
(* removeExpired, under clearMu.                                           *)

ReadClock ==
  /\ clearMu = Nobody
  /\ clearMu' = Worker
  /\ wnow' = now
  /\ UNCHANGED <<now, wheelVars, store, clientVars, held, calls, tied, orphaned>>

\* mutant: events that are not due yet are dropped
KeptNone(visited) == [i \in DOMAIN buckets |-> IF i \in visited THEN {} ELSE buckets[i]]

\* What the drained buckets keep: an event that is not due goes back to the
\* bucket its ExpireAt selects.
Kept(visited) ==
  [i \in DOMAIN buckets |->
     {e \in buckets[i] : i \notin visited}
       \cup {e \in UNION {buckets[j] : j \in visited} :
               e.exp > wnow /\ Bucket(Tick(e.exp)) = i}]

\* mutant: the cursor goes one tick too far
AdvanceFar ==
  /\ clearMu = Worker /\ wnow # 0
  /\ wnow \div Resolution > currentTick
  /\ currentTick' = wnow \div Resolution + 1
  /\ wnow' = 0
  /\ UNCHANGED <<now, buckets, store, clientVars, clearMu, held, calls, tied, orphaned>>

\* Advance(now): nothing when the clock is still in the cursor's tick; else the
\* buckets of all ticks up to now are drained.  The events carry the worker's
\* now with them.
Advance ==
  /\ clearMu = Worker /\ wnow # 0
  /\ LET nowTick == wnow \div Resolution
         visited == {Bucket(t) : t \in currentTick + 1 .. nowTick}
     IN  \/ /\ nowTick <= currentTick
            /\ UNCHANGED <<wheelVars, held>>
         \/ /\ nowTick > currentTick
            /\ currentTick' = nowTick
            /\ buckets' = Kept(visited)
            /\ held' = {[key |-> e.key, exp |-> e.exp, now |-> wnow] :
                          e \in {e \in UNION {buckets[i] : i \in visited} : e.exp <= wnow}}
  /\ wnow' = 0
  /\ UNCHANGED <<now, store, clientVars, clearMu, calls, tied, orphaned>>

\* DeleteIfExpired(key, expireAt, now) of one returned event, in any order
DeleteIfExpired(e) ==
  /\ clearMu = Worker /\ wnow = 0 /\ e \in held
  /\ held' = held \ {e}
  /\ \/ /\ e.key \in DOMAIN store /\ store[e.key] = e.exp /\ e.now > e.exp
        /\ store' = [j \in DOMAIN store \ {e.key} |-> store[j]]
     \/ /\ ~(e.key \in DOMAIN store /\ store[e.key] = e.exp /\ e.now > e.exp)
        /\ UNCHANGED store
  /\ tied' = tied \cup (IF e.now = e.exp THEN {Event(e.key, e.exp)} ELSE {})
  /\ UNCHANGED <<now, wheelVars, clientVars, clearMu, wnow, calls, orphaned>>

RoundDone ==
  /\ clearMu = Worker /\ wnow = 0 /\ held = {}
  /\ clearMu' = Nobody
  /\ UNCHANGED <<now, wheelVars, store, clientVars, workerVars, calls, tied, orphaned>>

\* The goroutine of internal/clock; a refresh may come late and skip times.
ClockTick ==
  /\ now' \in now + 1 .. MaxNow
  /\ UNCHANGED <<wheelVars, store, clientVars, clearMu, workerVars, calls, tied, orphaned>>

-----------------------------------------------------------------------------
Next ==
  \/ \E c \in Clients :
       \/ \E k \in Keys, ttl \in TTLs : SetCall(c, k, ttl)
       \/ \E k \in Keys : Delete(c, k)
       \/ Put(c) \/ Schedule(c) \/ ClearStore(c) \/ ClearWheel(c)
  \/ ReadClock \/ Advance \/ RoundDone
  \/ \E e \in held : DeleteIfExpired(e)
  \/ ClockTick

Spec == Init /\ [][Next]_vars

-----------------------------------------------------------------------------
(* Properties.                                                             *)

\* Types: an event is in the bucket of its tick, and the cursor, which only
\* Advance and Clear move, never runs ahead of the clock.
TypeOK ==
  /\ now \in 1 .. MaxNow
  /\ currentTick \in 0 .. now \div Resolution
  /\ DOMAIN buckets = 0 .. Buckets - 1
  /\ \A i \in DOMAIN buckets : \A e \in buckets[i] :
       e.key \in Keys /\ e.exp \in Nat \ {0} /\ Bucket(Tick(e.exp)) = i
  /\ DOMAIN store \subseteq Keys /\ \A k \in DOMAIN store : store[k] \in Nat
  /\ cpc \in [Clients -> {"idle", "put", "schedule", "clearWheel"}]
  /\ clearMu \in Clients \cup {Worker, Nobody}
  /\ wnow \in 0 .. now
  /\ calls \in 0 .. MaxCalls

\* The tick at which the wheel has to give an event back: the tick of its
\* ExpireAt, or, for one that was scheduled when the cursor had passed that
\* tick already, the next tick that falls into its bucket.
DueTick(e) ==
  IF Tick(e.exp) > e.at THEN Tick(e.exp)
  ELSE e.at + Buckets - ((e.at - Tick(e.exp)) % Buckets)

\* No event outstays its tick: when the cursor has reached the tick an event
\* is due at, Advance has returned the event.  This takes the rounding up of
\* Schedule: a bucket must not be drained before the events in it are due,
\* since they would then wait for a whole revolution.
NoOverdueEvent == \A e \in Scheduled : currentTick < DueTick(e)

\* What will still bring the worker to an entry stored with expiration x.
WillBeVisited(k, x) ==
  \/ \E e \in Scheduled : e.key = k /\ e.exp = x
  \/ \E c \in Clients : cpc[c] = "schedule" /\ cev[c] = Event(k, x)
  \/ \E e \in held : e.key = k /\ e.exp = x

\* An entry with a TTL stays on the worker's list until it is removed, however
\* Set, Delete, Clear and removeExpired interleave, except in two cases: its
\* event was returned when the clock stood exactly at ExpireAt, which Advance
\* takes for due (<=) and DeleteIfExpired does not (>); or it was stored and
\* scheduled between the two halves of a Clear.
ForgottenOnlyByTieOrClear ==
  \A k \in DOMAIN store :
    store[k] > 0 => \/ WillBeVisited(k, store[k])
                    \/ Event(k, store[k]) \in tied \cup orphaned

\* What the comment on removeExpired says: a drained event whose expiration
\* matches the stored one deletes the entry, so an entry with a TTL is never
\* left in the store with nothing to remove it (Clear aside).
NeverForgotten ==
  \A k \in DOMAIN store :
    store[k] > 0 => WillBeVisited(k, store[k]) \/ Event(k, store[k]) \in orphaned
=============================================================================
