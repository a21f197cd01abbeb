------------------------- MODULE ExpiryWheelProofs -------------------------
(***************************************************************************)
(* Proofs about ExpiryWheel, for any number of keys, clients and buckets,  *)
(* any resolution and any set of TTLs.                                     *)
(*                                                                         *)
(* The argument: an event stays in the bucket of its tick, and the cursor  *)
(* had not passed the tick the event is due at when it was put there.      *)
(* Every tick the cursor passes drains the bucket of that tick, so it can  *)
(* reach the due tick of an event only in an Advance that visits the       *)
(* bucket of the event; and because Schedule rounds the tick up, an event  *)
(* that this Advance puts back has a tick the cursor has not reached.      *)
(***************************************************************************)
EXTENDS ExpiryWheel, TLAPS

-----------------------------------------------------------------------------
(* Arithmetic of ticks and buckets.                                        *)

\* Multiples of c are at least c apart.
LEMMA MultiplesApart ==
  ASSUME NEW c \in Nat \ {0}, NEW q \in Int, NEW r \in Int, q < r
  PROVE  c * q + c <= c * r
<1>1. PICK k \in Nat : r = q + 1 + k
  <2>1. r - q - 1 \in Nat /\ r = q + 1 + (r - q - 1)
    OBVIOUS
  <2> QED BY <2>1
<1>2. c * r = c * q + c + c * k
  BY <1>1
<1>3. c * k >= 0
  OBVIOUS
<1>4. c * q \in Int /\ c * r \in Int /\ c * k \in Int
  OBVIOUS
<1> QED BY <1>2, <1>3, <1>4

\* Quotient and remainder.
LEMMA DivMod ==
  ASSUME NEW c \in Nat \ {0}, NEW x \in Int
  PROVE  /\ x \div c \in Int /\ x % c \in 0 .. c - 1
         /\ x = c * (x \div c) + (x % c)
<1>1. x \div c \in Int /\ x % c \in Int
  OBVIOUS
<1>2. 0 <= x % c /\ x % c <= c - 1
  OBVIOUS
<1>3. x = c * (x \div c) + (x % c)
  OBVIOUS
<1> QED BY <1>1, <1>2, <1>3

\* The quotient is the only one.
LEMMA QuotientUnique ==
  ASSUME NEW c \in Nat \ {0}, NEW q \in Int, NEW r \in Int,
         NEW i \in 0 .. c - 1, NEW j \in 0 .. c - 1,
         c * q + i = c * r + j
  PROVE  q = r /\ i = j
<1>1. c * q \in Int /\ c * r \in Int
  OBVIOUS
<1>2. CASE q < r
  <2>1. c * q + c <= c * r
    BY <1>2, MultiplesApart
  <2> QED BY <2>1, <1>1
<1>3. CASE r < q
  <2>1. c * r + c <= c * q
    BY <1>3, MultiplesApart
  <2> QED BY <2>1, <1>1
<1> QED BY <1>1, <1>2, <1>3

\* A later time is in no earlier tick, and no time is in a negative one.
LEMMA DivMonotone ==
  ASSUME NEW x \in Nat, NEW y \in Nat, x <= y
  PROVE  /\ x \div Resolution \in Nat /\ y \div Resolution \in Nat
         /\ x \div Resolution <= y \div Resolution
<1> DEFINE c == Resolution
           q == x \div c
           r == y \div c
<1>0. c \in Nat \ {0}
  BY WheelAssumption
<1>1. /\ q \in Int /\ x % c \in 0 .. c - 1 /\ x = c * q + (x % c)
      /\ r \in Int /\ y % c \in 0 .. c - 1 /\ y = c * r + (y % c)
  BY <1>0, DivMod
<1>2. q \in Nat /\ r \in Nat
  BY <1>0
<1>3. ASSUME r < q PROVE FALSE
  <2>1. c * r + c <= c * q
    BY ONLY <1>0, <1>1, <1>3, MultiplesApart
  <2>2. c * r \in Int /\ c * q \in Int
    BY <1>0, <1>1
  <2> DEFINE i == x % c
             j == y % c
  <2>3. i \in 0 .. c - 1 /\ j \in 0 .. c - 1 /\ x = c * q + i /\ y = c * r + j
    BY <1>1
  <2> HIDE DEF q, r, c, i, j
  <2> QED BY <2>1, <2>2, <2>3, <1>0
<1> QED BY <1>2, <1>3

\* The tick of a time that is not due at time t is one that t has not
\* reached: this takes the rounding up.
LEMMA TickAfter ==
  ASSUME NEW t \in Nat, NEW x \in Nat, t < x
  PROVE  t \div Resolution < Tick(x)
<1> DEFINE c == Resolution
           q == t \div c
           r == (x + c - 1) \div c
<1>0. c \in Nat \ {0}
  BY WheelAssumption
<1>1. /\ q \in Int /\ t % c \in 0 .. c - 1 /\ t = c * q + (t % c)
      /\ r \in Int /\ (x + c - 1) % c \in 0 .. c - 1
      /\ x + c - 1 = c * r + ((x + c - 1) % c)
  <2>1. x + c - 1 \in Int /\ t \in Int
    BY <1>0
  <2> QED BY ONLY <1>0, <2>1, DivMod
<1>2. r = Tick(x)
  BY DEF Tick
<1>3. ASSUME r <= q PROVE FALSE
  <2>1. c * r <= c * q
    <3>1. CASE r = q
      BY <1>0, <1>1, <3>1
    <3>2. CASE r < q
      <4>1. c * r + c <= c * q
        BY ONLY <1>0, <1>1, <3>2, MultiplesApart
      <4>2. c * r \in Int /\ c * q \in Int
        BY <1>0, <1>1
      <4> HIDE DEF q, r
      <4> QED BY <4>1, <4>2, <1>0
    <3> HIDE DEF q, r
    <3> QED BY <1>3, <1>1, <3>1, <3>2
  <2>2. c * r \in Int /\ c * q \in Int
    BY <1>0, <1>1
  <2> DEFINE i == t % c
             j == (x + c - 1) % c
  <2>3. i \in 0 .. c - 1 /\ j \in 0 .. c - 1 /\ t = c * q + i /\ x + c - 1 = c * r + j
    BY <1>1
  <2> HIDE DEF q, r, c, i, j
  <2> QED BY <2>1, <2>2, <2>3, <1>0
<1> HIDE DEF q, r, c
<1>4. q < r
  BY <1>1, <1>3
<1> QED BY <1>2, <1>4 DEF q, c

\* A tick has a bucket.
LEMMA BucketType ==
  ASSUME NEW t \in Int
  PROVE  Bucket(t) \in 0 .. Buckets - 1
BY WheelAssumption DEF Bucket

LEMMA TickType ==
  ASSUME NEW x \in Nat
  PROVE  Tick(x) \in Nat
<1>1. Resolution \in Nat \ {0}
  BY WheelAssumption
<1>2. x + Resolution - 1 \in Nat
  BY <1>1
<1> QED BY <1>1, <1>2 DEF Tick

\* The due tick of an event lies after the tick it was scheduled in, and is
\* served by the bucket of the event's tick.
LEMMA DueTickType ==
  ASSUME NEW e, e.exp \in Nat, e.at \in Nat
  PROVE  /\ DueTick(e) \in Nat /\ DueTick(e) > e.at
         /\ Bucket(DueTick(e)) = Bucket(Tick(e.exp))
<1> DEFINE c == Buckets
           t == Tick(e.exp)
           a == e.at
<1>0. c \in Nat \ {0} /\ t \in Nat /\ a \in Nat
  BY WheelAssumption, TickType
<1>1. CASE t > a
  BY <1>0, <1>1 DEF DueTick
<1>2. CASE ~(t > a)
  <2>1. PICK i : i = (a - t) % c
    OBVIOUS
  <2>2. PICK q : q = (a - t) \div c
    OBVIOUS
  <2>3. i \in 0 .. c - 1 /\ q \in Int /\ a - t = c * q + i
    <3>1. a - t \in Int
      BY <1>0
    <3>2. (a - t) % c \in 0 .. c - 1 /\ (a - t) \div c \in Int
          /\ a - t = c * ((a - t) \div c) + ((a - t) % c)
      BY ONLY <1>0, <3>1, DivMod
    <3> QED BY ONLY <3>2, <2>1, <2>2
  <2>4. PICK d : d = DueTick(e)
    OBVIOUS
  <2>5. d = a + c - i
    BY <1>2, <2>1, <2>4 DEF DueTick
  <2>6. d \in Nat /\ d > a
    <3> HIDE DEF c, a, t
    <3> QED BY <2>5, <2>3, <1>0
  <2>7. d % c = t % c
    <3>1. PICK m : m = d % c
      OBVIOUS
    <3>2. PICK n : n = t % c
      OBVIOUS
    <3>3. PICK u : u = d \div c
      OBVIOUS
    <3>4. PICK v : v = t \div c
      OBVIOUS
    <3>5. m \in 0 .. c - 1 /\ u \in Int /\ d = c * u + m
      BY ONLY <1>0, <2>6, <3>1, <3>3, DivMod
    <3>6. n \in 0 .. c - 1 /\ v \in Int /\ t = c * v + n
      <4>1. t \in Int
        BY <1>0
      <4>2. t % c \in 0 .. c - 1 /\ t \div c \in Int /\ t = c * (t \div c) + (t % c)
        BY ONLY <1>0, <4>1, DivMod
      <4> QED BY ONLY <4>2, <3>2, <3>4
    <3> HIDE DEF c, a, t
    <3>7. d = t + c * q + c
      BY <1>0, <2>3, <2>5
    <3>8. c * (v + q + 1) = c * v + c * q + c
      BY <1>0, <2>3, <3>6
    <3>9. c * u + m = c * (v + q + 1) + n
      BY <1>0, <2>3, <3>5, <3>6, <3>7, <3>8
    <3>10. PICK w \in Int : w = v + q + 1
      BY <2>3, <3>6
    <3>11. c * u + m = c * w + n
      BY <3>9, <3>10
    <3>12. w \in Int
      OBVIOUS
    <3>13. m = n
      BY ONLY <1>0, <3>5, <3>6, <3>11, <3>12, QuotientUnique
    <3> QED BY <3>13, <3>1, <3>2
  <2> QED BY <2>4, <2>6, <2>7 DEF Bucket
<1> QED BY <1>1, <1>2
-----------------------------------------------------------------------------
(* The inductive invariant.                                                *)

\* What a client, clearMu and the worker carry between their steps.
CarriedInv ==
  /\ DOMAIN cev = Clients
  /\ \A c \in Clients : cpc[c] \in {"put", "schedule"} =>
       cev[c].key \in Keys /\ cev[c].exp \in Nat /\ cev[c] = Event(cev[c].key, cev[c].exp)
  /\ \A c \in Clients : cpc[c] = "schedule" => cev[c].exp > 0
  /\ \A c \in Clients : cpc[c] = "clearWheel" => clearMu = c
  /\ clearMu # Worker => wnow = 0 /\ held = {}
  /\ wnow # 0 => held = {}
  /\ \A e \in held : e.exp \in Nat /\ e.now \in Nat /\ e.exp <= e.now

\* An event was scheduled at a tick the cursor had reached.
EventInv ==
  \A i \in DOMAIN buckets : \A e \in buckets[i] :
    e.at \in Nat /\ e.at <= currentTick

\* NoOverdueEvent, bucket by bucket
OverdueInv ==
  \A i \in DOMAIN buckets : \A e \in buckets[i] : currentTick < DueTick(e)

WheelInv ==
  TypeOK /\ CarriedInv /\ EventInv /\ OverdueInv /\ ForgottenOnlyByTieOrClear

\* NewExpiryWheel and the clients' start.
LEMMA InitWheel == Init => WheelInv
<1> SUFFICES ASSUME Init PROVE WheelInv
  OBVIOUS
<1> USE WheelAssumption DEF Init
<1>1. now \in 1 .. MaxNow
  OBVIOUS
<1>2. currentTick \in 0 .. now \div Resolution
  <2>1. now \in Nat
    BY <1>1
  <2>2. now <= now
    BY <2>1
  <2>3. now \div Resolution \in Nat
    BY ONLY <2>1, <2>2, DivMonotone
  <2>4. currentTick = now \div Resolution
    OBVIOUS
  <2> QED BY ONLY <2>3, <2>4
<1>3. \A i \in DOMAIN buckets : buckets[i] = {}
  OBVIOUS
<1>4. DOMAIN store = {}
  OBVIOUS
<1>5. TypeOK
  <2>1. cpc \in [Clients -> {"idle", "put", "schedule", "clearWheel"}]
    OBVIOUS
  <2>2. wnow \in 0 .. now /\ calls \in 0 .. MaxCalls
    BY <1>1
  <2> QED BY <1>1, <1>2, <1>3, <1>4, <2>1, <2>2 DEF TypeOK
<1>6. CarriedInv
  BY DEF CarriedInv
<1>7. EventInv /\ OverdueInv
  BY <1>3 DEF EventInv, OverdueInv
<1>8. ForgottenOnlyByTieOrClear
  BY <1>4 DEF ForgottenOnlyByTieOrClear
<1> QED BY <1>5, <1>6, <1>7, <1>8 DEF WheelInv

-----------------------------------------------------------------------------
(* Every action preserves the invariant.                                   *)

\* An action that leaves the wheel alone says nothing about its events.
LEMMA WheelUnchanged ==
  ASSUME EventInv, OverdueInv, UNCHANGED wheelVars
  PROVE  EventInv' /\ OverdueInv'
BY DEF EventInv, OverdueInv, wheelVars, DueTick

LEMMA SetCallWheel ==
  ASSUME WheelInv, NEW c \in Clients, NEW k \in Keys, NEW ttl \in TTLs, SetCall(c, k, ttl)
  PROVE  WheelInv'
<1> USE WheelAssumption DEF WheelInv, SetCall
<1>1. TypeOK'
  BY DEF TypeOK, wheelVars, workerVars
<1>2. CarriedInv'
  <2>1. now \in Nat /\ ttl \in Nat
    BY DEF TypeOK
  <2>2. PICK x : x = (IF ttl > 0 THEN now + ttl ELSE 0)
    OBVIOUS
  <2>3. x \in Nat /\ cev' = [cev EXCEPT ![c] = Event(k, x)]
    BY <2>1, <2>2
  <2>4. PICK e : e = Event(k, x)
    OBVIOUS
  <2>5. e.key = k /\ e.exp = x /\ e = Event(e.key, e.exp)
    BY <2>4 DEF Event
  <2>6. cpc' = [cpc EXCEPT ![c] = "put"] /\ cev' = [cev EXCEPT ![c] = e]
    BY <2>3, <2>4
  <2> QED BY <2>3, <2>5, <2>6 DEF CarriedInv, TypeOK, workerVars
<1>3. ForgottenOnlyByTieOrClear'
  BY DEF ForgottenOnlyByTieOrClear, WillBeVisited, Scheduled, wheelVars, workerVars, TypeOK
<1> QED BY <1>1, <1>2, <1>3, WheelUnchanged

LEMMA PutWheel ==
  ASSUME WheelInv, NEW c \in Clients, Put(c)
  PROVE  WheelInv'
<1> USE WheelAssumption DEF WheelInv, Put
<1>1. PICK e : e = cev[c]
  OBVIOUS
<1>2. e.key \in Keys /\ e.exp \in Nat /\ e = Event(e.key, e.exp)
  BY <1>1 DEF CarriedInv
<1>3. /\ DOMAIN store' = DOMAIN store \cup {e.key}
      /\ \A k \in DOMAIN store' : store'[k] = IF k = e.key THEN e.exp ELSE store[k]
  BY <1>1
<1>4. TypeOK'
  <2>1. DOMAIN store' \subseteq Keys /\ \A k \in DOMAIN store' : store'[k] \in Nat
    BY <1>2, <1>3 DEF TypeOK
  <2> QED BY <2>1 DEF TypeOK, wheelVars, workerVars
<1>5. CarriedInv'
  <2>1. /\ cpc' = [cpc EXCEPT ![c] = IF e.exp > 0 THEN "schedule" ELSE "idle"]
        /\ cev' = [cev EXCEPT ![c] = IF e.exp > 0 THEN e ELSE NoEvent]
    BY <1>1
  <2>2. CASE e.exp > 0
    BY <1>1, <1>2, <2>1, <2>2 DEF CarriedInv, TypeOK, workerVars
  <2>3. CASE ~(e.exp > 0)
    BY <1>1, <1>2, <2>1, <2>3 DEF CarriedInv, TypeOK, workerVars
  <2> QED BY <2>2, <2>3
<1>6. ForgottenOnlyByTieOrClear'
  <2> SUFFICES ASSUME NEW k \in DOMAIN store', store'[k] > 0
               PROVE  WillBeVisited(k, store[k])' \/ Event(k, store'[k]) \in tied' \cup orphaned'
    BY DEF ForgottenOnlyByTieOrClear
  <2>1. CASE k = e.key
    <3>1. cpc'[c] = "schedule" /\ cev'[c] = e
      BY <1>1, <1>3, <2>1 DEF TypeOK, CarriedInv
    <3> QED BY <3>1, <2>1, <1>2, <1>3 DEF WillBeVisited
  <2>2. CASE k # e.key
    <3>1. k \in DOMAIN store /\ store'[k] = store[k]
      BY <1>3, <2>2
    <3>2. WillBeVisited(k, store[k]) \/ Event(k, store[k]) \in tied \cup orphaned
      BY <3>1 DEF ForgottenOnlyByTieOrClear
    <3>3. ASSUME NEW d \in Clients, cpc[d] = "schedule" PROVE cpc'[d] = cpc[d] /\ cev'[d] = cev[d]
      BY <3>3
    <3>4. CASE WillBeVisited(k, store[k])
      BY <3>1, <3>3, <3>4 DEF WillBeVisited, Scheduled, wheelVars, workerVars
    <3> QED BY <3>1, <3>2, <3>4
  <2> QED BY <2>1, <2>2
<1> QED BY <1>4, <1>5, <1>6, WheelUnchanged

LEMMA ScheduleWheel ==
  ASSUME WheelInv, NEW c \in Clients, Schedule(c)
  PROVE  WheelInv'
<1> USE WheelAssumption DEF WheelInv, Schedule
<1>1. PICK e : e = [key |-> cev[c].key, exp |-> cev[c].exp, at |-> currentTick]
  OBVIOUS
<1>2. e.key \in Keys /\ e.exp \in Nat \ {0} /\ e.at = currentTick /\ cev[c] = Event(e.key, e.exp)
  BY <1>1 DEF CarriedInv
<1>3. PICK b : b = Bucket(Tick(e.exp))
  OBVIOUS
<1>4. b \in 0 .. Buckets - 1
  <2>1. Tick(e.exp) \in Int
    BY <1>2, TickType
  <2> QED BY <1>3, <2>1, BucketType
<1>5. currentTick \in Nat
  <2>1. now \in Nat
    BY DEF TypeOK
  <2>2. now <= now
    BY <2>1
  <2>3. now \div Resolution \in Nat
    BY ONLY <2>1, <2>2, DivMonotone
  <2> QED BY <2>3 DEF TypeOK
<1>6. buckets' = [buckets EXCEPT ![b] = @ \cup {e}]
  BY <1>1, <1>3
<1>7. /\ DOMAIN buckets' = 0 .. Buckets - 1 /\ DOMAIN buckets = 0 .. Buckets - 1
      /\ \A i \in DOMAIN buckets : \A f \in buckets'[i] : f \in buckets[i] \/ (f = e /\ i = b)
      /\ \A i \in DOMAIN buckets : buckets[i] \subseteq buckets'[i]
      /\ e \in buckets'[b]
  BY <1>4, <1>6 DEF TypeOK
<1>8. TypeOK'
  <2>1. \A i \in DOMAIN buckets' : \A f \in buckets'[i] :
          f.key \in Keys /\ f.exp \in Nat \ {0} /\ Bucket(Tick(f.exp)) = i
    BY <1>2, <1>3, <1>7 DEF TypeOK
  <2> QED BY <1>7, <2>1 DEF TypeOK, workerVars
<1>9. CarriedInv'
  BY DEF CarriedInv, TypeOK, workerVars
<1>10. EventInv'
  BY <1>2, <1>5, <1>7 DEF EventInv
<1>11. OverdueInv'
  <2>1. DueTick(e) > currentTick
    BY <1>2, <1>5, DueTickType
  <2>2. currentTick' = currentTick
    OBVIOUS
  <2>3. DueTick(e) \in Nat
    BY <1>2, <1>5, DueTickType
  <2>4. \A f : DueTick(f)' = DueTick(f)
    BY DEF DueTick
  <2> QED BY <1>5, <1>7, <2>1, <2>2, <2>3 DEF OverdueInv
<1>12. ForgottenOnlyByTieOrClear'
  <2> SUFFICES ASSUME NEW k \in DOMAIN store, store[k] > 0
               PROVE  WillBeVisited(k, store[k])' \/ Event(k, store[k]) \in tied \cup orphaned
    BY DEF ForgottenOnlyByTieOrClear
  <2>1. WillBeVisited(k, store[k]) \/ Event(k, store[k]) \in tied \cup orphaned
    BY DEF ForgottenOnlyByTieOrClear
  <2>2. CASE \E f \in Scheduled : f.key = k /\ f.exp = store[k]
    <3>1. Scheduled \subseteq Scheduled'
      BY <1>7 DEF Scheduled
    <3> QED BY <3>1, <2>2 DEF WillBeVisited
  <2>3. ASSUME NEW d \in Clients, cpc[d] = "schedule", cev[d] = Event(k, store[k])
        PROVE  WillBeVisited(k, store[k])'
    <3>1. CASE d = c
      <4>1. e.key = k /\ e.exp = store[k]
        BY <1>1, <2>3, <3>1 DEF Event
      <4>2. e \in Scheduled'
        BY <1>4, <1>7 DEF Scheduled
      <4> QED BY <4>1, <4>2 DEF WillBeVisited
    <3>2. CASE d # c
      BY <2>3, <3>2 DEF WillBeVisited, TypeOK
    <3> QED BY <3>1, <3>2
  <2>4. CASE \E f \in held : f.key = k /\ f.exp = store[k]
    BY <2>4 DEF WillBeVisited, workerVars
  <2> QED BY <2>1, <2>2, <2>3, <2>4 DEF WillBeVisited
<1> QED BY <1>8, <1>9, <1>10, <1>11, <1>12

LEMMA DeleteWheel ==
  ASSUME WheelInv, NEW c \in Clients, NEW k \in Keys, Delete(c, k)
  PROVE  WheelInv'
<1> USE WheelAssumption DEF WheelInv, Delete
<1>1. /\ DOMAIN store' = DOMAIN store \ {k}
      /\ \A j \in DOMAIN store' : store'[j] = store[j]
  OBVIOUS
<1>2. TypeOK'
  BY <1>1 DEF TypeOK, wheelVars, clientVars, workerVars
<1>3. CarriedInv'
  BY DEF CarriedInv, clientVars, workerVars
<1>4. ForgottenOnlyByTieOrClear'
  BY <1>1 DEF ForgottenOnlyByTieOrClear, WillBeVisited, Scheduled, wheelVars, clientVars, workerVars
<1> QED BY <1>2, <1>3, <1>4, WheelUnchanged

LEMMA ClearStoreWheel ==
  ASSUME WheelInv, NEW c \in Clients, ClearStore(c)
  PROVE  WheelInv'
<1> USE WheelAssumption DEF WheelInv, ClearStore
<1>1. DOMAIN store' = {}
  OBVIOUS
<1>2. TypeOK'
  BY <1>1 DEF TypeOK, wheelVars, workerVars
<1>3. CarriedInv'
  BY DEF CarriedInv, TypeOK, workerVars
<1>4. ForgottenOnlyByTieOrClear'
  BY <1>1 DEF ForgottenOnlyByTieOrClear
<1> QED BY <1>2, <1>3, <1>4, WheelUnchanged

LEMMA ClearWheelWheel ==
  ASSUME WheelInv, NEW c \in Clients, ClearWheel(c)
  PROVE  WheelInv'
<1> USE WheelAssumption DEF WheelInv, ClearWheel
<1>1. /\ DOMAIN buckets' = DOMAIN buckets
      /\ \A i \in DOMAIN buckets' : buckets'[i] = {}
  OBVIOUS
<1>2. currentTick' \in 0 .. now \div Resolution
  <2>1. now \in Nat
    BY DEF TypeOK
  <2>2. now <= now
    BY <2>1
  <2>3. now \div Resolution \in Nat
    BY ONLY <2>1, <2>2, DivMonotone
  <2> QED BY <2>3
<1>3. TypeOK'
  BY <1>1, <1>2 DEF TypeOK, workerVars
<1>4. CarriedInv'
  BY DEF CarriedInv, TypeOK, workerVars
<1>5. EventInv' /\ OverdueInv'
  BY <1>1 DEF EventInv, OverdueInv
<1>6. ForgottenOnlyByTieOrClear'
  <2> SUFFICES ASSUME NEW k \in DOMAIN store, store[k] > 0
               PROVE  WillBeVisited(k, store[k])' \/ Event(k, store[k]) \in tied \cup orphaned'
    BY DEF ForgottenOnlyByTieOrClear
  <2>1. WillBeVisited(k, store[k]) \/ Event(k, store[k]) \in tied \cup orphaned
    BY DEF ForgottenOnlyByTieOrClear
  <2>2. ASSUME NEW e \in Scheduled, e.key = k, e.exp = store[k]
        PROVE  Event(k, store[k]) \in orphaned'
    BY <2>2
  <2>3. ASSUME NEW d \in Clients, cpc[d] = "schedule", cev[d] = Event(k, store[k])
        PROVE  WillBeVisited(k, store[k])'
    BY <2>3 DEF WillBeVisited, TypeOK
  <2>4. CASE \E f \in held : f.key = k /\ f.exp = store[k]
    BY <2>4 DEF WillBeVisited, workerVars
  <2> QED BY <2>1, <2>2, <2>3, <2>4 DEF WillBeVisited
<1> QED BY <1>3, <1>4, <1>5, <1>6

LEMMA ReadClockWheel ==
  ASSUME WheelInv, ReadClock
  PROVE  WheelInv'
<1> USE WheelAssumption DEF WheelInv, ReadClock
<1>1. TypeOK'
  BY DEF TypeOK, wheelVars, clientVars
<1>2. CarriedInv'
  <2>1. held = {}
    BY DEF CarriedInv
  <2> QED BY <2>1 DEF CarriedInv, clientVars
<1>3. ForgottenOnlyByTieOrClear'
  BY DEF ForgottenOnlyByTieOrClear, WillBeVisited, Scheduled, wheelVars, clientVars
<1> QED BY <1>1, <1>2, <1>3, WheelUnchanged

\* What Advance does to one event: it stays in its bucket, or it goes back to
\* it because it is not due, or it is returned.
LEMMA AdvanceEvents ==
  ASSUME WheelInv, Advance, wnow \div Resolution > currentTick
  PROVE  /\ currentTick' = wnow \div Resolution
         /\ DOMAIN buckets' = DOMAIN buckets
         /\ \A i \in DOMAIN buckets : \A e \in buckets'[i] :
              /\ e \in buckets[i]
              /\ \/ i \notin {Bucket(t) : t \in currentTick + 1 .. wnow \div Resolution}
                 \/ e.exp > wnow
         /\ \A i \in DOMAIN buckets : \A e \in buckets[i] :
              \/ e \in buckets'[i]
              \/ [key |-> e.key, exp |-> e.exp, now |-> wnow] \in held'
         /\ \A f \in held' : \E i \in DOMAIN buckets : \E e \in buckets[i] :
              f = [key |-> e.key, exp |-> e.exp, now |-> wnow] /\ e.exp <= wnow
<1> USE WheelAssumption DEF WheelInv
<1>1. PICK visited : visited = {Bucket(t) : t \in currentTick + 1 .. wnow \div Resolution}
  OBVIOUS
<1>2. currentTick \in Int /\ wnow \div Resolution \in Int
  BY DEF TypeOK
<1>3. visited \subseteq DOMAIN buckets
  BY <1>1, <1>2, BucketType DEF TypeOK
<1>4. /\ currentTick' = wnow \div Resolution
      /\ buckets' = Kept(visited)
      /\ held' = {[key |-> e.key, exp |-> e.exp, now |-> wnow] :
                    e \in {e \in UNION {buckets[i] : i \in visited} : e.exp <= wnow}}
  BY <1>1, <1>2 DEF Advance
<1>5. \A i \in DOMAIN buckets : \A e \in buckets[i] :
        e.exp \in Nat /\ Bucket(Tick(e.exp)) = i
  BY DEF TypeOK
<1>6. wnow \in Nat
  BY DEF TypeOK
<1>7. DOMAIN buckets' = DOMAIN buckets
  BY <1>4 DEF Kept
<1>8. ASSUME NEW i \in DOMAIN buckets, NEW e \in buckets'[i]
      PROVE  e \in buckets[i] /\ (i \notin visited \/ e.exp > wnow)
  <2>1. CASE e \in buckets[i] /\ i \notin visited
    BY <2>1
  <2>2. CASE e \in UNION {buckets[j] : j \in visited} /\ e.exp > wnow /\ Bucket(Tick(e.exp)) = i
    <3>1. PICK j \in visited : e \in buckets[j]
      BY <2>2
    <3>2. j = i
      BY <1>3, <1>5, <2>2, <3>1
    <3> QED BY <2>2, <3>1, <3>2
  <2> QED BY <1>4, <1>8, <2>1, <2>2 DEF Kept
<1>9. ASSUME NEW i \in DOMAIN buckets, NEW e \in buckets[i]
      PROVE  \/ e \in buckets'[i]
             \/ [key |-> e.key, exp |-> e.exp, now |-> wnow] \in held'
  <2>1. CASE i \notin visited
    BY <1>4, <1>9, <2>1 DEF Kept
  <2>2. CASE i \in visited /\ e.exp > wnow
    <3>1. e \in UNION {buckets[j] : j \in visited} /\ Bucket(Tick(e.exp)) = i
      BY <1>5, <1>9, <2>2
    <3> QED BY <1>4, <2>2, <3>1 DEF Kept
  <2>3. CASE i \in visited /\ e.exp <= wnow
    <3>1. e \in UNION {buckets[j] : j \in visited}
      BY <1>9, <2>3
    <3> QED BY <1>4, <2>3, <3>1
  <2> QED BY <1>5, <1>6, <1>9, <2>1, <2>2, <2>3
<1>10. ASSUME NEW f \in held'
       PROVE  \E i \in DOMAIN buckets : \E e \in buckets[i] :
                f = [key |-> e.key, exp |-> e.exp, now |-> wnow] /\ e.exp <= wnow
  BY <1>3, <1>4, <1>10
<1> QED BY <1>1, <1>4, <1>7, <1>8, <1>9, <1>10

\* An event that outlives an Advance is due at a tick the cursor has still not
\* reached: its bucket was not visited, or its tick lies after the cursor.
LEMMA AdvanceOverdue ==
  ASSUME WheelInv, Advance, wnow \div Resolution > currentTick
  PROVE  EventInv' /\ OverdueInv'
<1> USE WheelAssumption DEF WheelInv
<1>0. /\ currentTick' = wnow \div Resolution
      /\ DOMAIN buckets' = DOMAIN buckets
      /\ \A i \in DOMAIN buckets : \A e \in buckets'[i] :
           /\ e \in buckets[i]
           /\ \/ i \notin {Bucket(t) : t \in currentTick + 1 .. wnow \div Resolution}
              \/ e.exp > wnow
  BY AdvanceEvents
<1>1. PICK T : T = wnow \div Resolution
  OBVIOUS
<1>2. wnow \in Nat /\ currentTick \in Int /\ T \in Int /\ T > currentTick
  BY <1>1 DEF TypeOK
<1> SUFFICES ASSUME NEW i \in DOMAIN buckets, NEW e \in buckets'[i]
             PROVE  e.at \in Nat /\ e.at <= T /\ T < DueTick(e)
  BY <1>0, <1>1 DEF EventInv, OverdueInv, DueTick
<1>3. e \in buckets[i]
  BY <1>0
<1>4. e.exp \in Nat /\ Bucket(Tick(e.exp)) = i
  BY <1>3 DEF TypeOK
<1>5. e.at \in Nat /\ e.at <= currentTick /\ currentTick < DueTick(e)
  BY <1>3 DEF EventInv, OverdueInv
<1>6. e.at <= T
  BY <1>2, <1>5
<1>7. PICK d \in Nat : d = DueTick(e)
  BY <1>4, <1>5, DueTickType
<1>8. Bucket(d) = i
  BY <1>4, <1>5, <1>7, DueTickType
<1>9. CASE i \notin {Bucket(t) : t \in currentTick + 1 .. T}
  <2>1. d \notin currentTick + 1 .. T
    BY <1>8, <1>9
  <2> QED BY <2>1, <1>2, <1>5, <1>6, <1>7
<1>10. CASE e.exp > wnow
  <2>1. T < Tick(e.exp)
    BY <1>1, <1>2, <1>4, <1>10, TickAfter
  <2>2. Tick(e.exp) \in Nat
    BY <1>4, TickType
  <2>3. DueTick(e) = Tick(e.exp)
    BY <2>1, <2>2, <1>2, <1>5 DEF DueTick
  <2> QED BY <2>1, <2>3, <1>5, <1>6
<1> QED BY <1>0, <1>1, <1>9, <1>10

LEMMA AdvanceWheel ==
  ASSUME WheelInv, Advance
  PROVE  WheelInv'
<1> USE WheelAssumption DEF WheelInv
<1>0. /\ clearMu = Worker /\ wnow # 0 /\ held = {} /\ wnow' = 0
      /\ UNCHANGED <<now, store, clientVars, clearMu, calls, tied, orphaned>>
  BY DEF Advance, CarriedInv
<1>1. wnow \in Nat /\ now \in Nat /\ wnow <= now
  BY DEF TypeOK
<1>2. CASE wnow \div Resolution <= currentTick
  <2>1. UNCHANGED <<wheelVars, held>>
    BY <1>2 DEF Advance, TypeOK
  <2>2. TypeOK'
    BY <1>0, <1>1, <2>1 DEF TypeOK, wheelVars, clientVars
  <2>3. CarriedInv'
    BY <1>0, <2>1 DEF CarriedInv, clientVars
  <2>4. ForgottenOnlyByTieOrClear'
    BY <1>0, <2>1 DEF ForgottenOnlyByTieOrClear, WillBeVisited, Scheduled, wheelVars, clientVars
  <2> QED BY <2>1, <2>2, <2>3, <2>4, WheelUnchanged
<1>3. CASE ~(wnow \div Resolution <= currentTick)
  <2>0. wnow \div Resolution > currentTick
    BY <1>1, <1>3 DEF TypeOK
  <2>1. /\ currentTick' = wnow \div Resolution
        /\ DOMAIN buckets' = DOMAIN buckets
        /\ \A i \in DOMAIN buckets : \A e \in buckets'[i] : e \in buckets[i]
        /\ \A i \in DOMAIN buckets : \A e \in buckets[i] :
             \/ e \in buckets'[i]
             \/ [key |-> e.key, exp |-> e.exp, now |-> wnow] \in held'
        /\ \A f \in held' : \E i \in DOMAIN buckets : \E e \in buckets[i] :
             f = [key |-> e.key, exp |-> e.exp, now |-> wnow] /\ e.exp <= wnow
    BY <2>0, AdvanceEvents
  <2>2. currentTick' \in 0 .. now \div Resolution
    BY <1>1, <2>1, DivMonotone
  <2>3. TypeOK'
    BY <1>0, <1>1, <2>1, <2>2 DEF TypeOK, clientVars
  <2>4. CarriedInv'
    <3>1. ASSUME NEW f \in held'
          PROVE  f.exp \in Nat /\ f.now \in Nat /\ f.exp <= f.now
      <4>0. PICK i \in DOMAIN buckets : \E e \in buckets[i] :
              f = [key |-> e.key, exp |-> e.exp, now |-> wnow] /\ e.exp <= wnow
        BY <2>1, <3>1
      <4>1. PICK e \in buckets[i] :
              f = [key |-> e.key, exp |-> e.exp, now |-> wnow] /\ e.exp <= wnow
        BY <4>0
      <4>2. e.exp \in Nat
        BY DEF TypeOK
      <4> QED BY <4>1, <4>2, <1>1
    <3> QED BY <3>1, <1>0 DEF CarriedInv, clientVars
  <2>5. ForgottenOnlyByTieOrClear'
    <3> SUFFICES ASSUME NEW k \in DOMAIN store, store[k] > 0
                 PROVE  WillBeVisited(k, store[k])' \/ Event(k, store[k]) \in tied \cup orphaned
      BY <1>0 DEF ForgottenOnlyByTieOrClear
    <3>0. store' = store
      BY <1>0
    <3>1. WillBeVisited(k, store[k]) \/ Event(k, store[k]) \in tied \cup orphaned
      BY DEF ForgottenOnlyByTieOrClear
    <3>2. ASSUME NEW e \in Scheduled, e.key = k, e.exp = store[k]
          PROVE  WillBeVisited(k, store[k])'
      <4>1. PICK i \in DOMAIN buckets : e \in buckets[i]
        BY <3>2 DEF Scheduled
      <4>2. CASE e \in buckets'[i]
        <5>1. e \in Scheduled'
          BY <2>1, <4>2 DEF Scheduled
        <5> QED BY <5>1, <3>0, <3>2 DEF WillBeVisited
      <4>3. CASE [key |-> e.key, exp |-> e.exp, now |-> wnow] \in held'
        BY <4>3, <3>0, <3>2 DEF WillBeVisited
      <4> QED BY <2>1, <4>1, <4>2, <4>3
    <3>3. ASSUME NEW d \in Clients, cpc[d] = "schedule", cev[d] = Event(k, store[k])
          PROVE  WillBeVisited(k, store[k])'
      BY <3>0, <3>3, <1>0 DEF WillBeVisited, clientVars
    <3> QED BY <3>1, <3>2, <3>3, <1>0 DEF WillBeVisited
  <2> QED BY <2>0, <2>3, <2>4, <2>5, AdvanceOverdue
<1> QED BY <1>2, <1>3

LEMMA DeleteIfExpiredWheel ==
  ASSUME WheelInv, NEW e \in held, DeleteIfExpired(e)
  PROVE  WheelInv'
<1> USE WheelAssumption DEF WheelInv, DeleteIfExpired
<1>1. e.exp \in Nat /\ e.now \in Nat /\ e.exp <= e.now
  BY DEF CarriedInv
<1>2. DOMAIN store' \subseteq DOMAIN store /\ \A j \in DOMAIN store' : store'[j] = store[j]
  OBVIOUS
<1>3. TypeOK'
  BY <1>2 DEF TypeOK, wheelVars, clientVars
<1>4. CarriedInv'
  BY DEF CarriedInv, clientVars
<1>5. ForgottenOnlyByTieOrClear'
  <2> SUFFICES ASSUME NEW k \in DOMAIN store', store'[k] > 0
               PROVE  WillBeVisited(k, store[k])' \/ Event(k, store'[k]) \in tied' \cup orphaned
    BY DEF ForgottenOnlyByTieOrClear
  <2>1. k \in DOMAIN store /\ store'[k] = store[k]
    BY <1>2
  <2>2. WillBeVisited(k, store[k]) \/ Event(k, store[k]) \in tied \cup orphaned
    BY <2>1 DEF ForgottenOnlyByTieOrClear
  <2>3. CASE e.key = k /\ e.exp = store[k]
    <3>1. e.now = e.exp
      BY <1>1, <2>1, <2>3
    <3>2. Event(k, store[k]) \in tied'
      BY <3>1, <2>3
    <3> QED BY <3>2, <2>1
  <2>4. CASE ~(e.key = k /\ e.exp = store[k])
    <3>1. CASE \E f \in Scheduled : f.key = k /\ f.exp = store[k]
      BY <2>1, <3>1 DEF WillBeVisited, Scheduled, wheelVars
    <3>2. CASE \E d \in Clients : cpc[d] = "schedule" /\ cev[d] = Event(k, store[k])
      BY <2>1, <3>2 DEF WillBeVisited, clientVars
    <3>3. CASE \E f \in held : f.key = k /\ f.exp = store[k]
      BY <2>1, <2>4, <3>3 DEF WillBeVisited
    <3> QED BY <2>1, <2>2, <3>1, <3>2, <3>3 DEF WillBeVisited
  <2> QED BY <2>3, <2>4
<1> QED BY <1>3, <1>4, <1>5, WheelUnchanged

LEMMA RoundDoneWheel ==
  ASSUME WheelInv, RoundDone
  PROVE  WheelInv'
<1> USE WheelAssumption DEF WheelInv, RoundDone
<1>1. TypeOK'
  BY DEF TypeOK, wheelVars, clientVars, workerVars
<1>2. CarriedInv'
  BY DEF CarriedInv, TypeOK, clientVars, workerVars
<1>3. ForgottenOnlyByTieOrClear'
  BY DEF ForgottenOnlyByTieOrClear, WillBeVisited, Scheduled, wheelVars, clientVars, workerVars
<1> QED BY <1>1, <1>2, <1>3, WheelUnchanged

LEMMA ClockTickWheel ==
  ASSUME WheelInv, ClockTick
  PROVE  WheelInv'
<1> USE WheelAssumption DEF WheelInv, ClockTick
<1>1. now \in Nat /\ now' \in Nat /\ now <= now' /\ now' \in 1 .. MaxNow
  BY DEF TypeOK
<1>2. /\ now \div Resolution \in Nat /\ now' \div Resolution \in Nat
      /\ now \div Resolution <= now' \div Resolution
  BY <1>1, DivMonotone
<1>3. TypeOK'
  <2>1. currentTick' \in 0 .. now' \div Resolution
    <3>1. PICK a : a = now \div Resolution
      OBVIOUS
    <3>2. PICK b : b = now' \div Resolution
      OBVIOUS
    <3>3. currentTick \in 0 .. a /\ currentTick' = currentTick
      BY <3>1 DEF TypeOK, wheelVars
    <3>4. a \in Nat /\ b \in Nat /\ a <= b
      BY ONLY <1>2, <3>1, <3>2
    <3>5. currentTick' \in 0 .. b
      BY ONLY <3>3, <3>4
    <3> QED BY ONLY <3>2, <3>5
  <2>2. wnow' \in 0 .. now'
    BY <1>1 DEF TypeOK, workerVars
  <2> QED BY <1>1, <2>1, <2>2 DEF TypeOK, wheelVars, clientVars
<1>4. CarriedInv'
  BY DEF CarriedInv, clientVars, workerVars
<1>5. ForgottenOnlyByTieOrClear'
  BY DEF ForgottenOnlyByTieOrClear, WillBeVisited, Scheduled, wheelVars, clientVars, workerVars
<1> QED BY <1>3, <1>4, <1>5, WheelUnchanged
-----------------------------------------------------------------------------
(* The theorems.                                                           *)

\* The wheel, the clients between store and schedule, Clear between its two
\* halves and the worker between Advance and DeleteIfExpired keep WheelInv.
THEOREM WheelInvariant == Spec => []WheelInv
<1>1. WheelInv /\ [Next]_vars => WheelInv'
  <2>1. WheelInv /\ Next => WheelInv'
    BY SetCallWheel, DeleteWheel, PutWheel, ScheduleWheel, ClearStoreWheel, ClearWheelWheel,
       ReadClockWheel, AdvanceWheel, RoundDoneWheel, DeleteIfExpiredWheel, ClockTickWheel
       DEF Next
  <2>2. WheelInv /\ UNCHANGED vars => WheelInv'
    BY DEF vars, wheelVars, clientVars, workerVars, WheelInv, TypeOK, CarriedInv, EventInv,
           OverdueInv, DueTick, ForgottenOnlyByTieOrClear, WillBeVisited, Scheduled
  <2> QED BY <2>1, <2>2
<1> QED BY <1>1, InitWheel, PTL DEF Spec

\* Types: in particular an event is always in the bucket of its tick, and the
\* cursor never runs ahead of the clock.
THEOREM WheelType == Spec => []TypeOK
<1>1. WheelInv => TypeOK
  BY DEF WheelInv
<1> QED BY <1>1, WheelInvariant, PTL

\* Advance returns every event by the tick it is due at, whatever the number of
\* buckets, the resolution and the lateness of the worker: no event waits for a
\* revolution of the wheel.
THEOREM NothingOverdue == Spec => []NoOverdueEvent
<1>1. WheelInv => NoOverdueEvent
  BY DEF WheelInv, OverdueInv, NoOverdueEvent, Scheduled
<1> QED BY <1>1, WheelInvariant, PTL

\* Set, Delete, Clear and removeExpired in any order forget an entry with a TTL
\* only at a tie of the clock with its ExpireAt or between the halves of a Clear.
THEOREM ForgottenRarely == Spec => []ForgottenOnlyByTieOrClear
<1>1. WheelInv => ForgottenOnlyByTieOrClear
  BY DEF WheelInv
<1> QED BY <1>1, WheelInvariant, PTL
=============================================================================
