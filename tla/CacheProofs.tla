---------------------------- MODULE CacheProofs ----------------------------
(***************************************************************************)
(* Proofs about Cache, for any keys, clients, costs, TTLs and limits, with *)
(* a write buffer and without.                                             *)
(*                                                                         *)
(* The arguments: a call is a list of sections, one actor at a time works  *)
(* on a key that nobody raced for, and what the store, the policy and the  *)
(* radix tree disagree on for it that actor has still to do (CacheInv);    *)
(* each addition to a counter that is still to come is on such a list      *)
(* (ExactInv); and the newest write to a key that is queued, or else under *)
(* way, is the one issued last, until the store holds what it leaves       *)
(* (FreshInv).                                                             *)
(***************************************************************************)
EXTENDS Cache, FiniteSums, SequenceTheorems, FiniteSetTheorems, TLAPS

(* What the sections of a call carry. *)
KeyOps == {"Peek", "Update", "Add", "Evict", "Put", "Remove", "Size", "Cost",
           "PolicyUpdate", "PolicyDel", "Schedule", "RadixInsert", "RadixDelete",
           "ClearShard", "Expire"}
ClearOps == {"ClearSize", "ClearPolicy", "ClearWheel", "ClearRadix", "ClearCost"}

PlainSteps ==
  {s \in Steps :
     /\ s.op # "Push"
     /\ s.op \in KeyOps => s.key \in Keys
     /\ s.op \in ClearOps => s.key = AnyKey
     /\ s.op \in {"Peek", "Update", "Add", "Put", "PolicyUpdate"} => s.n \in Costs
     /\ s.op \in {"Schedule", "Expire"} => s.exp > 0
     /\ s.op \in {"Advance", "Expire"} => s.n <= now}

WriteSteps == {s \in PlainSteps : s.op \in {"Peek", "Remove"}}

PushCalls == {<<Step("Push", s.key, 0, 0), s>> : s \in WriteSteps}

CallInv ==
  /\ todo \in [Actors -> Seq(PlainSteps) \cup PushCalls]
  /\ queue \in Seq(WriteSteps)
  /\ last \in [Keys -> WriteSteps]
  /\ IsFiniteSet(wheel)

(* The order in which a call runs its sections: what follows a store       *)
(* operation comes before the next victim, and the victims before the next *)
(* write of a batch.                                                       *)
Small == {"Size", "Cost", "PolicyUpdate", "PolicyDel", "Schedule", "RadixInsert", "RadixDelete"}
Zone(s) == IF s.op = "ClearShard" THEN 0 ELSE IF s.op \in Small THEN 1
           ELSE IF s.op \in {"Evict", "Put"} THEN 2 ELSE 3
Sorted(q) == \A i, j \in 1 .. Len(q) : i < j => Zone(q[i]) <= Zone(q[j])

(* What Clear runs, and what it runs along with that. *)
ClearSteps == {"ClearLock", "ClearShard"} \cup ClearOps
ClearCalls == {"Wait", "Unlock"} \cup ClearSteps

OrderInv ==
  \A a \in Actors :
    /\ Sorted(todo[a])
    /\ \A s, t \in ToSet(todo[a]) :
         /\ s.op \in {"PolicyDel", "PolicyUpdate"} => t.op # "Put"
         /\ s.op \in ClearSteps => t.op \in ClearCalls

(* No two calls work on a key that has not been raced for. *)
AloneInv ==
  \A k \in Keys \ raced : \A a, b \in Actors :
    a # b => ~(Works(todo[a], k) /\ Works(todo[b], k))

(* The sections that still have to bring policy and radix tree in line.    *)
DutyOps == {"RadixInsert", "RadixDelete", "PolicyDel", "PolicyUpdate", "Evict", "Put",
            "ClearShard", "ClearPolicy", "ClearRadix"}
DutyIn(q, k) == {s \in ToSet(q) : s.op \in DutyOps /\ s.key \in {k, AnyKey}}
Duties(k) == UNION {DutyIn(todo[a], k) : a \in Actors}

RadixAgrees(k) == k \in DOMAIN store <=> k \in radix
PolicyAgrees(k) ==
  /\ k \in DOMAIN store <=> k \in DOMAIN tracked
  /\ k \in DOMAIN store => tracked[k] = store[k].cost

Meets(s, k) ==
  /\ s.op = "RadixInsert" => k \in DOMAIN store
  /\ s.op \in {"RadixDelete", "PolicyDel"} => k \notin DOMAIN store
  /\ s.op = "PolicyUpdate" => k \in DOMAIN store /\ k \in DOMAIN tracked /\ store[k].cost = s.n
  /\ s.op = "Evict" => k \notin DOMAIN tracked
  /\ s.op = "Put" => k \in DOMAIN tracked /\ tracked[k] = s.n

Settled(D, k) ==
  /\ RadixAgrees(k) \/ \E s \in D : s.op \in {"RadixInsert", "RadixDelete", "ClearRadix"}
  /\ PolicyAgrees(k) \/ \E s \in D :
        s.op \in {"PolicyDel", "PolicyUpdate", "Evict", "Put", "ClearPolicy"}
  /\ \A s \in D : Meets(s, k)
  /\ (k \in DOMAIN store /\ \E s \in D : s.op \in {"ClearPolicy", "ClearRadix"})
       => \E s \in D : s.op = "ClearShard"
  /\ (\E s \in D : s.op = "ClearShard")
       => /\ \E s \in D : s.op = "ClearPolicy"
          /\ \E s \in D : s.op = "ClearRadix"

KeyInv(k) == Settled(Duties(k), k)

DutyInv == \A k \in Keys \ raced : KeyInv(k)

(* Types of what the sections change. *)
StructType ==
  /\ DOMAIN store \subseteq Keys /\ \A k \in DOMAIN store : store[k] \in Entries
  /\ DOMAIN tracked \subseteq Keys /\ \A k \in DOMAIN tracked : tracked[k] \in Costs
  /\ size \in Int /\ liveCost \in Int /\ radix \subseteq Keys /\ wheel \subseteq Events
  /\ clearMu \subseteq Actors /\ IsFiniteSet(clearMu) /\ Cardinality(clearMu) <= 1

(* Sections that may take the place of section h, and the action that puts *)
(* them there.                                                             *)
Fits(h, steps) ==
  /\ Sorted(steps)
  /\ \A s \in ToSet(steps) :
       /\ Zone(s) <= Zone(h)
       /\ s.op \in ClearSteps => h.op \in ClearSteps
       /\ h.op \in ClearCalls => s.op \in ClearCalls
       /\ Zone(h) = 3 \/ s.op \notin {"PolicyDel", "PolicyUpdate", "Put"}
  /\ \A s, t \in ToSet(steps) : s.op \in {"PolicyDel", "PolicyUpdate"} => t.op # "Put"

Section(a, steps) ==
  /\ ~Idle(a) /\ Head(todo[a]).op # "Push"
  /\ steps \in Seq(PlainSteps) /\ Fits(Head(todo[a]), steps) /\ Then(a, steps)
  /\ IsFiniteSet(wheel') /\ UNCHANGED frame

(* Types of what only the calls change. *)
FrameType ==
  /\ closed \in BOOLEAN /\ stopped \in BOOLEAN /\ buffered \in BOOLEAN /\ flusherDone \in BOOLEAN
  /\ calls \in 0 .. MaxCalls /\ rounds \in 0 .. MaxRounds
  /\ overtaken \subseteq Keys /\ Len(queue) <= QueueCap
  /\ \A k \in Keys : last[k].key = k

(* What a call may begin with. *)
FirstOps == {"Push", "Peek", "Remove", "Wait", "ClearLock", "CloseBuffer", "WgWait", "ExpireLock"}

(* The duties of a call after its first section, and those of other calls. *)
Rest(a, k) == DutyIn(Tail(todo[a]), k)
Others(a, k) == UNION {DutyIn(todo[b], k) : b \in Actors \ {a}}

CacheInv == TypeOK /\ StructType /\ CallInv /\ OrderInv /\ AloneInv /\ DutyInv
-----------------------------------------------------------------------------
(* Sequences and their elements. *)

LEMMA ElementsOfConcat ==
  ASSUME NEW S, NEW p \in Seq(S), NEW q \in Seq(S)
  PROVE  p \o q \in Seq(S) /\ ToSet(p \o q) = ToSet(p) \cup ToSet(q)
<1>1. Range(p \o q) = Range(p) \cup Range(q)  BY RangeConcatenation
<1>2. \A r : ToSet(r) = Range(r)  BY DEF ToSet, Range
<1>3. p \o q \in Seq(S)  BY ConcatProperties
<1> QED BY <1>1, <1>2, <1>3

LEMMA ElementsOfTuple ==
  ASSUME NEW x
  PROVE  /\ ToSet(<<>>) = {}
         /\ ToSet(<<x>>) = {x}
BY DEF ToSet

LEMMA ElementsOfTriple ==
  ASSUME NEW x, NEW y, NEW z
  PROVE  ToSet(<<x, y, z>>) = {x, y, z}
BY DEF ToSet

LEMMA ElementsOfQuadruple ==
  ASSUME NEW x, NEW y, NEW z, NEW u
  PROVE  ToSet(<<x, y, z, u>>) = {x, y, z, u}
BY DEF ToSet

LEMMA ElementsOfPair ==
  ASSUME NEW x, NEW y
  PROVE  ToSet(<<x, y>>) = {x, y}
BY DEF ToSet

LEMMA ElementsInSet ==
  ASSUME NEW S, NEW q \in Seq(S)
  PROVE  ToSet(q) \subseteq S /\ \A i \in 1 .. Len(q) : q[i] \in ToSet(q)
<1>1. DOMAIN q = 1 .. Len(q)  BY LenProperties
<1> QED BY <1>1, ElementOfSeq DEF ToSet

LEMMA ElementsOfHead ==
  ASSUME NEW S, NEW q \in Seq(S), q # <<>>
  PROVE  /\ Head(q) \in S /\ Tail(q) \in Seq(S)
         /\ ToSet(q) = {Head(q)} \cup ToSet(Tail(q))
<1>1. Head(q) \in S /\ Tail(q) \in Seq(S) /\ q = <<Head(q)>> \o Tail(q)
  <2>1. Head(q) \in S /\ Tail(q) \in Seq(S)
    BY HeadTailProperties
  <2>2. Len(q) \in Nat \ {0} /\ SubSeq(q, 1, Len(q)) = q
    BY EmptySeq, SubSeqFull
  <2>3. SubSeq(q, 1, Len(q)) = <<q[1]>> \o SubSeq(q, 2, Len(q))
    BY <2>2, SubSeqRecursiveFirst
  <2>4. Tail(q) = SubSeq(q, 2, Len(q)) /\ Head(q) = q[1]
    BY TailIsSubSeq
  <2> QED BY <2>1, <2>2, <2>3, <2>4
<1>2. <<Head(q)>> \in Seq(S)
  BY <1>1
<1>3. ToSet(<<Head(q)>> \o Tail(q)) = ToSet(<<Head(q)>>) \cup ToSet(Tail(q))
  BY <1>1, <1>2, ElementsOfConcat
<1>4. ToSet(<<Head(q)>>) = {Head(q)}
  BY ElementsOfTuple
<1> QED BY <1>1, <1>3, <1>4

LEMMA SeqOfElements ==
  ASSUME NEW S, NEW T, NEW q \in Seq(S), ToSet(q) \subseteq T
  PROVE  q \in Seq(T)
<1>1. q \in Seq(Range(q))  BY SeqOfRange
<1>2. Range(q) = ToSet(q)  BY DEF ToSet, Range
<1>3. Range(q) \subseteq T  BY <1>2
<1> QED BY <1>1, <1>3, SeqMonotonic
LEMMA PairConcat ==
  ASSUME NEW x, NEW y
  PROVE  <<x>> \o <<y>> = <<x, y>>
<1>1. /\ <<x>> \in Seq({x, y}) /\ <<y>> \in Seq({x, y}) /\ <<x, y>> \in Seq({x, y})
      /\ Len(<<x>>) = 1 /\ Len(<<y>>) = 1 /\ Len(<<x, y>>) = 2
      /\ <<x>>[1] = x /\ <<y>>[1] = y /\ <<x, y>>[1] = x /\ <<x, y>>[2] = y
  OBVIOUS
<1>2. PICK p, q, r : p = <<x>> /\ q = <<y>> /\ r = <<x, y>>
  OBVIOUS
<1>3. /\ p \in Seq({x, y}) /\ q \in Seq({x, y}) /\ r \in Seq({x, y})
      /\ Len(p) = 1 /\ Len(q) = 1 /\ Len(r) = 2 /\ p[1] = x /\ q[1] = y /\ r[1] = x /\ r[2] = y
  BY <1>1, <1>2
<1>4. p \o q \in Seq({x, y}) /\ Len(p \o q) = 2 /\ (p \o q)[1] = x /\ (p \o q)[2] = y
  <2>1. p \o q \in Seq({x, y}) /\ Len(p \o q) = 2
    BY <1>3, ConcatProperties
  <2>2. (p \o q)[1] = x /\ (p \o q)[2] = y
    <3>1. \A i \in 1 .. Len(p) + Len(q) : (p \o q)[i] = IF i <= Len(p) THEN p[i] ELSE q[i - Len(p)]
      BY <1>3, ConcatProperties
    <3>2. /\ 1 \in 1 .. Len(p) + Len(q) /\ 2 \in 1 .. Len(p) + Len(q)
          /\ 1 <= Len(p) /\ ~(2 <= Len(p)) /\ 2 - Len(p) = 1
      BY <1>3
    <3>3. (p \o q)[1] = p[1] /\ (p \o q)[2] = q[2 - Len(p)]
      BY <3>1, <3>2
    <3>4. q[2 - Len(p)] = q[1]
      BY <3>2
    <3> QED BY <1>3, <3>3, <3>4
  <2> QED BY <2>1, <2>2
<1>5. p \o q = r
  BY <1>3, <1>4, SeqEqual
<1> QED BY <1>2, <1>5
-----------------------------------------------------------------------------
(* The order of the sections of a call. *)

LEMMA ZoneType == ASSUME NEW s PROVE Zone(s) \in 0 .. 3
BY DEF Zone

\* A call whose first section is replaced by sections that come no later
\* is still in order.
LEMMA SortedConcat ==
  ASSUME NEW S, NEW p \in Seq(S), NEW q \in Seq(S), Sorted(p), Sorted(q),
         \A s \in ToSet(p), t \in ToSet(q) : Zone(s) <= Zone(t)
  PROVE  Sorted(p \o q)
<1>1. Len(p) \in Nat /\ Len(q) \in Nat /\ Len(p \o q) = Len(p) + Len(q)
  BY ConcatProperties, LenProperties
<1>2. \A i \in 1 .. Len(p) : (p \o q)[i] = p[i]
  OBVIOUS
<1>3. \A i \in Len(p) + 1 .. Len(p) + Len(q) :
        (p \o q)[i] = q[i - Len(p)] /\ i - Len(p) \in 1 .. Len(q)
  BY <1>1
<1> SUFFICES ASSUME NEW i \in 1 .. Len(p \o q), NEW j \in 1 .. Len(p \o q), i < j
             PROVE  Zone((p \o q)[i]) <= Zone((p \o q)[j])
  BY DEF Sorted
<1>4. CASE j <= Len(p)
  <2>1. i \in 1 .. Len(p) /\ j \in 1 .. Len(p)  BY <1>1, <1>4
  <2> QED BY <1>2, <2>1 DEF Sorted
<1>5. CASE i > Len(p)
  <2>1. i \in Len(p) + 1 .. Len(p) + Len(q) /\ j \in Len(p) + 1 .. Len(p) + Len(q)
    BY <1>1, <1>5
  <2>2. i - Len(p) < j - Len(p)  BY <1>1
  <2> QED BY <1>3, <2>1, <2>2 DEF Sorted
<1>6. CASE i <= Len(p) /\ j > Len(p)
  <2>1. i \in 1 .. Len(p) /\ j \in Len(p) + 1 .. Len(p) + Len(q)
    BY <1>1, <1>6
  <2>2. p[i] \in ToSet(p) /\ q[j - Len(p)] \in ToSet(q)
    BY <1>3, <2>1, ElementsInSet
  <2> QED BY <1>2, <1>3, <2>1, <2>2
<1> QED BY <1>1, <1>4, <1>5, <1>6

LEMMA SortedTail ==
  ASSUME NEW S, NEW q \in Seq(S), q # <<>>, Sorted(q)
  PROVE  /\ Sorted(Tail(q))
         /\ \A t \in ToSet(Tail(q)) : Zone(Head(q)) <= Zone(t)
<1>1. /\ Tail(q) \in Seq(S) /\ Len(Tail(q)) = Len(q) - 1 /\ Len(q) \in Nat \ {0}
      /\ \A i \in 1 .. Len(Tail(q)) : Tail(q)[i] = q[i + 1]
      /\ Head(q) = q[1]
  BY HeadTailProperties, EmptySeq
<1>2. Sorted(Tail(q))
  BY <1>1 DEF Sorted
<1>3. ASSUME NEW t \in ToSet(Tail(q)) PROVE Zone(Head(q)) <= Zone(t)
  <2>1. PICK i \in 1 .. Len(Tail(q)) : t = Tail(q)[i]
    BY <1>1, LenProperties DEF ToSet
  <2>2. 1 \in 1 .. Len(q) /\ i + 1 \in 1 .. Len(q) /\ 1 < i + 1 /\ t = q[i + 1]
    BY <1>1, <2>1
  <2> QED BY <1>1, <2>2 DEF Sorted
<1> QED BY <1>2, <1>3

\* Sections of one zone are in order.
LEMMA SortedUniform ==
  ASSUME NEW S, NEW q \in Seq(S), NEW z \in 0 .. 3, \A s \in ToSet(q) : Zone(s) = z
  PROVE  Sorted(q)
<1>1. \A i \in 1 .. Len(q) : Zone(q[i]) = z
  BY ElementsInSet
<1> QED BY <1>1 DEF Sorted
-----------------------------------------------------------------------------
(* The first section of a call. *)

LEMMA PlainCall ==
  ASSUME CallInv, NEW a \in Actors, ~Idle(a), Head(todo[a]).op # "Push"
  PROVE  /\ todo[a] \in Seq(PlainSteps) /\ todo[a] # <<>>
         /\ Head(todo[a]) \in PlainSteps /\ Tail(todo[a]) \in Seq(PlainSteps)
         /\ ToSet(todo[a]) = {Head(todo[a])} \cup ToSet(Tail(todo[a]))
<1>1. todo[a] \in Seq(PlainSteps) \cup PushCalls
  BY DEF CallInv
<1>2. ASSUME NEW s \in WriteSteps, todo[a] = <<Step("Push", s.key, 0, 0), s>> PROVE FALSE
  <2>1. Head(todo[a]) = Step("Push", s.key, 0, 0)  BY <1>2
  <2> QED BY <2>1 DEF Step
<1>3. todo[a] \in Seq(PlainSteps)
  BY <1>1, <1>2 DEF PushCalls
<1> QED BY <1>3, ElementsOfHead DEF Idle

LEMMA PushCall ==
  ASSUME CallInv, NEW a \in Actors, Doing(a, "Push")
  PROVE  /\ todo[a] = <<Step("Push", todo[a][2].key, 0, 0), todo[a][2]>>
         /\ todo[a][2] \in WriteSteps /\ Tail(todo[a]) = <<todo[a][2]>>
<1>1. todo[a] \in Seq(PlainSteps) \cup PushCalls /\ todo[a] # <<>> /\ Head(todo[a]).op = "Push"
  BY DEF CallInv, Doing, Idle
<1>2. todo[a] \notin Seq(PlainSteps)
  <2> SUFFICES ASSUME todo[a] \in Seq(PlainSteps) PROVE FALSE
    OBVIOUS
  <2>1. Head(todo[a]) \in PlainSteps  BY <1>1, ElementsOfHead
  <2> QED BY <1>1, <2>1 DEF PlainSteps
<1>3. PICK s \in WriteSteps : todo[a] = <<Step("Push", s.key, 0, 0), s>>
  BY <1>1, <1>2 DEF PushCalls
<1>4. todo[a][2] = s /\ Tail(todo[a]) = <<s>>
  BY <1>3
<1> QED BY <1>3, <1>4

\* What a section may carry depends on the clock only.
LEMMA SameClock ==
  ASSUME now' = now
  PROVE  PlainSteps' = PlainSteps /\ WriteSteps' = WriteSteps /\ PushCalls' = PushCalls
BY DEF PlainSteps, WriteSteps, PushCalls

\* The sections of a call are of the type of its variable.
LEMMA CallType ==
  /\ PlainSteps \subseteq Steps /\ WriteSteps \subseteq Steps
  /\ Seq(PlainSteps) \subseteq Seq(Steps) /\ Seq(WriteSteps) \subseteq Seq(Steps)
  /\ PushCalls \subseteq Seq(Steps)
<1>1. PlainSteps \subseteq Steps /\ WriteSteps \subseteq Steps
  BY DEF PlainSteps, WriteSteps
<1>2. PushCalls \subseteq Seq(Steps)
  <2> SUFFICES ASSUME NEW s \in WriteSteps PROVE <<Step("Push", s.key, 0, 0), s>> \in Seq(Steps)
    BY DEF PushCalls
  <2>1. s \in Steps /\ s.key \in Keys
    BY <1>1 DEF WriteSteps, PlainSteps, KeyOps
  <2>2. Step("Push", s.key, 0, 0) \in Steps
    BY <2>1 DEF Step, Steps, Ops
  <2> QED BY <2>1, <2>2
<1>3. Seq(PlainSteps) \subseteq Seq(Steps) /\ Seq(WriteSteps) \subseteq Seq(Steps)
  BY <1>1, SeqMonotonic
<1> QED BY <1>1, <1>2, <1>3

\* The ghosts that record overlaps keep their types, and a key that nobody
\* raced for is worked on by one actor at a time.
LEMMA ObserveInv ==
  ASSUME raced \subseteq Keys, clearRaced \in BOOLEAN, Observe
  PROVE  /\ raced' \subseteq Keys /\ clearRaced' \in BOOLEAN
         /\ raced \subseteq raced'
         /\ AloneInv'
<1>1. raced' \subseteq Keys /\ clearRaced' \in BOOLEAN /\ raced \subseteq raced'
  BY DEF Observe
<1>2. ASSUME NEW k \in Keys \ raced', NEW a \in Actors, NEW b \in Actors, a # b,
             Works(todo'[a], k), Works(todo'[b], k)
      PROVE  FALSE
  <2>1. todo'[a] # <<>> /\ todo'[b] # <<>>
    BY <1>2 DEF Works
  <2>2. k \in Keys \ raced
    BY <1>1, <1>2
  <2>3. k \in raced'
    BY <1>2, <2>1, <2>2 DEF Observe
  <2> QED BY <1>2, <2>3
<1>3. AloneInv'
  BY <1>2 DEF AloneInv
<1> QED BY <1>1, <1>3
\* An action that replaces the first section of a call.
LEMMA SectionCalls ==
  ASSUME CacheInv, Observe, NEW a \in Actors, NEW steps, Section(a, steps)
  PROVE  CallInv' /\ OrderInv' /\ AloneInv' /\ raced \subseteq raced'
<1> DEFINE h == Head(todo[a])
           tail == Tail(todo[a])
<1>1. /\ todo[a] \in Seq(PlainSteps) /\ todo[a] # <<>> /\ h \in PlainSteps
      /\ tail \in Seq(PlainSteps) /\ ToSet(todo[a]) = {h} \cup ToSet(tail)
  BY PlainCall DEF CacheInv, Section
<1>2. /\ todo \in [Actors -> Seq(PlainSteps) \cup PushCalls]
      /\ todo' = [todo EXCEPT ![a] = steps \o tail]
      /\ steps \in Seq(PlainSteps)
  BY DEF CacheInv, CallInv, Then, Section
<1>3. steps \o tail \in Seq(PlainSteps) /\ ToSet(steps \o tail) = ToSet(steps) \cup ToSet(tail)
  <2> HIDE DEF tail
  <2>1. steps \o tail \in Seq(PlainSteps)
    BY <1>1, <1>2, ConcatProperties
  <2>2. ToSet(steps \o tail) = ToSet(steps) \cup ToSet(tail)
    BY <1>1, <1>2, ElementsOfConcat
  <2> QED BY <2>1, <2>2
<1>4. CallInv'
  <2>1. now' = now /\ queue' = queue /\ last' = last /\ IsFiniteSet(wheel')
    BY DEF Section, frame, buffer, writes
  <2> QED BY <1>2, <1>3, <2>1, SameClock DEF CacheInv, CallInv
<1>5. Sorted(tail) /\ \A t \in ToSet(tail) : Zone(h) <= Zone(t)
  BY <1>1, SortedTail DEF CacheInv, OrderInv
<1>f. Fits(h, steps)
  BY DEF Section
<1>6. Sorted(steps \o tail)
  <2>1. \A s \in ToSet(steps), t \in ToSet(tail) : Zone(s) <= Zone(t)
    <3> SUFFICES ASSUME NEW s \in ToSet(steps), NEW t \in ToSet(tail)
                 PROVE  Zone(s) <= Zone(t)
      OBVIOUS
    <3>1. Zone(s) <= Zone(h) /\ Zone(h) <= Zone(t)  BY <1>5, <1>f DEF Fits
    <3>2. Zone(s) \in 0 .. 3 /\ Zone(h) \in 0 .. 3 /\ Zone(t) \in 0 .. 3  BY ZoneType
    <3> QED BY <3>1, <3>2
  <2> QED BY <1>1, <1>2, <1>5, <1>f, <2>1, SortedConcat DEF Fits
<1>7. \A s, t \in ToSet(steps \o tail) : s.op \in {"PolicyDel", "PolicyUpdate"} => t.op # "Put"
  <2>1. \A s, t \in ToSet(tail) : s.op \in {"PolicyDel", "PolicyUpdate"} => t.op # "Put"
    BY <1>1 DEF CacheInv, OrderInv
  <2>2. CASE Zone(h) = 3
    <3>1. \A t \in ToSet(tail) : Zone(t) = 3
      BY <1>5, <2>2, ZoneType
    <3>2. \A t \in ToSet(tail) : t.op \notin {"PolicyDel", "PolicyUpdate", "Put"}
      BY <3>1 DEF Zone, Small
    <3> QED BY <1>3, <1>f, <2>1, <3>2 DEF Fits
  <2>3. CASE Zone(h) # 3
    BY <1>3, <1>f, <2>1, <2>3 DEF Fits
  <2> QED BY <2>2, <2>3
<1>8. \A s, t \in ToSet(steps \o tail) : s.op \in ClearSteps => t.op \in ClearCalls
  <2>1. \A s, t \in {h} \cup ToSet(tail) : s.op \in ClearSteps => t.op \in ClearCalls
    BY <1>1 DEF CacheInv, OrderInv
  <2>2. \A s \in ToSet(steps) : /\ s.op \in ClearSteps => h.op \in ClearSteps
                                /\ h.op \in ClearCalls => s.op \in ClearCalls
    BY <1>f DEF Fits
  <2>3. ClearSteps \subseteq ClearCalls  BY DEF ClearCalls
  <2> QED BY <1>3, <2>1, <2>2, <2>3
<1>9. \A b \in Actors : todo'[b] = IF b = a THEN steps \o tail ELSE todo[b]
  BY <1>2
<1>10. OrderInv'
  BY <1>6, <1>7, <1>8, <1>9 DEF CacheInv, OrderInv
<1>11. AloneInv' /\ raced \subseteq raced'
  BY ObserveInv DEF CacheInv, TypeOK
<1> QED BY <1>4, <1>10, <1>11

-----------------------------------------------------------------------------
(* Duties *)

\* Whoever has still to bring a structure in line for a key works on the key.
LEMMA DutyWorks ==
  ASSUME CallInv, NEW a \in Actors, NEW k \in Keys, DutyIn(todo[a], k) # {}
  PROVE  Works(todo[a], k)
<1>1. PICK s \in ToSet(todo[a]) : s.op \in DutyOps /\ s.key \in {k, AnyKey}
  BY DEF DutyIn
<1>2. todo[a] # <<>>
  BY <1>1, ElementsOfTuple
<1>3. PICK i \in DOMAIN todo[a] : todo[a][i] = s
  BY <1>1 DEF ToSet
<1>4. Head(todo[a]).op # "Push"
  <2> SUFFICES ASSUME Head(todo[a]).op = "Push" PROVE FALSE
    OBVIOUS
  <2>1. todo[a] = <<Step("Push", todo[a][2].key, 0, 0), todo[a][2]>> /\ todo[a][2] \in WriteSteps
    BY <1>2, PushCall DEF Doing, Idle
  <2>2. s \in {Step("Push", todo[a][2].key, 0, 0), todo[a][2]}
    BY <1>1, <2>1, ElementsOfPair
  <2>3. s.op \in {"Push", "Peek", "Remove"}
    BY <2>1, <2>2 DEF Step, WriteSteps
  <2> QED BY <1>1, <2>3 DEF DutyOps
<1> QED BY <1>1, <1>2, <1>3, <1>4 DEF Works

\* The duties when the first section h of a call is replaced: h's go, those of
\* the new sections come.  Nobody else has one for a key that h or a new section
\* with a duty is for.
LEMMA DutyStep ==
  ASSUME CacheInv, Observe, NEW a \in Actors, NEW steps, Section(a, steps),
         NEW k \in Keys \ raced'
  PROVE  /\ Duties(k) = DutyIn(<<Head(todo[a])>>, k) \cup Rest(a, k) \cup Others(a, k)
         /\ Duties(k)' = DutyIn(steps, k) \cup Rest(a, k) \cup Others(a, k)
         /\ \A s \in Rest(a, k) : /\ Zone(s) >= Zone(Head(todo[a])) /\ s \in ToSet(todo[a])
                                  /\ s.op \in DutyOps
         /\ Head(todo[a]).key \in {k, AnyKey} \/ DutyIn(steps, k) # {} => Others(a, k) = {}
         /\ KeyInv(k)
<1> DEFINE h == Head(todo[a])
           tail == Tail(todo[a])
<1>1. /\ todo[a] \in Seq(PlainSteps) /\ todo[a] # <<>> /\ h \in PlainSteps
      /\ tail \in Seq(PlainSteps) /\ ToSet(todo[a]) = {h} \cup ToSet(tail)
  BY PlainCall DEF CacheInv, Section
<1>a. CallInv' /\ AloneInv' /\ raced \subseteq raced' /\ CallInv /\ OrderInv /\ AloneInv
  BY SectionCalls DEF CacheInv
<1>2. todo' = [todo EXCEPT ![a] = steps \o tail] /\ todo'[a] = steps \o tail
  BY <1>a DEF CallInv, Then, Section
<1>3. ToSet(steps \o tail) = ToSet(steps) \cup ToSet(tail) /\ steps \in Seq(PlainSteps)
  <2> HIDE DEF tail
  <2> QED BY <1>1, ElementsOfConcat DEF Section
<1>4. DutyIn(todo[a], k) = DutyIn(<<h>>, k) \cup Rest(a, k)
  <2>1. ToSet(<<h>>) = {h}  BY ElementsOfTuple
  <2> QED BY <1>1, <2>1 DEF DutyIn, Rest
<1>5. DutyIn(todo'[a], k) = DutyIn(steps, k) \cup Rest(a, k)
  BY <1>2, <1>3 DEF DutyIn, Rest
<1>6. Duties(k) = DutyIn(todo[a], k) \cup Others(a, k)
  BY DEF Duties, Others
<1>7. Duties(k)' = DutyIn(todo'[a], k) \cup Others(a, k)
  <2>1. \A b \in Actors \ {a} : todo'[b] = todo[b]
    BY <1>2, <1>a DEF CallInv
  <2>2. Duties(k)' = UNION {DutyIn(todo'[b], k) : b \in Actors}
    BY DEF Duties, DutyIn, ToSet
  <2>3. \A b \in Actors \ {a} : DutyIn(todo'[b], k) = DutyIn(todo[b], k)
    BY <2>1
  <2> QED BY <2>2, <2>3 DEF Others
<1>8. \A s \in Rest(a, k) : Zone(s) >= Zone(h) /\ s \in ToSet(todo[a]) /\ s.op \in DutyOps
  <2>1. \A t \in ToSet(tail) : Zone(h) <= Zone(t)
    BY <1>1, <1>a, SortedTail DEF OrderInv
  <2> QED BY <1>1, <2>1, ZoneType DEF DutyIn, Rest
<1>9. ASSUME h.key \in {k, AnyKey} PROVE Others(a, k) = {}
  <2>1. Works(todo[a], k)
    <3>1. h = todo[a][1] /\ 1 \in DOMAIN todo[a]
      BY <1>1, LenProperties, EmptySeq
    <3> QED BY <1>1, <1>9, <3>1 DEF Works, Section
  <2>2. k \in Keys \ raced
    BY <1>a
  <2>3. \A b \in Actors \ {a} : ~Works(todo[b], k)
    BY <1>a, <2>1, <2>2 DEF AloneInv
  <2>4. \A b \in Actors \ {a} : DutyIn(todo[b], k) = {}
    BY <1>a, <2>3, DutyWorks
  <2> QED BY <2>4 DEF Others
<1>10. ASSUME DutyIn(steps, k) # {} PROVE Others(a, k) = {}
  <2>1. DutyIn(todo'[a], k) # {}
    BY <1>5, <1>10
  <2>2. Works(todo'[a], k)
    <3>1. PICK s \in ToSet(todo'[a]) : s.op \in DutyOps /\ s.key \in {k, AnyKey}
      BY <2>1 DEF DutyIn
    <3>2. todo'[a] # <<>>
      BY <3>1, ElementsOfTuple
    <3>3. PICK i \in DOMAIN todo'[a] : todo'[a][i] = s
      BY <3>1 DEF ToSet
    <3>4. Head(todo'[a]) \in PlainSteps
      <4> HIDE DEF tail
      <4>1. todo'[a] \in Seq(PlainSteps)
        BY <1>1, <1>2, <1>3, ConcatProperties
      <4> QED BY <3>2, <4>1, ElementsOfHead
    <3> QED BY <3>1, <3>2, <3>3, <3>4 DEF Works, PlainSteps
  <2>3. \A b \in Actors \ {a} : ~Works(todo'[b], k)
    BY <1>a, <2>2 DEF AloneInv
  <2>4. \A b \in Actors \ {a} : ~Works(todo[b], k)
    BY <1>2, <1>a, <2>3 DEF CallInv
  <2>5. \A b \in Actors \ {a} : DutyIn(todo[b], k) = {}
    BY <1>a, <2>4, DutyWorks
  <2> QED BY <2>5 DEF Others
<1>11. KeyInv(k)
  BY <1>a DEF CacheInv, DutyInv
<1> QED BY <1>4, <1>5, <1>6, <1>7, <1>8, <1>9, <1>10, <1>11

\* A section that neither has nor leaves duties for k.
LEMMA DutySame ==
  ASSUME CacheInv, Observe, NEW a \in Actors, NEW steps, Section(a, steps),
         NEW k \in Keys \ raced',
         DutyIn(<<Head(todo[a])>>, k) = {}, DutyIn(steps, k) = {}
  PROVE  Duties(k)' = Duties(k) /\ KeyInv(k)
<1>1. Duties(k) = DutyIn(<<Head(todo[a])>>, k) \cup Rest(a, k) \cup Others(a, k)
  BY DutyStep
<1>2. Duties(k)' = DutyIn(steps, k) \cup Rest(a, k) \cup Others(a, k)
  BY DutyStep
<1>3. KeyInv(k)
  BY DutyStep
<1> QED BY <1>1, <1>2, <1>3

\* The section that begins a write, an eviction or an expiration of k finds no
\* duty for k.
LEMMA DutyBegin ==
  ASSUME CacheInv, Observe, NEW a \in Actors, NEW steps, Section(a, steps),
         NEW k \in Keys \ raced',
         Zone(Head(todo[a])) = 3, Head(todo[a]).op \notin ClearCalls,
         Head(todo[a]).key = k \/ DutyIn(steps, k) # {}
  PROVE  Duties(k) = {} /\ Duties(k)' = DutyIn(steps, k) /\ KeyInv(k)
<1>1. /\ todo[a] # <<>> /\ Head(todo[a]) \in ToSet(todo[a])
  BY PlainCall DEF CacheInv, Section
<1>2. \A s \in Rest(a, k) : Zone(s) >= 3 /\ s \in ToSet(todo[a]) /\ s.op \in DutyOps
  BY DutyStep
<1>3. \A s \in Rest(a, k) : s.op \in ClearSteps
  <2> SUFFICES ASSUME NEW s \in Rest(a, k) PROVE s.op \in ClearSteps
    OBVIOUS
  <2>1. Zone(s) = 3  BY <1>2, ZoneType
  <2>2. s.op \in DutyOps  BY <1>2
  <2> QED BY <2>1, <2>2 DEF Zone, Small, DutyOps, ClearSteps, ClearOps
<1>4. Rest(a, k) = {}
  BY <1>1, <1>2, <1>3 DEF CacheInv, OrderInv
<1>5. DutyIn(<<Head(todo[a])>>, k) = {}
  <2>1. ToSet(<<Head(todo[a])>>) = {Head(todo[a])}  BY ElementsOfTuple
  <2>2. Head(todo[a]).op \notin DutyOps
    BY DEF Zone, Small, DutyOps, ClearCalls, ClearSteps, ClearOps
  <2> QED BY <2>1, <2>2 DEF DutyIn
<1> QED BY <1>4, <1>5, DutyStep

\* A key whose duties and whose place in store, policy and radix tree stay.
LEMMA KeyQuiet ==
  ASSUME NEW k, KeyInv(k), Duties(k)' = Duties(k),
         k \in DOMAIN store' <=> k \in DOMAIN store,
         k \in DOMAIN store => store'[k].cost = store[k].cost,
         k \in DOMAIN tracked' <=> k \in DOMAIN tracked,
         k \in DOMAIN tracked => tracked'[k] = tracked[k],
         k \in radix' <=> k \in radix
  PROVE  KeyInv(k)'
<1> DEFINE D == Duties(k)
<1>1. RadixAgrees(k)' <=> RadixAgrees(k)
  BY DEF RadixAgrees
<1>2. PolicyAgrees(k) => PolicyAgrees(k)'
  BY DEF PolicyAgrees
<1>3. ASSUME NEW s, Meets(s, k) PROVE Meets(s, k)'
  BY <1>3 DEF Meets
<1>4. Duties(k)' = D /\ Settled(D, k)
  BY DEF KeyInv
<1> HIDE DEF D
<1> QED BY <1>1, <1>2, <1>3, <1>4 DEF KeyInv, Settled

LEMMA KeyInvNext ==
  ASSUME NEW k, NEW E, Duties(k)' = E, Settled(E, k)'
  PROVE  KeyInv(k)'
BY DEF KeyInv, Settled

\* A section that leaves structures of the right types and KeyInv for each key
\* keeps the invariant.
LEMMA SectionInv ==
  ASSUME CacheInv, Observe, NEW a \in Actors, NEW steps, Section(a, steps),
         StructType', \A k \in Keys \ raced' : KeyInv(k)'
  PROVE  CacheInv'
<1>1. CallInv' /\ OrderInv' /\ AloneInv' /\ raced' \subseteq Keys /\ clearRaced' \in BOOLEAN
  BY SectionCalls, ObserveInv DEF CacheInv, TypeOK
<1>2. UNCHANGED <<now, closed, stopped, buffered, queue, flusherDone, calls, rounds, last, overtaken>>
  BY DEF Section, frame, buffer, writes
<1>3. DutyInv'
  BY DEF DutyInv
<1>4. \A b \in Actors : todo'[b] \in Seq(Steps)
  <2>1. todo' \in [Actors -> Seq(PlainSteps) \cup PushCalls]
    BY <1>1, <1>2, SameClock DEF CallInv
  <2> QED BY <2>1, CallType
<1>5. TypeOK'
  BY <1>1, <1>2, <1>4 DEF CacheInv, TypeOK, StructType
<1> QED BY <1>1, <1>3, <1>5 DEF CacheInv
-----------------------------------------------------------------------------
(* The sections of Set and Delete. *)

\* The fields of a section.
LEMMA StepFields ==
  ASSUME NEW o, NEW k, NEW n, NEW x
  PROVE  /\ Step(o, k, n, x).op = o /\ Step(o, k, n, x).key = k
         /\ Step(o, k, n, x).n = n /\ Step(o, k, n, x).exp = x
         /\ o \in Ops /\ k \in Keys \cup {AnyKey, NoKey} /\ n \in Int /\ x \in Nat
              => Step(o, k, n, x) \in Steps
BY DEF Step, Steps

\* What the structures hold is of the right type.
LEMMA StructTypes ==
  ASSUME CacheInv
  PROVE  /\ StructType /\ IsFiniteSet(wheel) /\ Costs \subseteq Nat \ {0}
         /\ CallInv /\ OrderInv /\ AloneInv /\ DutyInv
BY CacheAssumption DEF CacheInv, TypeOK, CallInv, Costs, StructType

\* The first section of a call and what it may be replaced by.
LEMMA DoSection ==
  ASSUME CacheInv, NEW a \in Actors, NEW o, Doing(a, o), o # "Push",
         NEW steps \in Seq(PlainSteps), Fits(Head(todo[a]), steps), Then(a, steps),
         IsFiniteSet(wheel'), UNCHANGED frame
  PROVE  Section(a, steps)
BY DEF Section, Doing

\* A section with what it needs.
LEMMA PlainStep ==
  ASSUME NEW o \in Ops \ ({"Push"} \cup ClearOps), NEW k \in Keys, NEW n \in Int, NEW x \in Nat,
         o \in {"Peek", "Update", "Add", "Put", "PolicyUpdate"} => n \in Costs,
         o \in {"Schedule", "Expire"} => x > 0,
         o \in {"Advance", "Expire"} => n <= now
  PROVE  Step(o, k, n, x) \in PlainSteps
BY DEF Step, Steps, PlainSteps

\* The call of Schedule has no duty.
LEMMA SchedulePart ==
  ASSUME NEW k \in Keys, NEW x \in Nat
  PROVE  /\ ScheduleIfTTL(k, x) \in Seq(PlainSteps)
         /\ \A s \in ToSet(ScheduleIfTTL(k, x)) : s.op = "Schedule"
<1>1. CASE x > 0
  <2>1. Step("Schedule", k, 0, x) \in PlainSteps
    BY <1>1, PlainStep DEF Ops, ClearOps
  <2>2. ScheduleIfTTL(k, x) = <<Step("Schedule", k, 0, x)>>
    BY <1>1 DEF ScheduleIfTTL
  <2>3. ToSet(ScheduleIfTTL(k, x)) = {Step("Schedule", k, 0, x)}
    BY <2>2, ElementsOfTuple
  <2> QED BY <2>1, <2>2, <2>3, StepFields
<1>2. CASE ~(x > 0)
  <2>1. ScheduleIfTTL(k, x) = <<>>
    BY <1>2 DEF ScheduleIfTTL
  <2>2. <<>> \in Seq(PlainSteps)
    BY EmptySeq
  <2> QED BY <2>1, <2>2, ElementsOfTuple
<1> QED BY <1>1, <1>2

\* Sections that put one structure in line after the store fit any section
\* that is not part of a Clear and runs in the zone of a write.
LEMMA SmallFits ==
  ASSUME NEW h, NEW steps \in Seq(PlainSteps), \A s \in ToSet(steps) : s.op \in Small,
         \/ Zone(h) = 3
         \/ Zone(h) \in 1 .. 3 /\ \A s \in ToSet(steps) : s.op \notin {"PolicyDel", "PolicyUpdate"},
         h.op \notin ClearCalls
  PROVE  Fits(h, steps)
<1>1. \A s \in ToSet(steps) : Zone(s) = 1
  BY DEF Zone, Small
<1>2. Sorted(steps)
  BY <1>1, SortedUniform
<1>3. \A s \in ToSet(steps) : s.op \notin ClearSteps /\ s.op # "Put"
  BY DEF Small, ClearSteps, ClearOps
<1>4. Zone(h) \in 1 .. 3
  OBVIOUS
<1> QED BY <1>1, <1>2, <1>3, <1>4 DEF Fits

\* tryUpdateExisting looks the key up.
LEMMA PeekInv ==
  ASSUME CacheInv, Observe, NEW a \in Actors, Peek(a)
  PROVE  CacheInv'
<1> DEFINE h == Head(todo[a])
           next == [h EXCEPT !.op = IF h.key \in DOMAIN store THEN "Update" ELSE "Add"]
           steps == <<next>>
<1>1. ~Idle(a) /\ h.op = "Peek" /\ Then(a, steps) /\ UNCHANGED <<shared, clearMu, frame>>
  BY DEF Peek, Doing
<1>2. h \in PlainSteps
  BY <1>1, PlainCall DEF CacheInv
<1>3. next \in PlainSteps /\ next.op \in {"Update", "Add"}
  BY <1>1, <1>2 DEF PlainSteps, Steps, Ops, KeyOps, ClearOps
<1>4. steps \in Seq(PlainSteps) /\ ToSet(steps) = {next} /\ ToSet(<<h>>) = {h}
  BY <1>3, ElementsOfTuple
<1> HIDE DEF next, steps
<1>5. Zone(next) = 3 /\ Zone(h) = 3
  BY <1>1, <1>3 DEF Zone, Small
<1>6. Section(a, steps)
  <2>1. \A s \in ToSet(steps) : Zone(s) = 3
    BY <1>4, <1>5
  <2>2. Sorted(steps)
    BY <1>4, <2>1, SortedUniform
  <2>3. Fits(h, steps)
    BY <1>1, <1>3, <1>4, <1>5, <2>1, <2>2 DEF Fits, ClearCalls, ClearSteps, ClearOps
  <2> QED BY <1>1, <1>4, <2>3, StructTypes DEF Section, shared
<1>7. ASSUME NEW k \in Keys \ raced' PROVE KeyInv(k)'
  <2>1. DutyIn(<<h>>, k) = {} /\ DutyIn(steps, k) = {}
    BY <1>1, <1>3, <1>4 DEF DutyIn, DutyOps
  <2>2. Duties(k)' = Duties(k) /\ KeyInv(k)
    BY <1>6, <2>1, DutySame
  <2> QED BY <1>1, <2>2, KeyQuiet DEF shared
<1>8. StructType'
  BY <1>1, StructTypes DEF StructType, shared
<1> QED BY <1>6, <1>7, <1>8, SectionInv

\* tryUpdateExisting replaces the entry, or finds the key gone.
LEMMA UpdateInv ==
  ASSUME CacheInv, Observe, NEW a \in Actors, Update(a)
  PROVE  CacheInv'
<1> DEFINE h == Head(todo[a])
           next == [h EXCEPT !.op = "Add"]
           delta == h.n - store[h.key].cost
           change == IF delta # 0 THEN <<Step("Cost", h.key, delta, 0),
                                         Step("PolicyUpdate", h.key, h.n, 0)>> ELSE <<>>
           steps == change \o ScheduleIfTTL(h.key, h.exp)
<1>1. /\ ~Idle(a) /\ h.op = "Update"
      /\ UNCHANGED <<size, liveCost, tracked, radix, wheel, clearMu, frame>>
  BY DEF Update, Doing
<1>2. /\ h \in PlainSteps /\ h.key \in Keys /\ h.n \in Costs /\ h.exp \in Nat /\ h.n \in Nat
      /\ ToSet(<<h>>) = {h}
  <2>1. h \in PlainSteps
    BY <1>1, PlainCall DEF CacheInv
  <2> QED BY <1>1, <2>1, StructTypes, ElementsOfTuple DEF PlainSteps, Steps, KeyOps
<1>3. Zone(h) = 3 /\ h.op \notin ClearCalls
  BY <1>1 DEF Zone, Small, ClearCalls, ClearSteps, ClearOps
<1>4. CASE h.key \notin DOMAIN store /\ Then(a, <<next>>) /\ UNCHANGED store
  <2>1. next \in PlainSteps /\ next.op = "Add"
    BY <1>1, <1>2 DEF PlainSteps, Steps, Ops, KeyOps, ClearOps
  <2>2. <<next>> \in Seq(PlainSteps) /\ ToSet(<<next>>) = {next}
    BY <2>1, ElementsOfTuple
  <2> DEFINE one == <<next>>
  <2> HIDE DEF next
  <2>3. Section(a, one)
    <3>1. one \in Seq(PlainSteps) /\ \A s \in ToSet(one) : Zone(s) = 3
      BY <2>1, <2>2 DEF Zone, Small
    <3>2. Sorted(one)
      <4> HIDE DEF one
      <4> QED BY <3>1, SortedUniform
    <3>3. Fits(h, one)
      BY <1>3, <2>1, <2>2, <3>1, <3>2 DEF Fits, ClearCalls, ClearSteps, ClearOps
    <3> QED BY <1>1, <2>2, <1>4, <3>3, StructTypes DEF Section
  <2>4. ASSUME NEW k \in Keys \ raced' PROVE KeyInv(k)'
    <3>1. DutyIn(<<h>>, k) = {} /\ DutyIn(<<next>>, k) = {}
      BY <1>1, <1>2, <2>1, <2>2 DEF DutyIn, DutyOps
    <3>2. Duties(k)' = Duties(k) /\ KeyInv(k)
      BY <2>3, <3>1, DutySame
    <3> QED BY <1>1, <1>4, <3>2, KeyQuiet
  <2>5. StructType'
    BY <1>1, <1>4, StructTypes DEF StructType
  <2> QED BY <2>3, <2>4, <2>5, SectionInv
<1>5. CASE /\ h.key \in DOMAIN store /\ Then(a, steps)
           /\ store' = [store EXCEPT ![h.key] = [cost |-> h.n, exp |-> h.exp]]
  <2>1. /\ store[h.key].cost \in Nat /\ delta \in Int
    BY <1>2, <1>5, StructTypes DEF StructType, Entries
  <2> DEFINE c == Step("Cost", h.key, delta, 0)
             p == Step("PolicyUpdate", h.key, h.n, 0)
  <2>2. /\ c \in PlainSteps /\ c.op = "Cost"
        /\ p \in PlainSteps /\ p.op = "PolicyUpdate" /\ p.key = h.key /\ p.n = h.n
    <3> HIDE DEF delta
    <3> QED BY <1>2, <2>1, PlainStep, StepFields DEF Ops, ClearOps
  <2>3. change \in Seq(PlainSteps) /\ ToSet(change) = IF delta # 0 THEN {c, p} ELSE {}
    <3> HIDE DEF c, p, delta
    <3>1. <<c, p>> \in Seq(PlainSteps) /\ ToSet(<<c, p>>) = {c, p} /\ <<>> \in Seq(PlainSteps)
      BY <2>2, ElementsOfPair
    <3>2. change = IF delta # 0 THEN <<c, p>> ELSE <<>>
      BY DEF c, p
    <3> HIDE DEF change
    <3> QED BY <3>1, <3>2, ElementsOfTuple
  <2>4. /\ steps \in Seq(PlainSteps)
        /\ ToSet(steps) = ToSet(change) \cup ToSet(ScheduleIfTTL(h.key, h.exp))
    <3>1. PICK q, r : q = change /\ r = ScheduleIfTTL(h.key, h.exp)
      OBVIOUS
    <3> HIDE DEF change
    <3>2. q \in Seq(PlainSteps) /\ r \in Seq(PlainSteps)
      BY <1>2, <2>3, <3>1, SchedulePart
    <3>3. q \o r \in Seq(PlainSteps) /\ ToSet(q \o r) = ToSet(q) \cup ToSet(r)
      BY <3>2, ElementsOfConcat
    <3> QED BY <3>1, <3>3
  <2>5. \A s \in ToSet(ScheduleIfTTL(h.key, h.exp)) : s.op = "Schedule"
    BY <1>2, SchedulePart
  <2> HIDE DEF steps, change, c, p
  <2>6. \A s \in ToSet(steps) : s.op \in Small
    BY <2>2, <2>3, <2>4, <2>5 DEF Small
  <2>7. Section(a, steps)
    <3>1. Fits(h, steps)
      BY <1>3, <2>4, <2>6, SmallFits
    <3> QED BY <1>1, <1>5, <2>4, <3>1, StructTypes DEF Section
  <2>8. \A s \in ToSet(steps) : s.op \in DutyOps => s = p /\ delta # 0
    BY <2>2, <2>3, <2>4, <2>5 DEF DutyOps
  <2>9. ASSUME NEW k \in Keys \ raced' PROVE KeyInv(k)'
    <3>1. CASE k = h.key
      <4>1. Duties(k) = {} /\ Duties(k)' = DutyIn(steps, k) /\ KeyInv(k)
        BY <1>3, <2>7, <3>1, DutyBegin
      <4>2. /\ k \in DOMAIN store' /\ store'[k].cost = h.n /\ k \in DOMAIN tracked
            /\ tracked[k] = store[k].cost /\ k \in radix /\ UNCHANGED <<tracked, radix>>
        BY <1>1, <1>5, <3>1, <4>1 DEF KeyInv, Settled, RadixAgrees, PolicyAgrees
      <4>3. RadixAgrees(k)'
        BY <4>2 DEF RadixAgrees
      <4>4. CASE delta = 0
        <5>1. Duties(k)' = {}
          BY <2>8, <4>1, <4>4 DEF DutyIn
        <5>2. PolicyAgrees(k)'
          BY <2>1, <1>2, <3>1, <4>2, <4>4 DEF PolicyAgrees
        <5> QED BY <4>3, <5>1, <5>2 DEF KeyInv, Settled
      <4>5. CASE delta # 0
        <5>1. Duties(k)' = {p}
          BY <2>2, <2>3, <2>4, <2>8, <3>1, <4>1, <4>5 DEF DutyIn, DutyOps
        <5>2. \A s \in {p} : Meets(s, k)'
          BY <2>2, <4>2 DEF Meets
        <5> QED BY <2>2, <4>3, <5>1, <5>2 DEF KeyInv, Settled
      <4> QED BY <4>4, <4>5
    <3>2. CASE k # h.key
      <4>1. DutyIn(<<h>>, k) = {}
        BY <1>1, <1>2 DEF DutyIn, DutyOps
      <4>2. DutyIn(steps, k) = {}
        BY <1>2, <2>2, <2>8, <3>2, CacheAssumption DEF DutyIn
      <4>3. Duties(k)' = Duties(k) /\ KeyInv(k)
        BY <2>7, <4>1, <4>2, DutySame
      <4>4. /\ k \in DOMAIN store' <=> k \in DOMAIN store
            /\ k \in DOMAIN store => store'[k].cost = store[k].cost
        BY <1>5, <3>2
      <4> QED BY <1>1, <4>3, <4>4, KeyQuiet
    <3> QED BY <3>1, <3>2
  <2>10. StructType'
    <3>1. [cost |-> h.n, exp |-> h.exp] \in Entries
      BY <1>2 DEF Entries
    <3> QED BY <1>1, <1>5, <3>1, StructTypes DEF StructType
  <2> QED BY <2>7, <2>9, <2>10, SectionInv
<1> QED BY <1>4, <1>5 DEF Update

\* A list of the elements of a finite set, each once.
LEMMA ListOfSet ==
  ASSUME NEW S, IsFiniteSet(S), NEW f \in SetToSeqs(S)
  PROVE  /\ f \in Seq(S) /\ ToSet(f) = S /\ DOMAIN f = 1 .. Len(f)
         /\ \A i \in DOMAIN f : f[i] \in S
<1> DEFINE n == Cardinality(S)
<1>1. /\ n \in Nat /\ f \in [1 .. n -> S]
      /\ \A i, j \in 1 .. n : i # j => f[i] # f[j]
  BY FS_CardinalityType DEF SetToSeqs
<1>2. f \in Seq(S) /\ Len(f) = n
  BY <1>1
<1>3. f \in Injection(1 .. n, S)
  BY <1>1 DEF Injection, IsInjective
<1>4. IsFiniteSet(1 .. n) /\ Cardinality(1 .. n) = n
  BY <1>1, FS_Interval
<1>5. f \in Surjection(1 .. n, S)
  BY <1>3, <1>4, FS_Injection
<1>6. \A x \in S : \E i \in 1 .. n : f[i] = x
  BY <1>5 DEF Surjection
<1> QED BY <1>1, <1>2, <1>6 DEF ToSet

\* doSet enters the key in the policy, evicts victims and goes on to store it.
LEMMA AdmitInv ==
  ASSUME CacheInv, Observe, NEW a \in Actors, Doing(a, "Add"),
         NEW h, NEW put, h = Head(todo[a]), put = [h EXCEPT !.op = "Put"],
         NEW E \in SUBSET (Keys \ {h.key}), NEW steps \in Seq(PlainSteps), Then(a, steps),
         ToSet(steps) = {Step("Evict", v, 0, 0) : v \in E} \cup {put},
         DOMAIN tracked' \subseteq Keys,
         h.key \in DOMAIN tracked' /\ tracked'[h.key] = h.n,
         \A k \in E : k \notin DOMAIN tracked',
         \A k \in Keys \ (E \cup {h.key}) : /\ k \in DOMAIN tracked' <=> k \in DOMAIN tracked
                                            /\ k \in DOMAIN tracked => tracked'[k] = tracked[k],
         UNCHANGED <<store, size, liveCost, radix, wheel, clearMu, frame>>
  PROVE  CacheInv'
<1>1. ~Idle(a) /\ h.op = "Add" /\ Head(todo[a]) = h
  BY DEF Doing
<1>2. /\ h \in PlainSteps /\ h.key \in Keys /\ h.n \in Costs /\ ToSet(<<h>>) = {h}
  <2>1. h \in PlainSteps
    BY <1>1, PlainCall DEF CacheInv
  <2> QED BY <1>1, <2>1, ElementsOfTuple DEF PlainSteps, Steps, KeyOps
<1>3. Zone(h) = 3 /\ h.op \notin ClearCalls
  BY <1>1 DEF Zone, Small, ClearCalls, ClearSteps, ClearOps
<1>4. put.op = "Put" /\ put.key = h.key /\ put.n = h.n
  BY <1>2 DEF PlainSteps, Steps
<1>5. \A s \in ToSet(steps) : \/ s.op = "Put" /\ s = put
                              \/ s.op = "Evict" /\ s.key \in E
  <2> SUFFICES ASSUME NEW s \in ToSet(steps), s # put
               PROVE  s.op = "Evict" /\ s.key \in E
    BY <1>4
  <2>1. PICK v \in E : s = Step("Evict", v, 0, 0)
    OBVIOUS
  <2> QED BY <2>1, StepFields
<1>6. Section(a, steps)
  <2>1. \A s \in ToSet(steps) : Zone(s) = 2
    BY <1>5 DEF Zone, Small
  <2>2. Sorted(steps)
    BY <2>1, SortedUniform
  <2>3. \A s \in ToSet(steps) : s.op \notin ClearSteps \cup {"PolicyDel", "PolicyUpdate"}
    BY <1>5 DEF ClearSteps, ClearOps
  <2>4. Fits(h, steps)
    BY <1>3, <2>1, <2>2, <2>3 DEF Fits
  <2> QED BY <1>1, <2>4, StructTypes DEF Section
<1>7. ASSUME NEW k \in Keys \ raced' PROVE KeyInv(k)'
  <2>1. CASE k = h.key
    <3>1. Duties(k)' = DutyIn(steps, k) /\ KeyInv(k) /\ Duties(k) = {}
      BY <1>1, <1>3, <1>6, <2>1, DutyBegin
    <3>2. Duties(k)' = {put}
      <4>1. DutyIn(steps, k) \subseteq {put}
        BY <1>5, <2>1, CacheAssumption DEF DutyIn
      <4>2. put \in DutyIn(steps, k)
        BY <1>4, <2>1 DEF DutyIn, DutyOps
      <4> QED BY <3>1, <4>1, <4>2
    <3>3. Meets(put, k)'
      BY <1>4, <2>1 DEF Meets
    <3>4. RadixAgrees(k)'
      BY <3>1 DEF KeyInv, Settled, RadixAgrees
    <3> QED BY <1>4, <3>2, <3>3, <3>4 DEF KeyInv, Settled
  <2>2. CASE k \in E
    <3> DEFINE e == Step("Evict", k, 0, 0)
    <3>1. e.op = "Evict" /\ e.key = k
      BY StepFields
    <3>2. DutyIn(steps, k) = {e}
      <4>1. e \in DutyIn(steps, k)
        BY <2>2, <3>1 DEF DutyIn, DutyOps
      <4>2. ASSUME NEW s \in DutyIn(steps, k) PROVE s = e
        <5>1. s \in ToSet(steps) /\ s.key \in {k, AnyKey}
          BY DEF DutyIn
        <5>2. s # put
          BY <1>2, <1>4, <2>2, <5>1, CacheAssumption
        <5>3. PICK v \in E : s = Step("Evict", v, 0, 0)
          BY <5>1, <5>2
        <5>4. s.key = v
          BY <5>3, StepFields
        <5> QED BY <5>1, <5>3, <5>4, CacheAssumption
      <4> QED BY <4>1, <4>2
    <3> HIDE DEF e
    <3>3. Duties(k)' = {e} /\ KeyInv(k) /\ Duties(k) = {}
      <4>1. DutyIn(steps, k) # {}
        BY <3>2
      <4>2. Duties(k)' = DutyIn(steps, k) /\ KeyInv(k) /\ Duties(k) = {}
        BY <1>1, <1>3, <1>6, <4>1, DutyBegin
      <4> QED BY <3>2, <4>2
    <3>4. Meets(e, k)'
      BY <2>2, <3>1 DEF Meets
    <3>5. RadixAgrees(k)'
      BY <3>3 DEF KeyInv, Settled, RadixAgrees
    <3> QED BY <3>1, <3>3, <3>4, <3>5 DEF KeyInv, Settled
  <2>3. CASE k \notin E \cup {h.key}
    <3>1. DutyIn(<<h>>, k) = {}
      BY <1>1, <1>2 DEF DutyIn, DutyOps
    <3>2. DutyIn(steps, k) = {}
      <4> SUFFICES ASSUME NEW s \in ToSet(steps) PROVE s.key \notin {k, AnyKey}
        BY DEF DutyIn
      <4>1. s.key \in Keys /\ s.key # k
        BY <1>2, <1>4, <1>5, <2>3
      <4> QED BY <4>1, CacheAssumption
    <3>3. Duties(k)' = Duties(k) /\ KeyInv(k)
      BY <1>1, <1>6, <3>1, <3>2, DutySame
    <3>4. /\ k \in DOMAIN tracked' <=> k \in DOMAIN tracked
          /\ k \in DOMAIN tracked => tracked'[k] = tracked[k]
      <4>1. k \in Keys \ (E \cup {h.key})
        BY <2>3
      <4> QED BY <4>1
    <3> QED BY <3>3, <3>4, KeyQuiet
  <2> QED BY <2>1, <2>2, <2>3
<1>8. StructType'
  <2>1. ASSUME NEW k \in DOMAIN tracked' PROVE tracked'[k] \in Costs
    <3>1. CASE k = h.key
      BY <1>2, <3>1
    <3>2. CASE k # h.key
      <4>1. k \in Keys \ (E \cup {h.key})
        BY <3>2
      <4>2. k \in DOMAIN tracked /\ tracked'[k] = tracked[k]
        BY <4>1
      <4> QED BY <4>2, StructTypes DEF StructType
    <3> QED BY <3>1, <3>2
  <2> QED BY <2>1, StructTypes DEF StructType
<1> QED BY <1>6, <1>7, <1>8, SectionInv

LEMMA AddInv ==
  ASSUME CacheInv, Observe, NEW a \in Actors, Add(a)
  PROVE  CacheInv'
<1> DEFINE h == Head(todo[a])
           put == [h EXCEPT !.op = "Put"]
<1>1. /\ ~Idle(a) /\ h.op = "Add" /\ Doing(a, "Add")
      /\ UNCHANGED <<store, size, liveCost, radix, wheel, clearMu, frame>>
  BY DEF Add, Doing
<1>2. h \in PlainSteps
  BY <1>1, PlainCall DEF CacheInv
<1>3. /\ put \in PlainSteps /\ h.key \in Keys /\ h.n \in Costs
      /\ <<put>> \in Seq(PlainSteps) /\ ToSet(<<put>>) = {put}
  <2>1. put \in PlainSteps /\ h.key \in Keys /\ h.n \in Costs
    BY <1>1, <1>2 DEF PlainSteps, Steps, Ops, KeyOps, ClearOps
  <2> QED BY <2>1, ElementsOfTuple
<1>4. DOMAIN tracked \subseteq Keys
  BY StructTypes DEF StructType
<1>5. CASE /\ h.key \in DOMAIN tracked /\ tracked' = [tracked EXCEPT ![h.key] = h.n]
           /\ Then(a, <<put>>)
  <2>1. ToSet(<<put>>) = {Step("Evict", v, 0, 0) : v \in {}} \cup {put}
    BY <1>3
  <2>2. DOMAIN tracked' = DOMAIN tracked
    BY <1>5
  <2> HIDE DEF put
  <2> DEFINE one == <<put>>
  <2> HIDE DEF one
  <2>3. one \in Seq(PlainSteps) /\ Then(a, one)
        /\ ToSet(one) = {Step("Evict", v, 0, 0) : v \in {}} \cup {put}
    BY <1>3, <1>5, <2>1 DEF one
  <2>4. \A k \in Keys \ {h.key} : /\ k \in DOMAIN tracked' <=> k \in DOMAIN tracked
                                  /\ k \in DOMAIN tracked => tracked'[k] = tracked[k]
    BY <1>5
  <2>5. h.key \in DOMAIN tracked' /\ tracked'[h.key] = h.n
    BY <1>5
  <2>6. put = [h EXCEPT !.op = "Put"]
    BY DEF put
  <2>7. DOMAIN tracked' \subseteq Keys /\ \A k \in {} : k \notin DOMAIN tracked'
    BY <1>4, <2>2
  <2>8. \A k \in Keys \ ({} \cup {h.key}) : /\ k \in DOMAIN tracked' <=> k \in DOMAIN tracked
                                            /\ k \in DOMAIN tracked => tracked'[k] = tracked[k]
    BY <2>4
  <2>9. {} \in SUBSET (Keys \ {h.key})
    OBVIOUS
  <2> QED BY <1>1, <2>3, <2>5, <2>6, <2>7, <2>8, <2>9, AdmitInv
<1>6. ASSUME h.key \notin DOMAIN tracked, NEW vs \in VictimLists,
             tracked' = With(Without(tracked, ToSet(vs)), h.key, h.n),
             Then(a, [i \in DOMAIN vs |-> Step("Evict", vs[i], 0, 0)] \o <<put>>)
      PROVE  CacheInv'
  <2> DEFINE E == ToSet(vs)
             evicts == [i \in DOMAIN vs |-> Step("Evict", vs[i], 0, 0)]
             steps == evicts \o <<put>>
  <2>1. PICK K \in SUBSET DOMAIN tracked : vs \in SetToSeqs(K)
    BY <1>6 DEF VictimLists, SetToAllKPermutations
  <2>2. IsFiniteSet(K)
    BY <1>4, <2>1, CacheAssumption, FS_Subset
  <2>3. vs \in Seq(K) /\ E = K /\ DOMAIN vs = 1 .. Len(vs) /\ \A i \in DOMAIN vs : vs[i] \in K
    BY <2>1, <2>2, ListOfSet
  <2>4. \A v \in K : Step("Evict", v, 0, 0) \in PlainSteps
    BY <1>4, <2>1, PlainStep DEF Ops, ClearOps
  <2>5. evicts \in Seq(PlainSteps)
    <3>1. Len(vs) \in Nat
      BY <2>3, LenProperties
    <3>2. evicts \in [1 .. Len(vs) -> PlainSteps]
      BY <2>3, <2>4
    <3> HIDE DEF evicts
    <3> QED BY <3>1, <3>2
  <2>6. ToSet(evicts) = {Step("Evict", v, 0, 0) : v \in E}
    BY <2>3 DEF ToSet
  <2> HIDE DEF evicts
  <2>7. steps \in Seq(PlainSteps) /\ ToSet(steps) = {Step("Evict", v, 0, 0) : v \in E} \cup {put}
    <3> DEFINE one == <<put>>
    <3>1. one \in Seq(PlainSteps) /\ ToSet(one) = {put} /\ steps = evicts \o one
      BY <1>3
    <3> HIDE DEF put, E, one, steps
    <3>2. ToSet(evicts \o one) = ToSet(evicts) \cup ToSet(one)
      BY <2>5, <3>1, ElementsOfConcat
    <3>3. evicts \o one \in Seq(PlainSteps)
      BY <2>5, <3>1, ConcatProperties
    <3> QED BY <2>6, <3>1, <3>2, <3>3
  <2>8. Then(a, steps)
    BY <1>6 DEF evicts
  <2> HIDE DEF steps
  <2>9. /\ E \in SUBSET (Keys \ {h.key})
        /\ DOMAIN tracked' = (DOMAIN tracked \ E) \cup {h.key}
        /\ \A k \in DOMAIN tracked' : tracked'[k] = IF k = h.key THEN h.n ELSE tracked[k]
    <3>1. E \subseteq DOMAIN tracked
      BY <2>1, <2>3
    <3>2. Without(tracked, E) = [j \in DOMAIN tracked \ E |-> tracked[j]]
      BY DEF Without
    <3> HIDE DEF E
    <3> QED BY <1>4, <1>6, <3>1, <3>2 DEF With, E
  <2> HIDE DEF E
  <2>10. \A k \in Keys \ (E \cup {h.key}) : /\ k \in DOMAIN tracked' <=> k \in DOMAIN tracked
                                            /\ k \in DOMAIN tracked => tracked'[k] = tracked[k]
    BY <2>9
  <2>11. h.key \in DOMAIN tracked' /\ tracked'[h.key] = h.n /\ DOMAIN tracked' \subseteq Keys
    BY <1>3, <1>4, <2>9
  <2>12. \A k \in E : k \notin DOMAIN tracked'
    BY <2>9
  <2> QED BY <1>1, <2>7, <2>8, <2>9, <2>10, <2>11, <2>12, AdmitInv
<1> QED BY <1>5, <1>6 DEF Add

\* A section that is not replaced by others.
LEMMA DropSection ==
  ASSUME CacheInv, NEW a \in Actors, NEW o, Doing(a, o), o # "Push", Then(a, <<>>),
         IsFiniteSet(wheel'), UNCHANGED frame
  PROVE  /\ Section(a, <<>>) /\ ToSet(<<>>) = {}
         /\ Head(todo[a]) \in PlainSteps /\ Head(todo[a]).op = o
         /\ Head(todo[a]) \in ToSet(todo[a])
<1>1. <<>> \in Seq(PlainSteps) /\ ToSet(<<>>) = {}
  BY EmptySeq, ElementsOfTuple
<1>2. Sorted(<<>>)
  BY EmptySeq DEF Sorted
<1>3. Fits(Head(todo[a]), <<>>)
  BY <1>1, <1>2 DEF Fits
<1>4. ~Idle(a) /\ Head(todo[a]).op = o
  BY DEF Doing
<1> QED BY <1>1, <1>3, <1>4, PlainCall DEF Section, CacheInv

\* One without a duty, that leaves store, policy and radix tree as they are.
LEMMA DropInv ==
  ASSUME CacheInv, Observe, NEW a \in Actors, NEW o, Doing(a, o), o \notin DutyOps \cup {"Push"},
         Then(a, <<>>), IsFiniteSet(wheel'), UNCHANGED frame, StructType',
         \A k \in Keys :
           /\ k \in DOMAIN store' <=> k \in DOMAIN store
           /\ k \in DOMAIN store => store'[k].cost = store[k].cost
           /\ k \in DOMAIN tracked' <=> k \in DOMAIN tracked
           /\ k \in DOMAIN tracked => tracked'[k] = tracked[k]
           /\ k \in radix' <=> k \in radix
  PROVE  CacheInv'
<1>1. Section(a, <<>>) /\ ToSet(<<>>) = {} /\ Head(todo[a]).op = o
  BY DropSection
<1>2. ASSUME NEW k \in Keys \ raced' PROVE KeyInv(k)'
  <2>1. DutyIn(<<>>, k) = {}
    BY <1>1 DEF DutyIn
  <2>2. DutyIn(<<Head(todo[a])>>, k) = {}
    <3>1. ToSet(<<Head(todo[a])>>) = {Head(todo[a])}  BY ElementsOfTuple
    <3> QED BY <1>1, <3>1 DEF DutyIn
  <2>3. Duties(k)' = Duties(k) /\ KeyInv(k)
    BY <1>1, <2>1, <2>2, DutySame
  <2> QED BY <2>3, KeyQuiet
<1> QED BY <1>1, <1>2, SectionInv

\* One with a duty: its duty is gone, and the call has done the later ones no
\* harm.
LEMMA DropDuty ==
  ASSUME CacheInv, Observe, NEW a \in Actors, NEW o, Doing(a, o), o \in DutyOps,
         Then(a, <<>>), IsFiniteSet(wheel'), UNCHANGED frame,
         NEW k \in Keys \ raced'
  PROVE  /\ KeyInv(k)
         /\ Head(todo[a]).key \notin {k, AnyKey} => Duties(k)' = Duties(k)
         /\ Head(todo[a]).key \in {k, AnyKey} =>
              /\ Duties(k) = {Head(todo[a])} \cup Duties(k)'
              /\ \A s \in Duties(k)' : /\ Zone(s) >= Zone(Head(todo[a])) /\ s.op \in DutyOps
                                      /\ s \in ToSet(todo[a])
<1>1. Section(a, <<>>) /\ ToSet(<<>>) = {} /\ Head(todo[a]).op = o
  BY DropSection DEF DutyOps
<1>2. ToSet(<<Head(todo[a])>>) = {Head(todo[a])}
  BY ElementsOfTuple
<1>3. DutyIn(<<>>, k) = {}
  BY <1>1 DEF DutyIn
<1>4. KeyInv(k)
  BY <1>1, DutyStep
<1>5. ASSUME Head(todo[a]).key \notin {k, AnyKey} PROVE Duties(k)' = Duties(k)
  <2>1. DutyIn(<<Head(todo[a])>>, k) = {}
    BY <1>2, <1>5 DEF DutyIn
  <2> QED BY <1>1, <1>3, <2>1, DutySame
<1>6. ASSUME Head(todo[a]).key \in {k, AnyKey}
      PROVE  /\ Duties(k) = {Head(todo[a])} \cup Duties(k)'
             /\ \A s \in Duties(k)' : /\ Zone(s) >= Zone(Head(todo[a])) /\ s.op \in DutyOps
                                     /\ s \in ToSet(todo[a])
  <2>1. DutyIn(<<Head(todo[a])>>, k) = {Head(todo[a])}
    BY <1>1, <1>2, <1>6 DEF DutyIn
  <2>2. /\ Duties(k) = DutyIn(<<Head(todo[a])>>, k) \cup Rest(a, k) \cup Others(a, k)
        /\ Duties(k)' = DutyIn(<<>>, k) \cup Rest(a, k) \cup Others(a, k)
        /\ Others(a, k) = {}
        /\ \A s \in Rest(a, k) : /\ Zone(s) >= Zone(Head(todo[a])) /\ s \in ToSet(todo[a])
                                 /\ s.op \in DutyOps
    BY <1>1, <1>6, DutyStep
  <2> QED BY <1>3, <2>1, <2>2
<1> QED BY <1>4, <1>5, <1>6

LEMMA AddSizeInv ==
  ASSUME CacheInv, Observe, NEW a \in Actors, AddSize(a) \/ AddCost(a)
  PROVE  CacheInv'
<1>1. PICK o \in {"Size", "Cost"} : Doing(a, o) /\ Then(a, <<>>)
  BY DEF AddSize, AddCost
<1>2. Head(todo[a]).n \in Int
  BY <1>1, PlainCall DEF Doing, CacheInv, PlainSteps, Steps
<1>3. UNCHANGED <<store, tracked, radix, wheel, clearMu, frame>>
  BY DEF AddSize, AddCost
<1>4. size' \in Int /\ liveCost' \in Int
  BY <1>2, StructTypes DEF AddSize, AddCost, StructType
<1>5. StructType'
  BY <1>3, <1>4, StructTypes DEF StructType
<1> QED BY <1>1, <1>3, <1>5, StructTypes, DropInv DEF DutyOps

LEMMA ScheduleInv ==
  ASSUME CacheInv, Observe, NEW a \in Actors, Schedule(a)
  PROVE  CacheInv'
<1> DEFINE e == [key |-> Head(todo[a]).key, exp |-> Head(todo[a]).exp]
<1>1. /\ Doing(a, "Schedule") /\ Then(a, <<>>) /\ wheel' = wheel \cup {e}
      /\ UNCHANGED <<store, size, liveCost, tracked, radix, clearMu, frame>>
  BY DEF Schedule
<1>2. e \in Events
  <2>1. Head(todo[a]) \in PlainSteps /\ Head(todo[a]).op = "Schedule"
    BY <1>1, PlainCall DEF Doing, CacheInv
  <2>2. Head(todo[a]).key \in Keys /\ Head(todo[a]).exp \in Nat \ {0}
    BY <2>1 DEF PlainSteps, Steps, KeyOps
  <2> QED BY <2>2 DEF Events
<1>3. IsFiniteSet(wheel')
  BY <1>1, StructTypes, FS_AddElement
<1>4. StructType'
  BY <1>1, <1>2, StructTypes DEF StructType
<1> QED BY <1>1, <1>3, <1>4, StructTypes, DropInv DEF DutyOps

LEMMA UnlockInv ==
  ASSUME CacheInv, Observe, NEW a \in Actors, Unlock(a)
  PROVE  CacheInv'
<1>1. /\ Doing(a, "Unlock") /\ Then(a, <<>>) /\ UNCHANGED <<shared, frame>>
      /\ clearMu' = clearMu \ {a}
  BY DEF Unlock
<1>2. clearMu' \subseteq Actors /\ IsFiniteSet(clearMu') /\ Cardinality(clearMu') <= 1
  <2>1. clearMu \subseteq Actors /\ IsFiniteSet(clearMu) /\ Cardinality(clearMu) <= 1
    BY StructTypes DEF StructType
  <2>2. Cardinality(clearMu) \in Nat
    BY <2>1, FS_CardinalityType
  <2>3. clearMu' \in SUBSET clearMu
    BY <1>1
  <2>4. IsFiniteSet(clearMu') /\ Cardinality(clearMu') <= Cardinality(clearMu)
    BY <2>1, <2>3, FS_Subset
  <2>5. Cardinality(clearMu') \in Nat
    BY <2>4, FS_CardinalityType
  <2> QED BY <2>1, <2>2, <2>3, <2>4, <2>5
<1>3. StructType'
  BY <1>1, <1>2, StructTypes DEF StructType, shared
<1> QED BY <1>1, <1>3, StructTypes, DropInv DEF DutyOps, shared

LEMMA ClearNumberInv ==
  ASSUME CacheInv, Observe, NEW a \in Actors, ClearSize(a) \/ ClearWheel(a) \/ ClearCost(a)
  PROVE  CacheInv'
<1>1. PICK o \in {"ClearSize", "ClearWheel", "ClearCost"} : Doing(a, o) /\ Then(a, <<>>)
  BY DEF ClearSize, ClearWheel, ClearCost
<1>2. UNCHANGED <<store, tracked, radix, clearMu, frame>>
  BY DEF ClearSize, ClearWheel, ClearCost
<1>3. size' \in {0, size} /\ liveCost' \in {0, liveCost} /\ wheel' \in {{}, wheel}
  BY DEF ClearSize, ClearWheel, ClearCost
<1>4. StructType' /\ IsFiniteSet(wheel')
  BY <1>2, <1>3, StructTypes, FS_EmptySet DEF StructType
<1> QED BY <1>1, <1>2, <1>4, DropInv DEF DutyOps

LEMMA RadixStepInv ==
  ASSUME CacheInv, Observe, NEW a \in Actors, RadixInsert(a) \/ RadixDelete(a)
  PROVE  CacheInv'
<1> DEFINE h == Head(todo[a])
<1>1. PICK o \in {"RadixInsert", "RadixDelete"} :
        /\ Doing(a, o) /\ Then(a, <<>>)
        /\ radix' = IF o = "RadixInsert" THEN radix \cup {h.key} ELSE radix \ {h.key}
  BY DEF RadixInsert, RadixDelete
<1>2. UNCHANGED <<store, size, liveCost, tracked, wheel, clearMu, frame>>
  BY DEF RadixInsert, RadixDelete
<1>3. Section(a, <<>>) /\ h.op = o /\ h.key \in Keys
  <2>1. Section(a, <<>>) /\ h.op = o /\ h \in PlainSteps
    BY <1>1, <1>2, StructTypes, DropSection
  <2> QED BY <2>1 DEF PlainSteps, KeyOps
<1>4. o \in DutyOps
  BY DEF DutyOps
<1>5. ASSUME NEW k \in Keys \ raced' PROVE KeyInv(k)'
  <2>1. CASE k = h.key
    <3>1. KeyInv(k) /\ Duties(k) = {h} \cup Duties(k)'
      BY <1>1, <1>2, <1>4, <2>1, StructTypes, DropDuty
    <3>p. PICK D, E : D = Duties(k) /\ E = Duties(k)'
      OBVIOUS
    <3>2. Settled(D, k) /\ D = {h} \cup E
      BY <3>1, <3>p DEF KeyInv
    <3>3. Meets(h, k)
      BY <3>2 DEF Settled
    <3>4. RadixAgrees(k)'
      BY <1>1, <1>2, <1>3, <2>1, <3>3 DEF Meets, RadixAgrees
    <3>5. PolicyAgrees(k)' <=> PolicyAgrees(k)
      BY <1>2 DEF PolicyAgrees
    <3>6. \A s \in E : Meets(s, k)'
      BY <1>2, <3>2 DEF Settled, Meets
    <3>7. Settled(E, k)'
      BY <1>2, <1>3, <3>2, <3>4, <3>5, <3>6 DEF Settled
    <3> QED BY <3>7, <3>p, KeyInvNext
  <2>2. CASE k # h.key
    <3>1. h.key \notin {k, AnyKey}
      BY <1>3, <2>2, CacheAssumption
    <3>2. Duties(k)' = Duties(k) /\ KeyInv(k)
      BY <1>1, <1>2, <1>4, <3>1, StructTypes, DropDuty
    <3>3. k \in radix' <=> k \in radix
      BY <1>1, <2>2
    <3> QED BY <1>2, <3>2, <3>3, KeyQuiet
  <2> QED BY <2>1, <2>2
<1>6. StructType'
  BY <1>1, <1>2, <1>3, StructTypes DEF StructType
<1> QED BY <1>3, <1>5, <1>6, SectionInv

LEMMA PolicyStepInv ==
  ASSUME CacheInv, Observe, NEW a \in Actors, PolicyUpdate(a) \/ PolicyDel(a)
  PROVE  CacheInv'
<1> DEFINE h == Head(todo[a])
<1>1. PICK o \in {"PolicyUpdate", "PolicyDel"} :
        /\ Doing(a, o) /\ Then(a, <<>>)
        /\ o = "PolicyUpdate" =>
             tracked' = [k \in DOMAIN tracked |-> IF k = h.key THEN h.n ELSE tracked[k]]
        /\ o = "PolicyDel" => tracked' = [k \in DOMAIN tracked \ {h.key} |-> tracked[k]]
  BY DEF PolicyUpdate, PolicyDel, Without
<1>2. UNCHANGED <<store, size, liveCost, radix, wheel, clearMu, frame>>
  BY DEF PolicyUpdate, PolicyDel
<1>3. /\ Section(a, <<>>) /\ h.op = o /\ h.key \in Keys /\ h \in ToSet(todo[a])
      /\ o = "PolicyUpdate" => h.n \in Costs
  <2>1. Section(a, <<>>) /\ h.op = o /\ h \in PlainSteps /\ h \in ToSet(todo[a])
    BY <1>1, <1>2, StructTypes, DropSection
  <2> QED BY <2>1 DEF PlainSteps, KeyOps
<1>4. o \in DutyOps
  BY DEF DutyOps
<1>5. ASSUME NEW k \in Keys \ raced' PROVE KeyInv(k)'
  <2>1. CASE k = h.key
    <3>1. /\ KeyInv(k) /\ Duties(k) = {h} \cup Duties(k)'
          /\ \A s \in Duties(k)' : s \in ToSet(todo[a])
      BY <1>1, <1>2, <1>4, <2>1, StructTypes, DropDuty
    <3>p. PICK D, E : D = Duties(k) /\ E = Duties(k)'
      OBVIOUS
    <3>2. Settled(D, k) /\ D = {h} \cup E
      BY <3>1, <3>p DEF KeyInv
    <3>3. Meets(h, k)
      BY <3>2 DEF Settled
    <3>4. RadixAgrees(k)' <=> RadixAgrees(k)
      BY <1>2 DEF RadixAgrees
    <3>5. PolicyAgrees(k)'
      BY <1>1, <1>2, <1>3, <2>1, <3>3 DEF Meets, PolicyAgrees
    <3>6. \A s \in E : Meets(s, k)'
      <4>1. \A s \in E : s.op # "Put"
        BY <1>3, <3>1, <3>p, StructTypes DEF OrderInv
      <4>2. k \in DOMAIN tracked' => k \in DOMAIN tracked
        BY <1>1
      <4>3. o = "PolicyUpdate" => (k \in DOMAIN tracked' <=> k \in DOMAIN tracked)
        BY <1>1
      <4>4. o = "PolicyDel" => k \notin DOMAIN store
        BY <1>3, <3>3 DEF Meets
      <4>5. o = "PolicyUpdate" \/ o = "PolicyDel"
        OBVIOUS
      <4> QED BY <1>2, <3>2, <4>1, <4>2, <4>3, <4>4, <4>5 DEF Settled, Meets
    <3>7. Settled(E, k)'
      BY <1>2, <1>3, <3>2, <3>4, <3>5, <3>6 DEF Settled
    <3> QED BY <3>7, <3>p, KeyInvNext
  <2>2. CASE k # h.key
    <3>1. h.key \notin {k, AnyKey}
      BY <1>3, <2>2, CacheAssumption
    <3>2. Duties(k)' = Duties(k) /\ KeyInv(k)
      BY <1>1, <1>2, <1>4, <3>1, StructTypes, DropDuty
    <3>3. /\ k \in DOMAIN tracked' <=> k \in DOMAIN tracked
          /\ k \in DOMAIN tracked => tracked'[k] = tracked[k]
      BY <1>1, <2>2
    <3> QED BY <1>2, <3>2, <3>3, KeyQuiet
  <2> QED BY <2>1, <2>2
<1>6. StructType'
  <2>1. DOMAIN tracked' \subseteq Keys /\ \A k \in DOMAIN tracked' : tracked'[k] \in Costs
    <3>1. CASE o = "PolicyUpdate"
      BY <1>1, <1>3, <3>1, StructTypes DEF StructType
    <3>2. CASE o = "PolicyDel"
      BY <1>1, <3>2, StructTypes DEF StructType
    <3> QED BY <3>1, <3>2
  <2> QED BY <1>2, <2>1, StructTypes DEF StructType
<1> QED BY <1>3, <1>5, <1>6, SectionInv

\* Clear empties the policy and the radix tree after the shards.
LEMMA ClearTableInv ==
  ASSUME CacheInv, Observe, NEW a \in Actors, ClearPolicy(a) \/ ClearRadix(a)
  PROVE  CacheInv'
<1> DEFINE h == Head(todo[a])
<1>1. PICK o \in {"ClearPolicy", "ClearRadix"} :
        /\ Doing(a, o) /\ Then(a, <<>>)
        /\ IF o = "ClearPolicy" THEN tracked' = <<>> /\ UNCHANGED radix
                                ELSE radix' = {} /\ UNCHANGED tracked
  BY DEF ClearPolicy, ClearRadix
<1>2. UNCHANGED <<store, size, liveCost, wheel, clearMu, frame>>
  BY DEF ClearPolicy, ClearRadix
<1>3. /\ Section(a, <<>>) /\ h.op = o /\ h.key = AnyKey /\ h \in ToSet(todo[a])
  <2>1. Section(a, <<>>) /\ h.op = o /\ h \in PlainSteps /\ h \in ToSet(todo[a])
    BY <1>1, <1>2, StructTypes, DropSection
  <2> QED BY <2>1 DEF PlainSteps, ClearOps
<1>4. o \in DutyOps /\ Zone(h) = 3 /\ o \in ClearSteps
  BY <1>3 DEF DutyOps, Zone, Small, ClearSteps, ClearOps
<1>5. ASSUME NEW k \in Keys \ raced' PROVE KeyInv(k)'
  <2>1. /\ KeyInv(k) /\ Duties(k) = {h} \cup Duties(k)'
        /\ \A s \in Duties(k)' : Zone(s) >= 3
    BY <1>1, <1>2, <1>3, <1>4, StructTypes, DropDuty
  <2>p. PICK D, E : D = Duties(k) /\ E = Duties(k)'
    OBVIOUS
  <2>2. Settled(D, k) /\ D = {h} \cup E
    BY <2>1, <2>p DEF KeyInv
  <2>3. \A s \in D : s.op # "ClearShard" /\ s.op \in DutyOps
    <3>1. \A s \in E : Zone(s) = 3
      BY <2>1, <2>p, ZoneType
    <3>2. \A s \in D : Zone(s) = 3
      BY <1>4, <2>2, <3>1
    <3>3. \A s \in D : s.op \in DutyOps
      BY <2>p DEF Duties, DutyIn
    <3> QED BY <3>2, <3>3 DEF Zone
  <2>4. k \notin DOMAIN store
    BY <1>3, <2>2, <2>3 DEF Settled
  <2>5. \A s \in E : s.op \in {"ClearPolicy", "ClearRadix"}
    <3>1. \A s \in E : Zone(s) = 3 /\ s.op \in DutyOps
      BY <2>1, <2>2, <2>3, <2>p, ZoneType
    <3> QED BY <3>1 DEF Zone, Small, DutyOps
  <2>6. \A s \in E : Meets(s, k)'
    BY <2>5 DEF Meets
  <2>7. CASE o = "ClearPolicy"
    <3>1. PolicyAgrees(k)' /\ (RadixAgrees(k)' <=> RadixAgrees(k))
      BY <1>1, <1>2, <2>4, <2>7 DEF PolicyAgrees, RadixAgrees
    <3>2. Settled(E, k)'
      BY <1>2, <1>3, <2>2, <2>3, <2>4, <2>5, <2>6, <2>7, <3>1 DEF Settled
    <3> QED BY <2>p, <3>2, KeyInvNext
  <2>8. CASE o = "ClearRadix"
    <3>1. RadixAgrees(k)' /\ (PolicyAgrees(k)' <=> PolicyAgrees(k))
      BY <1>1, <1>2, <2>4, <2>8 DEF PolicyAgrees, RadixAgrees
    <3>2. Settled(E, k)'
      BY <1>2, <1>3, <2>2, <2>3, <2>4, <2>5, <2>6, <2>8, <3>1 DEF Settled
    <3> QED BY <2>p, <3>2, KeyInvNext
  <2> QED BY <2>7, <2>8
<1>6. StructType'
  <2>1. CASE o = "ClearPolicy"
    <3>1. DOMAIN tracked' = {}
      BY <1>1, <2>1
    <3> QED BY <1>1, <1>2, <2>1, <3>1, StructTypes DEF StructType
  <2>2. CASE o = "ClearRadix"
    BY <1>1, <1>2, <2>2, StructTypes DEF StructType
  <2> QED BY <2>1, <2>2
<1> QED BY <1>3, <1>5, <1>6, SectionInv

\* Clear empties a shard.
LEMMA ClearShardInv ==
  ASSUME CacheInv, Observe, NEW a \in Actors, ClearShard(a)
  PROVE  CacheInv'
<1> DEFINE h == Head(todo[a])
<1>1. /\ Doing(a, "ClearShard") /\ Then(a, <<>>)
      /\ store' = [k \in DOMAIN store \ {h.key} |-> store[k]]
      /\ UNCHANGED <<size, liveCost, tracked, radix, wheel, clearMu, frame>>
  BY DEF ClearShard, Without
<1>2. /\ Section(a, <<>>) /\ h.op = "ClearShard" /\ h.key \in Keys /\ h \in ToSet(todo[a])
  <2>1. Section(a, <<>>) /\ h.op = "ClearShard" /\ h \in PlainSteps /\ h \in ToSet(todo[a])
    BY <1>1, StructTypes, DropSection
  <2> QED BY <2>1 DEF PlainSteps, KeyOps
<1>3. h.op \in DutyOps /\ h.op \in ClearSteps
  BY <1>2 DEF DutyOps, ClearSteps
<1>4. ASSUME NEW k \in Keys \ raced' PROVE KeyInv(k)'
  <2>1. CASE k = h.key
    <3>1. /\ KeyInv(k) /\ Duties(k) = {h} \cup Duties(k)'
          /\ \A s \in Duties(k)' : s \in ToSet(todo[a]) /\ s.op \in DutyOps
      BY <1>1, <1>2, <1>3, <2>1, StructTypes, DropDuty
    <3>p. PICK D, E : D = Duties(k) /\ E = Duties(k)'
      OBVIOUS
    <3>2. Settled(D, k) /\ D = {h} \cup E
      BY <3>1, <3>p DEF KeyInv
    <3>3. \A s \in E : s.op \in {"ClearShard", "ClearPolicy", "ClearRadix"}
      <4>1. \A s \in E : s.op \in ClearCalls /\ s.op \in DutyOps
        BY <1>2, <1>3, <3>1, <3>p, StructTypes DEF OrderInv
      <4> QED BY <4>1 DEF DutyOps, ClearCalls, ClearSteps, ClearOps
    <3>4. /\ \E s \in E : s.op = "ClearPolicy"
          /\ \E s \in E : s.op = "ClearRadix"
      BY <1>2, <3>2 DEF Settled
    <3>5. \A s \in E : Meets(s, k)'
      BY <3>3 DEF Meets
    <3>6. k \notin DOMAIN store'
      BY <1>1, <2>1
    <3>7. Settled(E, k)'
      BY <3>4, <3>5, <3>6 DEF Settled
    <3> QED BY <3>7, <3>p, KeyInvNext
  <2>2. CASE k # h.key
    <3>1. h.key \notin {k, AnyKey}
      BY <1>2, <2>2, CacheAssumption
    <3>2. Duties(k)' = Duties(k) /\ KeyInv(k)
      BY <1>1, <1>3, <3>1, StructTypes, DropDuty DEF DutyOps
    <3>3. /\ k \in DOMAIN store' <=> k \in DOMAIN store
          /\ k \in DOMAIN store => store'[k].cost = store[k].cost
      BY <1>1, <2>2
    <3> QED BY <1>1, <3>2, <3>3, KeyQuiet
  <2> QED BY <2>1, <2>2
<1>5. StructType'
  BY <1>1, StructTypes DEF StructType
<1> QED BY <1>2, <1>4, <1>5, SectionInv

\* doDelete and DeleteIfExpired remove an entry and go on to size, cost, policy
\* and radix tree.
LEMMA RemoveInv ==
  ASSUME CacheInv, Observe, NEW a \in Actors, NEW o \in {"Remove", "Expire"}, Doing(a, o),
         NEW j, j = Head(todo[a]).key, j \in DOMAIN store, NEW c, c = store[j].cost,
         Then(a, <<Step("Size", j, -1, 0), Step("Cost", j, -c, 0),
                   Step("PolicyDel", j, 0, 0), Step("RadixDelete", j, 0, 0)>>),
         store' = Without(store, {j}),
         UNCHANGED <<size, liveCost, tracked, radix, wheel, clearMu, frame>>
  PROVE  CacheInv'
<1> DEFINE h == Head(todo[a])
           s1 == Step("Size", j, -1, 0)
           s2 == Step("Cost", j, -c, 0)
           s3 == Step("PolicyDel", j, 0, 0)
           s4 == Step("RadixDelete", j, 0, 0)
           steps == <<s1, s2, s3, s4>>
<1>1. /\ ~Idle(a) /\ h.op = o /\ h.op # "Push" /\ j \in Keys /\ c \in Nat
      /\ Zone(h) = 3 /\ h.op \notin ClearCalls /\ Then(a, steps)
  <2>1. ~Idle(a) /\ h.op = o /\ j \in Keys /\ c \in Nat
    BY StructTypes DEF Doing, StructType, Entries
  <2>2. Zone(h) = 3 /\ h.op \notin ClearCalls /\ h.op # "Push"
    BY <2>1 DEF Zone, Small, ClearCalls, ClearSteps, ClearOps
  <2> QED BY <2>1, <2>2
<1>2. /\ {s1, s2, s3, s4} \subseteq PlainSteps
      /\ s1.op = "Size" /\ s2.op = "Cost" /\ s3.op = "PolicyDel" /\ s4.op = "RadixDelete"
      /\ s3.key = j /\ s4.key = j /\ s1.key = j /\ s2.key = j
  <2>1. -c \in Int /\ -1 \in Int
    BY <1>1
  <2> QED BY <1>1, <2>1, PlainStep, StepFields DEF Ops, ClearOps
<1> HIDE DEF s1, s2, s3, s4
<1>3. steps \in Seq(PlainSteps) /\ ToSet(steps) = {s1, s2, s3, s4}
  BY <1>2, ElementsOfQuadruple
<1> HIDE DEF steps
<1>4. Section(a, steps)
  <2>1. \A s \in ToSet(steps) : s.op \in Small
    BY <1>2, <1>3 DEF Small
  <2>2. Fits(h, steps)
    BY <1>1, <1>3, <2>1, SmallFits
  <2> QED BY <1>1, <1>3, <2>2, StructTypes DEF Section
<1>5. DOMAIN store' = DOMAIN store \ {j} /\ \A k \in DOMAIN store' : store'[k] = store[k]
  BY DEF Without
<1>6. ASSUME NEW k \in Keys \ raced' PROVE KeyInv(k)'
  <2>1. CASE k = j
    <3>1. Duties(k) = {} /\ Duties(k)' = DutyIn(steps, k) /\ KeyInv(k)
      BY <1>1, <1>4, <2>1, DutyBegin
    <3>2. Duties(k)' = {s3, s4}
      BY <1>2, <1>3, <2>1, <3>1 DEF DutyIn, DutyOps
    <3>3. \A s \in {s3, s4} : Meets(s, k)'
      BY <1>2, <1>5, <2>1 DEF Meets
    <3> QED BY <1>2, <1>5, <2>1, <3>2, <3>3 DEF KeyInv, Settled
  <2>2. CASE k # j
    <3>1. DutyIn(<<h>>, k) = {}
      <4>1. ToSet(<<h>>) = {h}  BY ElementsOfTuple
      <4> QED BY <1>1, <4>1 DEF DutyIn, DutyOps
    <3>2. DutyIn(steps, k) = {}
      BY <1>1, <1>2, <1>3, <2>2, CacheAssumption DEF DutyIn
    <3>3. Duties(k)' = Duties(k) /\ KeyInv(k)
      BY <1>4, <3>1, <3>2, DutySame
    <3>4. /\ k \in DOMAIN store' <=> k \in DOMAIN store
          /\ k \in DOMAIN store => store'[k].cost = store[k].cost
      BY <1>5, <2>2
    <3> QED BY <3>3, <3>4, KeyQuiet
  <2> QED BY <2>1, <2>2
<1>7. StructType'
  BY <1>5, StructTypes DEF StructType
<1> QED BY <1>4, <1>6, <1>7, SectionInv

LEMMA DoDeleteInv ==
  ASSUME CacheInv, Observe, NEW a \in Actors, DoDelete(a)
  PROVE  CacheInv'
<1> DEFINE k == Head(todo[a]).key
<1>1. CASE k \in DOMAIN store
  BY <1>1, RemoveInv DEF DoDelete
<1>2. CASE k \notin DOMAIN store
  <2>1. /\ Doing(a, "Remove") /\ Then(a, <<>>)
        /\ UNCHANGED <<size, liveCost, tracked, radix, wheel, clearMu, frame>>
    BY <1>2 DEF DoDelete
  <2>2. DOMAIN store' = DOMAIN store /\ \A j \in DOMAIN store : store'[j] = store[j]
    BY <1>2 DEF DoDelete, Without
  <2>3. StructType'
    BY <2>1, <2>2, StructTypes DEF StructType
  <2> QED BY <2>1, <2>2, <2>3, StructTypes, DropInv DEF DutyOps
<1> QED BY <1>1, <1>2

LEMMA ExpireInv ==
  ASSUME CacheInv, Observe, Expire
  PROVE  CacheInv'
<1> DEFINE s == Head(todo[Worker])
<1>0. Worker \in Actors
  BY DEF Actors
<1>1. CASE Expired(s)
  <2>1. s.key \in DOMAIN store
    BY <1>1 DEF Expired
  <2> QED BY <1>0, <1>1, <2>1, RemoveInv DEF Expire
<1>2. CASE ~Expired(s)
  <2>1. /\ Doing(Worker, "Expire") /\ Then(Worker, <<>>)
        /\ UNCHANGED <<store, size, liveCost, tracked, radix, wheel, clearMu, frame>>
    BY <1>2 DEF Expire
  <2>2. StructType'
    BY <2>1, StructTypes DEF StructType
  <2> QED BY <1>0, <2>1, <2>2, StructTypes, DropInv DEF DutyOps
<1> QED BY <1>1, <1>2

\* evictVictim removes the entry of a key that the policy has dropped.
LEMMA EvictInv ==
  ASSUME CacheInv, Observe, NEW a \in Actors, Evict(a)
  PROVE  CacheInv'
<1> DEFINE h == Head(todo[a])
           c == store[h.key].cost
           s1 == Step("Size", h.key, -1, 0)
           s2 == Step("Cost", h.key, -c, 0)
           s3 == Step("RadixDelete", h.key, 0, 0)
           steps == IF h.key \in DOMAIN store THEN <<s1, s2, s3>> ELSE <<>>
<1>1. /\ ~Idle(a) /\ h.op = "Evict" /\ Then(a, steps)
      /\ DOMAIN store' = DOMAIN store \ {h.key} /\ \A k \in DOMAIN store' : store'[k] = store[k]
      /\ UNCHANGED <<size, liveCost, tracked, radix, wheel, clearMu, frame>>
  BY DEF Evict, Doing, Without
<1>2. h.key \in Keys /\ h \in ToSet(todo[a])
  <2>1. h \in PlainSteps /\ h \in ToSet(todo[a])
    BY <1>1, PlainCall DEF CacheInv
  <2> QED BY <1>1, <2>1 DEF PlainSteps, KeyOps
<1>3. Zone(h) = 2 /\ h.op \notin ClearCalls /\ h.op \in DutyOps
  BY <1>1 DEF Zone, Small, ClearCalls, ClearSteps, ClearOps, DutyOps
<1>4. /\ s1.op = "Size" /\ s2.op = "Cost" /\ s3.op = "RadixDelete"
      /\ s1.key = h.key /\ s2.key = h.key /\ s3.key = h.key
  BY StepFields
<1>5. /\ steps \in Seq(PlainSteps)
      /\ ToSet(steps) = IF h.key \in DOMAIN store THEN {s1, s2, s3} ELSE {}
  <2>1. CASE h.key \in DOMAIN store
    <3>1. c \in Nat /\ -c \in Int /\ -1 \in Int
      BY <2>1, StructTypes DEF StructType, Entries
    <3> HIDE DEF c
    <3>2. s1 \in PlainSteps /\ s2 \in PlainSteps /\ s3 \in PlainSteps
      BY <1>2, <3>1, PlainStep DEF Ops, ClearOps
    <3> HIDE DEF s1, s2, s3
    <3> QED BY <2>1, <3>2, ElementsOfTriple
  <2>2. CASE h.key \notin DOMAIN store
    <3>1. steps = <<>>
      BY <2>2
    <3> HIDE DEF steps
    <3> QED BY <2>2, <3>1, EmptySeq, ElementsOfTuple
  <2> QED BY <2>1, <2>2
<1> HIDE DEF s1, s2, s3, steps
<1>6. Section(a, steps)
  <2>1. \A s \in ToSet(steps) : s.op \in Small /\ s.op \notin {"PolicyDel", "PolicyUpdate"}
    BY <1>4, <1>5 DEF Small
  <2>2. Fits(h, steps)
    BY <1>3, <1>5, <2>1, SmallFits
  <2> QED BY <1>1, <1>5, <2>2, StructTypes DEF Section
<1>7. ASSUME NEW k \in Keys \ raced' PROVE KeyInv(k)'
  <2>1. CASE k = h.key
    <3>1. /\ Duties(k) = DutyIn(<<h>>, k) \cup Rest(a, k) \cup Others(a, k)
          /\ Duties(k)' = DutyIn(steps, k) \cup Rest(a, k) \cup Others(a, k)
          /\ \A s \in Rest(a, k) : s \in ToSet(todo[a]) /\ s.op \in DutyOps
          /\ Others(a, k) = {} /\ KeyInv(k)
      BY <1>6, <2>1, DutyStep
    <3>2. DutyIn(<<h>>, k) = {h}
      <4>1. ToSet(<<h>>) = {h}  BY ElementsOfTuple
      <4> QED BY <1>3, <2>1, <4>1 DEF DutyIn
    <3>3. DutyIn(steps, k) = IF k \in DOMAIN store THEN {s3} ELSE {}
      BY <1>4, <1>5, <2>1 DEF DutyIn, DutyOps
    <3>p. PICK D, E, F : D = Duties(k) /\ E = Duties(k)' /\ F = Rest(a, k)
      OBVIOUS
    <3>4. Settled(D, k) /\ D = {h} \cup F
      BY <3>1, <3>2, <3>p DEF KeyInv
    <3>5. k \notin DOMAIN tracked /\ k \notin DOMAIN store'
      BY <1>1, <2>1, <3>4 DEF Settled, Meets
    <3>6. \A s \in E : Meets(s, k)'
      <4>1. \A s \in F : Meets(s, k)
        BY <3>4 DEF Settled
      <4>2. \A s \in F : s.op \notin {"PolicyUpdate", "Put", "ClearShard"}
        <5>1. \A s \in F : s.op # "ClearShard"
          BY <1>2, <1>3, <3>1, <3>p, StructTypes DEF OrderInv, ClearSteps
        <5> QED BY <3>5, <4>1, <5>1 DEF Meets
      <4>3. \A s \in F : s.op # "RadixInsert" \/ k \in DOMAIN store
        BY <4>1 DEF Meets
      <4>4. \A s \in F : s.op # "RadixInsert"
        <5>1. \A s \in F : Zone(s) >= 2
          BY <1>3, <1>6, <3>p, DutyStep
        <5> QED BY <5>1 DEF Zone, Small
      <4>5. E \subseteq F \cup {s3}
        BY <3>1, <3>3, <3>p
      <4>6. \A s \in F \cup {s3} : s.op \notin {"PolicyUpdate", "Put", "RadixInsert"}
        BY <1>4, <4>2, <4>4
      <4> QED BY <1>1, <3>5, <4>5, <4>6 DEF Meets
    <3>7. PolicyAgrees(k)'
      BY <1>1, <3>5 DEF PolicyAgrees
    <3>8. RadixAgrees(k)' \/ \E s \in E : s.op \in {"RadixInsert", "RadixDelete", "ClearRadix"}
      <4>1. CASE k \in DOMAIN store
        BY <1>4, <3>1, <3>3, <3>p, <4>1
      <4>2. CASE k \notin DOMAIN store
        <5>1. RadixAgrees(k)' <=> RadixAgrees(k)
          BY <1>1, <3>5, <4>2 DEF RadixAgrees
        <5>2. E = F
          BY <3>1, <3>3, <3>p, <4>2
        <5> QED BY <1>1, <3>4, <5>1, <5>2 DEF Settled
      <4> QED BY <4>1, <4>2
    <3>9. \A s \in E : s.op # "ClearShard"
      <4>1. \A s \in F : s.op # "ClearShard"
        BY <1>2, <1>3, <3>1, <3>p, StructTypes DEF OrderInv, ClearSteps
      <4> QED BY <1>4, <3>1, <3>3, <3>p, <4>1
    <3>10. Settled(E, k)'
      BY <3>5, <3>6, <3>7, <3>8, <3>9 DEF Settled
    <3> QED BY <3>10, <3>p, KeyInvNext
  <2>2. CASE k # h.key
    <3>1. DutyIn(<<h>>, k) = {}
      <4>1. ToSet(<<h>>) = {h}  BY ElementsOfTuple
      <4> QED BY <1>2, <2>2, <4>1, CacheAssumption DEF DutyIn
    <3>2. DutyIn(steps, k) = {}
      BY <1>2, <1>4, <1>5, <2>2, CacheAssumption DEF DutyIn
    <3>3. Duties(k)' = Duties(k) /\ KeyInv(k)
      BY <1>6, <3>1, <3>2, DutySame
    <3>4. /\ k \in DOMAIN store' <=> k \in DOMAIN store
          /\ k \in DOMAIN store => store'[k].cost = store[k].cost
      BY <1>1, <2>2
    <3> QED BY <1>1, <3>3, <3>4, KeyQuiet
  <2> QED BY <2>1, <2>2
<1>8. StructType'
  BY <1>1, StructTypes DEF StructType
<1> QED BY <1>6, <1>7, <1>8, SectionInv

\* doSet stores the entry.
LEMMA PutInv ==
  ASSUME CacheInv, Observe, NEW a \in Actors, Put(a)
  PROVE  CacheInv'
<1> DEFINE h == Head(todo[a])
           s1 == Step("Size", h.key, 1, 0)
           s2 == Step("Cost", h.key, h.n, 0)
           s3 == Step("RadixInsert", h.key, 0, 0)
           p1 == IF h.key \in DOMAIN store THEN <<>> ELSE <<s1>>
           p2 == <<s2>>
           p3 == ScheduleIfTTL(h.key, h.exp)
           p4 == <<s3>>
           steps == p1 \o p2 \o p3 \o p4
<1>1. /\ ~Idle(a) /\ h.op = "Put" /\ Then(a, steps)
      /\ store' = With(store, h.key, [cost |-> h.n, exp |-> h.exp])
      /\ UNCHANGED <<size, liveCost, tracked, radix, wheel, clearMu, frame>>
  BY DEF Put, Doing
<1>2. /\ DOMAIN store' = DOMAIN store \cup {h.key}
      /\ store'[h.key] = [cost |-> h.n, exp |-> h.exp] /\ store'[h.key].cost = h.n
      /\ \A k \in DOMAIN store' : k # h.key => store'[k] = store[k]
  BY <1>1 DEF With
<1>3. h.key \in Keys /\ h.n \in Costs /\ h.n \in Int /\ h.exp \in Nat /\ h \in ToSet(todo[a])
  <2>1. h \in PlainSteps /\ h \in ToSet(todo[a])
    BY <1>1, PlainCall DEF CacheInv
  <2> QED BY <1>1, <2>1, StructTypes DEF PlainSteps, Steps, KeyOps
<1>4. Zone(h) = 2 /\ h.op \notin ClearCalls /\ h.op \in DutyOps
  BY <1>1 DEF Zone, Small, ClearCalls, ClearSteps, ClearOps, DutyOps
<1>5. /\ s1.op = "Size" /\ s2.op = "Cost" /\ s3.op = "RadixInsert"
      /\ s1.key = h.key /\ s2.key = h.key /\ s3.key = h.key
      /\ {s1, s2, s3} \subseteq PlainSteps
  BY <1>3, StepFields, PlainStep DEF Ops, ClearOps
<1> HIDE DEF s1, s2, s3
<1>6. /\ p1 \in Seq(PlainSteps) /\ ToSet(p1) \subseteq {s1}
      /\ p2 \in Seq(PlainSteps) /\ ToSet(p2) = {s2}
      /\ p3 \in Seq(PlainSteps) /\ \A s \in ToSet(p3) : s.op = "Schedule"
      /\ p4 \in Seq(PlainSteps) /\ ToSet(p4) = {s3}
  <2>1. p1 \in Seq(PlainSteps) /\ ToSet(p1) \subseteq {s1}
    <3>1. CASE h.key \in DOMAIN store
      <4>1. p1 = <<>>  BY <3>1
      <4> HIDE DEF p1
      <4> QED BY <4>1, EmptySeq, ElementsOfTuple
    <3>2. CASE h.key \notin DOMAIN store
      BY <1>5, <3>2, ElementsOfTuple
    <3> QED BY <3>1, <3>2
  <2>2. p3 \in Seq(PlainSteps) /\ \A s \in ToSet(p3) : s.op = "Schedule"
    BY <1>3, SchedulePart
  <2>3. p2 \in Seq(PlainSteps) /\ ToSet(p2) = {s2}
    BY <1>5, ElementsOfTuple
  <2>4. p4 \in Seq(PlainSteps) /\ ToSet(p4) = {s3}
    BY <1>5, ElementsOfTuple
  <2> HIDE DEF p1, p2, p3, p4
  <2> QED BY <2>1, <2>2, <2>3, <2>4
<1> HIDE DEF p1, p2, p3, p4
<1>7. /\ steps \in Seq(PlainSteps)
      /\ ToSet(steps) = ToSet(p1) \cup ToSet(p2) \cup ToSet(p3) \cup ToSet(p4)
  <2>1. p1 \o p2 \in Seq(PlainSteps) /\ ToSet(p1 \o p2) = ToSet(p1) \cup ToSet(p2)
    BY <1>6, ElementsOfConcat
  <2>2. PICK q : q = p1 \o p2
    OBVIOUS
  <2>3. q \in Seq(PlainSteps) /\ ToSet(q) = ToSet(p1) \cup ToSet(p2)
    BY <2>1, <2>2
  <2>4. q \o p3 \in Seq(PlainSteps) /\ ToSet(q \o p3) = ToSet(q) \cup ToSet(p3)
    BY <1>6, <2>3, ElementsOfConcat
  <2>5. PICK r : r = q \o p3
    OBVIOUS
  <2>6. r \in Seq(PlainSteps) /\ ToSet(r) = ToSet(q) \cup ToSet(p3)
    BY <2>4, <2>5
  <2>7. r \o p4 \in Seq(PlainSteps) /\ ToSet(r \o p4) = ToSet(r) \cup ToSet(p4)
    BY <1>6, <2>6, ElementsOfConcat
  <2>8. steps = r \o p4
    BY <2>2, <2>5
  <2> QED BY <2>3, <2>6, <2>7, <2>8
<1>8. Then(a, steps)
  BY <1>1 DEF p1, p2, p3, p4
<1> HIDE DEF steps
<1>9. s3 \in ToSet(steps) /\ \A s \in ToSet(steps) : s = s3 \/ s.op \in {"Size", "Cost", "Schedule"}
  BY <1>5, <1>6, <1>7
<1>10. Section(a, steps)
  <2>1. \A s \in ToSet(steps) : s.op \in Small /\ s.op \notin {"PolicyDel", "PolicyUpdate"}
    BY <1>5, <1>9 DEF Small
  <2>2. Fits(h, steps)
    BY <1>4, <1>7, <2>1, SmallFits
  <2> QED BY <1>1, <1>7, <1>8, <2>2, StructTypes DEF Section
<1>11. ASSUME NEW k \in Keys \ raced' PROVE KeyInv(k)'
  <2>1. CASE k = h.key
    <3>1. /\ Duties(k) = DutyIn(<<h>>, k) \cup Rest(a, k) \cup Others(a, k)
          /\ Duties(k)' = DutyIn(steps, k) \cup Rest(a, k) \cup Others(a, k)
          /\ \A s \in Rest(a, k) : s \in ToSet(todo[a]) /\ s.op \in DutyOps
          /\ Others(a, k) = {} /\ KeyInv(k)
      BY <1>10, <2>1, DutyStep
    <3>2. DutyIn(<<h>>, k) = {h}
      <4>1. ToSet(<<h>>) = {h}  BY ElementsOfTuple
      <4> QED BY <1>4, <2>1, <4>1 DEF DutyIn
    <3>3. DutyIn(steps, k) = {s3}
      BY <1>5, <1>9, <2>1 DEF DutyIn, DutyOps
    <3>p. PICK D, E, F, i : D = Duties(k) /\ E = Duties(k)' /\ F = Rest(a, k) /\ i = s3
      OBVIOUS
    <3>4. Settled(D, k) /\ D = {h} \cup F /\ E = {i} \cup F /\ i.op = "RadixInsert"
      BY <1>5, <3>1, <3>2, <3>3, <3>p DEF KeyInv
    <3>5. k \in DOMAIN tracked /\ tracked[k] = h.n
      BY <1>1, <3>4 DEF Settled, Meets
    <3>6. \A s \in F : s.op = "Put"
      <4>1. \A s \in F : Meets(s, k)
        BY <3>4 DEF Settled
      <4>2. \A s \in F : s.op # "Evict"
        BY <3>5, <4>1 DEF Meets
      <4>3. \A s \in F : s.op \notin ClearSteps
        BY <1>3, <1>4, <3>1, <3>p, StructTypes DEF OrderInv
      <4>4. \A s \in F : s.op \notin Small
        <5>1. \A s \in F : Zone(s) >= 2
          BY <1>4, <1>10, <3>p, DutyStep
        <5> QED BY <5>1 DEF Zone, Small
      <4>5. \A s \in F : s.op \in DutyOps
        BY <3>1, <3>p
      <4> QED BY <4>2, <4>3, <4>4, <4>5 DEF DutyOps, ClearSteps, ClearOps, Small
    <3>7. \A s \in F : Meets(s, k)'
      <4>1. \A s \in F : Meets(s, k)
        BY <3>4 DEF Settled
      <4> QED BY <1>1, <3>6, <4>1 DEF Meets
    <3>8. Meets(i, k)'
      BY <1>2, <2>1, <3>4 DEF Meets
    <3>9. PolicyAgrees(k)'
      BY <1>1, <1>2, <2>1, <3>5 DEF PolicyAgrees
    <3>10. Settled(E, k)'
      BY <3>4, <3>6, <3>7, <3>8, <3>9 DEF Settled
    <3> QED BY <3>10, <3>p, KeyInvNext
  <2>2. CASE k # h.key
    <3>1. DutyIn(<<h>>, k) = {}
      <4>1. ToSet(<<h>>) = {h}  BY ElementsOfTuple
      <4> QED BY <1>3, <2>2, <4>1, CacheAssumption DEF DutyIn
    <3>2. DutyIn(steps, k) = {}
      BY <1>3, <1>5, <1>9, <2>2, CacheAssumption DEF DutyIn, DutyOps
    <3>3. Duties(k)' = Duties(k) /\ KeyInv(k)
      BY <1>10, <3>1, <3>2, DutySame
    <3>4. /\ k \in DOMAIN store' <=> k \in DOMAIN store
          /\ k \in DOMAIN store => store'[k].cost = store[k].cost
      BY <1>2, <2>2
    <3> QED BY <1>1, <3>3, <3>4, KeyQuiet
  <2> QED BY <2>1, <2>2
<1>12. StructType'
  <2>1. [cost |-> h.n, exp |-> h.exp] \in Entries
    BY <1>3 DEF Entries
  <2> QED BY <1>1, <1>2, <1>3, <2>1, StructTypes DEF StructType
<1> QED BY <1>10, <1>11, <1>12, SectionInv

\* Advance hands over events that were due when the worker read the clock.
LEMMA AdvanceInv ==
  ASSUME CacheInv, Observe, Advance
  PROVE  CacheInv'
<1> DEFINE h == Head(todo[Worker])
           t == h.n
<1>0. Worker \in Actors
  BY DEF Actors
<1>1. /\ ~Idle(Worker) /\ h.op = "Advance"
      /\ UNCHANGED <<store, size, liveCost, tracked, radix, clearMu, frame>>
  BY DEF Advance, Doing
<1>2. PICK due \in SUBSET {e \in wheel : e.exp <= t} : \E order \in SetToSeqs(due) :
        /\ wheel' = wheel \ due
        /\ Then(Worker, [i \in DOMAIN order |-> Step("Expire", order[i].key, t, order[i].exp)])
  BY DEF Advance
<1>3. PICK order \in SetToSeqs(due) :
        /\ wheel' = wheel \ due
        /\ Then(Worker, [i \in DOMAIN order |-> Step("Expire", order[i].key, t, order[i].exp)])
  BY <1>2
<1> DEFINE steps == [i \in DOMAIN order |-> Step("Expire", order[i].key, t, order[i].exp)]
<1>4. h \in PlainSteps /\ t \in Int /\ t <= now
  <2>1. h \in PlainSteps
    BY <1>0, <1>1, PlainCall DEF CacheInv
  <2> QED BY <1>1, <2>1 DEF PlainSteps, Steps
<1>5. /\ IsFiniteSet(wheel) /\ wheel \subseteq Events /\ IsFiniteSet(due) /\ due \subseteq Events
      /\ IsFiniteSet(wheel')
  <2>1. IsFiniteSet(wheel) /\ wheel \subseteq Events
    BY StructTypes DEF StructType
  <2>2. due \subseteq wheel
    OBVIOUS
  <2>3. wheel' \subseteq wheel
    BY <1>3
  <2> QED BY <2>1, <2>2, <2>3, FS_Subset
<1>6. /\ DOMAIN order = 1 .. Len(order) /\ Len(order) \in Nat
      /\ \A i \in DOMAIN order : order[i] \in due
  <2>1. order \in Seq(due) /\ DOMAIN order = 1 .. Len(order) /\ \A i \in DOMAIN order : order[i] \in due
    BY <1>5, ListOfSet
  <2> QED BY <2>1, LenProperties
<1> HIDE DEF h, t
<1>7. \A i \in DOMAIN order : /\ steps[i] \in PlainSteps /\ steps[i].op = "Expire"
  <2> SUFFICES ASSUME NEW i \in DOMAIN order
               PROVE  steps[i] \in PlainSteps /\ steps[i].op = "Expire"
    OBVIOUS
  <2>1. order[i].key \in Keys /\ order[i].exp \in Nat /\ order[i].exp > 0
    BY <1>5, <1>6 DEF Events
  <2>2. steps[i] = Step("Expire", order[i].key, t, order[i].exp)
    OBVIOUS
  <2>3. Step("Expire", order[i].key, t, order[i].exp) \in PlainSteps
    BY <1>4, <2>1, PlainStep DEF Ops, ClearOps
  <2> QED BY <2>2, <2>3, StepFields
<1>8. steps \in Seq(PlainSteps) /\ \A s \in ToSet(steps) : s.op = "Expire"
  <2>1. steps \in [1 .. Len(order) -> PlainSteps]
    BY <1>6, <1>7
  <2>2. \A s \in ToSet(steps) : s.op = "Expire"
    BY <1>7 DEF ToSet
  <2> HIDE DEF steps
  <2> QED BY <1>6, <2>1, <2>2
<1>9. Then(Worker, steps)
  BY <1>3
<1> HIDE DEF steps
<1>10. Section(Worker, steps)
  <2>1. /\ Zone(h) = 3 /\ h.op \notin ClearCalls /\ h.op # "Push"
    BY <1>1 DEF Zone, Small, ClearCalls, ClearSteps, ClearOps
  <2>2. \A s \in ToSet(steps) : Zone(s) = 3
    BY <1>8 DEF Zone, Small
  <2>3. Sorted(steps)
    BY <1>8, <2>2, SortedUniform
  <2>4. \A s \in ToSet(steps) : s.op \notin ClearSteps
    BY <1>8 DEF ClearSteps, ClearOps
  <2>5. Fits(h, steps)
    BY <1>8, <2>1, <2>2, <2>3, <2>4 DEF Fits
  <2> QED BY <1>1, <1>5, <1>8, <1>9, <2>1, <2>5 DEF Section, h
<1>11. ASSUME NEW k \in Keys \ raced' PROVE KeyInv(k)'
  <2>1. DutyIn(<<h>>, k) = {}
    <3>1. ToSet(<<h>>) = {h}  BY ElementsOfTuple
    <3> QED BY <1>1, <3>1 DEF DutyIn, DutyOps
  <2>2. DutyIn(steps, k) = {}
    BY <1>8 DEF DutyIn, DutyOps
  <2>3. Duties(k)' = Duties(k) /\ KeyInv(k)
    BY <1>0, <1>10, <2>1, <2>2, DutySame DEF h
  <2> QED BY <1>1, <2>3, KeyQuiet
<1>12. StructType'
  <2>1. wheel' \subseteq Events
    BY <1>3, <1>5
  <2> QED BY <1>1, <2>1, StructTypes DEF StructType
<1> QED BY <1>0, <1>10, <1>11, <1>12, SectionInv

\* removeExpired takes clearMu and reads the clock.
LEMMA ExpireLockInv ==
  ASSUME CacheInv, Observe, ExpireLock
  PROVE  CacheInv'
<1> DEFINE h == Head(todo[Worker])
           s1 == Step("Advance", NoKey, now, 0)
           s2 == Step("Unlock", NoKey, 0, 0)
           steps == <<s1, s2>>
<1>0. Worker \in Actors
  BY DEF Actors
<1>1. /\ ~Idle(Worker) /\ h.op = "ExpireLock" /\ Then(Worker, steps)
      /\ clearMu' = {Worker} /\ UNCHANGED <<shared, frame>>
  BY DEF ExpireLock, Doing, Lock
<1>2. now \in Int
  BY DEF CacheInv, TypeOK
<1>3. /\ s1 \in PlainSteps /\ s1.op = "Advance"
      /\ s2 \in PlainSteps /\ s2.op = "Unlock"
  <2>1. s1.op = "Advance" /\ s1.n = now /\ s1.key = NoKey /\ s1 \in Steps
    BY <1>2, StepFields DEF Ops
  <2>2. s2.op = "Unlock" /\ s2 \in Steps
    BY StepFields DEF Ops
  <2> HIDE DEF s1, s2
  <2> QED BY <1>2, <2>1, <2>2 DEF PlainSteps, KeyOps, ClearOps
<1> HIDE DEF s1, s2
<1>4. steps \in Seq(PlainSteps) /\ ToSet(steps) = {s1, s2}
  BY <1>3, ElementsOfPair
<1> HIDE DEF steps
<1>5. Section(Worker, steps)
  <2>1. /\ Zone(h) = 3 /\ h.op \notin ClearCalls /\ h.op # "Push"
    BY <1>1 DEF Zone, Small, ClearCalls, ClearSteps, ClearOps
  <2>2. \A s \in ToSet(steps) : Zone(s) = 3 /\ s.op \notin ClearSteps
    BY <1>3, <1>4 DEF Zone, Small, ClearSteps, ClearOps
  <2>3. \A s \in ToSet(steps) : s.op \notin {"PolicyDel", "PolicyUpdate"}
    BY <1>3, <1>4
  <2>4. Sorted(steps)
    BY <1>4, <2>2, SortedUniform
  <2>5. Fits(h, steps)
    BY <2>1, <2>2, <2>3, <2>4 DEF Fits
  <2> QED BY <1>1, <1>4, <2>1, <2>5, StructTypes DEF Section, shared
<1>6. ASSUME NEW k \in Keys \ raced' PROVE KeyInv(k)'
  <2>1. DutyIn(<<h>>, k) = {}
    <3>1. ToSet(<<h>>) = {h}  BY ElementsOfTuple
    <3> QED BY <1>1, <3>1 DEF DutyIn, DutyOps
  <2>2. DutyIn(steps, k) = {}
    BY <1>3, <1>4 DEF DutyIn, DutyOps
  <2>3. Duties(k)' = Duties(k) /\ KeyInv(k)
    BY <1>0, <1>5, <2>1, <2>2, DutySame
  <2> QED BY <1>1, <2>3, KeyQuiet DEF shared
<1>7. StructType'
  <2>1. clearMu' \subseteq Actors /\ IsFiniteSet(clearMu') /\ Cardinality(clearMu') <= 1
    <3>1. \A x : IsFiniteSet({x}) /\ Cardinality({x}) = 1
      BY FS_Singleton
    <3>2. clearMu' = {Worker}
      BY <1>0, <1>1
    <3>3. IsFiniteSet(clearMu') /\ Cardinality(clearMu') = 1
      BY <3>1, <3>2
    <3>4. clearMu' \subseteq Actors
      BY <1>0, <3>2
    <3>5. 1 <= 1
      OBVIOUS
    <3> QED BY <3>3, <3>4, <3>5
  <2> QED BY <1>1, <2>1, StructTypes DEF StructType, shared
<1> QED BY <1>0, <1>5, <1>6, <1>7, SectionInv

\* Clear takes clearMu; it is to empty every shard and then every other
\* structure.
LEMMA ClearLockInv ==
  ASSUME CacheInv, Observe, NEW a \in Actors, ClearLock(a)
  PROVE  CacheInv'
<1> DEFINE h == Head(todo[a])
           op(i) == <<"ClearSize", "ClearPolicy", "ClearWheel", "ClearRadix", "ClearCost">>[i]
           p2 == [i \in 1 .. 5 |-> Step(op(i), AnyKey, 0, 0)]
           u == Step("Unlock", NoKey, 0, 0)
           p3 == <<u>>
<1>1. PICK order \in SetToSeqs(Keys) :
        Then(a, [i \in DOMAIN order |-> Step("ClearShard", order[i], 0, 0)] \o p2 \o p3)
  BY DEF ClearLock
<1>2. ~Idle(a) /\ h.op = "ClearLock" /\ clearMu' = {a} /\ UNCHANGED <<shared, frame>>
  BY DEF ClearLock, Doing, Lock
<1> DEFINE p1 == [i \in DOMAIN order |-> Step("ClearShard", order[i], 0, 0)]
           steps == p1 \o p2 \o p3
<1>3. p1 \in Seq(PlainSteps) /\ ToSet(p1) = {Step("ClearShard", k, 0, 0) : k \in Keys}
  <2>1. /\ order \in Seq(Keys) /\ ToSet(order) = Keys /\ DOMAIN order = 1 .. Len(order)
        /\ \A i \in DOMAIN order : order[i] \in Keys
    BY ListOfSet, CacheAssumption
  <2>2. \A k \in Keys : Step("ClearShard", k, 0, 0) \in PlainSteps
    BY PlainStep DEF Ops, ClearOps
  <2>3. p1 \in [1 .. Len(order) -> PlainSteps] /\ Len(order) \in Nat
    BY <2>1, <2>2, LenProperties
  <2>4. ToSet(p1) = {Step("ClearShard", k, 0, 0) : k \in Keys}
    BY <2>1 DEF ToSet
  <2> HIDE DEF p1
  <2> QED BY <2>3, <2>4
<1>4. /\ p2 \in Seq(PlainSteps) /\ \A s \in ToSet(p2) : s.op \in ClearOps
      /\ p2[2] \in ToSet(p2) /\ p2[2].op = "ClearPolicy" /\ p2[2].key = AnyKey
      /\ p2[4] \in ToSet(p2) /\ p2[4].op = "ClearRadix" /\ p2[4].key = AnyKey
  <2>1. \A i \in 1 .. 5 : op(i) \in ClearOps
    BY DEF ClearOps
  <2>2. op(2) = "ClearPolicy" /\ op(4) = "ClearRadix"
    OBVIOUS
  <2> HIDE DEF op
  <2>3. \A i \in 1 .. 5 : p2[i] = Step(op(i), AnyKey, 0, 0)
    OBVIOUS
  <2>4. DOMAIN p2 = 1 .. 5
    OBVIOUS
  <2>5. \A o \in ClearOps : /\ Step(o, AnyKey, 0, 0) \in PlainSteps
                          /\ Step(o, AnyKey, 0, 0).op = o /\ Step(o, AnyKey, 0, 0).key = AnyKey
    <3> SUFFICES ASSUME NEW o \in ClearOps
                 PROVE  /\ Step(o, AnyKey, 0, 0) \in PlainSteps
                        /\ Step(o, AnyKey, 0, 0).op = o /\ Step(o, AnyKey, 0, 0).key = AnyKey
      OBVIOUS
    <3>1. Step(o, AnyKey, 0, 0).op = o /\ Step(o, AnyKey, 0, 0).key = AnyKey
      BY StepFields
    <3>2. Step(o, AnyKey, 0, 0) \in Steps
      BY DEF Step, Steps, Ops, ClearOps
    <3> QED BY <3>1, <3>2 DEF PlainSteps, ClearOps, KeyOps
  <2>6. p2 \in [1 .. 5 -> PlainSteps]
    BY <2>1, <2>3, <2>4, <2>5
  <2>7. \A i \in 1 .. 5 : p2[i] \in ToSet(p2) /\ p2[i].op = op(i) /\ p2[i].key = AnyKey
    BY <2>1, <2>3, <2>4, <2>5 DEF ToSet
  <2>8. \A s \in ToSet(p2) : s.op \in ClearOps
    BY <2>1, <2>4, <2>7 DEF ToSet
  <2>9. 2 \in 1 .. 5 /\ 4 \in 1 .. 5
    OBVIOUS
  <2> HIDE DEF p2
  <2>10. p2 \in Seq(PlainSteps)
    <3>1. \A n \in Nat : \A f \in [1 .. n -> PlainSteps] : f \in Seq(PlainSteps)
      OBVIOUS
    <3> QED BY <2>6, <3>1
  <2> QED BY <2>2, <2>7, <2>8, <2>9, <2>10
<1>5. u \in PlainSteps /\ u.op = "Unlock"
  <2>1. u.op = "Unlock" /\ u \in Steps
    BY StepFields DEF Ops
  <2> HIDE DEF u
  <2> QED BY <2>1 DEF PlainSteps, KeyOps, ClearOps
<1> HIDE DEF u
<1>6. p3 \in Seq(PlainSteps) /\ ToSet(p3) = {u}
  BY <1>5, ElementsOfTuple
<1>7. Then(a, steps)
  BY <1>1
<1> HIDE DEF p1, p2, p3
<1>8. p2 \o p3 \in Seq(PlainSteps) /\ ToSet(p2 \o p3) = ToSet(p2) \cup {u}
  BY <1>4, <1>6, ElementsOfConcat
<1>9. PICK q : q = p2 \o p3
  OBVIOUS
<1>10. q \in Seq(PlainSteps) /\ ToSet(q) = ToSet(p2) \cup {u}
  BY <1>8, <1>9
<1>11. steps = p1 \o q
  BY <1>3, <1>4, <1>6, <1>9, ConcatAssociative
<1>12. steps \in Seq(PlainSteps) /\ ToSet(steps) = ToSet(p1) \cup ToSet(q)
  BY <1>3, <1>10, <1>11, ElementsOfConcat
<1>13. Sorted(steps)
  <2>1. \A s \in ToSet(p1) : Zone(s) = 0
    BY <1>3, StepFields DEF Zone
  <2>2. \A s \in ToSet(q) : Zone(s) = 3
    BY <1>4, <1>5, <1>10 DEF Zone, Small, ClearOps
  <2>3. Sorted(p1) /\ Sorted(q)
    BY <1>3, <1>10, <2>1, <2>2, SortedUniform
  <2>4. \A s \in ToSet(p1), t \in ToSet(q) : Zone(s) <= Zone(t)
    BY <2>1, <2>2
  <2> QED BY <1>3, <1>10, <1>11, <2>3, <2>4, SortedConcat
<1> HIDE DEF steps
<1>14. \A s \in ToSet(steps) : s.op \in {"ClearShard", "Unlock"} \cup ClearOps
  BY <1>3, <1>4, <1>5, <1>10, <1>12, StepFields
<1>15. Zone(h) = 3 /\ h.op \in ClearSteps /\ h.op # "Push"
  BY <1>2 DEF Zone, Small, ClearSteps
<1>16. Section(a, steps)
  <2>1. \A s \in ToSet(steps) : Zone(s) <= 3
    BY ZoneType
  <2>2. \A s \in ToSet(steps) : s.op \in ClearCalls /\ s.op \notin {"PolicyDel", "PolicyUpdate"}
    BY <1>14 DEF ClearCalls, ClearSteps, ClearOps
  <2>3. Fits(h, steps)
    BY <1>13, <1>15, <2>1, <2>2 DEF Fits
  <2> QED BY <1>2, <1>7, <1>12, <1>15, <2>3, StructTypes DEF Section, shared
<1>17. ASSUME NEW k \in Keys \ raced' PROVE KeyInv(k)'
  <2>1. PICK x : x = Step("ClearShard", k, 0, 0)
    OBVIOUS
  <2>2. x \in ToSet(steps) /\ x.op = "ClearShard" /\ x.key = k
    BY <1>3, <1>12, <2>1, StepFields
  <2>3. PICK y, z : y = p2[2] /\ z = p2[4]
    OBVIOUS
  <2>4. /\ y \in ToSet(steps) /\ y.op = "ClearPolicy" /\ y.key = AnyKey
        /\ z \in ToSet(steps) /\ z.op = "ClearRadix" /\ z.key = AnyKey
    BY <1>4, <1>10, <1>12, <2>3
  <2>5. {x, y, z} \subseteq DutyIn(steps, k)
    BY <2>2, <2>4 DEF DutyIn, DutyOps
  <2>6. /\ Duties(k)' = DutyIn(steps, k) \cup Rest(a, k) \cup Others(a, k)
        /\ \A s \in Rest(a, k) : Zone(s) >= 3 /\ s.op \in DutyOps
        /\ Others(a, k) = {}
    BY <1>15, <1>16, <2>5, DutyStep
  <2>7. PICK E : E = Duties(k)'
    OBVIOUS
  <2>8. \A s \in E : s.op \in {"ClearShard", "ClearPolicy", "ClearRadix"}
    <3>1. \A s \in DutyIn(steps, k) : s.op \in {"ClearShard", "ClearPolicy", "ClearRadix"}
      BY <1>14 DEF DutyIn, DutyOps, ClearOps
    <3>2. \A s \in Rest(a, k) : s.op \in {"ClearPolicy", "ClearRadix"}
      <4>1. \A s \in Rest(a, k) : Zone(s) = 3
        BY <2>6, ZoneType
      <4> QED BY <2>6, <4>1 DEF Zone, Small, DutyOps
    <3> QED BY <2>6, <2>7, <3>1, <3>2
  <2>9. \A s \in E : Meets(s, k)'
    BY <2>8 DEF Meets
  <2>10. {x, y, z} \subseteq E
    BY <2>5, <2>6, <2>7
  <2>11. Settled(E, k)'
    BY <2>2, <2>4, <2>9, <2>10 DEF Settled
  <2> QED BY <2>7, <2>11, KeyInvNext
<1>18. StructType'
  <2>1. clearMu' \subseteq Actors /\ IsFiniteSet(clearMu') /\ Cardinality(clearMu') <= 1
    <3>1. \A x : IsFiniteSet({x}) /\ Cardinality({x}) = 1
      BY FS_Singleton
    <3>2. clearMu' = {a}
      BY <1>2
    <3>3. IsFiniteSet(clearMu') /\ Cardinality(clearMu') = 1
      BY <3>1, <3>2
    <3>4. clearMu' \subseteq Actors
      BY <3>2
    <3>5. 1 <= 1
      OBVIOUS
    <3> QED BY <3>3, <3>4, <3>5
  <2> QED BY <1>2, <2>1, StructTypes DEF StructType, shared
<1> QED BY <1>16, <1>17, <1>18, SectionInv
-----------------------------------------------------------------------------
(* Calls, the buffer and the clock. *)

\* Types of the variables that a call sets.
LEMMA FrameTypes ==
  ASSUME CacheInv
  PROVE  FrameType /\ now \in 1 .. MaxNow
BY DEF CacheInv, TypeOK, FrameType

\* A call that begins, or moves between client and buffer, has no duty yet.
LEMMA CallStep ==
  ASSUME CacheInv, Observe, UNCHANGED <<shared, clearMu, now>>,
         NEW a \in Actors, NEW steps \in Seq(PlainSteps) \cup PushCalls,
         todo' = [todo EXCEPT ![a] = steps],
         \A k \in Keys : DutyIn(todo[a], k) = {},
         \A s \in ToSet(steps) : s.op \in FirstOps,
         \/ \A s \in ToSet(steps) : s.op # "ClearLock"
         \/ \A s \in ToSet(steps) : s.op \in {"Wait", "ClearLock"},
         FrameType', queue' \in Seq(WriteSteps), last' \in [Keys -> WriteSteps]
  PROVE  CacheInv'
<1>1. /\ todo' \in [Actors -> Seq(PlainSteps) \cup PushCalls]
      /\ \A b \in Actors : todo'[b] = IF b = a THEN steps ELSE todo[b]
  BY DEF CacheInv, CallInv
<1>2. CallInv'
  <2>1. IsFiniteSet(wheel')
    BY StructTypes DEF shared
  <2> QED BY <1>1, <2>1, SameClock DEF CallInv
<1>3. OrderInv'
  <2>1. \A s \in ToSet(steps) : Zone(s) = 3
    BY DEF Zone, Small, FirstOps
  <2>2. Sorted(steps)
    <3>1. steps \in Seq(Steps)
      BY CallType
    <3> QED BY <2>1, <3>1, SortedUniform
  <2>3. \A s \in ToSet(steps) :
          /\ s.op \notin {"PolicyDel", "PolicyUpdate"}
          /\ s.op \in ClearSteps => s.op = "ClearLock"
          /\ s.op \in {"Wait", "ClearLock"} => s.op \in ClearCalls
    BY DEF FirstOps, ClearCalls, ClearSteps, ClearOps
  <2>4. \A s, t \in ToSet(steps) :
          /\ s.op \in {"PolicyDel", "PolicyUpdate"} => t.op # "Put"
          /\ s.op \in ClearSteps => t.op \in ClearCalls
    BY <2>3
  <2> QED BY <1>1, <2>2, <2>4 DEF CacheInv, OrderInv
<1>4. AloneInv' /\ raced \subseteq raced' /\ raced' \subseteq Keys /\ clearRaced' \in BOOLEAN
  BY ObserveInv DEF CacheInv, TypeOK
<1>5. DutyInv'
  <2> SUFFICES ASSUME NEW k \in Keys \ raced' PROVE KeyInv(k)'
    BY DEF DutyInv
  <2>1. DutyIn(steps, k) = {}
    BY DEF DutyIn, DutyOps, FirstOps
  <2>2. \A b \in Actors : DutyIn(todo'[b], k) = DutyIn(todo[b], k)
    BY <1>1, <2>1
  <2>3. Duties(k)' = Duties(k)
    <3>1. Duties(k)' = UNION {DutyIn(todo'[b], k) : b \in Actors}
      BY DEF Duties, DutyIn, ToSet
    <3> QED BY <2>2, <3>1 DEF Duties
  <2>4. KeyInv(k)
    BY <1>4 DEF CacheInv, DutyInv
  <2> QED BY <2>3, <2>4, KeyQuiet DEF shared
<1>6. StructType'
  BY StructTypes DEF StructType, shared
<1>7. TypeOK'
  <2>1. \A b \in Actors : todo'[b] \in Seq(Steps)
    BY <1>1, CallType
  <2>2. queue' \in Seq(Steps) /\ \A k \in Keys : last'[k] \in Steps
    BY CallType
  <2>3. now' \in 1 .. MaxNow
    BY FrameTypes
  <2> QED BY <1>4, <1>6, <2>1, <2>2, <2>3 DEF TypeOK, StructType, FrameType
<1> QED BY <1>2, <1>3, <1>4, <1>5, <1>6, <1>7 DEF CacheInv

\* One more call fits the bound.
LEMMA CallCount ==
  ASSUME CacheInv, CallsLeft, calls' = calls + 1
  PROVE  calls' \in 0 .. MaxCalls
<1>1. calls \in Nat /\ rounds \in Nat /\ MaxCalls \in Nat
  BY FrameTypes, CacheAssumption DEF FrameType
<1> QED BY <1>1 DEF CallsLeft

\* An idle actor has no duty.
LEMMA IdleDuty ==
  ASSUME NEW a, Idle(a)
  PROVE  \A k \in Keys : DutyIn(todo[a], k) = {}
BY ElementsOfTuple DEF Idle, DutyIn

\* The first step of a Set or a Delete.
LEMMA WriteStep ==
  ASSUME CacheInv, NEW k \in Keys
  PROVE  /\ Step("Remove", k, 0, 0) \in WriteSteps
         /\ \A o \in Offers : Step("Peek", k, o.cost, IF o.ttl > 0 THEN now + o.ttl ELSE 0) \in WriteSteps
<1>1. Step("Remove", k, 0, 0) \in PlainSteps
  BY PlainStep DEF Ops, ClearOps
<1>2. ASSUME NEW o \in Offers
      PROVE  Step("Peek", k, o.cost, IF o.ttl > 0 THEN now + o.ttl ELSE 0) \in WriteSteps
  <2>1. o.cost \in Costs /\ o.cost \in Int /\ o.ttl \in Nat /\ now \in Nat
    BY CacheAssumption, FrameTypes DEF Costs
  <2> DEFINE x == IF o.ttl > 0 THEN now + o.ttl ELSE 0
  <2>2. x \in Nat
    BY <2>1
  <2> HIDE DEF x
  <2>3. Step("Peek", k, o.cost, x) \in PlainSteps
    BY <2>1, <2>2, PlainStep DEF Ops, ClearOps
  <2> QED BY <2>3, StepFields DEF WriteSteps, x
<1> QED BY <1>1, <1>2, StepFields DEF WriteSteps

\* SetWithCost and Delete.
LEMMA WriteInv ==
  ASSUME CacheInv, Observe, NEW a \in Actors, NEW w \in WriteSteps, Write(a, w)
  PROVE  CacheInv'
<1> DEFINE p == Step("Push", w.key, 0, 0)
           steps == IF buffered THEN <<p, w>> ELSE <<w>>
<1>1. /\ Idle(a) /\ CallsLeft /\ calls' = calls + 1 /\ todo' = [todo EXCEPT ![a] = steps]
      /\ last' = IF buffered THEN last ELSE [last EXCEPT ![w.key] = w]
      /\ UNCHANGED <<shared, clearMu, now, closed, stopped, buffer, rounds, overtaken>>
  BY DEF Write, Call
<1>2. w \in PlainSteps /\ w.key \in Keys /\ w.op \in {"Peek", "Remove"}
  BY DEF WriteSteps, PlainSteps, KeyOps
<1>3. steps \in Seq(PlainSteps) \cup PushCalls /\ \A s \in ToSet(steps) : s.op \in {"Push", "Peek", "Remove"}
  <2>1. CASE buffered
    <3>1. steps = <<p, w>>  BY <2>1
    <3>2. <<p, w>> \in PushCalls  BY DEF PushCalls
    <3>3. p.op = "Push"  BY StepFields
    <3> HIDE DEF p, steps
    <3>4. ToSet(steps) = {p, w}
      BY <3>1, ElementsOfPair
    <3> QED BY <1>2, <3>1, <3>2, <3>3, <3>4
  <2>2. CASE ~buffered
    <3>1. steps = <<w>>  BY <2>2
    <3> HIDE DEF steps
    <3> QED BY <1>2, <3>1, ElementsOfTuple
  <2> QED BY <2>1, <2>2
<1> HIDE DEF steps
<1>4. last' \in [Keys -> WriteSteps] /\ \A k \in Keys : last'[k].key = k
  BY <1>1, <1>2, StructTypes, FrameTypes DEF CallInv, FrameType
<1>5. queue' \in Seq(WriteSteps) /\ calls' \in 0 .. MaxCalls
  BY <1>1, StructTypes, CallCount DEF CallInv, buffer
<1>6. FrameType'
  BY <1>1, <1>4, <1>5, FrameTypes DEF FrameType, buffer
<1>7. UNCHANGED <<shared, clearMu, now>> /\ \A k \in Keys : DutyIn(todo[a], k) = {}
  BY <1>1, IdleDuty
<1> QED BY <1>1, <1>3, <1>4, <1>5, <1>6, <1>7, CallStep DEF FirstOps

\* Wait, Clear and Close.
LEMMA OtherCallInv ==
  ASSUME CacheInv, Observe, NEW a \in Actors, Wait(a) \/ Clear(a) \/ Close(a)
  PROVE  CacheInv'
<1> DEFINE w == Step("Wait", NoKey, 0, 0)
           c == Step("ClearLock", NoKey, 0, 0)
           b == Step("CloseBuffer", NoKey, 0, 0)
           g == Step("WgWait", NoKey, 0, 0)
<1>1. PICK steps \in {<<>>, <<w>>, <<c>>, <<w, c>>, <<b, g>>} : Call(a, steps)
  <2>1. CASE Wait(a)
    BY <2>1 DEF Wait
  <2>2. CASE Clear(a)
    <3>1. Call(a, (IF buffered THEN <<w>> ELSE <<>>) \o <<c>>)
      BY <2>2 DEF Clear
    <3> HIDE DEF w, c
    <3>2. <<w>> \o <<c>> = <<w, c>>
      BY PairConcat
    <3>3. <<>> \o <<c>> = <<c>>
      <4>1. <<c>> \in Seq({c})
        OBVIOUS
      <4> QED BY <4>1, ConcatEmptySeq
    <3> QED BY <3>1, <3>2, <3>3
  <2>3. CASE Close(a)
    BY <2>3 DEF Close
  <2> QED BY <2>1, <2>2, <2>3
<1>2. /\ {w, c, b, g} \subseteq PlainSteps
      /\ w.op = "Wait" /\ c.op = "ClearLock" /\ b.op = "CloseBuffer" /\ g.op = "WgWait"
  <2>1. \A o \in {"Wait", "ClearLock", "CloseBuffer", "WgWait"} :
          Step(o, NoKey, 0, 0) \in Steps /\ Step(o, NoKey, 0, 0).op = o
    BY StepFields DEF Ops
  <2>2. \A s \in Steps : s.op \in {"Wait", "ClearLock", "CloseBuffer", "WgWait"} => s \in PlainSteps
    BY DEF PlainSteps, KeyOps, ClearOps
  <2> QED BY <2>1, <2>2
<1> HIDE DEF w, c, b, g
<1>3. steps \in Seq(PlainSteps)
  <2>1. <<>> \in Seq(PlainSteps)  BY EmptySeq
  <2>2. {<<w>>, <<c>>, <<w, c>>, <<b, g>>} \subseteq Seq(PlainSteps)  BY <1>2
  <2> QED BY <2>1, <2>2
<1>4. /\ \A s \in ToSet(steps) : s.op \in {"Wait", "ClearLock", "CloseBuffer", "WgWait"}
      /\ \/ \A s \in ToSet(steps) : s.op # "ClearLock"
         \/ \A s \in ToSet(steps) : s.op \in {"Wait", "ClearLock"}
  <2>1. ToSet(<<>>) = {} /\ ToSet(<<w>>) = {w} /\ ToSet(<<c>>) = {c}
    BY ElementsOfTuple
  <2>2. ToSet(<<w, c>>) = {w, c} /\ ToSet(<<b, g>>) = {b, g}
    BY ElementsOfPair
  <2>3. steps = <<>> \/ steps = <<w>> \/ steps = <<c>> \/ steps = <<w, c>> \/ steps = <<b, g>>
    OBVIOUS
  <2>4. ToSet(steps) \in {{}, {w}, {c}, {w, c}, {b, g}}
    BY <2>1, <2>2, <2>3
  <2> QED BY <1>2, <2>4
<1>5. /\ Idle(a) /\ CallsLeft /\ calls' = calls + 1 /\ todo' = [todo EXCEPT ![a] = steps]
  BY <1>1 DEF Call
<1>6. UNCHANGED <<shared, clearMu, now, stopped, buffer, rounds, writes>> /\ closed' \in BOOLEAN
  BY FrameTypes DEF Wait, Clear, Close, FrameType
<1>7. /\ queue' \in Seq(WriteSteps) /\ calls' \in 0 .. MaxCalls
      /\ last' \in [Keys -> WriteSteps]
  BY <1>5, <1>6, StructTypes, CallCount DEF CallInv, buffer, writes
<1>8. FrameType'
  BY <1>6, <1>7, FrameTypes DEF FrameType, buffer, writes
<1>9. \A k \in Keys : DutyIn(todo[a], k) = {}
  BY <1>5, IdleDuty
<1> QED BY <1>3, <1>4, <1>5, <1>6, <1>7, <1>8, <1>9, CallStep DEF FirstOps

\* writeBuffer.Push takes the write, or leaves it to the caller.
LEMMA PushInv ==
  ASSUME CacheInv, Observe, NEW a \in Actors, Push(a)
  PROVE  CacheInv'
<1> DEFINE w == todo[a][2]
<1>1. /\ Doing(a, "Push") /\ todo[a] = <<Step("Push", w.key, 0, 0), w>>
      /\ w \in WriteSteps /\ Tail(todo[a]) = <<w>>
  BY PushCall, StructTypes DEF Push
<1>2. w \in PlainSteps /\ w.key \in Keys /\ w.op \in {"Peek", "Remove"}
  BY <1>1 DEF WriteSteps, PlainSteps, KeyOps
<1>3. /\ last' = [last EXCEPT ![w.key] = w]
      /\ UNCHANGED <<shared, clearMu, now, closed, stopped, buffered, flusherDone, calls, rounds>>
      /\ \/ /\ Len(queue) < QueueCap /\ queue' = Append(queue, w)
            /\ todo' = [todo EXCEPT ![a] = <<>>] /\ UNCHANGED overtaken
         \/ /\ Then(a, <<>>) /\ UNCHANGED queue
            /\ overtaken' = overtaken \cup ({q.key : q \in ToSet(queue)} \cap {w.key})
  BY DEF Push
<1>4. \A k \in Keys : DutyIn(todo[a], k) = {}
  <2>1. PICK p, r : p = Step("Push", w.key, 0, 0) /\ r = w
    OBVIOUS
  <2>2. ToSet(todo[a]) = {p, r}
    BY <1>1, <2>1, ElementsOfPair
  <2>3. p.op = "Push" /\ r.op \in {"Peek", "Remove"}
    BY <1>2, <2>1, StepFields
  <2> QED BY <2>2, <2>3 DEF DutyIn, DutyOps
<1>5. last' \in [Keys -> WriteSteps] /\ \A k \in Keys : last'[k].key = k
  BY <1>1, <1>2, <1>3, StructTypes, FrameTypes DEF CallInv, FrameType
<1>6. PICK steps \in {<<>>, <<w>>} : todo' = [todo EXCEPT ![a] = steps]
  <2>1. CASE todo' = [todo EXCEPT ![a] = <<>>]
    BY <2>1
  <2>2. CASE Then(a, <<>>)
    <3>1. PICK r : r = <<w>>
      OBVIOUS
    <3>2. <<>> \o r = r
      <4>1. r \in Seq({w})
        BY <3>1
      <4> QED BY <4>1, ConcatEmptySeq
    <3>3. <<>> \o Tail(todo[a]) = <<w>>
      BY <1>1, <3>1, <3>2
    <3> QED BY <2>2, <3>3 DEF Then
  <2> QED BY <1>3, <2>1, <2>2
<1>7. steps \in Seq(PlainSteps) /\ \A s \in ToSet(steps) : s.op \in {"Peek", "Remove"}
  <2>1. <<>> \in Seq(PlainSteps)  BY EmptySeq
  <2>2. PICK r : r = w  OBVIOUS
  <2>3. <<r>> \in Seq(PlainSteps) /\ r.op \in {"Peek", "Remove"}  BY <1>2, <2>2
  <2>4. ToSet(<<>>) = {} /\ ToSet(<<r>>) = {r}  BY ElementsOfTuple
  <2>5. steps = <<>> \/ steps = <<r>>  BY <2>2
  <2> QED BY <2>1, <2>3, <2>4, <2>5
<1>8. queue \in Seq(WriteSteps) /\ Len(queue) \in Nat /\ Len(queue) <= QueueCap /\ QueueCap \in Nat
  BY StructTypes, FrameTypes, CacheAssumption, LenProperties DEF CallInv, FrameType
<1>9. queue' \in Seq(WriteSteps) /\ Len(queue') <= QueueCap
  <2>1. CASE Len(queue) < QueueCap /\ queue' = Append(queue, w)
    <3>1. queue' \in Seq(WriteSteps) /\ Len(queue') = Len(queue) + 1
      BY <1>1, <1>8, <2>1, AppendProperties
    <3> QED BY <1>8, <2>1, <3>1
  <2>2. CASE UNCHANGED queue
    BY <1>8, <2>2
  <2> QED BY <1>3, <2>1, <2>2
<1>10. overtaken' \subseteq Keys
  BY <1>2, <1>3, FrameTypes DEF FrameType
<1>11. FrameType'
  BY <1>3, <1>5, <1>9, <1>10, FrameTypes DEF FrameType
<1> HIDE DEF w
<1> QED BY <1>3, <1>4, <1>5, <1>6, <1>7, <1>9, <1>11, CallStep DEF FirstOps

\* The steps of FlushSync and Close that wait for another actor.
LEMMA AwaitInv ==
  ASSUME CacheInv, Observe, NEW a \in Actors, FlushSync(a) \/ CloseBuffer(a) \/ WgWait(a)
  PROVE  CacheInv'
<1>1. PICK o \in {"Wait", "CloseBuffer", "WgWait"} : Doing(a, o)
  BY DEF FlushSync, CloseBuffer, WgWait
<1>2. Then(a, <<>>) /\ UNCHANGED <<shared, clearMu, frame>>
  BY DEF FlushSync, CloseBuffer, WgWait
<1>3. StructType' /\ IsFiniteSet(wheel')
  BY <1>2, StructTypes DEF StructType, shared
<1> QED BY <1>1, <1>2, <1>3, DropInv DEF DutyOps, shared

\* processWriteBatch takes the oldest writes.
LEMMA FlushBatchInv ==
  ASSUME CacheInv, Observe, FlushBatch
  PROVE  CacheInv'
<1>1. PICK n \in 1 .. BatchMax :
        /\ n <= Len(queue)
        /\ todo' = [todo EXCEPT ![Flusher] = SubSeq(queue, 1, n)]
        /\ queue' = SubSeq(queue, n + 1, Len(queue))
  BY DEF FlushBatch
<1>2. /\ Flusher \in Actors /\ Idle(Flusher)
      /\ UNCHANGED <<shared, clearMu, now, closed, stopped, buffered, flusherDone,
                     calls, rounds, writes>>
  BY DEF FlushBatch, Actors
<1>3. queue \in Seq(WriteSteps) /\ Len(queue) \in Nat /\ Len(queue) <= QueueCap
      /\ QueueCap \in Nat /\ n \in Nat /\ n >= 1
  BY StructTypes, FrameTypes, CacheAssumption, LenProperties DEF CallInv, FrameType
<1>4. PICK b, r : b = SubSeq(queue, 1, n) /\ r = SubSeq(queue, n + 1, Len(queue))
  OBVIOUS
<1>5. b \in Seq(WriteSteps) /\ r \in Seq(WriteSteps) /\ Len(r) <= QueueCap
  <2>1. /\ \A i \in 1 .. n : queue[i] \in WriteSteps
        /\ \A i \in n + 1 .. Len(queue) : queue[i] \in WriteSteps
    <3>1. \A i \in 1 .. Len(queue) : queue[i] \in WriteSteps
      BY <1>3, ElementOfSeq
    <3> QED BY <1>1, <1>3, <3>1
  <2>2. b \in Seq(WriteSteps)
    BY <1>1, <1>3, <1>4, <2>1, SubSeqProperties
  <2>3. r \in Seq(WriteSteps) /\ Len(r) = IF n + 1 <= Len(queue) THEN Len(queue) - (n + 1) + 1 ELSE 0
    BY <1>1, <1>3, <1>4, <2>1, SubSeqProperties
  <2> QED BY <1>3, <2>2, <2>3
<1>6. b \in Seq(PlainSteps) /\ \A s \in ToSet(b) : s.op \in {"Peek", "Remove"}
  <2>1. ToSet(b) \subseteq WriteSteps
    BY <1>5, ElementsInSet
  <2>2. WriteSteps \subseteq PlainSteps /\ \A s \in WriteSteps : s.op \in {"Peek", "Remove"}
    BY DEF WriteSteps
  <2> QED BY <1>5, <2>1, <2>2, SeqMonotonic
<1>7. FrameType' /\ last' \in [Keys -> WriteSteps] /\ queue' \in Seq(WriteSteps)
  <2>1. last' \in [Keys -> WriteSteps] /\ queue' \in Seq(WriteSteps) /\ Len(queue') <= QueueCap
    BY <1>1, <1>2, <1>4, <1>5, StructTypes DEF CallInv, writes
  <2> QED BY <1>2, <2>1, FrameTypes DEF FrameType, writes
<1>8. todo' = [todo EXCEPT ![Flusher] = b]
  BY <1>1, <1>4
<1> QED BY <1>2, <1>6, <1>7, <1>8, IdleDuty, CallStep DEF FirstOps

\* The flush goroutine and the worker leave; nothing else changes.
LEMMA LeaveInv ==
  ASSUME CacheInv, Observe, FlusherExit \/ Stop
  PROVE  CacheInv'
<1>1. PICK a \in Actors : Idle(a)
  BY DEF FlusherExit, Stop, Actors
<1>2. /\ UNCHANGED <<shared, clearMu, todo, now, closed, buffered, queue, calls, rounds, writes>>
      /\ stopped' \in BOOLEAN /\ flusherDone' \in BOOLEAN
  BY FrameTypes DEF FlusherExit, Stop, FrameType, buffer
<1>3. FrameType' /\ last' \in [Keys -> WriteSteps] /\ queue' \in Seq(WriteSteps)
  BY <1>2, StructTypes, FrameTypes DEF FrameType, writes, CallInv
<1>4. todo' = [todo EXCEPT ![a] = <<>>]
  BY <1>1, <1>2, StructTypes DEF CallInv, Idle
<1>5. <<>> \in Seq(PlainSteps) /\ ToSet(<<>>) = {}
  BY EmptySeq, ElementsOfTuple
<1> QED BY <1>1, <1>2, <1>3, <1>4, <1>5, IdleDuty, CallStep

\* The ticker of the worker fires.
LEMMA TickInv ==
  ASSUME CacheInv, Observe, Tick
  PROVE  CacheInv'
<1>1. /\ Worker \in Actors /\ Idle(Worker) /\ rounds < MaxRounds /\ rounds' = rounds + 1
      /\ todo' = [todo EXCEPT ![Worker] = <<Step("ExpireLock", NoKey, 0, 0)>>]
      /\ UNCHANGED <<shared, clearMu, now, closed, stopped, buffer, calls, writes>>
  BY DEF Tick, Actors
<1>2. PICK s : s = Step("ExpireLock", NoKey, 0, 0)
  OBVIOUS
<1>3. s \in PlainSteps /\ s.op = "ExpireLock"
  <2>1. s \in Steps /\ s.op = "ExpireLock"
    BY <1>2, StepFields DEF Ops
  <2> QED BY <2>1 DEF PlainSteps, KeyOps, ClearOps
<1>4. <<s>> \in Seq(PlainSteps) /\ ToSet(<<s>>) = {s}
  BY <1>3, ElementsOfTuple
<1>5. rounds' \in 0 .. MaxRounds
  BY <1>1, FrameTypes, CacheAssumption DEF FrameType
<1>6. FrameType' /\ last' \in [Keys -> WriteSteps] /\ queue' \in Seq(WriteSteps)
  BY <1>1, <1>5, StructTypes, FrameTypes DEF FrameType, writes, buffer, CallInv
<1> QED BY <1>1, <1>2, <1>3, <1>4, <1>6, IdleDuty, CallStep DEF FirstOps

\* The clock only adds to what a section may carry.
LEMMA ClockTickInv ==
  ASSUME CacheInv, Observe, ClockTick
  PROVE  CacheInv'
<1>1. /\ now' = now + ClockStep /\ now + ClockStep <= MaxNow
      /\ UNCHANGED <<shared, clearMu, closed, stopped, todo, buffer, calls, rounds, writes>>
  BY DEF ClockTick
<1>2. now \in 1 .. MaxNow /\ now' \in 1 .. MaxNow /\ now <= now'
  BY <1>1, FrameTypes, CacheAssumption
<1>3. PlainSteps \subseteq PlainSteps' /\ WriteSteps \subseteq WriteSteps'
  <2>1. ASSUME NEW s \in PlainSteps PROVE s \in PlainSteps'
    <3>1. s \in Steps /\ (s.op \in {"Advance", "Expire"} => s.n <= now) /\ s.n \in Int
      BY DEF PlainSteps, Steps
    <3>2. s.op \in {"Advance", "Expire"} => s.n <= now'
      BY <1>2, <3>1
    <3> QED BY <3>1, <3>2 DEF PlainSteps
  <2> QED BY <2>1 DEF WriteSteps
<1>4. Seq(PlainSteps) \subseteq Seq(PlainSteps') /\ Seq(WriteSteps) \subseteq Seq(WriteSteps')
  BY <1>3, SeqMonotonic
<1>5. PushCalls \subseteq PushCalls'
  BY <1>3 DEF PushCalls
<1>6. CallInv'
  <2>1. /\ todo' \in [Actors -> Seq(PlainSteps') \cup PushCalls'] /\ queue' \in Seq(WriteSteps')
        /\ last' \in [Keys -> WriteSteps'] /\ IsFiniteSet(wheel')
    BY <1>1, <1>3, <1>4, <1>5, StructTypes DEF CallInv, shared, buffer, writes
  <2> QED BY <2>1 DEF CallInv
<1>7. OrderInv'
  BY <1>1, StructTypes DEF OrderInv
<1>8. AloneInv' /\ raced \subseteq raced' /\ raced' \subseteq Keys /\ clearRaced' \in BOOLEAN
  BY ObserveInv DEF CacheInv, TypeOK
<1>9. DutyInv'
  <2> SUFFICES ASSUME NEW k \in Keys \ raced' PROVE KeyInv(k)'
    BY DEF DutyInv
  <2>1. Duties(k)' = Duties(k)
    BY <1>1 DEF Duties, DutyIn
  <2>2. KeyInv(k)
    BY <1>8 DEF CacheInv, DutyInv
  <2> QED BY <1>1, <2>1, <2>2, KeyQuiet DEF shared
<1>10. StructType'
  BY <1>1, StructTypes DEF StructType, shared
<1>11. TypeOK'
  BY <1>1, <1>2, <1>8, <1>10 DEF CacheInv, TypeOK, StructType, shared, buffer, writes
<1> QED BY <1>6, <1>7, <1>8, <1>9, <1>10, <1>11 DEF CacheInv
-----------------------------------------------------------------------------
(* The theorems. *)

LEMMA InitInv == Init => CacheInv
<1> SUFFICES ASSUME Init PROVE CacheInv
  OBVIOUS
<1>1. /\ store = <<>> /\ size = 0 /\ liveCost = 0 /\ tracked = <<>> /\ radix = {} /\ wheel = {}
      /\ now = 1 /\ clearMu = {} /\ closed = FALSE /\ stopped = FALSE
      /\ buffered \in BOOLEAN /\ queue = <<>> /\ flusherDone \in BOOLEAN
      /\ todo = [a \in Actors |-> <<>>] /\ calls = 0 /\ rounds = 0
      /\ last = [k \in Keys |-> Step("Remove", k, 0, 0)] /\ overtaken = {}
      /\ raced = {} /\ clearRaced = FALSE
  BY DEF Init
<1>2. DOMAIN store = {} /\ DOMAIN tracked = {}
  BY <1>1
<1>3. IsFiniteSet({}) /\ Cardinality({}) = 0
  BY FS_EmptySet
<1>4. StructType
  <2>1. IsFiniteSet(clearMu) /\ Cardinality(clearMu) = 0
    BY <1>1, <1>3
  <2> QED BY <1>1, <1>2, <2>1 DEF StructType
<1>5. <<>> \in Seq(PlainSteps) /\ <<>> \in Seq(WriteSteps) /\ Len(<<>>) = 0 /\ ToSet(<<>>) = {}
  BY EmptySeq, ElementsOfTuple
<1>6. \A k \in Keys : Step("Remove", k, 0, 0) \in WriteSteps /\ Step("Remove", k, 0, 0).key = k
  <2> SUFFICES ASSUME NEW k \in Keys
               PROVE  Step("Remove", k, 0, 0) \in WriteSteps /\ Step("Remove", k, 0, 0).key = k
    OBVIOUS
  <2>1. Step("Remove", k, 0, 0) \in PlainSteps
    BY PlainStep DEF Ops, ClearOps
  <2> QED BY <2>1, StepFields DEF WriteSteps
<1>7. CallInv
  BY <1>1, <1>3, <1>5, <1>6 DEF CallInv
<1>8. OrderInv
  <2>1. \A a \in Actors : todo[a] = <<>>
    BY <1>1
  <2>2. Sorted(<<>>)
    BY <1>5 DEF Sorted
  <2> QED BY <1>5, <2>1, <2>2 DEF OrderInv
<1>9. AloneInv
  BY <1>1 DEF AloneInv, Works
<1>10. DutyInv
  <2> SUFFICES ASSUME NEW k \in Keys PROVE KeyInv(k)
    BY DEF DutyInv
  <2>1. Duties(k) = {}
    BY <1>1, <1>5 DEF Duties, DutyIn
  <2>2. RadixAgrees(k) /\ PolicyAgrees(k)
    BY <1>1, <1>2 DEF RadixAgrees, PolicyAgrees
  <2> QED BY <2>1, <2>2 DEF KeyInv, Settled
<1>11. TypeOK
  <2>1. \A a \in Actors : todo[a] \in Seq(Steps)
    BY <1>1, EmptySeq
  <2>2. queue \in Seq(Steps) /\ Len(queue) <= QueueCap
    BY <1>1, <1>5, EmptySeq, CacheAssumption
  <2>3. \A k \in Keys : last[k] \in Steps /\ last[k].key = k
    BY <1>1, <1>6, CallType
  <2>4. now \in 1 .. MaxNow /\ calls \in 0 .. MaxCalls /\ rounds \in 0 .. MaxRounds
    BY <1>1, CacheAssumption
  <2> QED BY <1>1, <1>4, <2>1, <2>2, <2>3, <2>4 DEF TypeOK, StructType
<1> QED BY <1>4, <1>7, <1>8, <1>9, <1>10, <1>11 DEF CacheInv

LEMMA NextInv == CacheInv /\ [Next]_vars => CacheInv'
<1> SUFFICES ASSUME CacheInv, [Next]_vars PROVE CacheInv'
  OBVIOUS
<1>1. CASE Next
  <2>1. Observe
    BY <1>1 DEF Next
  <2>2. ASSUME NEW a \in Clients, CallNext(a) PROVE CacheInv'
    <3>0. a \in Actors
      BY DEF Actors
    <3>1. ASSUME NEW k \in Keys, NEW o \in Offers, SetWithCost(a, k, o) PROVE CacheInv'
      BY <2>1, <3>0, <3>1, WriteStep, WriteInv DEF SetWithCost
    <3>2. ASSUME NEW k \in Keys, Delete(a, k) PROVE CacheInv'
      BY <2>1, <3>0, <3>2, WriteStep, WriteInv DEF Delete
    <3>3. ASSUME Wait(a) \/ Clear(a) \/ Close(a) PROVE CacheInv'
      BY <2>1, <3>0, <3>3, OtherCallInv
    <3> QED BY <2>2, <3>1, <3>2, <3>3 DEF CallNext
  <2>3. ASSUME NEW a \in Clients, ClientStep(a) PROVE CacheInv'
    <3>0. a \in Actors
      BY DEF Actors
    <3>1. CASE Push(a)
      BY <2>1, <3>0, <3>1, PushInv
    <3>2. CASE FlushSync(a) \/ CloseBuffer(a) \/ WgWait(a)
      BY <2>1, <3>0, <3>2, AwaitInv
    <3> QED BY <2>3, <3>1, <3>2 DEF ClientStep
  <2>4. ASSUME NEW a \in Actors, StepNext(a) PROVE CacheInv'
    <3>1. CASE Peek(a)  BY <2>1, <3>1, PeekInv
    <3>2. CASE Update(a)  BY <2>1, <3>2, UpdateInv
    <3>3. CASE Add(a)  BY <2>1, <3>3, AddInv
    <3>4. CASE Evict(a)  BY <2>1, <3>4, EvictInv
    <3>5. CASE Put(a)  BY <2>1, <3>5, PutInv
    <3>6. CASE DoDelete(a)  BY <2>1, <3>6, DoDeleteInv
    <3>7. CASE AddSize(a) \/ AddCost(a)  BY <2>1, <3>7, AddSizeInv
    <3>8. CASE PolicyUpdate(a) \/ PolicyDel(a)  BY <2>1, <3>8, PolicyStepInv
    <3>9. CASE Schedule(a)  BY <2>1, <3>9, ScheduleInv
    <3>10. CASE RadixInsert(a) \/ RadixDelete(a)  BY <2>1, <3>10, RadixStepInv
    <3>11. CASE ClearLock(a)  BY <2>1, <3>11, ClearLockInv
    <3>12. CASE ClearShard(a)  BY <2>1, <3>12, ClearShardInv
    <3>13. CASE ClearPolicy(a) \/ ClearRadix(a)  BY <2>1, <3>13, ClearTableInv
    <3>14. CASE ClearSize(a) \/ ClearWheel(a) \/ ClearCost(a)  BY <2>1, <3>14, ClearNumberInv
    <3>15. CASE Unlock(a)  BY <2>1, <3>15, UnlockInv
    <3> QED BY <2>4, <3>1, <3>2, <3>3, <3>4, <3>5, <3>6, <3>7, <3>8, <3>9, <3>10, <3>11,
                <3>12, <3>13, <3>14, <3>15 DEF StepNext
  <2>5. CASE FlusherNext
    BY <2>1, <2>5, FlushBatchInv, LeaveInv DEF FlusherNext
  <2>6. CASE WorkerNext
    BY <2>1, <2>6, TickInv, LeaveInv, ExpireLockInv, AdvanceInv, ExpireInv DEF WorkerNext
  <2>7. CASE ClockTick
    BY <2>1, <2>7, ClockTickInv
  <2> QED BY <1>1, <2>2, <2>3, <2>4, <2>5, <2>6, <2>7 DEF Next
<1>2. CASE UNCHANGED vars
  <2>1. UNCHANGED <<store, size, liveCost, tracked, radix, wheel, clearMu, todo, now, closed, stopped,
                    buffered, queue, flusherDone, calls, rounds, last, overtaken, raced, clearRaced>>
    BY <1>2 DEF vars, shared, frame, buffer, writes
  <2>2. TypeOK' /\ StructType'
    BY <2>1 DEF CacheInv, TypeOK, StructType
  <2>3. CallInv' /\ OrderInv' /\ AloneInv'
    BY <2>1, SameClock DEF CacheInv, CallInv, OrderInv, AloneInv
  <2>4. DutyInv'
    <3> SUFFICES ASSUME NEW k \in Keys \ raced' PROVE KeyInv(k)'
      BY DEF DutyInv
    <3>1. Duties(k)' = Duties(k) /\ KeyInv(k)
      BY <2>1 DEF Duties, DutyIn, CacheInv, DutyInv
    <3> QED BY <2>1, <3>1, KeyQuiet
  <2> QED BY <2>2, <2>3, <2>4 DEF CacheInv
<1> QED BY <1>1, <1>2

\* The invariant: calls are lists of sections in the order of the code, one
\* actor at a time works on a key nobody raced for, and what store, policy and
\* radix tree disagree on for such a key is what that actor has still to do.
THEOREM CacheInvariant == Spec => []CacheInv
BY InitInv, NextInv, PTL DEF Spec

\* Every variable of the cache keeps its type, in every interleaving of calls,
\* worker and flush goroutine.
THEOREM CacheType == Spec => []TypeOK
<1>1. CacheInv => TypeOK
  BY DEF CacheInv
<1> QED BY <1>1, CacheInvariant, PTL

\* Store, policy and radix tree agree on a key that no call is working on and no
\* two calls have worked on at once: set, delete, eviction, expiration and Clear
\* leave no structure behind.
THEOREM StructuresStayInLine == Spec => []StructuresAgree
<1>1. CacheInv => StructuresAgree
  <2> SUFFICES ASSUME CacheInv, NEW k \in Keys \ raced, \A a \in Actors : ~Works(todo[a], k)
               PROVE  RadixAgrees(k) /\ PolicyAgrees(k)
    BY DEF StructuresAgree, RadixAgrees, PolicyAgrees
  <2>1. \A a \in Actors : DutyIn(todo[a], k) = {}
    BY StructTypes, DutyWorks
  <2>2. Duties(k) = {}
    BY <2>1 DEF Duties
  <2> QED BY <2>2, StructTypes DEF DutyInv, KeyInv, Settled
<1> QED BY <1>1, CacheInvariant, PTL

\* The worker removes only entries that are past their own expiration.
THEOREM ExpiryNeverEarly == Spec => NoEarlyExpiry
<1> DEFINE Late(k) == Doing(Worker, "Expire") /\ todo'[Worker] # todo[Worker]
                        => store[k].exp \in 1 .. now - 1
           Step1 == \A k \in DOMAIN store \ DOMAIN store' : Late(k)
<1>1. CacheInv /\ [Next]_vars => [Step1]_vars
  <2> SUFFICES ASSUME CacheInv, Next, NEW k \in DOMAIN store \ DOMAIN store',
                      Doing(Worker, "Expire"), todo'[Worker] # todo[Worker]
               PROVE  store[k].exp \in 1 .. now - 1
    OBVIOUS
  <2> DEFINE s == Head(todo[Worker])
  <2>1. Worker \in Actors /\ Worker \notin Clients /\ Worker # Flusher
    BY CacheAssumption DEF Actors
  <2>2. s \in PlainSteps /\ s.op = "Expire" /\ s.exp \in Nat /\ s.exp > 0 /\ s.n \in Int /\ s.n <= now
    <3>1. s \in PlainSteps /\ s.op = "Expire"
      BY <2>1, PlainCall, StructTypes DEF Doing
    <3> QED BY <3>1 DEF PlainSteps, Steps
  <2>3. Expire
    <3>0. todo \in [Actors -> Seq(PlainSteps) \cup PushCalls]
      BY StructTypes DEF CallInv
    <3>1. ASSUME NEW a \in Actors, NEW q, todo' = [todo EXCEPT ![a] = q] PROVE a = Worker
      BY <2>1, <3>0, <3>1
    <3>2. ASSUME NEW a \in Clients, CallNext(a) \/ ClientStep(a) PROVE FALSE
      <4>1. a \in Actors /\ a # Worker
        BY <2>1 DEF Actors
      <4>2. \E q : todo' = [todo EXCEPT ![a] = q]
        BY <3>2 DEF CallNext, ClientStep, SetWithCost, Delete, Write, Wait, Clear, Close, Call,
                    Push, FlushSync, CloseBuffer, WgWait, Then
      <4> QED BY <3>1, <4>1, <4>2
    <3>3. ASSUME NEW a \in Actors, StepNext(a) PROVE FALSE
      <4>1. \E q : todo' = [todo EXCEPT ![a] = q]
        BY <3>3 DEF StepNext, Peek, Update, Add, Evict, Put, DoDelete, AddSize, AddCost, PolicyUpdate,
                    PolicyDel, Schedule, RadixInsert, RadixDelete, ClearLock, ClearShard, ClearSize,
                    ClearPolicy, ClearWheel, ClearRadix, ClearCost, Unlock, Then
      <4>2. a = Worker
        BY <3>1, <4>1
      <4>3. ~(s.op \in Ops \ {"Expire"})
        BY <2>2
      <4> QED BY <2>2, <3>3, <4>2 DEF StepNext, Peek, Update, Add, Evict, Put, DoDelete, AddSize,
                    AddCost, PolicyUpdate, PolicyDel, Schedule, RadixInsert, RadixDelete, ClearLock,
                    ClearShard, ClearSize, ClearPolicy, ClearWheel, ClearRadix, ClearCost, Unlock, Doing
    <3>4. ~FlusherNext
      BY <2>1, <3>1 DEF FlusherNext, FlushBatch, FlusherExit, Actors
    <3>5. WorkerNext => Expire
      BY <2>2 DEF WorkerNext, Tick, Stop, ExpireLock, Advance, Doing
    <3>6. ~ClockTick
      BY DEF ClockTick
    <3> QED BY <3>2, <3>3, <3>4, <3>5, <3>6 DEF Next
  <2>4. Expired(s) /\ k = s.key
    <3>1. store' = IF Expired(s) THEN Without(store, {s.key}) ELSE store
      BY <2>3 DEF Expire
    <3> QED BY <3>1 DEF Without
  <2>5. store[k].exp = s.exp /\ s.n > s.exp
    BY <2>4 DEF Expired
  <2>6. now \in Nat
    BY FrameTypes
  <2> QED BY <2>2, <2>5, <2>6
<1>2. NoEarlyExpiry <=> [][Step1]_vars
  BY DEF NoEarlyExpiry
<1> QED BY <1>1, <1>2, CacheInvariant, PTL DEF Spec

-----------------------------------------------------------------------------
(* The counters: LenExact and CostExact.                                   *)

(* What a section adds to a counter, and what the sections of a call add up to. *)
Val(s, o) == IF s.op = o THEN s.n ELSE 0
Vals(q, o) == [i \in 1 .. Len(q) |-> Val(q[i], o)]
Share(q, o) == SumOver(Vals(q, o), 1 .. Len(q))

Folded(q, o) == FoldSeq(LAMBDA s, acc : IF s.op = o THEN acc + s.n ELSE acc, 0, q)

\* h is the recursive function of the fold in Owes.
FoldOf(h, q, o) ==
  h = [s \in SUBSET DOMAIN q |->
         IF s = {} THEN 0
         ELSE IF q[Chosen(s)].op = o THEN h[s \ {Chosen(s)}] + q[Chosen(s)].n
         ELSE h[s \ {Chosen(s)}]]

\* FoldSeq recurses over the indices of the list it folds.
LEMMA FoldIs ==
  ASSUME NEW q, NEW o, NEW g, FoldOf(g, q, o)
  PROVE  \E h : /\ FoldOf(h, q, o)
                /\ Folded(q, o) = h[DOMAIN q]
<1> DEFINE h == CHOOSE i : FoldOf(i, q, o)
<1>1. FoldOf(h, q, o)
  <2> HIDE DEF FoldOf
  <2> QED OBVIOUS
<1>2. Folded(q, o) = h[DOMAIN q]
  BY DEF Folded, FoldSeq, FoldFunction, FoldFunctionOnSet, MapThenFoldSet, FoldOf, Chosen
<1> HIDE DEF h
<1> QED BY <1>1, <1>2

\* What a section adds is a number.
LEMMA StepNumber ==
  ASSUME NEW q \in Seq(Steps), NEW o
  PROVE  /\ DOMAIN q = 1 .. Len(q) /\ Len(q) \in Nat
         /\ \A i \in 1 .. Len(q) : q[i] \in Steps /\ q[i].n \in Int /\ Vals(q, o)[i] = Val(q[i], o)
         /\ \A i \in 1 .. Len(q) : Vals(q, o)[i] \in Int
         /\ Share(q, o) \in Int
<1>1. DOMAIN q = 1 .. Len(q) /\ Len(q) \in Nat /\ \A i \in 1 .. Len(q) : q[i] \in Steps
  BY LenProperties, ElementOfSeq
<1>2. \A i \in 1 .. Len(q) : q[i].n \in Int /\ Vals(q, o)[i] = Val(q[i], o)
  BY <1>1 DEF Steps, Vals
<1>3. \A i \in 1 .. Len(q) : Vals(q, o)[i] \in Int
  BY <1>2 DEF Val
<1>4. IsFiniteSet(1 .. Len(q))
  BY <1>1, FS_Interval
<1>5. Share(q, o) \in Int
  BY <1>3, <1>4, SumType DEF Share
<1> QED BY <1>1, <1>2, <1>3, <1>5

\* Owes is the sum over the sections of the call.
LEMMA FoldIsShare ==
  ASSUME NEW q \in Seq(Steps), NEW o
  PROVE  Folded(q, o) = Share(q, o)
<1> DEFINE S == 1 .. Len(q)
           f == Vals(q, o)
<1>1. /\ DOMAIN q = S /\ IsFiniteSet(S) /\ \A i \in S : f[i] \in Int
      /\ \A i \in S : f[i] = IF q[i].op = o THEN q[i].n ELSE 0
  BY StepNumber, FS_Interval DEF Val
<1> HIDE DEF f, S
<1>2. PICK g \in [SUBSET S -> Int] : Sums(g, f, S)
  BY <1>1, SumsExist
<1>3. \A s \in SUBSET S : s # {} => Chosen(s) \in s
  BY DEF Chosen
<1>4. \A s \in SUBSET S : /\ s = {} => g[s] = 0
                          /\ s # {} => g[s] = f[Chosen(s)] + g[s \ {Chosen(s)}]
  BY <1>2, SumsStep
<1>5. FoldOf(g, q, o)
  <2>1. ASSUME NEW s \in SUBSET S
        PROVE  g[s] = IF s = {} THEN 0
                      ELSE IF q[Chosen(s)].op = o THEN g[s \ {Chosen(s)}] + q[Chosen(s)].n
                      ELSE g[s \ {Chosen(s)}]
    <3>1. CASE s = {}
      BY <1>4, <3>1
    <3>2. CASE s # {}
      <4>1. PICK c, t : c = Chosen(s) /\ t = s \ {c}
        OBVIOUS
      <4>2. c \in S /\ t \in SUBSET S
        BY <1>3, <3>2, <4>1
      <4>3. g[t] \in Int /\ f[c] \in Int /\ f[c] = IF q[c].op = o THEN q[c].n ELSE 0
        BY <1>1, <1>2, <4>2
      <4>4. g[s] = f[c] + g[t]
        BY <1>4, <3>2, <4>1
      <4>5. g[s] = IF q[c].op = o THEN g[t] + q[c].n ELSE g[t]
        BY <4>3, <4>4
      <4> QED BY <3>2, <4>1, <4>5
    <3> QED BY <3>1, <3>2
  <2>2. g = [s \in SUBSET S |-> g[s]]
    BY <1>2
  <2> QED BY <1>1, <2>1, <2>2 DEF FoldOf
<1>6. PICK h : /\ FoldOf(h, q, o)
               /\ Folded(q, o) = h[DOMAIN q]
  BY <1>5, FoldIs
<1>7. \A s \in SUBSET S : s \in {t \in SUBSET S : h[t] = g[t]}
  <2> DEFINE Q == {t \in SUBSET S : h[t] = g[t]}
  <2>0. \A s \in SUBSET S : h[s] = IF s = {} THEN 0
                      ELSE IF q[Chosen(s)].op = o THEN h[s \ {Chosen(s)}] + q[Chosen(s)].n
                      ELSE h[s \ {Chosen(s)}]
    BY <1>1, <1>6 DEF FoldOf
  <2>1. ASSUME NEW s \in SUBSET S, \A x \in s : \A t \in SUBSET (s \ {x}) : t \in Q
        PROVE  s \in Q
    <3>1. s = {} => h[s] = g[s]
      BY <1>4, <2>0
    <3>2. ASSUME s # {} PROVE h[s] = g[s]
      <4>1. PICK c, t : c = Chosen(s) /\ t = s \ {c}
        OBVIOUS
      <4>2. c \in s /\ c \in S /\ t \in SUBSET S /\ t \in SUBSET (s \ {c})
        BY <1>3, <3>2, <4>1
      <4>3. h[t] = g[t] /\ g[t] \in Int
        BY <1>2, <2>1, <4>2
      <4>4. f[c] \in Int /\ f[c] = IF q[c].op = o THEN q[c].n ELSE 0
        BY <1>1, <4>2
      <4>5. g[s] = f[c] + g[t]
        BY <1>4, <3>2, <4>1
      <4>6. h[s] = IF q[c].op = o THEN h[t] + q[c].n ELSE h[t]
        BY <2>0, <3>2, <4>1
      <4> QED BY <4>3, <4>4, <4>5, <4>6
    <3> QED BY <3>1, <3>2
  <2> HIDE DEF Q
  <2>2. \A s \in SUBSET S :
          (\A x \in s : \A t \in SUBSET (s \ {x}) : t \in Q) => s \in Q
    BY <2>1
  <2>3. IsFiniteSet(S)
    BY <1>1
  <2>4. \A s \in SUBSET S : s \in Q
    BY ONLY <2>2, <2>3, SubsetInduction
  <2> QED BY <2>4 DEF Q
<1>8. PICK e : Sums(e, f, S) /\ SumOver(f, S) = e[S]
  BY <1>2, SumIs
<1>9. e[S] = g[S]
  BY <1>1, <1>2, <1>8, SumsAgree
<1>10. h[S] = g[S]
  BY <1>7
<1> QED BY <1>1, <1>6, <1>8, <1>9, <1>10 DEF Share, S, f

\* What a list of sections adds up to.
LEMMA ShareConcat ==
  ASSUME NEW p \in Seq(Steps), NEW q \in Seq(Steps), NEW o
  PROVE  Share(p \o q, o) = Share(p, o) + Share(q, o)
<1>0. PICK m, n, f, d, e : /\ m = Len(p) /\ n = Len(q) /\ f = Vals(p \o q, o)
                          /\ d = Vals(p, o) /\ e = Vals(q, o)
  OBVIOUS
<1>1. m \in Nat /\ n \in Nat /\ p \o q \in Seq(Steps) /\ Len(p \o q) = m + n
  BY <1>0, StepNumber, ConcatProperties
<1>2. \A i \in 1 .. m + n : (p \o q)[i] = IF i <= m THEN p[i] ELSE q[i - m]
  BY <1>0, ConcatProperties
<1>3. \A i \in 1 .. m + n : f[i] \in Int /\ f[i] = Val((p \o q)[i], o)
  BY <1>0, <1>1, StepNumber
<1>4. \A i \in 1 .. m : d[i] = Val(p[i], o) /\ d[i] \in Int
  BY <1>0, StepNumber
<1>5. \A i \in 1 .. n : e[i] = Val(q[i], o)
  BY <1>0, StepNumber
<1>6. \A i \in 1 .. n : m + i \in 1 .. m + n /\ ~(m + i <= m) /\ (m + i) - m = i
  BY <1>1
<1>7. Continues(f, m, e, n)
  BY <1>2, <1>3, <1>5, <1>6 DEF Continues
<1>8. \A i \in 1 .. m : i \in 1 .. m + n /\ i <= m
  BY <1>1
<1>9. \A i \in 1 .. m : d[i] \in Int /\ d[i] = f[i]
  BY <1>2, <1>3, <1>4, <1>8
<1>10. PICK l : l = m + n
  OBVIOUS
<1>l. \A i \in 1 .. l : f[i] \in Int
  BY <1>3, <1>10
<1>11. SumOver(f, 1 .. l) = SumOver(f, 1 .. m) + SumOver(e, 1 .. n)
  <2>1. m \in Nat
    BY <1>1
  <2>2. n \in Nat
    BY <1>1
  <2> QED BY ONLY <2>1, <2>2, <1>7, <1>10, <1>l, SumConcat, SMTT(60)
<1>12. IsFiniteSet(1 .. m)
  BY <1>1, FS_Interval
<1>13. SumOver(d, 1 .. m) = SumOver(f, 1 .. m)
  BY ONLY <1>9, <1>12, SumCongruence
<1> QED BY <1>0, <1>1, <1>10, <1>11, <1>13 DEF Share

\* A call with no section on the counter owes it nothing.
LEMMA ShareNone ==
  ASSUME NEW q \in Seq(Steps), NEW o, \A s \in ToSet(q) : s.op # o
  PROVE  Share(q, o) = 0
<1>1. \A i \in 1 .. Len(q) : Vals(q, o)[i] = Val(q[i], o) /\ q[i] \in ToSet(q)
  BY StepNumber, ElementsInSet
<1>2. \A i \in 1 .. Len(q) : Vals(q, o)[i] = 0
  BY <1>1 DEF Val
<1>3. IsFiniteSet(1 .. Len(q))
  BY StepNumber, FS_Interval
<1> QED BY <1>2, <1>3, SumZero DEF Share

\* One section owes what it adds.
LEMMA ShareOne ==
  ASSUME NEW s \in Steps, NEW o
  PROVE  Share(<<s>>, o) = Val(s, o)
<1>1. PICK q, f : q = <<s>> /\ f = Vals(q, o)
  OBVIOUS
<1>2. q \in Seq(Steps) /\ Len(q) = 1 /\ q[1] = s
  BY <1>1
<1>3. f[1] = Val(s, o) /\ f[1] \in Int
  <2>1. 1 \in 1 .. Len(q)
    BY <1>2
  <2> QED BY <1>1, <1>2, <2>1, StepNumber
<1>4. 0 \in Nat /\ 0 + 1 = 1 /\ \A i \in 1 .. 0 + 1 : f[i] \in Int
  BY <1>3
<1>5. SumOver(f, 1 .. 0 + 1) = SumOver(f, 1 .. 0) + f[0 + 1]
  BY ONLY <1>4, SumNext
<1>6. SumOver(f, 1 .. 0) = 0
  <2>1. 1 .. 0 = {} /\ IsFiniteSet({}) /\ \A i \in {} : f[i] \in Int
    BY FS_EmptySet
  <2> QED BY <2>1, SumType
<1>7. Share(q, o) = SumOver(f, 1 .. 0 + 1)
  BY <1>1, <1>2, <1>4 DEF Share
<1> QED BY <1>1, <1>3, <1>4, <1>5, <1>6, <1>7

-----------------------------------------------------------------------------
(* The sums of LenExact and CostExact. *)

\* The calls in t add up to this.
OwedOf(t, o) == MapThenSumSet(LAMBDA a : Folded(t[a], o), Actors)
Shares(t, o) == [a \in Actors |-> Share(t[a], o)]

\* Owed as a function of the calls, now and in the next state.
LEMMA OwedAt == \A o : Owed(o) = OwedOf(todo, o) /\ Owed(o)' = OwedOf(todo', o)
BY DEF Owed, OwedOf, Owes, Folded, MapThenSumSet, MapThenFoldSet, FoldSeq, FoldFunction,
       FoldFunctionOnSet

OwedSums(h, t, o) ==
  h = [s \in SUBSET Actors |-> IF s = {} THEN 0 ELSE Folded(t[Chosen(s)], o) + h[s \ {Chosen(s)}]]

\* The recursion under that sum.
LEMMA OwedIs ==
  ASSUME NEW t, NEW o, NEW g, OwedSums(g, t, o)
  PROVE  \E h : OwedSums(h, t, o) /\ OwedOf(t, o) = h[Actors]
BY DEF OwedOf, MapThenSumSet, MapThenFoldSet, OwedSums, Chosen

\* The actors are finitely many.
LEMMA ActorsFinite == IsFiniteSet(Actors)
<1>1. IsFiniteSet({Worker, Flusher})
  <2>1. IsFiniteSet({}) /\ {Worker, Flusher} = ({} \cup {Worker}) \cup {Flusher}
    BY FS_EmptySet
  <2>2. IsFiniteSet({} \cup {Worker})
    BY <2>1, FS_AddElement
  <2> QED BY <2>1, <2>2, FS_AddElement
<1> QED BY <1>1, CacheAssumption, FS_Union DEF Actors

\* What is owed is the sum of what each actor owes.
LEMMA OwedIsSum ==
  ASSUME NEW t, \A a \in Actors : t[a] \in Seq(Steps), NEW o
  PROVE  /\ OwedOf(t, o) = SumOver(Shares(t, o), Actors)
         /\ \A a \in Actors : Shares(t, o)[a] = Share(t[a], o) /\ Share(t[a], o) \in Int
<1>1. PICK f : f = Shares(t, o)
  OBVIOUS
<1>2. \A a \in Actors : f[a] = Share(t[a], o) /\ f[a] = Folded(t[a], o) /\ f[a] \in Int
  <2>1. \A a \in Actors : Share(t[a], o) \in Int /\ Folded(t[a], o) = Share(t[a], o)
    BY FoldIsShare, StepNumber
  <2> QED BY <1>1, <2>1 DEF Shares
<1>3. \A s \in SUBSET Actors : s # {} => Chosen(s) \in Actors
  BY DEF Chosen
<1>4. \A h : OwedSums(h, t, o) <=> Sums(h, f, Actors)
  <2> SUFFICES ASSUME NEW h PROVE OwedSums(h, t, o) <=> Sums(h, f, Actors)
    OBVIOUS
  <2>1. \A s \in SUBSET Actors :
          (IF s = {} THEN 0 ELSE Folded(t[Chosen(s)], o) + h[s \ {Chosen(s)}])
            = (IF s = {} THEN 0 ELSE f[Chosen(s)] + h[s \ {Chosen(s)}])
    BY <1>2, <1>3
  <2> QED BY <2>1 DEF OwedSums, Sums
<1>5. PICK g : OwedSums(g, t, o)
  BY <1>2, <1>4, ActorsFinite, SumsExist
<1>6. PICK h : OwedSums(h, t, o) /\ OwedOf(t, o) = h[Actors]
  BY <1>5, OwedIs
<1>7. PICK e : Sums(e, f, Actors) /\ SumOver(f, Actors) = e[Actors]
  BY <1>4, <1>5, SumIs
<1>8. Sums(h, f, Actors)
  BY <1>4, <1>6
<1>9. h[Actors] = e[Actors]
  <2>1. \A a \in Actors : f[a] \in Int
    BY <1>2
  <2> QED BY <1>7, <1>8, <2>1, ActorsFinite, SumsAgree
<1> QED BY <1>1, <1>2, <1>6, <1>7, <1>9

\* What is owed changes with one actor's call.
LEMMA OwedChange ==
  ASSUME NEW t, \A a \in Actors : t[a] \in Seq(Steps), NEW o, NEW a \in Actors, NEW u,
         u[a] \in Seq(Steps), \A b \in Actors \ {a} : u[b] = t[b]
  PROVE  /\ OwedOf(u, o) = OwedOf(t, o) - Share(t[a], o) + Share(u[a], o)
         /\ OwedOf(t, o) \in Int /\ OwedOf(u, o) \in Int
         /\ Share(t[a], o) \in Int /\ Share(u[a], o) \in Int
<1>1. \A b \in Actors : u[b] \in Seq(Steps)
  OBVIOUS
<1>2. PICK f, e : f = Shares(t, o) /\ e = Shares(u, o)
  OBVIOUS
<1>3. /\ OwedOf(t, o) = SumOver(f, Actors)
      /\ \A b \in Actors : f[b] = Share(t[b], o) /\ f[b] \in Int
  BY <1>2, OwedIsSum
<1>4. /\ OwedOf(u, o) = SumOver(e, Actors)
      /\ \A b \in Actors : e[b] = Share(u[b], o) /\ e[b] \in Int
  BY <1>1, <1>2, OwedIsSum
<1>5. \A b \in Actors \ {a} : e[b] = f[b]
  BY <1>3, <1>4
<1>6. SumOver(e, Actors) = SumOver(f, Actors) - f[a] + e[a]
  BY <1>3, <1>4, <1>5, ActorsFinite, SumChange
<1>7. SumOver(e, Actors) \in Int /\ SumOver(f, Actors) \in Int
  BY <1>3, <1>4, ActorsFinite, SumType
<1> QED BY <1>3, <1>4, <1>6, <1>7

\* Nobody owes anything.
LEMMA OwedNone ==
  ASSUME NEW t, \A a \in Actors : t[a] \in Seq(Steps), NEW o,
         \A a \in Actors : \A s \in ToSet(t[a]) : s.op # o
  PROVE  OwedOf(t, o) = 0
<1>1. PICK f : f = Shares(t, o)
  OBVIOUS
<1>2. OwedOf(t, o) = SumOver(f, Actors) /\ \A a \in Actors : f[a] = Share(t[a], o)
  BY <1>1, OwedIsSum
<1>3. \A a \in Actors : Share(t[a], o) = 0
  BY ShareNone
<1>4. \A a \in Actors : f[a] = 0
  BY <1>2, <1>3
<1> QED BY <1>2, <1>4, ActorsFinite, SumZero

\* The cost of the entries in m.
CostOf(m) == MapThenSumSet(LAMBDA k : m[k].cost, DOMAIN m)
CostMap(m) == [k \in DOMAIN m |-> m[k].cost]

\* StoredCost as a function of the store, now and in the next state.
LEMMA CostAt == StoredCost = CostOf(store) /\ StoredCost' = CostOf(store')
BY DEF StoredCost, CostOf, MapThenSumSet, MapThenFoldSet

CostSums(h, m) ==
  h = [s \in SUBSET DOMAIN m |-> IF s = {} THEN 0 ELSE m[Chosen(s)].cost + h[s \ {Chosen(s)}]]

\* The recursion under that sum.
LEMMA CostIs ==
  ASSUME NEW m, NEW g, CostSums(g, m)
  PROVE  \E h : CostSums(h, m) /\ CostOf(m) = h[DOMAIN m]
BY DEF CostOf, MapThenSumSet, MapThenFoldSet, CostSums, Chosen

\* The cost of the stored entries is the sum over the stored keys.
LEMMA CostIsSum ==
  ASSUME NEW m, IsFiniteSet(DOMAIN m), \A k \in DOMAIN m : m[k].cost \in Int
  PROVE  /\ CostOf(m) = SumOver(CostMap(m), DOMAIN m)
         /\ \A k \in DOMAIN m : CostMap(m)[k] = m[k].cost
<1>1. PICK f, S : f = CostMap(m) /\ S = DOMAIN m
  OBVIOUS
<1>2. \A k \in S : f[k] = m[k].cost /\ f[k] \in Int
  BY <1>1 DEF CostMap
<1>3. \A s \in SUBSET S : s # {} => Chosen(s) \in S
  BY DEF Chosen
<1>4. \A h : CostSums(h, m) <=> Sums(h, f, S)
  <2> SUFFICES ASSUME NEW h PROVE CostSums(h, m) <=> Sums(h, f, S)
    OBVIOUS
  <2>1. \A s \in SUBSET S :
          (IF s = {} THEN 0 ELSE m[Chosen(s)].cost + h[s \ {Chosen(s)}])
            = (IF s = {} THEN 0 ELSE f[Chosen(s)] + h[s \ {Chosen(s)}])
    BY <1>2, <1>3
  <2> QED BY <1>1, <2>1 DEF CostSums, Sums
<1>5. IsFiniteSet(S) /\ \A k \in S : f[k] \in Int
  BY <1>1, <1>2
<1>6. PICK g : CostSums(g, m)
  BY <1>4, <1>5, SumsExist
<1>7. PICK h : CostSums(h, m) /\ CostOf(m) = h[DOMAIN m]
  BY <1>6, CostIs
<1>8. PICK e : Sums(e, f, S) /\ SumOver(f, S) = e[S]
  BY <1>4, <1>6, SumIs
<1>9. Sums(h, f, S)
  BY <1>4, <1>7
<1>10. h[S] = e[S]
  BY <1>5, <1>8, <1>9, SumsAgree
<1> QED BY <1>1, <1>2, <1>7, <1>8, <1>10

\* An entry that is stored, replaced or removed.
\* What storing value v under key k, and removing it, does to the number of
\* entries and to their cost.
Measures(m, k, v) ==
  /\ k \in DOMAIN m =>
       /\ Cardinality(DOMAIN With(m, k, v)) = Cardinality(DOMAIN m)
       /\ Cardinality(DOMAIN Without(m, {k})) = Cardinality(DOMAIN m) - 1
       /\ CostOf(Without(m, {k})) = CostOf(m) - m[k].cost
       /\ CostOf([m EXCEPT ![k] = v]) = CostOf(m) - m[k].cost + v.cost
  /\ k \notin DOMAIN m =>
       /\ Cardinality(DOMAIN With(m, k, v)) = Cardinality(DOMAIN m) + 1
       /\ CostOf(With(m, k, v)) = CostOf(m) + v.cost

LEMMA StoreSizes ==
  ASSUME NEW m, IsFiniteSet(DOMAIN m), \A k \in DOMAIN m : m[k].cost \in Int,
         NEW k, NEW v, v.cost \in Int
  PROVE  /\ Cardinality(DOMAIN m) \in Nat /\ CostOf(m) \in Int
         /\ DOMAIN m = {} => CostOf(m) = 0 /\ Cardinality(DOMAIN m) = 0
         /\ Measures(m, k, v)
<1>1. PICK f, S : f = CostMap(m) /\ S = DOMAIN m
  OBVIOUS
<1>2. IsFiniteSet(S) /\ CostOf(m) = SumOver(f, S) /\ \A j \in S : f[j] = m[j].cost /\ f[j] \in Int
  BY <1>1, CostIsSum
<1>3. Cardinality(DOMAIN m) \in Nat /\ CostOf(m) \in Int
  BY <1>1, <1>2, FS_CardinalityType, SumType
<1>4. ASSUME S = {} PROVE CostOf(m) = 0 /\ Cardinality(S) = 0
  BY <1>2, <1>4, SumType, FS_EmptySet
<1>5. ASSUME k \in S
      PROVE  /\ Cardinality(DOMAIN With(m, k, v)) = Cardinality(S)
             /\ Cardinality(DOMAIN Without(m, {k})) = Cardinality(S) - 1
             /\ CostOf(Without(m, {k})) = CostOf(m) - m[k].cost
             /\ CostOf([m EXCEPT ![k] = v]) = CostOf(m) - m[k].cost + v.cost
  <2>1. DOMAIN With(m, k, v) = S
    BY <1>1, <1>5 DEF With
  <2>2. Cardinality(S \ {k}) = Cardinality(S) - 1 /\ IsFiniteSet(S \ {k})
    BY <1>2, <1>5, FS_RemoveElement
  <2>3. PICK w, e : w = Without(m, {k}) /\ e = CostMap(w)
    OBVIOUS
  <2>4. DOMAIN w = S \ {k} /\ \A j \in S \ {k} : w[j] = m[j]
    BY <1>1, <2>3 DEF Without
  <2>5. CostOf(w) = SumOver(e, S \ {k}) /\ \A j \in S \ {k} : e[j] = f[j]
    <3>1. IsFiniteSet(DOMAIN w) /\ \A j \in DOMAIN w : w[j].cost \in Int
      BY <1>1, <2>2, <2>4
    <3>2. CostOf(w) = SumOver(e, DOMAIN w) /\ \A j \in DOMAIN w : e[j] = w[j].cost
      BY <2>3, <3>1, CostIsSum
    <3> QED BY <1>2, <2>4, <3>2
  <2>6. CostOf(w) = SumOver(f, S \ {k})
    BY <1>2, <2>2, <2>5, SumCongruence
  <2>7. CostOf(w) = CostOf(m) - m[k].cost
    BY <1>2, <1>5, <2>6, SumDelete
  <2>8. PICK u, d : u = [m EXCEPT ![k] = v] /\ d = CostMap(u)
    OBVIOUS
  <2>9. DOMAIN u = S /\ u[k] = v /\ \A j \in S \ {k} : u[j] = m[j]
    BY <1>1, <1>5, <2>8
  <2>10. CostOf(u) = SumOver(d, S) /\ d[k] = v.cost /\ \A j \in S \ {k} : d[j] = f[j]
    <3>1. IsFiniteSet(DOMAIN u) /\ \A j \in DOMAIN u : u[j].cost \in Int
      BY <1>1, <1>2, <2>9
    <3>2. CostOf(u) = SumOver(d, DOMAIN u) /\ \A j \in DOMAIN u : d[j] = u[j].cost
      BY <2>8, <3>1, CostIsSum
    <3> QED BY <1>2, <1>5, <2>9, <3>2
  <2>11. SumOver(d, S) = SumOver(f, S) - f[k] + d[k]
    BY <1>2, <1>5, <2>10, SumChange
  <2> QED BY <1>2, <1>5, <2>1, <2>2, <2>3, <2>4, <2>7, <2>8, <2>10, <2>11
<1>6. ASSUME k \notin S
      PROVE  /\ Cardinality(DOMAIN With(m, k, v)) = Cardinality(S) + 1
             /\ CostOf(With(m, k, v)) = CostOf(m) + v.cost
  <2>1. PICK w, e : w = With(m, k, v) /\ e = CostMap(w)
    OBVIOUS
  <2>2. DOMAIN w = S \cup {k} /\ w[k] = v /\ \A j \in S : w[j] = m[j]
    BY <1>1, <1>6, <2>1 DEF With
  <2>3. IsFiniteSet(S \cup {k}) /\ Cardinality(S \cup {k}) = Cardinality(S) + 1
    BY <1>2, <1>6, FS_AddElement
  <2>4. CostOf(w) = SumOver(e, S \cup {k}) /\ e[k] = v.cost /\ \A j \in S : e[j] = f[j]
    <3>1. IsFiniteSet(DOMAIN w) /\ \A j \in DOMAIN w : w[j].cost \in Int
      BY <1>1, <2>2, <2>3
    <3>2. CostOf(w) = SumOver(e, DOMAIN w) /\ \A j \in DOMAIN w : e[j] = w[j].cost
      BY <2>1, <3>1, CostIsSum
    <3> QED BY <1>2, <2>2, <3>2
  <2>5. SumOver(e, S \cup {k}) = SumOver(e, S) + e[k]
    <3>1. \A j \in S \cup {k} : e[j] \in Int
      BY <1>2, <2>4
    <3> QED BY <1>2, <1>6, <3>1, SumInsert
  <2>6. SumOver(f, S) = SumOver(e, S)
    BY <1>2, <2>4, SumCongruence
  <2> QED BY <1>2, <2>1, <2>2, <2>3, <2>4, <2>5, <2>6
<1>7. Measures(m, k, v)
  BY <1>1, <1>5, <1>6 DEF Measures
<1> QED BY <1>1, <1>3, <1>4, <1>7

(* What else a call is: Unlock comes last, tryUpdateExisting and Add come  *)
(* first, and there is one Put.                                            *)
Has(q, o) == \E s \in ToSet(q) : s.op = o
LastOps == {"Unlock", "ClearLock", "ExpireLock"}
Before(s, t) ==
  /\ s.op \notin LastOps /\ t.op \notin {"Update", "Add"}
  /\ ~(s.op = "Put" /\ t.op = "Put")
Ordered(q) == \A i, j \in 1 .. Len(q) : i < j => Before(q[i], q[j])

ListInv ==
  \A a \in Actors :
    /\ Ordered(todo[a])
    /\ \A s \in ToSet(todo[a]) :
         /\ s.key = AnyKey => s.op \in ClearOps
         /\ s.op = "ClearShard" => Clearing(todo[a])
         /\ s.op = "ClearLock" => a \in Clients

(* Who clears or expires holds clearMu. *)
LockInv ==
  /\ \A a \in Actors : Has(todo[a], "Unlock") => a \in clearMu
  /\ \A a \in Actors : Clearing(todo[a]) => Has(todo[a], "Unlock") /\ a \in Clients
  /\ \A s \in ToSet(todo[Worker]) : s.op = "ExpireLock" \/ Has(todo[Worker], "Unlock")

(* doSet of a key that nobody else works on stores it anew. *)
NewInv ==
  \A k \in Keys \ raced, a \in Actors : \A s \in ToSet(todo[a]) :
    s.op \in {"Add", "Put"} /\ s.key = k => k \notin DOMAIN store

ClearAlone ==
  ~clearRaced => \A a, b \in Actors \ {Worker} :
    a # b /\ Clearing(todo[a]) => \A k \in Keys : ~Works(todo[b], k)

(* What Clear has not emptied yet, it still has to. *)
Resets(a) ==
  /\ \A k \in DOMAIN store : \E s \in ToSet(todo[a]) : s.op = "ClearShard" /\ s.key = k
  /\ Has(todo[a], "ClearSize") \/ size = 0
  /\ Has(todo[a], "ClearCost") \/ liveCost = 0

ResetInv == ~clearRaced => \A a \in Clients : Clearing(todo[a]) => Resets(a)

ExactInv == ListInv /\ LockInv /\ NewInv /\ ClearAlone /\ ResetInv /\ LenExact /\ CostExact

(* The sections that take the place of section h.                          *)
Follows(h, steps) ==
  /\ Ordered(steps)
  /\ \A s \in ToSet(steps) :
       /\ s.op \in LastOps => s.op = "Unlock" /\ h.op \in {"ClearLock", "ExpireLock"}
       /\ s.key = AnyKey => s.op \in ClearOps /\ h.op = "ClearLock"
       /\ s.op = "ClearShard" => h.op = "ClearLock"
       /\ s.op = "Add" => s.key \notin DOMAIN store /\ store' = store
       /\ s.op = "Put" => h.op = "Add" /\ s.key = h.key
  /\ h.op \in {"ClearLock", "ExpireLock"} => Has(steps, "Unlock")
  /\ h.op = "ClearLock" =>
       /\ Clearing(steps) /\ Has(steps, "ClearSize") /\ Has(steps, "ClearCost")
       /\ \A k \in Keys : \E s \in ToSet(steps) : s.op = "ClearShard" /\ s.key = k
  /\ h.op \in ClearCalls \ {"ClearLock"} => steps = <<>>

(* What section h of actor a does to clearMu, the store and the counters.  *)
Locks(a, h) ==
  /\ h.op \in {"ClearLock", "ExpireLock"} => Lock(a)
  /\ h.op = "Unlock" => clearMu' = clearMu \ {a}
  /\ h.op \notin LastOps => clearMu' = clearMu

Moves(h) ==
  /\ DOMAIN store' \subseteq DOMAIN store \cup (IF h.op = "Put" THEN {h.key} ELSE {})
  /\ h.op = "ClearShard" => h.key \notin DOMAIN store'
  /\ h.op \notin {"Update", "Evict", "Put", "Remove", "Expire", "ClearShard"} => store' = store
  /\ h.op = "ClearSize" => size' = 0
  /\ h.op \notin {"Size", "ClearSize"} => size' = size
  /\ h.op = "ClearCost" => liveCost' = 0
  /\ h.op \notin {"Cost", "ClearCost"} => liveCost' = liveCost

Balance(h, steps) ==
  /\ h.op \notin {"ClearShard", "ClearSize"} =>
       size' + Share(steps, "Size") - Val(h, "Size") - Cardinality(DOMAIN store')
         = size - Cardinality(DOMAIN store)
  /\ h.op \notin {"ClearShard", "ClearCost"} /\ (h.op = "Put" => h.key \notin DOMAIN store) =>
       liveCost' + Share(steps, "Cost") - Val(h, "Cost") - CostOf(store')
         = liveCost - CostOf(store)

(* The sections that write a key, and those that carry on write w; what w   *)
(* leaves in a store.                                                      *)
WriteOps == {"Peek", "Update", "Add", "Put", "Remove"}
Stems(s, w) ==
  s.key = w.key /\ s.n = w.n /\ s.exp = w.exp /\ (s.op = "Remove" <=> w.op = "Remove")
Writing(q) == \E s \in ToSet(q) : s.op \in WriteOps
Leaves(m, w) ==
  w.key \in DOMAIN m => w.op # "Remove" /\ m[w.key] = [cost |-> w.n, exp |-> w.exp]

(* What section h does to the entries, and to the write it belongs to.     *)
Carries(h, steps) ==
  /\ \A s \in ToSet(steps) : s.op \in WriteOps => h.op \in WriteOps /\ Stems(s, h)
  /\ \A k \in DOMAIN store' : h.op \notin WriteOps \/ k # h.key =>
       k \in DOMAIN store /\ store'[k] = store[k]
  /\ h.op \in WriteOps => Writing(steps) \/ Leaves(store', h)

Turn(a, steps) ==
  /\ ~Idle(a) /\ Head(todo[a]).op # "Push" /\ steps \in Seq(PlainSteps) /\ Then(a, steps)
  /\ Follows(Head(todo[a]), steps) /\ Locks(a, Head(todo[a]))
  /\ Moves(Head(todo[a])) /\ Balance(Head(todo[a]), steps) /\ Carries(Head(todo[a]), steps)

\* Two lists in order, the first before the second, make one.
LEMMA OrderedConcat ==
  ASSUME NEW S, NEW p \in Seq(S), NEW q \in Seq(S), Ordered(p), Ordered(q),
         \A s \in ToSet(p), t \in ToSet(q) : Before(s, t)
  PROVE  Ordered(p \o q)
<1>1. Len(p) \in Nat /\ Len(q) \in Nat /\ Len(p \o q) = Len(p) + Len(q)
  BY ConcatProperties, LenProperties
<1>2. \A i \in 1 .. Len(p) : (p \o q)[i] = p[i]
  OBVIOUS
<1>3. \A i \in Len(p) + 1 .. Len(p) + Len(q) :
        (p \o q)[i] = q[i - Len(p)] /\ i - Len(p) \in 1 .. Len(q)
  BY <1>1
<1> SUFFICES ASSUME NEW i \in 1 .. Len(p \o q), NEW j \in 1 .. Len(p \o q), i < j
             PROVE  Before((p \o q)[i], (p \o q)[j])
  BY DEF Ordered
<1>4. CASE j <= Len(p)
  <2>1. i \in 1 .. Len(p) /\ j \in 1 .. Len(p)  BY <1>1, <1>4
  <2> QED BY <1>2, <2>1 DEF Ordered
<1>5. CASE i > Len(p)
  <2>1. i \in Len(p) + 1 .. Len(p) + Len(q) /\ j \in Len(p) + 1 .. Len(p) + Len(q)
    BY <1>1, <1>5
  <2>2. i - Len(p) < j - Len(p)  BY <1>1
  <2> QED BY <1>3, <2>1, <2>2 DEF Ordered
<1>6. CASE i <= Len(p) /\ j > Len(p)
  <2>1. i \in 1 .. Len(p) /\ j \in Len(p) + 1 .. Len(p) + Len(q)
    BY <1>1, <1>6
  <2>2. p[i] \in ToSet(p) /\ q[j - Len(p)] \in ToSet(q)
    BY <1>3, <2>1, ElementsInSet
  <2> QED BY <1>2, <1>3, <2>1, <2>2
<1> QED BY <1>1, <1>4, <1>5, <1>6

\* What is left of a list in order.
LEMMA OrderedTail ==
  ASSUME NEW S, NEW q \in Seq(S), q # <<>>, Ordered(q)
  PROVE  Ordered(Tail(q)) /\ \A t \in ToSet(Tail(q)) : Before(Head(q), t)
<1>1. /\ Tail(q) \in Seq(S) /\ Len(Tail(q)) = Len(q) - 1 /\ Len(q) \in Nat \ {0}
      /\ \A i \in 1 .. Len(Tail(q)) : Tail(q)[i] = q[i + 1]
      /\ Head(q) = q[1]
  BY HeadTailProperties, EmptySeq
<1>2. Ordered(Tail(q))
  BY <1>1 DEF Ordered
<1>3. ASSUME NEW t \in ToSet(Tail(q)) PROVE Before(Head(q), t)
  <2>1. PICK i \in 1 .. Len(Tail(q)) : t = Tail(q)[i]
    BY <1>1, LenProperties DEF ToSet
  <2>2. 1 \in 1 .. Len(q) /\ i + 1 \in 1 .. Len(q) /\ 1 < i + 1 /\ t = q[i + 1]
    BY <1>1, <2>1
  <2> QED BY <1>1, <2>2 DEF Ordered
<1> QED BY <1>2, <1>3

\* Clearing and Works, by the sections of the call.
LEMMA ClearingHas ==
  ASSUME NEW q
  PROVE  /\ Clearing(q) <=> \E s \in ToSet(q) : s.key = AnyKey
         /\ \A k : Works(q, k) <=> /\ q # <<>> /\ Head(q).op # "Push"
                                   /\ \E s \in ToSet(q) : s.key \in {k, AnyKey}
BY DEF Clearing, Works, ToSet

\* The call of actor a before and after a turn.
LEMMA TurnLists ==
  ASSUME CacheInv, ListInv, NEW a \in Actors, NEW steps, Turn(a, steps)
  PROVE  /\ Head(todo[a]) \in PlainSteps /\ Tail(todo[a]) \in Seq(PlainSteps)
         /\ steps \in Seq(PlainSteps)
         /\ ToSet(todo[a]) = {Head(todo[a])} \cup ToSet(Tail(todo[a]))
         /\ todo'[a] = steps \o Tail(todo[a]) /\ todo[a] \in Seq(PlainSteps)
         /\ ToSet(todo'[a]) = ToSet(steps) \cup ToSet(Tail(todo[a]))
         /\ \A b \in Actors \ {a} : todo'[b] = todo[b]
         /\ Ordered(Tail(todo[a]))
         /\ \A t \in ToSet(Tail(todo[a])) : Before(Head(todo[a]), t) /\ Zone(Head(todo[a])) <= Zone(t)
<1> DEFINE h == Head(todo[a])
           tail == Tail(todo[a])
<1>1. /\ todo[a] \in Seq(PlainSteps) /\ todo[a] # <<>> /\ h \in PlainSteps
      /\ tail \in Seq(PlainSteps) /\ ToSet(todo[a]) = {h} \cup ToSet(tail)
  BY PlainCall DEF CacheInv, Turn
<1>2. /\ todo' = [todo EXCEPT ![a] = steps \o tail] /\ steps \in Seq(PlainSteps)
      /\ todo \in [Actors -> Seq(PlainSteps) \cup PushCalls]
  BY DEF Turn, Then, CacheInv, CallInv
<1>3. todo'[a] = steps \o tail /\ \A b \in Actors \ {a} : todo'[b] = todo[b]
  BY <1>2
<1>4. ToSet(steps \o tail) = ToSet(steps) \cup ToSet(tail)
  <2> HIDE DEF tail
  <2> QED BY <1>1, <1>2, ElementsOfConcat
<1>5. Ordered(tail) /\ \A t \in ToSet(tail) : Before(h, t)
  BY <1>1, OrderedTail DEF ListInv
<1>6. \A t \in ToSet(tail) : Zone(h) <= Zone(t)
  BY <1>1, SortedTail DEF CacheInv, OrderInv
<1> QED BY <1>1, <1>2, <1>3, <1>4, <1>5, <1>6

\* A turn keeps the calls in order.
LEMMA TurnList ==
  ASSUME CacheInv, ListInv, NEW a \in Actors, NEW steps, Turn(a, steps)
  PROVE  ListInv'
<1> DEFINE h == Head(todo[a])
           tail == Tail(todo[a])
<1>1. /\ h \in PlainSteps /\ tail \in Seq(PlainSteps) /\ steps \in Seq(PlainSteps)
      /\ ToSet(todo[a]) = {h} \cup ToSet(tail) /\ todo'[a] = steps \o tail
      /\ ToSet(todo'[a]) = ToSet(steps) \cup ToSet(tail)
      /\ \A b \in Actors \ {a} : todo'[b] = todo[b]
      /\ Ordered(tail)
      /\ \A t \in ToSet(tail) : Before(h, t) /\ Zone(h) <= Zone(t)
  BY TurnLists
<1>2. Follows(h, steps)
  BY DEF Turn
<1> HIDE DEF h, tail
<1>3. Ordered(steps \o tail)
  <2>1. ASSUME NEW s \in ToSet(steps), NEW t \in ToSet(tail) PROVE Before(s, t)
    <3>1. Before(h, t)
      BY <1>1
    <3>2. s.op \notin LastOps
      BY <1>2, <3>1 DEF Follows, Before, LastOps
    <3>3. ~(s.op = "Put" /\ t.op = "Put")
      <4>1. ASSUME h.op = "Add", t.op = "Put" PROVE FALSE
        <5>1. Zone(h) = 3 /\ Zone(t) = 2
          BY <4>1 DEF Zone, Small
        <5> QED BY <1>1, <5>1
      <4> QED BY <1>2, <4>1 DEF Follows
    <3> QED BY <3>1, <3>2, <3>3 DEF Before
  <2> QED BY <1>1, <1>2, <2>1, OrderedConcat DEF Follows
<1>4. ASSUME NEW s \in ToSet(todo'[a])
      PROVE  /\ s.key = AnyKey => s.op \in ClearOps
             /\ s.op = "ClearShard" => Clearing(todo'[a])
             /\ s.op = "ClearLock" => a \in Clients
  <2>1. CASE s \in ToSet(steps)
    <3>1. s.op = "ClearShard" => Clearing(steps)
      BY <1>2, <2>1 DEF Follows
    <3>2. Clearing(steps) => Clearing(todo'[a])
      BY <1>1, ClearingHas
    <3> QED BY <1>2, <2>1, <3>1, <3>2 DEF Follows, LastOps
  <2>2. CASE s \in ToSet(tail)
    <3>1. s \in ToSet(todo[a])
      BY <1>1, <2>2
    <3>2. /\ s.key = AnyKey => s.op \in ClearOps
          /\ s.op = "ClearShard" => Clearing(todo[a])
          /\ s.op = "ClearLock" => a \in Clients
      BY <3>1 DEF ListInv
    <3>3. ASSUME s.op = "ClearShard" PROVE Clearing(todo'[a])
      <4>1. PICK t \in ToSet(todo[a]) : t.key = AnyKey
        BY <3>2, <3>3, ClearingHas
      <4>2. t.op \in ClearOps
        BY <4>1 DEF ListInv
      <4>3. t # h
        <5> SUFFICES ASSUME t = h PROVE FALSE
          OBVIOUS
        <5>1. Zone(h) = 3 /\ Zone(s) = 0
          BY <3>3, <4>2 DEF Zone, Small, ClearOps
        <5> QED BY <1>1, <2>2, <5>1
      <4> QED BY <1>1, <4>1, <4>3, ClearingHas
    <3> QED BY <3>2, <3>3
  <2> QED BY <1>1, <2>1, <2>2
<1>5. ASSUME NEW b \in Actors
      PROVE  /\ Ordered(todo'[b])
             /\ \A s \in ToSet(todo'[b]) :
                  /\ s.key = AnyKey => s.op \in ClearOps
                  /\ s.op = "ClearShard" => Clearing(todo'[b])
                  /\ s.op = "ClearLock" => b \in Clients
  <2>1. CASE b = a
    BY <1>1, <1>3, <1>4, <2>1
  <2>2. CASE b # a
    BY <1>1, <2>2 DEF ListInv
  <2> QED BY <2>1, <2>2
<1> QED BY <1>5 DEF ListInv

\* A turn keeps clearMu with who clears or expires.
LEMMA TurnLock ==
  ASSUME CacheInv, ListInv, LockInv, NEW a \in Actors, NEW steps, Turn(a, steps)
  PROVE  LockInv'
<1> DEFINE h == Head(todo[a])
           tail == Tail(todo[a])
<1>1. /\ ToSet(todo[a]) = {h} \cup ToSet(tail)
      /\ ToSet(todo'[a]) = ToSet(steps) \cup ToSet(tail)
      /\ \A b \in Actors \ {a} : todo'[b] = todo[b]
      /\ \A t \in ToSet(tail) : Before(h, t)
  BY TurnLists
<1>2. Follows(h, steps) /\ Locks(a, h)
  BY DEF Turn
<1> HIDE DEF h, tail
<1>3. h.op \in LastOps => ToSet(tail) = {}
  BY <1>1 DEF Before
<1>e. ToSet(<<>>) = {}
  BY ElementsOfTuple
<1>4. ASSUME NEW b \in Actors, Has(todo'[b], "Unlock") PROVE b \in clearMu'
  <2>1. CASE h.op \in {"ClearLock", "ExpireLock"}
    <3>1. clearMu = {} /\ clearMu' = {a}
      BY <1>2, <2>1 DEF Locks, Lock
    <3>2. b # a => Has(todo[b], "Unlock")
      BY <1>1, <1>4
    <3> QED BY <3>1, <3>2 DEF LockInv
  <2>2. CASE h.op = "Unlock"
    <3>1. clearMu' = clearMu \ {a}
      BY <1>2, <2>2 DEF Locks
    <3>2. ToSet(todo'[a]) = {}
      BY <1>1, <1>2, <1>3, <1>e, <2>2 DEF Follows, LastOps, ClearCalls
    <3>3. b # a
      BY <1>4, <3>2 DEF Has
    <3>4. Has(todo[b], "Unlock")
      BY <1>1, <1>4, <3>3
    <3> QED BY <3>1, <3>3, <3>4 DEF LockInv
  <2>3. CASE h.op \notin LastOps
    <3>1. clearMu' = clearMu
      BY <1>2, <2>3 DEF Locks
    <3>2. Has(todo[b], "Unlock")
      <4>1. CASE b # a
        BY <1>1, <1>4, <4>1
      <4>2. CASE b = a
        <5>1. PICK s \in ToSet(steps) \cup ToSet(tail) : s.op = "Unlock"
          BY <1>1, <1>4, <4>2 DEF Has
        <5>2. s \notin ToSet(steps)
          BY <1>2, <2>3, <5>1 DEF Follows, LastOps
        <5> QED BY <1>1, <4>2, <5>1, <5>2 DEF Has
      <4> QED BY <4>1, <4>2
    <3> QED BY <3>1, <3>2 DEF LockInv
  <2> QED BY <2>1, <2>2, <2>3 DEF LastOps
<1>5. Has(todo[a], "Unlock") => ToSet(todo'[a]) = {} \/ Has(todo'[a], "Unlock")
  <2>1. CASE h.op = "Unlock"
    BY <1>1, <1>2, <1>3, <1>e, <2>1 DEF Follows, LastOps, ClearCalls
  <2>2. CASE h.op # "Unlock"
    BY <1>1, <2>2 DEF Has
  <2> QED BY <2>1, <2>2
<1>6. ASSUME NEW b \in Actors, Clearing(todo'[b]) PROVE Has(todo'[b], "Unlock") /\ b \in Clients
  <2>1. CASE b # a
    BY <1>1, <1>6, <2>1 DEF LockInv
  <2>2. CASE b = a
    <3>1. PICK s \in ToSet(steps) \cup ToSet(tail) : s.key = AnyKey
      BY <1>1, <1>6, <2>2, ClearingHas
    <3>2. CASE s \in ToSet(steps)
      <4>1. h.op = "ClearLock" /\ Has(steps, "Unlock")
        BY <1>2, <3>1, <3>2 DEF Follows
      <4>2. a \in Clients
        BY <1>1, <4>1 DEF ListInv
      <4> QED BY <1>1, <2>2, <4>1, <4>2 DEF Has
    <3>3. CASE s \in ToSet(tail)
      <4>1. Clearing(todo[a])
        BY <1>1, <3>1, <3>3, ClearingHas
      <4>2. Has(todo[a], "Unlock") /\ a \in Clients
        BY <4>1 DEF LockInv
      <4> QED BY <1>1, <1>5, <2>2, <3>3, <4>2
    <3> QED BY <3>1, <3>2, <3>3
  <2> QED BY <2>1, <2>2
<1>7. ASSUME NEW s \in ToSet(todo'[Worker]) PROVE s.op = "ExpireLock" \/ Has(todo'[Worker], "Unlock")
  <2>0. Worker \in Actors
    BY DEF Actors
  <2>1. CASE a # Worker
    BY <1>1, <1>7, <2>0, <2>1 DEF LockInv
  <2>2. CASE a = Worker
    <3>1. CASE h.op \in {"ClearLock", "ExpireLock"}
      BY <1>1, <1>2, <2>2, <3>1 DEF Follows, Has
    <3>2. CASE h.op \notin {"ClearLock", "ExpireLock"}
      <4>1. h.op = "ExpireLock" \/ Has(todo[a], "Unlock")
        BY <1>1, <2>2 DEF LockInv
      <4> QED BY <1>5, <1>7, <2>2, <3>2, <4>1
    <3> QED BY <3>1, <3>2
  <2> QED BY <2>1, <2>2
<1> QED BY <1>4, <1>6, <1>7 DEF LockInv

\* A turn keeps doSet to keys that are not stored.
LEMMA TurnNew ==
  ASSUME CacheInv, ListInv, NewInv, raced \subseteq raced', NEW a \in Actors, NEW steps, Turn(a, steps)
  PROVE  NewInv'
<1> DEFINE h == Head(todo[a])
           tail == Tail(todo[a])
<1>1. /\ ToSet(todo[a]) = {h} \cup ToSet(tail) /\ todo[a] # <<>> /\ h.op # "Push"
      /\ ToSet(todo'[a]) = ToSet(steps) \cup ToSet(tail)
      /\ \A b \in Actors \ {a} : todo'[b] = todo[b]
      /\ \A t \in ToSet(tail) : Before(h, t)
  BY TurnLists DEF Turn, Idle
<1>2. Follows(h, steps) /\ Moves(h)
  BY DEF Turn
<1>3. \A b \in Actors : todo[b] # <<>> /\ Head(todo[b]).op = "Push" =>
        \A s \in ToSet(todo[b]) : s.op \notin {"Add", "Put"}
  <2> SUFFICES ASSUME NEW b \in Actors, Doing(b, "Push"), NEW s \in ToSet(todo[b])
               PROVE  s.op \notin {"Add", "Put"}
    BY DEF Doing, Idle
  <2>1. PICK w, x : w \in WriteSteps /\ todo[b] = <<x, w>> /\ x.op = "Push"
    BY PushCall, StructTypes, StepFields
  <2>2. s \in {x, w}
    BY <2>1, ElementsOfPair
  <2> QED BY <2>1, <2>2 DEF WriteSteps
<1> HIDE DEF h, tail
<1> SUFFICES ASSUME NEW k \in Keys \ raced', NEW b \in Actors, NEW s \in ToSet(todo'[b]),
                    s.op \in {"Add", "Put"}, s.key = k
             PROVE  k \notin DOMAIN store'
  BY DEF NewInv
<1>k. k \in Keys \ raced
  OBVIOUS
<1>4. CASE b # a
  <2>1. s \in ToSet(todo[b]) /\ k \notin DOMAIN store
    BY <1>1, <1>4, <1>k DEF NewInv
  <2>2. CASE h.op = "Put" /\ h.key = k
    <3>1. Works(todo[a], k)
      BY <1>1, <2>2, ClearingHas DEF h
    <3>2. todo[b] # <<>>
      BY <2>1, ElementsOfTuple
    <3>3. Head(todo[b]).op # "Push"
      BY <1>3, <2>1, <3>2
    <3>4. Works(todo[b], k)
      BY <2>1, <3>2, <3>3, ClearingHas
    <3> QED BY <1>4, <1>k, <3>1, <3>4, StructTypes DEF AloneInv
  <2>3. CASE ~(h.op = "Put" /\ h.key = k)
    BY <1>2, <2>1, <2>3 DEF Moves
  <2> QED BY <2>2, <2>3
<1>5. CASE b = a /\ s \in ToSet(steps)
  <2>1. CASE s.op = "Add"
    BY <1>2, <1>5, <2>1 DEF Follows
  <2>2. CASE s.op = "Put"
    <3>1. h.op = "Add" /\ h.key = k
      BY <1>2, <1>5, <2>2 DEF Follows
    <3>2. k \notin DOMAIN store
      BY <1>1, <1>k, <3>1 DEF NewInv
    <3>3. store' = store
      BY <1>2, <3>1 DEF Moves
    <3> QED BY <3>2, <3>3
  <2> QED BY <2>1, <2>2
<1>6. CASE b = a /\ s \in ToSet(tail)
  <2>1. k \notin DOMAIN store
    BY <1>1, <1>6, <1>k DEF NewInv
  <2>2. h.op # "Put"
    BY <1>1, <1>6 DEF Before
  <2> QED BY <1>2, <2>1, <2>2 DEF Moves
<1> QED BY <1>1, <1>4, <1>5, <1>6

\* While a Clear runs that overlaps no other client's call, only the worker's
\* and the other clients' waiting is left, and calls that have not been pushed.
LEMMA ClearQuiet ==
  ASSUME CacheInv, ListInv, LockInv, ClearAlone, ~clearRaced, NEW c \in Clients, Clearing(todo[c])
  PROVE  /\ \A s \in ToSet(todo[c]) : s.op \in ClearCalls
         /\ c \in clearMu
         /\ \A b \in Actors \ {c} : \A s \in ToSet(todo[b]) :
              \/ todo[b] # <<>> /\ Head(todo[b]).op = "Push" /\ s.op \in {"Push", "Peek", "Remove"}
              \/ s.op \notin KeyOps \cup ClearOps \cup {"Push"}
<1>0. c \in Actors /\ c # Worker /\ Worker \in Actors
  BY CacheAssumption DEF Actors
<1>1. \A s \in ToSet(todo[c]) : s.op \in ClearCalls
  <2>1. PICK t \in ToSet(todo[c]) : t.key = AnyKey
    BY ClearingHas
  <2>2. t.op \in ClearSteps
    BY <1>0, <2>1 DEF ListInv, ClearSteps
  <2> QED BY <1>0, <2>1, <2>2, StructTypes DEF OrderInv
<1>2. c \in clearMu
  BY <1>0 DEF LockInv
<1>3. \A b \in clearMu : b = c
  <2> SUFFICES ASSUME NEW b \in clearMu, b # c PROVE FALSE
    OBVIOUS
  <2>1. IsFiniteSet(clearMu) /\ Cardinality(clearMu) <= 1
    BY StructTypes DEF StructType
  <2>2. IsFiniteSet(clearMu \ {c}) /\ Cardinality(clearMu \ {c}) = Cardinality(clearMu) - 1
    BY <1>2, <2>1, FS_RemoveElement
  <2>3. Cardinality(clearMu \ {c}) \in Nat /\ Cardinality(clearMu) \in Nat
    BY <2>1, <2>2, FS_CardinalityType
  <2>4. Cardinality(clearMu \ {c}) = 0
    BY <2>1, <2>2, <2>3
  <2>5. clearMu \ {c} = {}
    BY <2>2, <2>4, FS_EmptySet
  <2> QED BY <2>5
<1>4. ASSUME NEW b \in Actors, b # c, NEW s \in ToSet(todo[b])
      PROVE  \/ todo[b] # <<>> /\ Head(todo[b]).op = "Push" /\ s.op \in {"Push", "Peek", "Remove"}
             \/ s.op \notin KeyOps \cup ClearOps \cup {"Push"}
  <2>0. todo[b] # <<>>
    BY <1>4, ElementsOfTuple
  <2>1. CASE Head(todo[b]).op = "Push"
    <3>1. PICK w, x : w \in WriteSteps /\ todo[b] = <<x, w>> /\ x.op = "Push"
      BY <1>4, <2>0, <2>1, PushCall, StructTypes, StepFields DEF Doing, Idle
    <3>2. s \in {x, w}
      BY <1>4, <3>1, ElementsOfPair
    <3> QED BY <2>0, <2>1, <3>1, <3>2 DEF WriteSteps
  <2>2. CASE Head(todo[b]).op # "Push" /\ b = Worker
    <3>1. ~Has(todo[b], "Unlock")
      BY <1>3, <1>4 DEF LockInv
    <3> QED BY <1>4, <2>2, <3>1 DEF LockInv, KeyOps, ClearOps
  <2>3. CASE Head(todo[b]).op # "Push" /\ b # Worker
    <3>1. s \in PlainSteps
      <4>1. todo[b] \in Seq(PlainSteps)
        BY <1>4, <2>0, <2>3, PlainCall, StructTypes DEF Idle
      <4> QED BY <1>4, <4>1, ElementsInSet
    <3>2. s.op \notin ClearOps
      <4> SUFFICES ASSUME s.op \in ClearOps PROVE FALSE
        OBVIOUS
      <4>1. s.key = AnyKey
        BY <3>1 DEF PlainSteps
      <4>2. Clearing(todo[b])
        BY <1>4, <4>1, ClearingHas
      <4>3. b \in clearMu
        BY <1>4, <4>2 DEF LockInv
      <4> QED BY <1>3, <1>4, <4>3
    <3>3. s.op \notin KeyOps
      <4> SUFFICES ASSUME s.op \in KeyOps PROVE FALSE
        OBVIOUS
      <4>1. s.key \in Keys
        BY <3>1 DEF PlainSteps
      <4>2. Works(todo[b], s.key)
        BY <1>4, <2>0, <2>3, ClearingHas
      <4> QED BY <1>0, <1>4, <2>3, <4>1, <4>2 DEF ClearAlone
    <3> QED BY <3>1, <3>2, <3>3 DEF PlainSteps
  <2> QED BY <2>1, <2>2, <2>3
<1> QED BY <1>1, <1>2, <1>4

\* Then no counter is owed anything.
LEMMA ClearOwes ==
  ASSUME CacheInv, ListInv, LockInv, ClearAlone, ~clearRaced, NEW c \in Clients, Clearing(todo[c]),
         NEW o \in {"Size", "Cost"}
  PROVE  OwedOf(todo, o) = 0
<1>1. \A a \in Actors : todo[a] \in Seq(Steps)
  BY DEF CacheInv, TypeOK
<1>2. ASSUME NEW a \in Actors, NEW s \in ToSet(todo[a]) PROVE s.op # o
  <2>1. CASE a = c
    BY <1>2, <2>1, ClearQuiet DEF ClearCalls, ClearSteps, ClearOps
  <2>2. CASE a # c
    <3>1. s.op \in {"Push", "Peek", "Remove"} \/ s.op \notin KeyOps
      BY <1>2, <2>2, ClearQuiet
    <3> QED BY <3>1 DEF KeyOps
  <2> QED BY <2>1, <2>2
<1> QED BY <1>1, <1>2, OwedNone

\* A turn while client c clears leaves what Clear has not emptied to c.
LEMMA TurnResets ==
  ASSUME CacheInv, ListInv, LockInv, ClearAlone, ~clearRaced, NEW c \in Clients, Clearing(todo[c]),
         Resets(c), NEW a \in Actors, NEW steps, Turn(a, steps)
  PROVE  /\ Resets(c)'
         /\ a = c => Head(todo[a]).op \in ClearCalls
<1> DEFINE h == Head(todo[a])
           tail == Tail(todo[a])
<1>0. c \in Actors
  BY DEF Actors
<1>1. /\ ToSet(todo[a]) = {h} \cup ToSet(tail) /\ h.op # "Push"
      /\ ToSet(todo'[a]) = ToSet(steps) \cup ToSet(tail)
      /\ \A b \in Actors \ {a} : todo'[b] = todo[b]
  BY TurnLists DEF Turn, Idle
<1>2. Moves(h)
  BY DEF Turn
<1>3. CASE a # c
  <2>1. h.op \notin KeyOps \cup ClearOps
    BY <1>1, <1>3, ClearQuiet
  <2>2. store' = store /\ size' = size /\ liveCost' = liveCost
    BY <1>2, <2>1 DEF Moves, KeyOps, ClearOps
  <2>3. todo'[c] = todo[c]
    BY <1>0, <1>1, <1>3
  <2> QED BY <1>3, <2>2, <2>3 DEF Resets
<1>4. CASE a = c
  <2> HIDE DEF h, tail
  <2>1. h.op \in ClearCalls
    BY <1>1, <1>4, ClearQuiet
  <2>2. DOMAIN store' \subseteq DOMAIN store
    BY <1>2, <2>1 DEF Moves, ClearCalls, ClearSteps, ClearOps
  <2>3. ASSUME NEW k \in DOMAIN store'
        PROVE  \E s \in ToSet(todo'[c]) : s.op = "ClearShard" /\ s.key = k
    <3>1. PICK s \in ToSet(todo[c]) : s.op = "ClearShard" /\ s.key = k
      BY <2>2, <2>3 DEF Resets
    <3>2. s # h
      BY <1>2, <2>3, <3>1 DEF Moves
    <3> QED BY <1>1, <1>4, <3>1, <3>2
  <2>4. Has(todo'[c], "ClearSize") \/ size' = 0
    <3>1. CASE h.op = "ClearSize"
      BY <1>2, <3>1 DEF Moves
    <3>2. CASE h.op # "ClearSize"
      <4>1. size' = size
        BY <1>2, <2>1, <3>2 DEF Moves, ClearCalls, ClearSteps, ClearOps
      <4> QED BY <1>1, <1>4, <3>2, <4>1 DEF Resets, Has
    <3> QED BY <3>1, <3>2
  <2>5. Has(todo'[c], "ClearCost") \/ liveCost' = 0
    <3>1. CASE h.op = "ClearCost"
      BY <1>2, <3>1 DEF Moves
    <3>2. CASE h.op # "ClearCost"
      <4>1. liveCost' = liveCost
        BY <1>2, <2>1, <3>2 DEF Moves, ClearCalls, ClearSteps, ClearOps
      <4> QED BY <1>1, <1>4, <3>2, <4>1 DEF Resets, Has
    <3> QED BY <3>1, <3>2
  <2> QED BY <2>1, <2>3, <2>4, <2>5 DEF Resets, h
<1> QED BY <1>3, <1>4

\* A turn keeps what a Clear has not emptied on its list.
LEMMA TurnReset ==
  ASSUME CacheInv, CacheInv', ListInv, LockInv, ClearAlone, ResetInv, Observe,
         NEW a \in Actors, NEW steps, Turn(a, steps)
  PROVE  ResetInv'
<1> SUFFICES ASSUME ~clearRaced', NEW c \in Clients, Clearing(todo'[c]) PROVE Resets(c)'
  BY DEF ResetInv
<1>1. ~clearRaced
  BY DEF Observe
<1>2. CASE Clearing(todo[c])
  BY <1>1, <1>2, TurnResets DEF ResetInv
<1>3. CASE ~Clearing(todo[c])
  <2> DEFINE h == Head(todo[a])
             tail == Tail(todo[a])
  <2>1. /\ ToSet(todo[a]) = {h} \cup ToSet(tail)
        /\ ToSet(todo'[a]) = ToSet(steps) \cup ToSet(tail)
        /\ \A b \in Actors \ {a} : todo'[b] = todo[b]
    BY TurnLists
  <2>2. Follows(h, steps)
    BY DEF Turn
  <2> HIDE DEF h, tail
  <2>3. c = a
    BY <1>3, <2>1 DEF Actors
  <2>4. PICK s \in ToSet(steps) \cup ToSet(tail) : s.key = AnyKey
    BY <2>1, <2>3, ClearingHas
  <2>5. s \in ToSet(steps)
    <3> SUFFICES ASSUME s \in ToSet(tail) PROVE FALSE
      BY <2>4
    <3> QED BY <1>3, <2>1, <2>3, <2>4, ClearingHas
  <2>6. h.op = "ClearLock"
    BY <2>2, <2>4, <2>5 DEF Follows
  <2>7. DOMAIN store' \subseteq Keys
    BY DEF CacheInv, StructType
  <2> QED BY <2>1, <2>2, <2>3, <2>6, <2>7 DEF Follows, Has, Resets
<1> QED BY <1>2, <1>3

\* The two properties, with the sums as functions of the calls and the store.
LEMMA ExactAt ==
  /\ LenExact <=> (~clearRaced /\ ~ClearRunning
                     => size + OwedOf(todo, "Size") = Cardinality(DOMAIN store))
  /\ CostExact <=> (raced = {} /\ ~clearRaced /\ ~ClearRunning
                     => liveCost + OwedOf(todo, "Cost") = CostOf(store))
  /\ LenExact' <=> (~clearRaced' /\ ~ClearRunning'
                     => size' + OwedOf(todo', "Size") = Cardinality(DOMAIN store'))
  /\ CostExact' <=> (raced' = {} /\ ~clearRaced' /\ ~ClearRunning'
                     => liveCost' + OwedOf(todo', "Cost") = CostOf(store'))
BY OwedAt, CostAt DEF LenExact, CostExact

\* What the store's size and cost are made of.
LEMMA StoreNumbers ==
  ASSUME NEW m, DOMAIN m \subseteq Keys, \A k \in DOMAIN m : m[k] \in Entries
  PROVE  /\ Cardinality(DOMAIN m) \in Nat /\ CostOf(m) \in Int
         /\ DOMAIN m = {} => CostOf(m) = 0 /\ Cardinality(DOMAIN m) = 0
         /\ IsFiniteSet(DOMAIN m) /\ \A k \in DOMAIN m : m[k].cost \in Int
<1>1. IsFiniteSet(DOMAIN m) /\ \A k \in DOMAIN m : m[k].cost \in Int
  <2>1. PICK S : S = DOMAIN m
    OBVIOUS
  <2>3. IsFiniteSet(S)
    BY <2>1, CacheAssumption, FS_Subset
  <2>2. Costs \subseteq Nat
    BY CacheAssumption DEF Costs
  <2>4. \A k \in DOMAIN m : m[k].cost \in Int
    <3> SUFFICES ASSUME NEW k \in DOMAIN m PROVE m[k].cost \in Int
      OBVIOUS
    <3>1. m[k] \in Entries
      OBVIOUS
    <3>2. m[k].cost \in Costs
      BY <3>1 DEF Entries
    <3>3. \A c \in Costs : c \in Int
      BY <2>2
    <3> QED BY <3>2, <3>3
  <2> QED BY <2>1, <2>3, <2>4
<1>2. PICK v : v = [cost |-> 0]
  OBVIOUS
<1>3. v.cost \in Int
  BY <1>2
<1> QED BY <1>1, <1>3, StoreSizes

\* What a turn does to what is owed.
LEMMA TurnOwes ==
  ASSUME CacheInv, CacheInv', ListInv, NEW a \in Actors, NEW steps, Turn(a, steps), NEW o
  PROVE  /\ OwedOf(todo', o) = OwedOf(todo, o) - Val(Head(todo[a]), o) + Share(steps, o)
         /\ OwedOf(todo, o) \in Int /\ OwedOf(todo', o) \in Int
         /\ Val(Head(todo[a]), o) \in Int /\ Share(steps, o) \in Int
<1> DEFINE h == Head(todo[a])
           tail == Tail(todo[a])
<1>1. /\ h \in PlainSteps /\ tail \in Seq(PlainSteps) /\ steps \in Seq(PlainSteps)
      /\ todo'[a] = steps \o tail /\ todo[a] \in Seq(PlainSteps) /\ todo[a] # <<>>
      /\ \A b \in Actors \ {a} : todo'[b] = todo[b]
  BY TurnLists DEF Turn, Idle
<1>2. /\ h \in Steps /\ tail \in Seq(Steps) /\ steps \in Seq(Steps) /\ todo[a] \in Seq(Steps)
      /\ <<h>> \in Seq(Steps)
  BY <1>1, CallType
<1>3. todo[a] = <<h>> \o tail
  <2>1. Len(todo[a]) \in Nat \ {0} /\ SubSeq(todo[a], 1, Len(todo[a])) = todo[a]
    BY <1>1, EmptySeq, SubSeqFull
  <2>2. SubSeq(todo[a], 1, Len(todo[a])) = <<todo[a][1]>> \o SubSeq(todo[a], 2, Len(todo[a]))
    BY <1>1, <2>1, SubSeqRecursiveFirst
  <2>3. Tail(todo[a]) = SubSeq(todo[a], 2, Len(todo[a])) /\ Head(todo[a]) = todo[a][1]
    BY <1>1, TailIsSubSeq
  <2> QED BY <2>1, <2>2, <2>3
<1> HIDE DEF h, tail
<1>4. Share(todo[a], o) = Val(h, o) + Share(tail, o) /\ Val(h, o) \in Int /\ Share(tail, o) \in Int
  <2>1. Share(<<h>> \o tail, o) = Share(<<h>>, o) + Share(tail, o)
    BY <1>2, ShareConcat
  <2>2. Share(<<h>>, o) = Val(h, o) /\ Share(<<h>>, o) \in Int /\ Share(tail, o) \in Int
    BY <1>2, ShareOne, StepNumber
  <2> QED BY <1>3, <2>1, <2>2
<1>5. Share(todo'[a], o) = Share(steps, o) + Share(tail, o) /\ Share(steps, o) \in Int
  BY <1>1, <1>2, ShareConcat, StepNumber
<1>6. /\ OwedOf(todo', o) = OwedOf(todo, o) - Share(todo[a], o) + Share(todo'[a], o)
      /\ OwedOf(todo, o) \in Int /\ OwedOf(todo', o) \in Int
  <2>1. /\ \A b \in Actors : todo[b] \in Seq(Steps)
        /\ \A b \in Actors : todo'[b] \in Seq(Steps)
    BY DEF CacheInv, TypeOK
  <2>2. PICK t, u : t = todo /\ u = todo'
    OBVIOUS
  <2> QED BY <1>1, <2>1, <2>2, OwedChange
<1>7. /\ OwedOf(todo', o) = OwedOf(todo, o) - Val(h, o) + Share(steps, o)
      /\ OwedOf(todo, o) \in Int /\ OwedOf(todo', o) \in Int
      /\ Val(h, o) \in Int /\ Share(steps, o) \in Int
  BY <1>4, <1>5, <1>6
<1> QED BY <1>7 DEF h

\* The last section of a Clear leaves everything at zero.
LEMMA ClearEnds ==
  ASSUME CacheInv, CacheInv', ListInv, ListInv', LockInv, ClearAlone, ResetInv, Observe,
         ~clearRaced', NEW c \in Clients, Clearing(todo[c]), ~Clearing(todo'[c]),
         NEW a \in Actors, NEW steps, Turn(a, steps)
  PROVE  /\ DOMAIN store' = {} /\ size' = 0 /\ liveCost' = 0
         /\ \A o \in {"Size", "Cost"} : OwedOf(todo', o) = 0
<1>0. c \in Actors
  BY DEF Actors
<1>1. ~clearRaced
  BY DEF Observe
<1>2. Resets(c)' /\ (a = c => Head(todo[a]).op \in ClearCalls)
  BY <1>1, TurnResets DEF ResetInv
<1>3. a = c
  <2>1. \A b \in Actors \ {a} : todo'[b] = todo[b]
    BY TurnLists
  <2> QED BY <1>0, <2>1
<1>4. ToSet(todo'[c]) = ToSet(steps) \cup ToSet(Tail(todo[c])) /\ ToSet(todo'[c]) \subseteq PlainSteps
  <2>1. ToSet(todo'[a]) = ToSet(steps) \cup ToSet(Tail(todo[a]))
    BY TurnLists
  <2>2. steps \in Seq(PlainSteps) /\ Tail(todo[a]) \in Seq(PlainSteps)
    BY TurnLists
  <2>3. ToSet(steps) \subseteq PlainSteps /\ ToSet(Tail(todo[a])) \subseteq PlainSteps
    BY <2>2, ElementsInSet
  <2> QED BY <1>3, <2>1, <2>3
<1>5. \A s \in ToSet(todo'[c]) : s.key # AnyKey
  BY ClearingHas
<1>6. \A s \in ToSet(todo'[c]) : s.op \notin ClearOps \cup {"ClearShard"}
  <2>1. \A s \in ToSet(todo'[c]) : s.op \notin ClearOps
    BY <1>4, <1>5 DEF PlainSteps
  <2>2. \A s \in ToSet(todo'[c]) : s.op # "ClearShard"
    BY <1>0 DEF ListInv
  <2> QED BY <2>1, <2>2
<1>7. DOMAIN store' = {} /\ size' = 0 /\ liveCost' = 0
  BY <1>2, <1>6 DEF Resets, Has, ClearOps
<1>8. ASSUME NEW o \in {"Size", "Cost"} PROVE OwedOf(todo', o) = 0
  <2>1. OwedOf(todo, o) = 0
    BY <1>1, ClearOwes
  <2>2. OwedOf(todo', o) = OwedOf(todo, o) - Val(Head(todo[a]), o) + Share(steps, o)
    BY TurnOwes
  <2>3. Val(Head(todo[a]), o) = 0
    BY <1>2, <1>3 DEF Val, ClearCalls, ClearSteps, ClearOps
  <2>4. steps = <<>>
    <3>1. Follows(Head(todo[a]), steps)
      BY DEF Turn
    <3>2. ~Clearing(steps)
      BY <1>4, <1>5, ClearingHas
    <3> QED BY <1>2, <1>3, <3>1, <3>2 DEF Follows
  <2>5. Share(steps, o) = 0
    BY <2>4, ShareNone, EmptySeq, ElementsOfTuple
  <2> QED BY <2>1, <2>2, <2>3, <2>5
<1> QED BY <1>7, <1>8

\* A turn keeps the two sums exact, outside a Clear and as a Clear ends.
LEMMA TurnExact ==
  ASSUME CacheInv, CacheInv', ExactInv, ListInv', Observe, NEW a \in Actors, NEW steps, Turn(a, steps)
  PROVE  LenExact' /\ CostExact'
<1> DEFINE h == Head(todo[a])
<1>1. /\ ListInv /\ LockInv /\ NewInv /\ ClearAlone /\ ResetInv /\ LenExact /\ CostExact
  BY DEF ExactInv
<1>2. /\ Balance(h, steps) /\ h \in PlainSteps /\ h \in ToSet(todo[a]) /\ h.op # "Push"
  BY <1>1, TurnLists DEF Turn
<1>3. /\ Cardinality(DOMAIN store) \in Nat /\ CostOf(store) \in Int /\ size \in Int /\ liveCost \in Int
  BY StructTypes, StoreNumbers DEF StructType
<1>4. /\ Cardinality(DOMAIN store') \in Nat /\ CostOf(store') \in Int /\ size' \in Int /\ liveCost' \in Int
      /\ DOMAIN store' = {} => CostOf(store') = 0 /\ Cardinality(DOMAIN store') = 0
  <2>1. PICK m : m = store'
    OBVIOUS
  <2>2. /\ DOMAIN m \subseteq Keys /\ \A k \in DOMAIN m : m[k] \in Entries
        /\ size' \in Int /\ liveCost' \in Int
    BY <2>1 DEF CacheInv, StructType
  <2>3. /\ Cardinality(DOMAIN m) \in Nat /\ CostOf(m) \in Int
        /\ DOMAIN m = {} => CostOf(m) = 0 /\ Cardinality(DOMAIN m) = 0
    BY <2>2, StoreNumbers
  <2> QED BY <2>1, <2>2, <2>3
<1>5. \A o : /\ OwedOf(todo', o) = OwedOf(todo, o) - Val(h, o) + Share(steps, o)
             /\ OwedOf(todo, o) \in Int /\ OwedOf(todo', o) \in Int
             /\ Val(h, o) \in Int /\ Share(steps, o) \in Int
  BY <1>1, TurnOwes
<1> HIDE DEF h
<1>6. (~clearRaced' => ~clearRaced) /\ (raced' = {} => raced = {})
  BY DEF Observe
<1>7. ASSUME ~clearRaced', ~ClearRunning', ClearRunning
      PROVE  /\ DOMAIN store' = {} /\ size' = 0 /\ liveCost' = 0
             /\ \A o \in {"Size", "Cost"} : OwedOf(todo', o) = 0
  <2>1. PICK c \in Clients : Clearing(todo[c])
    BY <1>7 DEF ClearRunning
  <2>2. ~Clearing(todo'[c])
    BY <1>7 DEF ClearRunning
  <2> QED BY <1>1, <1>7, <2>1, <2>2, ClearEnds
<1>8. ~ClearRunning => h.op \notin {"ClearShard", "ClearSize", "ClearCost"}
  <2> SUFFICES ASSUME h.op \in {"ClearShard", "ClearSize", "ClearCost"} PROVE ClearRunning
    OBVIOUS
  <2>1. Clearing(todo[a])
    <3>1. CASE h.op = "ClearShard"
      BY <1>1, <1>2, <3>1 DEF ListInv
    <3>2. CASE h.op # "ClearShard"
      <4>1. h.key = AnyKey
        BY <1>2, <3>2 DEF PlainSteps, ClearOps
      <4> QED BY <1>2, <4>1, ClearingHas
    <3> QED BY <3>1, <3>2
  <2>2. a \in Clients
    BY <1>1, <2>1 DEF LockInv
  <2> QED BY <2>1, <2>2 DEF ClearRunning
<1>9. ASSUME ~clearRaced', ~ClearRunning' PROVE size' + OwedOf(todo', "Size") = Cardinality(DOMAIN store')
  <2>1. CASE ClearRunning
    <3>1. size' = 0 /\ OwedOf(todo', "Size") = 0 /\ Cardinality(DOMAIN store') = 0
      BY <1>4, <1>7, <1>9, <2>1
    <3> QED BY <3>1
  <2>2. CASE ~ClearRunning
    <3>1. size + OwedOf(todo, "Size") = Cardinality(DOMAIN store)
      BY <1>1, <1>6, <1>9, <2>2, ExactAt
    <3>2. size' + Share(steps, "Size") - Val(h, "Size") - Cardinality(DOMAIN store')
            = size - Cardinality(DOMAIN store)
      BY <1>2, <1>8, <2>2 DEF Balance
    <3>3. /\ OwedOf(todo', "Size") = OwedOf(todo, "Size") - Val(h, "Size") + Share(steps, "Size")
          /\ OwedOf(todo, "Size") \in Int /\ OwedOf(todo', "Size") \in Int
          /\ Val(h, "Size") \in Int /\ Share(steps, "Size") \in Int
      BY <1>5
    <3>5. PICK x, y, c, d, v, w, p, q :
            /\ x = size /\ y = size' /\ c = Cardinality(DOMAIN store) /\ d = Cardinality(DOMAIN store')
            /\ v = Val(h, "Size") /\ w = Share(steps, "Size")
            /\ p = OwedOf(todo, "Size") /\ q = OwedOf(todo', "Size")
      OBVIOUS
    <3>6. /\ x \in Int /\ y \in Int /\ c \in Int /\ d \in Int
          /\ v \in Int /\ w \in Int /\ p \in Int /\ q \in Int
          /\ x + p = c /\ y + w - v - d = x - c /\ q = p - v + w
      BY <1>3, <1>4, <3>1, <3>2, <3>3, <3>5
    <3>7. y + q = d
      BY ONLY <3>6
    <3> QED BY <3>5, <3>7
  <2> QED BY <2>1, <2>2
<1>10. ASSUME raced' = {}, ~clearRaced', ~ClearRunning'
       PROVE  liveCost' + OwedOf(todo', "Cost") = CostOf(store')
  <2>1. CASE ClearRunning
    <3>1. liveCost' = 0 /\ OwedOf(todo', "Cost") = 0 /\ CostOf(store') = 0
      BY <1>4, <1>7, <1>10, <2>1
    <3> QED BY <3>1
  <2>2. CASE ~ClearRunning
    <3>1. liveCost + OwedOf(todo, "Cost") = CostOf(store)
      BY <1>1, <1>6, <1>10, <2>2, ExactAt
    <3>0. h.op = "Put" => h.key \notin DOMAIN store
      <4> SUFFICES ASSUME h.op = "Put" PROVE h.key \notin DOMAIN store
        OBVIOUS
      <4>1. h.key \in Keys \ raced
        BY <1>2, <1>6, <1>10 DEF PlainSteps, KeyOps
      <4> QED BY <1>1, <1>2, <4>1 DEF NewInv
    <3>2. liveCost' + Share(steps, "Cost") - Val(h, "Cost") - CostOf(store')
            = liveCost - CostOf(store)
      BY <1>2, <1>8, <2>2, <3>0 DEF Balance
    <3>3. /\ OwedOf(todo', "Cost") = OwedOf(todo, "Cost") - Val(h, "Cost") + Share(steps, "Cost")
          /\ OwedOf(todo, "Cost") \in Int /\ OwedOf(todo', "Cost") \in Int
          /\ Val(h, "Cost") \in Int /\ Share(steps, "Cost") \in Int
      BY <1>5
    <3>5. PICK x, y, c, d, v, w, p, q :
            /\ x = liveCost /\ y = liveCost' /\ c = CostOf(store) /\ d = CostOf(store')
            /\ v = Val(h, "Cost") /\ w = Share(steps, "Cost")
            /\ p = OwedOf(todo, "Cost") /\ q = OwedOf(todo', "Cost")
      OBVIOUS
    <3>6. /\ x \in Int /\ y \in Int /\ c \in Int /\ d \in Int
          /\ v \in Int /\ w \in Int /\ p \in Int /\ q \in Int
          /\ x + p = c /\ y + w - v - d = x - c /\ q = p - v + w
      BY <1>3, <1>4, <3>1, <3>2, <3>3, <3>5
    <3>7. y + q = d
      BY ONLY <3>6
    <3> QED BY <3>5, <3>7
  <2> QED BY <2>1, <2>2
<1> QED BY <1>9, <1>10, ExactAt

\* A Clear that meets another call sets clearRaced.
LEMMA ObserveAlone == ASSUME Observe PROVE ClearAlone'
<1> SUFFICES ASSUME ~clearRaced', NEW a \in Actors \ {Worker}, NEW b \in Actors \ {Worker}, a # b,
                    Clearing(todo'[a]), NEW k \in Keys, Works(todo'[b], k)
             PROVE  FALSE
  BY DEF ClearAlone
<1>1. todo'[b] # <<>> /\ todo'[a] # <<>>
  BY DEF Works, Clearing
<1> QED BY <1>1 DEF Observe

\* A turn keeps the counters exact.
LEMMA TurnInv ==
  ASSUME CacheInv, CacheInv', ExactInv, Observe, NEW a \in Actors, NEW steps, Turn(a, steps)
  PROVE  ExactInv'
<1>1. /\ ListInv /\ LockInv /\ NewInv /\ ClearAlone /\ ResetInv
  BY DEF ExactInv
<1>2. ListInv'
  BY <1>1, TurnList
<1>3. LockInv'
  BY <1>1, TurnLock
<1>4. NewInv'
  <2>1. raced \subseteq raced'
    BY DEF Observe
  <2> QED BY <1>1, <2>1, TurnNew
<1>5. ResetInv'
  BY <1>1, TurnReset
<1>6. LenExact' /\ CostExact'
  BY <1>2, TurnExact
<1> QED BY <1>2, <1>3, <1>4, <1>5, <1>6, ObserveAlone DEF ExactInv

\* A call as it begins, or as it is pushed.
Waits(q) == \A s \in ToSet(q) : s.op \in FirstOps /\ s.key # AnyKey

\* Such a call owes the counters nothing.
LEMMA WaitsQuiet ==
  ASSUME NEW q \in Seq(Steps), Waits(q)
  PROVE  /\ ~Clearing(q) /\ \A s \in ToSet(q) : s.op \notin {"Unlock", "ClearShard", "Add", "Put", "Size", "Cost"}
         /\ \A o \in {"Size", "Cost"} : Share(q, o) = 0
<1>1. \A s \in ToSet(q) : s.op \notin {"Unlock", "ClearShard", "Add", "Put", "Size", "Cost"}
  BY DEF Waits, FirstOps
<1>2. ~Clearing(q)
  BY ClearingHas DEF Waits
<1>3. \A o \in {"Size", "Cost"} : Share(q, o) = 0
  BY <1>1, ShareNone
<1> QED BY <1>1, <1>2, <1>3

\* An action that puts call q in the place of a call that has run no section
\* on the store yet, and touches neither the store nor a counter.
LEMMA RestInv ==
  ASSUME CacheInv, CacheInv', ExactInv, Observe, UNCHANGED <<store, size, liveCost, clearMu>>,
         NEW a \in Actors, NEW q \in Seq(Steps), todo' = [todo EXCEPT ![a] = q],
         Waits(todo[a]), Waits(q), Ordered(q),
         \A s \in ToSet(q) : /\ s.op = "ClearLock" => a \in Clients
                             /\ a = Worker => s.op = "ExpireLock"
  PROVE  ExactInv'
<1>1. /\ ListInv /\ LockInv /\ NewInv /\ ClearAlone /\ ResetInv /\ LenExact /\ CostExact
  BY DEF ExactInv
<1>2. todo'[a] = q /\ \A b \in Actors \ {a} : todo'[b] = todo[b]
  BY StructTypes DEF CallInv
<1>3. todo[a] \in Seq(Steps)
  BY DEF CacheInv, TypeOK
<1>4. /\ ~Clearing(q) /\ \A s \in ToSet(q) : s.op \notin {"Unlock", "ClearShard", "Add", "Put", "Size", "Cost"}
      /\ \A o \in {"Size", "Cost"} : Share(q, o) = 0
  BY WaitsQuiet
<1>5. ~Clearing(todo[a]) /\ \A o \in {"Size", "Cost"} : Share(todo[a], o) = 0
  BY <1>3, WaitsQuiet
<1>6. raced \subseteq raced' /\ (~clearRaced' => ~clearRaced) /\ ClearAlone'
  BY ObserveAlone DEF Observe
<1>7. ListInv'
  <2> SUFFICES ASSUME NEW b \in Actors
               PROVE  /\ Ordered(todo'[b])
                      /\ \A s \in ToSet(todo'[b]) :
                           /\ s.key = AnyKey => s.op \in ClearOps
                           /\ s.op = "ClearShard" => Clearing(todo'[b])
                           /\ s.op = "ClearLock" => b \in Clients
    BY DEF ListInv
  <2>1. CASE b = a
    BY <1>2, <1>4, <2>1 DEF Waits
  <2>2. CASE b # a
    BY <1>1, <1>2, <2>2 DEF ListInv
  <2> QED BY <2>1, <2>2
<1>8. LockInv'
  <2>0. Worker \in Actors
    BY DEF Actors
  <2>1. ASSUME NEW b \in Actors
        PROVE  /\ Has(todo'[b], "Unlock") => b \in clearMu
               /\ Clearing(todo'[b]) => Has(todo'[b], "Unlock") /\ b \in Clients
    <3>1. CASE b = a
      BY <1>2, <1>4, <3>1 DEF Has
    <3>2. CASE b # a
      BY <1>1, <1>2, <3>2 DEF LockInv
    <3> QED BY <3>1, <3>2
  <2>2. \A s \in ToSet(todo'[Worker]) : s.op = "ExpireLock" \/ Has(todo'[Worker], "Unlock")
    <3>1. CASE Worker = a
      BY <1>2, <3>1
    <3>2. CASE Worker # a
      BY <1>1, <1>2, <2>0, <3>2 DEF LockInv
    <3> QED BY <3>1, <3>2
  <2> QED BY <2>1, <2>2 DEF LockInv
<1>9. NewInv'
  <2> SUFFICES ASSUME NEW k \in Keys \ raced', NEW b \in Actors, NEW s \in ToSet(todo'[b]),
                      s.op \in {"Add", "Put"}, s.key = k
               PROVE  k \notin DOMAIN store'
    BY DEF NewInv
  <2>1. b # a
    BY <1>2, <1>4
  <2> QED BY <1>1, <1>2, <1>6, <2>1 DEF NewInv
<1>10. ResetInv'
  <2> SUFFICES ASSUME ~clearRaced', NEW c \in Clients, Clearing(todo'[c]) PROVE Resets(c)'
    BY DEF ResetInv
  <2>1. c # a /\ c \in Actors
    BY <1>2, <1>4 DEF Actors
  <2>2. todo'[c] = todo[c] /\ Resets(c)
    BY <1>1, <1>2, <1>6, <2>1 DEF ResetInv
  <2> QED BY <2>2 DEF Resets, Has
<1>11. ASSUME NEW o \in {"Size", "Cost"} PROVE OwedOf(todo', o) = OwedOf(todo, o)
  <2>1. \A b \in Actors : todo[b] \in Seq(Steps)
    BY DEF CacheInv, TypeOK
  <2>2. PICK t, u : t = todo /\ u = todo'
    OBVIOUS
  <2>3. /\ OwedOf(u, o) = OwedOf(t, o) - Share(t[a], o) + Share(u[a], o)
        /\ OwedOf(t, o) \in Int /\ OwedOf(u, o) \in Int
    <3>1. /\ \A b \in Actors : t[b] \in Seq(Steps)
          /\ u[a] \in Seq(Steps) /\ \A b \in Actors \ {a} : u[b] = t[b]
      BY <1>2, <2>1, <2>2
    <3> QED BY <3>1, OwedChange
  <2>4. Share(t[a], o) = 0 /\ Share(u[a], o) = 0
    BY <1>2, <1>4, <1>5, <2>2
  <2> QED BY <2>2, <2>3, <2>4
<1>12. ClearRunning' = ClearRunning
  <2>1. \A c \in Clients : Clearing(todo'[c]) <=> Clearing(todo[c])
    BY <1>2, <1>4, <1>5 DEF Actors
  <2> QED BY <2>1 DEF ClearRunning
<1>13. LenExact' /\ CostExact'
  BY <1>1, <1>6, <1>11, <1>12, ExactAt
<1> QED BY <1>6, <1>7, <1>8, <1>9, <1>10, <1>13 DEF ExactInv

\* Nothing that counts has changed.
LEMMA SameInv ==
  ASSUME ExactInv, UNCHANGED <<store, size, liveCost, clearMu, todo>>, raced \subseteq raced',
         clearRaced => clearRaced', ClearAlone'
  PROVE  ExactInv'
<1>1. /\ ListInv /\ LockInv /\ NewInv /\ ResetInv /\ LenExact /\ CostExact
  BY DEF ExactInv
<1>2. ListInv' /\ LockInv'
  BY <1>1 DEF ListInv, LockInv
<1>3. NewInv' /\ ResetInv'
  BY <1>1 DEF NewInv, ResetInv, Resets
<1>4. ClearRunning' = ClearRunning
  BY DEF ClearRunning
<1>5. LenExact' /\ CostExact'
  BY <1>1, <1>4, ExactAt
<1> QED BY <1>2, <1>3, <1>5 DEF ExactInv
-----------------------------------------------------------------------------
(* The calls. *)

\* Calls of at most one section.
LEMMA OrderedOne == ASSUME NEW s PROVE Ordered(<<s>>) /\ Ordered(<<>>)
<1>1. PICK q : q = <<s>>
  OBVIOUS
<1>2. Len(q) = 1
  BY <1>1
<1>3. Ordered(q)
  BY <1>2 DEF Ordered
<1>4. Ordered(<<>>)
  BY DEF Ordered
<1> QED BY <1>1, <1>3, <1>4

\* Calls of two sections.
LEMMA OrderedTwo == ASSUME NEW s, NEW t, Before(s, t) PROVE Ordered(<<s, t>>)
<1>1. PICK q : q = <<s, t>>
  OBVIOUS
<1>2. Len(q) = 2 /\ q[1] = s /\ q[2] = t
  BY <1>1
<1>3. ASSUME NEW i \in 1 .. Len(q), NEW j \in 1 .. Len(q), i < j PROVE Before(q[i], q[j])
  <2>1. i = 1 /\ j = 2
    BY <1>2, <1>3
  <2> QED BY <1>2, <2>1
<1> QED BY <1>1, <1>3 DEF Ordered

\* An idle actor, and one about to push.
LEMMA IdleWaits ==
  ASSUME CacheInv, NEW a \in Actors
  PROVE  /\ Idle(a) => Waits(todo[a])
         /\ Doing(a, "Push") => Waits(todo[a])
<1>1. Idle(a) => Waits(todo[a])
  BY ElementsOfTuple DEF Idle, Waits
<1>2. ASSUME Doing(a, "Push") PROVE Waits(todo[a])
  <2>1. PICK w : w \in WriteSteps /\ todo[a] = <<Step("Push", w.key, 0, 0), w>>
    BY <1>2, PushCall, StructTypes
  <2>2. ToSet(todo[a]) = {Step("Push", w.key, 0, 0), w}
    BY <2>1, ElementsOfPair
  <2>3. w.key \in Keys /\ w.op \in {"Peek", "Remove"} /\ w.key # AnyKey
    BY <2>1, CacheAssumption DEF WriteSteps, PlainSteps, KeyOps
  <2> QED BY <2>2, <2>3, StepFields DEF Waits, FirstOps
<1> QED BY <1>1, <1>2

\* SetWithCost and Delete.
LEMMA WriteExact ==
  ASSUME CacheInv, CacheInv', ExactInv, Observe, NEW a \in Clients, NEW w \in WriteSteps, Write(a, w)
  PROVE  ExactInv'
<1>0. a \in Actors /\ a # Worker
  BY CacheAssumption DEF Actors
<1>1. PICK p : p = Step("Push", w.key, 0, 0)
  OBVIOUS
<1>2. /\ w \in Steps /\ w.key \in Keys /\ w.op \in {"Peek", "Remove"} /\ w.key # AnyKey
      /\ p \in Steps /\ p.op = "Push" /\ p.key = w.key
  <2>1. w \in Steps /\ w.key \in Keys /\ w.op \in {"Peek", "Remove"}
    BY DEF WriteSteps, PlainSteps, KeyOps
  <2> QED BY <1>1, <2>1, StepFields, CacheAssumption DEF Ops
<1>3. PICK q : q = IF buffered THEN <<p, w>> ELSE <<w>>
  OBVIOUS
<1>4. /\ Idle(a) /\ todo' = [todo EXCEPT ![a] = q]
      /\ UNCHANGED <<store, size, liveCost, clearMu>>
  BY <1>1, <1>3 DEF Write, Call, shared
<1>5. q \in Seq(Steps) /\ ToSet(q) \subseteq {p, w} /\ Ordered(q)
  <2>1. <<p, w>> \in Seq(Steps) /\ <<w>> \in Seq(Steps)
    BY <1>2
  <2>2. ToSet(<<p, w>>) = {p, w} /\ ToSet(<<w>>) = {w}
    BY ElementsOfPair, ElementsOfTuple
  <2>3. Ordered(<<p, w>>) /\ Ordered(<<w>>)
    BY <1>2, OrderedOne, OrderedTwo DEF Before, LastOps
  <2> QED BY <1>3, <2>1, <2>2, <2>3
<1>6. Waits(q) /\ Waits(todo[a])
  BY <1>0, <1>2, <1>4, <1>5, IdleWaits DEF Waits, FirstOps
<1>7. \A s \in ToSet(q) : s.op # "ClearLock"
  BY <1>2, <1>5
<1> QED BY <1>0, <1>4, <1>5, <1>6, <1>7, RestInv

\* Wait, Clear and Close.
LEMMA OtherCallExact ==
  ASSUME CacheInv, CacheInv', ExactInv, Observe, NEW a \in Clients, Wait(a) \/ Clear(a) \/ Close(a)
  PROVE  ExactInv'
<1>0. a \in Actors /\ a # Worker
  BY CacheAssumption DEF Actors
<1> DEFINE wait == Step("Wait", NoKey, 0, 0)
           lock == Step("ClearLock", NoKey, 0, 0)
           flush == Step("CloseBuffer", NoKey, 0, 0)
           wg == Step("WgWait", NoKey, 0, 0)
<1>1. /\ {wait, lock, flush, wg} \subseteq Steps
      /\ wait.op = "Wait" /\ lock.op = "ClearLock" /\ flush.op = "CloseBuffer" /\ wg.op = "WgWait"
      /\ \A s \in {wait, lock, flush, wg} : s.key = NoKey
  BY StepFields DEF Ops
<1> HIDE DEF wait, lock, flush, wg
<1>2. \E q : /\ q \in {<<>>, <<wait>>, <<lock>>, <<wait, lock>>, <<flush, wg>>}
             /\ Idle(a) /\ todo' = [todo EXCEPT ![a] = q]
  <2>1. CASE Wait(a)
    BY <2>1 DEF Wait, Call, wait
  <2>2. CASE Clear(a)
    <3>1. <<wait>> \o <<lock>> = <<wait, lock>> /\ <<>> \o <<lock>> = <<lock>>
      BY PairConcat
    <3> QED BY <2>2, <3>1 DEF Clear, Call, wait, lock
  <2>3. CASE Close(a)
    BY <2>3 DEF Close, Call, flush, wg
  <2> QED BY <2>1, <2>2, <2>3
<1>3. PICK q : /\ q \in {<<>>, <<wait>>, <<lock>>, <<wait, lock>>, <<flush, wg>>}
               /\ Idle(a) /\ todo' = [todo EXCEPT ![a] = q]
  BY <1>2
<1>4. UNCHANGED <<store, size, liveCost, clearMu>>
  BY DEF Wait, Clear, Close, shared
<1>5. q \in Seq(Steps)
  <2>1. <<wait>> \in Seq(Steps) /\ <<lock>> \in Seq(Steps) /\ <<>> \in Seq(Steps)
    BY <1>1
  <2>2. <<wait, lock>> \in Seq(Steps) /\ <<flush, wg>> \in Seq(Steps)
    BY <1>1
  <2> QED BY <1>3, <2>1, <2>2
<1>6. ToSet(q) \subseteq {wait, lock, flush, wg}
  <2>1. /\ ToSet(<<>>) = {} /\ ToSet(<<wait>>) = {wait} /\ ToSet(<<lock>>) = {lock}
        /\ ToSet(<<wait, lock>>) = {wait, lock} /\ ToSet(<<flush, wg>>) = {flush, wg}
    BY ElementsOfTuple, ElementsOfPair
  <2> QED BY <1>3, <2>1
<1>7. Ordered(q)
  <2>1. Before(wait, lock) /\ Before(flush, wg)
    BY <1>1 DEF Before, LastOps
  <2>2. /\ Ordered(<<>>) /\ Ordered(<<wait>>) /\ Ordered(<<lock>>)
        /\ Ordered(<<wait, lock>>) /\ Ordered(<<flush, wg>>)
    BY <2>1, OrderedOne, OrderedTwo
  <2> QED BY <1>3, <2>2
<1>8. Waits(q) /\ Waits(todo[a])
  <2>1. AnyKey # NoKey
    BY CacheAssumption
  <2>2. Waits(q)
    BY <1>1, <1>6, <2>1 DEF Waits, FirstOps
  <2> QED BY <1>0, <1>3, <2>2, IdleWaits
<1> QED BY <1>0, <1>3, <1>4, <1>5, <1>7, <1>8, RestInv

\* Push hands the write to the queue, or leaves it to the caller.
LEMMA PushExact ==
  ASSUME CacheInv, CacheInv', ExactInv, Observe, NEW a \in Clients, Push(a)
  PROVE  ExactInv'
<1>0. a \in Actors /\ a # Worker
  BY CacheAssumption DEF Actors
<1>1. Doing(a, "Push") /\ UNCHANGED <<store, size, liveCost, clearMu>>
  BY DEF Push, shared
<1>2. PICK w : w \in WriteSteps /\ Tail(todo[a]) = <<w>>
  BY <1>0, <1>1, PushCall, StructTypes
<1>3. /\ w \in Steps /\ w.key # AnyKey /\ w.op \in {"Peek", "Remove"}
  BY <1>2, CacheAssumption DEF WriteSteps, PlainSteps, KeyOps
<1>4. PICK q : q \in {<<>>, <<w>>} /\ todo' = [todo EXCEPT ![a] = q]
  <2>1. <<>> \o <<w>> = <<w>>
    OBVIOUS
  <2> QED BY <1>2, <2>1 DEF Push, Then
<1>5. q \in Seq(Steps) /\ ToSet(q) \subseteq {w} /\ Ordered(q)
  <2>1. <<w>> \in Seq(Steps) /\ <<>> \in Seq(Steps)
    BY <1>3
  <2>2. ToSet(<<w>>) = {w} /\ ToSet(<<>>) = {} /\ Ordered(<<w>>) /\ Ordered(<<>>)
    BY ElementsOfTuple, OrderedOne
  <2> QED BY <1>4, <2>1, <2>2
<1>6. Waits(q) /\ Waits(todo[a])
  BY <1>0, <1>1, <1>3, <1>5, IdleWaits DEF Waits, FirstOps
<1>7. \A s \in ToSet(q) : s.op # "ClearLock"
  BY <1>3, <1>5
<1> QED BY <1>0, <1>1, <1>4, <1>5, <1>6, <1>7, RestInv

\* The flush goroutine takes a batch.
LEMMA FlushBatchExact ==
  ASSUME CacheInv, CacheInv', ExactInv, Observe, FlushBatch
  PROVE  ExactInv'
<1>0. Flusher \in Actors /\ Flusher # Worker
  BY CacheAssumption DEF Actors
<1>1. /\ Idle(Flusher) /\ UNCHANGED <<store, size, liveCost, clearMu>>
      /\ queue \in Seq(WriteSteps) /\ Len(queue) \in Nat
  <2>1. queue \in Seq(WriteSteps)
    BY StructTypes DEF CallInv
  <2> QED BY <2>1, LenProperties DEF FlushBatch, shared
<1>2. PICK n \in 1 .. BatchMax : n <= Len(queue) /\ todo' = [todo EXCEPT ![Flusher] = SubSeq(queue, 1, n)]
  BY DEF FlushBatch
<1>3. PICK q : q = SubSeq(queue, 1, n)
  OBVIOUS
<1>4. q \in Seq(WriteSteps)
  <2>1. \A i \in 1 .. n : queue[i] \in WriteSteps
    <3>1. n \in Nat /\ \A i \in 1 .. n : i \in 1 .. Len(queue)
      BY <1>1, <1>2, CacheAssumption
    <3> QED BY <1>1, <3>1, ElementOfSeq
  <2>2. n \in Nat
    BY <1>2, CacheAssumption
  <2> QED BY <1>1, <1>2, <1>3, <2>1, <2>2, SubSeqProperties
<1>5. \A w \in WriteSteps : w.op \in {"Peek", "Remove"} /\ w.key # AnyKey /\ w \in Steps
  BY CacheAssumption DEF WriteSteps, PlainSteps, KeyOps
<1>6. ToSet(q) \subseteq WriteSteps /\ \A i \in 1 .. Len(q) : q[i] \in WriteSteps
  BY <1>4, ElementsInSet
<1>7. Waits(q) /\ Ordered(q) /\ Waits(todo[Flusher])
  <2>1. Waits(q)
    BY <1>5, <1>6 DEF Waits, FirstOps
  <2>2. \A i \in 1 .. Len(q) : q[i].op \in {"Peek", "Remove"}
    BY <1>5, <1>6
  <2>3. Ordered(q)
    BY <2>2 DEF Ordered, Before, LastOps
  <2> QED BY <1>0, <1>1, <2>1, <2>3, IdleWaits
<1>8. q \in Seq(Steps) /\ \A s \in ToSet(q) : s.op # "ClearLock"
  BY <1>4, <1>5, <1>6, CallType
<1> QED BY <1>0, <1>1, <1>2, <1>3, <1>7, <1>8, RestInv

\* The ticker of the worker.
LEMMA TickExact ==
  ASSUME CacheInv, CacheInv', ExactInv, Observe, Tick
  PROVE  ExactInv'
<1>0. Worker \in Actors
  BY DEF Actors
<1>1. PICK s : s = Step("ExpireLock", NoKey, 0, 0)
  OBVIOUS
<1>2. s \in Steps /\ s.op = "ExpireLock" /\ s.key # AnyKey
  BY <1>1, StepFields, CacheAssumption DEF Ops
<1>3. /\ Idle(Worker) /\ todo' = [todo EXCEPT ![Worker] = <<s>>]
      /\ UNCHANGED <<store, size, liveCost, clearMu>>
  BY <1>1 DEF Tick, shared
<1>4. <<s>> \in Seq(Steps) /\ ToSet(<<s>>) = {s} /\ Ordered(<<s>>)
  BY <1>2, ElementsOfTuple, OrderedOne
<1>5. Waits(<<s>>) /\ Waits(todo[Worker])
  BY <1>0, <1>2, <1>3, <1>4, IdleWaits DEF Waits, FirstOps
<1> QED BY <1>0, <1>2, <1>3, <1>4, <1>5, RestInv

\* The goroutines leave, the clock moves on.
LEMMA IdleExact ==
  ASSUME ExactInv, Observe, FlusherExit \/ Stop \/ ClockTick
  PROVE  ExactInv'
<1>1. UNCHANGED <<store, size, liveCost, clearMu, todo>>
  BY DEF FlusherExit, Stop, ClockTick, shared
<1>2. raced \subseteq raced' /\ (clearRaced => clearRaced')
  BY DEF Observe
<1> QED BY <1>1, <1>2, ObserveAlone, SameInv

-----------------------------------------------------------------------------
(* The sections. *)

\* Sections that put one structure in line after the store may follow any
\* section but those of Clear and removeExpired.
LEMMA SmallFollows ==
  ASSUME NEW h, NEW steps \in Seq(PlainSteps), \A s \in ToSet(steps) : s.op \in Small,
         h.op \notin LastOps, h.op \in ClearCalls => steps = <<>>
  PROVE  Follows(h, steps)
<1>1. \A s \in ToSet(steps) : /\ s.op \notin LastOps \cup {"Update", "Add", "Put", "ClearShard"}
                              /\ s.key # AnyKey
  <2> SUFFICES ASSUME NEW s \in ToSet(steps)
               PROVE  /\ s.op \notin LastOps \cup {"Update", "Add", "Put", "ClearShard"}
                      /\ s.key # AnyKey
    OBVIOUS
  <2>1. s \in PlainSteps
    BY ElementsInSet
  <2>2. s.op \in KeyOps /\ s.op \notin LastOps \cup {"Update", "Add", "Put", "ClearShard"}
    BY DEF Small, KeyOps, LastOps
  <2>3. s.key \in Keys
    BY <2>1, <2>2 DEF PlainSteps
  <2> QED BY <2>2, <2>3, CacheAssumption
<1>2. \A i \in 1 .. Len(steps) : steps[i].op \notin LastOps \cup {"Update", "Add", "Put"}
  BY <1>1, ElementsInSet
<1>3. Ordered(steps)
  BY <1>2 DEF Ordered, Before
<1>4. h.op \notin {"ClearLock", "ExpireLock"}
  BY DEF LastOps
<1> QED BY <1>1, <1>3, <1>4 DEF Follows

\* No sections, nothing owed.
LEMMA ShareEmpty == ASSUME NEW o PROVE Share(<<>>, o) = 0
BY ShareNone, EmptySeq, ElementsOfTuple

\* The entries of store m are entries of store n.
Within(m, n) == DOMAIN m \subseteq DOMAIN n /\ \A k \in DOMAIN m : m[k] = n[k]

\* The first section of a call, done with.
LEMMA DropTurn ==
  ASSUME CacheInv, NEW a \in Actors, NEW o, Doing(a, o), o \notin {"Push"} \cup LastOps, Then(a, <<>>),
         clearMu' = clearMu, Moves(Head(todo[a])), Balance(Head(todo[a]), <<>>),
         Within(store', store), o \in WriteOps => Head(todo[a]).key \notin DOMAIN store'
  PROVE  Turn(a, <<>>)
<1>1. /\ ~Idle(a) /\ Head(todo[a]).op = o
  BY DEF Doing
<1>2. <<>> \in Seq(PlainSteps) /\ ToSet(<<>>) = {}
  BY EmptySeq, ElementsOfTuple
<1>3. Follows(Head(todo[a]), <<>>)
  BY <1>1, <1>2, SmallFollows
<1>4. Locks(a, Head(todo[a]))
  BY <1>1 DEF Locks, LastOps
<1>5. Carries(Head(todo[a]), <<>>)
  BY <1>1, <1>2 DEF Carries, Within, Leaves
<1> QED BY <1>1, <1>2, <1>3, <1>4, <1>5 DEF Turn

\* Two stores with the same entries have the same cost.
SameEntries(m, n) == DOMAIN m = DOMAIN n /\ \A k \in DOMAIN n : m[k] = n[k]

LEMMA SameCost ==
  ASSUME NEW m, NEW n, SameEntries(n, m), IsFiniteSet(DOMAIN m),
         \A k \in DOMAIN m : m[k].cost \in Int
  PROVE  CostOf(n) = CostOf(m)
<1>1. PICK f, g : f = CostMap(m) /\ g = CostMap(n)
  OBVIOUS
<1>2. CostOf(m) = SumOver(f, DOMAIN m) /\ \A k \in DOMAIN m : f[k] = m[k].cost
  BY <1>1, CostIsSum
<1>3. IsFiniteSet(DOMAIN n) /\ \A k \in DOMAIN n : n[k].cost \in Int
  BY DEF SameEntries
<1>4. CostOf(n) = SumOver(g, DOMAIN n) /\ \A k \in DOMAIN n : g[k] = n[k].cost
  BY <1>1, <1>3, CostIsSum
<1>5. DOMAIN n = DOMAIN m /\ \A k \in DOMAIN m : g[k] = f[k] /\ f[k] \in Int
  BY <1>2, <1>4 DEF SameEntries
<1>6. SumOver(g, DOMAIN m) = SumOver(f, DOMAIN m)
  BY <1>5, SumCongruence
<1> QED BY <1>2, <1>4, <1>5, <1>6

\* A section on a structure that is not counted, or on the store when it finds
\* nothing to do.
LEMMA QuietTurn ==
  ASSUME CacheInv, NEW a \in Actors, NEW o, Doing(a, o),
         o \notin {"Push", "Size", "Cost", "ClearSize", "ClearCost", "ClearShard"} \cup LastOps,
         o \in WriteOps => Head(todo[a]).key \notin DOMAIN store,
         Then(a, <<>>), SameEntries(store', store), UNCHANGED <<size, liveCost, clearMu>>,
         o \notin {"Remove", "Expire", "Evict"} => store' = store
  PROVE  Turn(a, <<>>)
<1> DEFINE h == Head(todo[a])
<1>1. h.op = o
  BY DEF Doing
<1>2. Moves(h)
  BY <1>1 DEF Moves, SameEntries
<1>3. Val(h, "Size") = 0 /\ Val(h, "Cost") = 0
  BY <1>1 DEF Val
<1>4. size \in Int /\ liveCost \in Int /\ Cardinality(DOMAIN store) \in Int /\ CostOf(store) \in Int
  BY StructTypes, StoreNumbers DEF StructType
<1>s. DOMAIN store' = DOMAIN store /\ CostOf(store') = CostOf(store)
  <2>1. PICK m, n : m = store /\ n = store'
    OBVIOUS
  <2>2. IsFiniteSet(DOMAIN m) /\ \A k \in DOMAIN m : m[k].cost \in Int
    BY <2>1, StructTypes, StoreNumbers DEF StructType
  <2> QED BY <2>1, <2>2, SameCost DEF SameEntries
<1> HIDE DEF h
<1>5. Balance(h, <<>>)
  BY <1>3, <1>4, <1>s, ShareEmpty DEF Balance
<1>6. Within(store', store) /\ (o \in WriteOps => Head(todo[a]).key \notin DOMAIN store')
  BY DEF Within, SameEntries
<1> QED BY <1>2, <1>5, <1>6, DropTurn DEF h

\* The sections on the policy, the wheel and the radix tree.
LEMMA QuietSections ==
  ASSUME CacheInv, NEW a \in Actors,
         \/ FlushSync(a) \/ CloseBuffer(a) \/ WgWait(a)
         \/ PolicyUpdate(a) \/ PolicyDel(a) \/ Schedule(a) \/ RadixInsert(a) \/ RadixDelete(a)
         \/ ClearPolicy(a) \/ ClearWheel(a) \/ ClearRadix(a)
  PROVE  Turn(a, <<>>)
<1>1. \E o \in {"Wait", "CloseBuffer", "WgWait", "PolicyUpdate", "PolicyDel", "Schedule",
                "RadixInsert", "RadixDelete", "ClearPolicy", "ClearWheel", "ClearRadix"} :
        Doing(a, o) /\ Then(a, <<>>) /\ UNCHANGED <<store, size, liveCost, clearMu>>
  BY DEF FlushSync, CloseBuffer, WgWait, PolicyUpdate, PolicyDel, Schedule, RadixInsert, RadixDelete,
         ClearPolicy, ClearWheel, ClearRadix, shared
<1> QED BY <1>1, QuietTurn DEF LastOps, WriteOps, SameEntries

\* size.Add and liveCost.Add, and what Clear does to the two.
LEMMA CountTurn ==
  ASSUME CacheInv, NEW a \in Actors, AddSize(a) \/ AddCost(a) \/ ClearSize(a) \/ ClearCost(a)
  PROVE  Turn(a, <<>>)
<1> DEFINE h == Head(todo[a])
<1>1. size \in Int /\ liveCost \in Int /\ Cardinality(DOMAIN store) \in Int /\ CostOf(store) \in Int
  BY StructTypes, StoreNumbers DEF StructType
<1>2. CASE AddSize(a)
  <2>1. /\ Doing(a, "Size") /\ h.op = "Size" /\ size' = size + h.n /\ Then(a, <<>>)
        /\ UNCHANGED <<store, liveCost, clearMu>>
    BY <1>2 DEF AddSize, Doing
  <2>2. h \in Steps /\ h.n \in Int
    <3>1. h \in PlainSteps
      BY <2>1, PlainCall, StructTypes DEF Doing
    <3> QED BY <3>1 DEF PlainSteps, Steps
  <2> HIDE DEF h
  <2>3. Val(h, "Size") = h.n /\ Val(h, "Cost") = 0
    BY <2>1 DEF Val
  <2>4. Moves(h)
    BY <2>1 DEF Moves
  <2>5. Balance(h, <<>>)
    BY <1>1, <2>1, <2>2, <2>3, ShareEmpty DEF Balance
  <2> QED BY <2>1, <2>4, <2>5, DropTurn DEF h, LastOps, WriteOps, Within
<1>3. CASE AddCost(a)
  <2>1. /\ Doing(a, "Cost") /\ h.op = "Cost" /\ liveCost' = liveCost + h.n /\ Then(a, <<>>)
        /\ UNCHANGED <<store, size, clearMu>>
    BY <1>3 DEF AddCost, Doing
  <2>2. h \in Steps /\ h.n \in Int
    <3>1. h \in PlainSteps
      BY <2>1, PlainCall, StructTypes DEF Doing
    <3> QED BY <3>1 DEF PlainSteps, Steps
  <2> HIDE DEF h
  <2>3. Val(h, "Cost") = h.n /\ Val(h, "Size") = 0
    BY <2>1 DEF Val
  <2>4. Moves(h)
    BY <2>1 DEF Moves
  <2>5. Balance(h, <<>>)
    BY <1>1, <2>1, <2>2, <2>3, ShareEmpty DEF Balance
  <2> QED BY <2>1, <2>4, <2>5, DropTurn DEF h, LastOps, WriteOps, Within
<1>4. CASE ClearSize(a)
  <2>1. /\ Doing(a, "ClearSize") /\ h.op = "ClearSize" /\ size' = 0 /\ Then(a, <<>>)
        /\ UNCHANGED <<store, liveCost, clearMu>>
    BY <1>4 DEF ClearSize, Doing
  <2> HIDE DEF h
  <2>2. Val(h, "Cost") = 0
    BY <2>1 DEF Val
  <2>3. Moves(h)
    BY <2>1 DEF Moves
  <2>4. Balance(h, <<>>)
    BY <1>1, <2>1, <2>2, ShareEmpty DEF Balance
  <2> QED BY <2>1, <2>3, <2>4, DropTurn DEF h, LastOps, WriteOps, Within
<1>5. CASE ClearCost(a)
  <2>1. /\ Doing(a, "ClearCost") /\ h.op = "ClearCost" /\ liveCost' = 0 /\ Then(a, <<>>)
        /\ UNCHANGED <<store, size, clearMu>>
    BY <1>5 DEF ClearCost, Doing
  <2> HIDE DEF h
  <2>2. Val(h, "Size") = 0
    BY <2>1 DEF Val
  <2>3. Moves(h)
    BY <2>1 DEF Moves
  <2>4. Balance(h, <<>>)
    BY <1>1, <2>1, <2>2, ShareEmpty DEF Balance
  <2> QED BY <2>1, <2>3, <2>4, DropTurn DEF h, LastOps, WriteOps, Within
<1> QED BY <1>2, <1>3, <1>4, <1>5

\* Clear empties a shard.
LEMMA ClearShardTurn ==
  ASSUME CacheInv, NEW a \in Actors, ClearShard(a)
  PROVE  Turn(a, <<>>)
<1> DEFINE h == Head(todo[a])
<1>1. /\ Doing(a, "ClearShard") /\ h.op = "ClearShard" /\ Then(a, <<>>)
      /\ DOMAIN store' = DOMAIN store \ {h.key} /\ UNCHANGED <<size, liveCost, clearMu>>
      /\ Within(store', store)
  BY DEF ClearShard, Doing, Without, Within
<1> HIDE DEF h
<1>2. Moves(h)
  BY <1>1 DEF Moves
<1>3. Balance(h, <<>>)
  BY <1>1 DEF Balance
<1> QED BY <1>1, <1>2, <1>3, DropTurn DEF h, LastOps, WriteOps

\* Clear and removeExpired let go of clearMu.
LEMMA UnlockTurn ==
  ASSUME CacheInv, NEW a \in Actors, Unlock(a)
  PROVE  Turn(a, <<>>)
<1> DEFINE h == Head(todo[a])
<1>1. /\ ~Idle(a) /\ h.op = "Unlock" /\ Then(a, <<>>) /\ clearMu' = clearMu \ {a}
      /\ UNCHANGED <<store, size, liveCost>>
  BY DEF Unlock, Doing, shared
<1> HIDE DEF h
<1>2. <<>> \in Seq(PlainSteps) /\ ToSet(<<>>) = {} /\ Ordered(<<>>)
  BY EmptySeq, ElementsOfTuple, OrderedOne
<1>3. Follows(h, <<>>)
  BY <1>1, <1>2 DEF Follows
<1>4. Locks(a, h) /\ Moves(h)
  BY <1>1 DEF Locks, Moves, LastOps
<1>5. size \in Int /\ liveCost \in Int /\ Cardinality(DOMAIN store) \in Int /\ CostOf(store) \in Int
  BY StructTypes, StoreNumbers DEF StructType
<1>6. Val(h, "Size") = 0 /\ Val(h, "Cost") = 0
  BY <1>1 DEF Val
<1>7. Balance(h, <<>>)
  BY <1>1, <1>5, <1>6, ShareEmpty DEF Balance
<1>8. Carries(h, <<>>)
  BY <1>1, <1>2 DEF Carries, WriteOps
<1> QED BY <1>1, <1>2, <1>3, <1>4, <1>7, <1>8 DEF Turn, h

\* A turn that changes neither the store nor a counter, for sections that owe
\* them nothing.
LEMMA PlainTurn ==
  ASSUME CacheInv, NEW a \in Actors, ~Idle(a), NEW h, h = Head(todo[a]),
         h.op \notin {"Push", "Size", "Cost", "ClearSize", "ClearCost", "ClearShard"},
         NEW steps \in Seq(PlainSteps), Then(a, steps), \A s \in ToSet(steps) : s.op \notin {"Size", "Cost"},
         Follows(h, steps), Locks(a, h), Carries(h, steps), UNCHANGED <<store, size, liveCost>>
  PROVE  Turn(a, steps)
<1>1. Moves(h)
  BY DEF Moves
<1>2. Val(h, "Size") = 0 /\ Val(h, "Cost") = 0
  BY DEF Val
<1>3. Share(steps, "Size") = 0 /\ Share(steps, "Cost") = 0
  <2>1. steps \in Seq(Steps)
    BY CallType
  <2> QED BY <2>1, ShareNone
<1>4. size \in Int /\ liveCost \in Int /\ Cardinality(DOMAIN store) \in Int /\ CostOf(store) \in Int
  BY StructTypes, StoreNumbers DEF StructType
<1>5. Balance(h, steps)
  BY <1>2, <1>3, <1>4 DEF Balance
<1> QED BY <1>1, <1>5 DEF Turn

\* tryUpdateExisting goes on to replace the entry, or falls back to doSet.
LEMMA RetryTurn ==
  ASSUME CacheInv, NEW a \in Actors, ~Idle(a), NEW h, h = Head(todo[a]), h.op \in {"Peek", "Update"},
         NEW o \in {"Update", "Add"}, NEW next, next = [h EXCEPT !.op = o], Then(a, <<next>>),
         o = "Add" => h.key \notin DOMAIN store, UNCHANGED <<store, size, liveCost, clearMu>>
  PROVE  Turn(a, <<next>>)
<1>1. h \in PlainSteps
  BY PlainCall, StructTypes
<1>2. next \in PlainSteps /\ next.op = o /\ next.key = h.key /\ next.n = h.n /\ next.exp = h.exp
  BY <1>1 DEF PlainSteps, Steps, Ops, KeyOps, ClearOps
<1>3. next.key # AnyKey
  BY <1>1, <1>2, CacheAssumption DEF PlainSteps, KeyOps
<1>4. <<next>> \in Seq(PlainSteps) /\ ToSet(<<next>>) = {next} /\ Ordered(<<next>>)
  BY <1>2, ElementsOfTuple, OrderedOne
<1>5. Follows(h, <<next>>)
  BY <1>2, <1>3, <1>4 DEF Follows, LastOps, ClearCalls, ClearSteps, ClearOps
<1>6. Locks(a, h)
  BY DEF Locks, LastOps
<1>7. \A s \in ToSet(<<next>>) : s.op \notin {"Size", "Cost"}
  BY <1>2, <1>4
<1>8. Carries(h, <<next>>)
  BY <1>2, <1>4 DEF Carries, WriteOps, Stems, Writing
<1> QED BY <1>4, <1>5, <1>6, <1>7, <1>8, PlainTurn

\* tryUpdateExisting looks whether the key is stored.
LEMMA PeekTurn ==
  ASSUME CacheInv, NEW a \in Actors, Peek(a)
  PROVE  \E steps : Turn(a, steps)
<1>1. PICK h, o, next : /\ h = Head(todo[a])
                        /\ o = IF h.key \in DOMAIN store THEN "Update" ELSE "Add"
                        /\ next = [h EXCEPT !.op = o]
  OBVIOUS
<1>2. /\ ~Idle(a) /\ h.op = "Peek" /\ Then(a, <<next>>)
      /\ UNCHANGED <<store, size, liveCost, clearMu>>
  BY <1>1 DEF Peek, Doing, shared
<1>3. o \in {"Update", "Add"} /\ (o = "Add" => h.key \notin DOMAIN store)
  BY <1>1
<1>4. Turn(a, <<next>>)
  BY <1>1, <1>2, <1>3, RetryTurn
<1> QED BY <1>4

\* What a call owes, by its first section and the rest.
LEMMA ShareHead ==
  ASSUME NEW q \in Seq(Steps), q # <<>>, NEW o
  PROVE  /\ Share(q, o) = Val(Head(q), o) + Share(Tail(q), o)
         /\ Val(Head(q), o) \in Int /\ Share(Tail(q), o) \in Int
<1>1. PICK h, tail : h = Head(q) /\ tail = Tail(q)
  OBVIOUS
<1>2. h \in Steps /\ tail \in Seq(Steps) /\ <<h>> \in Seq(Steps)
  BY <1>1, ElementsOfHead
<1>3. q = <<h>> \o tail
  <2>1. Len(q) \in Nat \ {0} /\ SubSeq(q, 1, Len(q)) = q
    BY EmptySeq, SubSeqFull
  <2>2. SubSeq(q, 1, Len(q)) = <<q[1]>> \o SubSeq(q, 2, Len(q))
    BY <2>1, SubSeqRecursiveFirst
  <2>3. Tail(q) = SubSeq(q, 2, Len(q)) /\ Head(q) = q[1]
    BY TailIsSubSeq
  <2> QED BY <1>1, <2>1, <2>2, <2>3
<1>4. Share(<<h>> \o tail, o) = Share(<<h>>, o) + Share(tail, o)
  BY <1>2, ShareConcat
<1>5. Share(<<h>>, o) = Val(h, o) /\ Share(<<h>>, o) \in Int /\ Share(tail, o) \in Int
  BY <1>2, ShareOne, StepNumber
<1> QED BY <1>1, <1>3, <1>4, <1>5

\* The tails of short lists.
LEMMA TailOfThree ==
  ASSUME NEW x, NEW y, NEW z
  PROVE  Tail(<<x, y, z>>) = <<y, z>>
<1>1. PICK S, p, r : S = {x, y, z} /\ p = <<x, y, z>> /\ r = <<y, z>>
  OBVIOUS
<1>2. p \in Seq(S) /\ r \in Seq(S) /\ p # <<>>
  BY <1>1
<1>3. Len(p) = 3 /\ Len(r) = 2 /\ p[2] = y /\ p[3] = z /\ r[1] = y /\ r[2] = z
  BY <1>1
<1>4. /\ Tail(p) \in Seq(S) /\ Len(Tail(p)) = Len(p) - 1
      /\ \A i \in 1 .. Len(Tail(p)) : Tail(p)[i] = p[i + 1]
  BY <1>2, HeadTailProperties
<1>5. PICK t : t = Tail(p)
  OBVIOUS
<1>6. t \in Seq(S) /\ Len(t) = 2 /\ \A i \in 1 .. 2 : t[i] = p[i + 1]
  <2>1. t \in Seq(S) /\ Len(t) = Len(p) - 1 /\ \A i \in 1 .. Len(t) : t[i] = p[i + 1]
    BY <1>4, <1>5
  <2>2. Len(t) = 2
    BY <1>3, <2>1
  <2> QED BY <2>1, <2>2
<1>7. t[1] = r[1] /\ t[2] = r[2]
  <2>1. 1 \in 1 .. 2 /\ 2 \in 1 .. 2 /\ 1 + 1 = 2 /\ 2 + 1 = 3
    OBVIOUS
  <2>2. t[1] = p[2] /\ t[2] = p[3]
    BY <1>6, <2>1
  <2> QED BY <1>3, <2>2
<1>8. \A i \in 1 .. 2 : i = 1 \/ i = 2
  OBVIOUS
<1>9. \A i \in 1 .. 2 : t[i] = r[i]
  BY <1>7, <1>8
<1>10. t = r
  BY <1>2, <1>3, <1>6, <1>9, SeqEqual
<1> QED BY <1>1, <1>5, <1>10

\* The same for four sections.
LEMMA TailOfFour ==
  ASSUME NEW x, NEW y, NEW z, NEW u
  PROVE  Tail(<<x, y, z, u>>) = <<y, z, u>>
<1>1. PICK S, p, r : S = {x, y, z, u} /\ p = <<x, y, z, u>> /\ r = <<y, z, u>>
  OBVIOUS
<1>2. p \in Seq(S) /\ r \in Seq(S) /\ p # <<>>
  BY <1>1
<1>3. /\ Len(p) = 4 /\ Len(r) = 3 /\ p[2] = y /\ p[3] = z /\ p[4] = u
      /\ r[1] = y /\ r[2] = z /\ r[3] = u
  BY <1>1
<1>4. /\ Tail(p) \in Seq(S) /\ Len(Tail(p)) = Len(p) - 1
      /\ \A i \in 1 .. Len(Tail(p)) : Tail(p)[i] = p[i + 1]
  BY <1>2, HeadTailProperties
<1>5. PICK t : t = Tail(p)
  OBVIOUS
<1>6. t \in Seq(S) /\ Len(t) = 3 /\ \A i \in 1 .. 3 : t[i] = p[i + 1]
  <2>1. t \in Seq(S) /\ Len(t) = Len(p) - 1 /\ \A i \in 1 .. Len(t) : t[i] = p[i + 1]
    BY <1>4, <1>5
  <2>2. Len(t) = 3
    BY <1>3, <2>1
  <2> QED BY <2>1, <2>2
<1>7. t[1] = r[1] /\ t[2] = r[2] /\ t[3] = r[3]
  <2>1. 1 \in 1 .. 3 /\ 2 \in 1 .. 3 /\ 3 \in 1 .. 3 /\ 1 + 1 = 2 /\ 2 + 1 = 3 /\ 3 + 1 = 4
    OBVIOUS
  <2>2. t[1] = p[2] /\ t[2] = p[3] /\ t[3] = p[4]
    BY <1>6, <2>1
  <2> QED BY <1>3, <2>2
<1>8. \A i \in 1 .. 3 : i = 1 \/ i = 2 \/ i = 3
  OBVIOUS
<1>9. \A i \in 1 .. 3 : t[i] = r[i]
  BY <1>7, <1>8
<1>10. t = r
  BY <1>2, <1>3, <1>6, <1>9, SeqEqual
<1> QED BY <1>1, <1>5, <1>10

\* What store operations do to the number of entries and their cost.
LEMMA StoreChange ==
  ASSUME CacheInv, NEW k, NEW v, v.cost \in Int
  PROVE  /\ Cardinality(DOMAIN store) \in Int /\ CostOf(store) \in Int
         /\ size \in Int /\ liveCost \in Int
         /\ Measures(store, k, v) /\ (k \in DOMAIN store => store[k].cost \in Nat)
<1>1. /\ DOMAIN store \subseteq Keys /\ \A j \in DOMAIN store : store[j] \in Entries
      /\ size \in Int /\ liveCost \in Int
  BY StructTypes DEF StructType
<1>2. IsFiniteSet(DOMAIN store) /\ \A j \in DOMAIN store : store[j].cost \in Int
  BY <1>1, StoreNumbers
<1>3. k \in DOMAIN store => store[k].cost \in Nat
  BY <1>1, StructTypes DEF Entries
<1>4. PICK m : m = store
  OBVIOUS
<1>5. IsFiniteSet(DOMAIN m) /\ \A j \in DOMAIN m : m[j].cost \in Int
  BY <1>2, <1>4
<1>6. Cardinality(DOMAIN m) \in Nat /\ CostOf(m) \in Int /\ Measures(m, k, v)
  BY <1>5, StoreSizes
<1>7. Cardinality(DOMAIN store) \in Int /\ CostOf(store) \in Int /\ Measures(store, k, v)
  BY <1>4, <1>6
<1> QED BY <1>1, <1>3, <1>7

\* Delete, expiration and eviction take an entry out of the store, and owe the
\* counters one entry and its cost.
\* The sections that follow the removal of an entry of cost c.
Removal(steps, c) ==
  \E x, y, z, u :
    /\ steps = <<x, y, u>> \/ steps = <<x, y, z, u>>
    /\ x.op = "Size" /\ x.n = -1 /\ y.op = "Cost" /\ y.n = -c
    /\ z.op = "PolicyDel" /\ u.op = "RadixDelete"

LEMMA RemoveTurn ==
  ASSUME CacheInv, NEW a \in Actors, NEW o \in {"Remove", "Expire", "Evict"}, Doing(a, o),
         NEW j \in DOMAIN store, j = Head(todo[a]).key, NEW c, c = store[j].cost,
         NEW steps \in Seq(PlainSteps), Removal(steps, c),
         Then(a, steps), store' = Without(store, {j}), UNCHANGED <<size, liveCost, clearMu>>
  PROVE  Turn(a, steps)
<1> DEFINE h == Head(todo[a])
<1>1. ~Idle(a) /\ h.op = o /\ h.op \notin LastOps \cup ClearCalls \cup {"Push", "Size", "Cost", "ClearSize", "ClearCost"}
  BY DEF Doing, LastOps, ClearCalls, ClearSteps, ClearOps
<1> HIDE DEF h
<1>p. PICK q, x, y, z, u :
        /\ q = steps /\ (q = <<x, y, u>> \/ q = <<x, y, z, u>>)
        /\ x.op = "Size" /\ x.n = -1 /\ y.op = "Cost" /\ y.n = -c
        /\ z.op = "PolicyDel" /\ u.op = "RadixDelete"
  BY DEF Removal
<1>2. ToSet(steps) \subseteq {x, y, z, u}
  <2>1. ToSet(<<x, y, u>>) = {x, y, u} /\ ToSet(<<x, y, z, u>>) = {x, y, z, u}
    BY ElementsOfTriple, ElementsOfQuadruple
  <2> QED BY <1>p, <2>1
<1>3. Follows(h, steps)
  <2>1. \A s \in ToSet(steps) : s.op \in Small
    BY <1>2, <1>p DEF Small
  <2> QED BY <1>1, <2>1, SmallFollows
<1>4. Locks(a, h)
  BY <1>1 DEF Locks, LastOps
<1>5. DOMAIN store' = DOMAIN store \ {j}
  BY DEF Without
<1>6. Moves(h)
  BY <1>1, <1>5 DEF Moves
<1>7. PICK v : v = [cost |-> 0]
  OBVIOUS
<1>8. /\ Cardinality(DOMAIN store) \in Int /\ CostOf(store) \in Int /\ size \in Int /\ liveCost \in Int
      /\ Cardinality(DOMAIN store') = Cardinality(DOMAIN store) - 1
      /\ CostOf(store') = CostOf(store) - c /\ c \in Nat
  <2>1. v.cost \in Int
    BY <1>7
  <2> QED BY <1>5, <2>1, StoreChange DEF Measures
<1>9. Share(steps, "Size") = -1 /\ Share(steps, "Cost") = -c
  <2>1. q \in Seq(Steps) /\ q # <<>> /\ Head(q) = x
    BY <1>p, CallType
  <2>2. PICK r : r = Tail(q)
    OBVIOUS
  <2>3. r = <<y, u>> \/ r = <<y, z, u>>
    <3>1. Tail(<<x, y, u>>) = <<y, u>>
      BY TailOfThree
    <3>2. Tail(<<x, y, z, u>>) = <<y, z, u>>
      BY TailOfFour
    <3> QED BY <1>p, <2>2, <3>1, <3>2
  <2>4. PICK t : t = Tail(r)
    OBVIOUS
  <2>5. t = <<u>> \/ t = <<z, u>>
    <3>1. Tail(<<y, u>>) = <<u>>
      OBVIOUS
    <3>2. Tail(<<y, z, u>>) = <<z, u>>
      BY TailOfThree
    <3> QED BY <2>3, <2>4, <3>1, <3>2
  <2>6. r # <<>> /\ Head(r) = y
    BY <2>3
  <2>7. \A s \in ToSet(t) : s.op \notin {"Size", "Cost"}
    <3>1. ToSet(<<u>>) = {u} /\ ToSet(<<z, u>>) = {z, u}
      BY ElementsOfTuple, ElementsOfPair
    <3> QED BY <1>p, <2>5, <3>1
  <2>8. c \in Nat
    BY <1>8
  <2>9. /\ Val(x, "Size") = -1 /\ Val(x, "Cost") = 0
        /\ Val(y, "Size") = 0 /\ Val(y, "Cost") = -c
    BY <1>p DEF Val
  <2>10. r \in Seq(Steps)
    BY <2>1, <2>2, ElementsOfHead
  <2>11. t \in Seq(Steps)
    BY <2>4, <2>6, <2>10, ElementsOfHead
  <2>12. \A e \in {"Size", "Cost"} : Share(t, e) = 0
    BY <2>7, <2>11, ShareNone
  <2>13. \A e : Share(q, e) = Val(x, e) + Share(r, e)
    BY <2>1, <2>2, ShareHead
  <2>14. \A e : Share(r, e) = Val(y, e) + Share(t, e)
    BY <2>4, <2>6, <2>10, ShareHead
  <2>15. Share(r, "Size") = 0 + 0 /\ Share(r, "Cost") = -c + 0
    BY <2>9, <2>12, <2>14
  <2> QED BY <1>p, <2>8, <2>9, <2>13, <2>15
<1>10. Val(h, "Size") = 0 /\ Val(h, "Cost") = 0
  BY <1>1 DEF Val
<1>11. Balance(h, steps)
  <2>1. /\ size' + Share(steps, "Size") - Val(h, "Size") - Cardinality(DOMAIN store')
             = size - Cardinality(DOMAIN store)
    BY <1>8, <1>9, <1>10
  <2>2. PICK l, d, e, f, g : /\ l = liveCost /\ d = CostOf(store) /\ e = CostOf(store')
                             /\ f = Share(steps, "Cost") /\ g = Val(h, "Cost")
    OBVIOUS
  <2>3. l \in Int /\ d \in Int /\ c \in Int /\ e = d - c /\ f = -c /\ g = 0
    BY <1>8, <1>9, <1>10, <2>2
  <2>4. l + f - g - e = l - d
    BY <2>3
  <2> QED BY <2>1, <2>2, <2>4 DEF Balance
<1>12. Carries(h, steps)
  <2>1. \A s \in ToSet(steps) : s.op \notin WriteOps
    BY <1>2, <1>p DEF WriteOps
  <2>2. \A k \in DOMAIN store' : k \in DOMAIN store /\ store'[k] = store[k]
    BY DEF Without
  <2>3. Leaves(store', h)
    BY <1>5 DEF Leaves, h
  <2> QED BY <2>1, <2>2, <2>3 DEF Carries
<1> QED BY <1>1, <1>3, <1>4, <1>6, <1>11, <1>12 DEF Turn, h

\* The sections that follow a removal.
LEMMA RemovalList ==
  ASSUME CacheInv, NEW j \in DOMAIN store, NEW c, c = store[j].cost
  PROVE  /\ <<Step("Size", j, -1, 0), Step("Cost", j, -c, 0), Step("PolicyDel", j, 0, 0),
              Step("RadixDelete", j, 0, 0)>> \in Seq(PlainSteps)
         /\ <<Step("Size", j, -1, 0), Step("Cost", j, -c, 0), Step("RadixDelete", j, 0, 0)>>
              \in Seq(PlainSteps)
<1>1. j \in Keys /\ c \in Nat /\ -c \in Int /\ -1 \in Int
  BY StructTypes DEF StructType, Entries
<1>2. PICK x, y, z, u : /\ x = Step("Size", j, -1, 0) /\ y = Step("Cost", j, -c, 0)
                        /\ z = Step("PolicyDel", j, 0, 0) /\ u = Step("RadixDelete", j, 0, 0)
  OBVIOUS
<1>3. {x, y, z, u} \subseteq PlainSteps
  BY <1>1, <1>2, PlainStep DEF Ops, ClearOps
<1>4. <<x, y, z, u>> \in Seq(PlainSteps) /\ <<x, y, u>> \in Seq(PlainSteps)
  BY <1>3
<1> QED BY <1>2, <1>4

\* DeleteByHash for Delete and for a victim, DeleteIfExpired for the worker.
LEMMA RemoveTurns ==
  ASSUME CacheInv, NEW a \in Actors, DoDelete(a) \/ Evict(a) \/ (Expire /\ a = Worker)
  PROVE  \E steps : Turn(a, steps)
<1>1. PICK h, j, c : h = Head(todo[a]) /\ j = h.key /\ c = store[j].cost
  OBVIOUS
<1>2. PICK x, y, z, u : /\ x = Step("Size", j, -1, 0) /\ y = Step("Cost", j, -c, 0)
                        /\ z = Step("PolicyDel", j, 0, 0) /\ u = Step("RadixDelete", j, 0, 0)
  OBVIOUS
<1>3. PICK o \in {"Remove", "Expire", "Evict"} :
        /\ Doing(a, o) /\ UNCHANGED <<size, liveCost, clearMu>>
        /\ \/ /\ j \in DOMAIN store /\ store' = Without(store, {j})
              /\ Then(a, <<x, y, z, u>>) \/ Then(a, <<x, y, u>>)
           \/ /\ store' = store \/ (j \notin DOMAIN store /\ store' = Without(store, {j}))
              /\ o \in WriteOps => j \notin DOMAIN store
              /\ Then(a, <<>>)
  <2>1. CASE DoDelete(a)
    BY <1>1, <1>2, <2>1 DEF DoDelete
  <2>2. CASE Evict(a)
    BY <1>1, <1>2, <2>2 DEF Evict
  <2>3. CASE Expire /\ a = Worker
    <3>1. CASE Expired(h)
      <4>1. j \in DOMAIN store
        BY <1>1, <3>1 DEF Expired
      <4> QED BY <1>1, <1>2, <2>3, <3>1, <4>1 DEF Expire
    <3>2. CASE ~Expired(h)
      BY <1>1, <2>3, <3>2 DEF Expire, WriteOps
    <3> QED BY <3>1, <3>2
  <2> QED BY <2>1, <2>2, <2>3
<1>4. CASE /\ j \in DOMAIN store /\ store' = Without(store, {j})
           /\ Then(a, <<x, y, z, u>>) \/ Then(a, <<x, y, u>>)
  <2>1. /\ x.op = "Size" /\ x.n = -1 /\ y.op = "Cost" /\ y.n = -c
        /\ z.op = "PolicyDel" /\ u.op = "RadixDelete"
    BY <1>2, StepFields
  <2>2. <<x, y, z, u>> \in Seq(PlainSteps) /\ <<x, y, u>> \in Seq(PlainSteps)
    BY <1>1, <1>2, <1>4, RemovalList
  <2>3. CASE Then(a, <<x, y, z, u>>)
    <3>1. PICK steps : steps = <<x, y, z, u>>
      OBVIOUS
    <3>r. Removal(steps, c)
      BY <2>1, <3>1 DEF Removal
    <3>j. /\ j \in DOMAIN store /\ store' = Without(store, {j}) /\ c = store[j].cost
          /\ j = Head(todo[a]).key
      BY <1>1, <1>4
    <3>s. steps \in Seq(PlainSteps) /\ Then(a, steps)
      BY <2>2, <2>3, <3>1
    <3>2. Turn(a, steps)
      BY <1>3, <3>r, <3>j, <3>s, RemoveTurn
    <3> QED BY <3>2
  <2>4. CASE Then(a, <<x, y, u>>)
    <3>1. PICK steps : steps = <<x, y, u>>
      OBVIOUS
    <3>r. Removal(steps, c)
      BY <2>1, <3>1 DEF Removal
    <3>j. /\ j \in DOMAIN store /\ store' = Without(store, {j}) /\ c = store[j].cost
          /\ j = Head(todo[a]).key
      BY <1>1, <1>4
    <3>s. steps \in Seq(PlainSteps) /\ Then(a, steps)
      BY <2>2, <2>4, <3>1
    <3>2. Turn(a, steps)
      BY <1>3, <3>r, <3>j, <3>s, RemoveTurn
    <3> QED BY <3>2
  <2> QED BY <1>4, <2>3, <2>4
<1>5. CASE /\ store' = store \/ (j \notin DOMAIN store /\ store' = Without(store, {j}))
           /\ o \in WriteOps => j \notin DOMAIN store
           /\ Then(a, <<>>)
  <2>1. SameEntries(store', store)
    <3>1. CASE store' = store
      BY <3>1 DEF SameEntries
    <3>2. CASE j \notin DOMAIN store /\ store' = Without(store, {j})
      <4>1. DOMAIN store \ {j} = DOMAIN store
        BY <3>2
      <4> QED BY <3>2, <4>1 DEF Without, SameEntries
    <3> QED BY <1>5, <3>1, <3>2
  <2> QED BY <1>1, <1>3, <1>5, <2>1, QuietTurn DEF LastOps
<1> QED BY <1>3, <1>4, <1>5

\* What a list of sections on the other structures adds up to.
LEMMA ScheduleShare ==
  ASSUME NEW k \in Keys, NEW exp \in Nat
  PROVE  /\ ScheduleIfTTL(k, exp) \in Seq(PlainSteps)
         /\ \A s \in ToSet(ScheduleIfTTL(k, exp)) : s.op = "Schedule"
         /\ \A o \in {"Size", "Cost"} : Share(ScheduleIfTTL(k, exp), o) = 0
<1>1. PICK q : q = ScheduleIfTTL(k, exp)
  OBVIOUS
<1>2. q \in Seq(PlainSteps) /\ \A s \in ToSet(q) : s.op = "Schedule"
  BY <1>1, SchedulePart
<1>3. q \in Seq(Steps)
  BY <1>2, CallType
<1>4. \A s \in ToSet(q) : s.op \notin {"Size", "Cost"}
  BY <1>2
<1>5. \A o \in {"Size", "Cost"} : Share(q, o) = 0
  BY <1>3, <1>4, ShareNone
<1> QED BY <1>1, <1>2, <1>5

\* A turn that stores value v under the key of section h and owes the counters
\* the entry and the difference in cost.
LEMMA StoreTurn ==
  ASSUME CacheInv, NEW a \in Actors, ~Idle(a), NEW h, h = Head(todo[a]), h.op \in {"Update", "Put"},
         NEW steps \in Seq(PlainSteps), Then(a, steps), \A s \in ToSet(steps) : s.op \in Small,
         DOMAIN store' = DOMAIN store \cup (IF h.op = "Put" THEN {h.key} ELSE {}),
         UNCHANGED <<size, liveCost, clearMu>>,
         Share(steps, "Size") = Cardinality(DOMAIN store') - Cardinality(DOMAIN store),
         (h.op = "Put" => h.key \notin DOMAIN store) => Share(steps, "Cost") = CostOf(store') - CostOf(store),
         Cardinality(DOMAIN store') \in Int, CostOf(store') \in Int,
         store'[h.key] = [cost |-> h.n, exp |-> h.exp],
         \A k \in DOMAIN store' \ {h.key} : k \in DOMAIN store /\ store'[k] = store[k]
  PROVE  Turn(a, steps)
<1>1. Follows(h, steps)
  BY SmallFollows DEF LastOps, ClearCalls, ClearSteps, ClearOps
<1>2. Locks(a, h) /\ Moves(h)
  BY DEF Locks, Moves, LastOps
<1>3. size \in Int /\ liveCost \in Int /\ Cardinality(DOMAIN store) \in Int /\ CostOf(store) \in Int
  BY StructTypes, StoreNumbers DEF StructType
<1>4. Val(h, "Size") = 0 /\ Val(h, "Cost") = 0
  BY DEF Val
<1>5. Balance(h, steps)
  <2>1. PICK l, c, d, e, n, m, r, t :
          /\ l = liveCost /\ c = size /\ d = CostOf(store) /\ e = CostOf(store')
          /\ n = Cardinality(DOMAIN store) /\ m = Cardinality(DOMAIN store')
          /\ r = Share(steps, "Size") /\ t = Share(steps, "Cost")
    OBVIOUS
  <2>2. /\ {l, c, d, e, n, m} \subseteq Int /\ r = m - n
        /\ (h.op = "Put" => h.key \notin DOMAIN store) => t = e - d
    BY <1>3, <2>1
  <2>3. c + r - 0 - m = c - n
    BY ONLY <2>2
  <2>4. (h.op = "Put" => h.key \notin DOMAIN store) => l + t - 0 - e = l - d
    <3>1. \A i, j, k \in Int : i + (j - k) - 0 - j = i - k
      OBVIOUS
    <3> QED BY <2>2, <3>1
  <2> QED BY <1>4, <2>1, <2>3, <2>4 DEF Balance
<1>6. Carries(h, steps)
  <2>1. \A s \in ToSet(steps) : s.op \notin WriteOps
    BY DEF Small, WriteOps
  <2>2. h.op \in WriteOps /\ Leaves(store', h)
    BY DEF WriteOps, Leaves
  <2> QED BY <2>1, <2>2 DEF Carries
<1> QED BY <1>1, <1>2, <1>5, <1>6 DEF Turn

\* UpdateExistingByHash replaces the entry, or finds it gone.
LEMMA UpdateTurn ==
  ASSUME CacheInv, NEW a \in Actors, Update(a)
  PROVE  \E steps : Turn(a, steps)
<1>1. PICK h, next, v, delta, c, p, r :
        /\ h = Head(todo[a]) /\ next = [h EXCEPT !.op = "Add"]
        /\ v = [cost |-> h.n, exp |-> h.exp] /\ delta = h.n - store[h.key].cost
        /\ c = Step("Cost", h.key, delta, 0) /\ p = Step("PolicyUpdate", h.key, h.n, 0)
        /\ r = ScheduleIfTTL(h.key, h.exp)
  OBVIOUS
<1>2. ~Idle(a) /\ h.op = "Update" /\ UNCHANGED <<size, liveCost, clearMu>>
  BY <1>1 DEF Update, Doing
<1>3. h \in PlainSteps /\ h.key \in Keys /\ h.n \in Costs /\ h.exp \in Nat /\ h.n \in Nat
  <2>1. h \in PlainSteps
    BY <1>1, <1>2, PlainCall DEF CacheInv
  <2> QED BY <1>2, <2>1, StructTypes DEF PlainSteps, Steps, KeyOps
<1>4. CASE h.key \notin DOMAIN store /\ Then(a, <<next>>) /\ UNCHANGED store
  <2>1. Turn(a, <<next>>)
    BY <1>1, <1>2, <1>4, RetryTurn
  <2> QED BY <2>1
<1>5. CASE /\ h.key \in DOMAIN store /\ store' = [store EXCEPT ![h.key] = v]
           /\ Then(a, (IF delta # 0 THEN <<c, p>> ELSE <<>>) \o r)
  <2>1. /\ DOMAIN store' = DOMAIN store /\ Cardinality(DOMAIN store) \in Int /\ CostOf(store) \in Int
        /\ CostOf(store') = CostOf(store) - store[h.key].cost + v.cost /\ store[h.key].cost \in Nat
    <3>1. v.cost \in Int
      BY <1>1, <1>3
    <3> QED BY <1>5, <3>1, StoreChange DEF Measures
  <2>2. delta \in Int
    BY <1>1, <1>3, <2>1
  <2>3. /\ c \in PlainSteps /\ c.op = "Cost" /\ c.n = delta
        /\ p \in PlainSteps /\ p.op = "PolicyUpdate"
    BY <1>1, <1>3, <2>2, PlainStep, StepFields DEF Ops, ClearOps
  <2>4. PICK q : q = IF delta # 0 THEN <<c, p>> ELSE <<>>
    OBVIOUS
  <2>5. <<c>> \in Seq(Steps) /\ <<p>> \in Seq(Steps) /\ <<c>> \o <<p>> = <<c, p>>
    BY <2>3, PairConcat DEF PlainSteps
  <2>6. /\ q \in Seq(PlainSteps) /\ \A s \in ToSet(q) : s = c \/ s = p
        /\ Share(q, "Size") = 0 /\ Share(q, "Cost") = delta
    <3>1. CASE delta = 0
      <4>1. q = <<>>
        BY <2>4, <3>1
      <4>2. q \in Seq(PlainSteps) /\ ToSet(q) = {}
        BY <4>1, EmptySeq, ElementsOfTuple
      <4>3. \A o : Share(q, o) = 0
        BY <4>1, ShareEmpty
      <4> QED BY <3>1, <4>2, <4>3
    <3>2. CASE delta # 0
      <4>1. q = <<c, p>> /\ q = <<c>> \o <<p>>
        BY <2>4, <2>5, <3>2
      <4>2. q \in Seq(PlainSteps) /\ ToSet(q) = {c, p}
        BY <2>3, <4>1, ElementsOfPair
      <4>3. \A o : Share(q, o) = Val(c, o) + Val(p, o)
        <5>1. \A o : Share(q, o) = Share(<<c>>, o) + Share(<<p>>, o)
          <6>1. PICK x, y : x = <<c>> /\ y = <<p>>
            OBVIOUS
          <6>2. x \in Seq(Steps) /\ y \in Seq(Steps) /\ q = x \o y
            BY <2>5, <4>1, <6>1
          <6>3. \A o : Share(q, o) = Share(x, o) + Share(y, o)
            BY <6>2, ShareConcat
          <6> QED BY <6>1, <6>3
        <5>2. c \in Steps /\ p \in Steps
          BY <2>3 DEF PlainSteps
        <5>3. \A o : Share(<<c>>, o) = Val(c, o) /\ Share(<<p>>, o) = Val(p, o)
          BY <5>2, ShareOne
        <5> QED BY <5>1, <5>3
      <4>4. Val(c, "Size") = 0 /\ Val(p, "Size") = 0 /\ Val(c, "Cost") = delta /\ Val(p, "Cost") = 0
        BY <2>3 DEF Val
      <4>5. Share(q, "Size") = 0 + 0 /\ Share(q, "Cost") = delta + 0
        BY <4>3, <4>4
      <4> QED BY <2>2, <4>2, <4>5
    <3> QED BY <3>1, <3>2
  <2>7. /\ r \in Seq(PlainSteps) /\ \A s \in ToSet(r) : s.op = "Schedule"
        /\ Share(r, "Size") = 0 /\ Share(r, "Cost") = 0
    <3>1. h.key \in Keys /\ h.exp \in Nat /\ r = ScheduleIfTTL(h.key, h.exp)
      BY <1>1, <1>3
    <3>2. /\ r \in Seq(PlainSteps) /\ \A s \in ToSet(r) : s.op = "Schedule"
          /\ \A o \in {"Size", "Cost"} : Share(r, o) = 0
      BY ONLY <3>1, ScheduleShare
    <3> QED BY <3>2
  <2>8. PICK steps : steps = q \o r
    OBVIOUS
  <2>9. /\ steps \in Seq(PlainSteps) /\ ToSet(steps) = ToSet(q) \cup ToSet(r)
        /\ Share(steps, "Size") = 0 /\ Share(steps, "Cost") = delta
    <3>1. q \o r \in Seq(PlainSteps) /\ ToSet(q \o r) = ToSet(q) \cup ToSet(r)
      BY <2>6, <2>7, ElementsOfConcat
    <3>2. q \in Seq(Steps) /\ r \in Seq(Steps)
      BY <2>6, <2>7, CallType
    <3>3. \A o : Share(q \o r, o) = Share(q, o) + Share(r, o)
      BY <3>2, ShareConcat
    <3>4. Share(q \o r, "Size") = 0 + 0 /\ Share(q \o r, "Cost") = delta + 0
      BY <2>6, <2>7, <3>3
    <3> QED BY <2>2, <2>8, <3>1, <3>4
  <2>10. \A s \in ToSet(steps) : s.op \in Small
    BY <2>3, <2>6, <2>7, <2>9 DEF Small
  <2>11. Then(a, steps)
    BY <1>5, <2>4, <2>8
  <2>12. Share(steps, "Size") = Cardinality(DOMAIN store') - Cardinality(DOMAIN store)
    BY <2>1, <2>9
  <2>13. Share(steps, "Cost") = CostOf(store') - CostOf(store) /\ CostOf(store') \in Int
    <3>1. PICK d, e, f, n : d = CostOf(store) /\ e = CostOf(store') /\ f = store[h.key].cost /\ n = h.n
      OBVIOUS
    <3>2. d \in Int /\ f \in Int /\ n \in Int /\ e = d - f + n /\ delta = n - f
      BY <1>1, <1>3, <2>1, <3>1
    <3>3. delta = e - d /\ e \in Int
      BY ONLY <3>2
    <3> QED BY <2>9, <3>1, <3>3
  <2>e. /\ store'[h.key] = [cost |-> h.n, exp |-> h.exp]
        /\ \A k \in DOMAIN store' \ {h.key} : k \in DOMAIN store /\ store'[k] = store[k]
    BY <1>1, <1>5
  <2>14. Turn(a, steps)
    BY <1>1, <1>2, <2>1, <2>9, <2>10, <2>11, <2>12, <2>13, <2>e, StoreTurn
  <2> QED BY <2>14
<1>6. \/ h.key \notin DOMAIN store /\ Then(a, <<next>>) /\ UNCHANGED store
      \/ /\ h.key \in DOMAIN store /\ store' = [store EXCEPT ![h.key] = v]
         /\ Then(a, (IF delta # 0 THEN <<c, p>> ELSE <<>>) \o r)
  BY <1>1 DEF Update
<1> QED BY <1>4, <1>5, <1>6

\* A list of sections that put one structure in line.
SmallList(q) == q \in Seq(PlainSteps) /\ \A s \in ToSet(q) : s.op \in Small

\* One such list after another.
LEMMA SmallConcat ==
  ASSUME NEW p, NEW q, SmallList(p), SmallList(q)
  PROVE  SmallList(p \o q) /\ \A o : Share(p \o q, o) = Share(p, o) + Share(q, o)
<1>1. p \in Seq(PlainSteps) /\ q \in Seq(PlainSteps)
  BY DEF SmallList
<1>2. p \in Seq(Steps) /\ q \in Seq(Steps)
  BY <1>1, CallType
<1>3. \A o : Share(p \o q, o) = Share(p, o) + Share(q, o)
  BY <1>2, ShareConcat
<1>4. p \o q \in Seq(PlainSteps) /\ ToSet(p \o q) = ToSet(p) \cup ToSet(q)
  BY <1>1, ElementsOfConcat
<1> QED BY <1>3, <1>4 DEF SmallList

\* store.Set: a new entry owes one to the size, and its whole cost in any case.
LEMMA PutTurn ==
  ASSUME CacheInv, NEW a \in Actors, Put(a)
  PROVE  \E steps : Turn(a, steps)
<1>1. PICK h, v, s1, s2, s3, p1, p2, p3, p4 :
        /\ h = Head(todo[a]) /\ v = [cost |-> h.n, exp |-> h.exp]
        /\ s1 = Step("Size", h.key, 1, 0) /\ s2 = Step("Cost", h.key, h.n, 0)
        /\ s3 = Step("RadixInsert", h.key, 0, 0)
        /\ p1 = IF h.key \in DOMAIN store THEN <<>> ELSE <<s1>>
        /\ p2 = <<s2>> /\ p3 = ScheduleIfTTL(h.key, h.exp) /\ p4 = <<s3>>
  OBVIOUS
<1>2. /\ ~Idle(a) /\ h.op = "Put" /\ Then(a, p1 \o p2 \o p3 \o p4)
      /\ store' = With(store, h.key, v) /\ UNCHANGED <<size, liveCost, clearMu>>
  BY <1>1 DEF Put, Doing
<1>3. h.key \in Keys /\ h.exp \in Nat /\ h.n \in Nat /\ h.n \in Costs
  <2>1. h \in PlainSteps
    BY <1>1, <1>2, PlainCall DEF CacheInv
  <2> QED BY <1>2, <2>1, StructTypes DEF PlainSteps, Steps, KeyOps
<1>4. /\ s1 \in PlainSteps /\ s1.op = "Size" /\ s1.n = 1
      /\ s2 \in PlainSteps /\ s2.op = "Cost" /\ s2.n = h.n
      /\ s3 \in PlainSteps /\ s3.op = "RadixInsert"
  BY <1>1, <1>3, StepFields, PlainStep DEF Ops, ClearOps
<1>5. /\ Val(s1, "Size") = 1 /\ Val(s1, "Cost") = 0 /\ Val(s2, "Size") = 0 /\ Val(s2, "Cost") = h.n
      /\ Val(s3, "Size") = 0 /\ Val(s3, "Cost") = 0
  BY <1>4 DEF Val
<1>6. /\ p1 \in Seq(PlainSteps) /\ \A s \in ToSet(p1) : s.op \in Small
      /\ Share(p1, "Size") = (IF h.key \in DOMAIN store THEN 0 ELSE 1) /\ Share(p1, "Cost") = 0
  <2>1. CASE h.key \in DOMAIN store
    <3>1. p1 = <<>>
      BY <1>1, <2>1
    <3>2. p1 \in Seq(PlainSteps) /\ ToSet(p1) = {}
      BY <3>1, EmptySeq, ElementsOfTuple
    <3>3. \A o : Share(p1, o) = 0
      BY <3>1, ShareEmpty
    <3> QED BY <2>1, <3>2, <3>3
  <2>2. CASE h.key \notin DOMAIN store
    <3>1. p1 = <<s1>>
      BY <1>1, <2>2
    <3>2. p1 \in Seq(PlainSteps) /\ ToSet(p1) = {s1}
      BY <1>4, <3>1, ElementsOfTuple
    <3>3. \A o : Share(p1, o) = Val(s1, o)
      <4>1. s1 \in Steps
        BY <1>4 DEF PlainSteps
      <4> QED BY <3>1, <4>1, ShareOne
    <3> QED BY <1>4, <1>5, <2>2, <3>2, <3>3 DEF Small
  <2> QED BY <2>1, <2>2
<1>7. /\ p2 \in Seq(PlainSteps) /\ \A s \in ToSet(p2) : s.op \in Small
      /\ Share(p2, "Size") = 0 /\ Share(p2, "Cost") = h.n
  <2>1. p2 \in Seq(PlainSteps) /\ ToSet(p2) = {s2}
    BY <1>1, <1>4, ElementsOfTuple
  <2>2. \A o : Share(p2, o) = Val(s2, o)
    <3>1. s2 \in Steps
      BY <1>4 DEF PlainSteps
    <3> QED BY <1>1, <3>1, ShareOne
  <2> QED BY <1>4, <1>5, <2>1, <2>2 DEF Small
<1>8. /\ p3 \in Seq(PlainSteps) /\ \A s \in ToSet(p3) : s.op \in Small
      /\ Share(p3, "Size") = 0 /\ Share(p3, "Cost") = 0
  <2>1. h.key \in Keys /\ h.exp \in Nat /\ p3 = ScheduleIfTTL(h.key, h.exp)
    BY <1>1, <1>3
  <2>2. /\ p3 \in Seq(PlainSteps) /\ \A s \in ToSet(p3) : s.op = "Schedule"
        /\ \A o \in {"Size", "Cost"} : Share(p3, o) = 0
    BY ONLY <2>1, ScheduleShare
  <2> QED BY <2>2 DEF Small
<1>9. /\ p4 \in Seq(PlainSteps) /\ \A s \in ToSet(p4) : s.op \in Small
      /\ Share(p4, "Size") = 0 /\ Share(p4, "Cost") = 0
  <2>1. p4 \in Seq(PlainSteps) /\ ToSet(p4) = {s3}
    BY <1>1, <1>4, ElementsOfTuple
  <2>2. \A o : Share(p4, o) = Val(s3, o)
    <3>1. s3 \in Steps
      BY <1>4 DEF PlainSteps
    <3> QED BY <1>1, <3>1, ShareOne
  <2> QED BY <1>4, <1>5, <2>1, <2>2 DEF Small
<1>10. SmallList(p1) /\ SmallList(p2) /\ SmallList(p3) /\ SmallList(p4)
  BY <1>6, <1>7, <1>8, <1>9 DEF SmallList
<1>11. PICK q, r, steps : q = p1 \o p2 /\ r = q \o p3 /\ steps = r \o p4
  OBVIOUS
<1>12. SmallList(q) /\ \A o : Share(q, o) = Share(p1, o) + Share(p2, o)
  <2>1. SmallList(p1 \o p2) /\ \A o : Share(p1 \o p2, o) = Share(p1, o) + Share(p2, o)
    BY <1>10, SmallConcat
  <2> QED BY <1>11, <2>1
<1>13. SmallList(r) /\ \A o : Share(r, o) = Share(q, o) + Share(p3, o)
  <2>1. SmallList(q \o p3) /\ \A o : Share(q \o p3, o) = Share(q, o) + Share(p3, o)
    BY <1>10, <1>12, SmallConcat
  <2> QED BY <1>11, <2>1
<1>14. SmallList(steps) /\ \A o : Share(steps, o) = Share(r, o) + Share(p4, o)
  <2>1. SmallList(r \o p4) /\ \A o : Share(r \o p4, o) = Share(r, o) + Share(p4, o)
    BY <1>10, <1>13, SmallConcat
  <2> QED BY <1>11, <2>1
<1>15. /\ Share(steps, "Size") = (IF h.key \in DOMAIN store THEN 0 ELSE 1)
       /\ Share(steps, "Cost") = h.n
  <2>1. PICK e, f : e = (IF h.key \in DOMAIN store THEN 0 ELSE 1) /\ f = h.n
    OBVIOUS
  <2>2. /\ Share(steps, "Size") = ((e + 0) + 0) + 0
        /\ Share(steps, "Cost") = ((0 + f) + 0) + 0
    BY <1>6, <1>7, <1>8, <1>9, <1>12, <1>13, <1>14, <2>1
  <2>3. e \in Int /\ f \in Int
    BY <1>3, <2>1
  <2> QED BY <2>1, <2>2, <2>3
<1>16. /\ Cardinality(DOMAIN store) \in Int /\ CostOf(store) \in Int
       /\ h.key \in DOMAIN store => Cardinality(DOMAIN store') = Cardinality(DOMAIN store)
       /\ h.key \notin DOMAIN store =>
            /\ Cardinality(DOMAIN store') = Cardinality(DOMAIN store) + 1
            /\ CostOf(store') = CostOf(store) + h.n
  <2>1. v.cost = h.n /\ v.cost \in Int
    BY <1>1, <1>3
  <2> QED BY <1>2, <2>1, StoreChange DEF Measures
<1>17. Then(a, steps) /\ DOMAIN store' = DOMAIN store \cup {h.key}
  BY <1>2, <1>11 DEF With
<1>18. CostOf(store') \in Int
  <2>1. DOMAIN store' \subseteq Keys /\ \A j \in DOMAIN store' : store'[j] \in Entries
    <3>1. v \in Entries
      BY <1>1, <1>3 DEF Entries
    <3> QED BY <1>2, <1>3, <3>1, StructTypes DEF StructType, With
  <2>2. PICK m : m = store'
    OBVIOUS
  <2>3. CostOf(m) \in Int
    BY <2>1, <2>2, StoreNumbers
  <2> QED BY <2>2, <2>3
<1>19. Share(steps, "Size") = Cardinality(DOMAIN store') - Cardinality(DOMAIN store)
  BY <1>15, <1>16
<1>20. h.key \notin DOMAIN store => Share(steps, "Cost") = CostOf(store') - CostOf(store)
  <2>1. PICK d, e, n : d = CostOf(store) /\ e = CostOf(store') /\ n = h.n
    OBVIOUS
  <2>2. d \in Int /\ n \in Int /\ (h.key \notin DOMAIN store => e = d + n)
    BY <1>3, <1>16, <2>1
  <2>3. h.key \notin DOMAIN store => n = e - d
    BY <2>2
  <2> QED BY <1>15, <2>1, <2>3
<1>21. Cardinality(DOMAIN store') \in Int
  BY <1>16
<1>e. /\ store'[h.key] = [cost |-> h.n, exp |-> h.exp]
      /\ \A k \in DOMAIN store' \ {h.key} : k \in DOMAIN store /\ store'[k] = store[k]
  BY <1>1, <1>2 DEF With
<1>22. Turn(a, steps)
  BY <1>1, <1>2, <1>14, <1>17, <1>18, <1>19, <1>20, <1>21, <1>e, StoreTurn DEF SmallList
<1> QED BY <1>22

\* Sections in any order: none has to come first or last, or stands alone.
LEMMA OrderedUniform ==
  ASSUME NEW q, \A i \in 1 .. Len(q) : q[i].op \notin LastOps \cup {"Update", "Add", "Put"}
  PROVE  Ordered(q)
BY DEF Ordered, Before

\* The wheel hands out the events that are due.
LEMMA AdvanceTurn ==
  ASSUME CacheInv, Advance
  PROVE  \E steps : Turn(Worker, steps)
<1>0. Worker \in Actors
  BY DEF Actors
<1>1. PICK h, t : h = Head(todo[Worker]) /\ t = h.n
  OBVIOUS
<1>2. /\ ~Idle(Worker) /\ h.op = "Advance" /\ UNCHANGED <<store, size, liveCost, clearMu>>
  BY <1>1 DEF Advance, Doing
<1>3. PICK due \in SUBSET {e \in wheel : e.exp <= t} : \E order \in SetToSeqs(due) :
        Then(Worker, [i \in DOMAIN order |-> Step("Expire", order[i].key, t, order[i].exp)])
  BY <1>1 DEF Advance
<1>4. PICK order \in SetToSeqs(due) :
        Then(Worker, [i \in DOMAIN order |-> Step("Expire", order[i].key, t, order[i].exp)])
  BY <1>3
<1>5. PICK steps : steps = [i \in DOMAIN order |-> Step("Expire", order[i].key, t, order[i].exp)]
  OBVIOUS
<1>6. t \in Int /\ t <= now
  <2>1. h \in PlainSteps
    BY <1>0, <1>1, <1>2, PlainCall DEF CacheInv
  <2> QED BY <1>1, <1>2, <2>1 DEF PlainSteps, Steps
<1>7. IsFiniteSet(due) /\ due \subseteq Events
  <2>1. IsFiniteSet(wheel) /\ wheel \subseteq Events
    BY StructTypes DEF StructType
  <2> QED BY <2>1, FS_Subset
<1>8. /\ DOMAIN order = 1 .. Len(order) /\ Len(order) \in Nat
      /\ \A i \in DOMAIN order : order[i] \in due
  <2>1. order \in Seq(due) /\ DOMAIN order = 1 .. Len(order) /\ \A i \in DOMAIN order : order[i] \in due
    BY <1>7, ListOfSet
  <2> QED BY <2>1, LenProperties
<1>9. \A i \in DOMAIN order : steps[i] \in PlainSteps /\ steps[i].op = "Expire" /\ steps[i].key \in Keys
  <2> SUFFICES ASSUME NEW i \in DOMAIN order
               PROVE  steps[i] \in PlainSteps /\ steps[i].op = "Expire" /\ steps[i].key \in Keys
    OBVIOUS
  <2>1. order[i].key \in Keys /\ order[i].exp \in Nat /\ order[i].exp > 0
    BY <1>7, <1>8 DEF Events
  <2>2. steps[i] = Step("Expire", order[i].key, t, order[i].exp)
    BY <1>5
  <2>3. Step("Expire", order[i].key, t, order[i].exp) \in PlainSteps
    BY <1>6, <2>1, PlainStep DEF Ops, ClearOps
  <2> QED BY <2>1, <2>2, <2>3, StepFields
<1>10. steps \in Seq(PlainSteps) /\ Len(steps) = Len(order)
  <2>1. steps \in [1 .. Len(order) -> PlainSteps]
    BY <1>5, <1>8, <1>9
  <2> QED BY <1>8, <2>1
<1>11. \A s \in ToSet(steps) : s.op = "Expire" /\ s.key # AnyKey
  <2>1. AnyKey \notin Keys
    BY CacheAssumption
  <2> QED BY <1>5, <1>9, <2>1 DEF ToSet
<1>12. Follows(h, steps)
  <2>1. Ordered(steps)
    BY <1>8, <1>9, <1>10, OrderedUniform DEF LastOps
  <2> QED BY <1>2, <1>11, <2>1 DEF Follows, LastOps, ClearCalls, ClearSteps, ClearOps
<1>13. Locks(Worker, h)
  BY <1>2 DEF Locks, LastOps
<1>14. Then(Worker, steps) /\ \A s \in ToSet(steps) : s.op \notin {"Size", "Cost"}
  BY <1>4, <1>5, <1>11
<1>c. Carries(h, steps)
  BY <1>2, <1>11 DEF Carries, WriteOps
<1>15. Turn(Worker, steps)
  BY <1>0, <1>1, <1>2, <1>10, <1>12, <1>13, <1>14, <1>c, PlainTurn
<1> QED BY <1>15

\* removeExpired takes clearMu.
LEMMA ExpireLockTurn ==
  ASSUME CacheInv, ExpireLock
  PROVE  \E steps : Turn(Worker, steps)
<1>0. Worker \in Actors
  BY DEF Actors
<1>1. PICK h, s1, s2 : /\ h = Head(todo[Worker]) /\ s1 = Step("Advance", NoKey, now, 0)
                       /\ s2 = Step("Unlock", NoKey, 0, 0)
  OBVIOUS
<1>2. /\ ~Idle(Worker) /\ h.op = "ExpireLock" /\ Lock(Worker) /\ Then(Worker, <<s1, s2>>)
      /\ UNCHANGED <<store, size, liveCost>>
  BY <1>1 DEF ExpireLock, Doing, shared
<1>3. /\ s1 \in PlainSteps /\ s1.op = "Advance" /\ s1.key # AnyKey
      /\ s2 \in PlainSteps /\ s2.op = "Unlock" /\ s2.key # AnyKey
  <2>1. now \in Int
    BY DEF CacheInv, TypeOK
  <2>2. s1.op = "Advance" /\ s1.n = now /\ s1.key = NoKey /\ s1 \in Steps
    BY <1>1, <2>1, StepFields DEF Ops
  <2>3. s2.op = "Unlock" /\ s2.key = NoKey /\ s2 \in Steps
    BY <1>1, StepFields DEF Ops
  <2> QED BY <2>1, <2>2, <2>3, CacheAssumption DEF PlainSteps, KeyOps, ClearOps
<1>4. PICK steps : steps = <<s1, s2>>
  OBVIOUS
<1>5. steps \in Seq(PlainSteps) /\ ToSet(steps) = {s1, s2}
  BY <1>3, <1>4, ElementsOfPair
<1>6. Ordered(steps)
  <2>1. Before(s1, s2)
    BY <1>3 DEF Before, LastOps
  <2> QED BY <1>4, <2>1, OrderedTwo
<1>7. Follows(h, steps)
  BY <1>2, <1>3, <1>5, <1>6 DEF Follows, Has, LastOps, ClearCalls, ClearSteps, ClearOps
<1>8. Locks(Worker, h)
  BY <1>2 DEF Locks, LastOps
<1>9. Then(Worker, steps) /\ \A s \in ToSet(steps) : s.op \notin {"Size", "Cost"}
  BY <1>2, <1>3, <1>4, <1>5
<1>c. Carries(h, steps)
  BY <1>2, <1>3, <1>5 DEF Carries, WriteOps
<1>10. Turn(Worker, steps)
  BY <1>0, <1>1, <1>2, <1>5, <1>7, <1>8, <1>9, <1>c, PlainTurn
<1> QED BY <1>10

\* doSet evicts the victims first.
LEMMA AddTurn ==
  ASSUME CacheInv, NEW a \in Actors, Add(a)
  PROVE  \E steps : Turn(a, steps)
<1>1. PICK h, put : h = Head(todo[a]) /\ put = [h EXCEPT !.op = "Put"]
  OBVIOUS
<1>2. ~Idle(a) /\ h.op = "Add" /\ UNCHANGED <<store, size, liveCost, clearMu>>
  BY <1>1 DEF Add, Doing
<1>3. /\ put \in PlainSteps /\ put.op = "Put" /\ put.key = h.key /\ h.key \in Keys
      /\ put.n = h.n /\ put.exp = h.exp
  <2>1. h \in PlainSteps
    BY <1>1, <1>2, PlainCall DEF CacheInv
  <2> QED BY <1>1, <1>2, <2>1 DEF PlainSteps, Steps, Ops, KeyOps, ClearOps
<1>4. PICK one : one = <<put>>
  OBVIOUS
<1>5. /\ one \in Seq(PlainSteps) /\ ToSet(one) = {put} /\ Ordered(one)
  BY <1>3, <1>4, ElementsOfTuple, OrderedOne
<1>6. AnyKey \notin Keys
  BY CacheAssumption
<1>7. \E evicts \in Seq(PlainSteps) :
        /\ \A i \in 1 .. Len(evicts) : evicts[i].op = "Evict" /\ evicts[i].key \in Keys
        /\ Then(a, evicts \o one)
  <2>1. CASE Then(a, <<put>>)
    <3>1. <<>> \o one = one
      BY <1>5, ConcatEmptySeq
    <3>2. PICK none : none = <<>>
      OBVIOUS
    <3>3. none \in Seq(PlainSteps) /\ Len(none) = 0 /\ Then(a, none \o one)
      BY <1>4, <2>1, <3>1, <3>2
    <3>4. \A i \in 1 .. Len(none) : none[i].op = "Evict" /\ none[i].key \in Keys
      BY <3>3
    <3> QED BY <3>3, <3>4
  <2>2. ASSUME NEW vs \in VictimLists,
               Then(a, [i \in DOMAIN vs |-> Step("Evict", vs[i], 0, 0)] \o <<put>>)
        PROVE  \E evicts \in Seq(PlainSteps) :
                 /\ \A i \in 1 .. Len(evicts) : evicts[i].op = "Evict" /\ evicts[i].key \in Keys
                 /\ Then(a, evicts \o one)
    <3>1. PICK K \in SUBSET DOMAIN tracked : vs \in SetToSeqs(K)
      BY DEF VictimLists, SetToAllKPermutations
    <3>2. IsFiniteSet(K) /\ K \subseteq Keys
      <4>1. DOMAIN tracked \subseteq Keys
        BY StructTypes DEF StructType
      <4> QED BY <3>1, <4>1, CacheAssumption, FS_Subset
    <3>3. vs \in Seq(K) /\ DOMAIN vs = 1 .. Len(vs) /\ \A i \in DOMAIN vs : vs[i] \in K
      BY <3>1, <3>2, ListOfSet
    <3>4. \A v \in K : /\ Step("Evict", v, 0, 0) \in PlainSteps /\ Step("Evict", v, 0, 0).op = "Evict"
                       /\ Step("Evict", v, 0, 0).key \in Keys
      BY <3>2, PlainStep, StepFields DEF Ops, ClearOps
    <3>5. PICK evicts : evicts = [i \in DOMAIN vs |-> Step("Evict", vs[i], 0, 0)]
      OBVIOUS
    <3>6. Len(vs) \in Nat /\ evicts \in [1 .. Len(vs) -> PlainSteps]
      BY <3>3, <3>4, <3>5, LenProperties
    <3>7. evicts \in Seq(PlainSteps) /\ Len(evicts) = Len(vs)
      BY <3>6
    <3>8. \A i \in 1 .. Len(evicts) : evicts[i].op = "Evict" /\ evicts[i].key \in Keys
      BY <3>3, <3>4, <3>5, <3>7
    <3> QED BY <1>4, <2>2, <3>5, <3>7, <3>8
  <2> QED BY <1>1, <2>1, <2>2 DEF Add
<1>8. PICK evicts \in Seq(PlainSteps) :
        /\ \A i \in 1 .. Len(evicts) : evicts[i].op = "Evict" /\ evicts[i].key \in Keys
        /\ Then(a, evicts \o one)
  BY <1>7
<1>9. \A s \in ToSet(evicts) : s.op = "Evict" /\ s.key \in Keys
  <2>1. DOMAIN evicts = 1 .. Len(evicts)
    BY LenProperties
  <2> QED BY <1>8, <2>1 DEF ToSet
<1>10. PICK steps : steps = evicts \o one
  OBVIOUS
<1>11. steps \in Seq(PlainSteps) /\ \A s \in ToSet(steps) : s = put \/ (s.op = "Evict" /\ s.key \in Keys)
  <2>1. evicts \o one \in Seq(PlainSteps) /\ ToSet(evicts \o one) = ToSet(evicts) \cup ToSet(one)
    BY <1>5, ElementsOfConcat
  <2> QED BY <1>5, <1>9, <1>10, <2>1
<1>12. Ordered(steps)
  <2>1. Ordered(evicts)
    BY <1>8, OrderedUniform DEF LastOps
  <2>2. \A s \in ToSet(evicts), t \in ToSet(one) : Before(s, t)
    BY <1>3, <1>5, <1>9 DEF Before, LastOps
  <2> QED BY <1>5, <1>10, <2>1, <2>2, OrderedConcat
<1>13. Follows(h, steps)
  BY <1>2, <1>3, <1>6, <1>11, <1>12 DEF Follows, LastOps, ClearCalls, ClearSteps, ClearOps
<1>14. Locks(a, h)
  BY <1>2 DEF Locks, LastOps
<1>15. Then(a, steps) /\ \A s \in ToSet(steps) : s.op \notin {"Size", "Cost"}
  BY <1>3, <1>8, <1>10, <1>11
<1>c. Carries(h, steps)
  <2>1. put \in ToSet(steps)
    <3>1. ToSet(evicts \o one) = ToSet(evicts) \cup ToSet(one)
      BY <1>5, ElementsOfConcat
    <3> QED BY <1>5, <1>10, <3>1
  <2>2. \A s \in ToSet(steps) : s.op \in WriteOps => s = put
    BY <1>11 DEF WriteOps
  <2>3. Stems(put, h) /\ put.op \in WriteOps /\ h.op \in WriteOps
    BY <1>2, <1>3 DEF Stems, WriteOps
  <2> QED BY <1>2, <2>1, <2>2, <2>3 DEF Carries, Writing
<1>16. Turn(a, steps)
  BY <1>1, <1>2, <1>11, <1>13, <1>14, <1>15, <1>c, PlainTurn
<1> QED BY <1>16

\* What Clear is to do.
LEMMA ClearLockTurn ==
  ASSUME CacheInv, NEW a \in Actors, ClearLock(a)
  PROVE  \E steps : Turn(a, steps)
<1>1. PICK order \in SetToSeqs(Keys) :
        Then(a, [i \in DOMAIN order |-> Step("ClearShard", order[i], 0, 0)]
               \o [i \in 1 .. 5 |-> Step(<<"ClearSize", "ClearPolicy", "ClearWheel",
                                           "ClearRadix", "ClearCost">>[i], AnyKey, 0, 0)]
               \o <<Step("Unlock", NoKey, 0, 0)>>)
  BY DEF ClearLock
<1>2. PICK h, op, u, p1, p2, p3 :
        /\ h = Head(todo[a]) /\ u = Step("Unlock", NoKey, 0, 0)
        /\ op = <<"ClearSize", "ClearPolicy", "ClearWheel", "ClearRadix", "ClearCost">>
        /\ p1 = [i \in DOMAIN order |-> Step("ClearShard", order[i], 0, 0)]
        /\ p2 = [i \in 1 .. 5 |-> Step(op[i], AnyKey, 0, 0)] /\ p3 = <<u>>
  OBVIOUS
<1>3. /\ ~Idle(a) /\ h.op = "ClearLock" /\ Lock(a) /\ UNCHANGED <<store, size, liveCost>>
      /\ Then(a, p1 \o p2 \o p3)
  BY <1>1, <1>2 DEF ClearLock, Doing, shared
<1>4. /\ p1 \in Seq(PlainSteps) /\ \A s \in ToSet(p1) : s.op = "ClearShard" /\ s.key \in Keys
      /\ \A k \in Keys : \E s \in ToSet(p1) : s.op = "ClearShard" /\ s.key = k
  <2>1. /\ order \in Seq(Keys) /\ ToSet(order) = Keys /\ DOMAIN order = 1 .. Len(order)
        /\ \A i \in DOMAIN order : order[i] \in Keys
    BY ListOfSet, CacheAssumption
  <2>2. \A k \in Keys : /\ Step("ClearShard", k, 0, 0) \in PlainSteps
                        /\ Step("ClearShard", k, 0, 0).op = "ClearShard" /\ Step("ClearShard", k, 0, 0).key = k
    BY PlainStep, StepFields DEF Ops, ClearOps
  <2>3. p1 \in [1 .. Len(order) -> PlainSteps] /\ Len(order) \in Nat
    BY <1>2, <2>1, <2>2, LenProperties
  <2>4. ToSet(p1) = {Step("ClearShard", k, 0, 0) : k \in Keys}
    BY <1>2, <2>1 DEF ToSet
  <2>5. p1 \in Seq(PlainSteps)
    BY <2>3
  <2> QED BY <2>2, <2>4, <2>5
<1>5. /\ p2 \in Seq(PlainSteps) /\ \A s \in ToSet(p2) : s.op \in ClearOps
      /\ \E s \in ToSet(p2) : s.op = "ClearSize" /\ s.key = AnyKey
      /\ \E s \in ToSet(p2) : s.op = "ClearCost"
  <2>1. op[1] = "ClearSize" /\ op[5] = "ClearCost" /\ \A i \in 1 .. 5 : op[i] \in ClearOps
    BY <1>2 DEF ClearOps
  <2>2. \A o \in ClearOps : /\ Step(o, AnyKey, 0, 0) \in PlainSteps
                            /\ Step(o, AnyKey, 0, 0).op = o /\ Step(o, AnyKey, 0, 0).key = AnyKey
    <3> SUFFICES ASSUME NEW o \in ClearOps
                 PROVE  /\ Step(o, AnyKey, 0, 0) \in PlainSteps
                        /\ Step(o, AnyKey, 0, 0).op = o /\ Step(o, AnyKey, 0, 0).key = AnyKey
      OBVIOUS
    <3>1. Step(o, AnyKey, 0, 0).op = o /\ Step(o, AnyKey, 0, 0).key = AnyKey
      BY StepFields
    <3>2. Step(o, AnyKey, 0, 0) \in Steps
      BY DEF Step, Steps, Ops, ClearOps
    <3> QED BY <3>1, <3>2 DEF PlainSteps, ClearOps, KeyOps
  <2>3. \A i \in 1 .. 5 : p2[i] = Step(op[i], AnyKey, 0, 0)
    BY <1>2
  <2>4. DOMAIN p2 = 1 .. 5 /\ p2 \in [1 .. 5 -> PlainSteps]
    BY <1>2, <2>1, <2>2, <2>3
  <2>5. \A i \in 1 .. 5 : p2[i] \in ToSet(p2) /\ p2[i].op = op[i] /\ p2[i].key = AnyKey
    BY <2>1, <2>2, <2>3, <2>4 DEF ToSet
  <2>6. \A s \in ToSet(p2) : s.op \in ClearOps
    BY <2>1, <2>4, <2>5 DEF ToSet
  <2>7. 1 \in 1 .. 5 /\ 5 \in 1 .. 5
    OBVIOUS
  <2>8. p2 \in Seq(PlainSteps)
    <3>1. \A n \in Nat : \A f \in [1 .. n -> PlainSteps] : f \in Seq(PlainSteps)
      OBVIOUS
    <3> QED BY <2>4, <3>1
  <2> QED BY <2>1, <2>5, <2>6, <2>7, <2>8
<1>6. p3 \in Seq(PlainSteps) /\ ToSet(p3) = {u} /\ Ordered(p3) /\ u.op = "Unlock" /\ u.key # AnyKey
  <2>1. u.op = "Unlock" /\ u.key = NoKey /\ u \in Steps
    BY <1>2, StepFields DEF Ops
  <2>2. u \in PlainSteps /\ u.key # AnyKey
    BY <2>1, CacheAssumption DEF PlainSteps, KeyOps, ClearOps
  <2> QED BY <1>2, <2>1, <2>2, ElementsOfTuple, OrderedOne
<1>7. PICK q, steps : q = p1 \o p2 /\ steps = q \o p3
  OBVIOUS
<1>8. q \in Seq(PlainSteps) /\ ToSet(q) = ToSet(p1) \cup ToSet(p2)
  <2>1. p1 \o p2 \in Seq(PlainSteps) /\ ToSet(p1 \o p2) = ToSet(p1) \cup ToSet(p2)
    BY <1>4, <1>5, ElementsOfConcat
  <2> QED BY <1>7, <2>1
<1>9. steps \in Seq(PlainSteps) /\ ToSet(steps) = ToSet(p1) \cup ToSet(p2) \cup {u}
  <2>1. q \o p3 \in Seq(PlainSteps) /\ ToSet(q \o p3) = ToSet(q) \cup ToSet(p3)
    BY <1>6, <1>8, ElementsOfConcat
  <2> QED BY <1>6, <1>7, <1>8, <2>1
<1>10. Ordered(steps)
  <2>1. \A s \in ToSet(q) : s.op \in {"ClearShard"} \cup ClearOps
    BY <1>4, <1>5, <1>8
  <2>2. \A i \in 1 .. Len(q) : q[i] \in ToSet(q)
    BY <1>8, ElementsInSet
  <2>3. Ordered(q)
    BY <2>1, <2>2, OrderedUniform DEF LastOps, ClearOps
  <2>4. \A s \in ToSet(q), t \in ToSet(p3) : Before(s, t)
    BY <1>6, <2>1 DEF Before, LastOps, ClearOps
  <2> QED BY <1>6, <1>7, <1>8, <2>3, <2>4, OrderedConcat
<1>11. \A s \in ToSet(steps) : /\ s.op \in {"ClearShard", "Unlock"} \cup ClearOps
                               /\ s.key = AnyKey => s.op \in ClearOps
  <2>1. AnyKey \notin Keys
    BY CacheAssumption
  <2> QED BY <1>4, <1>5, <1>6, <1>9, <2>1
<1>12. /\ Clearing(steps) /\ Has(steps, "ClearSize") /\ Has(steps, "ClearCost") /\ Has(steps, "Unlock")
       /\ \A k \in Keys : \E s \in ToSet(steps) : s.op = "ClearShard" /\ s.key = k
  <2>1. \E s \in ToSet(steps) : s.op = "ClearSize" /\ s.key = AnyKey
    BY <1>5, <1>9
  <2>2. \E s \in ToSet(steps) : s.op = "ClearCost"
    BY <1>5, <1>9
  <2>3. \E s \in ToSet(steps) : s.op = "Unlock"
    BY <1>6, <1>9
  <2>4. \A k \in Keys : \E s \in ToSet(steps) : s.op = "ClearShard" /\ s.key = k
    BY <1>4, <1>9
  <2>5. Clearing(steps)
    BY <2>1, ClearingHas
  <2> QED BY <2>1, <2>2, <2>3, <2>4, <2>5 DEF Has
<1>13. Follows(h, steps)
  <2>1. \A s \in ToSet(steps) : /\ s.op \in LastOps => s.op = "Unlock"
                                /\ s.op \notin {"Add", "Put"}
    BY <1>11 DEF LastOps, ClearOps
  <2> QED BY <1>3, <1>10, <1>11, <1>12, <2>1 DEF Follows
<1>14. Locks(a, h)
  BY <1>3 DEF Locks, LastOps
<1>15. Then(a, steps) /\ \A s \in ToSet(steps) : s.op \notin {"Size", "Cost"}
  BY <1>3, <1>7, <1>11 DEF ClearOps
<1>c. Carries(h, steps)
  BY <1>3, <1>11 DEF Carries, WriteOps, ClearOps
<1>16. Turn(a, steps)
  BY <1>2, <1>3, <1>9, <1>13, <1>14, <1>15, <1>c, PlainTurn
<1> QED BY <1>16

\* The counters start exact.
LEMMA InitExact == Init => ExactInv
<1> SUFFICES ASSUME Init PROVE ExactInv
  OBVIOUS
<1>1. /\ store = <<>> /\ size = 0 /\ liveCost = 0 /\ clearMu = {}
      /\ \A a \in Actors : todo[a] = <<>> /\ todo[a] \in Seq(Steps)
  BY EmptySeq DEF Init
<1>2. ToSet(<<>>) = {} /\ Ordered(<<>>)
  BY ElementsOfTuple, OrderedOne
<1>3. \A a \in Actors : ToSet(todo[a]) = {} /\ Ordered(todo[a])
  BY <1>1, <1>2
<1>4. \A a \in Actors : ~Clearing(todo[a]) /\ ~Has(todo[a], "Unlock")
  BY <1>3, ClearingHas DEF Has
<1>5. Worker \in Actors /\ Clients \subseteq Actors
  BY DEF Actors
<1>6. ListInv /\ LockInv /\ NewInv /\ ResetInv
  BY <1>3, <1>4, <1>5 DEF ListInv, LockInv, NewInv, ResetInv
<1>7. ClearAlone
  BY <1>4 DEF ClearAlone
<1>8. \A o : OwedOf(todo, o) = 0
  <2>1. PICK t : t = todo
    OBVIOUS
  <2>2. /\ \A a \in Actors : t[a] \in Seq(Steps)
        /\ \A o : \A a \in Actors : \A s \in ToSet(t[a]) : s.op # o
    BY <1>1, <1>3, <2>1
  <2>3. \A o : OwedOf(t, o) = 0
    BY <2>2, OwedNone
  <2> QED BY <2>1, <2>3
<1>9. Cardinality(DOMAIN store) = 0 /\ CostOf(store) = 0
  <2>1. DOMAIN store = {}
    BY <1>1
  <2>2. DOMAIN store \subseteq Keys /\ \A k \in DOMAIN store : store[k] \in Entries
    BY <2>1
  <2> QED BY <2>1, <2>2, StoreNumbers
<1>10. LenExact /\ CostExact
  BY <1>1, <1>8, <1>9, ExactAt
<1> QED BY <1>6, <1>7, <1>10 DEF ExactInv

\* Every step keeps the counters exact.
LEMMA NextExact == CacheInv /\ CacheInv' /\ ExactInv /\ [Next]_vars => ExactInv'
<1> SUFFICES ASSUME CacheInv, CacheInv', ExactInv, [Next]_vars PROVE ExactInv'
  OBVIOUS
<1>0. Clients \subseteq Actors /\ Worker \in Actors
  BY DEF Actors
<1>1. CASE Next
  <2>1. Observe
    BY <1>1 DEF Next
  <2>2. ASSUME NEW a \in Actors, \E steps : Turn(a, steps) PROVE ExactInv'
    BY <2>1, <2>2, TurnInv
  <2>3. ASSUME NEW a \in Clients, CallNext(a) PROVE ExactInv'
    <3>1. ASSUME NEW k \in Keys, NEW o \in Offers, SetWithCost(a, k, o) PROVE ExactInv'
      BY <2>1, <3>1, WriteStep, WriteExact DEF SetWithCost
    <3>2. ASSUME NEW k \in Keys, Delete(a, k) PROVE ExactInv'
      BY <2>1, <3>2, WriteStep, WriteExact DEF Delete
    <3>3. CASE Wait(a) \/ Clear(a) \/ Close(a)
      BY <2>1, <3>3, OtherCallExact
    <3> QED BY <2>3, <3>1, <3>2, <3>3 DEF CallNext
  <2>4. ASSUME NEW a \in Clients, ClientStep(a) PROVE ExactInv'
    <3>1. CASE Push(a)
      BY <2>1, <3>1, PushExact
    <3>2. CASE FlushSync(a) \/ CloseBuffer(a) \/ WgWait(a)
      BY <1>0, <2>2, <3>2, QuietSections
    <3> QED BY <2>4, <3>1, <3>2 DEF ClientStep
  <2>5. ASSUME NEW a \in Actors, StepNext(a) PROVE ExactInv'
    <3>1. CASE Peek(a)  BY <2>2, <3>1, PeekTurn
    <3>2. CASE Update(a)  BY <2>2, <3>2, UpdateTurn
    <3>3. CASE Add(a)  BY <2>2, <3>3, AddTurn
    <3>4. CASE Put(a)  BY <2>2, <3>4, PutTurn
    <3>5. CASE Evict(a) \/ DoDelete(a)  BY <2>2, <3>5, RemoveTurns
    <3>6. CASE AddSize(a) \/ AddCost(a) \/ ClearSize(a) \/ ClearCost(a)
      BY <2>2, <3>6, CountTurn
    <3>7. CASE \/ PolicyUpdate(a) \/ PolicyDel(a) \/ Schedule(a) \/ RadixInsert(a) \/ RadixDelete(a)
               \/ ClearPolicy(a) \/ ClearWheel(a) \/ ClearRadix(a)
      BY <2>2, <3>7, QuietSections
    <3>8. CASE ClearLock(a)  BY <2>2, <3>8, ClearLockTurn
    <3>9. CASE ClearShard(a)  BY <2>2, <3>9, ClearShardTurn
    <3>10. CASE Unlock(a)  BY <2>2, <3>10, UnlockTurn
    <3> QED BY <2>5, <3>1, <3>2, <3>3, <3>4, <3>5, <3>6, <3>7, <3>8, <3>9, <3>10 DEF StepNext
  <2>6. CASE FlusherNext
    BY <2>1, <2>6, FlushBatchExact, IdleExact DEF FlusherNext
  <2>7. CASE WorkerNext
    <3>1. CASE Tick  BY <2>1, <3>1, TickExact
    <3>2. CASE Stop  BY <2>1, <3>2, IdleExact
    <3>3. CASE ExpireLock  BY <1>0, <2>2, <3>3, ExpireLockTurn
    <3>4. CASE Advance  BY <1>0, <2>2, <3>4, AdvanceTurn
    <3>5. CASE Expire  BY <1>0, <2>2, <3>5, RemoveTurns
    <3> QED BY <2>7, <3>1, <3>2, <3>3, <3>4, <3>5 DEF WorkerNext
  <2>8. CASE ClockTick
    BY <2>1, <2>8, IdleExact
  <2> QED BY <1>1, <2>3, <2>4, <2>5, <2>6, <2>7, <2>8 DEF Next
<1>2. CASE UNCHANGED vars
  <2>1. UNCHANGED <<store, size, liveCost, clearMu, todo, raced, clearRaced>>
    BY <1>2 DEF vars, shared, frame, buffer, writes
  <2>2. ClearAlone'
    BY <2>1 DEF ExactInv, ClearAlone
  <2> QED BY <2>1, <2>2, SameInv
<1> QED BY <1>1, <1>2

\* The counters need more: who runs Clear or removeExpired holds clearMu, doSet
\* of a key nobody raced for stores it anew, and while a Clear runs alone all it
\* has not emptied yet is still on its list.
THEOREM ExactInvariant == Spec => [](CacheInv /\ ExactInv)
<1>1. Init => CacheInv /\ ExactInv
  BY InitInv, InitExact
<1>2. (CacheInv /\ ExactInv) /\ [Next]_vars => (CacheInv /\ ExactInv)'
  BY NextInv, NextExact
<1> QED BY <1>1, <1>2, PTL DEF Spec

\* The size of the store, with the size.Add calls under way, is the number of its
\* entries, unless a Clear overlaps another client's call: each removal of an
\* entry, by Delete, eviction or expiration, is counted once and no other.
THEOREM LenStaysExact == Spec => []LenExact
<1>1. CacheInv /\ ExactInv => LenExact
  BY DEF ExactInv
<1> QED BY <1>1, ExactInvariant, PTL

\* liveCost, with the liveCost.Add calls under way, is the cost of the stored
\* entries as long as no two calls work on one key at once and no Clear overlaps
\* another client's call.
THEOREM CostStaysExact == Spec => []CostExact
<1>1. CacheInv /\ ExactInv => CostExact
  BY DEF ExactInv
<1> QED BY <1>1, ExactInvariant, PTL
-----------------------------------------------------------------------------
(* The last write wins.  Writes to k that are queued come after those under *)
(* way, and the newest of them is the one issued last; when none is queued *)
(* or under way, what is stored is what that write leaves.                 *)
WritesTo(s, k) == s.op \in WriteOps /\ s.key = k
NoWrite(q, k) == \A i \in 1 .. Len(q) : ~WritesTo(q[i], k)
EndsIn(q, w, k) ==
  \A i \in 1 .. Len(q) :
    WritesTo(q[i], k) /\ (\A j \in 1 .. Len(q) : j > i => ~WritesTo(q[j], k)) => Stems(q[i], w)

\* What is under way of call c: nothing of a write that is still to be pushed.
Under(c) == IF c # <<>> /\ Head(c).op = "Push" THEN <<>> ELSE c

\* Calls t, queue q, last writes l and store m agree on key k.
FreshKey(k, t, q, l, m) ==
  /\ EndsIn(q, l[k], k)
  /\ NoWrite(q, k) =>
       /\ \A a \in Actors : EndsIn(Under(t[a]), l[k], k)
       /\ (\A a \in Actors : NoWrite(Under(t[a]), k)) => Leaves(m, l[k])

FreshInv ==
  /\ \A k \in Keys \ (raced \cup overtaken) : FreshKey(k, todo, queue, last, store)
  /\ ~buffered => queue = <<>> /\ \A a \in Actors : ~Doing(a, "Push")

\* A list without a write to k, seen as a set.
LEMMA NoWriteSet ==
  ASSUME NEW S, NEW q \in Seq(S), NEW k
  PROVE  /\ NoWrite(q, k) <=> \A s \in ToSet(q) : ~WritesTo(s, k)
         /\ \A w : NoWrite(q, k) => EndsIn(q, w, k)
         /\ \A w : (\A s \in ToSet(q) : WritesTo(s, k) => Stems(s, w)) => EndsIn(q, w, k)
<1>1. \A i \in 1 .. Len(q) : q[i] \in ToSet(q)
  BY ElementsInSet
<1>2. \A s \in ToSet(q) : \E i \in 1 .. Len(q) : q[i] = s
  BY DEF ToSet
<1> QED BY <1>1, <1>2 DEF NoWrite, EndsIn

\* Lists of no and of one section.
LEMMA ShortEnds ==
  ASSUME NEW s, NEW k
  PROVE  /\ NoWrite(<<>>, k) /\ \A w : EndsIn(<<>>, w, k)
         /\ NoWrite(<<s>>, k) <=> ~WritesTo(s, k)
         /\ \A w : EndsIn(<<s>>, w, k) <=> (WritesTo(s, k) => Stems(s, w))
<1>1. PICK q, e : q = <<s>> /\ e = <<>>
  OBVIOUS
<1>2. Len(q) = 1 /\ q[1] = s /\ Len(e) = 0
  BY <1>1
<1>3. NoWrite(e, k) /\ \A w : EndsIn(e, w, k)
  BY <1>2 DEF NoWrite, EndsIn
<1>4. NoWrite(q, k) <=> ~WritesTo(s, k)
  BY <1>2 DEF NoWrite
<1>5. \A w : EndsIn(q, w, k) <=> (WritesTo(s, k) => Stems(s, w))
  BY <1>2 DEF EndsIn
<1> QED BY <1>1, <1>3, <1>4, <1>5

\* The newest write of two lists in a row is that of the second, if it has one.
LEMMA EndsConcat ==
  ASSUME NEW S, NEW p \in Seq(S), NEW q \in Seq(S), NEW k
  PROVE  /\ NoWrite(p \o q, k) <=> NoWrite(p, k) /\ NoWrite(q, k)
         /\ \A w : EndsIn(p \o q, w, k) <=> EndsIn(q, w, k) /\ (NoWrite(q, k) => EndsIn(p, w, k))
<1>1. PICK r, m, n : r = p \o q /\ m = Len(p) /\ n = Len(q)
  OBVIOUS
<1>2. m \in Nat /\ n \in Nat /\ Len(r) = m + n
  BY <1>1, ConcatProperties, LenProperties
<1>3. \A i \in 1 .. m : i \in 1 .. m + n /\ r[i] = p[i]
  BY <1>1, <1>2
<1>4. \A i \in 1 .. n : m + i \in 1 .. m + n /\ r[m + i] = q[i]
  BY <1>1, <1>2
<1>5. \A i \in 1 .. m + n : i \in 1 .. m \/ \E j \in 1 .. n : i = m + j
  <2> SUFFICES ASSUME NEW i \in 1 .. m + n, i > m PROVE \E j \in 1 .. n : i = m + j
    BY <1>2
  <2>1. i - m \in 1 .. n /\ i = m + (i - m)
    BY <1>2
  <2> QED BY <2>1
<1>6. NoWrite(r, k) <=> NoWrite(p, k) /\ NoWrite(q, k)
  <2>1. ASSUME NoWrite(p, k), NoWrite(q, k), NEW i \in 1 .. m + n PROVE ~WritesTo(r[i], k)
    BY <1>1, <1>3, <1>4, <1>5, <2>1 DEF NoWrite
  <2>2. ASSUME NoWrite(r, k) PROVE NoWrite(p, k) /\ NoWrite(q, k)
    BY <1>1, <1>2, <1>3, <1>4, <2>2 DEF NoWrite
  <2> QED BY <1>2, <2>1, <2>2 DEF NoWrite
<1>7. ASSUME NEW w, EndsIn(q, w, k), NoWrite(q, k) => EndsIn(p, w, k) PROVE EndsIn(r, w, k)
  <2> SUFFICES ASSUME NEW i \in 1 .. m + n, WritesTo(r[i], k),
                      \A j \in 1 .. m + n : j > i => ~WritesTo(r[j], k)
               PROVE  Stems(r[i], w)
    BY <1>2 DEF EndsIn
  <2>1. CASE i \in 1 .. m
    <3>1. \A j \in 1 .. n : m + j > i
      BY <1>2, <2>1
    <3>2. NoWrite(q, k)
      BY <1>1, <1>4, <3>1 DEF NoWrite
    <3>3. \A j \in 1 .. m : j > i => ~WritesTo(p[j], k)
      BY <1>3
    <3>4. WritesTo(p[i], k) /\ EndsIn(p, w, k)
      BY <1>3, <1>7, <2>1, <3>2
    <3> QED BY <1>1, <1>3, <2>1, <3>3, <3>4 DEF EndsIn
  <2>2. ASSUME NEW j \in 1 .. n, i = m + j PROVE Stems(r[i], w)
    <3>1. \A l \in 1 .. n : l > j => m + l > i
      BY <1>2, <2>2
    <3>2. \A l \in 1 .. n : l > j => ~WritesTo(q[l], k)
      BY <1>4, <3>1
    <3>3. r[i] = q[j] /\ WritesTo(q[j], k)
      BY <1>4, <2>2
    <3> QED BY <1>1, <1>7, <3>2, <3>3 DEF EndsIn
  <2> QED BY <1>5, <2>1, <2>2
<1>8. ASSUME NEW w, EndsIn(r, w, k) PROVE EndsIn(q, w, k)
  <2> SUFFICES ASSUME NEW j \in 1 .. n, WritesTo(q[j], k),
                      \A l \in 1 .. n : l > j => ~WritesTo(q[l], k)
               PROVE  Stems(q[j], w)
    BY <1>1 DEF EndsIn
  <2>1. ASSUME NEW i \in 1 .. m + n, i > m + j PROVE ~WritesTo(r[i], k)
    <3>1. i \notin 1 .. m
      BY <1>2, <2>1
    <3>2. PICK l \in 1 .. n : i = m + l
      BY <1>5, <3>1
    <3>3. l > j
      BY <1>2, <2>1, <3>2
    <3> QED BY <1>4, <3>2, <3>3
  <2>2. m + j \in 1 .. m + n /\ r[m + j] = q[j]
    BY <1>4
  <2> QED BY <1>2, <1>8, <2>1, <2>2 DEF EndsIn
<1>9. ASSUME NEW w, EndsIn(r, w, k), NoWrite(q, k) PROVE EndsIn(p, w, k)
  <2> SUFFICES ASSUME NEW j \in 1 .. m, WritesTo(p[j], k),
                      \A l \in 1 .. m : l > j => ~WritesTo(p[l], k)
               PROVE  Stems(p[j], w)
    BY <1>1 DEF EndsIn
  <2>1. ASSUME NEW i \in 1 .. m + n, i > j PROVE ~WritesTo(r[i], k)
    BY <1>1, <1>3, <1>4, <1>5, <1>9, <2>1 DEF NoWrite
  <2>2. j \in 1 .. m + n /\ r[j] = p[j]
    BY <1>3
  <2> QED BY <1>2, <1>9, <2>1, <2>2 DEF EndsIn
<1> QED BY <1>1, <1>6, <1>7, <1>8, <1>9

\* Whoever has a write to k under way works on k.
LEMMA WriteWorks ==
  ASSUME NEW q \in Seq(Steps), NEW k, ~NoWrite(Under(q), k)
  PROVE  Works(q, k)
<1>1. Under(q) # <<>>
  BY ShortEnds
<1>2. q # <<>> /\ Head(q).op # "Push" /\ Under(q) = q
  BY <1>1 DEF Under
<1>3. PICK s \in ToSet(q) : s.key = k
  BY <1>2, NoWriteSet DEF WritesTo
<1> QED BY <1>2, <1>3, ClearingHas

\* The calls under way before and after.
LEMMA UnderTypes ==
  ASSUME CacheInv, NEW a \in Actors
  PROVE  /\ todo[a] \in Seq(Steps) /\ Under(todo[a]) \in Seq(Steps)
         /\ queue \in Seq(Steps)
         /\ Idle(a) => Under(todo[a]) = <<>>
         /\ Doing(a, "Push") => Under(todo[a]) = <<>>
         /\ \A k \in Keys : last[k].key = k /\ last[k].op \in {"Peek", "Remove"}
<1>1. todo[a] \in Seq(Steps) /\ queue \in Seq(Steps) /\ \A k \in Keys : last[k].key = k
  BY DEF CacheInv, TypeOK
<1>2. \A k \in Keys : last[k].op \in {"Peek", "Remove"}
  BY DEF CacheInv, CallInv, WriteSteps
<1> QED BY <1>1, <1>2, EmptySeq DEF Under, Idle, Doing

\* A turn leaves the writes it carries on as it found them.
LEMMA TurnFresh ==
  ASSUME CacheInv, ListInv, FreshInv, raced \subseteq raced', NEW a \in Actors, NEW steps, Turn(a, steps),
         UNCHANGED <<queue, last, overtaken, buffered>>
  PROVE  FreshInv'
<1>1. PICK h, tail : h = Head(todo[a]) /\ tail = Tail(todo[a])
  OBVIOUS
<1>2. /\ h \in PlainSteps /\ h.op # "Push" /\ todo[a] # <<>>
      /\ tail \in Seq(PlainSteps) /\ steps \in Seq(PlainSteps) /\ todo[a] \in Seq(PlainSteps)
      /\ todo'[a] = steps \o tail
      /\ \A b \in Actors \ {a} : todo'[b] = todo[b]
  BY <1>1, TurnLists DEF Turn, Idle
<1>3. Carries(h, steps)
  BY <1>1 DEF Turn
<1>4. todo[a] = <<h>> \o tail /\ <<h>> \in Seq(PlainSteps)
  BY <1>1, <1>2
<1>5. Under(todo[a]) = <<h>> \o tail
  BY <1>1, <1>2, <1>4 DEF Under
<1>6. Under(todo'[a]) = steps \o tail
  <2>1. steps \o tail \in Seq(PlainSteps)
    BY <1>2, ElementsOfConcat
  <2>2. steps \o tail # <<>> => Head(steps \o tail) \in PlainSteps
    BY <2>1, ElementsOfHead
  <2> QED BY <1>2, <2>2 DEF Under, PlainSteps
<1>7. ASSUME NEW k \in Keys \ (raced' \cup overtaken') PROVE FreshKey(k, todo', queue', last', store')
  <2>1. FreshKey(k, todo, queue, last, store)
    BY <1>7 DEF FreshInv
  <2>2. PICK w : w = last[k]
    OBVIOUS
  <2>w. w.key = k
    BY <1>7, <2>2, UnderTypes
  <2>3. EndsIn(queue, w, k)
    BY <2>1, <2>2 DEF FreshKey
  <2>4. SUFFICES ASSUME NoWrite(queue, k)
        PROVE  /\ \A b \in Actors : EndsIn(Under(todo'[b]), w, k)
               /\ (\A b \in Actors : NoWrite(Under(todo'[b]), k)) => Leaves(store', w)
    BY <2>2, <2>3 DEF FreshKey
  <2>5. \A b \in Actors : EndsIn(Under(todo[b]), w, k)
    BY <2>1, <2>2, <2>4 DEF FreshKey
  <2>6. EndsIn(tail, w, k) /\ (NoWrite(tail, k) /\ WritesTo(h, k) => Stems(h, w))
    <3>1. EndsIn(<<h>> \o tail, w, k)
      BY <1>5, <2>5
    <3>2. EndsIn(tail, w, k) /\ (NoWrite(tail, k) => EndsIn(<<h>>, w, k))
      BY <1>2, <1>4, <3>1, EndsConcat
    <3> QED BY <3>2, ShortEnds
  <2>7. EndsIn(steps \o tail, w, k)
    <3>1. ASSUME NoWrite(tail, k) PROVE EndsIn(steps, w, k)
      <4>1. ASSUME NEW s \in ToSet(steps), WritesTo(s, k) PROVE Stems(s, w)
        <5>1. h.op \in WriteOps /\ Stems(s, h)
          BY <1>3, <4>1 DEF Carries, WritesTo
        <5>2. WritesTo(h, k)
          BY <4>1, <5>1 DEF WritesTo, Stems
        <5>3. Stems(h, w)
          BY <2>6, <3>1, <5>2
        <5> QED BY <5>1, <5>3 DEF Stems
      <4> QED BY <1>2, <4>1, NoWriteSet
    <3> QED BY <1>2, <2>6, <3>1, EndsConcat
  <2>8. \A b \in Actors : EndsIn(Under(todo'[b]), w, k)
    BY <1>2, <1>6, <2>5, <2>7
  <2>9. ASSUME \A b \in Actors : NoWrite(Under(todo'[b]), k) PROVE Leaves(store', w)
    <3>1. NoWrite(steps, k) /\ NoWrite(tail, k)
      <4>1. NoWrite(steps \o tail, k)
        BY <1>6, <2>9
      <4> QED BY <1>2, <4>1, EndsConcat
    <3>2. CASE WritesTo(h, k)
      <4>1. Stems(h, w)
        BY <2>6, <3>1, <3>2
      <4>2. ~Writing(steps)
        <5> SUFFICES ASSUME NEW s \in ToSet(steps), s.op \in WriteOps PROVE FALSE
          BY DEF Writing
        <5>1. s.key = k
          BY <1>3, <3>2 DEF Carries, Stems, WritesTo
        <5> QED BY <1>2, <3>1, <5>1, NoWriteSet DEF WritesTo
      <4>3. Leaves(store', h)
        BY <1>3, <3>2, <4>2 DEF Carries, WritesTo
      <4> QED BY <4>1, <4>3 DEF Leaves, Stems
    <3>3. CASE ~WritesTo(h, k)
      <4>1. NoWrite(<<h>> \o tail, k)
        <5>1. NoWrite(<<h>>, k)
          BY <3>3, ShortEnds
        <5> QED BY <1>2, <1>4, <3>1, <5>1, EndsConcat
      <4>2. \A b \in Actors : NoWrite(Under(todo[b]), k)
        BY <1>2, <1>5, <2>9, <4>1
      <4>3. Leaves(store, w)
        BY <2>1, <2>2, <2>4, <4>2 DEF FreshKey
      <4>4. k \in DOMAIN store' => k \in DOMAIN store /\ store'[k] = store[k]
        BY <1>3, <3>3 DEF Carries, WritesTo
      <4> QED BY <2>w, <4>3, <4>4 DEF Leaves
    <3> QED BY <3>2, <3>3
  <2> QED BY <2>8, <2>9
<1>8. \A b \in Actors : Doing(b, "Push")' => Doing(b, "Push")
  <2>1. ASSUME Doing(a, "Push")' PROVE FALSE
    <3>1. todo'[a] \in Seq(PlainSteps)
      BY <1>2, ElementsOfConcat
    <3>2. Head(todo'[a]) \in PlainSteps
      BY <2>1, <3>1, ElementsOfHead DEF Doing, Idle
    <3> QED BY <2>1, <3>2 DEF Doing, PlainSteps
  <2> QED BY <1>2, <2>1 DEF Doing, Idle
<1> QED BY <1>7, <1>8 DEF FreshInv

\* Beginning a call that writes nothing, or that is still to push its write.
LEMMA CallFresh ==
  ASSUME CacheInv, FreshInv, raced \subseteq raced', UNCHANGED <<queue, last, store, overtaken, buffered>>,
         NEW a \in Actors, \A b \in Actors \ {a} : todo'[b] = todo[b],
         \A k \in Keys : NoWrite(Under(todo[a]), k) /\ NoWrite(Under(todo'[a]), k)
                         /\ \A w : EndsIn(Under(todo'[a]), w, k),
         ~buffered => ~Doing(a, "Push")'
  PROVE  FreshInv'
<1>1. ASSUME NEW k \in Keys \ (raced' \cup overtaken') PROVE FreshKey(k, todo', queue', last', store')
  <2>1. FreshKey(k, todo, queue, last, store)
    BY <1>1 DEF FreshInv
  <2>2. \A b \in Actors : /\ NoWrite(Under(todo'[b]), k) <=> NoWrite(Under(todo[b]), k)
                          /\ EndsIn(Under(todo[b]), last[k], k) => EndsIn(Under(todo'[b]), last[k], k)
    OBVIOUS
  <2> QED BY <2>1, <2>2 DEF FreshKey
<1>2. \A b \in Actors \ {a} : Doing(b, "Push")' = Doing(b, "Push")
  BY DEF Doing, Idle
<1> QED BY <1>1, <1>2 DEF FreshInv

\* A write goes to work, with no older write of its key in the queue: it is the
\* last one now, and nobody else works on the key.
LEMMA IssueFresh ==
  ASSUME CacheInv, CacheInv', FreshInv, raced \subseteq raced', overtaken \subseteq overtaken',
         UNCHANGED <<queue, store, buffered>>,
         NEW a \in Actors, \A b \in Actors \ {a} : todo'[b] = todo[b],
         Under(todo[a]) = <<>>, NEW w \in WriteSteps, todo'[a] = <<w>>,
         last' = [last EXCEPT ![w.key] = w], w.key \in overtaken' \/ NoWrite(queue, w.key)
  PROVE  FreshInv'
<1>1. w.op \in {"Peek", "Remove"} /\ w.key \in Keys /\ w.op \in WriteOps
  BY DEF WriteSteps, PlainSteps, KeyOps, WriteOps
<1>2. Under(todo'[a]) = <<w>>
  BY <1>1 DEF Under
<1>3. last'[w.key] = w /\ \A k \in Keys \ {w.key} : last'[k] = last[k]
  <2>1. last \in [Keys -> WriteSteps]
    BY DEF CacheInv, CallInv
  <2> QED BY <1>1, <2>1
<1>4. ASSUME NEW k \in Keys \ (raced' \cup overtaken'), k # w.key
      PROVE  FreshKey(k, todo', queue', last', store')
  <2>1. FreshKey(k, todo, queue, last, store)
    BY <1>4 DEF FreshInv
  <2>2. ~WritesTo(w, k)
    BY <1>4 DEF WritesTo
  <2>3. /\ NoWrite(Under(todo'[a]), k) /\ EndsIn(Under(todo'[a]), last[k], k)
        /\ NoWrite(Under(todo[a]), k)
    BY <1>2, <2>2, ShortEnds
  <2>4. \A b \in Actors : /\ NoWrite(Under(todo'[b]), k) <=> NoWrite(Under(todo[b]), k)
                          /\ EndsIn(Under(todo[b]), last[k], k) => EndsIn(Under(todo'[b]), last[k], k)
    BY <2>3
  <2> QED BY <1>3, <1>4, <2>1, <2>4 DEF FreshKey
<1>5. ASSUME w.key \notin raced' \cup overtaken' PROVE FreshKey(w.key, todo', queue', last', store')
  <2>1. NoWrite(queue, w.key) /\ EndsIn(queue, w, w.key)
    <3>1. queue \in Seq(Steps)
      BY UnderTypes
    <3> QED BY <1>5, <3>1, NoWriteSet
  <2>2. WritesTo(w, w.key) /\ Stems(w, w)
    BY <1>1 DEF WritesTo, Stems
  <2>3. ~NoWrite(Under(todo'[a]), w.key) /\ EndsIn(Under(todo'[a]), w, w.key)
    BY <1>2, <2>2, ShortEnds
  <2>4. ASSUME NEW b \in Actors, b # a PROVE EndsIn(Under(todo'[b]), w, w.key)
    <3>1. todo'[a] \in Seq(Steps) /\ todo'[b] \in Seq(Steps)
      BY <2>4 DEF CacheInv, TypeOK
    <3>2. Works(todo'[a], w.key)
      BY <2>3, <3>1, WriteWorks
    <3>3. AloneInv'
      BY DEF CacheInv
    <3>4. ~Works(todo'[b], w.key)
      BY <1>1, <1>5, <2>4, <3>2, <3>3 DEF AloneInv
    <3>5. NoWrite(Under(todo'[b]), w.key)
      BY <3>1, <3>4, WriteWorks
    <3>6. Under(todo'[b]) \in Seq(Steps)
      BY <3>1, EmptySeq DEF Under
    <3> QED BY <3>5, <3>6, NoWriteSet
  <2> QED BY <1>3, <2>1, <2>3, <2>4 DEF FreshKey
<1>6. \A b \in Actors : Doing(b, "Push")' => b # a /\ Doing(b, "Push")
  BY <1>1 DEF Doing, Idle
<1> QED BY <1>4, <1>5, <1>6 DEF FreshInv

\* Calls without a write.
LEMMA NothingToWrite ==
  ASSUME NEW q \in Seq(Steps), \A s \in ToSet(q) : s.op \notin WriteOps, NEW k
  PROVE  NoWrite(Under(q), k) /\ \A w : EndsIn(Under(q), w, k)
<1>1. CASE Under(q) = <<>>
  BY <1>1, ShortEnds
<1>2. CASE Under(q) = q
  BY <1>2, NoWriteSet DEF WritesTo
<1> QED BY <1>1, <1>2 DEF Under

\* SetWithCost and Delete.
LEMMA WriteFresh ==
  ASSUME CacheInv, CacheInv', FreshInv, raced \subseteq raced', NEW a \in Clients,
         NEW w \in WriteSteps, Write(a, w)
  PROVE  FreshInv'
<1>0. a \in Actors
  BY DEF Actors
<1>1. PICK p : p = Step("Push", w.key, 0, 0)
  OBVIOUS
<1>2. /\ Idle(a) /\ UNCHANGED <<queue, store, buffered, overtaken>>
      /\ todo' = [todo EXCEPT ![a] = IF buffered THEN <<p, w>> ELSE <<w>>]
      /\ last' = IF buffered THEN last ELSE [last EXCEPT ![w.key] = w]
  BY <1>1 DEF Write, Call, shared, buffer
<1>3. todo'[a] = (IF buffered THEN <<p, w>> ELSE <<w>>) /\ \A b \in Actors \ {a} : todo'[b] = todo[b]
  BY <1>0, <1>2, StructTypes DEF CallInv
<1>4. Under(todo[a]) = <<>>
  BY <1>0, <1>2, UnderTypes
<1>5. CASE buffered
  <2>1. p.op = "Push"
    BY <1>1, StepFields
  <2>2. todo'[a] = <<p, w>> /\ last' = last
    BY <1>2, <1>3, <1>5
  <2>3. Under(todo'[a]) = <<>>
    BY <2>1, <2>2 DEF Under
  <2>4. \A k : /\ NoWrite(Under(todo[a]), k) /\ NoWrite(Under(todo'[a]), k)
               /\ \A v : EndsIn(Under(todo'[a]), v, k)
    BY <1>4, <2>3, ShortEnds
  <2> QED BY <1>0, <1>2, <1>3, <1>5, <2>2, <2>4, CallFresh
<1>6. CASE ~buffered
  <2>1. queue = <<>>
    BY <1>6 DEF FreshInv
  <2>2. NoWrite(queue, w.key)
    BY <2>1, ShortEnds
  <2> QED BY <1>0, <1>2, <1>3, <1>4, <1>6, <2>2, IssueFresh
<1> QED BY <1>5, <1>6

\* Wait, Clear and Close.
LEMMA OtherCallFresh ==
  ASSUME CacheInv, FreshInv, raced \subseteq raced', NEW a \in Clients, Wait(a) \/ Clear(a) \/ Close(a)
  PROVE  FreshInv'
<1>0. a \in Actors
  BY DEF Actors
<1> DEFINE wait == Step("Wait", NoKey, 0, 0)
           lock == Step("ClearLock", NoKey, 0, 0)
           flush == Step("CloseBuffer", NoKey, 0, 0)
           wg == Step("WgWait", NoKey, 0, 0)
<1>1. /\ {wait, lock, flush, wg} \subseteq Steps
      /\ wait.op = "Wait" /\ lock.op = "ClearLock" /\ flush.op = "CloseBuffer" /\ wg.op = "WgWait"
  BY StepFields DEF Ops
<1> HIDE DEF wait, lock, flush, wg
<1>2. \E q : /\ q \in {<<>>, <<wait>>, <<lock>>, <<wait, lock>>, <<flush, wg>>}
             /\ Idle(a) /\ todo' = [todo EXCEPT ![a] = q]
  <2>1. CASE Wait(a)
    BY <2>1 DEF Wait, Call, wait
  <2>2. CASE Clear(a)
    <3>1. <<wait>> \o <<lock>> = <<wait, lock>> /\ <<>> \o <<lock>> = <<lock>>
      BY PairConcat
    <3> QED BY <2>2, <3>1 DEF Clear, Call, wait, lock
  <2>3. CASE Close(a)
    BY <2>3 DEF Close, Call, flush, wg
  <2> QED BY <2>1, <2>2, <2>3
<1>3. PICK q : /\ q \in {<<>>, <<wait>>, <<lock>>, <<wait, lock>>, <<flush, wg>>}
               /\ Idle(a) /\ todo' = [todo EXCEPT ![a] = q]
  BY <1>2
<1>4. UNCHANGED <<queue, last, store, overtaken, buffered>>
  BY DEF Wait, Clear, Close, shared, buffer, writes
<1>5. q \in Seq(Steps)
  <2>1. <<wait>> \in Seq(Steps) /\ <<lock>> \in Seq(Steps) /\ <<>> \in Seq(Steps)
    BY <1>1
  <2>2. <<wait, lock>> \in Seq(Steps) /\ <<flush, wg>> \in Seq(Steps)
    BY <1>1
  <2> QED BY <1>3, <2>1, <2>2
<1>6. \A s \in ToSet(q) : s.op \notin WriteOps \cup {"Push"}
  <2>1. /\ ToSet(<<>>) = {} /\ ToSet(<<wait>>) = {wait} /\ ToSet(<<lock>>) = {lock}
        /\ ToSet(<<wait, lock>>) = {wait, lock} /\ ToSet(<<flush, wg>>) = {flush, wg}
    BY ElementsOfTuple, ElementsOfPair
  <2> QED BY <1>1, <1>3, <2>1 DEF WriteOps
<1>7. todo'[a] = q /\ \A b \in Actors \ {a} : todo'[b] = todo[b]
  BY <1>0, <1>3, StructTypes DEF CallInv
<1>8. Under(todo[a]) = <<>>
  BY <1>0, <1>3, UnderTypes
<1>9. \A k : /\ NoWrite(Under(todo[a]), k) /\ NoWrite(Under(todo'[a]), k)
             /\ \A w : EndsIn(Under(todo'[a]), w, k)
  BY <1>5, <1>6, <1>7, <1>8, ShortEnds, NothingToWrite
<1>10. ~Doing(a, "Push")'
  <2>1. q # <<>> => Head(q) \in ToSet(q)
    BY <1>5, ElementsOfHead
  <2> QED BY <1>6, <1>7, <2>1 DEF Doing, Idle
<1> QED BY <1>0, <1>4, <1>7, <1>9, <1>10, CallFresh

\* Push hands the write to the queue, or leaves it to the caller.
LEMMA PushFresh ==
  ASSUME CacheInv, CacheInv', FreshInv, raced \subseteq raced', NEW a \in Clients, Push(a)
  PROVE  FreshInv'
<1>0. a \in Actors
  BY DEF Actors
<1>1. Doing(a, "Push") /\ UNCHANGED <<store, buffered>> /\ buffered
  BY <1>0 DEF Push, shared, FreshInv
<1>2. PICK w : w \in WriteSteps /\ Tail(todo[a]) = <<w>> /\ w = todo[a][2]
  BY <1>0, <1>1, PushCall, StructTypes
<1>3. /\ w \in Steps /\ w.key \in Keys /\ w.op \in {"Peek", "Remove"} /\ w.op \in WriteOps
      /\ last' = [last EXCEPT ![w.key] = w]
  BY <1>2 DEF WriteSteps, PlainSteps, KeyOps, WriteOps, Push
<1>4. queue \in Seq(Steps) /\ Under(todo[a]) = <<>> /\ todo \in [Actors -> Seq(PlainSteps) \cup PushCalls]
  BY <1>0, <1>1, UnderTypes, StructTypes DEF CallInv
<1>5. CASE /\ queue' = Append(queue, w) /\ todo' = [todo EXCEPT ![a] = <<>>] /\ UNCHANGED overtaken
  <2>1. Under(todo'[a]) = <<>> /\ \A b \in Actors \ {a} : todo'[b] = todo[b]
    BY <1>0, <1>4, <1>5 DEF Under
  <2>2. queue' = queue \o <<w>> /\ <<w>> \in Seq(Steps)
    BY <1>3, <1>4, <1>5
  <2>3. last'[w.key] = w /\ \A k \in Keys \ {w.key} : last'[k] = last[k]
    BY <1>3, StructTypes DEF CallInv
  <2>4. ASSUME NEW k \in Keys \ (raced' \cup overtaken') PROVE FreshKey(k, todo', queue', last', store')
    <3>1. FreshKey(k, todo, queue, last, store)
      BY <1>5, <2>4 DEF FreshInv
    <3>2. CASE k = w.key
      <4>1. WritesTo(w, k) /\ Stems(w, w)
        BY <1>3, <3>2 DEF WritesTo, Stems
      <4>2. ~NoWrite(<<w>>, k) /\ EndsIn(<<w>>, w, k)
        BY <4>1, ShortEnds
      <4>3. ~NoWrite(queue \o <<w>>, k) /\ EndsIn(queue \o <<w>>, w, k)
        BY <1>4, <2>2, <4>2, EndsConcat
      <4> QED BY <2>2, <2>3, <3>2, <4>3 DEF FreshKey
    <3>3. CASE k # w.key
      <4>1. ~WritesTo(w, k)
        BY <3>3 DEF WritesTo
      <4>2. NoWrite(<<w>>, k) /\ EndsIn(<<w>>, last[k], k)
        BY <4>1, ShortEnds
      <4>3. /\ NoWrite(queue \o <<w>>, k) <=> NoWrite(queue, k)
            /\ EndsIn(queue, last[k], k) => EndsIn(queue \o <<w>>, last[k], k)
        BY <1>4, <2>2, <4>2, EndsConcat
      <4>4. \A b \in Actors : Under(todo'[b]) = Under(todo[b])
        BY <1>4, <2>1
      <4> QED BY <1>1, <2>2, <2>3, <2>4, <3>1, <3>3, <4>3, <4>4 DEF FreshKey
    <3> QED BY <3>2, <3>3
  <2> QED BY <1>1, <2>4 DEF FreshInv
<1>6. CASE /\ Then(a, <<>>) /\ UNCHANGED queue
           /\ overtaken' = overtaken \cup ({q.key : q \in ToSet(queue)} \cap {w.key})
  <2>1. <<>> \o <<w>> = <<w>>
    OBVIOUS
  <2>2. todo'[a] = <<w>> /\ \A b \in Actors \ {a} : todo'[b] = todo[b]
    BY <1>0, <1>2, <1>4, <1>6, <2>1 DEF Then
  <2>3. w.key \in overtaken' \/ NoWrite(queue, w.key)
    BY <1>4, <1>6, NoWriteSet DEF WritesTo
  <2>4. overtaken \subseteq overtaken'
    BY <1>6
  <2> QED BY <1>0, <1>1, <1>2, <1>3, <1>4, <1>6, <2>2, <2>3, <2>4, IssueFresh
<1> QED BY <1>2, <1>5, <1>6 DEF Push

\* The flush goroutine takes a batch: its writes go to work before those that
\* stay in the queue.
LEMMA FlushBatchFresh ==
  ASSUME CacheInv, CacheInv', FreshInv, raced \subseteq raced', FlushBatch
  PROVE  FreshInv'
<1>0. Flusher \in Actors
  BY DEF Actors
<1>1. /\ Idle(Flusher) /\ UNCHANGED <<store, last, overtaken, buffered>>
      /\ queue \in Seq(WriteSteps) /\ Len(queue) \in Nat /\ queue # <<>> /\ buffered
  <2>1. queue \in Seq(WriteSteps)
    BY StructTypes DEF CallInv
  <2> QED BY <2>1, LenProperties DEF FlushBatch, shared, writes, FreshInv
<1>2. PICK n \in 1 .. BatchMax : /\ n <= Len(queue) /\ todo' = [todo EXCEPT ![Flusher] = SubSeq(queue, 1, n)]
                                 /\ queue' = SubSeq(queue, n + 1, Len(queue))
  BY DEF FlushBatch
<1>3. PICK p, q : p = SubSeq(queue, 1, n) /\ q = SubSeq(queue, n + 1, Len(queue))
  OBVIOUS
<1>4. n \in Nat /\ n >= 1
  BY CacheAssumption
<1>5. p \in Seq(WriteSteps) /\ q \in Seq(WriteSteps) /\ queue = p \o q /\ Len(p) = n
  <2>1. \A i \in 1 .. Len(queue) : queue[i] \in WriteSteps
    BY <1>1, ElementOfSeq
  <2>2. p \in Seq(WriteSteps) /\ Len(p) = n /\ \A i \in 1 .. n : p[i] = queue[i]
    BY <1>1, <1>2, <1>3, <1>4, <2>1, SubSeqProperties
  <2>3. /\ q \in Seq(WriteSteps) /\ Len(q) = Len(queue) - n
        /\ \A i \in 1 .. Len(queue) - n : q[i] = queue[n + i]
    BY <1>1, <1>2, <1>3, <1>4, <2>1, SubSeqProperties
  <2>4. queue = p \o q
    <3>1. PICK r : r = p \o q
      OBVIOUS
    <3>2. Len(queue) - n \in Nat /\ Len(q) \in Nat
      BY <1>1, <1>2, <1>4, <2>3
    <3>3. r \in Seq(WriteSteps) /\ Len(r) = Len(queue)
      <4>1. r \in Seq(WriteSteps) /\ Len(r) = Len(p) + Len(q)
        BY <2>2, <2>3, <3>1, ConcatProperties
      <4> QED BY <1>1, <1>4, <2>2, <2>3, <4>1
    <3>4. \A i \in 1 .. Len(p) + Len(q) : r[i] = IF i <= Len(p) THEN p[i] ELSE q[i - Len(p)]
      BY <2>2, <2>3, <3>1, ConcatProperties
    <3>5. ASSUME NEW i \in 1 .. Len(queue) PROVE queue[i] = r[i]
      <4>1. CASE i <= n
        BY <1>1, <1>4, <2>2, <2>3, <3>2, <3>4, <4>1
      <4>2. CASE i > n
        <5>1. i - n \in 1 .. Len(queue) - n /\ n + (i - n) = i
          BY <1>1, <1>4, <4>2
        <5> QED BY <1>1, <1>4, <2>2, <2>3, <3>2, <3>4, <4>2, <5>1
      <4> QED BY <1>1, <1>4, <4>1, <4>2
    <3> QED BY <1>1, <3>1, <3>3, <3>5, SeqEqual
  <2> QED BY <2>2, <2>3, <2>4
<1>6. /\ todo'[Flusher] = p /\ queue' = q /\ \A b \in Actors \ {Flusher} : todo'[b] = todo[b]
  BY <1>0, <1>2, <1>3, StructTypes DEF CallInv
<1>7. Under(todo'[Flusher]) = p /\ Under(todo[Flusher]) = <<>>
  <2>1. Head(p) \in WriteSteps
    BY <1>4, <1>5
  <2> QED BY <1>0, <1>1, <1>6, <2>1, UnderTypes DEF Under, WriteSteps
<1>8. ASSUME NEW k \in Keys \ (raced' \cup overtaken') PROVE FreshKey(k, todo', queue', last', store')
  <2>1. FreshKey(k, todo, queue, last, store)
    BY <1>1, <1>8 DEF FreshInv
  <2>2. PICK w : w = last[k]
    OBVIOUS
  <2>3. EndsIn(p \o q, w, k)
    BY <1>5, <2>1, <2>2 DEF FreshKey
  <2>4. /\ NoWrite(p \o q, k) <=> NoWrite(p, k) /\ NoWrite(q, k)
        /\ EndsIn(q, w, k) /\ (NoWrite(q, k) => EndsIn(p, w, k))
    BY <1>5, <2>3, EndsConcat
  <2>5. ASSUME NoWrite(q, k), NEW b \in Actors PROVE EndsIn(Under(todo'[b]), w, k)
    <3>1. CASE b = Flusher
      BY <1>7, <2>4, <2>5, <3>1
    <3>2. CASE b # Flusher /\ NoWrite(p, k)
      <4>1. NoWrite(queue, k)
        BY <1>5, <2>4, <2>5, <3>2
      <4>2. EndsIn(Under(todo[b]), w, k)
        BY <2>1, <2>2, <4>1 DEF FreshKey
      <4> QED BY <1>6, <3>2, <4>2
    <3>3. CASE b # Flusher /\ ~NoWrite(p, k)
      <4>1. todo'[Flusher] \in Seq(Steps) /\ todo'[b] \in Seq(Steps)
        BY <1>0 DEF CacheInv, TypeOK
      <4>2. Works(todo'[Flusher], k)
        BY <1>7, <3>3, <4>1, WriteWorks
      <4>3. AloneInv'
        BY DEF CacheInv
      <4>4. ~Works(todo'[b], k)
        BY <1>0, <1>8, <3>3, <4>2, <4>3 DEF AloneInv
      <4>5. NoWrite(Under(todo'[b]), k)
        BY <4>1, <4>4, WriteWorks
      <4>6. Under(todo'[b]) \in Seq(Steps)
        BY <4>1, EmptySeq DEF Under
      <4> QED BY <4>5, <4>6, NoWriteSet
    <3> QED BY <3>1, <3>2, <3>3
  <2>6. ASSUME NoWrite(q, k), \A b \in Actors : NoWrite(Under(todo'[b]), k) PROVE Leaves(store, w)
    <3>1. NoWrite(queue, k)
      BY <1>0, <1>5, <1>7, <2>4, <2>6
    <3>2. \A b \in Actors : NoWrite(Under(todo[b]), k)
      BY <1>6, <1>7, <2>6, ShortEnds
    <3> QED BY <2>1, <2>2, <3>1, <3>2 DEF FreshKey
  <2> QED BY <1>1, <1>6, <2>2, <2>4, <2>5, <2>6 DEF FreshKey
<1> QED BY <1>1, <1>8 DEF FreshInv

\* The ticker of the worker.
LEMMA TickFresh ==
  ASSUME CacheInv, FreshInv, raced \subseteq raced', Tick
  PROVE  FreshInv'
<1>0. Worker \in Actors
  BY DEF Actors
<1>1. PICK s : s = Step("ExpireLock", NoKey, 0, 0)
  OBVIOUS
<1>2. s.op = "ExpireLock"
  BY <1>1, StepFields
<1>3. /\ Idle(Worker) /\ todo' = [todo EXCEPT ![Worker] = <<s>>]
      /\ UNCHANGED <<queue, last, store, overtaken, buffered>>
  BY <1>1 DEF Tick, shared, buffer, writes
<1>4. todo'[Worker] = <<s>> /\ \A b \in Actors \ {Worker} : todo'[b] = todo[b]
  BY <1>0, <1>3, StructTypes DEF CallInv
<1>5. Under(todo[Worker]) = <<>> /\ Under(todo'[Worker]) = <<s>>
  BY <1>0, <1>2, <1>3, <1>4, UnderTypes DEF Under
<1>6. \A k : ~WritesTo(s, k)
  BY <1>2 DEF WritesTo, WriteOps
<1>7. \A k : /\ NoWrite(Under(todo[Worker]), k) /\ NoWrite(Under(todo'[Worker]), k)
             /\ \A w : EndsIn(Under(todo'[Worker]), w, k)
  BY <1>5, <1>6, ShortEnds
<1>8. ~Doing(Worker, "Push")'
  BY <1>2, <1>4 DEF Doing, Idle
<1> QED BY <1>0, <1>3, <1>4, <1>7, <1>8, CallFresh

\* No call moves.
LEMMA SameFresh ==
  ASSUME FreshInv, raced \subseteq raced', UNCHANGED <<queue, last, store, overtaken, buffered, todo>>
  PROVE  FreshInv'
BY DEF FreshInv, FreshKey, Doing, Idle

\* Nothing is written at first.
LEMMA InitFresh == Init => FreshInv
<1> SUFFICES ASSUME Init PROVE FreshInv
  OBVIOUS
<1>1. /\ store = <<>> /\ queue = <<>> /\ \A a \in Actors : todo[a] = <<>>
  BY DEF Init
<1>2. \A k, w : NoWrite(<<>>, k) /\ EndsIn(<<>>, w, k)
  BY ShortEnds
<1>3. \A a \in Actors : Under(todo[a]) = <<>> /\ ~Doing(a, "Push")
  BY <1>1 DEF Under, Doing, Idle
<1>4. \A w : Leaves(store, w)
  BY <1>1 DEF Leaves
<1> QED BY <1>1, <1>2, <1>3, <1>4 DEF FreshInv, FreshKey

\* Every step keeps the writes in order.
LEMMA NextFresh == CacheInv /\ CacheInv' /\ ExactInv /\ FreshInv /\ [Next]_vars => FreshInv'
<1> SUFFICES ASSUME CacheInv, CacheInv', ExactInv, FreshInv, [Next]_vars PROVE FreshInv'
  OBVIOUS
<1>0. Clients \subseteq Actors /\ Worker \in Actors
  BY DEF Actors
<1>1. CASE Next
  <2>1. raced \subseteq raced'
    BY <1>1 DEF Next, Observe
  <2>2. ASSUME NEW a \in Actors, \E steps : Turn(a, steps), UNCHANGED frame PROVE FreshInv'
    <3>1. UNCHANGED <<queue, last, overtaken, buffered>> /\ ListInv
      BY <2>2 DEF frame, buffer, writes, ExactInv
    <3> QED BY <2>1, <2>2, <3>1, TurnFresh
  <2>3. ASSUME NEW a \in Clients, CallNext(a) PROVE FreshInv'
    <3>1. ASSUME NEW k \in Keys, NEW o \in Offers, SetWithCost(a, k, o) PROVE FreshInv'
      BY <2>1, <3>1, WriteStep, WriteFresh DEF SetWithCost
    <3>2. ASSUME NEW k \in Keys, Delete(a, k) PROVE FreshInv'
      BY <2>1, <3>2, WriteStep, WriteFresh DEF Delete
    <3>3. CASE Wait(a) \/ Clear(a) \/ Close(a)
      BY <2>1, <3>3, OtherCallFresh
    <3> QED BY <2>3, <3>1, <3>2, <3>3 DEF CallNext
  <2>4. ASSUME NEW a \in Clients, ClientStep(a) PROVE FreshInv'
    <3>1. CASE Push(a)
      BY <2>1, <3>1, PushFresh
    <3>2. CASE FlushSync(a) \/ CloseBuffer(a) \/ WgWait(a)
      <4>1. UNCHANGED frame
        BY <3>2 DEF FlushSync, CloseBuffer, WgWait
      <4> QED BY <1>0, <2>2, <3>2, <4>1, QuietSections
    <3> QED BY <2>4, <3>1, <3>2 DEF ClientStep
  <2>5. ASSUME NEW a \in Actors, StepNext(a) PROVE FreshInv'
    <3>0. UNCHANGED frame
      BY <2>5 DEF StepNext, Peek, Update, Add, Evict, Put, DoDelete, AddSize, AddCost, PolicyUpdate,
                  PolicyDel, Schedule, RadixInsert, RadixDelete, ClearLock, ClearShard, ClearSize,
                  ClearPolicy, ClearWheel, ClearRadix, ClearCost, Unlock
    <3>1. CASE Peek(a)  BY <2>2, <3>0, <3>1, PeekTurn
    <3>2. CASE Update(a)  BY <2>2, <3>0, <3>2, UpdateTurn
    <3>3. CASE Add(a)  BY <2>2, <3>0, <3>3, AddTurn
    <3>4. CASE Put(a)  BY <2>2, <3>0, <3>4, PutTurn
    <3>5. CASE Evict(a) \/ DoDelete(a)  BY <2>2, <3>0, <3>5, RemoveTurns
    <3>6. CASE AddSize(a) \/ AddCost(a) \/ ClearSize(a) \/ ClearCost(a)
      BY <2>2, <3>0, <3>6, CountTurn
    <3>7. CASE \/ PolicyUpdate(a) \/ PolicyDel(a) \/ Schedule(a) \/ RadixInsert(a) \/ RadixDelete(a)
               \/ ClearPolicy(a) \/ ClearWheel(a) \/ ClearRadix(a)
      BY <2>2, <3>0, <3>7, QuietSections
    <3>8. CASE ClearLock(a)  BY <2>2, <3>0, <3>8, ClearLockTurn
    <3>9. CASE ClearShard(a)  BY <2>2, <3>0, <3>9, ClearShardTurn
    <3>10. CASE Unlock(a)  BY <2>2, <3>0, <3>10, UnlockTurn
    <3> QED BY <2>5, <3>1, <3>2, <3>3, <3>4, <3>5, <3>6, <3>7, <3>8, <3>9, <3>10 DEF StepNext
  <2>6. CASE FlusherExit \/ Stop \/ ClockTick
    <3>1. UNCHANGED <<queue, last, store, overtaken, buffered, todo>>
      BY <2>6 DEF FlusherExit, Stop, ClockTick, shared, buffer, writes
    <3> QED BY <2>1, <3>1, SameFresh
  <2>7. CASE FlushBatch
    BY <2>1, <2>7, FlushBatchFresh
  <2>8. CASE Tick
    BY <2>1, <2>8, TickFresh
  <2>9. CASE ExpireLock \/ Advance \/ Expire
    <3>1. UNCHANGED frame
      BY <2>9 DEF ExpireLock, Advance, Expire
    <3> QED BY <1>0, <2>2, <2>9, <3>1, ExpireLockTurn, AdvanceTurn, RemoveTurns
  <2> QED BY <1>1, <2>3, <2>4, <2>5, <2>6, <2>7, <2>8, <2>9 DEF Next, FlusherNext, WorkerNext
<1>2. CASE UNCHANGED vars
  BY <1>2, SameFresh DEF vars, shared, frame, buffer, writes
<1> QED BY <1>1, <1>2

\* Why the last write wins: the newest write to a key that is queued, or else
\* under way, is the one issued last, and once there is none the store holds what
\* that write leaves.
THEOREM FreshInvariant == Spec => []FreshInv
<1>1. Init => CacheInv /\ ExactInv /\ FreshInv
  BY InitInv, InitExact, InitFresh
<1>2. (CacheInv /\ ExactInv /\ FreshInv) /\ [Next]_vars => (CacheInv /\ ExactInv /\ FreshInv)'
  BY NextInv, NextExact, NextFresh
<1> QED BY <1>1, <1>2, PTL DEF Spec

\* Once nothing is queued or under way for a key, a stored entry is the one the
\* last SetWithCost left, and there is none after a Delete, unless two calls
\* worked on the key at once or a write that found the buffer full overtook one
\* of its key in it.
THEOREM LastWriteStays == Spec => []LastWriteWins
<1>1. CacheInv /\ FreshInv => LastWriteWins
  <2> SUFFICES ASSUME CacheInv, FreshInv, NEW k \in Keys \ (raced \cup overtaken),
                      \A a \in Actors : ~Works(todo[a], k), \A q \in ToSet(queue) : q.key # k,
                      k \in DOMAIN store
               PROVE  last[k].op = "Peek" /\ store[k] = [cost |-> last[k].n, exp |-> last[k].exp]
    BY DEF LastWriteWins
  <2>1. FreshKey(k, todo, queue, last, store)
    BY DEF FreshInv
  <2>2. NoWrite(queue, k)
    <3>1. queue \in Seq(Steps)
      BY DEF CacheInv, TypeOK
    <3> QED BY <3>1, NoWriteSet DEF WritesTo
  <2>3. \A a \in Actors : NoWrite(Under(todo[a]), k)
    <3> SUFFICES ASSUME NEW a \in Actors PROVE NoWrite(Under(todo[a]), k)
      OBVIOUS
    <3>1. todo[a] \in Seq(Steps)
      BY DEF CacheInv, TypeOK
    <3> QED BY <3>1, WriteWorks
  <2>4. Leaves(store, last[k])
    BY <2>1, <2>2, <2>3 DEF FreshKey
  <2>5. last[k].key = k /\ last[k].op \in {"Peek", "Remove"}
    BY DEF CacheInv, TypeOK, CallInv, WriteSteps
  <2> QED BY <2>4, <2>5 DEF Leaves
<1>2. Spec => []CacheInv
  BY CacheInvariant
<1> QED BY <1>1, <1>2, FreshInvariant, PTL
=============================================================================
