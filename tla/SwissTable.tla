------------------------------ MODULE SwissTable ------------------------------
(***************************************************************************)
(* SwissTable of internal/hashtable/swiss.go: open addressing over groups  *)
(* of slots with one control byte per slot.  Every operation holds st.mu,  *)
(* so each is one action; Get, Has, Range and Sample only read.  Size does *)
(* not lock: that it counts up from 0 during a growth is not modelled.     *)
(* The key of the table is the hash of a cache key.  A control byte is     *)
(* Empty, Deleted or the low bits (h2) of the hash in the slot; h1 is the  *)
(* rest of it.                                                             *)
(***************************************************************************)
EXTENDS Integers, SequencesExt, FiniteSetsExt

CONSTANTS SwissHashes,    \* hashes that callers use
          SwissCosts,     \* costs they store
          Capacities,     \* capacities they ask for
          GroupSize,      \* slots of a group, 16 in the code
          H2Range         \* values of h2, 128 in the code

ASSUME SwissAssumption ==
  /\ SwissHashes \subseteq Nat /\ SwissCosts \subseteq Nat /\ Capacities \subseteq Int
  /\ {GroupSize, H2Range} \subseteq Nat \ {0}

VARIABLES groups,     \* st.groups: the control bytes of each group
          entries,    \* st.entries: what each slot holds
          swissSize,  \* st.size
          costOf      \* history: the cost last stored for each present hash

swissVars == <<groups, entries, swissSize, costOf>>

Empty == -1
Deleted == -2
NoEntry == [hash |-> 0, cost |-> 0]

h1(hash) == hash \div H2Range
h2(hash) == hash % H2Range

Slots(n) == (1 .. n) \X (1 .. GroupSize)
EmptyGroups(n) == [g \in 1 .. n |-> [i \in 1 .. GroupSize |-> Empty]]
NoEntries(n) == [s \in Slots(n) |-> NoEntry]

Full(c) == c \notin {Empty, Deleted}

NextPowerOf2(n) ==
  LET power[i \in 0 .. n] == IF i = 0 THEN 1 ELSE 2 * power[i - 1]
  IN  Min({p \in {power[i] : i \in 0 .. n} : p >= n})

\* The order in which slots are visited, by group and then within it.
Earlier(s, t) == s[1] < t[1] \/ (s[1] = t[1] /\ s[2] < t[2])

\* The group that the probe for a hash looks at after p others
ProbedGroup(gs, hash, p) == ((h1(hash) + p) % Len(gs)) + 1

-----------------------------------------------------------------------------
(* findLocked: the slots of the probed groups whose control byte and hash  *)
(* fit.  The probe ends after the first group with an empty slot.          *)
FindSlots(hash) ==
  LET last == {p \in 0 .. Len(groups) - 1 :
                 Empty \in ToSet(groups[ProbedGroup(groups, hash, p)])}
      reach == IF last = {} THEN Len(groups) - 1 ELSE Min(last)
  IN  {s \in {ProbedGroup(groups, hash, p) : p \in 0 .. reach} \X (1 .. GroupSize) :
         groups[s[1]][s[2]] = h2(hash) /\ entries[s].hash = hash}

Found(hash) == FindSlots(hash) # {}
SlotOf(hash) == CHOOSE s \in FindSlots(hash) : TRUE

\* insertNoLock, and the end of Insert: the first slot of the probe order that
\* is empty or deleted takes the entry; without one nothing happens.
Place(t, entry) ==
  LET free == {s \in (0 .. Len(t.groups) - 1) \X (1 .. GroupSize) :
                 ~Full(t.groups[ProbedGroup(t.groups, entry.hash, s[1])][s[2]])}
      first == CHOOSE s \in free : \A r \in free \ {s} : Earlier(s, r)
      g == ProbedGroup(t.groups, entry.hash, first[1])
  IN  IF free = {} THEN t
      ELSE [groups |-> [t.groups EXCEPT ![g][first[2]] = h2(entry.hash)],
            entries |-> [t.entries EXCEPT ![<<g, first[2]>>] = entry],
            size |-> t.size + 1]

\* The full slots in the order that Range, Sample and growLocked visit them: the
\* j-th has j - 1 of them before it.
FullSlots ==
  LET full == {s \in Slots(Len(groups)) : Full(groups[s[1]][s[2]])}
  IN  [j \in 1 .. Cardinality(full) |->
         CHOOSE s \in full : Cardinality({r \in full : Earlier(r, s)}) = j - 1]

FullEntries == LET visited == FullSlots IN [j \in DOMAIN visited |-> entries[visited[j]]]

\* growLocked: twice the groups, and every entry placed again
Grown ==
  LET n == 2 * Len(groups)
      table == [groups |-> EmptyGroups(n), entries |-> NoEntries(n), size |-> 0]
  IN  FoldLeft(Place, table, FullEntries)

Table == [groups |-> groups, entries |-> entries, size |-> swissSize]

\* The load factor 7/8 leaves room for one more entry.
HasRoom == 8 * (swissSize + 1) <= 7 * Len(groups) * GroupSize

Sample(n) ==
  IF n <= 0 \/ swissSize = 0 THEN <<>>
  ELSE SubSeq(FullEntries, 1, Min({n, Len(FullEntries)}))

-----------------------------------------------------------------------------
\* NewSwissTable
SwissInit ==
  \E capacity \in Capacities :
    LET wanted == IF capacity <= 0 THEN 16 ELSE capacity
        n == NextPowerOf2((wanted + GroupSize - 1) \div GroupSize)
    IN  /\ groups = EmptyGroups(n) /\ entries = NoEntries(n)
        /\ swissSize = 0 /\ costOf = <<>>

With(f, h, c) == [j \in DOMAIN f \cup {h} |-> IF j = h THEN c ELSE f[j]]

\* Update, and Insert of a hash that is present
SwissUpdate(hash, cost) ==
  /\ Found(hash)
  /\ entries' = [entries EXCEPT ![SlotOf(hash)].cost = cost]
  /\ costOf' = [costOf EXCEPT ![hash] = cost]
  /\ UNCHANGED <<groups, swissSize>>

SwissInsert(hash, cost) ==
  /\ ~Found(hash)
  /\ LET t == Place(IF HasRoom THEN Table ELSE Grown, [hash |-> hash, cost |-> cost])
     IN  groups' = t.groups /\ entries' = t.entries /\ swissSize' = t.size
  /\ costOf' = With(costOf, hash, cost)

\* mutant: a deleted slot is marked as empty
SwissDeleteEmpties(hash) ==
  /\ Found(hash)
  /\ LET s == SlotOf(hash)
     IN  /\ groups' = [groups EXCEPT ![s[1]][s[2]] = Empty]
         /\ entries' = [entries EXCEPT ![s] = NoEntry]
  /\ swissSize' = swissSize - 1
  /\ costOf' = [j \in DOMAIN costOf \ {hash} |-> costOf[j]]

SwissDelete(hash) ==
  /\ Found(hash)
  /\ LET s == SlotOf(hash)
     IN  /\ groups' = [groups EXCEPT ![s[1]][s[2]] = Deleted]
         /\ entries' = [entries EXCEPT ![s] = NoEntry]
  /\ swissSize' = swissSize - 1
  /\ costOf' = [j \in DOMAIN costOf \ {hash} |-> costOf[j]]

SwissClear ==
  /\ groups' = EmptyGroups(Len(groups)) /\ entries' = NoEntries(Len(groups))
  /\ swissSize' = 0 /\ costOf' = <<>>

SwissNext ==
  \/ \E hash \in SwissHashes, cost \in SwissCosts :
       SwissInsert(hash, cost) \/ SwissUpdate(hash, cost)
  \/ \E hash \in SwissHashes : SwissDelete(hash)
  \/ SwissClear

-----------------------------------------------------------------------------
\* The table is the map from each stored hash to its last cost, through
\* collisions, tombstones and growth: a probe finds a hash if and only if it is
\* there, with its cost; no hash is in two slots, also none that a probe would
\* not reach; size is the number of entries; and Sample returns as many of them
\* as it is asked for and has.
SwissIsMap ==
  /\ swissSize = Cardinality(DOMAIN costOf)
  /\ \A h \in SwissHashes : Found(h) <=> h \in DOMAIN costOf
  /\ \A h \in DOMAIN costOf : entries[SlotOf(h)].cost = costOf[h]
  /\ Len(FullEntries) = swissSize
  /\ ToSet(FullEntries) = {[hash |-> h, cost |-> costOf[h]] : h \in DOMAIN costOf}
  /\ \A n \in 0 .. swissSize + 1 :
       /\ ToSet(Sample(n)) \subseteq ToSet(FullEntries)
       /\ Cardinality(ToSet(Sample(n))) = Min({n, swissSize})
=============================================================================
