------------------------------- MODULE Policy -------------------------------
(***************************************************************************)
(* Policy of internal/policy/policy.go: TinyLFU decides on admission,      *)
(* SampledLFU on eviction.  Add, Del, Update and Clear hold p.mu; Access   *)
(* does not, so the frequencies move while an Add compares them.           *)
(*                                                                         *)
(* A frequency is what Estimate would return for a hash.  Hashes that      *)
(* share counters in the sketch or bits in the doorkeeper can raise each   *)
(* other's: Clash says which.  Keys may share a hash.                      *)
(***************************************************************************)
EXTENDS SampledLFU, SequencesExt, FiniteSetsExt

CONSTANTS Hashes, HashOf,  \* hashes, and the hash of each key
          Clash,           \* hashes whose counters another may raise
          MaxFreq,         \* largest value of a counter, 15 in the code
          ResetAt,         \* t.resetAt
          SampleAll,       \* below this many keys all are sampled, 100
          SampleSize,      \* else so many, 10 and more
          NoKey

ASSUME PolicyAssumption ==
  /\ HashOf \in [Key -> Hashes]
  /\ Clash \in [Hashes -> SUBSET Hashes]
  /\ {MaxFreq, ResetAt, SampleAll, SampleSize} \subseteq Nat \ {0}
  /\ SampleSize <= SampleAll
  /\ NoKey \notin Key

VARIABLES freq,      \* cmSketch: the least counter of each hash
          door,      \* bloomFilter: the hashes it contains
          incrs,     \* t.incrs
          add,       \* the Add that holds p.mu
          added,     \* what the last Add of a new key returned
          refused,   \* whether it was refused the place of a victim
          seen       \* history: accesses of each hash, aged like the sketch

tinyVars == <<freq, door, incrs, seen>>
resultVars == <<added, refused>>
vars == <<lfuVars, tinyVars, add, resultVars>>

Infinity == MaxFreq + 2
NoAdd == [pc |-> "none"]

\* mutant: a counter that is full starts again at zero
SaturateWrap(n) == IF n > MaxFreq THEN 0 ELSE n

\* mutant: the counter has no largest value
SaturateNever(n) == n

\* A counter of the sketch stays at its largest value.
Saturate(n) == IF n > MaxFreq THEN MaxFreq ELSE n

\* The doorkeeper counts for the first access.
EstimateOf(f, d, h) == f[h] + (IF h \in d THEN 1 ELSE 0)
Estimate(h) == EstimateOf(freq, door, h)

\* mutant: the loop over the victims looks at the limits once
StillOverOnce == NeedsEviction /\ add.victims = {}

\* The condition of findVictimsLocked's loop
StillOver == NeedsEviction

-----------------------------------------------------------------------------
PolicyInit ==
  /\ LfuInit
  /\ freq = [h \in Hashes |-> 0] /\ door = {} /\ incrs = 0
  /\ add = NoAdd
  /\ added = FALSE /\ refused = FALSE
  /\ seen = [h \in Hashes |-> 0]

(* TinyLFU.Increment: the first access of a hash goes into the doorkeeper, *)
(* the others into the sketch; after ResetAt of them everything ages.      *)
Increment(h) ==
  \E others \in SUBSET (Clash[h] \ {h}) :
    LET known == h \in door
        f == [g \in Hashes |-> IF known /\ g \in others \cup {h}
                               THEN Saturate(freq[g] + 1) ELSE freq[g]]
        d == IF known THEN door ELSE door \cup {h} \cup others
        s == [seen EXCEPT ![h] = IF @ > MaxFreq THEN @ ELSE @ + 1]
    IN  IF incrs + 1 >= ResetAt
        THEN /\ freq' = [g \in Hashes |-> f[g] \div 2] /\ door' = {} /\ incrs' = 0
             /\ seen' = [g \in Hashes |-> IF s[g] > 0 THEN (s[g] - 1) \div 2 ELSE 0]
        ELSE /\ freq' = f /\ door' = d /\ incrs' = incrs + 1 /\ seen' = s

\* Access, on a hit; it does not take p.mu.
Access(k) == Increment(HashOf[k]) /\ UNCHANGED <<lfuVars, add, resultVars>>

-----------------------------------------------------------------------------
(* Add, under p.mu                                                         *)

AddCall(k, c) ==
  /\ add = NoAdd
  /\ Increment(HashOf[k])
  /\ add' = [pc |-> "check", key |-> k, cost |-> c, victims |-> {}]
  /\ UNCHANGED <<lfuVars, resultVars>>

\* The key is tracked: only its cost changes.
AddTracked ==
  /\ add.pc = "check" /\ add.key \in Tracked
  /\ LfuUpdate(add.key, add.cost)
  /\ add' = NoAdd
  /\ UNCHANGED <<tinyVars, resultVars>>

\* Sample: all keys in the order of the array, or some in any order
Samples ==
  IF Len(keys) < SampleAll THEN {keys}
  ELSE {s \in SetToAllKPermutations(ToSet(keys)) : Len(s) = SampleSize}

\* findVictimsLocked: one more victim is sought
AddSample ==
  /\ \/ add.pc = "check" /\ add.key \notin Tracked
     \/ add.pc = "loop"
  /\ StillOver /\ keys # <<>>
  /\ \E s \in Samples :
       add' = [pc |-> "estimate", key |-> add.key, cost |-> add.cost,
               victims |-> add.victims, sample |-> s, victim |-> NoKey,
               lowest |-> Infinity]
  /\ UNCHANGED <<lfuVars, tinyVars, resultVars>>

\* One Estimate of the scan over the sample; the first of the lowest wins.
AddEstimate ==
  /\ add.pc = "estimate" /\ add.sample # <<>>
  /\ LET k == Head(add.sample)
         f == Estimate(HashOf[k])
         lower == f < add.lowest
     IN  add' = [add EXCEPT !.sample = Tail(@),
                            !.victim = IF lower THEN k ELSE @,
                            !.lowest = IF lower THEN f ELSE @]
  /\ UNCHANGED <<lfuVars, tinyVars, resultVars>>

\* Admit: the frequency of the incoming key is read first ...
AddIncoming ==
  /\ add.pc = "estimate" /\ add.sample = <<>>
  /\ add' = [pc |-> "admit", key |-> add.key, cost |-> add.cost,
             victims |-> add.victims, victim |-> add.victim,
             incoming |-> Estimate(HashOf[add.key])]
  /\ UNCHANGED <<lfuVars, tinyVars, resultVars>>

\* ... then that of the victim, which goes unless it is the larger one.
AddEvict ==
  /\ add.pc = "admit" /\ add.incoming >= Estimate(HashOf[add.victim])
  /\ LfuDel(add.victim)
  /\ add' = [pc |-> "loop", key |-> add.key, cost |-> add.cost,
             victims |-> add.victims \cup {add.victim}]
  /\ UNCHANGED <<tinyVars, resultVars>>

\* A refusal only ends the search: the key is added all the same.
AddRefuse ==
  /\ add.pc = "admit" /\ add.incoming < Estimate(HashOf[add.victim])
  /\ LfuAdd(add.key, add.cost)
  /\ add' = NoAdd
  /\ added' = TRUE /\ refused' = TRUE
  /\ UNCHANGED tinyVars

AddInsert ==
  /\ \/ add.pc = "check" /\ add.key \notin Tracked
     \/ add.pc = "loop"
  /\ ~(StillOver /\ keys # <<>>)
  /\ LfuAdd(add.key, add.cost)
  /\ add' = NoAdd
  /\ added' = TRUE /\ refused' = FALSE
  /\ UNCHANGED tinyVars

-----------------------------------------------------------------------------
Del(k) == add = NoAdd /\ LfuDel(k) /\ UNCHANGED <<tinyVars, add, resultVars>>

Update(k, c) == add = NoAdd /\ LfuUpdate(k, c) /\ UNCHANGED <<tinyVars, add, resultVars>>

Clear ==
  /\ add = NoAdd
  /\ LfuClear
  /\ freq' = [h \in Hashes |-> 0] /\ door' = {} /\ incrs' = 0
  /\ seen' = [h \in Hashes |-> 0]
  /\ UNCHANGED <<add, resultVars>>

PolicyNext ==
  \/ \E k \in Key : Access(k) \/ Del(k)
  \/ \E k \in Key, c \in Cost : AddCall(k, c) \/ Update(k, c)
  \/ AddTracked \/ AddSample \/ AddEstimate \/ AddIncoming
  \/ AddEvict \/ AddRefuse \/ AddInsert
  \/ Clear

PolicySpec == PolicyInit /\ [][PolicyNext]_vars

-----------------------------------------------------------------------------
(* Properties.                                                             *)

\* Types; a counter has four bits (MaxFreq), and an Add knows its victim once
\* it has looked at the sample.
TypeOK ==
  /\ LfuType
  /\ freq \in [Hashes -> 0 .. MaxFreq] /\ door \subseteq Hashes
  /\ incrs \in 0 .. ResetAt - 1
  /\ seen \in [Hashes -> 0 .. MaxFreq + 1]
  /\ add.pc \in {"none", "check", "estimate", "admit", "loop"}
  /\ add.pc = "admit" => add.victim \in Tracked
  /\ added \in BOOLEAN /\ refused \in BOOLEAN

\* usedCost and numEntries, which NeedsEviction compares with the limits, are
\* those of the tracked keys.
CountersExact ==
  /\ numEntries = Cardinality(Tracked)
  /\ usedCost = MapThenSumSet(LAMBDA k : costs[k], Tracked)

\* Estimate never under-estimates: it is at least the number of accesses, aged
\* like the sketch and as far as a counter reaches, whatever collisions,
\* resets and saturation do.
NeverUnderestimates == \A h \in Hashes : Estimate(h) >= seen[h]

\* The policy holds one entry more than MaxEntries at most, however far earlier
\* refusals took it beyond, once an Add gets its room: findVictimsLocked goes
\* on until the limit is met.
EvictsBackToLimit == MaxEntries > 0 /\ ~refused => numEntries <= MaxEntries + 1

\* What the README says of admission: an item of a lower frequency than the
\* entry it would replace is rejected.
ColdItemRejected == add = NoAdd /\ refused => ~added
=============================================================================
