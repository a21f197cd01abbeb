----------------------------- MODULE FiniteSums -----------------------------
(***************************************************************************)
(* Sums over finite sets, for proofs: what MapThenSumSet returns when an   *)
(* element joins or leaves the set, or changes its value.                  *)
(*                                                                         *)
(* MapThenSumSet is a recursive function that takes the elements in the    *)
(* order in which CHOOSE finds them.  The lemmas show by induction on the  *)
(* size of the set that the order does not matter.  Induction is stated    *)
(* over sets, not over predicates: a set of subsets that contains {} and   *)
(* is closed under adding an element contains every finite set.            *)
(***************************************************************************)
EXTENDS Integers, FiniteSets, FiniteSetsExt, FiniteSetTheorems,
        WellFoundedInduction, TLAPS

SumOver(f, S) == MapThenSumSet(LAMBDA x : f[x], S)

Less == {ss \in Nat \X Nat : ss[1] < ss[2]}
Chosen(s) == CHOOSE x \in s : TRUE

\* g is the recursive function of MapThenSumSet for f over the subsets of S.
Sums(g, f, S) ==
  g = [s \in SUBSET S |-> IF s = {} THEN 0 ELSE f[Chosen(s)] + g[s \ {Chosen(s)}]]

\* A set of natural numbers that is not empty has a least element.
LEMMA LeastNumber ==
  ASSUME NEW T \in SUBSET Nat, T # {}
  PROVE  \E n \in T : \A m \in T : n <= m
<1>1. IsWellFoundedOn(Less, Nat)
  BY NatLessThanWellFounded, Zenon DEF OpToRel, Less
<1>2. PICK n \in T : \A m \in T : ~ (<<m, n>> \in Less)
  BY ONLY <1>1, WFMin, T \in SUBSET Nat, T # {}
<1>3. \A m \in T : ~ (m < n)
  BY <1>2 DEF Less
<1> QED BY <1>3

\* Induction over the subsets of a finite set: a set of them to which every
\* subset belongs once all smaller ones do holds them all.
LEMMA SubsetInduction ==
  ASSUME NEW S, IsFiniteSet(S), NEW Q,
         \A s \in SUBSET S :
           (\A x \in s : \A t \in SUBSET (s \ {x}) : t \in Q) => s \in Q
  PROVE  \A s \in SUBSET S : s \in Q
<1> SUFFICES ASSUME NEW s0 \in SUBSET S, s0 \notin Q PROVE FALSE
  OBVIOUS
<1> DEFINE Sizes == {n \in Nat : \E s \in SUBSET S : s \notin Q /\ Cardinality(s) = n}
<1>1. \A s \in SUBSET S : IsFiniteSet(s) /\ Cardinality(s) \in Nat
  BY FS_Subset, FS_CardinalityType
<1>2. Sizes \in SUBSET Nat /\ Sizes # {}
  BY <1>1
<1>3. PICK n \in Sizes : \A m \in Sizes : n <= m
  BY <1>2, LeastNumber
<1>4. PICK s \in SUBSET S : s \notin Q /\ Cardinality(s) = n
  BY <1>3
<1>5. ASSUME NEW x \in s, NEW t \in SUBSET (s \ {x}) PROVE t \in Q
  <2>1. Cardinality(s \ {x}) = n - 1 /\ IsFiniteSet(s \ {x}) /\ n \in Nat
    BY <1>1, <1>4, FS_RemoveElement
  <2>2. Cardinality(t) <= n - 1 /\ Cardinality(t) \in Nat /\ t \in SUBSET S
    BY <1>1, <2>1, FS_Subset
  <2> QED BY <1>3, <2>1, <2>2
<1> QED BY <1>4, <1>5

\* The recursive function exists.
LEMMA SumsExist ==
  ASSUME NEW S, IsFiniteSet(S), NEW f, \A x \in S : f[x] \in Int
  PROVE  \E g \in [SUBSET S -> Int] : Sums(g, f, S)
<1> DEFINE Next(g) == [s \in SUBSET S |-> IF s = {} THEN 0
                                          ELSE f[Chosen(s)] + g[s \ {Chosen(s)}]]
           Partial(n) == \E g \in [SUBSET S -> Int] :
                           \A s \in SUBSET S : Cardinality(s) <= n => g[s] = Next(g)[s]
           Missing == {n \in Nat : ~Partial(n)}
<1>1. \A s \in SUBSET S : IsFiniteSet(s) /\ Cardinality(s) \in Nat
  BY FS_Subset, FS_CardinalityType
<1>2. \A s \in SUBSET S : s # {} => Chosen(s) \in s
  BY DEF Chosen
<1>3. \A g \in [SUBSET S -> Int] : Next(g) \in [SUBSET S -> Int]
  BY <1>2
<1>4. \A s \in SUBSET S : s # {} => /\ s \ {Chosen(s)} \in SUBSET S
                                    /\ Cardinality(s \ {Chosen(s)}) = Cardinality(s) - 1
  BY <1>1, <1>2, FS_RemoveElement
<1>5. Partial(0)
  <2> DEFINE zero == [s \in SUBSET S |-> 0]
  <2>1. zero \in [SUBSET S -> Int]
    OBVIOUS
  <2>2. \A s \in SUBSET S : Cardinality(s) <= 0 => s = {}
    BY <1>1, FS_EmptySet
  <2> QED BY <2>1, <2>2
<1>6. ASSUME NEW n \in Nat, Partial(n) PROVE Partial(n + 1)
  <2>1. PICK g \in [SUBSET S -> Int] :
          \A s \in SUBSET S : Cardinality(s) <= n => g[s] = Next(g)[s]
    BY <1>6
  <2> DEFINE h == Next(g)
  <2>2. h \in [SUBSET S -> Int]
    BY <1>3
  <2>3. ASSUME NEW s \in SUBSET S, Cardinality(s) <= n + 1 PROVE h[s] = Next(h)[s]
    <3>1. CASE s = {}
      BY <3>1
    <3>2. CASE s # {}
      <4> DEFINE t == s \ {Chosen(s)}
      <4>1. t \in SUBSET S /\ Cardinality(t) <= n
        BY <1>1, <1>4, <2>3, <3>2
      <4>2. g[t] = h[t]
        BY <2>1, <4>1
      <4> QED BY <3>2, <4>2
    <3> QED BY <3>1, <3>2
  <2> QED BY <2>2, <2>3
<1>7. Missing = {}
  <2> SUFFICES ASSUME Missing # {} PROVE FALSE
    OBVIOUS
  <2>1. Missing \in SUBSET Nat
    OBVIOUS
  <2>2. PICK n \in Missing : \A m \in Missing : n <= m
    BY <2>1, LeastNumber
  <2>3. n \in Nat /\ ~Partial(n)
    BY <2>2
  <2> HIDE DEF Partial
  <2>4. n # 0
    BY <1>5, <2>3
  <2>5. n - 1 \in Nat /\ n - 1 \notin Missing
    BY <2>2, <2>3, <2>4
  <2>6. Partial(n - 1)
    BY <2>5
  <2> QED BY <1>6, <2>3, <2>5, <2>6
<1>8. Partial(Cardinality(S))
  <2> HIDE DEF Partial
  <2> QED BY <1>1, <1>7
<1>9. PICK g \in [SUBSET S -> Int] :
        \A s \in SUBSET S : Cardinality(s) <= Cardinality(S) => g[s] = Next(g)[s]
  BY <1>8
<1>10. \A s \in SUBSET S : g[s] = Next(g)[s]
  BY <1>9, FS_Subset
<1>11. g = Next(g)
  BY <1>10
<1> QED BY <1>11 DEF Sums

\* What it says of one subset.
LEMMA SumsStep ==
  ASSUME NEW S, NEW f, NEW g, Sums(g, f, S), NEW s \in SUBSET S
  PROVE  /\ s = {} => g[s] = 0
         /\ s # {} => Chosen(s) \in s /\ g[s] = f[Chosen(s)] + g[s \ {Chosen(s)}]
<1>1. g[s] = IF s = {} THEN 0 ELSE f[Chosen(s)] + g[s \ {Chosen(s)}]
  BY DEF Sums
<1>2. s # {} => Chosen(s) \in s
  BY DEF Chosen
<1> QED BY <1>1, <1>2

\* Its values are integers, and depend on those of f only.
LEMMA SumsAgree ==
  ASSUME NEW S, IsFiniteSet(S), NEW f, NEW g, NEW e, NEW h,
         Sums(g, f, S), NEW R \in SUBSET S, Sums(h, e, R),
         \A x \in R : f[x] \in Int /\ f[x] = e[x]
  PROVE  \A s \in SUBSET R : g[s] \in Int /\ g[s] = h[s]
<1> DEFINE Q == {s \in SUBSET R : g[s] \in Int /\ g[s] = h[s]}
<1>1. IsFiniteSet(R)
  BY FS_Subset
<1>4. \A s \in SUBSET S : /\ s = {} => g[s] = 0
                          /\ s # {} => Chosen(s) \in s /\ g[s] = f[Chosen(s)] + g[s \ {Chosen(s)}]
  BY SumsStep
<1>5. \A s \in SUBSET R : /\ s = {} => h[s] = 0
                          /\ s # {} => Chosen(s) \in s /\ h[s] = e[Chosen(s)] + h[s \ {Chosen(s)}]
  BY SumsStep
<1>2. ASSUME NEW s \in SUBSET R, \A x \in s : \A t \in SUBSET (s \ {x}) : t \in Q
      PROVE  s \in Q
  <2>1. s \in SUBSET S
    OBVIOUS
  <2>2. CASE s = {}
    <3>1. g[s] = 0 /\ h[s] = 0
      BY <1>4, <1>5, <2>1, <2>2
    <3> QED BY <3>1
  <2>3. CASE s # {}
    <3>1. Chosen(s) \in s /\ g[s] = f[Chosen(s)] + g[s \ {Chosen(s)}]
      BY <1>4, <2>1, <2>3
    <3>2. h[s] = e[Chosen(s)] + h[s \ {Chosen(s)}]
      BY <1>5, <2>3
    <3>3. s \ {Chosen(s)} \in Q
      BY <1>2, <3>1
    <3> QED BY <3>1, <3>2, <3>3
  <2> QED BY <2>2, <2>3
<1> HIDE DEF Q
<1>3. \A s \in SUBSET R : s \in Q
  BY <1>1, <1>2, SubsetInduction
<1> QED BY <1>3 DEF Q

\* The order in which the elements are taken does not matter.
LEMMA SumsRemove ==
  ASSUME NEW S, IsFiniteSet(S), NEW f, NEW g, Sums(g, f, S), \A x \in S : f[x] \in Int
  PROVE  \A s \in SUBSET S : \A x \in s : g[s] = f[x] + g[s \ {x}]
<1> DEFINE Q == {s \in SUBSET S : \A x \in s : g[s] = f[x] + g[s \ {x}]}
<1>1. \A s \in SUBSET S : g[s] \in Int
  BY SumsAgree
<1>2. ASSUME NEW s \in SUBSET S, \A x \in s : \A t \in SUBSET (s \ {x}) : t \in Q,
             NEW x \in s
      PROVE  g[s] = f[x] + g[s \ {x}]
  <2> DEFINE y == Chosen(s)
  <2>1. y \in s /\ g[s] = f[y] + g[s \ {y}]
    BY SumsStep
  <2>2. CASE x = y
    BY <2>1, <2>2
  <2>3. CASE x # y
    <3> HIDE DEF y
    <3> DEFINE r == s \ {x, y}
    <3>1. s \ {y} \in Q /\ s \ {x} \in Q
      BY <1>2, <2>1
    <3>2. x \in s \ {y} /\ y \in s \ {x} /\ (s \ {y}) \ {x} = r /\ (s \ {x}) \ {y} = r
      BY <2>1, <2>3
    <3>3. g[s \ {y}] = f[x] + g[r] /\ g[s \ {x}] = f[y] + g[r]
      BY <3>1, <3>2
    <3>4. f[x] \in Int /\ f[y] \in Int /\ g[r] \in Int
      BY <1>1, <2>1
    <3> QED BY <2>1, <3>3, <3>4
  <2> QED BY <2>2, <2>3
<1>3. \A s \in SUBSET S :
        (\A x \in s : \A t \in SUBSET (s \ {x}) : t \in Q) => s \in Q
  BY <1>2
<1> HIDE DEF Q
<1>4. \A s \in SUBSET S : s \in Q
  BY <1>3, SubsetInduction
<1> QED BY <1>4 DEF Q

\* The sum is the value of that function at the whole set.
LEMMA SumIs ==
  ASSUME NEW f, NEW S, NEW g, Sums(g, f, S)
  PROVE  \E h : Sums(h, f, S) /\ SumOver(f, S) = h[S]
BY DEF SumOver, MapThenSumSet, MapThenFoldSet, Sums, Chosen

-----------------------------------------------------------------------------
(* The laws of SumOver.                                                    *)

\* The sum of integers is one, and that of nothing is 0.
LEMMA SumType ==
  ASSUME NEW S, IsFiniteSet(S), NEW f, \A x \in S : f[x] \in Int
  PROVE  SumOver(f, S) \in Int /\ (S = {} => SumOver(f, S) = 0)
<1>1. PICK h : Sums(h, f, S) /\ SumOver(f, S) = h[S]
  BY SumsExist, SumIs
<1>2. h[S] \in Int
  BY <1>1, SumsAgree
<1>3. S = {} => h[S] = 0
  BY <1>1, SumsStep
<1> QED BY <1>1, <1>2, <1>3

\* Equal values have equal sums.
LEMMA SumCongruence ==
  ASSUME NEW S, IsFiniteSet(S), NEW f, NEW e, \A x \in S : f[x] \in Int /\ f[x] = e[x]
  PROVE  SumOver(f, S) = SumOver(e, S)
<1>1. PICK h : Sums(h, f, S) /\ SumOver(f, S) = h[S]
  BY SumsExist, SumIs
<1>2. PICK g : Sums(g, e, S) /\ SumOver(e, S) = g[S]
  BY SumsExist, SumIs
<1>3. h[S] = g[S]
  BY <1>1, <1>2, SumsAgree
<1> QED BY <1>1, <1>2, <1>3

\* An element that leaves takes its value with it.
LEMMA SumDelete ==
  ASSUME NEW S, IsFiniteSet(S), NEW x \in S, NEW f, \A y \in S : f[y] \in Int
  PROVE  SumOver(f, S \ {x}) = SumOver(f, S) - f[x]
<1>1. IsFiniteSet(S \ {x})
  BY FS_RemoveElement
<1>2. PICK h : Sums(h, f, S) /\ SumOver(f, S) = h[S]
  BY SumsExist, SumIs
<1>3. PICK g : Sums(g, f, S \ {x}) /\ SumOver(f, S \ {x}) = g[S \ {x}]
  BY <1>1, SumsExist, SumIs
<1>4. h[S] = f[x] + h[S \ {x}]
  BY <1>2, SumsRemove
<1>5. h[S \ {x}] = g[S \ {x}] /\ h[S \ {x}] \in Int
  BY <1>2, <1>3, SumsAgree
<1> QED BY <1>2, <1>3, <1>4, <1>5

\* An element that joins adds its value.
LEMMA SumInsert ==
  ASSUME NEW S, IsFiniteSet(S), NEW x, x \notin S, NEW f,
         \A y \in S \cup {x} : f[y] \in Int
  PROVE  SumOver(f, S \cup {x}) = SumOver(f, S) + f[x]
<1> DEFINE R == S \cup {x}
<1>1. IsFiniteSet(R) /\ x \in R /\ \A y \in R : f[y] \in Int
  BY FS_AddElement
<1>2. R \ {x} = S
  OBVIOUS
<1> HIDE DEF R
<1>3. SumOver(f, S) = SumOver(f, R) - f[x] /\ SumOver(f, R) \in Int /\ f[x] \in Int
  BY <1>1, <1>2, SumDelete, SumType
<1>4. SumOver(f, R) = SumOver(f, S) + f[x]
  BY <1>3
<1> QED BY <1>4 DEF R

\* An element whose value changes changes the sum by as much.
LEMMA SumChange ==
  ASSUME NEW S, IsFiniteSet(S), NEW x \in S, NEW f, NEW e, \A y \in S : f[y] \in Int,
         e[x] \in Int, \A y \in S \ {x} : e[y] = f[y]
  PROVE  SumOver(e, S) = SumOver(f, S) - f[x] + e[x]
<1> DEFINE R == S \ {x}
<1>1. IsFiniteSet(R)
  BY FS_RemoveElement
<1>2. SumOver(f, R) = SumOver(f, S) - f[x]
  BY SumDelete
<1>3. SumOver(e, R) = SumOver(e, S) - e[x]
  BY SumDelete
<1>4. SumOver(f, R) = SumOver(e, R)
  BY <1>1, SumCongruence
<1>5. SumOver(e, S) \in Int /\ SumOver(f, S) \in Int
  BY SumType
<1> QED BY <1>2, <1>3, <1>4, <1>5

\* A sum of zeros.
LEMMA SumZero ==
  ASSUME NEW S, IsFiniteSet(S), NEW f, \A x \in S : f[x] = 0
  PROVE  SumOver(f, S) = 0
<1> DEFINE Q == {s \in SUBSET S : SumOver(f, s) = 0}
<1>0. \A s \in SUBSET S : IsFiniteSet(s) /\ \A x \in s : f[x] \in Int /\ f[x] = 0
  BY FS_Subset
<1>1. ASSUME NEW s \in SUBSET S, \A x \in s : \A t \in SUBSET (s \ {x}) : t \in Q
      PROVE  SumOver(f, s) = 0
  <2>1. CASE s = {}
    BY <1>0, <2>1, SumType
  <2>2. CASE s # {}
    <3>1. PICK x \in s : TRUE
      BY <2>2
    <3>2. s \ {x} \in Q
      BY <1>1, <3>1
    <3>3. SumOver(f, s \ {x}) = SumOver(f, s) - f[x] /\ SumOver(f, s) \in Int /\ f[x] = 0
      BY <1>0, SumDelete, SumType
    <3>4. SumOver(f, s \ {x}) = 0
      BY <3>2
    <3> QED BY <3>3, <3>4
  <2> QED BY <2>1, <2>2
<1>2. \A s \in SUBSET S :
        (\A x \in s : \A t \in SUBSET (s \ {x}) : t \in Q) => s \in Q
  BY <1>1
<1> HIDE DEF Q
<1>3. S \in Q
  BY <1>2, SubsetInduction
<1> QED BY <1>3 DEF Q

\* The sum over a sequence with one element more.
LEMMA SumNext ==
  ASSUME NEW n \in Nat, NEW f, \A i \in 1 .. n + 1 : f[i] \in Int
  PROVE  SumOver(f, 1 .. n + 1) = SumOver(f, 1 .. n) + f[n + 1]
<1>1. PICK R, y : R = 1 .. n /\ y = n + 1
  OBVIOUS
<1>2. IsFiniteSet(1 .. n)
  BY FS_Interval
<1>3. y \notin R /\ R \cup {y} = 1 .. n + 1
  BY <1>1
<1>4. IsFiniteSet(R) /\ \A i \in R \cup {y} : f[i] \in Int
  BY <1>1, <1>2, <1>3
<1>5. SumOver(f, R \cup {y}) = SumOver(f, R) + f[y]
  BY ONLY <1>3, <1>4, SumInsert
<1> QED BY <1>1, <1>3, <1>5

\* The first n values of e are those of f from place m on.
Continues(f, m, e, n) == \A i \in 1 .. n : e[i] = f[m + i]

\* The sum over a sequence that is made of two.
LEMMA SumConcat ==
  ASSUME NEW m \in Nat, NEW n \in Nat, NEW l, l = m + n,
         NEW f, \A i \in 1 .. l : f[i] \in Int, NEW e, Continues(f, m, e, n)
  PROVE  SumOver(f, 1 .. l) = SumOver(f, 1 .. m) + SumOver(e, 1 .. n)
<1> DEFINE Splits(k) == SumOver(f, 1 .. m + k) = SumOver(f, 1 .. m) + SumOver(e, 1 .. k)
           Missing == {k \in 0 .. n : ~Splits(k)}
<1>0. /\ \A k \in Nat : IsFiniteSet(1 .. k)
      /\ \A i \in 1 .. n : e[i] = f[m + i]
  BY FS_Interval DEF Continues
<1>1. SumOver(f, 1 .. m) \in Int
  BY <1>0, SumType
<1>2. Splits(0)
  <2>1. 1 .. 0 = {} /\ IsFiniteSet({}) /\ m + 0 = m
    BY FS_EmptySet
  <2>2. SumOver(e, {}) = 0
    BY <2>1, SumType
  <2> QED BY <1>1, <2>1, <2>2
<1>3. ASSUME NEW k \in 0 .. n - 1, Splits(k) PROVE Splits(k + 1)
  <2>1. /\ 1 .. m + (k + 1) = 1 .. (m + k) \cup {m + (k + 1)} /\ m + (k + 1) \notin 1 .. (m + k)
        /\ 1 .. k + 1 = 1 .. k \cup {k + 1} /\ k + 1 \notin 1 .. k
        /\ m + k \in Nat /\ k \in Nat
    OBVIOUS
  <2>2. f[m + (k + 1)] \in Int /\ e[k + 1] = f[m + (k + 1)]
        /\ (\A i \in 1 .. (m + k) : f[i] \in Int) /\ (\A i \in 1 .. k : e[i] \in Int)
    <3>1. /\ m + (k + 1) \in 1 .. m + n /\ k + 1 \in 1 .. n
          /\ \A i \in 1 .. (m + k) : i \in 1 .. m + n
          /\ \A i \in 1 .. k : i \in 1 .. n /\ m + i \in 1 .. m + n
      OBVIOUS
    <3> HIDE DEF Splits
    <3> QED BY <1>0, <3>1
  <2>3. (\A i \in 1 .. (m + k) + 1 : f[i] \in Int) /\ (\A i \in 1 .. k + 1 : e[i] \in Int)
    BY <2>1, <2>2
  <2>4. SumOver(f, 1 .. m + (k + 1)) = SumOver(f, 1 .. (m + k)) + f[m + (k + 1)]
    <3>1. SumOver(f, 1 .. ((m + k) + 1)) = SumOver(f, 1 .. (m + k)) + f[(m + k) + 1]
      BY <2>1, <2>3, SumNext
    <3> QED BY <3>1
  <2>5. SumOver(e, 1 .. k + 1) = SumOver(e, 1 .. k) + e[k + 1]
    BY <2>1, <2>3, SumNext
  <2>6. SumOver(e, 1 .. k) \in Int
    BY <1>0, <2>1, <2>2, SumType
  <2> QED BY <1>1, <1>3, <2>2, <2>4, <2>5, <2>6
<1>4. Missing = {}
  <2> SUFFICES ASSUME Missing # {} PROVE FALSE
    OBVIOUS
  <2> HIDE DEF Splits
  <2>1. PICK k \in Missing : \A j \in Missing : k <= j
    <3>1. Missing \in SUBSET Nat
      OBVIOUS
    <3> HIDE DEF Missing
    <3> QED BY <3>1, LeastNumber
  <2>2. k \in 0 .. n /\ ~Splits(k)
    BY <2>1
  <2>3. k # 0
    BY <1>2, <2>2
  <2>4. k - 1 \in 0 .. n - 1 /\ k - 1 \notin Missing
    BY <2>1, <2>2, <2>3
  <2>5. Splits(k - 1)
    BY <2>2, <2>4
  <2>6. Splits((k - 1) + 1)
    BY <1>3, <2>4, <2>5
  <2> QED BY <2>2, <2>6
<1>5. Splits(n)
  <2> HIDE DEF Splits
  <2> QED BY <1>4
<1> QED BY <1>5
\* A sum of ones.
LEMMA SumOnes ==
  ASSUME NEW S, IsFiniteSet(S), NEW f, \A x \in S : f[x] = 1
  PROVE  SumOver(f, S) = Cardinality(S)
<1> DEFINE Q == {s \in SUBSET S : SumOver(f, s) = Cardinality(s)}
<1>0. \A s \in SUBSET S : IsFiniteSet(s) /\ \A x \in s : f[x] \in Int /\ f[x] = 1
  BY FS_Subset
<1>1. ASSUME NEW s \in SUBSET S, \A x \in s : \A t \in SUBSET (s \ {x}) : t \in Q
      PROVE  SumOver(f, s) = Cardinality(s)
  <2>1. CASE s = {}
    <3>1. SumOver(f, s) = 0
      BY <1>0, <2>1, SumType
    <3>2. Cardinality(s) = 0
      BY <2>1, FS_EmptySet
    <3> QED BY <3>1, <3>2
  <2>2. CASE s # {}
    <3>1. PICK x \in s : TRUE
      BY <2>2
    <3>2. s \ {x} \in Q
      BY <1>1, <3>1
    <3>3. SumOver(f, s \ {x}) = SumOver(f, s) - f[x] /\ SumOver(f, s) \in Int /\ f[x] = 1
      BY <1>0, SumDelete, SumType
    <3>4. Cardinality(s \ {x}) = Cardinality(s) - 1 /\ Cardinality(s) \in Int
      <4>1. IsFiniteSet(s)
        BY <1>0
      <4>2. Cardinality(s) \in Nat
        BY ONLY <4>1, FS_CardinalityType
      <4>3. Cardinality(s \ {x}) = IF x \in s THEN Cardinality(s) - 1 ELSE Cardinality(s)
        BY ONLY <4>1, FS_RemoveElement
      <4> QED BY <3>1, <4>2, <4>3
    <3>5. SumOver(f, s \ {x}) = Cardinality(s \ {x})
      BY <3>2
    <3> QED BY <3>3, <3>4, <3>5
  <2> QED BY <2>1, <2>2
<1>2. \A s \in SUBSET S :
        (\A x \in s : \A t \in SUBSET (s \ {x}) : t \in Q) => s \in Q
  BY <1>1
<1> HIDE DEF Q
<1>3. S \in Q
  BY <1>2, SubsetInduction
<1> QED BY <1>3 DEF Q

\* A sum of larger values is larger.
LEMMA SumMonotone ==
  ASSUME NEW S, IsFiniteSet(S), NEW f, NEW e,
         \A x \in S : f[x] \in Int /\ e[x] \in Int /\ f[x] <= e[x]
  PROVE  SumOver(f, S) <= SumOver(e, S)
<1> DEFINE Q == {s \in SUBSET S : SumOver(f, s) <= SumOver(e, s)}
<1>0. \A s \in SUBSET S :
        IsFiniteSet(s) /\ \A x \in s : f[x] \in Int /\ e[x] \in Int /\ f[x] <= e[x]
  BY FS_Subset
<1>1. ASSUME NEW s \in SUBSET S, \A x \in s : \A t \in SUBSET (s \ {x}) : t \in Q
      PROVE  SumOver(f, s) <= SumOver(e, s)
  <2>1. CASE s = {}
    <3>1. SumOver(f, s) = 0 /\ SumOver(e, s) = 0
      BY <1>0, <2>1, SumType
    <3> QED BY <3>1
  <2>2. CASE s # {}
    <3>1. PICK x \in s : TRUE
      BY <2>2
    <3>2. s \ {x} \in Q
      BY <1>1, <3>1
    <3>3. SumOver(f, s \ {x}) = SumOver(f, s) - f[x] /\ SumOver(f, s) \in Int /\ f[x] \in Int
      BY <1>0, SumDelete, SumType
    <3>4. SumOver(e, s \ {x}) = SumOver(e, s) - e[x] /\ SumOver(e, s) \in Int /\ e[x] \in Int
      BY <1>0, SumDelete, SumType
    <3>5. SumOver(f, s \ {x}) <= SumOver(e, s \ {x}) /\ f[x] <= e[x]
      BY <1>0, <3>2
    <3> QED BY <3>3, <3>4, <3>5
  <2> QED BY <2>1, <2>2
<1>2. \A s \in SUBSET S :
        (\A x \in s : \A t \in SUBSET (s \ {x}) : t \in Q) => s \in Q
  BY <1>1
<1> HIDE DEF Q
<1>3. S \in Q
  BY <1>2, SubsetInduction
<1> QED BY <1>3 DEF Q

\* One value grows by d at least and none of the others falls.
LEMMA SumRaise ==
  ASSUME NEW S, IsFiniteSet(S), NEW x \in S, NEW f, NEW e, NEW d \in Int,
         \A y \in S : f[y] \in Int /\ e[y] \in Int,
         \A y \in S \ {x} : f[y] <= e[y], f[x] + d <= e[x]
  PROVE  SumOver(f, S) + d <= SumOver(e, S)
<1>1. PICK R : R = S \ {x}
  OBVIOUS
<1>2. IsFiniteSet(R) /\ \A y \in R : f[y] \in Int /\ e[y] \in Int /\ f[y] <= e[y]
  BY <1>1, FS_RemoveElement
<1>3. SumOver(f, R) <= SumOver(e, R)
  BY <1>2, SumMonotone
<1>4. SumOver(f, R) = SumOver(f, S) - f[x] /\ SumOver(e, R) = SumOver(e, S) - e[x]
  BY <1>1, SumDelete
<1>5. {SumOver(f, S), SumOver(e, S), f[x], e[x]} \subseteq Int
  BY SumType
<1> QED BY <1>3, <1>4, <1>5

\* The values of a function on a finite set are bounded, and a set of numbers
\* with a bound has a greatest.
LEMMA FiniteBound ==
  ASSUME NEW S, IsFiniteSet(S), NEW f, \A x \in S : f[x] \in Nat
  PROVE  \E n \in Nat : \A x \in S : f[x] <= n
<1> DEFINE Q == {s \in SUBSET S : \E n \in Nat : \A x \in s : f[x] <= n}
<1>1. ASSUME NEW s \in SUBSET S, \A x \in s : \A t \in SUBSET (s \ {x}) : t \in Q
      PROVE  \E n \in Nat : \A x \in s : f[x] <= n
  <2>1. CASE s = {}
    <3> WITNESS 0 \in Nat
    <3> QED BY <2>1
  <2>2. CASE s # {}
    <3>1. PICK x \in s : TRUE
      BY <2>2
    <3>2. s \ {x} \in Q
      BY <1>1, <3>1
    <3>3. PICK m \in Nat : \A y \in s \ {x} : f[y] <= m
      BY <3>2
    <3>4. PICK n : n = m + f[x]
      OBVIOUS
    <3>5. n \in Nat /\ \A y \in s : f[y] <= n
      BY <3>1, <3>3, <3>4
    <3> QED BY <3>5
  <2> QED BY <2>1, <2>2
<1>2. \A s \in SUBSET S :
        (\A x \in s : \A t \in SUBSET (s \ {x}) : t \in Q) => s \in Q
  BY <1>1
<1> HIDE DEF Q
<1>3. S \in Q
  BY <1>2, SubsetInduction
<1> QED BY <1>3 DEF Q

LEMMA GreatestNumber ==
  ASSUME NEW T \in SUBSET Nat, T # {}, NEW n \in Nat, \A m \in T : m <= n
  PROVE  \E g \in T : \A m \in T : g >= m
<1> DEFINE U == {b \in Nat : \A m \in T : m <= b}
<1>1. PICK b \in U : \A m \in U : b <= m
  <2>1. U \in SUBSET Nat /\ n \in U
    OBVIOUS
  <2> HIDE DEF U
  <2> QED BY <2>1, LeastNumber
<1>2. b \in T
  <2> SUFFICES ASSUME b \notin T PROVE FALSE
    OBVIOUS
  <2>1. PICK t \in T : TRUE
    OBVIOUS
  <2>2. b - 1 \in U
    BY <2>1
  <2> QED BY <1>1, <2>2
<1> QED BY <1>2
=============================================================================
