----------------------------- MODULE FoldLemmas -----------------------------
(***************************************************************************)
(* Folds over finite sets.  The community modules define a fold by a       *)
(* recursive function, that is by a CHOOSE, which says nothing until such  *)
(* a function is shown to exist.  It does for every finite set, by         *)
(* induction over its subsets: a set of counterexamples would have a least *)
(* element.  Then sums over a set, filters of a sequence, and how often a  *)
(* sequence meets a set.                                                   *)
(***************************************************************************)
EXTENDS Integers, FiniteSets, FiniteSetsExt, FiniteSetTheorems, SequencesExt,
        SequenceTheorems, TLAPS

(* Among some subsets of a finite set there is one that holds no other. *)
LEMMA LeastSubset ==
  ASSUME NEW S, IsFiniteSet(S), NEW bad \in SUBSET (SUBSET S), bad # {}
  PROVE  \E t \in bad : \A u \in bad : ~(u \subseteq t /\ u # t)
<1>1. FiniteSubsetsOf(S) = SUBSET S
  BY FS_FiniteSubsetsOfFinite
<1>2. IsWellFoundedOn(StrictSubsetOrdering(S), SUBSET S)
  BY <1>1, FS_StrictSubsetOrderingWellFounded
<1>3. PICK t \in bad : \A u \in bad : ~(<<u, t>> \in StrictSubsetOrdering(S))
  BY <1>2, WFMin
<1>4. QED
  BY <1>3 DEF StrictSubsetOrdering

(* Induction over the subsets of a finite set, from which pick takes one    *)
(* element at a time: good is the set of those for which the claim holds.   *)
LEMMA PickInduction ==
  ASSUME NEW S, IsFiniteSet(S), NEW good,
         NEW pick, \A s \in SUBSET S : s # {} => pick[s] \in s,
         {} \in good,
         \A s \in SUBSET S : s # {} /\ s \ {pick[s]} \in good => s \in good
  PROVE  \A s \in SUBSET S : s \in good
<1> SUFFICES ASSUME (SUBSET S) \ good # {} PROVE FALSE
  OBVIOUS
<1>1. PICK t \in (SUBSET S) \ good :
        \A u \in (SUBSET S) \ good : ~(u \subseteq t /\ u # t)
  <2> DEFINE bad == (SUBSET S) \ good
  <2>1. bad \in SUBSET (SUBSET S) /\ bad # {}
    OBVIOUS
  <2> HIDE DEF bad
  <2>2. \E t \in bad : \A u \in bad : ~(u \subseteq t /\ u # t)
    BY <2>1, LeastSubset
  <2>3. QED
    BY <2>2 DEF bad
<1>2. t # {} /\ pick[t] \in t
  BY <1>1
<1>3. /\ t \ {pick[t]} \in SUBSET S
      /\ t \ {pick[t]} \subseteq t /\ t \ {pick[t]} # t
  BY <1>1, <1>2
<1>4. QED
  BY <1>1, <1>2, <1>3

(* Induction over the numbers up to a bound. *)
LEMMA IntervalInduction ==
  ASSUME NEW n \in Nat, NEW good,
         0 \in good,
         \A i \in 1 .. n : i - 1 \in good => i \in good
  PROVE  \A i \in 0 .. n : i \in good
<1> DEFINE below == 1 .. n
           bad == {1 .. i : i \in (0 .. n) \ good}
<1> SUFFICES ASSUME (0 .. n) \ good # {} PROVE FALSE
  OBVIOUS
<1>1. IsFiniteSet(below)
  BY FS_Interval
<1>2. bad \in SUBSET (SUBSET below) /\ bad # {}
  OBVIOUS
<1>3. PICK t \in bad : \A u \in bad : ~(u \subseteq t /\ u # t)
  <2> HIDE DEF bad, below
  <2>1. QED
    BY <1>1, <1>2, LeastSubset
<1>4. PICK i \in (0 .. n) \ good : t = 1 .. i
  BY <1>3
<1>5. i \in 1 .. n /\ i - 1 \in (0 .. n) \ good
  BY <1>4
<1>6. 1 .. (i - 1) \in bad
  BY <1>5
<1>7. 1 .. (i - 1) \subseteq 1 .. i /\ i \in 1 .. i /\ i \notin 1 .. (i - 1)
  BY <1>5
<1>8. QED
  BY <1>3, <1>4, <1>6, <1>7

-----------------------------------------------------------------------------
(* A fold over the subsets of S: pick says which element of a set is taken, *)
(* step what it does to the fold of the others.                             *)
IsFold(it, S, base, step, pick) ==
  it = [s \in SUBSET S |-> IF s = {} THEN base ELSE step[pick[s]][it[s \ {pick[s]}]]]

FoldAssumption(S, A, base, step, pick) ==
  /\ IsFiniteSet(S)
  /\ base \in A
  /\ \A x \in S, a \in A : step[x][a] \in A
  /\ \A s \in SUBSET S : s # {} => pick[s] \in s

(* There is a fold: it is built up from the smaller sets to the larger.     *)
LEMMA FoldExists ==
  ASSUME NEW S, NEW A, NEW base, NEW step, NEW pick, FoldAssumption(S, A, base, step, pick)
  PROVE  \E it : IsFold(it, S, base, step, pick)
<1> DEFINE next(it, s) == IF s = {} THEN base ELSE step[pick[s]][it[s \ {pick[s]}]]
           size == Cardinality(S)
           good == {n \in 0 .. size : \E it \in [SUBSET S -> A] :
                      \A s \in SUBSET S : Cardinality(s) <= n => it[s] = next(it, s)}
<1>1. /\ size \in Nat
      /\ \A s \in SUBSET S : IsFiniteSet(s) /\ Cardinality(s) \in 0 .. size
  <2>1. IsFiniteSet(S)
    BY DEF FoldAssumption
  <2>2. \A s \in SUBSET S : /\ IsFiniteSet(s) /\ Cardinality(s) <= Cardinality(S)
                            /\ Cardinality(s) \in Nat
    BY <2>1, FS_Subset, FS_CardinalityType
  <2>3. QED
    BY <2>1, <2>2, FS_CardinalityType
<1>2. \A s \in SUBSET S : s # {} =>
        /\ pick[s] \in s /\ s \ {pick[s]} \in SUBSET S
        /\ Cardinality(s \ {pick[s]}) = Cardinality(s) - 1
  BY <1>1, FS_RemoveElement DEF FoldAssumption
<1>3. \A s \in SUBSET S : Cardinality(s) = 0 <=> s = {}
  BY <1>1, FS_EmptySet
<1>4. 0 \in good
  <2>1. [s \in SUBSET S |-> base] \in [SUBSET S -> A]
    BY DEF FoldAssumption
  <2>2. \A s \in SUBSET S : Cardinality(s) <= 0 =>
          [u \in SUBSET S |-> base][s] = next([u \in SUBSET S |-> base], s)
    BY <1>1, <1>3
  <2>3. 0 \in 0 .. size
    BY <1>1
  <2> HIDE DEF next, size
  <2>4. QED
    BY <2>1, <2>2, <2>3
<1>5. ASSUME NEW n \in 1 .. size, n - 1 \in good
      PROVE  n \in good
  <2>1. PICK old \in [SUBSET S -> A] :
          \A s \in SUBSET S : Cardinality(s) <= n - 1 => old[s] = next(old, s)
    BY <1>5
  <2> DEFINE new == [s \in SUBSET S |-> IF Cardinality(s) <= n - 1 THEN old[s] ELSE next(old, s)]
  <2>2. \A s \in SUBSET S : next(old, s) \in A
    BY <1>2 DEF FoldAssumption
  <2>3. new \in [SUBSET S -> A]
    BY <2>2
  <2>4. ASSUME NEW s \in SUBSET S, Cardinality(s) <= n
        PROVE  new[s] = next(new, s)
    <3>1. CASE s = {}
      BY <1>1, <1>3, <2>1, <3>1
    <3>2. CASE s # {}
      <4>1. new[s \ {pick[s]}] = old[s \ {pick[s]}]
        BY <1>1, <1>2, <2>4, <3>2
      <4>2. next(new, s) = next(old, s)
        BY <3>2, <4>1
      <4>3. new[s] = next(old, s)
        BY <2>1
      <4>4. QED
        BY <4>2, <4>3
    <3>3. QED
      BY <3>1, <3>2
  <2> HIDE DEF new, next, size
  <2>5. QED
    BY <1>1, <2>3, <2>4
<1>6. \A n \in 0 .. size : n \in good
  <2> HIDE DEF good, size
  <2>1. QED
    BY <1>1, <1>4, <1>5, IntervalInduction
<1>7. size \in good
  BY <1>1, <1>6
<1>8. PICK it \in [SUBSET S -> A] : \A s \in SUBSET S : it[s] = next(it, s)
  <2>1. \A s \in SUBSET S : Cardinality(s) <= size
    BY <1>1
  <2> HIDE DEF next, size
  <2>2. PICK it \in [SUBSET S -> A] :
          \A s \in SUBSET S : Cardinality(s) <= size => it[s] = next(it, s)
    BY <1>7
  <2>3. QED
    BY <2>1, <2>2
<1>9. it = [s \in SUBSET S |-> next(it, s)]
  <2> HIDE DEF next
  <2>1. QED
    BY <1>8
<1>10. IsFold(it, S, base, step, pick)
  BY <1>9 DEF IsFold
<1>11. QED
  BY <1>10

(* What a fold yields stays where base and step are. *)
LEMMA FoldTyped ==
  ASSUME NEW S, NEW A, NEW base, NEW step, NEW pick, FoldAssumption(S, A, base, step, pick),
         NEW it, IsFold(it, S, base, step, pick)
  PROVE  /\ it \in [SUBSET S -> A]
         /\ it[{}] = base
         /\ \A s \in SUBSET S : s # {} => it[s] = step[pick[s]][it[s \ {pick[s]}]]
<1>1. /\ it[{}] = base
      /\ \A s \in SUBSET S : s # {} => it[s] = step[pick[s]][it[s \ {pick[s]}]]
  BY DEF IsFold
<1> DEFINE good == {s \in SUBSET S : it[s] \in A}
<1>2. {} \in good
  BY <1>1 DEF FoldAssumption
<1>3. ASSUME NEW s \in SUBSET S, s # {}, s \ {pick[s]} \in good
      PROVE  s \in good
  BY <1>1, <1>3, ZenonT(30) DEF FoldAssumption
<1>4. \A s \in SUBSET S : s \in good
  <2> HIDE DEF good
  <2>1. QED
    BY <1>2, <1>3, PickInduction DEF FoldAssumption
<1>5. QED
  BY <1>1, <1>4 DEF IsFold

-----------------------------------------------------------------------------
(* The sum of f over a set, as MapThenSumSet has it. *)
SumOf(f, S) == MapThenSumSet(LAMBDA x : f[x], S)

Pick(s) == CHOOSE x \in s : TRUE

(* The sum over a finite set is built up by taking one element after the    *)
(* other.                                                                   *)
LEMMA SumFold ==
  ASSUME NEW S, IsFiniteSet(S), NEW f \in [S -> Int]
  PROVE  \E it \in [SUBSET S -> Int] :
           /\ it[{}] = 0
           /\ \A s \in SUBSET S : s # {} => it[s] = f[Pick(s)] + it[s \ {Pick(s)}]
           /\ it[S] = SumOf(f, S)
<1> DEFINE pick == [s \in SUBSET S |-> Pick(s)]
           step == [x \in S |-> [a \in Int |-> f[x] + a]]
           Sums(it) == it = [s \in SUBSET S |-> IF s = {} THEN 0
                                                ELSE f[Pick(s)] + it[s \ {Pick(s)}]]
<1>1. \A s \in SUBSET S : s # {} => Pick(s) \in s /\ pick[s] = Pick(s)
  BY DEF Pick
<1>2. FoldAssumption(S, Int, 0, step, pick)
  <2>1. \A x \in S, a \in Int : step[x][a] = f[x] + a
    OBVIOUS
  <2>2. \A x \in S : f[x] \in Int
    OBVIOUS
  <2>3. \A s \in SUBSET S : s # {} => pick[s] \in s
    BY <1>1
  <2> HIDE DEF step, pick
  <2>4. \A x \in S, a \in Int : step[x][a] \in Int
    BY <2>1, <2>2
  <2>5. QED
    BY <2>3, <2>4 DEF FoldAssumption
<1>3. \E it : Sums(it)
  <2>1. PICK it : IsFold(it, S, 0, step, pick)
    <3> HIDE DEF pick, step
    <3>1. QED
      BY <1>2, FoldExists
  <2>2. it \in [SUBSET S -> Int]
    <3> HIDE DEF pick, step
    <3>1. QED
      BY <1>2, <2>1, FoldTyped
  <2>3. \A s \in SUBSET S : s # {} =>
          step[pick[s]][it[s \ {pick[s]}]] = f[Pick(s)] + it[s \ {Pick(s)}]
    BY <1>1, <2>2
  <2>4. \A s \in SUBSET S :
          (IF s = {} THEN 0 ELSE step[pick[s]][it[s \ {pick[s]}]])
            = (IF s = {} THEN 0 ELSE f[Pick(s)] + it[s \ {Pick(s)}])
    BY <2>3
  <2> HIDE DEF pick, step
  <2>5. Sums(it)
    BY <2>1, <2>4 DEF IsFold
  <2>6. QED
    BY <2>5
<1> DEFINE sums == CHOOSE it : Sums(it)
<1>4. Sums(sums)
  <2> HIDE DEF Sums
  <2>1. QED
    BY <1>3
<1>5. SumOf(f, S) = sums[S]
  BY DEF SumOf, MapThenSumSet, MapThenFoldSet, Pick
<1> HIDE DEF sums
<1>6. /\ sums[{}] = 0
      /\ \A s \in SUBSET S : s # {} => sums[s] = f[Pick(s)] + sums[s \ {Pick(s)}]
  BY <1>4
<1> DEFINE good == {s \in SUBSET S : sums[s] \in Int}
<1>7. {} \in good
  BY <1>6
<1>8. ASSUME NEW s \in SUBSET S, s # {}, s \ {pick[s]} \in good
      PROVE  s \in good
  <2>1. Pick(s) \in S /\ sums[s] = f[Pick(s)] + sums[s \ {Pick(s)}]
    BY <1>1, <1>6, <1>8
  <2>2. f[Pick(s)] \in Int /\ sums[s \ {Pick(s)}] \in Int
    BY <1>1, <1>8, <2>1
  <2>3. QED
    BY <2>1, <2>2
<1>9. \A s \in SUBSET S : s \in good
  <2> HIDE DEF good
  <2>1. \A s \in SUBSET S : s # {} => pick[s] \in s
    BY <1>1
  <2> HIDE DEF pick
  <2>2. QED
    BY <1>7, <1>8, <2>1, PickInduction
<1>10. sums \in [SUBSET S -> Int]
  BY <1>4, <1>9
<1>11. QED
  BY <1>5, <1>6, <1>10

(* Changing one summand changes the sum by as much. *)
LEMMA SumExcept ==
  ASSUME NEW S, IsFiniteSet(S), NEW f \in [S -> Int], NEW y \in S, NEW v \in Int,
         NEW g \in [S -> Int], \A x \in S : g[x] = IF x = y THEN v ELSE f[x]
  PROVE  /\ SumOf(f, S) \in Int
         /\ SumOf(g, S) = SumOf(f, S) - f[y] + v
<1>1. g \in [S -> Int] /\ f[y] \in Int /\ \A x \in S : g[x] = IF x = y THEN v ELSE f[x]
  OBVIOUS
<1>2. PICK F \in [SUBSET S -> Int] :
        /\ F[{}] = 0
        /\ \A s \in SUBSET S : s # {} => F[s] = f[Pick(s)] + F[s \ {Pick(s)}]
        /\ F[S] = SumOf(f, S)
  BY SumFold
<1>3. PICK G \in [SUBSET S -> Int] :
        /\ G[{}] = 0
        /\ \A s \in SUBSET S : s # {} => G[s] = g[Pick(s)] + G[s \ {Pick(s)}]
        /\ G[S] = SumOf(g, S)
  BY <1>1, SumFold
<1> DEFINE more(s) == IF y \in s THEN v - f[y] ELSE 0
           good == {s \in SUBSET S : G[s] = F[s] + more(s)}
           pick == [s \in SUBSET S |-> Pick(s)]
<1>4. \A s \in SUBSET S : s # {} => pick[s] \in s /\ pick[s] = Pick(s)
  BY DEF Pick
<1>5. {} \in good
  BY <1>2, <1>3
<1>6. ASSUME NEW s \in SUBSET S, s # {}, s \ {pick[s]} \in good
      PROVE  s \in good
  <2> DEFINE x == Pick(s)
             rest == s \ {x}
  <2>1. x \in s /\ x \in S /\ rest \in SUBSET S /\ G[rest] = F[rest] + more(rest)
    BY <1>4, <1>6
  <2>2. F[s] = f[x] + F[rest] /\ G[s] = g[x] + G[rest]
    BY <1>2, <1>3, <1>6
  <2>3. y \in s <=> y = x \/ y \in rest
    BY <2>1
  <2>4. x \notin rest
    OBVIOUS
  <2>5. f[x] \in Int /\ F[rest] \in Int
    BY <2>1
  <2> HIDE DEF x, rest
  <2>6. G[s] = F[s] + more(s)
    <3>1. CASE y = x
      BY <1>1, <2>1, <2>2, <2>3, <2>4, <2>5, <3>1
    <3>2. CASE y # x
      BY <1>1, <2>1, <2>2, <2>3, <2>5, <3>2
    <3>3. QED
      BY <3>1, <3>2
  <2>7. QED
    BY <2>6
<1>7. \A s \in SUBSET S : s \in good
  <2> HIDE DEF good
  <2>1. \A s \in SUBSET S : s # {} => pick[s] \in s
    BY <1>4
  <2>2. \A s \in SUBSET S : s # {} /\ s \ {pick[s]} \in good => s \in good
    BY <1>6
  <2> HIDE DEF pick
  <2>3. QED
    BY ONLY <1>5, <2>1, <2>2, IsFiniteSet(S), PickInduction, SMTT(30)
<1>8. G[S] = F[S] + (v - f[y]) /\ F[S] \in Int
  BY <1>7
<1>9. QED
  BY <1>1, <1>2, <1>3, <1>8

(* Naturals sum to a natural, zeroes to zero. *)
LEMMA SumSigns ==
  ASSUME NEW S, IsFiniteSet(S), NEW f \in [S -> Nat]
  PROVE  /\ SumOf(f, S) \in Nat
         /\ (\A x \in S : f[x] = 0) => SumOf(f, S) = 0
<1>1. f \in [S -> Int]
  OBVIOUS
<1>2. PICK F \in [SUBSET S -> Int] :
        /\ F[{}] = 0
        /\ \A s \in SUBSET S : s # {} => F[s] = f[Pick(s)] + F[s \ {Pick(s)}]
        /\ F[S] = SumOf(f, S)
  BY <1>1, SumFold
<1> DEFINE good == {s \in SUBSET S : F[s] >= 0 /\ ((\A x \in S : f[x] = 0) => F[s] = 0)}
           pick == [s \in SUBSET S |-> Pick(s)]
<1>3. \A s \in SUBSET S : s # {} => pick[s] \in s /\ pick[s] = Pick(s)
  BY DEF Pick
<1>4. {} \in good
  BY <1>2
<1>5. ASSUME NEW s \in SUBSET S, s # {}, s \ {pick[s]} \in good
      PROVE  s \in good
  <2> DEFINE x == Pick(s)
  <2>1. x \in S /\ F[s] = f[x] + F[s \ {x}] /\ s \ {x} \in good
    BY <1>2, <1>3, <1>5
  <2>2. f[x] \in Nat /\ F[s \ {x}] \in Int
    BY <2>1
  <2> HIDE DEF x
  <2>3. QED
    BY <2>1, <2>2
<1>6. \A s \in SUBSET S : s \in good
  <2> HIDE DEF good
  <2>1. \A s \in SUBSET S : s # {} => pick[s] \in s
    BY <1>3
  <2> HIDE DEF pick
  <2>2. QED
    BY <1>4, <1>5, <2>1, PickInduction
<1>7. QED
  BY <1>2, <1>6

-----------------------------------------------------------------------------
(* A finite set of numbers has a greatest, unless it is empty. *)
LEMMA GreatestUpTo ==
  ASSUME NEW n \in Nat
  PROVE  /\ \A s \in SUBSET (1 .. n) : s # {} => Max(s) \in s /\ \A x \in s : x <= Max(s)
         /\ \A i \in 1 .. n : Max(1 .. i) = i
<1> DEFINE below(i) == 1 .. i
           HasGreatest(s) == \E m \in s : \A x \in s : m >= x
           good == {i \in 0 .. n : \A s \in SUBSET (1 .. i) : s # {} => HasGreatest(s)}
<1>1. 0 \in good
  <2>1. 1 .. 0 = {} /\ SUBSET {} = {{}}
    OBVIOUS
  <2> HIDE DEF HasGreatest
  <2>2. \A s \in SUBSET (1 .. 0) : s # {} => HasGreatest(s)
    BY <2>1
  <2>3. QED
    BY <2>2
<1>2. ASSUME NEW i \in 1 .. n, i - 1 \in good
      PROVE  i \in good
  <2>1. ASSUME NEW s \in SUBSET (1 .. i), s # {}
        PROVE  HasGreatest(s)
    <3>1. CASE i \in s
      BY <3>1
    <3>2. CASE i \notin s
      <4>1. s \in SUBSET (1 .. i - 1)
        BY <3>2
      <4>2. QED
        BY <1>2, <2>1, <4>1
    <3>3. QED
      BY <3>1, <3>2
  <2>2. QED
    BY <2>1
<1>3. \A i \in 0 .. n : i \in good
  <2> HIDE DEF good
  <2>1. QED
    BY <1>1, <1>2, IntervalInduction
<1>4. \A s \in SUBSET (1 .. n) : s # {} => HasGreatest(s)
  BY <1>3, SMTT(30)
<1>5. ASSUME NEW s \in SUBSET (1 .. n), s # {}
      PROVE  Max(s) \in s /\ \A x \in s : x <= Max(s)
  <2>1. \E m \in s : \A x \in s : m >= x
    BY <1>4, <1>5
  <2>2. Max(s) \in s /\ \A x \in s : Max(s) >= x
    BY <2>1 DEF Max
  <2>3. QED
    BY <2>2
<1>6. ASSUME NEW i \in 1 .. n
      PROVE  Max(1 .. i) = i
  <2> DEFINE s == 1 .. i
  <2>1. s \in SUBSET (1 .. n) /\ s # {} /\ i \in s /\ \A x \in s : x \in Int /\ x <= i
    OBVIOUS
  <2> HIDE DEF s
  <2>2. Max(s) \in s /\ \A x \in s : x <= Max(s)
    BY <1>5, <2>1
  <2>3. Max(s) \in Int /\ Max(s) <= i /\ i <= Max(s)
    BY <2>1, <2>2
  <2>4. Max(s) = i
    BY <2>3
  <2>5. QED
    BY <2>4 DEF s
<1>7. QED
  BY <1>5, <1>6

(* What is above a bound, in the order it comes in: the list comprehension. *)
FilterAbove(s, low) == FoldLeft(LAMBDA kept, t : IF t > low THEN Append(kept, t) ELSE kept, <<>>, s)

KeepAbove(kept, t, low) == IF t > low THEN Append(kept, t) ELSE kept

(* It is built up one element at a time. *)
LEMMA FilterByPrefix ==
  ASSUME NEW s \in Seq(Int), NEW low \in Int
  PROVE  \E g \in [0 .. Len(s) -> Seq(Int)] :
           /\ g[0] = <<>>
           /\ \A i \in 1 .. Len(s) : g[i] = KeepAbove(g[i - 1], s[i], low)
           /\ g[Len(s)] = FilterAbove(s, low)
<1> DEFINE n == Len(s)
           S == 1 .. n
           pick == [u \in SUBSET S |-> Max(u)]
           step == [i \in S |-> [a \in Seq(Int) |-> KeepAbove(a, s[i], low)]]
           Keeps(it) == it = [u \in SUBSET S |-> IF u = {} THEN <<>>
                                                 ELSE KeepAbove(it[u \ {Max(u)}], s[Max(u)], low)]
<1>1. n \in Nat /\ DOMAIN s = S /\ \A i \in S : s[i] \in Int
  OBVIOUS
<1>2. IsFiniteSet(S)
  BY <1>1, FS_Interval
<1>3. /\ \A u \in SUBSET S : u # {} => Max(u) \in u /\ pick[u] = Max(u) /\ pick[u] \in u
      /\ \A i \in S : Max(1 .. i) = i
  BY <1>1, GreatestUpTo
<1>4. \A x \in S, a \in Seq(Int) : KeepAbove(a, s[x], low) \in Seq(Int)
  BY <1>1 DEF KeepAbove
<1>5. FoldAssumption(S, Seq(Int), <<>>, step, pick)
  <2>1. \A x \in S, a \in Seq(Int) : step[x][a] \in Seq(Int)
    BY <1>4
  <2> HIDE DEF step, pick, S
  <2>2. QED
    BY <1>2, <1>3, <2>1 DEF FoldAssumption
<1>6. \E it : Keeps(it)
  <2>1. PICK it : IsFold(it, S, <<>>, step, pick)
    <3> HIDE DEF pick, step, S
    <3>1. QED
      BY <1>5, FoldExists
  <2>2. it \in [SUBSET S -> Seq(Int)]
    <3> HIDE DEF pick, step, S
    <3>1. QED
      BY <1>5, <2>1, FoldTyped
  <2>3. \A u \in SUBSET S : u # {} =>
          step[pick[u]][it[u \ {pick[u]}]] = KeepAbove(it[u \ {Max(u)}], s[Max(u)], low)
    <3>1. \A x \in S, a \in Seq(Int) : step[x][a] = KeepAbove(a, s[x], low)
      OBVIOUS
    <3> HIDE DEF step, pick, S
    <3>2. QED
      BY <1>3, <2>2, <3>1
  <2>4. \A u \in SUBSET S :
          (IF u = {} THEN <<>> ELSE step[pick[u]][it[u \ {pick[u]}]])
            = (IF u = {} THEN <<>> ELSE KeepAbove(it[u \ {Max(u)}], s[Max(u)], low))
    BY <2>3
  <2> HIDE DEF pick, step, S
  <2>5. Keeps(it)
    BY <2>1, <2>4 DEF IsFold
  <2>6. QED
    BY <2>5
<1> DEFINE all == CHOOSE it : Keeps(it)
<1>7. Keeps(all)
  <2> HIDE DEF Keeps
  <2>1. QED
    BY <1>6
<1>8. FilterAbove(s, low) = all[S]
  BY <1>1 DEF FilterAbove, FoldLeft, MapThenFoldSet, KeepAbove
<1> HIDE DEF all
<1>9. /\ all[{}] = <<>>
      /\ \A u \in SUBSET S : u # {} => all[u] = KeepAbove(all[u \ {Max(u)}], s[Max(u)], low)
  BY <1>7
<1> DEFINE g == [i \in 0 .. n |-> all[1 .. i]]
<1>10. g[0] = <<>> /\ g[n] = FilterAbove(s, low)
  <2>1. 1 .. 0 = {}
    OBVIOUS
  <2>2. QED
    BY <1>1, <1>8, <1>9, <2>1
<1>11. \A i \in 1 .. n : g[i] = KeepAbove(g[i - 1], s[i], low)
  <2> SUFFICES ASSUME NEW i \in 1 .. n PROVE g[i] = KeepAbove(g[i - 1], s[i], low)
    OBVIOUS
  <2>1. (1 .. i) \ {i} = 1 .. (i - 1) /\ 1 .. i \in SUBSET S /\ 1 .. i # {} /\ Max(1 .. i) = i
    <3>1. (1 .. i) \ {i} = 1 .. (i - 1) /\ 1 .. i # {}
      BY SMTT(30)
    <3>2. 1 .. i \in SUBSET S
      BY <1>1
    <3>3. Max(1 .. i) = i
      BY <1>3
    <3>4. QED
      BY <3>1, <3>2, <3>3
  <2>2. all[1 .. i] = KeepAbove(all[1 .. (i - 1)], s[i], low)
    <3> DEFINE u == 1 .. i
    <3> HIDE DEF u
    <3>1. all[u] = KeepAbove(all[u \ {Max(u)}], s[Max(u)], low)
      BY <1>9, <2>1 DEF u
    <3>2. QED
      BY <2>1, <3>1 DEF u
  <2>3. i \in 0 .. n /\ i - 1 \in 0 .. n
    BY <1>1
  <2>4. QED
    BY <2>2, <2>3
<1> HIDE DEF g
<1>12. \A i \in 0 .. n : g[i] \in Seq(Int)
  <2> DEFINE good == {i \in 0 .. n : g[i] \in Seq(Int)}
  <2>0. <<>> \in Seq(Int) /\ 0 \in 0 .. n
    BY <1>1
  <2>1. 0 \in good
    BY <1>10, <2>0
  <2>2. ASSUME NEW i \in 1 .. n, i - 1 \in good
        PROVE  i \in good
    <3>1. g[i - 1] \in Seq(Int) /\ i \in S /\ i \in 0 .. n
      BY <1>1, <2>2
    <3>2. KeepAbove(g[i - 1], s[i], low) \in Seq(Int)
      BY <1>4, <3>1
    <3>3. QED
      BY <1>11, <3>1, <3>2
  <2>3. \A i \in 0 .. n : i \in good
    <3> HIDE DEF good, n
    <3>1. QED
      BY <1>1, <2>1, <2>2, IntervalInduction
  <2>4. QED
    BY <2>3
<1>13. g \in [0 .. n -> Seq(Int)]
  BY <1>12 DEF g
<1>14. QED
  BY <1>10, <1>11, <1>13

-----------------------------------------------------------------------------
(* How often a sequence meets a set. *)
Places(s, P) == {i \in DOMAIN s : s[i] \in P}

CountIn(s, P) == Cardinality(Places(s, P))

(* 1 if x is in P. *)
One(x, P) == IF x \in P THEN 1 ELSE 0

(* The number of places is a number, 0 when there is none. *)
LEMMA CountType ==
  ASSUME NEW T, NEW s \in Seq(T), NEW P
  PROVE  /\ IsFiniteSet(Places(s, P)) /\ CountIn(s, P) \in Nat
         /\ CountIn(s, P) = 0 <=> \A i \in DOMAIN s : s[i] \notin P
         /\ CountIn(<<>>, P) = 0
<1> DEFINE below == 1 .. Len(s)
<1>1. DOMAIN s = below /\ Places(s, P) \in SUBSET below
  BY DEF Places
<1>2. IsFiniteSet(below)
  BY FS_Interval
<1> HIDE DEF below
<1>3. IsFiniteSet(Places(s, P))
  BY <1>1, <1>2, FS_Subset
<1>4. CountIn(s, P) \in Nat /\ (CountIn(s, P) = 0 <=> Places(s, P) = {})
  BY <1>3, FS_CardinalityType, FS_EmptySet DEF CountIn
<1>5. Places(s, P) = {} <=> \A i \in DOMAIN s : s[i] \notin P
  BY DEF Places
<1>6. Places(<<>>, P) = {}
  BY DEF Places
<1>7. QED
  BY <1>3, <1>4, <1>5, <1>6, FS_EmptySet DEF CountIn

(* One more element at the end counts if it is in the set. *)
LEMMA CountAppend ==
  ASSUME NEW T, NEW s \in Seq(T), NEW x \in T, NEW P
  PROVE  CountIn(Append(s, x), P) = CountIn(s, P) + One(x, P)
<1> DEFINE n == Len(s)
           more == Append(s, x)
<1>1. /\ n \in Nat /\ DOMAIN s = 1 .. n /\ DOMAIN more = 1 .. n + 1
      /\ \A i \in 1 .. n : more[i] = s[i]
      /\ more[n + 1] = x
  OBVIOUS
<1> HIDE DEF n, more
<1>2. IsFiniteSet(Places(s, P)) /\ CountIn(s, P) \in Nat /\ n + 1 \notin Places(s, P)
  BY <1>1, CountType, SMTT(30) DEF Places
<1>3. CASE x \in P
  <2>1. Places(more, P) = Places(s, P) \cup {n + 1}
    BY <1>1, <1>3 DEF Places
  <2>2. Cardinality(Places(s, P) \cup {n + 1}) = Cardinality(Places(s, P)) + 1
    BY <1>2, FS_AddElement
  <2>3. QED
    BY <1>3, <2>1, <2>2 DEF CountIn, One, more
<1>4. CASE x \notin P
  <2>1. Places(more, P) = Places(s, P)
    BY <1>1, <1>4 DEF Places
  <2>2. QED
    BY <1>2, <1>4, <2>1 DEF CountIn, One, more
<1>5. QED
  BY <1>3, <1>4

(* What two sequences hold together is what each holds: the places of the   *)
(* second move on by the length of the first.                               *)
LEMMA CountJoin ==
  ASSUME NEW T, NEW s \in Seq(T), NEW t \in Seq(T), NEW P
  PROVE  CountIn(s \o t, P) = CountIn(s, P) + CountIn(t, P)
<1> DEFINE n == Len(s)
           m == Len(t)
           more == s \o t
           later == {i + n : i \in Places(t, P)}
           shift == [i \in Places(t, P) |-> i + n]
<1>1. /\ n \in Nat /\ DOMAIN s = 1 .. n /\ m \in Nat /\ DOMAIN t = 1 .. m
      /\ DOMAIN more = 1 .. n + m
      /\ \A i \in 1 .. n : more[i] = s[i]
      /\ \A i \in 1 .. m : more[i + n] = t[i]
  OBVIOUS
<1> HIDE DEF n, m, more
<1>2. /\ IsFiniteSet(Places(s, P)) /\ CountIn(s, P) \in Nat /\ Places(s, P) \subseteq 1 .. n
      /\ IsFiniteSet(Places(t, P)) /\ CountIn(t, P) \in Nat /\ Places(t, P) \subseteq 1 .. m
  BY <1>1, CountType DEF Places
<1>3. IsFiniteSet(later) /\ Cardinality(later) = CountIn(t, P)
  <2>1. shift \in Bijection(Places(t, P), later)
    <3>1. shift \in [Places(t, P) -> later]
      OBVIOUS
    <3>2. \A a, b \in Places(t, P) : shift[a] = shift[b] => a = b
      BY <1>1, <1>2
    <3>3. \A u \in later : \E a \in Places(t, P) : shift[a] = u
      OBVIOUS
    <3> HIDE DEF shift, later
    <3>4. QED
      BY <3>1, <3>2, <3>3 DEF Bijection, Injection, Surjection, IsInjective
  <2> HIDE DEF shift, later
  <2>2. ExistsBijection(Places(t, P), later)
    BY <2>1 DEF ExistsBijection
  <2>3. QED
    BY <1>2, <2>2, FS_Bijection DEF CountIn
<1>4. ASSUME NEW i \in DOMAIN more
      PROVE  more[i] \in P <=> i \in Places(s, P) \cup later
  <2>1. CASE i <= n
    <3>1. i \in 1 .. n /\ more[i] = s[i] /\ i \notin later
      BY <1>1, <1>2, <2>1
    <3>2. QED
      BY <1>1, <3>1 DEF Places
  <2>2. CASE i > n
    <3>1. i - n \in 1 .. m /\ i = (i - n) + n /\ i \notin Places(s, P)
      BY <1>1, <1>2, <2>2
    <3>2. more[i] = t[i - n]
      BY <1>1, <3>1
    <3>3. i \in later <=> i - n \in Places(t, P)
      <4>1. \A j \in Places(t, P) : i = j + n => j = i - n
        BY <1>1, <1>2, <2>2
      <4>2. QED
        BY <3>1, <4>1
    <3>4. QED
      BY <1>1, <3>1, <3>2, <3>3 DEF Places
  <2>3. QED
    BY <1>1, <2>1, <2>2
<1>5. Places(s, P) \cup later \subseteq DOMAIN more /\ Places(s, P) \cap later = {}
  BY <1>1, <1>2
<1> HIDE DEF later
<1>6. Places(more, P) = Places(s, P) \cup later
  BY <1>4, <1>5 DEF Places
<1>7. Cardinality(Places(s, P) \cup later)
        = Cardinality(Places(s, P)) + Cardinality(later) - Cardinality(Places(s, P) \cap later)
  BY <1>2, <1>3, FS_Union
<1>8. Cardinality(Places(s, P) \cap later) = 0
  BY <1>5, FS_EmptySet
<1>9. QED
  BY <1>2, <1>3, <1>6, <1>7, <1>8 DEF CountIn, more

(* How often something is in a sequence of one. *)
LEMMA CountOfOne ==
  ASSUME NEW T, NEW x \in T, NEW P
  PROVE  CountIn(<<x>>, P) = One(x, P)
<1> DEFINE none == <<>>
<1>1. none \in Seq(T) /\ Append(none, x) = <<x>>
  OBVIOUS
<1>2. CountIn(none, P) = 0 /\ One(x, P) \in {0, 1}
  BY <1>1, CountType DEF One
<1> HIDE DEF none
<1>3. CountIn(Append(none, x), P) = CountIn(none, P) + One(x, P)
  BY <1>1, CountAppend
<1>4. QED
  BY <1>1, <1>2, <1>3

(* The first element counts if it is in the set. *)
LEMMA CountTail ==
  ASSUME NEW T, NEW s \in Seq(T), s # <<>>, NEW P
  PROVE  CountIn(s, P) = One(Head(s), P) + CountIn(Tail(s), P)
<1> DEFINE n == Len(s)
           top == <<Head(s)>>
           rest == Tail(s)
<1>1. /\ n \in Nat \ {0} /\ Len(s) = n /\ Head(s) = s[1] /\ Head(s) \in T
      /\ rest \in Seq(T) /\ Len(rest) = n - 1
      /\ \A i \in 1 .. n - 1 : rest[i] = s[i + 1]
  OBVIOUS
<1>2. top \in Seq(T) /\ Len(top) = 1 /\ top[1] = s[1]
  BY <1>1
<1>3. CountIn(top, P) = One(Head(s), P)
  <2>1. \A x \in T : CountIn(<<x>>, P) = One(x, P)
    BY CountOfOne
  <2>2. QED
    BY <1>1, <2>1
<1> HIDE DEF n, top, rest
<1>4. /\ top \o rest \in Seq(T) /\ Len(top \o rest) = 1 + (n - 1)
      /\ \A i \in 1 .. 1 + (n - 1) : (top \o rest)[i] = IF i <= 1 THEN top[i] ELSE rest[i - 1]
  <2>1. top \in Seq(T) /\ rest \in Seq(T)
    BY <1>1, <1>2
  <2>2. /\ top \o rest \in Seq(T) /\ Len(top \o rest) = Len(top) + Len(rest)
        /\ \A i \in 1 .. Len(top) + Len(rest) :
             (top \o rest)[i] = IF i <= Len(top) THEN top[i] ELSE rest[i - Len(top)]
    BY ONLY <2>1
  <2>3. QED
    BY <1>1, <1>2, <2>2
<1>5. ASSUME NEW i \in 1 .. n PROVE (top \o rest)[i] = s[i]
  <2>1. i \in 1 .. 1 + (n - 1)
    BY <1>1
  <2>2. CASE i = 1
    BY <1>2, <1>4, <2>1, <2>2
  <2>3. CASE i # 1
    <3>1. ~(i <= 1) /\ i - 1 \in 1 .. n - 1 /\ (i - 1) + 1 = i
      BY <1>1, <2>3
    <3>2. QED
      BY <1>1, <1>4, <2>1, <3>1
  <2>4. QED
    BY <2>2, <2>3
<1>6. top \o rest = s
  <2>1. Len(top \o rest) = n
    BY <1>1, <1>4
  <2>2. QED
    BY <1>1, <1>4, <1>5, <2>1, SeqEqual
<1>7. CountIn(top \o rest, P) = CountIn(top, P) + CountIn(rest, P)
  BY <1>1, <1>2, CountJoin
<1>8. QED
  BY <1>3, <1>6, <1>7 DEF rest

(* A sequence of two elements. *)
LEMMA CountOfTwo ==
  ASSUME NEW T, NEW s \in Seq(T), Len(s) = 2, NEW P
  PROVE  CountIn(s, P) = One(s[1], P) + One(s[2], P)
<1> DEFINE rest == Tail(s)
<1>1. /\ s # <<>> /\ Head(s) = s[1]
      /\ rest \in Seq(T) /\ rest # <<>> /\ Head(rest) = s[2] /\ Tail(rest) = <<>>
      /\ Tail(rest) \in Seq(T)
  <2>1. s # <<>> /\ Head(s) = s[1] /\ rest \in Seq(T) /\ Len(rest) = 1 /\ rest[1] = s[2]
    OBVIOUS
  <2> HIDE DEF rest
  <2>2. rest # <<>> /\ Head(rest) = s[2] /\ Tail(rest) \in Seq(T) /\ Len(Tail(rest)) = 0
    <3>1. rest # <<>>
      <4>1. Len(<<>>) = 0
        BY EmptySeq
      <4>2. QED
        BY <2>1, <4>1, SMTT(60)
    <3>2. Head(rest) = s[2] /\ Tail(rest) \in Seq(T) /\ Len(Tail(rest)) = Len(rest) - 1
      BY <2>1, <3>1
    <3>3. QED
      BY <2>1, <3>1, <3>2
  <2>3. Tail(rest) = <<>>
    BY <2>2, EmptySeq
  <2>4. QED
    BY <2>1, <2>2, <2>3
<1>2. CountIn(s, P) = One(s[1], P) + CountIn(rest, P)
  BY <1>1, CountTail
<1> HIDE DEF rest
<1>3. CountIn(rest, P) = One(s[2], P) + CountIn(Tail(rest), P)
  BY <1>1, CountTail
<1>4. CountIn(Tail(rest), P) = 0
  BY <1>1, CountType
<1>5. One(s[1], P) \in {0, 1} /\ One(s[2], P) \in {0, 1}
  BY DEF One
<1>6. QED
  BY <1>2, <1>3, <1>4, <1>5

(* The filter keeps what is above the bound, all of it and nothing else. *)
LEMMA FilterAboveKeeps ==
  ASSUME NEW s \in Seq(Int), NEW low \in Int
  PROVE  /\ FilterAbove(s, low) \in Seq(Int)
         /\ \A i \in DOMAIN FilterAbove(s, low) :
              /\ FilterAbove(s, low)[i] > low
              /\ \E j \in DOMAIN s : FilterAbove(s, low)[i] = s[j]
         /\ \A P \in SUBSET {x \in Int : x > low} :
              CountIn(FilterAbove(s, low), P) = CountIn(s, P)
<1> DEFINE n == Len(s)
           high == {x \in Int : x > low /\ \E j \in DOMAIN s : x = s[j]}
           pre(i) == SubSeq(s, 1, i)
<1>1. PICK g \in [0 .. n -> Seq(Int)] :
        /\ g[0] = <<>>
        /\ \A i \in 1 .. n : g[i] = KeepAbove(g[i - 1], s[i], low)
        /\ g[n] = FilterAbove(s, low)
  BY FilterByPrefix
<1>2. /\ n \in Nat /\ DOMAIN s = 1 .. n /\ \A i \in 1 .. n : s[i] \in Int
      /\ \A i \in 0 .. n : pre(i) \in Seq(Int)
      /\ pre(0) = <<>> /\ pre(n) = s
  <2>1. n \in Nat /\ DOMAIN s = 1 .. n /\ \A i \in 1 .. n : s[i] \in Int
    OBVIOUS
  <2>2. ASSUME NEW i \in 0 .. n
        PROVE  pre(i) \in Seq(Int)
    <3>1. \A j \in 1 .. i : s[j] \in Int
      BY <2>1
    <3>2. QED
      BY <3>1, SubSeqProperties
  <2>3. pre(0) = <<>> /\ pre(n) = s
    OBVIOUS
  <2>4. QED
    BY <2>1, <2>2, <2>3
<1>3. \A i \in 1 .. n : pre(i) = Append(pre(i - 1), s[i])
  <2> SUFFICES ASSUME NEW i \in 1 .. n PROVE pre(i) = Append(pre(i - 1), s[i])
    OBVIOUS
  <2>1. /\ Len(pre(i)) = i /\ \A j \in 1 .. i : pre(i)[j] = s[j]
        /\ Len(pre(i - 1)) = i - 1 /\ \A j \in 1 .. i - 1 : pre(i - 1)[j] = s[j]
        /\ pre(i) \in Seq(Int) /\ pre(i - 1) \in Seq(Int) /\ s[i] \in Int
    BY <1>2
  <2> DEFINE a == pre(i)
             b == pre(i - 1)
  <2> HIDE DEF pre, a, b
  <2>2. /\ Append(b, s[i]) \in Seq(Int) /\ Len(Append(b, s[i])) = i
        /\ \A j \in 1 .. i : Append(b, s[i])[j] = s[j]
    BY <2>1 DEF a, b
  <2>3. \A j \in 1 .. i : a[j] = Append(b, s[i])[j]
    BY <2>1, <2>2 DEF a
  <2>4. a = Append(b, s[i])
    BY <2>1, <2>2, <2>3 DEF a
  <2>5. QED
    BY <2>4 DEF a, b
<1> DEFINE Fits(i) == /\ g[i] \in Seq(high)
                      /\ \A P \in SUBSET {x \in Int : x > low} :
                           CountIn(g[i], P) = CountIn(pre(i), P)
           good == {i \in 0 .. n : Fits(i)}
<1>4. 0 \in good
  <2>1. <<>> \in Seq(high) /\ 0 \in 0 .. n
    BY <1>2
  <2> HIDE DEF pre, n
  <2>2. QED
    BY <1>1, <1>2, <2>1
<1>5. ASSUME NEW i \in 1 .. n, i - 1 \in good
      PROVE  i \in good
  <2>1. /\ i \in 0 .. n /\ i - 1 \in 0 .. n /\ Fits(i - 1)
        /\ s[i] \in Int /\ pre(i - 1) \in Seq(Int) /\ g[i - 1] \in Seq(Int)
    BY <1>2, <1>5
  <2>2. g[i] = (IF s[i] > low THEN Append(g[i - 1], s[i]) ELSE g[i - 1])
    BY <1>1 DEF KeepAbove
  <2>3. pre(i) = Append(pre(i - 1), s[i])
    BY <1>3
  <2> DEFINE before == g[i - 1]
             seen   == pre(i - 1)
             x      == s[i]
             after  == g[i]
             all    == pre(i)
  <2>4. s[i] > low => s[i] \in high
    BY <1>2, <2>1
  <2>5. /\ before \in Seq(high) /\ before \in Seq(Int) /\ seen \in Seq(Int) /\ x \in Int
        /\ \A P \in SUBSET {y \in Int : y > low} : CountIn(before, P) = CountIn(seen, P)
        /\ x > low => x \in high
        /\ after = (IF x > low THEN Append(before, x) ELSE before)
        /\ all = Append(seen, x)
    BY <2>1, <2>2, <2>3, <2>4
  <2> HIDE DEF before, seen, x, after, all, pre, high
  <2>6. after \in Seq(high)
    BY <2>5
  <2>7. ASSUME NEW P \in SUBSET {y \in Int : y > low}
        PROVE  CountIn(after, P) = CountIn(all, P)
    <3>1. CountIn(all, P) = CountIn(seen, P) + One(x, P)
      BY <2>5, CountAppend
    <3>2. CountIn(before, P) = CountIn(seen, P) /\ CountIn(seen, P) \in Nat
      BY <2>5, CountType
    <3>3. CASE x > low
      <4>1. CountIn(Append(before, x), P) = CountIn(before, P) + One(x, P)
        BY <2>5, CountAppend, ZenonT(30)
      <4>2. QED
        BY <2>5, <3>1, <3>2, <3>3, <4>1
    <3>4. CASE ~(x > low)
      BY <2>5, <3>1, <3>2, <3>4 DEF One
    <3>5. QED
      BY <3>3, <3>4
  <2>8. Fits(i)
    BY <2>6, <2>7 DEF after, all
  <2>9. QED
    BY <2>1, <2>8
<1>6. \A i \in 0 .. n : i \in good
  <2> HIDE DEF good, n
  <2>1. QED
    BY <1>2, <1>4, <1>5, IntervalInduction
<1>7. Fits(n)
  <2>1. n \in good
    <3>1. n \in 0 .. n
      BY <1>2
    <3> HIDE DEF good, n
    <3>2. QED
      BY <1>6, <3>1
  <2> HIDE DEF Fits
  <2>2. QED
    BY <2>1
<1> DEFINE f == FilterAbove(s, low)
<1>8. f \in Seq(high) /\ f \in Seq(Int)
      /\ \A P \in SUBSET {x \in Int : x > low} : CountIn(f, P) = CountIn(s, P)
  <2>1. n \in 0 .. n
    BY <1>2
  <2> HIDE DEF pre, high, n
  <2>2. QED
    BY <1>1, <1>2, <1>7, <2>1
<1> HIDE DEF f
<1>9. \A i \in DOMAIN f : f[i] \in high
  BY <1>8
<1>10. QED
  BY <1>8, <1>9 DEF f

-----------------------------------------------------------------------------
(* The total of a sequence of numbers. *)
TotalOf(s) == FoldLeft(LAMBDA sum, x : sum + x, 0, s)

(* It is built up one number at a time. *)
LEMMA TotalByPrefix ==
  ASSUME NEW s \in Seq(Nat)
  PROVE  \E g \in [0 .. Len(s) -> Nat] :
           /\ g[0] = 0
           /\ \A i \in 1 .. Len(s) : g[i] = g[i - 1] + s[i]
           /\ g[Len(s)] = TotalOf(s)
<1> DEFINE n == Len(s)
           S == 1 .. n
           pick == [u \in SUBSET S |-> Max(u)]
           step == [i \in S |-> [a \in Nat |-> a + s[i]]]
           Sums(it) == it = [u \in SUBSET S |-> IF u = {} THEN 0
                                                ELSE it[u \ {Max(u)}] + s[Max(u)]]
<1>1. n \in Nat /\ DOMAIN s = S /\ \A i \in S : s[i] \in Nat
  OBVIOUS
<1>2. IsFiniteSet(S)
  BY <1>1, FS_Interval
<1>3. /\ \A u \in SUBSET S : u # {} => Max(u) \in u /\ pick[u] = Max(u) /\ pick[u] \in u
      /\ \A i \in S : Max(1 .. i) = i
  BY <1>1, GreatestUpTo
<1>4. \A x \in S, a \in Nat : step[x][a] = a + s[x] /\ step[x][a] \in Nat
  BY <1>1
<1>5. FoldAssumption(S, Nat, 0, step, pick)
  <2> HIDE DEF step, pick, S
  <2>1. QED
    BY <1>2, <1>3, <1>4 DEF FoldAssumption
<1>6. \E it : Sums(it)
  <2>1. PICK it : IsFold(it, S, 0, step, pick)
    <3> HIDE DEF pick, step, S
    <3>1. QED
      BY <1>5, FoldExists
  <2>2. it \in [SUBSET S -> Nat]
    <3> HIDE DEF pick, step, S
    <3>1. QED
      BY <1>5, <2>1, FoldTyped
  <2>3. \A u \in SUBSET S : u # {} =>
          step[pick[u]][it[u \ {pick[u]}]] = it[u \ {Max(u)}] + s[Max(u)]
    <3> HIDE DEF pick, step, S
    <3>1. QED
      BY <1>3, <1>4, <2>2
  <2>4. \A u \in SUBSET S :
          (IF u = {} THEN 0 ELSE step[pick[u]][it[u \ {pick[u]}]])
            = (IF u = {} THEN 0 ELSE it[u \ {Max(u)}] + s[Max(u)])
    BY <2>3
  <2> HIDE DEF pick, step, S
  <2>5. Sums(it)
    BY <2>1, <2>4 DEF IsFold
  <2>6. QED
    BY <2>5
<1> DEFINE all == CHOOSE it : Sums(it)
<1>7. Sums(all)
  <2> HIDE DEF Sums
  <2>1. QED
    BY <1>6
<1>8. TotalOf(s) = all[S]
  BY <1>1 DEF TotalOf, FoldLeft, MapThenFoldSet
<1> HIDE DEF all
<1>9. /\ all[{}] = 0
      /\ \A u \in SUBSET S : u # {} => all[u] = all[u \ {Max(u)}] + s[Max(u)]
  BY <1>7
<1> DEFINE g == [i \in 0 .. n |-> all[1 .. i]]
<1>10. g[0] = 0 /\ g[n] = TotalOf(s)
  <2>1. 1 .. 0 = {}
    OBVIOUS
  <2>2. QED
    BY <1>1, <1>8, <1>9, <2>1
<1>11. \A i \in 1 .. n : g[i] = g[i - 1] + s[i]
  <2> SUFFICES ASSUME NEW i \in 1 .. n PROVE g[i] = g[i - 1] + s[i]
    OBVIOUS
  <2>1. (1 .. i) \ {i} = 1 .. (i - 1) /\ 1 .. i \in SUBSET S /\ 1 .. i # {} /\ Max(1 .. i) = i
    <3>1. (1 .. i) \ {i} = 1 .. (i - 1) /\ 1 .. i # {}
      <4>1. i \in Nat /\ i >= 1
        BY <1>1
      <4>2. \A x : x \in (1 .. i) \ {i} <=> x \in 1 .. (i - 1)
        BY ONLY <4>1
      <4>3. 1 \in 1 .. i
        BY <4>1
      <4>4. QED
        BY <4>2, <4>3, Zenon
    <3>2. 1 .. i \in SUBSET S
      BY <1>1
    <3>3. Max(1 .. i) = i
      BY <1>3
    <3>4. QED
      BY <3>1, <3>2, <3>3
  <2>2. all[1 .. i] = all[1 .. (i - 1)] + s[i]
    <3> DEFINE u == 1 .. i
    <3> HIDE DEF u
    <3>1. all[u] = all[u \ {Max(u)}] + s[Max(u)]
      BY <1>9, <2>1 DEF u
    <3>2. QED
      BY <2>1, <3>1 DEF u
  <2>3. i \in 0 .. n /\ i - 1 \in 0 .. n
    BY <1>1
  <2>4. QED
    BY <2>2, <2>3
<1> HIDE DEF g
<1>12. \A i \in 0 .. n : g[i] \in Nat
  <2> DEFINE good == {i \in 0 .. n : g[i] \in Nat}
  <2>1. 0 \in good
    BY <1>1, <1>10
  <2>2. ASSUME NEW i \in 1 .. n, i - 1 \in good
        PROVE  i \in good
    <3>1. g[i - 1] \in Nat /\ s[i] \in Nat /\ i \in 0 .. n
      BY <1>1, <2>2
    <3>2. QED
      BY <1>11, <3>1
  <2>3. \A i \in 0 .. n : i \in good
    <3> HIDE DEF good, n
    <3>1. QED
      BY <1>1, <2>1, <2>2, IntervalInduction
  <2>4. QED
    BY <2>3
<1>13. g \in [0 .. n -> Nat]
  BY <1>12 DEF g
<1>14. QED
  BY <1>10, <1>11, <1>13

(* The total of a sequence, and of one with no or one element. *)
LEMMA TotalType ==
  ASSUME NEW s \in Seq(Nat)
  PROVE  /\ TotalOf(s) \in Nat
         /\ Len(s) = 0 => TotalOf(s) = 0
         /\ Len(s) = 1 => TotalOf(s) = s[1]
<1>1. PICK g \in [0 .. Len(s) -> Nat] :
        /\ g[0] = 0
        /\ \A i \in 1 .. Len(s) : g[i] = g[i - 1] + s[i]
        /\ g[Len(s)] = TotalOf(s)
  BY TotalByPrefix
<1>2. Len(s) \in Nat /\ \A i \in 1 .. Len(s) : s[i] \in Nat
  OBVIOUS
<1>3. QED
  BY <1>1, <1>2

(* A longer sequence of greater numbers has a greater total, and greater by *)
(* as much as one of its numbers is.                                        *)
LEMMA TotalMonotone ==
  ASSUME NEW s \in Seq(Nat), NEW t \in Seq(Nat), Len(s) <= Len(t),
         \A i \in 1 .. Len(s) : s[i] <= t[i]
  PROVE  /\ TotalOf(s) <= TotalOf(t)
         /\ \A k \in 1 .. Len(s), d \in Nat : s[k] + d <= t[k] => TotalOf(s) + d <= TotalOf(t)
<1> DEFINE n == Len(s)
           m == Len(t)
<1>1. PICK g \in [0 .. n -> Nat] :
        /\ g[0] = 0
        /\ \A i \in 1 .. n : g[i] = g[i - 1] + s[i]
        /\ g[n] = TotalOf(s)
  BY TotalByPrefix
<1>2. PICK h \in [0 .. m -> Nat] :
        /\ h[0] = 0
        /\ \A i \in 1 .. m : h[i] = h[i - 1] + t[i]
        /\ h[m] = TotalOf(t)
  BY TotalByPrefix
<1>3. /\ n \in Nat /\ m \in Nat /\ n <= m
      /\ \A i \in 1 .. n : s[i] \in Nat
      /\ \A i \in 1 .. m : t[i] \in Nat
      /\ \A i \in 1 .. n : s[i] <= t[i]
  OBVIOUS
<1> HIDE DEF n, m
<1>0. \A u, v, w, x, y \in Nat :
        /\ u <= w /\ v + y <= x => (u + v) + y <= w + x
        /\ u + y <= w /\ v <= x => (u + v) + y <= w + x
  OBVIOUS
<1>4. ASSUME NEW k \in 0 .. n, NEW d \in Nat, k > 0 => s[k] + d <= t[k]
      PROVE  TotalOf(s) + (IF k > 0 THEN d ELSE 0) <= TotalOf(t)
  <2> DEFINE more(i) == IF 0 < k /\ k <= i THEN d ELSE 0
             low(i) == IF i <= n THEN g[i] ELSE g[n]
             good == {i \in 0 .. m : low(i) + more(i) <= h[i]}
  <2>1. 0 \in good
    BY <1>1, <1>2, <1>3
  <2>2. ASSUME NEW i \in 1 .. m, i - 1 \in good
        PROVE  i \in good
    <3>1. low(i - 1) + more(i - 1) <= h[i - 1] /\ h[i] = h[i - 1] + t[i]
      BY <1>2, <2>2
    <3> SUFFICES low(i) + more(i) <= h[i]
      BY <1>3
    <3>2. CASE i <= n
      <4>1. /\ low(i) = low(i - 1) + s[i] /\ low(i - 1) = g[i - 1]
            /\ g[i - 1] \in Nat /\ s[i] \in Nat /\ t[i] \in Nat /\ h[i - 1] \in Nat /\ s[i] <= t[i]
        BY <1>1, <1>2, <1>3, <3>2
      <4>2. CASE i = k
        <5>1. more(i - 1) = 0 /\ more(i) = d /\ s[i] + d <= t[i]
          BY <1>4, <4>2
        <5>2. g[i - 1] <= h[i - 1]
          <6>1. low(i - 1) + more(i - 1) = g[i - 1]
            BY <4>1, <5>1
          <6>2. QED
            BY <3>1, <6>1
        <5>3. low(i) + more(i) = (g[i - 1] + s[i]) + d
          BY <4>1, <5>1
        <5>4. (g[i - 1] + s[i]) + d <= h[i - 1] + t[i]
          BY <1>0, <4>1, <5>1, <5>2
        <5>5. QED
          BY <3>1, <5>3, <5>4
      <4>3. CASE i # k
        <5>1. more(i - 1) = more(i) /\ more(i) \in Nat
          BY <4>3
        <5>2. g[i - 1] + more(i) <= h[i - 1]
          BY <3>1, <4>1, <5>1
        <5>3. low(i) + more(i) = (g[i - 1] + s[i]) + more(i)
          BY <4>1
        <5> DEFINE extra == more(i)
        <5> HIDE DEF more, low
        <5>4. (g[i - 1] + s[i]) + extra <= h[i - 1] + t[i]
          BY <1>0, <4>1, <5>1, <5>2
        <5>5. QED
          BY <3>1, <5>3, <5>4
      <4>4. QED
        BY <4>2, <4>3
    <3>3. CASE i > n
      <4>1. low(i) = g[n] /\ low(i - 1) = g[n]
        BY <1>3, <3>3
      <4>2. more(i) = more(i - 1) /\ more(i) \in Nat
        BY <1>3, <3>3
      <4>3. g[n] \in Nat /\ t[i] \in Nat /\ h[i - 1] \in Nat
        BY <1>1, <1>2, <1>3
      <4> HIDE DEF low, more
      <4>4. QED
        BY <3>1, <4>1, <4>2, <4>3, SMTT(30)
    <3>4. QED
      BY <1>3, <3>2, <3>3
  <2>3. \A i \in 0 .. m : i \in good
    <3> HIDE DEF good
    <3>1. QED
      BY <1>3, <2>1, <2>2, IntervalInduction
  <2>4. low(m) + more(m) <= h[m]
    BY <1>3, <2>3
  <2>5. low(m) = TotalOf(s) /\ more(m) = IF k > 0 THEN d ELSE 0
    BY <1>1, <1>3
  <2>6. QED
    BY <1>2, <2>4, <2>5
<1>5. TotalOf(s) <= TotalOf(t)
  <2>1. TotalOf(s) + 0 <= TotalOf(t)
    BY <1>3, <1>4
  <2>2. QED
    BY <2>1, TotalType
<1>6. ASSUME NEW k \in 1 .. n, NEW d \in Nat, s[k] + d <= t[k]
      PROVE  TotalOf(s) + d <= TotalOf(t)
  BY <1>3, <1>4, <1>6
<1>7. QED
  BY <1>5, <1>6 DEF n
=============================================================================
