---------------------------- MODULE FoldTheorems ----------------------------
(***************************************************************************)
(* What recursive functions, folds and sums compute.  A recursion is known  *)
(* to have a solution when one is built (Iterated, Folded); what holds of   *)
(* it follows from its equation by induction on a set of numbers or of      *)
(* subsets, or along a rank (FromZeroUp, FromEmptyUp, RankedInduction).     *)
(***************************************************************************)
EXTENDS Integers, Sequences, FiniteSets, FiniteSetsExt, FiniteSetTheorems, TLAPS

----------------------------------------------------------------------------
(* Induction by sets, iteration and folds. *)

\* Induction over the naturals, for a set in place of a predicate.
LEMMA FromZeroUp ==
    ASSUME NEW S, 0 \in S, \A n \in Nat : n \in S => n + 1 \in S
    PROVE  Nat \subseteq S
<1> DEFINE R == {ss \in Nat \X Nat : ss[1] < ss[2]}
           T == Nat \ S
<1>1. IsWellFoundedOn(R, Nat)
  BY NatLessThanWellFounded DEF OpToRel
<1>2. SUFFICES ASSUME T # {} PROVE FALSE
  OBVIOUS
<1>3. PICK x \in T : \A y \in T : ~ (<<y, x>> \in R)
  <2>1. T \subseteq Nat OBVIOUS
  <2> HIDE DEF R, T
  <2>2. QED BY <1>1, <1>2, <2>1, WFMin
<1>4. x \in Nat /\ x # 0 /\ x \notin S
  OBVIOUS
<1>5. x - 1 \in Nat /\ (x - 1) + 1 = x /\ x - 1 < x
  BY <1>4
<1>6. x - 1 \notin S
  BY <1>4, <1>5
<1>7. <<x - 1, x>> \in R
  BY <1>4, <1>5
<1>8. QED BY <1>3, <1>5, <1>6, <1>7

\* The values base, f[base], f[f[base]] ... up to number n.
Runs(V, base, f, n) ==
    {g \in [0 .. n -> V] : \A k \in 0 .. n : g[k] = IF k = 0 THEN base ELSE f[g[k - 1]]}

\* They exist.
LEMMA Iterated ==
    ASSUME NEW V, NEW base \in V, NEW f \in [V -> V], NEW n \in Nat
    PROVE  Runs(V, base, f, n) # {}
<1> DEFINE Good(m) == \E g \in [0 .. m -> V] :
             \A k \in 0 .. m : g[k] = IF k = 0 THEN base ELSE f[g[k - 1]]
           S == {m \in Nat : Good(m)}
<1>1. Good(0)
  <2> DEFINE h == [k \in 0 .. 0 |-> base]
  <2>1. h \in [0 .. 0 -> V] /\ \A k \in 0 .. 0 : k = 0 /\ h[k] = base
    OBVIOUS
  <2> HIDE DEF h
  <2>2. QED BY <2>1
<1>2. ASSUME NEW m \in Nat, Good(m) PROVE Good(m + 1)
  <2>1. PICK g \in [0 .. m -> V] : \A k \in 0 .. m : g[k] = IF k = 0 THEN base ELSE f[g[k - 1]]
    BY <1>2
  <2> DEFINE h == [k \in 0 .. m + 1 |-> IF k = 0 THEN base ELSE f[g[k - 1]]]
  <2>2. \A k \in 0 .. m + 1 : k # 0 => k - 1 \in 0 .. m
    OBVIOUS
  <2>3. h \in [0 .. m + 1 -> V]
    BY <2>2
  <2>4. \A k \in 0 .. m : k \in 0 .. m + 1 /\ h[k] = g[k]
    BY <2>1
  <2>5. ASSUME NEW k \in 0 .. m + 1 PROVE h[k] = IF k = 0 THEN base ELSE f[h[k - 1]]
    <3>1. CASE k = 0 BY <3>1
    <3>2. CASE k # 0
      <4>1. k - 1 \in 0 .. m BY <3>2
      <4>2. h[k - 1] = g[k - 1] BY <4>1, <2>4
      <4>3. QED BY <3>2, <4>2
    <3>3. QED BY <3>1, <3>2
  <2> HIDE DEF h
  <2>6. QED BY <2>3, <2>5
<1> HIDE DEF Good
<1>3. 0 \in S /\ \A m \in Nat : m \in S => m + 1 \in S
  BY <1>1, <1>2
<1> HIDE DEF S
<1>4. Nat \subseteq S
  BY <1>3, FromZeroUp
<1>5. QED BY <1>4 DEF S, Good, Runs

\* What the fold of each subset of S is, when pick takes the next element.
FoldsOf(V, base, S, f, pick) ==
    {g \in [SUBSET S -> V] :
       \A s \in SUBSET S :
         g[s] = IF s = {} THEN base ELSE f[<<g[s \ {pick[s]}], pick[s]>>]}

\* It exists: MapThenFoldSet and FoldLeft are defined by such a function.
LEMMA Folded ==
    ASSUME NEW V, NEW base \in V, NEW S, IsFiniteSet(S),
           NEW f \in [V \X S -> V],
           NEW pick \in [(SUBSET S) \ {{}} -> S],
           \A s \in (SUBSET S) \ {{}} : pick[s] \in s
    PROVE  FoldsOf(V, base, S, f, pick) # {}
<1> DEFINE Small(m) == {s \in SUBSET S : Cardinality(s) <= m}
           Good(m) == \E g \in [Small(m) -> V] :
             \A s \in Small(m) :
               g[s] = IF s = {} THEN base ELSE f[<<g[s \ {pick[s]}], pick[s]>>]
           N == {m \in Nat : Good(m)}
<1>1. \A s \in SUBSET S : IsFiniteSet(s) /\ Cardinality(s) \in Nat
  BY FS_Subset, FS_CardinalityType
<1>2. \A s \in SUBSET S : Cardinality(s) = 0 <=> s = {}
  BY <1>1, FS_EmptySet
<1>3. ASSUME NEW m \in Nat, NEW s \in Small(m + 1), s # {}
      PROVE  s \ {pick[s]} \in Small(m) /\ pick[s] \in S
  <2>1. IsFiniteSet(s) /\ pick[s] \in s
    BY <1>1, <1>3
  <2>2. Cardinality(s \ {pick[s]}) = Cardinality(s) - 1
    <3>1. ASSUME NEW x \in s PROVE Cardinality(s \ {x}) = Cardinality(s) - 1
      BY <2>1, FS_RemoveElement
    <3>2. QED BY <2>1, <3>1
  <2>3. s \in SUBSET S /\ Cardinality(s) <= m + 1
    OBVIOUS
  <2>7. s \ {pick[s]} \in SUBSET S
    BY <2>3
  <2>6. Cardinality(s) \in Nat
    BY <1>1, <2>3
  <2>4. Cardinality(s \ {pick[s]}) <= m
    BY <2>2, <2>3, <2>6
  <2>5. QED BY <2>1, <2>3, <2>4, <2>7
<1>4. Good(0)
  <2>1. Small(0) = {{}}
    BY <1>1, <1>2
  <2> DEFINE h == [s \in Small(0) |-> base]
  <2> HIDE DEF Small
  <2>2. h \in [Small(0) -> V] /\ \A s \in Small(0) : s = {} /\ h[s] = base
    BY <2>1
  <2> HIDE DEF h
  <2>3. QED BY <2>2, <2>2
<1>5. ASSUME NEW m \in Nat, Good(m) PROVE Good(m + 1)
  <2>1. PICK g \in [Small(m) -> V] :
          \A s \in Small(m) : g[s] = IF s = {} THEN base ELSE f[<<g[s \ {pick[s]}], pick[s]>>]
    BY <1>5
  <2> DEFINE h == [s \in Small(m + 1) |-> IF s = {} THEN base ELSE f[<<g[s \ {pick[s]}], pick[s]>>]]
  <2>2. \A s \in Small(m) : s \in Small(m + 1)
    BY <1>1
  <2> HIDE DEF Small
  <2>3. h \in [Small(m + 1) -> V]
    BY <1>3
  <2>4. \A s \in Small(m) : h[s] = g[s]
    BY <2>1, <2>2
  <2>5. \A s \in Small(m + 1) : h[s] = IF s = {} THEN base ELSE f[<<h[s \ {pick[s]}], pick[s]>>]
    BY <1>3, <2>4
  <2> HIDE DEF h
  <2>6. QED BY <2>3, <2>5
<1> HIDE DEF Good
<1>6. 0 \in N /\ \A m \in Nat : m \in N => m + 1 \in N
  BY <1>4, <1>5
<1>7. Good(Cardinality(S))
  <2> HIDE DEF N
  <2>1. Nat \subseteq N
    BY <1>6, FromZeroUp
  <2>2. QED BY <2>1, FS_CardinalityType DEF N
<1> USE DEF Good
<1>8. Small(Cardinality(S)) = SUBSET S
  BY FS_Subset, FS_CardinalityType
<1> HIDE DEF Small
<1>9. QED BY <1>7, <1>8 DEF FoldsOf

\* A nonempty set of numbers below a bound has a greatest one.
LEMMA GreatestExists ==
    ASSUME NEW n \in Nat, NEW S \in SUBSET (0 .. n), S # {}
    PROVE  \E m \in S : \A k \in S : k <= m
<1> DEFINE R == {ss \in Nat \X Nat : ss[1] < ss[2]}
           T == {n - k : k \in S}
<1>1. IsWellFoundedOn(R, Nat)
  BY NatLessThanWellFounded DEF OpToRel
<1>2. T \subseteq Nat /\ T # {}
  <2>1. \A k \in S : k \in Nat /\ n - k \in Nat
    OBVIOUS
  <2>2. QED BY <2>1
<1>3. PICK x \in T : \A y \in T : ~ (<<y, x>> \in R)
  <2> HIDE DEF R, T
  <2>1. QED BY <1>1, <1>2, WFMin
<1>4. PICK m \in S : x = n - m
  OBVIOUS
<1>5. ASSUME NEW k \in S PROVE k <= m
  <2>1. ~ (<<n - k, x>> \in R)
    BY <1>3
  <2>2. QED BY <2>1, <1>4
<1>6. QED BY <1>5

\* What Max returns, where there is a greatest element.
LEMMA MaxIs ==
    ASSUME NEW S \in SUBSET Int, NEW m \in S, \A k \in S : k <= m
    PROVE  Max(S) = m
<1>1. \A x \in S : (\A k \in S : x >= k) => x = m
  OBVIOUS
<1>2. \A k \in S : m >= k
  OBVIOUS
<1>3. QED BY <1>1, <1>2 DEF Max

----------------------------------------------------------------------------
(* Sums over finite sets. *)

\* Induction over the subsets of a finite set.
LEMMA FromEmptyUp ==
    ASSUME NEW S, IsFiniteSet(S), NEW G, {} \in G,
           \A s \in SUBSET S : s # {} /\ (\A x \in s : s \ {x} \in G) => s \in G
    PROVE  SUBSET S \subseteq G
<1> DEFINE Z == {m \in Nat : \A s \in SUBSET S : Cardinality(s) = m => s \in G}
<1>1. \A s \in SUBSET S : IsFiniteSet(s) /\ Cardinality(s) \in Nat
  BY FS_Subset, FS_CardinalityType
<1>2. \A s \in SUBSET S : Cardinality(s) = 0 <=> s = {}
  BY <1>1, FS_EmptySet
<1>3. 0 \in Z
  BY <1>2
<1>4. ASSUME NEW m \in Nat, m \in Z, NEW s \in SUBSET S, Cardinality(s) = m + 1
      PROVE  s \in G
  <2>1. s # {}
    BY <1>2, <1>4
  <2>2. ASSUME NEW x \in s PROVE s \ {x} \in G
    <3>1. Cardinality(s \ {x}) = Cardinality(s) - 1
      BY <1>1, FS_RemoveElement
    <3>2. s \ {x} \in SUBSET S /\ Cardinality(s \ {x}) = m
      BY <3>1, <1>4
    <3>3. QED BY <3>2, <1>4
  <2>3. QED BY <2>1, <2>2
<1>5. \A m \in Nat : m \in Z => m + 1 \in Z
  BY <1>4
<1> HIDE DEF Z
<1>6. Nat \subseteq Z
  BY <1>3, <1>5, FromZeroUp
<1>7. QED BY <1>1, <1>6 DEF Z

\* The sum of a function over a set, as the trees are summed.
SumOn(f, S) == MapThenSumSet(LAMBDA x : f[x], S)

\* The element the fold takes next.
Picked(s) == CHOOSE x \in s : TRUE

\* The sums of the subsets of S, taken so.
SumsOf(f, S) ==
    {it \in [SUBSET S -> Int] :
       \A s \in SUBSET S : it[s] = IF s = {} THEN 0 ELSE f[Picked(s)] + it[s \ {Picked(s)}]}

\* MapThenSumSet returns the last of them.
LEMMA SumStepwise ==
    ASSUME NEW S, IsFiniteSet(S), NEW f, \A x \in S : f[x] \in Int
    PROVE  \E it \in SumsOf(f, S) : SumOn(f, S) = it[S]
<1> DEFINE add == [vx \in Int \X S |-> f[vx[2]] + vx[1]]
           pick == [s \in (SUBSET S) \ {{}} |-> Picked(s)]
<1>1. \A s \in (SUBSET S) \ {{}} : Picked(s) \in s
  BY DEF Picked
<1>2. pick \in [(SUBSET S) \ {{}} -> S] /\ \A s \in (SUBSET S) \ {{}} : pick[s] \in s /\ pick[s] = Picked(s)
  BY <1>1
<1>3. \A v \in Int, x \in S : add[<<v, x>>] = f[x] + v
  OBVIOUS
<1>4. add \in [Int \X S -> Int] /\ 0 \in Int
  OBVIOUS
<1> HIDE DEF add, pick
<1>5. PICK g \in [SUBSET S -> Int] : \A s \in SUBSET S :
         g[s] = IF s = {} THEN 0 ELSE add[<<g[s \ {pick[s]}], pick[s]>>]
  <2>1. FoldsOf(Int, 0, S, add, pick) # {}
    BY <1>2, <1>4, Folded
  <2>2. QED BY <2>1 DEF FoldsOf
<1>6. \A s \in SUBSET S : g[s] = IF s = {} THEN 0 ELSE f[Picked(s)] + g[s \ {Picked(s)}]
  <2>1. ASSUME NEW s \in SUBSET S, s # {} PROVE g[s] = f[Picked(s)] + g[s \ {Picked(s)}]
    <3>1. pick[s] = Picked(s) /\ Picked(s) \in S /\ s \ {Picked(s)} \in SUBSET S
      BY <2>1, <1>1, <1>2
    <3>2. g[s \ {Picked(s)}] \in Int
      BY <3>1, <1>5
    <3>3. g[s] = add[<<g[s \ {Picked(s)}], Picked(s)>>]
      BY <3>1, <2>1, <1>5
    <3>4. QED BY <3>1, <3>2, <3>3, <1>3
  <2>2. QED BY <2>1, <1>5
<1> DEFINE eq(it) == it = [s \in SUBSET S |-> IF s = {} THEN 0 ELSE f[Picked(s)] + it[s \ {Picked(s)}]]
           r == CHOOSE it : eq(it)
<1>7. eq(g)
  <2>1. g = [s \in SUBSET S |-> g[s]]
    BY <1>5
  <2>2. QED BY <2>1, <1>6
<1>8. eq(r)
  <2> HIDE DEF eq
  <2>1. QED BY <1>7
<1>9. SumOn(f, S) = r[S]
  BY DEF SumOn, MapThenSumSet, MapThenFoldSet, Picked
<1> HIDE DEF r
<1>10. r = [s \in SUBSET S |-> r[s]] /\ \A s \in SUBSET S : r[s] = IF s = {} THEN 0 ELSE f[Picked(s)] + r[s \ {Picked(s)}]
  BY <1>8
<1> HIDE DEF eq
<1>11. \A s \in SUBSET S : r[s] \in Int
  <2> DEFINE G == {s \in SUBSET S : r[s] \in Int}
  <2>1. {} \in G
    <3>1. {} \in SUBSET S /\ r[{}] = 0
      BY <1>10
    <3>2. QED BY <3>1
  <2>2. ASSUME NEW s \in SUBSET S, s # {}, \A x \in s : s \ {x} \in G PROVE s \in G
    <3>1. Picked(s) \in s
      BY <2>2, <1>1
    <3>2. r[s \ {Picked(s)}] \in Int /\ f[Picked(s)] \in Int
      BY <2>2, <3>1
    <3>3. r[s] = f[Picked(s)] + r[s \ {Picked(s)}]
      BY <2>2, <1>10
    <3>4. QED BY <2>2, <3>2, <3>3
  <2> HIDE DEF G
  <2>3. SUBSET S \subseteq G
    BY <2>1, <2>2, FromEmptyUp
  <2>4. QED BY <2>3 DEF G
<1>12. r \in [SUBSET S -> Int]
  BY <1>10, <1>11
<1>13. QED BY <1>9, <1>10, <1>12 DEF SumsOf

\* A sum of integers is one, the empty sum 0, and any element may be taken first.
LEMMA SumTakesAny ==
    ASSUME NEW S, IsFiniteSet(S), NEW f, \A x \in S : f[x] \in Int
    PROVE  /\ SumOn(f, S) \in Int
           /\ S = {} => SumOn(f, S) = 0
           /\ \A x \in S : SumOn(f, S) = f[x] + SumOn(f, S \ {x})
<1>0. PICK it \in SumsOf(f, S) : SumOn(f, S) = it[S]
  BY SumStepwise
<1>1. /\ it \in [SUBSET S -> Int] /\ SumOn(f, S) = it[S]
      /\ \A s \in SUBSET S : it[s] = IF s = {} THEN 0 ELSE f[Picked(s)] + it[s \ {Picked(s)}]
  BY <1>0 DEF SumsOf
<1>2. \A s \in SUBSET S : s # {} => Picked(s) \in s
  BY DEF Picked
<1>3. \A s \in SUBSET S : IsFiniteSet(s)
  BY FS_Subset
<1>4. \A s \in SUBSET S : \A x \in s : it[s] = f[x] + it[s \ {x}]
  <2> DEFINE G == {s \in SUBSET S : \A x \in s : it[s] = f[x] + it[s \ {x}]}
  <2>1. {} \in G
    OBVIOUS
  <2>2. ASSUME NEW s \in SUBSET S, s # {}, \A x \in s : s \ {x} \in G, NEW x \in s
        PROVE  it[s] = f[x] + it[s \ {x}]
    <3> DEFINE y == Picked(s)
    <3>1. y \in s /\ it[s] = f[y] + it[s \ {y}]
      BY <2>2, <1>1, <1>2
    <3> HIDE DEF y
    <3>2. CASE x = y
      BY <3>1, <3>2
    <3>3. CASE x # y
      <4>1. it[s \ {y}] = f[x] + it[(s \ {y}) \ {x}]
        BY <2>2, <3>1, <3>3
      <4>2. it[s \ {x}] = f[y] + it[(s \ {x}) \ {y}]
        BY <2>2, <3>1, <3>3
      <4>3. (s \ {x}) \ {y} = (s \ {y}) \ {x}
        OBVIOUS
      <4>4. (s \ {y}) \ {x} \in SUBSET S /\ x \in S /\ y \in S
        BY <3>1
      <4>5. it[(s \ {y}) \ {x}] \in Int /\ f[x] \in Int /\ f[y] \in Int
        BY <4>4, <1>1
      <4> DEFINE z == it[(s \ {y}) \ {x}]
      <4>6. it[s] = f[y] + (f[x] + z) /\ it[s \ {x}] = f[y] + z
        BY <3>1, <4>1, <4>2, <4>3
      <4> HIDE DEF z
      <4>7. z \in Int
        BY <4>5 DEF z
      <4>8. QED BY <4>5, <4>6, <4>7
    <3>4. QED BY <3>2, <3>3
  <2>3. \A s \in SUBSET S : s # {} /\ (\A x \in s : s \ {x} \in G) => s \in G
    BY <2>2
  <2> HIDE DEF G
  <2>4. SUBSET S \subseteq G
    BY <2>1, <2>3, FromEmptyUp
  <2>5. QED BY <2>4 DEF G
<1>5. ASSUME NEW T \in SUBSET S PROVE SumOn(f, T) = it[T]
  <2>1. IsFiniteSet(T) /\ \A x \in T : f[x] \in Int
    BY <1>3
  <2>7. PICK jt \in SumsOf(f, T) : SumOn(f, T) = jt[T]
    BY <2>1, SumStepwise
  <2>2. /\ jt \in [SUBSET T -> Int] /\ SumOn(f, T) = jt[T]
        /\ \A s \in SUBSET T : jt[s] = IF s = {} THEN 0 ELSE f[Picked(s)] + jt[s \ {Picked(s)}]
    BY <2>7 DEF SumsOf
  <2> DEFINE G == {s \in SUBSET T : jt[s] = it[s]}
  <2>3. {} \in G
    BY <1>1, <2>2
  <2>4. ASSUME NEW s \in SUBSET T, s # {}, \A x \in s : s \ {x} \in G PROVE s \in G
    <3>1. Picked(s) \in s /\ s \in SUBSET S
      BY <2>4, <1>2
    <3>2. jt[s \ {Picked(s)}] = it[s \ {Picked(s)}]
      BY <2>4, <3>1
    <3>3. jt[s] = f[Picked(s)] + jt[s \ {Picked(s)}] /\ it[s] = f[Picked(s)] + it[s \ {Picked(s)}]
      BY <2>4, <3>1, <1>1, <2>2
    <3>4. QED BY <3>2, <3>3
  <2> HIDE DEF G
  <2>5. SUBSET T \subseteq G
    BY <2>1, <2>3, <2>4, FromEmptyUp
  <2>6. QED BY <2>2, <2>5 DEF G
<1>6. \A x \in S : SumOn(f, S) = f[x] + SumOn(f, S \ {x})
  BY <1>1, <1>4, <1>5
<1>7. QED BY <1>1, <1>6

\* h names each element of S anew, and g is f under the new names.
Renames(h, S, T, f, g) ==
    /\ h \in [S -> T]
    /\ \A x, y \in S : h[x] = h[y] => x = y
    /\ \A t \in T : \E x \in S : t = h[x]
    /\ \A x \in S : f[x] \in Int /\ g[h[x]] = f[x]

\* The same values under other names have the same sum.
LEMMA SumRenamed ==
    ASSUME NEW S, IsFiniteSet(S), NEW T, NEW h, NEW f, NEW g, Renames(h, S, T, f, g)
    PROVE  SumOn(f, S) = SumOn(g, T)
<1> USE DEF Renames
<1> DEFINE Im(s) == {h[x] : x \in s}
           G == {s \in SUBSET S : SumOn(f, s) = SumOn(g, Im(s))}
<1>1. \A s \in SUBSET S : IsFiniteSet(s)
  BY FS_Subset
<1>2. \A s \in SUBSET S : IsFiniteSet(Im(s))
  <2> TAKE s \in SUBSET S
  <2> DEFINE k == [x \in s |-> h[x]]
  <2>1. k \in Surjection(s, Im(s))
    BY DEF Surjection
  <2> HIDE DEF k
  <2>2. QED BY <1>1, <2>1, FS_Surjection
<1>3. \A s \in SUBSET S : \A t \in Im(s) : g[t] \in Int
  OBVIOUS
<1>4. {} \in G
  <2>1. Im({}) = {} /\ IsFiniteSet({})
    BY FS_EmptySet
  <2>2. SumOn(f, {}) = 0 /\ SumOn(g, {}) = 0
    BY <2>1, SumTakesAny
  <2>3. QED BY <2>1, <2>2
<1>5. ASSUME NEW s \in SUBSET S, s # {}, \A x \in s : s \ {x} \in G PROVE s \in G
  <2>1. PICK x \in s : TRUE
    BY <1>5
  <2>2. Im(s \ {x}) = Im(s) \ {h[x]} /\ h[x] \in Im(s)
    OBVIOUS
  <2> DEFINE W == Im(s)
  <2>3. IsFiniteSet(W) /\ \A t \in W : g[t] \in Int
    BY <1>2, <1>3
  <2>4. SumOn(f, s \ {x}) = SumOn(g, W \ {h[x]})
    BY <1>5, <2>2
  <2>5. h[x] \in W /\ g[h[x]] = f[x]
    BY <2>2
  <2> HIDE DEF W
  <2>9. \A t \in W : SumOn(g, W) = g[t] + SumOn(g, W \ {t})
    BY <2>3, SumTakesAny
  <2>6. SumOn(g, W) = g[h[x]] + SumOn(g, W \ {h[x]})
    BY <2>5, <2>9
  <2>7. SumOn(f, s) = f[x] + SumOn(f, s \ {x})
    BY <1>1, SumTakesAny
  <2>8. QED BY <2>4, <2>5, <2>6, <2>7 DEF W
<1>6. S \in G
  <2> HIDE DEF G
  <2>1. SUBSET S \subseteq G
    BY <1>4, <1>5, FromEmptyUp
  <2>2. QED BY <2>1
<1>7. Im(S) = T
  OBVIOUS
<1>8. QED BY <1>6, <1>7

\* A sum depends on the values over the set only.
LEMMA SumSame ==
    ASSUME NEW S, IsFiniteSet(S), NEW f, NEW g, \A x \in S : f[x] \in Int /\ g[x] = f[x]
    PROVE  SumOn(f, S) = SumOn(g, S)
<1>1. PICK h \in [S -> S] : \A x \in S : h[x] = x
  <2>1. [x \in S |-> x] \in [S -> S] /\ \A x \in S : [y \in S |-> y][x] = x
    OBVIOUS
  <2>2. QED BY <2>1
<1>2. Renames(h, S, S, f, g)
  BY <1>1 DEF Renames
<1>3. QED BY <1>2, SumRenamed

\* The sum over two sets that share nothing.
LEMMA SumTogether ==
    ASSUME NEW A, IsFiniteSet(A), NEW B, IsFiniteSet(B), A \cap B = {},
           NEW f, \A x \in A \cup B : f[x] \in Int
    PROVE  SumOn(f, A \cup B) = SumOn(f, A) + SumOn(f, B)
<1> DEFINE G == {s \in SUBSET A : SumOn(f, s \cup B) = SumOn(f, s) + SumOn(f, B)}
<1>1. \A s \in SUBSET A : IsFiniteSet(s) /\ IsFiniteSet(s \cup B)
  BY FS_Subset, FS_Union
<1>2. SumOn(f, B) \in Int
  BY SumTakesAny
<1>3. {} \in G
  <2>1. {} \cup B = B /\ {} \in SUBSET A
    OBVIOUS
  <2>2. SumOn(f, {}) = 0
    BY FS_EmptySet, SumTakesAny
  <2>3. QED BY <1>2, <2>1, <2>2
<1>4. ASSUME NEW s \in SUBSET A, s # {}, \A x \in s : s \ {x} \in G
      PROVE  s \in G
  <2>1. PICK x \in s : TRUE
    BY <1>4
  <2>2. SumOn(f, (s \ {x}) \cup B) = SumOn(f, s \ {x}) + SumOn(f, B)
    BY <1>4
  <2>3. SumOn(f, s) = f[x] + SumOn(f, s \ {x})
    BY <1>1, SumTakesAny
  <2>4. PICK W : W = s \cup B
    OBVIOUS
  <2>5. x \in W /\ W \ {x} = (s \ {x}) \cup B /\ IsFiniteSet(W) /\ \A y \in W : f[y] \in Int
    BY <1>1, <2>1, <2>4
  <2>6. SumOn(f, W) = f[x] + SumOn(f, W \ {x})
    BY <2>5, SumTakesAny
  <2>7. f[x] \in Int /\ SumOn(f, s \ {x}) \in Int
    <3>1. IsFiniteSet(s \ {x}) /\ \A y \in s \ {x} : f[y] \in Int
      BY <1>1
    <3>2. QED BY <3>1, SumTakesAny
  <2>8. SumOn(f, s \cup B) = SumOn(f, s) + SumOn(f, B)
    <3>1. SumOn(f, W) = f[x] + (SumOn(f, s \ {x}) + SumOn(f, B))
      BY <2>2, <2>5, <2>6
    <3>2. \A a, b, c \in Int : a + (b + c) = (a + b) + c
      OBVIOUS
    <3>3. SumOn(f, W) = (f[x] + SumOn(f, s \ {x})) + SumOn(f, B)
      BY <3>1, <3>2, <2>7, <1>2
    <3>4. QED BY <3>3, <2>3, <2>4
  <2>9. QED BY <2>8
<1> HIDE DEF G
<1>5. SUBSET A \subseteq G
  BY <1>3, <1>4, FromEmptyUp
<1>6. QED BY <1>5 DEF G

----------------------------------------------------------------------------
(* Folds of a sequence. *)

\* The fold from the left: the greatest index is taken last.
LeftFolds(V, base, n, f) ==
    {g \in [SUBSET (1 .. n) -> V] :
       \A s \in SUBSET (1 .. n) :
         g[s] = IF s = {} THEN base ELSE f[<<g[s \ {Max(s)}], Max(s)>>]}

\* r is such a fold as long as its values are in V.
FoldsLeft(V, base, n, f, r) ==
    /\ base \in V /\ n \in Nat /\ f \in [V \X (1 .. n) -> V]
    /\ r[{}] = base
    /\ \A s \in SUBSET (1 .. n) :
         s # {} /\ r[s \ {Max(s)}] \in V => r[s] = f[<<r[s \ {Max(s)}], Max(s)>>]

\* The values after 0, 1, ... n elements.
LeftSteps(V, base, n, f) ==
    {d \in [0 .. n -> V] : \A k \in 0 .. n : d[k] = IF k = 0 THEN base ELSE f[<<d[k - 1], k>>]}

\* A nonempty set of indices has a greatest one, which Max returns.
LEMMA MaxIsIn ==
    ASSUME NEW n \in Nat, NEW s \in SUBSET (1 .. n), s # {}
    PROVE  Max(s) \in s /\ \A k \in s : k <= Max(s)
<1>1. s \in SUBSET (0 .. n) /\ s \in SUBSET Int
  OBVIOUS
<1>2. PICK m \in s : \A k \in s : k <= m
  BY <1>1, GreatestExists
<1>3. Max(s) = m
  BY <1>1, <1>2, MaxIs
<1>4. QED BY <1>2, <1>3

\* The fold of every subset exists ...
LEMMA LeftFolded ==
    ASSUME NEW V, NEW base \in V, NEW n \in Nat, NEW f \in [V \X (1 .. n) -> V]
    PROVE  LeftFolds(V, base, n, f) # {}
<1> DEFINE D == 1 .. n
           pick == [s \in (SUBSET D) \ {{}} |-> Max(s)]
<1>1. IsFiniteSet(D)
  BY FS_Interval
<1>2. \A s \in (SUBSET D) \ {{}} : Max(s) \in s
  BY MaxIsIn
<1>3. pick \in [(SUBSET D) \ {{}} -> D] /\ \A s \in (SUBSET D) \ {{}} : pick[s] \in s /\ pick[s] = Max(s)
  BY <1>2
<1> HIDE DEF pick
<1>4. FoldsOf(V, base, D, f, pick) # {}
  BY <1>1, <1>3, Folded
<1>5. \A s \in SUBSET D : s # {} => pick[s] = Max(s)
  BY <1>3
<1>6. QED BY <1>4, <1>5 DEF FoldsOf, LeftFolds

\* ... and what has its recursion equation goes through its steps.
LEMMA LeftFoldIs ==
    ASSUME NEW V, NEW base, NEW n, NEW f, NEW r, FoldsLeft(V, base, n, f, r)
    PROVE  \E d \in LeftSteps(V, base, n, f) : r[1 .. n] = d[n]
<1> base \in V /\ n \in Nat /\ f \in [V \X (1 .. n) -> V]
  BY DEF FoldsLeft
<1> DEFINE d == [k \in 0 .. n |-> r[1 .. k]]
           S == {k \in Nat : k \in 0 .. n => r[1 .. k] \in V /\ (k # 0 => r[1 .. k] = f[<<r[1 .. k - 1], k>>])}
<1>1. r[1 .. 0] = base
  <2>1. 1 .. 0 = {} OBVIOUS
  <2>2. QED BY <2>1 DEF FoldsLeft
<1>2. ASSUME NEW k \in 1 .. n
      PROVE  /\ 1 .. k \in SUBSET (1 .. n) /\ 1 .. k # {} /\ Max(1 .. k) = k
             /\ (1 .. k) \ {k} = 1 .. k - 1
  <2>1. 1 .. k \in SUBSET (1 .. n) /\ k \in 1 .. k
    OBVIOUS
  <2>2. 1 .. k \in SUBSET Int /\ \A x \in 1 .. k : x <= k
    OBVIOUS
  <2>3. Max(1 .. k) = k
    BY <2>1, <2>2, MaxIs
  <2>4. (1 .. k) \ {k} = 1 .. k - 1
    OBVIOUS
  <2>5. QED BY <2>1, <2>3, <2>4
<1>3. ASSUME NEW k \in Nat, k \in S, k + 1 \in 0 .. n
      PROVE  r[1 .. k + 1] \in V /\ r[1 .. k + 1] = f[<<r[1 .. k], k + 1>>]
  <2> DEFINE j == k + 1
  <2>1. j \in 1 .. n /\ k \in 0 .. n /\ j - 1 = k
    BY <1>3
  <2>2. r[1 .. k] \in V
    BY <2>1, <1>3
  <2> HIDE DEF S, j
  <2>3. r[1 .. j] = f[<<r[1 .. k], j>>]
    BY <1>2, <2>1, <2>2 DEF FoldsLeft
  <2>4. QED BY <2>1, <2>2, <2>3 DEF j
<1>4. 0 \in S
  BY <1>1
<1>5. \A k \in Nat : k \in S => k + 1 \in S
  <2> TAKE k \in Nat
  <2> HAVE k \in S
  <2>1. (k + 1) - 1 = k
    OBVIOUS
  <2>2. QED BY <1>3, <2>1
<1> HIDE DEF S
<1>6. Nat \subseteq S
  BY <1>4, <1>5, FromZeroUp
<1>7. \A k \in 0 .. n : r[1 .. k] \in V /\ (k # 0 => r[1 .. k] = f[<<r[1 .. k - 1], k>>])
  BY <1>6 DEF S
<1>8. d \in [0 .. n -> V]
  BY <1>7
<1>9. \A k \in 0 .. n : d[k] = IF k = 0 THEN base ELSE f[<<d[k - 1], k>>]
  <2> TAKE k \in 0 .. n
  <2>1. CASE k = 0
    BY <2>1, <1>1
  <2>2. CASE k # 0
    <3>1. k - 1 \in 0 .. n
      BY <2>2
    <3>2. d[k] = r[1 .. k] /\ d[k - 1] = r[1 .. k - 1]
      BY <3>1
    <3>3. QED BY <2>2, <3>2, <1>7
  <2>3. QED BY <2>1, <2>2
<1>10. d[n] = r[1 .. n]
  OBVIOUS
<1> HIDE DEF d
<1>11. QED BY <1>8, <1>9, <1>10 DEF LeftSteps

-----------------------------------------------------------------------------
(* Induction and recursion along a rank, and the least of a set.            *)

\* Min is in the set and below all of it.
LEMMA MinIsIn ==
    ASSUME NEW S \in SUBSET Nat, S # {}
    PROVE  Min(S) \in S /\ \A k \in S : Min(S) <= k
<1> DEFINE R == {ss \in Nat \X Nat : ss[1] < ss[2]}
<1>1. IsWellFoundedOn(R, Nat)
  BY NatLessThanWellFounded DEF OpToRel
<1>2. PICK x \in S : \A y \in S : ~ (<<y, x>> \in R)
  <2> HIDE DEF R
  <2>1. QED BY <1>1, WFMin
<1>3. \A y \in S : x <= y
  <2> TAKE y \in S
  <2>1. ~ (<<y, x>> \in R) /\ x \in Nat /\ y \in Nat
    BY <1>2
  <2>2. QED BY <2>1
<1>4. QED BY <1>2, <1>3 DEF Min

\* What holds of an element when it holds of all that rank below it.
LEMMA RankedInduction ==
    ASSUME NEW D, NEW rank \in [D -> Nat], NEW S,
           \A x \in D : (\A y \in D : rank[y] < rank[x] => y \in S) => x \in S
    PROVE  D \subseteq S
<1> DEFINE Good == {k \in Nat : \A x \in D : rank[x] < k => x \in S}
<1>1. 0 \in Good
  OBVIOUS
<1>2. ASSUME NEW k \in Nat, k \in Good PROVE k + 1 \in Good
  <2>1. ASSUME NEW x \in D, rank[x] < k + 1 PROVE x \in S
    <3>1. ASSUME NEW y \in D, rank[y] < rank[x] PROVE y \in S
      <4>1. rank[x] \in Nat /\ rank[y] \in Nat
        OBVIOUS
      <4>2. rank[y] < k
        BY <4>1, <2>1, <3>1
      <4>3. QED BY <4>2, <1>2
    <3>2. QED BY <3>1
  <2>2. QED BY <2>1
<1> HIDE DEF Good
<1>3. Nat \subseteq Good
  BY <1>1, <1>2, FromZeroUp
<1>4. ASSUME NEW x \in D PROVE x \in S
  <2>1. rank[x] \in Nat /\ rank[x] + 1 \in Nat /\ rank[x] < rank[x] + 1
    OBVIOUS
  <2>2. rank[x] + 1 \in Good
    BY <2>1, <1>3
  <2>3. QED BY <2>1, <2>2 DEF Good
<1>5. QED BY <1>4

\* A recursion whose value at an element depends on what ranks below it only ...
Descends(D, V, n, rank, step) ==
    /\ V # {} /\ n \in Nat /\ rank \in [D -> 0 .. n]
    /\ step \in [[D -> V] -> [D -> V]]
    /\ \A f, g \in [D -> V] : \A x \in D :
          (\A y \in D : rank[y] < rank[x] => f[y] = g[y]) => step[f][x] = step[g][x]

\* ... has a solution: the step, done often enough from anywhere, is right up to
\* rank n.
LEMMA RankedRecursion ==
    ASSUME NEW D, NEW V, NEW n, NEW rank, NEW step, Descends(D, V, n, rank, step)
    PROVE  \E f \in [D -> V] : step[f] = f
<1>0. /\ V # {} /\ n \in Nat /\ rank \in [D -> 0 .. n] /\ step \in [[D -> V] -> [D -> V]]
      /\ \A f, g \in [D -> V] : \A x \in D :
            (\A y \in D : rank[y] < rank[x] => f[y] = g[y]) => step[f][x] = step[g][x]
  BY DEF Descends
<1> n \in Nat /\ rank \in [D -> 0 .. n]
  BY <1>0
<1>1. PICK W : W = [D -> V]
  OBVIOUS
<1>2. PICK base \in W : TRUE
  <2>1. PICK v \in V : TRUE
    BY <1>0
  <2>2. [x \in D |-> v] \in [D -> V]
    BY <2>1
  <2>3. QED BY <2>2, <1>1
<1>3. PICK m \in Nat : m = n + 1
  OBVIOUS
<1>4. m + 1 \in Nat /\ step \in [W -> W]
  BY <1>0, <1>1
<1>5. PICK it \in Runs(W, base, step, m + 1) : TRUE
  <2>1. Runs(W, base, step, m + 1) # {}
    BY <1>2, <1>4, Iterated
  <2>2. QED BY <2>1
<1>6. /\ it \in [0 .. m + 1 -> W]
      /\ \A k \in 0 .. m + 1 : it[k] = IF k = 0 THEN base ELSE step[it[k - 1]]
  BY <1>5 DEF Runs
<1>7. ASSUME NEW k \in 0 .. m PROVE it[k] \in W /\ it[k + 1] \in W /\ it[k + 1] = step[it[k]]
  <2>1. k \in 0 .. m + 1 /\ k + 1 \in 0 .. m + 1 /\ k + 1 # 0 /\ (k + 1) - 1 = k
    OBVIOUS
  <2>2. it[k + 1] = step[it[(k + 1) - 1]]
    BY <1>6, <2>1
  <2>3. QED BY <1>6, <2>1, <2>2
<1> DEFINE Good == {k \in Nat : k \in 0 .. m => \A x \in D : rank[x] < k => it[k + 1][x] = it[k][x]}
<1>8. 0 \in Good
  OBVIOUS
<1>9. ASSUME NEW k \in Nat, k \in Good PROVE k + 1 \in Good
  <2>1. ASSUME k + 1 \in 0 .. m, NEW x \in D, rank[x] < k + 1
        PROVE  it[(k + 1) + 1][x] = it[k + 1][x]
    <3>1. k \in 0 .. m
      BY <2>1
    <3>2. ASSUME NEW y \in D, rank[y] < rank[x] PROVE it[k + 1][y] = it[k][y]
      <4>1. rank[x] \in Nat /\ rank[y] \in Nat
        OBVIOUS
      <4>2. rank[y] < k
        BY <4>1, <2>1, <3>2
      <4>3. QED BY <4>2, <1>9, <3>1
    <3>3. PICK f \in W : f = it[k + 1]
      BY <1>7, <3>1
    <3>4. PICK g \in W : g = it[k]
      BY <1>7, <3>1
    <3>5. \A y \in D : rank[y] < rank[x] => f[y] = g[y]
      BY <3>2, <3>3, <3>4
    <3>6. step[f][x] = step[g][x]
      BY <3>5, <1>0, <1>1, <3>3, <3>4
    <3>7. it[(k + 1) + 1] = step[f]
      BY <2>1, <1>7, <3>3
    <3>8. it[k + 1] = step[g]
      BY <3>1, <1>7, <3>4
    <3>9. QED BY <3>6, <3>7, <3>8
  <2>2. QED BY <2>1
<1> HIDE DEF Good
<1>10. Nat \subseteq Good
  BY <1>8, <1>9, FromZeroUp
<1>11. PICK f \in W : f = it[m]
  BY <1>3, <1>7
<1>12. ASSUME NEW x \in D PROVE step[f][x] = f[x]
  <2>1. m \in Good /\ m \in 0 .. m
    BY <1>3, <1>10
  <2>2. rank[x] < m
    <3>1. rank[x] \in 0 .. n
      OBVIOUS
    <3>2. QED BY <3>1, <1>3
  <2>3. it[m + 1][x] = it[m][x]
    BY <2>1, <2>2 DEF Good
  <2>4. QED BY <2>1, <2>3, <1>7, <1>11
<1>13. step[f] = f
  <2>1. step[f] \in [D -> V] /\ f \in [D -> V]
    BY <1>0, <1>1
  <2>2. QED BY <2>1, <1>12
<1>14. QED BY <1>1, <1>13

=============================================================================
