---------------------------- MODULE ImportProofs ----------------------------
(***************************************************************************)
(* For every file and every sequence of edits:                              *)
(*   - both imports hang a line below the nearest open line of a lower      *)
(*     level (ImportPreview!ParsedRight);                                   *)
(*   - the list stays in the order of the file (TypeOK);                    *)
(*   - every node of the preview is reached from a root (AllShown);         *)
(*   - after Auto Kalkulasi the amounts agree (SumsAgree);                  *)
(*   - as long as parents are above their children, the tree on the screen  *)
(*     is what a save leaves in the table (SavedInOrder).                   *)
(***************************************************************************)
EXTENDS ImportPreview, FoldTheorems

----------------------------------------------------------------------------
(* The nodes below a node. *)

\* C is closed under the children of the list.
ClosedIn(list, C) == \A j \in C : Kids(list, j) \subseteq C

\* The children of a member are members.
LEMMA KidsAreIds ==
    ASSUME NEW list, NEW i
    PROVE  Kids(list, i) \subseteq Ids(list)
BY DEF Kids, Ids

\* A list has at most as many nodes as places.
LEMMA IdsFinite ==
    ASSUME NEW list \in Seq(Node)
    PROVE  IsFiniteSet(Ids(list)) /\ Cardinality(Ids(list)) <= Len(list)
<1> DEFINE f == [k \in 1 .. Len(list) |-> list[k].id]
<1>1. Len(list) \in Nat /\ DOMAIN list = 1 .. Len(list)
  OBVIOUS
<1>2. f \in Surjection(1 .. Len(list), Ids(list))
  BY <1>1 DEF Ids, ToSet, Surjection
<1>3. IsFiniteSet(1 .. Len(list)) /\ Cardinality(1 .. Len(list)) = Len(list)
  BY <1>1, FS_Interval
<1> HIDE DEF f
<1>4. QED BY <1>2, <1>3, FS_Surjection

\* The generations of Below.
LEMMA Generations ==
    ASSUME NEW list \in Seq(Node), NEW i
    PROVE  \E reach \in [0 .. Len(list) -> SUBSET (Ids(list) \cup {i})] :
             /\ \A k \in 0 .. Len(list) :
                  reach[k] = IF k = 0 THEN {i}
                             ELSE reach[k - 1] \cup UNION {Kids(list, j) : j \in reach[k - 1]}
             /\ Below(list, i) = reach[Len(list)]
<1> DEFINE V == SUBSET (Ids(list) \cup {i})
           grow == [T \in V |-> T \cup UNION {Kids(list, j) : j \in T}]
           n == Len(list)
<1>1. n \in Nat
  OBVIOUS
<1>2. grow \in [V -> V] /\ {i} \in V
  BY KidsAreIds
<1> HIDE DEF V, grow, n
<1>3. PICK g \in [0 .. n -> V] : \A k \in 0 .. n : g[k] = IF k = 0 THEN {i} ELSE grow[g[k - 1]]
  <2>1. Runs(V, {i}, grow, n) # {}
    BY <1>1, <1>2, Iterated
  <2>2. QED BY <2>1 DEF Runs
<1>4. \A k \in 0 .. n : k # 0 => grow[g[k - 1]] = g[k - 1] \cup UNION {Kids(list, j) : j \in g[k - 1]}
  <2>1. \A T \in V : grow[T] = T \cup UNION {Kids(list, j) : j \in T}
    BY DEF grow
  <2>2. \A k \in 0 .. n : k # 0 => g[k - 1] \in V
    BY <1>1, <1>3
  <2>3. QED BY <2>1, <2>2
<1> DEFINE eq(r) == r = [k \in 0 .. n |-> IF k = 0 THEN {i}
                             ELSE r[k - 1] \cup UNION {Kids(list, j) : j \in r[k - 1]}]
<1>5. eq(g)
  <2>1. g = [k \in 0 .. n |-> g[k]]
    BY <1>3
  <2>2. \A k \in 0 .. n : g[k] = IF k = 0 THEN {i}
                             ELSE g[k - 1] \cup UNION {Kids(list, j) : j \in g[k - 1]}
    BY <1>3, <1>4
  <2>3. QED BY <2>1, <2>2
<1> DEFINE r == CHOOSE r : eq(r)
<1>6. eq(r)
  <2> HIDE DEF eq
  <2>1. QED BY <1>5
<1>7. Below(list, i) = r[n]
  BY DEF Below, n
<1> HIDE DEF r
<1>8. \A k \in 0 .. n : r[k] = IF k = 0 THEN {i}
                             ELSE r[k - 1] \cup UNION {Kids(list, j) : j \in r[k - 1]}
  BY <1>6
<1>9. r \in [0 .. n -> V]
  <2> DEFINE S == {k \in Nat : k \in 0 .. n => r[k] \in V}
  <2>1. 0 \in S
    BY <1>8, <1>2, <1>1
  <2>2. ASSUME NEW k \in Nat, k \in S, k + 1 \in 0 .. n PROVE r[k + 1] \in V
    <3>1. k \in 0 .. n /\ (k + 1) - 1 = k /\ k + 1 # 0
      BY <2>2, <1>1
    <3>2. r[k + 1] = r[k] \cup UNION {Kids(list, j) : j \in r[k]}
      BY <3>1, <2>2, <1>8
    <3>3. r[k] \in V
      BY <3>1, <2>2
    <3>4. QED BY <3>2, <3>3, KidsAreIds DEF V
  <2>3. \A k \in Nat : k \in S => k + 1 \in S
    BY <2>2
  <2> HIDE DEF S
  <2>4. Nat \subseteq S
    BY <2>1, <2>3, FromZeroUp
  <2>5. \A k \in 0 .. n : r[k] \in V
    BY <2>4, <1>1 DEF S
  <2>6. r = [k \in 0 .. n |-> r[k]]
    BY <1>6
  <2>7. QED BY <2>5, <2>6
<1>10. QED BY <1>7, <1>8, <1>9 DEF V, n

\* Below holds the node itself, only nodes of the list, and every child of its
\* own nodes; and it is the least such set.
LEMMA BelowIsLeast ==
    ASSUME NEW list \in Seq(Node), NEW i
    PROVE  /\ i \in Below(list, i)
           /\ Below(list, i) \subseteq Ids(list) \cup {i}
           /\ ClosedIn(list, Below(list, i))
           /\ \A C : i \in C /\ ClosedIn(list, C) => Below(list, i) \subseteq C
<1> DEFINE n == Len(list)
           U == Ids(list) \cup {i}
<1>1. n \in Nat
  OBVIOUS
<1>2. PICK r \in [0 .. n -> SUBSET U] :
        /\ \A k \in 0 .. n : r[k] = IF k = 0 THEN {i}
                             ELSE r[k - 1] \cup UNION {Kids(list, j) : j \in r[k - 1]}
        /\ Below(list, i) = r[n]
  BY Generations
<1>3. IsFiniteSet(U) /\ Cardinality(U) <= n + 1
  BY IdsFinite, FS_AddElement, FS_CardinalityType
<1>4. \A T \in SUBSET U : IsFiniteSet(T) /\ Cardinality(T) \in Nat
  BY <1>3, FS_Subset, FS_CardinalityType
<1> HIDE DEF n, U
<1>5. ASSUME NEW k \in Nat, k + 1 \in 0 .. n
      PROVE  k \in 0 .. n /\ r[k + 1] = r[k] \cup UNION {Kids(list, j) : j \in r[k]}
  <2>1. k \in 0 .. n /\ (k + 1) - 1 = k /\ k + 1 # 0
    BY <1>5, <1>1
  <2>2. QED BY <1>2, <1>5, <2>1
<1>6. 0 \in 0 .. n /\ r[0] = {i}
  BY <1>1, <1>2
<1>7. \A k \in 0 .. n : i \in r[k]
  <2> DEFINE S == {k \in Nat : k \in 0 .. n => i \in r[k]}
  <2>1. 0 \in S
    BY <1>6
  <2>2. \A k \in Nat : k \in S => k + 1 \in S
    BY <1>5
  <2> HIDE DEF S
  <2>3. Nat \subseteq S
    BY <2>1, <2>2, FromZeroUp
  <2>4. QED BY <2>3, <1>1 DEF S
<1>8. ASSUME NEW C, i \in C, ClosedIn(list, C) PROVE r[n] \subseteq C
  <2> DEFINE S == {k \in Nat : k \in 0 .. n => r[k] \subseteq C}
  <2>1. 0 \in S
    BY <1>6, <1>8
  <2>2. ASSUME NEW k \in Nat, k \in S, k + 1 \in 0 .. n PROVE r[k + 1] \subseteq C
    BY <2>2, <1>5, <1>8 DEF ClosedIn
  <2>3. \A k \in Nat : k \in S => k + 1 \in S
    BY <2>2
  <2> HIDE DEF S
  <2>4. Nat \subseteq S
    BY <2>1, <2>3, FromZeroUp
  <2>5. QED BY <2>4, <1>1 DEF S
<1>9. ClosedIn(list, r[n])
  <2> DEFINE Grown(k) == ClosedIn(list, r[k]) \/ Cardinality(r[k]) >= k + 1
             S == {k \in Nat : k \in 0 .. n => Grown(k)}
  <2>1. Cardinality({i}) = 1
    BY FS_Singleton
  <2>2. 0 \in S
    <3>1. Cardinality(r[0]) = 1
      BY <2>1, <1>6
    <3>2. QED BY <3>1
  <2>3. ASSUME NEW k \in Nat, k \in S, k + 1 \in 0 .. n PROVE Grown(k + 1)
    <3>1. k \in 0 .. n /\ r[k + 1] = r[k] \cup UNION {Kids(list, j) : j \in r[k]}
      BY <1>5, <2>3
    <3>2. CASE ClosedIn(list, r[k])
      <4>1. r[k + 1] = r[k]
        BY <3>1, <3>2 DEF ClosedIn
      <4>2. ClosedIn(list, r[k + 1])
        BY <4>1, <3>2
      <4>3. QED BY <4>2
    <3>3. CASE ~ ClosedIn(list, r[k])
      <4>1. r[k + 1] # r[k] /\ r[k] \subseteq r[k + 1]
        BY <3>1, <3>3 DEF ClosedIn
      <4>2. r[k] \in SUBSET U /\ r[k + 1] \in SUBSET U
        BY <1>2, <3>1, <2>3
      <4>3. Cardinality(r[k]) < Cardinality(r[k + 1])
        <5>1. /\ Cardinality(r[k]) <= Cardinality(r[k + 1])
              /\ Cardinality(r[k]) = Cardinality(r[k + 1]) => r[k] = r[k + 1]
          BY <4>1, <4>2, <1>4, FS_Subset
        <5>2. QED BY <4>1, <4>2, <5>1, <1>4
      <4>4. Cardinality(r[k]) >= k + 1
        BY <2>3, <3>1, <3>3
      <4>5. QED BY <4>2, <4>3, <4>4, <1>4
    <3>4. QED BY <3>2, <3>3
  <2>4. \A k \in Nat : k \in S => k + 1 \in S
    BY <2>3
  <2> HIDE DEF S
  <2>5. Nat \subseteq S
    BY <2>2, <2>4, FromZeroUp
  <2>6. Grown(n)
    BY <2>5, <1>1 DEF S
  <2>7. CASE Cardinality(r[n]) >= n + 1
    <3>1. r[n] \in SUBSET U
      BY <1>1, <1>2
    <3>2. /\ Cardinality(r[n]) <= Cardinality(U)
          /\ Cardinality(r[n]) = Cardinality(U) => r[n] = U
      BY <3>1, <1>3, FS_Subset
    <3>3. r[n] = U
      BY <3>1, <3>2, <2>7, <1>1, <1>3, <1>4
    <3>4. QED BY <3>3, KidsAreIds DEF ClosedIn, U
  <2>8. QED BY <2>6, <2>7
<1>10. QED
  <2>1. n \in 0 .. n BY <1>1
  <2>2. QED BY <2>1, <1>2, <1>7, <1>8, <1>9 DEF U

----------------------------------------------------------------------------
(* What leaving nodes out keeps. *)

\* Nodes have growing ids along the list.
Ordered(list) == \A j, k \in DOMAIN list : j < k => list[j].id < list[k].id

\* The fold of Without, line by line.
WithoutSteps(list, gone) ==
    {kept \in [0 .. Len(list) -> Seq(Node)] :
       \A k \in 0 .. Len(list) :
         kept[k] = IF k = 0 THEN <<>>
                   ELSE IF list[k].id \in gone THEN kept[k - 1]
                   ELSE Append(kept[k - 1], list[k])}

LEMMA WithoutStepwise ==
    ASSUME NEW list \in Seq(Node), NEW gone
    PROVE  \E kept \in WithoutSteps(list, gone) : Without(list, gone) = kept[Len(list)]
<1>1. PICK n \in Nat : n = Len(list) /\ DOMAIN list = 1 .. n
  OBVIOUS
<1>0. PICK V : V = Seq(Node)
  OBVIOUS
<1>2. PICK none \in V : none = <<>>
  <2>1. <<>> \in Seq(Node)
    OBVIOUS
  <2>2. QED BY <1>0, <2>1
<1>3. PICK f \in [V \X (1 .. n) -> V] : \A v \in V, k \in 1 .. n :
        f[<<v, k>>] = IF list[k].id \in gone THEN v ELSE Append(v, list[k])
  <2> DEFINE f == [vx \in V \X (1 .. n) |->
                     IF list[vx[2]].id \in gone THEN vx[1] ELSE Append(vx[1], list[vx[2]])]
  <2>1. \A k \in 1 .. n : list[k] \in Node
    BY <1>1
  <2>2. f \in [V \X (1 .. n) -> V]
    BY <1>0, <2>1
  <2>3. \A v \in V, k \in 1 .. n :
          f[<<v, k>>] = IF list[k].id \in gone THEN v ELSE Append(v, list[k])
    OBVIOUS
  <2> HIDE DEF f
  <2>4. QED BY <2>2, <2>3
<1> DEFINE eq(r) == r = [s \in SUBSET (1 .. n) |->
               IF s = {} THEN <<>>
               ELSE IF list[Max(s)].id \in gone THEN r[s \ {Max(s)}]
                    ELSE Append(r[s \ {Max(s)}], list[Max(s)])]
<1>4. \A s \in SUBSET (1 .. n) : s # {} => Max(s) \in 1 .. n
  BY MaxIsIn
<1>5. PICK g \in LeftFolds(V, none, n, f) : TRUE
  BY <1>2, LeftFolded
<1>6. eq(g)
  <2>1. g = [s \in SUBSET (1 .. n) |-> g[s]] /\ \A s \in SUBSET (1 .. n) : g[s] \in V
    BY <1>5 DEF LeftFolds
  <2>2. ASSUME NEW s \in SUBSET (1 .. n), s # {}
        PROVE  g[s] = IF list[Max(s)].id \in gone THEN g[s \ {Max(s)}]
                      ELSE Append(g[s \ {Max(s)}], list[Max(s)])
    <3>1. g[s] = f[<<g[s \ {Max(s)}], Max(s)>>]
      BY <2>2, <1>5 DEF LeftFolds
    <3>2. g[s \ {Max(s)}] \in V /\ Max(s) \in 1 .. n
      BY <2>1, <2>2, <1>4
    <3>3. QED BY <3>1, <3>2, <1>3
  <2>3. g[{}] = <<>>
    BY <1>2, <1>5 DEF LeftFolds
  <2>4. QED BY <2>1, <2>2, <2>3
<1>7. PICK r : eq(r) /\ Without(list, gone) = r[1 .. n]
  <2>1. Without(list, gone) = (CHOOSE r : eq(r))[1 .. n]
    BY <1>1 DEF Without, FoldLeft, MapThenFoldSet
  <2> HIDE DEF eq
  <2>2. eq(CHOOSE r : eq(r))
    BY <1>6
  <2>3. QED BY <2>1, <2>2
<1>8. FoldsLeft(V, none, n, f, r)
  <2>1. r[{}] = none
    BY <1>2, <1>7
  <2>2. ASSUME NEW s \in SUBSET (1 .. n), s # {}, r[s \ {Max(s)}] \in V
        PROVE  r[s] = f[<<r[s \ {Max(s)}], Max(s)>>]
    <3>1. r[s] = IF list[Max(s)].id \in gone THEN r[s \ {Max(s)}]
                 ELSE Append(r[s \ {Max(s)}], list[Max(s)])
      BY <1>7, <2>2
    <3>2. QED BY <3>1, <1>3, <1>4, <2>2
  <2>3. QED BY <2>1, <2>2 DEF FoldsLeft
<1> HIDE DEF eq
<1>9. PICK d \in LeftSteps(V, none, n, f) : r[1 .. n] = d[n]
  BY <1>8, LeftFoldIs
<1>10. d \in [0 .. n -> V] /\ \A k \in 0 .. n : d[k] = IF k = 0 THEN none ELSE f[<<d[k - 1], k>>]
  BY <1>9 DEF LeftSteps
<1>11. ASSUME NEW k \in 0 .. n, k # 0
       PROVE  d[k] = IF list[k].id \in gone THEN d[k - 1] ELSE Append(d[k - 1], list[k])
  <2>1. k \in 1 .. n /\ k - 1 \in 0 .. n
    BY <1>11
  <2>2. QED BY <2>1, <1>3, <1>10, <1>11
<1>12. d \in WithoutSteps(list, gone)
  BY <1>0, <1>1, <1>2, <1>10, <1>11 DEF WithoutSteps
<1>13. QED BY <1>1, <1>7, <1>9, <1>12

\* What Without leaves: the other nodes, in their order.
LEMMA WithoutIs ==
    ASSUME NEW list \in Seq(Node), NEW gone
    PROVE  /\ Without(list, gone) \in Seq(Node)
           /\ ToSet(Without(list, gone)) = {n \in ToSet(list) : n.id \notin gone}
           /\ Ordered(list) => Ordered(Without(list, gone))
<1> DEFINE n == Len(list)
<1>1. n \in Nat /\ DOMAIN list = 1 .. n /\ \A k \in 1 .. n : list[k] \in Node
  OBVIOUS
<1>2. PICK kept \in [0 .. n -> Seq(Node)] :
        /\ Without(list, gone) = kept[n]
        /\ \A k \in 0 .. n :
             kept[k] = IF k = 0 THEN <<>>
                       ELSE IF list[k].id \in gone THEN kept[k - 1]
                       ELSE Append(kept[k - 1], list[k])
  <2>1. PICK kept \in WithoutSteps(list, gone) : Without(list, gone) = kept[Len(list)]
    BY WithoutStepwise
  <2>2. QED BY <2>1 DEF WithoutSteps
<1> HIDE DEF n
<1> DEFINE Right(k) ==
             /\ ToSet(kept[k]) = {list[j] : j \in {j \in 1 .. k : list[j].id \notin gone}}
             /\ Ordered(list) => Ordered(kept[k])
           S == {k \in Nat : k \in 0 .. n => Right(k)}
<1>3. Right(0)
  <2>1. kept[0] = <<>> /\ 1 .. 0 = {}
    BY <1>1, <1>2
  <2>2. QED BY <2>1 DEF ToSet, Ordered
<1>4. ASSUME NEW k \in Nat, k \in S, k + 1 \in 0 .. n PROVE Right(k + 1)
  <2>1. k \in 0 .. n /\ (k + 1) - 1 = k /\ k + 1 # 0 /\ k + 1 \in 1 .. n
    BY <1>4, <1>1
  <2>2. kept[k] \in Seq(Node) /\ list[k + 1] \in Node /\ Right(k)
    BY <2>1, <1>1, <1>2, <1>4
  <2>3. kept[k + 1] = IF list[k + 1].id \in gone THEN kept[k] ELSE Append(kept[k], list[k + 1])
    BY <2>1, <1>2, <1>4
  <2>4. 1 .. k + 1 = (1 .. k) \cup {k + 1}
    BY <1>4
  <2>5. CASE list[k + 1].id \in gone
    <3>1. {j \in 1 .. k + 1 : list[j].id \notin gone} = {j \in 1 .. k : list[j].id \notin gone}
      BY <2>4, <2>5
    <3>2. kept[k + 1] = kept[k]
      BY <2>3, <2>5
    <3>3. ToSet(kept[k + 1]) = {list[j] : j \in {j \in 1 .. k + 1 : list[j].id \notin gone}}
      BY <3>1, <3>2, <2>2
    <3>4. Ordered(list) => Ordered(kept[k + 1])
      BY <3>2, <2>2
    <3>5. QED BY <3>3, <3>4
  <2>6. CASE list[k + 1].id \notin gone
    <3> DEFINE s == kept[k]
               t == Append(s, list[k + 1])
    <3>1. {j \in 1 .. k + 1 : list[j].id \notin gone} = {j \in 1 .. k : list[j].id \notin gone} \cup {k + 1}
      BY <2>4, <2>6
    <3>2. kept[k + 1] = t
      BY <2>3, <2>6
    <3>3. /\ DOMAIN s = 1 .. Len(s) /\ Len(s) \in Nat
          /\ DOMAIN t = (1 .. Len(s)) \cup {Len(s) + 1}
          /\ t[Len(s) + 1] = list[k + 1]
          /\ \A j \in 1 .. Len(s) : t[j] = s[j]
      BY <2>2
    <3> HIDE DEF s, t
    <3>4. ToSet(t) = ToSet(s) \cup {list[k + 1]}
      BY <3>3 DEF ToSet
    <3>5. ToSet(kept[k + 1]) = {list[j] : j \in {j \in 1 .. k + 1 : list[j].id \notin gone}}
      BY <3>1, <3>2, <3>4, <2>2 DEF s
    <3>6. ASSUME Ordered(list) PROVE Ordered(t)
      <4>1. Ordered(s)
        BY <3>6, <2>2 DEF s
      <4>2. \A j \in 1 .. Len(s) : s[j].id < list[k + 1].id
        <5>1. ASSUME NEW j \in 1 .. Len(s) PROVE s[j].id < list[k + 1].id
          <6>1. s[j] \in ToSet(s)
            BY <3>3 DEF ToSet
          <6>2. PICK m \in 1 .. k : s[j] = list[m]
            BY <6>1, <2>2 DEF s
          <6>3. m \in DOMAIN list /\ k + 1 \in DOMAIN list /\ m < k + 1
            BY <2>1, <1>1
          <6>4. QED BY <6>2, <6>3, <3>6 DEF Ordered
        <5>2. QED BY <5>1
      <4>3. ASSUME NEW j \in DOMAIN t, NEW l \in DOMAIN t, j < l PROVE t[j].id < t[l].id
        <5>1. CASE l \in 1 .. Len(s)
          <6>1. j \in 1 .. Len(s)
            BY <5>1, <4>3, <3>3
          <6>2. QED BY <6>1, <5>1, <4>1, <4>3, <3>3 DEF Ordered
        <5>2. CASE l = Len(s) + 1
          <6>1. j \in 1 .. Len(s)
            BY <5>2, <4>3, <3>3
          <6>2. QED BY <6>1, <5>2, <4>2, <3>3
        <5>3. QED BY <5>1, <5>2, <3>3
      <4>4. QED BY <4>3 DEF Ordered
    <3>7. QED BY <3>2, <3>5, <3>6
  <2>7. QED BY <2>5, <2>6
<1>5. 0 \in S /\ \A k \in Nat : k \in S => k + 1 \in S
  <2> HIDE DEF Right
  <2>1. QED BY <1>3, <1>4
<1>6. Right(n)
  <2> HIDE DEF S
  <2>1. Nat \subseteq S
    BY <1>5, FromZeroUp
  <2>2. QED BY <2>1, <1>1 DEF S
<1>7. {list[j] : j \in {j \in 1 .. n : list[j].id \notin gone}} = {m \in ToSet(list) : m.id \notin gone}
  <2>1. \A m : m \in ToSet(list) <=> \E j \in 1 .. n : m = list[j]
    BY <1>1 DEF ToSet
  <2>2. QED BY <2>1
<1>8. n \in 0 .. n BY <1>1
<1>9. QED BY <1>2, <1>6, <1>7, <1>8

----------------------------------------------------------------------------
(* Every node hangs below a root, whatever the editor does. *)

RootIds(list) == {n.id : n \in {m \in ToSet(list) : m.parent = 0}}

\* Every node hangs below a root: what holds the roots and the children of its
\* nodes holds all nodes.
Hanging(list) ==
    \A C : RootIds(list) \subseteq C /\ ClosedIn(list, C) => Ids(list) \subseteq C

\* The formula of AllShown says just that.
LEMMA HangingIsShown ==
    ASSUME NEW list \in Seq(Node)
    PROVE  Hanging(list) <=>
             Ids(list) = UNION {Below(list, n.id) : n \in {m \in ToSet(list) : m.parent = 0}}
<1> DEFINE All == UNION {Below(list, n.id) : n \in {m \in ToSet(list) : m.parent = 0}}
<1>1. All = UNION {Below(list, i) : i \in RootIds(list)}
  BY DEF RootIds
<1> HIDE DEF All
<1>2. RootIds(list) \subseteq Ids(list)
  BY DEF RootIds, Ids
<1>3. /\ RootIds(list) \subseteq All /\ All \subseteq Ids(list)
      /\ ClosedIn(list, All)
  <2>1. ASSUME NEW i \in RootIds(list)
        PROVE  i \in Below(list, i) /\ Below(list, i) \subseteq Ids(list) /\ ClosedIn(list, Below(list, i))
    BY <1>2, BelowIsLeast
  <2>2. QED BY <1>1, <2>1 DEF ClosedIn
<1>4. ASSUME NEW C, RootIds(list) \subseteq C, ClosedIn(list, C) PROVE All \subseteq C
  <2>1. ASSUME NEW i \in RootIds(list) PROVE Below(list, i) \subseteq C
    BY <1>4, BelowIsLeast
  <2>2. QED BY <1>1, <2>1
<1>5. QED BY <1>3, <1>4 DEF Hanging, All

\* A list with the same nodes and parents hangs as well.
LEMMA SameShape ==
    ASSUME NEW list \in Seq(Node), NEW list2 \in Seq(Node),
           DOMAIN list2 = DOMAIN list,
           \A k \in DOMAIN list : list2[k].id = list[k].id /\ list2[k].parent = list[k].parent
    PROVE  /\ Ids(list2) = Ids(list) /\ RootIds(list2) = RootIds(list)
           /\ \A i : Kids(list2, i) = Kids(list, i)
           /\ Hanging(list) => Hanging(list2)
           /\ Ordered(list) => Ordered(list2)
<1>1. Ids(list2) = Ids(list)
  BY DEF Ids, ToSet
<1>2. RootIds(list2) = RootIds(list)
  BY DEF RootIds, ToSet
<1>3. \A i : Kids(list2, i) = Kids(list, i)
  BY DEF Kids, ToSet
<1>4. QED BY <1>1, <1>2, <1>3 DEF Hanging, ClosedIn, Ordered

\* Deleting a node deletes all below it, and the others still hang.
LEMMA DeletedHangs ==
    ASSUME NEW list \in Seq(Node), NEW i \in Ids(list), Hanging(list)
    PROVE  Hanging(Deleted(list, i))
<1> DEFINE B == Below(list, i)
           l2 == Deleted(list, i)
<1>1. ToSet(l2) = {n \in ToSet(list) : n.id \notin B}
  BY WithoutIs DEF Deleted
<1>2. i \in B /\ B \subseteq Ids(list) /\ ClosedIn(list, B)
  BY BelowIsLeast
<1> HIDE DEF B, l2
<1>3. Ids(l2) = Ids(list) \ B
  BY <1>1 DEF Ids
<1>4. RootIds(l2) = RootIds(list) \ B
  BY <1>1 DEF RootIds
<1>5. \A j : Kids(l2, j) = Kids(list, j) \ B
  BY <1>1 DEF Kids
<1>6. ASSUME NEW C, RootIds(l2) \subseteq C, ClosedIn(l2, C) PROVE Ids(l2) \subseteq C
  <2>1. RootIds(list) \subseteq C \cup B
    BY <1>4, <1>6
  <2>2. ClosedIn(list, C \cup B)
    BY <1>2, <1>5, <1>6 DEF ClosedIn
  <2>3. Ids(list) \subseteq C \cup B
    BY <2>1, <2>2 DEF Hanging
  <2>4. QED BY <2>3, <1>3
<1>7. QED BY <1>6 DEF Hanging, l2

\* Where two places have one id they are one place.
LEMMA OnePlace ==
    ASSUME NEW list \in Seq(Node), Ordered(list)
    PROVE  \A j, k \in DOMAIN list : list[j].id = list[k].id => j = k
<1> SUFFICES ASSUME NEW j \in DOMAIN list, NEW k \in DOMAIN list, list[j].id = list[k].id
             PROVE  j = k
  OBVIOUS
<1>1. j \in Int /\ k \in Int /\ list[j] \in Node /\ list[k] \in Node
  OBVIOUS
<1>2. list[j].id \in Int
  BY <1>1 DEF Node
<1>3. ~ (j < k) /\ ~ (k < j)
  BY <1>2 DEF Ordered
<1>4. QED BY <1>1, <1>3

\* What Shown finds.
LEMMA ShownIs ==
    ASSUME NEW list \in Seq(Node), Ordered(list), NEW k \in DOMAIN list
    PROVE  Shown(list, list[k].id) = list[k]
<1>1. \A n \in ToSet(list) : n.id = list[k].id => n = list[k]
  BY OnePlace DEF ToSet
<1>2. list[k] \in ToSet(list)
  BY DEF ToSet
<1>3. QED BY <1>1, <1>2 DEF Shown

\* Dragging keeps the list and hangs every node: a node is never put below one
\* of its own.
LEMMA ReparentedHangs ==
    ASSUME NEW list \in Seq(Node), Ordered(list), Hanging(list),
           NEW i \in Ids(list), NEW p \in Ids(list)
    PROVE  /\ Reparented(list, i, p) \in Seq(Node)
           /\ Ordered(Reparented(list, i, p))
           /\ Hanging(Reparented(list, i, p))
<1> DEFINE B == Below(list, i)
           l2 == Reparented(list, i, p)
<1>1. CASE p \in B
  BY <1>1 DEF Reparented
<1>2. CASE p \notin B
  <2>1. l2 = [k \in DOMAIN list |-> IF list[k].id = i THEN [list[k] EXCEPT !.parent = p] ELSE list[k]]
    BY <1>2 DEF Reparented
  <2>2. \A k \in DOMAIN list : list[k] \in Node
    OBVIOUS
  <2>3. p \in 1 .. MaxRows
    BY <2>2 DEF Ids, ToSet, Node
  <2>4. i \in B /\ B \subseteq Ids(list) /\ ClosedIn(list, B)
    BY BelowIsLeast
  <2>5. \A C : i \in C /\ ClosedIn(list, C) => B \subseteq C
    BY BelowIsLeast
  <2> HIDE DEF B, l2
  <2>6. ASSUME NEW k \in DOMAIN list
        PROVE  /\ l2[k] \in Node /\ l2[k].id = list[k].id
               /\ l2[k].parent = IF list[k].id = i THEN p ELSE list[k].parent
    <3>1. CASE list[k].id = i
      <4>1. list[k] \in Node
        BY <2>2
      <4>2. l2[k] = [list[k] EXCEPT !.parent = p]
        BY <3>1, <2>1
      <4>3. ASSUME NEW n \in Node, NEW q \in 0 .. MaxRows
            PROVE  LET m == [n EXCEPT !.parent = q] IN m \in Node /\ m.id = n.id /\ m.parent = q
        BY DEF Node
      <4>4. p \in 0 .. MaxRows
        BY <2>3
      <4>5. QED BY <4>1, <4>2, <4>3, <4>4, <3>1
    <3>2. CASE list[k].id # i
      BY <3>2, <2>1, <2>2
    <3>3. QED BY <3>1, <3>2
  <2>7. DOMAIN l2 = DOMAIN list /\ Len(list) \in Nat /\ DOMAIN list = 1 .. Len(list)
    BY <2>1
  <2>8. l2 \in Seq(Node)
    BY <2>1, <2>6, <2>7
  <2>9. Ordered(l2)
    BY <2>6, <2>7 DEF Ordered
  <2>10. Ids(l2) = Ids(list)
    BY <2>6, <2>7 DEF Ids, ToSet
  <2>11. RootIds(list) \subseteq RootIds(l2) \cup {i}
    BY <2>6, <2>7 DEF RootIds, ToSet
  <2>12. \A j : Kids(list, j) \subseteq Kids(l2, j) \cup {i}
    BY <2>6, <2>7 DEF Kids, ToSet
  <2>13. i \in Kids(l2, p)
    BY <2>6, <2>7 DEF Kids, ToSet, Ids
  <2>14. ASSUME NEW C, RootIds(l2) \subseteq C, ClosedIn(l2, C) PROVE Ids(l2) \subseteq C
    <3>1. RootIds(list) \subseteq C \cup B
      BY <2>4, <2>11, <2>14
    <3>2. ClosedIn(list, C \cup B)
      BY <2>4, <2>12, <2>14 DEF ClosedIn
    <3>3. Ids(list) \subseteq C \cup B
      BY <3>1, <3>2 DEF Hanging
    <3>4. p \in C
      BY <3>3, <1>2 DEF B
    <3>5. i \in C
      BY <3>4, <2>13, <2>14 DEF ClosedIn
    <3>6. ClosedIn(list, B \cap C)
      BY <3>5, <2>4, <2>12, <2>14 DEF ClosedIn
    <3>7. B \subseteq C
      BY <3>5, <3>6, <2>4, <2>5
    <3>8. QED BY <3>3, <3>7, <2>10
  <2>15. Hanging(l2)
    BY <2>14 DEF Hanging
  <2>16. QED BY <2>8, <2>9, <2>15 DEF l2
<1>3. QED BY <1>1, <1>2

\* Typing into a node keeps the list and its shape.
LEMMA UpdatedHangs ==
    ASSUME NEW list \in Seq(Node), Ordered(list), Hanging(list), NEW i, NEW field, NEW v,
           \/ field = "kode" /\ v \in Kode \cup {Blank}
           \/ field = "pagu" /\ v \in Int
           \/ field = "sd" /\ v \in Int
    PROVE  /\ Updated(list, i, field, v) \in Seq(Node)
           /\ Ordered(Updated(list, i, field, v))
           /\ Hanging(Updated(list, i, field, v))
<1> DEFINE l2 == Updated(list, i, field, v)
<1>1. Len(list) \in Nat /\ DOMAIN list = 1 .. Len(list) /\ \A k \in DOMAIN list : list[k] \in Node
  OBVIOUS
<1>2. ASSUME NEW k \in DOMAIN list
      PROVE  l2[k] \in Node /\ l2[k].id = list[k].id /\ l2[k].parent = list[k].parent
  <2>1. list[k] \in Node
    BY <1>1
  <2>2. l2[k] = IF list[k].id = i THEN [list[k] EXCEPT ![field] = v] ELSE list[k]
    BY DEF Updated
  <2>3. CASE field = "kode" /\ v \in Kode \cup {Blank}
    BY <2>1, <2>2, <2>3 DEF Node
  <2>4. CASE field = "pagu" /\ v \in Int
    BY <2>1, <2>2, <2>4 DEF Node
  <2>5. CASE field = "sd" /\ v \in Int
    BY <2>1, <2>2, <2>5 DEF Node
  <2>6. QED BY <2>3, <2>4, <2>5
<1>3. l2 = [k \in DOMAIN list |-> l2[k]]
  BY DEF Updated
<1> HIDE DEF l2
<1>4. l2 \in Seq(Node) /\ DOMAIN l2 = DOMAIN list
  BY <1>1, <1>2, <1>3
<1>5. QED BY <1>2, <1>4, SameShape DEF l2

\* What is locked is normalised and nothing else: the shape stays.
LEMMA NormalizedHangs ==
    ASSUME NEW list \in Seq(Node)
    PROVE  /\ Normalized(list) \in Seq(Node)
           /\ DOMAIN Normalized(list) = DOMAIN list
           /\ \A k \in DOMAIN list : /\ Normalized(list)[k].id = list[k].id
                                     /\ Normalized(list)[k].parent = list[k].parent
<1> DEFINE l2 == Normalized(list)
<1>1. Len(list) \in Nat /\ DOMAIN list = 1 .. Len(list) /\ \A k \in DOMAIN list : list[k] \in Node
  OBVIOUS
<1>2. ASSUME NEW k \in DOMAIN list
      PROVE  l2[k] \in Node /\ l2[k].id = list[k].id /\ l2[k].parent = list[k].parent
  <2>1. list[k] \in Node
    BY <1>1
  <2>2. l2[k] = NormalizeByLock(list[k])
    BY DEF Normalized
  <2>3. CASE IsLocked(list[k])
    <3>1. l2[k] = [list[k] EXCEPT !.sd = 0, !.sisa = list[k].pagu]
      BY <2>2, <2>3 DEF NormalizeByLock
    <3> DEFINE n == list[k]
               x == n.pagu
               zero == 0
    <3>2. n \in Node /\ zero \in Int /\ l2[k] = [n EXCEPT !.sd = zero, !.sisa = x]
      BY <3>1, <2>1
    <3>5. x \in Int
      BY <3>2 DEF Node
    <3> HIDE DEF n, l2, x, zero
    <3>3. l2[k] \in Node /\ l2[k].id = n.id /\ l2[k].parent = n.parent
      BY <3>2, <3>5 DEF Node
    <3>4. QED BY <3>3 DEF n
  <2>4. CASE ~ IsLocked(list[k])
    <3>1. l2[k] = list[k]
      BY <2>2, <2>4 DEF NormalizeByLock
    <3>2. QED BY <3>1, <2>1
  <2>5. QED BY <2>3, <2>4
<1>3. l2 = [k \in DOMAIN list |-> l2[k]]
  BY DEF Normalized
<1> HIDE DEF l2
<1>4. l2 \in Seq(Node) /\ DOMAIN l2 = DOMAIN list
  BY <1>1, <1>2, <1>3
<1>5. QED BY <1>2, <1>4 DEF l2

----------------------------------------------------------------------------
(* Auto Kalkulasi: what each node is computed to. *)

\* The sums Recalculated takes of the computed nodes, and what it makes of one.
PaguOver(calc, S) == MapThenSumSet(LAMBDA c : calc[c].pagu, S)
SdOver(calc, S) == MapThenSumSet(LAMBDA c : calc[c].sd, S)

Summed(list, calc, i) ==
    LET n == Shown(list, i)
        kids == Kids(list, i)
    IN  IF kids = {} THEN n
        ELSE [n EXCEPT !.pagu = PaguOver(calc, kids), !.sd = SdOver(calc, kids)]

Settled(m) ==
    LET real == IF IsLocked(m) THEN 0 ELSE m.sd
    IN  [m EXCEPT !.sd = real, !.sisa = m.pagu - real]

Computed(list, calc, i) == Settled(Summed(list, calc, i))

\* Both are sums in the sense of SumOn.
LEMMA PaguIsSum ==
    ASSUME NEW calc, NEW S, NEW f, \A c \in S : f[c] = calc[c].pagu
    PROVE  PaguOver(calc, S) = SumOn(f, S)
<1> DEFINE p(it) == it = [s \in SUBSET S |-> IF s = {} THEN 0 ELSE f[CHOOSE x \in s : TRUE] + it[s \ {CHOOSE x \in s : TRUE}]]
           q(it) == it = [s \in SUBSET S |-> IF s = {} THEN 0 ELSE calc[CHOOSE x \in s : TRUE].pagu + it[s \ {CHOOSE x \in s : TRUE}]]
<1>1. \A s \in SUBSET S : s # {} => (CHOOSE x \in s : TRUE) \in S
  OBVIOUS
<1>2. \A s \in SUBSET S : s # {} => f[CHOOSE x \in s : TRUE] = calc[CHOOSE x \in s : TRUE].pagu
  BY <1>1
<1>3. \A it : p(it) <=> q(it)
  BY <1>2
<1>4. SumOn(f, S) = (CHOOSE it : p(it))[S] /\ PaguOver(calc, S) = (CHOOSE it : q(it))[S]
  BY DEF SumOn, PaguOver, MapThenSumSet, MapThenFoldSet
<1>5. (CHOOSE it : p(it)) = (CHOOSE it : q(it))
  <2> HIDE DEF p, q
  <2>1. QED BY <1>3
<1>6. QED BY <1>4, <1>5

\* Likewise the realisation.
LEMMA SdIsSum ==
    ASSUME NEW calc, NEW S, NEW f, \A c \in S : f[c] = calc[c].sd
    PROVE  SdOver(calc, S) = SumOn(f, S)
<1> DEFINE p(it) == it = [s \in SUBSET S |-> IF s = {} THEN 0 ELSE f[CHOOSE x \in s : TRUE] + it[s \ {CHOOSE x \in s : TRUE}]]
           q(it) == it = [s \in SUBSET S |-> IF s = {} THEN 0 ELSE calc[CHOOSE x \in s : TRUE].sd + it[s \ {CHOOSE x \in s : TRUE}]]
<1>1. \A s \in SUBSET S : s # {} => (CHOOSE x \in s : TRUE) \in S
  OBVIOUS
<1>2. \A s \in SUBSET S : s # {} => f[CHOOSE x \in s : TRUE] = calc[CHOOSE x \in s : TRUE].sd
  BY <1>1
<1>3. \A it : p(it) <=> q(it)
  BY <1>2
<1>4. SumOn(f, S) = (CHOOSE it : p(it))[S] /\ SdOver(calc, S) = (CHOOSE it : q(it))[S]
  BY DEF SumOn, SdOver, MapThenSumSet, MapThenFoldSet
<1>5. (CHOOSE it : p(it)) = (CHOOSE it : q(it))
  <2> HIDE DEF p, q
  <2>1. QED BY <1>3
<1>6. QED BY <1>4, <1>5

\* A node is computed from its children alone.
LEMMA ComputedFromKids ==
    ASSUME NEW list, NEW i, NEW calc, NEW calc2, \A c \in Kids(list, i) : calc[c] = calc2[c]
    PROVE  Computed(list, calc, i) = Computed(list, calc2, i)
<1> DEFINE S == Kids(list, i)
           f == [c \in S |-> calc[c].pagu]
           g == [c \in S |-> calc[c].sd]
<1>1. \A c \in S : f[c] = calc[c].pagu /\ g[c] = calc[c].sd /\ f[c] = calc2[c].pagu /\ g[c] = calc2[c].sd
  OBVIOUS
<1> HIDE DEF S, f, g
<1>2. PaguOver(calc, S) = SumOn(f, S) /\ SdOver(calc, S) = SumOn(g, S)
  BY <1>1, PaguIsSum, SdIsSum
<1>3. PaguOver(calc2, S) = SumOn(f, S) /\ SdOver(calc2, S) = SumOn(g, S)
  BY <1>1, PaguIsSum, SdIsSum
<1>4. Summed(list, calc, i) = Summed(list, calc2, i)
  BY <1>2, <1>3 DEF Summed, S
<1>5. QED BY <1>4 DEF Computed

\* What Settled makes of a node.
LEMMA SettledIs ==
    ASSUME NEW m \in Node
    PROVE  /\ Settled(m) \in Node /\ Settled(m).id = m.id /\ Settled(m).parent = m.parent
           /\ Settled(m).pagu = m.pagu
           /\ Settled(m).sd = IF IsLocked(m) THEN 0 ELSE m.sd
           /\ Settled(m).sisa = Settled(m).pagu - Settled(m).sd
           /\ IsLocked(Settled(m)) <=> IsLocked(m)
<1> DEFINE real == IF IsLocked(m) THEN 0 ELSE m.sd
           rest == m.pagu - real
           k == Settled(m)
<1>1. m.pagu \in Int /\ m.sd \in Int
  BY DEF Node
<1>2. real \in Int /\ rest \in Int
  BY <1>1
<1>3. k = [m EXCEPT !.sd = real, !.sisa = rest]
  BY DEF Settled
<1> HIDE DEF real, rest, k
<1>4. /\ k \in Node /\ k.id = m.id /\ k.parent = m.parent /\ k.pagu = m.pagu
      /\ k.lock = m.lock /\ k.sd = real /\ k.sisa = rest
  BY <1>2, <1>3 DEF Node
<1>5. IsLocked(k) <=> IsLocked(m)
  BY <1>4 DEF IsLocked
<1>6. QED BY <1>4, <1>5 DEF real, rest, k

\* What Summed makes of a node whose children are computed.
LEMMA SummedIs ==
    ASSUME NEW list \in Seq(Node), Ordered(list), NEW i \in Ids(list), NEW calc,
           \A c \in Kids(list, i) : calc[c] \in Node
    PROVE  LET m == Summed(list, calc, i)
               kids == Kids(list, i)
           IN  /\ m \in Node /\ m.id = i /\ m.parent = Shown(list, i).parent
               /\ kids # {} => m.pagu = PaguOver(calc, kids) /\ m.sd = SdOver(calc, kids)
<1> DEFINE m == Summed(list, calc, i)
           S == Kids(list, i)
           f == [c \in S |-> calc[c].pagu]
           g == [c \in S |-> calc[c].sd]
           x == PaguOver(calc, S)
           y == SdOver(calc, S)
           n == Shown(list, i)
<1>1. n \in Node /\ n.id = i
  <2>1. PICK k \in DOMAIN list : i = list[k].id
    BY DEF Ids, ToSet
  <2>2. n = list[k] /\ list[k] \in Node
    BY <2>1, ShownIs
  <2>3. QED BY <2>1, <2>2
<1>2. IsFiniteSet(S)
  BY IdsFinite, KidsAreIds, FS_Subset
<1>3. \A c \in S : f[c] = calc[c].pagu /\ g[c] = calc[c].sd /\ f[c] \in Int /\ g[c] \in Int
  BY DEF Node
<1>4. m = IF S = {} THEN n ELSE [n EXCEPT !.pagu = x, !.sd = y]
  BY DEF Summed
<1> HIDE DEF m, S, f, g, n
<1>5. x = SumOn(f, S) /\ y = SumOn(g, S)
  BY <1>3, PaguIsSum, SdIsSum
<1>6. x \in Int /\ y \in Int
  BY <1>2, <1>3, <1>5, SumTakesAny
<1> HIDE DEF x, y
<1>7. CASE S = {}
  BY <1>1, <1>4, <1>7 DEF m, S, n
<1>8. CASE S # {}
  <2>1. m = [n EXCEPT !.pagu = x, !.sd = y]
    BY <1>4, <1>8
  <2>2. m \in Node /\ m.id = n.id /\ m.parent = n.parent /\ m.pagu = x /\ m.sd = y
    BY <2>1, <1>1, <1>6 DEF Node
  <2>3. QED BY <2>2, <1>1, <1>8 DEF m, S, n, x, y
<1>9. QED BY <1>7, <1>8

\* As long as a closed set leaves out a node, it leaves out one whose children
\* it holds: where every node hangs, there is no cycle.
LEMMA LowestOutside ==
    ASSUME NEW list \in Seq(Node), Ordered(list), Hanging(list),
           NEW C \in SUBSET Ids(list), C # Ids(list), ClosedIn(list, C)
    PROVE  \E i \in Ids(list) \ C : Kids(list, i) \subseteq C
<1> SUFFICES ASSUME \A i \in Ids(list) \ C : ~ (Kids(list, i) \subseteq C) PROVE FALSE
  OBVIOUS
<1> DEFINE X == Ids(list) \ C
           Y == {i \in X : Shown(list, i).parent \in X}
           f == [i \in Y |-> Shown(list, i).parent]
<1>1. \A i \in Ids(list) : \A j : i \in Kids(list, j) <=> Shown(list, i).parent = j
  <2> TAKE i \in Ids(list)
  <2> TAKE j
  <2>1. PICK k \in DOMAIN list : i = list[k].id
    BY DEF Ids, ToSet
  <2>2. Shown(list, i) = list[k]
    BY <2>1, ShownIs
  <2>3. list[k].parent = j => i \in Kids(list, j)
    BY <2>1 DEF Kids, ToSet
  <2>4. ASSUME i \in Kids(list, j) PROVE list[k].parent = j
    <3>1. PICK l \in DOMAIN list : list[l].id = i /\ list[l].parent = j
      BY <2>4 DEF Kids, ToSet
    <3>2. l = k
      BY <3>1, <2>1, OnePlace
    <3>3. QED BY <3>1, <3>2
  <2>5. QED BY <2>2, <2>3, <2>4
<1>2. \A i \in RootIds(list) : i \in Ids(list) /\ Shown(list, i).parent = 0
  <2> TAKE i \in RootIds(list)
  <2>1. PICK k \in DOMAIN list : i = list[k].id /\ list[k].parent = 0
    BY DEF RootIds, ToSet
  <2>2. Shown(list, i) = list[k]
    BY <2>1, ShownIs
  <2>3. QED BY <2>1, <2>2 DEF Ids, ToSet
<1>3. \A i \in Ids(list) : i # 0
  <2>1. \A k \in DOMAIN list : list[k] \in Node
    OBVIOUS
  <2>2. \A k \in DOMAIN list : list[k].id \in 1 .. MaxRows
    BY <2>1 DEF Node
  <2>3. \A x \in 1 .. MaxRows : x # 0
    OBVIOUS
  <2>4. QED BY <2>2, <2>3 DEF Ids, ToSet
<1>4. IsFiniteSet(X) /\ Y \in SUBSET X /\ IsFiniteSet(Y)
  BY IdsFinite, FS_Subset
<1>5. f \in Surjection(Y, X)
  <2>1. ASSUME NEW j \in X PROVE \E i \in Y : f[i] = j
    <3>1. PICK i \in Kids(list, j) : i \notin C
      OBVIOUS
    <3>2. i \in Ids(list) /\ Shown(list, i).parent = j
      BY <1>1, KidsAreIds
    <3>3. QED BY <3>1, <3>2
  <2>2. f \in [Y -> X]
    OBVIOUS
  <2> HIDE DEF f, Y, X
  <2>3. QED BY <2>1, <2>2 DEF Surjection
<1> HIDE DEF f
<1>6. Y = X
  <2> HIDE DEF X, Y
  <2>1. Cardinality(X) <= Cardinality(Y)
    BY <1>4, <1>5, FS_Surjection
  <2>2. Cardinality(Y) <= Cardinality(X) /\ (Cardinality(X) = Cardinality(Y) => X = Y)
    BY <1>4, FS_Subset
  <2>3. Cardinality(X) \in Nat /\ Cardinality(Y) \in Nat
    BY <1>4, FS_CardinalityType
  <2>4. QED BY <2>1, <2>2, <2>3
<1>7. RootIds(list) \subseteq C
  BY <1>2, <1>3, <1>6
<1>8. Ids(list) \subseteq C
  BY <1>7 DEF Hanging
<1>9. QED BY <1>8

\* Induction from the leaves up.
LEMMA FromLeavesUp ==
    ASSUME NEW list \in Seq(Node), Ordered(list), Hanging(list), NEW G,
           \A i \in Ids(list) : Kids(list, i) \subseteq G => i \in G
    PROVE  Ids(list) \subseteq G
<1> DEFINE C == {i \in Ids(list) : Below(list, i) \subseteq G}
<1>1. \A i \in Ids(list) : /\ i \in Below(list, i) /\ ClosedIn(list, Below(list, i))
                           /\ Below(list, i) \subseteq Ids(list)
  BY BelowIsLeast
<1>2. ASSUME NEW i \in Ids(list), NEW c \in Kids(list, i)
      PROVE  c \in Ids(list) /\ Below(list, c) \subseteq Below(list, i)
  <2>1. c \in Below(list, i)
    BY <1>1 DEF ClosedIn
  <2>2. QED BY <1>1, <2>1, KidsAreIds, BelowIsLeast
<1>3. ClosedIn(list, C)
  BY <1>2 DEF ClosedIn
<1>4. ASSUME NEW i \in Ids(list), Kids(list, i) \subseteq C PROVE i \in C
  <2>1. Kids(list, i) \subseteq G
    BY <1>1, <1>2, <1>4
  <2>2. i \in G
    BY <2>1
  <2> DEFINE E == {i} \cup UNION {Below(list, c) : c \in Kids(list, i)}
  <2>3. ClosedIn(list, E)
    BY <1>1, <1>2 DEF ClosedIn
  <2>4. Below(list, i) \subseteq E
    <3> HIDE DEF E
    <3>1. i \in E
      BY DEF E
    <3>2. QED BY <2>3, <3>1, BelowIsLeast
  <2>5. E \subseteq G
    BY <1>4, <2>2
  <2>6. QED BY <2>4, <2>5
<1>5. C = Ids(list)
  <2> SUFFICES ASSUME C # Ids(list) PROVE FALSE
    OBVIOUS
  <2>1. C \in SUBSET Ids(list)
    OBVIOUS
  <2> HIDE DEF C
  <2>2. PICK i \in Ids(list) \ C : Kids(list, i) \subseteq C
    BY <1>3, <2>1, LowestOutside
  <2>3. QED BY <1>4, <2>2
<1>6. QED BY <1>1, <1>5

\* C holds with a node all below it, and calc computes each of its nodes.
Calculates(list, C, calc) ==
    /\ C \subseteq Ids(list) /\ ClosedIn(list, C)
    /\ \A i \in C : calc[i] \in Node /\ calc[i] = Computed(list, calc, i)

\* One node more can always be computed.
LEMMA OneMore ==
    ASSUME NEW list \in Seq(Node), Ordered(list), NEW C, NEW calc, Calculates(list, C, calc),
           NEW i \in Ids(list), i \notin C, Kids(list, i) \subseteq C
    PROVE  \E calc2 : Calculates(list, C \cup {i}, calc2)
<1> DEFINE D == C \cup {i}
           new == Computed(list, calc, i)
           calc2 == [j \in D |-> IF j \in C THEN calc[j] ELSE new]
<1>1. \A j \in C : calc2[j] = calc[j]
  OBVIOUS
<1>2. calc2[i] = new
  OBVIOUS
<1>3. new \in Node
  <2>1. \A c \in Kids(list, i) : calc[c] \in Node
    BY DEF Calculates
  <2>2. Summed(list, calc, i) \in Node
    BY <2>1, SummedIs
  <2>3. QED BY <2>2, SettledIs DEF Computed
<1> HIDE DEF calc2
<1>4. ASSUME NEW j \in D PROVE calc2[j] \in Node /\ calc2[j] = Computed(list, calc2, j)
  <2>1. Kids(list, j) \subseteq C
    BY DEF Calculates, ClosedIn
  <2>2. \A c \in Kids(list, j) : calc[c] = calc2[c]
    BY <2>1, <1>1
  <2>3. Computed(list, calc, j) = Computed(list, calc2, j)
    BY <2>2, ComputedFromKids
  <2>4. CASE j \in C
    <3>1. calc2[j] = calc[j] /\ calc[j] \in Node /\ calc[j] = Computed(list, calc, j)
      BY <2>4, <1>1 DEF Calculates
    <3>2. QED BY <3>1, <2>3
  <2>5. CASE j = i
    BY <2>5, <2>3, <1>2, <1>3
  <2>6. QED BY <2>4, <2>5
<1>5. D \subseteq Ids(list) /\ ClosedIn(list, D)
  BY DEF Calculates, ClosedIn
<1>6. Calculates(list, D, calc2)
  BY <1>4, <1>5 DEF Calculates
<1>7. QED BY <1>6

\* So all nodes are computed.
LEMMA AllCalculated ==
    ASSUME NEW list \in Seq(Node), Ordered(list), Hanging(list)
    PROVE  \E calc : Calculates(list, Ids(list), calc)
<1> DEFINE I == Ids(list)
           N == Cardinality(I)
           S == {m \in Nat : m <= N => \E C, calc : Cardinality(C) = m /\ Calculates(list, C, calc)}
<1>1. IsFiniteSet(I) /\ N \in Nat
  BY IdsFinite, FS_CardinalityType
<1>2. 0 \in S
  <2>1. Calculates(list, {}, <<>>)
    BY DEF Calculates, ClosedIn
  <2>2. Cardinality({}) = 0
    BY FS_EmptySet
  <2>3. QED BY <2>1, <2>2
<1>3. ASSUME NEW m \in Nat, m \in S, m + 1 <= N
      PROVE  \E C, calc : Cardinality(C) = m + 1 /\ Calculates(list, C, calc)
  <2>1. m <= N
    BY <1>1, <1>3
  <2>2. PICK C, calc : Cardinality(C) = m /\ Calculates(list, C, calc)
    BY <1>3, <2>1
  <2>3. C \in SUBSET I /\ ClosedIn(list, C)
    BY <2>2 DEF Calculates
  <2>4. C # I
    BY <1>1, <1>3, <2>2
  <2>5. PICK i \in I \ C : Kids(list, i) \subseteq C
    BY <2>3, <2>4, LowestOutside
  <2>6. PICK calc2 : Calculates(list, C \cup {i}, calc2)
    BY <2>2, <2>5, OneMore
  <2>7. IsFiniteSet(C)
    BY <1>1, <2>3, FS_Subset
  <2>8. Cardinality(C \cup {i}) = m + 1
    BY <2>2, <2>5, <2>7, FS_AddElement
  <2>9. QED BY <2>6, <2>8
<1>4. \A m \in Nat : m \in S => m + 1 \in S
  BY <1>3
<1> HIDE DEF S
<1>5. Nat \subseteq S
  BY <1>2, <1>4, FromZeroUp
<1>6. PICK C, calc : Cardinality(C) = N /\ Calculates(list, C, calc)
  BY <1>1, <1>5 DEF S
<1>7. C \in SUBSET I
  BY <1>6 DEF Calculates
<1>8. C = I
  BY <1>1, <1>6, <1>7, FS_Subset
<1>9. QED BY <1>6, <1>8

\* What Recalculated computes.
LEMMA RecalculatedIs ==
    ASSUME NEW list \in Seq(Node), Ordered(list), Hanging(list)
    PROVE  \E calc : /\ Calculates(list, Ids(list), calc)
                     /\ Recalculated(list) = [k \in DOMAIN list |-> calc[list[k].id]]
<1> DEFINE eq(c) == c = [i \in Ids(list) |-> Computed(list, c, i)]
           r == CHOOSE c : eq(c)
<1>1. PICK c0 : Calculates(list, Ids(list), c0)
  BY AllCalculated
<1> DEFINE c1 == [i \in Ids(list) |-> c0[i]]
<1>2. eq(c1)
  <2>1. ASSUME NEW i \in Ids(list) PROVE c1[i] = Computed(list, c1, i)
    <3>1. c1[i] = c0[i] /\ c0[i] = Computed(list, c0, i)
      BY <1>1 DEF Calculates
    <3>2. \A c \in Kids(list, i) : c0[c] = c1[c]
      BY KidsAreIds
    <3> HIDE DEF c1
    <3>3. Computed(list, c0, i) = Computed(list, c1, i)
      BY <3>2, ComputedFromKids
    <3>4. QED BY <3>1, <3>3
  <2>2. QED BY <2>1
<1>3. eq(r)
  <2> HIDE DEF eq, c1
  <2>1. QED BY <1>2
<1>4. Recalculated(list) = [k \in DOMAIN list |-> r[list[k].id]]
  BY DEF Recalculated, Computed, Settled, Summed, PaguOver, SdOver
<1> HIDE DEF r
<1>5. \A i \in Ids(list) : r[i] = Computed(list, r, i)
  BY <1>3
<1>6. \A i \in Ids(list) : r[i] \in Node
  <2> DEFINE G == {i \in Ids(list) : r[i] \in Node}
  <2>1. ASSUME NEW i \in Ids(list), Kids(list, i) \subseteq G PROVE i \in G
    <3>1. \A c \in Kids(list, i) : r[c] \in Node
      BY <2>1
    <3>2. Summed(list, r, i) \in Node
      BY <3>1, SummedIs
    <3>3. Computed(list, r, i) \in Node
      BY <3>2, SettledIs DEF Computed
    <3>4. QED BY <1>5, <3>3
  <2> HIDE DEF G
  <2>2. Ids(list) \subseteq G
    BY <2>1, FromLeavesUp
  <2>3. QED BY <2>2 DEF G
<1>7. Calculates(list, Ids(list), r)
  BY <1>5, <1>6, KidsAreIds DEF Calculates, ClosedIn
<1>8. QED BY <1>4, <1>7

\* A list has finitely many nodes.
LEMMA NodesFinite ==
    ASSUME NEW list \in Seq(Node)
    PROVE  IsFiniteSet(ToSet(list))
<1> DEFINE f == [k \in 1 .. Len(list) |-> list[k]]
<1>1. Len(list) \in Nat /\ DOMAIN list = 1 .. Len(list)
  OBVIOUS
<1>2. f \in Surjection(1 .. Len(list), ToSet(list))
  BY <1>1 DEF ToSet, Surjection
<1>3. IsFiniteSet(1 .. Len(list))
  BY <1>1, FS_Interval
<1> HIDE DEF f
<1>4. QED BY <1>2, <1>3, FS_Surjection

\* The sums SumsAgree takes over the nodes themselves.
PaguSum(S) == MapThenSumSet(LAMBDA m : m.pagu, S)
SdSum(S) == MapThenSumSet(LAMBDA m : m.sd, S)

\* The pagu of a set of nodes, as a sum in the sense of SumOn.
LEMMA PaguSumIs ==
    ASSUME NEW S, NEW f, \A m \in S : f[m] = m.pagu
    PROVE  PaguSum(S) = SumOn(f, S)
<1> DEFINE p(it) == it = [s \in SUBSET S |-> IF s = {} THEN 0 ELSE f[CHOOSE x \in s : TRUE] + it[s \ {CHOOSE x \in s : TRUE}]]
           q(it) == it = [s \in SUBSET S |-> IF s = {} THEN 0 ELSE (CHOOSE x \in s : TRUE).pagu + it[s \ {CHOOSE x \in s : TRUE}]]
<1>1. \A s \in SUBSET S : s # {} => (CHOOSE x \in s : TRUE) \in S
  OBVIOUS
<1>2. \A s \in SUBSET S : s # {} => f[CHOOSE x \in s : TRUE] = (CHOOSE x \in s : TRUE).pagu
  BY <1>1
<1>3. \A it : p(it) <=> q(it)
  BY <1>2
<1>4. SumOn(f, S) = (CHOOSE it : p(it))[S] /\ PaguSum(S) = (CHOOSE it : q(it))[S]
  BY DEF SumOn, PaguSum, MapThenSumSet, MapThenFoldSet
<1>5. (CHOOSE it : p(it)) = (CHOOSE it : q(it))
  <2> HIDE DEF p, q
  <2>1. QED BY <1>3
<1>6. QED BY <1>4, <1>5

\* Likewise their realisation.
LEMMA SdSumIs ==
    ASSUME NEW S, NEW f, \A m \in S : f[m] = m.sd
    PROVE  SdSum(S) = SumOn(f, S)
<1> DEFINE p(it) == it = [s \in SUBSET S |-> IF s = {} THEN 0 ELSE f[CHOOSE x \in s : TRUE] + it[s \ {CHOOSE x \in s : TRUE}]]
           q(it) == it = [s \in SUBSET S |-> IF s = {} THEN 0 ELSE (CHOOSE x \in s : TRUE).sd + it[s \ {CHOOSE x \in s : TRUE}]]
<1>1. \A s \in SUBSET S : s # {} => (CHOOSE x \in s : TRUE) \in S
  OBVIOUS
<1>2. \A s \in SUBSET S : s # {} => f[CHOOSE x \in s : TRUE] = (CHOOSE x \in s : TRUE).sd
  BY <1>1
<1>3. \A it : p(it) <=> q(it)
  BY <1>2
<1>4. SumOn(f, S) = (CHOOSE it : p(it))[S] /\ SdSum(S) = (CHOOSE it : q(it))[S]
  BY DEF SumOn, SdSum, MapThenSumSet, MapThenFoldSet
<1>5. (CHOOSE it : p(it)) = (CHOOSE it : q(it))
  <2> HIDE DEF p, q
  <2>1. QED BY <1>3
<1>6. QED BY <1>4, <1>5

\* Where the nodes of S are the computed nodes of their ids, their sums are the
\* sums over those ids.
LEMMA SumsOverIds ==
    ASSUME NEW S \in SUBSET Node, IsFiniteSet(S), NEW calc, NEW K,
           K = {m.id : m \in S}, \A m \in S : calc[m.id] = m
    PROVE  PaguSum(S) = PaguOver(calc, K) /\ SdSum(S) = SdOver(calc, K)
<1> DEFINE h == [m \in S |-> m.id]
           pm == [m \in S |-> m.pagu]
           pc == [c \in K |-> calc[c].pagu]
           sm == [m \in S |-> m.sd]
           sc == [c \in K |-> calc[c].sd]
<1>1. h \in [S -> K] /\ \A c \in K : \E m \in S : c = h[m]
  OBVIOUS
<1>2. \A m, n \in S : h[m] = h[n] => m = n
  <2> TAKE m, n \in S
  <2>1. h[m] = m.id /\ h[n] = n.id /\ calc[m.id] = m /\ calc[n.id] = n
    OBVIOUS
  <2>2. QED BY <2>1
<1>3. /\ \A m \in S : pm[m] \in Int /\ pc[h[m]] = pm[m]
      /\ \A m \in S : sm[m] \in Int /\ sc[h[m]] = sm[m]
  BY DEF Node
<1>4. \A m \in S : pm[m] = m.pagu /\ sm[m] = m.sd
  OBVIOUS
<1>5. \A c \in K : pc[c] = calc[c].pagu /\ sc[c] = calc[c].sd
  OBVIOUS
<1> HIDE DEF h, pm, pc, sm, sc
<1>6. Renames(h, S, K, pm, pc) /\ Renames(h, S, K, sm, sc)
  BY <1>1, <1>2, <1>3 DEF Renames
<1>7. SumOn(pm, S) = SumOn(pc, K) /\ SumOn(sm, S) = SumOn(sc, K)
  BY <1>6, SumRenamed
<1>8. QED BY <1>4, <1>5, <1>7, PaguSumIs, SdSumIs, PaguIsSum, SdIsSum

\* The body of SumsAgree, for any list.
SumsRight(list) ==
    \A n \in ToSet(list) :
      LET kids == {m \in ToSet(list) : m.parent = n.id}
      IN  /\ n.sisa = n.pagu - n.sd
          /\ NormalizeByLock(n) = n
          /\ kids # {} => /\ n.pagu = PaguSum(kids)
                          /\ n.sd = IF IsLocked(n) THEN 0 ELSE SdSum(kids)

\* Recalculating keeps the shape of the list and makes its sums right.
LEMMA RecalculatedRight ==
    ASSUME NEW list \in Seq(Node), Ordered(list), Hanging(list)
    PROVE  /\ Recalculated(list) \in Seq(Node)
           /\ Ordered(Recalculated(list)) /\ Hanging(Recalculated(list))
           /\ SumsRight(Recalculated(list))
<1> DEFINE l2 == Recalculated(list)
           I == Ids(list)
<1>1. PICK calc : Calculates(list, I, calc) /\ l2 = [k \in DOMAIN list |-> calc[list[k].id]]
  BY RecalculatedIs
<1>2. Len(list) \in Nat /\ DOMAIN list = 1 .. Len(list) /\ \A k \in DOMAIN list : list[k] \in Node /\ list[k].id \in I
  BY DEF Ids, ToSet
<1> HIDE DEF l2, I
<1>3. ASSUME NEW i \in I
      PROVE  /\ calc[i] \in Node /\ calc[i] = Settled(Summed(list, calc, i))
             /\ Summed(list, calc, i) \in Node
             /\ Summed(list, calc, i).id = i
             /\ Summed(list, calc, i).parent = Shown(list, i).parent
             /\ Kids(list, i) # {} => /\ Summed(list, calc, i).pagu = PaguOver(calc, Kids(list, i))
                                      /\ Summed(list, calc, i).sd = SdOver(calc, Kids(list, i))
  <2>1. calc[i] \in Node /\ calc[i] = Settled(Summed(list, calc, i))
    BY <1>1 DEF Calculates, Computed
  <2>2. \A c \in Kids(list, i) : calc[c] \in Node
    BY <1>1, KidsAreIds DEF Calculates, I
  <2>3. QED BY <2>1, <2>2, SummedIs DEF I
<1>4. ASSUME NEW i \in I
      PROVE  /\ calc[i].id = i /\ calc[i].parent = Shown(list, i).parent
             /\ calc[i].sisa = calc[i].pagu - calc[i].sd
             /\ NormalizeByLock(calc[i]) = calc[i]
             /\ Kids(list, i) # {} => /\ calc[i].pagu = PaguOver(calc, Kids(list, i))
                                      /\ calc[i].sd = IF IsLocked(calc[i]) THEN 0
                                                      ELSE SdOver(calc, Kids(list, i))
  <2> DEFINE m == Summed(list, calc, i)
             c == calc[i]
  <2>1. c \in Node /\ c = Settled(m) /\ m \in Node /\ m.id = i /\ m.parent = Shown(list, i).parent
    BY <1>3
  <2> HIDE DEF m, c
  <2>2. /\ c.id = m.id /\ c.parent = m.parent /\ c.pagu = m.pagu
        /\ c.sd = IF IsLocked(m) THEN 0 ELSE m.sd
        /\ c.sisa = c.pagu - c.sd
        /\ IsLocked(c) <=> IsLocked(m)
    BY <2>1, SettledIs
  <2>3. NormalizeByLock(c) = c
    <3>1. CASE IsLocked(c)
      <4> DEFINE x == c.pagu
                 zero == 0
      <4>1. NormalizeByLock(c) = [c EXCEPT !.sd = zero, !.sisa = x]
        BY <3>1 DEF NormalizeByLock
      <4>2. c.sd = zero /\ c.sisa = x
        <5>1. c.pagu \in Int
          BY <2>1 DEF Node
        <5>2. c.sd = 0
          BY <3>1, <2>2
        <5>3. QED BY <5>1, <5>2, <2>2
      <4> HIDE DEF x, zero
      <4>3. [c EXCEPT !.sd = zero, !.sisa = x] = c
        BY <4>2, <2>1 DEF Node
      <4>4. QED BY <4>1, <4>3
    <3>2. CASE ~ IsLocked(c)
      BY <3>2 DEF NormalizeByLock
    <3>3. QED BY <3>1, <3>2
  <2>4. ASSUME Kids(list, i) # {}
        PROVE  c.pagu = PaguOver(calc, Kids(list, i)) /\ (c.sd = IF IsLocked(c) THEN 0 ELSE SdOver(calc, Kids(list, i)))
    <3>1. m.pagu = PaguOver(calc, Kids(list, i)) /\ m.sd = SdOver(calc, Kids(list, i))
      BY <2>4, <1>3 DEF m
    <3>2. c.pagu = PaguOver(calc, Kids(list, i))
      BY <3>1, <2>2
    <3>3. CASE IsLocked(c)
      BY <3>2, <3>3, <2>2
    <3>4. CASE ~ IsLocked(c)
      BY <3>1, <3>2, <3>4, <2>2
    <3>5. QED BY <3>3, <3>4
  <2>5. QED BY <2>1, <2>2, <2>3, <2>4 DEF c
<1>5. ASSUME NEW k \in DOMAIN list
      PROVE  l2[k] = calc[list[k].id] /\ l2[k] \in Node /\ l2[k].id = list[k].id /\ l2[k].parent = list[k].parent
  <2>1. list[k].id \in I /\ l2[k] = calc[list[k].id]
    BY <1>1, <1>2
  <2>2. Shown(list, list[k].id) = list[k]
    BY ShownIs
  <2>3. QED BY <2>1, <2>2, <1>3, <1>4
<1>6. DOMAIN l2 = DOMAIN list /\ l2 \in Seq(Node)
  <2>1. l2 = [k \in DOMAIN list |-> l2[k]]
    BY <1>1
  <2>2. QED BY <2>1, <1>2, <1>5
<1>7. /\ Ids(l2) = I /\ (\A i : Kids(l2, i) = Kids(list, i))
      /\ Hanging(l2) /\ Ordered(l2)
  BY <1>5, <1>6, SameShape DEF I
<1>8. \A n \in ToSet(l2) : n \in Node /\ n.id \in I /\ calc[n.id] = n
  <2>1. ASSUME NEW k \in DOMAIN l2 PROVE l2[k] \in Node /\ l2[k].id \in I /\ calc[l2[k].id] = l2[k]
    BY <1>2, <1>5, <1>6
  <2>2. QED BY <2>1 DEF ToSet
<1>9. ASSUME NEW n \in ToSet(l2)
      PROVE  LET kids == {m \in ToSet(l2) : m.parent = n.id}
             IN  /\ n.sisa = n.pagu - n.sd
                 /\ NormalizeByLock(n) = n
                 /\ kids # {} => /\ n.pagu = PaguSum(kids)
                                 /\ n.sd = IF IsLocked(n) THEN 0 ELSE SdSum(kids)
  <2> DEFINE kids == {m \in ToSet(l2) : m.parent = n.id}
             i == n.id
             K == Kids(list, i)
  <2>1. i \in I /\ calc[i] = n
    BY <1>8
  <2>2. K = {m.id : m \in kids}
    BY <1>7 DEF Kids
  <2>3. kids \in SUBSET Node /\ IsFiniteSet(kids) /\ \A m \in kids : calc[m.id] = m
    <3>1. IsFiniteSet(ToSet(l2)) /\ kids \in SUBSET ToSet(l2)
      BY <1>6, NodesFinite
    <3> HIDE DEF kids
    <3>2. IsFiniteSet(kids)
      BY <3>1, FS_Subset
    <3>3. QED BY <3>1, <3>2, <1>8
  <2>4. kids # {} => K # {}
    BY <2>2
  <2> HIDE DEF kids, i, K
  <2>5. PaguSum(kids) = PaguOver(calc, K) /\ SdSum(kids) = SdOver(calc, K)
    BY <2>2, <2>3, SumsOverIds
  <2>6. /\ n.sisa = n.pagu - n.sd /\ NormalizeByLock(n) = n
        /\ K # {} => /\ n.pagu = PaguOver(calc, K)
                     /\ n.sd = IF IsLocked(n) THEN 0 ELSE SdOver(calc, K)
    BY <2>1, <1>4 DEF K
  <2>7. QED BY <2>4, <2>5, <2>6 DEF kids
<1>10. SumsRight(l2)
  BY <1>9 DEF SumsRight
<1>11. QED BY <1>6, <1>7, <1>10 DEF l2

----------------------------------------------------------------------------
(* Parsing. *)

\* Line j has a code and no later line has closed its level.
Standing(list, j) ==
    /\ list[j].kode # Blank
    /\ \A k \in j + 1 .. Len(list) : list[k].level > list[j].level

\* The three arrays together: a level is open exactly when a line of it is
\* standing, and then ids names that line.
Stack ==
    /\ nodes \in Seq(Node)
    /\ last \in [Level -> Kode \cup {Blank}]
    /\ ids \in [Level -> 0 .. MaxRows]
    /\ \A l \in Level : last[l] # Blank =>
         ids[l] \in DOMAIN nodes /\ nodes[ids[l]].level = l /\ Standing(nodes, ids[l])
    /\ \A j \in DOMAIN nodes : Standing(nodes, j) =>
         last[nodes[j].level] # Blank /\ ids[nodes[j].level] = j

StackInv == step = "parse" => Stack /\ ParsedRight

\* The new line's parent: the last line of the highest open level is the last
\* of all open lines.
LEMMA NearestLevelIsNearestLine ==
    ASSUME PreviewAssumption, Stack, NEW r \in FileRow, Len(nodes) < MaxRows,
           FileAssumption
    PROVE  LET list == Append(nodes, ParsedNode(r))
               open == OpenAbove(list, Len(nodes) + 1)
           IN  ParentId(r.level) = IF open = {} THEN 0 ELSE Max(open)
<1> DEFINE list == Append(nodes, ParsedNode(r))
           open == OpenAbove(list, Len(nodes) + 1)
<1>1. r.level \in Level /\ Top \in Nat
  BY DEF PreviewAssumption, FileAssumption, Level
<1>2. \A j \in DOMAIN nodes : list[j] = nodes[j] /\ nodes[j] \in Node
  BY DEF Stack
<1>3. list[Len(nodes) + 1].level = r.level
  BY DEF Stack, ParsedNode
<1>4. open = {j \in DOMAIN nodes : nodes[j].level < r.level /\ Standing(nodes, j)}
  <2>1. /\ Len(nodes) \in Nat /\ DOMAIN nodes = 1 .. Len(nodes)
        /\ (Len(nodes) + 1) - 1 = Len(nodes)
    BY DEF Stack
  <2>2. \A j \in DOMAIN nodes, k \in 1 .. Len(nodes) : k \in j + 1 .. Len(nodes) => list[k] = nodes[k]
    BY <1>2, <2>1
  <2>3. \A j \in DOMAIN nodes : \A k \in j + 1 .. Len(nodes) : k \in 1 .. Len(nodes)
    BY <2>1
  <2> HIDE DEF list
  <2>4. QED BY <1>2, <1>3, <2>1, <2>2, <2>3 DEF OpenAbove, Standing, open
<1>5. open = {ids[l] : l \in Opened(r.level)}
  <2>1. ASSUME NEW j \in open PROVE \E l \in Opened(r.level) : j = ids[l]
    BY <1>2, <1>4 DEF Stack, Opened, Node, Level
  <2>2. ASSUME NEW l \in Opened(r.level) PROVE ids[l] \in open
    BY <1>4 DEF Stack, Opened
  <2>3. QED BY <2>1, <2>2
<1> HIDE DEF open
<1>6. ASSUME Opened(r.level) = {}
      PROVE  ParentId(r.level) = 0 /\ open = {}
  BY <1>5, <1>6 DEF ParentId
<1>7. ASSUME Opened(r.level) # {}
      PROVE  ParentId(r.level) = Max(open) /\ open # {}
  <2>1. Opened(r.level) \in SUBSET (0 .. Top)
    BY DEF Opened, Level
  <2>2. PICK m \in Opened(r.level) : \A l \in Opened(r.level) : l <= m
    BY <2>1, <1>1, <1>7, GreatestExists
  <2>3. Max(Opened(r.level)) = m
    BY <2>1, <2>2, MaxIs
  <2>4. ASSUME NEW l \in Opened(r.level) PROVE ids[l] <= ids[m]
    <3>1. /\ ids[l] \in DOMAIN nodes /\ nodes[ids[l]].level = l
          /\ ids[m] \in DOMAIN nodes /\ nodes[ids[m]].level = m
          /\ \A k \in ids[m] + 1 .. Len(nodes) : nodes[k].level > m
      BY DEF Stack, Opened, Standing
    <3>2. l <= m /\ l \in Int /\ m \in Int
      BY <2>1, <2>2
    <3>3. Len(nodes) \in Nat /\ DOMAIN nodes = 1 .. Len(nodes)
      BY DEF Stack
    <3>4. QED BY <3>1, <3>2, <3>3
  <2>5. open \subseteq Int /\ ids[m] \in open
    BY <1>4, <1>5 DEF Stack
  <2>6. \A j \in open : j <= ids[m]
    BY <1>5, <2>4
  <2>7. Max(open) = ids[m]
    BY <2>5, <2>6, MaxIs
  <2>8. QED BY <1>7, <2>3, <2>5, <2>7 DEF ParentId
<1>8. QED BY <1>6, <1>7 DEF open

\* Parsing a line keeps the stack and the parents.
LEMMA ParseKeepsStack ==
    ASSUME PreviewAssumption, FileAssumption, Stack, ParsedRight, step = "parse",
           NEW r \in FileRow, Parse(r)
    PROVE  Stack' /\ ParsedRight'
<1> DEFINE i == Len(nodes) + 1
           n == ParsedNode(r)
<1>1. /\ Len(nodes) < MaxRows /\ nodes' = Append(nodes, n)
      /\ last' = CloseBelow(r.level, r.kode) /\ ids' = PlaceAt(r.level, i)
  BY DEF Parse
<1>2. /\ r.level \in Level /\ r.kode \in Kode \cup {Blank} /\ r.pagu \in Int
      /\ r.lock \in Int /\ r.sd \in Int /\ r.sisa \in Int
      /\ Top \in Nat /\ MaxRows \in Nat /\ Level = 0 .. Top
  BY DEF PreviewAssumption, FileAssumption, Level
<1>3. Len(nodes) \in Nat /\ DOMAIN nodes = 1 .. Len(nodes) /\ i \in 1 .. MaxRows
  BY <1>1, <1>2 DEF Stack
<1>4. ParentId(r.level) \in 0 .. MaxRows
  <2>1. CASE Opened(r.level) = {}
    BY <2>1, <1>2 DEF ParentId
  <2>2. CASE Opened(r.level) # {}
    <3>1. Opened(r.level) \in SUBSET (0 .. Top)
      BY <1>2 DEF Opened
    <3>2. PICK m \in Opened(r.level) : \A l \in Opened(r.level) : l <= m
      BY <3>1, <2>2, <1>2, GreatestExists
    <3>3. Max(Opened(r.level)) = m /\ m \in Level
      BY <3>1, <3>2, <1>2, MaxIs
    <3>4. QED BY <3>3, <2>2 DEF ParentId, Stack
  <2>3. QED BY <2>1, <2>2
<1>5. /\ n \in Node /\ n.level = r.level /\ n.kode = r.kode
      /\ n.parent = ParentId(r.level)
  BY <1>2, <1>3, <1>4 DEF ParsedNode, Node, Level
<1> HIDE DEF n
<1>6. /\ nodes' \in Seq(Node) /\ Len(nodes') = i /\ DOMAIN nodes' = 1 .. i
      /\ nodes'[i] = n /\ \A j \in DOMAIN nodes : nodes'[j] = nodes[j]
  BY <1>1, <1>3, <1>5 DEF Stack
<1>7. /\ \A l \in Level : last'[l] = IF l = r.level THEN r.kode
                                    ELSE IF l > r.level THEN Blank ELSE last[l]
      /\ \A l \in Level : l <= r.level => ids'[l] = IF l = r.level THEN i ELSE ids[l]
  BY <1>1, <1>2 DEF CloseBelow, PlaceAt
<1>8. last' \in [Level -> Kode \cup {Blank}] /\ ids' \in [Level -> 0 .. MaxRows]
  BY <1>1, <1>2, <1>3 DEF CloseBelow, PlaceAt, Stack
<1>9. \A j \in DOMAIN nodes : Standing(nodes', j) <=> Standing(nodes, j) /\ nodes[j].level < r.level
  <2> TAKE j \in DOMAIN nodes
  <2>1. j + 1 .. i = (j + 1 .. Len(nodes)) \cup {i}
    BY <1>3
  <2>2. \A k \in j + 1 .. Len(nodes) : k \in DOMAIN nodes
    BY <1>3
  <2>3. nodes'[j] = nodes[j] BY <1>6
  <2>4. \A k \in j + 1 .. Len(nodes) : nodes'[k].level = nodes[k].level
    BY <1>6, <2>2
  <2>5. nodes'[i].level = r.level BY <1>5, <1>6
  <2>6. QED BY <1>6, <2>1, <2>3, <2>4, <2>5 DEF Standing
<1>10. Standing(nodes', i) <=> r.kode # Blank
  BY <1>3, <1>5, <1>6 DEF Standing
<1>11. ASSUME NEW l \in Level, last'[l] # Blank
       PROVE  ids'[l] \in DOMAIN nodes' /\ nodes'[ids'[l]].level = l /\ Standing(nodes', ids'[l])
  <2>1. CASE l = r.level
    <3>1. ids'[l] = i /\ r.kode # Blank
      BY <2>1, <1>7, <1>11
    <3>2. QED BY <3>1, <2>1, <1>3, <1>5, <1>6, <1>10
  <2>2. CASE l # r.level
    <3>1. l < r.level /\ ids'[l] = ids[l] /\ last[l] # Blank
      BY <2>2, <1>2, <1>7, <1>11
    <3>2. ids[l] \in DOMAIN nodes /\ nodes[ids[l]].level = l /\ Standing(nodes, ids[l])
      BY <3>1 DEF Stack
    <3>3. Standing(nodes', ids[l])
      BY <3>1, <3>2, <1>9
    <3>4. QED BY <3>1, <3>2, <3>3, <1>3, <1>6
  <2>3. QED BY <2>1, <2>2
<1>12. ASSUME NEW j \in DOMAIN nodes', Standing(nodes', j)
       PROVE  last'[nodes'[j].level] # Blank /\ ids'[nodes'[j].level] = j
  <2>1. CASE j = i
    <3>1. r.kode # Blank /\ nodes'[j].level = r.level
      BY <2>1, <1>10, <1>12, <1>5, <1>6
    <3>2. QED BY <3>1, <2>1, <1>2, <1>7
  <2>2. CASE j \in DOMAIN nodes
    <3>1. Standing(nodes, j) /\ nodes[j].level < r.level
      BY <2>2, <1>9, <1>12
    <3>2. /\ last[nodes[j].level] # Blank /\ ids[nodes[j].level] = j
          /\ nodes[j].level \in Level /\ nodes'[j] = nodes[j]
      <4>1. nodes[j] \in Node
        BY <2>2 DEF Stack
      <4>2. nodes[j].level \in Level
        BY <4>1 DEF Node, Level
      <4>3. QED BY <3>1, <2>2, <4>2, <1>6 DEF Stack
    <3>3. QED BY <3>1, <3>2, <1>2, <1>7
  <2>3. QED BY <2>1, <2>2, <1>3, <1>6
<1>13. Stack'
  BY <1>6, <1>8, <1>11, <1>12 DEF Stack
<1>14. ASSUME NEW j \in DOMAIN nodes'
       PROVE  nodes'[j].parent = IF OpenAbove(nodes', j) = {} THEN 0
                                 ELSE Max(OpenAbove(nodes', j))
  <2>1. CASE j = i
    BY <2>1, <1>1, <1>5, <1>6, NearestLevelIsNearestLine DEF n
  <2>2. CASE j \in DOMAIN nodes
    <3>1. OpenAbove(nodes', j) = OpenAbove(nodes, j)
      <4>1. j \in Nat /\ \A k \in 1 .. j : nodes'[k] = nodes[k]
        BY <2>2, <1>3, <1>6
      <4>2. nodes'[j] = nodes[j]
        BY <2>2, <1>6
      <4>3. \A k \in 1 .. j - 1 : nodes'[k] = nodes[k]
        BY <4>1
      <4>4. \A m \in 1 .. j - 1 : \A k \in m + 1 .. j - 1 : nodes'[k] = nodes[k]
        BY <4>1
      <4>5. QED BY <4>2, <4>3, <4>4 DEF OpenAbove
    <3>2. QED BY <3>1, <2>2, <1>6 DEF ParsedRight
  <2>3. QED BY <2>1, <2>2, <1>3, <1>6
<1>15. QED BY <1>13, <1>14 DEF ParsedRight

\* An empty list and empty arrays are a stack.
LEMMA EmptyStack ==
    ASSUME PreviewAssumption, nodes = <<>>, last = [l \in Level |-> Blank],
           ids = [l \in Level |-> 0]
    PROVE  Stack /\ ParsedRight
BY DEF Stack, ParsedRight, PreviewAssumption

----------------------------------------------------------------------------
(* The invariant of an import. *)

\* While a file is parsed a node's id is its line, and its parent is above it.
ParsedSoFar ==
    \A k \in DOMAIN nodes : nodes[k].id = k /\ nodes[k].parent < k

ListInv ==
    /\ nodes \in Seq(Node) /\ Ordered(nodes)
    /\ step = "parse" => ParsedSoFar /\ ~ tidy
    /\ step # "parse" => Hanging(nodes)
    /\ tidy => SumsRight(nodes)

\* The arrays are only read and written while a file is parsed.
ImportInv == TypeOK /\ StackInv /\ ListInv

\* So whatever is parsed hangs below its roots.
LEMMA ParsedHangs ==
    ASSUME NEW list \in Seq(Node), \A k \in DOMAIN list : list[k].id = k /\ list[k].parent < k
    PROVE  Hanging(list) /\ Ordered(list)
<1>1. Len(list) \in Nat /\ DOMAIN list = 1 .. Len(list) /\ \A k \in DOMAIN list : list[k] \in Node
  OBVIOUS
<1>2. Ordered(list)
  BY <1>1 DEF Ordered
<1>3. ASSUME NEW C, RootIds(list) \subseteq C, ClosedIn(list, C) PROVE Ids(list) \subseteq C
  <2> DEFINE S == {n \in Nat : \A k \in 1 .. n : k \in DOMAIN list => k \in C}
  <2>1. 0 \in S
    OBVIOUS
  <2>2. ASSUME NEW n \in Nat, n \in S, n + 1 \in DOMAIN list PROVE n + 1 \in C
    <3> DEFINE m == list[n + 1]
    <3>1. m \in ToSet(list) /\ m.id = n + 1 /\ m.parent < n + 1 /\ m \in Node
      BY <2>2, <1>1 DEF ToSet
    <3>2. CASE m.parent = 0
      <4>1. n + 1 \in RootIds(list)
        BY <3>1, <3>2 DEF RootIds
      <4>2. QED BY <4>1, <1>3
    <3>3. CASE m.parent # 0
      <4>1. m.parent \in 0 .. MaxRows
        BY <3>1 DEF Node
      <4>2. m.parent \in 1 .. n /\ m.parent \in DOMAIN list
        BY <4>1, <3>1, <3>3, <2>2, <1>1
      <4>3. m.parent \in C
        BY <4>2, <2>2
      <4>4. n + 1 \in Kids(list, m.parent)
        BY <3>1 DEF Kids
      <4>5. QED BY <4>3, <4>4, <1>3 DEF ClosedIn
    <3>4. QED BY <3>2, <3>3
  <2>3. \A n \in Nat : n \in S => n + 1 \in S
    <3> TAKE n \in Nat
    <3>1. 1 .. n + 1 = (1 .. n) \cup {n + 1}
      OBVIOUS
    <3>2. QED BY <2>2, <3>1
  <2> HIDE DEF S
  <2>4. Nat \subseteq S
    BY <2>1, <2>3, FromZeroUp
  <2>5. Len(list) \in S
    BY <1>1, <2>4
  <2>6. \A k \in DOMAIN list : k \in C
    BY <1>1, <2>5 DEF S
  <2>7. QED BY <2>6 DEF Ids, ToSet
<1>4. QED BY <1>2, <1>3 DEF Hanging

\* Parsing keeps it so: the nearest open line is above.
LEMMA ParseKeepsList ==
    ASSUME NEW r \in FileRow, Parse(r), step = "parse", Stack', ParsedRight', ListInv,
           nodes' \in Seq(Node)
    PROVE  ListInv'
<1>1. /\ nodes' = Append(nodes, ParsedNode(r)) /\ step' = step /\ tidy' = tidy
      /\ nodes \in Seq(Node)
  BY DEF Parse, ListInv
<1>2. /\ Len(nodes) \in Nat /\ DOMAIN nodes = 1 .. Len(nodes)
      /\ DOMAIN nodes' = 1 .. Len(nodes) + 1
      /\ nodes'[Len(nodes) + 1].id = Len(nodes) + 1
      /\ \A k \in DOMAIN nodes : nodes'[k] = nodes[k]
  BY <1>1 DEF ParsedNode
<1>3. ASSUME NEW k \in DOMAIN nodes' PROVE nodes'[k].parent < k
  <2>1. nodes'[k].parent = IF OpenAbove(nodes', k) = {} THEN 0 ELSE Max(OpenAbove(nodes', k))
    BY DEFS ParsedRight, Parse
  <2>2. k \in Nat /\ k > 0
    BY <1>2
  <2>3. CASE OpenAbove(nodes', k) = {}
    BY <2>1, <2>2, <2>3
  <2>4. CASE OpenAbove(nodes', k) # {}
    <3> DEFINE A == OpenAbove(nodes', k)
    <3>1. A \in SUBSET (0 .. k) /\ \A j \in A : j < k
      BY <2>2 DEF OpenAbove
    <3> HIDE DEF A
    <3>2. PICK m \in A : \A j \in A : j <= m
      BY <3>1, <2>2, <2>4, GreatestExists DEF A
    <3>3. A \in SUBSET Int
      BY <3>1, <2>2
    <3>4. Max(A) = m
      BY <3>2, <3>3, MaxIs
    <3>5. QED BY <2>1, <2>4, <3>1, <3>2, <3>4 DEF A
  <2>5. QED BY <2>3, <2>4
<1>4. ASSUME NEW k \in DOMAIN nodes' PROVE nodes'[k].id = k
  BY <1>1, <1>2 DEF ListInv, ParsedSoFar
<1>5. Hanging(nodes') /\ Ordered(nodes')
  BY <1>3, <1>4, ParsedHangs
<1>6. QED BY <1>1, <1>3, <1>4, <1>5 DEF ListInv, ParsedSoFar

\* Every step keeps the stack.
LEMMA StackKept ==
    ASSUME StackInv, [Next]_vars
    PROVE  StackInv'
<1> USE PreviewAssumption, FileAssumption
<1> SUFFICES ASSUME step' = "parse" PROVE Stack' /\ ParsedRight'
  BY DEF StackInv
<1>1. ASSUME NEW r \in FileRow, Parse(r) PROVE Stack' /\ ParsedRight'
  BY <1>1, ParseKeepsStack DEF Parse, StackInv
<1>2. CASE Fresh
  <2>1. /\ nodes' = <<>> /\ last' = [l \in Level |-> Blank]
        /\ ids' = [l \in Level |-> 0]
    BY <1>2 DEF Fresh
  <2>2. QED BY <2>1 DEF Stack, ParsedRight, PreviewAssumption, Level
<1>3. ASSUME NEW list, Edit(list) PROVE FALSE
  BY <1>3 DEF Edit
<1>4. CASE UNCHANGED vars
  <2>1. step' = step /\ nodes' = nodes /\ last' = last /\ ids' = ids
    BY <1>4 DEF vars
  <2>2. Stack /\ ParsedRight
    BY <2>1 DEF StackInv
  <2>3. Stack'
    BY <2>1, <2>2 DEF Stack, Level
  <2>4. ParsedRight'
    BY <2>1, <2>2 DEF ParsedRight
  <2>5. QED BY <2>3, <2>4
<1>5. CASE CsvFail \/ Back
  BY <1>2, <1>5 DEF CsvFail, Back
<1>6. CASE CsvCommit \/ Analyze \/ Recalculate \/ Confirm \/ ConfirmLost
  BY <1>6 DEF CsvCommit, Analyze, Recalculate, Confirm, ConfirmLost
<1>7. ASSUME NEW i, \/ DeleteNode(i)
                    \/ \E p \in Ids(nodes) : Reparent(i, p)
                    \/ \E v \in NewKode : EditKode(i, v)
                    \/ \E v \in NewPagu : EditPagu(i, v)
                    \/ \E v \in NewSd : EditSd(i, v)
      PROVE FALSE
  BY <1>3, <1>7 DEF DeleteNode, Reparent, EditKode, EditPagu, EditSd
<1>8. QED BY <1>1, <1>4, <1>5, <1>6, <1>7 DEF Next

\* Both imports, whatever the file: a line's parent is the nearest line above it
\* of a lower level that has a code and is not closed (ParsedRight), although
\* the csv import keeps the rows of closed levels in parentIDs.
THEOREM LinesParsedRight == Spec => []ParsedRight
<1> USE PreviewAssumption, FileAssumption
<1>1. Init => StackInv
  BY EmptyStack DEF Init, StackInv
<1>2. StackInv /\ [Next]_vars => StackInv'
  BY StackKept
<1>3. StackInv => ParsedRight
  BY DEF StackInv, ParsedRight
<1>4. QED BY <1>1, <1>2, <1>3, PTL DEF Spec

\* An edit leaves the list in order and every node hanging.
LEMMA EditKeepsList ==
    ASSUME ListInv, step = "preview", NEW i \in Ids(nodes), FileAssumption,
           \/ nodes' = Deleted(nodes, i)
           \/ \E p \in Ids(nodes) : nodes' = Reparented(nodes, i, p)
           \/ \E v \in NewKode : nodes' = Updated(nodes, i, "kode", v)
           \/ \E v \in NewPagu : nodes' = Updated(nodes, i, "pagu", v)
           \/ \E v \in NewSd : nodes' = Updated(nodes, i, "sd", v)
    PROVE  nodes' \in Seq(Node) /\ Ordered(nodes') /\ Hanging(nodes')
<1>1. nodes \in Seq(Node) /\ Ordered(nodes) /\ Hanging(nodes)
  BY DEF ListInv
<1>2. CASE nodes' = Deleted(nodes, i)
  <2>1. /\ Deleted(nodes, i) \in Seq(Node) /\ Ordered(Deleted(nodes, i))
        /\ Hanging(Deleted(nodes, i))
    BY <1>1, WithoutIs, DeletedHangs DEF Deleted
  <2>2. QED BY <1>2, <2>1
<1>3. ASSUME NEW p \in Ids(nodes), nodes' = Reparented(nodes, i, p)
      PROVE  nodes' \in Seq(Node) /\ Ordered(nodes') /\ Hanging(nodes')
  <2>1. /\ Reparented(nodes, i, p) \in Seq(Node) /\ Ordered(Reparented(nodes, i, p))
        /\ Hanging(Reparented(nodes, i, p))
    BY <1>1, ReparentedHangs
  <2>2. QED BY <1>3, <2>1
<1>4. ASSUME NEW field, NEW v, nodes' = Updated(nodes, i, field, v),
             \/ field = "kode" /\ v \in Kode \cup {Blank}
             \/ field = "pagu" /\ v \in Int
             \/ field = "sd" /\ v \in Int
      PROVE  nodes' \in Seq(Node) /\ Ordered(nodes') /\ Hanging(nodes')
  <2>1. /\ Updated(nodes, i, field, v) \in Seq(Node) /\ Ordered(Updated(nodes, i, field, v))
        /\ Hanging(Updated(nodes, i, field, v))
    BY <1>1, <1>4, UpdatedHangs
  <2>2. QED BY <1>4, <2>1
<1>5. NewKode \subseteq Kode \cup {Blank} /\ NewPagu \subseteq Int /\ NewSd \subseteq Int
  BY DEF FileAssumption
<1>6. QED BY <1>2, <1>3, <1>4, <1>5

\* An edit is one of five.
LEMMA EditsAre ==
    ASSUME NEW i \in Ids(nodes),
           \/ DeleteNode(i)
           \/ \E p \in Ids(nodes) : Reparent(i, p)
           \/ \E v \in NewKode : EditKode(i, v)
           \/ \E v \in NewPagu : EditPagu(i, v)
           \/ \E v \in NewSd : EditSd(i, v)
    PROVE  /\ Edit(nodes')
           /\ \/ nodes' = Deleted(nodes, i)
              \/ \E p \in Ids(nodes) : nodes' = Reparented(nodes, i, p)
              \/ \E v \in NewKode : nodes' = Updated(nodes, i, "kode", v)
              \/ \E v \in NewPagu : nodes' = Updated(nodes, i, "pagu", v)
              \/ \E v \in NewSd : nodes' = Updated(nodes, i, "sd", v)
BY DEF DeleteNode, Reparent, EditKode, EditPagu, EditSd, Edit

\* An empty list is in order.
LEMMA EmptyList ==
    ASSUME NEW list, list = <<>>
    PROVE  list \in Seq(Node) /\ DOMAIN list = {} /\ Ordered(list)
<1>1. list \in Seq(Node) /\ DOMAIN list = {}
  OBVIOUS
<1>2. QED BY <1>1 DEF Ordered

\* Every step keeps the list: parsed lines in the order of the file, edited ones
\* a part of it, every node below a root, the sums right after Auto Kalkulasi.
LEMMA ImportKept ==
    ASSUME ImportInv, [Next]_vars
    PROVE  ImportInv'
<1> USE PreviewAssumption, FileAssumption
<1>1. StackInv'
  BY StackKept DEF ImportInv
<1>2. /\ mode \in {"csv", "xlsx"} /\ step \in {"parse", "preview", "saved"}
      /\ nodes \in Seq(Node) /\ Ordered(nodes)
      /\ last \in [Level -> Kode \cup {Blank}] /\ ids \in [Level -> 0 .. MaxRows]
      /\ edits \in 0 .. MaxEdits /\ tidy \in BOOLEAN /\ MaxEdits \in Nat /\ MaxRows \in Nat
  BY DEF ImportInv, TypeOK, Ordered, FileAssumption, PreviewAssumption
<1>3. /\ step = "parse" => ParsedSoFar /\ ~ tidy
      /\ step # "parse" => Hanging(nodes)
      /\ tidy => SumsRight(nodes)
  BY DEF ImportInv, ListInv
<1> DEFINE Arrays == /\ last' \in [Level -> Kode \cup {Blank}]
                     /\ ids' \in [Level -> 0 .. MaxRows]
           Rest == /\ mode' \in {"csv", "xlsx"} /\ step' \in {"parse", "preview", "saved"}
                   /\ edits' \in 0 .. MaxEdits /\ tidy' \in BOOLEAN
<1>4. ASSUME Arrays, Rest, ListInv' PROVE ImportInv'
  <2>1. TypeOK'
    BY <1>4 DEF TypeOK, ListInv, Ordered, Level
  <2>2. QED BY <1>1, <1>4, <2>1 DEF ImportInv
<1>5. ASSUME nodes' = nodes, step' = step, tidy' = tidy PROVE ListInv'
  <2>1. ListInv
    BY DEF ImportInv
  <2>2. QED BY <1>5, <2>1 DEF ListInv, ParsedSoFar
<1>6. ASSUME NEW r \in FileRow, Parse(r) PROVE ImportInv'
  <2>1. step = "parse" /\ step' = "parse" /\ mode' = mode /\ edits' = edits /\ tidy' = tidy
    BY <1>6 DEF Parse
  <2>2. Stack' /\ ParsedRight'
    BY <1>1, <2>1 DEF StackInv
  <2>3. nodes' \in Seq(Node) /\ Arrays
    BY <2>2 DEF Stack, Level
  <2>4. ListInv'
    BY <1>6, <2>1, <2>2, <2>3, ParseKeepsList DEF ImportInv
  <2>5. QED BY <1>2, <1>4, <2>1, <2>3, <2>4
<1>7. CASE Fresh
  <2>1. /\ step' = "parse" /\ nodes' = <<>> /\ mode' = mode /\ edits' = 0 /\ tidy' = FALSE
        /\ last' = [l \in Level |-> Blank] /\ ids' = [l \in Level |-> 0]
    BY <1>7 DEF Fresh
  <2>2. ListInv'
    <3>1. nodes' \in Seq(Node) /\ DOMAIN nodes' = {} /\ Ordered(nodes')
      BY <2>1, EmptyList
    <3>2. ParsedSoFar' /\ step' = "parse"
      BY <2>1, <3>1 DEF ParsedSoFar
    <3>3. ~ tidy'
      BY <2>1
    <3>4. QED BY <3>1, <3>2, <3>3 DEF ListInv
  <2>3. Arrays
    BY <1>2, <2>1
  <2>4. Rest
    <3>1. edits' \in 0 .. MaxEdits
      BY <1>2, <2>1
    <3>2. mode' \in {"csv", "xlsx"} /\ step' \in {"parse", "preview", "saved"} /\ tidy' \in BOOLEAN
      BY <1>2, <2>1
    <3>3. QED BY <3>1, <3>2
  <2>5. QED BY <1>4, <2>2, <2>3, <2>4
<1>8. CASE CsvCommit
  <2>1. /\ step = "parse" /\ step' = "saved" /\ nodes' = nodes /\ tidy' = tidy /\ mode' = mode
        /\ edits' = edits /\ last' = last /\ ids' = ids
    BY <1>8 DEF CsvCommit
  <2>2. Hanging(nodes')
    BY <1>2, <1>3, <2>1, ParsedHangs DEF ParsedSoFar
  <2>3. ListInv'
    BY <1>2, <1>3, <2>1, <2>2 DEF ListInv
  <2>4. Arrays /\ Rest
    BY <1>2, <2>1
  <2>5. QED BY <1>4, <2>3, <2>4
<1>9. CASE Analyze
  <2>1. /\ step = "parse" /\ step' = "preview" /\ nodes' = Normalized(nodes) /\ tidy' = tidy /\ mode' = mode
        /\ edits' = edits /\ last' = [l \in Level |-> Blank] /\ ids' = [l \in Level |-> 0]
    BY <1>9 DEF Analyze
  <2>2. Hanging(nodes)
    BY <1>2, <1>3, <2>1, ParsedHangs DEF ParsedSoFar
  <2>3. nodes' \in Seq(Node) /\ Hanging(nodes') /\ Ordered(nodes')
    <3>1. LET l2 == Normalized(nodes) IN l2 \in Seq(Node) /\ Hanging(l2) /\ Ordered(l2)
      BY <1>2, <2>2, NormalizedHangs, SameShape
    <3>2. QED BY <2>1, <3>1
  <2>4. ListInv'
    BY <1>3, <2>1, <2>3 DEF ListInv
  <2>5. Arrays /\ Rest
    BY <1>2, <2>1
  <2>6. QED BY <1>4, <2>4, <2>5
<1>10. ASSUME NEW i \in Ids(nodes),
             \/ DeleteNode(i)
             \/ \E p \in Ids(nodes) : Reparent(i, p)
             \/ \E v \in NewKode : EditKode(i, v)
             \/ \E v \in NewPagu : EditPagu(i, v)
             \/ \E v \in NewSd : EditSd(i, v)
       PROVE ImportInv'
  <2>1. /\ Edit(nodes')
        /\ \/ nodes' = Deleted(nodes, i)
           \/ \E p \in Ids(nodes) : nodes' = Reparented(nodes, i, p)
           \/ \E v \in NewKode : nodes' = Updated(nodes, i, "kode", v)
           \/ \E v \in NewPagu : nodes' = Updated(nodes, i, "pagu", v)
           \/ \E v \in NewSd : nodes' = Updated(nodes, i, "sd", v)
    BY <1>10, EditsAre
  <2>2. /\ step = "preview" /\ edits < MaxEdits /\ edits' = edits + 1
        /\ tidy' = (tidy /\ nodes' = nodes)
        /\ mode' = mode /\ step' = step /\ last' = last /\ ids' = ids
    BY <2>1 DEF Edit
  <2>3. nodes' \in Seq(Node) /\ Ordered(nodes') /\ Hanging(nodes')
    BY <2>1, <2>2, EditKeepsList DEF ImportInv
  <2>4. ListInv'
    BY <1>3, <2>2, <2>3 DEF ListInv
  <2>5. Arrays /\ Rest
    BY <1>2, <2>2
  <2>6. QED BY <1>4, <2>4, <2>5
<1>11. CASE Recalculate
  <2>1. /\ step = "preview" /\ step' = step /\ nodes' = Recalculated(nodes) /\ tidy' = TRUE
        /\ mode' = mode /\ edits' = edits /\ last' = last /\ ids' = ids
    BY <1>11 DEF Recalculate
  <2>2. LET l2 == Recalculated(nodes)
        IN  l2 \in Seq(Node) /\ Ordered(l2) /\ Hanging(l2) /\ SumsRight(l2)
    BY <1>2, <1>3, <2>1, RecalculatedRight
  <2>3. ListInv'
    BY <2>1, <2>2 DEF ListInv
  <2>4. Arrays /\ Rest
    BY <1>2, <2>1
  <2>5. QED BY <1>4, <2>3, <2>4
<1>12. CASE Confirm
  <2>1. /\ step = "preview" /\ step' = "saved" /\ nodes' = nodes /\ tidy' = tidy /\ mode' = mode
        /\ edits' = edits /\ last' = last /\ ids' = ids
    BY <1>12 DEF Confirm
  <2>2. ListInv'
    BY <1>2, <1>3, <2>1 DEF ListInv
  <2>3. Arrays /\ Rest
    BY <1>2, <2>1
  <2>4. QED BY <1>4, <2>2, <2>3
<1>13. CASE ConfirmLost \/ UNCHANGED vars
  <2>1. /\ step' = step /\ nodes' = nodes /\ tidy' = tidy /\ mode' = mode
        /\ edits' = edits /\ last' = last /\ ids' = ids
    BY <1>13 DEF ConfirmLost, vars
  <2>2. ListInv'
    BY <1>5, <2>1
  <2>3. Arrays /\ Rest
    BY <1>2, <2>1
  <2>4. QED BY <1>4, <2>2, <2>3
<1>14. CASE CsvFail \/ Back
  BY <1>7, <1>14 DEF CsvFail, Back
<1>15. QED BY <1>6, <1>8, <1>9, <1>10, <1>11, <1>12, <1>13, <1>14 DEF Next

\* An import starts with nothing.
LEMMA ImportStarts == Init => ImportInv
<1> SUFFICES ASSUME Init PROVE ImportInv
  OBVIOUS
<1> USE PreviewAssumption, FileAssumption
<1>1. StackInv
  BY EmptyStack DEF Init, StackInv
<1>2. ListInv
  <2>1. nodes \in Seq(Node) /\ DOMAIN nodes = {} /\ Ordered(nodes)
    BY EmptyList DEF Init
  <2>2. QED BY <2>1 DEF Init, ListInv, ParsedSoFar
<1>3. TypeOK
  <2>1. nodes \in Seq(Node) /\ DOMAIN nodes = {}
    BY EmptyList DEF Init
  <2>2. /\ last \in [Level -> Kode \cup {Blank}] /\ ids \in [Level -> 0 .. MaxRows]
        /\ edits \in 0 .. MaxEdits
    BY DEF Init, PreviewAssumption, FileAssumption
  <2>3. mode \in {"csv", "xlsx"} /\ step \in {"parse", "preview", "saved"} /\ tidy \in BOOLEAN
    BY DEF Init
  <2>4. QED BY <2>1, <2>2, <2>3 DEF TypeOK
<1>4. QED BY <1>1, <1>2, <1>3 DEF ImportInv

\* The list is the file's order with some lines left out (TypeOK): neither the
\* parser nor an edit of the modal reorders or duplicates a node.
THEOREM ImportTypeCorrect == Spec => []TypeOK
<1>1. ImportInv /\ [Next]_vars => ImportInv'
  BY ImportKept
<1>2. ImportInv => TypeOK
  BY DEF ImportInv
<1>3. QED BY ImportStarts, <1>1, <1>2, PTL DEF Spec

\* Whatever is deleted and dragged in ImportPreviewModal.tsx, every node of the
\* preview is reached from a root (AllShown): a deletion takes all below the
\* node, and the drop below an own descendant is refused.
THEOREM EveryNodeShown == Spec => []AllShown
<1>1. ImportInv /\ [Next]_vars => ImportInv'
  BY ImportKept
<1>2. ImportInv => AllShown
  BY HangingIsShown DEF ImportInv, ListInv, AllShown
<1>3. QED BY ImportStarts, <1>1, <1>2, PTL DEF Spec

\* After Auto Kalkulasi, for every tree, the amounts agree (SumsAgree): sums over
\* children, balances, no realisation where the pagu is locked; so saving
\* normalises nothing away.
THEOREM SumsAgreeAfterRecalculation == Spec => []SumsAgree
<1>1. ImportInv /\ [Next]_vars => ImportInv'
  BY ImportKept
<1>2. ImportInv => SumsAgree
  BY DEF ImportInv, ListInv, SumsAgree, SumsRight, PaguSum, SdSum
<1>3. QED BY ImportStarts, <1>1, <1>2, PTL DEF Spec

----------------------------------------------------------------------------
(* Saving: what a transaction holds after some nodes. *)

\* What a transaction of a save may hold.
Paths == Seq(Kode \cup {Blank})
Amount == [pagu : Int, lock : Int, sd : Int, sisa : Int]
Places == UNION {[s -> Paths] : s \in SUBSET (1 .. MaxRows)}
Table == UNION {[s -> Amount] : s \in SUBSET Paths}
Transaction == [at : Places, rows : Table]

\* The nodes of N are saved: each is placed below its parent's place, and of the
\* nodes with one place the last gives the amounts.
SavedFrom(N, t) ==
    /\ t \in Transaction
    /\ \A n \in N : n.parent = 0 \/ n.parent \in {m.id : m \in N}
    /\ DOMAIN t.at = {n.id : n \in N}
    /\ \A n \in N : t.at[n.id] = IF n.parent = 0 THEN <<n.kode>> ELSE Append(t.at[n.parent], n.kode)
    /\ DOMAIN t.rows = {t.at[n.id] : n \in N}
    /\ \A n \in N : (\A m \in N : t.at[m.id] = t.at[n.id] => m.id <= n.id)
                      => t.rows[t.at[n.id]] = Amounts(n)

\* One upsert.
LEMMA UpsertedIs ==
    ASSUME NEW t \in Transaction, NEW n \in Node
    PROVE  LET t2 == Upserted(t, n)
               key == KeyOf(t, n)
           IN  /\ t2 \in Transaction /\ key \in Paths
               /\ DOMAIN t2.at = DOMAIN t.at \cup {n.id}
               /\ \A i \in DOMAIN t2.at : t2.at[i] = IF i = n.id THEN key ELSE t.at[i]
               /\ DOMAIN t2.rows = DOMAIN t.rows \cup {key}
               /\ \A p \in DOMAIN t2.rows : t2.rows[p] = IF p = key THEN Amounts(n) ELSE t.rows[p]
<1> DEFINE t2 == Upserted(t, n)
           key == KeyOf(t, n)
           at == t.at
           rs == t.rows
           am == Amounts(n)
<1>1. PICK s \in SUBSET (1 .. MaxRows) : at \in [s -> Paths]
  BY DEF Transaction, Places
<1>2. PICK u \in SUBSET Paths : rs \in [u -> Amount]
  BY DEF Transaction, Table
<1>3. n.id \in 1 .. MaxRows /\ n.kode \in Kode \cup {Blank} /\ am \in Amount
  BY DEF Node, Amounts, Amount
<1>4. key \in Paths
  <2> DEFINE above == IF n.parent \in DOMAIN at THEN at[n.parent] ELSE <<>>
  <2>1. above \in Paths
    <3>1. <<>> \in Paths
      <4>1. <<>> \in Seq(Kode \cup {Blank})
        OBVIOUS
      <4>2. QED BY <4>1 DEF Paths
    <3>2. CASE n.parent \in DOMAIN at
      <4>1. at[n.parent] \in Paths
        BY <1>1, <3>2
      <4>2. QED BY <4>1, <3>2
    <3>3. CASE n.parent \notin DOMAIN at
      BY <3>1, <3>3
    <3>4. QED BY <3>2, <3>3
  <2>2. key = Append(above, n.kode)
    BY DEF KeyOf
  <2> HIDE DEF above, key
  <2>3. QED BY <2>1, <2>2, <1>3 DEF Paths
<1> DEFINE at2 == Over(Just(n.id, key), at)
           rs2 == Over(Just(key, am), rs)
<1>5. t2 = [at |-> at2, rows |-> rs2]
  BY DEF Upserted
<1> HIDE DEF key, at, rs, am
<1>6. /\ DOMAIN at2 = DOMAIN at \cup {n.id}
      /\ \A i \in DOMAIN at2 : at2[i] = IF i = n.id THEN key ELSE at[i]
      /\ at2 = [i \in DOMAIN at2 |-> at2[i]]
  BY DEF Over, Just
<1>7. /\ DOMAIN rs2 = DOMAIN rs \cup {key}
      /\ \A p \in DOMAIN rs2 : rs2[p] = IF p = key THEN am ELSE rs[p]
      /\ rs2 = [p \in DOMAIN rs2 |-> rs2[p]]
  BY DEF Over, Just
<1> HIDE DEF at2, rs2, t2
<1>8. at2 \in [s \cup {n.id} -> Paths]
  BY <1>1, <1>4, <1>6
<1>9. rs2 \in [u \cup {key} -> Amount]
  BY <1>2, <1>3, <1>7
<1>10. at2 \in Places /\ rs2 \in Table
  <2>1. s \cup {n.id} \in SUBSET (1 .. MaxRows) /\ u \cup {key} \in SUBSET Paths
    BY <1>3, <1>4
  <2>2. QED BY <2>1, <1>8, <1>9 DEF Places, Table
<1>11. t2 \in Transaction /\ t2.at = at2 /\ t2.rows = rs2
  BY <1>5, <1>10 DEF Transaction
<1>12. QED BY <1>4, <1>6, <1>7, <1>11 DEF t2, key, at, rs, am

\* Nothing is saved of no nodes.
LEMMA NothingSavedIs == SavedFrom({}, NothingSaved)
<1> DEFINE none == <<>>
<1>1. none = [x \in {} |-> 0]
  OBVIOUS
<1> HIDE DEF none
<1>2. none \in [{} -> Paths] /\ none \in [{} -> Amount] /\ DOMAIN none = {}
  BY <1>1
<1>3. none \in Places /\ none \in Table
  <2>1. {} \in SUBSET (1 .. MaxRows) /\ {} \in SUBSET Paths
    OBVIOUS
  <2>2. QED BY <2>1, <1>2 DEF Places, Table
<1>4. NothingSaved = [at |-> none, rows |-> none]
  BY DEF NothingSaved, none
<1>5. NothingSaved \in Transaction /\ NothingSaved.at = none /\ NothingSaved.rows = none
  BY <1>3, <1>4 DEF Transaction
<1>6. QED BY <1>2, <1>5 DEF SavedFrom

\* A node is saved after its parent and after all before it.
LEMMA OneSaved ==
    ASSUME NEW N \in SUBSET Node, NEW t, SavedFrom(N, t), NEW n \in Node,
           \A m \in N : m.id < n.id, n.parent = 0 \/ n.parent \in {m.id : m \in N}
    PROVE  SavedFrom(N \cup {n}, Upserted(t, n))
<1> DEFINE t2 == Upserted(t, n)
           key == KeyOf(t, n)
           N2 == N \cup {n}
<1>1. t \in Transaction
  BY DEF SavedFrom
<1>2. /\ t2 \in Transaction /\ key \in Paths
      /\ DOMAIN t2.at = DOMAIN t.at \cup {n.id}
      /\ \A i \in DOMAIN t2.at : t2.at[i] = IF i = n.id THEN key ELSE t.at[i]
      /\ DOMAIN t2.rows = DOMAIN t.rows \cup {key}
      /\ \A p \in DOMAIN t2.rows : t2.rows[p] = IF p = key THEN Amounts(n) ELSE t.rows[p]
  BY <1>1, UpsertedIs
<1>3. /\ \A m \in N : m.parent = 0 \/ m.parent \in {l.id : l \in N}
      /\ DOMAIN t.at = {m.id : m \in N}
      /\ \A m \in N : t.at[m.id] = IF m.parent = 0 THEN <<m.kode>> ELSE Append(t.at[m.parent], m.kode)
      /\ DOMAIN t.rows = {t.at[m.id] : m \in N}
      /\ \A m \in N : (\A l \in N : t.at[l.id] = t.at[m.id] => l.id <= m.id)
                        => t.rows[t.at[m.id]] = Amounts(m)
  BY DEF SavedFrom
<1>4. \A m \in N2 : m.id \in 1 .. MaxRows /\ m \in Node
  BY DEF Node
<1>5. \A m \in N : m.id # n.id
  BY <1>4
<1>6. key = IF n.parent = 0 THEN <<n.kode>> ELSE Append(t.at[n.parent], n.kode)
  <2>1. CASE n.parent = 0
    <3>1. n.parent \notin DOMAIN t.at
      <4>1. \A m \in N : m.id # 0
        BY <1>4
      <4>2. QED BY <4>1, <2>1, <1>3
    <3>2. key = Append(<<>>, n.kode)
      BY <3>1 DEF KeyOf
    <3>3. Append(<<>>, n.kode) = <<n.kode>>
      OBVIOUS
    <3>4. QED BY <3>2, <3>3, <2>1
  <2>2. CASE n.parent # 0
    BY <2>2, <1>3 DEF KeyOf
  <2>3. QED BY <2>1, <2>2
<1> HIDE DEF t2, key, N2
<1>7. DOMAIN t2.at = {m.id : m \in N2}
  BY <1>2, <1>3 DEF N2
<1>8. t2.at[n.id] = key /\ \A m \in N : t2.at[m.id] = t.at[m.id]
  <2>1. n.id \in DOMAIN t2.at /\ \A m \in N : m.id \in DOMAIN t2.at
    BY <1>7 DEF N2
  <2>2. QED BY <2>1, <1>2, <1>5
<1>9. ASSUME NEW m \in N2
      PROVE  t2.at[m.id] = IF m.parent = 0 THEN <<m.kode>> ELSE Append(t2.at[m.parent], m.kode)
  <2>1. \A q \in N2 : q.parent \in DOMAIN t.at => t2.at[q.parent] = t.at[q.parent]
    BY <1>3, <1>8
  <2>2. CASE m = n
    <3>1. n.parent = 0 \/ n.parent \in DOMAIN t.at
      BY <1>3
    <3>2. n.parent = 0 \/ t2.at[n.parent] = t.at[n.parent]
      BY <2>1, <3>1 DEF N2
    <3>3. QED BY <2>2, <3>2, <1>6, <1>8
  <2>3. CASE m \in N
    <3>1. t2.at[m.id] = t.at[m.id]
      BY <2>3, <1>8
    <3>2. m.parent = 0 \/ t2.at[m.parent] = t.at[m.parent]
      <4>1. m.parent = 0 \/ m.parent \in DOMAIN t.at
        BY <2>3, <1>3
      <4>2. QED BY <4>1, <2>1
    <3>3. QED BY <3>1, <3>2, <2>3, <1>3
  <2>4. QED BY <2>2, <2>3 DEF N2
<1>10. DOMAIN t2.rows = {t2.at[m.id] : m \in N2}
  BY <1>2, <1>3, <1>8 DEF N2
<1>11. ASSUME NEW m \in N2, \A l \in N2 : t2.at[l.id] = t2.at[m.id] => l.id <= m.id
       PROVE  t2.rows[t2.at[m.id]] = Amounts(m)
  <2>1. t2.at[m.id] \in DOMAIN t2.rows
    BY <1>10
  <2>2. CASE m = n
    BY <2>1, <2>2, <1>2, <1>8
  <2>3. CASE m \in N
    <3>1. m.id < n.id /\ m.id \in Int /\ n.id \in Int
      BY <2>3, <1>4 DEF N2
    <3>2. t2.at[m.id] # key
      <4>1. t2.at[n.id] = t2.at[m.id] => n.id <= m.id
        BY <1>11 DEF N2
      <4>2. QED BY <4>1, <3>1, <1>8
    <3>3. t2.rows[t2.at[m.id]] = t.rows[t.at[m.id]]
      BY <3>2, <2>1, <2>3, <1>2, <1>8
    <3>4. \A l \in N : t.at[l.id] = t.at[m.id] => l.id <= m.id
      BY <2>3, <1>8, <1>11 DEF N2
    <3>5. QED BY <3>3, <3>4, <2>3, <1>3
  <2>4. QED BY <2>2, <2>3 DEF N2
<1>12. \A m \in N2 : m.parent = 0 \/ m.parent \in {l.id : l \in N2}
  BY <1>3 DEF N2
<1>13. QED BY <1>2, <1>7, <1>9, <1>10, <1>11, <1>12 DEF SavedFrom, t2, N2

\* Each node is a root or below a node of the list.
ParentsIn(list) == \A n \in ToSet(list) : n.parent = 0 \/ n.parent \in Ids(list)

\* What hangs below the roots has its parents in the list.
LEMMA ParentsAreThere ==
    ASSUME NEW list \in Seq(Node), Ordered(list), Hanging(list)
    PROVE  ParentsIn(list)
<1> DEFINE C == {n.id : n \in {m \in ToSet(list) : m.parent = 0 \/ m.parent \in Ids(list)}}
<1>1. RootIds(list) \subseteq C
  BY DEF RootIds
<1>2. ClosedIn(list, C)
  <2> SUFFICES ASSUME NEW j \in C, NEW i \in Kids(list, j) PROVE i \in C
    BY DEF ClosedIn
  <2>1. j \in Ids(list)
    BY DEF Ids
  <2>2. PICK n \in ToSet(list) : n.parent = j /\ n.id = i
    BY DEF Kids
  <2>3. QED BY <2>1, <2>2
<1> HIDE DEF C
<1>3. Ids(list) \subseteq C
  BY <1>1, <1>2 DEF Hanging
<1>4. ASSUME NEW n \in ToSet(list) PROVE n.parent = 0 \/ n.parent \in Ids(list)
  <2>1. n.id \in C
    BY <1>3 DEF Ids
  <2>2. PICK m \in ToSet(list) : m.id = n.id /\ (m.parent = 0 \/ m.parent \in Ids(list))
    BY <2>1 DEF C
  <2>3. PICK j \in DOMAIN list, k \in DOMAIN list : n = list[j] /\ m = list[k]
    BY DEF ToSet
  <2>4. m = n
    BY <2>2, <2>3, OnePlace
  <2>5. QED BY <2>2, <2>4
<1>5. QED BY <1>4 DEF ParentsIn

\* The fold of a save, node by node.
LEMMA SaveStepwise ==
    ASSUME NEW list \in Seq(Node)
    PROVE  \E d \in [0 .. Len(list) -> Transaction] :
             /\ FoldLeft(Upserted, NothingSaved, list) = d[Len(list)]
             /\ \A k \in 0 .. Len(list) :
                  d[k] = IF k = 0 THEN NothingSaved ELSE Upserted(d[k - 1], list[k])
<1>1. PICK n \in Nat : n = Len(list) /\ DOMAIN list = 1 .. n
  OBVIOUS
<1>0. PICK V : V = Transaction
  OBVIOUS
<1>2. PICK none \in V : none = NothingSaved
  BY <1>0, NothingSavedIs DEF SavedFrom
<1>3. PICK f \in [V \X (1 .. n) -> V] : \A v \in V, k \in 1 .. n : f[<<v, k>>] = Upserted(v, list[k])
  <2> DEFINE f == [vx \in V \X (1 .. n) |-> Upserted(vx[1], list[vx[2]])]
  <2>1. \A v \in V, k \in 1 .. n : Upserted(v, list[k]) \in V
    <3>1. \A k \in 1 .. n : list[k] \in Node
      BY <1>1
    <3>2. QED BY <1>0, <3>1, UpsertedIs
  <2>2. f \in [V \X (1 .. n) -> V]
    BY <2>1
  <2>3. \A v \in V, k \in 1 .. n : f[<<v, k>>] = Upserted(v, list[k])
    OBVIOUS
  <2> HIDE DEF f
  <2>4. QED BY <2>2, <2>3
<1> DEFINE eq(r) == r = [s \in SUBSET (1 .. n) |->
               IF s = {} THEN NothingSaved ELSE Upserted(r[s \ {Max(s)}], list[Max(s)])]
<1>4. \A s \in SUBSET (1 .. n) : s # {} => Max(s) \in 1 .. n
  BY MaxIsIn
<1>5. PICK g \in LeftFolds(V, none, n, f) : TRUE
  BY <1>2, LeftFolded
<1>6. eq(g)
  <2>1. g = [s \in SUBSET (1 .. n) |-> g[s]] /\ \A s \in SUBSET (1 .. n) : g[s] \in V
    BY <1>5 DEF LeftFolds
  <2>2. ASSUME NEW s \in SUBSET (1 .. n), s # {}
        PROVE  g[s] = Upserted(g[s \ {Max(s)}], list[Max(s)])
    <3>1. g[s] = f[<<g[s \ {Max(s)}], Max(s)>>]
      BY <2>2, <1>5 DEF LeftFolds
    <3>2. g[s \ {Max(s)}] \in V /\ Max(s) \in 1 .. n
      BY <2>1, <2>2, <1>4
    <3>3. QED BY <3>1, <3>2, <1>3
  <2>3. g[{}] = NothingSaved
    BY <1>2, <1>5 DEF LeftFolds
  <2>4. QED BY <2>1, <2>2, <2>3
<1>7. PICK r : eq(r) /\ FoldLeft(Upserted, NothingSaved, list) = r[1 .. n]
  <2>1. FoldLeft(Upserted, NothingSaved, list) = (CHOOSE r : eq(r))[1 .. n]
    BY <1>1 DEF FoldLeft, MapThenFoldSet
  <2> HIDE DEF eq
  <2>2. eq(CHOOSE r : eq(r))
    BY <1>6
  <2>3. QED BY <2>1, <2>2
<1>8. FoldsLeft(V, none, n, f, r)
  <2>1. r[{}] = none
    BY <1>2, <1>7
  <2>2. ASSUME NEW s \in SUBSET (1 .. n), s # {}, r[s \ {Max(s)}] \in V
        PROVE  r[s] = f[<<r[s \ {Max(s)}], Max(s)>>]
    <3>1. r[s] = Upserted(r[s \ {Max(s)}], list[Max(s)])
      BY <1>7, <2>2
    <3>2. QED BY <3>1, <1>3, <1>4, <2>2
  <2>3. QED BY <2>1, <2>2 DEF FoldsLeft
<1> HIDE DEF eq
<1>9. PICK d \in LeftSteps(V, none, n, f) : r[1 .. n] = d[n]
  BY <1>8, LeftFoldIs
<1>10. d \in [0 .. n -> V] /\ \A k \in 0 .. n : d[k] = IF k = 0 THEN none ELSE f[<<d[k - 1], k>>]
  BY <1>9 DEF LeftSteps
<1>11. ASSUME NEW k \in 0 .. n, k # 0
       PROVE  d[k] = Upserted(d[k - 1], list[k])
  <2>1. k \in 1 .. n /\ k - 1 \in 0 .. n
    BY <1>11
  <2>2. QED BY <2>1, <1>3, <1>10, <1>11
<1>12. QED BY <1>0, <1>1, <1>2, <1>7, <1>9, <1>10, <1>11

\* Parents before their children.
Downward(list) == \A n \in ToSet(list) : n.parent < n.id

\* A list that has parents before their children is saved.
LEMMA SavedIs ==
    ASSUME NEW list \in Seq(Node), Ordered(list), ParentsIn(list), Downward(list)
    PROVE  SavedFrom(ToSet(list), FoldLeft(Upserted, NothingSaved, list))
<1>1. PICK n \in Nat : n = Len(list) /\ DOMAIN list = 1 .. n
  OBVIOUS
<1>2. PICK d \in [0 .. n -> Transaction] :
        /\ FoldLeft(Upserted, NothingSaved, list) = d[n]
        /\ \A k \in 0 .. n : d[k] = IF k = 0 THEN NothingSaved ELSE Upserted(d[k - 1], list[k])
  BY <1>1, SaveStepwise
<1> DEFINE N(k) == {list[j] : j \in 1 .. k}
           S == {k \in Nat : k \in 0 .. n => SavedFrom(N(k), d[k])}
<1>3. 0 \in S
  <2>1. N(0) = {} /\ d[0] = NothingSaved
    BY <1>2
  <2>2. QED BY <2>1, NothingSavedIs
<1>4. ASSUME NEW k \in Nat, k \in S, k + 1 \in 0 .. n
      PROVE  SavedFrom(N(k + 1), d[k + 1])
  <2>1. PICK j : j = k + 1
    OBVIOUS
  <2>2. j \in 1 .. n /\ k \in 0 .. n /\ j - 1 = k /\ 1 .. j = (1 .. k) \cup {j}
    BY <2>1, <1>4
  <2>3. PICK m \in Node : m = list[j]
    BY <1>1, <2>2
  <2>4. N(k) \in SUBSET Node
    BY <1>1, <2>2
  <2>5. SavedFrom(N(k), d[k])
    BY <1>4, <2>2
  <2>6. N(j) = N(k) \cup {m}
    BY <2>2, <2>3
  <2>7. \A x \in N(k) : x.id < m.id
    <3>1. \A i \in 1 .. k : i \in DOMAIN list /\ i < j /\ j \in DOMAIN list
      BY <1>1, <2>2
    <3>2. QED BY <3>1, <2>3 DEF Ordered
  <2>8. m.parent = 0 \/ m.parent \in {x.id : x \in N(k)}
    <3>1. m \in ToSet(list)
      BY <2>2, <2>3, <1>1 DEF ToSet
    <3>2. CASE m.parent \in Ids(list)
      <4>1. PICK i \in 1 .. n : list[i].id = m.parent
        BY <3>2, <1>1 DEF Ids, ToSet
      <4>2. list[i].id < list[j].id /\ list[i].id \in Int /\ list[j].id \in Int
        <5>1. list[i] \in Node /\ list[j] \in Node
          BY <1>1, <2>2
        <5>2. m.parent < m.id
          BY <3>1 DEF Downward
        <5>3. QED BY <5>1, <5>2, <4>1, <2>3 DEF Node
      <4>3. ~ (j < i) /\ i # j
        BY <4>2, <2>2, <1>1 DEF Ordered
      <4>4. i \in 1 .. k
        BY <4>3, <2>2
      <4>5. QED BY <4>1, <4>4
    <3>3. QED BY <3>1, <3>2 DEF ParentsIn
  <2>9. d[j] = Upserted(d[k], m)
    BY <1>2, <2>2, <2>3
  <2> HIDE DEF N
  <2>10. SavedFrom(N(k) \cup {m}, Upserted(d[k], m))
    BY <2>4, <2>5, <2>7, <2>8, OneSaved
  <2>11. QED BY <2>1, <2>6, <2>9, <2>10
<1>5. \A k \in Nat : k \in S => k + 1 \in S
  BY <1>4
<1>6. N(n) = ToSet(list)
  BY <1>1 DEF ToSet
<1> HIDE DEF S, N
<1>7. Nat \subseteq S
  BY <1>3, <1>5, FromZeroUp
<1>8. SavedFrom(N(n), d[n])
  BY <1>7 DEF S
<1>9. QED BY <1>2, <1>6, <1>8

\* Where the tree on the screen has a node of the list.
PathIn(list, i) ==
    LET path[j \in Ids(list)] ==
          LET n == Shown(list, j)
          IN  IF n.parent = 0 THEN <<n.kode>> ELSE Append(path[n.parent], n.kode)
    IN  path[i]

\* Each node is placed below its parent's place.
PlacesIn(list, at) ==
    /\ at \in Places /\ DOMAIN at = Ids(list)
    /\ \A n \in ToSet(list) :
         at[n.id] = IF n.parent = 0 THEN <<n.kode>> ELSE Append(at[n.parent], n.kode)

\* There is one way to place nodes that have parents before their children.
LEMMA PathsAre ==
    ASSUME NEW list \in Seq(Node), Ordered(list), ParentsIn(list), Downward(list),
           NEW at, PlacesIn(list, at)
    PROVE  \A i \in Ids(list) : PathIn(list, i) = at[i]
<1> DEFINE I == Ids(list)
           n(j) == Shown(list, j)
           eq(r) == r = [j \in I |-> IF n(j).parent = 0 THEN <<n(j).kode>>
                                     ELSE Append(r[n(j).parent], n(j).kode)]
<1>1. ASSUME NEW i \in I
      PROVE  /\ n(i) \in ToSet(list) /\ n(i).id = i /\ i \in Nat
             /\ n(i).parent \in Nat /\ n(i).parent < i
             /\ n(i).parent = 0 \/ n(i).parent \in I
  <2>1. PICK k \in DOMAIN list : list[k].id = i
    BY DEF Ids, ToSet
  <2>2. n(i) = list[k] /\ list[k] \in Node /\ list[k] \in ToSet(list)
    BY <2>1, ShownIs DEF ToSet
  <2> HIDE DEF n, I
  <2>3. list[k].id \in Nat /\ list[k].parent \in Nat
    BY <2>2 DEF Node
  <2>4. list[k].parent < i
    BY <2>1, <2>2 DEF Downward
  <2>5. list[k].parent = 0 \/ list[k].parent \in I
    BY <2>2 DEF ParentsIn, I
  <2>6. QED BY <2>1, <2>2, <2>3, <2>4, <2>5
<1>2. eq(at)
  <2>1. at = [j \in I |-> at[j]]
    <3>1. PICK s \in SUBSET (1 .. MaxRows) : at \in [s -> Paths]
      BY DEF PlacesIn, Places
    <3>2. DOMAIN at = I
      BY DEF PlacesIn
    <3>3. QED BY <3>1, <3>2
  <2>2. ASSUME NEW j \in I
        PROVE  at[j] = IF n(j).parent = 0 THEN <<n(j).kode>> ELSE Append(at[n(j).parent], n(j).kode)
    <3>1. n(j) \in ToSet(list) /\ n(j).id = j
      BY <1>1
    <3> HIDE DEF n
    <3>2. QED BY <3>1 DEF PlacesIn
  <2> HIDE DEF n, I
  <2>3. QED BY <2>1, <2>2
<1>3. PICK r : eq(r) /\ \A i \in I : PathIn(list, i) = r[i]
  <2>1. \A i \in I : PathIn(list, i) = (CHOOSE r : eq(r))[i]
    BY DEF PathIn
  <2> HIDE DEF eq
  <2>2. eq(CHOOSE r : eq(r))
    BY <1>2
  <2>3. QED BY <2>1, <2>2
<1> DEFINE S == {k \in Nat : \A i \in I : i <= k => r[i] = at[i]}
<1> HIDE DEF n
<1>4. \A i \in I : /\ r[i] = IF n(i).parent = 0 THEN <<n(i).kode>> ELSE Append(r[n(i).parent], n(i).kode)
                   /\ at[i] = IF n(i).parent = 0 THEN <<n(i).kode>> ELSE Append(at[n(i).parent], n(i).kode)
  BY <1>2, <1>3
<1> HIDE DEF I, eq
<1>5. 0 \in S
  <2>1. \A i \in I : i <= 0 => r[i] = at[i]
    <3> TAKE i \in I
    <3>1. ~ (i <= 0)
      BY <1>1
    <3>2. QED BY <3>1
  <2>2. QED BY <2>1
<1>6. ASSUME NEW k \in Nat, k \in S PROVE k + 1 \in S
  <2>1. ASSUME NEW i \in I, i <= k + 1 PROVE r[i] = at[i]
    <3>1. CASE n(i).parent = 0
      BY <3>1, <1>4
    <3>2. CASE n(i).parent # 0
      <4>1. n(i).parent \in I /\ n(i).parent <= k
        BY <1>1, <2>1, <3>2
      <4>2. r[n(i).parent] = at[n(i).parent]
        BY <4>1, <1>6
      <4>3. QED BY <4>2, <3>2, <1>4
    <3>3. QED BY <3>1, <3>2
  <2>2. QED BY <2>1
<1> HIDE DEF S
<1>7. Nat \subseteq S
  BY <1>5, <1>6, FromZeroUp
<1>8. \A i \in I : i \in S
  BY <1>1, <1>7
<1>9. \A i \in I : r[i] = at[i]
  <2> TAKE i \in I
  <2>1. i \in S /\ i <= i
    BY <1>1, <1>8
  <2>2. QED BY <2>1 DEF S
<1>10. QED BY <1>3, <1>9 DEF I

\* list2 differs from list in amounts only.
SamePlaces(list, list2) ==
    /\ DOMAIN list2 = DOMAIN list
    /\ \A k \in DOMAIN list : /\ list2[k].id = list[k].id
                              /\ list2[k].parent = list[k].parent
                              /\ list2[k].kode = list[k].kode

\* The normalisation before a save changes amounts only.
LEMMA NormalizedInPlace ==
    ASSUME NEW list \in Seq(Node)
    PROVE  Normalized(list) \in Seq(Node) /\ SamePlaces(list, Normalized(list))
<1>1. \A k \in DOMAIN list : Normalized(list)[k].kode = list[k].kode
  <2> TAKE k \in DOMAIN list
  <2>1. Normalized(list)[k] = NormalizeByLock(list[k])
    BY DEF Normalized
  <2>2. PICK n \in Node : n = list[k]
    OBVIOUS
  <2>3. NormalizeByLock(n).kode = n.kode
    BY DEF NormalizeByLock, Node
  <2>4. QED BY <2>1, <2>2, <2>3
<1>2. QED BY <1>1, NormalizedHangs DEF SamePlaces

\* So it keeps the order and the parents.
LEMMA SameOrder ==
    ASSUME NEW list \in Seq(Node), NEW list2 \in Seq(Node), SamePlaces(list, list2)
    PROVE  /\ Ids(list2) = Ids(list)
           /\ Ordered(list) => Ordered(list2)
           /\ ParentsIn(list) => ParentsIn(list2)
           /\ Downward(list) => Downward(list2)
<1>1. Ids(list2) = Ids(list)
  BY DEF SamePlaces, Ids, ToSet
<1>2. Ordered(list) => Ordered(list2)
  BY DEF SamePlaces, Ordered
<1>3. ASSUME NEW n2 \in ToSet(list2)
      PROVE  \E n \in ToSet(list) : n.id = n2.id /\ n.parent = n2.parent
  BY DEF SamePlaces, ToSet
<1>4. QED BY <1>1, <1>2, <1>3 DEF ParentsIn, Downward

\* The rows a save leaves: one for each place on the screen, with the amounts of
\* the last node that has the place.
RowsShown(list, final, rs) ==
    LET shown == {PathIn(list, i) : i \in Ids(list)}
    IN  /\ DOMAIN rs = shown
        /\ \A p \in shown :
             rs[p] = Amounts(Shown(final, Max({i \in Ids(list) : PathIn(list, i) = p})))

\* A save of the normalised list leaves the rows its tree shows.
LEMMA SavedIsShown ==
    ASSUME NEW list \in Seq(Node), Ordered(list), ParentsIn(list), Downward(list),
           NEW final \in Seq(Node), SamePlaces(list, final),
           NEW t, SavedFrom(ToSet(final), t)
    PROVE  RowsShown(list, final, t.rows)
<1> DEFINE I == Ids(list)
           at == t.at
           path(i) == PathIn(list, i)
<1>1. Ids(final) = I /\ Ordered(final)
  BY SameOrder
<1>2. PlacesIn(list, at)
  <2>1. at \in Places
    BY DEF SavedFrom, Transaction
  <2>2. DOMAIN at = I
    BY <1>1 DEF SavedFrom, Ids
  <2>3. ASSUME NEW n \in ToSet(list)
        PROVE  at[n.id] = IF n.parent = 0 THEN <<n.kode>> ELSE Append(at[n.parent], n.kode)
    <3>1. PICK m \in ToSet(final) : m.id = n.id /\ m.parent = n.parent /\ m.kode = n.kode
      BY DEF SamePlaces, ToSet
    <3>2. at[m.id] = IF m.parent = 0 THEN <<m.kode>> ELSE Append(at[m.parent], m.kode)
      BY DEF SavedFrom
    <3>3. QED BY <3>1, <3>2
  <2>4. QED BY <2>1, <2>2, <2>3 DEF PlacesIn
<1>3. \A i \in I : path(i) = at[i]
  BY <1>2, PathsAre
<1>4. DOMAIN t.rows = {at[n.id] : n \in ToSet(final)}
  BY DEF SavedFrom
<1> HIDE DEF at, path
<1>5. {at[n.id] : n \in ToSet(final)} = {at[i] : i \in Ids(final)}
  BY DEF Ids
<1>6. DOMAIN t.rows = {path(i) : i \in I}
  BY <1>1, <1>3, <1>4, <1>5
<1>7. ASSUME NEW p \in {path(i) : i \in I}
      PROVE  t.rows[p] = Amounts(Shown(final, Max({i \in I : path(i) = p})))
  <2> DEFINE T == {i \in I : path(i) = p}
  <2>1. I \subseteq 1 .. MaxRows /\ MaxRows \in Nat
    <3>1. \A n \in ToSet(list) : n \in Node
      BY DEF ToSet
    <3>2. QED BY <3>1, PreviewAssumption DEF Ids, Node
  <2>2. T # {} /\ T \in SUBSET (1 .. MaxRows)
    BY <2>1
  <2>3. PICK x : x = Max(T)
    OBVIOUS
  <2>4. x \in T /\ \A i \in T : i <= x
    BY <2>1, <2>2, <2>3, MaxIsIn
  <2>5. PICK k \in DOMAIN final : final[k].id = x
    BY <2>4, <1>1 DEF Ids, ToSet
  <2>6. PICK n \in ToSet(final) : n = final[k] /\ n.id = x
    BY <2>5 DEF ToSet
  <2>7. Shown(final, x) = n
    BY <1>1, <2>5, <2>6, ShownIs
  <2>8. at[x] = p
    BY <2>4, <1>3
  <2>9. \A m \in ToSet(final) : at[m.id] = at[n.id] => m.id <= n.id
    <3> TAKE m \in ToSet(final)
    <3> HAVE at[m.id] = at[n.id]
    <3>1. m.id \in I
      BY <1>1 DEF Ids
    <3>2. m.id \in T
      BY <3>1, <2>8, <2>6, <1>3
    <3>3. QED BY <3>2, <2>4, <2>6
  <2>10. t.rows[at[n.id]] = Amounts(n)
    <3>1. \A q \in ToSet(final) :
            (\A m \in ToSet(final) : at[m.id] = at[q.id] => m.id <= q.id)
               => t.rows[at[q.id]] = Amounts(q)
      BY DEF SavedFrom, at
    <3>2. QED BY <3>1, <2>9
  <2>11. QED BY <2>3, <2>6, <2>7, <2>8, <2>10
<1>8. QED BY <1>6, <1>7 DEF RowsShown, path

----------------------------------------------------------------------------
(* What each import saves. *)

\* A save writes over what was there.
LEMMA OverIs ==
    ASSUME NEW f, NEW g
    PROVE  /\ DOMAIN Over(f, g) = DOMAIN f \cup DOMAIN g
           /\ \A x \in DOMAIN f : Over(f, g)[x] = f[x]
BY DEF Over

\* Outside a save the table holds what the user was told had failed; the csv
\* import has no such rows, and its transaction has saved the lines so far.
SaveInv ==
    /\ step # "saved" => DOMAIN rows = unseen
    /\ mode = "csv" => unseen = {} /\ step # "preview"
    /\ mode = "csv" /\ step = "parse" => SavedFrom(ToSet(nodes), tx)
    /\ SavedInOrder

\* What a save of the list must leave for SavedInOrder.
LEMMA SavedRight ==
    ASSUME NEW final, NEW rs, RowsShown(nodes', final, rs),
           final = IF mode' = "csv" THEN nodes' ELSE Normalized(nodes'),
           rows' = Over(rs, rows), DOMAIN rows = unseen'
    PROVE  ShownIsSaved'
<1> DEFINE shown == {Path(i)' : i \in Ids(nodes')}
<1>1. \A i : Path(i)' = PathIn(nodes', i)
  BY DEF Path, PathIn
<1>2. shown = {PathIn(nodes', i) : i \in Ids(nodes')}
  BY <1>1
<1>3. DOMAIN rs = shown
  BY <1>2 DEF RowsShown
<1>4. ASSUME NEW p \in shown
      PROVE  rows'[p] = Amounts(Shown(final, Max({i \in Ids(nodes') : Path(i)' = p})))
  <2>1. rs[p] = Amounts(Shown(final, Max({i \in Ids(nodes') : PathIn(nodes', i) = p})))
    BY <1>2 DEF RowsShown
  <2>2. {i \in Ids(nodes') : PathIn(nodes', i) = p} = {i \in Ids(nodes') : Path(i)' = p}
    BY <1>1
  <2>3. rows'[p] = rs[p]
    BY <1>3, OverIs
  <2>4. QED BY <2>1, <2>2, <2>3
<1>5. DOMAIN rows' = shown \cup unseen'
  BY <1>3, OverIs
<1> HIDE DEF shown
<1>6. QED BY <1>4, <1>5 DEF ShownIsSaved, shown

\* A parsed line is upserted into the transaction.
LEMMA ParseSaves ==
    ASSUME ImportInv, SaveInv, ImportInv', NEW r \in FileRow, Parse(r), mode = "csv"
    PROVE  SavedFrom(ToSet(nodes)', tx')
<1> DEFINE n == ParsedNode(r)
           N == ToSet(nodes)
<1>1. /\ step = "parse" /\ step' = step /\ nodes' = Append(nodes, n) /\ tx' = Upserted(tx, n)
  BY DEF Parse
<1>2. SavedFrom(N, tx)
  BY <1>1 DEF SaveInv
<1>3. nodes \in Seq(Node) /\ nodes' \in Seq(Node) /\ ParsedSoFar'
  BY <1>1 DEF ImportInv, ListInv
<1>4. /\ Len(nodes) \in Nat /\ DOMAIN nodes = 1 .. Len(nodes)
      /\ DOMAIN nodes' = 1 .. Len(nodes) + 1
      /\ nodes'[Len(nodes) + 1] = n
      /\ \A k \in DOMAIN nodes : nodes'[k] = nodes[k]
  BY <1>1, <1>3
<1> HIDE DEF n
<1>5. n \in Node /\ N \in SUBSET Node
  BY <1>3, <1>4 DEF ToSet
<1>6. ToSet(nodes)' = N \cup {n}
  BY <1>4 DEF ToSet
<1>7. n.id = Len(nodes) + 1 /\ n.parent < Len(nodes) + 1 /\ n.parent \in Nat
  <2>1. Len(nodes) + 1 \in DOMAIN nodes'
    BY <1>4
  <2>2. n.id = Len(nodes) + 1 /\ n.parent < Len(nodes) + 1
    BY <2>1, <1>3, <1>4 DEF ParsedSoFar
  <2>3. n.parent \in Nat
    BY <1>5 DEF Node
  <2>4. QED BY <2>2, <2>3
<1>8. \A k \in DOMAIN nodes : nodes[k].id = k
  BY <1>3, <1>4 DEF ParsedSoFar
<1>9. \A m \in N : m.id < n.id
  BY <1>4, <1>7, <1>8 DEF ToSet
<1>10. n.parent = 0 \/ n.parent \in {m.id : m \in N}
  <2>1. CASE n.parent # 0
    <3>1. n.parent \in DOMAIN nodes
      BY <2>1, <1>4, <1>7
    <3>2. nodes[n.parent] \in N /\ nodes[n.parent].id = n.parent
      BY <3>1, <1>8 DEF ToSet
    <3>3. QED BY <3>2
  <2>2. QED BY <2>1
<1>11. QED BY <1>1, <1>2, <1>5, <1>6, <1>9, <1>10, OneSaved

\* At the end of a csv file its transaction has what the file shows.
LEMMA CommitSaves ==
    ASSUME ImportInv, SaveInv, CsvCommit
    PROVE  ShownIsSaved'
<1>1. /\ mode = "csv" /\ step = "parse" /\ nodes' = nodes /\ rows' = Over(tx.rows, rows)
      /\ mode' = mode /\ unseen' = unseen
  BY DEF CsvCommit
<1>2. nodes \in Seq(Node) /\ Ordered(nodes) /\ ParsedSoFar
  BY <1>1 DEF ImportInv, ListInv
<1>3. SavedFrom(ToSet(nodes), tx) /\ DOMAIN rows = unseen
  BY <1>1 DEF SaveInv
<1>4. Downward(nodes) /\ Hanging(nodes)
  BY <1>2, ParsedHangs DEF ParsedSoFar, Downward, ToSet
<1>5. SamePlaces(nodes, nodes)
  BY DEF SamePlaces
<1>6. RowsShown(nodes, nodes, tx.rows)
  BY <1>2, <1>3, <1>4, <1>5, ParentsAreThere, SavedIsShown
<1>7. QED BY <1>1, <1>3, <1>6, SavedRight

\* Confirming the preview saves what it shows, if parents are before children.
LEMMA ConfirmSaves ==
    ASSUME ImportInv, SaveInv, Confirm, Downward(nodes)
    PROVE  ShownIsSaved'
<1> DEFINE final == Normalized(nodes)
           t == FoldLeft(Upserted, NothingSaved, final)
<1>1. /\ step = "preview" /\ nodes' = nodes /\ rows' = Over(Saved, rows)
      /\ mode' = mode /\ unseen' = unseen
  BY DEF Confirm
<1>2. nodes \in Seq(Node) /\ Ordered(nodes) /\ Hanging(nodes)
  BY <1>1 DEF ImportInv, ListInv
<1>3. mode # "csv" /\ DOMAIN rows = unseen
  BY <1>1 DEF SaveInv
<1>4. ParentsIn(nodes)
  BY <1>2, ParentsAreThere
<1>5. final \in Seq(Node) /\ SamePlaces(nodes, final)
  BY <1>2, NormalizedInPlace
<1>6. Ordered(final) /\ ParentsIn(final) /\ Downward(final)
  BY <1>2, <1>4, <1>5, SameOrder
<1>7. Saved = t.rows
  BY DEF Saved
<1> HIDE DEF final
<1>8. SavedFrom(ToSet(final), t)
  BY <1>5, <1>6, SavedIs
<1> HIDE DEF t
<1>9. RowsShown(nodes, final, t.rows)
  BY <1>2, <1>4, <1>5, <1>8, SavedIsShown
<1>10. QED BY <1>1, <1>3, <1>7, <1>9, SavedRight DEF final

\* Every step keeps it.
LEMMA SaveKept ==
    ASSUME ImportInv, SaveInv, [Next]_vars
    PROVE  SaveInv'
<1>0. ImportInv'
  BY ImportKept
<1>1. /\ step # "saved" => DOMAIN rows = unseen
      /\ mode = "csv" => unseen = {} /\ step # "preview"
      /\ mode = "csv" /\ step = "parse" => SavedFrom(ToSet(nodes), tx)
      /\ SavedInOrder
  BY DEF SaveInv
<1>2. ASSUME step' # "saved", DOMAIN rows' = unseen',
             mode' = "csv" => unseen' = {} /\ step' # "preview",
             mode' = "csv" /\ step' = "parse" => SavedFrom(ToSet(nodes'), tx')
      PROVE  SaveInv'
  BY <1>2 DEF SaveInv, SavedInOrder, ShownIsSaved
<1>3. ASSUME NEW r \in FileRow, Parse(r) PROVE SaveInv'
  <2>1. step = "parse" /\ step' = step /\ mode' = mode /\ rows' = rows /\ unseen' = unseen
    BY <1>3 DEF Parse
  <2>2. mode = "csv" => SavedFrom(ToSet(nodes'), tx')
    BY <1>0, <1>3, ParseSaves
  <2>3. QED BY <1>1, <1>2, <2>1, <2>2
<1>4. CASE CsvCommit
  <2>1. step' = "saved" /\ mode' = mode /\ unseen' = unseen /\ mode = "csv"
    BY <1>4 DEF CsvCommit
  <2>2. ShownIsSaved'
    BY <1>4, CommitSaves
  <2>3. QED BY <1>1, <2>1, <2>2 DEF SaveInv, SavedInOrder
<1>5. ASSUME Fresh, step # "saved" PROVE SaveInv'
  <2>1. /\ step' = "parse" /\ nodes' = <<>> /\ tx' = NothingSaved
        /\ mode' = mode /\ rows' = rows /\ unseen' = unseen
    BY <1>5 DEF Fresh
  <2>2. ToSet(nodes') = {}
    <3>1. DOMAIN nodes' = {}
      BY <2>1, EmptyList
    <3>2. QED BY <3>1 DEF ToSet
  <2>3. SavedFrom(ToSet(nodes'), tx')
    BY <2>1, <2>2, NothingSavedIs
  <2>4. QED BY <1>1, <1>2, <1>5, <2>1, <2>3
<1>6. CASE Analyze
  <2>1. /\ step = "parse" /\ step' = "preview" /\ mode = "xlsx" /\ mode' = mode
        /\ rows' = rows /\ unseen' = unseen
    BY <1>6 DEF Analyze
  <2>2. QED BY <1>1, <1>2, <2>1
<1>7. ASSUME step = "preview", step' = step, mode' = mode, rows' = rows, unseen' = unseen
      PROVE  SaveInv'
  BY <1>1, <1>2, <1>7
<1>8. ASSUME NEW i \in Ids(nodes),
             \/ DeleteNode(i)
             \/ \E p \in Ids(nodes) : Reparent(i, p)
             \/ \E v \in NewKode : EditKode(i, v)
             \/ \E v \in NewPagu : EditPagu(i, v)
             \/ \E v \in NewSd : EditSd(i, v)
       PROVE SaveInv'
  <2>1. Edit(nodes')
    BY <1>8, EditsAre
  <2>2. QED BY <1>7, <2>1 DEF Edit
<1>9. CASE Recalculate
  BY <1>7, <1>9 DEF Recalculate
<1>10. CASE Confirm
  <2>1. step = "preview" /\ step' = "saved" /\ mode' = mode /\ unseen' = unseen /\ nodes' = nodes
    BY <1>10 DEF Confirm
  <2>2. Downward(nodes) => ShownIsSaved'
    BY <1>10, ConfirmSaves
  <2>3. SavedInOrder'
    BY <2>1, <2>2 DEF SavedInOrder, Downward
  <2>4. QED BY <1>1, <2>1, <2>3 DEF SaveInv
<1>11. CASE ConfirmLost
  <2>1. /\ step = "preview" /\ step' = step /\ mode' = mode /\ rows' = Over(Saved, rows)
        /\ unseen' = unseen \cup DOMAIN Saved
    BY <1>11 DEF ConfirmLost
  <2>2. DOMAIN rows' = unseen'
    <3>1. DOMAIN rows = unseen
      BY <1>1, <2>1
    <3>2. DOMAIN rows' = DOMAIN Saved \cup DOMAIN rows
      BY <2>1, OverIs
    <3>3. QED BY <3>1, <3>2, <2>1
  <2>3. QED BY <1>1, <1>2, <2>1, <2>2
<1>12. CASE UNCHANGED vars
  <2>1. /\ step' = step /\ mode' = mode /\ rows' = rows /\ unseen' = unseen
        /\ nodes' = nodes /\ tx' = tx
    BY <1>12 DEF vars
  <2>2. ShownIsSaved' <=> ShownIsSaved
    BY <2>1 DEF ShownIsSaved, Path
  <2>3. QED BY <1>1, <2>1, <2>2 DEF SaveInv, SavedInOrder
<1>13. CASE CsvFail \/ Back
  BY <1>5, <1>13 DEF CsvFail, Back
<1>14. QED BY <1>3, <1>4, <1>6, <1>8, <1>9, <1>10, <1>11, <1>12, <1>13 DEF Next

\* At the start there is nothing to save.
LEMMA SaveStarts == Init => SaveInv
<1> SUFFICES ASSUME Init PROVE SaveInv
  OBVIOUS
<1>1. step = "parse" /\ nodes = <<>> /\ tx = NothingSaved /\ rows = <<>> /\ unseen = {}
  BY DEF Init
<1>2. DOMAIN nodes = {} /\ DOMAIN rows = {}
  BY <1>1, EmptyList
<1>3. ToSet(nodes) = {}
  BY <1>2 DEF ToSet
<1>4. SavedFrom(ToSet(nodes), tx)
  BY <1>1, <1>3, NothingSavedIs
<1>5. SavedInOrder
  BY <1>1 DEF SavedInOrder, ShownIsSaved
<1>6. QED BY <1>1, <1>2, <1>4, <1>5 DEF SaveInv

\* Both imports save the tree on the screen, row for row, and nothing else but
\* what an earlier save left whose answer was lost, as long as no node was
\* dragged below a later one (SavedInOrder).
THEOREM TreeIsSaved == Spec => []SavedInOrder
<1>1. ImportInv /\ SaveInv /\ [Next]_vars => ImportInv' /\ SaveInv'
  BY ImportKept, SaveKept
<1>2. SaveInv => SavedInOrder
  BY DEF SaveInv
<1>3. QED BY ImportStarts, SaveStarts, <1>1, <1>2, PTL DEF Spec

=============================================================================
