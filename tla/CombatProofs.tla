---------------------------- MODULE CombatProofs ----------------------------
(***************************************************************************)
(* Proofs about Combat.tla for any creatures, kinds and bounds: the two    *)
(* maps of blocks agree, a blocked attacker stays blocked, what            *)
(* regenerated is out of combat, and who strikes deals its power.          *)
(***************************************************************************)
EXTENDS Combat, SequenceTheorems, FiniteSetTheorems, NaturalsInduction, WellFoundedInduction, TLAPS

\* Where the turn loop can be.
Phases == {"attackers", "declaring", "blockers", "damage", "normal",
           "endCombat", "done", "over"} \cup Windows

\* The state of a combat has its types.
TypeOK ==
    /\ kind \in [Creatures -> OurKinds \cup TheirKinds]
    /\ granted \in [Creatures -> SUBSET {"FirstStrike"}]
    /\ field \subseteq Creatures /\ tapped \subseteq field /\ mazed \subseteq field
    /\ shields \in [Creatures -> Nat]
    /\ attackers \subseteq Ours
    /\ DOMAIN blockers \subseteq Theirs
    /\ \A b \in DOMAIN blockers : blockers[b] \in Ours
    /\ DOMAIN blockedBy \subseteq Ours
    /\ \A a \in DOMAIN blockedBy : blockedBy[a] \in Seq(Theirs)
    /\ phase \in Phases
    /\ todo \in Seq(Ours)
    /\ DOMAIN hits = {"first", "normal"}
    /\ effects \in Nat /\ combats \in Nat
    /\ regenerated \subseteq Creatures

\* Blocks exist from their declaration to the end of the combat.
BlocksInCombat ==
    phase \in {"attackers", "declaring", "afterAttackers", "blockers",
               "afterCombat", "done"} =>
        DOMAIN blockers = {} /\ DOMAIN blockedBy = {}

\* The two maps list the same blocks, each once.
BlocksPaired ==
    /\ DOMAIN blockedBy \subseteq attackers
    /\ \A a \in DOMAIN blockedBy : \A i \in DOMAIN blockedBy[a] :
         /\ blockedBy[a][i] \in DOMAIN blockers /\ blockers[blockedBy[a][i]] = a
         /\ \A j \in DOMAIN blockedBy[a] : blockedBy[a][i] = blockedBy[a][j] => i = j
    /\ \A b \in DOMAIN blockers : blockers[b] \in attackers =>
         /\ blockers[b] \in DOMAIN blockedBy
         /\ \E i \in DOMAIN blockedBy[blockers[b]] : blockedBy[blockers[b]][i] = b

\* What regenerated is in no map, and stays tapped while it is there.
RegeneratedApart ==
    /\ regenerated \cap attackers = {}
    /\ regenerated \cap DOMAIN blockers = {}
    /\ regenerated \cap field \subseteq tapped

\* The inductive invariant.
CombatInv == TypeOK /\ BlocksInCombat /\ BlocksPaired /\ RegeneratedApart

-----------------------------------------------------------------------------
(* Sequences sorted by counting.                                           *)

\* How many members of S are below x.
Below(S, x) == Cardinality({y \in S : y < x})

\* Of two members of a set of numbers the larger has more members below it.
LEMMA BelowIsStrict ==
    ASSUME NEW S, S \subseteq Nat, IsFiniteSet(S), NEW x \in S
    PROVE  /\ Below(S, x) \in 0..Cardinality(S) - 1
           /\ \A y \in S : y < x => Below(S, y) < Below(S, x)
<1> DEFINE L(z) == {y \in S : y < z}
<1>1. \A z \in S : IsFiniteSet(L(z)) /\ Below(S, z) = Cardinality(L(z))
  BY FS_Subset DEF Below
<1>2. ASSUME NEW z \in S
      PROVE  /\ z \notin L(z) /\ IsFiniteSet(L(z) \union {z})
             /\ Cardinality(L(z) \union {z}) = Cardinality(L(z)) + 1
  <2>1. z \notin L(z)
    <3>1. ~(z < z)
      OBVIOUS
    <3> QED BY <3>1
  <2> HIDE DEF L
  <2> QED BY <1>1, <2>1, FS_AddElement
<1>3. \A T : IsFiniteSet(T) => Cardinality(T) \in Nat
  BY FS_CardinalityType
<1>4. Cardinality(L(x)) + 1 <= Cardinality(S)
  <2>1. L(x) \union {x} \in SUBSET S
    OBVIOUS
  <2>2. Cardinality(L(x) \union {x}) <= Cardinality(S)
    <3> HIDE DEF L
    <3> QED BY <2>1, FS_Subset
  <2> HIDE DEF L
  <2> QED BY <1>2, <2>2
<1>5. ASSUME NEW y \in S, y < x
      PROVE  Cardinality(L(y)) + 1 <= Cardinality(L(x))
  <2>1. \A z \in S : z < y => z < x
    BY <1>5
  <2>2. L(y) \union {y} \in SUBSET L(x)
    BY <1>5, <2>1
  <2>3. Cardinality(L(y) \union {y}) <= Cardinality(L(x))
    <3> HIDE DEF L
    <3> QED BY <1>1, <2>2, FS_Subset
  <2> HIDE DEF L
  <2> QED BY <1>2, <2>3
<1> HIDE DEF L
<1> QED BY <1>1, <1>3, <1>4, <1>5

\* SortedSeq lists a set of numbers, each member once, upwards.
LEMMA SortedSeqSorts ==
    ASSUME NEW S, S \subseteq Nat, IsFiniteSet(S)
    PROVE  /\ SortedSeq(S) \in Seq(S)
           /\ \A i, j \in DOMAIN SortedSeq(S) : i < j => SortedSeq(S)[i] < SortedSeq(S)[j]
           /\ \A i, j \in DOMAIN SortedSeq(S) : SortedSeq(S)[i] = SortedSeq(S)[j] => i = j
           /\ \A x \in S : \E i \in DOMAIN SortedSeq(S) : SortedSeq(S)[i] = x
<1> DEFINE n == Cardinality(S)
           place == [x \in S |-> Below(S, x)]
           s == SortedSeq(S)
<1>1. n \in Nat
  BY FS_CardinalityType
<1>2. place \in [S -> 0..n - 1]
  BY BelowIsStrict
<1>3. \A x, y \in S : place[x] = place[y] => x = y
  <2> SUFFICES ASSUME NEW x \in S, NEW y \in S, place[x] = place[y], x # y
               PROVE  FALSE
    OBVIOUS
  <2>1. x < y \/ y < x
    <3> HIDE DEF place
    <3> QED OBVIOUS
  <2>2. Below(S, x) = Below(S, y)
    OBVIOUS
  <2>3. Below(S, x) \in 0..n - 1 /\ (y < x => Below(S, y) < Below(S, x))
    BY BelowIsStrict
  <2>4. Below(S, y) \in 0..n - 1 /\ (x < y => Below(S, x) < Below(S, y))
    BY BelowIsStrict
  <2> HIDE DEF place, n
  <2> QED BY <1>1, <2>1, <2>2, <2>3, <2>4
<1>4. place \in Injection(S, 0..n - 1)
  <2> HIDE DEF place
  <2> QED BY <1>2, <1>3 DEF Injection, IsInjective
<1>5. IsFiniteSet(0..n - 1) /\ Cardinality(0..n - 1) = n
  <2> HIDE DEF n
  <2> QED BY <1>1, FS_Interval
<1>6. place \in Surjection(S, 0..n - 1)
  <2> HIDE DEF place
  <2> QED BY <1>4, <1>5, FS_Injection
<1>7. \A i \in 0..n - 1 : \E x \in S : Below(S, x) = i
  BY <1>6 DEF Surjection
<1>8. s = [i \in 1..n |-> CHOOSE x \in S : Below(S, x) = i - 1]
  BY DEF SortedSeq, Below
<1> HIDE DEF s, n
<1>9. \A i \in 1..n : s[i] \in S /\ Below(S, s[i]) = i - 1
  BY <1>1, <1>7, <1>8
<1>10. s \in Seq(S) /\ DOMAIN s = 1..n
  <2>1. s \in [1..n -> S]
    BY <1>8, <1>9
  <2> QED BY <1>1, <2>1
<1>11. ASSUME NEW x \in S PROVE \E i \in DOMAIN s : s[i] = x
  <2>1. Below(S, x) \in 0..n - 1
    BY BelowIsStrict DEF n
  <2>2. PICK i \in 1..n : i = Below(S, x) + 1
    BY <1>1, <2>1
  <2>3. s[i] \in S /\ Below(S, s[i]) = Below(S, x)
    BY <1>1, <1>9, <2>1, <2>2
  <2> QED BY <1>3, <1>10, <2>3
<1>12. ASSUME NEW i \in 1..n, NEW j \in 1..n, i < j PROVE s[i] < s[j]
  <2>1. s[i] \in S /\ s[j] \in S /\ Below(S, s[i]) < Below(S, s[j])
    BY <1>1, <1>9, <1>12
  <2>2. s[i] = s[j] \/ s[i] < s[j] \/ s[j] < s[i]
    <3>1. s[i] \in Nat /\ s[j] \in Nat
      BY <2>1
    <3> QED BY <3>1
  <2>3. ~(s[j] < s[i])
    <3>1. s[j] < s[i] => Below(S, s[j]) < Below(S, s[i])
      BY <2>1, BelowIsStrict
    <3>2. Below(S, s[i]) \in Int /\ Below(S, s[j]) \in Int
      BY <1>1, <1>9
    <3> QED BY <2>1, <3>1, <3>2
  <2>4. s[i] # s[j]
    BY <1>1, <1>9, <1>12
  <2> QED BY <2>2, <2>3, <2>4
<1>13. \A i, j \in 1..n : s[i] = s[j] => i = j
  BY <1>1, <1>9
<1> QED BY <1>10, <1>11, <1>12, <1>13 DEF s

\* Without drops the members of S from a list and keeps the others, as often
\* as they were there.
LEMMA WithoutDrops ==
    ASSUME NEW T, NEW list \in Seq(T), NEW S,
           \A i, j \in DOMAIN list : list[i] = list[j] => i = j
    PROVE  /\ Without(list, S) \in Seq(T)
           /\ \A i \in DOMAIN Without(list, S) :
                /\ Without(list, S)[i] \notin S
                /\ \E k \in DOMAIN list : list[k] = Without(list, S)[i]
           /\ \A i, j \in DOMAIN Without(list, S) :
                Without(list, S)[i] = Without(list, S)[j] => i = j
           /\ \A k \in DOMAIN list : list[k] \notin S =>
                \E i \in DOMAIN Without(list, S) : Without(list, S)[i] = list[k]
<1> DEFINE K == {i \in DOMAIN list : list[i] \notin S}
           kept == SortedSeq(K)
           w == Without(list, S)
<1>1. DOMAIN list = 1..Len(list) /\ Len(list) \in Nat
  OBVIOUS
<1>2. K \subseteq Nat /\ IsFiniteSet(K)
  <2>1. IsFiniteSet(1..Len(list))
    BY <1>1, FS_Interval
  <2>2. K \subseteq 1..Len(list)
    BY <1>1
  <2> QED BY <1>1, <2>1, <2>2, FS_Subset
<1>3. /\ kept \in Seq(K)
      /\ \A i, j \in DOMAIN kept : kept[i] = kept[j] => i = j
      /\ \A k \in K : \E i \in DOMAIN kept : kept[i] = k
  <2> HIDE DEF K
  <2> QED BY <1>2, SortedSeqSorts
<1>4. w = [j \in DOMAIN kept |-> list[kept[j]]]
  BY DEF Without
<1>5. DOMAIN kept = 1..Len(kept) /\ Len(kept) \in Nat
  <2> HIDE DEF kept
  <2> QED BY <1>3
<1>6. \A j \in DOMAIN kept : kept[j] \in DOMAIN list /\ list[kept[j]] \notin S
  <2>1. \A j \in DOMAIN kept : kept[j] \in K
    <3> HIDE DEF kept, K
    <3> QED BY <1>3, <1>5
  <2> QED BY <2>1
<1>7. DOMAIN w = DOMAIN kept /\ \A j \in DOMAIN kept : w[j] = list[kept[j]]
  <2> HIDE DEF kept, w
  <2> QED BY <1>4
<1>8. w \in Seq(T)
  <2>1. \A j \in DOMAIN kept : list[kept[j]] \in T
    <3> HIDE DEF kept
    <3> QED BY <1>6
  <2>2. w \in [1..Len(kept) -> T]
    <3> HIDE DEF kept, w
    <3> QED BY <1>4, <1>5, <2>1
  <2> HIDE DEF kept, w
  <2> QED BY <1>5, <2>2
<1>9. \A i, j \in DOMAIN w : w[i] = w[j] => i = j
  <2> HIDE DEF kept, w
  <2> QED BY <1>3, <1>6, <1>7
<1>10. \A k \in DOMAIN list : list[k] \notin S => \E i \in DOMAIN w : w[i] = list[k]
  <2> SUFFICES ASSUME NEW k \in DOMAIN list, list[k] \notin S
               PROVE  \E i \in DOMAIN w : w[i] = list[k]
    OBVIOUS
  <2>1. PICK i \in DOMAIN kept : kept[i] = k
    <3>1. k \in K
      OBVIOUS
    <3> HIDE DEF kept, K, w
    <3> QED BY <1>3, <3>1
  <2> HIDE DEF kept, w
  <2> QED BY <1>7, <2>1
<1>11. \A i \in DOMAIN w : w[i] \notin S /\ \E k \in DOMAIN list : list[k] = w[i]
  <2> HIDE DEF kept, w
  <2> QED BY <1>6, <1>7
<1> HIDE DEF w
<1> QED BY <1>8, <1>9, <1>10, <1>11 DEF w

-----------------------------------------------------------------------------
(* Induction over the members of a set of sets, and of numbers.            *)

\* A set of numbers that is not empty has a least member.
LEMMA LeastNat ==
    ASSUME NEW T, T \subseteq Nat, T # {}
    PROVE  \E x \in T : \A y \in T : x <= y
<1>1. PICK x \in T : \A y \in T : ~ (<<y, x>> \in OpToRel(<, Nat))
  BY NatLessThanWellFounded, WFMin, Zenon
<1>2. \A y \in T : ~ (y < x)
  BY <1>1 DEF OpToRel
<1> QED BY <1>2

\* What 0 has and every number hands to the next, all numbers have.
LEMMA NumberByNumber ==
    ASSUME NEW G, 0 \in G, \A n \in Nat : n \in G => n + 1 \in G
    PROVE  \A n \in Nat : n \in G
<1>1. SUFFICES ASSUME Nat \ G # {} PROVE FALSE
  OBVIOUS
<1>2. PICK n \in Nat \ G : \A m \in Nat \ G : n <= m
  BY <1>1, LeastNat
<1>3. n - 1 \in Nat /\ ~(n <= n - 1) /\ (n - 1) + 1 = n
  BY <1>2
<1>4. n - 1 \in G
  BY <1>2, <1>3
<1> QED BY <1>2, <1>3, <1>4

\* What the empty set has, and every part of S has when it has it without one of
\* its members, S has.
LEMMA MemberByMember ==
    ASSUME NEW S, IsFiniteSet(S), NEW G, {} \in G,
           \A U \in SUBSET S : (\A x \in U : U \ {x} \in G) => U \in G
    PROVE  S \in G
<1> DEFINE Sizes == {Cardinality(U) : U \in (SUBSET S) \ G}
<1>1. \A U \in SUBSET S : IsFiniteSet(U) /\ Cardinality(U) \in Nat
  BY FS_Subset, FS_CardinalityType
<1>2. SUFFICES ASSUME S \notin G PROVE FALSE
  OBVIOUS
<1>3. Sizes # {} /\ Sizes \subseteq Nat
  BY <1>1, <1>2
<1>4. PICK n \in Sizes : \A m \in Sizes : n <= m
  <2> HIDE DEF Sizes
  <2> QED BY <1>3, LeastNat
<1>5. PICK U \in (SUBSET S) \ G : n = Cardinality(U)
  OBVIOUS
<1>6. PICK x \in U : U \ {x} \notin G
  BY <1>5
<1>7. U \ {x} \in (SUBSET S) \ G
  BY <1>5, <1>6
<1>8. Cardinality(U \ {x}) \in Sizes
  BY <1>7
<1>9. Cardinality(U \ {x}) = Cardinality(U) - 1 /\ Cardinality(U) \in Nat
  BY <1>1, <1>5, <1>6, FS_RemoveElement
<1> HIDE DEF Sizes
<1>10. Cardinality(U) <= Cardinality(U \ {x})
  BY <1>4, <1>5, <1>8
<1> QED BY <1>9, <1>10

-----------------------------------------------------------------------------
(* Sums of the values of a function.                                       *)

\* The member that a sum takes next, and the sum of s when `it' has that of the rest.
OneOf(s) == CHOOSE x \in s : TRUE
SumBy(f, it, s) == IF s = {} THEN 0 ELSE f[OneOf(s)] + it[s \ {OneOf(s)}]

\* `it' gives the sums of f over the subsets of S; f and h have the same values on S.
AreSums(f, it, S) == \A s \in SUBSET S : it[s] = SumBy(f, it, s)
Same(f, h, S) == \A i \in S : f[i] = h[i]

\* There is a function that gives the sums over all subsets of a finite set.
LEMMA SumsExist ==
    ASSUME NEW S, IsFiniteSet(S), NEW f
    PROVE  \E it : it = [s \in SUBSET S |-> SumBy(f, it, s)]
<1> DEFINE Up(n) == {s \in SUBSET S : Cardinality(s) <= n}
           Found(n) == \E it : it = [s \in Up(n) |-> SumBy(f, it, s)]
           G == {n \in Nat : Found(n)}
<1>1. \A s \in SUBSET S : IsFiniteSet(s) /\ Cardinality(s) \in Nat /\ Cardinality(s) <= Cardinality(S)
  BY FS_Subset, FS_CardinalityType
<1>2. \A s \in SUBSET S : s # {} =>
        /\ OneOf(s) \in s
        /\ Cardinality(s \ {OneOf(s)}) = Cardinality(s) - 1
  <2> SUFFICES ASSUME NEW s \in SUBSET S, s # {}
               PROVE  /\ OneOf(s) \in s
                      /\ Cardinality(s \ {OneOf(s)}) = Cardinality(s) - 1
    OBVIOUS
  <2>1. OneOf(s) \in s
    BY DEF OneOf
  <2> QED BY <1>1, <2>1, FS_RemoveElement
<1>3. Found(0)
  <2>1. \A s \in Up(0) : s = {}
    BY <1>1, FS_EmptySet
  <2> DEFINE it == [s \in Up(0) |-> 0]
  <2>2. it = [s \in Up(0) |-> SumBy(f, it, s)]
    <3>1. \A s \in Up(0) : SumBy(f, it, s) = 0
      BY <2>1, Zenon DEF SumBy
    <3> HIDE DEF Up
    <3> QED BY <3>1
  <2> QED BY <2>2
<1>4. ASSUME NEW n \in Nat, Found(n) PROVE Found(n + 1)
  <2>1. PICK it : it = [s \in Up(n) |-> SumBy(f, it, s)]
    BY <1>4
  <2> DEFINE more == [s \in Up(n + 1) |-> SumBy(f, it, s)]
  <2>2. \A s \in Up(n) : s \in Up(n + 1)
    BY <1>1
  <2>3. \A s \in Up(n) : more[s] = it[s]
    <3> HIDE DEF Up
    <3> QED BY <2>1, <2>2, Zenon
  <2>4. \A s \in Up(n + 1) : s # {} => s \ {OneOf(s)} \in Up(n)
    BY <1>1, <1>2
  <2>5. \A s \in Up(n + 1) : SumBy(f, it, s) = SumBy(f, more, s)
    <3> HIDE DEF Up, more
    <3> QED BY <2>3, <2>4 DEF SumBy
  <2>6. more = [s \in Up(n + 1) |-> SumBy(f, more, s)]
    <3> HIDE DEF Up
    <3> QED BY <2>5, Zenon
  <2> QED BY <2>6
<1>5. \A n \in Nat : n \in G
  <2>1. 0 \in G /\ \A n \in Nat : n \in G => n + 1 \in G
    <3> HIDE DEF Found
    <3> QED BY <1>3, <1>4
  <2> HIDE DEF G
  <2> QED BY <2>1, NumberByNumber
<1>6. Up(Cardinality(S)) = SUBSET S /\ Cardinality(S) \in Nat
  BY <1>1, FS_CardinalityType
<1>7. Found(Cardinality(S))
  <2> HIDE DEF Found
  <2> QED BY <1>5, <1>6
<1> HIDE DEF Up
<1> QED BY <1>6, <1>7

\* A function that gives them is one that gives them at each subset.
LEMMA SumsGiven ==
    ASSUME NEW f, NEW S, NEW it, it = [s \in SUBSET S |-> SumBy(f, it, s)]
    PROVE  AreSums(f, it, S)
BY DEF AreSums

\* Sums over the same set agree, whatever other sets they are given for.
LEMMA SumsAgree ==
    ASSUME NEW S, NEW f, NEW h, NEW T, T \subseteq S, IsFiniteSet(T), Same(f, h, T),
           NEW it, AreSums(f, it, S), NEW jt, AreSums(h, jt, T)
    PROVE  it[T] = jt[T]
<1> DEFINE G == {s \in SUBSET T : it[s] = jt[s]}
<1>1. \A s \in SUBSET T : it[s] = SumBy(f, it, s) /\ jt[s] = SumBy(h, jt, s)
  <2>1. \A s \in SUBSET T : s \in SUBSET S
    OBVIOUS
  <2> QED BY <2>1 DEF AreSums
<1>2. {} \in G
  BY <1>1, Zenon DEF SumBy
<1>3. ASSUME NEW U \in SUBSET T, \A x \in U : U \ {x} \in G PROVE U \in G
  <2>1. CASE U = {}
    BY <1>2, <2>1
  <2>2. CASE U # {}
    <3>1. OneOf(U) \in U
      BY <2>2 DEF OneOf
    <3>2. it[U \ {OneOf(U)}] = jt[U \ {OneOf(U)}] /\ f[OneOf(U)] = h[OneOf(U)]
      BY <1>3, <3>1 DEF Same
    <3>3. it[U] = jt[U]
      BY <1>1, <2>2, <3>2 DEF SumBy
    <3> QED BY <3>3
  <2> QED BY <2>1, <2>2
<1>4. T \in G
  <2> HIDE DEF G
  <2> QED BY <1>2, <1>3, MemberByMember
<1> QED BY <1>4

SumOn(f, S) == SumFunctionOnSet(f, S)

\* A sum takes one member and goes on with the others.
LEMMA SumTakesNext ==
    ASSUME NEW S, IsFiniteSet(S), NEW f
    PROVE  /\ S = {} => SumOn(f, S) = 0
           /\ S # {} => SumOn(f, S) = f[OneOf(S)] + SumOn(f, S \ {OneOf(S)})
<1> DEFINE Sums(T) == CHOOSE it : it = [s \in SUBSET T |-> SumBy(f, it, s)]
<1>1. \A T : SumOn(f, T) = Sums(T)[T]
  BY DEF SumOn, SumFunctionOnSet, FoldFunctionOnSet, MapThenFoldSet, SumBy, OneOf
<1>2. ASSUME NEW T, IsFiniteSet(T)
      PROVE  AreSums(f, Sums(T), T)
  <2>1. Sums(T) = [s \in SUBSET T |-> SumBy(f, Sums(T), s)]
    BY <1>2, SumsExist
  <2> QED BY <2>1, SumsGiven
<1> HIDE DEF Sums
<1>3. SumOn(f, S) = SumBy(f, Sums(S), S)
  BY <1>1, <1>2 DEF AreSums
<1>4. CASE S = {}
  BY <1>3, <1>4 DEF SumBy
<1>5. CASE S # {}
  <2> DEFINE T == S \ {OneOf(S)}
  <2>1. SumOn(f, S) = f[OneOf(S)] + Sums(S)[T]
    BY <1>3, <1>5 DEF SumBy
  <2>2. IsFiniteSet(T) /\ T \subseteq S /\ Same(f, f, T)
    BY FS_Subset DEF Same
  <2>3. Sums(S)[T] = Sums(T)[T]
    <3> HIDE DEF T
    <3>1. AreSums(f, Sums(S), S) /\ AreSums(f, Sums(T), T)
      BY <1>2, <2>2
    <3> QED BY <2>2, <3>1, SumsAgree
  <2> QED BY <1>1, <1>5, <2>1, <2>3
<1> QED BY <1>4, <1>5

\* A sum of numbers is a number, and any member may be taken first.
LEMMA SumTakes ==
    ASSUME NEW S, IsFiniteSet(S), NEW f, \A i \in S : f[i] \in Int
    PROVE  /\ SumOn(f, S) \in Int
           /\ \A x \in S : SumOn(f, S) = f[x] + SumOn(f, S \ {x})
<1> DEFINE Fits(U) == /\ SumOn(f, U) \in Int
                     /\ \A x \in U : SumOn(f, U) = f[x] + SumOn(f, U \ {x})
           G == {U \in SUBSET S : \A V \in SUBSET U : Fits(V)}
<1>1. \A U \in SUBSET S : IsFiniteSet(U)
  BY FS_Subset
<1>2. Fits({})
  <2>1. SumOn(f, {}) = 0
    BY FS_EmptySet, SumTakesNext
  <2> QED BY <2>1
<1>3. ASSUME NEW U \in SUBSET S, \A x \in U : \A V \in SUBSET (U \ {x}) : Fits(V)
      PROVE  Fits(U)
  <2>1. CASE U = {}
    <3> HIDE DEF Fits
    <3> QED BY <1>2, <2>1
  <2>2. CASE U # {}
    <3> DEFINE c == OneOf(U)
    <3>1. c \in U
      BY <2>2 DEF OneOf
    <3>2. SumOn(f, U) = f[c] + SumOn(f, U \ {c})
      BY <1>1, <2>2, SumTakesNext
    <3> HIDE DEF c
    <3>3. \A x \in U : Fits(U \ {x}) /\ f[x] \in Int
      <4> HIDE DEF Fits
      <4>1. \A x \in U : U \ {x} \in SUBSET (U \ {x})
        OBVIOUS
      <4> QED BY <1>3, <4>1
    <3>4. SumOn(f, U) \in Int
      <4>1. f[c] \in Int /\ SumOn(f, U \ {c}) \in Int
        BY <3>1, <3>3
      <4> QED BY <3>2, <4>1
    <3>5. ASSUME NEW x \in U PROVE SumOn(f, U) = f[x] + SumOn(f, U \ {x})
      <4>1. CASE x = c
        BY <3>2, <4>1
      <4>2. CASE x # c
        <5> DEFINE both == U \ {x, c}
        <5>1. both = (U \ {x}) \ {c} /\ both = (U \ {c}) \ {x}
          OBVIOUS
        <5>2. x \in U \ {c} /\ c \in U \ {x}
          BY <3>1, <4>2
        <5>3. both \in SUBSET (U \ {x})
          OBVIOUS
        <5> HIDE DEF both
        <5>4. SumOn(f, U \ {c}) = f[x] + SumOn(f, both)
          BY <3>1, <3>3, <5>1, <5>2
        <5>5. SumOn(f, U \ {x}) = f[c] + SumOn(f, both)
          BY <3>3, <5>1, <5>2
        <5>6. SumOn(f, both) \in Int
          BY <1>3, <5>3
        <5>7. f[x] \in Int /\ f[c] \in Int
          BY <3>1, <3>3
        <5> QED BY <3>2, <5>4, <5>5, <5>6, <5>7
      <4> QED BY <4>1, <4>2
    <3> QED BY <3>4, <3>5
  <2> QED BY <2>1, <2>2
<1> HIDE DEF Fits
<1>4. {} \in G
  <2>1. \A V \in SUBSET {} : V = {}
    OBVIOUS
  <2> QED BY <1>2, <2>1
<1>5. ASSUME NEW U \in SUBSET S, \A x \in U : U \ {x} \in G PROVE U \in G
  <2>1. ASSUME NEW V \in SUBSET U PROVE Fits(V)
    <3>1. CASE V = U
      BY <1>3, <1>5, <3>1
    <3>2. CASE V # U
      <4>1. PICK x \in U : x \notin V
        BY <3>2
      <4>2. V \in SUBSET (U \ {x})
        BY <4>1
      <4> QED BY <1>5, <4>1, <4>2
    <3> QED BY <3>1, <3>2
  <2> QED BY <2>1
<1>6. S \in G
  <2> HIDE DEF G
  <2> QED BY <1>4, <1>5, MemberByMember
<1>7. Fits(S)
  BY <1>6
<1> QED BY <1>7 DEF Fits

\* A sum over nothing is 0, and over one member it is that member's value.
LEMMA SmallSums ==
    ASSUME NEW f
    PROVE  /\ SumOn(f, {}) = 0
           /\ \A x : f[x] \in Int => SumOn(f, {x}) = f[x]
<1>1. SumOn(f, {}) = 0
  BY FS_EmptySet, SumTakesNext
<1>2. ASSUME NEW x, f[x] \in Int PROVE SumOn(f, {x}) = f[x]
  <2>1. IsFiniteSet({x}) /\ {x} # {} /\ OneOf({x}) = x /\ {x} \ {x} = {}
    BY FS_Singleton DEF OneOf
  <2>2. SumOn(f, {x}) = f[x] + SumOn(f, {})
    BY <2>1, SumTakesNext
  <2> QED BY <1>1, <1>2, <2>2
<1> QED BY <1>1, <1>2

\* Sums of equal values are equal.
LEMMA SumsEqual ==
    ASSUME NEW S, IsFiniteSet(S), NEW f, NEW h, \A i \in S : f[i] = h[i]
    PROVE  SumOn(f, S) = SumOn(h, S)
<1> DEFINE Sums(e) == CHOOSE it : it = [s \in SUBSET S |-> SumBy(e, it, s)]
<1>1. \A e : SumOn(e, S) = Sums(e)[S]
  BY DEF SumOn, SumFunctionOnSet, FoldFunctionOnSet, MapThenFoldSet, SumBy, OneOf
<1>2. \A e : AreSums(e, Sums(e), S)
  <2> SUFFICES ASSUME NEW e PROVE AreSums(e, Sums(e), S)
    OBVIOUS
  <2>1. Sums(e) = [s \in SUBSET S |-> SumBy(e, Sums(e), s)]
    BY SumsExist
  <2> HIDE DEF Sums
  <2> QED BY <2>1, SumsGiven
<1> HIDE DEF Sums
<1>3. Same(f, h, S) /\ S \subseteq S
  BY DEF Same
<1>4. Sums(f)[S] = Sums(h)[S]
  BY <1>2, <1>3, SumsAgree
<1> QED BY <1>1, <1>4

\* A sum stays the same when each number is put in a place m[i] of its own and the
\* zeros are left out.
LEMMA SumsMoved ==
    ASSUME NEW S, IsFiniteSet(S), NEW f, \A i \in S : f[i] \in Nat,
           NEW m, \A i, j \in S : m[i] = m[j] => i = j,
           NEW h, \A i \in S : f[i] > 0 => h[m[i]] = f[i]
    PROVE  /\ IsFiniteSet({m[i] : i \in {j \in S : f[j] > 0}})
           /\ SumOn(h, {m[i] : i \in {j \in S : f[j] > 0}}) = SumOn(f, S)
<1> DEFINE Put(U) == {m[i] : i \in {j \in U : f[j] > 0}}
           G == {U \in SUBSET S : /\ IsFiniteSet(Put(U))
                                  /\ SumOn(h, Put(U)) = SumOn(f, U)}
<1>1. {} \in G
  <2>1. Put({}) = {}
    OBVIOUS
  <2> HIDE DEF Put
  <2>2. SumOn(f, {}) = 0 /\ SumOn(h, {}) = 0 /\ IsFiniteSet({})
    BY FS_EmptySet, SumTakesNext
  <2> QED BY <2>1, <2>2
<1>2. ASSUME NEW U \in SUBSET S, \A x \in U : U \ {x} \in G PROVE U \in G
  <2>1. CASE U = {}
    <3> HIDE DEF G
    <3> QED BY <1>1, <2>1
  <2>2. CASE U # {}
    <3>1. PICK x \in U : TRUE
      BY <2>2
    <3> DEFINE V == U \ {x}
    <3>2. IsFiniteSet(Put(V)) /\ SumOn(h, Put(V)) = SumOn(f, V)
      <4> HIDE DEF V, Put
      <4>1. V \in G
        BY <1>2, <3>1 DEF V
      <4> QED BY <4>1
    <3>3. SumOn(f, U) = f[x] + SumOn(f, V) /\ SumOn(f, V) \in Int /\ f[x] \in Nat
      <4>1. IsFiniteSet(U) /\ \A i \in U : f[i] \in Int
        BY FS_Subset
      <4>2. IsFiniteSet(V) /\ \A i \in V : f[i] \in Int
        BY <4>1, FS_Subset
      <4> HIDE DEF V
      <4>3. SumOn(f, V) \in Int
        BY <4>2, SumTakes
      <4> QED BY <3>1, <4>1, <4>3, SumTakes DEF V
    <3>4. CASE f[x] = 0
      <4>1. Put(U) = Put(V)
        BY <3>4
      <4> HIDE DEF V, Put
      <4> QED BY <3>2, <3>3, <3>4, <4>1
    <3>5. CASE f[x] > 0
      <4> DEFINE P == Put(U)
      <4>1. P = Put(V) \union {m[x]}
        BY <3>3, <3>5
      <4>2. m[x] \notin Put(V)
        OBVIOUS
      <4>3. \A y \in P : h[y] \in Int
        OBVIOUS
      <4> HIDE DEF P, V, Put
      <4>4. IsFiniteSet(P) /\ m[x] \in P /\ P \ {m[x]} = Put(V)
        BY <3>2, <4>1, <4>2, FS_AddElement
      <4>5. SumOn(h, P) = h[m[x]] + SumOn(h, Put(V)) /\ h[m[x]] = f[x]
        BY <3>5, <4>3, <4>4, SumTakes
      <4> QED BY <3>2, <3>3, <4>4, <4>5 DEF P
    <3> QED BY <3>3, <3>4, <3>5
  <2> QED BY <2>1, <2>2
<1>3. S \in G
  <2> HIDE DEF G
  <2> QED BY <1>1, <1>2, MemberByMember
<1> QED BY <1>3

\* A sum of natural numbers is one.
LEMMA SumsAreNat ==
    ASSUME NEW S, IsFiniteSet(S), NEW f, \A i \in S : f[i] \in Nat
    PROVE  SumOn(f, S) \in Nat
<1>1. \A U \in SUBSET S : IsFiniteSet(U) /\ \A i \in U : f[i] \in Int
  BY FS_Subset
<1> DEFINE G == {U \in SUBSET S : SumOn(f, U) \in Nat}
<1>2. {} \in G
  BY SmallSums
<1>3. ASSUME NEW U \in SUBSET S, \A x \in U : U \ {x} \in G PROVE U \in G
  <2>1. CASE U = {}
    BY <1>2, <2>1
  <2>2. CASE U # {}
    <3>1. PICK x \in U : TRUE
      BY <2>2
    <3>2. SumOn(f, U \ {x}) \in Nat /\ f[x] \in Nat
      BY <1>3, <3>1
    <3>3. SumOn(f, U) = f[x] + SumOn(f, U \ {x})
      BY <1>1, <3>1, SumTakes
    <3> QED BY <3>2, <3>3
  <2> QED BY <2>1, <2>2
<1> HIDE DEF G
<1>4. S \in G
  BY <1>2, <1>3, MemberByMember
<1> QED BY <1>4 DEF G

-----------------------------------------------------------------------------
(* Steps.                                                                  *)

\* CombatState::remove_from_combat takes a creature out of both maps and out of
\* every list; the blockers of an attacker that left keep the attacker's id.
LEMMA RemovalKeepsBlocks ==
    ASSUME TypeOK, BlocksPaired, NEW S, S \subseteq Creatures, RemoveFromCombat(S)
    PROVE  /\ BlocksPaired'
           /\ attackers' \subseteq attackers /\ attackers' \cap S = {}
           /\ DOMAIN blockers' \subseteq DOMAIN blockers /\ DOMAIN blockers' \cap S = {}
           /\ \A b \in DOMAIN blockers' : blockers'[b] = blockers[b]
           /\ DOMAIN blockedBy' \subseteq DOMAIN blockedBy
           /\ \A a \in DOMAIN blockedBy' : blockedBy'[a] \in Seq(Theirs)
           /\ regenerated' = regenerated \cup S
<1>1. /\ attackers' = attackers \ S /\ regenerated' = regenerated \cup S
      /\ DOMAIN blockers' = DOMAIN blockers \ S
      /\ \A b \in DOMAIN blockers \ S : blockers'[b] = blockers[b]
      /\ DOMAIN blockedBy' = DOMAIN blockedBy \ S
      /\ \A a \in DOMAIN blockedBy \ S : blockedBy'[a] = Without(blockedBy[a], S)
  BY DEF RemoveFromCombat
<1>2. ASSUME NEW a \in DOMAIN blockedBy \ S
      PROVE  /\ blockedBy'[a] \in Seq(Theirs)
             /\ \A i \in DOMAIN blockedBy'[a] :
                  /\ blockedBy'[a][i] \notin S
                  /\ \E k \in DOMAIN blockedBy[a] : blockedBy[a][k] = blockedBy'[a][i]
             /\ \A i, j \in DOMAIN blockedBy'[a] :
                  blockedBy'[a][i] = blockedBy'[a][j] => i = j
             /\ \A k \in DOMAIN blockedBy[a] : blockedBy[a][k] \notin S =>
                  \E i \in DOMAIN blockedBy'[a] : blockedBy'[a][i] = blockedBy[a][k]
  <2>1. blockedBy[a] \in Seq(Theirs) /\ blockedBy'[a] = Without(blockedBy[a], S)
    BY <1>1 DEF TypeOK
  <2>2. \A i, j \in DOMAIN blockedBy[a] : blockedBy[a][i] = blockedBy[a][j] => i = j
    BY DEF BlocksPaired
  <2> QED BY <2>1, <2>2, WithoutDrops
<1>3. DOMAIN blockedBy' \subseteq attackers'
  BY <1>1 DEF BlocksPaired
<1>4. \A a \in DOMAIN blockedBy' : \A i \in DOMAIN blockedBy'[a] :
        /\ blockedBy'[a][i] \in DOMAIN blockers' /\ blockers'[blockedBy'[a][i]] = a
        /\ \A j \in DOMAIN blockedBy'[a] : blockedBy'[a][i] = blockedBy'[a][j] => i = j
  <2> SUFFICES ASSUME NEW a \in DOMAIN blockedBy', NEW i \in DOMAIN blockedBy'[a]
               PROVE  /\ blockedBy'[a][i] \in DOMAIN blockers'
                      /\ blockers'[blockedBy'[a][i]] = a
                      /\ \A j \in DOMAIN blockedBy'[a] :
                           blockedBy'[a][i] = blockedBy'[a][j] => i = j
    OBVIOUS
  <2>1. a \in DOMAIN blockedBy \ S
    BY <1>1
  <2>2. PICK k \in DOMAIN blockedBy[a] : blockedBy[a][k] = blockedBy'[a][i]
    BY <1>2, <2>1
  <2>3. blockedBy[a][k] \in DOMAIN blockers /\ blockers[blockedBy[a][k]] = a
    BY <2>1 DEF BlocksPaired
  <2> QED BY <1>1, <1>2, <2>1, <2>2, <2>3
<1>5. \A b \in DOMAIN blockers' : blockers'[b] \in attackers' =>
        /\ blockers'[b] \in DOMAIN blockedBy'
        /\ \E i \in DOMAIN blockedBy'[blockers'[b]] : blockedBy'[blockers'[b]][i] = b
  <2> SUFFICES ASSUME NEW b \in DOMAIN blockers', blockers'[b] \in attackers'
               PROVE  /\ blockers'[b] \in DOMAIN blockedBy'
                      /\ \E i \in DOMAIN blockedBy'[blockers'[b]] :
                           blockedBy'[blockers'[b]][i] = b
    OBVIOUS
  <2>1. /\ b \in DOMAIN blockers /\ b \notin S /\ blockers'[b] = blockers[b]
        /\ blockers[b] \in attackers \ S
    BY <1>1
  <2>2. /\ blockers[b] \in DOMAIN blockedBy \ S
        /\ \E k \in DOMAIN blockedBy[blockers[b]] : blockedBy[blockers[b]][k] = b
    BY <2>1 DEF BlocksPaired
  <2> QED BY <1>1, <1>2, <2>1, <2>2
<1> QED BY <1>1, <1>2, <1>3, <1>4, <1>5 DEF BlocksPaired

\* declare_blockers_step fills both maps from one set of blocks.
LEMMA DeclarationPairs ==
    ASSUME TypeOK, BlocksInCombat, DeclareBlockers
    PROVE  /\ BlocksPaired'
           /\ DOMAIN blockers' \subseteq (Theirs \cap field) \ tapped
           /\ \A b \in DOMAIN blockers' : blockers'[b] \in Ours
           /\ DOMAIN blockedBy' \subseteq Ours
           /\ \A a \in DOMAIN blockedBy' : blockedBy'[a] \in Seq(Theirs)
<1>1. DOMAIN blockers = {} /\ DOMAIN blockedBy = {} /\ attackers' = attackers
  BY DEF DeclareBlockers, BlocksInCombat
<1> DEFINE Fills(blocks) ==
             LET kept == ValidateBlockingRestrictions(blocks)
                 new(a) == SortedSeq({b \in kept : blocks[b] = a})
                 old(a) == IF a \in DOMAIN blockedBy THEN blockedBy[a] ELSE <<>> IN
             /\ blockers' = [b \in kept \cup DOMAIN blockers |->
                               IF b \in kept THEN blocks[b] ELSE blockers[b]]
             /\ blockedBy' = [a \in {blocks[b] : b \in kept} \cup DOMAIN blockedBy |->
                                old(a) \o new(a)]
<1>2. PICK blocks :
        /\ DOMAIN blocks \subseteq AvailableBlockers
        /\ \A b \in DOMAIN blocks : blocks[b] \in attackers
        /\ Fills(blocks)
  <2>1. PICK B \in SUBSET AvailableBlockers : \E blocks \in [B -> attackers] : Fills(blocks)
    BY Zenon DEF DeclareBlockers
  <2> HIDE DEF Fills
  <2> QED BY <2>1
<1> DEFINE kept == ValidateBlockingRestrictions(blocks)
           of(a) == {b \in kept : blocks[b] = a}
<1>3. kept \subseteq (Theirs \cap field) \ tapped /\ \A b \in kept : blocks[b] \in attackers
  BY <1>2 DEF ValidateBlockingRestrictions, AvailableBlockers
<1> HIDE DEF kept
<1>4. \A a : of(a) \subseteq Theirs /\ of(a) \subseteq Nat /\ IsFiniteSet(of(a))
  <2>1. \A a : of(a) \subseteq Theirs
    BY <1>3
  <2> HIDE DEF of
  <2> QED BY <2>1, CombatAssumption, FS_Subset
<1>5. /\ DOMAIN blockers' = kept
      /\ \A b \in kept : blockers'[b] = blocks[b]
      /\ DOMAIN blockedBy' = {blocks[b] : b \in kept}
      /\ \A a \in {blocks[b] : b \in kept} : blockedBy'[a] = <<>> \o SortedSeq(of(a))
  BY <1>1, <1>2 DEF kept
<1>6. ASSUME NEW a \in DOMAIN blockedBy'
      PROVE  /\ blockedBy'[a] \in Seq(of(a)) /\ blockedBy'[a] \in Seq(Theirs)
             /\ \A i, j \in DOMAIN blockedBy'[a] :
                  blockedBy'[a][i] = blockedBy'[a][j] => i = j
             /\ \A b \in of(a) : \E i \in DOMAIN blockedBy'[a] : blockedBy'[a][i] = b
  <2>1. /\ SortedSeq(of(a)) \in Seq(of(a))
        /\ \A i, j \in DOMAIN SortedSeq(of(a)) :
             SortedSeq(of(a))[i] = SortedSeq(of(a))[j] => i = j
        /\ \A b \in of(a) : \E i \in DOMAIN SortedSeq(of(a)) : SortedSeq(of(a))[i] = b
    <3> HIDE DEF of
    <3> QED BY <1>4, SortedSeqSorts
  <2>2. SortedSeq(of(a)) \in Seq(Theirs)
    <3> HIDE DEF of
    <3> QED BY <1>4, <2>1
  <2>3. blockedBy'[a] = SortedSeq(of(a))
    <3>1. blockedBy'[a] = <<>> \o SortedSeq(of(a))
      BY <1>5
    <3> HIDE DEF of
    <3> QED BY <2>2, <3>1
  <2> HIDE DEF of
  <2> QED BY <2>1, <2>2, <2>3
<1>7. \A a \in DOMAIN blockedBy' : \A i \in DOMAIN blockedBy'[a] :
        blockedBy'[a][i] \in kept /\ blocks[blockedBy'[a][i]] = a
  <2> SUFFICES ASSUME NEW a \in DOMAIN blockedBy', NEW i \in DOMAIN blockedBy'[a]
               PROVE  blockedBy'[a][i] \in of(a)
    OBVIOUS
  <2> HIDE DEF of
  <2> QED BY <1>6
<1>8. BlocksPaired'
  <2>1. DOMAIN blockedBy' \subseteq attackers'
    BY <1>1, <1>3, <1>5
  <2>2. \A a \in DOMAIN blockedBy' : \A i \in DOMAIN blockedBy'[a] :
          /\ blockedBy'[a][i] \in DOMAIN blockers' /\ blockers'[blockedBy'[a][i]] = a
          /\ \A j \in DOMAIN blockedBy'[a] : blockedBy'[a][i] = blockedBy'[a][j] => i = j
    BY <1>5, <1>6, <1>7
  <2>3. \A b \in DOMAIN blockers' :
          /\ blockers'[b] \in DOMAIN blockedBy'
          /\ \E i \in DOMAIN blockedBy'[blockers'[b]] : blockedBy'[blockers'[b]][i] = b
    <3> SUFFICES ASSUME NEW b \in DOMAIN blockers'
                 PROVE  /\ blockers'[b] \in DOMAIN blockedBy'
                        /\ \E i \in DOMAIN blockedBy'[blockers'[b]] :
                             blockedBy'[blockers'[b]][i] = b
      OBVIOUS
    <3>1. /\ b \in kept /\ blockers'[b] = blocks[b]
          /\ blocks[b] \in DOMAIN blockedBy'
      BY <1>5
    <3>2. b \in of(blocks[b])
      BY <3>1
    <3> HIDE DEF of
    <3> QED BY <1>6, <3>1, <3>2
  <2> QED BY <2>1, <2>2, <2>3 DEF BlocksPaired
<1>9. /\ DOMAIN blockers' \subseteq (Theirs \cap field) \ tapped
      /\ \A b \in DOMAIN blockers' : blockers'[b] \in Ours
      /\ DOMAIN blockedBy' \subseteq Ours
  BY <1>3, <1>5 DEF TypeOK
<1> HIDE DEF of
<1> QED BY <1>6, <1>8, <1>9

\* move_card resets what belongs to the creatures that leave.
LEMMA LeavingKeepsTypes ==
    ASSUME TypeOK, NEW S, NEW t, t \subseteq field, NEW sh \in [Creatures -> Nat],
           Leave(S, t, sh)
    PROVE  /\ kind' = kind /\ granted' \in [Creatures -> SUBSET {"FirstStrike"}]
           /\ field' \subseteq field /\ field' = field \ S
           /\ tapped' = t \ S /\ tapped' \subseteq field' /\ mazed' \subseteq field'
           /\ shields' \in [Creatures -> Nat]
BY DEF Leave, TypeOK

\* A damage step destroys or regenerates creatures, whatever the damage was.
LEMMA DamageKeepsInvariant ==
    ASSUME CombatInv, NEW step \in {"first", "normal"},
           NEW next \in {"afterFirst", "afterDamage"}, phase \in {"damage", "normal"},
           AssignCombatDamage(step, next), UNCHANGED <<todo, effects, combats>>
    PROVE  CombatInv'
<1> USE DEF CombatInv
<1>1. PICK h, lost :
        /\ hits' = [hits EXCEPT ![step] = h]
        /\ phase' \in {"over", next}
        /\ lost \subseteq field
        /\ ProcessDying(h, lost)
  <2>1. \A who : \A lost \in TriggerMayTake(who, field) : lost \subseteq field
    BY DEF TriggerMayTake
  <2> QED BY <2>1 DEF AssignCombatDamage
<1> DEFINE doomed == CreaturesToDestroy(h, field \ lost)
           saved == {c \in doomed : shields[c] > 0}
           sh == [c \in Creatures |-> IF c \in saved THEN shields[c] - 1 ELSE shields[c]]
<1>2. /\ doomed \subseteq field \ lost
      /\ saved \subseteq doomed /\ sh \in [Creatures -> Nat]
  BY DEF CreaturesToDestroy, TypeOK
<1>3. Leave(lost \cup (doomed \ saved), tapped \cup saved, sh) /\ RemoveFromCombat(saved)
  BY <1>1 DEF ProcessDying
<1> HIDE DEF doomed, saved, sh
<1>4. saved \subseteq field /\ saved \subseteq Creatures /\ tapped \cup saved \subseteq field
      /\ saved \cap (lost \cup (doomed \ saved)) = {}
  BY <1>2 DEF TypeOK
<1>5. /\ kind' = kind /\ granted' \in [Creatures -> SUBSET {"FirstStrike"}]
      /\ field' \subseteq field /\ field' = field \ (lost \cup (doomed \ saved))
      /\ tapped' = (tapped \cup saved) \ (lost \cup (doomed \ saved))
      /\ tapped' \subseteq field' /\ mazed' \subseteq field'
      /\ shields' \in [Creatures -> Nat]
  BY <1>2, <1>3, <1>4, LeavingKeepsTypes
<1>6. /\ BlocksPaired'
      /\ attackers' \subseteq attackers /\ attackers' \cap saved = {}
      /\ DOMAIN blockers' \subseteq DOMAIN blockers /\ DOMAIN blockers' \cap saved = {}
      /\ \A b \in DOMAIN blockers' : blockers'[b] = blockers[b]
      /\ DOMAIN blockedBy' \subseteq DOMAIN blockedBy
      /\ \A a \in DOMAIN blockedBy' : blockedBy'[a] \in Seq(Theirs)
      /\ regenerated' = regenerated \cup saved
  BY <1>3, <1>4, RemovalKeepsBlocks
<1>7. TypeOK'
  <2>1. DOMAIN hits' = {"first", "normal"}
    BY <1>1 DEF TypeOK
  <2>2. phase' \in Phases
    BY <1>1 DEF Phases, Windows
  <2> QED BY <1>4, <1>5, <1>6, <2>1, <2>2 DEF TypeOK
<1>8. BlocksInCombat'
  BY <1>1 DEF BlocksInCombat
<1>9. RegeneratedApart'
  BY <1>4, <1>5, <1>6 DEF RegeneratedApart
<1> QED BY <1>6, <1>7, <1>8, <1>9

\* Every step keeps the invariant.
LEMMA CombatStep == CombatInv /\ [Next]_vars => CombatInv'
<1> SUFFICES ASSUME CombatInv, [Next]_vars PROVE CombatInv'
  OBVIOUS
<1> USE DEF CombatInv
<1>1. CASE ChooseAttackers
  <2> USE DEF ChooseAttackers
  <2> DEFINE able == AvailableAttackers
             forced == {c \in able : HasKeywordWithEffects(c, "MustAttack")}
  <2>1. PICK S \in SUBSET able : \E order \in SetToSeqs(S) :
          todo' = order \o SortedSeq(forced \ S)
    BY <1>1
  <2>2. PICK order \in SetToSeqs(S) : todo' = order \o SortedSeq(forced \ S)
    BY <2>1
  <2>3. able \subseteq Ours
    BY DEF AvailableAttackers
  <2>4. order \in Seq(Ours)
    <3>1. IsFiniteSet(S) /\ S \subseteq Ours
      BY <2>3, CombatAssumption, FS_Subset
    <3>2. Cardinality(S) \in Nat
      BY <3>1, FS_CardinalityType
    <3>3. order \in [1..Cardinality(S) -> S]
      BY <2>2 DEF SetToSeqs
    <3> QED BY <3>1, <3>2, <3>3
  <2>5. SortedSeq(forced \ S) \in Seq(Ours)
    <3>1. forced \ S \subseteq Ours /\ IsFiniteSet(forced \ S) /\ Ours \subseteq Nat
      BY <2>3, CombatAssumption, FS_Subset
    <3> HIDE DEF forced
    <3>2. SortedSeq(forced \ S) \in Seq(forced \ S)
      BY <3>1, SortedSeqSorts
    <3> QED BY <3>1, <3>2
  <2>6. todo' \in Seq(Ours)
    <3> HIDE DEF forced, able
    <3> QED BY <2>2, <2>4, <2>5
  <2>7. UNCHANGED <<board, combat, life, hits, effects, combats, regenerated>>
        /\ phase = "attackers" /\ phase' = "declaring"
    BY <1>1
  <2> HIDE DEF ChooseAttackers
  <2>8. TypeOK'
    BY <2>6, <2>7 DEF TypeOK, board, combat, Phases
  <2>9. BlocksInCombat' /\ BlocksPaired' /\ RegeneratedApart'
    BY <2>7 DEF BlocksInCombat, BlocksPaired, RegeneratedApart, board, combat
  <2> QED BY <2>8, <2>9
<1>2. CASE SkipAttacker \/ AttackersDeclared \/ PriorityRoundEnds \/ ExtraCombat
  <2>1. /\ UNCHANGED <<board, combat, regenerated>>
        /\ todo' \in Seq(Ours) /\ phase' \in Phases
        /\ DOMAIN hits' = {"first", "normal"} /\ effects' \in Nat /\ combats' \in Nat
    <3>1. CASE SkipAttacker
      <4>1. todo \in Seq(Ours) /\ todo # <<>> /\ todo' = Tail(todo)
        BY <3>1 DEF SkipAttacker, TypeOK
      <4>2. todo' \in Seq(Ours)
        BY <4>1
      <4> QED BY <3>1, <4>2 DEF SkipAttacker, TypeOK
    <3>2. CASE AttackersDeclared
      BY <3>2 DEF AttackersDeclared, TypeOK, Phases, Windows
    <3>3. CASE PriorityRoundEnds
      BY <3>3 DEF PriorityRoundEnds, TypeOK, Phases, Windows, NextPhase
    <3>4. CASE ExtraCombat
      BY <3>4 DEF ExtraCombat, TypeOK, Phases
    <3> QED BY <1>2, <3>1, <3>2, <3>3, <3>4
  <2>2. TypeOK'
    BY <2>1 DEF TypeOK, board, combat
  <2>3. BlocksInCombat'
    BY <1>2, <2>1 DEF SkipAttacker, AttackersDeclared, PriorityRoundEnds,
       ExtraCombat, BlocksInCombat, NextPhase, Windows, combat
  <2>4. BlocksPaired' /\ RegeneratedApart'
    BY <2>1 DEF BlocksPaired, RegeneratedApart, board, combat
  <2> QED BY <2>2, <2>3, <2>4
<1>3. CASE DeclareAttacker
  <2> DEFINE c == Head(todo)
  <2>1. /\ phase = "declaring" /\ todo # <<>> /\ c \in field /\ c \notin tapped
        /\ attackers' = attackers \cup {c} /\ todo' = Tail(todo)
        /\ UNCHANGED <<blockers, blockedBy, phase, hits, effects, combats, regenerated>>
    BY <1>3 DEF DeclareAttacker
  <2>2. c \in Ours /\ todo' \in Seq(Ours)
    BY <2>1 DEF TypeOK
  <2>3. PICK lost : Leave(lost, IF HasKeywordWithEffects(c, "Vigilance") THEN tapped
                                ELSE tapped \cup {c}, shields)
    BY <1>3 DEF DeclareAttacker
  <2> HIDE DEF c
  <2>4. PICK t : t = (IF HasKeywordWithEffects(c, "Vigilance") THEN tapped ELSE tapped \cup {c})
    OBVIOUS
  <2>5. Leave(lost, t, shields) /\ t \subseteq field /\ tapped \subseteq t
    BY <2>1, <2>3, <2>4 DEF TypeOK
  <2>6. /\ kind' = kind /\ granted' \in [Creatures -> SUBSET {"FirstStrike"}]
        /\ field' \subseteq field /\ field' = field \ lost
        /\ tapped' = t \ lost /\ tapped' \subseteq field' /\ mazed' \subseteq field'
        /\ shields' \in [Creatures -> Nat]
    <3>1. shields \in [Creatures -> Nat]
      BY DEF TypeOK
    <3> QED BY <2>5, <3>1, LeavingKeepsTypes
  <2>7. TypeOK'
    BY <2>1, <2>2, <2>6 DEF TypeOK
  <2>8. BlocksInCombat' /\ BlocksPaired'
    <3>1. DOMAIN blockers = {} /\ DOMAIN blockedBy = {}
      BY <2>1 DEF BlocksInCombat
    <3> QED BY <2>1, <3>1 DEF BlocksInCombat, BlocksPaired
  <2>9. RegeneratedApart'
    BY <2>1, <2>5, <2>6 DEF RegeneratedApart
  <2> QED BY <2>7, <2>8, <2>9
<1>4. CASE DeclareBlockers
  <2>1. /\ UNCHANGED <<board, attackers, todo, hits, effects, combats, regenerated>>
        /\ phase' = "afterBlockers"
    BY <1>4 DEF DeclareBlockers
  <2>2. /\ BlocksPaired'
        /\ DOMAIN blockers' \subseteq (Theirs \cap field) \ tapped
        /\ \A b \in DOMAIN blockers' : blockers'[b] \in Ours
        /\ DOMAIN blockedBy' \subseteq Ours
        /\ \A a \in DOMAIN blockedBy' : blockedBy'[a] \in Seq(Theirs)
    BY <1>4, DeclarationPairs
  <2>3. TypeOK'
    BY <2>1, <2>2 DEF TypeOK, board, Phases, Windows
  <2>4. BlocksInCombat'
    BY <2>1 DEF BlocksInCombat
  <2>5. RegeneratedApart'
    BY <2>1, <2>2 DEF RegeneratedApart, board
  <2> QED BY <2>2, <2>3, <2>4, <2>5
<1>5. CASE FirstStrikeDamage
  BY <1>5, DamageKeepsInvariant DEF FirstStrikeDamage
<1>6. CASE NormalDamage
  BY <1>6, DamageKeepsInvariant DEF NormalDamage
<1>7. CASE EndCombat
  <2>1. /\ attackers' = {} /\ DOMAIN blockers' = {} /\ DOMAIN blockedBy' = {}
        /\ regenerated' = {} /\ phase' = "afterCombat"
        /\ UNCHANGED <<board, todo, hits, effects, combats>>
    BY <1>7 DEF EndCombat
  <2>2. TypeOK'
    BY <2>1 DEF TypeOK, board, Phases, Windows
  <2>3. BlocksInCombat' /\ BlocksPaired' /\ RegeneratedApart'
    BY <2>1 DEF BlocksInCombat, BlocksPaired, RegeneratedApart
  <2> QED BY <2>2, <2>3
<1>8. ASSUME NEW c \in Creatures, Destroy(c) PROVE CombatInv'
  <2>1. /\ UNCHANGED <<phase, todo, hits, combats>> /\ effects' \in Nat /\ c \in field
    BY <1>8 DEF Destroy, Effect, TypeOK
  <2>2. CASE shields[c] > 0
    <3>1. PICK sh : sh = [shields EXCEPT ![c] = shields[c] - 1]
      OBVIOUS
    <3>2. RemoveFromCombat({c}) /\ Leave({}, tapped \cup {c}, sh)
      BY <1>8, <2>2, <3>1 DEF Destroy
    <3>3. sh \in [Creatures -> Nat] /\ tapped \cup {c} \subseteq field
      BY <2>1, <2>2, <3>1 DEF TypeOK
    <3>4. /\ kind' = kind /\ granted' \in [Creatures -> SUBSET {"FirstStrike"}]
          /\ field' = field /\ tapped' = tapped \cup {c} /\ tapped' \subseteq field'
          /\ mazed' \subseteq field' /\ shields' \in [Creatures -> Nat]
      <4>1. /\ field' = field \ {} /\ tapped' = (tapped \cup {c}) \ {}
            /\ tapped' \subseteq field' /\ mazed' \subseteq field' /\ kind' = kind
            /\ granted' \in [Creatures -> SUBSET {"FirstStrike"}]
            /\ shields' \in [Creatures -> Nat]
        BY <3>2, <3>3, LeavingKeepsTypes
      <4> QED BY <4>1
    <3>5. /\ BlocksPaired'
          /\ attackers' \subseteq attackers /\ attackers' \cap {c} = {}
          /\ DOMAIN blockers' \subseteq DOMAIN blockers /\ DOMAIN blockers' \cap {c} = {}
          /\ \A b \in DOMAIN blockers' : blockers'[b] = blockers[b]
          /\ DOMAIN blockedBy' \subseteq DOMAIN blockedBy
          /\ \A a \in DOMAIN blockedBy' : blockedBy'[a] \in Seq(Theirs)
          /\ regenerated' = regenerated \cup {c}
      <4>1. {c} \subseteq Creatures
        OBVIOUS
      <4> QED BY <3>2, <4>1, RemovalKeepsBlocks
    <3>6. TypeOK'
      BY <2>1, <3>4, <3>5 DEF TypeOK
    <3>7. BlocksInCombat'
      BY <2>1, <3>5 DEF BlocksInCombat
    <3>8. RegeneratedApart'
      BY <3>4, <3>5 DEF RegeneratedApart
    <3> QED BY <3>5, <3>6, <3>7, <3>8
  <2>3. CASE ~(shields[c] > 0)
    <3>1. Leave({c}, tapped, shields) /\ UNCHANGED <<combat, regenerated>>
      BY <1>8, <2>3 DEF Destroy
    <3>2. shields \in [Creatures -> Nat] /\ tapped \subseteq field
      BY DEF TypeOK
    <3>3. /\ kind' = kind /\ granted' \in [Creatures -> SUBSET {"FirstStrike"}]
          /\ field' = field \ {c} /\ tapped' = tapped \ {c} /\ tapped' \subseteq field'
          /\ mazed' \subseteq field' /\ shields' \in [Creatures -> Nat]
      BY <3>1, <3>2, LeavingKeepsTypes
    <3>4. TypeOK'
      BY <2>1, <3>1, <3>3 DEF TypeOK, combat
    <3>5. BlocksInCombat' /\ BlocksPaired' /\ RegeneratedApart'
      BY <2>1, <3>1, <3>3 DEF BlocksInCombat, BlocksPaired, RegeneratedApart, combat
    <3> QED BY <3>4, <3>5
  <2> QED BY <2>2, <2>3
<1>9. ASSUME NEW c \in Creatures, Bounce(c) PROVE CombatInv'
  <2>1. /\ UNCHANGED <<combat, phase, todo, hits, combats, regenerated>>
        /\ effects' \in Nat /\ Leave({c}, tapped, shields)
    BY <1>9 DEF Bounce, Effect, TypeOK
  <2>2. shields \in [Creatures -> Nat] /\ tapped \subseteq field
    BY DEF TypeOK
  <2>3. /\ kind' = kind /\ granted' \in [Creatures -> SUBSET {"FirstStrike"}]
        /\ field' = field \ {c} /\ tapped' = tapped \ {c} /\ tapped' \subseteq field'
        /\ mazed' \subseteq field' /\ shields' \in [Creatures -> Nat]
    BY <2>1, <2>2, LeavingKeepsTypes
  <2>4. TypeOK'
    BY <2>1, <2>3 DEF TypeOK, combat
  <2>5. BlocksInCombat' /\ BlocksPaired' /\ RegeneratedApart'
    BY <2>1, <2>3 DEF BlocksInCombat, BlocksPaired, RegeneratedApart, combat
  <2> QED BY <2>4, <2>5
<1>10. ASSUME NEW c \in Creatures, Regenerate(c) \/ Maze(c) \/ Grant(c) PROVE CombatInv'
  <2>1. /\ UNCHANGED <<kind, field, combat, phase, todo, hits, combats, regenerated>>
        /\ effects' \in Nat
        /\ tapped' = tapped \/ (c \in attackers /\ tapped' = tapped \ {c})
        /\ mazed' \subseteq field
        /\ granted' \in [Creatures -> SUBSET {"FirstStrike"}]
        /\ shields' \in [Creatures -> Nat]
    <3>1. effects' \in Nat /\ c \in field
      BY <1>10 DEF Regenerate, Maze, Grant, Effect, TypeOK
    <3>2. CASE Regenerate(c)
      BY <3>1, <3>2 DEF Regenerate, TypeOK
    <3>3. CASE Maze(c)
      BY <3>1, <3>3 DEF Maze, TypeOK
    <3>4. CASE Grant(c)
      BY <3>1, <3>4 DEF Grant, TypeOK
    <3> QED BY <1>10, <3>2, <3>3, <3>4
  <2>2. TypeOK'
    BY <2>1 DEF TypeOK, combat
  <2>3. BlocksInCombat' /\ BlocksPaired' /\ RegeneratedApart'
    BY <2>1 DEF BlocksInCombat, BlocksPaired, RegeneratedApart, combat
  <2> QED BY <2>2, <2>3
<1>11. CASE UNCHANGED vars
  BY <1>11 DEF vars, board, combat, TypeOK, BlocksInCombat, BlocksPaired, RegeneratedApart
<1> QED
  BY <1>1, <1>2, <1>3, <1>4, <1>5, <1>6, <1>7, <1>8, <1>9, <1>10, <1>11 DEF Next

-----------------------------------------------------------------------------
\* The inductive invariant holds throughout.
THEOREM CombatInvariant == Spec => []CombatInv
<1>1. Init => CombatInv
  <2> SUFFICES ASSUME Init PROVE CombatInv
    OBVIOUS
  <2> USE DEF Init
  <2>1. TypeOK
    BY CombatAssumption DEF TypeOK, Phases, Creatures
  <2>2. BlocksInCombat /\ BlocksPaired /\ RegeneratedApart
    BY DEF BlocksInCombat, BlocksPaired, RegeneratedApart
  <2> QED BY <2>1, <2>2 DEF CombatInv
<1> QED BY <1>1, CombatStep, PTL DEF Spec

\* The state of the combat has its types (combat.rs CombatState, and the fields
\* of Card that a combat reads).
THEOREM TypeCorrect == Spec => []TypeOK
<1>1. CombatInv => TypeOK
  BY DEF CombatInv
<1> QED BY <1>1, CombatInvariant, PTL

\* The maps of attackers and of blockers agree, whatever was declared,
\* regenerated away or cleared (combat.rs CombatState).
THEOREM TheMapsAgree == Spec => []MapsAgree
<1>1. CombatInv => MapsAgree
  <2> SUFFICES ASSUME CombatInv PROVE MapsAgree
    OBVIOUS
  <2> USE DEF CombatInv, BlocksPaired
  <2>1. \A a \in DOMAIN blockedBy : \A b \in Range(blockedBy[a]) :
          b \in DOMAIN blockers /\ blockers[b] = a
    BY DEF Range
  <2>2. ASSUME NEW b \in DOMAIN blockers, blockers[b] \in attackers
        PROVE  Cardinality({i \in DOMAIN blockedBy[blockers[b]] :
                              blockedBy[blockers[b]][i] = b}) = 1
    <3>1. PICK i \in DOMAIN blockedBy[blockers[b]] : blockedBy[blockers[b]][i] = b
      BY <2>2
    <3>2. {j \in DOMAIN blockedBy[blockers[b]] : blockedBy[blockers[b]][j] = b} = {i}
      BY <2>2, <3>1
    <3> QED BY <3>2, FS_Singleton
  <2> QED BY <2>1, <2>2 DEF MapsAgree
<1> QED BY <1>1, CombatInvariant, PTL

-----------------------------------------------------------------------------
(* Where damage goes.                                                      *)

\* Whatever the controller chooses, a plan is for the attacker's blockers.
LEMMA PlansAreForBlockers ==
    ASSUME NEW a, NEW plan \in SmartDamageAssignment(a)
    PROVE  DOMAIN plan \subseteq Range(blockedBy[a])
<1> DEFINE bs == Range(blockedBy[a])
<1>1. plan = KillAll(a, bs) \/ plan \in KillInTurn(a, bs)
  BY DEF SmartDamageAssignment
<1> HIDE DEF bs
<1>2. DOMAIN KillAll(a, bs) \subseteq bs
  BY DEF KillAll
<1>3. ASSUME NEW p \in KillInTurn(a, bs) PROVE DOMAIN p \subseteq bs
  <2> DEFINE lethal(b) == CalculateLethalDamage(a, b)
             left(K) == Power(a) - LethalFor(a, K)
             dead == {K \in SUBSET bs : /\ \A b \in K : lethal(b) > 0
                                        /\ left(K) >= 0
                                        /\ \A b \in bs \ K : lethal(b) \notin 1..left(K)}
             rest(K) == IF left(K) = 0 \/ HasKeywordWithEffects(a, "Trample")
                        THEN {} ELSE bs \ K
             kill(K, dump) == [b \in K \cup dump |-> IF b \in K THEN lethal(b) ELSE left(K)]
             plans(K) == IF rest(K) = {} THEN {kill(K, {})}
                         ELSE {kill(K, {b}) : b \in rest(K)}
  <2>1. PICK K \in dead : p \in plans(K)
    BY DEF KillInTurn
  <2>2. K \subseteq bs /\ rest(K) \subseteq bs
    OBVIOUS
  <2>3. CASE rest(K) = {}
    <3>1. p = kill(K, {})
      BY <2>1, <2>3
    <3> QED BY <2>2, <3>1
  <2>4. CASE rest(K) # {}
    <3>1. PICK b \in rest(K) : p = kill(K, {b})
      BY <2>1, <2>4
    <3>2. b \in bs
      BY <2>2
    <3> HIDE DEF rest, dead
    <3> QED BY <2>2, <3>1, <3>2
  <2> QED BY <2>3, <2>4
<1> QED BY <1>1, <1>2, <1>3 DEF bs

\* What an attacker deals goes to its blockers, or to the player if it is not
\* blocked or tramples.
LEMMA AttackersHit ==
    ASSUME NEW a, NEW plan, plan # <<>> => plan \in SmartDamageAssignment(a),
           NEW e \in AttackerHits(a, plan)
    PROVE  /\ e.src = a
           /\ \/ e.dst = Defender /\ ~IsBlocked(a)
              \/ e.dst = Defender /\ HasKeywordWithEffects(a, "Trample")
              \/ e.dst \in Range(blockedBy[a]) /\ IsBlocked(a)
<1> DEFINE final == IF plan # <<>> THEN plan ELSE InOrder(a)
           over == Power(a) - Spent(final)
<1>1. DOMAIN final \subseteq Range(blockedBy[a])
  BY PlansAreForBlockers DEF InOrder
<1>2. CASE ~IsBlocked(a)
  BY <1>2 DEF AttackerHits, Hit
<1>3. CASE IsBlocked(a)
  <2>1. e \in {Hit(a, b, final[b]) : b \in {d \in DOMAIN final : final[d] > 0}}
             \cup (IF HasKeywordWithEffects(a, "Trample") /\ over > 0
                   THEN {Hit(a, Defender, over)} ELSE {})
    BY <1>3, Zenon DEF AttackerHits
  <2> HIDE DEF final, over
  <2> QED BY <1>1, <1>3, <2>1 DEF Hit
<1> QED BY <1>2, <1>3

\* Only for several blockers there is a plan.
PlanFor(a, plan) ==
    IF IsBlocked(a) /\ Len(blockedBy[a]) > 1 THEN plan \in SmartDamageAssignment(a)
    ELSE plan = <<>>

\* A damage step replaces the hits of its own step by what the striking attackers and
\* their blockers deal.
LEMMA DamageTaken ==
    ASSUME TypeOK, [Next]_vars, NEW step \in {"first", "normal"}, StepTaken(step)
    PROVE  \E plan :
             /\ \A a \in attackers \cap Striking(step) : PlanFor(a, plan[a])
             /\ hits'[step] = UNION {AttackerHits(a, plan[a]) \cup BlockerHits(a, step)
                                       : a \in attackers \cap Striking(step)}
<1>1. PICK now \in {"first", "normal"} : \E next : AssignCombatDamage(now, next)
  BY DEF StepTaken, Next, FirstStrikeDamage, NormalDamage, vars, ChooseAttackers,
     SkipAttacker, DeclareAttacker, AttackersDeclared, DeclareBlockers, EndCombat,
     PriorityRoundEnds, ExtraCombat, Destroy, Bounce, Regenerate, Maze, Grant,
     Effect, Windows
<1> DEFINE striking == attackers \cap Striking(now)
           several == {a \in striking : IsBlocked(a) /\ Len(blockedBy[a]) > 1}
           dealt(plan) == UNION {AttackerHits(a, IF a \in several THEN plan[a] ELSE <<>>)
                                   \cup BlockerHits(a, now) : a \in striking}
<1>2. PICK plan : /\ \A a \in several : plan[a] \in SmartDamageAssignment(a)
                  /\ hits' = [hits EXCEPT ![now] = dealt(plan)]
  <2>1. PICK plan \in {p \in [several -> UNION {SmartDamageAssignment(a) : a \in several}] :
                       \A a \in several : p[a] \in SmartDamageAssignment(a)} :
          hits' = [hits EXCEPT ![now] = dealt(plan)]
    BY <1>1, Zenon DEF AssignCombatDamage
  <2> QED BY <2>1
<1>3. now = step /\ hits'[step] = dealt(plan)
  <2> HIDE DEF dealt
  <2> QED BY <1>2 DEF StepTaken, TypeOK
<1> DEFINE all == [a \in striking |-> IF a \in several THEN plan[a] ELSE <<>>]
<1>4. \A a \in striking : all[a] = IF a \in several THEN plan[a] ELSE <<>>
  OBVIOUS
<1>5. \A a \in striking : PlanFor(a, all[a])
  BY <1>2 DEF PlanFor
<1>6. dealt(plan) = UNION {AttackerHits(a, all[a]) \cup BlockerHits(a, now) : a \in striking}
  <2> HIDE DEF all, striking, several
  <2> QED BY <1>4, Zenon
<1> HIDE DEF all, dealt
<1> QED BY <1>3, <1>5, <1>6

\* Every hit of a damage step is an attacker's, or a blocker's on the attacker
\* it blocks.
LEMMA HitsAreFromCombat ==
    ASSUME TypeOK, [Next]_vars, NEW step \in {"first", "normal"}, StepTaken(step),
           NEW e \in hits'[step]
    PROVE  \/ /\ e.src \in attackers
              /\ \/ e.dst = Defender /\ ~IsBlocked(e.src)
                 \/ e.dst = Defender /\ HasKeywordWithEffects(e.src, "Trample")
                 \/ e.dst \in Range(blockedBy[e.src]) /\ IsBlocked(e.src)
           \/ /\ e.dst \in attackers /\ IsBlocked(e.dst)
              /\ e.src \in Range(blockedBy[e.dst])
<1> DEFINE striking == attackers \cap Striking(step)
<1>1. PICK plan :
        /\ \A a \in striking : PlanFor(a, plan[a])
        /\ hits'[step] = UNION {AttackerHits(a, plan[a]) \cup BlockerHits(a, step) : a \in striking}
  BY DamageTaken
<1>2. PICK a \in striking : e \in AttackerHits(a, plan[a]) \/ e \in BlockerHits(a, step)
  BY <1>1
<1>3. CASE e \in AttackerHits(a, plan[a])
  <2>1. plan[a] # <<>> => plan[a] \in SmartDamageAssignment(a)
    BY <1>1, Zenon DEF PlanFor
  <2> QED BY <1>3, <2>1, AttackersHit
<1>4. CASE e \in BlockerHits(a, step)
  BY <1>4 DEF BlockerHits, Hit
<1> QED BY <1>2, <1>3, <1>4

\* A blocked attacker stays blocked: whatever happened to its blockers, it
\* reaches the player only by trampling (actions/combat.rs
\* assign_combat_damage_planned, combat.rs is_blocked).
THEOREM BlockedAttackersStayBlocked == Spec => BlockedStaysBlocked
<1>1. CombatInv /\ [Next]_vars =>
        \A step \in {"first", "normal"} : StepTaken(step) =>
          \A e \in hits'[step] :
            e.dst = Defender /\ ~HasKeywordWithEffects(e.src, "Trample") =>
              \A b \in DOMAIN blockers : blockers[b] # e.src
  <2> SUFFICES ASSUME CombatInv, [Next]_vars, NEW step \in {"first", "normal"},
                      StepTaken(step), NEW e \in hits'[step], e.dst = Defender,
                      ~HasKeywordWithEffects(e.src, "Trample"),
                      NEW b \in DOMAIN blockers, blockers[b] = e.src
               PROVE  FALSE
    OBVIOUS
  <2> USE DEF CombatInv
  <2>1. Defender \notin Ours /\ Defender \notin Theirs
    BY CombatAssumption DEF Defender
  <2>2. \A a \in DOMAIN blockedBy : Range(blockedBy[a]) \subseteq Theirs
    BY DEF TypeOK, Range
  <2>3. e.src \in attackers /\ ~IsBlocked(e.src)
    BY <2>1, <2>2, HitsAreFromCombat DEF IsBlocked, TypeOK
  <2>4. e.src \in DOMAIN blockedBy /\ DOMAIN blockedBy[e.src] # {}
    BY <2>3 DEF BlocksPaired
  <2> QED BY <2>3, <2>4 DEF IsBlocked
<1> QED BY <1>1, CombatInvariant, PTL DEF Spec, BlockedStaysBlocked

\* What regenerated neither deals nor takes combat damage for the rest of the
\* combat (combat.rs remove_from_combat).
THEOREM RegeneratedStaysOut == Spec => RegeneratedIsOut
<1>1. CombatInv /\ [Next]_vars =>
        \A step \in {"first", "normal"} : StepTaken(step) =>
          \A e \in hits'[step] : e.src \notin regenerated /\ e.dst \notin regenerated
  <2> SUFFICES ASSUME CombatInv, [Next]_vars, NEW step \in {"first", "normal"},
                      StepTaken(step), NEW e \in hits'[step]
               PROVE  e.src \notin regenerated /\ e.dst \notin regenerated
    OBVIOUS
  <2> USE DEF CombatInv
  <2>1. Defender \notin regenerated
    BY CombatAssumption DEF Defender, TypeOK, Creatures
  <2>2. \A a \in DOMAIN blockedBy : Range(blockedBy[a]) \subseteq DOMAIN blockers
    BY DEF BlocksPaired, Range
  <2> QED BY <2>1, <2>2, HitsAreFromCombat DEF IsBlocked, RegeneratedApart
<1> QED BY <1>1, CombatInvariant, PTL DEF Spec, RegeneratedIsOut

-----------------------------------------------------------------------------
(* What a plan spends.                                                     *)

LEMMA SumsOfFunctions ==
    /\ \A plan : Spent(plan) = SumOn(plan, DOMAIN plan)
    /\ \A h, c : DealtBy(h, c) = SumOn([e \in {d \in h : d.src = c} |-> e.n], {d \in h : d.src = c})
    /\ \A a, bs : LethalFor(a, bs) = SumOn([b \in bs |-> CalculateLethalDamage(a, b)], bs)
BY DEF Spent, DealtBy, Total, LethalFor, SumFunction, SumOn

\* The empty plan is the one that names no blocker.
LEMMA EmptyPlan ==
    ASSUME NEW plan, plan = [b \in DOMAIN plan |-> plan[b]]
    PROVE  plan = <<>> <=> DOMAIN plan = {}
<1>1. <<>> = [b \in {} |-> plan[b]]
  OBVIOUS
<1> QED BY <1>1

\* Power and lethal damage are numbers; only what is indestructible needs none.
LEMMA LethalIsNat ==
    ASSUME TypeOK, NEW a \in Ours, NEW b \in Theirs
    PROVE  /\ Power(a) \in Nat /\ Power(b) \in Nat /\ Toughness(b) \in Nat \ {0}
           /\ CalculateLethalDamage(a, b) \in Nat
           /\ CalculateLethalDamage(a, b) = 0 => HasKeywordWithEffects(b, "Indestructible")
<1>1. kind[a] \in OurKinds \cup TheirKinds /\ kind[b] \in OurKinds \cup TheirKinds
  BY DEF TypeOK, Creatures
<1>2. Power(a) \in Nat /\ Power(b) \in Nat /\ Toughness(b) \in Nat \ {0}
  BY <1>1, CombatAssumption DEF Power, Toughness
<1> QED BY <1>2 DEF CalculateLethalDamage

\* What killing some of the blockers costs.
LEMMA LethalAdds ==
    ASSUME TypeOK, NEW a \in Ours, NEW K, K \subseteq Theirs, IsFiniteSet(K),
           NEW p, \A b \in K : p[b] = CalculateLethalDamage(a, b)
    PROVE  LethalFor(a, K) \in Nat /\ LethalFor(a, K) = SumOn(p, K)
<1> DEFINE f == [b \in K |-> CalculateLethalDamage(a, b)]
<1>1. \A b \in K : f[b] \in Nat /\ f[b] = p[b]
  BY LethalIsNat
<1>2. LethalFor(a, K) = SumOn(f, K)
  BY SumsOfFunctions
<1> HIDE DEF f
<1>3. SumOn(f, K) \in Nat
  BY <1>1, SumsAreNat
<1>4. SumOn(f, K) = SumOn(p, K)
  BY <1>1, SumsEqual
<1> QED BY <1>2, <1>3, <1>4

\* What cannot be killed adds nothing.
LEMMA LethalOfKillable ==
    ASSUME TypeOK, NEW a \in Ours, NEW K, K \subseteq Theirs, IsFiniteSet(K)
    PROVE  LethalFor(a, K) = LethalFor(a, {b \in K : CalculateLethalDamage(a, b) > 0})
<1> DEFINE f == [b \in K |-> CalculateLethalDamage(a, b)]
           m == [b \in K |-> b]
           P == {b \in K : CalculateLethalDamage(a, b) > 0}
<1>1. \A b \in K : f[b] \in Nat /\ f[b] = CalculateLethalDamage(a, b)
  BY LethalIsNat
<1>2. \A i, j \in K : m[i] = m[j] => i = j
  OBVIOUS
<1>3. \A i \in K : f[i] > 0 => f[m[i]] = f[i]
  OBVIOUS
<1>4. {m[i] : i \in {j \in K : f[j] > 0}} = P
  OBVIOUS
<1>5. P \subseteq Theirs /\ IsFiniteSet(P) /\ \A b \in P : f[b] = CalculateLethalDamage(a, b)
  BY FS_Subset
<1> HIDE DEF f, m, P
<1>6. SumOn(f, P) = SumOn(f, K)
  BY <1>1, <1>2, <1>3, <1>4, SumsMoved
<1>7. LethalFor(a, K) = SumOn(f, K)
  BY <1>1, LethalAdds
<1>8. LethalFor(a, P) = SumOn(f, P)
  BY <1>5, LethalAdds
<1> QED BY <1>6, <1>7, <1>8 DEF P

\* Blockers are last in the order of lethal damage and id: one of them is.
LEMMA OneIsLast ==
    ASSUME NEW S, IsFiniteSet(S), S \subseteq Nat, S # {}, NEW L, \A b \in S : L[b] \in Nat
    PROVE  \E x \in S : \A d \in S : L[d] < L[x] \/ (L[d] = L[x] /\ d <= x)
<1> DEFINE Upto(d, x) == L[d] < L[x] \/ (L[d] = L[x] /\ d <= x)
           G == {U \in SUBSET S : U = {} \/ \E x \in U : \A d \in U : Upto(d, x)}
<1>1. ASSUME NEW U \in SUBSET S, \A x \in U : U \ {x} \in G PROVE U \in G
  <2>1. CASE U = {}
    BY <2>1
  <2>2. CASE U # {}
    <3>1. PICK y \in U : TRUE
      BY <2>2
    <3>2. Upto(y, y) /\ \A d, x \in U : Upto(d, x) \/ Upto(x, d)
      OBVIOUS
    <3>3. \A d, x, z \in U : Upto(d, x) /\ Upto(x, z) => Upto(d, z)
      OBVIOUS
    <3> HIDE DEF Upto
    <3>4. U \ {y} = {} \/ \E x \in U \ {y} : \A d \in U \ {y} : Upto(d, x)
      BY <1>1, <3>1
    <3>5. \E x \in U : \A d \in U : Upto(d, x)
      <4>1. CASE U \ {y} = {}
        <5>1. \A d \in U : d = y
          BY <4>1
        <5> QED BY <3>1, <3>2, <5>1
      <4>2. ASSUME NEW x \in U \ {y}, \A d \in U \ {y} : Upto(d, x)
            PROVE  \E z \in U : \A d \in U : Upto(d, z)
        <5>1. \A d \in U : d = y \/ Upto(d, x)
          BY <4>2
        <5>2. CASE Upto(y, x)
          BY <5>1, <5>2
        <5>3. CASE Upto(x, y)
          BY <3>1, <3>2, <3>3, <5>1, <5>3
        <5> QED BY <3>1, <3>2, <5>2, <5>3
      <4> QED BY <3>4, <4>1, <4>2
    <3> QED BY <3>5
  <2> QED BY <2>1, <2>2
<1>2. S \in G
  <2>1. {} \in G
    OBVIOUS
  <2> HIDE DEF G
  <2> QED BY <1>1, <2>1, MemberByMember
<1> QED BY <1>2

\* A plan for the attacker a: damage for some of its blockers that spends its power,
\* if it does not trample and one of them can be killed.
PlanFits(a, bs, plan) ==
    /\ plan = [b \in DOMAIN plan |-> plan[b]]
    /\ DOMAIN plan \subseteq bs
    /\ \A b \in DOMAIN plan : plan[b] \in Nat
    /\ Spent(plan) \in 0..Power(a)
    /\ \/ Spent(plan) = Power(a)
       \/ HasKeywordWithEffects(a, "Trample")
       \/ DOMAIN plan = {} /\ \A b \in bs : HasKeywordWithEffects(b, "Indestructible")

\* Where everything killable is killed, the last takes what is left.
LEMMA KillAllSpends ==
    ASSUME TypeOK, NEW a \in Ours, NEW bs, bs \subseteq Theirs, IsFiniteSet(bs),
           Power(a) >= LethalFor(a, bs)
    PROVE  PlanFits(a, bs, KillAll(a, bs))
<1> DEFINE lethal(b) == CalculateLethalDamage(a, b)
           killable == {b \in bs : lethal(b) > 0}
           base == [b \in killable |-> lethal(b)]
           isLast(b) == \A d \in killable : lethal(d) < lethal(b) \/ (lethal(d) = lethal(b) /\ d <= b)
           tramples == HasKeywordWithEffects(a, "Trample")
           value(b) == IF isLast(b) /\ ~tramples THEN lethal(b) + Power(a) - Spent(base) ELSE lethal(b)
           p == KillAll(a, bs)
<1>1. p = [b \in killable |-> value(b)]
  BY DEF KillAll
<1>2. killable \subseteq bs /\ killable \subseteq Theirs /\ IsFiniteSet(killable) /\ killable \subseteq Nat
  BY FS_Subset, CombatAssumption
<1>3. /\ Power(a) \in Nat
      /\ \A b \in bs : lethal(b) \in Nat /\ (lethal(b) = 0 => HasKeywordWithEffects(b, "Indestructible"))
  <2>1. Power(a) \in Nat
    BY CombatAssumption DEF TypeOK, Power, Creatures
  <2> QED BY <2>1, LethalIsNat
<1>4. \A b \in killable : base[b] = lethal(b) /\ lethal(b) \in Nat
  BY <1>3
<1>5. \A b \in bs : b \notin killable => HasKeywordWithEffects(b, "Indestructible")
  BY <1>3
<1>6. Spent(base) = SumOn(base, killable)
  BY SumsOfFunctions
<1>7. LethalFor(a, bs) = LethalFor(a, killable)
  BY LethalOfKillable
<1> HIDE DEF killable, base, lethal
<1>8. LethalFor(a, killable) = SumOn(base, killable) /\ LethalFor(a, killable) \in Nat
  BY <1>2, <1>4, LethalAdds DEF lethal
<1>9. Spent(base) \in 0..Power(a)
  BY <1>3, <1>6, <1>7, <1>8
<1>10. DOMAIN p = killable /\ p = [b \in DOMAIN p |-> p[b]] /\ \A b \in killable : p[b] = value(b)
  <2> HIDE DEF p, value
  <2> QED BY <1>1
<1>11. Spent(p) = SumOn(p, killable)
  BY <1>10, SumsOfFunctions
<1>12. \A b \in killable : p[b] \in Nat
  <2> SUFFICES ASSUME NEW b \in killable PROVE value(b) \in Nat
    BY <1>10
  <2>1. lethal(b) \in Nat
    BY <1>4
  <2> HIDE DEF isLast, tramples
  <2> QED BY <1>3, <1>9, <2>1
<1> HIDE DEF p
<1>13. CASE tramples
  <2>1. \A b \in killable : p[b] = base[b]
    BY <1>4, <1>10, <1>13
  <2>2. SumOn(p, killable) = SumOn(base, killable)
    BY <1>2, <2>1, SumsEqual
  <2> QED BY <1>2, <1>6, <1>9, <1>10, <1>11, <1>12, <1>13, <2>2 DEF PlanFits, p
<1>14. CASE killable = {}
  <2>1. Spent(p) = 0
    BY <1>11, <1>14, SmallSums
  <2>2. DOMAIN p = {} /\ \A b \in bs : HasKeywordWithEffects(b, "Indestructible")
    BY <1>5, <1>10, <1>14
  <2> QED BY <1>2, <1>3, <1>10, <1>12, <2>1, <2>2 DEF PlanFits, p
<1>15. CASE ~tramples /\ killable # {}
  <2>1. PICK x \in killable : isLast(x)
    <3>1. \E x \in killable : \A d \in killable : base[d] < base[x] \/ (base[d] = base[x] /\ d <= x)
      <4>1. \A b \in killable : base[b] \in Nat
        BY <1>4
      <4> HIDE DEF value, isLast, tramples
      <4> QED BY <1>2, <1>15, <4>1, OneIsLast
    <3> QED BY <1>4, <3>1
  <2>2. \A b \in killable \ {x} : ~isLast(b)
    <3> SUFFICES ASSUME NEW b \in killable, b # x, isLast(b) PROVE FALSE
      OBVIOUS
    <3>1. lethal(x) < lethal(b) \/ (lethal(x) = lethal(b) /\ x <= b)
      OBVIOUS
    <3>2. lethal(b) < lethal(x) \/ (lethal(b) = lethal(x) /\ b <= x)
      BY <2>1
    <3>3. b \in Nat /\ x \in Nat /\ lethal(x) \in Nat /\ lethal(b) \in Nat
      BY <1>2, <1>4
    <3> QED BY <3>1, <3>2, <3>3
  <2> HIDE DEF isLast, tramples
  <2> DEFINE others == killable \ {x}
  <2>3. p[x] = lethal(x) + Power(a) - Spent(base) /\ base[x] = lethal(x) /\ lethal(x) \in Nat
    BY <1>4, <1>10, <1>15, <2>1
  <2>4. \A b \in others : p[b] = base[b]
    BY <1>4, <1>10, <2>2
  <2>5. IsFiniteSet(others) /\ \A b \in others : base[b] \in Int
    BY <1>2, <1>4, FS_Subset
  <2>6. SumOn(p, killable) = p[x] + SumOn(p, others)
    <3>1. \A b \in killable : p[b] \in Int
      BY <1>12
    <3> QED BY <1>2, <3>1, SumTakes
  <2>7. SumOn(base, killable) = base[x] + SumOn(base, others)
    <3>1. \A b \in killable : base[b] \in Int
      BY <1>4
    <3> QED BY <1>2, <3>1, SumTakes
  <2> HIDE DEF others
  <2>8. SumOn(p, others) = SumOn(base, others) /\ SumOn(base, others) \in Int
    BY <2>4, <2>5, SumsEqual, SumTakes
  <2>9. Spent(p) = Power(a)
    BY <1>3, <1>6, <1>9, <1>11, <2>3, <2>6, <2>7, <2>8
  <2> QED BY <1>2, <1>3, <1>10, <1>12, <2>9 DEF PlanFits, p
<1> QED BY <1>13, <1>14, <1>15

\* Where not everything can be killed, one after another is, and then one takes what
\* is left.
LEMMA KillInTurnSpends ==
    ASSUME TypeOK, NEW a \in Ours, NEW bs, bs \subseteq Theirs, IsFiniteSet(bs),
           Power(a) < LethalFor(a, bs), NEW p \in KillInTurn(a, bs)
    PROVE  PlanFits(a, bs, p)
<1> DEFINE lethal(b) == CalculateLethalDamage(a, b)
           left(K) == Power(a) - LethalFor(a, K)
           dead == {K \in SUBSET bs : /\ \A b \in K : lethal(b) > 0
                                      /\ left(K) >= 0
                                      /\ \A b \in bs \ K : lethal(b) \notin 1..left(K)}
           tramples == HasKeywordWithEffects(a, "Trample")
           rest(K) == IF left(K) = 0 \/ tramples THEN {} ELSE bs \ K
           kill(K, dump) == [b \in K \cup dump |-> IF b \in K THEN lethal(b) ELSE left(K)]
           plans(K) == IF rest(K) = {} THEN {kill(K, {})} ELSE {kill(K, {b}) : b \in rest(K)}
<1>1. PICK K \in dead : p \in plans(K)
  BY DEF KillInTurn
<1>2. K \subseteq bs /\ K \subseteq Theirs /\ IsFiniteSet(K) /\ left(K) >= 0
  BY FS_Subset
<1>3. Power(a) \in Nat /\ \A b \in K : lethal(b) \in Nat
  <2>1. Power(a) \in Nat
    BY CombatAssumption DEF TypeOK, Power, Creatures
  <2> QED BY <1>2, <2>1, LethalIsNat
<1> HIDE DEF dead
<1>4. CASE rest(K) = {}
  <2>1. p = [b \in K |-> lethal(b)]
    BY <1>1, <1>4
  <2> HIDE DEF lethal
  <2>2. DOMAIN p = K /\ p = [b \in DOMAIN p |-> p[b]] /\ \A b \in K : p[b] = lethal(b)
    BY <2>1
  <2>3. LethalFor(a, K) = SumOn(p, K) /\ LethalFor(a, K) \in Nat
    BY <1>2, <2>2, LethalAdds DEF lethal
  <2>4. Spent(p) = LethalFor(a, K)
    BY <2>2, <2>3, SumsOfFunctions
  <2>5. left(K) = 0 \/ tramples
    <3> SUFFICES ASSUME bs \subseteq K PROVE FALSE
      BY <1>4
    <3>1. K = bs
      BY <1>2
    <3> QED BY <1>2, <1>3, <2>3, <3>1
  <2> QED BY <1>2, <1>3, <2>2, <2>3, <2>4, <2>5 DEF PlanFits
<1>5. CASE rest(K) # {}
  <2>1. PICK x \in rest(K) : p = kill(K, {x})
    BY <1>1, <1>5
  <2>2. x \in bs /\ x \notin K
    BY <1>5, <2>1
  <2> HIDE DEF rest, lethal
  <2> DEFINE all == K \union {x}
  <2>3. /\ DOMAIN p = all /\ p = [b \in DOMAIN p |-> p[b]]
        /\ \A b \in K : p[b] = lethal(b)
        /\ p[x] = left(K)
    <3> HIDE DEF left
    <3> QED BY <2>1, <2>2
  <2>4. LethalFor(a, K) = SumOn(p, K) /\ LethalFor(a, K) \in Nat
    BY <1>2, <2>3, LethalAdds DEF lethal
  <2>5. \A b \in all : p[b] \in Nat
    BY <1>2, <1>3, <2>3, <2>4
  <2>6. IsFiniteSet(all) /\ x \in all /\ all \ {x} = K
    BY <1>2, <2>2, FS_AddElement
  <2>7. all \subseteq bs
    BY <1>2, <2>2
  <2> HIDE DEF all
  <2>8. SumOn(p, all) = p[x] + SumOn(p, K)
    <3>1. \A b \in all : p[b] \in Int
      BY <2>5
    <3> QED BY <2>6, <3>1, SumTakes
  <2>9. Spent(p) = SumOn(p, all)
    BY <2>3, SumsOfFunctions
  <2>10. Spent(p) = Power(a)
    BY <1>3, <2>3, <2>4, <2>8, <2>9
  <2> QED BY <1>3, <2>3, <2>5, <2>7, <2>10 DEF PlanFits
<1> QED BY <1>4, <1>5

\* What is left for the blockers behind the i-th, and what f has for the blocker before it.
LeftBy(a, f, i) ==
    IF i = 0 THEN Power(a)
    ELSE IF Len(blockedBy[a]) = 1 /\ ~HasKeywordWithEffects(a, "Trample") THEN 0
    ELSE Max({0, f[i - 1] - (IF HasKeywordWithEffects(a, "Deathtouch") THEN 1
                             ELSE Toughness(blockedBy[a][i]))})

\* There is a function that gives what is left behind each blocker.
LEMMA LeftExists ==
    ASSUME NEW a, NEW n \in Nat
    PROVE  \E f : f = [i \in 0..n |-> LeftBy(a, f, i)]
<1> DEFINE Found(k) == \E f : f = [i \in 0..k |-> LeftBy(a, f, i)]
           G == {k \in Nat : Found(k)}
<1>1. Found(0)
  <2> DEFINE f == [i \in 0..0 |-> Power(a)]
  <2>1. \A i \in 0..0 : LeftBy(a, f, i) = Power(a)
    BY DEF LeftBy
  <2>2. f = [i \in 0..0 |-> LeftBy(a, f, i)]
    BY <2>1, Zenon
  <2> QED BY <2>2
<1>2. ASSUME NEW k \in Nat, Found(k) PROVE Found(k + 1)
  <2>1. PICK f : f = [i \in 0..k |-> LeftBy(a, f, i)]
    BY <1>2
  <2> DEFINE g == [i \in 0..k + 1 |-> LeftBy(a, f, i)]
  <2>2. \A i \in 0..k : g[i] = f[i]
    <3>1. \A i \in 0..k : i \in 0..k + 1
      OBVIOUS
    <3> QED BY <2>1, <3>1, Zenon
  <2>3. \A i \in 0..k + 1 : LeftBy(a, f, i) = LeftBy(a, g, i)
    <3> HIDE DEF g
    <3>1. \A i \in 0..k + 1 : i # 0 => i - 1 \in 0..k
      OBVIOUS
    <3> QED BY <2>2, <3>1 DEF LeftBy
  <2>4. g = [i \in 0..k + 1 |-> LeftBy(a, g, i)]
    BY <2>3, Zenon
  <2> QED BY <2>4
<1> HIDE DEF Found
<1>3. \A k \in Nat : k \in G
  <2>1. 0 \in G /\ \A k \in Nat : k \in G => k + 1 \in G
    BY <1>1, <1>2
  <2> HIDE DEF G
  <2> QED BY <2>1, NumberByNumber
<1>4. Found(n)
  BY <1>3
<1> QED BY <1>4 DEF Found

\* Blockers in turn take what is left until nothing is; a single one takes all.
LEMMA InOrderSpends ==
    ASSUME TypeOK, BlocksPaired, NEW a \in DOMAIN blockedBy, blockedBy[a] # <<>>
    PROVE  /\ DOMAIN InOrder(a) = Range(blockedBy[a])
           /\ \A b \in DOMAIN InOrder(a) : InOrder(a)[b] \in Nat
           /\ Spent(InOrder(a)) \in 0..Power(a)
           /\ Len(blockedBy[a]) = 1 /\ ~HasKeywordWithEffects(a, "Trample")
                => Spent(InOrder(a)) = Power(a)
<1> DEFINE bs == blockedBy[a]
           n == Len(bs)
           left == CHOOSE f : f = [i \in 0..n |-> LeftBy(a, f, i)]
           place(b) == CHOOSE i \in DOMAIN bs : bs[i] = b
           p == InOrder(a)
<1>1. a \in Ours /\ bs \in Seq(Theirs) /\ n \in Nat /\ n > 0 /\ DOMAIN bs = 1..n
  BY DEF TypeOK
<1>2. left = [i \in 0..n |-> LeftBy(a, left, i)]
  BY <1>1, LeftExists
<1>3. p = [b \in Range(bs) |-> left[place(b) - 1] - left[place(b)]]
  BY DEF InOrder, LeftBy
<1>4. \A i \in DOMAIN bs : place(bs[i]) = i
  BY DEF BlocksPaired
<1> HIDE DEF left, place, p
<1>5. Power(a) \in Nat /\ \A i \in 1..n : bs[i] \in Theirs /\ Toughness(bs[i]) \in Nat
  BY <1>1, LethalIsNat
<1>6. \A x \in Int : Max({0, x}) \in {0, x} /\ Max({0, x}) >= 0 /\ Max({0, x}) >= x
  <2> SUFFICES ASSUME NEW x \in Int
               PROVE  Max({0, x}) \in {0, x} /\ Max({0, x}) >= 0 /\ Max({0, x}) >= x
    OBVIOUS
  <2>1. \E y \in {0, x} : \A z \in {0, x} : y >= z
    OBVIOUS
  <2> QED BY <2>1 DEF Max
<1>7. left[0] = Power(a) /\ \A i \in 1..n : left[i] = LeftBy(a, left, i)
  <2>1. left[0] = LeftBy(a, left, 0)
    BY <1>1, <1>2
  <2>2. left[0] = Power(a)
    BY <2>1 DEF LeftBy
  <2>3. \A i \in 1..n : i \in 0..n
    BY <1>1
  <2> QED BY <1>2, <2>2, <2>3
<1>8. \A i \in 1..n : left[i - 1] \in 0..Power(a) => left[i] \in 0..left[i - 1]
  <2> SUFFICES ASSUME NEW i \in 1..n, left[i - 1] \in 0..Power(a) PROVE left[i] \in 0..left[i - 1]
    OBVIOUS
  <2>1. left[i] = LeftBy(a, left, i) /\ i # 0
    BY <1>7
  <2>2. CASE n = 1 /\ ~HasKeywordWithEffects(a, "Trample")
    BY <1>5, <2>1, <2>2 DEF LeftBy
  <2>3. CASE ~(n = 1 /\ ~HasKeywordWithEffects(a, "Trample"))
    <3>1. PICK c \in Nat : left[i] = Max({0, left[i - 1] - c})
      BY <1>5, <2>1, <2>3 DEF LeftBy
    <3>2. left[i - 1] - c \in Int
      OBVIOUS
    <3> QED BY <1>5, <1>6, <3>1, <3>2
  <2> QED BY <2>2, <2>3
<1>9. \A k \in 0..n : left[k] \in 0..Power(a)
  <2> DEFINE G == {k \in Nat : k <= n => left[k] \in 0..Power(a)}
  <2>1. 0 \in G
    BY <1>5, <1>7
  <2>2. ASSUME NEW k \in Nat, k \in G PROVE k + 1 \in G
    <3> SUFFICES ASSUME k + 1 <= n PROVE left[k + 1] \in 0..Power(a)
      OBVIOUS
    <3>1. left[k] \in 0..Power(a)
      BY <1>1, <2>2
    <3>2. k + 1 \in 1..n /\ (k + 1) - 1 = k
      BY <1>1
    <3>3. left[k + 1] \in 0..left[k]
      BY <1>8, <3>1, <3>2
    <3> QED BY <1>5, <3>1, <3>3
  <2>3. \A k \in Nat : k \in G
    <3> HIDE DEF G
    <3> QED BY <2>1, <2>2, NumberByNumber
  <2> QED BY <1>1, <2>3
<1>10. \A i \in 1..n : p[bs[i]] = left[i - 1] - left[i] /\ p[bs[i]] \in Nat
  <2> SUFFICES ASSUME NEW i \in 1..n
               PROVE  p[bs[i]] = left[i - 1] - left[i] /\ p[bs[i]] \in Nat
    OBVIOUS
  <2>1. bs[i] \in Range(bs) /\ place(bs[i]) = i
    BY <1>1, <1>4 DEF Range
  <2>2. p[bs[i]] = left[i - 1] - left[i]
    BY <1>3, <2>1
  <2>3. i - 1 \in 0..n /\ i \in 0..n
    BY <1>1
  <2>4. left[i - 1] \in 0..Power(a)
    BY <1>9, <2>3
  <2>5. left[i] \in 0..left[i - 1]
    BY <1>8, <2>4
  <2> QED BY <1>5, <2>2, <2>4, <2>5
<1> DEFINE First(k) == {bs[i] : i \in 1..k}
           G == {k \in Nat : k <= n => /\ IsFiniteSet(First(k))
                                       /\ SumOn(p, First(k)) = Power(a) - left[k]}
<1>11. 0 \in G
  <2>1. First(0) = {}
    OBVIOUS
  <2> HIDE DEF First
  <2>2. SumOn(p, {}) = 0 /\ IsFiniteSet({})
    BY SmallSums, FS_EmptySet
  <2>3. SumOn(p, First(0)) = Power(a) - left[0]
    <3>1. Power(a) - left[0] = 0
      BY <1>5, <1>7
    <3> QED BY <2>1, <2>2, <3>1, Zenon
  <2> QED BY <2>1, <2>2, <2>3
<1>12. ASSUME NEW k \in Nat, k \in G PROVE k + 1 \in G
  <2> SUFFICES ASSUME k + 1 <= n
               PROVE  /\ IsFiniteSet(First(k + 1))
                      /\ SumOn(p, First(k + 1)) = Power(a) - left[k + 1]
    OBVIOUS
  <2>1. IsFiniteSet(First(k)) /\ SumOn(p, First(k)) = Power(a) - left[k]
    BY <1>1, <1>12
  <2>2. k + 1 \in 1..n /\ (k + 1) - 1 = k /\ k \in 0..n /\ k + 1 \in 0..n
    BY <1>1
  <2> DEFINE x == bs[k + 1]
             all == First(k + 1)
  <2>3. p[x] = left[k] - left[k + 1]
    BY <1>10, <2>2
  <2>4. all = First(k) \union {x}
    <3>1. \A i : i \in 1..k + 1 <=> i \in 1..k \/ i = k + 1
      OBVIOUS
    <3> QED BY <3>1
  <2>5. x \notin First(k)
    <3>1. \A i \in 1..k : i \in DOMAIN bs /\ k + 1 \in DOMAIN bs /\ i # k + 1
      BY <1>1, <2>2
    <3> QED BY <1>4, <3>1
  <2>6. \A b \in all : p[b] \in Int
    <3>1. \A i \in 1..k + 1 : i \in 1..n
      BY <1>1
    <3> QED BY <1>10, <3>1
  <2> HIDE DEF x, all, First
  <2>7. IsFiniteSet(all) /\ x \in all /\ all \ {x} = First(k)
    BY <2>1, <2>4, <2>5, FS_AddElement
  <2>8. SumOn(p, all) = p[x] + SumOn(p, First(k))
    BY <2>6, <2>7, SumTakes
  <2>9. left[k] \in Int /\ left[k + 1] \in Int
    BY <1>5, <1>9, <2>2
  <2> QED BY <1>5, <2>1, <2>3, <2>7, <2>8, <2>9 DEF all
<1>13. n \in G
  <2> HIDE DEF G
  <2> QED BY <1>1, <1>11, <1>12, NumberByNumber
<1>14. First(n) = Range(bs)
  BY <1>1 DEF Range
<1>15. DOMAIN p = Range(bs)
  BY <1>3
<1>16. Spent(p) = Power(a) - left[n] /\ left[n] \in 0..Power(a)
  <2>1. SumOn(p, First(n)) = Power(a) - left[n]
    BY <1>1, <1>13
  <2>2. Spent(p) = SumOn(p, DOMAIN p)
    BY SumsOfFunctions
  <2>3. n \in 0..n
    BY <1>1
  <2> HIDE DEF First
  <2> QED BY <1>9, <1>14, <1>15, <2>1, <2>2, <2>3
<1>17. \A b \in DOMAIN p : p[b] \in Nat
  BY <1>1, <1>10, <1>15 DEF Range
<1>18. ASSUME n = 1, ~HasKeywordWithEffects(a, "Trample") PROVE left[n] = 0
  <2>1. left[n] = LeftBy(a, left, n)
    BY <1>1, <1>7
  <2> QED BY <1>1, <1>18, <2>1 DEF LeftBy
<1> HIDE DEF First, G
<1> QED BY <1>5, <1>15, <1>16, <1>17, <1>18 DEF p

\* The plans of an attacker fit its blockers.
LEMMA PlansFit ==
    ASSUME TypeOK, NEW a \in DOMAIN blockedBy, NEW plan \in SmartDamageAssignment(a)
    PROVE  PlanFits(a, Range(blockedBy[a]), plan)
<1> DEFINE bs == Range(blockedBy[a])
<1>1. a \in Ours /\ blockedBy[a] \in Seq(Theirs)
  BY DEF TypeOK
<1>2. bs \subseteq Theirs /\ IsFiniteSet(bs)
  <2>1. bs \subseteq Theirs
    BY <1>1 DEF Range
  <2> QED BY <2>1, CombatAssumption, FS_Subset
<1>3. LethalFor(a, bs) \in Nat /\ Power(a) \in Nat
  <2>1. Power(a) \in Nat
    BY <1>1, CombatAssumption DEF TypeOK, Power, Creatures
  <2> DEFINE p == [b \in bs |-> CalculateLethalDamage(a, b)]
  <2>2. \A b \in bs : p[b] = CalculateLethalDamage(a, b)
    OBVIOUS
  <2> HIDE DEF p, bs
  <2> QED BY <1>1, <1>2, <2>1, <2>2, LethalAdds
<1>4. \/ Power(a) >= LethalFor(a, bs) /\ plan = KillAll(a, bs)
      \/ ~(Power(a) >= LethalFor(a, bs)) /\ plan \in KillInTurn(a, bs)
  BY Zenon DEF SmartDamageAssignment
<1> HIDE DEF bs
<1>5. CASE Power(a) >= LethalFor(a, bs) /\ plan = KillAll(a, bs)
  BY <1>1, <1>2, <1>5, KillAllSpends DEF bs
<1>6. CASE ~(Power(a) >= LethalFor(a, bs)) /\ plan \in KillInTurn(a, bs)
  <2>1. Power(a) < LethalFor(a, bs)
    BY <1>3, <1>6
  <2> QED BY <1>1, <1>2, <1>6, <2>1, KillInTurnSpends DEF bs
<1> QED BY <1>4, <1>5, <1>6

\* What the attacker a does to its blockers when it strikes with a plan: with an empty
\* one it goes through them in order.
Final(a, plan) == IF plan # <<>> THEN plan ELSE InOrder(a)

\* With a plan or without, a blocked attacker gives its blockers at most its power, and
\* all of it if it does not trample and one of several can be killed.
LEMMA FinalFits ==
    ASSUME TypeOK, BlocksPaired, NEW a, IsBlocked(a), Power(a) > 0, NEW plan, PlanFor(a, plan)
    PROVE  /\ DOMAIN Final(a, plan) \subseteq Range(blockedBy[a])
           /\ \A b \in DOMAIN Final(a, plan) : Final(a, plan)[b] \in Nat
           /\ Spent(Final(a, plan)) \in 0..Power(a)
           /\ \/ Spent(Final(a, plan)) = Power(a)
              \/ HasKeywordWithEffects(a, "Trample")
              \/ /\ Len(blockedBy[a]) > 1
                 /\ \A b \in Range(blockedBy[a]) : HasKeywordWithEffects(b, "Indestructible")
<1>0. a \in DOMAIN blockedBy /\ blockedBy[a] # <<>>
  BY DEF IsBlocked
<1>1. Len(blockedBy[a]) = 1 \/ Len(blockedBy[a]) > 1
  <2>1. blockedBy[a] \in Seq(Theirs)
    BY <1>0 DEF TypeOK
  <2> QED BY <1>0, <2>1
<1>2. CASE plan = <<>>
  <2>1. Final(a, plan) = InOrder(a)
    BY <1>2 DEF Final
  <2>2. CASE Len(blockedBy[a]) > 1
    <3>1. PlanFits(a, Range(blockedBy[a]), plan)
      BY <1>0, <2>2, PlansFit DEF PlanFor
    <3>2. Spent(plan) = 0
      BY <1>2, SumsOfFunctions, SmallSums
    <3> QED BY <1>0, <2>1, <2>2, <3>1, <3>2, InOrderSpends DEF PlanFits
  <2>3. CASE Len(blockedBy[a]) = 1
    BY <1>0, <2>1, <2>3, InOrderSpends
  <2> QED BY <1>1, <2>2, <2>3, Zenon
<1>3. CASE plan # <<>>
  <2>1. Final(a, plan) = plan /\ Len(blockedBy[a]) > 1
    BY <1>3 DEF Final, PlanFor
  <2>2. PlanFits(a, Range(blockedBy[a]), plan)
    BY <1>0, <2>1, PlansFit DEF PlanFor
  <2>3. DOMAIN plan # {}
    BY <1>3, <2>2, EmptyPlan DEF PlanFits
  <2>4. /\ DOMAIN plan \subseteq Range(blockedBy[a])
        /\ \A b \in DOMAIN plan : plan[b] \in Nat
        /\ Spent(plan) \in 0..Power(a)
        /\ Spent(plan) = Power(a) \/ HasKeywordWithEffects(a, "Trample")
    BY <2>2, <2>3, Zenon DEF PlanFits
  <2> QED BY <2>1, <2>4, Zenon
<1> QED BY <1>2, <1>3

\* An attacker that strikes deals its power, unless nothing it is blocked by can be killed.
LEMMA AttackerDeals ==
    ASSUME TypeOK, BlocksPaired, NEW a \in attackers, Power(a) > 0,
           NEW plan, PlanFor(a, plan), NEW h, {e \in h : e.src = a} = AttackerHits(a, plan)
    PROVE  \/ DealtBy(h, a) = Power(a)
           \/ /\ IsBlocked(a) /\ Len(blockedBy[a]) > 1
              /\ DealtBy(h, a) <= Power(a)
              /\ \A b \in Range(blockedBy[a]) : HasKeywordWithEffects(b, "Indestructible")
<1> DEFINE of == AttackerHits(a, plan)
           g == [e \in of |-> e.n]
<1>1. DealtBy(h, a) = SumOn(g, of)
  <2>1. DealtBy(h, a) = SumOn([e \in {d \in h : d.src = a} |-> e.n], {d \in h : d.src = a})
    BY SumsOfFunctions
  <2> QED BY <2>1
<1>2. Power(a) \in Nat
  BY CombatAssumption DEF TypeOK, Power, Creatures
<1>3. CASE ~IsBlocked(a)
  <2> DEFINE e == Hit(a, Defender, Power(a))
  <2>1. of = {e} /\ e.n = Power(a)
    BY <1>3 DEF AttackerHits, Hit
  <2> HIDE DEF of, e
  <2>2. g[e] = Power(a)
    BY <2>1
  <2> HIDE DEF g
  <2>3. SumOn(g, {e}) = Power(a)
    <3>1. \A x : g[x] \in Int => SumOn(g, {x}) = g[x]
      BY SmallSums, Zenon
    <3>2. g[e] \in Int
      BY <1>2, <2>2
    <3> QED BY <2>2, <3>1, <3>2, Zenon
  <2> QED BY <1>1, <2>1, <2>3
<1>4. CASE IsBlocked(a)
  <2> DEFINE final == Final(a, plan)
             over == Power(a) - Spent(final)
             struck == {b \in DOMAIN final : final[b] > 0}
             hitting == {Hit(a, b, final[b]) : b \in struck}
             extra == Hit(a, Defender, over)
             tramples == HasKeywordWithEffects(a, "Trample")
             bs == Range(blockedBy[a])
  <2>1. a \in DOMAIN blockedBy /\ blockedBy[a] # <<>>
    BY <1>4 DEF IsBlocked
  <2>2. /\ DOMAIN final \subseteq bs
        /\ \A b \in DOMAIN final : final[b] \in Nat
        /\ Spent(final) \in 0..Power(a)
        /\ \/ Spent(final) = Power(a)
           \/ tramples
           \/ Len(blockedBy[a]) > 1 /\ \A b \in bs : HasKeywordWithEffects(b, "Indestructible")
    <3> HIDE DEF final, tramples, bs
    <3> QED BY <1>4, FinalFits DEF final, tramples, bs
  <2>3. of = hitting \union (IF tramples /\ over > 0 THEN {extra} ELSE {})
    BY <1>4, Zenon DEF AttackerHits, Final
  <2>4. bs \subseteq Theirs /\ IsFiniteSet(DOMAIN final) /\ Defender \notin bs
    <3>1. bs \subseteq Theirs
      BY <2>1 DEF TypeOK, Range
    <3> QED BY <2>2, <3>1, CombatAssumption, FS_Subset DEF Defender
  <2> DEFINE m == [b \in DOMAIN final |-> Hit(a, b, final[b])]
  <2>5. \A i, j \in DOMAIN final : m[i] = m[j] => i = j
    BY DEF Hit
  <2>6. \A b \in DOMAIN final : final[b] > 0 => g[m[b]] = final[b]
    <3> SUFFICES ASSUME NEW b \in DOMAIN final, final[b] > 0 PROVE g[m[b]] = final[b]
      OBVIOUS
    <3>1. m[b] = Hit(a, b, final[b]) /\ m[b].n = final[b]
      BY DEF Hit
    <3>2. m[b] \in hitting
      BY <3>1
    <3> HIDE DEF of, hitting, m
    <3> QED BY <2>3, <3>1, <3>2
  <2>7. {m[b] : b \in struck} = hitting
    OBVIOUS
  <2>8. SumOn(g, hitting) = Spent(final) /\ IsFiniteSet(hitting)
    <3>1. /\ IsFiniteSet({m[b] : b \in struck})
          /\ SumOn(g, {m[b] : b \in struck}) = SumOn(final, DOMAIN final)
      <4> DEFINE D == DOMAIN final
      <4>1. IsFiniteSet(D) /\ \A b \in D : final[b] \in Nat
        BY <2>2, <2>4
      <4>2. \A i, j \in D : m[i] = m[j] => i = j
        BY <2>5
      <4>3. \A b \in D : final[b] > 0 => g[m[b]] = final[b]
        BY <2>6
      <4>4. struck = {b \in D : final[b] > 0}
        OBVIOUS
      <4> HIDE DEF g, m, final, D, struck
      <4>5. /\ IsFiniteSet({m[i] : i \in {j \in D : final[j] > 0}})
            /\ SumOn(g, {m[i] : i \in {j \in D : final[j] > 0}}) = SumOn(final, D)
        BY <4>1, <4>2, <4>3, SumsMoved
      <4> QED BY <4>4, <4>5, Zenon DEF D
    <3>2. Spent(final) = SumOn(final, DOMAIN final)
      BY SumsOfFunctions
    <3> HIDE DEF g, m, final, hitting
    <3> QED BY <2>7, <3>1, <3>2
  <2>9. CASE ~(tramples /\ over > 0)
    <3>1. of = hitting
      BY <2>3, <2>9
    <3>2. DealtBy(h, a) = Spent(final)
      <4> HIDE DEF g, of, hitting, final
      <4> QED BY <1>1, <2>8, <3>1
    <3>3. tramples => Spent(final) = Power(a)
      <4> HIDE DEF final, tramples
      <4> QED BY <1>2, <2>2, <2>9
    <3> HIDE DEF final, tramples
    <3> QED BY <1>2, <1>4, <2>2, <3>2, <3>3
  <2>10. CASE tramples /\ over > 0
    <3>1. extra \notin hitting /\ extra.n = over
      BY <2>2, <2>4 DEF Hit
    <3>2. of = hitting \union {extra}
      BY <2>3, <2>10
    <3>3. over \in Int /\ g[extra] = over
      <4>1. extra \in of
        BY <3>2
      <4> HIDE DEF of, hitting, extra, final
      <4> QED BY <1>2, <2>2, <3>1, <4>1
    <3>4. \A e \in of : g[e] \in Int
      <4> SUFFICES ASSUME NEW e \in of PROVE e.n \in Int
        OBVIOUS
      <4>1. CASE e = extra
        BY <3>1, <3>3, <4>1
      <4>2. CASE e \in hitting
        <5>1. PICK b \in struck : e = Hit(a, b, final[b])
          BY <4>2
        <5>2. e.n = final[b] /\ b \in DOMAIN final
          BY <5>1 DEF Hit
        <5> HIDE DEF final
        <5> QED BY <2>2, <5>2
      <4> QED BY <3>2, <4>1, <4>2
    <3> HIDE DEF g, of, hitting, extra, final
    <3>5. IsFiniteSet(of) /\ extra \in of /\ of \ {extra} = hitting
      BY <2>8, <3>1, <3>2, FS_AddElement
    <3>6. SumOn(g, of) = over + Spent(final)
      BY <2>8, <3>3, <3>4, <3>5, SumTakes
    <3> QED BY <1>1, <1>2, <2>2, <3>6
  <2> QED BY <2>9, <2>10
<1> QED BY <1>3, <1>4

\* In a damage step an attacker that strikes deals its power, unless nothing it is
\* blocked by can be killed, and every other one nothing; a blocker deals its power or
\* nothing (actions/combat.rs assign_combat_damage_planned, smart_damage_assignment).
THEOREM PowerIsDealt == Spec => FullPowerDealt
<1>1. CombatInv /\ [Next]_vars =>
        \A step \in {"first", "normal"} : StepTaken(step) =>
          /\ \A a \in Ours :
               \/ DealtBy(hits'[step], a) = IF a \in attackers \cap Striking(step) THEN Power(a) ELSE 0
               \/ /\ IsBlocked(a) /\ Len(blockedBy[a]) > 1
                  /\ DealtBy(hits'[step], a) <= Power(a)
                  /\ \A b \in Range(blockedBy[a]) : HasKeywordWithEffects(b, "Indestructible")
          /\ \A b \in Theirs :
               DealtBy(hits'[step], b) \in {0} \cup (IF b \in field THEN {Power(b)} ELSE {})
  <2> SUFFICES ASSUME CombatInv, [Next]_vars, NEW step \in {"first", "normal"}, StepTaken(step)
               PROVE  /\ \A a \in Ours :
                           \/ DealtBy(hits'[step], a)
                                = IF a \in attackers \cap Striking(step) THEN Power(a) ELSE 0
                           \/ /\ IsBlocked(a) /\ Len(blockedBy[a]) > 1
                              /\ DealtBy(hits'[step], a) <= Power(a)
                              /\ \A b \in Range(blockedBy[a]) : HasKeywordWithEffects(b, "Indestructible")
                      /\ \A b \in Theirs :
                           DealtBy(hits'[step], b) \in {0} \cup (IF b \in field THEN {Power(b)} ELSE {})
    OBVIOUS
  <2> DEFINE striking == attackers \cap Striking(step)
             h == hits'[step]
  <2>1. TypeOK /\ BlocksPaired
    BY DEF CombatInv
  <2>2. PICK plan :
          /\ \A a \in striking : PlanFor(a, plan[a])
          /\ h = UNION {AttackerHits(a, plan[a]) \cup BlockerHits(a, step) : a \in striking}
    BY <2>1, DamageTaken
  <2> HIDE DEF h
  <2>3. \A a \in striking : \A e \in AttackerHits(a, plan[a]) : e.src = a
    <3> SUFFICES ASSUME NEW a \in striking, NEW e \in AttackerHits(a, plan[a]) PROVE e.src = a
      OBVIOUS
    <3>1. plan[a] # <<>> => plan[a] \in SmartDamageAssignment(a)
      BY <2>2, Zenon DEF PlanFor
    <3> QED BY <3>1, AttackersHit
  <2>4. \A a \in striking : \A e \in BlockerHits(a, step) :
          /\ e.src \in Theirs /\ e.src \in Striking(step)
          /\ e.src \in DOMAIN blockers /\ blockers[e.src] = a
          /\ e = Hit(e.src, a, Power(e.src))
    <3> SUFFICES ASSUME NEW a \in striking, NEW e \in BlockerHits(a, step)
                 PROVE  /\ e.src \in Theirs /\ e.src \in Striking(step)
                        /\ e.src \in DOMAIN blockers /\ blockers[e.src] = a
                        /\ e = Hit(e.src, a, Power(e.src))
      OBVIOUS
    <3>1. IsBlocked(a)
      BY DEF BlockerHits
    <3>2. PICK b \in Range(blockedBy[a]) \cap Striking(step) : e = Hit(b, a, Power(b))
      BY <3>1 DEF BlockerHits
    <3>3. e.src = b
      BY <3>2 DEF Hit
    <3>4. a \in DOMAIN blockedBy
      BY <3>1 DEF IsBlocked
    <3>5. b \in Theirs /\ b \in DOMAIN blockers /\ blockers[b] = a
      BY <2>1, <3>4 DEF TypeOK, BlocksPaired, Range
    <3> QED BY <3>2, <3>3, <3>5
  <2>5. Ours \cap Theirs = {} /\ attackers \subseteq Ours
    BY <2>1, CombatAssumption DEF TypeOK
  <2>6. ASSUME NEW a \in Ours
        PROVE  \/ DealtBy(h, a) = IF a \in striking THEN Power(a) ELSE 0
               \/ /\ IsBlocked(a) /\ Len(blockedBy[a]) > 1
                  /\ DealtBy(h, a) <= Power(a)
                  /\ \A b \in Range(blockedBy[a]) : HasKeywordWithEffects(b, "Indestructible")
    <3>1. CASE a \in striking
      <4>1. {e \in h : e.src = a} = AttackerHits(a, plan[a])
        <5> HIDE DEF striking
        <5> QED BY <2>2, <2>3, <2>4, <2>5, <3>1
      <4>2. Power(a) > 0 /\ PlanFor(a, plan[a]) /\ a \in attackers
        BY <2>2, <3>1 DEF Striking
      <4> QED BY <2>1, <3>1, <4>1, <4>2, AttackerDeals
    <3>2. CASE a \notin striking
      <4>1. {e \in h : e.src = a} = {}
        <5> HIDE DEF striking
        <5> QED BY <2>2, <2>3, <2>4, <2>5, <3>2
      <4>2. DealtBy(h, a) = SumOn([e \in {d \in h : d.src = a} |-> e.n], {d \in h : d.src = a})
        BY SumsOfFunctions
      <4>3. DealtBy(h, a) = 0
        BY <4>1, <4>2, SmallSums
      <4> QED BY <3>2, <4>3
    <3> QED BY <3>1, <3>2
  <2>7. ASSUME NEW b \in Theirs
        PROVE  DealtBy(h, b) \in {0} \cup (IF b \in field THEN {Power(b)} ELSE {})
    <3> DEFINE of == {d \in h : d.src = b}
               e == Hit(b, blockers[b], Power(b))
               g == [d \in of |-> d.n]
    <3>1. \A d \in of : d = e /\ b \in field
      <4> SUFFICES ASSUME NEW d \in h, d.src = b PROVE d = e /\ b \in field
        OBVIOUS
      <4>1. PICK a \in striking : d \in AttackerHits(a, plan[a]) \/ d \in BlockerHits(a, step)
        BY <2>2
      <4>2. d \in BlockerHits(a, step)
        BY <2>3, <2>5, <4>1
      <4>3. d = Hit(b, a, Power(b)) /\ blockers[b] = a /\ b \in Striking(step)
        BY <2>4, <4>2
      <4> QED BY <4>3 DEF Striking
    <3>2. DealtBy(h, b) = SumOn(g, of)
      BY SumsOfFunctions
    <3>3. CASE of = {}
      <4> HIDE DEF g, of
      <4> QED BY <3>2, <3>3, SmallSums
    <3>4. CASE of # {}
      <4>1. of = {e} /\ b \in field
        BY <3>1, <3>4
      <4>2. e \in of /\ e.n = Power(b)
        BY <4>1 DEF Hit
      <4>3. g[e] = Power(b)
        BY <4>2
      <4>4. Power(b) \in Int
        BY <2>1, CombatAssumption DEF TypeOK, Power, Creatures
      <4> HIDE DEF g, of, e
      <4>5. \A x : g[x] \in Int => SumOn(g, {x}) = g[x]
        BY SmallSums, Zenon
      <4> QED BY <3>2, <4>1, <4>3, <4>4, <4>5
    <3> QED BY <3>3, <3>4
  <2> QED BY <2>6, <2>7 DEF h
<1> QED BY <1>1, CombatInvariant, PTL DEF Spec, FullPowerDealt
=============================================================================
