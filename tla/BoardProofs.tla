---------------------------- MODULE BoardProofs ----------------------------
(***************************************************************************)
(* Proofs about Board.tla for any cards, owners and effects: no sequence   *)
(* of moves loses, doubles or marks a card; after the pass of state-based  *)
(* actions control has a cause and Equipment is on creatures in play; with *)
(* one source of grants the pass leaves no grant that has ended; and what  *)
(* an Aura raised does not outlast it on the battlefield.                  *)
(***************************************************************************)
EXTENDS Board, SequenceTheorems, FiniteSetTheorems, NaturalsInduction, WellFoundedInduction, TLAPS

-----------------------------------------------------------------------------
(* Induction over the positions of a list.                                 *)

\* A set of numbers that is not empty has a least member.
LEMMA LeastNat ==
    ASSUME NEW T, T \subseteq Nat, T # {}
    PROVE  \E x \in T : \A y \in T : x <= y
<1>1. PICK x \in T : \A y \in T : ~ (<<y, x>> \in OpToRel(<, Nat))
  BY NatLessThanWellFounded, WFMin, Zenon
<1>2. \A y \in T : ~ (y < x)
  BY <1>1 DEF OpToRel
<1> QED BY <1>2

\* What 0 has and every number hands to the next, all numbers have.
LEMMA NumberByNumber ==
    ASSUME NEW G, 0 \in G, \A n \in Nat : n \in G => n + 1 \in G
    PROVE  \A n \in Nat : n \in G
<1>1. SUFFICES ASSUME Nat \ G # {} PROVE FALSE
  OBVIOUS
<1>2. PICK n \in Nat \ G : \A m \in Nat \ G : n <= m
  BY <1>1, LeastNat
<1>3. n - 1 \in Nat /\ ~(n <= n - 1) /\ (n - 1) + 1 = n
  BY <1>2
<1>4. n - 1 \in G
  BY <1>2, <1>3
<1> QED BY <1>2, <1>3, <1>4

\* The last of some positions of a list.
LEMMA MaxOfPositions ==
    ASSUME NEW n \in Nat, NEW t \in SUBSET (1..n), t # {}
    PROVE  Max(t) \in t /\ \A x \in t : x <= Max(t)
<1> DEFINE T == {m \in Nat : \A x \in t : x <= m}
<1>1. n \in T
  OBVIOUS
<1>2. PICK m \in T : \A y \in T : m <= y
  <2> HIDE DEF T
  <2>1. T # {} /\ T \subseteq Nat
    BY <1>1 DEF T
  <2> QED BY <2>1, LeastNat
<1>3. m \in t
  <2> SUFFICES ASSUME m \notin t PROVE FALSE
    OBVIOUS
  <2>1. \A x \in t : x <= m /\ x # m /\ x \in Nat
    BY <1>2
  <2>2. PICK x \in t : TRUE
    OBVIOUS
  <2>3. m - 1 \in Nat /\ \A y \in t : y <= m - 1
    BY <1>2, <2>1, <2>2
  <2>4. m <= m - 1
    BY <1>2, <2>3
  <2> QED BY <1>2, <2>4
<1>4. \A x \in t : m >= x
  BY <1>2
<1>5. Max(t) \in t /\ \A x \in t : Max(t) >= x
  BY <1>3, <1>4 DEF Max
<1>6. \A x \in t : x \in Nat
  OBVIOUS
<1> QED BY <1>5, <1>6

\* Some positions of a list without the last of them.
Earlier(t) == t \ {Max(t)}

\* What no positions have, and every set of positions has when it has it without
\* the last, all positions have.
LEMMA PositionByPosition ==
    ASSUME NEW n \in Nat, NEW G, {} \in G,
           \A t \in SUBSET (1..n) : t # {} /\ Earlier(t) \in G => t \in G
    PROVE  \A t \in SUBSET (1..n) : t \in G
<1> DEFINE Up(m) == \A t \in SUBSET (1..n) : t \subseteq 1..m => t \in G
           H == {m \in Nat : Up(m)}
<1>1. Up(0)
  <2>1. \A t : t \subseteq 1..0 => t = {}
    OBVIOUS
  <2> QED BY <2>1
<1>2. ASSUME NEW m \in Nat, Up(m) PROVE Up(m + 1)
  <2> SUFFICES ASSUME NEW t \in SUBSET (1..n), t \subseteq 1..m + 1 PROVE t \in G
    OBVIOUS
  <2>1. CASE t = {}
    BY <2>1
  <2>2. CASE t # {}
    <3>1. Max(t) \in t /\ \A x \in t : x <= Max(t)
      BY <2>2, MaxOfPositions
    <3>2. \A x \in t : x \in 1..m + 1
      OBVIOUS
    <3>3. \A x \in Earlier(t) : x \in 1..m
      <4> SUFFICES ASSUME NEW x \in Earlier(t) PROVE x \in 1..m
        OBVIOUS
      <4>1. x \in t /\ x # Max(t)
        BY DEF Earlier
      <4>2. x <= Max(t) /\ x \in 1..m + 1 /\ Max(t) \in 1..m + 1
        BY <3>1, <3>2, <4>1
      <4> QED BY <4>1, <4>2
    <3>4. Earlier(t) \in SUBSET (1..n) /\ Earlier(t) \subseteq 1..m
      BY <3>3 DEF Earlier
    <3>5. Earlier(t) \in G
      BY <1>2, <3>4
    <3> QED BY <2>2, <3>5
  <2> QED BY <2>1, <2>2
<1>3. \A m \in Nat : m \in H
  <2>1. 0 \in H /\ \A m \in Nat : m \in H => m + 1 \in H
    <3> HIDE DEF Up
    <3> QED BY <1>1, <1>2
  <2> HIDE DEF H
  <2> QED BY <2>1, NumberByNumber
<1>4. Up(n)
  <2> HIDE DEF Up
  <2> QED BY <1>3
<1> QED BY <1>4

\* One step of a fold whose operator is the function F, and such a fold with the
\* types of its arguments.
StepBy(F, base, list, it, t) ==
    IF t = {} THEN base ELSE F[<<it[Earlier(t)], list[Max(t)]>>]
FoldsBy(F, Y, X, base, list, it) ==
    /\ it[{}] = base
    /\ \A t \in SUBSET DOMAIN list : t # {} =>
         /\ it[Earlier(t)] \in Y /\ list[Max(t)] \in X
         /\ it[t] = F[<<it[Earlier(t)], list[Max(t)]>>]

\* Every function folds over every list.
LEMMA FoldExists ==
    ASSUME NEW Y, NEW X, NEW F \in [Y \X X -> Y], NEW base \in Y, NEW list \in Seq(X)
    PROVE  \E it \in [SUBSET DOMAIN list -> Y] : FoldsBy(F, Y, X, base, list, it)
<1> DEFINE n == Len(list)
           Up(m) == {t \in SUBSET (1..n) : t \subseteq 1..m}
           Found(m) == \E it : it = [t \in Up(m) |-> StepBy(F, base, list, it, t)]
           G == {m \in Nat : Found(m)}
<1>0. n \in Nat /\ DOMAIN list = 1..n
  OBVIOUS
<1> HIDE DEF n
<1>1. Found(0)
  <2>1. \A t \in Up(0) : t = {}
    OBVIOUS
  <2> DEFINE it == [t \in Up(0) |-> base]
  <2>2. \A t \in Up(0) : StepBy(F, base, list, it, t) = base
    BY <2>1, Zenon DEF StepBy
  <2>3. it = [t \in Up(0) |-> StepBy(F, base, list, it, t)]
    <3> HIDE DEF Up
    <3> QED BY <2>2
  <2> QED BY <2>3
<1>2. ASSUME NEW m \in Nat, Found(m) PROVE Found(m + 1)
  <2>1. PICK it : it = [t \in Up(m) |-> StepBy(F, base, list, it, t)]
    BY <1>2
  <2> DEFINE more == [t \in Up(m + 1) |-> StepBy(F, base, list, it, t)]
  <2>2. \A t \in Up(m) : t \in Up(m + 1)
    OBVIOUS
  <2>3. \A t \in Up(m) : more[t] = it[t]
    <3> HIDE DEF Up
    <3> QED BY <2>1, <2>2, Zenon
  <2>4. ASSUME NEW t \in Up(m + 1), t # {} PROVE Earlier(t) \in Up(m)
    <3>1. Max(t) \in t /\ \A x \in t : x <= Max(t)
      BY <1>0, <2>4, MaxOfPositions
    <3>2. \A x \in t : x \in 1..m + 1
      OBVIOUS
    <3>3. \A x \in Earlier(t) : x \in 1..m
      <4> SUFFICES ASSUME NEW x \in Earlier(t) PROVE x \in 1..m
        OBVIOUS
      <4>1. x \in t /\ x # Max(t)
        BY DEF Earlier
      <4>2. x <= Max(t) /\ x \in 1..m + 1 /\ Max(t) \in 1..m + 1
        BY <3>1, <3>2, <4>1
      <4> QED BY <4>1, <4>2
    <3> QED BY <3>3 DEF Earlier
  <2>5. \A t \in Up(m + 1) : StepBy(F, base, list, it, t) = StepBy(F, base, list, more, t)
    <3> HIDE DEF Up, more
    <3> QED BY <2>3, <2>4 DEF StepBy
  <2>6. more = [t \in Up(m + 1) |-> StepBy(F, base, list, more, t)]
    <3> HIDE DEF Up
    <3> QED BY <2>5, Zenon
  <2> QED BY <2>6
<1>3. \A m \in Nat : m \in G
  <2>1. 0 \in G /\ \A m \in Nat : m \in G => m + 1 \in G
    <3> HIDE DEF Found
    <3> QED BY <1>1, <1>2
  <2> HIDE DEF G
  <2> QED BY <2>1, NumberByNumber
<1>4. Found(n)
  <2> HIDE DEF Found
  <2> QED BY <1>0, <1>3
<1>5. Up(n) = SUBSET DOMAIN list
  BY <1>0
<1>6. PICK it : it = [t \in SUBSET DOMAIN list |-> StepBy(F, base, list, it, t)]
  <2> HIDE DEF Up
  <2> QED BY <1>4, <1>5
<1>7. \A t \in SUBSET DOMAIN list : it[t] = StepBy(F, base, list, it, t)
  BY <1>6
<1> DEFINE I == {t \in SUBSET DOMAIN list : it[t] \in Y}
<1>8. {} \in I
  BY <1>7, Zenon DEF StepBy
<1>9. ASSUME NEW t \in SUBSET (1..n), t # {}, Earlier(t) \in I PROVE t \in I
  <2>1. Max(t) \in 1..n
    BY <1>0, <1>9, MaxOfPositions
  <2>2. list[Max(t)] \in X
    BY <1>0, <2>1
  <2>3. <<it[Earlier(t)], list[Max(t)]>> \in Y \X X
    BY <1>9, <2>2
  <2>4. F[<<it[Earlier(t)], list[Max(t)]>>] \in Y
    BY <2>3
  <2>5. it[t] = F[<<it[Earlier(t)], list[Max(t)]>>]
    BY <1>0, <1>7, <1>9 DEF StepBy
  <2> QED BY <1>0, <2>4, <2>5
<1>10. \A t \in SUBSET (1..n) : t \in I
  <2> HIDE DEF I
  <2> QED BY <1>0, <1>8, <1>9, PositionByPosition
<1>11. it \in [SUBSET DOMAIN list -> Y]
  <2>1. \A t \in SUBSET DOMAIN list : StepBy(F, base, list, it, t) \in Y
    BY <1>0, <1>7, <1>10
  <2> QED BY <1>6, <2>1
<1>12. it[{}] = base
  BY <1>7, Zenon DEF StepBy
<1>13. ASSUME NEW t \in SUBSET DOMAIN list, t # {}
       PROVE  /\ it[Earlier(t)] \in Y /\ list[Max(t)] \in X
              /\ it[t] = F[<<it[Earlier(t)], list[Max(t)]>>]
  <2>1. Max(t) \in 1..n
    BY <1>0, <1>13, MaxOfPositions
  <2>2. list[Max(t)] \in X
    BY <1>0, <2>1
  <2>3. it[Earlier(t)] \in Y
    BY <1>11 DEF Earlier
  <2>4. it[t] = F[<<it[Earlier(t)], list[Max(t)]>>]
    BY <1>7, <1>13 DEF StepBy
  <2> QED BY <2>2, <2>3, <2>4
<1> QED BY <1>11, <1>12, <1>13 DEF FoldsBy

\* The values of `it' are in Y where they come from values in Y.
Carries(Y, list, it) ==
    /\ it[{}] \in Y
    /\ \A t \in SUBSET DOMAIN list : t # {} /\ it[Earlier(t)] \in Y => it[t] \in Y

\* Then the last one is.
LEMMA FoldStays ==
    ASSUME NEW X, NEW list \in Seq(X), NEW Y, NEW it, Carries(Y, list, it)
    PROVE  it[DOMAIN list] \in Y
<1> DEFINE n == Len(list)
           G == {t \in SUBSET (1..n) : it[t] \in Y}
<1>1. n \in Nat /\ DOMAIN list = 1..n
  OBVIOUS
<1> HIDE DEF n
<1>2. {} \in G
  BY DEF Carries
<1>3. ASSUME NEW t \in SUBSET (1..n), t # {}, Earlier(t) \in G PROVE t \in G
  BY <1>1, <1>3 DEF Carries
<1>4. \A t \in SUBSET (1..n) : t \in G
  <2> HIDE DEF G
  <2> QED BY <1>1, <1>2, <1>3, PositionByPosition
<1> QED BY <1>1, <1>4

-----------------------------------------------------------------------------
(* What is kept of a list.                                                 *)

\* `it' gives what is kept of the members at every set of positions.
KeptBy(list, S, it) ==
    /\ Kept(list, S) = it[DOMAIN list]
    /\ it[{}] = <<>>
    /\ \A t \in SUBSET DOMAIN list : t # {} =>
         it[t] = IF list[Max(t)] \in S THEN Append(it[Earlier(t)], list[Max(t)])
                 ELSE it[Earlier(t)]

\* There is a function that gives it.
LEMMA KeptFolds ==
    ASSUME NEW X, NEW list \in Seq(X), NEW S
    PROVE  \E it \in [SUBSET DOMAIN list -> Seq(X)] : KeptBy(list, S, it)
<1> DEFINE D == DOMAIN list
           n == Len(list)
           Is(kept) == kept = [i \in 0..n |->
                                IF i = 0 THEN <<>>
                                ELSE IF list[i] \in S THEN Append(kept[i - 1], list[i])
                                ELSE kept[i - 1]]
           F == [p \in Seq(X) \X X |-> IF p[2] \in S THEN Append(p[1], p[2]) ELSE p[1]]
<1>0. n \in Nat /\ D = 1..n
  OBVIOUS
<1>1. Kept(list, S) = (CHOOSE kept : Is(kept))[n]
  BY DEF Kept
<1> HIDE DEF n
<1>2. F \in [Seq(X) \X X -> Seq(X)]
  OBVIOUS
<1>3. <<>> \in Seq(X)
  OBVIOUS
<1>4. PICK it \in [SUBSET D -> Seq(X)] : FoldsBy(F, Seq(X), X, <<>>, list, it)
  <2> HIDE DEF F
  <2> QED BY <1>2, <1>3, FoldExists
<1>6. \A t \in SUBSET D : it[t] = IF t = {} THEN <<>>
                                  ELSE IF list[Max(t)] \in S
                                       THEN Append(it[t \ {Max(t)}], list[Max(t)])
                                       ELSE it[t \ {Max(t)}]
  <2> SUFFICES ASSUME NEW t \in SUBSET D
               PROVE  it[t] = IF t = {} THEN <<>>
                              ELSE IF list[Max(t)] \in S
                                   THEN Append(it[t \ {Max(t)}], list[Max(t)])
                                   ELSE it[t \ {Max(t)}]
    OBVIOUS
  <2>2. CASE t = {}
    BY <1>4, <2>2 DEF FoldsBy
  <2>3. CASE t # {}
    <3>1. /\ it[t] = F[<<it[Earlier(t)], list[Max(t)]>>]
          /\ it[Earlier(t)] \in Seq(X) /\ list[Max(t)] \in X
      <4> HIDE DEF F
      <4> QED BY <1>4, <2>3 DEF FoldsBy
    <3>3. <<it[Earlier(t)], list[Max(t)]>> \in Seq(X) \X X
      BY <3>1
    <3>4. it[t] = IF list[Max(t)] \in S THEN Append(it[Earlier(t)], list[Max(t)])
                  ELSE it[Earlier(t)]
      <4> HIDE DEF D
      <4> QED BY <3>1, <3>3
    <3> QED BY <2>3, <3>4 DEF Earlier
  <2> QED BY <2>2, <2>3
<1>7. ASSUME NEW i \in 0..n, i # 0
      PROVE  it[1..i] = IF list[i] \in S THEN Append(it[1..i - 1], list[i]) ELSE it[1..i - 1]
  <2>1. 1..i \in SUBSET (1..n) /\ 1..i # {} /\ i \in 1..i
    <3>1. i \in Nat /\ 1 <= i /\ i <= n
      BY <1>0, <1>7
    <3>2. i \in 1..i /\ \A x \in 1..i : x \in 1..n
      BY <1>0, <3>1
    <3> QED BY <3>2
  <2>2. Max(1..i) \in 1..i /\ \A x \in 1..i : x <= Max(1..i)
    BY <1>0, <2>1, MaxOfPositions
  <2>3. Max(1..i) = i
    BY <1>0, <2>1, <2>2
  <2>4. (1..i) \ {i} = 1..i - 1
    BY <1>0
  <2> HIDE DEF D
  <2> QED BY <1>0, <1>6, <2>1, <2>3, <2>4
<1>8. it[1..0] = <<>>
  <2>1. 1..0 = {} /\ {} \in SUBSET D
    OBVIOUS
  <2> HIDE DEF D
  <2> QED BY <1>6, <2>1
<1> DEFINE kt == [i \in 0..n |-> it[1..i]]
<1>9. Is(kt)
  <2> SUFFICES ASSUME NEW i \in 0..n
               PROVE  kt[i] = IF i = 0 THEN <<>>
                              ELSE IF list[i] \in S THEN Append(kt[i - 1], list[i])
                              ELSE kt[i - 1]
    OBVIOUS
  <2>1. CASE i = 0
    <3>1. kt[0] = it[1..0]
      BY <1>0
    <3> HIDE DEF kt
    <3> QED BY <1>8, <2>1, <3>1
  <2>2. CASE i # 0
    <3>1. kt[i] = it[1..i] /\ kt[i - 1] = it[1..i - 1]
      BY <1>0, <2>2
    <3> HIDE DEF kt
    <3> QED BY <1>7, <2>2, <3>1
  <2> QED BY <2>1, <2>2
<1> DEFINE jt == CHOOSE kept : Is(kept)
<1>10. Is(jt)
  <2> HIDE DEF Is
  <2> QED BY <1>9
<1> HIDE DEF jt
<1>14. \A i \in 0..n : jt[i] = IF i = 0 THEN <<>>
                               ELSE IF list[i] \in S THEN Append(jt[i - 1], list[i])
                               ELSE jt[i - 1]
  BY <1>10
<1> DEFINE G == {i \in Nat : i <= n => jt[i] = it[1..i]}
<1>15. \A i \in Nat : i \in G
  <2>1. 0 \in G
    <3>1. jt[0] = <<>>
      BY <1>0, <1>14
    <3> QED BY <1>8, <3>1
  <2>2. ASSUME NEW i \in Nat, i \in G PROVE i + 1 \in G
    <3> SUFFICES ASSUME i + 1 <= n PROVE jt[i + 1] = it[1..i + 1]
      OBVIOUS
    <3>1. i + 1 \in 0..n /\ i + 1 # 0 /\ (i + 1) - 1 = i
      BY <1>0
    <3>2. jt[i] = it[1..i]
      BY <1>0, <2>2
    <3> QED BY <1>7, <1>14, <3>1, <3>2
  <2> HIDE DEF G
  <2> QED BY <2>1, <2>2, NumberByNumber
<1>11. Kept(list, S) = it[D]
  <2>1. jt[n] = it[1..n]
    BY <1>0, <1>15
  <2> QED BY <1>0, <1>1, <2>1 DEF jt
<1>12. it[{}] = <<>>
  BY <1>6, Zenon
<1>13. \A t \in SUBSET D : t # {} =>
         it[t] = IF list[Max(t)] \in S THEN Append(it[Earlier(t)], list[Max(t)])
                 ELSE it[Earlier(t)]
  <2> HIDE DEF D
  <2> QED BY <1>6 DEF Earlier
<1> QED BY <1>11, <1>12, <1>13 DEF KeptBy

\* A list that has nothing twice.
Once(list) == \A i, j \in DOMAIN list : list[i] = list[j] => i = j

\* What is appended comes last.
LEMMA AppendIs ==
    ASSUME NEW X, NEW list \in Seq(X), NEW e \in X
    PROVE  /\ Append(list, e) \in Seq(X)
           /\ ToSet(Append(list, e)) = ToSet(list) \union {e}
           /\ Once(list) /\ e \notin ToSet(list) => Once(Append(list, e))
           /\ Last(Append(list, e)) = e
<1> DEFINE n == Len(list)
           more == Append(list, e)
<1>1. /\ n \in Nat /\ DOMAIN list = 1..n
      /\ more \in Seq(X) /\ Len(more) = n + 1 /\ DOMAIN more = 1..n + 1
      /\ \A i \in 1..n : more[i] = list[i]
      /\ more[n + 1] = e
  OBVIOUS
<1> HIDE DEF n, more
<1>2. \A i \in 1..n + 1 : i \in 1..n \/ i = n + 1
  BY <1>1
<1>3. ToSet(more) \subseteq ToSet(list) \union {e}
  BY <1>1, <1>2 DEF ToSet
<1>4. \A i \in 1..n : i \in 1..n + 1
  BY <1>1
<1>5. e \in ToSet(more) /\ ToSet(list) \subseteq ToSet(more)
  <2>1. n + 1 \in 1..n + 1
    BY <1>1
  <2> QED BY <1>1, <1>4, <2>1 DEF ToSet
<1>6. Once(list) /\ e \notin ToSet(list) => Once(more)
  <2> SUFFICES ASSUME Once(list), e \notin ToSet(list),
                      NEW i \in 1..n + 1, NEW j \in 1..n + 1, more[i] = more[j]
               PROVE  i = j
    BY <1>1 DEF Once
  <2>1. \A k \in 1..n : list[k] # e
    BY <1>1 DEF ToSet
  <2> QED BY <1>1, <1>2, <2>1 DEF Once
<1>7. Last(more) = e
  BY <1>1 DEF Last
<1> QED BY <1>1, <1>3, <1>5, <1>6, <1>7 DEF more

\* Kept keeps the members in S, and nothing twice that was not there twice.
LEMMA KeptKeeps ==
    ASSUME NEW X, NEW list \in Seq(X), NEW S
    PROVE  /\ Kept(list, S) \in Seq(X)
           /\ ToSet(Kept(list, S)) = ToSet(list) \intersect S
           /\ Once(list) => Once(Kept(list, S))
<1>0. PICK it \in [SUBSET DOMAIN list -> Seq(X)] : KeptBy(list, S, it)
  BY KeptFolds
<1>1. /\ Kept(list, S) = it[DOMAIN list]
      /\ it[{}] = <<>>
      /\ \A t \in SUBSET DOMAIN list : t # {} =>
           it[t] = IF list[Max(t)] \in S THEN Append(it[Earlier(t)], list[Max(t)])
                   ELSE it[Earlier(t)]
  BY <1>0 DEF KeptBy
<1> DEFINE n == Len(list)
           At(t) == {list[i] : i \in t}
           G == {t \in SUBSET (1..n) : /\ ToSet(it[t]) = At(t) \intersect S
                                       /\ Once(list) => Once(it[t])}
<1>2. n \in Nat /\ DOMAIN list = 1..n /\ \A i \in 1..n : list[i] \in X
  OBVIOUS
<1> HIDE DEF n
<1>3. {} \in G
  <2>1. ToSet(<<>>) = {} /\ Once(<<>>)
    BY DEF ToSet, Once
  <2>2. At({}) = {}
    OBVIOUS
  <2> HIDE DEF At
  <2> QED BY <1>1, <2>1, <2>2
<1>4. ASSUME NEW t \in SUBSET (1..n), t # {}, Earlier(t) \in G PROVE t \in G
  <2> DEFINE x == list[Max(t)]
             rest == it[Earlier(t)]
  <2>1. Max(t) \in t
    BY <1>2, <1>4, MaxOfPositions
  <2>2. At(t) = At(Earlier(t)) \union {x}
    BY <2>1 DEF Earlier
  <2>3. Earlier(t) \in SUBSET (1..n) /\ x \in X
    BY <1>2, <2>1 DEF Earlier
  <2>4. rest \in Seq(X) /\ ToSet(rest) = At(Earlier(t)) \intersect S /\ (Once(list) => Once(rest))
    <3> HIDE DEF At
    <3> QED BY <1>1, <1>2, <1>4, <2>3
  <2>5. it[t] = IF x \in S THEN Append(rest, x) ELSE rest
    BY <1>1, <1>2, <1>4
  <2>6. Once(list) => x \notin At(Earlier(t))
    BY <1>2, <2>1 DEF Once, Earlier
  <2> HIDE DEF x, rest, At
  <2>7. ToSet(it[t]) = At(t) \intersect S
    <3>1. CASE x \in S
      <4>1. ToSet(it[t]) = ToSet(rest) \union {x}
        BY <2>3, <2>4, <2>5, <3>1, AppendIs
      <4> QED BY <2>2, <2>4, <3>1, <4>1
    <3>2. CASE x \notin S
      BY <2>2, <2>4, <2>5, <3>2
    <3> QED BY <3>1, <3>2
  <2>8. Once(list) => Once(it[t])
    <3>1. CASE x \in S
      <4>1. Once(rest) /\ x \notin ToSet(rest) => Once(Append(rest, x))
        BY <2>3, <2>4, AppendIs
      <4> QED BY <2>4, <2>5, <2>6, <3>1, <4>1
    <3>2. CASE x \notin S
      BY <2>4, <2>5, <3>2
    <3> QED BY <3>1, <3>2
  <2> QED BY <2>7, <2>8 DEF At
<1>5. \A t \in SUBSET (1..n) : t \in G
  <2> HIDE DEF G
  <2> QED BY <1>2, <1>3, <1>4, PositionByPosition
<1>6. ToSet(list) = At(1..n)
  BY <1>2 DEF ToSet
<1>7. DOMAIN list \in SUBSET (1..n) /\ it[DOMAIN list] \in Seq(X)
  BY <1>1, <1>2
<1> HIDE DEF At
<1> QED BY <1>1, <1>2, <1>5, <1>6, <1>7

\* A list without the first of its members equal to e is still a list of their kind,
\* and has all the others.
LEMMA RemoveFirstIs ==
    ASSUME NEW X, NEW list \in Seq(X), NEW e
    PROVE  /\ RemoveFirst(list, e) \in Seq(X)
           /\ \A x \in ToSet(list) : x # e => x \in ToSet(RemoveFirst(list, e))
<1> DEFINE I == {i \in 1..Len(list) : list[i] = e}
<1>1. CASE \E i \in 1..Len(list) : list[i] = e
  <2>1. I # {} /\ I \subseteq Nat
    BY <1>1
  <2>2. PICK i \in I : \A j \in I : i <= j
    <3> HIDE DEF I
    <3> QED BY <2>1, LeastNat
  <2>3. Min(I) \in I
    <3>1. \E k \in I : \A j \in I : k =< j
      BY <2>2
    <3> HIDE DEF I
    <3> QED BY <3>1 DEF Min
  <2>4. RemoveFirst(list, e) = RemoveAt(list, Min(I))
    BY <1>1, <2>1 DEF RemoveFirst, SelectInSeq
  <2>5. Min(I) \in 1..Len(list)
    BY <2>3
  <2> DEFINE m == Min(I)
  <2> HIDE DEF m
  <2>6. SubSeq(list, 1, m - 1) \in Seq(X) /\ SubSeq(list, m + 1, Len(list)) \in Seq(X)
    <3>1. m \in 1..Len(list)
      BY <2>5 DEF m
    <3>2. \A k \in 1..m - 1 : k \in 1..Len(list)
      BY <3>1
    <3>3. \A k \in m + 1..Len(list) : k \in 1..Len(list)
      BY <3>1
    <3>4. \A k \in 1..Len(list) : list[k] \in X
      OBVIOUS
    <3>5. SubSeq(list, 1, m - 1) \in Seq(X)
      BY <3>1, <3>2, <3>4, SubSeqProperties
    <3>6. SubSeq(list, m + 1, Len(list)) \in Seq(X)
      BY <3>1, <3>3, <3>4, SubSeqProperties
    <3> QED BY <3>5, <3>6
  <2> DEFINE front == SubSeq(list, 1, m - 1)
             back == SubSeq(list, m + 1, Len(list))
  <2>7. RemoveAt(list, m) = front \o back
    BY DEF RemoveAt
  <2>8. list[m] = e /\ m \in 1..Len(list)
    BY <2>3 DEF m
  <2>9. /\ Len(front) = m - 1 /\ \A k \in 1..m - 1 : front[k] = list[k]
        /\ Len(back) = Len(list) - m /\ \A k \in 1..Len(list) - m : back[k] = list[m + k]
    BY <2>8
  <2> HIDE DEF front, back
  <2>10. ASSUME NEW k \in 1..Len(list), list[k] # e
         PROVE  list[k] \in ToSet(front \o back)
    <3>1. /\ Len(front \o back) = Len(list) - 1 /\ DOMAIN (front \o back) = 1..Len(list) - 1
          /\ \A j \in 1..Len(list) - 1 :
               (front \o back)[j] = IF j <= m - 1 THEN front[j] ELSE back[j - (m - 1)]
      <4>1. Len(front) + Len(back) = Len(list) - 1
        BY <2>8, <2>9
      <4>2. front \in Seq(X) /\ back \in Seq(X)
        BY <2>6 DEF front, back
      <4>3. /\ Len(front \o back) = Len(front) + Len(back)
            /\ DOMAIN (front \o back) = 1..Len(front) + Len(back)
            /\ \A j \in 1..Len(front) + Len(back) :
                 (front \o back)[j] = IF j <= Len(front) THEN front[j] ELSE back[j - Len(front)]
        BY <4>2
      <4> QED BY <2>9, <4>1, <4>3
    <3>2. CASE k < m
      <4>1. k \in 1..Len(list) - 1 /\ k <= m - 1 /\ k \in 1..m - 1
        BY <2>8, <3>2
      <4>2. (front \o back)[k] = list[k]
        BY <2>9, <3>1, <4>1
      <4> QED BY <3>1, <4>1, <4>2 DEF ToSet
    <3>3. CASE k > m
      <4>1. /\ k - 1 \in 1..Len(list) - 1 /\ ~(k - 1 <= m - 1) /\ k - m \in 1..Len(list) - m
            /\ (k - 1) - (m - 1) = k - m /\ m + (k - m) = k
        BY <2>8, <3>3
      <4>2. (front \o back)[k - 1] = list[k]
        <5>1. (front \o back)[k - 1] = back[(k - 1) - (m - 1)]
          BY <3>1, <4>1
        <5>2. back[k - m] = list[m + (k - m)]
          BY <2>9, <4>1
        <5> QED BY <4>1, <5>1, <5>2
      <4> QED BY <3>1, <4>1, <4>2 DEF ToSet
    <3>4. k # m
      BY <2>8, <2>10
    <3> QED BY <2>8, <3>2, <3>3, <3>4
  <2>11. \A x \in ToSet(list) : x # e => x \in ToSet(front \o back)
    BY <2>10 DEF ToSet
  <2>12. RemoveFirst(list, e) = front \o back
    BY <2>4, <2>7 DEF m
  <2>13. front \o back \in Seq(X)
    BY <2>6 DEF front, back
  <2> QED BY <2>11, <2>12, <2>13
<1>2. CASE ~ \E i \in 1..Len(list) : list[i] = e
  BY <1>2 DEF RemoveFirst
<1> QED BY <1>1, <1>2

-----------------------------------------------------------------------------
(* The states of the board, and what each of them says of every card.       *)

Zones == Piles \union {"battlefield", "stack"}
CardOrNone == Cards \union {None}

CardStates ==
    [attached : CardOrNone, fromAura : CardOrNone, grant : CardOrNone,
     grantee : Players \union {None}, damage : Nat, counters : Nat, shields : Nat,
     animated : BOOLEAN, faded : BOOLEAN, exiles : BOOLEAN]

\* An Aura on the stack has a target.
Items == {i \in [card : Cards, target : CardOrNone] : i.card \in Auras => i.target \in Cards}

\* A land returns, a creature goes with the Aura that raised it.
Triggers == {t \in [watch : Cards, sacrifice : CardOrNone] :
                IF t.sacrifice = None THEN t.watch \in Lands
                ELSE t.watch \in Auras /\ t.sacrifice \in Creatures}

States ==
    [field : Seq(Cards), piles : [Players -> [Piles -> SUBSET Cards]], stack : Seq(Items),
     ctrl : [Cards -> Players], card : [Cards -> CardStates], delayed : Seq(Triggers),
     mayPlay : SUBSET Cards, aborted : BOOLEAN, taken : SUBSET Cards]

OnStack(s) == {s.stack[i].card : i \in DOMAIN s.stack}

\* A card is somewhere.
Somewhere(s, c) == c \in On(s) \/ c \in OnStack(s) \/ \E z \in Piles : c \in s.piles[Owner[c]][z]

\* Every card but those of S is in one zone, once, and those of S are nowhere.
PlacedBut(s, S) ==
    /\ Once(s.field)
    /\ \A i, j \in DOMAIN s.stack : s.stack[i].card = s.stack[j].card => i = j
    /\ On(s) \intersect OnStack(s) = {}
    /\ \A p \in Players, z \in Piles : \A c \in s.piles[p][z] :
         Owner[c] = p /\ c \notin On(s) /\ c \notin OnStack(s)
    /\ \A p \in Players, y, z \in Piles : \A c \in s.piles[p][y] : c \in s.piles[p][z] => y = z
    /\ \A c \in Cards : c \notin S <=> Somewhere(s, c)

\* Whoever controls another player's card has a reason.
Cause(s, c) == c \in s.taken \/ s.card[c].grant # None \/ s.card[c].fromAura # None

\* What lies outside the battlefield carries nothing; control has a cause; a permanent
\* is lent by another one; only lands are animated.
Unmarked(s) == \A c \in Cards \ On(s) : s.card[c] = Fresh
Explained(s) ==
    \A c \in Cards : /\ s.ctrl[c] # Owner[c] => Cause(s, c)
                     /\ s.card[c].grant \in (Sources \ {c}) \union {None}
                     /\ s.card[c].animated => c \in Lands

GoodStates == {s \in States : PlacedBut(s, {}) /\ Unmarked(s) /\ Explained(s)}

\* The bounds on the constants, one by one.
LEMMA Kinds ==
    /\ Owner \in [Cards -> Players] /\ None \notin Cards /\ IsFiniteSet(Cards)
    /\ Creatures \subseteq Cards /\ Lands \subseteq Cards /\ Auras \subseteq Cards
    /\ Equipment \subseteq Cards /\ Legends \subseteq Cards /\ InHand \subseteq Cards
    /\ Sources \subseteq Cards /\ StealAuras \subseteq Auras
    /\ Auras \intersect Equipment = {} /\ Creatures \intersect (Auras \union Lands) = {}
    /\ Lands \intersect Auras = {} /\ Enduring \subseteq Creatures
<1>1. \A S \in {Creatures, Lands, Auras, Equipment, Legends, InHand} : S \subseteq Cards
  BY BoardAssumption
<1>2. /\ Creatures \subseteq Cards /\ Lands \subseteq Cards /\ Auras \subseteq Cards
      /\ Equipment \subseteq Cards /\ Legends \subseteq Cards /\ InHand \subseteq Cards
  BY <1>1
<1>3. StealAuras \subseteq Auras
  BY DEF Auras
<1> QED BY <1>2, <1>3, BoardAssumption

\* A card as it is after reset_transient_state.
LEMMA FreshIs == Fresh \in CardStates /\ Fresh.shields = 0
BY DEF Fresh, CardStates, CardOrNone

\* The parts of a state have their types.
LEMMA StateIs ==
    ASSUME NEW s \in States
    PROVE  /\ s.field \in Seq(Cards) /\ s.piles \in [Players -> [Piles -> SUBSET Cards]]
           /\ s.stack \in Seq(Items) /\ s.ctrl \in [Cards -> Players]
           /\ s.card \in [Cards -> CardStates] /\ s.delayed \in Seq(Triggers)
           /\ s.mayPlay \in SUBSET Cards /\ s.aborted \in BOOLEAN /\ s.taken \in SUBSET Cards
           /\ On(s) \subseteq Cards /\ OnStack(s) \subseteq Cards
           /\ \A c \in Cards : s.card[c] \in CardStates
<1>1. /\ s.field \in Seq(Cards) /\ s.piles \in [Players -> [Piles -> SUBSET Cards]]
      /\ s.stack \in Seq(Items) /\ s.ctrl \in [Cards -> Players]
      /\ s.card \in [Cards -> CardStates] /\ s.delayed \in Seq(Triggers)
      /\ s.mayPlay \in SUBSET Cards /\ s.aborted \in BOOLEAN /\ s.taken \in SUBSET Cards
  BY DEF States
<1>2. \A i \in DOMAIN s.stack : s.stack[i] \in Items
  BY <1>1
<1>3. On(s) \subseteq Cards
  BY <1>1 DEF On, ToSet
<1>4. OnStack(s) \subseteq Cards
  BY <1>2 DEF OnStack, Items
<1>5. \A c \in Cards : s.card[c] \in CardStates
  BY <1>1
<1> QED BY <1>1, <1>3, <1>4, <1>5

\* Who changes neither a zone nor what the reasons rest on leaves the state good.
LEMMA GoodStays ==
    ASSUME NEW s \in GoodStates, NEW t \in States,
           t.field = s.field, t.stack = s.stack, t.piles = s.piles,
           Unmarked(t), Explained(t)
    PROVE  t \in GoodStates /\ On(t) = On(s) /\ OnStack(t) = OnStack(s)
<1>1. On(t) = On(s) /\ OnStack(t) = OnStack(s)
  BY DEF On, OnStack
<1>2. PlacedBut(s, {})
  BY DEF GoodStates
<1>3. \A c : Somewhere(t, c) <=> Somewhere(s, c)
  BY <1>1 DEF Somewhere
<1>4. PlacedBut(t, {})
  BY <1>1, <1>2, <1>3 DEF PlacedBut
<1> QED BY <1>1, <1>4 DEF GoodStates

\* So does who marks cards on the battlefield and leaves their reasons there.
LEMMA CardsMarked ==
    ASSUME NEW s \in GoodStates, NEW new \in [Cards -> CardStates],
           \A c \in Cards \ On(s) : new[c] = s.card[c],
           \A c \in Cards : new[c].grant = s.card[c].grant /\ new[c].fromAura = s.card[c].fromAura,
           \A c \in Cards : new[c].animated => s.card[c].animated \/ c \in Lands
    PROVE  /\ [s EXCEPT !.card = new] \in GoodStates
           /\ On([s EXCEPT !.card = new]) = On(s)
<1> DEFINE t == [s EXCEPT !.card = new]
<1>1. s \in States /\ Unmarked(s) /\ Explained(s)
  BY DEF GoodStates
<1>2. /\ t \in States /\ t.field = s.field /\ t.stack = s.stack /\ t.piles = s.piles
      /\ t.card = new /\ t.ctrl = s.ctrl /\ t.taken = s.taken
  BY <1>1 DEF States
<1>3. On(t) = On(s)
  BY <1>2 DEF On
<1> HIDE DEF t
<1>4. Unmarked(t)
  BY <1>1, <1>2, <1>3 DEF Unmarked
<1>5. Explained(t)
  BY <1>1, <1>2 DEF Explained, Cause
<1>6. t \in GoodStates
  BY <1>2, <1>4, <1>5, GoodStays
<1> QED BY <1>3, <1>6 DEF t

\* So does who marks one of them.
LEMMA CardMarked ==
    ASSUME NEW s \in GoodStates, NEW c \in On(s), NEW r \in CardStates,
           r.grant = s.card[c].grant, r.fromAura = s.card[c].fromAura,
           r.animated => s.card[c].animated \/ c \in Lands
    PROVE  /\ [s EXCEPT !.card[c] = r] \in GoodStates
           /\ On([s EXCEPT !.card[c] = r]) = On(s)
<1> DEFINE new == [s.card EXCEPT ![c] = r]
<1>1. s \in States /\ c \in Cards /\ s.card \in [Cards -> CardStates]
  BY StateIs DEF GoodStates
<1>2. new \in [Cards -> CardStates]
  BY <1>1
<1>3. \A d \in Cards : d # c => new[d] = s.card[d]
  BY <1>1
<1>4. new[c] = r
  BY <1>1
<1>5. [s EXCEPT !.card[c] = r] = [s EXCEPT !.card = new]
  BY <1>1 DEF States
<1> HIDE DEF new
<1>6. /\ \A d \in Cards \ On(s) : new[d] = s.card[d]
      /\ \A d \in Cards : new[d].grant = s.card[d].grant /\ new[d].fromAura = s.card[d].fromAura
      /\ \A d \in Cards : new[d].animated => s.card[d].animated \/ d \in Lands
  BY <1>3, <1>4
<1>7. [s EXCEPT !.card = new] \in GoodStates /\ On([s EXCEPT !.card = new]) = On(s)
  BY <1>2, <1>6, CardsMarked
<1> QED BY <1>5, <1>7

-----------------------------------------------------------------------------
(* One move, up to the triggers it fires.                                   *)

\* What a move leaves alone.
SameRest(s, t) ==
    /\ t.ctrl = s.ctrl /\ t.card = s.card /\ t.delayed = s.delayed
    /\ t.mayPlay = s.mayPlay /\ t.aborted = s.aborted /\ t.taken = s.taken

\* Where a card is, it is taken from, and then it is nowhere.
LEMMA TakenFromField ==
    ASSUME NEW s \in States, PlacedBut(s, {}), NEW c \in Cards, NEW p \in Players,
           IsIn(s, c, "battlefield", p)
    PROVE  /\ Take(s, c, "battlefield", p) \in States
           /\ PlacedBut(Take(s, c, "battlefield", p), {c})
           /\ On(Take(s, c, "battlefield", p)) = On(s) \ {c}
           /\ SameRest(s, Take(s, c, "battlefield", p))
<1> DEFINE t == Take(s, c, "battlefield", p)
           field == Kept(s.field, On(s) \ {c})
<1>1. t = [s EXCEPT !.field = field]
  BY DEF Take, Piles
<1>2. s.field \in Seq(Cards) /\ Once(s.field)
  BY StateIs DEF PlacedBut
<1>3. /\ field \in Seq(Cards) /\ Once(field)
      /\ ToSet(field) = ToSet(s.field) \intersect (On(s) \ {c})
  BY <1>2, KeptKeeps
<1>4. t \in States
  BY <1>1, <1>3 DEF States
<1>5. /\ t.field = field /\ t.stack = s.stack /\ t.piles = s.piles /\ SameRest(s, t)
  BY <1>1 DEF States, SameRest
<1> HIDE DEF t, field
<1>6. On(t) = On(s) \ {c}
  BY <1>3, <1>5 DEF On
<1>7. OnStack(t) = OnStack(s)
  BY <1>5 DEF OnStack
<1>8. c \in On(s) /\ c \notin OnStack(s) /\ \A z \in Piles : c \notin s.piles[Owner[c]][z]
  <2>1. c \in On(s)
    BY DEF IsIn
  <2>2. Owner[c] \in Players
    BY Kinds
  <2> QED BY <2>1, <2>2 DEF PlacedBut
<1>9. \A d \in Cards : d \notin {c} <=> Somewhere(t, d)
  BY <1>5, <1>6, <1>7, <1>8 DEF Somewhere, PlacedBut
<1>10. PlacedBut(t, {c})
  <2>1. \A d : d \in On(t) => d \in On(s)
    BY <1>6
  <2>2. Once(t.field)
    BY <1>3, <1>5
  <2> QED BY <1>5, <1>7, <1>9, <2>1, <2>2 DEF PlacedBut
<1> QED BY <1>4, <1>5, <1>6, <1>10 DEF t

LEMMA TakenFromStack ==
    ASSUME NEW s \in States, PlacedBut(s, {}), NEW c \in Cards, NEW p \in Players,
           IsIn(s, c, "stack", p)
    PROVE  /\ Take(s, c, "stack", p) \in States
           /\ PlacedBut(Take(s, c, "stack", p), {c})
           /\ On(Take(s, c, "stack", p)) = On(s) \ {c}
           /\ SameRest(s, Take(s, c, "stack", p))
<1> DEFINE t == Take(s, c, "stack", p)
           Others == {e \in ToSet(s.stack) : e.card # c}
           stack == Kept(s.stack, Others)
<1>1. t = [s EXCEPT !.stack = stack]
  BY DEF Take, Piles, States
<1>2. s.stack \in Seq(Items) /\ DOMAIN s.stack = 1..Len(s.stack)
  BY StateIs
<1>3. Once(s.stack)
  BY DEF PlacedBut, Once
<1>4. /\ stack \in Seq(Items) /\ Once(stack)
      /\ ToSet(stack) = ToSet(s.stack) \intersect Others
  <2> HIDE DEF Others
  <2> QED BY <1>2, <1>3, KeptKeeps
<1>5. t \in States
  BY <1>1, <1>4 DEF States
<1>6. /\ t.field = s.field /\ t.stack = stack /\ t.piles = s.piles /\ SameRest(s, t)
  BY <1>1 DEF States, SameRest
<1>7. \A e : e \in ToSet(stack) <=> e \in ToSet(s.stack) /\ e.card # c
  BY <1>4
<1> HIDE DEF t, stack
<1>8. On(t) = On(s)
  BY <1>6 DEF On
<1>9. \A d : d \in OnStack(t) <=> d \in OnStack(s) /\ d # c
  <2>1. \A u, d : d \in OnStack(u) <=> \E e \in ToSet(u.stack) : e.card = d
    BY DEF OnStack, ToSet
  <2> QED BY <1>6, <1>7, <2>1
<1>10. c \in OnStack(s) /\ c \notin On(s) /\ \A z \in Piles : c \notin s.piles[Owner[c]][z]
  <2>1. c \in OnStack(s)
    BY DEF IsIn, OnStack, Piles
  <2>2. Owner[c] \in Players
    BY Kinds
  <2> QED BY <2>1, <2>2 DEF PlacedBut
<1>11. \A d \in Cards : d \notin {c} <=> Somewhere(t, d)
  BY <1>6, <1>8, <1>9, <1>10 DEF Somewhere, PlacedBut
<1>12. \A i, j \in DOMAIN t.stack : t.stack[i].card = t.stack[j].card => i = j
  <2> SUFFICES ASSUME NEW i \in DOMAIN stack, NEW j \in DOMAIN stack,
                      stack[i].card = stack[j].card
               PROVE  i = j
    BY <1>6
  <2>1. stack[i] \in ToSet(s.stack) /\ stack[j] \in ToSet(s.stack)
    BY <1>7 DEF ToSet
  <2>2. stack[i] = stack[j]
    BY <2>1 DEF ToSet, PlacedBut
  <2> QED BY <1>4, <2>2 DEF Once
<1>13. PlacedBut(t, {c})
  BY <1>6, <1>8, <1>9, <1>11, <1>12 DEF PlacedBut
<1>14. On(t) = On(s) \ {c}
  BY <1>8, <1>10
<1> QED BY <1>5, <1>6, <1>13, <1>14 DEF t

LEMMA TakenFromPile ==
    ASSUME NEW s \in States, PlacedBut(s, {}), NEW c \in Cards, NEW from \in Piles,
           NEW p \in Players, IsIn(s, c, from, p)
    PROVE  /\ Take(s, c, from, p) \in States
           /\ PlacedBut(Take(s, c, from, p), {c})
           /\ On(Take(s, c, from, p)) = On(s) \ {c}
           /\ SameRest(s, Take(s, c, from, p))
<1> DEFINE t == Take(s, c, from, p)
           piles == [s.piles EXCEPT ![p][from] = @ \ {c}]
<1>1. t = [s EXCEPT !.piles = piles]
  BY DEF Take, Piles, States
<1>2. s.piles \in [Players -> [Piles -> SUBSET Cards]]
  BY StateIs
<1>3. piles \in [Players -> [Piles -> SUBSET Cards]]
  BY <1>2
<1>4. \A q \in Players, z \in Piles :
        piles[q][z] = IF q = p /\ z = from THEN s.piles[q][z] \ {c} ELSE s.piles[q][z]
  BY <1>2
<1>5. t \in States
  BY <1>1, <1>3 DEF States
<1>6. t.field = s.field /\ t.stack = s.stack /\ t.piles = piles /\ SameRest(s, t)
  BY <1>1 DEF States, SameRest
<1> HIDE DEF t, piles
<1>7. On(t) = On(s) /\ OnStack(t) = OnStack(s)
  BY <1>6 DEF On, OnStack
<1>8. c \in s.piles[p][from]
  BY DEF IsIn, Piles
<1>9. p = Owner[c] /\ c \notin On(s) /\ c \notin OnStack(s)
  BY <1>8 DEF PlacedBut
<1>10. \A z \in Piles : c \in s.piles[p][z] => z = from
  BY <1>8 DEF PlacedBut
<1>11. \A d \in Cards : d \notin {c} <=> Somewhere(t, d)
  <2> SUFFICES ASSUME NEW d \in Cards PROVE d \notin {c} <=> Somewhere(t, d)
    OBVIOUS
  <2>1. Somewhere(s, d)
    BY DEF PlacedBut
  <2>2. Owner[d] \in Players
    BY Kinds
  <2>3. CASE d = c
    BY <1>4, <1>6, <1>7, <1>9, <1>10, <2>3 DEF Somewhere
  <2>4. CASE d # c
    BY <1>4, <1>6, <1>7, <2>1, <2>2, <2>4 DEF Somewhere
  <2> QED BY <2>3, <2>4
<1>12. \A q \in Players, z \in Piles : \A d \in t.piles[q][z] : d \in s.piles[q][z]
  BY <1>4, <1>6
<1>13. PlacedBut(t, {c})
  BY <1>6, <1>7, <1>11, <1>12 DEF PlacedBut
<1>14. On(t) = On(s) \ {c}
  BY <1>7, <1>9
<1> QED BY <1>5, <1>6, <1>13, <1>14 DEF t

\* What is nowhere can be put on the battlefield,
LEMMA PutOnField ==
    ASSUME NEW s \in States, NEW c \in Cards, PlacedBut(s, {c}), NEW p \in Players
    PROVE  /\ Put(s, c, "battlefield", p) \in States
           /\ PlacedBut(Put(s, c, "battlefield", p), {})
           /\ On(Put(s, c, "battlefield", p)) = On(s) \union {c}
           /\ SameRest(s, Put(s, c, "battlefield", p))
<1> DEFINE t == Put(s, c, "battlefield", p)
           field == Append(s.field, c)
<1>1. t = [s EXCEPT !.field = field]
  BY DEF Put, Piles
<1>2. s.field \in Seq(Cards) /\ Once(s.field) /\ ~Somewhere(s, c)
  BY StateIs DEF PlacedBut
<1>3. /\ field \in Seq(Cards) /\ ToSet(field) = ToSet(s.field) \union {c}
      /\ Once(s.field) /\ c \notin ToSet(s.field) => Once(field)
  BY <1>2, AppendIs
<1>4. t \in States
  BY <1>1, <1>3 DEF States
<1>5. t.field = field /\ t.stack = s.stack /\ t.piles = s.piles /\ SameRest(s, t)
  BY <1>1 DEF States, SameRest
<1> HIDE DEF t, field
<1>6. On(t) = On(s) \union {c} /\ OnStack(t) = OnStack(s)
  BY <1>3, <1>5 DEF On, OnStack
<1>7. Once(t.field)
  BY <1>2, <1>3, <1>5 DEF Somewhere, On
<1>8. \A d \in Cards : d \notin {} <=> Somewhere(t, d)
  BY <1>5, <1>6 DEF Somewhere, PlacedBut
<1>9. \A q \in Players, z \in Piles : c \notin s.piles[q][z]
  BY <1>2 DEF PlacedBut, Somewhere
<1>10. PlacedBut(t, {})
  BY <1>2, <1>5, <1>6, <1>7, <1>8, <1>9 DEF PlacedBut, Somewhere
<1> QED BY <1>4, <1>5, <1>6, <1>10 DEF t

\* or in one of its owner's piles.
LEMMA PutInPile ==
    ASSUME NEW s \in States, NEW c \in Cards, PlacedBut(s, {c}), NEW to \in Piles,
           NEW p, p = Owner[c]
    PROVE  /\ Put(s, c, to, p) \in States
           /\ PlacedBut(Put(s, c, to, p), {})
           /\ On(Put(s, c, to, p)) = On(s)
           /\ SameRest(s, Put(s, c, to, p))
<1> DEFINE t == Put(s, c, to, p)
           piles == [s.piles EXCEPT ![p][to] = @ \union {c}]
<1>1. t = [s EXCEPT !.piles = piles]
  BY DEF Put, Piles, States
<1>2. s.piles \in [Players -> [Piles -> SUBSET Cards]] /\ p \in Players
  BY StateIs, Kinds
<1>3. piles \in [Players -> [Piles -> SUBSET Cards]]
  BY <1>2
<1>4. \A q \in Players, z \in Piles :
        piles[q][z] = IF q = p /\ z = to THEN s.piles[q][z] \union {c} ELSE s.piles[q][z]
  BY <1>2
<1>5. t \in States
  BY <1>1, <1>3 DEF States
<1>6. t.field = s.field /\ t.stack = s.stack /\ t.piles = piles /\ SameRest(s, t)
  BY <1>1 DEF States, SameRest
<1> HIDE DEF t, piles
<1>7. On(t) = On(s) /\ OnStack(t) = OnStack(s)
  BY <1>6 DEF On, OnStack
<1>8. ~Somewhere(s, c)
  BY DEF PlacedBut
<1>9. \A q \in Players, z \in Piles : c \notin s.piles[q][z]
  BY <1>8 DEF PlacedBut, Somewhere
<1>10. \A d \in Cards : d \notin {} <=> Somewhere(t, d)
  <2> SUFFICES ASSUME NEW d \in Cards PROVE Somewhere(t, d)
    OBVIOUS
  <2>1. Owner[d] \in Players
    BY Kinds
  <2>2. CASE d = c
    BY <1>2, <1>4, <1>6, <2>2 DEF Somewhere
  <2>3. CASE d # c
    <3>1. Somewhere(s, d)
      BY <2>3 DEF PlacedBut
    <3> QED BY <1>4, <1>6, <1>7, <2>1, <3>1 DEF Somewhere
  <2> QED BY <2>2, <2>3
<1>11. \A q \in Players, z \in Piles : \A d \in t.piles[q][z] :
         d \in s.piles[q][z] \/ (d = c /\ q = p /\ z = to)
  <2> SUFFICES ASSUME NEW q \in Players, NEW z \in Piles, NEW d \in t.piles[q][z]
               PROVE  d \in s.piles[q][z] \/ (d = c /\ q = p /\ z = to)
    OBVIOUS
  <2>1. t.piles[q][z] = IF q = p /\ z = to THEN s.piles[q][z] \union {c} ELSE s.piles[q][z]
    BY <1>4, <1>6
  <2> QED BY <2>1
<1>12. \A q \in Players, z \in Piles : \A d \in t.piles[q][z] :
         Owner[d] = q /\ d \notin On(t) /\ d \notin OnStack(t)
  BY <1>7, <1>8, <1>11 DEF PlacedBut, Somewhere
<1>13. \A q \in Players, y, z \in Piles : \A d \in t.piles[q][y] : d \in t.piles[q][z] => y = z
  BY <1>9, <1>11 DEF PlacedBut
<1>14. PlacedBut(t, {})
  BY <1>6, <1>7, <1>10, <1>12, <1>13 DEF PlacedBut
<1> QED BY <1>5, <1>6, <1>7, <1>14 DEF t

\* Equipment lets go, and nothing else changes.
LEMMA LetGoKeeps ==
    ASSUME NEW s \in GoodStates, NEW c
    PROVE  /\ LetGo(s, c) \in GoodStates /\ On(LetGo(s, c)) = On(s)
           /\ LetGo(s, c).field = s.field /\ LetGo(s, c).stack = s.stack
           /\ LetGo(s, c).piles = s.piles
           /\ LetGo(s, c).ctrl = s.ctrl /\ LetGo(s, c).delayed = s.delayed
           /\ LetGo(s, c).aborted = s.aborted /\ LetGo(s, c).taken = s.taken
<1> DEFINE new == [e \in Cards |->
             IF Creature(s, c) /\ e \in Equipment \intersect On(s) /\ s.card[e].attached = c
             THEN [s.card[e] EXCEPT !.attached = None] ELSE s.card[e]]
<1>1. LetGo(s, c) = [s EXCEPT !.card = new]
  BY DEF LetGo
<1>2. s \in States /\ \A e \in Cards : s.card[e] \in CardStates
  BY StateIs DEF GoodStates
<1>3. ASSUME NEW e \in Cards
      PROVE  /\ [s.card[e] EXCEPT !.attached = None] \in CardStates
             /\ [s.card[e] EXCEPT !.attached = None].grant = s.card[e].grant
             /\ [s.card[e] EXCEPT !.attached = None].fromAura = s.card[e].fromAura
             /\ [s.card[e] EXCEPT !.attached = None].animated = s.card[e].animated
  BY <1>2 DEF CardStates, CardOrNone
<1>4. /\ new \in [Cards -> CardStates]
      /\ \A e \in Cards \ On(s) : new[e] = s.card[e]
      /\ \A e \in Cards : new[e].grant = s.card[e].grant /\ new[e].fromAura = s.card[e].fromAura
      /\ \A e \in Cards : new[e].animated => s.card[e].animated
  BY <1>2, <1>3
<1>5. [s EXCEPT !.card = new] \in GoodStates /\ On([s EXCEPT !.card = new]) = On(s)
  <2> HIDE DEF new
  <2> QED BY <1>4, CardsMarked
<1>6. /\ LetGo(s, c).field = s.field /\ LetGo(s, c).stack = s.stack
      /\ LetGo(s, c).piles = s.piles
      /\ LetGo(s, c).ctrl = s.ctrl /\ LetGo(s, c).delayed = s.delayed
      /\ LetGo(s, c).aborted = s.aborted /\ LetGo(s, c).taken = s.taken
  BY <1>1, <1>2 DEF States
<1> QED BY <1>1, <1>5, <1>6

\* What leaves the battlefield forgets what it was, and remembers why it is
\* controlled by another player.
LEMMA ResetKeeps ==
    ASSUME NEW s \in States, NEW c \in Cards
    PROVE  /\ ResetTransientState(s, c) \in States
           /\ ResetTransientState(s, c).field = s.field
           /\ ResetTransientState(s, c).stack = s.stack
           /\ ResetTransientState(s, c).piles = s.piles
           /\ ResetTransientState(s, c).ctrl = s.ctrl
           /\ ResetTransientState(s, c).delayed = s.delayed
           /\ ResetTransientState(s, c).card[c] = Fresh
           /\ \A d \in Cards : d # c => ResetTransientState(s, c).card[d] = s.card[d]
           /\ s.ctrl[c] # Owner[c] => c \in ResetTransientState(s, c).taken
           /\ s.taken \subseteq ResetTransientState(s, c).taken
<1> DEFINE t == ResetTransientState(s, c)
           new == [s.card EXCEPT ![c] = Fresh]
           more == IF s.ctrl[c] # Owner[c] THEN s.taken \union {c} ELSE s.taken
<1>1. s.card \in [Cards -> CardStates] /\ s.taken \in SUBSET Cards
  BY StateIs
<1>2. new \in [Cards -> CardStates] /\ more \in SUBSET Cards
  BY <1>1, FreshIs
<1>3. t = [s EXCEPT !.card = new, !.taken = more]
  BY <1>1 DEF ResetTransientState, States
<1>4. /\ t \in States /\ t.field = s.field /\ t.stack = s.stack /\ t.piles = s.piles
      /\ t.ctrl = s.ctrl /\ t.delayed = s.delayed /\ t.card = new /\ t.taken = more
  <2> HIDE DEF new, more, t
  <2> QED BY <1>2, <1>3 DEF States
<1>5. new[c] = Fresh /\ \A d \in Cards : d # c => new[d] = s.card[d]
  BY <1>1
<1>6. (s.ctrl[c] # Owner[c] => c \in more) /\ s.taken \subseteq more
  OBVIOUS
<1> HIDE DEF t, new, more
<1> QED BY <1>4, <1>5, <1>6 DEF t

\* What is taken from where it is and put elsewhere is in one place.
LEMMA TakenAndPut ==
    ASSUME NEW s \in States, PlacedBut(s, {}), NEW c \in Cards, NEW from \in Zones,
           NEW to \in Zones \ {"stack"}, NEW p \in Players, to \in Piles => p = Owner[c],
           IsIn(s, c, from, p)
    PROVE  /\ Put(Take(s, c, from, p), c, to, p) \in States
           /\ PlacedBut(Put(Take(s, c, from, p), c, to, p), {})
           /\ On(Put(Take(s, c, from, p), c, to, p)) =
                (On(s) \ {c}) \union IF to = "battlefield" THEN {c} ELSE {}
           /\ SameRest(s, Put(Take(s, c, from, p), c, to, p))
<1> DEFINE t == Take(s, c, from, p)
           u == Put(t, c, to, p)
<1>1. t \in States /\ PlacedBut(t, {c}) /\ On(t) = On(s) \ {c} /\ SameRest(s, t)
  <2>1. CASE from = "battlefield"
    BY <2>1, TakenFromField
  <2>2. CASE from = "stack"
    BY <2>2, TakenFromStack
  <2>3. CASE from \in Piles
    BY <2>3, TakenFromPile
  <2> QED BY <2>1, <2>2, <2>3 DEF Zones
<1> HIDE DEF t
<1>2. /\ u \in States /\ PlacedBut(u, {}) /\ SameRest(t, u)
      /\ On(u) = On(t) \union IF to = "battlefield" THEN {c} ELSE {}
  <2>1. CASE to = "battlefield"
    BY <1>1, <2>1, PutOnField
  <2>2. CASE to \in Piles
    <3>1. to # "battlefield"
      BY <2>2 DEF Piles
    <3>2. u \in States /\ PlacedBut(u, {}) /\ SameRest(t, u) /\ On(u) = On(t)
      BY <1>1, <2>2, PutInPile
    <3> QED BY <3>1, <3>2
  <2> QED BY <2>1, <2>2 DEF Zones
<1>3. SameRest(s, u)
  BY <1>1, <1>2 DEF SameRest
<1> HIDE DEF u
<1>4. On(u) = (On(s) \ {c}) \union IF to = "battlefield" THEN {c} ELSE {}
  BY <1>1, <1>2
<1> QED BY <1>2, <1>3, <1>4 DEF t, u

\* A permission to play a card is of no concern to where cards are.
LEMMA MayPlayKeeps ==
    ASSUME NEW s \in GoodStates, NEW may \in SUBSET Cards
    PROVE  /\ [s EXCEPT !.mayPlay = may] \in GoodStates
           /\ On([s EXCEPT !.mayPlay = may]) = On(s)
           /\ [s EXCEPT !.mayPlay = may].delayed = s.delayed
           /\ [s EXCEPT !.mayPlay = may].card = s.card
<1> DEFINE t == [s EXCEPT !.mayPlay = may]
<1>1. s \in States /\ Unmarked(s) /\ Explained(s)
  BY DEF GoodStates
<1>2. /\ t \in States /\ t.field = s.field /\ t.stack = s.stack /\ t.piles = s.piles
      /\ t.ctrl = s.ctrl /\ t.card = s.card /\ t.taken = s.taken /\ t.delayed = s.delayed
  BY <1>1 DEF States
<1> HIDE DEF t
<1>3. On(t) = On(s)
  BY <1>2 DEF On
<1>4. Unmarked(t) /\ Explained(t)
  BY <1>1, <1>2, <1>3 DEF Unmarked, Explained, Cause
<1>5. t \in GoodStates
  BY <1>2, <1>4, GoodStays
<1> QED BY <1>2, <1>3, <1>5 DEF t

\* A move leaves the state good and takes the card, and no other, from or to the
\* battlefield; elsewhere no card changes.
LEMMA MovedKeeps ==
    ASSUME NEW s \in GoodStates, NEW c \in Cards, NEW from \in Zones,
           NEW to \in Zones \ {"stack"}, NEW p \in Players, to \in Piles => p = Owner[c]
    PROVE  /\ Moved(s, c, from, to, p) \in GoodStates
           /\ On(Moved(s, c, from, to, p)) =
                IF IsIn(s, c, from, p)
                THEN (On(s) \ {c}) \union IF to = "battlefield" THEN {c} ELSE {}
                ELSE On(s)
           /\ Moved(s, c, from, to, p).delayed = s.delayed
           /\ from # "battlefield" => Moved(s, c, from, to, p).card = s.card
<1> DEFINE ready == IF from = "battlefield" THEN LetGo(s, c) ELSE s
           taken == Put(Take(ready, c, from, p), c, to, p)
           reset == IF from = "battlefield" THEN ResetTransientState(taken, c) ELSE taken
           may == IF from = "exile" THEN reset.mayPlay \ {c} ELSE reset.mayPlay
           t == Moved(s, c, from, to, p)
<1>1. t = IF ~IsIn(s, c, from, p) THEN ready ELSE [reset EXCEPT !.mayPlay = may]
  BY DEF Moved
<1>2. /\ ready \in GoodStates /\ On(ready) = On(s)
      /\ ready.field = s.field /\ ready.stack = s.stack /\ ready.piles = s.piles
      /\ ready.delayed = s.delayed /\ (from # "battlefield" => ready = s)
  BY LetGoKeeps
<1> HIDE DEF t, ready, taken, reset, may
<1>3. CASE ~IsIn(s, c, from, p)
  BY <1>1, <1>2, <1>3 DEF t
<1>4. CASE IsIn(s, c, from, p)
  <2>1. ready \in States /\ PlacedBut(ready, {}) /\ Unmarked(ready) /\ Explained(ready)
    BY <1>2 DEF GoodStates
  <2>2. IsIn(ready, c, from, p)
    BY <1>2, <1>4 DEF IsIn
  <2>3. /\ taken \in States /\ PlacedBut(taken, {}) /\ SameRest(ready, taken)
        /\ On(taken) = (On(ready) \ {c}) \union IF to = "battlefield" THEN {c} ELSE {}
    BY <2>1, <2>2, TakenAndPut DEF taken
  <2>4. /\ reset \in States /\ reset.field = taken.field /\ reset.stack = taken.stack
        /\ reset.piles = taken.piles /\ reset.ctrl = taken.ctrl
        /\ \A d \in Cards : d # c => reset.card[d] = taken.card[d]
        /\ taken.taken \subseteq reset.taken /\ reset.delayed = taken.delayed
    BY <2>3, ResetKeeps DEF reset
  <2>5. /\ from = "battlefield" => /\ reset.card[c] = Fresh
                                   /\ taken.ctrl[c] # Owner[c] => c \in reset.taken
        /\ from # "battlefield" => reset = taken
    BY <2>3, ResetKeeps DEF reset
  <2>6. On(reset) = On(taken) /\ OnStack(reset) = OnStack(taken)
    BY <2>4 DEF On, OnStack
  <2>7. PlacedBut(reset, {})
    BY <2>3, <2>4, <2>6 DEF PlacedBut, Somewhere
  <2>8. from # "battlefield" => c \notin On(ready)
    <3>1. CASE from = "stack"
      BY <2>1, <2>2, <3>1 DEF IsIn, OnStack, PlacedBut
    <3>2. CASE from \in Piles
      BY <2>1, <2>2, <3>2 DEF IsIn, Piles, PlacedBut
    <3> QED BY <3>1, <3>2 DEF Zones
  <2>9. Unmarked(reset)
    <3> SUFFICES ASSUME NEW d \in Cards, d \notin On(reset) PROVE reset.card[d] = Fresh
      BY DEF Unmarked
    <3>1. CASE d # c
      BY <2>1, <2>3, <2>4, <2>6, <3>1 DEF Unmarked, SameRest
    <3>2. CASE d = c
      BY <2>1, <2>3, <2>5, <2>8, <3>2 DEF Unmarked, SameRest
    <3> QED BY <3>1, <3>2
  <2>10. Explained(reset)
    <3> SUFFICES ASSUME NEW d \in Cards
                 PROVE  /\ reset.ctrl[d] # Owner[d] => Cause(reset, d)
                        /\ reset.card[d].grant \in (Sources \ {d}) \union {None}
                        /\ reset.card[d].animated => d \in Lands
      BY DEF Explained
    <3>1. /\ reset.ctrl[d] # Owner[d] => Cause(ready, d)
          /\ ready.card[d].grant \in (Sources \ {d}) \union {None}
          /\ ready.card[d].animated => d \in Lands
      BY <2>1, <2>3, <2>4 DEF Explained, SameRest
    <3>2. CASE d # c
      BY <2>3, <2>4, <3>1, <3>2 DEF Cause, SameRest
    <3>3. CASE d = c
      <4>1. Fresh.grant = None /\ ~Fresh.animated
        BY DEF Fresh
      <4> QED BY <2>3, <2>4, <2>5, <3>1, <3>3, <4>1 DEF Cause, SameRest
    <3> QED BY <3>2, <3>3
  <2>11. reset \in GoodStates
    BY <2>4, <2>7, <2>9, <2>10 DEF GoodStates
  <2>12. may \in SUBSET Cards
    BY <2>4, StateIs DEF may
  <2>13. /\ t \in GoodStates /\ On(t) = On(reset) /\ t.delayed = reset.delayed
         /\ t.card = reset.card
    <3>1. t = [reset EXCEPT !.mayPlay = may]
      BY <1>1, <1>4
    <3> QED BY <2>11, <2>12, <3>1, MayPlayKeeps
  <2>14. On(t) = (On(s) \ {c}) \union IF to = "battlefield" THEN {c} ELSE {}
    BY <1>2, <2>3, <2>6, <2>13
  <2>15. t.delayed = s.delayed
    BY <1>2, <2>3, <2>4, <2>13 DEF SameRest
  <2>16. from # "battlefield" => t.card = s.card
    BY <1>2, <2>3, <2>5, <2>13 DEF SameRest
  <2> QED BY <1>4, <2>13, <2>14, <2>15, <2>16 DEF t
<1> QED BY <1>3, <1>4

\* Every card is found in the zone it is in.
LEMMA FindZoneIs ==
    ASSUME NEW s \in GoodStates, NEW c \in Cards
    PROVE  FindZone(s, c) \in Zones /\ IsIn(s, c, FindZone(s, c), Owner[c])
<1>1. PlacedBut(s, {}) /\ Owner[c] \in Players
  BY Kinds DEF GoodStates
<1>2. CASE c \in On(s)
  BY <1>2 DEF FindZone, Zones, IsIn
<1>3. CASE c \notin On(s) /\ IsIn(s, c, "stack", Owner[c])
  BY <1>3 DEF FindZone, Zones
<1>4. CASE c \notin On(s) /\ ~IsIn(s, c, "stack", Owner[c])
  <2>1. c \notin OnStack(s)
    BY <1>4 DEF IsIn, OnStack, Piles
  <2>2. PICK z \in Piles : c \in s.piles[Owner[c]][z]
    BY <1>1, <1>4, <2>1 DEF PlacedBut, Somewhere
  <2>3. FindZone(s, c) = CHOOSE y \in Piles : \E p \in Players : c \in s.piles[p][y]
    BY <1>4 DEF FindZone
  <2>4. \E y \in Piles : \E p \in Players : c \in s.piles[p][y]
    BY <1>1, <2>2
  <2>5. FindZone(s, c) \in Piles /\ \E p \in Players : c \in s.piles[p][FindZone(s, c)]
    BY <2>3, <2>4
  <2>6. c \in s.piles[Owner[c]][FindZone(s, c)]
    BY <1>1, <2>5 DEF PlacedBut
  <2> QED BY <2>5, <2>6 DEF Zones, IsIn, Piles
<1> QED BY <1>2, <1>3, <1>4

-----------------------------------------------------------------------------
(* Moves with the triggers they fire.                                       *)

\* The triggers that wait are of no concern to where cards are.
LEMMA DelayedKeeps ==
    ASSUME NEW s \in GoodStates, NEW more \in Seq(Triggers)
    PROVE  /\ [s EXCEPT !.delayed = more] \in GoodStates
           /\ On([s EXCEPT !.delayed = more]) = On(s)
<1> DEFINE t == [s EXCEPT !.delayed = more]
<1>1. s \in States /\ Unmarked(s) /\ Explained(s)
  BY DEF GoodStates
<1>2. /\ t \in States /\ t.field = s.field /\ t.stack = s.stack /\ t.piles = s.piles
      /\ t.ctrl = s.ctrl /\ t.card = s.card /\ t.taken = s.taken
  BY <1>1 DEF States
<1> HIDE DEF t
<1>3. On(t) = On(s)
  BY <1>2 DEF On
<1>4. Unmarked(t) /\ Explained(t)
  BY <1>1, <1>2, <1>3 DEF Unmarked, Explained, Cause
<1>5. t \in GoodStates
  BY <1>2, <1>4, GoodStays
<1> QED BY <1>3, <1>5 DEF t

\* The dead go to a pile.
LEMMA DeathDestinationIs ==
    ASSUME NEW s, NEW c
    PROVE  DeathDestination(s, c) \in Piles /\ DeathDestination(s, c) \in Zones \ {"stack"}
BY DEF DeathDestination, Piles, Zones

\* What fires is a list of triggers, and empty unless a card leaves the battlefield.
LEMMA FiresIs ==
    ASSUME NEW s \in GoodStates, NEW c, NEW from, NEW to
    PROVE  /\ Fires(s, c, from, to) \in Seq(Triggers)
           /\ from # "battlefield" => Fires(s, c, from, to) = <<>>
<1> DEFINE S == {t \in ToSet(s.delayed) : /\ t.watch = c
                                          /\ t.sacrifice = None => to \in {"graveyard", "exile"}}
<1>1. s.delayed \in Seq(Triggers)
  BY StateIs DEF GoodStates
<1>2. Fires(s, c, from, to) = IF from # "battlefield" THEN <<>> ELSE Kept(s.delayed, S)
  BY DEF Fires
<1>3. Kept(s.delayed, S) \in Seq(Triggers)
  <2> HIDE DEF S
  <2> QED BY <1>1, KeptKeeps
<1>4. <<>> \in Seq(Triggers)
  OBVIOUS
<1> HIDE DEF S
<1> QED BY <1>2, <1>3, <1>4

\* The move a trigger makes is one that a card can make.
LEMMA FiredMoveIs ==
    ASSUME NEW s \in GoodStates, NEW t \in Triggers, NEW v \in FiredMove(s, t)
    PROVE  /\ v.card \in Cards /\ v.from \in Zones /\ v.to \in Zones \ {"stack"}
           /\ Owner[v.card] \in Players
<1>1. CASE t.sacrifice = None
  <2>1. t.watch \in Cards
    BY DEF Triggers
  <2>2. v = [card |-> t.watch, from |-> FindZone(s, t.watch), to |-> "battlefield"]
    BY <1>1 DEF FiredMove
  <2>3. FindZone(s, t.watch) \in Zones
    BY <2>1, FindZoneIs
  <2>4. "battlefield" \in Zones \ {"stack"}
    BY DEF Zones
  <2> QED BY <2>1, <2>2, <2>3, <2>4, Kinds
<1>2. CASE t.sacrifice # None
  <2>1. PICK x \in {t.sacrifice} \intersect On(s) :
          v = [card |-> x, from |-> "battlefield", to |-> DeathDestination(s, x)]
    BY <1>2 DEF FiredMove
  <2>2. x \in Cards
    BY <2>1, StateIs DEF GoodStates
  <2>3. DeathDestination(s, x) \in Zones \ {"stack"} /\ "battlefield" \in Zones
    BY DeathDestinationIs DEF Zones
  <2> QED BY <2>1, <2>2, <2>3, Kinds
<1> QED BY <1>1, <1>2

\* A trigger that fires makes its move.
LEMMA FireMovedKeeps ==
    ASSUME NEW s \in GoodStates, NEW t \in Triggers
    PROVE  Fire(s, t, Moved) \in GoodStates
<1> DEFINE rest == [s EXCEPT !.delayed = RemoveFirst(s.delayed, t)]
           v == CHOOSE v \in FiredMove(rest, t) : TRUE
<1>1. Fire(s, t, Moved) = IF ~Contains(s.delayed, t) THEN s
                      ELSE IF FiredMove(rest, t) = {} THEN rest
                      ELSE Moved(rest, v.card, v.from, v.to, Owner[v.card])
  BY DEF Fire
<1>2. rest \in GoodStates
  <2>1. s.delayed \in Seq(Triggers)
    BY StateIs DEF GoodStates
  <2> QED BY <2>1, RemoveFirstIs, DelayedKeeps
<1> HIDE DEF rest
<1>3. FiredMove(rest, t) # {} => v \in FiredMove(rest, t)
  OBVIOUS
<1> HIDE DEF v
<1>4. FiredMove(rest, t) # {} =>
        /\ v.card \in Cards /\ v.from \in Zones /\ v.to \in Zones \ {"stack"}
        /\ Owner[v.card] \in Players
  BY <1>2, <1>3, FiredMoveIs
<1>5. FiredMove(rest, t) # {} => Moved(rest, v.card, v.from, v.to, Owner[v.card]) \in GoodStates
  BY <1>2, <1>4, MovedKeeps
<1> QED BY <1>1, <1>2, <1>5

\* What one such trigger preserves, any number of them do, one after the other.
LEMMA FireMovedEach ==
    ASSUME NEW Y, NEW s \in Y, NEW X, NEW list \in Seq(X),
           \A a \in Y, x \in X : Fire(a, x, Moved) \in Y
    PROVE  /\ FoldLeft(LAMBDA a, t : Fire(a, t, Moved), s, list) \in Y
           /\ list = <<>> => FoldLeft(LAMBDA a, t : Fire(a, t, Moved), s, list) = s
<1> DEFINE Is(it) == it = [t \in SUBSET DOMAIN list |->
                             IF t = {} THEN s
                             ELSE Fire(it[t \ {Max(t)}], list[Max(t)], Moved)]
           F == [x \in Y \X X |-> Fire(x[1], x[2], Moved)]
           it == CHOOSE kt : Is(kt)
<1>1. FoldLeft(LAMBDA a, t : Fire(a, t, Moved), s, list) = it[DOMAIN list]
  BY DEF FoldLeft, MapThenFoldSet
<1>2. \A a \in Y, x \in X : Fire(a, x, Moved) \in Y
  OBVIOUS
<1>3. F \in [Y \X X -> Y]
  BY <1>2
<1>4. PICK jt \in [SUBSET DOMAIN list -> Y] : FoldsBy(F, Y, X, s, list, jt)
  <2> HIDE DEF F
  <2> QED BY <1>3, FoldExists
<1>5. \A t \in SUBSET DOMAIN list : t # {} =>
        /\ jt[Earlier(t)] \in Y /\ list[Max(t)] \in X
        /\ jt[t] = F[<<jt[Earlier(t)], list[Max(t)]>>]
  <2> HIDE DEF F
  <2> QED BY <1>4 DEF FoldsBy
<1>6. \A a \in Y, x \in X : F[<<a, x>>] = Fire(a, x, Moved)
  OBVIOUS
<1>7. \A t \in SUBSET DOMAIN list : jt[t] = IF t = {} THEN s
        ELSE Fire(jt[t \ {Max(t)}], list[Max(t)], Moved)
  <2>1. jt[{}] = s
    BY <1>4 DEF FoldsBy
  <2> HIDE DEF F
  <2> QED BY <1>5, <1>6, <2>1 DEF Earlier
<1>8. Is(jt)
  BY <1>7
<1>9. Is(it)
  <2> HIDE DEF Is
  <2> QED BY <1>8
<1> HIDE DEF it
<1>10. \A t \in SUBSET DOMAIN list : it[t] = IF t = {} THEN s
         ELSE Fire(it[t \ {Max(t)}], list[Max(t)], Moved)
  BY <1>9
<1>11. it[{}] = s
  BY <1>10
<1>12. \A t \in SUBSET DOMAIN list : t # {} /\ it[Earlier(t)] \in Y => it[t] \in Y
  BY <1>2, <1>5, <1>10 DEF Earlier
<1>13. Carries(Y, list, it)
  BY <1>11, <1>12 DEF Carries
<1>14. it[DOMAIN list] \in Y
  BY <1>13, FoldStays
<1>15. list = <<>> => DOMAIN list = {}
  OBVIOUS
<1> QED BY <1>1, <1>14, <1>11, <1>15

\* A move with the triggers of its own leaves the state good, and fires nothing unless
\* a card leaves the battlefield.
LEMMA MoveOtherKeeps ==
    ASSUME NEW s \in GoodStates, NEW c \in Cards, NEW from \in Zones,
           NEW to \in Zones \ {"stack"}, NEW p \in Players, to \in Piles => p = Owner[c]
    PROVE  /\ MoveOther(s, c, from, to, p) \in GoodStates
           /\ from # "battlefield" => MoveOther(s, c, from, to, p) = Moved(s, c, from, to, p)
<1> DEFINE m == Moved(s, c, from, to, p)
           list == Fires(m, c, from, to)
<1>1. MoveOther(s, c, from, to, p) =
        IF ~IsIn(s, c, from, p) THEN m ELSE FoldLeft(LAMBDA a, t : Fire(a, t, Moved), m, list)
  BY DEF MoveOther
<1>2. m \in GoodStates
  BY MovedKeeps
<1> HIDE DEF m
<1>3. list \in Seq(Triggers) /\ (from # "battlefield" => list = <<>>)
  BY <1>2, FiresIs
<1> HIDE DEF list
<1>4. /\ FoldLeft(LAMBDA a, t : Fire(a, t, Moved), m, list) \in GoodStates
      /\ list = <<>> => FoldLeft(LAMBDA a, t : Fire(a, t, Moved), m, list) = m
  BY <1>2, <1>3, FireMovedKeeps, FireMovedEach
<1> QED BY <1>1, <1>2, <1>3, <1>4 DEF m

\* The same of a trigger whose move fires triggers,
LEMMA FireOtherKeeps ==
    ASSUME NEW s \in GoodStates, NEW t \in Triggers
    PROVE  Fire(s, t, MoveOther) \in GoodStates
<1> DEFINE rest == [s EXCEPT !.delayed = RemoveFirst(s.delayed, t)]
           v == CHOOSE v \in FiredMove(rest, t) : TRUE
<1>1. Fire(s, t, MoveOther) = IF ~Contains(s.delayed, t) THEN s
                      ELSE IF FiredMove(rest, t) = {} THEN rest
                      ELSE MoveOther(rest, v.card, v.from, v.to, Owner[v.card])
  BY DEF Fire
<1>2. rest \in GoodStates
  <2>1. s.delayed \in Seq(Triggers)
    BY StateIs DEF GoodStates
  <2> QED BY <2>1, RemoveFirstIs, DelayedKeeps
<1> HIDE DEF rest
<1>3. FiredMove(rest, t) # {} => v \in FiredMove(rest, t)
  OBVIOUS
<1> HIDE DEF v
<1>4. FiredMove(rest, t) # {} =>
        /\ v.card \in Cards /\ v.from \in Zones /\ v.to \in Zones \ {"stack"}
        /\ Owner[v.card] \in Players
  BY <1>2, <1>3, FiredMoveIs
<1>5. FiredMove(rest, t) # {} => MoveOther(rest, v.card, v.from, v.to, Owner[v.card]) \in GoodStates
  BY <1>2, <1>4, MoveOtherKeeps
<1> QED BY <1>1, <1>2, <1>5

\* What one of these preserves, any number do; and what the firing of e brings about and
\* the others preserve holds after a list that has e.
LEMMA FireOtherEach ==
    ASSUME NEW Y, NEW s \in Y, NEW X, NEW list \in Seq(X),
           \A a \in Y, x \in X : Fire(a, x, MoveOther) \in Y
    PROVE  /\ FoldLeft(LAMBDA a, t : Fire(a, t, MoveOther), s, list) \in Y
           /\ list = <<>> => FoldLeft(LAMBDA a, t : Fire(a, t, MoveOther), s, list) = s
           /\ \A Z \in SUBSET Y, e \in ToSet(list) :
                (\A a \in Y : Fire(a, e, MoveOther) \in Z) /\ (\A a \in Z, x \in X : Fire(a, x, MoveOther) \in Z)
                  => FoldLeft(LAMBDA a, t : Fire(a, t, MoveOther), s, list) \in Z
<1> DEFINE Is(it) == it = [t \in SUBSET DOMAIN list |->
                             IF t = {} THEN s
                             ELSE Fire(it[t \ {Max(t)}], list[Max(t)], MoveOther)]
           F == [x \in Y \X X |-> Fire(x[1], x[2], MoveOther)]
           it == CHOOSE kt : Is(kt)
<1>1. FoldLeft(LAMBDA a, t : Fire(a, t, MoveOther), s, list) = it[DOMAIN list]
  BY DEF FoldLeft, MapThenFoldSet
<1>2. \A a \in Y, x \in X : Fire(a, x, MoveOther) \in Y
  OBVIOUS
<1>3. F \in [Y \X X -> Y]
  BY <1>2
<1>4. PICK jt \in [SUBSET DOMAIN list -> Y] : FoldsBy(F, Y, X, s, list, jt)
  <2> HIDE DEF F
  <2> QED BY <1>3, FoldExists
<1>5. \A t \in SUBSET DOMAIN list : t # {} =>
        /\ jt[Earlier(t)] \in Y /\ list[Max(t)] \in X
        /\ jt[t] = F[<<jt[Earlier(t)], list[Max(t)]>>]
  <2> HIDE DEF F
  <2> QED BY <1>4 DEF FoldsBy
<1>6. \A a \in Y, x \in X : F[<<a, x>>] = Fire(a, x, MoveOther)
  OBVIOUS
<1>7. \A t \in SUBSET DOMAIN list : jt[t] = IF t = {} THEN s
        ELSE Fire(jt[t \ {Max(t)}], list[Max(t)], MoveOther)
  <2>1. jt[{}] = s
    BY <1>4 DEF FoldsBy
  <2> HIDE DEF F
  <2> QED BY <1>5, <1>6, <2>1 DEF Earlier
<1>8. Is(jt)
  BY <1>7
<1>9. Is(it)
  <2> HIDE DEF Is
  <2> QED BY <1>8
<1> HIDE DEF it
<1>10. \A t \in SUBSET DOMAIN list : it[t] = IF t = {} THEN s
         ELSE Fire(it[t \ {Max(t)}], list[Max(t)], MoveOther)
  BY <1>9
<1>11. it[{}] = s
  BY <1>10
<1>12. \A t \in SUBSET DOMAIN list : t # {} /\ it[Earlier(t)] \in Y => it[t] \in Y
  BY <1>2, <1>5, <1>10 DEF Earlier
<1>13. Carries(Y, list, it)
  BY <1>11, <1>12 DEF Carries
<1>14. it[DOMAIN list] \in Y
  BY <1>13, FoldStays
<1>15. list = <<>> => DOMAIN list = {}
  OBVIOUS
<1>16. ASSUME NEW Z \in SUBSET Y, NEW e \in ToSet(list),
              \A a \in Y : Fire(a, e, MoveOther) \in Z, \A a \in Z, x \in X : Fire(a, x, MoveOther) \in Z
       PROVE  it[DOMAIN list] \in Z
  <2> DEFINE n == Len(list)
             G == {t \in SUBSET (1..n) : it[t] \in Y /\ ((\E i \in t : list[i] = e) => it[t] \in Z)}
  <2>1. n \in Nat /\ DOMAIN list = 1..n
    OBVIOUS
  <2> HIDE DEF n
  <2>2. {} \in G
    BY <1>11
  <2>3. ASSUME NEW t \in SUBSET (1..n), t # {}, Earlier(t) \in G PROVE t \in G
    <3>1. it[t] = Fire(it[Earlier(t)], list[Max(t)], MoveOther) /\ list[Max(t)] \in X
      BY <1>5, <1>10, <2>1, <2>3 DEF Earlier
    <3>2. \A i \in t : i \in Earlier(t) \/ i = Max(t)
      BY DEF Earlier
    <3>3. it[Earlier(t)] \in Y /\ ((\E i \in Earlier(t) : list[i] = e) => it[Earlier(t)] \in Z)
      BY <2>3
    <3> QED BY <1>2, <1>16, <3>1, <3>2, <3>3
  <2>4. \A t \in SUBSET (1..n) : t \in G
    <3> HIDE DEF G
    <3> QED BY <2>1, <2>2, <2>3, PositionByPosition
  <2>5. \E i \in DOMAIN list : list[i] = e
    BY DEF ToSet
  <2> QED BY <2>1, <2>4, <2>5
<1> QED BY <1>1, <1>14, <1>11, <1>15, <1>16

\* and of move_card.
LEMMA MoveCardKeeps ==
    ASSUME NEW s \in GoodStates, NEW c \in Cards, NEW from \in Zones,
           NEW to \in Zones \ {"stack"}, NEW p \in Players, to \in Piles => p = Owner[c]
    PROVE  /\ MoveCard(s, c, from, to, p) \in GoodStates
           /\ from # "battlefield" => MoveCard(s, c, from, to, p) = Moved(s, c, from, to, p)
<1> DEFINE m == Moved(s, c, from, to, p)
           list == Fires(m, c, from, to)
<1>1. MoveCard(s, c, from, to, p) =
        IF ~IsIn(s, c, from, p) THEN m ELSE FoldLeft(LAMBDA a, t : Fire(a, t, MoveOther), m, list)
  BY DEF MoveCard
<1>2. m \in GoodStates
  BY MovedKeeps
<1> HIDE DEF m
<1>3. list \in Seq(Triggers) /\ (from # "battlefield" => list = <<>>)
  BY <1>2, FiresIs
<1> HIDE DEF list
<1>4. /\ FoldLeft(LAMBDA a, t : Fire(a, t, MoveOther), m, list) \in GoodStates
      /\ list = <<>> => FoldLeft(LAMBDA a, t : Fire(a, t, MoveOther), m, list) = m
  BY <1>2, <1>3, FireOtherKeeps, FireOtherEach
<1> QED BY <1>1, <1>2, <1>3, <1>4 DEF m

-----------------------------------------------------------------------------
(* Deaths.                                                                  *)

\* A dying card that returns as an enchantment is on the battlefield when it is marked.
LEMMA CheckDeathTriggersKeeps ==
    ASSUME NEW s \in GoodStates, NEW c \in Cards
    PROVE  CheckDeathTriggers(s, c) \in GoodStates
<1> DEFINE back == MoveCard(s, c, "graveyard", "battlefield", Owner[c])
<1>1. CASE c \notin Enduring \/ c \notin s.piles[Owner[c]]["graveyard"]
  BY <1>1 DEF CheckDeathTriggers, ReturnSelfAsEnchantment
<1>2. CASE c \in Enduring /\ c \in s.piles[Owner[c]]["graveyard"]
  <2>1. CheckDeathTriggers(s, c) = [back EXCEPT !.card[c].faded = TRUE]
    BY <1>2 DEF CheckDeathTriggers, ReturnSelfAsEnchantment
  <2>2. /\ Owner[c] \in Players /\ "graveyard" \in Zones
        /\ "battlefield" \in Zones \ {"stack"} /\ "battlefield" \notin Piles
    BY Kinds DEF Zones, Piles
  <2>3. IsIn(s, c, "graveyard", Owner[c])
    BY <1>2 DEF IsIn
  <2>4. back \in GoodStates /\ back = Moved(s, c, "graveyard", "battlefield", Owner[c])
    BY <2>2, MoveCardKeeps
  <2>5. c \in On(Moved(s, c, "graveyard", "battlefield", Owner[c]))
    BY <2>2, <2>3, MovedKeeps
  <2> HIDE DEF back
  <2>6. c \in On(back) /\ back \in States /\ back.card[c] \in CardStates
    BY <2>4, <2>5, StateIs DEF GoodStates
  <2> DEFINE r == [back.card[c] EXCEPT !.faded = TRUE]
  <2>7. /\ r \in CardStates /\ r.grant = back.card[c].grant /\ r.fromAura = back.card[c].fromAura
        /\ r.animated = back.card[c].animated
    BY <2>6 DEF CardStates
  <2>8. [back EXCEPT !.card[c].faded = TRUE] = [back EXCEPT !.card[c] = r]
    BY <2>6 DEF States
  <2> HIDE DEF r
  <2> QED BY <2>1, <2>4, <2>6, <2>7, <2>8, CardMarked
<1> QED BY <1>1, <1>2

\* A burial is a move.
LEMMA BuryKeeps ==
    ASSUME NEW s \in GoodStates, NEW c \in Cards
    PROVE  Bury(s, c) \in GoodStates
<1>1. /\ Owner[c] \in Players /\ "battlefield" \in Zones
      /\ DeathDestination(s, c) \in Zones \ {"stack"}
  BY Kinds, DeathDestinationIs DEF Zones
<1> QED BY <1>1, MoveCardKeeps DEF Bury

\* A regeneration shield is spent on the battlefield: a card elsewhere has none.
LEMMA DestroyKeeps ==
    ASSUME NEW s \in GoodStates, NEW c \in Cards, NEW no
    PROVE  Destroy(s, c, no) \in GoodStates
<1>1. CASE s.card[c].shields > 0 /\ ~no
  <2>1. /\ s \in States /\ s.card[c] \in CardStates /\ s.card \in [Cards -> CardStates]
        /\ Unmarked(s)
    BY StateIs DEF GoodStates
  <2>2. c \in On(s)
    BY <1>1, <2>1, FreshIs DEF Unmarked
  <2> DEFINE r == [s.card[c] EXCEPT !.shields = s.card[c].shields - 1, !.damage = 0]
  <2>3. /\ r \in CardStates /\ r.grant = s.card[c].grant /\ r.fromAura = s.card[c].fromAura
        /\ r.animated = s.card[c].animated
    <3>1. s.card[c].shields \in Nat
      BY <2>1 DEF CardStates
    <3>2. s.card[c].shields - 1 \in Nat
      BY <1>1, <3>1
    <3> QED BY <2>1, <3>2 DEF CardStates
  <2>4. Destroy(s, c, no) = [s EXCEPT !.card[c] = r]
    BY <1>1, <2>1 DEF Destroy, Of, ApplyRegenerationShield, States, CardStates
  <2> HIDE DEF r
  <2> QED BY <2>2, <2>3, <2>4, CardMarked
<1>2. CASE ~(s.card[c].shields > 0 /\ ~no)
  BY <1>2, BuryKeeps, CheckDeathTriggersKeeps DEF Destroy, Of
<1> QED BY <1>1, <1>2

\* What one burial preserves, any number do, one after the other,
LEMMA BuryEach ==
    ASSUME NEW Y, NEW s \in Y, NEW X, NEW list \in Seq(X),
           \A a \in Y, x \in X : Bury(a, x) \in Y
    PROVE  FoldLeft(Bury, s, list) \in Y
<1> DEFINE Is(it) == it = [t \in SUBSET DOMAIN list |->
                             IF t = {} THEN s
                             ELSE Bury(it[t \ {Max(t)}], list[Max(t)])]
           F == [x \in Y \X X |-> Bury(x[1], x[2])]
           it == CHOOSE kt : Is(kt)
<1>1. FoldLeft(Bury, s, list) = it[DOMAIN list]
  BY DEF FoldLeft, MapThenFoldSet
<1>2. \A a \in Y, x \in X : Bury(a, x) \in Y
  OBVIOUS
<1>3. F \in [Y \X X -> Y]
  BY <1>2
<1>4. PICK jt \in [SUBSET DOMAIN list -> Y] : FoldsBy(F, Y, X, s, list, jt)
  <2> HIDE DEF F
  <2> QED BY <1>3, FoldExists
<1>5. \A t \in SUBSET DOMAIN list : t # {} =>
        /\ jt[Earlier(t)] \in Y /\ list[Max(t)] \in X
        /\ jt[t] = F[<<jt[Earlier(t)], list[Max(t)]>>]
  <2> HIDE DEF F
  <2> QED BY <1>4 DEF FoldsBy
<1>6. \A a \in Y, x \in X : F[<<a, x>>] = Bury(a, x)
  OBVIOUS
<1>7. \A t \in SUBSET DOMAIN list : jt[t] = IF t = {} THEN s
        ELSE Bury(jt[t \ {Max(t)}], list[Max(t)])
  <2>1. jt[{}] = s
    BY <1>4 DEF FoldsBy
  <2> HIDE DEF F
  <2> QED BY <1>5, <1>6, <2>1 DEF Earlier
<1>8. Is(jt)
  BY <1>7
<1>9. Is(it)
  <2> HIDE DEF Is
  <2> QED BY <1>8
<1> HIDE DEF it
<1>10. \A t \in SUBSET DOMAIN list : it[t] = IF t = {} THEN s
         ELSE Bury(it[t \ {Max(t)}], list[Max(t)])
  BY <1>9
<1>11. it[{}] = s
  BY <1>10
<1>12. \A t \in SUBSET DOMAIN list : t # {} /\ it[Earlier(t)] \in Y => it[t] \in Y
  BY <1>2, <1>5, <1>10 DEF Earlier
<1>13. Carries(Y, list, it)
  BY <1>11, <1>12 DEF Carries
<1>14. it[DOMAIN list] \in Y
  BY <1>13, FoldStays
<1> QED BY <1>1, <1>14

\* with the death triggers before each burial,
LEMMA LethalEach ==
    ASSUME NEW Y, NEW s \in Y, NEW X, NEW list \in Seq(X),
           \A a \in Y, x \in X : Bury(CheckDeathTriggers(a, x), x) \in Y
    PROVE  FoldLeft(LAMBDA a, c : Bury(CheckDeathTriggers(a, c), c), s, list) \in Y
<1> DEFINE Is(it) == it = [t \in SUBSET DOMAIN list |->
                             IF t = {} THEN s
                             ELSE Bury(CheckDeathTriggers(it[t \ {Max(t)}], list[Max(t)]), list[Max(t)])]
           F == [x \in Y \X X |-> Bury(CheckDeathTriggers(x[1], x[2]), x[2])]
           it == CHOOSE kt : Is(kt)
<1>1. FoldLeft(LAMBDA a, c : Bury(CheckDeathTriggers(a, c), c), s, list) = it[DOMAIN list]
  BY DEF FoldLeft, MapThenFoldSet
<1>2. \A a \in Y, x \in X : Bury(CheckDeathTriggers(a, x), x) \in Y
  OBVIOUS
<1>3. F \in [Y \X X -> Y]
  BY <1>2
<1>4. PICK jt \in [SUBSET DOMAIN list -> Y] : FoldsBy(F, Y, X, s, list, jt)
  <2> HIDE DEF F
  <2> QED BY <1>3, FoldExists
<1>5. \A t \in SUBSET DOMAIN list : t # {} =>
        /\ jt[Earlier(t)] \in Y /\ list[Max(t)] \in X
        /\ jt[t] = F[<<jt[Earlier(t)], list[Max(t)]>>]
  <2> HIDE DEF F
  <2> QED BY <1>4 DEF FoldsBy
<1>6. \A a \in Y, x \in X : F[<<a, x>>] = Bury(CheckDeathTriggers(a, x), x)
  OBVIOUS
<1>7. \A t \in SUBSET DOMAIN list : jt[t] = IF t = {} THEN s
        ELSE Bury(CheckDeathTriggers(jt[t \ {Max(t)}], list[Max(t)]), list[Max(t)])
  <2>1. jt[{}] = s
    BY <1>4 DEF FoldsBy
  <2> HIDE DEF F
  <2> QED BY <1>5, <1>6, <2>1 DEF Earlier
<1>8. Is(jt)
  BY <1>7
<1>9. Is(it)
  <2> HIDE DEF Is
  <2> QED BY <1>8
<1> HIDE DEF it
<1>10. \A t \in SUBSET DOMAIN list : it[t] = IF t = {} THEN s
         ELSE Bury(CheckDeathTriggers(it[t \ {Max(t)}], list[Max(t)]), list[Max(t)])
  BY <1>9
<1>11. it[{}] = s
  BY <1>10
<1>12. \A t \in SUBSET DOMAIN list : t # {} /\ it[Earlier(t)] \in Y => it[t] \in Y
  BY <1>2, <1>5, <1>10 DEF Earlier
<1>13. Carries(Y, list, it)
  BY <1>11, <1>12 DEF Carries
<1>14. it[DOMAIN list] \in Y
  BY <1>13, FoldStays
<1> QED BY <1>1, <1>14

\* or after it.
LEMMA SacrificeEach ==
    ASSUME NEW Y, NEW s \in Y, NEW X, NEW list \in Seq(X),
           \A a \in Y, x \in X : CheckDeathTriggers(Bury(a, x), x) \in Y
    PROVE  FoldLeft(LAMBDA a, c : CheckDeathTriggers(Bury(a, c), c), s, list) \in Y
<1> DEFINE Is(it) == it = [t \in SUBSET DOMAIN list |->
                             IF t = {} THEN s
                             ELSE CheckDeathTriggers(Bury(it[t \ {Max(t)}], list[Max(t)]), list[Max(t)])]
           F == [x \in Y \X X |-> CheckDeathTriggers(Bury(x[1], x[2]), x[2])]
           it == CHOOSE kt : Is(kt)
<1>1. FoldLeft(LAMBDA a, c : CheckDeathTriggers(Bury(a, c), c), s, list) = it[DOMAIN list]
  BY DEF FoldLeft, MapThenFoldSet
<1>2. \A a \in Y, x \in X : CheckDeathTriggers(Bury(a, x), x) \in Y
  OBVIOUS
<1>3. F \in [Y \X X -> Y]
  BY <1>2
<1>4. PICK jt \in [SUBSET DOMAIN list -> Y] : FoldsBy(F, Y, X, s, list, jt)
  <2> HIDE DEF F
  <2> QED BY <1>3, FoldExists
<1>5. \A t \in SUBSET DOMAIN list : t # {} =>
        /\ jt[Earlier(t)] \in Y /\ list[Max(t)] \in X
        /\ jt[t] = F[<<jt[Earlier(t)], list[Max(t)]>>]
  <2> HIDE DEF F
  <2> QED BY <1>4 DEF FoldsBy
<1>6. \A a \in Y, x \in X : F[<<a, x>>] = CheckDeathTriggers(Bury(a, x), x)
  OBVIOUS
<1>7. \A t \in SUBSET DOMAIN list : jt[t] = IF t = {} THEN s
        ELSE CheckDeathTriggers(Bury(jt[t \ {Max(t)}], list[Max(t)]), list[Max(t)])
  <2>1. jt[{}] = s
    BY <1>4 DEF FoldsBy
  <2> HIDE DEF F
  <2> QED BY <1>5, <1>6, <2>1 DEF Earlier
<1>8. Is(jt)
  BY <1>7
<1>9. Is(it)
  <2> HIDE DEF Is
  <2> QED BY <1>8
<1> HIDE DEF it
<1>10. \A t \in SUBSET DOMAIN list : it[t] = IF t = {} THEN s
         ELSE CheckDeathTriggers(Bury(it[t \ {Max(t)}], list[Max(t)]), list[Max(t)])
  BY <1>9
<1>11. it[{}] = s
  BY <1>10
<1>12. \A t \in SUBSET DOMAIN list : t # {} /\ it[Earlier(t)] \in Y => it[t] \in Y
  BY <1>2, <1>5, <1>10 DEF Earlier
<1>13. Carries(Y, list, it)
  BY <1>11, <1>12 DEF Carries
<1>14. it[DOMAIN list] \in Y
  BY <1>13, FoldStays
<1> QED BY <1>1, <1>14

\* What a step picks from the battlefield is a list of cards.
LEMMA PickedFromField ==
    ASSUME NEW s \in GoodStates, NEW S
    PROVE  /\ Kept(s.field, S) \in Seq(Cards)
           /\ ToSet(Kept(s.field, S)) \subseteq On(s) \intersect S
<1>1. s.field \in Seq(Cards)
  BY StateIs DEF GoodStates
<1> QED BY <1>1, KeptKeeps DEF On

\* A player's extra legends are a list of cards.
LEMMA ExtrasAreCards ==
    ASSUME NEW s \in GoodStates, NEW p
    PROVE  ExtraLegends(s, p) \in Seq(Cards)
<1> DEFINE his == Kept(s.field, {c \in On(s) : c \in Legends /\ s.ctrl[c] = p})
<1>1. ExtraLegends(s, p) = IF his = <<>> THEN <<>> ELSE Tail(his)
  BY DEF ExtraLegends
<1>2. his \in Seq(Cards)
  BY PickedFromField
<1> HIDE DEF his
<1>3. his # <<>> => Tail(his) \in Seq(Cards)
  BY <1>2
<1> QED BY <1>1, <1>3

\* What one burial preserves, the legend rule does, player by player.
LEMMA LegendRuleStays ==
    ASSUME NEW Y, NEW s \in Y, s \in GoodStates,
           \A a \in Y, c \in Cards : Bury(a, c) \in Y
    PROVE  CheckLegendaryRule(s) \in Y
<1> DEFINE Is(it) == it = [t \in SUBSET DOMAIN Seats |->
                             IF t = {} THEN s
                             ELSE FoldLeft(Bury, it[t \ {Max(t)}], ExtraLegends(s, Seats[Max(t)]))]
           F == [x \in Y \X Players |-> FoldLeft(Bury, x[1], ExtraLegends(s, x[2]))]
           it == CHOOSE kt : Is(kt)
<1>1. CheckLegendaryRule(s) = it[DOMAIN Seats]
  BY DEF CheckLegendaryRule, FoldLeft, MapThenFoldSet
<1>0. Seats \in Seq(Players)
  BY BoardAssumption
<1>2. \A a \in Y, x \in Players : FoldLeft(Bury, a, ExtraLegends(s, x)) \in Y
  BY ExtrasAreCards, BuryEach
<1>3. F \in [Y \X Players -> Y]
  BY <1>2
<1>4. PICK jt \in [SUBSET DOMAIN Seats -> Y] : FoldsBy(F, Y, Players, s, Seats, jt)
  <2> HIDE DEF F
  <2> QED BY <1>0, <1>3, FoldExists
<1>5. \A t \in SUBSET DOMAIN Seats : t # {} =>
        /\ jt[Earlier(t)] \in Y /\ Seats[Max(t)] \in Players
        /\ jt[t] = F[<<jt[Earlier(t)], Seats[Max(t)]>>]
  <2> HIDE DEF F
  <2> QED BY <1>0, <1>4 DEF FoldsBy
<1>6. \A a \in Y, x \in Players : F[<<a, x>>] = FoldLeft(Bury, a, ExtraLegends(s, x))
  OBVIOUS
<1>7. \A t \in SUBSET DOMAIN Seats : jt[t] = IF t = {} THEN s
        ELSE FoldLeft(Bury, jt[t \ {Max(t)}], ExtraLegends(s, Seats[Max(t)]))
  <2>1. jt[{}] = s
    BY <1>4 DEF FoldsBy
  <2> HIDE DEF F
  <2> QED BY <1>5, <1>6, <2>1 DEF Earlier
<1>8. Is(jt)
  BY <1>7
<1>9. Is(it)
  <2> HIDE DEF Is
  <2> QED BY <1>8
<1> HIDE DEF it
<1>10. \A t \in SUBSET DOMAIN Seats : it[t] = IF t = {} THEN s
         ELSE FoldLeft(Bury, it[t \ {Max(t)}], ExtraLegends(s, Seats[Max(t)]))
  BY <1>9
<1>11. it[{}] = s
  BY <1>10
<1>12. \A t \in SUBSET DOMAIN Seats : t # {} /\ it[Earlier(t)] \in Y => it[t] \in Y
  BY <1>2, <1>5, <1>10 DEF Earlier
<1>13. Carries(Y, Seats, it)
  BY <1>11, <1>12 DEF Carries
<1>14. it[DOMAIN Seats] \in Y
  BY <1>0, <1>13, FoldStays
<1> QED BY <1>1, <1>14

\* What one destruction preserves, the destruction of every creature does.
LEMMA DestroyEach ==
    ASSUME NEW Y, NEW s \in Y, NEW X, NEW no,
           Kept(s.field, {c \in On(s) : Creature(s, c)}) \in Seq(X),
           \A a \in Y, x \in X : Destroy(a, x, no) \in Y
    PROVE  DestroyAll(s, no) \in Y
<1> DEFINE list == Kept(s.field, {c \in On(s) : Creature(s, c)})
           Is(it) == it = [t \in SUBSET DOMAIN list |->
                             IF t = {} THEN s
                             ELSE Destroy(it[t \ {Max(t)}], list[Max(t)], no)]
           F == [x \in Y \X X |-> Destroy(x[1], x[2], no)]
           it == CHOOSE kt : Is(kt)
<1>0. list \in Seq(X)
  OBVIOUS
<1>1. DestroyAll(s, no) = it[DOMAIN list]
  BY DEF DestroyAll, FoldLeft, MapThenFoldSet
<1> HIDE DEF list
<1>2. \A a \in Y, x \in X : Destroy(a, x, no) \in Y
  OBVIOUS
<1>3. F \in [Y \X X -> Y]
  BY <1>2
<1>4. PICK jt \in [SUBSET DOMAIN list -> Y] : FoldsBy(F, Y, X, s, list, jt)
  <2> HIDE DEF F
  <2> QED BY <1>0, <1>3, FoldExists
<1>5. \A t \in SUBSET DOMAIN list : t # {} =>
        /\ jt[Earlier(t)] \in Y /\ list[Max(t)] \in X
        /\ jt[t] = F[<<jt[Earlier(t)], list[Max(t)]>>]
  <2> HIDE DEF F
  <2> QED BY <1>0, <1>4 DEF FoldsBy
<1>6. \A a \in Y, x \in X : F[<<a, x>>] = Destroy(a, x, no)
  OBVIOUS
<1>7. \A t \in SUBSET DOMAIN list : jt[t] = IF t = {} THEN s
        ELSE Destroy(jt[t \ {Max(t)}], list[Max(t)], no)
  <2>1. jt[{}] = s
    BY <1>4 DEF FoldsBy
  <2> HIDE DEF F
  <2> QED BY <1>5, <1>6, <2>1 DEF Earlier
<1>8. Is(jt)
  BY <1>7
<1>9. Is(it)
  <2> HIDE DEF Is
  <2> QED BY <1>8
<1> HIDE DEF it
<1>10. \A t \in SUBSET DOMAIN list : it[t] = IF t = {} THEN s
         ELSE Destroy(it[t \ {Max(t)}], list[Max(t)], no)
  BY <1>9
<1>11. it[{}] = s
  BY <1>10
<1>12. \A t \in SUBSET DOMAIN list : t # {} /\ it[Earlier(t)] \in Y => it[t] \in Y
  BY <1>2, <1>5, <1>10 DEF Earlier
<1>13. Carries(Y, list, it)
  BY <1>11, <1>12 DEF Carries
<1>14. it[DOMAIN list] \in Y
  BY <1>0, <1>13, FoldStays
<1> QED BY <1>1, <1>14

\* The first three checks of the pass bury cards and do nothing else.
LEMMA BurialsKeep ==
    ASSUME NEW s \in GoodStates
    PROVE  /\ CheckLethalDamage(s) \in GoodStates
           /\ CheckLegendaryRule(s) \in GoodStates
           /\ CheckAuraAttachment(s) \in GoodStates
<1>1. CheckLethalDamage(s) \in GoodStates
  <2>1. \A u \in GoodStates, c \in Cards : Bury(CheckDeathTriggers(u, c), c) \in GoodStates
    BY BuryKeeps, CheckDeathTriggersKeeps
  <2> QED BY <2>1, PickedFromField, LethalEach DEF CheckLethalDamage
<1>2. CheckLegendaryRule(s) \in GoodStates
  BY BuryKeeps, LegendRuleStays
<1>3. CheckAuraAttachment(s) \in GoodStates
  BY BuryKeeps, PickedFromField, BuryEach DEF CheckAuraAttachment
<1> QED BY <1>1, <1>2, <1>3

-----------------------------------------------------------------------------
(* The second half of the pass: control and Equipment.                      *)

\* The Auras that a card of the battlefield is controlled by are on it.
AurasAgree(s) ==
    \A c \in On(s) : s.card[c].fromAura # None =>
        /\ s.card[c].fromAura \in StealAuras \intersect On(s)
        /\ s.card[s.card[c].fromAura].attached = c

SettledStates == {s \in GoodStates : AurasAgree(s)}

\* The youngest control Aura on a card, if there is one.
LEMMA GovernorIs ==
    ASSUME NEW s \in GoodStates, NEW c \in Cards
    PROVE  Governor(s, c) # None =>
             /\ Governor(s, c) \in StealAuras \intersect On(s)
             /\ s.card[Governor(s, c)].attached = c
<1> DEFINE on == {i \in DOMAIN s.field :
                     s.field[i] \in StealAuras /\ Of(s, s.field[i]).attached = c}
<1>1. s.field \in Seq(Cards)
  BY StateIs DEF GoodStates
<1>2. Len(s.field) \in Nat /\ on \in SUBSET (1..Len(s.field)) /\ DOMAIN s.field = 1..Len(s.field)
  BY <1>1
<1>3. Governor(s, c) = IF on = {} THEN None ELSE s.field[Max(on)]
  BY DEF Governor
<1>4. on # {} => Max(on) \in on
  <2> HIDE DEF on
  <2> QED BY <1>2, MaxOfPositions
<1>5. on # {} => /\ s.field[Max(on)] \in StealAuras \intersect On(s)
                 /\ s.card[s.field[Max(on)]].attached = c
  BY <1>4 DEF On, ToSet, Of
<1> HIDE DEF on
<1> QED BY <1>3, <1>5

\* Control comes from the Auras that are there now.
LEMMA RecomputeAuraControlKeeps ==
    ASSUME NEW s \in GoodStates
    PROVE  RecomputeAuraControl(s) \in SettledStates
<1> DEFINE governor == [c \in On(s) |-> Governor(s, c)]
           touched == {c \in On(s) : governor[c] # None \/ Of(s, c).fromAura # None}
           ctrl == [c \in Cards |-> IF c \notin touched THEN s.ctrl[c]
                                    ELSE IF governor[c] # None THEN s.ctrl[governor[c]]
                                    ELSE Owner[c]]
           card == [c \in Cards |-> IF c \in touched THEN [s.card[c] EXCEPT !.fromAura = governor[c]]
                                    ELSE s.card[c]]
           t == RecomputeAuraControl(s)
<1>1. t = [s EXCEPT !.ctrl = ctrl, !.card = card]
  BY DEF RecomputeAuraControl
<1>2. /\ s \in States /\ On(s) \subseteq Cards /\ s.ctrl \in [Cards -> Players]
      /\ \A c \in Cards : s.card[c] \in CardStates
      /\ Unmarked(s) /\ Explained(s)
  BY StateIs DEF GoodStates
<1>3. \A c \in On(s) : governor[c] # None =>
        /\ governor[c] \in StealAuras \intersect On(s) /\ s.card[governor[c]].attached = c
  BY <1>2, GovernorIs
<1>4. \A c \in On(s) : governor[c] \in CardOrNone
  BY <1>2, <1>3 DEF CardOrNone
<1>5. \A c : c \in touched <=> c \in On(s) /\ (governor[c] # None \/ s.card[c].fromAura # None)
  BY DEF Of
<1> HIDE DEF governor, touched
<1>6. ctrl \in [Cards -> Players]
  <2>1. \A c \in touched : governor[c] # None => governor[c] \in Cards
    BY <1>2, <1>3, <1>5
  <2> QED BY <1>2, <2>1, Kinds
<1>7. ASSUME NEW c \in touched
      PROVE  /\ [s.card[c] EXCEPT !.fromAura = governor[c]] \in CardStates
             /\ [s.card[c] EXCEPT !.fromAura = governor[c]].grant = s.card[c].grant
             /\ [s.card[c] EXCEPT !.fromAura = governor[c]].attached = s.card[c].attached
             /\ [s.card[c] EXCEPT !.fromAura = governor[c]].fromAura = governor[c]
             /\ [s.card[c] EXCEPT !.fromAura = governor[c]].animated = s.card[c].animated
  <2>1. governor[c] \in CardOrNone /\ s.card[c] \in CardStates
    BY <1>2, <1>4, <1>5
  <2> QED BY <2>1 DEF CardStates
<1>8. card \in [Cards -> CardStates]
  BY <1>2, <1>7
<1>9. /\ \A c \in Cards : c \notin touched => card[c] = s.card[c] /\ ctrl[c] = s.ctrl[c]
      /\ \A c \in Cards : card[c].grant = s.card[c].grant /\ card[c].attached = s.card[c].attached
      /\ \A c \in Cards : card[c].animated = s.card[c].animated
      /\ \A c \in Cards : c \in touched =>
           /\ card[c].fromAura = governor[c]
           /\ governor[c] = None => ctrl[c] = Owner[c]
  BY <1>7
<1>10. /\ t \in States /\ t.field = s.field /\ t.stack = s.stack /\ t.piles = s.piles
       /\ t.ctrl = ctrl /\ t.card = card /\ t.taken = s.taken
  <2> HIDE DEF ctrl, card, t
  <2> QED BY <1>1, <1>2, <1>6, <1>8 DEF States
<1> HIDE DEF t, ctrl, card
<1>11. On(t) = On(s)
  BY <1>10 DEF On
<1>12. Unmarked(t)
  BY <1>2, <1>5, <1>9, <1>10, <1>11 DEF Unmarked
<1>13. Explained(t)
  <2> SUFFICES ASSUME NEW c \in Cards, ctrl[c] # Owner[c] PROVE Cause(t, c)
    <3>1. \A c \in Cards : /\ t.card[c].grant = s.card[c].grant
                          /\ t.card[c].animated = s.card[c].animated
      BY <1>9, <1>10
    <3> QED BY <1>2, <1>10, <3>1 DEF Explained
  <2>1. CASE c \in touched
    BY <1>9, <1>10, <2>1 DEF Cause
  <2>2. CASE c \notin touched
    BY <1>2, <1>9, <1>10, <2>2 DEF Cause, Explained
  <2> QED BY <2>1, <2>2
<1>14. t \in GoodStates
  BY <1>10, <1>12, <1>13, GoodStays
<1>15. AurasAgree(t)
  <2> SUFFICES ASSUME NEW c \in On(s), card[c].fromAura # None
               PROVE  /\ card[c].fromAura \in StealAuras \intersect On(s)
                      /\ card[card[c].fromAura].attached = c
    BY <1>10, <1>11 DEF AurasAgree
  <2>1. c \in Cards /\ c \in touched
    BY <1>2, <1>5, <1>9
  <2>2. card[c].fromAura = governor[c]
    BY <1>9, <2>1
  <2>3. governor[c] \in StealAuras \intersect On(s) /\ s.card[governor[c]].attached = c
    BY <1>3, <2>2
  <2> QED BY <1>2, <1>9, <2>2, <2>3
<1> QED BY <1>14, <1>15 DEF SettledStates, t

\* A grant that does not hold gives its permanent back to the owner; one that holds is
\* the cause that control has.
LEMMA VisitGrantKeeps ==
    ASSUME NEW s \in SettledStates, NEW c \in Cards
    PROVE  VisitGrant(s, c) \in SettledStates
<1> DEFINE t == VisitGrant(s, c)
<1>1. /\ s \in GoodStates /\ AurasAgree(s) /\ s \in States
      /\ s.ctrl \in [Cards -> Players] /\ s.card \in [Cards -> CardStates]
      /\ s.card[c] \in CardStates /\ On(s) \subseteq Cards
      /\ Unmarked(s) /\ Explained(s)
  BY StateIs DEF SettledStates, GoodStates
<1>2. CASE s.card[c].grant = None
  BY <1>2 DEF VisitGrant, Of
<1>3. s.card[c].grant # None => c \in On(s)
  BY <1>1 DEF Unmarked, Fresh
<1>4. CASE s.card[c].grant # None /\ GrantHolds(s, c)
  <2> DEFINE ctrl == [s.ctrl EXCEPT ![c] = s.card[c].grantee]
  <2>1. s.card[c].grantee \in Players
    <3>1. s.card[c].grant \in On(s) /\ s.ctrl[s.card[c].grant] = s.card[c].grantee
      BY <1>4 DEF GrantHolds, Of
    <3> QED BY <1>1, <3>1
  <2>2. ctrl \in [Cards -> Players] /\ \A d \in Cards : d # c => ctrl[d] = s.ctrl[d]
    BY <1>1, <2>1
  <2>3. t = [s EXCEPT !.ctrl = ctrl]
    BY <1>1, <1>4 DEF VisitGrant, Of, States
  <2>4. /\ t \in States /\ t.field = s.field /\ t.stack = s.stack /\ t.piles = s.piles
        /\ t.ctrl = ctrl /\ t.card = s.card /\ t.taken = s.taken
    <3> HIDE DEF ctrl, t
    <3> QED BY <1>1, <2>2, <2>3 DEF States
  <2> HIDE DEF t, ctrl
  <2>5. On(t) = On(s)
    BY <2>4 DEF On
  <2>6. Unmarked(t) /\ AurasAgree(t)
    BY <1>1, <2>4, <2>5 DEF Unmarked, AurasAgree
  <2>7. Explained(t)
    BY <1>1, <1>4, <2>2, <2>4 DEF Explained, Cause
  <2>8. t \in GoodStates
    BY <1>1, <2>4, <2>6, <2>7, GoodStays
  <2> QED BY <2>6, <2>8 DEF SettledStates, t
<1>5. CASE s.card[c].grant # None /\ ~GrantHolds(s, c)
  <2> DEFINE ctrl == [s.ctrl EXCEPT ![c] = Owner[c]]
             r == [s.card[c] EXCEPT !.grant = None, !.grantee = None]
             card == [s.card EXCEPT ![c] = r]
  <2>1. Owner[c] \in Players
    BY Kinds
  <2>2. ctrl \in [Cards -> Players] /\ (\A d \in Cards : d # c => ctrl[d] = s.ctrl[d]) /\ ctrl[c] = Owner[c]
    BY <1>1, <2>1
  <2>3. /\ r \in CardStates /\ r.grant = None
        /\ r.fromAura = s.card[c].fromAura /\ r.attached = s.card[c].attached
        /\ r.animated = s.card[c].animated
    BY <1>1 DEF CardStates, CardOrNone
  <2>4. t = [s EXCEPT !.ctrl = ctrl, !.card = card]
    BY <1>1, <1>5 DEF VisitGrant, Of, States, CardStates
  <2>5. /\ card \in [Cards -> CardStates] /\ card[c] = r
        /\ \A d \in Cards : d # c => card[d] = s.card[d]
    <3> HIDE DEF r
    <3> QED BY <1>1, <2>3
  <2>6. /\ t \in States /\ t.field = s.field /\ t.stack = s.stack /\ t.piles = s.piles
        /\ t.ctrl = ctrl /\ t.card = card /\ t.taken = s.taken
    <3> HIDE DEF ctrl, card, t
    <3> QED BY <1>1, <2>2, <2>4, <2>5 DEF States
  <2> HIDE DEF t, ctrl, card, r
  <2>7. On(t) = On(s)
    BY <2>6 DEF On
  <2>8. Unmarked(t)
    BY <1>1, <1>3, <1>5, <2>5, <2>6, <2>7 DEF Unmarked
  <2>9. AurasAgree(t)
    <3>1. \A d \in Cards : t.card[d].fromAura = s.card[d].fromAura /\ t.card[d].attached = s.card[d].attached
      BY <2>3, <2>5, <2>6
    <3> QED BY <1>1, <2>7, <3>1 DEF AurasAgree
  <2>10. Explained(t)
    <3> SUFFICES ASSUME NEW d \in Cards, ctrl[d] # Owner[d] PROVE Cause(t, d)
      <4>1. \A d \in Cards : /\ t.card[d].grant \in {s.card[d].grant, None}
                            /\ t.card[d].animated = s.card[d].animated
        BY <2>3, <2>5, <2>6
      <4> QED BY <1>1, <2>6, <4>1 DEF Explained
    <3>1. d # c
      BY <2>2
    <3> QED BY <1>1, <2>2, <2>5, <2>6, <3>1 DEF Explained, Cause
  <2>11. t \in GoodStates
    BY <1>1, <2>6, <2>8, <2>10, GoodStays
  <2> QED BY <2>9, <2>11 DEF SettledStates, t
<1> QED BY <1>2, <1>4, <1>5

\* With one source nobody who lends is lent.
OneSource == \A c, d \in Sources : c = d

\* A grant on one card has its effect, or there is none.
Holds(s, c) ==
    s.card[c].grant # None =>
        /\ s.card[c].grant \in On(s)
        /\ s.ctrl[c] = s.card[c].grantee /\ s.ctrl[s.card[c].grant] = s.card[c].grantee

\* What a visit does to the card and leaves of the others.
LEMMA VisitIs ==
    ASSUME NEW s \in SettledStates, NEW c \in Cards
    PROVE  /\ VisitGrant(s, c).field = s.field /\ VisitGrant(s, c).delayed = s.delayed
           /\ s.card[c].grant = None => VisitGrant(s, c) = s
           /\ \A d \in Cards : d # c =>
                /\ VisitGrant(s, c).card[d] = s.card[d]
                /\ VisitGrant(s, c).ctrl[d] = s.ctrl[d]
           /\ VisitGrant(s, c).card[c].grant # None =>
                /\ VisitGrant(s, c).card[c] = s.card[c]
                /\ s.card[c].grant \in On(s) \ {c}
                /\ s.ctrl[s.card[c].grant] = s.card[c].grantee
                /\ VisitGrant(s, c).ctrl[c] = s.card[c].grantee
<1> DEFINE t == VisitGrant(s, c)
<1>1. /\ s \in States /\ Explained(s) /\ On(s) \subseteq Cards
      /\ s.ctrl \in [Cards -> Players] /\ s.card \in [Cards -> CardStates]
      /\ s.card[c] \in CardStates
  BY StateIs DEF SettledStates, GoodStates
<1>2. CASE s.card[c].grant = None
  BY <1>2 DEF VisitGrant, Of
<1>3. CASE s.card[c].grant # None /\ GrantHolds(s, c)
  <2>1. t = [s EXCEPT !.ctrl[c] = s.card[c].grantee]
    BY <1>3 DEF VisitGrant, Of
  <2>2. /\ t.field = s.field /\ t.delayed = s.delayed
        /\ t.card = s.card /\ t.ctrl[c] = s.card[c].grantee
        /\ \A d \in Cards : d # c => t.ctrl[d] = s.ctrl[d]
    BY <1>1, <2>1 DEF States
  <2>3. s.card[c].grant \in On(s) /\ s.ctrl[s.card[c].grant] = s.card[c].grantee
    BY <1>3 DEF GrantHolds, Of
  <2>4. s.card[c].grant # c
    BY <1>1, <1>3 DEF Explained
  <2> HIDE DEF t
  <2> QED BY <1>3, <2>2, <2>3, <2>4 DEF t
<1>4. CASE s.card[c].grant # None /\ ~GrantHolds(s, c)
  <2>1. t = [s EXCEPT !.ctrl[c] = Owner[c], !.card[c].grant = None, !.card[c].grantee = None]
    BY <1>4 DEF VisitGrant, Of
  <2>2. /\ t.field = s.field /\ t.delayed = s.delayed /\ t.card[c].grant = None
        /\ \A d \in Cards : d # c => t.card[d] = s.card[d] /\ t.ctrl[d] = s.ctrl[d]
    BY <1>1, <2>1 DEF States, CardStates
  <2> HIDE DEF t
  <2> QED BY <1>4, <2>2 DEF t
<1> QED BY <1>2, <1>3, <1>4

\* With one source the grant visited holds then, and those that held still do.
LEMMA VisitHolds ==
    ASSUME OneSource, NEW s \in SettledStates, NEW c \in Cards
    PROVE  /\ Holds(VisitGrant(s, c), c)
           /\ \A d \in Cards : Holds(s, d) => Holds(VisitGrant(s, c), d)
<1> DEFINE t == VisitGrant(s, c)
<1>1. Explained(s) /\ On(s) \subseteq Cards
  BY StateIs DEF SettledStates, GoodStates
<1>2. /\ t.field = s.field
      /\ s.card[c].grant = None => t = s
      /\ \A d \in Cards : d # c => t.card[d] = s.card[d] /\ t.ctrl[d] = s.ctrl[d]
      /\ t.card[c].grant # None =>
           /\ t.card[c] = s.card[c] /\ s.card[c].grant \in On(s) \ {c}
           /\ s.ctrl[s.card[c].grant] = s.card[c].grantee /\ t.ctrl[c] = s.card[c].grantee
  BY VisitIs
<1> HIDE DEF t
<1>3. On(t) = On(s)
  BY <1>2 DEF On
<1>4. Holds(t, c)
  BY <1>1, <1>2, <1>3 DEF Holds
<1>5. ASSUME NEW d \in Cards, d # c, Holds(s, d) PROVE Holds(t, d)
  <2>1. CASE s.card[d].grant = c
    <3>1. c \in Sources /\ s.card[c].grant \in (Sources \ {c}) \union {None}
      BY <1>1, <2>1, Kinds DEF Explained
    <3>2. s.card[c].grant = None
      BY <3>1 DEF OneSource
    <3> QED BY <1>2, <1>5, <3>2
  <2>2. CASE s.card[d].grant # c
    <3>1. t.card[d] = s.card[d] /\ t.ctrl[d] = s.ctrl[d]
      BY <1>2, <1>5
    <3>2. s.card[d].grant # None => t.ctrl[s.card[d].grant] = s.ctrl[s.card[d].grant]
      BY <1>1, <1>2, <1>5, <2>2 DEF Holds
    <3> QED BY <1>3, <1>5, <3>1, <3>2 DEF Holds
  <2> QED BY <2>1, <2>2
<1> QED BY <1>4, <1>5 DEF t

\* So after all visits.
LEMMA VisitEach ==
    ASSUME NEW s \in SettledStates, NEW list \in Seq(Cards)
    PROVE  /\ FoldLeft(VisitGrant, s, list) \in SettledStates
           /\ FoldLeft(VisitGrant, s, list).field = s.field
           /\ FoldLeft(VisitGrant, s, list).delayed = s.delayed
           /\ OneSource => \A c \in ToSet(list) : Holds(FoldLeft(VisitGrant, s, list), c)
<1> DEFINE Is(it) == it = [t \in SUBSET DOMAIN list |->
                             IF t = {} THEN s
                             ELSE VisitGrant(it[t \ {Max(t)}], list[Max(t)])]
           F == [x \in SettledStates \X Cards |-> VisitGrant(x[1], x[2])]
           it == CHOOSE kt : Is(kt)
<1>1. FoldLeft(VisitGrant, s, list) = it[DOMAIN list]
  BY DEF FoldLeft, MapThenFoldSet
<1>2. \A a \in SettledStates, x \in Cards : VisitGrant(a, x) \in SettledStates
  BY VisitGrantKeeps
<1>3. F \in [SettledStates \X Cards -> SettledStates]
  BY <1>2
<1>4. PICK jt \in [SUBSET DOMAIN list -> SettledStates] : FoldsBy(F, SettledStates, Cards, s, list, jt)
  <2> HIDE DEF F
  <2> QED BY <1>3, FoldExists
<1>5. \A t \in SUBSET DOMAIN list : t # {} =>
        /\ jt[Earlier(t)] \in SettledStates /\ list[Max(t)] \in Cards
        /\ jt[t] = F[<<jt[Earlier(t)], list[Max(t)]>>]
  <2> HIDE DEF F
  <2> QED BY <1>4 DEF FoldsBy
<1>6. \A a \in SettledStates, x \in Cards : F[<<a, x>>] = VisitGrant(a, x)
  OBVIOUS
<1>7. \A t \in SUBSET DOMAIN list : jt[t] = IF t = {} THEN s
        ELSE VisitGrant(jt[t \ {Max(t)}], list[Max(t)])
  <2>1. jt[{}] = s
    BY <1>4 DEF FoldsBy
  <2> HIDE DEF F
  <2> QED BY <1>5, <1>6, <2>1 DEF Earlier
<1>8. Is(jt)
  BY <1>7
<1>9. Is(it)
  <2> HIDE DEF Is
  <2> QED BY <1>8
<1> HIDE DEF it
<1>10. \A t \in SUBSET DOMAIN list : it[t] = IF t = {} THEN s
         ELSE VisitGrant(it[t \ {Max(t)}], list[Max(t)])
  BY <1>9
<1>11. it[{}] = s
  BY <1>10
<1> DEFINE n == Len(list)
           G == {t \in SUBSET (1..n) : /\ it[t] \in SettledStates
                                       /\ it[t].field = s.field /\ it[t].delayed = s.delayed
                                       /\ OneSource => \A i \in t : Holds(it[t], list[i])}
<1>12. n \in Nat /\ DOMAIN list = 1..n /\ \A i \in 1..n : list[i] \in Cards
  OBVIOUS
<1> HIDE DEF n
<1>13. {} \in G
  BY <1>11
<1>14. ASSUME NEW t \in SUBSET (1..n), t # {}, Earlier(t) \in G PROVE t \in G
  <2> DEFINE x == list[Max(t)]
             a == it[Earlier(t)]
  <2>1. Max(t) \in t
    BY <1>12, <1>14, MaxOfPositions
  <2>2. x \in Cards /\ \A i \in t : i \in Earlier(t) \/ list[i] = x
    BY <1>12, <2>1 DEF Earlier
  <2>3. /\ a \in SettledStates /\ a.field = s.field /\ a.delayed = s.delayed
        /\ OneSource => \A i \in Earlier(t) : Holds(a, list[i])
    BY <1>14
  <2>4. it[t] = VisitGrant(a, x)
    BY <1>10, <1>12, <1>14 DEF Earlier
  <2>5. \A i \in Earlier(t) : list[i] \in Cards
    BY <1>12 DEF Earlier
  <2> HIDE DEF x, a
  <2>6. it[t] \in SettledStates /\ it[t].field = s.field /\ it[t].delayed = s.delayed
    BY <1>2, <2>2, <2>3, <2>4, VisitIs
  <2>7. OneSource => \A i \in t : Holds(it[t], list[i])
    <3> SUFFICES ASSUME OneSource, NEW i \in t PROVE Holds(it[t], list[i])
      OBVIOUS
    <3>1. CASE i \in Earlier(t)
      <4>1. list[i] \in Cards /\ Holds(a, list[i])
        BY <2>3, <2>5, <3>1
      <4> QED BY <2>2, <2>3, <2>4, <4>1, VisitHolds
    <3>2. CASE list[i] = x
      BY <2>2, <2>3, <2>4, <3>2, VisitHolds
    <3> QED BY <2>2, <3>1, <3>2
  <2> QED BY <2>6, <2>7
<1>15. \A t \in SUBSET (1..n) : t \in G
  <2> HIDE DEF G
  <2> QED BY <1>12, <1>13, <1>14, PositionByPosition
<1>16. DOMAIN list \in G
  <2> HIDE DEF G
  <2> QED BY <1>12, <1>15
<1> QED BY <1>1, <1>16 DEF ToSet

\* Equipment that falls off is no Aura, and what stays on is on a creature.
LEMMA CheckEquipmentAttachmentKeeps ==
    ASSUME NEW s \in SettledStates
    PROVE  /\ CheckEquipmentAttachment(s) \in SettledStates
           /\ EquipmentOnCreatures(CheckEquipmentAttachment(s))
           /\ GrantsFollowTheirSource(s) => GrantsFollowTheirSource(CheckEquipmentAttachment(s))
<1> DEFINE Falls(e) == /\ e \in Equipment \intersect On(s) /\ Of(s, e).attached # None
                       /\ \/ Creature(s, e)
                          \/ Of(s, e).attached \notin On(s)
                          \/ ~Creature(s, Of(s, e).attached)
           new == [e \in Cards |-> IF Falls(e) THEN [s.card[e] EXCEPT !.attached = None]
                                   ELSE s.card[e]]
           t == CheckEquipmentAttachment(s)
<1>1. t = [s EXCEPT !.card = new]
  BY DEF CheckEquipmentAttachment
<1>2. /\ s \in GoodStates /\ AurasAgree(s) /\ s \in States /\ On(s) \subseteq Cards
      /\ \A e \in Cards : s.card[e] \in CardStates
  BY StateIs DEF SettledStates, GoodStates
<1>3. \A e \in Cards : Falls(e) => e \in Equipment \intersect On(s)
  OBVIOUS
<1> HIDE DEF Falls
<1>4. ASSUME NEW e \in Cards
      PROVE  /\ [s.card[e] EXCEPT !.attached = None] \in CardStates
             /\ [s.card[e] EXCEPT !.attached = None].grant = s.card[e].grant
             /\ [s.card[e] EXCEPT !.attached = None].fromAura = s.card[e].fromAura
             /\ [s.card[e] EXCEPT !.attached = None].animated = s.card[e].animated
             /\ [s.card[e] EXCEPT !.attached = None].grantee = s.card[e].grantee
             /\ [s.card[e] EXCEPT !.attached = None].faded = s.card[e].faded
             /\ [s.card[e] EXCEPT !.attached = None].animated = s.card[e].animated
             /\ [s.card[e] EXCEPT !.attached = None].attached = None
  BY <1>2 DEF CardStates, CardOrNone
<1>5. /\ new \in [Cards -> CardStates]
      /\ \A e \in Cards : ~(e \in Equipment \intersect On(s)) => new[e] = s.card[e]
      /\ \A e \in Cards : new[e].grant = s.card[e].grant /\ new[e].fromAura = s.card[e].fromAura
      /\ \A e \in Cards : new[e].animated => s.card[e].animated
      /\ \A e \in Cards : /\ new[e].grantee = s.card[e].grantee /\ new[e].faded = s.card[e].faded
                          /\ new[e].animated = s.card[e].animated
                          /\ new[e].attached \in {s.card[e].attached, None}
                          /\ Falls(e) => new[e].attached = None
  BY <1>2, <1>3, <1>4
<1>6. t.card = new /\ t.ctrl = s.ctrl
  <2> HIDE DEF new, t
  <2> QED BY <1>1, <1>2 DEF States
<1> HIDE DEF t, new
<1>7. t \in GoodStates /\ On(t) = On(s)
  BY <1>1, <1>2, <1>5, CardsMarked
<1>8. AurasAgree(t)
  <2> SUFFICES ASSUME NEW c \in On(s), new[c].fromAura # None
               PROVE  /\ new[c].fromAura \in StealAuras \intersect On(s)
                      /\ new[new[c].fromAura].attached = c
    BY <1>6, <1>7 DEF AurasAgree
  <2>1. new[c].fromAura = s.card[c].fromAura
    BY <1>2, <1>5
  <2>2. new[c].fromAura \in StealAuras \intersect On(s) /\ s.card[new[c].fromAura].attached = c
    BY <1>2, <2>1 DEF AurasAgree
  <2>3. new[new[c].fromAura] = s.card[new[c].fromAura]
    BY <1>2, <1>5, <2>2, Kinds
  <2> QED BY <2>2, <2>3
<1>9. EquipmentOnCreatures(t)
  <2> SUFFICES ASSUME NEW e \in Equipment \intersect On(s), new[e].attached # None
               PROVE  new[e].attached \in On(s) /\ Creature(t, new[e].attached)
    BY <1>6, <1>7 DEF EquipmentOnCreatures, Of
  <2>1. e \in Cards
    BY <1>2
  <2>2. new[e].attached = s.card[e].attached /\ ~Falls(e)
    BY <1>5, <2>1
  <2>3. s.card[e].attached \in On(s) /\ Creature(s, s.card[e].attached)
    BY <2>2 DEF Falls, Of
  <2> QED BY <1>2, <1>5, <1>6, <2>2, <2>3 DEF Creature, Of
<1>10. GrantsFollowTheirSource(s) => GrantsFollowTheirSource(t)
  BY <1>2, <1>5, <1>6, <1>7 DEF GrantsFollowTheirSource, Of
<1> QED BY <1>7, <1>8, <1>9, <1>10 DEF SettledStates, t

\* The whole pass.
LEMMA PassKeeps ==
    ASSUME NEW s \in GoodStates
    PROVE  /\ CheckStateBasedActions(s) \in SettledStates
           /\ EquipmentOnCreatures(CheckStateBasedActions(s))
           /\ OneSource => GrantsFollowTheirSource(CheckStateBasedActions(s))
<1>1. CheckAuraAttachment(CheckLegendaryRule(CheckLethalDamage(s))) \in GoodStates
  BY BurialsKeep
<1> DEFINE t == RecomputeAuraControl(CheckAuraAttachment(CheckLegendaryRule(CheckLethalDamage(s))))
           u == RecomputeSourceControl(t)
<1>2. t \in SettledStates
  BY <1>1, RecomputeAuraControlKeeps
<1>3. CheckStateBasedActions(s) = CheckEquipmentAttachment(u)
  BY DEF CheckStateBasedActions
<1> HIDE DEF t
<1>4. t.field \in Seq(Cards)
  BY <1>2, StateIs DEF SettledStates, GoodStates
<1>5. /\ u \in SettledStates /\ u.field = t.field
      /\ OneSource => \A c \in ToSet(t.field) : Holds(u, c)
  BY <1>2, <1>4, VisitEach DEF RecomputeSourceControl
<1> HIDE DEF u
<1>6. OneSource => GrantsFollowTheirSource(u)
  BY <1>5 DEF GrantsFollowTheirSource, Holds, On, Of
<1> QED BY <1>3, <1>5, <1>6, CheckEquipmentAttachmentKeeps

-----------------------------------------------------------------------------
(* Effects.                                                                 *)

\* A permanent goes to its owner's hand or to exile.
LEMMA BounceKeeps ==
    ASSUME NEW s \in GoodStates, NEW c \in Cards
    PROVE  /\ MoveCard(s, c, "battlefield", "hand", Owner[c]) \in GoodStates
           /\ MoveCard(s, c, "battlefield", "exile", Owner[c]) \in GoodStates
<1>1. /\ Owner[c] \in Players /\ "battlefield" \in Zones
      /\ "hand" \in Zones \ {"stack"} /\ "exile" \in Zones \ {"stack"}
  BY Kinds DEF Zones, Piles
<1> QED BY <1>1, MoveCardKeeps

\* What one return to the hand preserves, any number do.
LEMMA BounceEach ==
    ASSUME NEW Y, NEW s \in Y, NEW X, NEW list \in Seq(X),
           \A a \in Y, x \in X : MoveCard(a, x, "battlefield", "hand", Owner[x]) \in Y
    PROVE  FoldLeft(LAMBDA a, c : MoveCard(a, c, "battlefield", "hand", Owner[c]), s, list) \in Y
<1> DEFINE Is(it) == it = [t \in SUBSET DOMAIN list |->
                             IF t = {} THEN s
                             ELSE MoveCard(it[t \ {Max(t)}], list[Max(t)], "battlefield", "hand", Owner[list[Max(t)]])]
           F == [x \in Y \X X |-> MoveCard(x[1], x[2], "battlefield", "hand", Owner[x[2]])]
           it == CHOOSE kt : Is(kt)
<1>1. FoldLeft(LAMBDA a, c : MoveCard(a, c, "battlefield", "hand", Owner[c]), s, list) = it[DOMAIN list]
  BY DEF FoldLeft, MapThenFoldSet
<1>2. \A a \in Y, x \in X : MoveCard(a, x, "battlefield", "hand", Owner[x]) \in Y
  OBVIOUS
<1>3. F \in [Y \X X -> Y]
  BY <1>2
<1>4. PICK jt \in [SUBSET DOMAIN list -> Y] : FoldsBy(F, Y, X, s, list, jt)
  <2> HIDE DEF F
  <2> QED BY <1>3, FoldExists
<1>5. \A t \in SUBSET DOMAIN list : t # {} =>
        /\ jt[Earlier(t)] \in Y /\ list[Max(t)] \in X
        /\ jt[t] = F[<<jt[Earlier(t)], list[Max(t)]>>]
  <2> HIDE DEF F
  <2> QED BY <1>4 DEF FoldsBy
<1>6. \A a \in Y, x \in X : F[<<a, x>>] = MoveCard(a, x, "battlefield", "hand", Owner[x])
  OBVIOUS
<1>7. \A t \in SUBSET DOMAIN list : jt[t] = IF t = {} THEN s
        ELSE MoveCard(jt[t \ {Max(t)}], list[Max(t)], "battlefield", "hand", Owner[list[Max(t)]])
  <2>1. jt[{}] = s
    BY <1>4 DEF FoldsBy
  <2> HIDE DEF F
  <2> QED BY <1>5, <1>6, <2>1 DEF Earlier
<1>8. Is(jt)
  BY <1>7
<1>9. Is(it)
  <2> HIDE DEF Is
  <2> QED BY <1>8
<1> HIDE DEF it
<1>10. \A t \in SUBSET DOMAIN list : it[t] = IF t = {} THEN s
         ELSE MoveCard(it[t \ {Max(t)}], list[Max(t)], "battlefield", "hand", Owner[list[Max(t)]])
  BY <1>9
<1>11. it[{}] = s
  BY <1>10
<1>12. \A t \in SUBSET DOMAIN list : t # {} /\ it[Earlier(t)] \in Y => it[t] \in Y
  BY <1>2, <1>5, <1>10 DEF Earlier
<1>13. Carries(Y, list, it)
  BY <1>11, <1>12 DEF Carries
<1>14. it[DOMAIN list] \in Y
  BY <1>13, FoldStays
<1> QED BY <1>1, <1>14

\* Effects on every creature, or on one that a player chooses.
LEMMA MassKeeps ==
    ASSUME NEW s \in GoodStates
    PROVE  /\ \A no : DestroyAll(s, no) \in GoodStates
           /\ SacrificeAll(s) \in GoodStates
           /\ BounceAll(s) \in GoodStates
           /\ \A p : ForceSacrifice(s, p) \in GoodStates
<1>1. ASSUME NEW no PROVE DestroyAll(s, no) \in GoodStates
  <2>1. Kept(s.field, {c \in On(s) : Creature(s, c)}) \in Seq(Cards)
    BY PickedFromField
  <2>2. \A a \in GoodStates, c \in Cards : Destroy(a, c, no) \in GoodStates
    BY DestroyKeeps
  <2> QED BY <2>1, <2>2, DestroyEach
<1>2. SacrificeAll(s) \in GoodStates
  <2>1. \A u \in GoodStates, c \in Cards : CheckDeathTriggers(Bury(u, c), c) \in GoodStates
    BY BuryKeeps, CheckDeathTriggersKeeps
  <2> QED BY <2>1, PickedFromField, SacrificeEach DEF SacrificeAll
<1>3. BounceAll(s) \in GoodStates
  BY BounceKeeps, PickedFromField, BounceEach DEF BounceAll
<1>4. ASSUME NEW p PROVE ForceSacrifice(s, p) \in GoodStates
  <2> DEFINE S == {c \in On(s) : Creature(s, c) /\ s.ctrl[c] = p}
             his == Kept(s.field, S)
  <2>1. ForceSacrifice(s, p) = IF his = <<>> THEN s ELSE Bury(s, Head(his))
    BY DEF ForceSacrifice
  <2>2. his \in Seq(Cards)
    <3> HIDE DEF S
    <3> QED BY PickedFromField
  <2> HIDE DEF his
  <2>3. his # <<>> => Head(his) \in Cards
    BY <2>2
  <2> QED BY <2>1, <2>3, BuryKeeps
<1> QED BY <1>1, <1>2, <1>3, <1>4

\* Every creature is marked with damage.
LEMMA DamageAllKeeps ==
    ASSUME NEW s \in GoodStates
    PROVE  DamageAll(s) \in GoodStates
<1> DEFINE new == [c \in Cards |-> IF c \in On(s) /\ Creature(s, c)
                                   THEN [s.card[c] EXCEPT !.damage = s.card[c].damage + 1]
                                   ELSE s.card[c]]
<1>1. DamageAll(s) = [s EXCEPT !.card = new]
  <2>1. \A c \in Cards : s.card[c] \in CardStates
    BY StateIs DEF GoodStates
  <2>2. \A c \in Cards : [s.card[c] EXCEPT !.damage = @ + 1] = [s.card[c] EXCEPT !.damage = s.card[c].damage + 1]
    BY <2>1 DEF CardStates
  <2> QED BY <2>2 DEF DamageAll
<1>2. ASSUME NEW c \in Cards
      PROVE  /\ s.card[c] \in CardStates
             /\ [s.card[c] EXCEPT !.damage = s.card[c].damage + 1] \in CardStates
             /\ [s.card[c] EXCEPT !.damage = s.card[c].damage + 1].grant = s.card[c].grant
             /\ [s.card[c] EXCEPT !.damage = s.card[c].damage + 1].fromAura = s.card[c].fromAura
             /\ [s.card[c] EXCEPT !.damage = s.card[c].damage + 1].animated = s.card[c].animated
  <2>1. s.card[c] \in CardStates
    BY StateIs DEF GoodStates
  <2>2. s.card[c].damage + 1 \in Nat
    BY <2>1 DEF CardStates
  <2> QED BY <2>1, <2>2 DEF CardStates
<1>3. /\ new \in [Cards -> CardStates]
      /\ \A c \in Cards \ On(s) : new[c] = s.card[c]
      /\ \A c \in Cards : new[c].grant = s.card[c].grant /\ new[c].fromAura = s.card[c].fromAura
      /\ \A c \in Cards : new[c].animated => s.card[c].animated
  BY <1>2
<1> HIDE DEF new
<1> QED BY <1>1, <1>3, CardsMarked

\* Marks that end with the turn are taken from what is on the battlefield.
LEMMA CleanupKeeps ==
    ASSUME NEW s \in GoodStates
    PROVE  CleanupTemporaryEffects(s) \in GoodStates
<1> DEFINE Clean(c) == [s.card[c] EXCEPT !.damage = 0, !.animated = FALSE, !.exiles = FALSE,
                                         !.shields = IF Creature(s, c) THEN 0 ELSE @]
           new == [c \in Cards |-> IF c \notin On(s) THEN s.card[c] ELSE Clean(c)]
<1>1. CleanupTemporaryEffects(s) = [s EXCEPT !.card = new]
  BY DEF CleanupTemporaryEffects
<1>2. ASSUME NEW c \in Cards
      PROVE  /\ s.card[c] \in CardStates /\ Clean(c) \in CardStates
             /\ Clean(c).grant = s.card[c].grant /\ Clean(c).fromAura = s.card[c].fromAura
             /\ ~Clean(c).animated
  <2>1. s.card[c] \in CardStates
    BY StateIs DEF GoodStates
  <2> QED BY <2>1 DEF CardStates
<1> HIDE DEF Clean
<1>3. /\ new \in [Cards -> CardStates]
      /\ \A c \in Cards \ On(s) : new[c] = s.card[c]
      /\ \A c \in Cards : new[c].grant = s.card[c].grant /\ new[c].fromAura = s.card[c].fromAura
      /\ \A c \in Cards : new[c].animated => s.card[c].animated
  BY <1>2
<1> HIDE DEF new
<1> QED BY <1>1, <1>3, CardsMarked

\* Marks on one permanent: damage,
LEMMA DealDamageKeeps ==
    ASSUME NEW s \in GoodStates, NEW c \in On(s)
    PROVE  DealDamage(s, c) \in GoodStates
<1> DEFINE r == [s.card[c] EXCEPT !.damage = s.card[c].damage + 1]
<1>1. s \in States /\ c \in Cards /\ s.card \in [Cards -> CardStates]
  BY StateIs DEF GoodStates
<1>2. s.card[c] \in CardStates
  BY <1>1
<1>3. s.card[c].damage + 1 \in Nat
  BY <1>2 DEF CardStates
<1>4. /\ r \in CardStates /\ r.grant = s.card[c].grant /\ r.fromAura = s.card[c].fromAura
      /\ r.animated = s.card[c].animated
  BY <1>2, <1>3, StateIs DEF CardStates, CardOrNone
<1>5. DealDamage(s, c) = [s EXCEPT !.card[c] = r]
  BY <1>1, <1>2 DEF DealDamage, States, CardStates
<1> HIDE DEF r
<1> QED BY <1>4, <1>5, CardMarked

\* a shield,
LEMMA RegenerateKeeps ==
    ASSUME NEW s \in GoodStates, NEW c \in On(s)
    PROVE  Regenerate(s, c) \in GoodStates
<1> DEFINE r == [s.card[c] EXCEPT !.shields = s.card[c].shields + 1]
<1>1. s \in States /\ c \in Cards /\ s.card \in [Cards -> CardStates]
  BY StateIs DEF GoodStates
<1>2. s.card[c] \in CardStates
  BY <1>1
<1>3. s.card[c].shields + 1 \in Nat
  BY <1>2 DEF CardStates
<1>4. /\ r \in CardStates /\ r.grant = s.card[c].grant /\ r.fromAura = s.card[c].fromAura
      /\ r.animated = s.card[c].animated
  BY <1>2, <1>3, StateIs DEF CardStates, CardOrNone
<1>5. Regenerate(s, c) = [s EXCEPT !.card[c] = r]
  BY <1>1, <1>2 DEF Regenerate, States, CardStates
<1> HIDE DEF r
<1> QED BY <1>4, <1>5, CardMarked

\* exile instead of death,
LEMMA ExileIfWouldDieKeeps ==
    ASSUME NEW s \in GoodStates, NEW c \in On(s)
    PROVE  ExileIfWouldDie(s, c) \in GoodStates
<1> DEFINE r == [s.card[c] EXCEPT !.exiles = TRUE]
<1>1. s \in States /\ c \in Cards /\ s.card \in [Cards -> CardStates]
  BY StateIs DEF GoodStates
<1>2. s.card[c] \in CardStates
  BY <1>1
<1>4. /\ r \in CardStates /\ r.grant = s.card[c].grant /\ r.fromAura = s.card[c].fromAura
      /\ r.animated = s.card[c].animated
  BY <1>2, StateIs DEF CardStates, CardOrNone
<1>5. ExileIfWouldDie(s, c) = [s EXCEPT !.card[c] = r]
  BY <1>1, <1>2 DEF ExileIfWouldDie, States, CardStates
<1> HIDE DEF r
<1> QED BY <1>4, <1>5, CardMarked

\* a counter more,
LEMMA PutCounterKeeps ==
    ASSUME NEW s \in GoodStates, NEW c \in On(s)
    PROVE  PutCounter(s, c) \in GoodStates
<1> DEFINE r == [s.card[c] EXCEPT !.counters = s.card[c].counters + 1]
<1>1. s \in States /\ c \in Cards /\ s.card \in [Cards -> CardStates]
  BY StateIs DEF GoodStates
<1>2. s.card[c] \in CardStates
  BY <1>1
<1>3. s.card[c].counters + 1 \in Nat
  BY <1>2 DEF CardStates
<1>4. /\ r \in CardStates /\ r.grant = s.card[c].grant /\ r.fromAura = s.card[c].fromAura
      /\ r.animated = s.card[c].animated
  BY <1>2, <1>3, StateIs DEF CardStates, CardOrNone
<1>5. PutCounter(s, c) = [s EXCEPT !.card[c] = r]
  BY <1>1, <1>2 DEF PutCounter, States, CardStates
<1> HIDE DEF r
<1> QED BY <1>4, <1>5, CardMarked

\* or less.
LEMMA RemoveCounterKeeps ==
    ASSUME NEW s \in GoodStates, NEW c \in On(s)
    PROVE  RemoveCounter(s, c) \in GoodStates
<1> DEFINE r == [s.card[c] EXCEPT !.counters = IF s.card[c].counters = 0 THEN 0 ELSE s.card[c].counters - 1]
<1>1. s \in States /\ c \in Cards /\ s.card \in [Cards -> CardStates]
  BY StateIs DEF GoodStates
<1>2. s.card[c] \in CardStates
  BY <1>1
<1>3. s.card[c].counters \in Nat /\ (s.card[c].counters # 0 => s.card[c].counters - 1 \in Nat)
  BY <1>2 DEF CardStates
<1>4. /\ r \in CardStates /\ r.grant = s.card[c].grant /\ r.fromAura = s.card[c].fromAura
      /\ r.animated = s.card[c].animated
  BY <1>2, <1>3, StateIs DEF CardStates, CardOrNone
<1>5. RemoveCounter(s, c) = [s EXCEPT !.card[c] = r]
  BY <1>1, <1>2 DEF RemoveCounter, States, CardStates
<1> HIDE DEF r
<1> QED BY <1>4, <1>5, CardMarked

\* Two creatures that fight deal each other damage.
LEMMA FightKeeps ==
    ASSUME NEW s \in GoodStates, NEW c \in On(s), NEW d \in On(s), d # c
    PROVE  Fight(s, c, d) \in GoodStates
<1> DEFINE rd == [s.card[d] EXCEPT !.damage = s.card[d].damage + Toughness(s, c)]
           t == [s EXCEPT !.card[d] = rd]
           rc == [t.card[c] EXCEPT !.damage = t.card[c].damage + Toughness(s, d)]
<1>1. /\ s \in States /\ c \in Cards /\ d \in Cards /\ s.card \in [Cards -> CardStates]
      /\ s.card[c] \in CardStates /\ s.card[d] \in CardStates
  BY StateIs DEF GoodStates
<1>2. Toughness(s, c) \in Nat /\ Toughness(s, d) \in Nat
  <2>1. s.card[c].counters \in Nat /\ s.card[d].counters \in Nat
    BY <1>1 DEF CardStates
  <2> QED BY <2>1 DEF Toughness, Of
<1>3. /\ rd \in CardStates /\ rd.grant = s.card[d].grant /\ rd.fromAura = s.card[d].fromAura
      /\ rd.animated = s.card[d].animated
  <2>1. s.card[d].damage + Toughness(s, c) \in Nat
    BY <1>1, <1>2 DEF CardStates
  <2> QED BY <1>1, <2>1 DEF CardStates
<1>4. /\ t \in GoodStates /\ On(t) = On(s)
  <2> HIDE DEF rd
  <2> QED BY <1>3, CardMarked
<1>5. t \in States /\ t.card[c] = s.card[c]
  <2> HIDE DEF rd
  <2>1. t.card = [s.card EXCEPT ![d] = rd]
    BY <1>1 DEF States
  <2>2. t.card[c] = s.card[c]
    BY <1>1, <2>1
  <2> QED BY <1>4, <2>2 DEF GoodStates
<1>6. Fight(s, c, d) = [t EXCEPT !.card[c] = rc]
  BY <1>1, <1>5 DEF Fight, States, CardStates
<1> HIDE DEF t
<1>7. /\ rc \in CardStates /\ rc.grant = t.card[c].grant /\ rc.fromAura = t.card[c].fromAura
      /\ rc.animated = t.card[c].animated
  <2>1. t.card[c].damage + Toughness(s, d) \in Nat
    BY <1>1, <1>2, <1>5 DEF CardStates
  <2> QED BY <1>1, <1>5, <2>1 DEF CardStates
<1> HIDE DEF rc
<1> QED BY <1>4, <1>6, <1>7, CardMarked

\* Land that becomes a creature comes back when it dies.
LEMMA EarthbendKeeps ==
    ASSUME NEW s \in GoodStates, NEW c \in On(s), c \in Lands
    PROVE  Earthbend(s, c) \in GoodStates
<1> DEFINE r == [s.card[c] EXCEPT !.animated = TRUE, !.counters = s.card[c].counters + 1]
           t == [s EXCEPT !.card[c] = r]
           more == Append(s.delayed, [watch |-> c, sacrifice |-> None])
<1>1. /\ s \in States /\ c \in Cards /\ s.card \in [Cards -> CardStates]
      /\ s.card[c] \in CardStates /\ s.delayed \in Seq(Triggers)
  BY StateIs DEF GoodStates
<1>2. r \in CardStates /\ r.grant = s.card[c].grant /\ r.fromAura = s.card[c].fromAura
  <2>1. s.card[c].counters + 1 \in Nat
    BY <1>1 DEF CardStates
  <2> QED BY <1>1, <2>1 DEF CardStates
<1>3. more \in Seq(Triggers)
  <2>1. [watch |-> c, sacrifice |-> None] \in Triggers
    BY <1>1 DEF Triggers, CardOrNone
  <2> QED BY <1>1, <2>1, AppendIs
<1>4. Earthbend(s, c) = [t EXCEPT !.delayed = more]
  BY <1>1 DEF Earthbend, States, CardStates
<1> HIDE DEF r, more
<1>5. t \in GoodStates
  BY <1>2, CardMarked
<1> HIDE DEF t
<1> QED BY <1>3, <1>4, <1>5, DelayedKeeps

\* A theft is a cause.
LEMMA Stolen ==
    ASSUME NEW s \in GoodStates, NEW c \in Cards, NEW p \in Players
    PROVE  /\ [s EXCEPT !.ctrl[c] = p, !.taken = @ \union {c}] \in GoodStates
           /\ On([s EXCEPT !.ctrl[c] = p, !.taken = @ \union {c}]) = On(s)
           /\ [s EXCEPT !.ctrl[c] = p, !.taken = @ \union {c}].card = s.card
           /\ [s EXCEPT !.ctrl[c] = p, !.taken = @ \union {c}].delayed = s.delayed
<1> DEFINE ctrl == [s.ctrl EXCEPT ![c] = p]
           t == [s EXCEPT !.ctrl[c] = p, !.taken = @ \union {c}]
<1>1. /\ s \in States /\ Unmarked(s) /\ Explained(s)
      /\ s.ctrl \in [Cards -> Players] /\ s.taken \in SUBSET Cards
  BY StateIs DEF GoodStates
<1>2. ctrl \in [Cards -> Players] /\ \A d \in Cards : d # c => ctrl[d] = s.ctrl[d]
  BY <1>1
<1>3. t = [s EXCEPT !.ctrl = ctrl, !.taken = s.taken \union {c}]
  BY <1>1 DEF States
<1>4. /\ t \in States /\ t.field = s.field /\ t.stack = s.stack /\ t.piles = s.piles
      /\ t.ctrl = ctrl /\ t.card = s.card /\ t.taken = s.taken \union {c}
      /\ t.delayed = s.delayed
  <2> HIDE DEF ctrl, t
  <2> QED BY <1>1, <1>2, <1>3 DEF States
<1> HIDE DEF t, ctrl
<1>5. On(t) = On(s)
  BY <1>4 DEF On
<1>6. Unmarked(t) /\ Explained(t)
  BY <1>1, <1>2, <1>4, <1>5 DEF Unmarked, Explained, Cause
<1>7. t \in GoodStates
  BY <1>4, <1>6, GoodStays
<1> QED BY <1>4, <1>5, <1>7 DEF t

LEMMA GainControlKeeps ==
    ASSUME NEW s \in GoodStates, NEW c \in Cards, NEW p \in Players
    PROVE  GainControl(s, c, p) \in GoodStates
BY Stolen DEF GainControl

\* A grant is a cause, and another card is its source.
LEMMA GrantControlKeeps ==
    ASSUME NEW s \in GoodStates, NEW c \in On(s), NEW p \in Players, NEW source \in Sources \ {c}
    PROVE  GrantControl(s, c, p, source) \in GoodStates
<1> DEFINE r == [s.card[c] EXCEPT !.grant = source, !.grantee = p]
           ctrl == [s.ctrl EXCEPT ![c] = p]
           card == [s.card EXCEPT ![c] = r]
           t == GrantControl(s, c, p, source)
<1>1. /\ s \in States /\ Unmarked(s) /\ Explained(s) /\ c \in Cards
      /\ s.ctrl \in [Cards -> Players] /\ s.card \in [Cards -> CardStates]
      /\ s.card[c] \in CardStates
  BY StateIs DEF GoodStates
<1>2. r \in CardStates /\ r.grant = source /\ source # None /\ r.animated = s.card[c].animated
  BY <1>1, Kinds DEF CardStates, CardOrNone
<1>3. t = [s EXCEPT !.ctrl = ctrl, !.card = card]
  BY <1>1 DEF GrantControl, States, CardStates
<1>4. ctrl \in [Cards -> Players] /\ \A d \in Cards : d # c => ctrl[d] = s.ctrl[d]
  BY <1>1
<1>5. /\ card \in [Cards -> CardStates] /\ card[c] = r
      /\ \A d \in Cards : d # c => card[d] = s.card[d]
  <2> HIDE DEF r
  <2> QED BY <1>1, <1>2
<1>6. /\ t \in States /\ t.field = s.field /\ t.stack = s.stack /\ t.piles = s.piles
      /\ t.ctrl = ctrl /\ t.card = card /\ t.taken = s.taken
  <2> HIDE DEF ctrl, card, t
  <2> QED BY <1>1, <1>3, <1>4, <1>5 DEF States
<1> HIDE DEF t, ctrl, card, r
<1>7. On(t) = On(s)
  BY <1>6 DEF On
<1>8. Unmarked(t)
  BY <1>1, <1>5, <1>6, <1>7 DEF Unmarked
<1>9. Explained(t)
  <2> SUFFICES ASSUME NEW d \in Cards
               PROVE  /\ ctrl[d] # Owner[d] => Cause(t, d)
                      /\ card[d].grant \in (Sources \ {d}) \union {None}
                      /\ card[d].animated => d \in Lands
    BY <1>6 DEF Explained
  <2>1. CASE d = c
    BY <1>1, <1>2, <1>5, <1>6, <2>1 DEF Cause, Explained
  <2>2. CASE d # c
    BY <1>1, <1>4, <1>5, <1>6, <2>2 DEF Explained, Cause
  <2> QED BY <2>1, <2>2
<1>10. t \in GoodStates
  BY <1>6, <1>8, <1>9, GoodStays
<1> QED BY <1>10 DEF t

\* What is attached is on the battlefield.
LEMMA AttachKeeps ==
    ASSUME NEW s \in GoodStates, NEW e \in On(s), NEW c \in Cards
    PROVE  /\ [s EXCEPT !.card[e].attached = c] \in GoodStates
           /\ On([s EXCEPT !.card[e].attached = c]) = On(s)
<1> DEFINE r == [s.card[e] EXCEPT !.attached = c]
<1>1. /\ s \in States /\ e \in Cards /\ s.card \in [Cards -> CardStates]
      /\ s.card[e] \in CardStates
  BY StateIs DEF GoodStates
<1>2. /\ r \in CardStates /\ r.grant = s.card[e].grant /\ r.fromAura = s.card[e].fromAura
      /\ r.animated = s.card[e].animated
  BY <1>1 DEF CardStates, CardOrNone
<1>3. [s EXCEPT !.card[e].attached = c] = [s EXCEPT !.card[e] = r]
  BY <1>1 DEF States, CardStates
<1> HIDE DEF r
<1> QED BY <1>2, <1>3, CardMarked

LEMMA AttachEquipmentKeeps ==
    ASSUME NEW s \in GoodStates, NEW e \in Cards, NEW c \in Cards
    PROVE  AttachEquipment(s, e, c) \in GoodStates
BY AttachKeeps DEF AttachEquipment

\* An attach that fails ends the game and nothing else.
LEMMA AttachAuraKeeps ==
    ASSUME NEW s \in GoodStates, NEW a \in On(s), NEW c \in Cards
    PROVE  AttachAura(s, a, c) \in GoodStates
<1> DEFINE t == [s EXCEPT !.aborted = TRUE]
<1>1. s \in States /\ Unmarked(s) /\ Explained(s)
  BY DEF GoodStates
<1>2. /\ t \in States /\ t.field = s.field /\ t.stack = s.stack /\ t.piles = s.piles
      /\ t.ctrl = s.ctrl /\ t.card = s.card /\ t.taken = s.taken
  BY <1>1 DEF States
<1> HIDE DEF t
<1>3. On(t) = On(s)
  BY <1>2 DEF On
<1>4. Unmarked(t) /\ Explained(t)
  BY <1>1, <1>2, <1>3 DEF Unmarked, Explained, Cause
<1>5. t \in GoodStates
  BY <1>2, <1>4, GoodStays
<1> QED BY <1>5, AttachKeeps DEF AttachAura, t

\* Permission to cast what was exiled.
LEMMA AirbendKeeps ==
    ASSUME NEW s \in GoodStates, NEW c \in Cards
    PROVE  Airbend(s, c) \in GoodStates
<1> DEFINE gone == ExilePermanent(s, c)
<1>1. gone \in GoodStates
  BY BounceKeeps DEF ExilePermanent
<1>2. Airbend(s, c) = [gone EXCEPT !.mayPlay = gone.mayPlay \union {c}]
  <2>1. gone \in States
    BY <1>1 DEF GoodStates
  <2> QED BY <2>1 DEF Airbend, States
<1> HIDE DEF gone
<1>3. gone.mayPlay \union {c} \in SUBSET Cards
  BY <1>1, StateIs DEF GoodStates
<1> QED BY <1>1, <1>2, <1>3, MayPlayKeeps

\* Returns to the battlefield.
LEMMA ReturnsKeep ==
    ASSUME NEW s \in GoodStates, NEW c \in Cards, NEW p \in Players, NEW gain \in BOOLEAN
    PROVE  /\ ReturnFromGraveyard(s, c, p, gain) \in GoodStates
           /\ PutFromHand(s, c, p) \in GoodStates
<1>1. /\ Owner[c] \in Players /\ "graveyard" \in Zones /\ "hand" \in Zones
      /\ "battlefield" \in Zones \ {"stack"} /\ "battlefield" \notin Piles
  BY Kinds DEF Zones, Piles
<1>2. (IF gain THEN p ELSE Owner[c]) \in Players
  BY <1>1
<1> QED BY <1>1, <1>2, MoveCardKeeps DEF ReturnFromGraveyard, PutFromHand

-----------------------------------------------------------------------------
(* Permanent spells.                                                        *)

\* Who is raised by an Aura is stolen by its owner, and tied to it: a creature, as
\* anything else could not be enchanted.
LEMMA ReanimateKeeps ==
    ASSUME NEW s \in GoodStates, NEW a \in Auras, a \in On(s), NEW c \in Cards,
           IsIn(s, c, "graveyard", Owner[c])
    PROVE  ReanimateAuraTarget(s, a, c) \in GoodStates
<1> DEFINE p == Owner[a]
           back == MoveCard(s, c, "graveyard", "battlefield", Owner[c])
           mine == IF p = Owner[c] THEN back
                   ELSE [back EXCEPT !.ctrl[c] = p, !.taken = @ \union {c}]
           on == IF {a, c} \subseteq On(mine) THEN AttachAura(mine, a, c) ELSE mine
           more == Append(on.delayed, [watch |-> a, sacrifice |-> c])
<1>1. ReanimateAuraTarget(s, a, c) = IF on.aborted THEN on ELSE [on EXCEPT !.delayed = more]
  BY DEF ReanimateAuraTarget
<1>2. p \in Players /\ Owner[c] \in Players /\ a \in Cards
  BY Kinds
<1>3. /\ back \in GoodStates /\ back.card = s.card
      /\ On(back) = (On(s) \ {c}) \union {c}
  <2>1. /\ "graveyard" \in Zones /\ "battlefield" \in Zones \ {"stack"}
        /\ "battlefield" \notin Piles /\ "graveyard" # "battlefield"
    BY DEF Zones, Piles
  <2> QED BY <1>2, <2>1, MoveCardKeeps, MovedKeeps
<1> HIDE DEF back
<1>4. mine \in GoodStates /\ On(mine) = On(back) /\ mine.card = back.card
  BY <1>2, <1>3, Stolen
<1> HIDE DEF mine
<1>5. on \in GoodStates
  BY <1>2, <1>4, AttachAuraKeeps
<1>6. ~on.aborted => c \in Creatures
  <2>1. c \notin On(s)
    <3>1. c \in s.piles[Owner[c]]["graveyard"]
      BY DEF IsIn
    <3>2. "graveyard" \in Piles
      BY DEF Piles
    <3> QED BY <1>2, <3>1, <3>2 DEF GoodStates, PlacedBut
  <2>2. s.card[c] = Fresh
    BY <2>1 DEF GoodStates, Unmarked
  <2>3. ~mine.card[c].animated
    BY <1>3, <1>4, <2>2 DEF Fresh
  <2>4. on = AttachAura(mine, a, c)
    BY <1>3, <1>4
  <2>5. mine \in States
    BY <1>4 DEF GoodStates
  <2>6. ~Creature(mine, c) => on.aborted
    BY <2>4, <2>5 DEF AttachAura, States
  <2> QED BY <2>3, <2>6 DEF Creature, Of
<1> HIDE DEF on
<1>7. ~on.aborted => more \in Seq(Triggers)
  <2>1. on.delayed \in Seq(Triggers)
    BY <1>5, StateIs DEF GoodStates
  <2>2. c \in Creatures => [watch |-> a, sacrifice |-> c] \in Triggers
    BY <1>2, Kinds DEF Triggers, CardOrNone
  <2> QED BY <1>6, <2>1, <2>2, AppendIs
<1> QED BY <1>1, <1>5, <1>7, DelayedKeeps

\* An Aura is on the battlefield when it is attached.
LEMMA ResolveSpellKeeps ==
    ASSUME NEW s \in GoodStates, NEW c \in Cards, NEW target, c \in Auras => target \in Cards,
           c \in OnStack(s)
    PROVE  ResolveSpell(s, c, target) \in GoodStates
<1> DEFINE in == MoveCard(s, c, "stack", "battlefield", Owner[c])
<1>1. /\ Owner[c] \in Players /\ "stack" \in Zones /\ "graveyard" \in Zones \ {"stack"}
      /\ "battlefield" \in Zones \ {"stack"} /\ "battlefield" \notin Piles
  BY Kinds DEF Zones, Piles
<1>2. IsIn(s, c, "stack", Owner[c])
  BY DEF IsIn, OnStack
<1>3. in \in GoodStates /\ in = Moved(s, c, "stack", "battlefield", Owner[c])
  BY <1>1, MoveCardKeeps
<1>4. c \in On(Moved(s, c, "stack", "battlefield", Owner[c]))
  BY <1>1, <1>2, MovedKeeps
<1>5. ResolveSpell(s, c, target) =
        IF c \notin Auras THEN in
        ELSE IF target \in On(in) THEN AttachAura(in, c, target)
        ELSE IF FindZone(in, target) = "graveyard" THEN ReanimateAuraTarget(in, c, target)
        ELSE MoveCard(in, c, "battlefield", "graveyard", Owner[c])
  BY DEF ResolveSpell
<1> HIDE DEF in
<1>6. c \in On(in)
  BY <1>3, <1>4
<1>7. c \in Auras => AttachAura(in, c, target) \in GoodStates
  BY <1>3, <1>6, AttachAuraKeeps
<1>8. c \in Auras /\ FindZone(in, target) = "graveyard" =>
        ReanimateAuraTarget(in, c, target) \in GoodStates
  BY <1>3, <1>6, FindZoneIs, ReanimateKeeps
<1>9. MoveCard(in, c, "battlefield", "graveyard", Owner[c]) \in GoodStates
  BY <1>1, <1>3, MoveCardKeeps
<1> QED BY <1>3, <1>5, <1>7, <1>8, <1>9

\* Nothing to fire, nothing fired.
LEMMA NothingFires ==
    ASSUME NEW m
    PROVE  FoldLeft(LAMBDA a, t : Fire(a, t, MoveOther), m, <<>>) = m
<1> DEFINE none == {}
           only == {m}
<1>1. <<>> \in Seq(none) /\ m \in only /\ \A a \in only, x \in none : Fire(a, x, MoveOther) \in only
  OBVIOUS
<1> HIDE DEF none, only
<1> QED BY <1>1, FireOtherEach, Zenon

\* A card that is cast is alone on the stack, with its target.
LEMMA CastKeeps ==
    ASSUME NEW s \in GoodStates, s.stack = <<>>, NEW c \in Cards, NEW zone \in {"hand", "exile"},
           c \in s.piles[Owner[c]][zone], NEW target \in CardOrNone,
           c \in Auras => target \in Cards, NEW m, m = MoveCard(s, c, zone, "stack", Owner[c])
    PROVE  [m EXCEPT !.stack[Len(m.stack)].target = target] \in GoodStates
<1> DEFINE u == Take(s, c, zone, Owner[c])
           v == Put(u, c, "stack", Owner[c])
           may == IF zone = "exile" THEN v.mayPlay \ {c} ELSE v.mayPlay
           t == [m EXCEPT !.stack[Len(m.stack)].target = target]
           item == [card |-> c, target |-> target]
<1>1. /\ s \in States /\ PlacedBut(s, {}) /\ Unmarked(s) /\ Explained(s)
      /\ Owner[c] \in Players /\ zone \in Piles /\ zone \notin {"battlefield", "stack"}
  BY Kinds DEF GoodStates, Piles
<1>2. IsIn(s, c, zone, Owner[c])
  BY <1>1 DEF IsIn
<1>3. Moved(s, c, zone, "stack", Owner[c]) = [v EXCEPT !.mayPlay = may]
  BY <1>1, <1>2 DEF Moved
<1>4. m = [v EXCEPT !.mayPlay = may]
  <2>1. Fires(Moved(s, c, zone, "stack", Owner[c]), c, zone, "stack") = <<>>
    BY <1>1 DEF Fires
  <2>2. MoveCard(s, c, zone, "stack", Owner[c]) = Moved(s, c, zone, "stack", Owner[c])
    BY <1>2, <2>1, NothingFires DEF MoveCard
  <2> QED BY <1>3, <2>2
<1>5. /\ u \in States /\ PlacedBut(u, {c}) /\ On(u) = On(s) \ {c} /\ SameRest(s, u)
  BY <1>1, <1>2, TakenFromPile
<1>6. u.stack = <<>>
  BY <1>1 DEF Take, States
<1> HIDE DEF u
<1>7. v = [u EXCEPT !.stack = <<[card |-> c, target |-> None]>>]
  <2>1. v = [u EXCEPT !.stack = Append(u.stack, [card |-> c, target |-> None])]
    BY <1>5 DEF Put, States
  <2>2. Append(<<>>, [card |-> c, target |-> None]) = <<[card |-> c, target |-> None]>>
    OBVIOUS
  <2> QED BY <1>6, <2>1, <2>2
<1>8. v.mayPlay = u.mayPlay
  BY <1>5, <1>7 DEF States
<1> HIDE DEF v
<1>9. m = [u EXCEPT !.stack = <<[card |-> c, target |-> None]>>, !.mayPlay = may]
  BY <1>4, <1>5, <1>7 DEF States
<1>10. may \in SUBSET Cards
  BY <1>5, <1>8, StateIs
<1> HIDE DEF may
<1>11. m.stack = <<[card |-> c, target |-> None]>>
  BY <1>5, <1>9 DEF States
<1>12. [m.stack EXCEPT ![Len(m.stack)].target = target] = <<item>>
  <2>1. Len(m.stack) = 1
    BY <1>11
  <2> QED BY <1>11, <2>1
<1>13. t = [m EXCEPT !.stack = <<item>>]
  <2>1. t = [m EXCEPT !.stack = [m.stack EXCEPT ![Len(m.stack)].target = target]]
    BY <1>5, <1>9 DEF States
  <2> QED BY <1>12, <2>1
<1>14. t = [u EXCEPT !.stack = <<item>>, !.mayPlay = may]
  BY <1>5, <1>9, <1>13 DEF States
<1>15. item \in Items /\ <<item>> \in Seq(Items)
  BY DEF Items, CardOrNone
<1>16. /\ t \in States /\ t.field = u.field /\ t.stack = <<item>> /\ t.piles = u.piles
       /\ t.ctrl = u.ctrl /\ t.card = u.card /\ t.taken = u.taken
  <2> HIDE DEF item, t
  <2> QED BY <1>5, <1>10, <1>14, <1>15 DEF States
<1> HIDE DEF t
<1>17. OnStack(t) = {c}
  <2>1. DOMAIN t.stack = {1} /\ t.stack[1].card = c
    BY <1>16
  <2> QED BY <2>1 DEF OnStack
<1>18. On(t) = On(u)
  BY <1>16 DEF On
<1>19. ~Somewhere(u, c)
  BY <1>5 DEF PlacedBut
<1>20. PlacedBut(t, {})
  <2>1. \A d \in Cards : d \notin {} <=> Somewhere(t, d)
    <3> SUFFICES ASSUME NEW d \in Cards PROVE Somewhere(t, d)
      OBVIOUS
    <3>1. CASE d = c
      BY <1>17, <3>1 DEF Somewhere
    <3>2. CASE d # c
      <4>1. Somewhere(u, d) /\ d \notin OnStack(u)
        BY <1>5, <1>6, <3>2 DEF PlacedBut, OnStack
      <4> QED BY <1>16, <1>18, <4>1 DEF Somewhere
    <3> QED BY <3>1, <3>2
  <2>2. On(t) \intersect OnStack(t) = {}
    BY <1>17, <1>18, <1>19 DEF Somewhere
  <2>3. \A i, j \in DOMAIN t.stack : i = j
    BY <1>16
  <2>4. \A p \in Players, z \in Piles : \A d \in t.piles[p][z] :
          Owner[d] = p /\ d \notin On(t) /\ d \notin OnStack(t)
    BY <1>5, <1>16, <1>17, <1>18, <1>19 DEF PlacedBut, Somewhere
  <2> QED BY <1>5, <1>16, <2>1, <2>2, <2>3, <2>4 DEF PlacedBut
<1>21. On(t) = On(s)
  <2>1. c \notin On(s)
    BY <1>1, <1>2 DEF IsIn, PlacedBut
  <2> QED BY <1>5, <1>18, <2>1
<1>22. Unmarked(t) /\ Explained(t)
  BY <1>1, <1>5, <1>16, <1>21 DEF Unmarked, Explained, Cause, SameRest
<1> QED BY <1>16, <1>20, <1>22 DEF GoodStates, t

-----------------------------------------------------------------------------
(* The start.                                                               *)

\* A finite set can be listed, each member once.
LEMMA SetToSeqLists ==
    ASSUME NEW S, IsFiniteSet(S)
    PROVE  SetToSeq(S) \in Seq(S) /\ Once(SetToSeq(S)) /\ ToSet(SetToSeq(S)) = S
<1> DEFINE n == Cardinality(S)
           f == SetToSeq(S)
<1>1. n \in Nat /\ ExistsBijection(1..n, S)
  BY FS_CardinalityType
<1>2. PICK h \in [1..n -> S] : \A i, j \in 1..n : h[i] = h[j] => i = j
  BY <1>1 DEF ExistsBijection, Bijection, Injection, IsInjective
<1>3. \E h2 \in [1..n -> S] : IsInjective(h2)
  BY <1>2 DEF IsInjective
<1>4. f \in [1..n -> S] /\ IsInjective(f)
  BY <1>3 DEF SetToSeq
<1> HIDE DEF f
<1>5. \A i, j \in 1..n : f[i] = f[j] => i = j
  BY <1>4 DEF IsInjective
<1>6. f \in Injection(1..n, S)
  BY <1>4, <1>5 DEF Injection, IsInjective
<1>7. Cardinality(1..n) = n
  BY <1>1, FS_Interval
<1>8. f \in Surjection(1..n, S)
  BY <1>6, <1>7, FS_Injection
<1>9. f \in Seq(S) /\ DOMAIN f = 1..n
  BY <1>1, <1>4
<1>10. ToSet(f) = S
  BY <1>4, <1>8, <1>9 DEF ToSet, Surjection
<1> QED BY <1>5, <1>9, <1>10 DEF Once, f

\* At the start every card is in its place.
LEMMA StartIsGood == Start \in GoodStates
<1> DEFINE piles == [p \in Players |-> [z \in Piles |->
                       IF z = "hand" THEN {c \in InHand : Owner[c] = p} ELSE {}]]
<1>1. IsFiniteSet(Cards \ InHand) /\ InHand \subseteq Cards /\ Owner \in [Cards -> Players]
  BY Kinds, FS_Subset
<1>2. /\ Start.field \in Seq(Cards \ InHand) /\ Once(Start.field)
      /\ ToSet(Start.field) = Cards \ InHand
  BY <1>1, SetToSeqLists DEF Start
<1>3. Start.field \in Seq(Cards)
  BY <1>2
<1>4. piles \in [Players -> [Piles -> SUBSET Cards]]
  BY <1>1
<1>5. /\ Start.piles = piles /\ Start.stack = <<>> /\ Start.ctrl = Owner
      /\ Start.card = [c \in Cards |-> Fresh]
  BY DEF Start
<1>6. [c \in Cards |-> Fresh] \in [Cards -> CardStates]
  BY FreshIs
<1>7. Start \in States
  <2>1. Start.field = SetToSeq(Cards \ InHand)
    BY DEF Start
  <2>2. <<>> \in Seq(Items) /\ <<>> \in Seq(Triggers)
    OBVIOUS
  <2> QED BY <1>1, <1>3, <1>4, <1>6, <2>1, <2>2 DEF Start, States
<1>8. On(Start) = Cards \ InHand /\ OnStack(Start) = {}
  BY <1>2, <1>5 DEF On, OnStack
<1>9. \A p \in Players, z \in Piles :
        piles[p][z] = IF z = "hand" THEN {c \in InHand : Owner[c] = p} ELSE {}
  OBVIOUS
<1> HIDE DEF piles
<1>10. \A p \in Players, z \in Piles : \A c \in piles[p][z] : z = "hand" /\ c \in InHand /\ Owner[c] = p
  <2> SUFFICES ASSUME NEW p \in Players, NEW z \in Piles, NEW c \in piles[p][z]
               PROVE  z = "hand" /\ c \in InHand /\ Owner[c] = p
    OBVIOUS
  <2>1. piles[p][z] = IF z = "hand" THEN {d \in InHand : Owner[d] = p} ELSE {}
    BY <1>9
  <2> QED BY <2>1
<1>11. \A c \in Cards : Somewhere(Start, c)
  <2> SUFFICES ASSUME NEW c \in Cards, c \in InHand PROVE c \in piles[Owner[c]]["hand"]
    BY <1>5, <1>8 DEF Somewhere, Piles
  <2>1. Owner[c] \in Players /\ "hand" \in Piles
    BY <1>1 DEF Piles
  <2> QED BY <1>9, <2>1
<1>12. PlacedBut(Start, {})
  <2>1. \A i, j \in DOMAIN Start.stack : Start.stack[i].card = Start.stack[j].card => i = j
    BY <1>5
  <2> QED BY <1>2, <1>5, <1>8, <1>10, <1>11, <2>1 DEF PlacedBut
<1>13. Unmarked(Start) /\ Explained(Start)
  <2>1. Fresh.grant = None /\ ~Fresh.animated
    BY DEF Fresh
  <2> QED BY <1>1, <1>5, <2>1 DEF Unmarked, Explained
<1> QED BY <1>7, <1>12, <1>13 DEF GoodStates

-----------------------------------------------------------------------------
(* What every step does.                                                    *)

\* The inductive invariant.
BoardInv == g \in GoodStates /\ left \in Nat

\* A resolution from a good state ends in one, and settles it unless the game is over.
Outcome ==
    /\ g' \in GoodStates /\ left' \in Nat
    /\ ~g'.aborted => /\ AurasAgree(g') /\ EquipmentOnCreatures(g')
                      /\ OneSource => GrantsFollowTheirSource(g')

LEMMA ResolveKeeps ==
    ASSUME left \in Nat, left > 0, NEW s \in GoodStates, Resolve(s)
    PROVE  Outcome
<1>1. left' \in Nat
  BY DEF Resolve
<1>2. CASE s.aborted
  BY <1>1, <1>2 DEF Resolve, Outcome
<1>3. CASE ~s.aborted
  <2>1. g' = CheckStateBasedActions(s)
    BY <1>3 DEF Resolve
  <2>2. /\ g' \in SettledStates /\ EquipmentOnCreatures(g')
        /\ OneSource => GrantsFollowTheirSource(g')
    BY <2>1, PassKeeps
  <2> QED BY <1>1, <2>2 DEF Outcome, SettledStates
<1> QED BY <1>2, <1>3

\* Effects aimed at one permanent.
LEMMA TargetedKeeps ==
    ASSUME BoardInv, NEW c \in On(g), NEW o \in Targeted(c)
    PROVE  o \in GoodStates
<1>1. /\ g \in GoodStates /\ c \in Cards
      /\ On(g) \subseteq Cards /\ g.ctrl \in [Cards -> Players]
  BY StateIs DEF BoardInv, GoodStates
<1>2. CASE \E no \in BOOLEAN : o = Destroy(g, c, no)
  BY <1>1, <1>2, DestroyKeeps
<1>3. CASE o = ReturnPermanentToHand(g, c)
  BY <1>1, <1>3, BounceKeeps DEF ReturnPermanentToHand
<1>4. CASE o = ExilePermanent(g, c)
  BY <1>1, <1>4, BounceKeeps DEF ExilePermanent
<1>5. CASE o = Airbend(g, c)
  BY <1>1, <1>5, AirbendKeeps
<1>6. CASE o = DealDamage(g, c)
  BY <1>1, <1>6, DealDamageKeeps
<1>7. CASE o = Regenerate(g, c)
  BY <1>1, <1>7, RegenerateKeeps
<1>8. CASE o = ExileIfWouldDie(g, c)
  BY <1>1, <1>8, ExileIfWouldDieKeeps
<1>9. CASE o = RemoveCounter(g, c)
  BY <1>1, <1>9, RemoveCounterKeeps
<1>10. CASE o = PutCounter(g, c)
  BY <1>1, <1>10, PutCounterKeeps
<1>11. CASE \E d \in On(g) \ {c} : Creature(g, c) /\ Creature(g, d) /\ o = Fight(g, c, d)
  BY <1>1, <1>11, FightKeeps
<1>12. CASE \E p \in Players : g.ctrl[c] # p /\ Creature(g, c) /\ o = GainControl(g, c, p)
  BY <1>1, <1>12, GainControlKeeps
<1>13. CASE c \in Lands /\ o = Earthbend(g, c)
  BY <1>1, <1>13, EarthbendKeeps
<1>14. CASE \E s \in Sources \intersect On(g) : s # c /\ o = GrantControl(g, c, g.ctrl[s], s)
  <2>1. PICK s \in Sources \intersect On(g) : s # c /\ o = GrantControl(g, c, g.ctrl[s], s)
    BY <1>14
  <2>2. s \in Sources \ {c} /\ g.ctrl[s] \in Players
    BY <1>1, <2>1
  <2> QED BY <1>1, <2>1, <2>2, GrantControlKeeps
<1>15. CASE \E e \in Equipment \intersect On(g) : o = AttachEquipment(g, e, c)
  <2>1. PICK e \in Equipment \intersect On(g) : o = AttachEquipment(g, e, c)
    BY <1>15
  <2>2. e \in Cards
    BY <1>1, <2>1
  <2> QED BY <1>1, <2>1, <2>2, AttachEquipmentKeeps
<1> QED
  BY <1>2, <1>3, <1>4, <1>5, <1>6, <1>7, <1>8, <1>9, <1>10, <1>11, <1>12, <1>13, <1>14, <1>15
     DEF Targeted, AimedAtCreature, Provided

\* Every step that resolves something.
LEMMA ResolutionKeeps ==
    ASSUME BoardInv, OneTarget \/ Mass \/ Return \/ ResolveTop
    PROVE  Outcome
<1>1. g \in GoodStates /\ left \in Nat
  BY DEF BoardInv
<1>2. CASE OneTarget
  <2>1. left > 0 /\ \E c \in On(g) : \E o \in Targeted(c) : Resolve(o)
    BY <1>2 DEF OneTarget, Going
  <2> QED BY <1>1, <2>1, TargetedKeeps, ResolveKeeps
<1>3. CASE Mass
  <2>1. left > 0 /\ \E o \in Swept : Resolve(o)
    BY <1>3 DEF Mass, Going
  <2>2. \A o \in Swept : o \in GoodStates
    BY <1>1, MassKeeps, DamageAllKeeps DEF Swept
  <2> QED BY <1>1, <2>1, <2>2, ResolveKeeps
<1>4. CASE Return
  <2>1. left > 0
    BY <1>4 DEF Return, Going
  <2>2. PICK p \in Players : \E o \in Reentered(p) : Resolve(o)
    BY <1>4 DEF Return
  <2>3. Creatures \subseteq Cards
    BY Kinds
  <2>4. \A c \in Creatures, gain \in BOOLEAN :
          ReturnFromGraveyard(g, c, p, gain) \in GoodStates /\ PutFromHand(g, c, p) \in GoodStates
    BY <1>1, <2>3, ReturnsKeep
  <2>5. \A o \in Reentered(p) : o \in GoodStates
    BY <2>4 DEF Reentered
  <2> QED BY <1>1, <2>1, <2>2, <2>5, ResolveKeeps
<1>5. CASE ResolveTop
  <2> DEFINE top == Last(g.stack)
  <2>1. left > 0 /\ g.stack # <<>> /\ Resolve(ResolveSpell(g, top.card, top.target))
    BY <1>5 DEF ResolveTop, Going
  <2>2. g.stack \in Seq(Items)
    BY <1>1, StateIs DEF GoodStates
  <2>3. Len(g.stack) \in DOMAIN g.stack
    BY <2>1, <2>2
  <2>4. top \in Items /\ top.card \in OnStack(g)
    BY <2>2, <2>3 DEF Last, OnStack
  <2> HIDE DEF top
  <2>5. top.card \in Cards /\ (top.card \in Auras => top.target \in Cards)
    BY <2>4 DEF Items
  <2>6. ResolveSpell(g, top.card, top.target) \in GoodStates
    BY <1>1, <2>4, <2>5, ResolveSpellKeeps
  <2> QED BY <1>1, <2>1, <2>6, ResolveKeeps
<1> QED BY <1>2, <1>3, <1>4, <1>5

\* The steps that no pass follows.
LEMMA OthersKeep ==
    ASSUME BoardInv, Cast \/ PlayLand \/ Cleanup
    PROVE  g' \in GoodStates /\ left' = left
<1>1. g \in GoodStates /\ g \in States
  BY DEF BoardInv, GoodStates
<1>2. CASE Cast
  <2>1. PICK c \in Cards \ Lands : \E t \in Targets(c) :
          \/ c \in g.piles[Owner[c]]["hand"] /\ CastFrom("hand", c, t)
          \/ c \in g.piles[Owner[c]]["exile"] \intersect g.mayPlay /\ CastFrom("exile", c, t)
    BY <1>2 DEF Cast
  <2>2. PICK t \in Targets(c) :
          \/ c \in g.piles[Owner[c]]["hand"] /\ CastFrom("hand", c, t)
          \/ c \in g.piles[Owner[c]]["exile"] \intersect g.mayPlay /\ CastFrom("exile", c, t)
    BY <2>1
  <2>3. PICK zone \in {"hand", "exile"} : c \in g.piles[Owner[c]][zone] /\ CastFrom(zone, c, t)
    BY <2>2
  <2>4. g.stack = <<>>
    BY <1>2 DEF Cast
  <2>5. t \in CardOrNone /\ (c \in Auras => t \in Cards)
    <3>1. On(g) \subseteq Cards /\ Creatures \subseteq Cards
      BY <1>1, StateIs, Kinds
    <3>2. c \in Auras => c \in StealAuras \/ c \in RaiseAuras
      BY DEF Auras
    <3> QED BY <3>1, <3>2 DEF Targets, CardOrNone
  <2> DEFINE m == MoveCard(g, c, zone, "stack", Owner[c])
  <2>6. g' = [m EXCEPT !.stack[Len(m.stack)].target = t] /\ left' = left
    BY <2>3 DEF CastFrom
  <2>7. \A n : n = m => [n EXCEPT !.stack[Len(n.stack)].target = t] \in GoodStates
    <3> HIDE DEF m
    <3> QED BY <1>1, <2>3, <2>4, <2>5, CastKeeps DEF m
  <2> HIDE DEF m
  <2> QED BY <2>6, <2>7
<1>3. CASE PlayLand
  <2>1. PICK c \in Lands : g' = MoveCard(g, c, "hand", "battlefield", Owner[c])
    BY <1>3 DEF PlayLand
  <2>2. /\ c \in Cards /\ Owner[c] \in Players /\ "hand" \in Zones
        /\ "battlefield" \in Zones \ {"stack"} /\ "battlefield" \notin Piles
    BY Kinds DEF Zones, Piles
  <2>3. left' = left
    BY <1>3 DEF PlayLand
  <2> QED BY <1>1, <2>1, <2>2, <2>3, MoveCardKeeps
<1>4. CASE Cleanup
  BY <1>1, <1>4, CleanupKeeps DEF Cleanup
<1> QED BY <1>2, <1>3, <1>4

LEMMA InitGood == Init => BoardInv
BY StartIsGood, BoardAssumption DEF Init, BoardInv

\* Every step keeps the invariant, and a step with a pass leaves control explained.
LEMMA StepGood ==
    ASSUME BoardInv, [Next]_vars
    PROVE  /\ BoardInv'
           /\ Settles => /\ AurasAgree(g') /\ EquipmentOnCreatures(g')
                         /\ OneSource => GrantsFollowTheirSource(g')
<1>1. CASE OneTarget \/ Mass \/ Return \/ ResolveTop
  BY <1>1, ResolutionKeeps DEF Outcome, BoardInv, Settles
<1>2. CASE Cast \/ PlayLand \/ Cleanup
  <2>1. g' \in GoodStates /\ left' = left /\ left \in Nat
    BY <1>2, OthersKeep DEF BoardInv
  <2> QED BY <2>1 DEF BoardInv, Settles
<1>3. CASE UNCHANGED vars
  <2>1. g' = g /\ left' = left /\ left \in Nat
    BY <1>3 DEF vars, BoardInv
  <2> QED BY <2>1 DEF BoardInv, Settles
<1> QED BY <1>1, <1>2, <1>3 DEF Next

-----------------------------------------------------------------------------
(* The theorems.                                                            *)

\* The board keeps its types, every card its one zone and every theft its cause, through
\* every effect, every move, every trigger and every pass.
THEOREM BoardIsGood == Spec => []BoardInv
<1>1. Init => BoardInv
  BY InitGood
<1>2. BoardInv /\ [Next]_vars => BoardInv'
  BY StepGood
<1> QED BY <1>1, <1>2, PTL DEF Spec

\* A set with at most one member counts 0 or 1.
LEMMA CountsOne ==
    ASSUME NEW S, NEW x, \A y \in S : y = x
    PROVE  Cardinality(S) = IF x \in S THEN 1 ELSE 0
<1>1. CASE x \in S
  <2>1. S = {x}
    BY <1>1
  <2> QED BY <1>1, <2>1, FS_Singleton
<1>2. CASE x \notin S
  <2>1. S = {}
    BY <1>2
  <2> QED BY <1>2, <2>1, FS_EmptySet
<1> QED BY <1>1, <1>2

\* In a good state every card is counted once.
LEMMA GoodAccounts == BoardInv => CardsAccountedFor
<1> SUFFICES ASSUME BoardInv PROVE CardsAccountedFor
  OBVIOUS
<1>1. g \in States /\ PlacedBut(g, {}) /\ Unmarked(g)
  BY DEF BoardInv, GoodStates
<1>2. NothingFollowsACard
  BY <1>1 DEF NothingFollowsACard, Unmarked, Of
<1>3. ASSUME NEW c \in Cards
      PROVE  Cardinality({i \in DOMAIN g.field : g.field[i] = c})
           + Cardinality({i \in DOMAIN g.stack : g.stack[i].card = c})
           + Cardinality({pz \in Players \X Piles : c \in g.piles[pz[1]][pz[2]]}) = 1
  <2> DEFINE F == {i \in DOMAIN g.field : g.field[i] = c}
             S == {i \in DOMAIN g.stack : g.stack[i].card = c}
             P == {pz \in Players \X Piles : c \in g.piles[pz[1]][pz[2]]}
  <2>1. Somewhere(g, c) /\ Owner[c] \in Players
    BY <1>1, Kinds DEF PlacedBut
  <2>2. (c \in On(g) <=> F # {}) /\ (c \in OnStack(g) <=> S # {})
    BY DEF On, ToSet, OnStack
  <2>3. (\E z \in Piles : c \in g.piles[Owner[c]][z]) <=> P # {}
    <3>1. \A pz \in P : pz[2] \in Piles /\ c \in g.piles[Owner[c]][pz[2]]
      BY <1>1 DEF PlacedBut
    <3>2. \A z \in Piles : c \in g.piles[Owner[c]][z] => <<Owner[c], z>> \in P
      BY <2>1
    <3> QED BY <3>1, <3>2
  <2>4. /\ \A i, j \in F : i = j
        /\ \A i, j \in S : i = j
    BY <1>1 DEF PlacedBut, Once
  <2>5. \A y, z \in P : y = z
    <3> SUFFICES ASSUME NEW y \in P, NEW z \in P PROVE y = z
      OBVIOUS
    <3>1. /\ y = <<y[1], y[2]>> /\ z = <<z[1], z[2]>>
          /\ y[1] \in Players /\ y[2] \in Piles /\ z[1] \in Players /\ z[2] \in Piles
          /\ c \in g.piles[y[1]][y[2]] /\ c \in g.piles[z[1]][z[2]]
      OBVIOUS
    <3>2. y[1] = z[1]
      BY <1>1, <3>1 DEF PlacedBut
    <3>3. y[2] = z[2]
      BY <1>1, <3>1, <3>2 DEF PlacedBut
    <3> QED BY <3>1, <3>2, <3>3
  <2>6. ~(F # {} /\ S # {}) /\ ~(F # {} /\ P # {}) /\ ~(S # {} /\ P # {})
    BY <1>1, <2>1, <2>2, <2>3 DEF PlacedBut
  <2>7. F # {} \/ S # {} \/ P # {}
    BY <2>1, <2>2, <2>3 DEF Somewhere
  <2>8. ASSUME NEW T, \A x, y \in T : x = y PROVE Cardinality(T) = IF T # {} THEN 1 ELSE 0
    <3>1. CASE T = {}
      BY <3>1, FS_EmptySet
    <3>2. CASE T # {}
      <4>1. PICK x \in T : TRUE
        BY <3>2
      <4>2. \A y \in T : y = x
        BY <2>8
      <4>3. Cardinality(T) = IF x \in T THEN 1 ELSE 0
        BY <4>2, CountsOne
      <4> QED BY <3>2, <4>1, <4>3
    <3> QED BY <3>1, <3>2
  <2> HIDE DEF F, S, P
  <2>9. /\ Cardinality(F) = IF F # {} THEN 1 ELSE 0
        /\ Cardinality(S) = IF S # {} THEN 1 ELSE 0
        /\ Cardinality(P) = IF P # {} THEN 1 ELSE 0
    BY <2>4, <2>5, <2>8
  <2>10. Cardinality(F) + Cardinality(S) + Cardinality(P) = 1
    BY <2>6, <2>7, <2>9
  <2> QED BY <2>10 DEF F, S, P
<1>4. \A p \in Players, z \in Piles : \A c \in g.piles[p][z] : Owner[c] = p
  BY <1>1 DEF PlacedBut
<1> QED BY <1>2, <1>3, <1>4 DEF CardsAccountedFor, OneZoneEach

\* No sequence of moves, triggers and passes loses a card, doubles one or lets it keep
\* what it was on the battlefield.
THEOREM CardsStayAccountedFor == Spec => []CardsAccountedFor
BY BoardIsGood, GoodAccounts, PTL

\* Whoever controls another player's permanent after a pass has a theft, a grant, or an
\* Aura that is on it then.
THEOREM ControlIsCaused == Spec => ControlHasACause
<1>1. ASSUME BoardInv, [Next]_vars, Settles, NEW c \in On(g'), g'.ctrl[c] # Owner[c]
      PROVE  \/ c \in g'.taken
             \/ Of(g', c).grant # None
             \/ /\ Of(g', c).fromAura \in On(g')
                /\ Of(g', Of(g', c).fromAura).attached = c
  <2>1. g' \in GoodStates /\ AurasAgree(g')
    BY <1>1, StepGood DEF BoardInv
  <2>2. Explained(g') /\ c \in Cards
    BY <1>1, <2>1, StateIs DEF GoodStates
  <2>3. Cause(g', c)
    BY <1>1, <2>2 DEF Explained
  <2> QED BY <1>1, <2>1, <2>3 DEF Cause, AurasAgree, Of
<1>2. BoardInv /\ [Next]_vars =>
        (Settles => \A c \in On(g') :
          g'.ctrl[c] # Owner[c] =>
              \/ c \in g'.taken
              \/ Of(g', c).grant # None
              \/ /\ Of(g', c).fromAura \in On(g')
                 /\ Of(g', Of(g', c).fromAura).attached = c)
  BY <1>1
<1> QED BY <1>2, BoardIsGood, PTL DEF Spec, ControlHasACause

\* After a pass no Equipment sits on what is no creature in play.
THEOREM EquipmentSettles == Spec => [][Settles => EquipmentOnCreatures(g')]_vars
<1>1. BoardInv /\ [Next]_vars => (Settles => EquipmentOnCreatures(g'))
  BY StepGood
<1> QED BY <1>1, BoardIsGood, PTL DEF Spec

\* With one card that grants control for as long as it is controlled, the one round of
\* checks settles the grants too.  With two it need not: the grant of a permanent that
\* is visited before its source is lost to its own owner lapses in the next pass.
THEOREM PassSettlesWithOneSource ==
    ASSUME OneSource
    PROVE  Spec => PassSettles
<1>1. BoardInv /\ [Next]_vars =>
        (Settles => EquipmentOnCreatures(g') /\ GrantsFollowTheirSource(g'))
  BY StepGood
<1> QED BY <1>1, BoardIsGood, PTL DEF Spec, PassSettles

-----------------------------------------------------------------------------
(* What an Aura raised goes with the Aura.                                  *)

\* The triggers that take a creature along with an Aura.
Ties == {t \in Triggers : t.sacrifice # None}

\* The Aura is in play and its trigger is registered, or both cards are gone.
Bound(t) == {s \in GoodStates : t \in ToSet(s.delayed) /\ t.watch \in On(s)}
Gone(t) == {s \in GoodStates : t.watch \notin On(s) /\ t.sacrifice \notin On(s)}
Tied(t) == Bound(t) \union Gone(t)

\* A list without members.
LEMMA NothingListed ==
    ASSUME NEW list \in Seq({})
    PROVE  list = <<>>
<1>1. Len(list) \in Nat /\ DOMAIN list = 1..Len(list) /\ \A i \in 1..Len(list) : list[i] \in {}
  OBVIOUS
<1>2. Len(list) = 0
  BY <1>1
<1> QED BY <1>2

\* A list of what is in it.
LEMMA ListOfMembers ==
    ASSUME NEW Y, NEW list \in Seq(Y), NEW X, ToSet(list) \subseteq X
    PROVE  list \in Seq(X)
<1>1. \A i \in 1..Len(list) : list[i] \in X
  BY DEF ToSet
<1> QED BY <1>1

\* What fires was registered and watches the card.
LEMMA FiresWhat ==
    ASSUME NEW s \in GoodStates, NEW c, NEW from, NEW to
    PROVE  /\ Fires(s, c, from, to) \in Seq({u \in Triggers : u.watch = c})
           /\ from = "battlefield" => \A t \in ToSet(s.delayed) :
                t.watch = c /\ t.sacrifice # None => t \in ToSet(Fires(s, c, from, to))
           /\ \A u \in ToSet(Fires(s, c, from, to)) : u.sacrifice = None => to \in {"graveyard", "exile"}
<1> DEFINE S == {t \in ToSet(s.delayed) : /\ t.watch = c
                                          /\ t.sacrifice = None => to \in {"graveyard", "exile"}}
           all == {u \in Triggers : u.watch = c}
<1>1. s.delayed \in Seq(Triggers)
  BY StateIs DEF GoodStates
<1>2. Fires(s, c, from, to) = IF from # "battlefield" THEN <<>> ELSE Kept(s.delayed, S)
  BY DEF Fires
<1>3. ToSet(s.delayed) \subseteq Triggers
  BY <1>1 DEF ToSet
<1>4. \A u : u \in S <=> /\ u \in ToSet(s.delayed) /\ u.watch = c
                         /\ u.sacrifice = None => to \in {"graveyard", "exile"}
  OBVIOUS
<1> HIDE DEF S
<1>5. Kept(s.delayed, S) \in Seq(Triggers) /\ ToSet(Kept(s.delayed, S)) = ToSet(s.delayed) \intersect S
  BY <1>1, KeptKeeps
<1>6. ToSet(Kept(s.delayed, S)) \subseteq all
  BY <1>3, <1>4, <1>5
<1>7. Kept(s.delayed, S) \in Seq(all)
  <2> HIDE DEF all
  <2> QED BY <1>5, <1>6, ListOfMembers
<1>8. <<>> \in Seq(all) /\ ToSet(<<>>) = {}
  BY DEF ToSet
<1> QED BY <1>2, <1>4, <1>5, <1>7, <1>8

\* Nothing watches a creature, and a land that enters fires nothing.
LEMMA MoveOtherAlone ==
    ASSUME NEW s \in GoodStates, NEW c \in Cards, NEW from \in Zones,
           NEW to \in Zones \ {"stack"}, NEW p \in Players, to \in Piles => p = Owner[c],
           c \in Creatures \/ (c \in Lands /\ to = "battlefield")
    PROVE  MoveOther(s, c, from, to, p) = Moved(s, c, from, to, p)
<1> DEFINE m == Moved(s, c, from, to, p)
           list == Fires(m, c, from, to)
           none == {}
           only == {m}
<1>1. MoveOther(s, c, from, to, p) =
        IF ~IsIn(s, c, from, p) THEN m ELSE FoldLeft(LAMBDA a, t : Fire(a, t, Moved), m, list)
  BY DEF MoveOther
<1>2. m \in GoodStates
  BY MovedKeeps
<1> HIDE DEF m
<1>3. /\ list \in Seq({u \in Triggers : u.watch = c})
      /\ \A u \in ToSet(list) : u.sacrifice = None => to \in {"graveyard", "exile"}
  BY <1>2, FiresWhat
<1> HIDE DEF list
<1>4. \A u \in {v \in Triggers : v.watch = c} : c \in Lands /\ u.sacrifice = None
  BY Kinds DEF Triggers
<1>5. list \in Seq(none)
  <2>1. ToSet(list) \subseteq {u \in Triggers : u.watch = c}
    BY <1>3 DEF ToSet
  <2>2. ToSet(list) = {}
    BY <1>3, <1>4, <2>1, Kinds
  <2> QED BY <1>3, <2>2, ListOfMembers
<1>6. m \in only /\ \A a \in only, x \in none : Fire(a, x, Moved) \in only
  OBVIOUS
<1>7. list = <<>>
  BY <1>5, NothingListed
<1> HIDE DEF none, only
<1>8. FoldLeft(LAMBDA a, t : Fire(a, t, Moved), m, list) = m
  BY <1>5, <1>6, <1>7, FireMovedEach
<1> QED BY <1>1, <1>8 DEF m

\* A card that enters is the only one that does.
LEMMA EnteringDoes ==
    ASSUME NEW s \in GoodStates, NEW c \in Cards, NEW from \in Zones, NEW p \in Players
    PROVE  /\ Moved(s, c, from, "battlefield", p).delayed = s.delayed
           /\ On(s) \subseteq On(Moved(s, c, from, "battlefield", p))
           /\ On(Moved(s, c, from, "battlefield", p)) \subseteq On(s) \union {c}
<1>1. "battlefield" \in Zones \ {"stack"} /\ "battlefield" \notin Piles
  BY DEF Zones, Piles
<1>2. /\ Moved(s, c, from, "battlefield", p).delayed = s.delayed
      /\ On(Moved(s, c, from, "battlefield", p)) =
           IF IsIn(s, c, from, p) THEN (On(s) \ {c}) \union {c} ELSE On(s)
  BY <1>1, MovedKeeps
<1> QED BY <1>2

\* A trigger that fires is spent, takes no card but a creature from the battlefield
\* and puts none but a land there; if it is a tie its creature goes.
LEMMA FireDoes ==
    ASSUME NEW s \in GoodStates, NEW u \in Triggers
    PROVE  /\ Fire(s, u, MoveOther) \in GoodStates
           /\ On(s) \ Creatures \subseteq On(Fire(s, u, MoveOther))
           /\ On(Fire(s, u, MoveOther)) \subseteq On(s) \union Lands
           /\ \A e \in ToSet(s.delayed) : e # u => e \in ToSet(Fire(s, u, MoveOther).delayed)
           /\ u \in ToSet(s.delayed) /\ u.sacrifice # None => u.sacrifice \notin On(Fire(s, u, MoveOther))
<1> DEFINE rest == [s EXCEPT !.delayed = RemoveFirst(s.delayed, u)]
           v == CHOOSE v \in FiredMove(rest, u) : TRUE
           r == Fire(s, u, MoveOther)
<1>1. r = IF ~Contains(s.delayed, u) THEN s
          ELSE IF FiredMove(rest, u) = {} THEN rest
          ELSE MoveOther(rest, v.card, v.from, v.to, Owner[v.card])
  BY DEF Fire
<1>2. /\ s.delayed \in Seq(Triggers) /\ RemoveFirst(s.delayed, u) \in Seq(Triggers)
      /\ \A e \in ToSet(s.delayed) : e # u => e \in ToSet(RemoveFirst(s.delayed, u))
  BY StateIs, RemoveFirstIs DEF GoodStates
<1>3. /\ rest \in GoodStates /\ On(rest) = On(s) /\ rest.delayed = RemoveFirst(s.delayed, u)
  <2>1. rest \in GoodStates /\ On(rest) = On(s)
    BY <1>2, DelayedKeeps
  <2> QED BY <2>1 DEF GoodStates, States
<1>4. Contains(s.delayed, u) <=> u \in ToSet(s.delayed)
  BY DEF Contains, ToSet
<1>5. r \in GoodStates
  BY FireOtherKeeps
<1> HIDE DEF rest, r
<1>6. CASE ~Contains(s.delayed, u)
  BY <1>1, <1>4, <1>5, <1>6 DEF r
<1>7. CASE Contains(s.delayed, u) /\ FiredMove(rest, u) = {}
  <2>1. r = rest
    BY <1>1, <1>7
  <2>2. u.sacrifice # None => u.sacrifice \notin On(rest)
    BY <1>7 DEF FiredMove
  <2> QED BY <1>2, <1>3, <1>5, <2>1, <2>2 DEF r
<1>8. CASE Contains(s.delayed, u) /\ FiredMove(rest, u) # {}
  <2>1. v \in FiredMove(rest, u) /\ r = MoveOther(rest, v.card, v.from, v.to, Owner[v.card])
    BY <1>1, <1>8
  <2> HIDE DEF v
  <2>2. /\ v.card \in Cards /\ v.from \in Zones /\ v.to \in Zones \ {"stack"}
        /\ Owner[v.card] \in Players
    BY <1>3, <2>1, FiredMoveIs
  <2>3. CASE u.sacrifice = None
    <3>1. v = [card |-> u.watch, from |-> FindZone(rest, u.watch), to |-> "battlefield"]
      BY <2>1, <2>3 DEF FiredMove
    <3>2. v.card \in Lands /\ v.to = "battlefield"
      BY <2>3, <3>1 DEF Triggers
    <3>3. r = Moved(rest, v.card, v.from, "battlefield", Owner[v.card])
      <4>1. r = Moved(rest, v.card, v.from, v.to, Owner[v.card])
        BY <1>3, <2>1, <2>2, <3>2, MoveOtherAlone
      <4> QED BY <3>2, <4>1
    <3>4. r.delayed = rest.delayed /\ On(rest) \subseteq On(r) /\ On(r) \subseteq On(rest) \union {v.card}
      BY <1>3, <2>2, <3>3, EnteringDoes
    <3> QED BY <1>2, <1>3, <1>5, <2>3, <3>2, <3>4 DEF r
  <2>4. CASE u.sacrifice # None
    <3>1. PICK x \in {u.sacrifice} \intersect On(rest) :
            v = [card |-> x, from |-> "battlefield", to |-> DeathDestination(rest, x)]
      BY <2>1, <2>4 DEF FiredMove
    <3>2. v.card = u.sacrifice /\ v.card \in Creatures /\ v.from = "battlefield" /\ v.to \in Piles
      BY <2>4, <3>1, DeathDestinationIs DEF Triggers
    <3>3. r = Moved(rest, v.card, v.from, v.to, Owner[v.card])
      BY <1>3, <2>1, <2>2, <3>2, MoveOtherAlone
    <3>4. IsIn(rest, v.card, v.from, Owner[v.card]) /\ v.to # "battlefield"
      BY <3>1, <3>2 DEF IsIn, Piles
    <3>5. r.delayed = rest.delayed /\ On(r) = On(rest) \ {v.card}
      BY <1>3, <2>2, <3>3, <3>4, MovedKeeps
    <3> QED BY <1>2, <1>3, <1>5, <3>2, <3>5 DEF r
  <2> QED BY <2>3, <2>4
<1> QED BY <1>6, <1>7, <1>8

\* Besides the card, a move takes only creatures from the battlefield, and puts only
\* lands there; triggers that watch other cards stay.
LEMMA MoveCardDoes ==
    ASSUME NEW s \in GoodStates, NEW c \in Cards, NEW from \in Zones,
           NEW to \in Zones \ {"stack"}, NEW p \in Players, to \in Piles => p = Owner[c]
    PROVE  /\ On(s) \ (Creatures \union {c}) \subseteq On(MoveCard(s, c, from, to, p))
           /\ On(MoveCard(s, c, from, to, p)) \subseteq
                On(s) \union Lands \union IF to = "battlefield" THEN {c} ELSE {}
           /\ \A e \in ToSet(s.delayed) : e.watch # c =>
                e \in ToSet(MoveCard(s, c, from, to, p).delayed)
<1> DEFINE m == Moved(s, c, from, to, p)
           list == Fires(m, c, from, to)
           X == {u \in Triggers : u.watch = c}
           Stay == On(s) \ (Creatures \union {c})
           May == On(s) \union Lands \union IF to = "battlefield" THEN {c} ELSE {}
           Wait == {e \in ToSet(s.delayed) : e.watch # c}
           Y == {r \in GoodStates : Stay \subseteq On(r) /\ On(r) \subseteq May /\ Wait \subseteq ToSet(r.delayed)}
           done == FoldLeft(LAMBDA a, t : Fire(a, t, MoveOther), m, list)
<1>1. MoveCard(s, c, from, to, p) = IF ~IsIn(s, c, from, p) THEN m ELSE done
  BY DEF MoveCard
<1>2. m \in Y
  BY MovedKeeps
<1>3. list \in Seq(X)
  <2>1. m \in GoodStates
    BY <1>2
  <2> HIDE DEF m
  <2> QED BY <2>1, FiresWhat
<1> HIDE DEF m, list
<1>4. ASSUME NEW a \in Y, NEW u \in X PROVE Fire(a, u, MoveOther) \in Y
  <2>1. a \in GoodStates /\ u \in Triggers /\ u.watch = c
    BY <1>4
  <2>2. /\ Fire(a, u, MoveOther) \in GoodStates
        /\ On(a) \ Creatures \subseteq On(Fire(a, u, MoveOther))
        /\ On(Fire(a, u, MoveOther)) \subseteq On(a) \union Lands
        /\ \A e \in ToSet(a.delayed) : e # u => e \in ToSet(Fire(a, u, MoveOther).delayed)
    BY <2>1, FireDoes
  <2> QED BY <2>1, <2>2
<1> HIDE DEF X, Y
<1>5. done \in Y
  BY <1>2, <1>3, <1>4, FireOtherEach
<1> HIDE DEF done
<1>6. MoveCard(s, c, from, to, p) \in Y
  BY <1>1, <1>2, <1>5
<1> QED BY <1>6 DEF Y

\* The Aura that leaves takes its creature along.
LEMMA MoveCardLooses ==
    ASSUME NEW t \in Ties, NEW s \in Bound(t),
           NEW to \in Zones \ {"stack", "battlefield"}, NEW p \in Players,
           to \in Piles => p = Owner[t.watch]
    PROVE  MoveCard(s, t.watch, "battlefield", to, p) \in Gone(t)
<1> DEFINE c == t.watch
           x == t.sacrifice
           m == Moved(s, c, "battlefield", to, p)
           list == Fires(m, c, "battlefield", to)
           X == {u \in Triggers : u.watch = c}
           Y == {r \in GoodStates : c \notin On(r) /\ (t \in ToSet(r.delayed) \/ x \notin On(r))}
           done == FoldLeft(LAMBDA a, u : Fire(a, u, MoveOther), m, list)
<1>1. /\ c \in Auras /\ c \in Cards /\ x \in Creatures /\ c \notin Lands /\ x \notin Lands
      /\ t \in Triggers /\ x # None /\ s \in GoodStates /\ c \in On(s) /\ t \in ToSet(s.delayed)
  BY Kinds DEF Ties, Triggers, Bound
<1>2. MoveCard(s, c, "battlefield", to, p) = done
  <2>1. IsIn(s, c, "battlefield", p)
    BY <1>1 DEF IsIn
  <2> QED BY <2>1 DEF MoveCard
<1>3. m \in GoodStates /\ On(m) = On(s) \ {c} /\ m.delayed = s.delayed
  <2>1. IsIn(s, c, "battlefield", p) /\ "battlefield" \in Zones
    BY <1>1 DEF IsIn, Zones
  <2> HIDE DEF c
  <2> QED BY <1>1, <2>1, MovedKeeps DEF c
<1> HIDE DEF m
<1>4. m \in Y
  BY <1>1, <1>3
<1>5. list \in Seq(X) /\ t \in ToSet(list)
  BY <1>1, <1>3, FiresWhat
<1> HIDE DEF list
<1>6. Gone(t) \in SUBSET Y
  BY DEF Gone
<1>7. ASSUME NEW a \in Y, NEW u \in X PROVE Fire(a, u, MoveOther) \in Y
  <2>1. a \in GoodStates /\ u \in Triggers
    BY <1>7
  <2> DEFINE r == Fire(a, u, MoveOther)
  <2>2. /\ r \in GoodStates /\ On(r) \subseteq On(a) \union Lands
        /\ \A e \in ToSet(a.delayed) : e # u => e \in ToSet(r.delayed)
        /\ u \in ToSet(a.delayed) /\ u.sacrifice # None => u.sacrifice \notin On(r)
    BY <2>1, FireDoes
  <2> HIDE DEF r
  <2> QED BY <1>1, <1>7, <2>2 DEF r
<1>8. ASSUME NEW a \in Y PROVE Fire(a, t, MoveOther) \in Gone(t)
  <2> DEFINE r == Fire(a, t, MoveOther)
  <2>1. /\ r \in GoodStates /\ On(r) \subseteq On(a) \union Lands
        /\ t \in ToSet(a.delayed) /\ t.sacrifice # None => t.sacrifice \notin On(r)
    BY <1>1, <1>8, FireDoes
  <2> HIDE DEF r
  <2> QED BY <1>1, <1>8, <2>1 DEF Gone, r
<1>9. ASSUME NEW a \in Gone(t), NEW u \in X PROVE Fire(a, u, MoveOther) \in Gone(t)
  <2>1. a \in GoodStates /\ u \in Triggers
    BY <1>9 DEF Gone
  <2> DEFINE r == Fire(a, u, MoveOther)
  <2>2. r \in GoodStates /\ On(r) \subseteq On(a) \union Lands
    BY <2>1, FireDoes
  <2> HIDE DEF r
  <2> QED BY <1>1, <1>9, <2>2 DEF Gone, r
<1> HIDE DEF X, Y
<1>10. done \in Gone(t)
  BY <1>4, <1>5, <1>6, <1>7, <1>8, <1>9, FireOtherEach
<1> QED BY <1>2, <1>10

\* The other moves leave an Aura with its creature.
LEMMA MoveCardBound ==
    ASSUME NEW t \in Ties, NEW s \in Bound(t), NEW c \in Cards, NEW from \in Zones,
           NEW to \in Zones \ {"stack"}, NEW p \in Players, to \in Piles => p = Owner[c],
           c # t.watch \/ (from # "battlefield" /\ to = "battlefield")
    PROVE  MoveCard(s, c, from, to, p) \in Bound(t)
<1> DEFINE m == MoveCard(s, c, from, to, p)
<1>1. t.watch \notin Creatures /\ s \in GoodStates /\ t.watch \in On(s) /\ t \in ToSet(s.delayed)
  BY Kinds DEF Ties, Triggers, Bound
<1>2. m \in GoodStates
  BY <1>1, MoveCardKeeps
<1>3. CASE c # t.watch
  <2>1. t.watch \in On(m) /\ t \in ToSet(m.delayed)
    BY <1>1, <1>3, MoveCardDoes
  <2> QED BY <1>2, <2>1 DEF Bound
<1>4. CASE from # "battlefield" /\ to = "battlefield"
  <2>1. m = Moved(s, c, from, to, p)
    BY <1>1, <1>4, MoveCardKeeps
  <2>2. On(s) \subseteq On(m) /\ m.delayed = s.delayed
    BY <1>1, <1>4, <2>1, MovedKeeps
  <2> QED BY <1>1, <1>2, <2>2 DEF Bound
<1> QED BY <1>3, <1>4

\* Where both are gone, they stay away unless one of them is put there.
LEMMA MoveCardGone ==
    ASSUME NEW t \in Ties, NEW s \in Gone(t), NEW c \in Cards, NEW from \in Zones,
           NEW to \in Zones \ {"stack"}, NEW p \in Players, to \in Piles => p = Owner[c],
           to = "battlefield" => c \notin {t.watch, t.sacrifice}
    PROVE  MoveCard(s, c, from, to, p) \in Gone(t)
<1> DEFINE m == MoveCard(s, c, from, to, p)
<1>1. /\ t.watch \notin Lands /\ t.sacrifice \notin Lands
      /\ s \in GoodStates /\ t.watch \notin On(s) /\ t.sacrifice \notin On(s)
  BY Kinds DEF Ties, Triggers, Gone
<1>2. m \in GoodStates
  BY <1>1, MoveCardKeeps
<1>3. On(m) \subseteq On(s) \union Lands \union IF to = "battlefield" THEN {c} ELSE {}
  BY <1>1, MoveCardDoes
<1> HIDE DEF m
<1> QED BY <1>1, <1>2, <1>3 DEF Gone, m

\* So whatever leaves the battlefield, the two do not part.
LEMMA MoveCardTied ==
    ASSUME NEW t \in Ties, NEW s \in Tied(t), NEW c \in Cards,
           NEW to \in Piles
    PROVE  MoveCard(s, c, "battlefield", to, Owner[c]) \in Tied(t)
<1>1. /\ "battlefield" \in Zones /\ to \in Zones \ {"stack", "battlefield"} /\ to \in Zones \ {"stack"}
      /\ Owner[c] \in Players
  BY Kinds DEF Zones, Piles
<1>2. CASE s \in Bound(t) /\ c = t.watch
  BY <1>1, <1>2, MoveCardLooses DEF Tied
<1>3. CASE s \in Bound(t) /\ c # t.watch
  BY <1>1, <1>3, MoveCardBound DEF Tied
<1>4. CASE s \in Gone(t)
  <2>1. to # "battlefield"
    BY <1>1
  <2> QED BY <1>1, <1>4, <2>1, MoveCardGone DEF Tied
<1> QED BY <1>2, <1>3, <1>4 DEF Tied

\* Who leaves the battlefield and the triggers alone does not part them either.
LEMMA TiedStays ==
    ASSUME NEW t \in Ties, NEW s \in GoodStates, NEW r \in GoodStates, On(r) = On(s),
           ToSet(s.delayed) \subseteq ToSet(r.delayed)
    PROVE  (s \in Bound(t) => r \in Bound(t)) /\ (s \in Gone(t) => r \in Gone(t))
BY DEF Bound, Gone

\* A card's own death triggers may only bring back that card.
LEMMA DeathTriggersTied ==
    ASSUME NEW t \in Ties, NEW s \in GoodStates, NEW c \in Cards
    PROVE  /\ s \in Bound(t) => CheckDeathTriggers(s, c) \in Bound(t)
           /\ s \in Gone(t) /\ c # t.sacrifice => CheckDeathTriggers(s, c) \in Gone(t)
<1> DEFINE back == MoveCard(s, c, "graveyard", "battlefield", Owner[c])
           r == CheckDeathTriggers(s, c)
<1>1. r \in GoodStates
  BY CheckDeathTriggersKeeps
<1>2. CASE c \notin Enduring \/ c \notin s.piles[Owner[c]]["graveyard"]
  BY <1>2 DEF CheckDeathTriggers, ReturnSelfAsEnchantment
<1>3. CASE c \in Enduring /\ c \in s.piles[Owner[c]]["graveyard"]
  <2>1. r = [back EXCEPT !.card[c].faded = TRUE]
    BY <1>3 DEF CheckDeathTriggers, ReturnSelfAsEnchantment
  <2>2. /\ Owner[c] \in Players /\ "graveyard" \in Zones /\ "graveyard" # "battlefield"
        /\ "battlefield" \in Zones \ {"stack"} /\ "battlefield" \notin Piles
    BY Kinds DEF Zones, Piles
  <2>3. s \in Bound(t) => back \in Bound(t)
    BY <2>2, MoveCardBound
  <2>4. c # t.watch
    BY <1>3, Kinds DEF Ties, Triggers
  <2>5. s \in Gone(t) /\ c # t.sacrifice => back \in Gone(t)
    BY <2>2, <2>4, MoveCardGone
  <2>6. back \in GoodStates
    BY <2>2, MoveCardKeeps
  <2> HIDE DEF back
  <2>7. r.field = back.field /\ r.delayed = back.delayed
    BY <2>1, <2>6 DEF GoodStates, States
  <2>8. On(r) = On(back)
    BY <2>7 DEF On
  <2> HIDE DEF r
  <2> QED BY <1>1, <2>3, <2>5, <2>6, <2>7, <2>8, TiedStays DEF r
<1> QED BY <1>2, <1>3

\* A burial does not part them.
LEMMA BuryTied ==
    ASSUME NEW t \in Ties, NEW s \in Tied(t), NEW c \in Cards
    PROVE  /\ Bury(s, c) \in Tied(t)
           /\ s \in Bound(t) /\ c # t.watch => Bury(s, c) \in Bound(t)
           /\ s \in Gone(t) => Bury(s, c) \in Gone(t)
<1>1. /\ DeathDestination(s, c) \in Piles /\ DeathDestination(s, c) \in Zones \ {"stack"}
      /\ "battlefield" \in Zones /\ Owner[c] \in Players /\ DeathDestination(s, c) # "battlefield"
  BY DeathDestinationIs, Kinds DEF Zones, Piles
<1>2. Bury(s, c) \in Tied(t)
  BY <1>1, MoveCardTied DEF Bury
<1>3. s \in Bound(t) /\ c # t.watch => Bury(s, c) \in Bound(t)
  BY <1>1, MoveCardBound DEF Bury
<1>4. s \in Gone(t) => Bury(s, c) \in Gone(t)
  BY <1>1, MoveCardGone DEF Bury
<1> QED BY <1>2, <1>3, <1>4

\* What is destroyed is regenerated, or buried before its death triggers are looked at.
LEMMA DestroyTied ==
    ASSUME NEW t \in Ties, NEW s \in Bound(t), NEW c \in Cards, NEW no
    PROVE  /\ Destroy(s, c, no) \in Tied(t)
           /\ c # t.watch => Destroy(s, c, no) \in Bound(t)
<1>1. s \in GoodStates /\ s \in Tied(t)
  BY DEF Bound, Tied
<1>2. CASE Of(s, c).shields > 0 /\ ~no
  <2>1. Destroy(s, c, no) = ApplyRegenerationShield(s, c)
    BY <1>2 DEF Destroy
  <2> DEFINE r == ApplyRegenerationShield(s, c)
  <2>2. r \in GoodStates
    BY <1>1, <2>1, DestroyKeeps
  <2>3. r.field = s.field /\ r.delayed = s.delayed
    BY <1>1 DEF ApplyRegenerationShield, GoodStates, States
  <2>4. On(r) = On(s)
    BY <2>3 DEF On
  <2> HIDE DEF r
  <2>5. r \in Bound(t)
    BY <1>1, <2>2, <2>3, <2>4, TiedStays
  <2> QED BY <2>1, <2>5 DEF Tied, r
<1>3. CASE ~(Of(s, c).shields > 0 /\ ~no)
  <2> DEFINE b == Bury(s, c)
  <2>1. Destroy(s, c, no) = CheckDeathTriggers(b, c)
    BY <1>3 DEF Destroy
  <2>2. b \in Tied(t) /\ (c # t.watch => b \in Bound(t))
    BY <1>1, BuryTied
  <2> HIDE DEF b
  <2>3. b \in GoodStates
    BY <2>2 DEF Tied, Bound, Gone
  <2>4. CASE c # t.watch
    BY <2>1, <2>2, <2>3, <2>4, DeathTriggersTied DEF Tied
  <2>5. CASE c = t.watch
    <3>1. c # t.sacrifice
      BY <2>5, Kinds DEF Ties, Triggers
    <3> QED BY <2>1, <2>2, <2>3, <2>5, <3>1, DeathTriggersTied DEF Tied
  <2> QED BY <2>4, <2>5
<1> QED BY <1>2, <1>3

\* No creature is an Aura.
LEMMA CreaturesArePicked ==
    ASSUME NEW s \in GoodStates, NEW t \in Ties, NEW S \in SUBSET {c \in On(s) : Creature(s, c)}
    PROVE  Kept(s.field, S) \in Seq(On(s) \ {t.watch})
<1>1. ToSet(Kept(s.field, S)) \subseteq On(s) \intersect S /\ Kept(s.field, S) \in Seq(Cards)
  BY PickedFromField
<1>2. \A c \in S : c \in Cards /\ c \in Creatures \union Lands
  <2>1. Explained(s) /\ On(s) \subseteq Cards
    BY StateIs DEF GoodStates
  <2> QED BY <2>1 DEF Explained, Creature, Of
<1>3. t.watch \notin S
  BY <1>2, Kinds DEF Ties, Triggers
<1> QED BY <1>1, <1>3, ListOfMembers

\* Effects on every creature, or on one that a player chooses, leave every Aura.
LEMMA MassTied ==
    ASSUME NEW t \in Ties, NEW s \in Bound(t)
    PROVE  /\ \A no : DestroyAll(s, no) \in Bound(t)
           /\ SacrificeAll(s) \in Bound(t)
           /\ BounceAll(s) \in Bound(t)
           /\ \A p : ForceSacrifice(s, p) \in Bound(t)
<1> DEFINE S == {c \in On(s) : Creature(s, c)}
           X == On(s) \ {t.watch}
<1>1. s \in GoodStates
  BY DEF Bound
<1>2. Kept(s.field, S) \in Seq(X)
  BY <1>1, CreaturesArePicked
<1>3. \A c \in X : c \in Cards /\ c # t.watch
  BY <1>1, StateIs DEF GoodStates
<1> HIDE DEF X
<1>4. \A r \in Bound(t) : r \in GoodStates /\ r \in Tied(t)
  BY DEF Bound, Tied
<1>5. \A r \in Bound(t), c \in X : Bury(r, c) \in Bound(t)
  BY <1>3, <1>4, BuryTied
<1>6. ASSUME NEW no PROVE DestroyAll(s, no) \in Bound(t)
  <2>1. \A r \in Bound(t), c \in X : Destroy(r, c, no) \in Bound(t)
    BY <1>3, DestroyTied
  <2> QED BY <1>2, <2>1, DestroyEach
<1>7. SacrificeAll(s) \in Bound(t)
  <2>1. \A r \in Bound(t), c \in X : CheckDeathTriggers(Bury(r, c), c) \in Bound(t)
    BY <1>3, <1>4, <1>5, DeathTriggersTied
  <2> QED BY <1>2, <2>1, SacrificeEach DEF SacrificeAll
<1>8. BounceAll(s) \in Bound(t)
  <2>1. "hand" \in Piles /\ "hand" \in Zones \ {"stack"} /\ "battlefield" \in Zones
    BY DEF Zones, Piles
  <2>2. \A r \in Bound(t), c \in X : MoveCard(r, c, "battlefield", "hand", Owner[c]) \in Bound(t)
    BY <1>3, <2>1, Kinds, MoveCardBound
  <2> QED BY <1>2, <2>2, BounceEach DEF BounceAll
<1>9. ASSUME NEW p PROVE ForceSacrifice(s, p) \in Bound(t)
  <2> DEFINE his == Kept(s.field, {c \in On(s) : Creature(s, c) /\ s.ctrl[c] = p})
  <2>1. ForceSacrifice(s, p) = IF his = <<>> THEN s ELSE Bury(s, Head(his))
    BY DEF ForceSacrifice
  <2>2. his \in Seq(X)
    BY <1>1, CreaturesArePicked DEF X
  <2> HIDE DEF his
  <2>3. his # <<>> => Head(his) \in X
    BY <2>2
  <2> QED BY <1>5, <2>1, <2>3
<1> QED BY <1>6, <1>7, <1>8, <1>9

\* Nor does the pass part them.
LEMMA PassTied ==
    ASSUME NEW t \in Ties, NEW s \in Tied(t)
    PROVE  CheckStateBasedActions(s) \in Tied(t)
<1> DEFINE s1 == CheckLethalDamage(s)
           s2 == CheckLegendaryRule(s1)
           s3 == CheckAuraAttachment(s2)
           s4 == RecomputeAuraControl(s3)
           s5 == RecomputeSourceControl(s4)
           s6 == CheckEquipmentAttachment(s5)
<1>1. \A r \in Tied(t) : r \in GoodStates
  BY DEF Tied, Bound, Gone
<1>2. \A r \in Tied(t), c \in Cards : Bury(r, c) \in Tied(t)
  BY BuryTied
<1>3. s1 \in Tied(t)
  <2> DEFINE S == {c \in On(s) : Lethal(s, c)}
             X == On(s) \ {t.watch}
  <2>1. Kept(s.field, S) \in Seq(X)
    <3>1. S \in SUBSET {c \in On(s) : Creature(s, c)}
      BY DEF Lethal
    <3> HIDE DEF S
    <3> QED BY <1>1, <3>1, CreaturesArePicked
  <2>2. \A c \in X : c \in Cards /\ c # t.watch
    BY <1>1, StateIs DEF GoodStates
  <2>3. CASE s \in Bound(t)
    <3> HIDE DEF X, S
    <3>1. \A r \in Bound(t), c \in X : Bury(CheckDeathTriggers(r, c), c) \in Bound(t)
      BY <1>1, <2>2, BuryTied, DeathTriggersTied DEF Tied
    <3> QED BY <2>1, <2>3, <3>1, LethalEach DEF CheckLethalDamage, Tied, S
  <2>4. CASE s \in Gone(t)
    <3>1. \A c \in X : c # t.sacrifice
      BY <2>4 DEF Gone
    <3> HIDE DEF X, S
    <3>2. \A r \in Gone(t), c \in X : Bury(CheckDeathTriggers(r, c), c) \in Gone(t)
      BY <1>1, <2>2, <3>1, BuryTied, DeathTriggersTied DEF Tied
    <3> QED BY <2>1, <2>4, <3>2, LethalEach DEF CheckLethalDamage, Tied, S
  <2> QED BY <2>3, <2>4 DEF Tied
<1> HIDE DEF s1
<1>4. s2 \in Tied(t)
  BY <1>1, <1>2, <1>3, LegendRuleStays
<1> HIDE DEF s2
<1>5. s3 \in Tied(t)
  <2> DEFINE S == {a \in Auras \intersect On(s2) : Of(s2, a).attached # None /\ Of(s2, a).attached \notin On(s2)}
  <2>1. s3 = FoldLeft(Bury, s2, Kept(s2.field, S))
    BY DEF CheckAuraAttachment
  <2> HIDE DEF S
  <2>2. Kept(s2.field, S) \in Seq(Cards)
    BY <1>1, <1>4, PickedFromField
  <2>3. FoldLeft(Bury, s2, Kept(s2.field, S)) \in Tied(t)
    BY <1>2, <1>4, <2>2, BuryEach
  <2> QED BY <2>1, <2>3
<1> HIDE DEF s3
<1>6. s4 \in SettledStates /\ s4.field = s3.field /\ s4.delayed = s3.delayed
  <2>1. s4 \in SettledStates
    BY <1>1, <1>5, RecomputeAuraControlKeeps
  <2>2. s4.field = s3.field /\ s4.delayed = s3.delayed
    BY <1>1, <1>5 DEF RecomputeAuraControl, GoodStates, States
  <2> QED BY <2>1, <2>2
<1> HIDE DEF s4
<1>7. s5 \in SettledStates /\ s5.field = s4.field /\ s5.delayed = s4.delayed
  <2>1. s4.field \in Seq(Cards)
    BY <1>6, StateIs DEF SettledStates, GoodStates
  <2> QED BY <1>6, <2>1, VisitEach DEF RecomputeSourceControl
<1> HIDE DEF s5
<1>8. s6 \in SettledStates /\ s6.field = s5.field /\ s6.delayed = s5.delayed
  <2>1. s6 \in SettledStates
    BY <1>7, CheckEquipmentAttachmentKeeps
  <2>2. s6.field = s5.field /\ s6.delayed = s5.delayed
    BY <1>7 DEF CheckEquipmentAttachment, SettledStates, GoodStates, States
  <2> QED BY <2>1, <2>2
<1> HIDE DEF s6
<1>9. s6 \in GoodStates /\ On(s6) = On(s3) /\ s6.delayed = s3.delayed
  BY <1>6, <1>7, <1>8 DEF SettledStates, On
<1>10. s6 \in Tied(t)
  BY <1>1, <1>5, <1>9, TiedStays DEF Tied
<1> QED BY <1>10 DEF CheckStateBasedActions, s6, s5, s4, s3, s2, s1

\* A resolution that does not part them is followed by a pass that does not either.
LEMMA ResolveTied ==
    ASSUME NEW t \in Ties, NEW s \in Tied(t), Resolve(s)
    PROVE  g' \in Tied(t)
BY PassTied DEF Resolve

\* Who marks permanents leaves them where they are.
LEMMA MarksTied ==
    ASSUME NEW t \in Ties, NEW s \in Bound(t), NEW r \in GoodStates,
           r.field = s.field, r.delayed = s.delayed
    PROVE  r \in Bound(t)
BY TiedStays DEF Bound, On

\* Effects aimed at one permanent, the Aura among them.
LEMMA TargetedTied ==
    ASSUME BoardInv, NEW c \in On(g), NEW o \in Targeted(c), NEW t \in Ties, g \in Bound(t)
    PROVE  o \in Tied(t)
<1>1. /\ g \in GoodStates /\ g \in Tied(t) /\ c \in Cards /\ Owner[c] \in Players
      /\ On(g) \subseteq Cards /\ g.ctrl \in [Cards -> Players] /\ g \in States
      /\ {"hand", "graveyard", "exile"} \subseteq Piles
  BY StateIs, Kinds DEF BoardInv, GoodStates, Tied, Piles
<1>2. \A r \in Bound(t) : r \in Tied(t)
  BY DEF Tied
<1>3. CASE \E no \in BOOLEAN : o = Destroy(g, c, no)
  BY <1>1, <1>3, DestroyTied
<1>4. CASE o = ReturnPermanentToHand(g, c)
  BY <1>1, <1>4, MoveCardTied DEF ReturnPermanentToHand
<1>5. MoveCard(g, c, "battlefield", "exile", Owner[c]) \in Tied(t)
  BY <1>1, MoveCardTied
<1>6. CASE o = ExilePermanent(g, c)
  BY <1>5, <1>6 DEF ExilePermanent
<1>7. CASE o = Airbend(g, c)
  <2> DEFINE gone == MoveCard(g, c, "battlefield", "exile", Owner[c])
  <2>1. Airbend(g, c) = [gone EXCEPT !.mayPlay = @ \union {c}]
    BY DEF Airbend, ExilePermanent
  <2>2. gone \in GoodStates
    BY <1>5 DEF Tied, Bound, Gone
  <2> HIDE DEF gone
  <2>3. Airbend(g, c).field = gone.field /\ Airbend(g, c).delayed = gone.delayed
    BY <2>1, <2>2 DEF GoodStates, States
  <2>4. On(Airbend(g, c)) = On(gone) /\ Airbend(g, c) \in GoodStates
    BY <1>1, <2>3, AirbendKeeps DEF On
  <2>5. Airbend(g, c) \in Tied(t)
    BY <1>5, <2>2, <2>3, <2>4, TiedStays DEF Tied, gone
  <2> QED BY <1>7, <2>5
<1>8. CASE o = DealDamage(g, c)
  <2>1. DealDamage(g, c).field = g.field /\ DealDamage(g, c).delayed = g.delayed
    BY <1>1 DEF DealDamage, States
  <2> QED BY <1>1, <1>2, <1>8, <2>1, DealDamageKeeps, MarksTied
<1>9. CASE o = Regenerate(g, c)
  <2>1. Regenerate(g, c).field = g.field /\ Regenerate(g, c).delayed = g.delayed
    BY <1>1 DEF Regenerate, States
  <2> QED BY <1>1, <1>2, <1>9, <2>1, RegenerateKeeps, MarksTied
<1>10. CASE o = ExileIfWouldDie(g, c)
  <2>1. ExileIfWouldDie(g, c).field = g.field /\ ExileIfWouldDie(g, c).delayed = g.delayed
    BY <1>1 DEF ExileIfWouldDie, States
  <2> QED BY <1>1, <1>2, <1>10, <2>1, ExileIfWouldDieKeeps, MarksTied
<1>11. CASE o = RemoveCounter(g, c)
  <2>1. RemoveCounter(g, c).field = g.field /\ RemoveCounter(g, c).delayed = g.delayed
    BY <1>1 DEF RemoveCounter, States
  <2> QED BY <1>1, <1>2, <1>11, <2>1, RemoveCounterKeeps, MarksTied
<1>12. CASE o = PutCounter(g, c)
  <2>1. PutCounter(g, c).field = g.field /\ PutCounter(g, c).delayed = g.delayed
    BY <1>1 DEF PutCounter, States
  <2> QED BY <1>1, <1>2, <1>12, <2>1, PutCounterKeeps, MarksTied
<1>13. CASE \E d \in On(g) \ {c} : o = Fight(g, c, d)
  <2>1. PICK d \in On(g) \ {c} : o = Fight(g, c, d)
    BY <1>13
  <2>2. Fight(g, c, d).field = g.field /\ Fight(g, c, d).delayed = g.delayed
    BY <1>1 DEF Fight, States
  <2> QED BY <1>1, <1>2, <2>1, <2>2, FightKeeps, MarksTied
<1>14. CASE \E p \in Players : o = GainControl(g, c, p)
  <2>1. PICK p \in Players : o = GainControl(g, c, p)
    BY <1>14
  <2>2. GainControl(g, c, p).field = g.field /\ GainControl(g, c, p).delayed = g.delayed
    BY <1>1 DEF GainControl, States
  <2> QED BY <1>1, <1>2, <2>1, <2>2, GainControlKeeps, MarksTied
<1>15. CASE c \in Lands /\ o = Earthbend(g, c)
  <2> DEFINE new == [watch |-> c, sacrifice |-> None]
  <2>1. Earthbend(g, c).field = g.field /\ Earthbend(g, c).delayed = Append(g.delayed, new)
    BY <1>1 DEF Earthbend, States
  <2>2. g.delayed \in Seq(Triggers) /\ new \in Triggers
    BY <1>1, <1>15, StateIs DEF Triggers, CardOrNone
  <2>3. ToSet(g.delayed) \subseteq ToSet(Append(g.delayed, new))
    BY <2>2, AppendIs
  <2>4. Earthbend(g, c) \in GoodStates /\ On(Earthbend(g, c)) = On(g)
    BY <1>1, <1>15, <2>1, EarthbendKeeps DEF On
  <2>5. Earthbend(g, c) \in Tied(t)
    BY <1>1, <1>2, <2>1, <2>3, <2>4, TiedStays
  <2> QED BY <1>15, <2>5
<1>16. CASE \E s \in Sources \intersect On(g) : s # c /\ o = GrantControl(g, c, g.ctrl[s], s)
  <2>1. PICK s \in Sources \intersect On(g) : s # c /\ o = GrantControl(g, c, g.ctrl[s], s)
    BY <1>16
  <2> DEFINE r == GrantControl(g, c, g.ctrl[s], s)
  <2>2. r.field = g.field /\ r.delayed = g.delayed
    BY <1>1 DEF GrantControl, States
  <2>3. s \in Sources \ {c} /\ g.ctrl[s] \in Players
    BY <1>1, <2>1
  <2>4. r \in GoodStates
    BY <1>1, <2>3, GrantControlKeeps
  <2> HIDE DEF r
  <2> QED BY <1>1, <1>2, <2>1, <2>2, <2>4, MarksTied DEF r
<1>17. CASE \E e \in Equipment \intersect On(g) : o = AttachEquipment(g, e, c)
  <2>1. PICK e \in Equipment \intersect On(g) : o = AttachEquipment(g, e, c)
    BY <1>17
  <2> DEFINE r == AttachEquipment(g, e, c)
  <2>2. r.field = g.field /\ r.delayed = g.delayed
    BY <1>1 DEF AttachEquipment, States
  <2>3. r \in GoodStates
    BY <1>1, <2>1, AttachEquipmentKeeps
  <2> HIDE DEF r
  <2> QED BY <1>1, <1>2, <2>1, <2>2, <2>3, MarksTied DEF r
<1> QED
  BY <1>3, <1>4, <1>6, <1>7, <1>8, <1>9, <1>10, <1>11, <1>12, <1>13, <1>14, <1>15, <1>16, <1>17
  DEF Targeted, AimedAtCreature, Provided

\* A spell that resolves enters, with its target if that was dead.
LEMMA ResolveSpellTied ==
    ASSUME NEW t \in Ties, NEW s \in Bound(t), NEW c \in Cards, NEW target,
           c \in Auras => target \in Cards, c \in OnStack(s)
    PROVE  ResolveSpell(s, c, target) \in Bound(t)
<1> DEFINE in == MoveCard(s, c, "stack", "battlefield", Owner[c])
           p == Owner[c]
           back == MoveCard(in, target, "graveyard", "battlefield", Owner[target])
           mine == IF p = Owner[target] THEN back
                   ELSE [back EXCEPT !.ctrl[target] = p, !.taken = @ \union {target}]
           on == IF {c, target} \subseteq On(mine) THEN AttachAura(mine, c, target) ELSE mine
           tie == [watch |-> c, sacrifice |-> target]
           r == ResolveSpell(s, c, target)
<1>1. /\ p \in Players /\ "stack" \in Zones /\ "battlefield" \in Zones /\ "graveyard" \in Zones
      /\ "battlefield" \in Zones \ {"stack"} /\ "graveyard" \in Zones \ {"stack"}
      /\ "battlefield" \notin Piles /\ "stack" # "battlefield" /\ "graveyard" # "battlefield"
  BY Kinds DEF Zones, Piles
<1>2. s \in GoodStates /\ t.watch \in On(s)
  BY DEF Bound
<1>3. c # t.watch
  BY <1>2 DEF GoodStates, PlacedBut
<1>4. in \in Bound(t)
  BY <1>1, MoveCardBound
<1>5. r = IF c \notin Auras THEN in
          ELSE IF target \in On(in) THEN AttachAura(in, c, target)
          ELSE IF FindZone(in, target) = "graveyard" THEN ReanimateAuraTarget(in, c, target)
          ELSE MoveCard(in, c, "battlefield", "graveyard", Owner[c])
  BY DEF ResolveSpell
<1>6. ReanimateAuraTarget(in, c, target) =
        IF on.aborted THEN on ELSE [on EXCEPT !.delayed = Append(on.delayed, tie)]
  BY DEF ReanimateAuraTarget
<1>7. r \in GoodStates
  BY <1>2, ResolveSpellKeeps
<1> HIDE DEF r, in
<1> SUFFICES r \in Bound(t)
  BY DEF r
<1>8. \A b \in Bound(t) : AttachAura(b, c, target).field = b.field /\ AttachAura(b, c, target).delayed = b.delayed
  BY DEF AttachAura, Bound, GoodStates, States
<1>9. CASE c \notin Auras
  BY <1>4, <1>5, <1>9
<1>10. CASE c \in Auras /\ target \in On(in)
  BY <1>4, <1>5, <1>7, <1>8, <1>10, MarksTied
<1>11. CASE c \in Auras /\ target \notin On(in) /\ FindZone(in, target) = "graveyard"
  <2>1. back \in Bound(t) /\ back \in GoodStates
    <3>1. Owner[target] \in Players /\ target \in Cards
      BY <1>11, Kinds
    <3>2. back \in Bound(t)
      BY <1>1, <1>4, <3>1, MoveCardBound
    <3> QED BY <3>2 DEF Bound
  <2> HIDE DEF back
  <2>2. mine.field = back.field /\ mine.delayed = back.delayed /\ mine \in Bound(t)
    <3>1. mine.field = back.field /\ mine.delayed = back.delayed
      BY <2>1 DEF GoodStates, States
    <3>2. mine \in GoodStates
      BY <1>1, <1>11, <2>1, Stolen
    <3> QED BY <2>1, <3>1, <3>2, MarksTied
  <2> HIDE DEF mine
  <2>3. on \in States /\ on.field = mine.field /\ on.delayed = mine.delayed
    <3>1. mine \in States
      BY <2>2 DEF Bound, GoodStates
    <3>2. c \in On(mine) => AttachAura(mine, c, target) \in States
      BY <1>11, <2>2, AttachAuraKeeps DEF Bound, GoodStates
    <3> QED BY <1>8, <2>2, <3>1, <3>2
  <2> HIDE DEF on
  <2>4. r.field = mine.field /\ (r.delayed = mine.delayed \/ r.delayed = Append(mine.delayed, tie))
    BY <1>5, <1>6, <1>11, <2>3 DEF States
  <2>5. ToSet(mine.delayed) \subseteq ToSet(r.delayed)
    <3>1. mine.delayed \in Seq(Triggers \union {tie}) /\ tie \in Triggers \union {tie}
      <4>1. mine.delayed \in Seq(Triggers)
        BY <2>2, StateIs DEF Bound, GoodStates
      <4>2. ToSet(mine.delayed) \subseteq Triggers \union {tie}
        BY <4>1 DEF ToSet
      <4> QED BY <4>1, <4>2, ListOfMembers
    <3>2. ToSet(mine.delayed) \subseteq ToSet(Append(mine.delayed, tie))
      BY <3>1, AppendIs
    <3> QED BY <2>4, <3>2
  <2>6. On(r) = On(mine)
    BY <2>4 DEF On
  <2> QED BY <1>7, <2>2, <2>5, <2>6, TiedStays DEF Bound
<1>12. CASE c \in Auras /\ target \notin On(in) /\ FindZone(in, target) # "graveyard"
  <2>1. MoveCard(in, c, "battlefield", "graveyard", Owner[c]) \in Bound(t)
    BY <1>1, <1>3, <1>4, MoveCardBound
  <2> QED BY <1>5, <1>12, <2>1
<1> QED BY <1>9, <1>10, <1>11, <1>12

\* A card that is cast goes from a hand or exile to the stack.
LEMMA CastKeepsField ==
    ASSUME BoardInv, Cast
    PROVE  On(g') = On(g) /\ g'.delayed = g.delayed
<1>1. g \in GoodStates /\ g \in States /\ g.stack = <<>>
  BY DEF BoardInv, GoodStates, Cast
<1>2. PICK c \in Cards \ Lands : \E t \in Targets(c) :
        \/ c \in g.piles[Owner[c]]["hand"] /\ CastFrom("hand", c, t)
        \/ c \in g.piles[Owner[c]]["exile"] \intersect g.mayPlay /\ CastFrom("exile", c, t)
  BY DEF Cast
<1>3. PICK t : \E zone \in {"hand", "exile"} :
        c \in g.piles[Owner[c]][zone] /\ CastFrom(zone, c, t)
  BY <1>2
<1>4. PICK zone \in {"hand", "exile"} : c \in g.piles[Owner[c]][zone] /\ CastFrom(zone, c, t)
  BY <1>3
<1> DEFINE m == MoveCard(g, c, zone, "stack", Owner[c])
           u == Take(g, c, zone, Owner[c])
           v == Put(u, c, "stack", Owner[c])
<1>5. zone \in Piles /\ zone \notin {"battlefield", "stack"} /\ Owner[c] \in Players
  BY Kinds DEF Piles
<1>6. m = Moved(g, c, zone, "stack", Owner[c])
  <2>1. Fires(Moved(g, c, zone, "stack", Owner[c]), c, zone, "stack") = <<>>
    BY <1>5 DEF Fires
  <2> QED BY <2>1, NothingFires DEF MoveCard
<1>7. Moved(g, c, zone, "stack", Owner[c]) =
        [v EXCEPT !.mayPlay = IF zone = "exile" THEN @ \ {c} ELSE @]
  <2>1. IsIn(g, c, zone, Owner[c])
    BY <1>4, <1>5 DEF IsIn
  <2> QED BY <1>5, <2>1 DEF Moved
<1>8. u \in States /\ u.field = g.field /\ u.delayed = g.delayed
  <2>1. IsIn(g, c, zone, Owner[c]) /\ PlacedBut(g, {})
    BY <1>4, <1>1, <1>5 DEF IsIn, GoodStates
  <2>2. u \in States
    BY <1>1, <1>5, <2>1, TakenFromPile
  <2>3. u.field = g.field /\ u.delayed = g.delayed
    BY <1>1, <1>5 DEF Take, States
  <2> QED BY <2>2, <2>3
<1> HIDE DEF u
<1>9. v = [u EXCEPT !.stack = Append(@, [card |-> c, target |-> None])]
  BY DEF Put
<1>10. m.field = g.field /\ m.delayed = g.delayed /\ "field" \in DOMAIN m /\ "delayed" \in DOMAIN m
  BY <1>6, <1>7, <1>8, <1>9 DEF States
<1>11. g' = [m EXCEPT !.stack[Len(m.stack)].target = t]
  BY <1>4 DEF CastFrom
<1> HIDE DEF m
<1>12. g'.field = m.field /\ g'.delayed = m.delayed
  BY <1>10, <1>11
<1> QED BY <1>10, <1>12 DEF On

\* Every other step brings cards to the battlefield, or changes none of it.
LEMMA OtherStepsTied ==
    ASSUME BoardInv, g' \in GoodStates, NEW t \in Ties, g \in Bound(t),
           Mass \/ Return \/ Cast \/ PlayLand \/ ResolveTop \/ Cleanup
    PROVE  g' \in Tied(t)
<1>1. /\ g \in GoodStates /\ g \in States /\ {"hand", "graveyard"} \subseteq Zones
      /\ "battlefield" \in Zones \ {"stack"} /\ "battlefield" \notin Piles
      /\ "hand" # "battlefield" /\ "graveyard" # "battlefield"
  BY DEF BoardInv, GoodStates, Zones, Piles
<1>2. \A r \in Bound(t) : r \in Tied(t)
  BY DEF Tied
<1>3. CASE Mass
  <2>1. \E o \in Swept : Resolve(o)
    BY <1>3 DEF Mass
  <2>2. DamageAll(g) \in Bound(t)
    <3>1. DamageAll(g).field = g.field /\ DamageAll(g).delayed = g.delayed
      BY <1>1 DEF DamageAll, States
    <3> QED BY <1>1, <3>1, DamageAllKeeps, MarksTied
  <2>3. \A o \in Swept : o \in Tied(t)
    BY <1>2, <2>2, MassTied DEF Swept
  <2> QED BY <2>1, <2>3, ResolveTied
<1>4. CASE Return
  <2>1. PICK p \in Players : \E o \in Reentered(p) : Resolve(o)
    BY <1>4 DEF Return
  <2>2. \A c \in Creatures : c \in Cards /\ Owner[c] \in Players
    BY Kinds
  <2>3. ASSUME NEW c \in Creatures, NEW gain \in BOOLEAN
        PROVE  ReturnFromGraveyard(g, c, p, gain) \in Bound(t) /\ PutFromHand(g, c, p) \in Bound(t)
    BY <1>1, <2>2, MoveCardBound DEF ReturnFromGraveyard, PutFromHand
  <2>4. \A o \in Reentered(p) : o \in Tied(t)
    BY <1>2, <2>3 DEF Reentered
  <2> QED BY <2>1, <2>4, ResolveTied
<1>5. CASE Cast
  <2>1. On(g') = On(g) /\ g'.delayed = g.delayed
    BY <1>5, CastKeepsField
  <2> QED BY <1>1, <1>2, <2>1, TiedStays
<1>6. CASE PlayLand
  <2>1. PICK c \in Lands : g' = MoveCard(g, c, "hand", "battlefield", Owner[c])
    BY <1>6 DEF PlayLand
  <2>2. c \in Cards /\ Owner[c] \in Players
    BY Kinds
  <2> QED BY <1>1, <1>2, <2>1, <2>2, MoveCardBound
<1>7. CASE ResolveTop
  <2> DEFINE top == Last(g.stack)
  <2>1. g.stack # <<>> /\ Resolve(ResolveSpell(g, top.card, top.target))
    BY <1>7 DEF ResolveTop
  <2>2. g.stack \in Seq(Items)
    BY <1>1, StateIs
  <2>3. Len(g.stack) \in DOMAIN g.stack
    BY <2>1, <2>2
  <2>4. top \in Items /\ top.card \in OnStack(g)
    BY <2>2, <2>3 DEF Last, OnStack
  <2> HIDE DEF top
  <2>5. top.card \in Cards /\ (top.card \in Auras => top.target \in Cards)
    BY <2>4 DEF Items
  <2> QED BY <1>2, <2>1, <2>4, <2>5, ResolveSpellTied, ResolveTied
<1>8. CASE Cleanup
  <2>1. g' = CleanupTemporaryEffects(g)
    BY <1>8 DEF Cleanup
  <2>2. g'.field = g.field /\ g'.delayed = g.delayed
    BY <1>1, <2>1 DEF CleanupTemporaryEffects, States
  <2> QED BY <1>2, <2>2, MarksTied
<1> QED BY <1>3, <1>4, <1>5, <1>6, <1>7, <1>8 DEF BoardInv

\* Wherever an Aura goes, and by whatever effect, rule or failed attachment, the creature
\* it raised goes too: no step leaves the creature behind on the battlefield.
THEOREM RaisedGoes == Spec => RaisedGoesWithItsAura
<1>1. ASSUME BoardInv, BoardInv', [Next]_vars, NEW t \in ToSet(g.delayed),
             t.sacrifice # None, {t.watch, t.sacrifice} \subseteq On(g), t.watch \notin On(g')
      PROVE  t.sacrifice \notin On(g')
  <2>1. g.delayed \in Seq(Triggers)
    BY <1>1, StateIs DEF BoardInv, GoodStates
  <2>2. t \in Ties
    BY <1>1, <2>1 DEF Ties, ToSet
  <2>3. g \in Bound(t) /\ g' \in GoodStates
    BY <1>1 DEF BoardInv, Bound
  <2> SUFFICES g' \in Tied(t)
    BY <1>1 DEF Tied, Bound, Gone
  <2>4. CASE OneTarget
    <3>1. PICK c \in On(g) : \E o \in Targeted(c) : Resolve(o)
      BY <2>4 DEF OneTarget
    <3>2. PICK o \in Targeted(c) : Resolve(o)
      BY <3>1
    <3>3. o \in Tied(t)
      BY <1>1, <2>2, <2>3, TargetedTied
    <3> QED BY <2>2, <3>2, <3>3, ResolveTied
  <2>5. CASE Mass \/ Return \/ Cast \/ PlayLand \/ ResolveTop \/ Cleanup
    BY <1>1, <2>2, <2>3, <2>5, OtherStepsTied
  <2>6. CASE UNCHANGED vars
    BY <2>3, <2>6 DEF vars, Tied
  <2> QED BY <1>1, <2>4, <2>5, <2>6 DEF Next
<1>2. BoardInv /\ BoardInv' /\ [Next]_vars =>
        \A t \in ToSet(g.delayed) :
          t.sacrifice # None /\ {t.watch, t.sacrifice} \subseteq On(g) /\ t.watch \notin On(g')
              => t.sacrifice \notin On(g')
  BY <1>1
<1> QED BY <1>2, BoardIsGood, PTL DEF Spec, RaisedGoesWithItsAura

=============================================================================
