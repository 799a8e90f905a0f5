-------------------------- MODULE GameRelayProofs --------------------------
(***************************************************************************)
(* Proofs about GameRelay.tla for any bounds, kinds of deeds and replies:  *)
(* types, one question at a time, answers that fit the place where they    *)
(* are logged, one verdict for all clients that are still there, and       *)
(* buffers that hold what a client must know when it is asked, each fact   *)
(* once and in game order.                                                 *)
(***************************************************************************)
EXTENDS GameRelay, SequenceTheorems, FiniteSetTheorems, TLAPS

\* A queue to a handler with no question in it, and one with no question
\* other than r, and r at most once.
NoQuestion(s) == \A i \in DOMAIN s : s[i].type # "request"

OnlyQuestion(s, r) ==
    \A i \in DOMAIN s : s[i].type = "request" =>
        /\ s[i].request = r
        /\ \A j \in DOMAIN s : s[j].type = "request" => j = i

\* A queue to the coordinator with no answer in it, or with one.
NoAnswer(s) == \A i \in DOMAIN s : s[i].type # "answer"

OneAnswer(s) ==
    \A i, j \in DOMAIN s : s[i].type = "answer" /\ s[j].type = "answer" => i = j

\* The handler of p has no question, under way, asked or answered.
Quiet(p) ==
    /\ NoQuestion(inbox[p])
    /\ ~handler[p].waiting
    /\ NoAnswer(outbox[p])

\* The question r is on its way to p's client, there, or answered.
Holds(p, r) ==
    /\ OnlyQuestion(inbox[p], r)
    /\ OneAnswer(outbox[p])
    /\ handler[p].waiting =>
         /\ NoQuestion(inbox[p]) /\ NoAnswer(outbox[p])
         /\ question[p].seq = r.seq /\ question[p].ac = r.ac
    /\ ~NoQuestion(inbox[p]) => NoAnswer(outbox[p])

\* A question of the game's next choice, asked where the game stands.
IsNextOf(p, r) ==
    /\ game.at = "waiting" /\ game.player = p
    /\ r.seq = seq[p] + 1 /\ r.ac = Len(log)

\* Where the one question is.
CoordinatorInv ==
    /\ coord.at \notin {"await", "ended"} => \A p \in Players : Quiet(p)
    /\ coord.at \in {"accept", "inform"} => coord.player \in Players
    /\ coord.at = "await" =>
         /\ coord.player \in Players /\ coord.request \in Requests
         /\ IsNextOf(coord.player, coord.request)
         /\ Holds(coord.player, coord.request)
         /\ \A p \in Players : p # coord.player => Quiet(p)
         /\ \A p \in Players : request[p] = None /\ response[p] = None
    /\ coord.at = "ended" =>
         \A p \in Players :
            handler[p].alive => ~handler[p].waiting /\ NoQuestion(inbox[p])

GameInv ==
    /\ game.at = "waiting" => game.player \in Players /\ Len(log) < MaxLog
    /\ \A p \in Players : request[p] # None =>
         /\ response[p] = None
         /\ \/ IsNextOf(p, request[p])
            \/ game.at = "failed" /\ coord.at = "ended"
    /\ \A p \in Players : response[p] # None =>
         game.at = "waiting" /\ game.player = p /\ response[p].ac = Len(log)

\* A handler that waits has asked; one that reported a departure has ended.
HandlerInv ==
    \A p \in Players :
        /\ handler[p].waiting =>
             question[p] \in Questions
        /\ \A i \in DOMAIN outbox[p] :
             outbox[p][i].type = "left" => ~handler[p].alive

RelayInv ==
    TypeOK /\ CoordinatorInv /\ GameInv /\ HandlerInv /\ AnswersFitQuestions

-----------------------------------------------------------------------------
(* Sorted lists.                                                           *)

Irreflexive(S, R) == \A x \in S : <<x, x>> \notin R
Total(S, R) == \A x, y \in S : x = y \/ <<x, y>> \in R \/ <<y, x>> \in R
Transitive(S, R) ==
    \A x, y, z \in S : <<x, y>> \in R /\ <<y, z>> \in R => <<x, z>> \in R
StrictOrder(S, R) == Irreflexive(S, R) /\ Total(S, R) /\ Transitive(S, R)

\* The place of an element in a finite set.
Place(S, R, x) == Cardinality({y \in S : <<y, x>> \in R})

\* Places in a set grow with its order, and there are no more than its elements.
LEMMA PlaceIsStrict ==
    ASSUME NEW S, IsFiniteSet(S), NEW R, StrictOrder(S, R), NEW x \in S
    PROVE  /\ Place(S, R, x) \in 0..Cardinality(S) - 1
           /\ \A y \in S : <<x, y>> \in R => Place(S, R, x) < Place(S, R, y)
<1> USE DEF StrictOrder
<1> DEFINE B(y) == {z \in S : <<z, y>> \in R}
<1>1. \A y \in S : IsFiniteSet(B(y)) /\ Place(S, R, y) = Cardinality(B(y))
  BY FS_Subset DEF Place
<1>2. x \notin B(x)
  BY DEF Irreflexive
<1>3. IsFiniteSet(B(x) \union {x})
      /\ Cardinality(B(x) \union {x}) = Cardinality(B(x)) + 1
  BY <1>1, <1>2, FS_AddElement
<1>4. \A T : IsFiniteSet(T) => Cardinality(T) \in Nat
  BY FS_CardinalityType
<1>5. Cardinality(B(x)) + 1 <= Cardinality(S)
  <2>1. B(x) \union {x} \in SUBSET S
    OBVIOUS
  <2> HIDE DEF B
  <2> QED BY <1>3, <2>1, FS_Subset
<1>6. ASSUME NEW y \in S, <<x, y>> \in R
      PROVE  Cardinality(B(x)) + 1 <= Cardinality(B(y))
  <2>1. \A z \in B(x) : <<z, y>> \in R
    BY <1>6 DEF Transitive
  <2>2. B(x) \union {x} \in SUBSET B(y)
    BY <1>6, <2>1
  <2> HIDE DEF B
  <2> QED BY <1>1, <1>3, <2>2, FS_Subset
<1> HIDE DEF B
<1> QED BY <1>1, <1>4, <1>5, <1>6

\* The list of a finite set holds each element once, in the order given.
LEMMA OrderedSorts ==
    ASSUME NEW S, IsFiniteSet(S), NEW R, StrictOrder(S, R)
    PROVE  /\ Ordered(S, R) \in [1..Cardinality(S) -> S] /\ Cardinality(S) \in Nat
           /\ \A x \in S : \E i \in 1..Cardinality(S) : Ordered(S, R)[i] = x
           /\ \A i, j \in 1..Cardinality(S) : i < j =>
                <<Ordered(S, R)[i], Ordered(S, R)[j]>> \in R
                /\ Ordered(S, R)[i] # Ordered(S, R)[j]
<1> DEFINE n == Cardinality(S)
           P(x) == Place(S, R, x)
           place == [x \in S |-> P(x)]
           s == Ordered(S, R)
<1>1. n \in Nat
  BY FS_CardinalityType
<1>2. \A x \in S : P(x) \in 0..n - 1 /\ \A y \in S : <<x, y>> \in R => P(x) < P(y)
  BY PlaceIsStrict
<1> HIDE DEF P
<1>3. \A x, y \in S : P(x) = P(y) => x = y
  <2> SUFFICES ASSUME NEW x \in S, NEW y \in S, P(x) = P(y), x # y PROVE FALSE
    OBVIOUS
  <2>1. <<x, y>> \in R \/ <<y, x>> \in R
    BY DEF StrictOrder, Total
  <2> QED BY <1>1, <1>2, <2>1
<1>4. place \in Injection(S, 0..n - 1)
  <2>1. \A x, y \in S : place[x] = place[y] => x = y
    BY <1>3
  <2>2. place \in [S -> 0..n - 1]
    BY <1>2
  <2> HIDE DEF place
  <2> QED BY <2>1, <2>2 DEF Injection, IsInjective
<1>5. IsFiniteSet(0..n - 1) /\ Cardinality(0..n - 1) = n
  <2> HIDE DEF n
  <2> QED BY <1>1, FS_Interval
<1>6. place \in Surjection(S, 0..n - 1)
  <2> HIDE DEF place
  <2> QED BY <1>4, <1>5, FS_Injection
<1>7. \A i \in 0..n - 1 : \E x \in S : P(x) = i
  BY <1>6 DEF Surjection
<1>8. s = [i \in 1..n |-> CHOOSE x \in S : P(x) = i - 1]
  BY DEF Ordered, Place, P
<1> HIDE DEF s, n
<1>9. \A i \in 1..n : s[i] \in S /\ P(s[i]) = i - 1
  BY <1>1, <1>7, <1>8
<1>10. s \in [1..n -> S]
  BY <1>8, <1>9
<1>11. ASSUME NEW x \in S PROVE \E i \in 1..n : s[i] = x
  <2>1. P(x) + 1 \in 1..n
    BY <1>1, <1>2
  <2>2. s[P(x) + 1] \in S /\ P(s[P(x) + 1]) = P(x)
    BY <1>1, <1>2, <1>9, <2>1
  <2> QED BY <1>3, <2>1, <2>2
<1>12. ASSUME NEW i \in 1..n, NEW j \in 1..n, i < j
       PROVE  <<s[i], s[j]>> \in R /\ s[i] # s[j]
  <2>1. s[i] \in S /\ s[j] \in S /\ P(s[i]) < P(s[j])
    BY <1>1, <1>9, <1>12
  <2>2. s[i] = s[j] \/ <<s[i], s[j]>> \in R \/ <<s[j], s[i]>> \in R
    BY <2>1 DEF StrictOrder, Total
  <2>3. P(s[i]) \in Int /\ P(s[j]) \in Int
    BY <1>1, <1>2, <2>1
  <2> QED BY <1>2, <2>1, <2>2, <2>3
<1> QED BY <1>1, <1>10, <1>11, <1>12 DEF s, n

\* Sorting a list of facts keeps its facts, each as often as it was there, and
\* puts them in game order.
LEMMA FactsAreSorted ==
    ASSUME NEW s \in Seq(Facts)
    PROVE  /\ SortFacts(s) \in Seq(Facts)
           /\ ToSet(SortFacts(s)) = ToSet(s)
           /\ IsInjective(s) => IsInjective(SortFacts(s))
           /\ \A i, j \in DOMAIN SortFacts(s) :
                i < j => SortFacts(s)[i].ac <= SortFacts(s)[j].ac
<1> DEFINE places == 1..Len(s)
           R == {e \in places \X places : Precedes(s, e[1], e[2])}
           o == Ordered(places, R)
           t == SortFacts(s)
<1>1. Len(s) \in Nat /\ DOMAIN s = places /\ \A i \in places : s[i] \in Facts
  OBVIOUS
<1>2. IsFiniteSet(places) /\ Cardinality(places) = Len(s)
  <2> SUFFICES ASSUME NEW n \in Nat PROVE IsFiniteSet(1..n) /\ Cardinality(1..n) = n
    BY <1>1
  <2>1. IsFiniteSet(1..n) /\ Cardinality(1..n) = IF 1 > n THEN 0 ELSE n - 1 + 1
    BY FS_Interval
  <2> QED BY <2>1
<1> DEFINE rank(i) == Source[s[i].kind]
           ac(i) == s[i].ac
<1>3. \A i \in places : i \in Int /\ ac(i) \in Int /\ rank(i) \in Int
  <2>1. \A f \in Facts : f.ac \in Int /\ f.kind \in DOMAIN Source
    BY RelayAssumption DEF Facts
  <2>2. \A k \in DOMAIN Source : Source[k] \in Int
    BY DEF Source
  <2> QED BY <1>1, <2>1, <2>2
<1>4. \A i, j \in places : <<i, j>> \in R <=>
        \/ ac(i) < ac(j)
        \/ ac(i) = ac(j) /\ (rank(i) < rank(j) \/ (rank(i) = rank(j) /\ i < j))
  <2>1. ASSUME NEW i \in places, NEW j \in places
        PROVE  <<i, j>> \in R <=> Precedes(s, i, j)
    <3> HIDE DEF places
    <3>1. <<i, j>> \in places \X places /\ <<i, j>>[1] = i /\ <<i, j>>[2] = j
      OBVIOUS
    <3> QED BY <3>1
  <2>2. ASSUME NEW i \in places, NEW j \in places
        PROVE  Precedes(s, i, j) <=>
                 \/ ac(i) < ac(j)
                 \/ ac(i) = ac(j) /\ (rank(i) < rank(j) \/ (rank(i) = rank(j) /\ i < j))
    BY DEF Precedes
  <2> HIDE DEF R, places, rank, ac
  <2> QED BY <2>1, <2>2
<1> HIDE DEF R, rank, ac
<1>5. StrictOrder(places, R)
  <2> HIDE DEF places
  <2>1. Irreflexive(places, R)
    BY <1>3, <1>4 DEF Irreflexive
  <2>2. Total(places, R)
    <3> SUFFICES ASSUME NEW i \in places, NEW j \in places, i # j
                 PROVE  <<i, j>> \in R \/ <<j, i>> \in R
      BY DEF Total
    <3>1. /\ i < j \/ j < i
          /\ ac(i) < ac(j) \/ ac(j) < ac(i) \/ ac(i) = ac(j)
          /\ rank(i) < rank(j) \/ rank(j) < rank(i) \/ rank(i) = rank(j)
      BY <1>3
    <3>2. i \in Int /\ j \in Int /\ ac(i) \in Int /\ ac(j) \in Int
      BY <1>3
    <3>3. /\ <<i, j>> \in R <=>
              \/ ac(i) < ac(j)
              \/ ac(i) = ac(j) /\ (rank(i) < rank(j) \/ (rank(i) = rank(j) /\ i < j))
          /\ <<j, i>> \in R <=>
              \/ ac(j) < ac(i)
              \/ ac(j) = ac(i) /\ (rank(j) < rank(i) \/ (rank(j) = rank(i) /\ j < i))
      BY <1>4
    <3> QED BY <3>1, <3>3
  <2>3. Transitive(places, R)
    BY <1>3, <1>4 DEF Transitive
  <2> QED BY <2>1, <2>2, <2>3 DEF StrictOrder
<1>6. /\ o \in [places -> places]
      /\ \A x \in places : \E i \in places : o[i] = x
      /\ \A i, j \in places : i < j => <<o[i], o[j]>> \in R /\ o[i] # o[j]
  <2> HIDE DEF places
  <2>1. places = 1..Cardinality(places)
    BY <1>2 DEF places
  <2>2. /\ o \in [1..Cardinality(places) -> places]
        /\ \A x \in places : \E i \in 1..Cardinality(places) : o[i] = x
        /\ \A i, j \in 1..Cardinality(places) :
             i < j => <<o[i], o[j]>> \in R /\ o[i] # o[j]
    BY <1>2, <1>5, OrderedSorts
  <2> QED BY <2>1, <2>2
<1>7. t = [n \in places |-> s[o[n]]]
  BY DEF SortFacts, R
<1> HIDE DEF t, o
<1>8. t \in [places -> Facts] /\ DOMAIN t = places
  BY <1>1, <1>6, <1>7
<1>9. t \in Seq(Facts)
  BY <1>1, <1>8
<1>10. ToSet(t) = ToSet(s)
  BY <1>1, <1>6, <1>7, <1>8 DEF ToSet
<1>11. ASSUME IsInjective(s) PROVE IsInjective(t)
  <2>1. \A i, j \in places : o[i] = o[j] => i = j
    <3>1. \A i, j \in places : i = j \/ i < j \/ j < i
      BY <1>3
    <3> QED BY <1>6, <3>1
  <2>2. \A i, j \in places : s[i] = s[j] => i = j
    BY <1>1, <1>11 DEF IsInjective
  <2>3. \A i, j \in places : t[i] = t[j] => i = j
    BY <1>6, <1>7, <2>1, <2>2
  <2> QED BY <1>8, <2>3 DEF IsInjective
<1>12. ASSUME NEW i \in places, NEW j \in places, i < j PROVE t[i].ac <= t[j].ac
  <2>1. o[i] \in places /\ o[j] \in places /\ <<o[i], o[j]>> \in R
    BY <1>6, <1>12
  <2>2. ac(o[i]) <= ac(o[j])
    BY <1>3, <1>4, <2>1
  <2> QED BY <1>7, <2>2 DEF ac
<1> QED BY <1>8, <1>9, <1>10, <1>11, <1>12 DEF t

\* The reveals at some places of the log, each once.
LEMMA RevealsAreOnce ==
    ASSUME NEW places, places \subseteq 1..MaxLog
    PROVE  /\ RevealsAt(places) \in Seq(Facts)
           /\ ToSet(RevealsAt(places)) = {Fact(i - 1, "reveal") : i \in places}
           /\ IsInjective(RevealsAt(places))
           /\ RevealsAt(places) = <<>> <=> places = {}
<1> DEFINE R == {e \in places \X places : e[1] < e[2]}
           n == Cardinality(places)
           o == Ordered(places, R)
           t == RevealsAt(places)
<1>0. MaxLog \in Int /\ \A i \in places : i \in Int /\ i - 1 \in 0..MaxLog
  BY RelayAssumption
<1>1. IsFiniteSet(places)
  <2>1. IsFiniteSet(1..MaxLog)
    BY <1>0, FS_Interval
  <2> QED BY <2>1, FS_Subset
<1>2. StrictOrder(places, R)
  BY <1>0 DEF StrictOrder, Irreflexive, Total, Transitive
<1>3. /\ o \in [1..n -> places] /\ n \in Nat
      /\ \A x \in places : \E i \in 1..n : o[i] = x
      /\ \A i, j \in 1..n : i < j => o[i] # o[j]
  <2> HIDE DEF R
  <2>1. /\ o \in [1..n -> places] /\ n \in Nat
        /\ \A x \in places : \E i \in 1..n : o[i] = x
        /\ \A i, j \in 1..n : i < j => <<o[i], o[j]>> \in R /\ o[i] # o[j]
    BY <1>1, <1>2, OrderedSorts
  <2> QED BY <2>1
<1>4. t = [i \in 1..n |-> Fact(o[i] - 1, "reveal")]
  BY DEF RevealsAt
<1> HIDE DEF t, o, n, R
<1>5. \A i \in places : Fact(i - 1, "reveal") \in Facts
  BY <1>0 DEF Facts, Fact, Source
<1>6. t \in [1..n -> Facts] /\ DOMAIN t = 1..n
  BY <1>3, <1>4, <1>5
<1>7. t \in Seq(Facts) /\ Len(t) = n
  BY <1>3, <1>6
<1>8. ToSet(t) = {Fact(i - 1, "reveal") : i \in places}
  <2>1. \A i \in 1..n : o[i] \in places /\ t[i] = Fact(o[i] - 1, "reveal")
    BY <1>3, <1>4
  <2>2. \A x \in places : \E i \in 1..n : t[i] = Fact(x - 1, "reveal")
    BY <1>3, <2>1
  <2>3. ToSet(t) = {t[i] : i \in 1..n}
    BY <1>6 DEF ToSet
  <2> DEFINE F(x) == Fact(x - 1, "reveal")
  <2>4. \A i \in 1..n : t[i] = F(o[i])
    BY <2>1
  <2>5. \A x \in places : \E i \in 1..n : t[i] = F(x)
    BY <2>2
  <2> HIDE DEF F
  <2>6. \A i \in 1..n : o[i] \in places
    BY <2>1
  <2>7. \A f : (\E i \in 1..n : t[i] = f) => \E x \in places : F(x) = f
    BY <2>4, <2>6
  <2>8. \A f : (\E x \in places : F(x) = f) => \E i \in 1..n : t[i] = f
    BY <2>5
  <2>9. ToSet(t) = {F(x) : x \in places}
    BY <2>3, <2>7, <2>8
  <2> QED BY <2>9 DEF F
<1>9. IsInjective(t)
  <2>1. \A i, j \in 1..n : o[i] = o[j] => i = j
    <3>1. \A i, j \in 1..n : i = j \/ i < j \/ j < i
      OBVIOUS
    <3> QED BY <1>3, <3>1
  <2>2. \A i, j \in 1..n : t[i] = t[j] => o[i] - 1 = o[j] - 1
    BY <1>4 DEF Fact
  <2>3. \A i \in 1..n : o[i] \in Int
    BY <1>0, <1>3
  <2>4. \A i, j \in 1..n : t[i] = t[j] => o[i] = o[j]
    BY <2>2, <2>3
  <2>5. \A i, j \in 1..n : t[i] = t[j] => i = j
    BY <2>1, <2>4
  <2> QED BY <1>6, <2>5 DEF IsInjective
<1>10. t = <<>> <=> places = {}
  <2>1. t = <<>> <=> n = 0
    BY <1>7
  <2>2. n = 0 <=> 1..n = {}
    BY <1>3
  <2>3. places = {} => 1..n = {}
    BY <1>3
  <2>4. 1..n = {} => places = {}
    BY <1>3
  <2> QED BY <2>1, <2>2, <2>3, <2>4
<1> QED BY <1>7, <1>8, <1>9, <1>10 DEF t

-----------------------------------------------------------------------------
(* Queues.                                                                 *)

FromHandler == [type : {"answer"}, answer : Answers] \union [type : {"left"}]

\* The kinds of a fact, and of the entries that give rise to one.
LEMMA KindsOfFacts ==
    /\ \A n \in 0..MaxLog : \A k \in {"reveal", "search", "reorder", "dig",
                                      "choice", "searched"} :
          Fact(n, k) \in Facts
    /\ [type |-> "accepted"] \in Messages /\ [type |-> "fatal"] \in Messages
    /\ \A r \in Requests : [type |-> "request", request |-> r] \in Messages
    /\ \A f \in Facts : [type |-> "public", fact |-> f] \in Messages
    /\ \A fs \in Seq(Facts) : [type |-> "opponent", facts |-> fs] \in Messages
    /\ \A i \in {"winner", "draw"} : [type |-> "over", info |-> i] \in Messages
<1>1. DOMAIN Source = {"reveal", "search", "reorder", "dig", "choice", "searched"}
  BY DEF Source
<1> QED BY <1>1 DEF Fact, Facts, Messages

\* Sending no question leaves a queue as free of questions as it was.
LEMMA SendsNoQuestion ==
    ASSUME NEW s \in Seq(Messages), NEW t \in Seq(Messages), NoQuestion(t), NEW r
    PROVE  /\ s \o t \in Seq(Messages)
           /\ NoQuestion(s) => NoQuestion(s \o t)
           /\ OnlyQuestion(s, r) => OnlyQuestion(s \o t, r)
           /\ NoQuestion(s \o t) => NoQuestion(s)
<1>1. /\ s \o t \in Seq(Messages) /\ Len(s \o t) = Len(s) + Len(t)
      /\ \A i \in 1..Len(s) + Len(t) :
           (s \o t)[i] = IF i <= Len(s) THEN s[i] ELSE t[i - Len(s)]
  BY ConcatProperties
<1>2. /\ DOMAIN s = 1..Len(s) /\ DOMAIN t = 1..Len(t)
      /\ DOMAIN (s \o t) = 1..Len(s) + Len(t)
      /\ Len(s) \in Nat /\ Len(t) \in Nat
  BY <1>1
<1>3. \A i \in DOMAIN (s \o t) : (s \o t)[i].type = "request" =>
          i \in DOMAIN s /\ (s \o t)[i] = s[i]
  BY <1>1, <1>2 DEF NoQuestion
<1>4. \A i \in DOMAIN s : i \in DOMAIN (s \o t) /\ (s \o t)[i] = s[i]
  BY <1>1, <1>2
<1> HIDE DEF NoQuestion
<1> QED BY <1>1, <1>3, <1>4 DEF NoQuestion, OnlyQuestion

\* Sending a question to a queue without one.
LEMMA SendsQuestion ==
    ASSUME NEW s \in Seq(Messages), NEW t \in Seq(Messages),
           NoQuestion(s), NoQuestion(t), NEW r \in Requests
    PROVE  LET m == Append(t, [type |-> "request", request |-> r])
           IN  m \in Seq(Messages) /\ OnlyQuestion(s \o m, r)
<1> DEFINE q == [type |-> "request", request |-> r]
           u == s \o t
           m == Append(t, q)
<1>1. q \in Messages
  BY KindsOfFacts
<1>2. u \in Seq(Messages) /\ NoQuestion(u)
  BY SendsNoQuestion
<1>3. m \in Seq(Messages) /\ s \o m = Append(u, q)
  BY <1>1, <1>2
<1>4. q.type = "request" /\ q.request = r
  OBVIOUS
<1> HIDE DEF u, q
<1>5. /\ DOMAIN Append(u, q) = 1..Len(u) + 1 /\ Append(u, q)[Len(u) + 1] = q
      /\ \A i \in 1..Len(u) : Append(u, q)[i] = u[i]
      /\ Len(u) \in Nat /\ DOMAIN u = 1..Len(u)
  BY <1>1, <1>2, AppendProperties
<1>6. \A i \in DOMAIN Append(u, q) :
        Append(u, q)[i].type = "request" => i = Len(u) + 1
  BY <1>2, <1>5 DEF NoQuestion
<1>7. OnlyQuestion(Append(u, q), r)
  BY <1>4, <1>5, <1>6 DEF OnlyQuestion
<1> QED BY <1>3, <1>7 DEF q

\* Taking the first message.
LEMMA TakesMessage ==
    ASSUME NEW s \in Seq(Messages), s # <<>>, NEW r
    PROVE  /\ Tail(s) \in Seq(Messages) /\ Head(s) \in Messages
           /\ NoQuestion(s) => NoQuestion(Tail(s)) /\ Head(s).type # "request"
           /\ OnlyQuestion(s, r) => OnlyQuestion(Tail(s), r)
           /\ OnlyQuestion(s, r) /\ Head(s).type = "request" =>
                Head(s).request = r /\ NoQuestion(Tail(s))
           /\ NoQuestion(Tail(s)) /\ Head(s).type # "request" => NoQuestion(s)
<1>1. /\ Tail(s) \in Seq(Messages) /\ Head(s) = s[1] /\ 1 \in DOMAIN s
      /\ Head(s) \in Messages
      /\ \A i \in DOMAIN Tail(s) : i + 1 \in DOMAIN s /\ Tail(s)[i] = s[i + 1]
                                   /\ i + 1 # 1 /\ i \in Nat
      /\ \A i \in DOMAIN s : i # 1 => i - 1 \in DOMAIN Tail(s)
                                      /\ s[i] = Tail(s)[i - 1]
  BY HeadTailProperties
<1>2. NoQuestion(s) => NoQuestion(Tail(s)) /\ Head(s).type # "request"
  BY <1>1 DEF NoQuestion
<1>3. OnlyQuestion(s, r) => OnlyQuestion(Tail(s), r)
  BY <1>1 DEF OnlyQuestion
<1>4. OnlyQuestion(s, r) /\ Head(s).type = "request" =>
        Head(s).request = r /\ NoQuestion(Tail(s))
  BY <1>1 DEF OnlyQuestion, NoQuestion
<1>5. NoQuestion(Tail(s)) /\ Head(s).type # "request" => NoQuestion(s)
  BY <1>1 DEF NoQuestion
<1> QED BY <1>1, <1>2, <1>3, <1>4, <1>5

\* The same for the queue to the coordinator.
LEMMA SendsToCoordinator ==
    ASSUME NEW s \in Seq(FromHandler), NEW a \in Answers
    PROVE  /\ Append(s, Answer(a)) \in Seq(FromHandler)
           /\ NoAnswer(s) => OneAnswer(Append(s, Answer(a)))
           /\ LET t == Append(s, [type |-> "left"]) IN
              /\ t \in Seq(FromHandler)
              /\ NoAnswer(s) => NoAnswer(t)
              /\ OneAnswer(s) => OneAnswer(t)
<1>1. Answer(a) \in FromHandler /\ [type |-> "left"] \in FromHandler
  BY DEF Answer, FromHandler
<1>2. ASSUME NEW x \in FromHandler
      PROVE  /\ Append(s, x) \in Seq(FromHandler)
             /\ DOMAIN Append(s, x) = 1..Len(s) + 1
             /\ Append(s, x)[Len(s) + 1] = x
             /\ \A i \in 1..Len(s) : Append(s, x)[i] = s[i]
             /\ Len(s) \in Nat /\ DOMAIN s = 1..Len(s)
  BY AppendProperties
<1>3. NoAnswer(s) => OneAnswer(Append(s, Answer(a)))
  <2> SUFFICES ASSUME NoAnswer(s) PROVE OneAnswer(Append(s, Answer(a)))
    OBVIOUS
  <2>1. \A i \in DOMAIN Append(s, Answer(a)) :
          Append(s, Answer(a))[i].type = "answer" => i = Len(s) + 1
    BY <1>1, <1>2 DEF NoAnswer
  <2> QED BY <2>1 DEF OneAnswer
<1>4. NoAnswer(s) => NoAnswer(Append(s, [type |-> "left"]))
  BY <1>1, <1>2 DEF NoAnswer
<1>5. OneAnswer(s) => OneAnswer(Append(s, [type |-> "left"]))
  BY <1>1, <1>2 DEF OneAnswer
<1> QED BY <1>1, <1>2, <1>3, <1>4, <1>5

\* Taking the coordinator's first message: an answer taken was the only one.
LEMMA TakesFromHandler ==
    ASSUME NEW s \in Seq(FromHandler), s # <<>>
    PROVE  /\ Tail(s) \in Seq(FromHandler) /\ Head(s) \in FromHandler
           /\ OneAnswer(s) /\ Head(s).type = "answer" => NoAnswer(Tail(s))
           /\ Head(s).type = "answer" => Head(s).answer \in Answers /\ ~NoAnswer(s)
           /\ OneAnswer(s) => OneAnswer(Tail(s))
<1>1. /\ Tail(s) \in Seq(FromHandler) /\ Head(s) = s[1] /\ 1 \in DOMAIN s
      /\ Head(s) \in FromHandler
      /\ \A i \in DOMAIN Tail(s) : i + 1 \in DOMAIN s /\ Tail(s)[i] = s[i + 1]
                                   /\ i + 1 # 1 /\ i \in Nat
  BY HeadTailProperties
<1>2. Head(s).type = "answer" => Head(s).answer \in Answers
  BY <1>1 DEF FromHandler
<1>3. OneAnswer(s) /\ Head(s).type = "answer" => NoAnswer(Tail(s))
  BY <1>1 DEF OneAnswer, NoAnswer
<1>4. OneAnswer(s) => OneAnswer(Tail(s))
  BY <1>1 DEF OneAnswer
<1> QED BY <1>1, <1>2, <1>3, <1>4 DEF NoAnswer

\* A send that succeeds adds its messages, one that fails leaves the queue.
LEMMA Delivery ==
    ASSUME NEW m \in [Players -> Seq(Messages)], HandlerTypes
    PROVE  /\ Deliver(m) \in [Players -> Seq(Messages)]
           /\ \A p \in Players :
                Deliver(m)[p] = IF handler[p].alive THEN inbox[p] \o m[p]
                                ELSE inbox[p]
BY DEF Deliver, HandlerTypes

-----------------------------------------------------------------------------
(* The game thread.                                                        *)

\* While the game plays nobody is waited for, and no request is under way.
LEMMA NobodyAsked ==
    ASSUME RelayInv, game.at = "playing"
    PROVE  /\ coord.at # "await"
           /\ \A p \in Players : request[p] = None /\ response[p] = None
BY DEF RelayInv, CoordinatorInv, GameInv, IsNextOf

\* What the game does between two choices.
LEMMA DeedKeeps ==
    ASSUME RelayInv, game.at = "playing", Len(log) < MaxLog,
           NEW e \in Entries, e.kind # "choice", log' = Append(log, e),
           pending' \in Seq(Facts), public' \in SUBSET Facts,
           UNCHANGED <<game, seq, revealed, linkVars, coord, inbox, outbox,
                       handler, runVars, clientVars>>
    PROVE  RelayInv'
<1> USE DEF RelayInv, linkVars, runVars, clientVars
<1>1. /\ log \in Seq(Entries) /\ Len(log) \in Nat /\ MaxLog \in Nat
      /\ Append(log, e) \in Seq(Entries)
      /\ Len(Append(log, e)) = Len(log) + 1
      /\ Append(log, e)[Len(log) + 1] = e
      /\ \A i \in 1..Len(log) : Append(log, e)[i] = log[i]
  BY RelayAssumption, AppendProperties DEF TypeOK, GameTypes
<1>2. TypeOK'
  <2>1. GameTypes'
    BY <1>1 DEF TypeOK, GameTypes
  <2>2. CoordinatorTypes' /\ HandlerTypes' /\ ClientTypes'
    BY DEF TypeOK, CoordinatorTypes, HandlerTypes, ClientTypes
  <2> QED BY <2>1, <2>2 DEF TypeOK
<1>3. CoordinatorInv'
  BY NobodyAsked DEF CoordinatorInv, Quiet
<1>4. GameInv'
  BY NobodyAsked DEF GameInv
<1>5. AnswersFitQuestions'
  BY <1>1 DEF AnswersFitQuestions
<1>6. HandlerInv'
  BY DEF HandlerInv
<1> QED BY <1>2, <1>3, <1>4, <1>5, <1>6

\* Between two choices the game logs deeds, and asks nobody.
LEMMA GameActsKeeps ==
    ASSUME RelayInv,
           \/ \E to \in Players \union {Nobody} :
                 \/ GameActs([kind |-> "reveal", to |-> to])
                 \/ GameDigs([kind |-> "reveal", to |-> to])
           \/ GameActs([kind |-> "other"])
           \/ GameDigs([kind |-> "other"])
           \/ GameReorders
    PROVE  RelayInv'
<1>1. \A to \in Players \union {Nobody} :
         LET e == [kind |-> "reveal", to |-> to]
         IN  e \in Entries /\ e.kind # "choice"
  BY DEF Entries
<1>2. LET e == [kind |-> "other"] IN e \in Entries /\ e.kind # "choice"
  BY DEF Entries
<1>3. pending \in Seq(Facts) /\ public \in SUBSET Facts /\ Len(log) \in Nat
  BY DEF RelayInv, TypeOK, GameTypes
<1>4. ASSUME NEW e \in Entries, e.kind # "choice", GameActs(e)
      PROVE  RelayInv'
  BY <1>3, <1>4, DeedKeeps DEF GameActs
<1>5. ASSUME NEW e \in Entries, e.kind # "choice", GameDigs(e)
      PROVE  RelayInv'
  <2>1. Fact(Len(log), "dig") \in Facts
    BY <1>3, <1>5, RelayAssumption, KindsOfFacts DEF GameDigs
  <2> QED BY <1>3, <1>5, <2>1, DeedKeeps DEF GameDigs
<1>6. CASE GameReorders
  <2>1. Fact(Len(log) + 1, "reorder") \in Facts
    BY <1>3, <1>6, RelayAssumption, KindsOfFacts DEF GameReorders
  <2> QED BY <1>2, <1>3, <1>6, <2>1, DeedKeeps DEF GameReorders
<1> HIDE DEF GameActs, GameDigs
<1> QED BY <1>1, <1>2, <1>4, <1>5, <1>6

\* The scan for reveals finds each once.
LEMMA ScanIsOnce ==
    ASSUME RelayInv, NEW p \in Players
    PROVE  LET seen == {i \in revealed[p] + 1..Len(log) :
                          /\ \A j \in i..Len(log) : ~IsChoiceOf(log[j], p)
                          /\ log[i].kind = "reveal" /\ log[i].to \in {p, Nobody}}
           IN  /\ RevealsSinceLastChoice(p) \in Seq(Facts)
               /\ ToSet(RevealsSinceLastChoice(p))
                    = {Fact(i - 1, "reveal") : i \in seen}
               /\ IsInjective(RevealsSinceLastChoice(p))
               /\ RevealsSinceLastChoice(p) = <<>> <=> seen = {}
<1> DEFINE seen == {i \in revealed[p] + 1..Len(log) :
                      /\ \A j \in i..Len(log) : ~IsChoiceOf(log[j], p)
                      /\ log[i].kind = "reveal" /\ log[i].to \in {p, Nobody}}
<1>1. revealed[p] \in Nat /\ Len(log) \in Nat /\ Len(log) <= MaxLog /\ MaxLog \in Nat
  BY RelayAssumption DEF RelayInv, TypeOK, GameTypes
<1>2. seen \subseteq 1..MaxLog
  BY <1>1
<1>3. RevealsSinceLastChoice(p) = RevealsAt(seen)
  BY DEF RevealsSinceLastChoice
<1> HIDE DEF seen
<1>4. /\ RevealsAt(seen) \in Seq(Facts)
      /\ ToSet(RevealsAt(seen)) = {Fact(i - 1, "reveal") : i \in seen}
      /\ IsInjective(RevealsAt(seen))
      /\ RevealsAt(seen) = <<>> <=> seen = {}
  BY <1>2, RevealsAreOnce
<1> QED BY <1>3, <1>4 DEF seen

\* request_choice asks where the game stands, and only one player.
LEMMA AskKeeps ==
    ASSUME RelayInv, NEW p \in Players, NEW search \in BOOLEAN, Ask(p, search)
    PROVE  RelayInv'
<1> USE DEF RelayInv
<1> DEFINE reveals == RevealsSinceLastChoice(p)
           r == [seq |-> seq[p] + 1, ac |-> Len(log), search |-> search,
                 reveals |-> reveals, public |-> pending]
<1>1. /\ game.at = "playing" /\ Len(log) < MaxLog
      /\ game' = [at |-> "waiting", player |-> p, search |-> search]
      /\ revealed' = IF reveals # <<>> THEN [revealed EXCEPT ![p] = Len(log)]
                     ELSE revealed
      /\ request' = [request EXCEPT ![p] = r]
      /\ pending' = <<>>
      /\ UNCHANGED <<log, public, seq, response, coord, inbox, outbox, handler,
                     runVars, clientVars>>
  BY DEF Ask
<1>2. /\ log \in Seq(Entries) /\ Len(log) \in Nat /\ MaxLog \in Nat
      /\ seq[p] \in Nat /\ pending \in Seq(Facts) /\ revealed[p] \in Nat
      /\ request \in [Players -> Requests \union {None}]
  BY RelayAssumption DEF TypeOK, GameTypes, CoordinatorTypes
<1>3. reveals \in Seq(Facts)
  BY ScanIsOnce
<1> HIDE DEF reveals
<1>4. r \in Requests
  BY <1>1, <1>2, <1>3 DEF Requests
<1>5. r.seq = seq[p] + 1 /\ r.ac = Len(log)
  OBVIOUS
<1> HIDE DEF r
<1>6. TypeOK'
  <2>1. GameTypes'
    BY <1>1, <1>2 DEF TypeOK, GameTypes
  <2>2. CoordinatorTypes' /\ HandlerTypes' /\ ClientTypes'
    BY <1>1, <1>2, <1>4 DEF TypeOK, CoordinatorTypes, HandlerTypes, ClientTypes,
       runVars, clientVars
  <2> QED BY <2>1, <2>2 DEF TypeOK
<1>7. CoordinatorInv'
  BY <1>1, NobodyAsked DEF CoordinatorInv, Quiet
<1>8. GameInv'
  <2>1. \A q \in Players : request'[q] # None => q = p /\ request'[q] = r
    BY <1>1, <1>2, NobodyAsked
  <2> QED BY <1>1, <1>5, <2>1, NobodyAsked DEF GameInv, IsNextOf
<1>9. AnswersFitQuestions'
  BY <1>1 DEF AnswersFitQuestions
<1>10. HandlerInv'
  BY <1>1 DEF HandlerInv, clientVars
<1> QED BY <1>6, <1>7, <1>8, <1>9, <1>10

\* The answer that is logged was made for the place it is logged at.
LEMMA TakeAnswerKeeps ==
    ASSUME RelayInv, NEW p \in Players, TakeAnswer(p)
    PROVE  RelayInv'
<1> USE DEF RelayInv
<1> DEFINE a == response[p]
           e == [kind |-> "choice", by |-> p, search |-> game.search,
                 found |-> game.search /\ a.pick = "find", answered |-> a.ac]
<1>1. /\ game.at = "waiting" /\ game.player = p /\ a # None
      /\ response' = [response EXCEPT ![p] = None]
      /\ \/ /\ log' = Append(log, e)
            /\ seq' = [seq EXCEPT ![p] = @ + 1]
            /\ game' = [game EXCEPT !.at = "playing"]
         \/ /\ game' = [game EXCEPT !.at = "desync"]
            /\ UNCHANGED <<log, seq>>
      /\ UNCHANGED <<pending, public, revealed, request, coord, inbox, outbox,
                     handler, runVars, clientVars>>
  BY DEF TakeAnswer
<1>2. /\ log \in Seq(Entries) /\ Len(log) \in Nat /\ MaxLog \in Nat
      /\ a \in Answers /\ a.ac = Len(log) /\ Len(log) < MaxLog
      /\ game \in [at : {"playing", "waiting", "won", "desync", "failed"},
                   player : Players \union {Nobody}, search : BOOLEAN]
  BY <1>1, RelayAssumption DEF TypeOK, GameTypes, CoordinatorTypes, GameInv
<1>3. e \in Entries /\ e.kind = "choice" /\ e.answered = Len(log)
  BY <1>2 DEF Entries, Answers
<1>4. coord.at # "await" /\ \A q \in Players : request[q] = None
  BY <1>1 DEF CoordinatorInv, GameInv, IsNextOf
<1>5. \A q \in Players : response'[q] = None
  BY <1>1 DEF TypeOK, CoordinatorTypes, GameInv
<1> HIDE DEF a, e
<1>6. /\ Append(log, e) \in Seq(Entries)
      /\ Len(Append(log, e)) = Len(log) + 1
      /\ Append(log, e)[Len(log) + 1] = e
      /\ \A i \in 1..Len(log) : Append(log, e)[i] = log[i]
  BY <1>2, <1>3, AppendProperties
<1>7. TypeOK'
  <2>1. GameTypes'
    <3>1. log' \in Seq(Entries) /\ Len(log') <= MaxLog
      <4>1. Len(log) + 1 <= MaxLog /\ Len(log) <= MaxLog
        BY <1>2
      <4>2. log' = log \/ log' = Append(log, e)
        BY <1>1
      <4> QED BY <1>2, <1>6, <4>1, <4>2
    <3>2. game' \in [at : {"playing", "waiting", "won", "desync", "failed"},
                     player : Players \union {Nobody}, search : BOOLEAN]
      <4>1. \E w \in {"playing", "desync"} : game' = [game EXCEPT !.at = w]
        BY <1>1
      <4> QED BY <1>2, <4>1
    <3>3. seq' \in [Players -> Nat]
      <4>1. seq \in [Players -> Nat] /\ seq[p] + 1 \in Nat
        BY DEF TypeOK, GameTypes
      <4>2. seq' = seq \/ seq' = [seq EXCEPT ![p] = @ + 1]
        BY <1>1
      <4> QED BY <4>1, <4>2
    <3> QED BY <1>1, <3>1, <3>2, <3>3 DEF TypeOK, GameTypes
  <2>2. CoordinatorTypes' /\ HandlerTypes' /\ ClientTypes'
    BY <1>1 DEF TypeOK, CoordinatorTypes, HandlerTypes, ClientTypes, runVars,
       clientVars
  <2> QED BY <2>1, <2>2 DEF TypeOK
<1>8. CoordinatorInv'
  BY <1>1, <1>4 DEF CoordinatorInv, Quiet, clientVars
<1>9. GameInv'
  BY <1>1, <1>2, <1>4, <1>5 DEF GameInv
<1>10. AnswersFitQuestions'
  BY <1>1, <1>2, <1>3, <1>6 DEF AnswersFitQuestions
<1>11. HandlerInv'
  BY <1>1 DEF HandlerInv, clientVars
<1> QED BY <1>7, <1>8, <1>9, <1>10, <1>11

\* The game thread ends, won or because nobody will answer it.
LEMMA GameEndsKeeps ==
    ASSUME RelayInv, AnswerChannelCloses \/ GameIsWon
    PROVE  RelayInv'
<1> USE DEF RelayInv
<1>1. /\ UNCHANGED <<log, pending, public, seq, revealed, linkVars, coord,
                     inbox, outbox, handler, runVars, clientVars>>
      /\ game \in [at : {"playing", "waiting", "won", "desync", "failed"},
                   player : Players \union {Nobody}, search : BOOLEAN]
  BY DEF AnswerChannelCloses, GameIsWon, TypeOK, GameTypes
<1>2. \/ game' = [game EXCEPT !.at = "won"]
         /\ coord.at # "await"
         /\ \A p \in Players : request[p] = None /\ response[p] = None
      \/ game' = [game EXCEPT !.at = "failed"] /\ coord.at = "ended"
         /\ \A p \in Players : response[p] = None
  <2>1. CASE GameIsWon
    BY <2>1, NobodyAsked DEF GameIsWon
  <2>2. CASE AnswerChannelCloses
    BY <2>2 DEF AnswerChannelCloses, GameInv
  <2> QED BY <2>1, <2>2
<1>3. TypeOK'
  <2>1. GameTypes'
    BY <1>1, <1>2 DEF TypeOK, GameTypes
  <2>2. CoordinatorTypes' /\ HandlerTypes' /\ ClientTypes'
    BY <1>1 DEF TypeOK, CoordinatorTypes, HandlerTypes, ClientTypes, linkVars,
       runVars, clientVars
  <2> QED BY <2>1, <2>2 DEF TypeOK
<1>4. CoordinatorInv'
  BY <1>1, <1>2 DEF CoordinatorInv, Quiet, linkVars, clientVars
<1>5. GameInv'
  BY <1>1, <1>2 DEF GameInv, linkVars
<1>6. AnswersFitQuestions'
  BY <1>1 DEF AnswersFitQuestions
<1>7. HandlerInv'
  BY <1>1 DEF HandlerInv, clientVars
<1> QED BY <1>3, <1>4, <1>5, <1>6, <1>7

-----------------------------------------------------------------------------
(* The coordinator.                                                        *)

\* A step of the coordinator, or one that ends it: the game, the handlers and
\* the clients stay as they are.
LEMMA CoordinatorFrame ==
    ASSUME RelayInv, UNCHANGED <<gameVars, handler>>,
           UNCHANGED <<connected, question, told, known, strays>>,
           runner' \in {"watching", "ending", "stopped"},
           endInfo' \in {None, "winner", "draw"}
    PROVE  /\ GameTypes' /\ ClientTypes' /\ AnswersFitQuestions'
           /\ \A p \in Players : \A r : IsNextOf(p, r)' <=> IsNextOf(p, r)
<1> USE DEF RelayInv, gameVars
<1>1. GameTypes'
  BY DEF TypeOK, GameTypes
<1>2. ClientTypes'
  BY DEF TypeOK, ClientTypes
<1>3. AnswersFitQuestions'
  BY DEF AnswersFitQuestions
<1>4. \A p \in Players : \A r : IsNextOf(p, r)' <=> IsNextOf(p, r)
  BY DEF IsNextOf
<1> QED BY <1>1, <1>2, <1>3, <1>4

\* Sending to the handlers what is no question.
LEMMA DeliversNoQuestion ==
    ASSUME RelayInv, NEW m \in [Players -> Seq(Messages)],
           \A p \in Players : NoQuestion(m[p])
    PROVE  /\ Deliver(m) \in [Players -> Seq(Messages)]
           /\ \A p \in Players : NoQuestion(inbox[p]) => NoQuestion(Deliver(m)[p])
<1>1. HandlerTypes /\ \A p \in Players : inbox[p] \in Seq(Messages)
  BY DEF RelayInv, TypeOK, HandlerTypes
<1> QED BY <1>1, Delivery, SendsNoQuestion

\* Only the game's next question is forwarded, and to a quiet handler.
LEMMA ForwardKeeps ==
    ASSUME RelayInv, NEW p \in Players, Forward(p)
    PROVE  RelayInv'
<1> USE DEF RelayInv
<1>0. PICK r \in Requests : r = request[p]
  BY DEF Forward, TypeOK, CoordinatorTypes
<1> DEFINE facts == [i \in DOMAIN r.public |->
                       [type |-> "public", fact |-> r.public[i]]]
           asking == [q \in Players |->
              IF q = p THEN Append(facts, [type |-> "request", request |-> r])
              ELSE facts]
<1>1. /\ coord.at = "select" /\ r # None
      /\ request' = [request EXCEPT ![p] = None]
      /\ \/ /\ handler[p].alive
            /\ coord' = [coord EXCEPT !.at = "await", !.player = p,
                                      !.request = r]
            /\ inbox' = Deliver(asking)
         \/ Ended(None) /\ UNCHANGED inbox
      /\ UNCHANGED <<gameVars, response, outbox, handler, runVars, clientVars>>
  BY <1>0 DEF Forward
<1>2. /\ request \in [Players -> Requests \union {None}]
      /\ r \in Requests /\ IsNextOf(p, r)
      /\ \A q \in Players : Quiet(q) /\ response[q] = None
      /\ \A q \in Players : request[q] # None => q = p
  BY <1>0, <1>1 DEF TypeOK, CoordinatorTypes, CoordinatorInv, GameInv, IsNextOf
<1>3. facts \in Seq(Messages) /\ NoQuestion(facts)
  <2>1. r.public \in Seq(Facts)
    BY <1>2 DEF Requests
  <2>2. \A i \in DOMAIN r.public :
           facts[i] \in Messages /\ facts[i].type = "public"
    BY <2>1, KindsOfFacts
  <2>3. Len(r.public) \in Nat /\ DOMAIN r.public = 1..Len(r.public)
    BY <2>1
  <2>4. facts = [i \in 1..Len(r.public) |-> facts[i]] /\ DOMAIN facts = DOMAIN r.public
    BY <2>3
  <2> HIDE DEF facts
  <2>5. facts \in Seq(Messages)
    <3>1. facts \in [1..Len(r.public) -> Messages]
      BY <2>2, <2>3, <2>4
    <3>2. [1..Len(r.public) -> Messages] \subseteq Seq(Messages)
      BY <2>3
    <3> QED BY <3>1, <3>2, Zenon
  <2> QED BY <2>2, <2>4, <2>5 DEF NoQuestion
<1> HIDE DEF facts
<1>4. /\ asking \in [Players -> Seq(Messages)]
      /\ \A q \in Players : q # p => NoQuestion(asking[q])
      /\ OnlyQuestion(inbox[p] \o asking[p], r)
  <2>1. \A s \in Seq(Messages) : NoQuestion(s) =>
          LET t == Append(facts, [type |-> "request", request |-> r])
          IN  t \in Seq(Messages) /\ OnlyQuestion(s \o t, r)
    BY <1>2, <1>3, SendsQuestion
  <2>2. inbox[p] \in Seq(Messages) /\ NoQuestion(inbox[p])
    BY <1>2 DEF TypeOK, HandlerTypes, Quiet
  <2> QED BY <1>3, <2>1, <2>2
<1> HIDE DEF asking
<1>5. \A q \in Players : request'[q] = None /\ response'[q] = None
  BY <1>1, <1>2
<1>6. CoordinatorTypes'
  BY <1>1, <1>2 DEF TypeOK, CoordinatorTypes, Ended
<1>7. /\ Deliver(asking) \in [Players -> Seq(Messages)]
      /\ \A q \in Players :
           Deliver(asking)[q] = IF handler[q].alive THEN inbox[q] \o asking[q]
                                ELSE inbox[q]
  BY <1>4, Delivery DEF TypeOK
<1>8. HandlerTypes'
  BY <1>1, <1>7 DEF TypeOK, HandlerTypes
<1>9. CoordinatorInv'
  <2>1. CASE Ended(None) /\ UNCHANGED inbox
    BY <1>1, <1>2, <2>1 DEF Ended, TypeOK, CoordinatorTypes, CoordinatorInv,
       Quiet
  <2>2. CASE /\ handler[p].alive /\ inbox' = Deliver(asking)
             /\ coord' = [coord EXCEPT !.at = "await", !.player = p,
                                       !.request = r]
    <3>1. coord'.at = "await" /\ coord'.player = p /\ coord'.request = r
      BY <2>2 DEF TypeOK, CoordinatorTypes
    <3>2. OnlyQuestion(inbox'[p], r)
      BY <1>4, <1>7, <2>2
    <3>3. NoAnswer(outbox[p]) /\ ~handler[p].waiting
      BY <1>2 DEF Quiet
    <3>4. Holds(p, r)'
      BY <1>1, <3>2, <3>3 DEF Holds, NoAnswer, OneAnswer
    <3>5. ASSUME NEW q \in Players, q # p PROVE Quiet(q)'
      <4>1. inbox[q] \in Seq(Messages) /\ asking[q] \in Seq(Messages)
            /\ NoQuestion(inbox[q]) /\ NoQuestion(asking[q])
        BY <1>2, <1>4, <3>5 DEF Quiet, TypeOK, HandlerTypes
      <4>2. NoQuestion(inbox'[q])
        BY <1>7, <2>2, <4>1, SendsNoQuestion
      <4> QED BY <1>1, <1>2, <4>2 DEF Quiet
    <3>6. IsNextOf(p, r)'
      BY <1>1, <1>2 DEF IsNextOf, gameVars
    <3> QED BY <1>2, <1>5, <3>1, <3>4, <3>5, <3>6 DEF CoordinatorInv
  <2> QED BY <1>1, <2>1, <2>2
<1>10. GameInv'
  BY <1>1, <1>5 DEF GameInv, gameVars
<1>11. HandlerInv'
  BY <1>1 DEF HandlerInv, clientVars
<1>12. GameTypes' /\ ClientTypes' /\ AnswersFitQuestions'
  BY <1>1, CoordinatorFrame DEF runVars, clientVars, TypeOK, ClientTypes
<1> QED BY <1>6, <1>8, <1>9, <1>10, <1>11, <1>12 DEF TypeOK

\* The coordinator ends and sends no question: whoever still runs must not be
\* waiting for a client.
LEMMA EndKeeps ==
    ASSUME RelayInv, NEW v \in {None, "fatal", "winner", "draw"}, Ended(v),
           inbox' \in [Players -> Seq(Messages)],
           outbox' \in [Players -> Seq(FromHandler)],
           \A p \in Players : \A i \in DOMAIN outbox'[p] :
              outbox'[p][i].type = "left" => ~handler[p].alive,
           \A p \in Players :
              handler[p].alive => ~handler[p].waiting /\ NoQuestion(inbox'[p]),
           UNCHANGED <<gameVars, linkVars, handler, runVars, clientVars>>
    PROVE  RelayInv'
<1> USE DEF RelayInv, linkVars, runVars, clientVars
<1>1. GameTypes' /\ ClientTypes' /\ AnswersFitQuestions'
  BY CoordinatorFrame DEF TypeOK, ClientTypes
<1>2. CoordinatorTypes'
  BY DEF Ended, TypeOK, CoordinatorTypes
<1>3. HandlerTypes'
  BY DEF TypeOK, HandlerTypes, FromHandler
<1>4. coord'.at = "ended"
  BY DEF Ended, TypeOK, CoordinatorTypes
<1>5. CoordinatorInv'
  BY <1>4 DEF CoordinatorInv
<1>6. GameInv'
  BY <1>4 DEF GameInv, IsNextOf, gameVars
<1>7. HandlerInv'
  BY DEF HandlerInv
<1> QED BY <1>1, <1>2, <1>3, <1>5, <1>6, <1>7 DEF TypeOK

\* What the coordinator sends when it is not a question.
LEMMA Announcements ==
    ASSUME NEW m \in Messages, m.type # "request"
    PROVE  <<m>> \in Seq(Messages) /\ NoQuestion(<<m>>)
           /\ <<>> \in Seq(Messages) /\ NoQuestion(<<>>)
<1>1. <<m>> \in Seq(Messages) /\ DOMAIN <<m>> = {1} /\ <<m>>[1] = m
  OBVIOUS
<1>2. <<>> \in Seq(Messages) /\ DOMAIN <<>> = {}
  OBVIOUS
<1> QED BY <1>1, <1>2 DEF NoQuestion

\* A departure reported to the coordinator, taken out of the queue or not.
LEMMA DepartedStay ==
    ASSUME RelayInv, NEW p \in Players, outbox[p] # <<>>,
           outbox' = [outbox EXCEPT ![p] = Tail(@)]
    PROVE  /\ outbox' \in [Players -> Seq(FromHandler)]
           /\ \A q \in Players : q # p => outbox'[q] = outbox[q]
           /\ outbox'[p] = Tail(outbox[p])
           /\ \A q \in Players : \A i \in DOMAIN outbox'[q] :
                 outbox'[q][i].type = "left" => ~handler[q].alive
           /\ Head(outbox[p]).type = "left" => ~handler[p].alive
<1>1. /\ outbox \in [Players -> Seq(FromHandler)]
      /\ \A q \in Players : \A i \in DOMAIN outbox[q] :
            outbox[q][i].type = "left" => ~handler[q].alive
  BY DEF RelayInv, HandlerInv, TypeOK, HandlerTypes, FromHandler
<1>2. /\ Tail(outbox[p]) \in Seq(FromHandler)
      /\ Head(outbox[p]) = outbox[p][1] /\ 1 \in DOMAIN outbox[p]
      /\ \A i \in DOMAIN Tail(outbox[p]) :
            i + 1 \in DOMAIN outbox[p] /\ Tail(outbox[p])[i] = outbox[p][i + 1]
  BY <1>1, HeadTailProperties
<1>3. /\ \A q \in Players : q # p => outbox'[q] = outbox[q]
      /\ outbox'[p] = Tail(outbox[p])
      /\ outbox' \in [Players -> Seq(FromHandler)]
  BY <1>1, <1>2
<1> QED BY <1>1, <1>2, <1>3

\* The facts an answer leaves with the opponent.
LEMMA OpponentFactsType ==
    ASSUME NEW r, r.ac \in 0..MaxLog, NEW a
    PROVE  OpponentFacts(r, a) \in Seq(Facts)
<1>1. Fact(r.ac, "choice") \in Facts /\ Fact(r.ac, "searched") \in Facts
  BY KindsOfFacts
<1> QED BY <1>1 DEF OpponentFacts

\* An answer that fits goes to the game, whose turn it is to move; one that
\* does not ends the coordinator.
LEMMA ReceiveAnswerKeeps ==
    ASSUME RelayInv, ReceiveAnswer
    PROVE  RelayInv'
<1> USE DEF RelayInv
<1>1. PICK p \in Players, r \in Requests : p = coord.player /\ r = coord.request
  BY DEF ReceiveAnswer, CoordinatorInv
<1>2. PICK a : a = Head(outbox[p]).answer
  OBVIOUS
<1> DEFINE bad == [q \in Players |-> <<[type |-> "fatal"]>>]
           accept == [coord EXCEPT !.at = "accept", !.request = None,
                                   !.facts = OpponentFacts(r, a)]
<1>3. /\ coord.at = "await" /\ outbox[p] # <<>>
      /\ Head(outbox[p]).type = "answer"
      /\ outbox' = [outbox EXCEPT ![p] = Tail(@)]
      /\ \/ /\ a.ac = r.ac
            /\ response' = [response EXCEPT ![p] = a]
            /\ inbox' = inbox /\ coord' = accept
         \/ inbox' = Deliver(bad) /\ Ended("fatal") /\ UNCHANGED response
      /\ UNCHANGED <<gameVars, request, handler, runVars, clientVars>>
  BY <1>1, <1>2 DEF ReceiveAnswer, Fits
<1>4. /\ IsNextOf(p, r) /\ Holds(p, r)
      /\ \A q \in Players : q # p => Quiet(q)
      /\ \A q \in Players : request[q] = None /\ response[q] = None
  BY <1>1, <1>3 DEF CoordinatorInv
<1>5. outbox[p] \in Seq(FromHandler) /\ inbox \in [Players -> Seq(Messages)]
  BY DEF TypeOK, HandlerTypes, FromHandler
<1>6. a \in Answers /\ NoAnswer(Tail(outbox[p])) /\ ~NoAnswer(outbox[p])
  BY <1>2, <1>3, <1>4, <1>5, TakesFromHandler DEF Holds
<1>7. ~handler[p].waiting /\ NoQuestion(inbox[p])
  BY <1>4, <1>6 DEF Holds
<1>8. \A q \in Players : ~handler[q].waiting /\ NoQuestion(inbox[q])
  BY <1>4, <1>7 DEF Quiet
<1>9. OpponentFacts(r, a) \in Seq(Facts)
  BY OpponentFactsType DEF Requests
<1>10. bad \in [Players -> Seq(Messages)] /\ \A q \in Players : NoQuestion(bad[q])
  BY KindsOfFacts, Announcements
<1> HIDE DEF bad
<1>11. inbox' = Deliver(bad) => /\ inbox' \in [Players -> Seq(Messages)]
                                /\ \A q \in Players : NoQuestion(inbox'[q])
  BY <1>8, <1>10, DeliversNoQuestion
<1>12. /\ outbox' \in [Players -> Seq(FromHandler)]
       /\ \A q \in Players : q # p => outbox'[q] = outbox[q]
       /\ outbox'[p] = Tail(outbox[p])
       /\ \A q \in Players : \A i \in DOMAIN outbox'[q] :
             outbox'[q][i].type = "left" => ~handler[q].alive
  BY <1>3, DepartedStay
<1>13. CASE inbox' = Deliver(bad) /\ Ended("fatal") /\ UNCHANGED response
  BY <1>3, <1>8, <1>11, <1>12, <1>13, EndKeeps DEF linkVars
<1>14. CASE /\ a.ac = r.ac
            /\ response' = [response EXCEPT ![p] = a]
            /\ inbox' = inbox /\ coord' = accept
  <2>1. GameTypes' /\ ClientTypes' /\ AnswersFitQuestions'
    BY <1>3, CoordinatorFrame DEF runVars, clientVars, TypeOK, ClientTypes
  <2>2. CoordinatorTypes'
    BY <1>3, <1>6, <1>9, <1>14 DEF TypeOK, CoordinatorTypes
  <2>3. HandlerTypes'
    BY <1>3, <1>5, <1>12, <1>14 DEF TypeOK, HandlerTypes, FromHandler
  <2>4. coord'.at = "accept" /\ coord'.player = p
    BY <1>1, <1>14 DEF TypeOK, CoordinatorTypes
  <2>5. \A q \in Players : Quiet(q)'
    BY <1>3, <1>4, <1>6, <1>8, <1>12, <1>14 DEF Quiet
  <2>6. CoordinatorInv'
    BY <2>4, <2>5 DEF CoordinatorInv
  <2>7. \A q \in Players : response'[q] # None => q = p /\ response'[q] = a
    BY <1>4, <1>14 DEF TypeOK, CoordinatorTypes
  <2>8. GameInv'
    BY <1>3, <1>4, <1>14, <2>7 DEF GameInv, IsNextOf, gameVars
  <2>9. HandlerInv'
    BY <1>3, <1>12 DEF HandlerInv, clientVars
  <2> QED BY <2>1, <2>2, <2>3, <2>6, <2>8, <2>9 DEF TypeOK
<1> QED BY <1>3, <1>13, <1>14

\* Telling the two players of an answer asks nobody anything, whatever the game
\* has done with the answer in the meantime.
LEMMA InformKeeps ==
    ASSUME RelayInv, AcceptChoice \/ InformOpponent
    PROVE  RelayInv'
<1> USE DEF RelayInv
<1> DEFINE accepted == [q \in Players |->
                          IF q = coord.player THEN <<[type |-> "accepted"]>> ELSE <<>>]
           made == [q \in Players |-> IF q = coord.player THEN <<>>
                       ELSE <<[type |-> "opponent", facts |-> coord.facts]>>]
<1>1. /\ coord.at \in {"accept", "inform"}
      /\ \/ inbox' = Deliver(accepted) /\ coord' = [coord EXCEPT !.at = "inform"]
         \/ inbox' = Deliver(made) /\ coord' = [coord EXCEPT !.at = "select", !.facts = <<>>]
      /\ UNCHANGED <<gameVars, linkVars, outbox, handler, runVars, clientVars>>
  BY DEF AcceptChoice, InformOpponent
<1>2. /\ accepted \in [Players -> Seq(Messages)] /\ made \in [Players -> Seq(Messages)]
      /\ \A q \in Players : NoQuestion(accepted[q]) /\ NoQuestion(made[q])
  <2>1. coord.facts \in Seq(Facts)
    BY DEF TypeOK, CoordinatorTypes
  <2>2. \A m \in Messages : m.type # "request" =>
          <<m>> \in Seq(Messages) /\ NoQuestion(<<m>>)
    BY Announcements
  <2>3. <<>> \in Seq(Messages) /\ NoQuestion(<<>>)
    BY KindsOfFacts, Announcements
  <2>4. /\ [type |-> "accepted"] \in Messages
        /\ [type |-> "opponent", facts |-> coord.facts] \in Messages
    BY <2>1, KindsOfFacts
  <2> QED BY <2>2, <2>3, <2>4
<1> HIDE DEF accepted, made
<1>3. /\ coord.player \in Players
      /\ \A q \in Players : Quiet(q)
  BY <1>1 DEF CoordinatorInv
<1>4. inbox' \in [Players -> Seq(Messages)] /\ \A q \in Players : NoQuestion(inbox'[q])
  BY <1>1, <1>2, <1>3, DeliversNoQuestion DEF Quiet
<1>5. GameTypes' /\ ClientTypes' /\ AnswersFitQuestions'
  BY <1>1, CoordinatorFrame DEF runVars, clientVars, TypeOK, ClientTypes
<1>6. CoordinatorTypes' /\ coord'.at \in {"inform", "select"} /\ coord'.player = coord.player
  <2>1. CoordinatorTypes /\ request' = request /\ response' = response
    BY <1>1 DEF TypeOK, linkVars
  <2>2. CASE coord' = [coord EXCEPT !.at = "inform"]
    BY <2>1, <2>2 DEF CoordinatorTypes
  <2>3. CASE coord' = [coord EXCEPT !.at = "select", !.facts = <<>>]
    <3>1. <<>> \in Seq(Facts)
      OBVIOUS
    <3> QED BY <2>1, <2>3, <3>1 DEF CoordinatorTypes
  <2> QED BY <1>1, <2>2, <2>3
<1>7. HandlerTypes'
  BY <1>1, <1>4 DEF TypeOK, HandlerTypes
<1>8. CoordinatorInv'
  BY <1>1, <1>3, <1>4, <1>6 DEF CoordinatorInv, Quiet
<1>9. GameInv'
  BY <1>1, <1>6 DEF GameInv, IsNextOf, gameVars, linkVars
<1>10. HandlerInv'
  BY <1>1 DEF HandlerInv, clientVars
<1> QED BY <1>5, <1>6, <1>7, <1>8, <1>9, <1>10 DEF TypeOK

\* A departure, a silent end or the end of the game ends the coordinator.
LEMMA CoordinatorEndsKeeps ==
    ASSUME RelayInv, ReceiveDeparture \/ ReceiveNothing \/ ForwardGameEnd
    PROVE  RelayInv'
<1> USE DEF RelayInv
<1>1. /\ outbox \in [Players -> Seq(FromHandler)]
      /\ inbox \in [Players -> Seq(Messages)]
      /\ \A q \in Players : \A i \in DOMAIN outbox[q] :
            outbox[q][i].type = "left" => ~handler[q].alive
  BY DEF HandlerInv, TypeOK, HandlerTypes, FromHandler
<1>2. CASE ReceiveDeparture
  <2>1. PICK p \in Players : p = coord.player
    BY <1>2 DEF ReceiveDeparture, CoordinatorInv
  <2> DEFINE m == [q \in Players |-> IF q = p THEN <<>> ELSE <<[type |-> "fatal"]>>]
  <2>2. /\ coord.at = "await" /\ outbox[p] # <<>>
        /\ Head(outbox[p]).type = "left"
        /\ outbox' = [outbox EXCEPT ![p] = Tail(@)]
        /\ inbox' = Deliver(m) /\ Ended("fatal")
        /\ UNCHANGED <<gameVars, linkVars, handler, runVars, clientVars>>
    BY <1>2, <2>1 DEF ReceiveDeparture
  <2>3. /\ m \in [Players -> Seq(Messages)]
        /\ \A q \in Players : NoQuestion(m[q])
    BY KindsOfFacts, Announcements
  <2> HIDE DEF m
  <2>4. \A q \in Players : q # p => Quiet(q)
    BY <2>1, <2>2 DEF CoordinatorInv
  <2>5. /\ outbox' \in [Players -> Seq(FromHandler)]
        /\ \A q \in Players : \A i \in DOMAIN outbox'[q] :
              outbox'[q][i].type = "left" => ~handler[q].alive
        /\ ~handler[p].alive
    BY <2>2, DepartedStay
  <2>6. /\ inbox' \in [Players -> Seq(Messages)]
        /\ \A q \in Players : q # p => NoQuestion(inbox'[q])
    BY <2>2, <2>3, <2>4, DeliversNoQuestion DEF Quiet
  <2> QED BY <2>2, <2>4, <2>5, <2>6, EndKeeps DEF Quiet
<1>3. CASE ReceiveNothing
  <2>1. /\ coord.at = "await" /\ ~handler[coord.player].alive
        /\ Ended(None)
        /\ UNCHANGED <<gameVars, linkVars, inbox, outbox, handler, runVars,
                       clientVars>>
    BY <1>3 DEF ReceiveNothing
  <2>2. \A q \in Players : q # coord.player => Quiet(q)
    BY <2>1 DEF CoordinatorInv
  <2> QED BY <1>1, <2>1, <2>2, EndKeeps DEF Quiet
<1>4. CASE ForwardGameEnd
  <2>1. PICK i \in {"winner", "draw"} : i = endInfo
    BY <1>4 DEF ForwardGameEnd, TypeOK, ClientTypes
  <2> DEFINE m == [q \in Players |-> <<[type |-> "over", info |-> i]>>]
  <2>2. /\ coord.at = "select"
        /\ inbox' = Deliver(m) /\ Ended(i)
        /\ UNCHANGED <<gameVars, linkVars, outbox, handler, runVars, clientVars>>
    BY <1>4, <2>1 DEF ForwardGameEnd
  <2>3. /\ m \in [Players -> Seq(Messages)]
        /\ \A q \in Players : NoQuestion(m[q])
    BY KindsOfFacts, Announcements
  <2> HIDE DEF m
  <2>4. \A q \in Players : Quiet(q)
    BY <2>2 DEF CoordinatorInv
  <2>5. /\ inbox' \in [Players -> Seq(Messages)]
        /\ \A q \in Players : NoQuestion(inbox'[q])
    BY <2>2, <2>3, <2>4, DeliversNoQuestion DEF Quiet
  <2> QED BY <1>1, <2>2, <2>4, <2>5, EndKeeps DEF Quiet
<1> QED BY <1>2, <1>3, <1>4

-----------------------------------------------------------------------------
(* The handlers and the clients.                                           *)

HandlerStates == [alive : BOOLEAN, waiting : BOOLEAN,
                  early : Answers \union {None}, facts : Seq(Facts)]

\* A step of p's handler changes p's queues and what p's client has: it is
\* enough to look at p.
LEMMA HandlerFrame ==
    ASSUME RelayInv, NEW p \in Players,
           UNCHANGED <<gameVars, linkVars, coord, runVars>>,
           NEW h \in HandlerStates, handler' = [handler EXCEPT ![p] = h],
           NEW i \in Seq(Messages), inbox' = [inbox EXCEPT ![p] = i],
           NEW o \in Seq(FromHandler), outbox' = [outbox EXCEPT ![p] = o],
           \A q \in Players : q # p => question'[q] = question[q],
           ClientTypes',
           h.waiting => question'[p] \in Questions,
           \A k \in DOMAIN o : o[k].type = "left" => ~h.alive,
           coord.at \notin {"await", "ended"} => Quiet(p)',
           coord.at = "await" /\ coord.player # p => Quiet(p)',
           coord.at = "await" /\ coord.player = p => Holds(p, coord.request)',
           coord.at = "ended" /\ h.alive => ~h.waiting /\ NoQuestion(i)
    PROVE  RelayInv'
<1> USE DEF RelayInv, gameVars, linkVars, runVars
<1>1. GameTypes' /\ CoordinatorTypes'
  BY DEF TypeOK, GameTypes, CoordinatorTypes
<1>2. /\ handler \in [Players -> HandlerStates]
      /\ inbox \in [Players -> Seq(Messages)]
      /\ outbox \in [Players -> Seq(FromHandler)]
  BY DEF TypeOK, HandlerTypes, HandlerStates, FromHandler
<1>3. HandlerTypes'
  <2>1. /\ handler' \in [Players -> HandlerStates]
        /\ inbox' \in [Players -> Seq(Messages)]
        /\ outbox' \in [Players -> Seq(FromHandler)]
    BY <1>2
  <2> QED BY <2>1 DEF HandlerTypes, HandlerStates, FromHandler
<1>4. /\ handler'[p] = h /\ inbox'[p] = i /\ outbox'[p] = o
      /\ \A q \in Players : q # p => /\ handler'[q] = handler[q]
                                     /\ inbox'[q] = inbox[q]
                                     /\ outbox'[q] = outbox[q]
  BY <1>2
<1>5. \A q \in Players : q # p => (Quiet(q)' <=> Quiet(q))
  BY <1>4 DEF Quiet
<1>6. CoordinatorInv'
  <2>1. CASE coord.at \notin {"await", "ended"}
    BY <1>5, <2>1 DEF CoordinatorInv
  <2>2. CASE coord.at = "await"
    <3>1. PICK c \in Players, r \in Requests : c = coord.player /\ r = coord.request
      BY <2>2 DEF CoordinatorInv
    <3>2. IsNextOf(coord.player, coord.request)'
      BY <2>2 DEF CoordinatorInv, IsNextOf
    <3>3. Holds(coord.player, coord.request)'
      <4>1. CASE coord.player = p
        <5>1. p = coord.player /\ p = coord'.player
          BY <4>1
        <5>2. Holds(p, coord.request)'
          BY <2>2, <4>1
        <5> QED BY <5>1, <5>2 DEF Holds
      <4>2. CASE coord.player # p
        <5>1. Holds(c, r)
          BY <2>2, <3>1 DEF CoordinatorInv
        <5>2. Holds(c, r)'
          BY <1>4, <3>1, <4>2, <5>1 DEF Holds
        <5> QED BY <3>1, <5>2 DEF Holds
      <4> QED BY <4>1, <4>2
    <3>4. \A q \in Players : q # coord.player => Quiet(q)'
      BY <1>5, <2>2 DEF CoordinatorInv
    <3> QED BY <2>2, <3>2, <3>3, <3>4 DEF CoordinatorInv
  <2>3. CASE coord.at = "ended"
    BY <1>4, <2>3 DEF CoordinatorInv
  <2> QED BY <2>1, <2>2, <2>3 DEF TypeOK, CoordinatorTypes
<1>7. GameInv'
  BY DEF GameInv, IsNextOf
<1>8. HandlerInv'
  BY <1>4 DEF HandlerInv, Questions
<1>9. AnswersFitQuestions'
  BY DEF AnswersFitQuestions
<1> QED BY <1>1, <1>3, <1>6, <1>7, <1>8, <1>9 DEF TypeOK

\* What a live handler has: its client's place in the game, and a question only
\* while the coordinator waits for it.
LEMMA HandlerState ==
    ASSUME RelayInv, NEW p \in Players
    PROVE  /\ handler[p] \in HandlerStates
           /\ inbox[p] \in Seq(Messages) /\ outbox[p] \in Seq(FromHandler)
           /\ handler[p].waiting => question[p] \in Questions
           /\ handler[p].alive =>
                \A k \in DOMAIN outbox[p] : outbox[p][k].type # "left"
           /\ \A k \in DOMAIN outbox[p] :
                outbox[p][k].type = "left" => ~handler[p].alive
           /\ \/ coord.at \notin {"await", "ended"} /\ Quiet(p)
              \/ /\ coord.at = "await" /\ coord.player = p
                 /\ coord.request \in Requests /\ Holds(p, coord.request)
              \/ coord.at = "await" /\ coord.player # p /\ Quiet(p)
              \/ /\ coord.at = "ended"
                 /\ handler[p].alive => ~handler[p].waiting /\ NoQuestion(inbox[p])
           /\ question \in [Players -> Questions \union {None}]
           /\ known \in [Players -> Seq(Facts)]
<1> USE DEF RelayInv
<1>1. /\ handler \in [Players -> HandlerStates]
      /\ inbox \in [Players -> Seq(Messages)]
      /\ outbox \in [Players -> Seq(FromHandler)]
      /\ question \in [Players -> Questions \union {None}]
      /\ known \in [Players -> Seq(Facts)]
      /\ coord.at \in {"select", "await", "accept", "inform", "ended"}
  BY DEF TypeOK, HandlerTypes, HandlerStates, FromHandler, ClientTypes,
     Questions, CoordinatorTypes
<1>2. CoordinatorInv /\ HandlerInv
  OBVIOUS
<1>3. \/ coord.at \notin {"await", "ended"} /\ Quiet(p)
      \/ /\ coord.at = "await" /\ coord.player = p
         /\ coord.request \in Requests /\ Holds(p, coord.request)
      \/ coord.at = "await" /\ coord.player # p /\ Quiet(p)
      \/ /\ coord.at = "ended"
         /\ handler[p].alive => ~handler[p].waiting /\ NoQuestion(inbox[p])
  BY <1>1, <1>2 DEF CoordinatorInv
<1>4. /\ handler[p].waiting => question[p] \in Questions
      /\ \A k \in DOMAIN outbox[p] :
           outbox[p][k].type = "left" => ~handler[p].alive
  BY <1>2 DEF HandlerInv, Questions
<1> QED BY <1>1, <1>3, <1>4

\* A buffer is a list of facts.
LEMMA BufferType ==
    ASSUME NEW r \in Requests, NEW facts \in Seq(Facts)
    PROVE  AssembleBuffer(r, facts) \in Seq(Facts)
<1> DEFINE search == IF r.search THEN <<Fact(r.ac, "search")>> ELSE <<>>
<1>1. search \in Seq(Facts)
  BY KindsOfFacts DEF Requests
<1>2. r.reveals \in Seq(Facts)
  BY DEF Requests
<1> HIDE DEF search
<1>3. (r.reveals \o search) \o facts \in Seq(Facts)
  BY <1>1, <1>2
<1> QED BY <1>3, FactsAreSorted DEF AssembleBuffer, search

\* A question reaches a client that has none, or meets the answer that was
\* there before it.
LEMMA HandleRequestKeeps ==
    ASSUME RelayInv, NEW p \in Players, HandleMessage(p), HandleRequest(p)
    PROVE  RelayInv'
<1> USE DEF RelayInv
<1>1. /\ handler[p].alive /\ inbox[p] # <<>> /\ Head(inbox[p]).type = "request"
      /\ inbox' = [inbox EXCEPT ![p] = Tail(inbox[p])]
      /\ UNCHANGED <<gameVars, linkVars, coord, runVars, connected, strays, told>>
  BY DEF HandleMessage, HandleRequest
<1>2. /\ handler[p] \in HandlerStates
      /\ inbox[p] \in Seq(Messages) /\ outbox[p] \in Seq(FromHandler)
      /\ question \in [Players -> Questions \union {None}]
      /\ known \in [Players -> Seq(Facts)]
      /\ \A k \in DOMAIN outbox[p] : outbox[p][k].type # "left"
  BY <1>1, HandlerState
<1>3. /\ Tail(inbox[p]) \in Seq(Messages)
      /\ ~NoQuestion(inbox[p])
      /\ \A r : OnlyQuestion(inbox[p], r) =>
           Head(inbox[p]).request = r /\ NoQuestion(Tail(inbox[p]))
  BY <1>1, <1>2, TakesMessage
<1>4. /\ coord.at = "await" /\ coord.player = p
      /\ coord.request \in Requests /\ Holds(p, coord.request)
  BY <1>1, <1>3, HandlerState DEF Quiet
<1>5. PICK r \in Requests : r = coord.request
  BY <1>4
<1>6. /\ Head(inbox[p]).request = r /\ NoQuestion(Tail(inbox[p]))
      /\ NoAnswer(outbox[p]) /\ ~handler[p].waiting
  BY <1>3, <1>4, <1>5 DEF Holds
<1>7. r.seq \in Nat /\ r.ac \in 0..MaxLog /\ r.search \in BOOLEAN
  BY DEF Requests
<1> DEFINE early == handler[p].early
<1>8. CASE early # None
  <2> DEFINE h == [handler[p] EXCEPT !.early = None]
             o == Append(outbox[p], Answer(early))
  <2>1. /\ outbox' = [outbox EXCEPT ![p] = o]
        /\ handler' = [handler EXCEPT ![p] = h]
        /\ UNCHANGED <<question, known>>
    <3>1. /\ outbox' = [outbox EXCEPT ![p] = Append(@, Answer(early))]
          /\ handler' = [handler EXCEPT ![p].early = None]
          /\ UNCHANGED <<question, known>>
      BY <1>8 DEF HandleRequest
    <3> QED BY <3>1, Zenon
  <2>2. early \in Answers
    BY <1>2, <1>8 DEF HandlerStates
  <2>3. /\ h \in HandlerStates /\ ~h.waiting
    BY <1>2, <1>6 DEF HandlerStates
  <2>4. /\ o \in Seq(FromHandler) /\ OneAnswer(o)
    BY <1>2, <1>6, <2>2, SendsToCoordinator
  <2>5. \A k \in DOMAIN o : o[k].type # "left"
    <3>1. Answer(early).type # "left" /\ Answer(early) \in FromHandler
      BY <2>2 DEF Answer, FromHandler
    <3> QED BY <1>2, <3>1, AppendProperties
  <2>6. ClientTypes'
    BY <1>1, <2>1 DEF TypeOK, ClientTypes, runVars
  <2> HIDE DEF h, o
  <2>7. handler'[p] = h /\ outbox'[p] = o /\ inbox'[p] = Tail(inbox[p])
    BY <1>1, <2>1 DEF TypeOK, HandlerTypes
  <2>8. Holds(p, r)'
    BY <1>6, <2>3, <2>4, <2>7 DEF Holds, OnlyQuestion, NoQuestion
  <2>9. Holds(p, coord.request)'
    BY <1>1, <1>5, <2>8 DEF Holds
  <2>10. /\ handler' = [handler EXCEPT ![p] = h] /\ outbox' = [outbox EXCEPT ![p] = o]
         /\ inbox' = [inbox EXCEPT ![p] = Tail(inbox[p])] /\ Tail(inbox[p]) \in Seq(Messages)
         /\ \A c \in Players : question'[c] = question[c]
         /\ UNCHANGED <<gameVars, linkVars, coord, runVars>>
    BY <1>1, <1>3, <2>1
  <2>11. /\ h.waiting => question'[p] \in Questions
         /\ \A k \in DOMAIN o : o[k].type = "left" => ~h.alive
         /\ coord.at \notin {"await", "ended"} => Quiet(p)'
         /\ coord.at = "await" /\ coord.player # p => Quiet(p)'
         /\ coord.at = "await" /\ coord.player = p => Holds(p, coord.request)'
         /\ coord.at = "ended" /\ h.alive => ~h.waiting /\ NoQuestion(Tail(inbox[p]))
    BY <1>4, <2>3, <2>5, <2>9
  <2> HIDE DEF RelayInv
  <2> QED BY <2>3, <2>4, <2>6, <2>10, <2>11, HandlerFrame
<1>9. CASE early = None
  <2> DEFINE h == [handler[p] EXCEPT !.waiting = TRUE, !.facts = <<>>]
             b == AssembleBuffer(r, handler[p].facts)
             o == outbox[p]
             q == [seq |-> r.seq, ac |-> r.ac, search |-> r.search]
  <2>1. /\ question' = [question EXCEPT ![p] = q]
        /\ known' = [known EXCEPT ![p] = known[p] \o b]
        /\ handler' = [handler EXCEPT ![p] = h]
        /\ outbox' = outbox
    <3>1. /\ question' = [question EXCEPT ![p] = q]
          /\ known' = [known EXCEPT ![p] = @ \o b]
          /\ handler' = [handler EXCEPT ![p].waiting = TRUE, ![p].facts = <<>>]
          /\ outbox' = outbox
      BY <1>6, <1>9 DEF HandleRequest
    <3>2. handler' = [handler EXCEPT ![p] = h]
      BY <1>2, <3>1 DEF TypeOK, HandlerTypes
    <3> QED BY <3>1, <3>2, Zenon
  <2>2. h \in HandlerStates /\ h.alive
    <3>1. <<>> \in Seq(Facts)
      OBVIOUS
    <3> QED BY <1>1, <1>2, <3>1 DEF HandlerStates
  <2>3. q \in Questions /\ q.seq = r.seq /\ q.ac = r.ac
    BY <1>7 DEF Questions
  <2>4. known[p] \o b \in Seq(Facts)
    <3>1. b \in Seq(Facts)
      BY <1>2, <1>7, BufferType DEF HandlerStates
    <3> HIDE DEF b
    <3> QED BY <1>2, <3>1
  <2>12. /\ o = outbox[p] /\ o \in Seq(FromHandler)
         /\ \A k \in DOMAIN o : o[k].type # "left"
    BY <1>2
  <2> HIDE DEF h, b, q, o
  <2>5. question'[p] = q /\ question' \in [Players -> Questions \union {None}]
        /\ known' \in [Players -> Seq(Facts)]
    BY <1>2, <2>1, <2>3, <2>4
  <2>6. ClientTypes'
    BY <1>1, <2>5 DEF TypeOK, ClientTypes, runVars, Questions
  <2>7. handler'[p] = h /\ inbox'[p] = Tail(inbox[p]) /\ outbox'[p] = outbox[p]
    BY <1>1, <2>1 DEF TypeOK, HandlerTypes
  <2>8. Holds(p, r)'
    BY <1>6, <2>3, <2>5, <2>7 DEF Holds, OnlyQuestion, NoQuestion, OneAnswer,
       NoAnswer
  <2>9. Holds(p, coord.request)'
    BY <1>1, <1>5, <2>8 DEF Holds
  <2>10. \A c \in Players : c # p => question'[c] = question[c]
    BY <2>1 DEF TypeOK, ClientTypes
  <2>11. outbox' = [outbox EXCEPT ![p] = o]
    BY <2>1, <2>12 DEF TypeOK, HandlerTypes
  <2>13. question'[p] \in Questions
    BY <2>3, <2>5
  <2>14. /\ handler' = [handler EXCEPT ![p] = h]
         /\ inbox' = [inbox EXCEPT ![p] = Tail(inbox[p])]
         /\ Tail(inbox[p]) \in Seq(Messages)
         /\ UNCHANGED <<gameVars, linkVars, coord, runVars>>
    BY <1>1, <1>3, <2>1
  <2>15. /\ \A k \in DOMAIN o : o[k].type = "left" => ~h.alive
         /\ coord.at \notin {"await", "ended"} => Quiet(p)'
         /\ coord.at = "await" /\ coord.player # p => Quiet(p)'
         /\ coord.at = "ended" /\ h.alive =>
              ~h.waiting /\ NoQuestion(Tail(inbox[p]))
    BY <1>4, <2>12
  <2> HIDE DEF RelayInv
  <2> QED BY <2>2, <2>6, <2>9, <2>10, <2>11, <2>12, <2>13, <2>14, <2>15,
             HandlerFrame
<1> QED BY <1>8, <1>9

\* A handler that only takes a message in, or that ends, asks nothing.
LEMMA QuietStep ==
    ASSUME RelayInv, NEW p \in Players,
           UNCHANGED <<gameVars, linkVars, coord, runVars, question>>,
           NEW h \in HandlerStates, handler' = [handler EXCEPT ![p] = h],
           h.waiting = handler[p].waiting, h.alive => handler[p].alive,
           NEW i \in Seq(Messages), inbox' = [inbox EXCEPT ![p] = i],
           i = inbox[p] \/ (/\ inbox[p] # <<>> /\ i = Tail(inbox[p])
                            /\ Head(inbox[p]).type # "request"),
           NEW o \in Seq(FromHandler), outbox' = [outbox EXCEPT ![p] = o],
           \/ o = outbox[p]
           \/ o = Append(outbox[p], [type |-> "left"]) /\ ~h.alive,
           ClientTypes'
    PROVE  RelayInv'
<1>1. /\ inbox[p] \in Seq(Messages) /\ outbox[p] \in Seq(FromHandler)
      /\ handler[p].waiting => question[p] \in Questions
      /\ \A k \in DOMAIN outbox[p] :
           outbox[p][k].type = "left" => ~handler[p].alive
  BY HandlerState
<1>2. /\ handler'[p] = h /\ inbox'[p] = i /\ outbox'[p] = o
  BY DEF RelayInv, TypeOK, HandlerTypes
<1>3. /\ NoQuestion(inbox[p]) <=> NoQuestion(i)
      /\ \A r : OnlyQuestion(inbox[p], r) => OnlyQuestion(i, r)
  <2>1. CASE i = inbox[p]
    BY <2>1
  <2>2. CASE /\ inbox[p] # <<>> /\ i = Tail(inbox[p])
             /\ Head(inbox[p]).type # "request"
    <3>1. ASSUME NEW r
          PROVE  /\ NoQuestion(inbox[p]) <=> NoQuestion(i)
                 /\ OnlyQuestion(inbox[p], r) => OnlyQuestion(i, r)
      BY <1>1, <2>2, TakesMessage
    <3> QED BY <3>1
  <2> QED BY <2>1, <2>2
<1>4. /\ NoAnswer(outbox[p]) => NoAnswer(o)
      /\ OneAnswer(outbox[p]) => OneAnswer(o)
  <2>1. [seq |-> 0, ac |-> 0, pick |-> "valid"] \in Answers
    BY RelayAssumption DEF Answers
  <2>2. LET t == Append(outbox[p], [type |-> "left"])
        IN  /\ NoAnswer(outbox[p]) => NoAnswer(t)
            /\ OneAnswer(outbox[p]) => OneAnswer(t)
    BY <1>1, <2>1, SendsToCoordinator
  <2> QED BY <2>2
<1>5. \A k \in DOMAIN o : o[k].type = "left" => ~h.alive
  BY <1>1
<1>6. Quiet(p) => Quiet(p)'
  BY <1>2, <1>3, <1>4 DEF Quiet
<1>7. \A r : Holds(p, r) => /\ OnlyQuestion(i, r) /\ OneAnswer(o)
                            /\ h.waiting =>
                                 /\ NoQuestion(i) /\ NoAnswer(o)
                                 /\ question[p].seq = r.seq
                                 /\ question[p].ac = r.ac
                            /\ ~NoQuestion(i) => NoAnswer(o)
  BY <1>3, <1>4 DEF Holds
<1>8. coord.at = "await" /\ coord.player = p => Holds(p, coord.request)'
  <2> SUFFICES ASSUME coord.at = "await", coord.player = p
               PROVE  Holds(p, coord.request)'
    OBVIOUS
  <2>1. Holds(p, coord.request)
    BY HandlerState
  <2> QED BY <1>2, <1>7, <2>1 DEF Holds
<1>9. /\ coord.at \notin {"await", "ended"} => Quiet(p)'
      /\ coord.at = "await" /\ coord.player # p => Quiet(p)'
      /\ coord.at = "ended" /\ h.alive => ~h.waiting /\ NoQuestion(i)
  BY <1>3, <1>6, HandlerState
<1>10. /\ h.waiting => question'[p] \in Questions
       /\ \A q \in Players : q # p => question'[q] = question[q]
  BY <1>1
<1> QED BY <1>5, <1>8, <1>9, <1>10, HandlerFrame

\* Facts and ends.
LEMMA HandleOtherKeeps ==
    ASSUME RelayInv, NEW p \in Players, HandleMessage(p),
           HandleFacts(p) \/ HandleEnd(p)
    PROVE  RelayInv'
<1> USE DEF RelayInv
<1>1. /\ handler[p].alive /\ inbox[p] # <<>>
      /\ inbox' = [inbox EXCEPT ![p] = Tail(inbox[p])]
      /\ UNCHANGED <<gameVars, linkVars, coord, runVars, connected, strays>>
      /\ UNCHANGED <<outbox, question, known>>
      /\ Head(inbox[p]).type # "request"
  BY DEF HandleMessage, HandleFacts, HandleEnd
<1>2. /\ handler[p] \in HandlerStates /\ inbox[p] \in Seq(Messages)
      /\ outbox[p] \in Seq(FromHandler)
  BY HandlerState
<1>3. PICK m \in Messages : m = Head(inbox[p])
  BY <1>1, <1>2, TakesMessage
<1>4. Tail(inbox[p]) \in Seq(Messages)
  BY <1>1, <1>2, TakesMessage
<1>5. outbox' = [outbox EXCEPT ![p] = outbox[p]]
  BY <1>1 DEF TypeOK, HandlerTypes
<1>6. CASE HandleFacts(p)
  <2> DEFINE f == CASE m.type = "opponent" -> handler[p].facts \o m.facts
                    [] m.type = "public"   -> Append(handler[p].facts, m.fact)
                    [] m.type = "accepted" -> handler[p].facts
             h == [handler[p] EXCEPT !.facts = f]
  <2>1. /\ m.type \in {"opponent", "public", "accepted"}
        /\ handler' = [handler EXCEPT ![p] = h]
        /\ told' = told
    <3>1. handler' = [handler EXCEPT ![p].facts = f]
      BY <1>3, <1>6 DEF HandleFacts
    <3> HIDE DEF f
    <3>2. [handler EXCEPT ![p].facts = f] = [handler EXCEPT ![p] = h]
      BY Zenon
    <3> QED BY <1>3, <1>6, <3>1, <3>2 DEF HandleFacts
  <2>2. f \in Seq(Facts)
    <3>1. handler[p].facts \in Seq(Facts)
      BY <1>2 DEF HandlerStates
    <3>2. m.type = "opponent" => m.facts \in Seq(Facts)
      BY DEF Messages
    <3>3. m.type = "public" => m.fact \in Facts
      BY DEF Messages
    <3> QED BY <2>1, <3>1, <3>2, <3>3
  <2> HIDE DEF f
  <2>3. h \in HandlerStates /\ h.waiting = handler[p].waiting
        /\ h.alive = handler[p].alive
    BY <1>2, <2>2 DEF HandlerStates
  <2> HIDE DEF h
  <2>4. ClientTypes'
    BY <1>1, <2>1 DEF TypeOK, ClientTypes, runVars
  <2> QED BY <1>1, <1>2, <1>4, <1>5, <2>1, <2>3, <2>4, QuietStep
<1>7. CASE HandleEnd(p)
  <2> DEFINE h == [handler[p] EXCEPT !.alive = FALSE]
             i == IF m.type = "over" THEN m.info ELSE "fatal"
  <2>1. /\ told' = [told EXCEPT ![p] = i] /\ m.type \in {"over", "fatal"}
        /\ handler' = [handler EXCEPT ![p] = h]
    <3>1. /\ told' = [told EXCEPT ![p] = i] /\ m.type \in {"over", "fatal"}
          /\ handler' = [handler EXCEPT ![p].alive = FALSE]
      BY <1>3, <1>7 DEF HandleEnd
    <3> QED BY <3>1, Zenon
  <2>2. i \in {"winner", "draw", "fatal"}
    BY <2>1 DEF Messages
  <2>3. h \in HandlerStates /\ h.waiting = handler[p].waiting /\ ~h.alive
    BY <1>2 DEF HandlerStates
  <2> HIDE DEF h, i
  <2>4. ClientTypes'
    <3>1. told' \in [Players -> {None, "winner", "draw", "fatal"}]
      BY <2>1, <2>2 DEF TypeOK, ClientTypes
    <3> QED BY <1>1, <3>1 DEF TypeOK, ClientTypes, runVars
  <2> QED BY <1>1, <1>2, <1>4, <1>5, <2>1, <2>3, <2>4, QuietStep
<1> QED BY <1>6, <1>7

\* A handler ends, with a word to the coordinator or without.
LEMMA HandlerEndsKeeps ==
    ASSUME RelayInv, NEW p \in Players, HandlerGivesUp(p) \/ HandleClose(p)
    PROVE  RelayInv'
<1> USE DEF RelayInv
<1> DEFINE h == [handler[p] EXCEPT !.alive = FALSE]
           l == Append(outbox[p], [type |-> "left"])
<1>1. /\ handler[p] \in HandlerStates /\ inbox[p] \in Seq(Messages)
      /\ outbox[p] \in Seq(FromHandler)
  BY HandlerState
<1>2. /\ handler' = [handler EXCEPT ![p] = h]
      /\ outbox' = outbox \/ outbox' = [outbox EXCEPT ![p] = l]
      /\ UNCHANGED <<gameVars, linkVars, coord, runVars, clientVars, inbox>>
  <2>1. /\ handler' = [handler EXCEPT ![p].alive = FALSE]
        /\ \/ outbox' = outbox
           \/ outbox' = [outbox EXCEPT ![p] = Append(@, [type |-> "left"])]
        /\ UNCHANGED <<gameVars, linkVars, coord, runVars, clientVars, inbox>>
    BY DEF HandlerGivesUp, HandleClose
  <2> QED BY <2>1, Zenon
<1>3. PICK o : o \in {outbox[p], l} /\ outbox' = [outbox EXCEPT ![p] = o]
  BY <1>2 DEF TypeOK, HandlerTypes
<1>4. l \in Seq(FromHandler)
  <2>1. [type |-> "left"] \in FromHandler
    BY DEF FromHandler
  <2> QED BY <1>1, <2>1
<1>5. o \in Seq(FromHandler) /\ (o = outbox[p] \/ o = l)
  BY <1>1, <1>3, <1>4
<1>6. h \in HandlerStates /\ h.waiting = handler[p].waiting /\ ~h.alive
  BY <1>1 DEF HandlerStates
<1>7. ClientTypes'
  BY <1>2 DEF TypeOK, ClientTypes, runVars, clientVars
<1>8. inbox' = [inbox EXCEPT ![p] = inbox[p]]
  BY <1>2 DEF TypeOK, HandlerTypes
<1>9. UNCHANGED <<gameVars, linkVars, coord, runVars, question>>
  BY <1>2 DEF clientVars
<1> HIDE DEF h
<1> QED BY <1>1, <1>2, <1>3, <1>5, <1>6, <1>7, <1>8, <1>9, QuietStep

\* An answer: the question's, which moves on to the coordinator, or one that is
\* kept for the next question.
LEMMA HandleSubmitKeeps ==
    ASSUME RelayInv, NEW p \in Players, NEW a \in Answers, HandleSubmit(p, a),
           strays' \in SUBSET Players
    PROVE  RelayInv'
<1> USE DEF RelayInv
<1> DEFINE taken == [handler[p] EXCEPT !.waiting = FALSE]
           kept == [handler[p] EXCEPT !.early = a]
<1>1. /\ handler[p] \in HandlerStates /\ inbox[p] \in Seq(Messages)
      /\ outbox[p] \in Seq(FromHandler)
      /\ handler[p].waiting => question[p] \in Questions
      /\ handler[p].alive =>
           \A k \in DOMAIN outbox[p] : outbox[p][k].type # "left"
  BY HandlerState
<1>2. /\ handler[p].alive
      /\ UNCHANGED <<gameVars, linkVars, coord, inbox, runVars, connected,
                     question, told, known>>
      /\ inbox' = [inbox EXCEPT ![p] = inbox[p]]
      /\ ClientTypes'
      /\ \A q \in Players : q # p => question'[q] = question[q]
  BY DEF HandleSubmit, TypeOK, HandlerTypes, ClientTypes, runVars
<1>3. handler[p].waiting => /\ coord.at = "await" /\ coord.player = p
                            /\ coord.request \in Requests
                            /\ Holds(p, coord.request)
  BY <1>2, HandlerState DEF Quiet
<1>4. CASE handler[p].waiting
  <2> DEFINE o == Append(outbox[p], Answer(a))
  <2>1. outbox' = [outbox EXCEPT ![p] = o]
        /\ handler' = [handler EXCEPT ![p] = taken]
    <3>1. /\ outbox' = [outbox EXCEPT ![p] = Append(@, Answer(a))]
          /\ handler' = [handler EXCEPT ![p].waiting = FALSE]
      BY <1>3, <1>4 DEF HandleSubmit
    <3> QED BY <3>1, Zenon
  <2>2. /\ NoQuestion(inbox[p]) /\ NoAnswer(outbox[p])
    BY <1>3, <1>4 DEF Holds
  <2>3. o \in Seq(FromHandler) /\ OneAnswer(o)
    BY <1>1, <2>2, SendsToCoordinator
  <2>4. \A k \in DOMAIN o : o[k].type # "left"
    <3>1. Answer(a).type # "left" /\ Answer(a) \in FromHandler
      BY DEF Answer, FromHandler
    <3> QED BY <1>1, <1>2, <3>1, AppendProperties
  <2>5. taken \in HandlerStates /\ ~taken.waiting
    BY <1>1 DEF HandlerStates
  <2> HIDE DEF o, taken
  <2>6. handler'[p] = taken /\ outbox'[p] = o /\ inbox'[p] = inbox[p]
    BY <1>2, <2>1 DEF TypeOK, HandlerTypes
  <2>7. PICK r \in Requests : r = coord.request
    BY <1>3, <1>4
  <2>8. Holds(p, r)'
    BY <2>2, <2>3, <2>5, <2>6 DEF Holds, OnlyQuestion, NoQuestion
  <2>9. Holds(p, coord.request)'
    BY <1>2, <2>7, <2>8 DEF Holds
  <2>10. /\ coord.at = "await" /\ coord.player = p
         /\ UNCHANGED <<gameVars, linkVars, coord, runVars>>
    BY <1>2, <1>3, <1>4
  <2>11. \A k \in DOMAIN o : o[k].type = "left" => ~taken.alive
    BY <2>4
  <2> QED BY <1>1, <1>2, <2>1, <2>3, <2>5, <2>9, <2>10, <2>11, HandlerFrame
<1>5. CASE ~handler[p].waiting
  <2>1. handler' = [handler EXCEPT ![p] = kept] /\ outbox' = outbox
    <3>1. handler' = [handler EXCEPT ![p].early = a] /\ outbox' = outbox
      BY <1>5 DEF HandleSubmit
    <3> QED BY <3>1, Zenon
  <2>2. kept \in HandlerStates /\ kept.waiting = handler[p].waiting
    BY <1>1 DEF HandlerStates
  <2>3. outbox' = [outbox EXCEPT ![p] = outbox[p]]
    BY <2>1 DEF TypeOK, HandlerTypes
  <2> HIDE DEF kept
  <2>4. UNCHANGED <<gameVars, linkVars, coord, runVars, question>>
    BY <1>2
  <2> QED BY <1>1, <1>2, <2>1, <2>2, <2>3, <2>4, QuietStep
<1> QED BY <1>4, <1>5

\* Whatever a client sends is an answer, to a question it has or to none.
LEMMA ClientKeeps ==
    ASSUME RelayInv, NEW p \in Players,
           ClientAnswers(p) \/ ClientStrays(p) \/ ClientLeaves(p)
    PROVE  RelayInv'
<1> USE DEF RelayInv
<1>1. /\ question \in [Players -> Questions \union {None}]
      /\ Len(log) \in 0..MaxLog /\ MaxLog \in Nat
      /\ strays \in SUBSET Players
  BY RelayAssumption DEF TypeOK, GameTypes, ClientTypes, Questions
<1>2. CASE ClientAnswers(p)
  <2>1. question[p] \in Questions
    BY <1>2, HandlerState DEF ClientAnswers
  <2>2. PICK reply \in Replies, n \in {question[p].ac, question[p].ac + 1} :
          HandleSubmit(p, [seq |-> question[p].seq, ac |-> n, pick |-> reply])
    BY <1>2 DEF ClientAnswers
  <2>3. reply \in {"valid", "find", "outOfRange", "diverged"}
    BY RelayAssumption
  <2>4. [seq |-> question[p].seq, ac |-> n, pick |-> reply] \in Answers
    BY <1>1, <2>1, <2>3 DEF Answers, Questions
  <2>5. strays' \in SUBSET Players
    BY <1>1, <1>2 DEF ClientAnswers
  <2> QED BY <2>2, <2>4, <2>5, HandleSubmitKeeps
<1>3. CASE ClientStrays(p)
  <2> DEFINE last == IF question[p] = None THEN [seq |-> 0, ac |-> 0]
                     ELSE question[p]
  <2>1. last.seq \in Nat /\ last.ac \in 0..MaxLog
    BY <1>1 DEF Questions
  <2>2. PICK s \in {last.seq, last.seq + 1}, n \in {last.ac, Len(log)} :
          HandleSubmit(p, [seq |-> s, ac |-> n, pick |-> "valid"])
    BY <1>3 DEF ClientStrays
  <2> HIDE DEF last
  <2>3. [seq |-> s, ac |-> n, pick |-> "valid"] \in Answers
    BY <1>1, <2>1 DEF Answers
  <2>4. strays' \in SUBSET Players
    BY <1>1, <1>3 DEF ClientStrays
  <2> QED BY <2>2, <2>3, <2>4, HandleSubmitKeeps
<1>4. CASE ClientLeaves(p)
  <2>1. /\ connected' \in SUBSET Players
        /\ UNCHANGED <<gameVars, linkVars, coord, inbox, outbox, handler,
                       runVars, question, told, known, strays>>
    BY <1>4 DEF ClientLeaves, TypeOK, ClientTypes
  <2>2. GameTypes' /\ CoordinatorTypes' /\ HandlerTypes' /\ ClientTypes'
    <3>1. GameTypes'
      BY <2>1 DEF TypeOK, GameTypes, gameVars
    <3>2. CoordinatorTypes' /\ HandlerTypes'
      BY <2>1 DEF TypeOK, CoordinatorTypes, HandlerTypes, linkVars
    <3>3. ClientTypes'
      BY <2>1 DEF TypeOK, ClientTypes, runVars
    <3> QED BY <3>1, <3>2, <3>3
  <2>3. CoordinatorInv' /\ GameInv'
    <3>1. GameInv'
      BY <2>1 DEF GameInv, IsNextOf, gameVars, linkVars
    <3>2. \A q \in Players : Quiet(q)' <=> Quiet(q)
      BY <2>1 DEF Quiet
    <3>3. Holds(coord.player, coord.request)' <=> Holds(coord.player, coord.request)
      BY <2>1 DEF Holds
    <3>4. IsNextOf(coord.player, coord.request)'
            <=> IsNextOf(coord.player, coord.request)
      BY <2>1 DEF IsNextOf, gameVars
    <3>5. CoordinatorInv'
      BY <2>1, <3>2, <3>3, <3>4 DEF CoordinatorInv, linkVars
    <3> QED BY <3>1, <3>5
  <2>4. HandlerInv' /\ AnswersFitQuestions'
    BY <2>1 DEF HandlerInv, AnswersFitQuestions, gameVars
  <2> QED BY <2>2, <2>3, <2>4 DEF TypeOK
<1> QED BY <1>2, <1>3, <1>4

-----------------------------------------------------------------------------
(* The runner and the whole.                                               *)

\* run_game ends the tasks: none of them waits for a client any more.
LEMMA RunnerKeeps ==
    ASSUME RelayInv, RunnerSeesEnd \/ RunnerStops
    PROVE  RelayInv'
<1> USE DEF RelayInv
<1>1. /\ UNCHANGED <<gameVars, linkVars, inbox, outbox, clientVars>>
      /\ runner' \in {"watching", "ending", "stopped"}
      /\ endInfo' \in {None, "winner", "draw"}
      /\ \/ UNCHANGED <<coord, handler>>
         \/ /\ coord' = [coord EXCEPT !.at = "ended"]
            /\ handler' = [p \in Players |-> [handler[p] EXCEPT !.alive = FALSE]]
  <2>1. /\ runner \in {"watching", "ending", "stopped"}
        /\ endInfo \in {None, "winner", "draw"}
    BY DEF TypeOK, ClientTypes
  <2>2. CASE RunnerSeesEnd
    BY <2>1, <2>2 DEF RunnerSeesEnd
  <2>3. CASE RunnerStops
    BY <2>1, <2>3 DEF RunnerStops
  <2> QED BY <2>2, <2>3
<1>2. GameTypes' /\ ClientTypes' /\ AnswersFitQuestions'
  BY <1>1 DEF TypeOK, GameTypes, ClientTypes, AnswersFitQuestions, gameVars,
     clientVars
<1>3. CASE UNCHANGED <<coord, handler>>
  <2>1. CoordinatorTypes' /\ HandlerTypes'
    BY <1>1, <1>3 DEF TypeOK, CoordinatorTypes, HandlerTypes, linkVars
  <2>2. GameInv' /\ HandlerInv'
    BY <1>1, <1>3 DEF GameInv, HandlerInv, IsNextOf, gameVars, linkVars, clientVars
  <2>3. \A q \in Players : Quiet(q)' <=> Quiet(q)
    BY <1>1, <1>3 DEF Quiet
  <2>4. Holds(coord.player, coord.request)' <=> Holds(coord.player, coord.request)
    BY <1>1, <1>3 DEF Holds, clientVars
  <2>5. IsNextOf(coord.player, coord.request)'
          <=> IsNextOf(coord.player, coord.request)
    BY <1>1, <1>3 DEF IsNextOf, gameVars
  <2>6. CoordinatorInv'
    BY <1>1, <1>3, <2>3, <2>4, <2>5 DEF CoordinatorInv, linkVars
  <2> QED BY <1>2, <2>1, <2>2, <2>6 DEF TypeOK
<1>4. CASE /\ coord' = [coord EXCEPT !.at = "ended"]
           /\ handler' = [p \in Players |-> [handler[p] EXCEPT !.alive = FALSE]]
  <2>1. CoordinatorTypes' /\ coord'.at = "ended"
    BY <1>1, <1>4 DEF TypeOK, CoordinatorTypes, linkVars
  <2>2. \A p \in Players : /\ handler'[p] \in HandlerStates
                           /\ ~handler'[p].alive
                           /\ handler'[p].waiting = handler[p].waiting
    <3>1. \A p \in Players : handler[p] \in HandlerStates
      BY HandlerState
    <3> QED BY <1>4, <3>1 DEF HandlerStates
  <2>3. HandlerTypes'
    BY <1>1, <1>4, <2>2 DEF TypeOK, HandlerTypes, HandlerStates
  <2>4. CoordinatorInv'
    BY <2>1, <2>2 DEF CoordinatorInv
  <2>5. GameInv'
    BY <1>1, <2>1 DEF GameInv, IsNextOf, gameVars, linkVars
  <2>6. HandlerInv'
    BY <1>1, <2>2 DEF HandlerInv, clientVars
  <2> QED BY <1>2, <2>1, <2>3, <2>4, <2>5, <2>6 DEF TypeOK
<1> QED BY <1>1, <1>3, <1>4

\* Nothing happens: the invariant stays.
LEMMA StutterKeeps ==
    ASSUME RelayInv, UNCHANGED vars
    PROVE  RelayInv'
<1> USE DEF RelayInv, vars
<1>1. GameTypes' /\ CoordinatorTypes' /\ HandlerTypes' /\ ClientTypes'
  <2>1. GameTypes'
    BY DEF TypeOK, GameTypes, gameVars
  <2>2. CoordinatorTypes' /\ HandlerTypes'
    BY DEF TypeOK, CoordinatorTypes, HandlerTypes, linkVars
  <2>3. ClientTypes'
    BY DEF TypeOK, ClientTypes, runVars, clientVars
  <2> QED BY <2>1, <2>2, <2>3
<1>2. GameInv' /\ HandlerInv' /\ AnswersFitQuestions'
  BY DEF GameInv, HandlerInv, AnswersFitQuestions, IsNextOf, gameVars, linkVars,
     clientVars
<1>3. \A q \in Players : Quiet(q)' <=> Quiet(q)
  BY DEF Quiet
<1>4. Holds(coord.player, coord.request)' <=> Holds(coord.player, coord.request)
  BY DEF Holds, clientVars
<1>5. IsNextOf(coord.player, coord.request)'
        <=> IsNextOf(coord.player, coord.request)
  BY DEF IsNextOf, gameVars
<1>6. CoordinatorInv'
  BY <1>3, <1>4, <1>5 DEF CoordinatorInv, linkVars
<1> QED BY <1>1, <1>2, <1>6 DEF TypeOK

\* The relay's inductive invariant: types, and where the one open question is.
THEOREM RelayInvariant == Spec => []RelayInv
<1>1. Init => RelayInv
  <2> SUFFICES ASSUME Init PROVE RelayInv
    OBVIOUS
  <2> USE RelayAssumption DEF Init
  <2>1. GameTypes
    BY DEF GameTypes
  <2>2. CoordinatorTypes
    BY DEF CoordinatorTypes
  <2>3. HandlerTypes
    <3>1. inbox \in [Players -> Seq(Messages)]
      OBVIOUS
    <3>2. outbox \in [Players -> Seq([type : {"answer"}, answer : Answers]
                                     \union [type : {"left"}])]
      OBVIOUS
    <3> QED BY <3>1, <3>2 DEF HandlerTypes
  <2>4. ClientTypes
    BY DEF ClientTypes
  <2>5. CoordinatorInv /\ GameInv /\ HandlerInv /\ AnswersFitQuestions
    BY DEF CoordinatorInv, GameInv, HandlerInv, AnswersFitQuestions, Quiet,
       NoQuestion, NoAnswer
  <2> QED BY <2>1, <2>2, <2>3, <2>4, <2>5 DEF RelayInv, TypeOK
<1>2. RelayInv /\ [Next]_vars => RelayInv'
  <2> SUFFICES ASSUME RelayInv, [Next]_vars PROVE RelayInv'
    OBVIOUS
  <2>1. CASE UNCHANGED vars
    BY <2>1, StutterKeeps
  <2>2. CASE GameStep
    <3>1. ASSUME NEW p \in Players, NEW search \in Searching, Ask(p, search)
          PROVE  RelayInv'
      BY <3>1, AskKeeps, RelayAssumption
    <3>2. ASSUME NEW p \in Players, TakeAnswer(p) PROVE RelayInv'
      BY <3>2, TakeAnswerKeeps
    <3> QED BY <2>2, <3>1, <3>2, GameActsKeeps, GameEndsKeeps DEF GameStep
  <2>3. CASE CoordinatorStep
    <3>1. ASSUME NEW p \in Players, Forward(p) PROVE RelayInv'
      BY <3>1, ForwardKeeps
    <3> QED BY <2>3, <3>1, ReceiveAnswerKeeps, InformKeeps, CoordinatorEndsKeeps
            DEF CoordinatorStep
  <2>4. CASE RunnerStep
    BY <2>4, RunnerKeeps DEF RunnerStep
  <2>5. ASSUME NEW p \in Players, HandlerStep(p) PROVE RelayInv'
    <3>1. CASE HandleMessage(p)
      <4>1. HandleRequest(p) \/ HandleFacts(p) \/ HandleEnd(p)
        BY <3>1 DEF HandleMessage
      <4> QED BY <3>1, <4>1, HandleRequestKeeps, HandleOtherKeeps
    <3> QED BY <2>5, <3>1, HandlerEndsKeeps DEF HandlerStep
  <2>6. ASSUME NEW p \in Players, ClientStep(p) PROVE RelayInv'
    BY <2>6, ClientKeeps DEF ClientStep
  <2> QED BY <2>1, <2>2, <2>3, <2>4, <2>5, <2>6 DEF Next
<1> QED BY <1>1, <1>2, PTL DEF Spec

\* The types of the relay's state for any bounds and replies.
THEOREM TypeCorrect == Spec => []TypeOK
<1>1. RelayInv => TypeOK
  BY DEF RelayInv
<1> QED BY <1>1, RelayInvariant, PTL

\* While a client is asked, the game and the coordinator stand at its question:
\* there is one open question, however early, late or often clients answer.
THEOREM OneClientIsAsked == Spec => []OneQuestionAtATime
<1>1. RelayInv => OneQuestionAtATime
  <2> SUFFICES ASSUME RelayInv, NEW p \in Players, handler[p].alive,
                      handler[p].waiting
               PROVE  /\ game.at = "waiting" /\ game.player = p
                      /\ Len(log) = question[p].ac
                      /\ seq[p] + 1 = question[p].seq
                      /\ coord.at = "await" /\ coord.player = p
    BY DEF OneQuestionAtATime
  <2>1. coord.at = "await" /\ coord.player = p /\ Holds(p, coord.request)
    BY HandlerState DEF Quiet
  <2>2. IsNextOf(p, coord.request)
    BY <2>1 DEF RelayInv, CoordinatorInv
  <2> QED BY <2>1, <2>2 DEF Holds, IsNextOf
<1> QED BY <1>1, RelayInvariant, PTL

\* Every logged choice was answered for the place where it stands in the log:
\* the coordinator's check of the action count lets nothing else through.
THEOREM AnswersAreForTheirPlace == Spec => []AnswersFitQuestions
<1>1. RelayInv => AnswersFitQuestions
  BY DEF RelayInv
<1> QED BY <1>1, RelayInvariant, PTL
-----------------------------------------------------------------------------
(* The end of the game.                                                    *)

\* The messages that end a handler, and what they tell its client.
IsEnd(m) == m.type \in {"over", "fatal"}
Verdict(m) == IF m.type = "over" THEN m.info ELSE "fatal"

NoEnd(s) == \A i \in DOMAIN s : ~IsEnd(s[i])

OnlyEnds(s, v) == \A i \in DOMAIN s : IsEnd(s[i]) => Verdict(s[i]) = v

Announces(s, v) == (\E i \in DOMAIN s : IsEnd(s[i])) /\ OnlyEnds(s, v)

\* Until the coordinator ends, no client that is there has lost its handler.
StillServed ==
    coord.at # "ended" =>
        /\ coord.verdict = None /\ runner # "stopped"
        /\ \A p \in Players : NoEnd(inbox[p])
        /\ \A p \in connected : handler[p].alive

\* No other end than the coordinator's is told or on its way to anybody.
OtherEndsAreNot ==
    \A p \in Players :
        /\ told[p] # None => told[p] = coord.verdict
        /\ OnlyEnds(inbox[p], coord.verdict)

\* A verdict is told or on its way, unless the abort has cut it off.
VerdictUnderWay ==
    coord.at = "ended" /\ coord.verdict # None =>
        \A p \in connected :
            \/ told[p] = coord.verdict
            \/ /\ Announces(inbox[p], coord.verdict)
               /\ handler[p].alive \/ runner = "stopped"

\* A departure is reported by who left.
DepartedLeft ==
    \A p \in Players : \A i \in DOMAIN outbox[p] :
        outbox[p][i].type = "left" => p \notin connected

\* A won game is announced as won, if the abort lets it: while the runner
\* watches, a coordinator that has ended leaves a game that waits for ever.
WinnerIsForwarded ==
    endInfo = "winner" =>
        /\ game.at = "won"
        /\ coord.at = "ended" =>
             \/ coord.verdict = "winner"
             \/ coord.verdict = None /\ runner = "stopped"

UnseenEnd ==
    runner = "watching" =>
        /\ endInfo = None
        /\ coord.at = "ended" =>
             /\ game.at \in {"waiting", "failed"}
             /\ \A p \in Players : request[p] = None /\ response[p] = None

EndInv ==
    /\ StillServed /\ OtherEndsAreNot /\ VerdictUnderWay /\ DepartedLeft
    /\ WinnerIsForwarded /\ UnseenEnd

-----------------------------------------------------------------------------
\* An announcement after messages that are none is the queue's announcement.
LEMMA Announced ==
    ASSUME NEW s \in Seq(Messages), NEW t \in Seq(Messages), NoEnd(s), NEW v
    PROVE  /\ NoEnd(t) => NoEnd(s \o t)
           /\ OnlyEnds(t, v) => OnlyEnds(s \o t, v)
           /\ Announces(t, v) => Announces(s \o t, v)
<1>1. /\ s \o t \in Seq(Messages) /\ Len(s \o t) = Len(s) + Len(t)
      /\ \A i \in 1..Len(s) + Len(t) :
           (s \o t)[i] = IF i <= Len(s) THEN s[i] ELSE t[i - Len(s)]
  BY ConcatProperties
<1>2. /\ DOMAIN s = 1..Len(s) /\ DOMAIN t = 1..Len(t)
      /\ DOMAIN (s \o t) = 1..Len(s) + Len(t)
      /\ Len(s) \in Nat /\ Len(t) \in Nat
  BY <1>1
<1>3. \A i \in DOMAIN (s \o t) : IsEnd((s \o t)[i]) =>
          \E j \in DOMAIN t : (s \o t)[i] = t[j]
  BY <1>1, <1>2 DEF NoEnd
<1>4. \A j \in DOMAIN t : \E i \in DOMAIN (s \o t) : (s \o t)[i] = t[j]
  <2> SUFFICES ASSUME NEW j \in DOMAIN t
               PROVE  \E i \in DOMAIN (s \o t) : (s \o t)[i] = t[j]
    OBVIOUS
  <2>1. Len(s) + j \in DOMAIN (s \o t) /\ (s \o t)[Len(s) + j] = t[j]
    BY <1>1, <1>2
  <2> QED BY <2>1
<1> HIDE DEF IsEnd
<1> QED BY <1>3, <1>4 DEF NoEnd, Announces, OnlyEnds

\* Taking the first message: it is no end, or it is the one announced.
LEMMA TakesEnd ==
    ASSUME NEW s \in Seq(Messages), s # <<>>, NEW v
    PROVE  /\ NoEnd(s) => ~IsEnd(Head(s)) /\ NoEnd(Tail(s))
           /\ OnlyEnds(s, v) => OnlyEnds(Tail(s), v)
           /\ OnlyEnds(s, v) /\ IsEnd(Head(s)) => Verdict(Head(s)) = v
           /\ Announces(s, v) /\ ~IsEnd(Head(s)) => Announces(Tail(s), v)
<1>1. /\ Head(s) = s[1] /\ 1 \in DOMAIN s
      /\ \A i \in DOMAIN Tail(s) : i + 1 \in DOMAIN s /\ Tail(s)[i] = s[i + 1]
      /\ \A i \in DOMAIN s : i # 1 => i - 1 \in DOMAIN Tail(s)
                                      /\ s[i] = Tail(s)[i - 1]
  BY HeadTailProperties
<1> DEFINE t == Tail(s)
           m == Head(s)
<1>2. /\ m = s[1] /\ 1 \in DOMAIN s
      /\ \A i \in DOMAIN t : i + 1 \in DOMAIN s /\ t[i] = s[i + 1]
      /\ \A i \in DOMAIN s : i # 1 => i - 1 \in DOMAIN t /\ s[i] = t[i - 1]
  BY <1>1
<1> HIDE DEF IsEnd, Verdict, t, m
<1>3. NoEnd(s) => ~IsEnd(m) /\ NoEnd(t)
  BY <1>2 DEF NoEnd
<1>4. OnlyEnds(s, v) => OnlyEnds(t, v) /\ (IsEnd(m) => Verdict(m) = v)
  BY <1>2 DEF OnlyEnds
<1>5. Announces(s, v) /\ ~IsEnd(m) => Announces(t, v)
  BY <1>2, <1>4 DEF Announces
<1> QED BY <1>3, <1>4, <1>5 DEF t, m

\* What the coordinator sends that ends no game, and what ends one.
LEMMA EndMessages ==
    /\ NoEnd(<<>>)
    /\ \A m \in Messages : ~IsEnd(m) => NoEnd(<<m>>)
    /\ \A m \in Messages : IsEnd(m) => Announces(<<m>>, Verdict(m))
<1>1. \A m \in Messages : DOMAIN <<m>> = {1} /\ <<m>>[1] = m
  OBVIOUS
<1>2. DOMAIN <<>> = {}
  OBVIOUS
<1> HIDE DEF IsEnd, Verdict
<1> QED BY <1>1, <1>2 DEF NoEnd, Announces, OnlyEnds

-----------------------------------------------------------------------------
\* The game thread can only lose a game whose coordinator is gone.
LEMMA GameKeepsEnd ==
    ASSUME RelayInv, EndInv, GameStep
    PROVE  EndInv'
<1>1. /\ UNCHANGED <<coord, inbox, outbox, handler, runVars, clientVars>>
      /\ \/ game.at = "playing"
         \/ \E p \in Players : game.at = "waiting" /\ response[p] # None
         \/ game.at = "waiting" /\ game'.at = "failed" /\ UNCHANGED linkVars
  <2>1. ASSUME NEW p \in Players, TakeAnswer(p)
        PROVE  /\ UNCHANGED <<coord, inbox, outbox, handler, runVars, clientVars>>
               /\ game.at = "waiting" /\ response[p] # None
    BY <2>1 DEF TakeAnswer
  <2>2. ASSUME AnswerChannelCloses
        PROVE  /\ UNCHANGED <<coord, inbox, outbox, handler, runVars, clientVars>>
               /\ game.at = "waiting" /\ game'.at = "failed" /\ UNCHANGED linkVars
    BY <2>2 DEF AnswerChannelCloses, RelayInv, TypeOK, GameTypes
  <2> QED BY <2>1, <2>2 DEF GameStep, GameActs, GameDigs, GameReorders, Ask,
             GameIsWon
<1>2. StillServed' /\ OtherEndsAreNot' /\ VerdictUnderWay' /\ DepartedLeft'
  BY <1>1 DEF EndInv, StillServed, OtherEndsAreNot, VerdictUnderWay, DepartedLeft,
     runVars, clientVars
<1>3. WinnerIsForwarded' /\ UnseenEnd'
  BY <1>1 DEF EndInv, WinnerIsForwarded, UnseenEnd, runVars, linkVars
<1> QED BY <1>2, <1>3 DEF EndInv

\* The coordinator ends: it has a verdict for every client that is there, or it
\* has none.  A runner that still watches leaves a game that waits for ever.
LEMMA EndIsAnnounced ==
    ASSUME RelayInv, EndInv, coord.at # "ended",
           NEW v \in {None, "fatal", "winner", "draw"}, Ended(v),
           NEW m \in [Players -> Seq(Messages)],
           inbox' = Deliver(m) \/ (v = None /\ inbox' = inbox),
           \A p \in Players : OnlyEnds(m[p], v),
           v # None => \A p \in connected : Announces(m[p], v),
           UNCHANGED <<gameVars, handler, runVars, clientVars>>,
           runner = "watching" =>
              /\ game.at = "waiting"
              /\ \A p \in Players : request'[p] = None /\ response'[p] = None,
           game.at = "won" => v = endInfo,
           DepartedLeft'
    PROVE  EndInv'
<1> USE DEF EndInv, gameVars, runVars, clientVars
<1>1. coord'.at = "ended" /\ coord'.verdict = v
  BY DEF Ended, RelayInv, TypeOK, CoordinatorTypes
<1>2. connected \in SUBSET Players
      /\ \A p \in Players : inbox[p] \in Seq(Messages) /\ m[p] \in Seq(Messages)
  BY DEF RelayInv, TypeOK, HandlerTypes, ClientTypes
<1>3. v # None =>
        \A p \in connected : handler[p].alive /\ Announces(inbox'[p], v)
  <2> SUFFICES ASSUME v # None, NEW p \in connected
               PROVE  handler[p].alive /\ Announces(inbox'[p], v)
    OBVIOUS
  <2>1. handler[p].alive /\ NoEnd(inbox[p])
    BY <1>2 DEF StillServed
  <2>2. inbox'[p] = inbox[p] \o m[p]
    BY <1>2, <2>1, Delivery DEF RelayInv, TypeOK
  <2> QED BY <1>2, <2>1, <2>2, Announced
<1>4. OtherEndsAreNot'
  <2> SUFFICES ASSUME NEW p \in Players
               PROVE  told'[p] = None /\ OnlyEnds(inbox'[p], v)
    BY <1>1 DEF OtherEndsAreNot
  <2>1. NoEnd(inbox[p]) /\ told[p] = None
    BY DEF StillServed, OtherEndsAreNot
  <2>2. inbox'[p] = inbox[p] \o m[p] \/ inbox'[p] = inbox[p]
    BY <1>2, Delivery DEF RelayInv, TypeOK
  <2>3. OnlyEnds(inbox[p], v)
    BY <2>1 DEF NoEnd, OnlyEnds
  <2> QED BY <1>2, <2>1, <2>2, <2>3, Announced
<1>5. StillServed' /\ VerdictUnderWay'
  BY <1>1, <1>3 DEF StillServed, VerdictUnderWay
<1>6. WinnerIsForwarded' /\ UnseenEnd'
  BY <1>1 DEF WinnerIsForwarded, UnseenEnd
<1> QED BY <1>4, <1>5, <1>6

\* The coordinator goes on: what it sends ends nobody's game.
LEMMA GoesOnKeepsEnd ==
    ASSUME RelayInv, EndInv, coord.at # "ended", coord'.at # "ended",
           coord'.verdict = coord.verdict,
           NEW m \in [Players -> Seq(Messages)],
           inbox' = Deliver(m) \/ inbox' = inbox,
           \A p \in Players : NoEnd(m[p]),
           UNCHANGED <<game, handler, runVars, clientVars>>,
           DepartedLeft'
    PROVE  EndInv'
<1> USE DEF EndInv, runVars, clientVars
<1>1. HandlerTypes /\ connected \in SUBSET Players
      /\ \A p \in Players : inbox[p] \in Seq(Messages)
  BY DEF RelayInv, TypeOK, HandlerTypes, ClientTypes
<1>2. \A p \in Players : NoEnd(inbox'[p])
  <2>1. \A p \in Players : NoEnd(inbox[p])
    BY DEF StillServed
  <2>2. \A p \in Players : inbox'[p] = inbox[p] \o m[p] \/ inbox'[p] = inbox[p]
    BY <1>1, Delivery
  <2>3. \A p \in Players : NoEnd(inbox[p] \o m[p])
    BY <1>1, <2>1, Announced
  <2> QED BY <2>1, <2>2, <2>3
<1>3. StillServed' /\ OtherEndsAreNot' /\ VerdictUnderWay'
  BY <1>2 DEF NoEnd, OnlyEnds, StillServed, OtherEndsAreNot, VerdictUnderWay
<1>4. WinnerIsForwarded' /\ UnseenEnd'
  BY DEF WinnerIsForwarded, UnseenEnd
<1> QED BY <1>3, <1>4

\* A request is passed on, or cannot be: then the game is left waiting.
LEMMA ForwardKeepsEnd ==
    ASSUME RelayInv, EndInv, NEW p \in Players, Forward(p)
    PROVE  EndInv'
<1> USE DEF RelayInv
<1>1. PICK r \in Requests : r = request[p] /\ request[p] # None
  BY DEF Forward, TypeOK, CoordinatorTypes
<1> DEFINE facts == [i \in DOMAIN r.public |->
                       [type |-> "public", fact |-> r.public[i]]]
           asking == [q \in Players |->
              IF q = p THEN Append(facts, [type |-> "request", request |-> r])
              ELSE facts]
<1>2. /\ coord.at = "select"
      /\ request' = [request EXCEPT ![p] = None]
      /\ \/ /\ coord' = [coord EXCEPT !.at = "await", !.player = p,
                                      !.request = r]
            /\ inbox' = Deliver(asking)
         \/ Ended(None) /\ UNCHANGED inbox
      /\ UNCHANGED <<gameVars, response, outbox, handler, runVars, clientVars>>
  BY <1>1 DEF Forward
<1>3. /\ game.at = "waiting"
      /\ \A q \in Players : request'[q] = None /\ response'[q] = None
  BY <1>1, <1>2 DEF GameInv, IsNextOf, TypeOK, CoordinatorTypes
<1>4. DepartedLeft'
  BY <1>2 DEF EndInv, DepartedLeft, clientVars
<1>5. CASE Ended(None) /\ UNCHANGED inbox
  <2> DEFINE m == [q \in Players |-> <<>>]
  <2>1. m \in [Players -> Seq(Messages)] /\ \A q \in Players : OnlyEnds(m[q], None)
    BY DEF OnlyEnds
  <2>2. coord.at # "ended" /\ game.at # "won" /\ inbox' = inbox
    BY <1>2, <1>3, <1>5
  <2> HIDE DEF m
  <2> QED BY <1>2, <1>3, <1>4, <1>5, <2>1, <2>2, EndIsAnnounced
<1>6. CASE /\ inbox' = Deliver(asking)
           /\ coord' = [coord EXCEPT !.at = "await", !.player = p, !.request = r]
  <2>1. /\ facts \in Seq(Messages)
        /\ \A i \in DOMAIN facts : ~IsEnd(facts[i])
    <3>1. r.public \in Seq(Facts)
      BY DEF Requests
    <3>2. \A i \in DOMAIN r.public :
             facts[i] \in Messages /\ ~IsEnd(facts[i])
      BY <3>1, KindsOfFacts DEF IsEnd
    <3>3. Len(r.public) \in Nat /\ DOMAIN r.public = 1..Len(r.public)
      BY <3>1
    <3>4. facts = [i \in 1..Len(r.public) |-> facts[i]]
          /\ DOMAIN facts = DOMAIN r.public
      BY <3>3
    <3> HIDE DEF facts
    <3>5. facts \in Seq(Messages)
      <4>1. facts \in [1..Len(r.public) -> Messages]
        BY <3>2, <3>3, <3>4
      <4>2. [1..Len(r.public) -> Messages] \subseteq Seq(Messages)
        BY <3>3
      <4> QED BY <4>1, <4>2, Zenon
    <3> QED BY <3>2, <3>4, <3>5
  <2>2. [type |-> "request", request |-> r] \in Messages
        /\ ~IsEnd([type |-> "request", request |-> r])
    BY KindsOfFacts DEF IsEnd
  <2> HIDE DEF facts
  <2>3. Append(facts, [type |-> "request", request |-> r]) \in Seq(Messages)
        /\ NoEnd(Append(facts, [type |-> "request", request |-> r]))
    <3>1. ASSUME NEW x \in Messages, ~IsEnd(x)
          PROVE  Append(facts, x) \in Seq(Messages) /\ NoEnd(Append(facts, x))
      BY <2>1, <3>1, AppendProperties DEF NoEnd
    <3> QED BY <2>2, <3>1
  <2>4. asking \in [Players -> Seq(Messages)]
        /\ \A q \in Players : NoEnd(asking[q])
    BY <2>1, <2>3 DEF NoEnd
  <2> HIDE DEF asking
  <2>5. coord.at # "ended" /\ coord'.at = "await" /\ coord'.verdict = coord.verdict
    BY <1>2, <1>6 DEF TypeOK, CoordinatorTypes
  <2> QED BY <1>2, <1>4, <1>6, <2>4, <2>5, GoesOnKeepsEnd DEF gameVars
<1> QED BY <1>2, <1>5, <1>6

\* An answer that fits ends nothing; one that does not, a departure and the end
\* of the game are announced to every client that is there.
LEMMA CoordinatorKeepsEnd ==
    ASSUME RelayInv, EndInv,
           \/ ReceiveAnswer \/ AcceptChoice \/ InformOpponent
           \/ ReceiveDeparture \/ ReceiveNothing \/ ForwardGameEnd
    PROVE  EndInv'
<1> USE DEF RelayInv
<1>1. coord.at = "await" =>
        /\ coord.player \in Players /\ coord.request \in Requests
        /\ game.at = "waiting"
        /\ \A q \in Players : request[q] = None /\ response[q] = None
  BY DEF CoordinatorInv, IsNextOf
<1>2. connected \in SUBSET Players
      /\ \A q \in Players : outbox[q] \in Seq(FromHandler)
  BY DEF TypeOK, ClientTypes, HandlerTypes, FromHandler
<1>3. ASSUME NEW p \in Players, outbox[p] # <<>>,
             outbox' = [outbox EXCEPT ![p] = Tail(@)], UNCHANGED connected
      PROVE  /\ DepartedLeft'
             /\ Head(outbox[p]).type = "left" => p \notin connected
  <2>1. \A q \in Players : \A i \in DOMAIN outbox[q] :
            outbox[q][i].type = "left" => q \notin connected
    BY DEF EndInv, DepartedLeft
  <2>2. /\ Head(outbox[p]) = outbox[p][1] /\ 1 \in DOMAIN outbox[p]
        /\ \A i \in DOMAIN Tail(outbox[p]) :
              i + 1 \in DOMAIN outbox[p] /\ Tail(outbox[p])[i] = outbox[p][i + 1]
    BY <1>2, <1>3, HeadTailProperties
  <2>3. \A q \in Players : IF q = p THEN outbox'[q] = Tail(outbox[q])
                           ELSE outbox'[q] = outbox[q]
    BY <1>3 DEF TypeOK, HandlerTypes
  <2>4. DepartedLeft'
    BY <1>3, <2>1, <2>2, <2>3 DEF DepartedLeft
  <2> QED BY <2>1, <2>2, <2>4
<1>4. /\ [type |-> "fatal"] \in Messages /\ NoEnd(<<>>)
      /\ Announces(<<[type |-> "fatal"]>>, "fatal")
      /\ \A v : OnlyEnds(<<>>, v)
  BY KindsOfFacts, EndMessages DEF IsEnd, Verdict, OnlyEnds
<1>5. CASE ReceiveAnswer
  <2>1. PICK p \in Players, r \in Requests :
          p = coord.player /\ r = coord.request
    BY <1>1, <1>5 DEF ReceiveAnswer
  <2>2. PICK a : a = Head(outbox[p]).answer
    OBVIOUS
  <2> DEFINE none == [q \in Players |-> <<>>]
             bad == [q \in Players |-> <<[type |-> "fatal"]>>]
  <2>3. /\ coord.at = "await" /\ outbox[p] # <<>>
        /\ outbox' = [outbox EXCEPT ![p] = Tail(@)]
        /\ \/ /\ inbox' = inbox
              /\ coord'.at = "accept" /\ coord'.verdict = coord.verdict
           \/ inbox' = Deliver(bad) /\ Ended("fatal") /\ UNCHANGED response
        /\ UNCHANGED <<gameVars, request, handler, runVars, clientVars>>
    BY <1>5, <2>1, <2>2 DEF ReceiveAnswer, TypeOK, CoordinatorTypes
  <2>4. DepartedLeft'
    BY <1>3, <2>3 DEF clientVars
  <2>5. CASE inbox' = Deliver(bad) /\ Ended("fatal") /\ UNCHANGED response
    <3>1. /\ bad \in [Players -> Seq(Messages)]
          /\ \A q \in Players : Announces(bad[q], "fatal") /\ OnlyEnds(bad[q], "fatal")
      BY <1>2, <1>4 DEF Announces
    <3> HIDE DEF bad
    <3>2. /\ coord.at # "ended" /\ game.at # "won" /\ game.at = "waiting"
          /\ \A q \in Players : request'[q] = None /\ response'[q] = None
      BY <1>1, <2>3, <2>5
    <3> QED BY <1>2, <2>3, <2>4, <2>5, <3>1, <3>2, EndIsAnnounced
  <2>6. CASE /\ inbox' = inbox
             /\ coord'.at = "accept" /\ coord'.verdict = coord.verdict
    <3>1. none \in [Players -> Seq(Messages)] /\ \A q \in Players : NoEnd(none[q])
      BY <1>4
    <3> HIDE DEF none
    <3>2. coord.at # "ended" /\ coord'.at # "ended"
      BY <2>3, <2>6
    <3> QED BY <2>3, <2>4, <2>6, <3>1, <3>2, GoesOnKeepsEnd DEF gameVars
  <2> QED BY <2>3, <2>5, <2>6
<1>6. CASE ReceiveDeparture
  <2>1. PICK p \in Players : p = coord.player
    BY <1>1, <1>6 DEF ReceiveDeparture
  <2> DEFINE m == [q \in Players |-> IF q = p THEN <<>> ELSE <<[type |-> "fatal"]>>]
  <2>2. /\ coord.at = "await" /\ outbox[p] # <<>>
        /\ Head(outbox[p]).type = "left"
        /\ outbox' = [outbox EXCEPT ![p] = Tail(@)]
        /\ inbox' = Deliver(m) /\ Ended("fatal")
        /\ UNCHANGED <<gameVars, linkVars, handler, runVars, clientVars>>
    BY <1>6, <2>1 DEF ReceiveDeparture
  <2>3. DepartedLeft' /\ p \notin connected
    BY <1>3, <2>2 DEF clientVars
  <2>4. /\ m \in [Players -> Seq(Messages)]
        /\ \A q \in Players : OnlyEnds(m[q], "fatal")
        /\ \A q \in connected : Announces(m[q], "fatal")
    BY <1>2, <1>4, <2>3 DEF Announces
  <2> HIDE DEF m
  <2>5. /\ coord.at # "ended" /\ game.at # "won" /\ game.at = "waiting"
        /\ \A q \in Players : request'[q] = None /\ response'[q] = None
    BY <1>1, <2>2 DEF linkVars
  <2> QED BY <2>2, <2>3, <2>4, <2>5, EndIsAnnounced
<1>7. CASE ReceiveNothing
  <2>1. /\ coord.at = "await" /\ Ended(None)
        /\ UNCHANGED <<gameVars, linkVars, inbox, outbox, handler, runVars,
                       clientVars>>
    BY <1>7 DEF ReceiveNothing
  <2> DEFINE m == [q \in Players |-> <<>>]
  <2>2. m \in [Players -> Seq(Messages)] /\ \A q \in Players : OnlyEnds(m[q], None)
    BY <1>4
  <2> HIDE DEF m
  <2>3. DepartedLeft'
    BY <2>1 DEF EndInv, DepartedLeft, clientVars
  <2>4. /\ coord.at # "ended" /\ game.at # "won" /\ game.at = "waiting"
        /\ \A q \in Players : request'[q] = None /\ response'[q] = None
        /\ inbox' = inbox
    BY <1>1, <2>1 DEF linkVars
  <2> QED BY <2>1, <2>2, <2>3, <2>4, EndIsAnnounced
<1>8. CASE ForwardGameEnd
  <2>1. PICK i \in {"winner", "draw"} : i = endInfo
    BY <1>8 DEF ForwardGameEnd, TypeOK, ClientTypes
  <2> DEFINE m == [q \in Players |-> <<[type |-> "over", info |-> i]>>]
  <2>2. /\ coord.at = "select"
        /\ inbox' = Deliver(m) /\ Ended(i)
        /\ UNCHANGED <<gameVars, linkVars, outbox, handler, runVars, clientVars>>
    BY <1>8, <2>1 DEF ForwardGameEnd
  <2>3. m \in [Players -> Seq(Messages)]
        /\ \A q \in Players : Announces(m[q], i) /\ OnlyEnds(m[q], i)
    <3>1. [type |-> "over", info |-> i] \in Messages
          /\ IsEnd([type |-> "over", info |-> i])
          /\ Verdict([type |-> "over", info |-> i]) = i
      BY KindsOfFacts DEF IsEnd, Verdict
    <3> QED BY <1>2, <3>1, EndMessages DEF Announces
  <2> HIDE DEF m
  <2>4. DepartedLeft'
    BY <2>2 DEF EndInv, DepartedLeft, clientVars
  <2>5. coord.at # "ended" /\ runner # "watching"
    BY <2>1, <2>2, RelayAssumption DEF EndInv, UnseenEnd
  <2> QED BY <1>2, <2>1, <2>2, <2>3, <2>4, <2>5, EndIsAnnounced
<1>9. CASE AcceptChoice \/ InformOpponent
  <2> DEFINE accepted == [q \in Players |->
                            IF q = coord.player THEN <<[type |-> "accepted"]>> ELSE <<>>]
             made == [q \in Players |-> IF q = coord.player THEN <<>>
                         ELSE <<[type |-> "opponent", facts |-> coord.facts]>>]
  <2>1. /\ coord.at \in {"accept", "inform"}
        /\ inbox' = Deliver(accepted) \/ inbox' = Deliver(made)
        /\ coord'.at \in {"inform", "select"} /\ coord'.verdict = coord.verdict
        /\ UNCHANGED <<gameVars, linkVars, outbox, handler, runVars, clientVars>>
    BY <1>9 DEF AcceptChoice, InformOpponent, TypeOK, CoordinatorTypes
  <2>2. /\ accepted \in [Players -> Seq(Messages)] /\ made \in [Players -> Seq(Messages)]
        /\ \A q \in Players : NoEnd(accepted[q]) /\ NoEnd(made[q])
    <3>1. coord.facts \in Seq(Facts)
      BY DEF TypeOK, CoordinatorTypes
    <3>2. LET a == [type |-> "accepted"]
              o == [type |-> "opponent", facts |-> coord.facts]
          IN  a \in Messages /\ ~IsEnd(a) /\ o \in Messages /\ ~IsEnd(o)
      BY <3>1, KindsOfFacts DEF IsEnd
    <3> QED BY <3>2, EndMessages
  <2> HIDE DEF accepted, made
  <2>3. DepartedLeft'
    BY <2>1 DEF EndInv, DepartedLeft, clientVars
  <2>4. coord.at # "ended" /\ coord'.at # "ended" /\ UNCHANGED game
    BY <2>1 DEF gameVars
  <2>5. CASE inbox' = Deliver(accepted)
    BY <2>1, <2>2, <2>3, <2>4, <2>5, GoesOnKeepsEnd
  <2>6. CASE inbox' = Deliver(made)
    BY <2>1, <2>2, <2>3, <2>4, <2>6, GoesOnKeepsEnd
  <2> QED BY <2>1, <2>5, <2>6
<1> QED BY <1>5, <1>6, <1>7, <1>8, <1>9

-----------------------------------------------------------------------------
\* A step of p's handler: it is enough to look at p.
LEMMA HandlerEndFrame ==
    ASSUME RelayInv, EndInv, NEW p \in Players,
           UNCHANGED <<gameVars, linkVars, coord, runVars, connected>>,
           handler' = [handler EXCEPT ![p] = handler'[p]],
           inbox' = [inbox EXCEPT ![p] = inbox'[p]],
           outbox' = [outbox EXCEPT ![p] = outbox'[p]],
           \A q \in Players : q # p => told'[q] = told[q],
           handler'[p].alive => handler[p].alive,
           coord.at # "ended" =>
              NoEnd(inbox'[p]) /\ (p \in connected => handler'[p].alive),
           told'[p] # None => told'[p] = coord.verdict,
           OnlyEnds(inbox'[p], coord.verdict),
           coord.at = "ended" /\ coord.verdict # None /\ p \in connected =>
              \/ told'[p] = coord.verdict
              \/ Announces(inbox'[p], coord.verdict) /\ handler'[p].alive,
           \A k \in DOMAIN outbox'[p] :
              outbox'[p][k].type = "left" => p \notin connected
    PROVE  EndInv'
<1> USE DEF EndInv, gameVars, linkVars, runVars
<1>1. \A q \in Players : q # p => /\ handler'[q] = handler[q]
                                  /\ inbox'[q] = inbox[q]
                                  /\ outbox'[q] = outbox[q]
  <2>1. /\ handler \in [Players -> HandlerStates]
        /\ inbox \in [Players -> Seq(Messages)]
        /\ outbox \in [Players -> Seq(FromHandler)]
    BY DEF RelayInv, TypeOK, HandlerTypes, HandlerStates, FromHandler
  <2> QED BY <2>1
<1>2. connected \in SUBSET Players
  BY DEF RelayInv, TypeOK, ClientTypes
<1>3. StillServed'
  BY <1>1, <1>2 DEF StillServed
<1>4. VerdictUnderWay'
  BY <1>1, <1>2 DEF VerdictUnderWay
<1>5. OtherEndsAreNot' /\ DepartedLeft'
  BY <1>1 DEF OtherEndsAreNot, DepartedLeft
<1>6. WinnerIsForwarded' /\ UnseenEnd'
  BY DEF WinnerIsForwarded, UnseenEnd
<1> QED BY <1>3, <1>4, <1>5, <1>6

\* A message that is no end keeps the handler and what is behind it in the
\* queue; an end is the verdict, and is told.
LEMMA HandleMessageKeepsEnd ==
    ASSUME RelayInv, EndInv, NEW p \in Players, HandleMessage(p)
    PROVE  EndInv'
<1>1. /\ handler[p] \in HandlerStates /\ inbox[p] \in Seq(Messages)
      /\ outbox[p] \in Seq(FromHandler)
      /\ handler \in [Players -> HandlerStates]
      /\ outbox \in [Players -> Seq(FromHandler)]
      /\ told \in [Players -> {None, "winner", "draw", "fatal"}]
      /\ inbox \in [Players -> Seq(Messages)]
  BY HandlerState DEF RelayInv, TypeOK, HandlerTypes, ClientTypes,
     HandlerStates, FromHandler
<1>2. /\ handler[p].alive /\ inbox[p] # <<>>
      /\ inbox' = [inbox EXCEPT ![p] = Tail(inbox[p])]
      /\ inbox'[p] = Tail(inbox[p])
      /\ UNCHANGED <<gameVars, linkVars, coord, runVars, connected>>
  BY <1>1 DEF HandleMessage
<1>3. /\ \A k \in DOMAIN outbox[p] :
            outbox[p][k].type = "left" => p \notin connected
      /\ coord.at # "ended" => NoEnd(inbox[p])
      /\ coord.at = "ended" /\ coord.verdict # None /\ p \in connected =>
           told[p] = coord.verdict \/ Announces(inbox[p], coord.verdict)
      /\ told[p] # None => told[p] = coord.verdict
      /\ OnlyEnds(inbox[p], coord.verdict)
  BY <1>2 DEF EndInv, DepartedLeft, StillServed, VerdictUnderWay, OtherEndsAreNot
<1>4. PICK m \in Messages : m = Head(inbox[p])
  BY <1>1, <1>2, TakesMessage
<1>5. /\ NoEnd(inbox[p]) => ~IsEnd(m) /\ NoEnd(Tail(inbox[p]))
      /\ \A v : OnlyEnds(inbox[p], v) =>
                  OnlyEnds(Tail(inbox[p]), v) /\ (IsEnd(m) => Verdict(m) = v)
      /\ \A v : Announces(inbox[p], v) /\ ~IsEnd(m) =>
                  Announces(Tail(inbox[p]), v)
  BY <1>1, <1>2, <1>4, TakesEnd
<1>6. CASE HandleRequest(p) \/ HandleFacts(p)
  <2>1. /\ ~IsEnd(m) /\ told' = told
        /\ handler' = [handler EXCEPT ![p] = handler'[p]]
        /\ outbox' = [outbox EXCEPT ![p] = outbox'[p]]
        /\ handler'[p].alive
        /\ outbox'[p] = outbox[p]
           \/ \E a : outbox'[p] = Append(outbox[p], Answer(a)) /\ a \in Answers
    <3>1. CASE HandleRequest(p)
      <4>1. m.type = "request" /\ told' = told
        BY <1>4, <3>1 DEF HandleRequest
      <4>2. CASE handler[p].early # None
        <5>1. /\ handler' = [handler EXCEPT ![p].early = None]
              /\ outbox' = [outbox EXCEPT ![p] =
                              Append(@, Answer(handler[p].early))]
          BY <3>1, <4>2 DEF HandleRequest
        <5>2. handler[p].early \in Answers
          BY <1>1, <4>2 DEF HandlerStates
        <5>3. /\ handler' = [handler EXCEPT ![p] = handler'[p]]
              /\ handler'[p].alive
          BY <1>1, <1>2, <5>1 DEF HandlerStates
        <5>4. /\ outbox' = [outbox EXCEPT ![p] = outbox'[p]]
              /\ outbox'[p] = Append(outbox[p], Answer(handler[p].early))
          BY <1>1, <5>1
        <5> QED BY <4>1, <5>2, <5>3, <5>4 DEF IsEnd
      <4>3. CASE handler[p].early = None
        <5>1. /\ handler' = [handler EXCEPT ![p].waiting = TRUE,
                                            ![p].facts = <<>>]
              /\ outbox' = outbox
          BY <3>1, <4>3 DEF HandleRequest
        <5>2. handler' = [handler EXCEPT ![p] = handler'[p]] /\ handler'[p].alive
          BY <1>1, <1>2, <5>1 DEF HandlerStates
        <5> QED BY <1>1, <4>1, <5>1, <5>2 DEF IsEnd
      <4> QED BY <4>2, <4>3
    <3>2. CASE HandleFacts(p)
      <4>1. /\ m.type \in {"opponent", "public", "accepted"} /\ told' = told
            /\ outbox' = outbox
        BY <1>4, <3>2 DEF HandleFacts
      <4>2. PICK fs : handler' = [handler EXCEPT ![p].facts = fs]
        BY <3>2 DEF HandleFacts
      <4>3. handler' = [handler EXCEPT ![p] = handler'[p]] /\ handler'[p].alive
        BY <1>1, <1>2, <4>2 DEF HandlerStates
      <4> QED BY <1>1, <4>1, <4>3 DEF IsEnd
    <3> QED BY <1>6, <3>1, <3>2
  <2>2. \A k \in DOMAIN outbox'[p] :
            outbox'[p][k].type = "left" => p \notin connected
    <3>1. ASSUME NEW a \in Answers, outbox'[p] = Append(outbox[p], Answer(a))
          PROVE  \A k \in DOMAIN outbox'[p] :
                    outbox'[p][k].type = "left" => p \notin connected
      <4>1. Answer(a).type # "left" /\ Answer(a) \in FromHandler
        BY DEF Answer, FromHandler
      <4> QED BY <1>1, <1>3, <3>1, <4>1, AppendProperties
    <3> QED BY <1>3, <2>1, <3>1
  <2>3. coord.at # "ended" => NoEnd(inbox'[p])
    BY <1>2, <1>3, <1>5
  <2>4. /\ told'[p] = told[p] /\ OnlyEnds(inbox'[p], coord.verdict)
        /\ coord.at = "ended" /\ coord.verdict # None /\ p \in connected =>
             told[p] = coord.verdict \/ Announces(inbox'[p], coord.verdict)
    BY <1>2, <1>3, <1>5, <2>1
  <2> QED BY <1>2, <1>3, <2>1, <2>2, <2>3, <2>4, HandlerEndFrame
<1>7. CASE HandleEnd(p)
  <2>1. /\ IsEnd(m) /\ outbox' = outbox
        /\ told' = [told EXCEPT ![p] = Verdict(m)]
        /\ handler' = [handler EXCEPT ![p].alive = FALSE]
    BY <1>4, <1>7 DEF HandleEnd, IsEnd, Verdict
  <2>2. /\ handler' = [handler EXCEPT ![p] = handler'[p]]
        /\ outbox' = [outbox EXCEPT ![p] = outbox'[p]]
        /\ ~handler'[p].alive
    BY <1>1, <2>1 DEF HandlerStates
  <2>3. coord.at = "ended"
    BY <1>3, <1>5, <2>1
  <2>4. PICK e : e = Verdict(m)
    OBVIOUS
  <2>5. told'[p] = e /\ \A q \in Players : q # p => told'[q] = told[q]
    BY <1>1, <2>1, <2>4
  <2>6. told'[p] = coord.verdict /\ OnlyEnds(inbox'[p], coord.verdict)
    BY <1>2, <1>3, <1>5, <2>1, <2>4, <2>5
  <2> QED BY <1>2, <1>3, <2>1, <2>2, <2>3, <2>5, <2>6, HandlerEndFrame
<1> QED BY <1>6, <1>7 DEF HandleMessage

\* A handler that ends by itself has no client, or no verdict to tell.
LEMMA HandlerEndsKeepsEnd ==
    ASSUME RelayInv, EndInv, NEW p \in Players, HandlerGivesUp(p) \/ HandleClose(p)
    PROVE  EndInv'
<1>1. /\ handler \in [Players -> HandlerStates]
      /\ outbox \in [Players -> Seq(FromHandler)]
      /\ inbox \in [Players -> Seq(Messages)]
  BY DEF RelayInv, TypeOK, HandlerTypes, HandlerStates, FromHandler
<1>2. /\ handler[p].alive
      /\ handler' = [handler EXCEPT ![p].alive = FALSE]
      /\ UNCHANGED <<gameVars, linkVars, coord, inbox, runVars, clientVars>>
      /\ \/ outbox' = outbox
         \/ /\ outbox' = [outbox EXCEPT ![p] = Append(@, [type |-> "left"])]
            /\ p \notin connected
      /\ p \in connected => coord.at = "ended" /\ inbox[p] = <<>>
  BY DEF HandlerGivesUp, HandleClose
<1>3. /\ handler' = [handler EXCEPT ![p] = handler'[p]]
      /\ outbox' = [outbox EXCEPT ![p] = outbox'[p]]
      /\ inbox' = [inbox EXCEPT ![p] = inbox'[p]]
      /\ inbox'[p] = inbox[p] /\ ~handler'[p].alive
  BY <1>1, <1>2 DEF HandlerStates
<1>4. coord.at # "ended" => NoEnd(inbox[p])
  BY DEF EndInv, StillServed
<1>5. /\ coord.at = "ended" /\ coord.verdict # None /\ p \in connected =>
           told[p] = coord.verdict
      /\ told[p] # None => told[p] = coord.verdict
      /\ OnlyEnds(inbox[p], coord.verdict)
  <2>1. \A v : ~Announces(<<>>, v)
    BY DEF Announces
  <2> QED BY <1>2, <2>1 DEF EndInv, VerdictUnderWay, OtherEndsAreNot
<1>6. \A k \in DOMAIN outbox'[p] :
        outbox'[p][k].type = "left" => p \notin connected
  BY <1>2 DEF EndInv, DepartedLeft
<1>7. UNCHANGED <<gameVars, linkVars, coord, runVars, connected, told>>
  BY <1>2 DEF clientVars
<1> QED BY <1>2, <1>3, <1>4, <1>5, <1>6, <1>7, HandlerEndFrame

\* A client's answer ends no handler; one that leaves is owed nothing.
LEMMA ClientKeepsEnd ==
    ASSUME RelayInv, EndInv, NEW p \in Players,
           ClientAnswers(p) \/ ClientStrays(p) \/ ClientLeaves(p)
    PROVE  EndInv'
<1>1. ASSUME NEW a, HandleSubmit(p, a)
      PROVE  EndInv'
  <2>1. /\ handler \in [Players -> HandlerStates]
        /\ outbox \in [Players -> Seq(FromHandler)]
        /\ inbox \in [Players -> Seq(Messages)]
        /\ handler[p].waiting => coord.at # "ended"
    BY <1>1, HandlerState DEF RelayInv, TypeOK, HandlerTypes, HandlerStates,
       FromHandler, HandleSubmit
  <2>2. /\ handler[p].alive /\ p \in connected
        /\ UNCHANGED <<gameVars, linkVars, coord, inbox, runVars, connected,
                       question, told, known>>
        /\ outbox' = [outbox EXCEPT ![p] = Append(@, Answer(a))]
           \/ outbox' = outbox
        /\ \/ handler' = [handler EXCEPT ![p].waiting = FALSE]
           \/ handler' = [handler EXCEPT ![p].early = a]
    BY <1>1, <2>1 DEF HandleSubmit
  <2>3. /\ handler' = [handler EXCEPT ![p] = handler'[p]]
        /\ handler'[p].alive
    BY <2>1, <2>2 DEF HandlerStates
  <2>4. /\ outbox' = [outbox EXCEPT ![p] = outbox'[p]]
        /\ outbox'[p] = outbox[p] \/ outbox'[p] = Append(outbox[p], Answer(a))
    BY <2>1, <2>2
  <2>5. inbox' = [inbox EXCEPT ![p] = inbox'[p]] /\ inbox'[p] = inbox[p]
    BY <2>1, <2>2
  <2>6. \A k \in DOMAIN outbox'[p] : outbox'[p][k].type # "left"
    <3>1. \A k \in DOMAIN outbox[p] : outbox[p][k].type # "left"
      BY <2>2 DEF EndInv, DepartedLeft
    <3>2. PICK s \in Seq(FromHandler) : s = outbox[p]
      BY <2>1
    <3>3. /\ DOMAIN Append(s, Answer(a)) = 1..Len(s) + 1
          /\ Append(s, Answer(a))[Len(s) + 1] = Answer(a)
          /\ \A i \in 1..Len(s) : Append(s, Answer(a))[i] = s[i]
          /\ Len(s) \in Nat /\ DOMAIN s = 1..Len(s)
      OBVIOUS
    <3>4. Answer(a).type = "answer"
      BY DEF Answer
    <3>5. \A k \in DOMAIN Append(s, Answer(a)) : Append(s, Answer(a))[k].type # "left"
      <4>1. \A k \in 1..Len(s) + 1 : k \in 1..Len(s) \/ k = Len(s) + 1
        BY <3>3
      <4> QED BY <3>1, <3>2, <3>3, <3>4, <4>1
    <3> QED BY <2>4, <3>1, <3>2, <3>5
  <2>7. /\ coord.at # "ended" => NoEnd(inbox[p])
        /\ coord.at = "ended" /\ coord.verdict # None =>
             told[p] = coord.verdict \/ Announces(inbox[p], coord.verdict)
        /\ told[p] # None => told[p] = coord.verdict
        /\ OnlyEnds(inbox[p], coord.verdict)
    BY <2>2 DEF EndInv, StillServed, VerdictUnderWay, OtherEndsAreNot
  <2> QED BY <2>2, <2>3, <2>4, <2>5, <2>6, <2>7, HandlerEndFrame
<1>2. CASE ClientLeaves(p)
  <2>1. /\ connected' \subseteq connected
        /\ UNCHANGED <<gameVars, linkVars, coord, inbox, outbox, handler,
                       runVars, told>>
    BY <1>2 DEF ClientLeaves
  <2>2. StillServed' /\ OtherEndsAreNot' /\ VerdictUnderWay' /\ DepartedLeft'
    BY <2>1 DEF EndInv, StillServed, OtherEndsAreNot, VerdictUnderWay, DepartedLeft,
       runVars
  <2>3. WinnerIsForwarded' /\ UnseenEnd'
    BY <2>1 DEF EndInv, WinnerIsForwarded, UnseenEnd, gameVars, linkVars, runVars
  <2> QED BY <2>2, <2>3 DEF EndInv
<1> QED BY <1>1, <1>2 DEF ClientAnswers, ClientStrays

\* The runner announces what it saw, and some time later aborts the tasks.
LEMMA RunnerKeepsEnd ==
    ASSUME RelayInv, EndInv, RunnerSeesEnd \/ RunnerStops
    PROVE  EndInv'
<1> USE DEF EndInv
<1>1. CASE RunnerSeesEnd
  <2>1. /\ runner = "watching" /\ runner' = "ending"
        /\ endInfo' = "winner" => game.at = "won"
        /\ UNCHANGED <<gameVars, linkVars, coord, inbox, outbox, handler,
                       clientVars>>
    BY <1>1 DEF RunnerSeesEnd
  <2>2. StillServed' /\ OtherEndsAreNot' /\ VerdictUnderWay' /\ DepartedLeft'
    BY <2>1 DEF StillServed, OtherEndsAreNot, VerdictUnderWay, DepartedLeft, clientVars
  <2>3. WinnerIsForwarded' /\ UnseenEnd'
    BY <2>1 DEF WinnerIsForwarded, UnseenEnd, gameVars
  <2> QED BY <2>2, <2>3
<1>2. CASE RunnerStops
  <2>1. /\ runner' = "stopped" /\ endInfo' = endInfo
        /\ coord'.at = "ended" /\ coord'.verdict = coord.verdict
        /\ UNCHANGED <<gameVars, linkVars, inbox, outbox, clientVars>>
    BY <1>2 DEF RunnerStops, RelayInv, TypeOK, CoordinatorTypes
  <2>2. coord.at # "ended" => coord.verdict = None
    BY DEF StillServed
  <2>3. VerdictUnderWay'
    BY <2>1, <2>2 DEF VerdictUnderWay, clientVars
  <2>4. StillServed' /\ OtherEndsAreNot' /\ DepartedLeft' /\ UnseenEnd'
    BY <2>1 DEF StillServed, OtherEndsAreNot, DepartedLeft, UnseenEnd, clientVars
  <2>5. WinnerIsForwarded'
    BY <2>1, <2>2 DEF WinnerIsForwarded, gameVars
  <2> QED BY <2>3, <2>4, <2>5
<1> QED BY <1>1, <1>2

\* Clients hear of the coordinator's verdict and of no other end; whoever is
\* still there when it is reached has heard it or will, unless the tasks are
\* aborted first; and a won game gets the winner for its verdict, or the abort.
THEOREM EndIsTold == Spec => []EndReachesClients
<1>1. Init => EndInv
  <2> SUFFICES ASSUME Init PROVE EndInv
    OBVIOUS
  <2> USE RelayAssumption DEF Init
  <2>1. StillServed
    BY DEF StillServed, NoEnd
  <2>2. VerdictUnderWay /\ OtherEndsAreNot /\ DepartedLeft
    BY DEF VerdictUnderWay, OtherEndsAreNot, OnlyEnds, DepartedLeft
  <2>3. WinnerIsForwarded /\ UnseenEnd
    BY DEF WinnerIsForwarded, UnseenEnd
  <2> QED BY <2>1, <2>2, <2>3 DEF EndInv
<1>2. RelayInv /\ EndInv /\ [Next]_vars => EndInv'
  <2> SUFFICES ASSUME RelayInv, EndInv, [Next]_vars PROVE EndInv'
    OBVIOUS
  <2>1. CASE UNCHANGED vars
    <3>1. UNCHANGED <<gameVars, linkVars, coord, inbox, outbox, handler,
                      runVars, clientVars>>
      BY <2>1 DEF vars
    <3>2. StillServed' /\ OtherEndsAreNot' /\ VerdictUnderWay' /\ DepartedLeft'
      BY <3>1 DEF EndInv, StillServed, OtherEndsAreNot, VerdictUnderWay,
         DepartedLeft, runVars, clientVars
    <3>3. WinnerIsForwarded' /\ UnseenEnd'
      BY <3>1 DEF EndInv, WinnerIsForwarded, UnseenEnd, gameVars, linkVars,
         runVars
    <3> QED BY <3>2, <3>3 DEF EndInv
  <2>2. CASE GameStep
    BY <2>2, GameKeepsEnd
  <2>3. CASE CoordinatorStep
    BY <2>3, ForwardKeepsEnd, CoordinatorKeepsEnd DEF CoordinatorStep
  <2>4. CASE RunnerStep
    BY <2>4, RunnerKeepsEnd DEF RunnerStep
  <2>5. ASSUME NEW p \in Players, HandlerStep(p) PROVE EndInv'
    BY <2>5, HandleMessageKeepsEnd, HandlerEndsKeepsEnd DEF HandlerStep
  <2>6. ASSUME NEW p \in Players, ClientStep(p) PROVE EndInv'
    BY <2>6, ClientKeepsEnd DEF ClientStep
  <2> QED BY <2>1, <2>2, <2>3, <2>4, <2>5, <2>6 DEF Next
<1>3. RelayInv /\ EndInv => EndReachesClients
  <2> SUFFICES ASSUME RelayInv, EndInv PROVE EndReachesClients
    OBVIOUS
  <2>1. OneVerdict
    BY DEF EndInv, OtherEndsAreNot, OneVerdict
  <2>2. VerdictIsUnderWay
    BY DEF EndInv, StillServed, VerdictUnderWay, Announces, IsEnd, VerdictIsUnderWay
  <2>3. WinnerIsAnnounced
    <3>1. coord.at \in {"select", "await", "accept", "inform", "ended"}
      BY DEF RelayInv, TypeOK, CoordinatorTypes
    <3>2. game.at = "won" => coord.at # "await"
      BY DEF RelayInv, CoordinatorInv, IsNextOf
    <3> QED BY <3>1, <3>2 DEF EndInv, StillServed, WinnerIsForwarded, WinnerIsAnnounced
  <2> QED BY <2>1, <2>2, <2>3 DEF EndReachesClients
<1> QED BY <1>1, <1>2, <1>3, RelayInvariant, PTL DEF Spec
-----------------------------------------------------------------------------
(* What the clients know.                                                  *)

\* The place from which on p's client has been told nothing yet.
Base(p) == IF question[p] = None THEN 0 ELSE question[p].ac + 1

\* The client of p has the question at which the game stands, or has had its
\* last one answered and logged.
IsOpen(p) ==
    /\ question[p] # None
    /\ game.at # "playing" /\ game.player = p
    /\ question[p].ac = Len(log) /\ question[p].search = game.search
IsClosed(p) ==
    question[p] # None =>
        /\ question[p].ac < Len(log)
        /\ IsChoiceOf(log[question[p].ac + 1], p)
        /\ log[question[p].ac + 1].search = question[p].search

\* The place of a client that answers only what it is asked follows the log.
PlaceOf(p) ==
    /\ handler[p].early = None
    /\ IsOpen(p) \/ IsClosed(p)
    /\ \A i \in Base(p) + 1..Len(log) : ~IsChoiceOf(log[i], p)
    /\ request[p] # None => IsClosed(p)
    /\ coord.at = "await" /\ coord.player = p =>
         IF NoQuestion(inbox[p]) THEN IsOpen(p) ELSE IsClosed(p)
    /\ response[p] # None => IsOpen(p)
    /\ revealed[p] <= Base(p) \/ (game.at # "playing" /\ game.player = p)

\* The reveals p has not been told of, as a request for p's choice has them.
RevealsFor(p) ==
    {Fact(i - 1, "reveal") : i \in {j \in Base(p) + 1..Len(log) :
        log[j].kind = "reveal" /\ log[j].to \in {p, Nobody}}}

\* A request asks what the game waits for, and carries what p was not told of.
RequestsTell ==
    /\ game.at = "waiting" => pending = <<>>
    /\ \A p \in Players : request[p] # None =>
         /\ request[p].search = game.search
         /\ p \notin strays => ToSet(request[p].reveals) = RevealsFor(p)
    /\ coord.at = "await" =>
         /\ coord.request.search = game.search
         /\ coord.player \notin strays /\ ~NoQuestion(inbox[coord.player]) =>
              ToSet(coord.request.reveals) = RevealsFor(coord.player)

\* Facts in a queue to a handler; none follows a question.
IsFactIn(f, m) ==
    \/ m.type = "public" /\ m.fact = f
    \/ m.type = "opponent" /\ f \in ToSet(m.facts)
FactsOf(s) == {f \in Facts : \E i \in DOMAIN s : IsFactIn(f, s[i])}
QuestionsLast(s) ==
    \A i, j \in DOMAIN s :
        s[i].type = "request" /\ s[j].type \in {"public", "opponent"} => j < i

\* Facts that p's handler has, public ones that are on their way to both, and
\* those of an answer that the coordinator has still to tell p of.
Gathered(p) == ToSet(handler[p].facts) \union FactsOf(inbox[p])
Travelling ==
    ToSet(pending) \union
    {f \in Facts : \E q \in Players : request[q] # None /\ f \in ToSet(request[q].public)}

Held(p) == IF coord.at \in {"accept", "inform"} /\ coord.player # p
           THEN ToSet(coord.facts) ELSE {}

\* What the other player's answer will leave, when it is accepted but not logged.
JustAnswered(p) ==
    {f \in Facts : \E q \in Players :
        /\ q # p /\ response[q] # None
        /\ f \in ToSet(OpponentFacts([ac |-> Len(log), search |-> game.search], response[q]))}

\* What p's client must be told next, but for reveals.
Owed(p) ==
    LET choices == {i \in Base(p) + 1..Len(log) : log[i].kind = "choice" /\ log[i].by # p} IN
    {f \in public : f.ac >= Base(p)}
    \union {Fact(i - 1, "choice") : i \in choices}
    \union {Fact(i - 1, "searched") : i \in {j \in choices : log[j].found}}
    \union JustAnswered(p)

\* It is gathered in p's handler or on its way to it, and nothing else is.
OwedIsGathered ==
    \A p \in Players \ strays :
        handler[p].alive /\ coord.at # "ended" /\ game.at \in {"playing", "waiting"} =>
            (Gathered(p) \union Held(p)) \union Travelling = Owed(p)

\* A client's buffers hold what it must know, in order.
Sorted(s) == \A i, j \in DOMAIN s : i < j => s[i].ac <= s[j].ac
KnownFits(p) ==
    IF question[p] = None THEN known[p] = <<>>
    ELSE /\ ToSet(known[p]) = FactsFor(p, question[p].ac, question[p].search)
         /\ Sorted(known[p])

\* The invariant of what the clients know.
ToldInv ==
    /\ \A p \in Players : revealed[p] <= Len(log) /\ QuestionsLast(inbox[p])
    /\ \A f \in public : f.ac <= Len(log) /\ f.kind \in {"reorder", "dig"}
    /\ \A p \in Players \ strays : PlaceOf(p) /\ KnownFits(p)
    /\ RequestsTell /\ OwedIsGathered

-----------------------------------------------------------------------------
(* Queues and sets of facts.                                               *)

\* The set of a list of facts, extended.
LEMMA ToSetJoin ==
    ASSUME NEW s \in Seq(Facts)
    PROVE  /\ ToSet(s) \subseteq Facts /\ ToSet(<<>>) = {}
           /\ \A f \in Facts : ToSet(Append(s, f)) = ToSet(s) \union {f}
           /\ \A t \in Seq(Facts) : ToSet(s \o t) = ToSet(s) \union ToSet(t)
<1>1. ToSet(s) \subseteq Facts /\ ToSet(<<>>) = {}
  BY DEF ToSet
<1>2. ASSUME NEW f \in Facts PROVE ToSet(Append(s, f)) = ToSet(s) \union {f}
  <2>1. /\ DOMAIN Append(s, f) = 1..Len(s) + 1 /\ Append(s, f)[Len(s) + 1] = f
        /\ \A i \in 1..Len(s) : Append(s, f)[i] = s[i]
        /\ Len(s) \in Nat /\ DOMAIN s = 1..Len(s)
    BY AppendProperties
  <2>2. \A i \in 1..Len(s) + 1 : i \in 1..Len(s) \/ i = Len(s) + 1
    BY <2>1
  <2>3. 1..Len(s) \subseteq 1..Len(s) + 1 /\ Len(s) + 1 \in 1..Len(s) + 1
    BY <2>1
  <2> QED BY <2>1, <2>2, <2>3 DEF ToSet
<1>3. ASSUME NEW t \in Seq(Facts) PROVE ToSet(s \o t) = ToSet(s) \union ToSet(t)
  <2>1. /\ DOMAIN (s \o t) = 1..Len(s) + Len(t) /\ DOMAIN s = 1..Len(s) /\ DOMAIN t = 1..Len(t)
        /\ \A i \in 1..Len(s) + Len(t) :
             (s \o t)[i] = IF i <= Len(s) THEN s[i] ELSE t[i - Len(s)]
        /\ Len(s) \in Nat /\ Len(t) \in Nat
    BY ConcatProperties
  <2> DEFINE w == s \o t
  <2>2. \A i \in DOMAIN w : \/ i \in DOMAIN s /\ w[i] = s[i]
                            \/ i - Len(s) \in DOMAIN t /\ w[i] = t[i - Len(s)]
    BY <2>1
  <2>3. /\ \A i \in DOMAIN s : i \in DOMAIN w /\ w[i] = s[i]
        /\ \A i \in DOMAIN t : i + Len(s) \in DOMAIN w /\ w[i + Len(s)] = t[i]
    BY <2>1
  <2> HIDE DEF w
  <2>4. ToSet(w) = ToSet(s) \union ToSet(t)
    BY <2>2, <2>3 DEF ToSet
  <2> QED BY <2>4 DEF w
<1> QED BY <1>1, <1>2, <1>3

\* Two queues joined hold the facts of both.
LEMMA FactsJoin ==
    ASSUME NEW s \in Seq(Messages), NEW t \in Seq(Messages)
    PROVE  /\ FactsOf(s \o t) = FactsOf(s) \union FactsOf(t)
           /\ NoQuestion(s) /\ NoQuestion(t) => QuestionsLast(s \o t)
<1>1. /\ DOMAIN (s \o t) = 1..Len(s) + Len(t) /\ DOMAIN s = 1..Len(s) /\ DOMAIN t = 1..Len(t)
      /\ \A i \in 1..Len(s) + Len(t) :
           (s \o t)[i] = IF i <= Len(s) THEN s[i] ELSE t[i - Len(s)]
      /\ Len(s) \in Nat /\ Len(t) \in Nat
  BY ConcatProperties
<1> DEFINE w == s \o t
<1>2. \A i \in DOMAIN w : \/ i \in DOMAIN s /\ w[i] = s[i]
                          \/ i - Len(s) \in DOMAIN t /\ w[i] = t[i - Len(s)]
  BY <1>1
<1>3. /\ \A i \in DOMAIN s : i \in DOMAIN w /\ w[i] = s[i]
      /\ \A i \in DOMAIN t : i + Len(s) \in DOMAIN w /\ w[i + Len(s)] = t[i]
  BY <1>1
<1> HIDE DEF w
<1>4. FactsOf(w) = FactsOf(s) \union FactsOf(t)
  BY <1>2, <1>3 DEF FactsOf
<1>5. NoQuestion(s) /\ NoQuestion(t) => QuestionsLast(w)
  BY <1>2 DEF NoQuestion, QuestionsLast
<1> QED BY <1>4, <1>5 DEF w

\* A question that is sent comes last.
LEMMA QuestionSentLast ==
    ASSUME NEW s \in Seq(Messages), NoQuestion(s), NEW m \in Messages, m.type = "request"
    PROVE  /\ QuestionsLast(Append(s, m)) /\ FactsOf(Append(s, m)) = FactsOf(s)
           /\ ~NoQuestion(Append(s, m)) /\ Append(s, m) \in Seq(Messages)
<1> DEFINE w == Append(s, m)
<1>1. /\ DOMAIN w = 1..Len(s) + 1 /\ w[Len(s) + 1] = m
      /\ \A i \in 1..Len(s) : w[i] = s[i]
      /\ Len(s) \in Nat /\ DOMAIN s = 1..Len(s) /\ w \in Seq(Messages)
  BY AppendProperties
<1> HIDE DEF w
<1>2. \A i \in DOMAIN w : i \in 1..Len(s) \/ i = Len(s) + 1
  BY <1>1
<1>3. 1..Len(s) \subseteq DOMAIN w /\ Len(s) + 1 \in DOMAIN w
  BY <1>1
<1>4. \A i \in 1..Len(s) : i < Len(s) + 1
  BY <1>1
<1>5. \A f : ~IsFactIn(f, m)
  BY DEF IsFactIn
<1>6. FactsOf(w) = FactsOf(s)
  BY <1>1, <1>2, <1>3, <1>5 DEF FactsOf
<1>7. QuestionsLast(w)
  BY <1>1, <1>2, <1>4 DEF QuestionsLast, NoQuestion
<1>8. ~NoQuestion(w)
  BY <1>1, <1>3 DEF NoQuestion
<1> QED BY <1>1, <1>6, <1>7, <1>8 DEF w

\* The first message is taken: its facts, and the rest.
LEMMA FactsTaken ==
    ASSUME NEW s \in Seq(Messages), s # <<>>
    PROVE  /\ FactsOf(s) = {f \in Facts : IsFactIn(f, Head(s))} \union FactsOf(Tail(s))
           /\ QuestionsLast(s) => QuestionsLast(Tail(s))
           /\ QuestionsLast(s) /\ Head(s).type = "request" => FactsOf(s) = {}
           /\ Head(s).type # "request" => (NoQuestion(Tail(s)) <=> NoQuestion(s))
<1> DEFINE t == Tail(s)
<1>1. /\ Head(s) = s[1] /\ 1 \in DOMAIN s
      /\ \A i \in DOMAIN t : i + 1 \in DOMAIN s /\ t[i] = s[i + 1] /\ i \in Nat
      /\ \A i \in DOMAIN s : i # 1 => i - 1 \in DOMAIN t /\ s[i] = t[i - 1]
      /\ DOMAIN s \subseteq Nat \ {0}
  BY HeadTailProperties
<1> HIDE DEF t
<1>2. FactsOf(s) = {f \in Facts : IsFactIn(f, s[1])} \union FactsOf(t)
  BY <1>1 DEF FactsOf
<1>3. QuestionsLast(s) => QuestionsLast(t)
  BY <1>1 DEF QuestionsLast
<1>4. ASSUME QuestionsLast(s), s[1].type = "request" PROVE FactsOf(s) = {}
  <2>1. \A j \in DOMAIN s : s[j].type \notin {"public", "opponent"}
    BY <1>1, <1>4 DEF QuestionsLast
  <2> QED BY <2>1 DEF FactsOf, IsFactIn
<1>5. s[1].type # "request" => (NoQuestion(t) <=> NoQuestion(s))
  BY <1>1 DEF NoQuestion
<1> QED BY <1>1, <1>2, <1>3, <1>4, <1>5 DEF t

-----------------------------------------------------------------------------
(* Steps that tell nobody anything.                                        *)

\* The types of what the clients' knowledge is about.
LEMMA TellingTypes ==
    ASSUME RelayInv
    PROVE  /\ log \in Seq(Entries) /\ Len(log) \in 0..MaxLog /\ MaxLog \in Nat
           /\ pending \in Seq(Facts) /\ public \in SUBSET Facts
           /\ game.at \in {"playing", "waiting", "won", "desync", "failed"}
           /\ game.search \in BOOLEAN
           /\ coord.at \in {"select", "await", "accept", "inform", "ended"}
           /\ \A p \in Players :
                /\ revealed[p] \in 0..MaxLog
                /\ request[p] \in Requests \union {None}
                /\ response[p] \in Answers \union {None}
                /\ inbox[p] \in Seq(Messages) /\ outbox[p] \in Seq(FromHandler)
                /\ handler[p] \in HandlerStates
                /\ question[p] \in Questions \union {None}
                /\ known[p] \in Seq(Facts)
                /\ Base(p) \in Nat /\ (question[p] # None => question[p].ac \in 0..MaxLog)
<1>1. GameTypes /\ CoordinatorTypes /\ HandlerTypes /\ ClientTypes /\ MaxLog \in Nat
  BY RelayAssumption DEF RelayInv, TypeOK
<1>2. /\ log \in Seq(Entries) /\ Len(log) \in 0..MaxLog
      /\ pending \in Seq(Facts) /\ public \in SUBSET Facts
      /\ game.at \in {"playing", "waiting", "won", "desync", "failed"}
      /\ game.search \in BOOLEAN
      /\ \A p \in Players : revealed[p] \in 0..MaxLog
  BY <1>1 DEF GameTypes
<1>3. /\ coord.at \in {"select", "await", "accept", "inform", "ended"}
      /\ \A p \in Players : /\ request[p] \in Requests \union {None}
                            /\ response[p] \in Answers \union {None}
  BY <1>1 DEF CoordinatorTypes
<1>4. \A p \in Players : question[p] \in Questions \union {None}
  BY <1>1 DEF ClientTypes, Questions
<1>5. \A p \in Players : question[p] # None => question[p].ac \in 0..MaxLog
  BY <1>4 DEF Questions
<1>6. \A p \in Players : Base(p) \in Nat
  BY <1>1, <1>5 DEF Base
<1>7. \A p \in Players : /\ inbox[p] \in Seq(Messages) /\ outbox[p] \in Seq(FromHandler)
                         /\ handler[p] \in HandlerStates
                         /\ known[p] \in Seq(Facts)
  BY HandlerState
<1> QED BY <1>1, <1>2, <1>3, <1>4, <1>5, <1>6, <1>7

\* What a client must know up to a question does not change when the log grows
\* or later facts become public.
LEMMA KnownStays ==
    ASSUME RelayInv, NEW p \in Players, KnownFits(p),
           question'[p] = question[p], known'[p] = known[p],
           question[p] # None => question[p].ac <= Len(log),
           log' = log \/ \E e \in Entries : log' = Append(log, e),
           public \subseteq public', \A f \in public' \ public : f.ac >= Base(p),
           public' \subseteq Facts
    PROVE  KnownFits(p)'
<1>1. CASE question[p] = None
  BY <1>1 DEF KnownFits
<1>2. CASE question[p] # None
  <2> DEFINE ac == question[p].ac
             search == question[p].search
  <2>1. ac \in Int /\ ac <= Len(log) /\ Len(log) \in Nat /\ Base(p) = ac + 1
    BY <1>2, TellingTypes DEF Base
  <2>2. \A i \in 1..ac : log'[i] = log[i]
    <3>1. CASE log' = log
      BY <3>1
    <3>2. ASSUME NEW e \in Entries, log' = Append(log, e) PROVE \A i \in 1..ac : log'[i] = log[i]
      <4>1. log \in Seq(Entries)
        BY TellingTypes
      <4>2. \A i \in 1..Len(log) : log'[i] = log[i]
        BY <3>2, <4>1, AppendProperties
      <4> QED BY <2>1, <4>2
    <3> QED BY <3>1, <3>2
  <2>3. {f \in public' : f.ac <= ac} = {f \in public : f.ac <= ac}
    <3>1. \A f \in public' : f.ac \in Int
      BY DEF Facts
    <3> QED BY <2>1, <3>1
  <2>4. FactsFor(p, ac, search)' = FactsFor(p, ac, search)
    <3>1. ac' = ac /\ search' = search
      OBVIOUS
    <3> HIDE DEF ac, search
    <3>2. {i \in 1..ac : log'[i].kind = "choice"} = {i \in 1..ac : log[i].kind = "choice"}
      BY <2>2
    <3>3. {j \in 1..ac : log'[j].kind = "reveal" /\ log'[j].to \in {p, Nobody}}
            = {j \in 1..ac : log[j].kind = "reveal" /\ log[j].to \in {p, Nobody}}
      BY <2>2
    <3> DEFINE choices == {i \in 1..ac : log[i].kind = "choice"}
    <3>4. /\ {j \in choices : log'[j].by # p} = {j \in choices : log[j].by # p}
          /\ {j \in choices : log'[j].by # p /\ log'[j].found}
               = {j \in choices : log[j].by # p /\ log[j].found}
          /\ {j \in choices : log'[j].by = p /\ log'[j].search}
               = {j \in choices : log[j].by = p /\ log[j].search}
      BY <2>2
    <3> QED BY <2>3, <3>1, <3>2, <3>3, <3>4 DEF FactsFor, choices
  <2> QED BY <1>2, <2>4 DEF KnownFits
<1> QED BY <1>1, <1>2

\* A step that neither asks, answers nor tells: some handlers end, an ending is
\* sent, facts move from the coordinator to a queue and from there into the
\* handler, a client strays or leaves.
LEMMA QuietKeepsTold ==
    ASSUME RelayInv, ToldInv,
           UNCHANGED <<gameVars, response, question, known>>,
           strays \subseteq strays',
           \/ UNCHANGED <<coord, request>>
           \/ UNCHANGED request /\ coord.at \notin {"await", "ended"} /\ coord'.at # "await"
           \/ /\ coord'.at = "ended"
              /\ \A q \in Players : request'[q] # None => request'[q] = request[q],
           \A q \in Players : QuestionsLast(inbox'[q]),
           \A q \in Players \ strays' : handler'[q].early = handler[q].early,
           coord'.at # "ended" =>
             \A q \in Players \ strays' :
               /\ NoQuestion(inbox'[q]) <=> NoQuestion(inbox[q])
               /\ handler'[q].alive =>
                    /\ handler[q].alive
                    /\ (Gathered(q) \union Held(q))' = Gathered(q) \union Held(q)
    PROVE  ToldInv'
<1> USE DEF gameVars
<1>1. \A q \in Players : /\ Base(q)' = Base(q) /\ RevealsFor(q)' = RevealsFor(q)
                         /\ IsOpen(q)' = IsOpen(q) /\ IsClosed(q)' = IsClosed(q)
  BY DEF Base, RevealsFor, IsOpen, IsClosed, IsChoiceOf
<1>2. \A q \in Players : q \notin strays' => q \notin strays
  OBVIOUS
<1>3. \A q \in Players : revealed'[q] <= Len(log') /\ QuestionsLast(inbox'[q])
  BY DEF ToldInv
<1>4. \A f \in public' : f.ac <= Len(log') /\ f.kind \in {"reorder", "dig"}
  BY DEF ToldInv
<1>5. ASSUME NEW p \in Players, p \notin strays' PROVE PlaceOf(p)'
  <2>1. PlaceOf(p)
    BY <1>2, <1>5 DEF ToldInv
  <2>2. handler'[p].early = None
    BY <1>5, <2>1 DEF PlaceOf
  <2>3. \A i \in Base(p)' + 1..Len(log') : ~IsChoiceOf(log'[i], p)
    BY <1>1, <2>1 DEF PlaceOf, IsChoiceOf
  <2>4. (request[p] # None)' => IsClosed(p)'
    BY <1>1, <2>1 DEF PlaceOf
  <2>5. (coord.at = "await" /\ coord.player = p)' =>
          IF NoQuestion(inbox'[p]) THEN IsOpen(p)' ELSE IsClosed(p)'
    <3>1. coord'.at = "await" => coord' = coord /\ (NoQuestion(inbox'[p]) <=> NoQuestion(inbox[p]))
      BY <1>5
    <3> QED BY <1>1, <2>1, <3>1 DEF PlaceOf
  <2>6. (response[p] # None)' => IsOpen(p)'
    BY <1>1, <2>1 DEF PlaceOf
  <2>7. (revealed[p] <= Base(p) \/ (game.at # "playing" /\ game.player = p))'
    BY <1>1, <2>1 DEF PlaceOf
  <2>8. IsOpen(p)' \/ IsClosed(p)'
    BY <1>1, <2>1 DEF PlaceOf
  <2> QED BY <2>2, <2>3, <2>4, <2>5, <2>6, <2>7, <2>8 DEF PlaceOf
<1>6. ASSUME NEW p \in Players, p \notin strays' PROVE KnownFits(p)'
  <2>1. KnownFits(p)
    BY <1>2, <1>6 DEF ToldInv
  <2> QED BY <2>1 DEF KnownFits, FactsFor
<1>7. RequestsTell'
  <2>1. RequestsTell
    BY DEF ToldInv
  <2>2. (game.at = "waiting" => pending = <<>>)'
    BY <2>1 DEF RequestsTell
  <2>3. ASSUME NEW p \in Players, request'[p] # None
        PROVE  /\ request'[p].search = game'.search
               /\ p \notin strays' => ToSet(request'[p].reveals) = RevealsFor(p)'
    <3>1. request'[p] = request[p]
      BY <2>3
    <3> QED BY <1>1, <1>2, <2>1, <2>3, <3>1 DEF RequestsTell
  <2>4. ASSUME coord'.at = "await"
        PROVE  /\ coord'.request.search = game'.search
               /\ coord'.player \notin strays' /\ ~NoQuestion(inbox'[coord'.player]) =>
                    ToSet(coord'.request.reveals) = RevealsFor(coord.player)'
    <3>1. coord' = coord /\ coord.at = "await"
      <4>1. coord'.at # "ended"
        BY <2>4
      <4> QED BY <2>4, <4>1
    <3>2. PICK c \in Players : c = coord.player
      BY <3>1 DEF RelayInv, CoordinatorInv
    <3>3. c \notin strays' => (NoQuestion(inbox'[c]) <=> NoQuestion(inbox[c]))
      <4>1. coord'.at # "ended"
        BY <2>4
      <4> QED BY <4>1
    <3>4. RevealsFor(c)' = RevealsFor(c)
      BY <1>1
    <3>5. RevealsFor(coord.player)' = RevealsFor(c)' /\ RevealsFor(coord.player) = RevealsFor(c)
      BY <3>1, <3>2
    <3> QED BY <2>1, <3>1, <3>2, <3>3, <3>4, <3>5 DEF RequestsTell
  <2> QED BY <2>2, <2>3, <2>4 DEF RequestsTell
<1>8. OwedIsGathered'
  <2> SUFFICES ASSUME NEW p \in Players, p \notin strays', handler'[p].alive,
                      coord'.at # "ended", game'.at \in {"playing", "waiting"}
               PROVE  (Gathered(p) \union Held(p))' \union Travelling' = Owed(p)'
    BY DEF OwedIsGathered
  <2>1. /\ handler[p].alive /\ p \notin strays /\ request' = request
        /\ (Gathered(p) \union Held(p))' = Gathered(p) \union Held(p)
        /\ coord.at # "ended"
    OBVIOUS
  <2>2. (Gathered(p) \union Held(p)) \union Travelling = Owed(p)
    BY <2>1 DEF ToldInv, OwedIsGathered
  <2>3. Travelling' = Travelling
    BY <2>1 DEF Travelling
  <2>4. Owed(p)' = Owed(p)
    BY <1>1 DEF Owed, JustAnswered, OpponentFacts
  <2> QED BY <2>1, <2>2, <2>3, <2>4
<1> QED BY <1>3, <1>4, <1>5, <1>6, <1>7, <1>8 DEF ToldInv

-----------------------------------------------------------------------------
(* What the clients know: the game thread.                                 *)

\* While the game plays, every client had its last question answered.
LEMMA AllClosed ==
    ASSUME RelayInv, ToldInv, game.at = "playing"
    PROVE  /\ coord.at # "await"
           /\ \A p \in Players : request[p] = None /\ response[p] = None
           /\ \A p \in Players \ strays :
                /\ handler[p].early = None /\ IsClosed(p) /\ revealed[p] <= Base(p)
                /\ Base(p) <= Len(log) /\ JustAnswered(p) = {}
                /\ \A i \in Base(p) + 1..Len(log) : ~IsChoiceOf(log[i], p)
                /\ KnownFits(p)
<1>1. /\ coord.at # "await"
      /\ \A p \in Players : request[p] = None /\ response[p] = None
  BY NobodyAsked
<1>2. ASSUME NEW p \in Players \ strays
      PROVE  /\ handler[p].early = None /\ IsClosed(p) /\ revealed[p] <= Base(p)
             /\ \A i \in Base(p) + 1..Len(log) : ~IsChoiceOf(log[i], p)
             /\ KnownFits(p)
  BY DEF ToldInv, PlaceOf, IsOpen
<1>3. ASSUME NEW p \in Players \ strays PROVE Base(p) <= Len(log) /\ JustAnswered(p) = {}
  <2>1. Len(log) \in Nat /\ (question[p] # None => question[p].ac \in Nat)
    BY TellingTypes
  <2>2. Base(p) <= Len(log)
    BY <1>2, <2>1 DEF IsClosed, Base
  <2> QED BY <1>1, <2>2 DEF JustAnswered
<1> QED BY <1>1, <1>2, <1>3

\* What happens between two choices is owed to who must know of it.
LEMMA DeedKeepsTold ==
    ASSUME RelayInv, ToldInv, game.at = "playing", Len(log) < MaxLog,
           NEW e \in Entries, e.kind # "choice", log' = Append(log, e),
           NEW N \in SUBSET Facts, public' = public \union N,
           ToSet(pending') = ToSet(pending) \union N,
           \A f \in N : f.ac \in {Len(log), Len(log) + 1} /\ f.kind \in {"reorder", "dig"},
           UNCHANGED <<game, seq, revealed, linkVars, coord, inbox, outbox,
                       handler, runVars, clientVars>>
    PROVE  ToldInv'
<1> USE DEF linkVars, runVars, clientVars
<1>1. /\ log \in Seq(Entries) /\ Len(log) \in Nat /\ Len(log') = Len(log) + 1
      /\ log'[Len(log) + 1] = e /\ \A i \in 1..Len(log) : log'[i] = log[i]
      /\ \A p \in Players : revealed[p] \in Nat /\ Base(p) \in Nat
      /\ \A f \in Facts : f.ac \in Int
  BY TellingTypes, AppendProperties DEF Facts
<1>2. /\ coord.at # "await"
      /\ \A p \in Players : request[p] = None /\ response[p] = None
      /\ \A p \in Players \ strays :
           /\ handler[p].early = None /\ IsClosed(p) /\ revealed[p] <= Base(p)
           /\ Base(p) <= Len(log) /\ JustAnswered(p) = {}
           /\ \A i \in Base(p) + 1..Len(log) : ~IsChoiceOf(log[i], p)
           /\ KnownFits(p)
  BY AllClosed
<1>3. \A p \in Players : revealed'[p] <= Len(log') /\ QuestionsLast(inbox'[p])
  BY <1>1 DEF ToldInv
<1>4. \A f \in public' : f.ac <= Len(log') /\ f.kind \in {"reorder", "dig"}
  <2>1. ASSUME NEW f \in public PROVE f.ac <= Len(log') /\ f.kind \in {"reorder", "dig"}
    <3>1. f.ac \in Int /\ f.ac <= Len(log) /\ f.kind \in {"reorder", "dig"}
      BY <1>1, TellingTypes DEF ToldInv
    <3> QED BY <1>1, <3>1
  <2>2. ASSUME NEW f \in N PROVE f.ac <= Len(log') /\ f.kind \in {"reorder", "dig"}
    BY <1>1
  <2> QED BY <2>1, <2>2
<1>5. ASSUME NEW p \in Players \ strays PROVE PlaceOf(p)'
  <2>1. IsClosed(p)'
    <3>1. question[p] # None => question[p].ac + 1 \in 1..Len(log)
      <4>1. question[p] # None => question[p].ac \in Nat /\ question[p].ac < Len(log)
        BY <1>2, TellingTypes DEF IsClosed
      <4> QED BY <1>1, <4>1
    <3>2. question[p] # None => question[p].ac < Len(log')
      BY <1>1, <1>2, TellingTypes DEF IsClosed
    <3> QED BY <1>1, <1>2, <3>1, <3>2 DEF IsClosed, IsChoiceOf
  <2>2. Base(p)' = Base(p)
    BY DEF Base
  <2>3. ASSUME NEW i \in Base(p) + 1..Len(log') PROVE ~IsChoiceOf(log'[i], p)
    <3>1. CASE i = Len(log) + 1
      BY <1>1, <3>1 DEF IsChoiceOf
    <3>2. CASE i # Len(log) + 1
      <4>1. i \in Base(p) + 1..Len(log) /\ i \in 1..Len(log)
        BY <1>1, <3>2
      <4> QED BY <1>1, <1>2, <4>1 DEF IsChoiceOf
    <3> QED BY <3>1, <3>2
  <2> QED BY <1>2, <2>1, <2>2, <2>3 DEF PlaceOf
<1>6. ASSUME NEW p \in Players \ strays PROVE KnownFits(p)'
  <2>1. question[p] # None => question[p].ac <= Len(log)
    BY <1>1, <1>2, TellingTypes DEF IsClosed
  <2>2. public \subseteq public' /\ public' \subseteq Facts
    BY TellingTypes
  <2>3. \A f \in public' \ public : f.ac >= Base(p)
    BY <1>1, <1>2
  <2>4. question'[p] = question[p] /\ known'[p] = known[p]
    OBVIOUS
  <2> QED BY <1>2, <2>1, <2>2, <2>3, <2>4, KnownStays
<1>7. RequestsTell'
  BY <1>2 DEF RequestsTell
<1>8. OwedIsGathered'
  <2> SUFFICES ASSUME NEW p \in Players \ strays, handler[p].alive, coord.at # "ended"
               PROVE  (Gathered(p) \union Held(p))' \union Travelling' = Owed(p)'
    BY DEF OwedIsGathered
  <2>1. (Gathered(p) \union Held(p)) \union Travelling = Owed(p)
    BY DEF ToldInv, OwedIsGathered
  <2>2. (Gathered(p) \union Held(p))' = Gathered(p) \union Held(p)
    BY DEF Gathered, Held
  <2>3. Travelling' = Travelling \union N
    BY <1>2 DEF Travelling
  <2>4. Base(p)' = Base(p)
    BY DEF Base
  <2>5. JustAnswered(p)' = {} /\ JustAnswered(p) = {}
    BY <1>2 DEF JustAnswered
  <2> DEFINE choices == {i \in Base(p) + 1..Len(log) : log[i].kind = "choice" /\ log[i].by # p}
  <2>6. {i \in Base(p) + 1..Len(log') : log'[i].kind = "choice" /\ log'[i].by # p} = choices
    <3>1. \A i \in Base(p) + 1..Len(log') :
            \/ i \in Base(p) + 1..Len(log) /\ log'[i] = log[i]
            \/ i = Len(log) + 1 /\ log'[i].kind # "choice"
      BY <1>1
    <3>2. Base(p) + 1..Len(log) \subseteq Base(p) + 1..Len(log') /\ Len(log) + 1 \notin Base(p) + 1..Len(log)
      BY <1>1
    <3>3. \A i \in Base(p) + 1..Len(log) : log'[i] = log[i]
      BY <1>1
    <3> QED BY <3>1, <3>2, <3>3
  <2>7. \A i \in choices : log'[i] = log[i]
    BY <1>1
  <2>8. {f \in public' : f.ac >= Base(p)} = {f \in public : f.ac >= Base(p)} \union N
    <3>1. \A f \in N : f.ac >= Base(p)
      BY <1>1, <1>2
    <3> QED BY <3>1
  <2>9. Owed(p) = {f \in public : f.ac >= Base(p)} \union {Fact(i - 1, "choice") : i \in choices}
                  \union {Fact(i - 1, "searched") : i \in {j \in choices : log[j].found}}
    BY <2>5 DEF Owed
  <2>10. Owed(p)' = {f \in public' : f.ac >= Base(p)} \union {Fact(i - 1, "choice") : i \in choices}
                    \union {Fact(i - 1, "searched") : i \in {j \in choices : log'[j].found}}
    BY <2>4, <2>5, <2>6 DEF Owed
  <2>11. {j \in choices : log'[j].found} = {j \in choices : log[j].found}
    BY <2>7
  <2> HIDE DEF choices
  <2> QED BY <2>1, <2>2, <2>3, <2>8, <2>9, <2>10, <2>11
<1> QED BY <1>3, <1>4, <1>5, <1>6, <1>7, <1>8 DEF ToldInv

\* Deeds, digs and reorders.
LEMMA GameActsKeepsTold ==
    ASSUME RelayInv, ToldInv,
           \/ \E to \in Players \union {Nobody} :
                 \/ GameActs([kind |-> "reveal", to |-> to])
                 \/ GameDigs([kind |-> "reveal", to |-> to])
           \/ GameActs([kind |-> "other"])
           \/ GameDigs([kind |-> "other"])
           \/ GameReorders
    PROVE  ToldInv'
<1>1. \A to \in Players \union {Nobody} :
         LET e == [kind |-> "reveal", to |-> to]
         IN  e \in Entries /\ e.kind # "choice"
  <2>1. \A to \in Players \union {Nobody} : [kind |-> "reveal", to |-> to] \in Entries
    BY DEF Entries
  <2> QED BY <2>1
<1>2. LET e == [kind |-> "other"] IN e \in Entries /\ e.kind # "choice"
  BY DEF Entries
<1>3. pending \in Seq(Facts) /\ public \in SUBSET Facts /\ Len(log) \in Nat /\ MaxLog \in Nat
  BY TellingTypes
<1>4. ASSUME NEW e \in Entries, e.kind # "choice", GameActs(e)
      PROVE  ToldInv'
  <2> DEFINE N == {}
  <2>1. /\ public' = public \union N /\ ToSet(pending') = ToSet(pending) \union N
        /\ N \in SUBSET Facts
        /\ \A f \in N : f.ac \in {Len(log), Len(log) + 1} /\ f.kind \in {"reorder", "dig"}
    BY <1>4 DEF GameActs
  <2> HIDE DEF N
  <2> QED BY <1>4, <2>1, DeedKeepsTold DEF GameActs
<1>5. ASSUME NEW f \in Facts, f.ac \in {Len(log), Len(log) + 1}, f.kind \in {"reorder", "dig"},
             pending' = Append(pending, f), public' = public \union {f}
      PROVE  \E N \in SUBSET Facts :
                /\ public' = public \union N /\ ToSet(pending') = ToSet(pending) \union N
                /\ \A g \in N : g.ac \in {Len(log), Len(log) + 1} /\ g.kind \in {"reorder", "dig"}
  <2>1. ToSet(pending') = ToSet(pending) \union {f}
    BY <1>3, <1>5, ToSetJoin
  <2>2. {f} \in SUBSET Facts /\ \A g \in {f} : g.ac \in {Len(log), Len(log) + 1} /\ g.kind \in {"reorder", "dig"}
    BY <1>5
  <2> QED BY <1>5, <2>1, <2>2
<1>6. ASSUME NEW e \in Entries, e.kind # "choice", GameDigs(e)
      PROVE  ToldInv'
  <2>1. Fact(Len(log), "dig") \in Facts
    BY <1>3, <1>6, KindsOfFacts DEF GameDigs
  <2>2. Fact(Len(log), "dig").ac = Len(log) /\ Fact(Len(log), "dig").kind = "dig"
    BY DEF Fact
  <2>3. PICK N \in SUBSET Facts :
          /\ public' = public \union N /\ ToSet(pending') = ToSet(pending) \union N
          /\ \A g \in N : g.ac \in {Len(log), Len(log) + 1} /\ g.kind \in {"reorder", "dig"}
    BY <1>5, <1>6, <2>1, <2>2 DEF GameDigs
  <2> QED BY <1>6, <2>3, DeedKeepsTold DEF GameDigs
<1>7. CASE GameReorders
  <2> DEFINE e == [kind |-> "other"]
  <2>1. Fact(Len(log) + 1, "reorder") \in Facts
    BY <1>3, <1>7, KindsOfFacts DEF GameReorders
  <2>2. Fact(Len(log) + 1, "reorder").ac = Len(log) + 1 /\ Fact(Len(log) + 1, "reorder").kind = "reorder"
    BY DEF Fact
  <2>3. PICK N \in SUBSET Facts :
          /\ public' = public \union N /\ ToSet(pending') = ToSet(pending) \union N
          /\ \A g \in N : g.ac \in {Len(log), Len(log) + 1} /\ g.kind \in {"reorder", "dig"}
    BY <1>5, <1>7, <2>1, <2>2 DEF GameReorders
  <2>4. e \in Entries /\ e.kind # "choice"
    BY <1>2
  <2>5. log' = Append(log, e)
    BY <1>7 DEF GameReorders
  <2> HIDE DEF e
  <2> QED BY <1>7, <2>3, <2>4, <2>5, DeedKeepsTold DEF GameReorders
<1> HIDE DEF GameActs, GameDigs
<1> QED BY <1>1, <1>2, <1>4, <1>6, <1>7

\* The scan back to p's last choice finds what p has not been told of.
LEMMA ScanFindsUntold ==
    ASSUME RelayInv, ToldInv, game.at = "playing", NEW p \in Players \ strays
    PROVE  /\ RevealsSinceLastChoice(p) \in Seq(Facts)
           /\ ToSet(RevealsSinceLastChoice(p)) = RevealsFor(p)
<1>1. /\ Len(log) \in Nat /\ revealed[p] \in Nat /\ Base(p) \in Nat
      /\ question[p] # None => question[p].ac \in Nat
  BY TellingTypes
<1>2. /\ IsClosed(p) /\ revealed[p] <= Base(p) /\ Base(p) <= Len(log)
      /\ \A i \in Base(p) + 1..Len(log) : ~IsChoiceOf(log[i], p)
  BY AllClosed
<1>3. Base(p) = 0 \/ (Base(p) \in 1..Len(log) /\ IsChoiceOf(log[Base(p)], p))
  <2>1. CASE question[p] = None
    BY <2>1 DEF Base
  <2>2. CASE question[p] # None
    <3>1. Base(p) = question[p].ac + 1
      BY <2>2 DEF Base
    <3>2. Base(p) \in 1..Len(log)
      BY <1>1, <1>2, <2>2, <3>1
    <3>3. IsChoiceOf(log[question[p].ac + 1], p)
      BY <1>2, <2>2 DEF IsClosed
    <3> QED BY <3>1, <3>2, <3>3
  <2> QED BY <2>1, <2>2
<1> DEFINE unseen == {i \in revealed[p] + 1..Len(log) :
                        \A j \in i..Len(log) : ~IsChoiceOf(log[j], p)}
<1>4. unseen = Base(p) + 1..Len(log)
  <2>1. ASSUME NEW i \in unseen PROVE i \in Base(p) + 1..Len(log)
    <3>1. i \in Nat /\ i >= 1 /\ i <= Len(log) /\ \A j \in i..Len(log) : ~IsChoiceOf(log[j], p)
      BY <1>1
    <3>2. Base(p) \notin i..Len(log)
      BY <1>1, <1>3, <3>1
    <3> QED BY <1>1, <1>2, <3>1, <3>2
  <2>2. ASSUME NEW i \in Base(p) + 1..Len(log) PROVE i \in unseen
    <3>1. i \in revealed[p] + 1..Len(log)
      BY <1>1, <1>2
    <3>2. \A j \in i..Len(log) : j \in Base(p) + 1..Len(log)
      BY <1>1
    <3> QED BY <1>2, <3>1, <3>2
  <2> QED BY <2>1, <2>2
<1> DEFINE seen == {i \in revealed[p] + 1..Len(log) :
                      /\ \A j \in i..Len(log) : ~IsChoiceOf(log[j], p)
                      /\ log[i].kind = "reveal" /\ log[i].to \in {p, Nobody}}
<1>5. /\ RevealsSinceLastChoice(p) \in Seq(Facts)
      /\ ToSet(RevealsSinceLastChoice(p)) = {Fact(i - 1, "reveal") : i \in seen}
  BY ScanIsOnce
<1>6. seen = {j \in unseen : log[j].kind = "reveal" /\ log[j].to \in {p, Nobody}}
  OBVIOUS
<1>7. seen = {j \in Base(p) + 1..Len(log) : log[j].kind = "reveal" /\ log[j].to \in {p, Nobody}}
  <2> HIDE DEF unseen, seen
  <2> QED BY <1>4, <1>6
<1> HIDE DEF unseen, seen
<1> QED BY <1>5, <1>7 DEF RevealsFor

\* request_choice: all that p was not told is with the request or on its way.
LEMMA AskKeepsTold ==
    ASSUME RelayInv, ToldInv, NEW p \in Players, NEW search \in BOOLEAN, Ask(p, search)
    PROVE  ToldInv'
<1> DEFINE reveals == RevealsSinceLastChoice(p)
           r == [seq |-> seq[p] + 1, ac |-> Len(log), search |-> search,
                 reveals |-> reveals, public |-> pending]
<1>1. /\ game.at = "playing" /\ Len(log) < MaxLog
      /\ game' = [at |-> "waiting", player |-> p, search |-> search]
      /\ revealed' = IF reveals # <<>> THEN [revealed EXCEPT ![p] = Len(log)]
                     ELSE revealed
      /\ request' = [request EXCEPT ![p] = r]
      /\ pending' = <<>>
      /\ UNCHANGED <<log, public, seq, response, coord, inbox, outbox, handler,
                     runVars, clientVars>>
  BY DEF Ask
<1>2. /\ coord.at # "await"
      /\ \A q \in Players : request[q] = None /\ response[q] = None
      /\ \A q \in Players \ strays :
           /\ handler[q].early = None /\ IsClosed(q) /\ revealed[q] <= Base(q)
           /\ Base(q) <= Len(log) /\ JustAnswered(q) = {}
           /\ \A i \in Base(q) + 1..Len(log) : ~IsChoiceOf(log[i], q)
           /\ KnownFits(q)
  BY <1>1, AllClosed
<1>3. /\ reveals \in Seq(Facts)
      /\ p \notin strays => ToSet(reveals) = RevealsFor(p)
  BY <1>1, ScanFindsUntold, ScanIsOnce
<1> HIDE DEF reveals
<1>4. r.search = search /\ r.reveals = reveals /\ r.public = pending
  OBVIOUS
<1>13. r \in Requests
  <2>1. seq[p] \in Nat /\ Len(log) \in 0..MaxLog /\ pending \in Seq(Facts)
    BY TellingTypes DEF RelayInv, TypeOK, GameTypes
  <2> QED BY <1>3, <2>1 DEF Requests
<1> HIDE DEF r
<1>5. /\ \A q \in Players : q # p => request'[q] = None /\ revealed'[q] = revealed[q]
      /\ request'[p] = r /\ revealed'[p] \in {Len(log), revealed[p]}
  BY <1>1, <1>2 DEF RelayInv, TypeOK, GameTypes, CoordinatorTypes
<1>6. \A q \in Players : /\ Base(q)' = Base(q) /\ RevealsFor(q)' = RevealsFor(q)
                         /\ IsClosed(q)' = IsClosed(q)
  BY <1>1 DEF Base, RevealsFor, IsClosed, IsChoiceOf, clientVars
<1>7. \A q \in Players : revealed'[q] <= Len(log') /\ QuestionsLast(inbox'[q])
  <2>1. Len(log) \in Nat
    BY TellingTypes
  <2> QED BY <1>1, <1>5, <2>1 DEF ToldInv
<1>8. \A f \in public' : f.ac <= Len(log') /\ f.kind \in {"reorder", "dig"}
  BY <1>1 DEF ToldInv
<1>9. ASSUME NEW q \in Players \ strays PROVE PlaceOf(q)' /\ KnownFits(q)'
  <2>1. (revealed[q] <= Base(q) \/ (game.at # "playing" /\ game.player = q))'
    BY <1>1, <1>2, <1>5, <1>6
  <2>2. PlaceOf(q)'
    <3>1. IsClosed(q)' /\ (handler[q].early = None)' /\ Base(q)' = Base(q)
      BY <1>1, <1>2, <1>6
    <3>2. \A i \in Base(q)' + 1..Len(log') : ~IsChoiceOf(log'[i], q)
      BY <1>1, <1>2, <3>1 DEF IsChoiceOf
    <3>3. (coord.at # "await")' /\ (response[q] = None)'
      BY <1>1, <1>2
    <3> QED BY <2>1, <3>1, <3>2, <3>3 DEF PlaceOf
  <2>3. KnownFits(q)'
    <3>1. question'[q] = question[q] /\ known'[q] = known[q]
      BY <1>1 DEF clientVars
    <3>2. question[q] # None => question[q].ac <= Len(log)
      BY <1>2, TellingTypes DEF IsClosed
    <3>3. public' = public /\ log' = log /\ public \in SUBSET Facts
      BY <1>1, TellingTypes
    <3>4. KnownFits(q)
      BY <1>2
    <3> QED BY <3>1, <3>2, <3>3, <3>4, KnownStays
  <2> QED BY <2>2, <2>3
<1>10. RequestsTell'
  BY <1>1, <1>2, <1>3, <1>4, <1>5, <1>6 DEF RequestsTell, clientVars
<1>11. OwedIsGathered'
  <2> SUFFICES ASSUME NEW q \in Players \ strays, handler[q].alive, coord.at # "ended"
               PROVE  (Gathered(q) \union Held(q))' \union Travelling' = Owed(q)'
    BY <1>1 DEF OwedIsGathered, clientVars
  <2>1. (Gathered(q) \union Held(q)) \union Travelling = Owed(q)
    BY <1>1 DEF ToldInv, OwedIsGathered
  <2>2. (Gathered(q) \union Held(q))' = Gathered(q) \union Held(q)
    BY <1>1 DEF Gathered, Held
  <2>3. Travelling' = Travelling
    <3>1. r # None
      BY <1>13, EmptySlotAssumption
    <3>2. ToSet(<<>>) = {} /\ ToSet(pending) \subseteq Facts
      BY ToSetJoin, TellingTypes
    <3>3. Travelling' = {f \in Facts : f \in ToSet(pending)}
      BY <1>1, <1>4, <1>5, <3>1, <3>2 DEF Travelling
    <3>4. Travelling = ToSet(pending)
      BY <1>2 DEF Travelling
    <3> QED BY <3>2, <3>3, <3>4
  <2>4. Owed(q)' = Owed(q)
    <3>1. JustAnswered(q)' = {} /\ JustAnswered(q) = {}
      BY <1>1, <1>2 DEF JustAnswered
    <3> QED BY <1>1, <1>6, <3>1 DEF Owed
  <2> QED BY <2>1, <2>2, <2>3, <2>4
<1> QED BY <1>1, <1>7, <1>8, <1>9, <1>10, <1>11 DEF ToldInv, clientVars

\* A game that stops tells nobody of it by itself.
LEMMA GameStopsKeepsTold ==
    ASSUME RelayInv, ToldInv,
           game'.at \in {"won", "desync", "failed"},
           game'.player = game.player, game'.search = game.search,
           coord.at # "await", \A q \in Players : response'[q] = None,
           UNCHANGED <<log, public, pending, revealed, request, coord, inbox,
                       handler, question, known, strays>>
    PROVE  ToldInv'
<1>1. \A q \in Players : /\ Base(q)' = Base(q) /\ RevealsFor(q)' = RevealsFor(q)
                         /\ IsClosed(q)' = IsClosed(q) /\ (IsOpen(q) => IsOpen(q)')
  BY DEF Base, RevealsFor, IsOpen, IsClosed, IsChoiceOf
<1>2. \A p \in Players : revealed'[p] <= Len(log') /\ QuestionsLast(inbox'[p])
  BY DEF ToldInv
<1>3. \A f \in public' : f.ac <= Len(log') /\ f.kind \in {"reorder", "dig"}
  BY DEF ToldInv
<1>4. ASSUME NEW p \in Players \ strays PROVE PlaceOf(p)'
  <2>1. PlaceOf(p)
    BY DEF ToldInv
  <2>2. (handler[p].early = None)' /\ (IsOpen(p)' \/ IsClosed(p)')
    BY <1>1, <2>1 DEF PlaceOf
  <2>3. \A i \in Base(p)' + 1..Len(log') : ~IsChoiceOf(log'[i], p)
    BY <1>1, <2>1 DEF PlaceOf, IsChoiceOf
  <2>4. (request[p] # None)' => IsClosed(p)'
    BY <1>1, <2>1 DEF PlaceOf
  <2>5. (coord.at # "await")' /\ (response[p] = None)'
    OBVIOUS
  <2>6. (revealed[p] <= Base(p) \/ (game.at # "playing" /\ game.player = p))'
    BY <1>1, <2>1 DEF PlaceOf
  <2> QED BY <2>2, <2>3, <2>4, <2>5, <2>6 DEF PlaceOf
<1>5. ASSUME NEW p \in Players \ strays PROVE KnownFits(p)'
  <2>1. KnownFits(p)
    BY DEF ToldInv
  <2> QED BY <2>1 DEF KnownFits, FactsFor
<1>6. RequestsTell'
  <2>1. RequestsTell
    BY DEF ToldInv
  <2> QED BY <1>1, <2>1 DEF RequestsTell
<1>7. OwedIsGathered'
  BY DEF OwedIsGathered
<1> QED BY <1>2, <1>3, <1>4, <1>5, <1>6, <1>7 DEF ToldInv

\* The end of the game thread.
LEMMA GameEndsKeepsTold ==
    ASSUME RelayInv, ToldInv, AnswerChannelCloses \/ GameIsWon
    PROVE  ToldInv'
<1>1. /\ UNCHANGED <<log, public, pending, revealed, linkVars, coord, inbox, handler, clientVars>>
      /\ \/ game' = [game EXCEPT !.at = "won"]
            /\ coord.at # "await"
            /\ \A p \in Players : response[p] = None
         \/ game' = [game EXCEPT !.at = "failed"] /\ coord.at = "ended"
            /\ \A p \in Players : response[p] = None
  <2>1. CASE GameIsWon
    BY <2>1, NobodyAsked DEF GameIsWon
  <2>2. CASE AnswerChannelCloses
    BY <2>2 DEF AnswerChannelCloses, RelayInv, GameInv
  <2> QED BY <2>1, <2>2
<1>2. /\ game'.at \in {"won", "desync", "failed"}
      /\ game'.player = game.player /\ game'.search = game.search
  BY <1>1 DEF RelayInv, TypeOK, GameTypes
<1> QED BY <1>1, <1>2, GameStopsKeepsTold DEF linkVars, clientVars

\* While an answer waits for the game, nothing else is on its way.
LEMMA AnswerIsAlone ==
    ASSUME RelayInv, ToldInv, NEW p \in Players, game.at = "waiting",
           game.player = p, response[p] # None
    PROVE  /\ coord.at # "await" /\ pending = <<>> /\ Travelling = {}
           /\ \A q \in Players : request[q] = None
           /\ \A q \in Players : q # p => response[q] = None
<1>1. CoordinatorInv /\ GameInv
  BY DEF RelayInv
<1>2. coord.at # "await"
  BY <1>1 DEF CoordinatorInv
<1>3. \A q \in Players : request[q] = None
  BY <1>1 DEF GameInv, IsNextOf
<1>4. \A q \in Players : q # p => response[q] = None
  BY <1>1 DEF GameInv
<1>5. pending = <<>>
  BY DEF ToldInv, RequestsTell
<1>6. Travelling = {}
  BY <1>3, <1>5, TellingTypes, ToSetJoin DEF Travelling
<1> QED BY <1>2, <1>3, <1>4, <1>5, <1>6

\* request_choice takes its answer: what it left with the other player's
\* handler is now what the log says.
LEMMA TakeAnswerKeepsTold ==
    ASSUME RelayInv, ToldInv, NEW p \in Players, TakeAnswer(p)
    PROVE  ToldInv'
<1> DEFINE a == response[p]
           found == game.search /\ a.pick = "find"
           e == [kind |-> "choice", by |-> p, search |-> game.search,
                 found |-> found, answered |-> a.ac]
<1>1. /\ game.at = "waiting" /\ game.player = p /\ a # None
      /\ response' = [response EXCEPT ![p] = None]
      /\ \/ /\ log' = Append(log, e)
            /\ game' = [game EXCEPT !.at = "playing"]
         \/ /\ game' = [game EXCEPT !.at = "desync"]
            /\ UNCHANGED log
      /\ UNCHANGED <<pending, public, revealed, request, coord, inbox,
                     handler, clientVars>>
  BY DEF TakeAnswer
<1>2. /\ coord.at # "await" /\ pending = <<>> /\ Travelling = {}
      /\ \A q \in Players : request[q] = None
      /\ \A q \in Players : q # p => response[q] = None
  BY <1>1, AnswerIsAlone
<1>3. \A q \in Players : response'[q] = None
  BY <1>1, <1>2 DEF RelayInv, TypeOK, CoordinatorTypes
<1>4. /\ log \in Seq(Entries) /\ Len(log) \in 0..MaxLog /\ MaxLog \in Nat
      /\ \A q \in Players : revealed[q] \in Nat /\ Base(q) \in Nat
      /\ public \in SUBSET Facts /\ \A f \in Facts : f.ac \in Int
  BY TellingTypes, RelayAssumption DEF Facts
<1>5. CASE game' = [game EXCEPT !.at = "desync"] /\ UNCHANGED log
  <2>1. game'.at = "desync" /\ game'.player = game.player /\ game'.search = game.search
    BY <1>5 DEF RelayInv, TypeOK, GameTypes
  <2> QED BY <1>1, <1>2, <1>3, <1>5, <2>1, GameStopsKeepsTold DEF clientVars
<1>6. CASE log' = Append(log, e) /\ game' = [game EXCEPT !.at = "playing"]
  <2>1. a \in Answers /\ game.search \in BOOLEAN
    BY <1>1, TellingTypes
  <2>2. e \in Entries /\ e.kind = "choice" /\ e.by = p /\ e.search = game.search /\ e.found = found
    BY <2>1 DEF Entries, Answers
  <2> HIDE DEF e
  <2>3. /\ Len(log') = Len(log) + 1 /\ Len(log) \in Nat
        /\ log'[Len(log) + 1] = e /\ \A i \in 1..Len(log) : log'[i] = log[i]
    BY <1>4, <1>6, <2>2, AppendProperties
  <2>4. game'.at = "playing"
    BY <1>6 DEF RelayInv, TypeOK, GameTypes
  <2>5. \A q \in Players : Base(q)' = Base(q)
    BY <1>1 DEF Base, clientVars
  <2>6. ASSUME p \notin strays
        PROVE  /\ question[p] # None /\ question[p].ac = Len(log)
               /\ question[p].search = game.search /\ Base(p) = Len(log) + 1
    <3>1. IsOpen(p)
      BY <1>1, <2>6 DEF ToldInv, PlaceOf
    <3> QED BY <3>1 DEF IsOpen, Base
  <2>7. ASSUME NEW q \in Players \ strays, q # p
        PROVE  /\ IsClosed(q) /\ revealed[q] <= Base(q) /\ Base(q) <= Len(log)
               /\ \A i \in Base(q) + 1..Len(log) : ~IsChoiceOf(log[i], q)
    <3>1. PlaceOf(q)
      BY DEF ToldInv
    <3>2. /\ IsClosed(q) /\ revealed[q] <= Base(q)
          /\ \A i \in Base(q) + 1..Len(log) : ~IsChoiceOf(log[i], q)
      BY <1>1, <2>7, <3>1 DEF PlaceOf, IsOpen
    <3>3. Base(q) <= Len(log)
      <4>1. CASE question[q] = None
        BY <2>3, <4>1 DEF Base
      <4>2. CASE question[q] # None
        <5>1. question[q].ac < Len(log) /\ Base(q) = question[q].ac + 1
          BY <3>2, <4>2 DEF IsClosed, Base
        <5>2. question[q].ac \in Int
          BY <4>2, TellingTypes
        <5> QED BY <2>3, <5>1, <5>2
      <4> QED BY <4>1, <4>2
    <3> QED BY <3>2, <3>3
  <2>8. \A q \in Players : revealed'[q] <= Len(log') /\ QuestionsLast(inbox'[q])
    <3>1. \A q \in Players : revealed[q] <= Len(log) /\ QuestionsLast(inbox[q])
      BY DEF ToldInv
    <3> QED BY <1>1, <1>4, <2>3, <3>1
  <2>9. \A f \in public' : f.ac <= Len(log') /\ f.kind \in {"reorder", "dig"}
    <3>1. \A f \in public : f.ac \in Int /\ f.ac <= Len(log) /\ f.kind \in {"reorder", "dig"}
      BY <1>4 DEF ToldInv
    <3> QED BY <1>1, <2>3, <3>1
  <2>10. ASSUME NEW q \in Players \ strays PROVE PlaceOf(q)'
    <3>1. (handler[q].early = None)'
      BY <1>1 DEF ToldInv, PlaceOf
    <3>2. (request[q] = None /\ response[q] = None /\ coord.at # "await")'
      BY <1>1, <1>2, <1>3
    <3>3. CASE q = p
      <4>1. IsClosed(p)'
        <5>1. question'[p] = question[p] /\ question[p].ac + 1 = Len(log) + 1
          BY <1>1, <2>6, <3>3 DEF clientVars
        <5>2. question[p].ac < Len(log')
          BY <2>3, <2>6, <3>3
        <5>3. IsChoiceOf(log'[question[p].ac + 1], p)
          BY <2>2, <2>3, <5>1 DEF IsChoiceOf
        <5>4. log'[question[p].ac + 1].search = question[p].search
          BY <2>2, <2>3, <2>6, <3>3, <5>1
        <5> QED BY <5>1, <5>2, <5>3, <5>4 DEF IsClosed
      <4>2. \A i \in Base(p)' + 1..Len(log') : ~IsChoiceOf(log'[i], p)
        BY <2>3, <2>5, <2>6, <3>3
      <4>3. (revealed[p] <= Base(p))'
        <5>1. revealed[p] <= Len(log)
          BY DEF ToldInv
        <5> QED BY <1>1, <1>4, <2>3, <2>5, <2>6, <3>3, <5>1
      <4> QED BY <3>1, <3>2, <3>3, <4>1, <4>2, <4>3 DEF PlaceOf
    <3>4. CASE q # p
      <4>1. IsClosed(q)'
        <5>1. CASE question[q] = None
          BY <1>1, <5>1 DEF IsClosed, clientVars
        <5>2. CASE question[q] # None
          <6>1. question[q].ac \in Nat /\ question'[q] = question[q]
            BY <1>1, <5>2, TellingTypes DEF clientVars
          <6>2. /\ question[q].ac < Len(log) /\ IsChoiceOf(log[question[q].ac + 1], q)
                /\ log[question[q].ac + 1].search = question[q].search
            BY <2>7, <3>4, <5>2 DEF IsClosed
          <6>3. question[q].ac + 1 \in 1..Len(log) /\ question[q].ac < Len(log')
            BY <2>3, <6>1, <6>2
          <6>4. log'[question[q].ac + 1] = log[question[q].ac + 1]
            BY <2>3, <6>3
          <6> QED BY <6>1, <6>2, <6>3, <6>4 DEF IsClosed, IsChoiceOf
        <5> QED BY <5>1, <5>2
      <4>2. ASSUME NEW i \in Base(q)' + 1..Len(log') PROVE ~IsChoiceOf(log'[i], q)
        <5>1. CASE i = Len(log) + 1
          BY <2>2, <2>3, <3>4, <5>1 DEF IsChoiceOf
        <5>2. CASE i # Len(log) + 1
          <6>1. i \in Base(q) + 1..Len(log) /\ i \in 1..Len(log)
            BY <1>4, <2>3, <2>5, <5>2
          <6> QED BY <2>3, <2>7, <3>4, <6>1 DEF IsChoiceOf
        <5> QED BY <5>1, <5>2
      <4>3. (revealed[q] <= Base(q))'
        BY <1>1, <2>5, <2>7, <3>4
      <4> QED BY <3>1, <3>2, <4>1, <4>2, <4>3 DEF PlaceOf
    <3> QED BY <3>3, <3>4
  <2>11. ASSUME NEW q \in Players \ strays PROVE KnownFits(q)'
    <3>1. question'[q] = question[q] /\ known'[q] = known[q] /\ public' = public
      BY <1>1 DEF clientVars
    <3>2. question[q] # None => question[q].ac <= Len(log)
      <4>1. question[q] # None => question[q].ac \in Nat
        BY TellingTypes
      <4> QED BY <2>3, <2>6, <2>7, <4>1 DEF IsClosed
    <3>3. KnownFits(q)
      BY DEF ToldInv
    <3> QED BY <1>4, <1>6, <2>2, <3>1, <3>2, <3>3, KnownStays
  <2>12. RequestsTell'
    BY <1>1, <1>2, <2>4 DEF RequestsTell
  <2>13. OwedIsGathered'
    <3> SUFFICES ASSUME NEW q \in Players \ strays, handler[q].alive, coord.at # "ended"
                 PROVE  (Gathered(q) \union Held(q))' \union Travelling' = Owed(q)'
      BY <1>1 DEF OwedIsGathered, clientVars
    <3>1. (Gathered(q) \union Held(q)) \union Travelling = Owed(q)
      BY <1>1 DEF ToldInv, OwedIsGathered
    <3>2. /\ (Gathered(q) \union Held(q))' = Gathered(q) \union Held(q)
          /\ Travelling' = Travelling
      BY <1>1 DEF Gathered, Held, Travelling
    <3>3. JustAnswered(q)' = {}
      BY <1>3 DEF JustAnswered
    <3> DEFINE choices == {i \in Base(q) + 1..Len(log) : log[i].kind = "choice" /\ log[i].by # q}
    <3>4. Owed(q) = {f \in public : f.ac >= Base(q)} \union {Fact(i - 1, "choice") : i \in choices}
                    \union {Fact(i - 1, "searched") : i \in {j \in choices : log[j].found}}
                    \union JustAnswered(q)
      BY DEF Owed
    <3> DEFINE new == {i \in Base(q) + 1..Len(log') : log'[i].kind = "choice" /\ log'[i].by # q}
    <3>5. Owed(q)' = {f \in public : f.ac >= Base(q)} \union {Fact(i - 1, "choice") : i \in new}
                    \union {Fact(i - 1, "searched") : i \in {j \in new : log'[j].found}}
      BY <1>1, <2>5, <3>3 DEF Owed
    <3>6. CASE q = p
      <4>1. choices = {} /\ new = {}
        BY <2>3, <2>6, <3>6
      <4>2. JustAnswered(q) = {}
        BY <1>2, <3>6 DEF JustAnswered
      <4> HIDE DEF choices, new
      <4> QED BY <3>1, <3>2, <3>4, <3>5, <4>1, <4>2
    <3>7. CASE q # p
      <4> DEFINE n == Len(log) + 1
      <4>1. \A i \in choices : i \in 1..Len(log) /\ log'[i] = log[i] /\ i # n
        BY <1>4, <2>3
      <4>2. new = choices \union {n}
        <5>1. \A i \in new : i \in choices \/ i = n
          <6>1. \A i \in Base(q) + 1..Len(log') : i = n \/ (i \in Base(q) + 1..Len(log) /\ log'[i] = log[i])
            BY <1>4, <2>3
          <6> QED BY <6>1
        <5>2. n \in new
          BY <1>4, <2>2, <2>3, <2>7, <3>7
        <5>3. \A i \in choices : i \in Base(q) + 1..Len(log') /\ log'[i] = log[i]
          BY <1>4, <2>3
        <5> QED BY <5>1, <5>2, <5>3
      <4>3. log'[n] = e /\ n - 1 = Len(log)
        BY <2>3
      <4> HIDE DEF choices, new, n
      <4>4. {Fact(i - 1, "choice") : i \in new}
              = {Fact(i - 1, "choice") : i \in choices} \union {Fact(Len(log), "choice")}
        BY <4>2, <4>3
      <4>5. {Fact(i - 1, "searched") : i \in {j \in new : log'[j].found}}
              = {Fact(i - 1, "searched") : i \in {j \in choices : log[j].found}}
                \union (IF found THEN {Fact(Len(log), "searched")} ELSE {})
        <5>1. {j \in new : log'[j].found}
                = {j \in choices : log[j].found} \union (IF found THEN {n} ELSE {})
          BY <2>2, <4>1, <4>2, <4>3
        <5> QED BY <4>3, <5>1
      <4>6. JustAnswered(q) = {Fact(Len(log), "choice")}
                              \union (IF found THEN {Fact(Len(log), "searched")} ELSE {})
        <5>1. Fact(Len(log), "choice") \in Facts /\ Fact(Len(log), "searched") \in Facts
          BY <1>4, KindsOfFacts
        <5> DEFINE left == OpponentFacts([ac |-> Len(log), search |-> game.search], a)
        <5>2. ToSet(left) = {Fact(Len(log), "choice")}
                            \union (IF found THEN {Fact(Len(log), "searched")} ELSE {})
          <6>1. CASE found
            <7>1. left = <<Fact(Len(log), "choice"), Fact(Len(log), "searched")>>
              BY <6>1 DEF OpponentFacts
            <7> HIDE DEF left
            <7>2. DOMAIN left = {1, 2} /\ left[1] = Fact(Len(log), "choice") /\ left[2] = Fact(Len(log), "searched")
              BY <7>1
            <7> QED BY <6>1, <7>2 DEF ToSet
          <6>2. CASE ~found
            <7>1. left = <<Fact(Len(log), "choice")>>
              BY <6>2 DEF OpponentFacts
            <7> HIDE DEF left
            <7>2. DOMAIN left = {1} /\ left[1] = Fact(Len(log), "choice")
              BY <7>1
            <7> QED BY <6>2, <7>2 DEF ToSet
          <6> QED BY <6>1, <6>2
        <5> HIDE DEF left, found
        <5>3. JustAnswered(q) = {f \in Facts : f \in ToSet(left)}
          BY <1>1, <1>2, <3>7 DEF JustAnswered, left
        <5> QED BY <5>1, <5>2, <5>3
      <4> HIDE DEF found
      <4> QED BY <3>1, <3>2, <3>4, <3>5, <4>4, <4>5, <4>6
    <3> QED BY <3>6, <3>7
  <2> QED BY <1>1, <2>8, <2>9, <2>10, <2>11, <2>12, <2>13 DEF ToldInv, clientVars
<1> QED BY <1>1, <1>5, <1>6

-----------------------------------------------------------------------------
(* What the coordinator passes on.                                         *)

\* The public facts of a request, as messages.
LEMMA PublicFacts ==
    ASSUME NEW s \in Seq(Facts)
    PROVE  LET t == [i \in DOMAIN s |-> [type |-> "public", fact |-> s[i]]]
           IN  t \in Seq(Messages) /\ NoQuestion(t) /\ FactsOf(t) = ToSet(s)
<1> DEFINE t == [i \in DOMAIN s |-> [type |-> "public", fact |-> s[i]]]
<1>1. /\ DOMAIN s = 1..Len(s) /\ Len(s) \in Nat /\ \A i \in DOMAIN s : s[i] \in Facts
      /\ DOMAIN t = DOMAIN s
  OBVIOUS
<1>2. \A i \in DOMAIN s : /\ t[i] \in Messages /\ t[i].type = "public"
                          /\ t[i].fact = s[i]
  BY <1>1, KindsOfFacts
<1>3. t = [i \in 1..Len(s) |-> t[i]]
  BY <1>1
<1> HIDE DEF t
<1>4. t \in Seq(Messages)
  BY <1>1, <1>2, <1>3
<1>5. NoQuestion(t)
  BY <1>1, <1>2 DEF NoQuestion
<1>6. \A i \in DOMAIN s : \A f : IsFactIn(f, t[i]) <=> f = s[i]
  BY <1>2 DEF IsFactIn
<1>7. FactsOf(t) = ToSet(s)
  BY <1>1, <1>6 DEF FactsOf, ToSet
<1> QED BY <1>4, <1>5, <1>7 DEF t

\* The coordinator forwards a request: the public facts reach both handlers.
LEMMA ForwardKeepsTold ==
    ASSUME RelayInv, ToldInv, NEW p \in Players, Forward(p)
    PROVE  ToldInv'
<1>0. PICK r \in Requests : r = request[p]
  BY DEF Forward, RelayInv, TypeOK, CoordinatorTypes
<1> DEFINE facts == [i \in DOMAIN r.public |->
                       [type |-> "public", fact |-> r.public[i]]]
           m == [type |-> "request", request |-> r]
           asking == [q \in Players |-> IF q = p THEN Append(facts, m) ELSE facts]
<1>1. /\ coord.at = "select" /\ r # None
      /\ request' = [request EXCEPT ![p] = None]
      /\ \/ /\ handler[p].alive
            /\ coord' = [coord EXCEPT !.at = "await", !.player = p,
                                      !.request = r]
            /\ inbox' = Deliver(asking)
         \/ Ended(None) /\ UNCHANGED inbox
      /\ UNCHANGED <<gameVars, response, outbox, handler, runVars, clientVars>>
  BY <1>0 DEF Forward
<1>2. /\ request \in [Players -> Requests \union {None}]
      /\ IsNextOf(p, r)
      /\ \A q \in Players : NoQuestion(inbox[q]) /\ response[q] = None
      /\ \A q \in Players : request[q] # None => q = p
  BY <1>0, <1>1 DEF RelayInv, TypeOK, CoordinatorTypes, CoordinatorInv, GameInv, IsNextOf, Quiet
<1>3. /\ game.at = "waiting" /\ game.player = p /\ pending = <<>>
  BY <1>2 DEF IsNextOf, ToldInv, RequestsTell
<1>4. \A q \in Players : request'[q] = None
  BY <1>1, <1>2
<1>5. CASE Ended(None) /\ UNCHANGED inbox
  <2>1. coord'.at = "ended"
    BY <1>5 DEF Ended, RelayInv, TypeOK, CoordinatorTypes
  <2>2. \A q \in Players : QuestionsLast(inbox'[q])
    BY <1>5 DEF ToldInv
  <2> QED BY <1>1, <1>4, <2>1, <2>2, QuietKeepsTold DEF clientVars
<1>6. CASE /\ handler[p].alive
           /\ coord' = [coord EXCEPT !.at = "await", !.player = p, !.request = r]
           /\ inbox' = Deliver(asking)
  <2>1. r.public \in Seq(Facts)
    BY DEF Requests
  <2>2. facts \in Seq(Messages) /\ NoQuestion(facts) /\ FactsOf(facts) = ToSet(r.public)
    BY <2>1, PublicFacts
  <2>3. m \in Messages /\ m.type = "request"
    BY KindsOfFacts
  <2> HIDE DEF facts, m
  <2>4. asking \in [Players -> Seq(Messages)]
    BY <2>2, <2>3
  <2>5. \A q \in Players :
           Deliver(asking)[q] = IF handler[q].alive THEN inbox[q] \o asking[q] ELSE inbox[q]
    BY <2>4, Delivery DEF RelayInv, TypeOK
  <2>6. inbox'[p] = Append(inbox[p] \o facts, m)
    <3>1. inbox'[p] = inbox[p] \o Append(facts, m)
      BY <1>6, <2>5
    <3>2. inbox[p] \in Seq(Messages)
      BY TellingTypes
    <3>3. \A s, t \in Seq(Messages) : \A x \in Messages : s \o Append(t, x) = Append(s \o t, x)
      OBVIOUS
    <3> QED BY <2>2, <2>3, <3>1, <3>2, <3>3
  <2>7. \A q \in Players : q # p =>
          inbox'[q] = IF handler[q].alive THEN inbox[q] \o facts ELSE inbox[q]
    BY <1>6, <2>5
  <2> HIDE DEF asking
  <2>8. ASSUME NEW q \in Players
        PROVE  /\ QuestionsLast(inbox[q] \o facts)
               /\ FactsOf(inbox[q] \o facts) = FactsOf(inbox[q]) \union ToSet(r.public)
               /\ inbox[q] \o facts \in Seq(Messages) /\ NoQuestion(inbox[q] \o facts)
    <3>1. inbox[q] \in Seq(Messages) /\ NoQuestion(inbox[q])
      BY <1>2, TellingTypes
    <3> QED BY <2>2, <3>1, FactsJoin, SendsNoQuestion
  <2>9. /\ QuestionsLast(inbox'[p]) /\ ~NoQuestion(inbox'[p])
        /\ FactsOf(inbox'[p]) = FactsOf(inbox[p]) \union ToSet(r.public)
    BY <2>3, <2>6, <2>8, QuestionSentLast
  <2>10. \A q \in Players : revealed'[q] <= Len(log') /\ QuestionsLast(inbox'[q])
    <3>1. \A q \in Players : revealed[q] <= Len(log) /\ QuestionsLast(inbox[q])
      BY DEF ToldInv
    <3> QED BY <1>1, <2>7, <2>8, <2>9, <3>1 DEF gameVars
  <2>11. \A f \in public' : f.ac <= Len(log') /\ f.kind \in {"reorder", "dig"}
    BY <1>1 DEF ToldInv, gameVars
  <2>12. coord'.at = "await" /\ coord'.player = p /\ coord'.request = r
    BY <1>6 DEF RelayInv, TypeOK, CoordinatorTypes
  <2>13. \A q \in Players : /\ Base(q)' = Base(q) /\ RevealsFor(q)' = RevealsFor(q)
                            /\ IsOpen(q)' = IsOpen(q) /\ IsClosed(q)' = IsClosed(q)
    BY <1>1 DEF Base, RevealsFor, IsOpen, IsClosed, IsChoiceOf, gameVars, clientVars
  <2>14. ASSUME NEW q \in Players \ strays PROVE PlaceOf(q)'
    <3>1. PlaceOf(q)
      BY DEF ToldInv
    <3>2. (handler[q].early = None)' /\ (IsOpen(q)' \/ IsClosed(q)')
      BY <1>1, <2>13, <3>1 DEF PlaceOf
    <3>3. \A i \in Base(q)' + 1..Len(log') : ~IsChoiceOf(log'[i], q)
      BY <1>1, <2>13, <3>1 DEF PlaceOf, IsChoiceOf, gameVars
    <3>4. (request[q] = None)' /\ (response[q] = None)'
      BY <1>1, <1>2, <1>4
    <3>5. (coord.at = "await" /\ coord.player = q)' => ~NoQuestion(inbox'[q]) /\ IsClosed(q)'
      <4>1. CASE q = p
        BY <1>0, <1>1, <2>9, <2>13, <3>1, <4>1 DEF PlaceOf
      <4>2. CASE q # p
        BY <2>12, <4>2
      <4> QED BY <4>1, <4>2
    <3>6. (revealed[q] <= Base(q) \/ (game.at # "playing" /\ game.player = q))'
      BY <1>1, <2>13, <3>1 DEF PlaceOf, gameVars
    <3> QED BY <3>2, <3>3, <3>4, <3>5, <3>6 DEF PlaceOf
  <2>15. ASSUME NEW q \in Players \ strays PROVE KnownFits(q)'
    <3>1. KnownFits(q)
      BY DEF ToldInv
    <3> QED BY <1>1, <3>1 DEF KnownFits, FactsFor, gameVars, clientVars
  <2>16. RequestsTell'
    <3>1. r.search = game.search /\ (p \notin strays => ToSet(r.reveals) = RevealsFor(p))
      BY <1>0, <1>1 DEF ToldInv, RequestsTell
    <3>2. RevealsFor(coord.player)' = RevealsFor(p)'
      BY <2>12 DEF RevealsFor
    <3>3. strays' = strays /\ game' = game /\ pending' = <<>>
      BY <1>1, <1>3 DEF clientVars, gameVars
    <3>4. coord'.request.search = game'.search
      BY <2>12, <3>1, <3>3
    <3>5. coord'.player \notin strays' => ToSet(coord'.request.reveals) = RevealsFor(coord.player)'
      BY <2>12, <2>13, <3>1, <3>2, <3>3
    <3> QED BY <1>4, <3>3, <3>4, <3>5 DEF RequestsTell
  <2>17. OwedIsGathered'
    <3> SUFFICES ASSUME NEW q \in Players \ strays, handler[q].alive
                 PROVE  (Gathered(q) \union Held(q))' \union Travelling' = Owed(q)'
      BY <1>1 DEF OwedIsGathered, clientVars
    <3>1. (Gathered(q) \union Held(q)) \union Travelling = Owed(q)
      BY <1>1, <1>3 DEF ToldInv, OwedIsGathered
    <3>2. FactsOf(inbox'[q]) = FactsOf(inbox[q]) \union ToSet(r.public)
      BY <2>7, <2>8, <2>9
    <3>3. /\ Gathered(q)' = Gathered(q) \union ToSet(r.public)
          /\ Held(q) = {} /\ Held(q)' = {}
      BY <1>1, <2>12, <3>2 DEF Gathered, Held
    <3>4. ToSet(<<>>) = {} /\ ToSet(r.public) \subseteq Facts
      BY <2>1, ToSetJoin
    <3>5. Travelling = ToSet(r.public)
      BY <1>0, <1>1, <1>2, <1>3, <3>4 DEF Travelling
    <3>6. Travelling' = {}
      BY <1>1, <1>3, <1>4, <3>4 DEF Travelling, gameVars
    <3>7. Owed(q)' = Owed(q)
      BY <1>1, <2>13 DEF Owed, JustAnswered, OpponentFacts, gameVars
    <3> QED BY <3>1, <3>3, <3>5, <3>6, <3>7
  <2> QED BY <1>1, <2>10, <2>11, <2>14, <2>15, <2>16, <2>17 DEF ToldInv, clientVars
<1> QED BY <1>1, <1>5, <1>6

\* A departure, a silent end or the end of the game: no question follows.
LEMMA CoordinatorEndsKeepsTold ==
    ASSUME RelayInv, ToldInv, ReceiveDeparture \/ ReceiveNothing \/ ForwardGameEnd
    PROVE  ToldInv'
<1>1. /\ coord'.at = "ended"
      /\ UNCHANGED <<gameVars, linkVars, handler, clientVars>>
  BY DEF ReceiveDeparture, ReceiveNothing, ForwardGameEnd, Ended, RelayInv, TypeOK, CoordinatorTypes
<1>2. \A q \in Players : inbox[q] \in Seq(Messages) /\ QuestionsLast(inbox[q])
  BY TellingTypes DEF ToldInv
<1>3. ASSUME NEW m \in [Players -> Seq(Messages)], inbox' = Deliver(m),
             \A q \in Players : handler[q].alive => NoQuestion(inbox[q]) /\ NoQuestion(m[q])
      PROVE  \A q \in Players : QuestionsLast(inbox'[q])
  <2>1. \A q \in Players :
           inbox'[q] = IF handler[q].alive THEN inbox[q] \o m[q] ELSE inbox[q]
    BY <1>3, Delivery DEF RelayInv, TypeOK
  <2>2. ASSUME NEW q \in Players PROVE QuestionsLast(inbox'[q])
    <3>1. m[q] \in Seq(Messages)
      BY <1>3
    <3> QED BY <1>2, <1>3, <2>1, <3>1, FactsJoin
  <2> QED BY <2>2
<1>4. ASSUME ReceiveDeparture PROVE \A q \in Players : QuestionsLast(inbox'[q])
  <2>1. PICK p \in Players : p = coord.player
    BY <1>4 DEF ReceiveDeparture, RelayInv, CoordinatorInv
  <2> DEFINE m == [q \in Players |-> IF q = p THEN <<>> ELSE <<[type |-> "fatal"]>>]
  <2>2. /\ coord.at = "await" /\ outbox[p] # <<>>
        /\ Head(outbox[p]).type = "left"
        /\ outbox' = [outbox EXCEPT ![p] = Tail(@)]
        /\ inbox' = Deliver(m)
    BY <1>4, <2>1 DEF ReceiveDeparture
  <2>3. /\ m \in [Players -> Seq(Messages)]
        /\ \A q \in Players : NoQuestion(m[q])
    BY KindsOfFacts, Announcements
  <2> HIDE DEF m
  <2>4. \A q \in Players : q # p => NoQuestion(inbox[q])
    BY <2>1, <2>2 DEF RelayInv, CoordinatorInv, Quiet
  <2>5. ~handler[p].alive
    BY <2>2, DepartedStay
  <2> QED BY <1>3, <2>2, <2>3, <2>4, <2>5
<1>5. ASSUME ReceiveNothing PROVE \A q \in Players : QuestionsLast(inbox'[q])
  BY <1>2, <1>5 DEF ReceiveNothing
<1>6. ASSUME ForwardGameEnd PROVE \A q \in Players : QuestionsLast(inbox'[q])
  <2> DEFINE m == [q \in Players |-> <<[type |-> "over", info |-> endInfo]>>]
  <2>1. /\ inbox' = Deliver(m) /\ coord.at = "select" /\ endInfo # None
    BY <1>6 DEF ForwardGameEnd
  <2>2. endInfo \in {"winner", "draw"}
    BY <2>1 DEF RelayInv, TypeOK, ClientTypes
  <2>3. m \in [Players -> Seq(Messages)] /\ \A q \in Players : NoQuestion(m[q])
    BY <2>2, KindsOfFacts, Announcements
  <2> HIDE DEF m
  <2>4. \A q \in Players : NoQuestion(inbox[q])
    BY <2>1 DEF RelayInv, CoordinatorInv, Quiet
  <2> QED BY <1>3, <2>1, <2>3, <2>4
<1>7. \A q \in Players : QuestionsLast(inbox'[q])
  BY <1>4, <1>5, <1>6
<1> QED BY <1>1, <1>7, QuietKeepsTold DEF linkVars, clientVars

\* A message that is delivered adds its facts.
LEMMA OneMessage ==
    ASSUME NEW m \in Messages, m.type # "request"
    PROVE  <<m>> \in Seq(Messages) /\ NoQuestion(<<m>>)
           /\ FactsOf(<<m>>) = {f \in Facts : IsFactIn(f, m)}
<1>1. DOMAIN <<m>> = {1} /\ <<m>>[1] = m
  OBVIOUS
<1>2. FactsOf(<<m>>) = {f \in Facts : IsFactIn(f, m)}
  BY <1>1 DEF FactsOf
<1> QED BY <1>2, Announcements

\* The coordinator accepts an answer: it holds what the other player must know
\* of it.
LEMMA ReceiveAnswerKeepsTold ==
    ASSUME RelayInv, ToldInv, ReceiveAnswer
    PROVE  ToldInv'
<1>1. PICK p \in Players, r \in Requests : p = coord.player /\ r = coord.request
  BY DEF ReceiveAnswer, RelayInv, CoordinatorInv
<1>2. PICK a : a = Head(outbox[p]).answer
  OBVIOUS
<1> DEFINE left == OpponentFacts(r, a)
           bad == [q \in Players |-> <<[type |-> "fatal"]>>]
           accept == [coord EXCEPT !.at = "accept", !.request = None, !.facts = left]
<1>3. /\ coord.at = "await" /\ outbox[p] # <<>>
      /\ Head(outbox[p]).type = "answer"
      /\ \/ response' = [response EXCEPT ![p] = a] /\ inbox' = inbox /\ coord' = accept
         \/ inbox' = Deliver(bad) /\ Ended("fatal") /\ UNCHANGED response
      /\ UNCHANGED <<gameVars, request, handler, runVars, clientVars>>
  BY <1>1, <1>2 DEF ReceiveAnswer, Fits
<1>4. /\ IsNextOf(p, r) /\ Holds(p, r)
      /\ \A q \in Players : q # p => Quiet(q)
      /\ \A q \in Players : request[q] = None /\ response[q] = None
  BY <1>1, <1>3 DEF RelayInv, CoordinatorInv
<1>5. outbox[p] \in Seq(FromHandler)
  BY TellingTypes
<1>6. a \in Answers /\ ~NoAnswer(outbox[p])
  BY <1>2, <1>3, <1>5, TakesFromHandler
<1>7. \A q \in Players : NoQuestion(inbox[q])
  BY <1>4, <1>6 DEF Holds, Quiet
<1>8. /\ left \in Seq(Facts) /\ ToSet(left) \subseteq Facts
      /\ r.ac = Len(log) /\ game.at = "waiting" /\ game.player = p
  <2>1. left \in Seq(Facts)
    BY OpponentFactsType DEF Requests
  <2> HIDE DEF left
  <2> QED BY <1>4, <2>1, ToSetJoin DEF IsNextOf
<1>9. r.search = game.search /\ pending = <<>>
  BY <1>1, <1>3, <1>8 DEF ToldInv, RequestsTell
<1>10. left = OpponentFacts([ac |-> Len(log), search |-> game.search], a)
  BY <1>8, <1>9 DEF OpponentFacts
<1>11. \A q \in Players : inbox[q] \in Seq(Messages) /\ QuestionsLast(inbox[q])
  BY TellingTypes DEF ToldInv
<1> HIDE DEF left
<1>12. bad \in [Players -> Seq(Messages)] /\ \A q \in Players : NoQuestion(bad[q])
  BY KindsOfFacts, Announcements
<1> HIDE DEF bad
<1>13. CASE inbox' = Deliver(bad) /\ Ended("fatal") /\ UNCHANGED response
  <2>1. coord'.at = "ended"
    BY <1>13 DEF Ended, RelayInv, TypeOK, CoordinatorTypes
  <2>2. \A q \in Players : inbox'[q] = IF handler[q].alive THEN inbox[q] \o bad[q] ELSE inbox[q]
    BY <1>12, <1>13, Delivery DEF RelayInv, TypeOK
  <2>3. ASSUME NEW q \in Players PROVE QuestionsLast(inbox'[q])
    <3>1. bad[q] \in Seq(Messages) /\ NoQuestion(bad[q])
      BY <1>12
    <3> QED BY <1>7, <1>11, <2>2, <3>1, FactsJoin
  <2> QED BY <1>3, <1>13, <2>1, <2>3, QuietKeepsTold DEF clientVars
<1>14. CASE response' = [response EXCEPT ![p] = a] /\ inbox' = inbox /\ coord' = accept
  <2>1. coord'.at = "accept" /\ coord'.player = p /\ coord'.facts = left
    BY <1>1, <1>14 DEF RelayInv, TypeOK, CoordinatorTypes
  <2>2. /\ response'[p] = a /\ a # None
        /\ \A q \in Players : q # p => response'[q] = None
        /\ \A q \in Players : request'[q] = None
    BY <1>3, <1>4, <1>6, <1>14, EmptySlotAssumption DEF RelayInv, TypeOK, CoordinatorTypes
  <2>3. \A q \in Players : revealed'[q] <= Len(log') /\ QuestionsLast(inbox'[q])
    BY <1>3, <1>14 DEF ToldInv, gameVars
  <2>4. \A f \in public' : f.ac <= Len(log') /\ f.kind \in {"reorder", "dig"}
    BY <1>3 DEF ToldInv, gameVars
  <2>5. \A q \in Players : /\ Base(q)' = Base(q)
                           /\ IsOpen(q)' = IsOpen(q) /\ IsClosed(q)' = IsClosed(q)
    BY <1>3 DEF Base, IsOpen, IsClosed, IsChoiceOf, gameVars, clientVars
  <2>6. ASSUME NEW q \in Players \ strays PROVE PlaceOf(q)'
    <3>1. PlaceOf(q)
      BY DEF ToldInv
    <3>2. (handler[q].early = None)' /\ (IsOpen(q)' \/ IsClosed(q)')
      BY <1>3, <2>5, <3>1 DEF PlaceOf
    <3>3. \A i \in Base(q)' + 1..Len(log') : ~IsChoiceOf(log'[i], q)
      BY <1>3, <2>5, <3>1 DEF PlaceOf, IsChoiceOf, gameVars
    <3>4. (response[q] # None)' => IsOpen(q)'
      <4>1. CASE q = p
        BY <1>1, <1>3, <1>7, <2>5, <3>1, <4>1 DEF PlaceOf
      <4>2. CASE q # p
        BY <2>2, <4>2
      <4> QED BY <4>1, <4>2
    <3>5. (revealed[q] <= Base(q) \/ (game.at # "playing" /\ game.player = q))'
      BY <1>3, <2>5, <3>1 DEF PlaceOf, gameVars
    <3>6. (coord.at # "await")' /\ (request[q] = None)'
      BY <2>1, <2>2
    <3> QED BY <3>2, <3>3, <3>4, <3>5, <3>6 DEF PlaceOf
  <2>7. ASSUME NEW q \in Players \ strays PROVE KnownFits(q)'
    <3>1. KnownFits(q)
      BY DEF ToldInv
    <3> QED BY <1>3, <3>1 DEF KnownFits, FactsFor, gameVars, clientVars
  <2>8. RequestsTell'
    BY <1>3, <1>9, <2>1, <2>2 DEF RequestsTell, gameVars
  <2>9. OwedIsGathered'
    <3> SUFFICES ASSUME NEW q \in Players \ strays, handler[q].alive
                 PROVE  (Gathered(q) \union Held(q))' \union Travelling' = Owed(q)'
      BY <1>3 DEF OwedIsGathered, clientVars
    <3>1. (Gathered(q) \union Held(q)) \union Travelling = Owed(q)
      BY <1>3, <1>8 DEF ToldInv, OwedIsGathered
    <3> DEFINE new == IF q = p THEN {} ELSE ToSet(left)
    <3>2. Gathered(q)' = Gathered(q) /\ Held(q) = {} /\ Held(q)' = new
      BY <1>3, <1>14, <2>1 DEF Gathered, Held
    <3>3. Travelling' = Travelling
      BY <1>3 DEF Travelling, gameVars
    <3>4. JustAnswered(q) = {}
      BY <1>4 DEF JustAnswered
    <3>5. JustAnswered(q)' = new
      <4>1. log' = log /\ game' = game
        BY <1>3 DEF gameVars
      <4>2. OpponentFacts([ac |-> Len(log'), search |-> game'.search], response'[p]) = left
        BY <1>10, <2>2, <4>1
      <4>3. JustAnswered(q)' = {f \in Facts : q # p /\ f \in ToSet(left)}
        BY <2>2, <4>2 DEF JustAnswered
      <4> QED BY <1>8, <4>3
    <3>6. Owed(q)' = Owed(q) \union new
      <4> DEFINE others == {k \in Base(q) + 1..Len(log) : log[k].kind = "choice" /\ log[k].by # q}
                 rest == ({f \in public : f.ac >= Base(q)}
                           \union {Fact(i - 1, "choice") : i \in others})
                         \union {Fact(i - 1, "searched") : i \in {j \in others : log[j].found}}
      <4>1. Owed(q) = rest \union JustAnswered(q)
        BY DEF Owed
      <4>2. Owed(q)' = rest \union JustAnswered(q)'
        BY <1>3, <2>5 DEF Owed, gameVars
      <4> HIDE DEF rest, new
      <4> QED BY <3>4, <3>5, <4>1, <4>2
    <3> HIDE DEF new
    <3> QED BY <3>1, <3>2, <3>3, <3>6
  <2> QED BY <1>3, <2>3, <2>4, <2>6, <2>7, <2>8, <2>9 DEF ToldInv, clientVars
<1> QED BY <1>3, <1>13, <1>14

\* The players are told of an answer: what the coordinator held is in the queue
\* of the other one.
LEMMA InformKeepsTold ==
    ASSUME RelayInv, ToldInv, AcceptChoice \/ InformOpponent
    PROVE  ToldInv'
<1> DEFINE accepted == [q \in Players |->
                          IF q = coord.player THEN <<[type |-> "accepted"]>> ELSE <<>>]
           made == [q \in Players |-> IF q = coord.player THEN <<>>
                       ELSE <<[type |-> "opponent", facts |-> coord.facts]>>]
<1>1. /\ coord.at \in {"accept", "inform"}
      /\ \/ /\ inbox' = Deliver(accepted)
            /\ coord.at = "accept" /\ coord' = [coord EXCEPT !.at = "inform"]
         \/ /\ inbox' = Deliver(made) /\ coord.at = "inform"
            /\ coord' = [coord EXCEPT !.at = "select", !.facts = <<>>]
      /\ UNCHANGED <<gameVars, linkVars, handler, clientVars>>
  BY DEF AcceptChoice, InformOpponent
<1>2. /\ coord.facts \in Seq(Facts) /\ ToSet(coord.facts) \subseteq Facts
      /\ \A q \in Players : /\ NoQuestion(inbox[q]) /\ QuestionsLast(inbox[q])
                            /\ inbox[q] \in Seq(Messages)
  BY <1>1, TellingTypes, ToSetJoin
     DEF RelayInv, TypeOK, CoordinatorTypes, CoordinatorInv, Quiet, ToldInv
<1> DEFINE a == [type |-> "accepted"]
           o == [type |-> "opponent", facts |-> coord.facts]
<1>3. /\ a \in Messages /\ a.type # "request"
      /\ o \in Messages /\ o.type # "request"
      /\ \A f : ~IsFactIn(f, a) /\ (IsFactIn(f, o) <=> f \in ToSet(coord.facts))
  BY <1>2, KindsOfFacts DEF IsFactIn
<1>4. /\ \A q \in Players : accepted[q] \in {<<>>, <<a>>}
      /\ \A q \in Players : made[q] = IF q = coord.player THEN <<>> ELSE <<o>>
  OBVIOUS
<1> HIDE DEF a, o
<1>5. /\ <<a>> \in Seq(Messages) /\ NoQuestion(<<a>>) /\ FactsOf(<<a>>) = {}
      /\ <<o>> \in Seq(Messages) /\ NoQuestion(<<o>>) /\ FactsOf(<<o>>) = ToSet(coord.facts)
      /\ <<>> \in Seq(Messages) /\ NoQuestion(<<>>) /\ FactsOf(<<>>) = {}
  <2>1. FactsOf(<<>>) = {} /\ <<>> \in Seq(Messages) /\ NoQuestion(<<>>)
    BY DEF FactsOf, NoQuestion
  <2> QED BY <1>2, <1>3, <2>1, OneMessage
<1>6. accepted \in [Players -> Seq(Messages)] /\ made \in [Players -> Seq(Messages)]
  BY <1>4, <1>5
<1> HIDE DEF accepted, made
<1>7. /\ coord'.at \in {"inform", "select"} /\ coord'.player = coord.player
      /\ coord.at = "accept" => coord'.at = "inform" /\ coord'.facts = coord.facts
      /\ coord.at = "inform" => coord'.at = "select"
  BY <1>1 DEF RelayInv, TypeOK, CoordinatorTypes
<1>8. ASSUME NEW q \in Players
      PROVE  /\ QuestionsLast(inbox'[q]) /\ NoQuestion(inbox'[q])
             /\ handler[q].alive => (Gathered(q) \union Held(q))' = Gathered(q) \union Held(q)
  <2>1. ASSUME NEW m \in [Players -> Seq(Messages)], inbox' = Deliver(m),
               NoQuestion(m[q])
        PROVE  /\ QuestionsLast(inbox'[q]) /\ NoQuestion(inbox'[q])
               /\ handler[q].alive => FactsOf(inbox'[q]) = FactsOf(inbox[q]) \union FactsOf(m[q])
    <3>1. inbox'[q] = IF handler[q].alive THEN inbox[q] \o m[q] ELSE inbox[q]
      BY <2>1, Delivery DEF RelayInv, TypeOK
    <3>2. m[q] \in Seq(Messages)
      BY <2>1
    <3> QED BY <1>2, <2>1, <3>1, <3>2, FactsJoin, SendsNoQuestion
  <2>2. CASE inbox' = Deliver(accepted) /\ coord.at = "accept"
    <3>1. NoQuestion(accepted[q]) /\ FactsOf(accepted[q]) = {}
      BY <1>4, <1>5
    <3>2. Held(q)' = Held(q)
      BY <1>7, <2>2 DEF Held
    <3>3. handler[q].alive => Gathered(q)' = Gathered(q)
      BY <1>1, <1>6, <2>1, <2>2, <3>1 DEF Gathered
    <3> QED BY <1>6, <2>1, <2>2, <3>1, <3>2, <3>3
  <2>3. CASE inbox' = Deliver(made) /\ coord.at = "inform"
    <3>1. NoQuestion(made[q]) /\ FactsOf(made[q]) = Held(q)
      BY <1>4, <1>5, <2>3 DEF Held
    <3>2. Held(q)' = {}
      BY <1>7, <2>3 DEF Held
    <3>3. handler[q].alive => Gathered(q)' = Gathered(q) \union Held(q)
      BY <1>1, <1>6, <2>1, <2>3, <3>1 DEF Gathered
    <3> QED BY <1>6, <2>1, <2>3, <3>1, <3>2, <3>3
  <2> QED BY <1>1, <2>2, <2>3
<1>9. coord.at \notin {"await", "ended"} /\ coord'.at \notin {"await", "ended"}
  BY <1>1, <1>7
<1> QED BY <1>1, <1>2, <1>8, <1>9, QuietKeepsTold DEF gameVars, linkVars, clientVars

-----------------------------------------------------------------------------
(* A client is asked.                                                      *)

\* Two sorted lists, the second after the first.
LEMMA SortedJoin ==
    ASSUME NEW s \in Seq(Facts), NEW t \in Seq(Facts), Sorted(s), Sorted(t),
           \A f \in ToSet(s) : \A g \in ToSet(t) : f.ac < g.ac
    PROVE  Sorted(s \o t)
<1>1. /\ DOMAIN (s \o t) = 1..Len(s) + Len(t) /\ DOMAIN s = 1..Len(s) /\ DOMAIN t = 1..Len(t)
      /\ \A i \in 1..Len(s) + Len(t) :
           (s \o t)[i] = IF i <= Len(s) THEN s[i] ELSE t[i - Len(s)]
      /\ Len(s) \in Nat /\ Len(t) \in Nat
  BY ConcatProperties
<1> DEFINE w == s \o t
<1>2. \A i \in DOMAIN w : \/ i \in DOMAIN s /\ w[i] = s[i] /\ i <= Len(s)
                          \/ i - Len(s) \in DOMAIN t /\ w[i] = t[i - Len(s)] /\ i > Len(s)
  BY <1>1
<1> HIDE DEF w
<1>3. ASSUME NEW i \in DOMAIN w, NEW j \in DOMAIN w, i < j PROVE w[i].ac <= w[j].ac
  <2>1. i \in Int /\ j \in Int
    BY <1>1 DEF w
  <2>2. CASE i <= Len(s) /\ j <= Len(s)
    BY <1>1, <1>2, <1>3, <2>1, <2>2 DEF Sorted
  <2>3. CASE i <= Len(s) /\ j > Len(s)
    <3>1. w[i] \in ToSet(s) /\ w[j] \in ToSet(t)
      BY <1>1, <1>2, <2>1, <2>3 DEF ToSet
    <3>2. w[i] \in Facts /\ w[j] \in Facts
      BY <3>1, ToSetJoin
    <3>3. \A f \in Facts : f.ac \in Int
      BY RelayAssumption DEF Facts
    <3>4. w[i].ac < w[j].ac /\ w[i].ac \in Int /\ w[j].ac \in Int
      BY <3>1, <3>2, <3>3
    <3> QED BY <3>4
  <2>4. CASE i > Len(s) /\ j > Len(s)
    <3>1. /\ i - Len(s) \in DOMAIN t /\ w[i] = t[i - Len(s)]
          /\ j - Len(s) \in DOMAIN t /\ w[j] = t[j - Len(s)]
      BY <1>1, <1>2, <2>1, <2>4
    <3>2. i - Len(s) < j - Len(s)
      BY <1>1, <1>3, <2>1
    <3> QED BY <3>1, <3>2 DEF Sorted
  <2> QED BY <1>1, <1>3, <2>1, <2>2, <2>3, <2>4
<1> QED BY <1>3 DEF Sorted, w

\* What p must know when it is asked: what it knew when it was asked last, and
\* what the log and the public facts say since.
LEMMA FactsSince ==
    ASSUME RelayInv, NEW p \in Players, IsClosed(p),
           \A i \in Base(p) + 1..Len(log) : ~IsChoiceOf(log[i], p),
           \A f \in public : f.ac <= Len(log), NEW search \in BOOLEAN
    PROVE  LET choices == {i \in Base(p) + 1..Len(log) : log[i].kind = "choice" /\ log[i].by # p} IN
           FactsFor(p, Len(log), search) =
             (IF question[p] = None THEN {}
              ELSE FactsFor(p, question[p].ac, question[p].search))
             \union RevealsFor(p)
             \union {f \in public : f.ac >= Base(p)}
             \union {Fact(i - 1, "choice") : i \in choices}
             \union {Fact(i - 1, "searched") : i \in {j \in choices : log[j].found}}
             \union (IF search THEN {Fact(Len(log), "search")} ELSE {})
<1> DEFINE n == Len(log)
           b == Base(p)
           IsReveal(j) == log[j].kind = "reveal" /\ log[j].to \in {p, Nobody}
           IsOther(j) == log[j].kind = "choice" /\ log[j].by # p
           IsFound(j) == IsOther(j) /\ log[j].found
           IsSearch(j) == log[j].kind = "choice" /\ log[j].by = p /\ log[j].search
           All(a, s) ==
             {Fact(i - 1, "reveal") : i \in {j \in 1..a : IsReveal(j)}}
             \union {f \in public : f.ac <= a}
             \union {Fact(i - 1, "choice") : i \in {j \in 1..a : IsOther(j)}}
             \union {Fact(i - 1, "searched") : i \in {j \in 1..a : IsFound(j)}}
             \union {Fact(i - 1, "search") : i \in {j \in 1..a : IsSearch(j)}}
             \union (IF s THEN {Fact(a, "search")} ELSE {})
           New ==
             {Fact(i - 1, "reveal") : i \in {j \in b + 1..n : IsReveal(j)}}
             \union {f \in public : f.ac >= b}
             \union {Fact(i - 1, "choice") : i \in {j \in b + 1..n : IsOther(j)}}
             \union {Fact(i - 1, "searched") : i \in {j \in b + 1..n : IsFound(j)}}
             \union (IF search THEN {Fact(n, "search")} ELSE {})
<1>1. n \in Nat /\ b \in Nat /\ \A f \in public : f.ac \in Nat /\ f.ac <= n
  BY TellingTypes DEF Facts
<1>2. ASSUME NEW a, NEW s PROVE FactsFor(p, a, s) = All(a, s)
  <2> DEFINE c == {i \in 1..a : log[i].kind = "choice"}
  <2>1. /\ {j \in c : log[j].by # p} = {j \in 1..a : IsOther(j)}
        /\ {j \in c : log[j].by # p /\ log[j].found} = {j \in 1..a : IsFound(j)}
        /\ {j \in c : log[j].by = p /\ log[j].search} = {j \in 1..a : IsSearch(j)}
    OBVIOUS
  <2> QED BY <2>1 DEF FactsFor
<1>3. \A j \in b + 1..n : ~IsSearch(j)
  BY DEF IsChoiceOf
<1> DEFINE choices == {i \in b + 1..n : log[i].kind = "choice" /\ log[i].by # p}
<1>4. /\ choices = {j \in b + 1..n : IsOther(j)}
      /\ {j \in choices : log[j].found} = {j \in b + 1..n : IsFound(j)}
      /\ RevealsFor(p) = {Fact(i - 1, "reveal") : i \in {j \in b + 1..n : IsReveal(j)}}
  BY DEF RevealsFor
<1>5. CASE question[p] = None
  <2>1. b = 0 /\ b + 1 = 1
    BY <1>5 DEF Base
  <2>2. {f \in public : f.ac <= n} = {f \in public : f.ac >= b}
    BY <1>1, <2>1
  <2>3. {j \in 1..n : IsSearch(j)} = {}
    BY <1>3, <2>1
  <2>4. All(n, search) = New
    <3> HIDE DEF IsReveal, IsOther, IsFound, IsSearch, n, b
    <3> QED BY <2>1, <2>2, <2>3
  <2> HIDE DEF All
  <2> QED BY <1>2, <1>4, <1>5, <2>4
<1>6. CASE question[p] # None
  <2> DEFINE a == question[p].ac
             s == question[p].search
  <2>1. a \in Nat /\ b = a + 1 /\ b - 1 = a /\ b >= 1 /\ b <= n /\ s \in BOOLEAN
    <3>1. question[p] \in Questions /\ a < n
      BY <1>6, TellingTypes DEF IsClosed
    <3>2. b = a + 1
      BY <1>6 DEF Base
    <3>3. a \in Nat /\ s \in BOOLEAN
      BY <3>1, RelayAssumption DEF Questions
    <3> HIDE DEF a, n, s, b
    <3> QED BY <1>1, <3>1, <3>2, <3>3
  <2>2. IsChoiceOf(log[b], p) /\ (log[b].search <=> s)
    <3>1. IsChoiceOf(log[a + 1], p) /\ log[a + 1].search = s
      BY <1>6 DEF IsClosed
    <3> QED BY <2>1, <3>1
  <2>3. ~IsReveal(b) /\ ~IsOther(b) /\ ~IsFound(b) /\ (IsSearch(b) <=> s)
    BY <2>2 DEF IsChoiceOf
  <2> HIDE DEF IsReveal, IsOther, IsFound, IsSearch, n, b, a, s
  <2>4. /\ {j \in 1..n : IsReveal(j)} = {j \in 1..a : IsReveal(j)} \union {j \in b + 1..n : IsReveal(j)}
        /\ {j \in 1..n : IsOther(j)} = {j \in 1..a : IsOther(j)} \union {j \in b + 1..n : IsOther(j)}
        /\ {j \in 1..n : IsFound(j)} = {j \in 1..a : IsFound(j)} \union {j \in b + 1..n : IsFound(j)}
        /\ {j \in 1..n : IsSearch(j)} = {j \in 1..a : IsSearch(j)} \union (IF s THEN {b} ELSE {})
    <3>1. \A i \in 1..n : i \in 1..a \/ i = b \/ i \in b + 1..n
      BY <1>1, <2>1
    <3>2. 1..a \subseteq 1..n /\ b + 1..n \subseteq 1..n /\ b \in 1..n
      BY <1>1, <2>1
    <3> QED BY <1>3, <2>3, <3>1, <3>2
  <2>5. {f \in public : f.ac <= n} = {f \in public : f.ac <= a} \union {f \in public : f.ac >= b}
    BY <1>1, <2>1
  <2>6. {Fact(i - 1, "search") : i \in {j \in 1..n : IsSearch(j)}}
          = {Fact(i - 1, "search") : i \in {j \in 1..a : IsSearch(j)}}
            \union (IF s THEN {Fact(a, "search")} ELSE {})
    <3>1. CASE s
      <4>1. {j \in 1..n : IsSearch(j)} = {j \in 1..a : IsSearch(j)} \union {b}
        BY <2>4, <3>1
      <4> QED BY <2>1, <3>1, <4>1
    <3>2. CASE ~s
      BY <2>4, <3>2
    <3> QED BY <3>1, <3>2
  <2>7. All(n, search) = All(a, s) \union New
    BY <2>4, <2>5, <2>6
  <2> HIDE DEF All
  <2>8. FactsFor(p, n, search) = All(n, search) /\ FactsFor(p, a, s) = All(a, s)
    BY <1>2
  <2>9. FactsFor(p, n, search) = FactsFor(p, question[p].ac, question[p].search) \union New
    BY <2>7, <2>8 DEF a, s
  <2> HIDE DEF New
  <2>10. New = RevealsFor(p)
               \union {f \in public : f.ac >= b}
               \union {Fact(i - 1, "choice") : i \in choices}
               \union {Fact(i - 1, "searched") : i \in {j \in choices : log[j].found}}
               \union (IF search THEN {Fact(n, "search")} ELSE {})
    <3> HIDE DEF choices
    <3> QED BY <1>4 DEF New
  <2> QED BY <1>6, <2>9, <2>10 DEF n, b
<1> QED BY <1>5, <1>6

\* The buffer of a question holds all of its facts, in order.
LEMMA BufferOf ==
    ASSUME NEW r \in Requests, NEW facts \in Seq(Facts)
    PROVE  LET S == (ToSet(r.reveals) \union (IF r.search THEN {Fact(r.ac, "search")} ELSE {}))
                    \union ToSet(facts)
               b == AssembleBuffer(r, facts)
           IN  b \in Seq(Facts) /\ ToSet(b) = S /\ Sorted(b)
<1> DEFINE search == IF r.search THEN <<Fact(r.ac, "search")>> ELSE <<>>
           all == (r.reveals \o search) \o facts
<1>1. search \in Seq(Facts) /\ r.reveals \in Seq(Facts) /\ Fact(r.ac, "search") \in Facts
  BY KindsOfFacts DEF Requests
<1>2. ToSet(search) = IF r.search THEN {Fact(r.ac, "search")} ELSE {}
  <2>1. \A f : ToSet(<<f>>) = {f}
    BY DEF ToSet
  <2>2. ToSet(<<>>) = {}
    BY DEF ToSet
  <2> QED BY <2>1, <2>2
<1>3. AssembleBuffer(r, facts) = SortFacts(all)
  BY DEF AssembleBuffer
<1> HIDE DEF search
<1>4. r.reveals \o search \in Seq(Facts) /\ all \in Seq(Facts)
  BY <1>1
<1>5. ToSet(all) = (ToSet(r.reveals) \union ToSet(search)) \union ToSet(facts)
  <2>1. \A s, t \in Seq(Facts) : ToSet(s \o t) = ToSet(s) \union ToSet(t)
    BY ToSetJoin
  <2>2. ToSet(all) = ToSet(r.reveals \o search) \union ToSet(facts)
    BY <1>4, <2>1
  <2> QED BY <1>1, <2>1, <2>2
<1> HIDE DEF all
<1> QED BY <1>2, <1>3, <1>4, <1>5, FactsAreSorted DEF Sorted

\* What p knew was before its last question, what it is told now is not.
LEMMA NewIsLater ==
    ASSUME RelayInv, NEW p \in Players, KnownFits(p), question[p] # None,
           NEW f \in ToSet(known[p]), NEW g \in Facts, g.ac >= Base(p)
    PROVE  f.ac < g.ac
<1> DEFINE a == question[p].ac
<1>1. /\ Base(p) = a + 1 /\ a \in Nat /\ g.ac \in Nat
      /\ \A d \in public : d.ac \in Nat
  BY TellingTypes, RelayAssumption DEF Base, Facts
<1>2. f \in FactsFor(p, a, question[p].search)
  BY DEF KnownFits
<1> HIDE DEF a
<1>3. f.ac \in Int /\ f.ac <= a
  <2>1. \A i \in 1..a : \A k : Fact(i - 1, k).ac \in Int /\ Fact(i - 1, k).ac <= a
    BY <1>1 DEF Fact
  <2>2. Fact(a, "search").ac \in Int /\ Fact(a, "search").ac <= a
    BY <1>1 DEF Fact
  <2>3. \A d \in public : d.ac <= a => d.ac \in Int /\ d.ac <= a
    BY <1>1
  <2> QED BY <1>2, <2>1, <2>2, <2>3 DEF FactsFor
<1> QED BY <1>1, <1>3

\* The question that a handler takes is the one the game waits at, and nothing
\* is behind it.
LEMMA QuestionMet ==
    ASSUME RelayInv, ToldInv, NEW p \in Players, HandleMessage(p), HandleRequest(p)
    PROVE  /\ handler[p].alive /\ inbox[p] # <<>> /\ Head(inbox[p]).type = "request"
           /\ inbox' = [inbox EXCEPT ![p] = Tail(inbox[p])]
           /\ UNCHANGED <<gameVars, linkVars, coord, runVars, connected, strays, told>>
           /\ ~NoQuestion(inbox[p])
           /\ coord.at = "await" /\ coord.player = p /\ coord.request \in Requests
           /\ \A q \in Players : request[q] = None /\ response[q] = None
           /\ Head(inbox[p]).request = coord.request /\ NoQuestion(Tail(inbox[p]))
           /\ game.at = "waiting" /\ game.player = p /\ coord.request.ac = Len(log)
           /\ inbox'[p] = Tail(inbox[p]) /\ \A q \in Players : q # p => inbox'[q] = inbox[q]
           /\ FactsOf(inbox[p]) = {} /\ FactsOf(inbox'[p]) = {}
           /\ \A q \in Players : QuestionsLast(inbox'[q])
           /\ pending = <<>> /\ Travelling = {} /\ coord.request.search = game.search
           /\ p \notin strays => ToSet(coord.request.reveals) = RevealsFor(p)
<1>1. /\ handler[p].alive /\ inbox[p] # <<>> /\ Head(inbox[p]).type = "request"
      /\ inbox' = [inbox EXCEPT ![p] = Tail(inbox[p])]
      /\ UNCHANGED <<gameVars, linkVars, coord, runVars, connected, strays, told>>
  BY DEF HandleMessage, HandleRequest
<1>2. /\ handler \in [Players -> HandlerStates] /\ inbox \in [Players -> Seq(Messages)]
      /\ question \in [Players -> Questions \union {None}]
      /\ known \in [Players -> Seq(Facts)]
      /\ handler[p] \in HandlerStates /\ inbox[p] \in Seq(Messages)
  BY DEF RelayInv, TypeOK, HandlerTypes, ClientTypes, HandlerStates
<1>3. /\ ~NoQuestion(inbox[p])
      /\ \A r : OnlyQuestion(inbox[p], r) =>
           Head(inbox[p]).request = r /\ NoQuestion(Tail(inbox[p]))
  BY <1>1, <1>2, TakesMessage
<1>4. /\ coord.at = "await" /\ coord.player = p
      /\ coord.request \in Requests /\ Holds(p, coord.request)
      /\ IsNextOf(p, coord.request)
      /\ \A q \in Players : request[q] = None /\ response[q] = None
  BY <1>1, <1>3, TellingTypes DEF Quiet, RelayInv, CoordinatorInv
<1>5. PICK r \in Requests : r = coord.request
  BY <1>4
<1>6. /\ Head(inbox[p]).request = r /\ NoQuestion(Tail(inbox[p]))
      /\ game.at = "waiting" /\ game.player = p /\ r.ac = Len(log)
  BY <1>3, <1>4, <1>5 DEF Holds, IsNextOf
<1>7. /\ inbox'[p] = Tail(inbox[p]) /\ \A q \in Players : q # p => inbox'[q] = inbox[q]
  BY <1>1, <1>2
<1>8. /\ QuestionsLast(inbox'[p]) /\ FactsOf(inbox[p]) = {} /\ FactsOf(inbox'[p]) = {}
      /\ \A q \in Players : QuestionsLast(inbox'[q])
  <2>1. \A q \in Players : QuestionsLast(inbox[q])
    BY DEF ToldInv
  <2> QED BY <1>1, <1>2, <1>7, <2>1, FactsTaken
<1>9. /\ pending = <<>> /\ Travelling = {} /\ r.search = game.search
      /\ p \notin strays => ToSet(r.reveals) = RevealsFor(p)
  <2>1. /\ pending = <<>> /\ r.search = game.search
        /\ p \notin strays => ToSet(r.reveals) = RevealsFor(p)
    BY <1>3, <1>4, <1>5, <1>6 DEF ToldInv, RequestsTell
  <2>2. ToSet(pending) = {}
    BY <2>1, TellingTypes, ToSetJoin
  <2> QED BY <1>4, <2>1, <2>2 DEF Travelling
<1> QED BY <1>1, <1>3, <1>4, <1>5, <1>6, <1>7, <1>8, <1>9

\* The buffer of a question holds what was not known, and all of it comes later.
LEMMA BufferIsNew ==
    ASSUME RelayInv, ToldInv, NEW p \in Players \ strays,
           HandleMessage(p), HandleRequest(p)
    PROVE  LET r == coord.request
               b == AssembleBuffer(r, handler[p].facts)
               old == IF question[p] = None THEN {}
                      ELSE FactsFor(p, question[p].ac, question[p].search)
           IN  /\ b \in Seq(Facts) /\ Sorted(b)
               /\ known[p] \in Seq(Facts) /\ ToSet(known[p]) = old /\ Sorted(known[p])
               /\ FactsFor(p, Len(log), r.search) = old \union ToSet(b)
               /\ ToSet(handler[p].facts) = Owed(p) /\ ToSet(r.reveals) = RevealsFor(p)
               /\ \A f \in ToSet(known[p]) : \A g \in ToSet(b) : f.ac < g.ac
<1>1. PICK r \in Requests : r = coord.request
  BY QuestionMet
<1>2. /\ handler[p].alive /\ ~NoQuestion(inbox[p]) /\ Travelling = {}
      /\ coord.at = "await" /\ coord.player = p
      /\ \A q \in Players : request[q] = None /\ response[q] = None
      /\ game.at = "waiting" /\ game.player = p /\ r.ac = Len(log)
      /\ FactsOf(inbox[p]) = {} /\ ToSet(r.reveals) = RevealsFor(p)
      /\ PlaceOf(p) /\ KnownFits(p) /\ Len(log) \in Nat
      /\ handler[p].facts \in Seq(Facts) /\ known[p] \in Seq(Facts)
  <2>1. /\ PlaceOf(p) /\ KnownFits(p)
    BY DEF ToldInv
  <2>2. Len(log) \in Nat /\ handler[p].facts \in Seq(Facts) /\ known[p] \in Seq(Facts)
    BY TellingTypes DEF HandlerStates
  <2> QED BY <1>1, <2>1, <2>2, QuestionMet
<1> DEFINE b == AssembleBuffer(r, handler[p].facts)
<1>3. /\ IsClosed(p) /\ \A i \in Base(p) + 1..Len(log) : ~IsChoiceOf(log[i], p)
  BY <1>2 DEF ToldInv, PlaceOf
<1>4. ToSet(handler[p].facts) = Owed(p)
  <2>1. (Gathered(p) \union Held(p)) \union Travelling = Owed(p)
    BY <1>2 DEF ToldInv, OwedIsGathered
  <2>2. Held(p) = {}
    BY <1>2 DEF Held
  <2> QED BY <1>2, <2>1, <2>2 DEF Gathered
<1> DEFINE choices == {i \in Base(p) + 1..Len(log) : log[i].kind = "choice" /\ log[i].by # p}
           S == RevealsFor(p) \union (IF r.search THEN {Fact(r.ac, "search")} ELSE {})
                \union Owed(p)
           old == IF question[p] = None THEN {}
                  ELSE FactsFor(p, question[p].ac, question[p].search)
<1>5. b \in Seq(Facts) /\ ToSet(b) = S /\ Sorted(b)
  <2>1. handler[p].facts \in Seq(Facts)
    BY <1>2 DEF HandlerStates
  <2>2. ToSet(r.reveals) = RevealsFor(p)
    BY <1>2
  <2> QED BY <1>4, <2>1, <2>2, BufferOf
<1>6. Owed(p) = {f \in public : f.ac >= Base(p)}
                \union {Fact(i - 1, "choice") : i \in choices}
                \union {Fact(i - 1, "searched") : i \in {j \in choices : log[j].found}}
  <2>1. JustAnswered(p) = {}
    BY <1>2 DEF JustAnswered
  <2> QED BY <2>1 DEF Owed
<1>7. FactsFor(p, Len(log), r.search) = old \union S
  <2>1. \A f \in public : f.ac <= Len(log)
    BY DEF ToldInv
  <2>2. r.search \in BOOLEAN
    BY DEF Requests
  <2>3. FactsFor(p, Len(log), r.search) =
          old \union RevealsFor(p)
          \union {f \in public : f.ac >= Base(p)}
          \union {Fact(i - 1, "choice") : i \in choices}
          \union {Fact(i - 1, "searched") : i \in {j \in choices : log[j].found}}
          \union (IF r.search THEN {Fact(Len(log), "search")} ELSE {})
    BY <1>3, <2>1, <2>2, FactsSince
  <2> HIDE DEF old, choices
  <2> QED BY <1>2, <1>6, <2>3
<1>8. known[p] \in Seq(Facts) /\ ToSet(known[p]) = old /\ Sorted(known[p])
  <2>1. known[p] \in Seq(Facts)
    BY <1>2
  <2>2. CASE question[p] = None
    BY <1>2, <2>1, <2>2 DEF KnownFits, ToSet, Sorted
  <2>3. CASE question[p] # None
    BY <1>2, <2>1, <2>3 DEF KnownFits
  <2> QED BY <2>2, <2>3
<1>9. \A f \in ToSet(known[p]) : \A g \in ToSet(b) : f.ac < g.ac
  <2>1. CASE question[p] = None
    BY <1>8, <2>1
  <2>2. CASE question[p] # None
    <3>1. \A g \in S : g.ac >= Base(p)
      <4>1. Base(p) \in Nat /\ Len(log) \in Nat /\ Base(p) <= Len(log)
        <5>1. question[p].ac < Len(log) /\ Base(p) = question[p].ac + 1
          BY <1>3, <2>2 DEF IsClosed, Base
        <5>2. question[p].ac \in Int /\ Base(p) \in Nat
          BY <2>2, TellingTypes
        <5> QED BY <1>2, <5>1, <5>2
      <4>2. \A i \in Base(p) + 1..Len(log) : \A k : Fact(i - 1, k).ac >= Base(p)
        BY <4>1 DEF Fact
      <4>3. \A g \in RevealsFor(p) : g.ac >= Base(p)
        BY <4>2 DEF RevealsFor
      <4>4. \A g \in Owed(p) : g.ac >= Base(p)
        BY <1>6, <4>2
      <4>5. Fact(r.ac, "search").ac >= Base(p)
        BY <1>2, <4>1 DEF Fact
      <4> QED BY <4>3, <4>4, <4>5
    <3>2. S \subseteq Facts
      BY <1>5, ToSetJoin
    <3> HIDE DEF S
    <3> QED BY <1>2, <1>5, <2>2, <3>1, <3>2, NewIsLater
  <2> QED BY <2>1, <2>2
<1> HIDE DEF b, S, old
<1> QED BY <1>1, <1>2, <1>4, <1>5, <1>7, <1>8, <1>9 DEF b, old

\* A question reaches a client: with it comes all that it did not know.
LEMMA HandleRequestKeepsTold ==
    ASSUME RelayInv, ToldInv, NEW p \in Players, HandleMessage(p), HandleRequest(p)
    PROVE  ToldInv'
<1>1. PICK r \in Requests : r = coord.request
  BY QuestionMet
<1>2. /\ handler[p].alive /\ inbox[p] # <<>> /\ Head(inbox[p]).type = "request"
      /\ inbox' = [inbox EXCEPT ![p] = Tail(inbox[p])]
      /\ UNCHANGED <<gameVars, linkVars, coord, runVars, connected, strays, told>>
      /\ ~NoQuestion(inbox[p])
      /\ coord.at = "await" /\ coord.player = p /\ r \in Requests
      /\ \A q \in Players : request[q] = None /\ response[q] = None
      /\ Head(inbox[p]).request = r /\ NoQuestion(Tail(inbox[p]))
      /\ game.at = "waiting" /\ game.player = p /\ r.ac = Len(log)
      /\ inbox'[p] = Tail(inbox[p]) /\ \A q \in Players : q # p => inbox'[q] = inbox[q]
      /\ FactsOf(inbox[p]) = {} /\ FactsOf(inbox'[p]) = {}
      /\ \A q \in Players : QuestionsLast(inbox'[q])
      /\ pending = <<>> /\ Travelling = {} /\ r.search = game.search
      /\ p \notin strays => ToSet(r.reveals) = RevealsFor(p)
  BY <1>1, QuestionMet
<1>3. /\ handler \in [Players -> HandlerStates] /\ inbox \in [Players -> Seq(Messages)]
      /\ question \in [Players -> Questions \union {None}]
      /\ known \in [Players -> Seq(Facts)]
      /\ handler[p] \in HandlerStates
  BY DEF RelayInv, TypeOK, HandlerTypes, ClientTypes, HandlerStates
<1> DEFINE early == handler[p].early
<1>4. CASE early # None
  <2>1. /\ handler' = [handler EXCEPT ![p].early = None]
        /\ UNCHANGED <<question, known>>
    BY <1>4 DEF HandleRequest
  <2>2. p \in strays
    BY <1>4 DEF ToldInv, PlaceOf
  <2>3. \A q \in Players \ strays : handler'[q] = handler[q] /\ inbox'[q] = inbox[q]
    BY <1>2, <2>1, <2>2
  <2>4. \A q \in Players \ strays : (Gathered(q) \union Held(q))' = Gathered(q) \union Held(q)
    BY <1>2, <2>3 DEF Gathered, Held
  <2> QED BY <1>2, <2>1, <2>3, <2>4, QuietKeepsTold DEF linkVars
<1>5. CASE early = None
  <2> DEFINE b == AssembleBuffer(r, handler[p].facts)
             x == [seq |-> r.seq, ac |-> r.ac, search |-> r.search]
  <2>1. /\ question' = [question EXCEPT ![p] = x]
        /\ known' = [known EXCEPT ![p] = known[p] \o b]
        /\ handler' = [handler EXCEPT ![p].waiting = TRUE, ![p].facts = <<>>]
    <3>1. /\ question' = [question EXCEPT ![p] = x]
          /\ known' = [known EXCEPT ![p] = @ \o b]
          /\ handler' = [handler EXCEPT ![p].waiting = TRUE, ![p].facts = <<>>]
      BY <1>2, <1>5 DEF HandleRequest
    <3> QED BY <3>1, Zenon
  <2>2. /\ \A q \in Players : q # p => handler'[q] = handler[q]
        /\ handler'[p].facts = <<>> /\ handler'[p].early = None
    BY <1>3, <1>5, <2>1 DEF HandlerStates
  <2>3. x.ac = Len(log) /\ x.search = game.search /\ x # None
    <3>1. x \in Questions
      BY DEF Questions, Requests
    <3> QED BY <1>2, <3>1, EmptySlotAssumption
  <2> HIDE DEF x
  <2>4. /\ question'[p] = x
        /\ \A q \in Players : q # p => question'[q] = question[q] /\ known'[q] = known[q]
        /\ known'[p] = known[p] \o b
    BY <1>3, <2>1
  <2>5. \A q \in Players : q # p =>
          /\ Base(q)' = Base(q) /\ RevealsFor(q)' = RevealsFor(q)
          /\ IsOpen(q)' = IsOpen(q) /\ IsClosed(q)' = IsClosed(q)
    BY <1>2, <2>4 DEF Base, RevealsFor, IsOpen, IsClosed, IsChoiceOf, gameVars
  <2>6. /\ Base(p)' = Len(log) + 1 /\ IsOpen(p)' /\ Len(log) \in Nat
    <3>1. IsOpen(p)'
      BY <1>2, <2>3, <2>4 DEF IsOpen, gameVars
    <3> QED BY <2>3, <2>4, <3>1, TellingTypes DEF Base
  <2>7. \A q \in Players : revealed'[q] <= Len(log') /\ QuestionsLast(inbox'[q])
    BY <1>2 DEF ToldInv, gameVars
  <2>8. \A f \in public' : f.ac <= Len(log') /\ f.kind \in {"reorder", "dig"}
    BY <1>2 DEF ToldInv, gameVars
  <2>9. ASSUME NEW q \in Players \ strays PROVE PlaceOf(q)'
    <3>1. PlaceOf(q)
      BY DEF ToldInv
    <3>2. CASE q # p
      <4>1. (handler[q].early = None)' /\ (IsOpen(q)' \/ IsClosed(q)')
        BY <2>2, <2>5, <3>1, <3>2 DEF PlaceOf
      <4>2. \A i \in Base(q)' + 1..Len(log') : ~IsChoiceOf(log'[i], q)
        BY <1>2, <2>5, <3>1, <3>2 DEF PlaceOf, IsChoiceOf, gameVars
      <4>3. (request[q] = None)' /\ (response[q] = None)' /\ (coord.player # q)'
        BY <1>2, <3>2 DEF linkVars
      <4>4. (revealed[q] <= Base(q) \/ (game.at # "playing" /\ game.player = q))'
        BY <1>2, <2>5, <3>1, <3>2 DEF PlaceOf, gameVars
      <4> QED BY <4>1, <4>2, <4>3, <4>4 DEF PlaceOf
    <3>3. CASE q = p
      <4>1. (handler[p].early = None)' /\ IsOpen(p)' /\ NoQuestion(inbox'[p])
        BY <1>2, <2>2, <2>6
      <4>2. \A i \in Base(p)' + 1..Len(log') : ~IsChoiceOf(log'[i], p)
        BY <1>2, <2>6 DEF gameVars
      <4>3. (request[p] = None)' /\ (game.at # "playing" /\ game.player = p)'
        BY <1>2 DEF linkVars, gameVars
      <4> QED BY <3>3, <4>1, <4>2, <4>3 DEF PlaceOf
    <3> QED BY <3>2, <3>3
  <2>10. RequestsTell'
    <3>1. coord'.request.search = game'.search /\ pending' = <<>>
      BY <1>2, <1>1 DEF gameVars
    <3>2. \A q \in Players : request'[q] = None
      BY <1>2 DEF linkVars
    <3>3. NoQuestion(inbox'[coord'.player])
      BY <1>2
    <3> QED BY <3>1, <3>2, <3>3 DEF RequestsTell
  <2>11. OwedIsGathered'
    <3> SUFFICES ASSUME NEW q \in Players \ strays, handler'[q].alive
                 PROVE  (Gathered(q) \union Held(q))' \union Travelling' = Owed(q)'
      BY <1>2 DEF OwedIsGathered
    <3>1. Travelling' = {}
      BY <1>2 DEF Travelling, gameVars, linkVars
    <3>2. /\ JustAnswered(q)' = {} /\ JustAnswered(q) = {}
          /\ Held(q)' = {} /\ Held(q) = {}
      BY <1>2 DEF JustAnswered, Held, linkVars
    <3>3. CASE q # p
      <4>1. (Gathered(q) \union Held(q)) \union Travelling = Owed(q)
        BY <1>2, <2>2, <3>3 DEF ToldInv, OwedIsGathered
      <4>2. Gathered(q)' = Gathered(q)
        BY <1>2, <2>2, <3>3 DEF Gathered
      <4>3. Owed(q)' = Owed(q)
        BY <1>2, <2>5, <3>2, <3>3 DEF Owed, gameVars
      <4> QED BY <1>2, <3>1, <3>2, <4>1, <4>2, <4>3
    <3>4. CASE q = p
      <4>1. Gathered(p)' = {}
        BY <1>2, <2>2 DEF Gathered, ToSet
      <4>2. log' = log /\ public' = public
        BY <1>2 DEF gameVars
      <4>3. \A f \in public : ~(f.ac >= Len(log) + 1)
        <5>1. \A f \in public : f.ac \in Int /\ f.ac <= Len(log)
          BY TellingTypes, RelayAssumption DEF ToldInv, Facts
        <5> QED BY <2>6, <5>1
      <4>4. Len(log) + 1 + 1..Len(log) = {}
        BY <2>6
      <4>5. Owed(p)' = {}
        BY <2>6, <3>2, <3>4, <4>2, <4>3, <4>4 DEF Owed
      <4> QED BY <3>1, <3>2, <3>4, <4>1, <4>5
    <3> QED BY <3>3, <3>4
  <2>12. ASSUME NEW q \in Players \ strays PROVE KnownFits(q)'
    <3>1. KnownFits(q)
      BY DEF ToldInv
    <3>2. CASE q # p
      BY <1>2, <2>4, <3>1, <3>2 DEF KnownFits, FactsFor, gameVars
    <3>3. CASE q = p
      <4> DEFINE old == IF question[p] = None THEN {}
                        ELSE FactsFor(p, question[p].ac, question[p].search)
      <4>1. /\ b \in Seq(Facts) /\ Sorted(b)
            /\ known[p] \in Seq(Facts) /\ ToSet(known[p]) = old /\ Sorted(known[p])
            /\ FactsFor(p, Len(log), r.search) = old \union ToSet(b)
            /\ \A f \in ToSet(known[p]) : \A g \in ToSet(b) : f.ac < g.ac
        <5>1. p \in Players \ strays /\ r = coord.request
          BY <1>1, <3>3
        <5> QED BY <5>1, BufferIsNew
      <4> HIDE DEF b, old
      <4>8. Sorted(known'[p])
        BY <2>4, <4>1, SortedJoin
      <4>9. ToSet(known'[p]) = FactsFor(p, Len(log), r.search)
        BY <2>4, <4>1, ToSetJoin
      <4>10. FactsFor(p, question[p].ac, question[p].search)' = FactsFor(p, Len(log), r.search)
        <5>1. question'[p].ac = Len(log) /\ question'[p].search = r.search
          BY <1>2, <2>3, <2>4
        <5> QED BY <1>2, <5>1 DEF FactsFor, gameVars
      <4> QED BY <2>3, <2>4, <3>3, <4>8, <4>9, <4>10 DEF KnownFits
    <3> QED BY <3>2, <3>3
  <2> QED BY <1>2, <2>7, <2>8, <2>9, <2>10, <2>11, <2>12 DEF ToldInv
<1> QED BY <1>4, <1>5

-----------------------------------------------------------------------------
(* The steps that ask nothing.                                             *)

\* Facts are taken out of the queue and kept, and an ending is passed on.
LEMMA HandleOtherKeepsTold ==
    ASSUME RelayInv, ToldInv, NEW p \in Players, HandleMessage(p),
           HandleFacts(p) \/ HandleEnd(p)
    PROVE  ToldInv'
<1> DEFINE m == Head(inbox[p])
<1>1. /\ inbox[p] # <<>> /\ m.type # "request" /\ handler[p].alive
      /\ inbox' = [inbox EXCEPT ![p] = Tail(inbox[p])]
      /\ UNCHANGED <<gameVars, linkVars, coord, strays, question, known>>
  BY DEF HandleMessage, HandleFacts, HandleEnd
<1>2. /\ handler \in [Players -> HandlerStates] /\ inbox \in [Players -> Seq(Messages)]
      /\ handler[p] \in HandlerStates /\ inbox[p] \in Seq(Messages)
  BY DEF RelayInv, TypeOK, HandlerTypes, HandlerStates
<1>3. /\ inbox'[p] = Tail(inbox[p]) /\ \A q \in Players : q # p => inbox'[q] = inbox[q]
  BY <1>1, <1>2
<1>4. /\ FactsOf(inbox[p]) = {f \in Facts : IsFactIn(f, m)} \union FactsOf(inbox'[p])
      /\ QuestionsLast(inbox[p]) => QuestionsLast(inbox'[p])
      /\ NoQuestion(inbox'[p]) <=> NoQuestion(inbox[p])
  BY <1>1, <1>2, <1>3, FactsTaken
<1>5. /\ \A q \in Players : QuestionsLast(inbox'[q])
      /\ \A q \in Players : NoQuestion(inbox'[q]) <=> NoQuestion(inbox[q])
  BY <1>3, <1>4 DEF ToldInv
<1>6. /\ \A q \in Players : q # p => handler'[q] = handler[q]
      /\ handler'[p].early = handler[p].early
      /\ handler'[p].alive => Gathered(p)' = Gathered(p)
  <2>1. CASE HandleFacts(p)
    <3> DEFINE kept == CASE m.type = "opponent" -> handler[p].facts \o m.facts
                         [] m.type = "public"   -> Append(handler[p].facts, m.fact)
                         [] m.type = "accepted" -> handler[p].facts
               h == [handler[p] EXCEPT !.facts = kept]
    <3>1. handler' = [handler EXCEPT ![p] = h] /\ m.type \in {"opponent", "public", "accepted"}
      <4>1. /\ handler' = [handler EXCEPT ![p].facts =
                 CASE m.type = "opponent" -> @ \o m.facts
                   [] m.type = "public"   -> Append(@, m.fact)
                   [] m.type = "accepted" -> @]
            /\ m.type \in {"opponent", "public", "accepted"}
        BY <2>1 DEF HandleFacts
      <4> QED BY <4>1, Zenon
    <3>2. m \in Messages
      BY <1>1, <1>2, TakesMessage
    <3>3. handler[p].facts \in Seq(Facts)
      BY <1>2 DEF HandlerStates
    <3>4. ToSet(kept) = ToSet(handler[p].facts) \union {f \in Facts : IsFactIn(f, m)}
      <4>1. CASE m.type = "opponent"
        <5>1. m.facts \in Seq(Facts) /\ kept = handler[p].facts \o m.facts
          BY <3>2, <4>1 DEF Messages
        <5>2. ToSet(m.facts) \subseteq Facts /\ ToSet(kept) = ToSet(handler[p].facts) \union ToSet(m.facts)
          BY <3>3, <5>1, ToSetJoin
        <5>3. \A f : IsFactIn(f, m) <=> f \in ToSet(m.facts)
          BY <4>1 DEF IsFactIn
        <5> HIDE DEF kept, m
        <5> QED BY <5>2, <5>3
      <4>2. CASE m.type = "public"
        <5>1. m.fact \in Facts /\ kept = Append(handler[p].facts, m.fact)
          BY <3>2, <4>2 DEF Messages
        <5>2. ToSet(kept) = ToSet(handler[p].facts) \union {m.fact}
          BY <3>3, <5>1, ToSetJoin
        <5>3. \A f : IsFactIn(f, m) <=> f = m.fact
          BY <4>2 DEF IsFactIn
        <5> HIDE DEF kept, m
        <5> QED BY <5>1, <5>2, <5>3
      <4>3. CASE m.type = "accepted"
        <5>1. kept = handler[p].facts
          BY <4>3
        <5>2. \A f : ~IsFactIn(f, m)
          BY <4>3 DEF IsFactIn
        <5> HIDE DEF kept, m
        <5> QED BY <5>1, <5>2
      <4> QED BY <3>1, <4>1, <4>2, <4>3
    <3> HIDE DEF kept
    <3>5. h.facts = kept /\ h.early = handler[p].early
      BY <1>2 DEF HandlerStates
    <3> HIDE DEF h
    <3>6. handler'[p] = h /\ \A q \in Players : q # p => handler'[q] = handler[q]
      BY <1>2, <3>1
    <3> HIDE DEF m
    <3>7. Gathered(p)' = Gathered(p)
      BY <1>4, <3>4, <3>5, <3>6 DEF Gathered
    <3> QED BY <3>5, <3>6, <3>7
  <2>2. CASE HandleEnd(p)
    <3>1. handler' = [handler EXCEPT ![p].alive = FALSE]
      BY <2>2 DEF HandleEnd
    <3> QED BY <1>2, <3>1 DEF HandlerStates
  <2> QED BY <2>1, <2>2
<1>7. \A q \in Players : handler'[q].early = handler[q].early
  BY <1>6
<1>8. \A q \in Players : handler'[q].alive =>
        handler[q].alive /\ (Gathered(q) \union Held(q))' = Gathered(q) \union Held(q)
  <2>1. \A q \in Players : q # p => Gathered(q)' = Gathered(q)
    BY <1>3, <1>6 DEF Gathered
  <2>2. \A q \in Players : Held(q)' = Held(q)
    BY <1>1 DEF Held
  <2> QED BY <1>1, <1>6, <2>1, <2>2
<1> QED BY <1>1, <1>5, <1>7, <1>8, QuietKeepsTold DEF linkVars

\* A handler that ends, hands an answer on or keeps one: nothing in its queue
\* and nothing it has gathered moves.
LEMMA UnaskedKeepsTold ==
    ASSUME RelayInv, ToldInv, NEW p \in Players,
           NEW h \in HandlerStates, handler' = [handler EXCEPT ![p] = h],
           h.facts = handler[p].facts, h.alive => handler[p].alive,
           h.early = handler[p].early \/ p \in strays', strays \subseteq strays',
           UNCHANGED <<gameVars, linkVars, coord, inbox, question, known>>
    PROVE  ToldInv'
<1>1. /\ handler'[p] = h /\ \A q \in Players : q # p => handler'[q] = handler[q]
  BY DEF RelayInv, TypeOK, HandlerTypes
<1>2. \A q \in Players : (Gathered(q) \union Held(q))' = Gathered(q) \union Held(q)
  BY <1>1 DEF Gathered, Held
<1>3. \A q \in Players : QuestionsLast(inbox'[q])
  BY DEF ToldInv
<1>4. \A q \in Players \ strays' : handler'[q].early = handler[q].early
  BY <1>1
<1>5. \A q \in Players : handler'[q].alive => handler[q].alive
  BY <1>1
<1>6. \A q \in Players : NoQuestion(inbox'[q]) <=> NoQuestion(inbox[q])
  OBVIOUS
<1> QED BY <1>2, <1>3, <1>4, <1>5, <1>6, QuietKeepsTold DEF linkVars

\* A handler that ends by itself, and what the clients do.
LEMMA ClientKeepsTold ==
    ASSUME RelayInv, ToldInv, NEW p \in Players,
           HandlerGivesUp(p) \/ HandleClose(p) \/ ClientStep(p)
    PROVE  ToldInv'
<1>1. handler[p] \in HandlerStates /\ handler \in [Players -> HandlerStates]
  BY DEF RelayInv, TypeOK, HandlerTypes, HandlerStates
<1> DEFINE dead == [handler[p] EXCEPT !.alive = FALSE]
           sent == [handler[p] EXCEPT !.waiting = FALSE]
<1>2. /\ dead \in HandlerStates /\ dead.facts = handler[p].facts
      /\ dead.early = handler[p].early /\ ~dead.alive
      /\ sent \in HandlerStates /\ sent.facts = handler[p].facts
      /\ sent.early = handler[p].early /\ sent.alive = handler[p].alive
  BY <1>1 DEF HandlerStates
<1>3. ASSUME HandlerGivesUp(p) \/ HandleClose(p) PROVE ToldInv'
  <2>1. /\ handler' = [handler EXCEPT ![p].alive = FALSE]
        /\ UNCHANGED <<gameVars, linkVars, coord, inbox, question, known, strays>>
    BY <1>3 DEF HandlerGivesUp, HandleClose, clientVars
  <2>2. handler' = [handler EXCEPT ![p] = dead]
    BY <2>1, Zenon
  <2> HIDE DEF dead
  <2> QED BY <1>2, <2>1, <2>2, UnaskedKeepsTold
<1>4. ASSUME ClientAnswers(p) PROVE ToldInv'
  <2>1. /\ \/ handler' = [handler EXCEPT ![p].waiting = FALSE]
           \/ handler' = [handler EXCEPT ![p].alive = FALSE]
        /\ UNCHANGED <<gameVars, linkVars, coord, inbox, question, known, strays>>
    BY <1>4 DEF ClientAnswers, HandleSubmit
  <2>2. handler' = [handler EXCEPT ![p] = sent] \/ handler' = [handler EXCEPT ![p] = dead]
    BY <2>1, Zenon
  <2> HIDE DEF dead, sent
  <2> QED BY <1>2, <2>1, <2>2, UnaskedKeepsTold
<1>5. ASSUME ClientStrays(p) PROVE ToldInv'
  <2>1. PICK a : /\ HandleSubmit(p, a) /\ a \in Answers
    <3> DEFINE last == IF question[p] = None THEN [seq |-> 0, ac |-> 0] ELSE question[p]
    <3>1. \E s \in {last.seq, last.seq + 1}, ac \in {last.ac, Len(log)} :
             HandleSubmit(p, [seq |-> s, ac |-> ac, pick |-> "valid"])
      BY <1>5 DEF ClientStrays
    <3>2. PICK s \in {last.seq, last.seq + 1}, ac \in {last.ac, Len(log)} :
             HandleSubmit(p, [seq |-> s, ac |-> ac, pick |-> "valid"])
      BY <3>1
    <3>3. question[p] \in Questions \union {None} /\ Len(log) \in 0..MaxLog /\ MaxLog \in Nat
      BY TellingTypes
    <3>4. last.seq \in Nat /\ last.ac \in 0..MaxLog
      BY <3>3 DEF Questions
    <3> HIDE DEF last
    <3>5. [seq |-> s, ac |-> ac, pick |-> "valid"] \in Answers
      BY <3>2, <3>3, <3>4 DEF Answers
    <3> QED BY <3>2, <3>5
  <2> DEFINE h == [handler[p] EXCEPT !.early = a]
  <2>2. /\ handler' = [handler EXCEPT ![p].early = a]
        /\ UNCHANGED <<gameVars, linkVars, coord, inbox, question, known>>
        /\ strays' = strays \union {p}
    BY <1>5, <2>1 DEF ClientStrays, HandleSubmit
  <2>3. handler' = [handler EXCEPT ![p] = h]
    BY <2>2, Zenon
  <2>4. h \in HandlerStates /\ h.facts = handler[p].facts /\ h.alive = handler[p].alive
    BY <1>1, <2>1 DEF HandlerStates
  <2> HIDE DEF h
  <2> QED BY <2>2, <2>3, <2>4, UnaskedKeepsTold
<1>6. ASSUME ClientLeaves(p) PROVE ToldInv'
  <2>1. UNCHANGED <<gameVars, linkVars, coord, inbox, handler, question, known, strays>>
    BY <1>6 DEF ClientLeaves
  <2>2. handler' = [handler EXCEPT ![p] = handler[p]]
    BY <1>1, <2>1
  <2> QED BY <1>1, <2>1, <2>2, UnaskedKeepsTold
<1> HIDE DEF dead, sent
<1> QED BY <1>3, <1>4, <1>5, <1>6 DEF ClientStep

\* The runner, and nothing at all.
LEMMA RunnerKeepsTold ==
    ASSUME RelayInv, ToldInv, RunnerStep \/ UNCHANGED vars
    PROVE  ToldInv'
<1>1. /\ UNCHANGED <<gameVars, linkVars, inbox, question, known, strays>>
      /\ \/ UNCHANGED <<coord, handler>>
         \/ /\ coord' = [coord EXCEPT !.at = "ended"]
            /\ handler' = [p \in Players |-> [handler[p] EXCEPT !.alive = FALSE]]
  BY DEF RunnerStep, RunnerSeesEnd, RunnerStops, clientVars, vars
<1>2. \A q \in Players : handler[q] \in HandlerStates
  BY TellingTypes
<1>3. /\ \A q \in Players : handler'[q].early = handler[q].early
      /\ (coord' = coord /\ handler' = handler) \/ coord'.at = "ended"
  BY <1>1, <1>2 DEF HandlerStates, RelayInv, TypeOK, CoordinatorTypes
<1>4. \A q \in Players : QuestionsLast(inbox'[q])
  BY <1>1 DEF ToldInv
<1>5. coord' = coord /\ handler' = handler =>
        \A q \in Players : (Gathered(q) \union Held(q))' = Gathered(q) \union Held(q)
  BY <1>1 DEF Gathered, Held
<1> QED BY <1>1, <1>3, <1>4, <1>5, QuietKeepsTold DEF linkVars

\* The invariant of what the clients know holds in every state.
THEOREM ToldInvariant == Spec => []ToldInv
<1>1. Init => ToldInv
  <2> SUFFICES ASSUME Init PROVE ToldInv
    OBVIOUS
  <2>1. /\ log = <<>> /\ pending = <<>> /\ public = {} /\ game.at = "playing"
        /\ coord.at = "select"
        /\ \A p \in Players : /\ revealed[p] = 0 /\ inbox[p] = <<>> /\ known[p] = <<>>
                              /\ handler[p].early = None /\ handler[p].facts = <<>>
                              /\ question[p] = None /\ request[p] = None /\ response[p] = None
    BY DEF Init
  <2>2. ToSet(<<>>) = {} /\ FactsOf(<<>>) = {} /\ QuestionsLast(<<>>)
        /\ Len(<<>>) = 0 /\ 0 + 1..0 = {} /\ 0 <= 0
    BY DEF ToSet, FactsOf, QuestionsLast
  <2>3. \A p \in Players : Base(p) = 0
    BY <2>1 DEF Base
  <2>4. \A p \in Players : PlaceOf(p) /\ KnownFits(p)
    BY <2>1, <2>2, <2>3 DEF PlaceOf, KnownFits, IsClosed
  <2>5. RequestsTell
    BY <2>1 DEF RequestsTell
  <2>6. OwedIsGathered
    <3> SUFFICES ASSUME NEW p \in Players PROVE (Gathered(p) \union Held(p)) \union Travelling = Owed(p)
      BY DEF OwedIsGathered
    <3>1. Gathered(p) = {} /\ Held(p) = {} /\ Travelling = {}
      BY <2>1, <2>2 DEF Gathered, Held, Travelling
    <3>2. JustAnswered(p) = {}
      BY <2>1 DEF JustAnswered
    <3>3. Owed(p) = {}
      BY <2>1, <2>2, <2>3, <3>2 DEF Owed
    <3> QED BY <3>1, <3>3
  <2> QED BY <2>1, <2>2, <2>4, <2>5, <2>6 DEF ToldInv
<1>2. RelayInv /\ ToldInv /\ [Next]_vars => ToldInv'
  <2> SUFFICES ASSUME RelayInv, ToldInv, [Next]_vars PROVE ToldInv'
    OBVIOUS
  <2>1. CASE UNCHANGED vars
    BY <2>1, RunnerKeepsTold
  <2>2. CASE GameStep
    <3>1. ASSUME NEW p \in Players, NEW search \in Searching, Ask(p, search)
          PROVE  ToldInv'
      BY <3>1, AskKeepsTold, RelayAssumption
    <3>2. ASSUME NEW p \in Players, TakeAnswer(p) PROVE ToldInv'
      BY <3>2, TakeAnswerKeepsTold
    <3> QED BY <2>2, <3>1, <3>2, GameActsKeepsTold, GameEndsKeepsTold DEF GameStep
  <2>3. CASE CoordinatorStep
    <3>1. ASSUME NEW p \in Players, Forward(p) PROVE ToldInv'
      BY <3>1, ForwardKeepsTold
    <3> QED BY <2>3, <3>1, ReceiveAnswerKeepsTold, InformKeepsTold,
               CoordinatorEndsKeepsTold
            DEF CoordinatorStep
  <2>4. CASE RunnerStep
    BY <2>4, RunnerKeepsTold
  <2>5. ASSUME NEW p \in Players, HandlerStep(p) PROVE ToldInv'
    <3>1. CASE HandleMessage(p)
      <4>1. HandleRequest(p) \/ HandleFacts(p) \/ HandleEnd(p)
        BY <3>1 DEF HandleMessage
      <4> QED BY <3>1, <4>1, HandleRequestKeepsTold, HandleOtherKeepsTold
    <3> QED BY <2>5, <3>1, ClientKeepsTold DEF HandlerStep
  <2>6. ASSUME NEW p \in Players, ClientStep(p) PROVE ToldInv'
    BY <2>6, ClientKeepsTold
  <2> QED BY <2>1, <2>2, <2>3, <2>4, <2>5, <2>6 DEF Next
<1> QED BY <1>1, <1>2, RelayInvariant, PTL DEF Spec

-----------------------------------------------------------------------------
(* Each fact once.                                                         *)

\* No fact is twice in a queue to a handler.
OnceIn(s) ==
    /\ \A i \in DOMAIN s : s[i].type = "opponent" => IsInjective(s[i].facts)
    /\ \A i, j \in DOMAIN s : \A f \in Facts :
         IsFactIn(f, s[i]) /\ IsFactIn(f, s[j]) => i = j

\* The lists under way repeat nothing; a dig decision is stamped before what it
\* moves, so that no later one has its stamp.
ListsOnce ==
    /\ IsInjective(pending) /\ ToSet(pending) \subseteq public
    /\ \A f \in public : f.kind = "dig" => f.ac < Len(log)
    /\ \A p \in Players : request[p] # None =>
         IsInjective(request[p].public) /\ IsInjective(request[p].reveals)
    /\ coord.at = "await" => IsInjective(coord.request.reveals)
    /\ coord.at \in {"accept", "inform"} => IsInjective(coord.facts)

\* A fact is in one place on its way to p's client.
FactsOnce(p) ==
    /\ IsInjective(handler[p].facts) /\ OnceIn(inbox[p])
    /\ ToSet(handler[p].facts) \intersect FactsOf(inbox[p]) = {}
    /\ Gathered(p) \intersect Travelling = {}
    /\ Gathered(p) \intersect Held(p) = {}
    /\ Held(p) \intersect Travelling = {}

IsServed(p) ==
    handler[p].alive /\ coord.at # "ended" /\ game.at \in {"playing", "waiting"}

OnceInv ==
    /\ ListsOnce
    /\ \A p \in Players \ strays : IsInjective(known[p]) /\ (IsServed(p) => FactsOnce(p))

-----------------------------------------------------------------------------
(* Lists that repeat nothing.                                              *)

\* Two lists with nothing in common.
LEMMA OnceJoined ==
    ASSUME NEW s \in Seq(Facts), NEW t \in Seq(Facts),
           IsInjective(s), IsInjective(t), ToSet(s) \intersect ToSet(t) = {}
    PROVE  IsInjective(s \o t)
<1>1. /\ DOMAIN (s \o t) = 1..Len(s) + Len(t) /\ DOMAIN s = 1..Len(s) /\ DOMAIN t = 1..Len(t)
      /\ \A i \in 1..Len(s) + Len(t) :
           (s \o t)[i] = IF i <= Len(s) THEN s[i] ELSE t[i - Len(s)]
      /\ Len(s) \in Nat /\ Len(t) \in Nat
  BY ConcatProperties
<1> DEFINE w == s \o t
<1>2. \A i \in DOMAIN w : \/ i \in DOMAIN s /\ w[i] = s[i]
                          \/ i - Len(s) \in DOMAIN t /\ w[i] = t[i - Len(s)]
  BY <1>1
<1>3. \A i \in DOMAIN w : i \in Int
  BY <1>1
<1> HIDE DEF w
<1>4. \A i \in DOMAIN s : \A j \in DOMAIN t : s[i] # t[j]
  BY DEF ToSet
<1>5. ASSUME NEW i \in DOMAIN w, NEW j \in DOMAIN w, w[i] = w[j] PROVE i = j
  <2>1. CASE i \in DOMAIN s /\ w[i] = s[i] /\ j \in DOMAIN s /\ w[j] = s[j]
    BY <1>5, <2>1 DEF IsInjective
  <2>2. CASE /\ i - Len(s) \in DOMAIN t /\ w[i] = t[i - Len(s)]
             /\ j - Len(s) \in DOMAIN t /\ w[j] = t[j - Len(s)]
    <3>1. i - Len(s) = j - Len(s)
      BY <1>5, <2>2 DEF IsInjective
    <3> QED BY <1>1, <1>3, <3>1
  <2> QED BY <1>2, <1>4, <1>5, <2>1, <2>2
<1> QED BY <1>5 DEF IsInjective, w

\* Nothing, one fact, and one more.
LEMMA OnceAdded ==
    ASSUME NEW f \in Facts
    PROVE  /\ IsInjective(<<>>) /\ IsInjective(<<f>>) /\ <<f>> \in Seq(Facts)
           /\ ToSet(<<f>>) = {f} /\ ToSet(<<>>) = {}
           /\ \A s \in Seq(Facts) : IsInjective(s) /\ f \notin ToSet(s) =>
                IsInjective(Append(s, f))
<1>1. /\ IsInjective(<<>>) /\ IsInjective(<<f>>) /\ <<f>> \in Seq(Facts)
      /\ ToSet(<<f>>) = {f} /\ ToSet(<<>>) = {}
  BY DEF IsInjective, ToSet
<1>2. ASSUME NEW s \in Seq(Facts), IsInjective(s), f \notin ToSet(s)
      PROVE  IsInjective(Append(s, f))
  <2>1. Append(s, f) = s \o <<f>>
    OBVIOUS
  <2>2. IsInjective(s \o <<f>>)
    BY <1>1, <1>2, OnceJoined
  <2> QED BY <2>1, <2>2
<1> QED BY <1>1, <1>2

\* Two queues with nothing in common.
LEMMA QueuesJoined ==
    ASSUME NEW s \in Seq(Messages), NEW t \in Seq(Messages),
           OnceIn(s), OnceIn(t), FactsOf(s) \intersect FactsOf(t) = {}
    PROVE  OnceIn(s \o t)
<1>1. /\ DOMAIN (s \o t) = 1..Len(s) + Len(t) /\ DOMAIN s = 1..Len(s) /\ DOMAIN t = 1..Len(t)
      /\ \A i \in 1..Len(s) + Len(t) :
           (s \o t)[i] = IF i <= Len(s) THEN s[i] ELSE t[i - Len(s)]
      /\ Len(s) \in Nat /\ Len(t) \in Nat
  BY ConcatProperties
<1> DEFINE w == s \o t
<1>2. \A i \in DOMAIN w : \/ i \in DOMAIN s /\ w[i] = s[i]
                          \/ i - Len(s) \in DOMAIN t /\ w[i] = t[i - Len(s)]
  BY <1>1
<1>3. \A i \in DOMAIN w : i \in Int
  BY <1>1
<1> HIDE DEF w
<1>4. \A i \in DOMAIN w : w[i].type = "opponent" => IsInjective(w[i].facts)
  BY <1>2 DEF OnceIn
<1>5. ASSUME NEW i \in DOMAIN w, NEW j \in DOMAIN w, NEW f \in Facts,
             IsFactIn(f, w[i]), IsFactIn(f, w[j])
      PROVE  i = j
  <2>1. CASE i \in DOMAIN s /\ w[i] = s[i] /\ j \in DOMAIN s /\ w[j] = s[j]
    BY <1>5, <2>1 DEF OnceIn
  <2>2. CASE /\ i - Len(s) \in DOMAIN t /\ w[i] = t[i - Len(s)]
             /\ j - Len(s) \in DOMAIN t /\ w[j] = t[j - Len(s)]
    <3>1. i - Len(s) = j - Len(s)
      BY <1>5, <2>2 DEF OnceIn
    <3> QED BY <1>1, <1>3, <3>1
  <2>3. ~(\E a \in DOMAIN s : \E b \in DOMAIN t : IsFactIn(f, s[a]) /\ IsFactIn(f, t[b]))
    BY DEF FactsOf
  <2> QED BY <1>2, <1>5, <2>1, <2>2, <2>3
<1> QED BY <1>4, <1>5 DEF OnceIn, w

\* The first message is taken from a queue that repeats nothing.
LEMMA OnceTaken ==
    ASSUME NEW s \in Seq(Messages), s # <<>>, OnceIn(s)
    PROVE  /\ OnceIn(Tail(s))
           /\ {f \in Facts : IsFactIn(f, Head(s))} \intersect FactsOf(Tail(s)) = {}
           /\ Head(s).type = "opponent" => IsInjective(Head(s).facts)
<1> DEFINE t == Tail(s)
<1>1. /\ Head(s) = s[1] /\ 1 \in DOMAIN s
      /\ \A i \in DOMAIN t : i + 1 \in DOMAIN s /\ t[i] = s[i + 1] /\ i \in Nat /\ i # 0
  BY HeadTailProperties
<1> HIDE DEF t
<1>2. \A i \in DOMAIN t : t[i].type = "opponent" => IsInjective(t[i].facts)
  BY <1>1 DEF OnceIn
<1>3. ASSUME NEW i \in DOMAIN t, NEW j \in DOMAIN t, NEW f \in Facts,
             IsFactIn(f, t[i]), IsFactIn(f, t[j])
      PROVE  i = j
  <2>1. i + 1 = j + 1
    BY <1>1, <1>3 DEF OnceIn
  <2> QED BY <1>1, <2>1
<1>4. ASSUME NEW i \in DOMAIN t, NEW f \in Facts, IsFactIn(f, t[i]), IsFactIn(f, s[1])
      PROVE  FALSE
  <2>1. i + 1 = 1
    BY <1>1, <1>4 DEF OnceIn
  <2> QED BY <1>1, <2>1
<1>5. {f \in Facts : IsFactIn(f, Head(s))} \intersect FactsOf(t) = {}
  BY <1>1, <1>4 DEF FactsOf
<1>6. Head(s).type = "opponent" => IsInjective(Head(s).facts)
  BY <1>1 DEF OnceIn
<1> QED BY <1>2, <1>3, <1>5, <1>6 DEF OnceIn, t

\* One message, none, and the public facts of a request.
LEMMA OnceSent ==
    ASSUME NEW m \in Messages, m.type = "opponent" => IsInjective(m.facts)
    PROVE  OnceIn(<<m>>) /\ OnceIn(<<>>)
<1>1. DOMAIN <<m>> = {1} /\ <<m>>[1] = m /\ DOMAIN <<>> = {}
  OBVIOUS
<1> QED BY <1>1 DEF OnceIn

LEMMA OncePublic ==
    ASSUME NEW s \in Seq(Facts), IsInjective(s)
    PROVE  OnceIn([i \in DOMAIN s |-> [type |-> "public", fact |-> s[i]]])
<1> DEFINE t == [i \in DOMAIN s |-> [type |-> "public", fact |-> s[i]]]
<1>1. DOMAIN t = DOMAIN s /\ \A i \in DOMAIN s : t[i].type = "public" /\ t[i].fact = s[i]
  OBVIOUS
<1> HIDE DEF t
<1>2. \A i \in DOMAIN s : \A f : IsFactIn(f, t[i]) <=> f = s[i]
  BY <1>1 DEF IsFactIn
<1>3. \A i, j \in DOMAIN s : s[i] = s[j] => i = j
  BY DEF IsInjective
<1> QED BY <1>1, <1>2, <1>3 DEF OnceIn, t

\* A question adds no fact to a queue.
LEMMA OnceAsked ==
    ASSUME NEW s \in Seq(Messages), OnceIn(s), NEW m \in Messages, m.type = "request"
    PROVE  OnceIn(Append(s, m))
<1>1. Append(s, m) = s \o <<m>> /\ <<m>> \in Seq(Messages)
  OBVIOUS
<1>2. OnceIn(<<m>>)
  BY OnceSent
<1>3. FactsOf(<<m>>) = {}
  <2>1. DOMAIN <<m>> = {1} /\ <<m>>[1] = m
    OBVIOUS
  <2> QED BY <2>1 DEF FactsOf, IsFactIn
<1> QED BY <1>1, <1>2, <1>3, QueuesJoined

-----------------------------------------------------------------------------
(* The steps and the facts.                                                *)

\* What is owed besides reveals, by its kind and place.
LEMMA OwedFacts ==
    ASSUME RelayInv, ToldInv, NEW p \in Players, NEW f \in Owed(p)
    PROVE  /\ f.kind \in {"reorder", "dig", "choice", "searched"}
           /\ f.kind \in {"reorder", "dig"} => f \in public
           /\ f.kind \in {"choice", "searched"} /\ JustAnswered(p) = {} => f.ac < Len(log)
<1> DEFINE choices == {i \in Base(p) + 1..Len(log) : log[i].kind = "choice" /\ log[i].by # p}
<1>1. /\ Len(log) \in Nat /\ Base(p) \in Nat
      /\ \A g \in public : g.kind \in {"reorder", "dig"}
  BY TellingTypes DEF ToldInv
<1>2. \A i \in choices : i \in Int /\ i <= Len(log)
  BY <1>1
<1>3. \A i \in Int : \A k : Fact(i - 1, k).kind = k /\ Fact(i - 1, k).ac = i - 1
  BY DEF Fact
<1>4. CASE f \in public
  BY <1>1, <1>4
<1>5. CASE f \in {Fact(i - 1, "choice") : i \in choices}
              \union {Fact(i - 1, "searched") : i \in {j \in choices : log[j].found}}
  <2> HIDE DEF choices
  <2>1. PICK i \in choices, k \in {"choice", "searched"} : f = Fact(i - 1, k)
    BY <1>5
  <2>2. f.kind = k /\ f.ac = i - 1 /\ i \in Int /\ i <= Len(log)
    BY <1>2, <1>3, <2>1
  <2> QED BY <1>1, <2>2
<1>6. CASE f \in JustAnswered(p)
  <2>1. PICK q \in Players :
          f \in ToSet(OpponentFacts([ac |-> Len(log), search |-> game.search], response[q]))
    BY <1>6 DEF JustAnswered
  <2>2. f.kind \in {"choice", "searched"}
    BY <2>1 DEF OpponentFacts, ToSet, Fact
  <2> QED BY <1>6, <2>2
<1> QED BY <1>4, <1>5, <1>6 DEF Owed

\* What is on its way to a client is owed to it.
LEMMA GatheredIsOwed ==
    ASSUME RelayInv, ToldInv, NEW p \in Players \ strays, IsServed(p)
    PROVE  Gathered(p) \subseteq Owed(p) /\ Held(p) \subseteq Owed(p)
           /\ Travelling \subseteq Owed(p)
BY DEF ToldInv, OwedIsGathered, IsServed

\* Nothing moves on the way to the clients that are still served.
LEMMA QuietKeepsOnce ==
    ASSUME RelayInv, OnceInv,
           UNCHANGED <<pending, public, known>>, Len(log') >= Len(log), Len(log') \in Nat,
           \A q \in Players : request'[q] # None => request'[q] = request[q],
           UNCHANGED <<coord, request>> \/ coord'.at = "ended",
           strays \subseteq strays',
           \A q \in Players \ strays' : IsServed(q)' =>
             /\ IsServed(q) /\ handler'[q].facts = handler[q].facts
             /\ inbox'[q] = inbox[q]
    PROVE  OnceInv'
<1>1. ListsOnce'
  <2>1. \A f \in public : f.ac \in Int
    BY TellingTypes, RelayAssumption DEF Facts
  <2>2. ListsOnce /\ Len(log) \in Nat
    BY TellingTypes DEF OnceInv
  <2> QED BY <2>1, <2>2 DEF ListsOnce
<1>2. ASSUME NEW q \in Players \ strays', IsServed(q)' PROVE FactsOnce(q)'
  <2>1. /\ IsServed(q) /\ q \in Players \ strays
        /\ handler'[q].facts = handler[q].facts /\ inbox'[q] = inbox[q]
    BY <1>2
  <2>2. UNCHANGED <<coord, request>>
    BY <1>2 DEF IsServed
  <2>3. Gathered(q)' = Gathered(q) /\ Travelling' = Travelling /\ Held(q)' = Held(q)
    BY <2>1, <2>2 DEF Gathered, Travelling, Held
  <2>4. FactsOnce(q)
    BY <2>1 DEF OnceInv
  <2> QED BY <2>1, <2>3, <2>4 DEF FactsOnce
<1>3. \A q \in Players \ strays' : IsInjective(known'[q])
  BY DEF OnceInv
<1> QED BY <1>1, <1>2, <1>3 DEF OnceInv

\* What the game does between two choices adds a fact that was never there.
LEMMA DeedKeepsOnce ==
    ASSUME RelayInv, ToldInv, OnceInv, game.at = "playing",
           NEW f \in Facts, f \notin public, f.kind \in {"reorder", "dig"},
           f.kind = "dig" => f.ac < Len(log'),
           pending' = Append(pending, f), public' = public \union {f},
           Len(log') \in Nat, Len(log') >= Len(log),
           UNCHANGED <<game, request, coord, inbox, handler, known, strays>>
    PROVE  OnceInv'
<1>1. /\ pending \in Seq(Facts) /\ Len(log) \in Nat
      /\ \A g \in public : g.ac \in Int
  BY TellingTypes, RelayAssumption DEF Facts
<1>2. ToSet(pending') = ToSet(pending) \union {f}
  BY <1>1, ToSetJoin
<1>3. ListsOnce'
  <2>1. ListsOnce
    BY DEF OnceInv
  <2>2. IsInjective(pending') /\ ToSet(pending') \subseteq public'
    BY <1>1, <1>2, <2>1, OnceAdded DEF ListsOnce
  <2>3. \A g \in public' : g.kind = "dig" => g.ac < Len(log')
    BY <1>1, <2>1 DEF ListsOnce
  <2> QED BY <2>1, <2>2, <2>3 DEF ListsOnce
<1>4. ASSUME NEW p \in Players \ strays, IsServed(p) PROVE FactsOnce(p)'
  <2>1. FactsOnce(p)
    BY <1>4 DEF OnceInv
  <2>2. f \notin Owed(p)
    BY OwedFacts
  <2>3. f \notin Gathered(p) /\ f \notin Held(p)
    BY <1>4, <2>2, GatheredIsOwed
  <2>4. Gathered(p)' = Gathered(p) /\ Held(p)' = Held(p)
    BY DEF Gathered, Held
  <2>5. Travelling' = Travelling \union {f}
    BY <1>2 DEF Travelling
  <2> QED BY <2>1, <2>3, <2>4, <2>5 DEF FactsOnce
<1>5. \A p \in Players \ strays : IsServed(p)' = IsServed(p)
  BY DEF IsServed
<1> QED BY <1>3, <1>4, <1>5 DEF OnceInv

\* Deeds, digs and reorders.
LEMMA GameActsKeepsOnce ==
    ASSUME RelayInv, ToldInv, OnceInv,
           \/ \E to \in Players \union {Nobody} :
                 \/ GameActs([kind |-> "reveal", to |-> to])
                 \/ GameDigs([kind |-> "reveal", to |-> to])
           \/ GameActs([kind |-> "other"])
           \/ GameDigs([kind |-> "other"])
           \/ GameReorders
    PROVE  OnceInv'
<1>1. /\ log \in Seq(Entries) /\ Len(log) \in Nat /\ MaxLog \in Nat
      /\ \A f \in public : f.ac \in Int /\ f.ac <= Len(log)
  BY TellingTypes, RelayAssumption DEF ToldInv, Facts
<1>2. \A e \in Entries : Len(Append(log, e)) = Len(log) + 1
  BY <1>1, AppendProperties
<1>3. /\ \A to \in Players \union {Nobody} : [kind |-> "reveal", to |-> to] \in Entries
      /\ [kind |-> "other"] \in Entries
  BY Zenon DEF Entries
<1>4. ASSUME NEW e \in Entries, GameActs(e) PROVE OnceInv'
  <2>1. /\ UNCHANGED <<pending, public, game, request, coord, inbox, handler, known, strays>>
        /\ Len(log') = Len(log) + 1
    BY <1>2, <1>4 DEF GameActs, linkVars, clientVars
  <2>2. Len(log') \in Nat /\ Len(log') >= Len(log)
    BY <1>1, <2>1
  <2>3. \A q \in Players : IsServed(q)' = IsServed(q)
    BY <2>1 DEF IsServed
  <2> QED BY <2>1, <2>2, <2>3, QuietKeepsOnce
<1>5. ASSUME NEW f \in Facts, f \notin public, f.kind \in {"reorder", "dig"},
             f.kind = "dig" => f.ac = Len(log),
             NEW e \in Entries, log' = Append(log, e),
             game.at = "playing", pending' = Append(pending, f), public' = public \union {f},
             UNCHANGED <<game, request, coord, inbox, handler, known, strays>>
      PROVE  OnceInv'
  <2>1. Len(log') = Len(log) + 1
    BY <1>2, <1>5
  <2>2. Len(log') \in Nat /\ Len(log') >= Len(log) /\ Len(log) < Len(log')
    BY <1>1, <2>1
  <2> QED BY <1>5, <2>2, DeedKeepsOnce
<1>6. ASSUME NEW e \in Entries, GameDigs(e) PROVE OnceInv'
  <2> DEFINE f == Fact(Len(log), "dig")
  <2>0. f \in Facts
    BY <1>1, <1>6, KindsOfFacts DEF GameDigs
  <2>1. f \in Facts /\ f.ac = Len(log) /\ f.kind = "dig"
    BY <2>0 DEF Fact
  <2>2. f \notin public
    <3>1. \A g \in public : g.kind = "dig" => g.ac < Len(log)
      BY DEF OnceInv, ListsOnce
    <3> QED BY <1>1, <2>1, <3>1
  <2>3. /\ log' = Append(log, e) /\ game.at = "playing"
        /\ pending' = Append(pending, f) /\ public' = public \union {f}
        /\ UNCHANGED <<game, request, coord, inbox, handler, known, strays>>
    BY <1>6 DEF GameDigs, linkVars, clientVars
  <2> HIDE DEF f
  <2> QED BY <1>5, <2>1, <2>2, <2>3
<1>7. ASSUME GameReorders PROVE OnceInv'
  <2> DEFINE f == Fact(Len(log) + 1, "reorder")
             e == [kind |-> "other"]
  <2>0. f \in Facts
    BY <1>1, <1>7, KindsOfFacts DEF GameReorders
  <2>1. f \in Facts /\ f.ac = Len(log) + 1 /\ f.kind = "reorder"
    BY <2>0 DEF Fact
  <2>2. f \notin public
    BY <1>1, <2>1
  <2>3. /\ log' = Append(log, e) /\ game.at = "playing"
        /\ pending' = Append(pending, f) /\ public' = public \union {f}
        /\ UNCHANGED <<game, request, coord, inbox, handler, known, strays>>
    BY <1>7 DEF GameReorders, linkVars, clientVars
  <2>4. e \in Entries
    BY <1>3
  <2> HIDE DEF e, f
  <2> QED BY <1>5, <2>1, <2>2, <2>3, <2>4
<1> HIDE DEF GameActs, GameDigs
<1> QED BY <1>3, <1>4, <1>6, <1>7

\* The rest of the game thread's steps.
LEMMA GameKeepsOnce ==
    ASSUME RelayInv, OnceInv,
           \/ \E p \in Players : TakeAnswer(p)
           \/ AnswerChannelCloses \/ GameIsWon
    PROVE  OnceInv'
<1>1. log \in Seq(Entries) /\ Len(log) \in Nat
  BY TellingTypes
<1>2. /\ UNCHANGED <<pending, public, request, coord, inbox, handler, known, strays>>
      /\ log' = log \/ \E e : log' = Append(log, e)
      /\ game.at \in {"playing", "waiting"}
  BY DEF TakeAnswer, AnswerChannelCloses, GameIsWon, linkVars, clientVars
<1>3. \A e : Len(Append(log, e)) = Len(log) + 1
  BY <1>1
<1>4. Len(log') \in Nat /\ Len(log') >= Len(log)
  BY <1>1, <1>2, <1>3
<1>5. \A q \in Players : IsServed(q)' => IsServed(q)
  BY <1>2 DEF IsServed
<1> QED BY <1>2, <1>4, <1>5, QuietKeepsOnce

\* request_choice: what was pending goes with the request.
LEMMA AskKeepsOnce ==
    ASSUME RelayInv, ToldInv, OnceInv, NEW p \in Players, NEW search \in BOOLEAN,
           Ask(p, search)
    PROVE  OnceInv'
<1> DEFINE r == [seq |-> seq[p] + 1, ac |-> Len(log), search |-> search,
                 reveals |-> RevealsSinceLastChoice(p), public |-> pending]
<1>1. /\ game.at = "playing" /\ game'.at = "waiting" /\ pending' = <<>>
      /\ request' = [request EXCEPT ![p] = r]
      /\ UNCHANGED <<log, public, response, coord, inbox, handler, known, strays>>
  BY DEF Ask, clientVars
<1>2. r.public = pending /\ r.reveals = RevealsSinceLastChoice(p)
  OBVIOUS
<1>3. /\ \A q \in Players : request[q] = None
      /\ request \in [Players -> Requests \union {None}]
      /\ coord.at # "await"
  BY <1>1, NobodyAsked DEF RelayInv, TypeOK, CoordinatorTypes
<1>4. RevealsSinceLastChoice(p) \in Seq(Facts) /\ IsInjective(RevealsSinceLastChoice(p))
  BY ScanIsOnce
<1>5. r # None
  <2>1. seq[p] \in Nat /\ Len(log) \in 0..MaxLog /\ pending \in Seq(Facts)
    BY TellingTypes DEF RelayInv, TypeOK, GameTypes
  <2>2. r \in Requests
    BY <1>4, <2>1 DEF Requests
  <2> QED BY <2>2, EmptySlotAssumption
<1> HIDE DEF r
<1>6. \A q \in Players : request'[q] # None => q = p /\ request'[q] = r
  BY <1>1, <1>3
<1>7. request'[p] = r
  BY <1>1, <1>3
<1>8. ToSet(<<>>) = {} /\ IsInjective(<<>>) /\ ToSet(pending) \subseteq Facts
  BY TellingTypes, ToSetJoin DEF IsInjective
<1>9. ListsOnce'
  BY <1>1, <1>2, <1>3, <1>4, <1>6, <1>8 DEF OnceInv, ListsOnce
<1>10. Travelling' = Travelling
  <2>1. Travelling = ToSet(pending)
    BY <1>3 DEF Travelling
  <2>2. Travelling' = {f \in Facts : f \in ToSet(pending)}
    BY <1>1, <1>2, <1>5, <1>6, <1>7, <1>8 DEF Travelling
  <2> QED BY <1>8, <2>1, <2>2
<1>11. ASSUME NEW q \in Players \ strays, IsServed(q)' PROVE FactsOnce(q)'
  <2>1. FactsOnce(q)
    BY <1>1, <1>11 DEF OnceInv, IsServed
  <2>2. Gathered(q)' = Gathered(q) /\ Held(q)' = Held(q)
    BY <1>1 DEF Gathered, Held
  <2> QED BY <1>1, <1>10, <2>1, <2>2 DEF FactsOnce
<1> QED BY <1>1, <1>9, <1>11 DEF OnceInv

\* A message is taken to the queues, or none is.
LEMMA OnceDelivered ==
    ASSUME RelayInv, NEW m \in [Players -> Seq(Messages)], inbox' = Deliver(m),
           NEW q \in Players, handler[q].alive, OnceIn(inbox[q]), OnceIn(m[q]),
           FactsOf(inbox[q]) \intersect FactsOf(m[q]) = {}
    PROVE  OnceIn(inbox'[q]) /\ FactsOf(inbox'[q]) = FactsOf(inbox[q]) \union FactsOf(m[q])
<1>1. inbox'[q] = inbox[q] \o m[q]
  BY Delivery DEF RelayInv, TypeOK
<1>2. inbox[q] \in Seq(Messages) /\ m[q] \in Seq(Messages)
  BY TellingTypes
<1> QED BY <1>1, <1>2, QueuesJoined, FactsJoin

\* The coordinator forwards a request: its public facts arrive once.
LEMMA ForwardKeepsOnce ==
    ASSUME RelayInv, ToldInv, OnceInv, NEW p \in Players, Forward(p)
    PROVE  OnceInv'
<1>0. PICK r \in Requests : r = request[p]
  BY DEF Forward, RelayInv, TypeOK, CoordinatorTypes
<1> DEFINE facts == [i \in DOMAIN r.public |->
                       [type |-> "public", fact |-> r.public[i]]]
           m == [type |-> "request", request |-> r]
           asking == [q \in Players |-> IF q = p THEN Append(facts, m) ELSE facts]
<1>1. /\ coord.at = "select" /\ r # None
      /\ request' = [request EXCEPT ![p] = None]
      /\ \/ /\ coord' = [coord EXCEPT !.at = "await", !.player = p,
                                      !.request = r]
            /\ inbox' = Deliver(asking)
         \/ Ended(None) /\ UNCHANGED inbox
      /\ UNCHANGED <<gameVars, response, outbox, handler, runVars, clientVars>>
  BY <1>0 DEF Forward
<1>2. /\ request \in [Players -> Requests \union {None}]
      /\ IsNextOf(p, r)
      /\ \A q \in Players : request[q] # None => q = p
      /\ Len(log) \in Nat
  BY <1>0, <1>1, TellingTypes
     DEF RelayInv, TypeOK, CoordinatorTypes, CoordinatorInv, GameInv, IsNextOf, Quiet
<1>3. /\ game.at = "waiting" /\ pending = <<>>
  BY <1>2 DEF IsNextOf, ToldInv, RequestsTell
<1>4. \A q \in Players : request'[q] = None
  BY <1>1, <1>2
<1>5. CASE Ended(None) /\ UNCHANGED inbox
  <2>1. coord'.at = "ended"
    BY <1>5 DEF Ended, RelayInv, TypeOK, CoordinatorTypes
  <2>2. UNCHANGED <<pending, public, known, strays, log>>
    BY <1>1 DEF gameVars, clientVars
  <2>3. \A q \in Players : ~IsServed(q)'
    BY <2>1 DEF IsServed
  <2>4. Len(log') >= Len(log) /\ Len(log') \in Nat
    BY <1>2, <2>2
  <2> QED BY <1>4, <2>1, <2>2, <2>3, <2>4, QuietKeepsOnce
<1>6. CASE /\ coord' = [coord EXCEPT !.at = "await", !.player = p, !.request = r]
           /\ inbox' = Deliver(asking)
  <2>1. /\ r.public \in Seq(Facts)
        /\ IsInjective(r.public) /\ IsInjective(r.reveals)
    BY <1>0, <1>1 DEF Requests, OnceInv, ListsOnce
  <2>2. /\ facts \in Seq(Messages) /\ NoQuestion(facts) /\ FactsOf(facts) = ToSet(r.public)
        /\ OnceIn(facts)
    BY <2>1, PublicFacts, OncePublic
  <2>3. m \in Messages /\ m.type = "request"
    BY KindsOfFacts
  <2> HIDE DEF facts, m
  <2>4. /\ Append(facts, m) \in Seq(Messages) /\ OnceIn(Append(facts, m))
        /\ FactsOf(Append(facts, m)) = ToSet(r.public)
    BY <2>2, <2>3, QuestionSentLast, OnceAsked
  <2>5. /\ asking \in [Players -> Seq(Messages)]
        /\ \A q \in Players : OnceIn(asking[q]) /\ FactsOf(asking[q]) = ToSet(r.public)
    BY <2>2, <2>4
  <2> HIDE DEF asking
  <2>6. coord'.at = "await" /\ coord'.player = p /\ coord'.request = r
    BY <1>6 DEF RelayInv, TypeOK, CoordinatorTypes
  <2>7. ToSet(<<>>) = {} /\ ToSet(r.public) \subseteq Facts
    BY <2>1, ToSetJoin
  <2>8. Travelling = ToSet(r.public)
    BY <1>0, <1>1, <1>2, <1>3, <2>7 DEF Travelling
  <2>9. Travelling' = {}
    BY <1>1, <1>3, <1>4, <2>7 DEF Travelling, gameVars
  <2>10. ListsOnce'
    <3>1. ListsOnce
      BY DEF OnceInv
    <3> QED BY <1>1, <1>4, <2>1, <2>6, <3>1 DEF ListsOnce, gameVars
  <2>11. ASSUME NEW q \in Players \ strays, IsServed(q)' PROVE FactsOnce(q)'
    <3>1. IsServed(q) /\ handler[q].alive /\ handler' = handler
      BY <1>1, <1>3, <2>11 DEF IsServed
    <3>2. FactsOnce(q)
      BY <3>1 DEF OnceInv
    <3>3. /\ OnceIn(inbox'[q])
          /\ FactsOf(inbox'[q]) = FactsOf(inbox[q]) \union ToSet(r.public)
      <4>1. FactsOf(inbox[q]) \intersect FactsOf(asking[q]) = {}
        BY <2>5, <2>8, <3>2 DEF FactsOnce, Gathered
      <4> QED BY <1>6, <2>5, <3>1, <3>2, <4>1, OnceDelivered DEF FactsOnce
    <3>4. Held(q)' = {}
      BY <2>6 DEF Held
    <3>5. ToSet(handler[q].facts) \intersect ToSet(r.public) = {}
      BY <2>8, <3>2 DEF FactsOnce, Gathered
    <3>6. ToSet(handler[q].facts) \intersect FactsOf(inbox'[q]) = {}
      BY <3>2, <3>3, <3>5 DEF FactsOnce
    <3> QED BY <2>9, <3>1, <3>2, <3>3, <3>4, <3>6 DEF FactsOnce
  <2> QED BY <1>1, <2>10, <2>11 DEF OnceInv, clientVars
<1> QED BY <1>1, <1>5, <1>6

\* The coordinator accepts an answer: what it holds for the other player is of
\* this place of the log, and nothing on the way is.
LEMMA ReceiveAnswerKeepsOnce ==
    ASSUME RelayInv, ToldInv, OnceInv, ReceiveAnswer
    PROVE  OnceInv'
<1>1. PICK p \in Players, r \in Requests : p = coord.player /\ r = coord.request
  BY DEF ReceiveAnswer, RelayInv, CoordinatorInv
<1>2. PICK a : a = Head(outbox[p]).answer
  OBVIOUS
<1> DEFINE left == OpponentFacts(r, a)
           accept == [coord EXCEPT !.at = "accept", !.request = None, !.facts = left]
<1>3. /\ coord.at = "await"
      /\ \/ inbox' = inbox /\ coord' = accept
         \/ Ended("fatal")
      /\ UNCHANGED <<gameVars, request, handler, runVars, clientVars>>
  BY <1>1, <1>2 DEF ReceiveAnswer, Fits
<1>4. /\ IsNextOf(p, r) /\ Len(log) \in Nat /\ r.ac \in 0..MaxLog
      /\ \A q \in Players : request[q] = None /\ response[q] = None
  BY <1>1, <1>3, TellingTypes DEF RelayInv, CoordinatorInv, Requests
<1>5. UNCHANGED <<pending, public, log, known, strays, game, request, handler>>
  BY <1>3 DEF gameVars, clientVars
<1>6. /\ left \in Seq(Facts) /\ IsInjective(left)
      /\ \A f \in ToSet(left) : f.ac = Len(log) /\ f.kind \in {"choice", "searched"}
  <2>1. left \in Seq(Facts)
    BY <1>4, OpponentFactsType
  <2>2. r.ac = Len(log)
    BY <1>4 DEF IsNextOf
  <2>3. \A k : Fact(r.ac, k).ac = r.ac /\ Fact(r.ac, k).kind = k
    BY DEF Fact
  <2>4. /\ DOMAIN <<Fact(r.ac, "choice")>> = {1}
        /\ <<Fact(r.ac, "choice")>>[1] = Fact(r.ac, "choice")
        /\ DOMAIN <<Fact(r.ac, "choice"), Fact(r.ac, "searched")>> = {1, 2}
        /\ <<Fact(r.ac, "choice"), Fact(r.ac, "searched")>>[1] = Fact(r.ac, "choice")
        /\ <<Fact(r.ac, "choice"), Fact(r.ac, "searched")>>[2] = Fact(r.ac, "searched")
    OBVIOUS
  <2>5. \/ left = <<Fact(r.ac, "choice")>>
        \/ left = <<Fact(r.ac, "choice"), Fact(r.ac, "searched")>>
    BY DEF OpponentFacts
  <2>6. Fact(r.ac, "choice") # Fact(r.ac, "searched")
    BY <2>3
  <2> HIDE DEF left
  <2>7. IsInjective(left)
    BY <2>4, <2>5, <2>6 DEF IsInjective
  <2>8. ToSet(left) \subseteq {Fact(r.ac, "choice"), Fact(r.ac, "searched")}
    BY <2>4, <2>5 DEF ToSet
  <2> QED BY <2>1, <2>2, <2>3, <2>7, <2>8
<1> HIDE DEF left
<1>7. CASE Ended("fatal")
  <2>1. coord'.at = "ended"
    BY <1>7 DEF Ended, RelayInv, TypeOK, CoordinatorTypes
  <2>2. \A q \in Players : ~IsServed(q)'
    BY <2>1 DEF IsServed
  <2>3. Len(log') >= Len(log) /\ Len(log') \in Nat
    BY <1>4, <1>5
  <2> QED BY <1>5, <2>1, <2>2, <2>3, QuietKeepsOnce
<1>8. CASE inbox' = inbox /\ coord' = accept
  <2>1. coord'.at = "accept" /\ coord'.player = p /\ coord'.facts = left
    BY <1>1, <1>8 DEF RelayInv, TypeOK, CoordinatorTypes
  <2>2. ListsOnce'
    <3>1. ListsOnce
      BY DEF OnceInv
    <3> QED BY <1>5, <1>6, <2>1, <3>1 DEF ListsOnce
  <2>3. ASSUME NEW q \in Players \ strays, IsServed(q)' PROVE FactsOnce(q)'
    <3>1. IsServed(q)
      BY <1>3, <1>5, <2>3 DEF IsServed
    <3>2. FactsOnce(q)
      BY <3>1 DEF OnceInv
    <3>3. Gathered(q)' = Gathered(q) /\ Travelling' = Travelling
      BY <1>5, <1>8 DEF Gathered, Travelling
    <3>4. Held(q)' \subseteq ToSet(left)
      BY <2>1 DEF Held
    <3>5. ToSet(left) \intersect Owed(q) = {}
      <4>1. JustAnswered(q) = {}
        BY <1>4 DEF JustAnswered
      <4>2. \A f \in Owed(q) : f.kind \in {"choice", "searched"} => f.ac < Len(log)
        BY <4>1, OwedFacts
      <4> QED BY <1>4, <1>6, <4>2
    <3>6. Gathered(q) \subseteq Owed(q) /\ Travelling \subseteq Owed(q)
      BY <3>1, GatheredIsOwed
    <3>7. /\ Gathered(q)' \intersect Held(q)' = {}
          /\ Held(q)' \intersect Travelling' = {}
          /\ Gathered(q)' \intersect Travelling' = {}
      <4>1. Gathered(q) \intersect Travelling = {}
        BY <3>2 DEF FactsOnce
      <4> QED BY <3>3, <3>4, <3>5, <3>6, <4>1
    <3> QED BY <1>5, <1>8, <3>2, <3>7 DEF FactsOnce
  <2> QED BY <1>5, <2>2, <2>3 DEF OnceInv
<1> QED BY <1>3, <1>7, <1>8

\* What the coordinator held goes into the queue, once.
LEMMA InformKeepsOnce ==
    ASSUME RelayInv, ToldInv, OnceInv, AcceptChoice \/ InformOpponent
    PROVE  OnceInv'
<1> DEFINE accepted == [q \in Players |->
                          IF q = coord.player THEN <<[type |-> "accepted"]>> ELSE <<>>]
           made == [q \in Players |-> IF q = coord.player THEN <<>>
                       ELSE <<[type |-> "opponent", facts |-> coord.facts]>>]
<1>1. /\ coord.at \in {"accept", "inform"}
      /\ \/ /\ inbox' = Deliver(accepted)
            /\ coord.at = "accept" /\ coord' = [coord EXCEPT !.at = "inform"]
         \/ /\ inbox' = Deliver(made) /\ coord.at = "inform"
            /\ coord' = [coord EXCEPT !.at = "select", !.facts = <<>>]
      /\ UNCHANGED <<gameVars, linkVars, handler, clientVars>>
  BY DEF AcceptChoice, InformOpponent
<1>2. /\ coord.facts \in Seq(Facts) /\ ToSet(coord.facts) \subseteq Facts
      /\ IsInjective(coord.facts)
  BY <1>1, ToSetJoin DEF RelayInv, TypeOK, CoordinatorTypes, OnceInv, ListsOnce
<1> DEFINE a == [type |-> "accepted"]
           o == [type |-> "opponent", facts |-> coord.facts]
<1>3. /\ a \in Messages /\ a.type = "accepted"
      /\ o \in Messages /\ o.type = "opponent" /\ o.facts = coord.facts
      /\ \A f : ~IsFactIn(f, a) /\ (IsFactIn(f, o) <=> f \in ToSet(coord.facts))
  BY <1>2, KindsOfFacts DEF IsFactIn
<1>4. /\ \A q \in Players : accepted[q] \in {<<>>, <<a>>}
      /\ \A q \in Players : made[q] = IF q = coord.player THEN <<>> ELSE <<o>>
  OBVIOUS
<1> HIDE DEF a, o
<1>5. /\ <<a>> \in Seq(Messages) /\ OnceIn(<<a>>) /\ FactsOf(<<a>>) = {}
      /\ <<o>> \in Seq(Messages) /\ OnceIn(<<o>>) /\ FactsOf(<<o>>) = ToSet(coord.facts)
      /\ <<>> \in Seq(Messages) /\ OnceIn(<<>>) /\ FactsOf(<<>>) = {}
  <2>1. FactsOf(<<>>) = {} /\ <<>> \in Seq(Messages)
    BY DEF FactsOf
  <2>2. OnceIn(<<a>>) /\ OnceIn(<<o>>) /\ OnceIn(<<>>)
    BY <1>2, <1>3, OnceSent
  <2> QED BY <1>2, <1>3, <2>1, <2>2, OneMessage
<1>6. accepted \in [Players -> Seq(Messages)] /\ made \in [Players -> Seq(Messages)]
  BY <1>4, <1>5
<1> HIDE DEF accepted, made
<1>7. /\ coord'.player = coord.player
      /\ coord.at = "accept" => coord'.at = "inform" /\ coord'.facts = coord.facts
      /\ coord.at = "inform" => coord'.at = "select"
  BY <1>1 DEF RelayInv, TypeOK, CoordinatorTypes
<1>8. UNCHANGED <<pending, public, log, game, request, handler, known, strays>>
  BY <1>1 DEF gameVars, linkVars, clientVars
<1>9. Travelling' = Travelling
  BY <1>8 DEF Travelling
<1>10. ListsOnce'
  <2>1. ListsOnce
    BY DEF OnceInv
  <2> QED BY <1>1, <1>2, <1>7, <1>8, <2>1 DEF ListsOnce
<1>11. ASSUME NEW q \in Players \ strays, IsServed(q)' PROVE FactsOnce(q)'
  <2>1. IsServed(q) /\ handler[q].alive
    BY <1>1, <1>8, <1>11 DEF IsServed
  <2>2. FactsOnce(q)
    BY <2>1 DEF OnceInv
  <2>3. /\ OnceIn(inbox'[q])
        /\ \/ FactsOf(inbox'[q]) = FactsOf(inbox[q]) /\ Held(q)' = Held(q)
           \/ FactsOf(inbox'[q]) = FactsOf(inbox[q]) \union Held(q) /\ Held(q)' = {}
    <3>1. CASE inbox' = Deliver(accepted) /\ coord.at = "accept"
      <4>1. OnceIn(accepted[q]) /\ FactsOf(accepted[q]) = {}
        BY <1>4, <1>5
      <4>2. Held(q)' = Held(q)
        BY <1>7, <3>1 DEF Held
      <4>3. OnceIn(inbox[q]) /\ FactsOf(inbox[q]) \intersect FactsOf(accepted[q]) = {}
        BY <2>2, <4>1 DEF FactsOnce
      <4>4. /\ OnceIn(inbox'[q])
            /\ FactsOf(inbox'[q]) = FactsOf(inbox[q]) \union FactsOf(accepted[q])
        BY <1>6, <2>1, <3>1, <4>1, <4>3, OnceDelivered
      <4> QED BY <4>1, <4>2, <4>4
    <3>2. CASE inbox' = Deliver(made) /\ coord.at = "inform"
      <4>1. OnceIn(made[q]) /\ FactsOf(made[q]) = Held(q)
        BY <1>4, <1>5, <3>2 DEF Held
      <4>2. Held(q)' = {}
        BY <1>7, <3>2 DEF Held
      <4>3. FactsOf(inbox[q]) \intersect FactsOf(made[q]) = {}
        BY <2>2, <4>1 DEF FactsOnce, Gathered
      <4> QED BY <1>6, <2>1, <2>2, <3>2, <4>1, <4>2, <4>3, OnceDelivered DEF FactsOnce
    <3> QED BY <1>1, <3>1, <3>2
  <2> QED BY <1>8, <1>9, <2>2, <2>3 DEF FactsOnce, Gathered
<1> QED BY <1>8, <1>10, <1>11 DEF OnceInv

\* When the coordinator ends, nobody is served any more.
LEMMA CoordinatorEndsKeepsOnce ==
    ASSUME RelayInv, OnceInv, ReceiveDeparture \/ ReceiveNothing \/ ForwardGameEnd
    PROVE  OnceInv'
<1>1. /\ coord'.at = "ended"
      /\ UNCHANGED <<pending, public, log, request, known, strays>>
  BY DEF ReceiveDeparture, ReceiveNothing, ForwardGameEnd, Ended, RelayInv, TypeOK,
     CoordinatorTypes, gameVars, linkVars, clientVars
<1>2. \A q \in Players : ~IsServed(q)'
  BY <1>1 DEF IsServed
<1>3. Len(log') >= Len(log) /\ Len(log') \in Nat
  BY <1>1, TellingTypes
<1> QED BY <1>1, <1>2, <1>3, QuietKeepsOnce

\* A question reaches a client: its buffer repeats nothing, and the handler has
\* nothing left.
LEMMA HandleRequestKeepsOnce ==
    ASSUME RelayInv, ToldInv, OnceInv, NEW p \in Players,
           HandleMessage(p), HandleRequest(p)
    PROVE  OnceInv'
<1>1. PICK r \in Requests : r = coord.request
  BY QuestionMet
<1>2. /\ Head(inbox[p]).request = r /\ coord.at = "await" /\ coord.player = p
      /\ game.at = "waiting" /\ handler[p].alive /\ Travelling = {}
      /\ FactsOf(inbox'[p]) = {} /\ \A q \in Players : q # p => inbox'[q] = inbox[q]
      /\ inbox'[p] = Tail(inbox[p]) /\ inbox[p] # <<>> /\ inbox[p] \in Seq(Messages)
      /\ UNCHANGED <<gameVars, linkVars, coord, strays>>
      /\ \A q \in Players : response[q] = None
  BY <1>1, QuestionMet, TellingTypes
<1>3. /\ handler \in [Players -> HandlerStates] /\ known \in [Players -> Seq(Facts)]
      /\ handler[p] \in HandlerStates
  BY DEF RelayInv, TypeOK, HandlerTypes, ClientTypes, HandlerStates
<1>4. UNCHANGED <<pending, public, log, game, request, coord, strays>>
  BY <1>2 DEF gameVars, linkVars
<1>5. CASE handler[p].early # None
  <2>1. /\ handler' = [handler EXCEPT ![p].early = None] /\ known' = known
    BY <1>5 DEF HandleRequest
  <2>2. p \in strays
    BY <1>5 DEF ToldInv, PlaceOf
  <2>3. \A q \in Players \ strays : handler'[q] = handler[q] /\ inbox'[q] = inbox[q]
    BY <1>2, <2>1, <2>2
  <2>4. \A q \in Players \ strays : IsServed(q)' => IsServed(q)
    BY <1>4, <2>3 DEF IsServed
  <2>5. Len(log') >= Len(log) /\ Len(log') \in Nat
    BY <1>4, TellingTypes
  <2> QED BY <1>4, <2>1, <2>3, <2>4, <2>5, QuietKeepsOnce
<1>6. CASE handler[p].early = None
  <2> DEFINE facts == handler[p].facts
             b == AssembleBuffer(r, facts)
  <2>1. /\ known' = [known EXCEPT ![p] = known[p] \o b]
        /\ handler' = [handler EXCEPT ![p].waiting = TRUE, ![p].facts = <<>>]
    <3>1. /\ known' = [known EXCEPT ![p] = @ \o b]
          /\ handler' = [handler EXCEPT ![p].waiting = TRUE, ![p].facts = <<>>]
      BY <1>2, <1>6 DEF HandleRequest
    <3> QED BY <3>1, Zenon
  <2>2. /\ \A q \in Players : q # p => handler'[q] = handler[q] /\ known'[q] = known[q]
        /\ handler'[p].facts = <<>> /\ known'[p] = known[p] \o b
    BY <1>3, <2>1 DEF HandlerStates
  <2>3. ListsOnce'
    <3>1. ListsOnce
      BY DEF OnceInv
    <3> QED BY <1>4, <3>1 DEF ListsOnce
  <2>4. ASSUME p \notin strays PROVE IsInjective(known'[p])
    <3>1. /\ b \in Seq(Facts) /\ known[p] \in Seq(Facts)
          /\ ToSet(facts) = Owed(p) /\ ToSet(r.reveals) = RevealsFor(p)
          /\ \A f \in ToSet(known[p]) : \A g \in ToSet(b) : f.ac < g.ac
      BY <1>1, <2>4, BufferIsNew
    <3>2. IsServed(p)
      BY <1>2 DEF IsServed
    <3>3. IsInjective(known[p]) /\ IsInjective(facts) /\ IsInjective(r.reveals)
      BY <1>1, <1>2, <2>4, <3>2 DEF OnceInv, FactsOnce, ListsOnce
    <3> DEFINE search == IF r.search THEN <<Fact(r.ac, "search")>> ELSE <<>>
    <3>4. /\ search \in Seq(Facts) /\ IsInjective(search)
          /\ \A f \in ToSet(search) : f.kind = "search"
      <4>1. Fact(r.ac, "search") \in Facts /\ Fact(r.ac, "search").kind = "search"
        <5>1. Fact(r.ac, "search") \in Facts
          BY KindsOfFacts DEF Requests
        <5> QED BY <5>1 DEF Fact
      <4>2. <<>> \in Seq(Facts)
        OBVIOUS
      <4> QED BY <4>1, <4>2, OnceAdded
    <3>5. b = SortFacts((r.reveals \o search) \o facts)
      BY DEF AssembleBuffer
    <3> HIDE DEF search, b, facts
    <3>6. r.reveals \in Seq(Facts) /\ facts \in Seq(Facts)
      BY <1>3 DEF Requests, HandlerStates, facts
    <3>7. \A f \in ToSet(r.reveals) : f.kind = "reveal"
      <4>1. \A i : Fact(i, "reveal").kind = "reveal"
        BY DEF Fact
      <4> QED BY <3>1, <4>1 DEF RevealsFor
    <3>8. \A f \in ToSet(facts) : f.kind \in {"reorder", "dig", "choice", "searched"}
      BY <3>1, OwedFacts
    <3>9. /\ r.reveals \o search \in Seq(Facts) /\ IsInjective(r.reveals \o search)
          /\ ToSet(r.reveals \o search) = ToSet(r.reveals) \union ToSet(search)
      BY <3>3, <3>4, <3>6, <3>7, OnceJoined, ToSetJoin
    <3> DEFINE all == (r.reveals \o search) \o facts
    <3>10. all \in Seq(Facts) /\ IsInjective(all)
      <4>1. ToSet(r.reveals \o search) \intersect ToSet(facts) = {}
        BY <3>4, <3>7, <3>8, <3>9
      <4> DEFINE first == r.reveals \o search
      <4>2. first \in Seq(Facts) /\ IsInjective(first) /\ ToSet(first) \intersect ToSet(facts) = {}
        BY <3>9, <4>1
      <4>3. all = first \o facts
        OBVIOUS
      <4> HIDE DEF first, all
      <4>4. IsInjective(first \o facts)
        BY <3>3, <3>6, <4>2, OnceJoined
      <4>5. first \o facts \in Seq(Facts)
        BY <3>6, <4>2
      <4> QED BY <4>3, <4>4, <4>5
    <3> HIDE DEF all
    <3>11. IsInjective(b)
      BY <3>5, <3>10, FactsAreSorted DEF all
    <3>12. ToSet(known[p]) \intersect ToSet(b) = {}
      <4>1. \A f \in Facts : f.ac \in Int
        BY RelayAssumption DEF Facts
      <4>2. ToSet(b) \subseteq Facts
        BY <3>1, ToSetJoin
      <4>3. \A g \in ToSet(b) : ~(g.ac < g.ac)
        BY <4>1, <4>2
      <4> QED BY <3>1, <4>3
    <3> QED BY <2>2, <3>1, <3>3, <3>11, <3>12, OnceJoined
  <2>5. ASSUME NEW q \in Players \ strays, IsServed(q)' PROVE FactsOnce(q)'
    <3>1. Travelling' = {} /\ Held(q)' = Held(q)
      BY <1>2, <1>4 DEF Travelling, Held
    <3>2. CASE q # p
      <4>1. IsServed(q)
        BY <1>4, <2>2, <2>5, <3>2 DEF IsServed
      <4>2. FactsOnce(q)
        BY <4>1 DEF OnceInv
      <4> QED BY <1>2, <2>2, <3>1, <3>2, <4>2 DEF FactsOnce, Gathered
    <3>3. CASE q = p
      <4>1. FactsOnce(p)
        BY <1>2, <2>5, <3>3 DEF OnceInv, IsServed
      <4>2. OnceIn(inbox'[p])
        BY <1>2, <4>1, OnceTaken DEF FactsOnce
      <4>3. IsInjective(<<>>) /\ ToSet(<<>>) = {}
        BY DEF IsInjective, ToSet
      <4>4. Gathered(p)' = {}
        BY <1>2, <2>2, <4>3 DEF Gathered
      <4> QED BY <1>2, <2>2, <3>1, <3>3, <4>2, <4>3, <4>4 DEF FactsOnce
    <3> QED BY <3>2, <3>3
  <2>6. \A q \in Players \ strays : IsInjective(known'[q])
    BY <2>2, <2>4 DEF OnceInv
  <2> QED BY <1>4, <2>3, <2>5, <2>6 DEF OnceInv
<1> QED BY <1>5, <1>6

\* A handler keeps what it is sent, or passes an end on.
LEMMA HandleOtherKeepsOnce ==
    ASSUME RelayInv, ToldInv, OnceInv, NEW p \in Players,
           HandleMessage(p), HandleFacts(p) \/ HandleEnd(p)
    PROVE  OnceInv'
<1> DEFINE m == Head(inbox[p])
<1>1. /\ inbox[p] # <<>> /\ inbox' = [inbox EXCEPT ![p] = Tail(inbox[p])]
      /\ UNCHANGED <<pending, public, log, game, request, coord, strays, known>>
      /\ handler[p].alive
  BY DEF HandleMessage, HandleFacts, HandleEnd, gameVars, linkVars
<1>2. /\ handler \in [Players -> HandlerStates] /\ inbox \in [Players -> Seq(Messages)]
      /\ handler[p] \in HandlerStates /\ inbox[p] \in Seq(Messages)
  BY DEF RelayInv, TypeOK, HandlerTypes, HandlerStates
<1>3. inbox'[p] = Tail(inbox[p]) /\ \A q \in Players : q # p => inbox'[q] = inbox[q]
  BY <1>1, <1>2
<1>4. Travelling' = Travelling /\ \A q \in Players : Held(q)' = Held(q)
  BY <1>1 DEF Travelling, Held
<1>5. ListsOnce'
  <2>1. ListsOnce
    BY DEF OnceInv
  <2> QED BY <1>1, <2>1 DEF ListsOnce
<1>6. CASE HandleEnd(p)
  <2>1. handler' = [handler EXCEPT ![p].alive = FALSE]
    BY <1>6 DEF HandleEnd
  <2>2. ~handler'[p].alive /\ \A q \in Players : q # p => handler'[q] = handler[q]
    BY <1>2, <2>1 DEF HandlerStates
  <2>3. \A q \in Players : IsServed(q)' =>
          IsServed(q) /\ handler'[q].facts = handler[q].facts /\ inbox'[q] = inbox[q]
    BY <1>1, <1>3, <2>2 DEF IsServed
  <2>4. Len(log') >= Len(log) /\ Len(log') \in Nat
    BY <1>1, TellingTypes
  <2> QED BY <1>1, <2>3, <2>4, QuietKeepsOnce
<1>7. CASE HandleFacts(p)
  <2> DEFINE kept == CASE m.type = "opponent" -> handler[p].facts \o m.facts
                       [] m.type = "public"   -> Append(handler[p].facts, m.fact)
                       [] m.type = "accepted" -> handler[p].facts
             h == [handler[p] EXCEPT !.facts = kept]
             new == {f \in Facts : IsFactIn(f, m)}
  <2>1. handler' = [handler EXCEPT ![p] = h] /\ m.type \in {"opponent", "public", "accepted"}
    <3>1. /\ handler' = [handler EXCEPT ![p].facts =
               CASE m.type = "opponent" -> @ \o m.facts
                 [] m.type = "public"   -> Append(@, m.fact)
                 [] m.type = "accepted" -> @]
          /\ m.type \in {"opponent", "public", "accepted"}
      BY <1>7 DEF HandleFacts
    <3> QED BY <3>1, Zenon
  <2>2. h.facts = kept
    BY <1>2 DEF HandlerStates
  <2>3. m \in Messages
    BY <1>1, <1>2, TakesMessage
  <2>4. handler[p].facts \in Seq(Facts)
    BY <1>2 DEF HandlerStates
  <2>5. ASSUME p \notin strays, IsServed(p) PROVE FactsOnce(p)'
    <3>1. /\ IsInjective(handler[p].facts) /\ OnceIn(inbox[p])
          /\ ToSet(handler[p].facts) \intersect FactsOf(inbox[p]) = {}
          /\ Gathered(p) \intersect Travelling = {}
          /\ Gathered(p) \intersect Held(p) = {}
          /\ Held(p) \intersect Travelling = {}
      BY <2>5 DEF OnceInv, FactsOnce
    <3>2. /\ OnceIn(Tail(inbox[p])) /\ new \intersect FactsOf(Tail(inbox[p])) = {}
          /\ m.type = "opponent" => IsInjective(m.facts)
      BY <1>1, <1>2, <3>1, OnceTaken
    <3>3. FactsOf(inbox[p]) = new \union FactsOf(Tail(inbox[p]))
      BY <1>1, <1>2, FactsTaken
    <3>4. new \intersect ToSet(handler[p].facts) = {}
      BY <3>1, <3>3
    <3>5. IsInjective(kept) /\ ToSet(kept) = ToSet(handler[p].facts) \union new
      <4>1. CASE m.type = "opponent"
        <5>1. m.facts \in Seq(Facts) /\ kept = handler[p].facts \o m.facts
          BY <2>3, <4>1 DEF Messages
        <5>2. ToSet(m.facts) \subseteq Facts /\ ToSet(kept) = ToSet(handler[p].facts) \union ToSet(m.facts)
          BY <2>4, <5>1, ToSetJoin
        <5>3. \A f : IsFactIn(f, m) <=> f \in ToSet(m.facts)
          BY <4>1 DEF IsFactIn
        <5>4. new = ToSet(m.facts)
          BY <5>2, <5>3
        <5> HIDE DEF kept, m, new
        <5>5. ToSet(handler[p].facts) \intersect ToSet(m.facts) = {}
          BY <3>4, <5>4
        <5>6. IsInjective(handler[p].facts \o m.facts)
          BY <2>4, <3>1, <3>2, <4>1, <5>1, <5>5, OnceJoined
        <5> QED BY <5>1, <5>2, <5>4, <5>6
      <4>2. CASE m.type = "public"
        <5>1. m.fact \in Facts /\ kept = Append(handler[p].facts, m.fact)
          BY <2>3, <4>2 DEF Messages
        <5>2. ToSet(kept) = ToSet(handler[p].facts) \union {m.fact}
          BY <2>4, <5>1, ToSetJoin
        <5>3. \A f : IsFactIn(f, m) <=> f = m.fact
          BY <4>2 DEF IsFactIn
        <5>4. new = {m.fact}
          BY <5>1, <5>3
        <5> HIDE DEF kept, m, new
        <5>5. m.fact \notin ToSet(handler[p].facts)
          BY <3>4, <5>4
        <5> QED BY <2>4, <3>1, <5>1, <5>2, <5>4, <5>5, OnceAdded
      <4>3. CASE m.type = "accepted"
        <5>1. kept = handler[p].facts
          BY <4>3
        <5>2. \A f : ~IsFactIn(f, m)
          BY <4>3 DEF IsFactIn
        <5>3. new = {}
          BY <5>2
        <5> HIDE DEF kept, m, new
        <5> QED BY <3>1, <5>1, <5>3
      <4> HIDE DEF kept, new
      <4> QED BY <2>1, <4>1, <4>2, <4>3
    <3> HIDE DEF kept, new
    <3>6. handler'[p].facts = kept
      <4>1. handler'[p] = h
        BY <1>2, <2>1
      <4> QED BY <2>2, <4>1
    <3> HIDE DEF h, m
    <3>7. ToSet(kept) \intersect FactsOf(Tail(inbox[p])) = {}
      BY <3>1, <3>2, <3>3, <3>5
    <3>8. Gathered(p)' = Gathered(p)
      BY <1>3, <3>3, <3>5, <3>6 DEF Gathered
    <3> QED BY <1>3, <1>4, <3>1, <3>2, <3>5, <3>6, <3>7, <3>8 DEF FactsOnce
  <2>6. \A q \in Players : q # p => handler'[q] = handler[q]
    BY <1>2, <2>1
  <2> HIDE DEF kept, h, m
  <2>7. ASSUME NEW q \in Players \ strays, IsServed(q)' PROVE FactsOnce(q)'
    <3>1. CASE q = p
      BY <1>1, <2>5, <2>7, <3>1 DEF IsServed
    <3>2. CASE q # p
      <4>1. IsServed(q)
        BY <1>1, <2>6, <2>7, <3>2 DEF IsServed
      <4>2. FactsOnce(q)
        BY <4>1 DEF OnceInv
      <4> QED BY <1>3, <1>4, <2>6, <3>2, <4>2 DEF FactsOnce, Gathered
    <3> QED BY <3>1, <3>2
  <2> QED BY <1>1, <1>5, <2>7 DEF OnceInv
<1> HIDE DEF m
<1> QED BY <1>6, <1>7

\* Handlers that end, clients and the runner move no fact.
LEMMA OthersKeepOnce ==
    ASSUME RelayInv, OnceInv,
           \/ \E p \in Players : HandlerGivesUp(p) \/ HandleClose(p) \/ ClientStep(p)
           \/ RunnerStep \/ UNCHANGED vars
    PROVE  OnceInv'
<1>1. /\ UNCHANGED <<pending, public, log, game, request, known, inbox>>
      /\ strays \subseteq strays' /\ (coord' = coord \/ coord'.at = "ended")
  <2>1. ASSUME NEW p \in Players, HandlerGivesUp(p) \/ HandleClose(p) \/ ClientStep(p)
        PROVE  UNCHANGED <<gameVars, linkVars, coord, known, inbox>> /\ strays \subseteq strays'
    BY <2>1 DEF HandlerGivesUp, HandleClose, ClientStep, ClientAnswers, ClientStrays,
                ClientLeaves, HandleSubmit, clientVars
  <2>2. ASSUME RunnerStep \/ UNCHANGED vars
        PROVE  /\ UNCHANGED <<gameVars, linkVars, known, inbox, strays>>
               /\ coord' = coord \/ coord'.at = "ended"
    BY <2>2 DEF RunnerStep, RunnerSeesEnd, RunnerStops, clientVars, vars, RelayInv, TypeOK,
                CoordinatorTypes
  <2> QED BY <2>1, <2>2 DEF gameVars, linkVars
<1>2. handler \in [Players -> HandlerStates] /\ \A q \in Players : handler[q] \in HandlerStates
  BY DEF RelayInv, TypeOK, HandlerTypes, HandlerStates
<1>3. \A q \in Players : /\ handler'[q].facts = handler[q].facts
                         /\ handler'[q].alive => handler[q].alive
  <2>1. ASSUME NEW p \in Players, HandlerGivesUp(p) \/ HandleClose(p) \/ ClientStep(p)
        PROVE  \/ handler' = handler
               \/ handler' = [handler EXCEPT ![p].alive = FALSE]
               \/ handler' = [handler EXCEPT ![p].waiting = FALSE]
               \/ \E a : handler' = [handler EXCEPT ![p].early = a]
    BY <2>1, Zenon DEF HandlerGivesUp, HandleClose, ClientStep, ClientAnswers, ClientStrays,
                ClientLeaves, HandleSubmit
  <2>2. ASSUME RunnerStep \/ UNCHANGED vars
        PROVE  \/ handler' = handler
               \/ handler' = [p \in Players |-> [handler[p] EXCEPT !.alive = FALSE]]
    BY <2>2 DEF RunnerStep, RunnerSeesEnd, RunnerStops, vars
  <2>3. ASSUME NEW p \in Players, handler' = [handler EXCEPT ![p].alive = FALSE], NEW q \in Players
        PROVE  handler'[q].facts = handler[q].facts /\ (handler'[q].alive => handler[q].alive)
    BY <1>2, <2>3 DEF HandlerStates
  <2>4. ASSUME NEW p \in Players, handler' = [handler EXCEPT ![p].waiting = FALSE], NEW q \in Players
        PROVE  handler'[q].facts = handler[q].facts /\ handler'[q].alive = handler[q].alive
    BY <1>2, <2>4 DEF HandlerStates
  <2>5. ASSUME NEW p \in Players, NEW a, handler' = [handler EXCEPT ![p].early = a], NEW q \in Players
        PROVE  handler'[q].facts = handler[q].facts /\ handler'[q].alive = handler[q].alive
    BY <1>2, <2>5 DEF HandlerStates
  <2>6. ASSUME handler' = [p \in Players |-> [handler[p] EXCEPT !.alive = FALSE]], NEW q \in Players
        PROVE  handler'[q].facts = handler[q].facts /\ ~handler'[q].alive
    BY <1>2, <2>6 DEF HandlerStates
  <2>7. ASSUME handler' = handler, NEW q \in Players
        PROVE  handler'[q].facts = handler[q].facts /\ handler'[q].alive = handler[q].alive
    BY <2>7
  <2> QED BY <2>1, <2>2, <2>3, <2>4, <2>5, <2>6, <2>7
<1>4. \A q \in Players : IsServed(q)' => IsServed(q)
  BY <1>1, <1>3 DEF IsServed
<1>5. Len(log') >= Len(log) /\ Len(log') \in Nat
  BY <1>1, TellingTypes
<1> QED BY <1>1, <1>3, <1>4, <1>5, QuietKeepsOnce

\* No fact is in two places on its way to a client: what the handler joins in
\* assemble_choice_buffer, drained queues, reveals and broadcasts, has each once.
THEOREM OnceInvariant == Spec => []OnceInv
<1>1. Init => OnceInv
  <2> SUFFICES ASSUME Init PROVE OnceInv
    OBVIOUS
  <2>1. /\ pending = <<>> /\ public = {} /\ coord.at = "select"
        /\ \A p \in Players : /\ inbox[p] = <<>> /\ known[p] = <<>>
                              /\ handler[p].facts = <<>> /\ request[p] = None
    BY DEF Init
  <2>2. /\ ToSet(<<>>) = {} /\ IsInjective(<<>>)
        /\ FactsOf(<<>>) = {} /\ OnceIn(<<>>)
    BY DEF ToSet, IsInjective, FactsOf, OnceIn
  <2>3. ListsOnce
    BY <2>1, <2>2 DEF ListsOnce
  <2>4. \A p \in Players : FactsOnce(p)
    BY <2>1, <2>2 DEF FactsOnce, Gathered, Held, Travelling
  <2> QED BY <2>1, <2>2, <2>3, <2>4 DEF OnceInv
<1>2. RelayInv /\ ToldInv /\ OnceInv /\ [Next]_vars => OnceInv'
  <2> SUFFICES ASSUME RelayInv, ToldInv, OnceInv, [Next]_vars PROVE OnceInv'
    OBVIOUS
  <2>1. CASE GameStep
    <3>1. ASSUME NEW p \in Players, NEW search \in Searching, Ask(p, search)
          PROVE  OnceInv'
      BY <3>1, AskKeepsOnce, RelayAssumption
    <3> QED BY <2>1, <3>1, GameActsKeepsOnce, GameKeepsOnce DEF GameStep
  <2>2. CASE CoordinatorStep
    <3>1. ASSUME NEW p \in Players, Forward(p) PROVE OnceInv'
      BY <3>1, ForwardKeepsOnce
    <3> QED BY <2>2, <3>1, ReceiveAnswerKeepsOnce, InformKeepsOnce,
               CoordinatorEndsKeepsOnce
            DEF CoordinatorStep
  <2>3. ASSUME NEW p \in Players, HandleMessage(p) PROVE OnceInv'
    <3>1. HandleRequest(p) \/ HandleFacts(p) \/ HandleEnd(p)
      BY <2>3 DEF HandleMessage
    <3> QED BY <2>3, <3>1, HandleRequestKeepsOnce, HandleOtherKeepsOnce
  <2> QED BY <2>1, <2>2, <2>3, OthersKeepOnce DEF Next, HandlerStep
<1> QED BY <1>1, <1>2, RelayInvariant, ToldInvariant, PTL DEF Spec

\* A client that has only ever answered what it was asked has, when it is asked,
\* been told every fact its shadow needs up to the question, each once and in
\* game order, and nothing else.
THEOREM FactsPrecedeQuestions == Spec => []FactsBeforeQuestion
<1>1. RelayInv /\ ToldInv /\ OnceInv => FactsBeforeQuestion
  <2> SUFFICES ASSUME RelayInv, ToldInv, OnceInv,
                      NEW p \in Players, question[p] # None, p \notin strays
               PROVE  /\ ToSet(known[p]) = FactsFor(p, question[p].ac, question[p].search)
                      /\ IsInjective(known[p])
                      /\ \A i \in 1..Len(known[p]) - 1 : known[p][i].ac <= known[p][i + 1].ac
    BY DEF FactsBeforeQuestion
  <2>1. /\ ToSet(known[p]) = FactsFor(p, question[p].ac, question[p].search)
        /\ Sorted(known[p]) /\ IsInjective(known[p])
    BY DEF ToldInv, KnownFits, OnceInv
  <2>2. known[p] \in Seq(Facts)
    BY TellingTypes
  <2>3. \A i \in 1..Len(known[p]) - 1 :
           i \in DOMAIN known[p] /\ i + 1 \in DOMAIN known[p] /\ i < i + 1
    BY <2>2
  <2> QED BY <2>1, <2>3 DEF Sorted
<1> QED BY <1>1, RelayInvariant, ToldInvariant, OnceInvariant, PTL
=============================================================================
