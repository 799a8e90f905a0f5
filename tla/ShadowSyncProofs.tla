-------------------------- MODULE ShadowSyncProofs --------------------------
(***************************************************************************)
(* Proofs about ShadowSync.tla for games of any length.  For every script: *)
(* the types, and that the shadow makes the choices that the server made,  *)
(* in their order (ImplementsReplica).  For scripts without digs: that no  *)
(* fact is lost or applied twice or out of order (NoDeltaIsLost), and that *)
(* a fact is there before the shadow needs it (FollowsInOrder).            *)
(***************************************************************************)
EXTENDS ShadowSync, SequenceTheorems, FiniteSetTheorems, WellFoundedInduction, TLAPS

\* Messages that are waiting to be read or taken.
InWire == \E i \in DOMAIN wire : wire[i].type = "request"

\* The reader serves a question, the game thread has one in its queue or in hand.
InReader == reader.phase = "serving"
InLocal == \E i \in DOMAIN net.local : net.local[i].type = "request"
Held == shadow.phase = "choose"

\* The server waits for a choice of ours that was not made.
Asking == golden.waiting /\ script[golden.at] \in Ours /\ golden.at \notin shadow.sent

\* A question is in one place at a time, and is the one the server asks.
OneQuestion ==
    /\ \A i \in DOMAIN wire : wire[i].type = "request" => Asking /\ wire[i].ac = golden.at
    /\ InReader => Asking /\ reader.msg.type = "request" /\ reader.msg.ac = golden.at
    /\ \A i \in DOMAIN net.local :
         net.local[i].type = "request" => Asking /\ net.local[i].ac = golden.at
    /\ Held => Asking /\ shadow.taken = golden.at
    /\ InWire => ~InReader /\ ~InLocal /\ ~Held
    /\ InReader => ~InLocal /\ ~Held
    /\ InLocal => ~Held
    /\ \A i, j \in DOMAIN wire :
         wire[i].type = "request" /\ wire[j].type = "request" => i = j
    /\ \A i, j \in DOMAIN net.local :
         net.local[i].type = "request" /\ net.local[j].type = "request" => i = j
    /\ reader.phase \in {"notify", "exit"} => reader.msg.type # "request"

\* The golden game stands at its last question, or has our answers to it and to
\* all before.
GoldenPlace ==
    /\ golden.asked <= golden.at
    /\ golden.waiting => golden.at < MaxLog /\ script[golden.at] \in Ours \union Theirs
    /\ golden.waiting /\ script[golden.at] \in Ours => golden.asked = golden.at
    /\ \A k \in 0..golden.at - 1 : script[k] \in Ours => k <= golden.asked /\ k \in shadow.sent
    /\ \A k \in shadow.sent : k < golden.at \/ (k = golden.at /\ golden.waiting)

\* The phases of a wait for a choice or for an acceptance.
Waits == {"look", "decide", "asleep", "replay"}

\* Where the shadow stands, and that it has made our choices up to there.
ShadowPlace ==
    /\ shadow.phase \in Waits \union {"choose", "ask"} => shadow.pos < MaxLog
    /\ shadow.phase = "choose" => script[shadow.pos] = "ours" /\ shadow.taken = shadow.pos
    /\ shadow.phase = "ask" => script[shadow.pos] = "search"
    /\ shadow.phase \in Waits =>
         \/ script[shadow.pos] \in Theirs /\ shadow.awaits = "opponent"
         \/ /\ script[shadow.pos] = "search" /\ shadow.awaits = "accepted"
            /\ shadow.taken = shadow.pos /\ shadow.pos \in shadow.sent
    /\ shadow.phase = "replay" => shadow.taken = shadow.pos
    /\ \A k \in 0..shadow.pos - 1 : script[k] \in Ours => k \in shadow.sent
    /\ \A k \in shadow.sent :
         k < shadow.pos \/ (k = shadow.pos /\ shadow.phase \in Waits \union {"left"})

\* The opponent's choices before a position.
TheirsBelow(q) == {k \in Positions : k < q /\ script[k] \in Theirs}

\* The opponent's choices arrive without gaps.
ChoicesArrive ==
    /\ net.theirs \subseteq TheirsBelow(golden.at)
    /\ \A k \in net.theirs : TheirsBelow(k) \subseteq net.theirs
    /\ InReader => /\ reader.msg.choices \subseteq TheirsBelow(golden.at)
                   /\ TheirsBelow(golden.at) \subseteq net.theirs \union reader.msg.choices
    /\ \A i \in DOMAIN wire : wire[i].type = "request" =>
         /\ wire[i].choices \subseteq TheirsBelow(golden.at)
         /\ Healthy => TheirsBelow(golden.at) \subseteq net.theirs \union wire[i].choices
    /\ Healthy /\ ~InWire /\ ~InReader /\ ~golden.over =>
         TheirsBelow(golden.asked) \subseteq net.theirs

\* They are taken without gaps.
ChoicesTaken ==
    /\ \A k \in TheirsBelow(shadow.pos) : k <= net.theirCursor
    /\ IF shadow.phase = "replay" /\ script[shadow.pos] \in Theirs
       THEN net.theirCursor = shadow.pos ELSE net.theirCursor < shadow.pos
    /\ net.theirCursor = -1 \/ net.theirCursor \in net.theirs

\* Reveals and reorders are kept in different logs.
SameClass(f, g) == f.kind = "reorder" <=> g.kind = "reorder"

\* A log has one fact at a position.
LogIsByPosition ==
    \A f, g \in net.log : SameClass(f, g) /\ f.ac = g.ac => f = g

\* What is sent ahead of a question tells something.
EagerTells == \A i \in DOMAIN wire : wire[i].type = "eager" => wire[i].facts # {}

\* The inductive invariant of the choices, for every script.
ChoicesInv ==
    /\ TypeOK /\ EagerTells /\ OneQuestion /\ GoldenPlace /\ ShadowPlace
    /\ ChoicesArrive /\ ChoicesTaken /\ LogIsByPosition

-----------------------------------------------------------------------------
(* Least and greatest numbers, and facts by position.                      *)

\* A non-empty set of positions has a least and a greatest.
LEMMA LeastAndGreatest ==
    ASSUME NEW N \in Nat, NEW S, S \subseteq 0..N, S # {}
    PROVE  /\ Min(S) \in S /\ \A x \in S : Min(S) <= x
           /\ Max(S) \in S /\ \A x \in S : x <= Max(S)
<1>1. ASSUME NEW T, T \subseteq Nat, T # {} PROVE \E x \in T : \A y \in T : x <= y
  <2>1. PICK x \in T : \A y \in T : ~ (<<y, x>> \in OpToRel(<, Nat))
    BY <1>1, NatLessThanWellFounded, WFMin, Zenon
  <2>2. \A y \in T : ~ (y < x)
    BY <1>1, <2>1 DEF OpToRel
  <2> QED BY <1>1, <2>2
<1>2. \E x \in S : \A y \in S : x <= y
  <2>1. S \subseteq Nat
    OBVIOUS
  <2> QED BY <1>1, <2>1, Zenon
<1>3. \E x \in S : \A y \in S : x >= y
  <2> DEFINE T == {y \in Nat : \E x \in S : y = N - x}
  <2>1. T # {}
    <3>1. PICK x \in S : TRUE
      OBVIOUS
    <3>2. N - x \in T
      BY <3>1
    <3> QED BY <3>2
  <2>2. PICK t \in T : \A y \in T : t <= y
    <3>1. T \subseteq Nat
      OBVIOUS
    <3> HIDE DEF T
    <3> QED BY <1>1, <2>1, <3>1, Zenon
  <2>3. PICK x \in S : t = N - x
    OBVIOUS
  <2>4. \A y \in S : N - y \in T
    OBVIOUS
  <2>5. \A y \in S : N - x <= N - y
    <3> HIDE DEF T
    <3> QED BY <2>2, <2>3, <2>4
  <2>6. \A y \in S : x >= y
    BY <2>5
  <2> QED BY <2>6
<1>4. Min(S) \in S /\ \A x \in S : Min(S) <= x
  BY <1>2 DEF Min
<1>5. Max(S) \in S /\ \A x \in S : Max(S) >= x
  BY <1>3 DEF Max
<1> QED BY <1>4, <1>5

\* Facts of different positions, and how many of them come before one.
ByPosition(S) == S \subseteq Facts /\ \A f, g \in S : f.ac = g.ac => f = g
Earlier(S, f) == Cardinality({g \in S : g.ac < f.ac})

\* There are finitely many, and those of two the later has more before it.
LEMMA EarlierIsStrict ==
    ASSUME NEW S, ByPosition(S)
    PROVE  /\ IsFiniteSet(S)
           /\ \A f \in S : /\ Earlier(S, f) \in 0..Cardinality(S) - 1
                           /\ \A g \in S : g.ac < f.ac => Earlier(S, g) < Earlier(S, f)
<1> DEFINE at == [f \in S |-> f.ac]
           L(f) == {g \in S : g.ac < f.ac}
<1>1. \A f \in S : f.ac \in 0..MaxLog
  BY DEF ByPosition, Facts
<1>2. IsFiniteSet(S)
  <2>1. at \in Injection(S, 0..MaxLog)
    BY <1>1 DEF ByPosition, Injection, IsInjective
  <2>2. IsFiniteSet(0..MaxLog)
    BY SyncAssumption, FS_Interval
  <2> HIDE DEF at
  <2> QED BY <2>1, <2>2, FS_Injection
<1>3. \A f \in S : IsFiniteSet(L(f)) /\ Earlier(S, f) = Cardinality(L(f))
  BY <1>2, FS_Subset DEF Earlier
<1>4. ASSUME NEW f \in S
      PROVE  /\ f \notin L(f) /\ IsFiniteSet(L(f) \union {f})
             /\ Cardinality(L(f) \union {f}) = Cardinality(L(f)) + 1
  <2>1. f \notin L(f)
    BY <1>1
  <2> HIDE DEF L
  <2> QED BY <1>3, <2>1, FS_AddElement
<1>5. \A T : IsFiniteSet(T) => Cardinality(T) \in Nat
  BY FS_CardinalityType
<1>6. ASSUME NEW f \in S PROVE Cardinality(L(f)) + 1 <= Cardinality(S)
  <2>1. L(f) \union {f} \in SUBSET S
    OBVIOUS
  <2>2. Cardinality(L(f) \union {f}) <= Cardinality(S)
    <3> HIDE DEF L
    <3> QED BY <1>2, <2>1, FS_Subset
  <2> HIDE DEF L
  <2> QED BY <1>4, <2>2
<1>7. ASSUME NEW f \in S, NEW g \in S, g.ac < f.ac
      PROVE  Cardinality(L(g)) + 1 <= Cardinality(L(f))
  <2>1. \A h \in S : h.ac < g.ac => h.ac < f.ac
    BY <1>1, <1>7
  <2>2. L(g) \union {g} \in SUBSET L(f)
    BY <1>7, <2>1
  <2>3. Cardinality(L(g) \union {g}) <= Cardinality(L(f))
    <3> HIDE DEF L
    <3> QED BY <1>3, <2>2, FS_Subset
  <2> HIDE DEF L
  <2> QED BY <1>4, <2>3
<1> HIDE DEF L
<1>8. ASSUME NEW f \in S
      PROVE  /\ Earlier(S, f) \in 0..Cardinality(S) - 1
             /\ \A g \in S : g.ac < f.ac => Earlier(S, g) < Earlier(S, f)
  BY <1>2, <1>3, <1>5, <1>6, <1>7
<1> QED BY <1>2, <1>8

\* InOrder lists them, each once, by position.
LEMMA InOrderSorts ==
    ASSUME NEW S, ByPosition(S)
    PROVE  /\ InOrder(S) \in Seq(S)
           /\ \A i, j \in DOMAIN InOrder(S) : i < j => InOrder(S)[i].ac < InOrder(S)[j].ac
           /\ \A f \in S : \E i \in DOMAIN InOrder(S) : InOrder(S)[i] = f
<1> DEFINE n == Cardinality(S)
           place == [f \in S |-> Earlier(S, f)]
           s == InOrder(S)
<1>1. n \in Nat /\ IsFiniteSet(S)
  BY EarlierIsStrict, FS_CardinalityType
<1>2. place \in [S -> 0..n - 1]
  BY EarlierIsStrict
<1>3. \A f, g \in S : Earlier(S, f) = Earlier(S, g) => f = g
  <2> SUFFICES ASSUME NEW f \in S, NEW g \in S, Earlier(S, f) = Earlier(S, g), f # g
               PROVE  FALSE
    OBVIOUS
  <2>1. f.ac \in Int /\ g.ac \in Int /\ f.ac # g.ac
    BY SyncAssumption DEF ByPosition, Facts
  <2>2. f.ac < g.ac \/ g.ac < f.ac
    BY <2>1
  <2>3. Earlier(S, f) \in 0..n - 1 /\ (g.ac < f.ac => Earlier(S, g) < Earlier(S, f))
    BY EarlierIsStrict
  <2>4. Earlier(S, g) \in 0..n - 1 /\ (f.ac < g.ac => Earlier(S, f) < Earlier(S, g))
    BY EarlierIsStrict
  <2> HIDE DEF n
  <2> QED BY <1>1, <2>2, <2>3, <2>4
<1>4. place \in Injection(S, 0..n - 1)
  <2>1. \A f, g \in S : place[f] = place[g] => f = g
    BY <1>3
  <2> HIDE DEF place
  <2> QED BY <1>2, <2>1 DEF Injection, IsInjective
<1>5. IsFiniteSet(0..n - 1) /\ Cardinality(0..n - 1) = n
  <2> HIDE DEF n
  <2> QED BY <1>1, FS_Interval
<1>6. place \in Surjection(S, 0..n - 1)
  <2> HIDE DEF place
  <2> QED BY <1>4, <1>5, FS_Injection
<1>7. \A i \in 0..n - 1 : \E f \in S : Earlier(S, f) = i
  BY <1>6 DEF Surjection
<1>8. s = [i \in 1..n |-> CHOOSE f \in S : Earlier(S, f) = i - 1]
  BY DEF InOrder, Earlier
<1> HIDE DEF s, n
<1>9. \A i \in 1..n : s[i] \in S /\ Earlier(S, s[i]) = i - 1
  BY <1>1, <1>7, <1>8
<1>10. s \in Seq(S) /\ DOMAIN s = 1..n
  <2>1. s \in [1..n -> S]
    BY <1>8, <1>9
  <2> QED BY <1>1, <2>1
<1>11. ASSUME NEW f \in S PROVE \E i \in DOMAIN s : s[i] = f
  <2>1. Earlier(S, f) \in 0..n - 1
    BY EarlierIsStrict DEF n
  <2>2. PICK i \in 1..n : i = Earlier(S, f) + 1
    BY <1>1, <2>1
  <2>3. s[i] \in S /\ Earlier(S, s[i]) = Earlier(S, f)
    BY <1>1, <1>9, <2>1, <2>2
  <2> QED BY <1>3, <1>10, <2>3
<1>12. ASSUME NEW i \in 1..n, NEW j \in 1..n, i < j PROVE s[i].ac < s[j].ac
  <2>1. s[i] \in S /\ s[j] \in S /\ Earlier(S, s[i]) < Earlier(S, s[j])
    BY <1>1, <1>9, <1>12
  <2>2. s[i].ac \in Int /\ s[j].ac \in Int
    BY <2>1, SyncAssumption DEF ByPosition, Facts
  <2>3. s[i].ac = s[j].ac => s[i] = s[j]
    BY <2>1 DEF ByPosition
  <2>4. ~(s[j].ac < s[i].ac)
    <3>1. s[j].ac < s[i].ac => Earlier(S, s[j]) < Earlier(S, s[i])
      BY <2>1, EarlierIsStrict
    <3>2. Earlier(S, s[i]) \in Int /\ Earlier(S, s[j]) \in Int
      BY <1>1, <1>9
    <3> QED BY <2>1, <3>1, <3>2
  <2>5. s[i] # s[j]
    BY <1>1, <1>9, <1>12
  <2> QED BY <2>2, <2>3, <2>4, <2>5
<1> QED BY <1>10, <1>11, <1>12 DEF s

-----------------------------------------------------------------------------
(* A synchronisation.                                                      *)

\* The bounds of a synchronisation reach what is in the log, up to the watermark
\* or the shadow's position, and no further.
LEMMA Bounds ==
    ASSUME TypeOK
    PROVE  /\ RevealBound \in 0..MaxLog /\ RevealBound <= net.watermark
           /\ \A f \in Reveals : f.ac <= net.watermark => f.ac <= RevealBound
           /\ RevealBound = 0 \/ \E f \in Reveals : RevealBound <= f.ac
           /\ RevealBound = net.watermark \/ \A f \in Reveals : f.ac <= RevealBound
           /\ ReorderBound \in 0..MaxLog /\ ReorderBound <= shadow.pos
           /\ \A f \in Reorders : f.ac <= shadow.pos => f.ac <= ReorderBound
           /\ ReorderBound = 0 \/ \E f \in Reorders : ReorderBound <= f.ac
           /\ ReorderBound = shadow.pos \/ \A f \in Reorders : f.ac <= ReorderBound
<1> USE SyncAssumption
<1>1. /\ net.log \subseteq Facts /\ net.watermark \in 0..MaxLog /\ shadow.pos \in 0..MaxLog
  BY DEF TypeOK, Nets, Shadows
<1>2. ASSUME NEW S, S \subseteq Facts
      PROVE  /\ Frontier(S) \in 0..MaxLog /\ \A f \in S : f.ac <= Frontier(S)
             /\ Frontier(S) = 0 \/ \E f \in S : Frontier(S) = f.ac
  <2> DEFINE A == {0} \union {f.ac : f \in S}
  <2>1. A \subseteq 0..MaxLog /\ A # {}
    BY <1>2 DEF Facts
  <2>2. Max(A) \in A /\ \A x \in A : x <= Max(A)
    <3> HIDE DEF A
    <3> QED BY <2>1, LeastAndGreatest
  <2>3. Frontier(S) = Max(A)
    BY DEF Frontier
  <2>4. \A f \in S : f.ac \in A
    OBVIOUS
  <2>5. \A x \in A : x = 0 \/ \E f \in S : x = f.ac
    OBVIOUS
  <2> HIDE DEF A
  <2> QED BY <2>1, <2>2, <2>3, <2>4, <2>5
<1>3. ASSUME NEW x \in 0..MaxLog, NEW y \in 0..MaxLog
      PROVE  Min({x, y}) \in {x, y} /\ Min({x, y}) <= x /\ Min({x, y}) <= y
  BY LeastAndGreatest
<1>4. Reveals \subseteq Facts /\ Reorders \subseteq Facts
  BY <1>1 DEF Reveals, Reorders
<1>5. /\ RevealBound \in {net.watermark, Frontier(Reveals)}
      /\ RevealBound <= net.watermark /\ RevealBound <= Frontier(Reveals)
  BY <1>1, <1>2, <1>3, <1>4 DEF RevealBound
<1>6. /\ ReorderBound \in {shadow.pos, Frontier(Reorders)}
      /\ ReorderBound <= shadow.pos /\ ReorderBound <= Frontier(Reorders)
  BY <1>1, <1>2, <1>3, <1>4 DEF ReorderBound
<1>7. \A f \in Facts : f.ac \in 0..MaxLog
  BY DEF Facts
<1>8. /\ Frontier(Reveals) \in 0..MaxLog /\ \A f \in Reveals : f.ac <= Frontier(Reveals)
      /\ Frontier(Reveals) = 0 \/ \E f \in Reveals : Frontier(Reveals) = f.ac
  BY <1>2, <1>4
<1>9. /\ Frontier(Reorders) \in 0..MaxLog /\ \A f \in Reorders : f.ac <= Frontier(Reorders)
      /\ Frontier(Reorders) = 0 \/ \E f \in Reorders : Frontier(Reorders) = f.ac
  BY <1>2, <1>4
<1>10. RevealBound = 0 \/ \E f \in Reveals : RevealBound <= f.ac
  BY <1>1, <1>5, <1>8
<1>11. ReorderBound = 0 \/ \E f \in Reorders : ReorderBound <= f.ac
  BY <1>1, <1>6, <1>9
<1>12. /\ RevealBound \in 0..MaxLog
       /\ \A f \in Reveals : f.ac <= net.watermark => f.ac <= RevealBound
  BY <1>1, <1>5, <1>8
<1>13. /\ ReorderBound \in 0..MaxLog
       /\ \A f \in Reorders : f.ac <= shadow.pos => f.ac <= ReorderBound
  BY <1>1, <1>6, <1>9
<1>14. RevealBound = net.watermark \/ \A f \in Reveals : f.ac <= RevealBound
  BY <1>5, <1>8
<1>15. ReorderBound = shadow.pos \/ \A f \in Reorders : f.ac <= ReorderBound
  BY <1>6, <1>9
<1> QED BY <1>5, <1>6, <1>10, <1>11, <1>12, <1>13, <1>14, <1>15

\* What is due is listed by position.
LEMMA DueByPosition ==
    ASSUME TypeOK, LogIsByPosition
    PROVE  ByPosition(DueReveals) /\ ByPosition(DueReorders)
<1>1. net.log \subseteq Facts
  BY DEF TypeOK, Nets
<1> QED BY <1>1 DEF LogIsByPosition, SameClass, ByPosition, DueReveals, DueReorders,
                     Reveals, Reorders

\* A synchronisation moves cursors and applies facts; the rest stays.
LEMMA SyncKeeps ==
    ASSUME TypeOK, LogIsByPosition
    PROVE  /\ SyncedNet \in Nets /\ SyncedShadow \in Shadows
           /\ SyncedNet.log = net.log /\ SyncedNet.authoritative = net.authoritative
           /\ SyncedNet.watermark = net.watermark /\ SyncedNet.theirs = net.theirs
           /\ SyncedNet.theirCursor = net.theirCursor /\ SyncedNet.accepted = net.accepted
           /\ SyncedNet.local = net.local /\ SyncedNet.terminal = net.terminal
           /\ SyncedShadow.pos = shadow.pos /\ SyncedShadow.phase = shadow.phase
           /\ SyncedShadow.awaits = shadow.awaits /\ SyncedShadow.taken = shadow.taken
           /\ SyncedShadow.sent = shadow.sent /\ SyncedShadow.fetched = shadow.fetched
           /\ SyncedShadow.applied =
                shadow.applied \o InOrder(DueReorders) \o InOrder(DueReveals)
<1> USE SyncAssumption
<1>1. net \in Nets /\ shadow \in Shadows
  BY DEF TypeOK
<1>2. ASSUME NEW x \in 0..MaxLog, NEW y \in 0..MaxLog PROVE Max({x, y}) \in 0..MaxLog
  BY LeastAndGreatest
<1>3. /\ Max({net.revealCursor, RevealBound}) \in 0..MaxLog
      /\ Max({net.reorderCursor, ReorderBound}) \in 0..MaxLog
  BY <1>1, <1>2, Bounds DEF Nets
<1>4. /\ SyncedNet \in Nets
      /\ SyncedNet.log = net.log /\ SyncedNet.authoritative = net.authoritative
      /\ SyncedNet.watermark = net.watermark /\ SyncedNet.theirs = net.theirs
      /\ SyncedNet.theirCursor = net.theirCursor /\ SyncedNet.accepted = net.accepted
      /\ SyncedNet.local = net.local /\ SyncedNet.terminal = net.terminal
  BY <1>1, <1>3 DEF SyncedNet, Nets
<1>5. InOrder(DueReorders) \in Seq(Facts) /\ InOrder(DueReveals) \in Seq(Facts)
  <2>1. DueReorders \subseteq Facts /\ DueReveals \subseteq Facts
    BY DueByPosition DEF ByPosition
  <2>2. InOrder(DueReorders) \in Seq(DueReorders) /\ InOrder(DueReveals) \in Seq(DueReveals)
    BY DueByPosition, InOrderSorts
  <2> QED BY <2>1, <2>2
<1> DEFINE digs == {f.ac : f \in {g \in DueReveals : g.kind = "dig"}}
           kept == IF digs = {} THEN shadow.pending ELSE Max(digs)
<1>6. kept \in -1..MaxLog
  <2>1. digs \subseteq 0..MaxLog
    <3>1. DueReveals \subseteq Facts
      BY DueByPosition DEF ByPosition
    <3> QED BY <3>1 DEF Facts
  <2>2. digs # {} => Max(digs) \in 0..MaxLog
    <3> HIDE DEF digs
    <3> QED BY <2>1, LeastAndGreatest
  <2> HIDE DEF digs
  <2> QED BY <1>1, <2>2 DEF Shadows
<1>7. SyncedShadow =
        [shadow EXCEPT !.applied = shadow.applied \o InOrder(DueReorders) \o InOrder(DueReveals),
                       !.pending = kept]
  BY DEF SyncedShadow
<1>8. shadow.applied \o InOrder(DueReorders) \o InOrder(DueReveals) \in Seq(Facts)
  BY <1>1, <1>5 DEF Shadows
<1> HIDE DEF kept
<1> QED BY <1>1, <1>4, <1>6, <1>7, <1>8 DEF Shadows

-----------------------------------------------------------------------------
(* The messages of the server.                                             *)

\* The golden game runs to the next choice and no further.
LEMMA NextChoiceIsNext ==
    ASSUME NEW k \in 0..MaxLog
    PROVE  /\ NextChoice(k) \in k..MaxLog
           /\ NextChoice(k) = MaxLog \/ script[NextChoice(k)] \in Ours \union Theirs
           /\ \A i \in k..NextChoice(k) - 1 : script[i] \notin Ours \union Theirs
<1> DEFINE S == {q \in k..MaxLog : q = MaxLog \/ script[q] \in Ours \union Theirs}
<1>1. MaxLog \in S /\ S \subseteq 0..MaxLog
  BY SyncAssumption
<1>2. Min(S) \in S /\ \A x \in S : Min(S) <= x
  <2> HIDE DEF S
  <2> QED BY <1>1, SyncAssumption, LeastAndGreatest
<1>3. \A i \in k..Min(S) - 1 : i \in k..MaxLog /\ i \notin S
  <2>1. Min(S) \in k..MaxLog
    BY <1>2
  <2>2. \A i \in S : ~(i < Min(S))
    <3>1. S \subseteq Int /\ Min(S) \in Int
      BY <1>1, <2>1
    <3> HIDE DEF S
    <3> QED BY <1>2, <3>1
  <2> HIDE DEF S
  <2> QED BY <2>1, <2>2, SyncAssumption
<1>4. \A i \in k..Min(S) - 1 : script[i] \notin Ours \union Theirs
  BY <1>3
<1>5. Min(S) \in k..MaxLog /\ (Min(S) = MaxLog \/ script[Min(S)] \in Ours \union Theirs)
  BY <1>2
<1>6. \E q \in k..MaxLog : /\ q = MaxLog \/ script[q] \in Ours \union Theirs
                           /\ \A i \in k..q - 1 : script[i] \notin Ours \union Theirs
  <2> HIDE DEF S
  <2> QED BY <1>4, <1>5
<1> QED BY <1>6 DEF NextChoice

\* The deeds of a game.
LEMMA DeedsOfScript ==
    ASSUME script \in [Positions -> Deeds], NEW k \in Positions
    PROVE  /\ script[k] \in Ours \union Theirs \union DOMAIN KindOf
           /\ script[k] \in DOMAIN KindOf => FactOf(k) \in Facts
           /\ Candidates(k) \subseteq Facts
           /\ k \in 0..MaxLog /\ k < MaxLog
<1> USE SyncAssumption
<1>1. k \in 0..MaxLog - 1 /\ MaxLog \in Nat
  BY DEF Positions
<1>2. /\ DOMAIN KindOf = {"draw", "cast", "shuffle", "find", "dig"}
      /\ \A d \in DOMAIN KindOf : KindOf[d] \in {"reveal", "reorder", "searched", "dig"}
  BY DEF KindOf
<1>3. script[k] \in DOMAIN KindOf => FactOf(k) \in Facts
  BY <1>1, <1>2 DEF FactOf, Facts
<1>4. Candidates(k) \subseteq Facts
  BY <1>1 DEF Candidates, Facts
<1> QED BY <1>1, <1>3, <1>4 DEF Positions

\* Copies of facts are eager messages, one fact each, by position.
IsCopies(s, S) ==
    /\ s \in Seq(Messages)
    /\ \A i \in DOMAIN s : s[i].type = "eager" /\ \E f \in S : s[i].facts = {f}
    /\ \A f \in S : \E i \in DOMAIN s : s[i].facts = {f}
    /\ \A i, j \in DOMAIN s : i < j =>
         \A f \in s[i].facts, g \in s[j].facts : f.ac < g.ac

\* One eager message for each fact, in order, is a sequence of copies of the facts.
LEMMA CopiesOfFacts ==
    ASSUME NEW S, ByPosition(S), NEW s,
           s = [i \in DOMAIN InOrder(S) |-> Message("eager", 0, {InOrder(S)[i]}, {})]
    PROVE  IsCopies(s, S)
<1>1. /\ InOrder(S) \in Seq(S)
      /\ \A i, j \in DOMAIN InOrder(S) : i < j => InOrder(S)[i].ac < InOrder(S)[j].ac
      /\ \A f \in S : \E i \in DOMAIN InOrder(S) : InOrder(S)[i] = f
  BY InOrderSorts
<1>2. S \subseteq Facts /\ 0 \in 0..MaxLog
  BY SyncAssumption DEF ByPosition
<1>3. \A f \in S : Message("eager", 0, {f}, {}) \in Messages
  BY <1>2 DEF Message, Messages
<1>4. \A f : Message("eager", 0, {f}, {}).type = "eager" /\ Message("eager", 0, {f}, {}).facts = {f}
  BY DEF Message
<1>5. DOMAIN InOrder(S) = 1..Len(InOrder(S)) /\ Len(InOrder(S)) \in Nat
      /\ \A i \in DOMAIN InOrder(S) : InOrder(S)[i] \in S
  BY <1>1
<1>6. s \in Seq(Messages)
  BY <1>3, <1>5
<1>7. DOMAIN s = DOMAIN InOrder(S) /\ \A i \in DOMAIN s : s[i].type = "eager" /\ s[i].facts = {InOrder(S)[i]}
  BY <1>4
<1>8. \A i \in DOMAIN s : s[i].type = "eager" /\ \E f \in S : s[i].facts = {f}
  BY <1>5, <1>7
<1>9. \A f \in S : \E i \in DOMAIN s : s[i].facts = {f}
  BY <1>1, <1>7
<1>10. \A i, j \in DOMAIN s : i < j =>
         \A f \in s[i].facts, g \in s[j].facts : f.ac < g.ac
  <2> SUFFICES ASSUME NEW i \in DOMAIN s, NEW j \in DOMAIN s, i < j
               PROVE  \A f \in s[i].facts, g \in s[j].facts : f.ac < g.ac
    OBVIOUS
  <2>1. InOrder(S)[i].ac < InOrder(S)[j].ac
    BY <1>1, <1>7
  <2> QED BY <1>7, <2>1
<1> QED BY <1>6, <1>8, <1>9, <1>10 DEF IsCopies

\* Deeds of one kind.
LEMMA CopiesOfDeeds ==
    ASSUME TypeOK, NEW from \in 0..MaxLog, NEW to \in 0..MaxLog,
           NEW deeds \in {{"shuffle"}, {"dig"}, {"draw", "cast"}}
    PROVE  IsCopies(Copies(from, to, deeds),
                    {FactOf(k) : k \in {i \in from..to - 1 : script[i] \in deeds}})
<1> DEFINE S == {FactOf(k) : k \in {i \in from..to - 1 : script[i] \in deeds}}
<1>1. ByPosition(S)
  <2>1. \A k \in {i \in from..to - 1 : script[i] \in deeds} :
          k \in Positions /\ script[k] \in DOMAIN KindOf
    BY SyncAssumption DEF Positions, KindOf
  <2>2. S \subseteq Facts
    BY <2>1, DeedsOfScript DEF TypeOK
  <2>3. ASSUME NEW k \in from..to - 1, NEW j \in from..to - 1,
               script[k] \in deeds, script[j] \in deeds, FactOf(k).ac = FactOf(j).ac
        PROVE  FactOf(k) = FactOf(j)
    BY <2>3 DEF FactOf, KindOf
  <2> QED BY <2>2, <2>3 DEF ByPosition
<1>2. Copies(from, to, deeds) =
        [i \in DOMAIN InOrder(S) |-> Message("eager", 0, {InOrder(S)[i]}, {})]
  BY DEF Copies
<1>3. IsCopies(Copies(from, to, deeds), S)
  <2> HIDE DEF S
  <2> QED BY <1>1, <1>2, CopiesOfFacts
<1> QED BY <1>3

\* Messages that are no question.
NoRequest(s) ==
    /\ s \in Seq(Messages)
    /\ \A i \in DOMAIN s : s[i].type # "request" /\ (s[i].type = "eager" => s[i].facts # {})

\* Every message is an eager one that tells something.
AllEager(s) ==
    /\ s \in Seq(Messages)
    /\ \A i \in DOMAIN s : s[i].type = "eager" /\ s[i].facts # {}

\* Joined with another such sequence it stays so.
LEMMA EagerThenEager ==
    ASSUME NEW s, NEW t, AllEager(s), AllEager(t)
    PROVE  AllEager(s \o t)
<1>1. s \o t \in Seq(Messages)
  BY DEF AllEager
<1>2. ASSUME NEW i \in DOMAIN (s \o t) PROVE (s \o t)[i].type = "eager" /\ (s \o t)[i].facts # {}
  <2>1. /\ Len(s) \in Nat /\ Len(t) \in Nat /\ i \in 1..Len(s) + Len(t)
        /\ (s \o t)[i] = IF i <= Len(s) THEN s[i] ELSE t[i - Len(s)]
    BY <1>2 DEF AllEager
  <2>2. CASE i <= Len(s)
    BY <2>1, <2>2 DEF AllEager
  <2>3. CASE ~(i <= Len(s))
    <3>1. i - Len(s) \in DOMAIN t
      BY <2>1, <2>3 DEF AllEager
    <3> QED BY <2>1, <2>3, <3>1 DEF AllEager
  <2> QED BY <2>2, <2>3
<1> QED BY <1>1, <1>2 DEF AllEager

\* Without a question nor a question with: what a message does to a sequence.
LEMMA NoRequestThenNone ==
    ASSUME NEW s, NEW t, NoRequest(s), NoRequest(t)
    PROVE  NoRequest(s \o t)
<1>1. s \o t \in Seq(Messages)
  BY DEF NoRequest
<1>2. ASSUME NEW i \in DOMAIN (s \o t)
      PROVE  /\ (s \o t)[i].type # "request"
             /\ (s \o t)[i].type = "eager" => (s \o t)[i].facts # {}
  <2>1. /\ Len(s) \in Nat /\ Len(t) \in Nat /\ i \in 1..Len(s) + Len(t)
        /\ (s \o t)[i] = IF i <= Len(s) THEN s[i] ELSE t[i - Len(s)]
    BY <1>2 DEF NoRequest
  <2>2. CASE i <= Len(s)
    BY <2>1, <2>2 DEF NoRequest
  <2>3. CASE ~(i <= Len(s))
    <3>1. i - Len(s) \in DOMAIN t
      BY <2>1, <2>3 DEF NoRequest
    <3> QED BY <2>1, <2>3, <3>1 DEF NoRequest
  <2> QED BY <2>2, <2>3
<1> QED BY <1>1, <1>2 DEF NoRequest

\* The copies that go ahead of a question are eager.
LEMMA CopiesAreEager ==
    ASSUME TypeOK, NEW q \in 0..MaxLog
    PROVE  /\ AllEager(EagerCopies(golden.at, q))
           /\ q < MaxLog => AllEager(EagerReveals(golden.asked, q))
<1>1. golden.at \in 0..MaxLog /\ golden.asked \in 0..MaxLog
  BY DEF TypeOK, Goldens
<1>2. ASSUME NEW from \in 0..MaxLog, NEW deeds \in {{"shuffle"}, {"dig"}, {"draw", "cast"}}
      PROVE  AllEager(Copies(from, q, deeds))
  <2>1. \E S : IsCopies(Copies(from, q, deeds), S)
    BY <1>1, <1>2, CopiesOfDeeds, Zenon
  <2> QED BY <2>1 DEF IsCopies, AllEager
<1>3. AllEager(EagerCopies(golden.at, q))
  <2>1. AllEager(Copies(golden.at, q, {"shuffle"})) /\ AllEager(Copies(golden.at, q, {"dig"}))
    BY <1>1, <1>2
  <2> QED BY <2>1, EagerThenEager DEF EagerCopies
<1>4. ASSUME q < MaxLog PROVE AllEager(EagerReveals(golden.asked, q))
  <2> DEFINE t == IF Candidates(q) = {} THEN <<>>
                  ELSE <<Message("eager", 0, Candidates(q), {})>>
  <2>1. q \in Positions /\ 0 \in 0..MaxLog
    BY <1>4, SyncAssumption DEF Positions
  <2>2. Message("eager", 0, Candidates(q), {}) \in Messages
    BY <2>1, DeedsOfScript DEF Message, Messages, TypeOK
  <2>3. AllEager(t)
    BY <2>2 DEF AllEager, Message
  <2>4. EagerReveals(golden.asked, q) = Copies(golden.asked, q, {"draw", "cast"}) \o t
    BY DEF EagerReveals
  <2> HIDE DEF t
  <2> QED BY <1>1, <1>2, <2>3, <2>4, EagerThenEager
<1> QED BY <1>3, <1>4

\* What the server sends when the game reaches a choice: a question if the choice
\* is ours, with the opponent's choices since the last one.
LEMMA QuestionShape ==
    ASSUME TypeOK, NEW q \in golden.at..MaxLog
    PROVE  /\ q = MaxLog \/ script[q] \in Theirs => NoRequest(Question(q))
           /\ q < MaxLog /\ script[q] \in Ours =>
                \E front, m :
                  /\ NoRequest(front) /\ m \in Messages
                  /\ front = EagerCopies(golden.at, q) \o EagerReveals(golden.asked, q)
                  /\ wire \o Question(q) = Append(wire \o front, m)
                  /\ wire \o front \in Seq(Messages)
                  /\ m.type = "request" /\ m.ac = q
                  /\ m.facts = FactsIn(golden.asked, q) \union Candidates(q)
                  /\ m.choices = {k \in golden.asked..q - 1 : script[k] \in Theirs}
<1>1. golden.at \in 0..MaxLog /\ golden.asked \in 0..MaxLog /\ q \in 0..MaxLog /\ MaxLog \in Nat
  BY SyncAssumption DEF TypeOK, Goldens
<1>2. AllEager(EagerCopies(golden.at, q)) /\ (q < MaxLog => AllEager(EagerReveals(golden.asked, q)))
  BY <1>1, CopiesAreEager
<1>3. Ending("ended") \in Messages /\ Ending("ended").type = "ended"
  BY <1>1 DEF Ending, Message, Messages
<1>4. CASE q = MaxLog
  <2>1. Question(q) = <<Ending("ended")>> /\ ~(q < MaxLog)
    BY <1>1, <1>4 DEF Question
  <2>2. NoRequest(Question(q))
    BY <1>3, <2>1 DEF NoRequest
  <2> QED BY <2>1, <2>2, Zenon
<1>5. CASE q < MaxLog /\ script[q] \in Theirs
  <2>1. Question(q) = EagerCopies(golden.at, q) /\ script[q] \notin Ours
    BY <1>5 DEF Question, Theirs, Ours
  <2>2. NoRequest(Question(q))
    BY <1>2, <1>5, <2>1, <1>1 DEF NoRequest, AllEager
  <2> QED BY <2>1, <2>2, Zenon
<1>6. CASE q < MaxLog /\ script[q] \in Ours
  <2> DEFINE facts == FactsIn(golden.asked, q) \union Candidates(q)
             choices == {k \in golden.asked..q - 1 : script[k] \in Theirs}
             m == Message("request", q, facts, choices)
             front == EagerCopies(golden.at, q) \o EagerReveals(golden.asked, q)
  <2>1. Question(q) = EagerCopies(golden.at, q) \o EagerReveals(golden.asked, q) \o <<m>>
    BY <1>6 DEF Question, Theirs, Ours
  <2>2. facts \subseteq Facts
    <3>1. q \in Positions /\ \A k \in golden.asked..q - 1 : k \in Positions
      BY <1>1, <1>6 DEF Positions
    <3> QED BY <3>1, DeedsOfScript DEF FactsIn, TypeOK
  <2>3. choices \subseteq Positions
    BY <1>1, <1>6 DEF Positions
  <2>4. m \in Messages
    <3> HIDE DEF facts, choices
    <3> QED BY <1>1, <2>2, <2>3 DEF Message, Messages
  <2>5. m.type = "request" /\ m.ac = q /\ m.facts = facts /\ m.choices = choices
    BY DEF Message
  <2>6. AllEager(front)
    BY <1>2, <1>6, EagerThenEager
  <2>7. NoRequest(front) /\ wire \o front \in Seq(Messages)
    BY <2>6 DEF AllEager, NoRequest, TypeOK
  <2>8. wire \o Question(q) = Append(wire \o front, m)
    <3>1. Question(q) = front \o <<m>>
      BY <2>1
    <3>2. front \in Seq(Messages) /\ wire \in Seq(Messages)
      BY <2>7 DEF NoRequest, TypeOK
    <3> HIDE DEF front, m
    <3> QED BY <2>4, <3>1, <3>2
  <2> SUFFICES \E f, r : /\ NoRequest(f) /\ r \in Messages
                         /\ f = front
                         /\ wire \o Question(q) = Append(wire \o f, r)
                         /\ wire \o f \in Seq(Messages)
                         /\ r.type = "request" /\ r.ac = q
                         /\ r.facts = facts /\ r.choices = choices
    <3>1. q # MaxLog /\ script[q] \notin Theirs
      BY <1>1, <1>6 DEF Ours, Theirs
    <3> QED BY <1>6, <3>1, Zenon
  <2> HIDE DEF m, front, facts, choices
  <2> QED BY <2>4, <2>5, <2>7, <2>8
<1>7. CASE q < MaxLog /\ script[q] \notin Ours \union Theirs
  <2>1. q # MaxLog
    BY <1>1, <1>7
  <2> QED BY <1>7, <2>1, Zenon
<1>8. q = MaxLog \/ q < MaxLog
  BY <1>1
<1> QED BY <1>4, <1>5, <1>6, <1>7, <1>8, Zenon

-----------------------------------------------------------------------------
(* Questions and choices: the server.                                      *)

\* A message is read, and one is added.
LEMMA TakesFirst ==
    ASSUME NEW s \in Seq(Messages), s # <<>>
    PROVE  /\ Head(s) \in Messages /\ Head(s) = s[1] /\ 1 \in DOMAIN s
           /\ Tail(s) \in Seq(Messages)
           /\ \A i \in DOMAIN Tail(s) : /\ i \in Nat /\ i + 1 \in DOMAIN s
                                        /\ Tail(s)[i] = s[i + 1]
           /\ \A i \in DOMAIN s : i # 1 => i - 1 \in DOMAIN Tail(s) /\ Tail(s)[i - 1] = s[i]
<1>1. Tail(s) \in Seq(Messages) /\ Len(s) \in Nat \ {0} /\ Len(Tail(s)) = Len(s) - 1
  OBVIOUS
<1>2. \A i \in 1..Len(s) - 1 : Tail(s)[i] = s[i + 1]
  OBVIOUS
<1>3. Head(s) = s[1] /\ s[1] \in Messages
  BY <1>1
<1>4. DOMAIN s = 1..Len(s) /\ DOMAIN Tail(s) = 1..Len(s) - 1
  BY <1>1
<1>5. \A i \in 1..Len(s) : i # 1 => i - 1 \in 1..Len(s) - 1 /\ i = (i - 1) + 1
  BY <1>1
<1> QED BY <1>1, <1>2, <1>3, <1>4, <1>5

\* An appended message comes after those that were there.
LEMMA AddsLast ==
    ASSUME NEW s \in Seq(Messages), NEW m \in Messages
    PROVE  /\ Append(s, m) \in Seq(Messages) /\ Append(s, m) # <<>>
           /\ \A i \in DOMAIN Append(s, m) :
                \/ i \in DOMAIN s /\ Append(s, m)[i] = s[i]
                \/ i = Len(s) + 1 /\ Append(s, m)[i] = m
           /\ \A i \in DOMAIN s : i \in DOMAIN Append(s, m) /\ Append(s, m)[i] = s[i]
           /\ Len(s) + 1 \in DOMAIN Append(s, m) /\ Append(s, m)[Len(s) + 1] = m
OBVIOUS

\* Where no question is.
LEMMA NobodyAsks ==
    ASSUME OneQuestion, ~Asking
    PROVE  /\ \A i \in DOMAIN wire : wire[i].type # "request"
           /\ \A i \in DOMAIN net.local : net.local[i].type # "request"
           /\ ~InWire /\ ~InReader /\ ~InLocal /\ ~Held
BY Zenon DEF OneQuestion, InWire, InLocal

\* The server reaches its next choice: it sends the copies, and the question if it is ours.
LEMMA ReachingChoiceKeeps ==
    ASSUME ChoicesInv, GameReachesChoice
    PROVE  ChoicesInv'
<1> USE DEF ChoicesInv
<1> DEFINE q == NextChoice(golden.at)
<1>1. /\ script' = script /\ reader' = reader /\ net' = net /\ shadow' = shadow
      /\ wire' = wire \o Question(q) /\ ~golden.waiting /\ ~golden.over
      /\ golden' = [at |-> q, waiting |-> q < MaxLog, over |-> q = MaxLog,
                    asked |-> IF q < MaxLog /\ script[q] \in Theirs THEN golden.asked ELSE q]
  BY DEF GameReachesChoice
<1>2. /\ golden.at \in 0..MaxLog /\ golden.asked \in 0..MaxLog /\ MaxLog \in Nat
      /\ wire \in Seq(Messages)
  BY SyncAssumption DEF TypeOK, Goldens
<1>3. /\ q \in golden.at..MaxLog
      /\ q = MaxLog \/ script[q] \in Ours \union Theirs
      /\ \A i \in golden.at..q - 1 : script[i] \notin Ours \union Theirs
  BY <1>2, NextChoiceIsNext
<1> HIDE DEF q
<1>4. /\ golden'.at = q /\ (golden'.waiting <=> q < MaxLog) /\ (golden'.over <=> q = MaxLog)
      /\ q < MaxLog /\ script[q] \in Theirs => golden'.asked = golden.asked
      /\ ~(q < MaxLog /\ script[q] \in Theirs) => golden'.asked = q
  BY <1>1
<1>5. ~Asking
  BY <1>1 DEF Asking
<1>6. /\ ~InWire /\ ~InReader /\ ~InLocal /\ ~Held
      /\ ~InReader' /\ ~InLocal' /\ ~Held' /\ NoRequest(wire)
  BY <1>1, <1>2, <1>5, NobodyAsks DEF InReader, InLocal, Held, NoRequest, EagerTells
<1>7. golden' \in Goldens
  BY <1>1, <1>2, <1>3 DEF Goldens
<1>8. GoldenPlace'
  <2>1. /\ golden'.asked \in Int /\ golden'.asked <= golden'.at /\ golden.asked <= golden'.asked
        /\ golden'.waiting => q < MaxLog
        /\ golden'.waiting /\ script[q] \in Ours => golden'.asked = q
    <3>1. script[q] \in Ours => script[q] \notin Theirs
      BY DEF Ours, Theirs
    <3>2. golden.asked <= golden.at /\ golden.at <= q /\ q \in Int
      BY <1>2, <1>3 DEF GoldenPlace
    <3> QED BY <1>2, <1>4, <3>1, <3>2
  <2>2. ASSUME NEW k \in 0..q - 1, script[k] \in Ours
        PROVE  k <= golden'.asked /\ k \in shadow.sent
    <3>1. k \in 0..golden.at - 1
      BY <1>2, <1>3, <2>2
    <3>2. k <= golden.asked /\ k \in shadow.sent
      BY <2>2, <3>1 DEF GoldenPlace
    <3> QED BY <1>2, <2>1, <3>1, <3>2
  <2>3. ASSUME NEW k \in shadow.sent PROVE k < q
    <3>1. k \in Int
      BY SyncAssumption DEF TypeOK, Shadows, Positions
    <3>2. k < golden.at
      BY <1>1 DEF GoldenPlace
    <3> QED BY <1>2, <1>3, <3>1, <3>2
  <2>4. golden'.waiting => script[q] \in Ours \union Theirs
    BY <1>2, <1>3, <1>4
  <2> QED BY <1>1, <1>4, <2>1, <2>2, <2>3, <2>4 DEF GoldenPlace
<1>9. ShadowPlace' /\ LogIsByPosition' /\ ChoicesTaken'
  BY <1>1 DEF ShadowPlace, LogIsByPosition, ChoicesTaken, TheirsBelow, Positions
<1>10. /\ TheirsBelow(golden.at) \subseteq TheirsBelow(q)
       /\ \A k : TheirsBelow(k)' = TheirsBelow(k)
  BY <1>1, <1>2, <1>3 DEF TheirsBelow, Positions
<1>11. CASE q = MaxLog \/ script[q] \in Theirs
  <2>1. NoRequest(wire')
    BY <1>1, <1>3, <1>6, <1>11, QuestionShape, NoRequestThenNone
  <2>2. TypeOK'
    BY <1>1, <1>7, <2>1 DEF TypeOK, NoRequest, Nets, Shadows
  <2>5. EagerTells'
    BY <2>1 DEF EagerTells, NoRequest
  <2>3. OneQuestion'
    BY <1>1, <1>6, <2>1, NobodyAsks DEF OneQuestion, NoRequest, InWire, InReader, InLocal, Held
  <2>4. ChoicesArrive'
    <3>1. Healthy /\ ~golden'.over => TheirsBelow(golden'.asked) \subseteq net.theirs
      <4>1. ~golden'.over => golden'.asked = golden.asked
        BY <1>2, <1>3, <1>4, <1>11
      <4>2. Healthy => TheirsBelow(golden.asked) \subseteq net.theirs
        BY <1>1, <1>6 DEF ChoicesArrive
      <4> QED BY <4>1, <4>2
    <3>2. \A i \in DOMAIN wire' : wire'[i].type # "request"
      BY <2>1 DEF NoRequest
    <3> QED BY <1>1, <1>4, <1>6, <1>10, <3>1, <3>2 DEF ChoicesArrive, InReader, Healthy
  <2> QED BY <1>8, <1>9, <2>2, <2>3, <2>4, <2>5
<1>12. CASE q < MaxLog /\ script[q] \in Ours
  <2>1. PICK front, m :
          /\ wire' = Append(wire \o front, m)
          /\ NoRequest(front) /\ m \in Messages /\ wire \o front \in Seq(Messages)
          /\ m.type = "request" /\ m.ac = q
          /\ m.choices = {k \in golden.asked..q - 1 : script[k] \in Theirs}
    <3>1. wire' = wire \o Question(q)
      BY <1>1
    <3> QED BY <1>3, <1>12, <3>1, QuestionShape, Zenon
  <2> DEFINE w == wire \o front
  <2>2. NoRequest(w)
    BY <1>6, <2>1, NoRequestThenNone
  <2>3. wire' = Append(w, m) /\ w \in Seq(Messages)
    BY <2>1, <2>2 DEF NoRequest
  <2> HIDE DEF w
  <2>4. /\ wire' \in Seq(Messages) /\ Len(w) + 1 \in DOMAIN wire' /\ wire'[Len(w) + 1] = m
        /\ \A i \in DOMAIN wire' : i # Len(w) + 1 =>
             wire'[i].type # "request" /\ (wire'[i].type = "eager" => wire'[i].facts # {})
    <3>1. /\ Append(w, m) \in Seq(Messages)
          /\ \A i \in DOMAIN Append(w, m) :
               \/ i \in DOMAIN w /\ Append(w, m)[i] = w[i]
               \/ i = Len(w) + 1 /\ Append(w, m)[i] = m
          /\ Len(w) + 1 \in DOMAIN Append(w, m) /\ Append(w, m)[Len(w) + 1] = m
      BY <2>1, <2>3, AddsLast
    <3> QED BY <2>2, <2>3, <3>1, Zenon DEF NoRequest
  <2>9. EagerTells'
    BY <2>1, <2>4 DEF EagerTells
  <2>5. TypeOK'
    BY <1>1, <1>7, <2>4 DEF TypeOK, Nets, Shadows
  <2>6. Asking'
    <3>1. q \notin shadow.sent
      BY <1>1, <1>2, <1>3 DEF GoldenPlace
    <3> QED BY <1>1, <1>4, <1>12, <3>1 DEF Asking
  <2>7. OneQuestion'
    <3>1. \A i \in DOMAIN wire' : wire'[i].type = "request" => wire'[i].ac = golden'.at
      BY <1>4, <2>1, <2>4
    <3>2. \A i \in DOMAIN net.local : net.local[i].type # "request"
      BY <1>5, NobodyAsks
    <3> QED BY <1>1, <1>6, <2>4, <2>6, <3>1, <3>2
            DEF OneQuestion, InWire, InReader, InLocal, Held
  <2>8. ChoicesArrive'
    <3>1. m.choices \subseteq TheirsBelow(q)
      BY <1>2, <1>3, <2>1 DEF TheirsBelow, Positions
    <3>2. Healthy => TheirsBelow(q) \subseteq net.theirs \union m.choices
      <4>1. Healthy => TheirsBelow(golden.asked) \subseteq net.theirs
        BY <1>1, <1>6 DEF ChoicesArrive
      <4>2. TheirsBelow(q) \subseteq TheirsBelow(golden.asked) \union m.choices
        BY <1>2, <1>3, <2>1 DEF TheirsBelow, Positions
      <4> QED BY <4>1, <4>2
    <3>3. \A i \in DOMAIN wire' : wire'[i].type = "request" => wire'[i].choices = m.choices
      BY <2>4
    <3>4. InWire'
      BY <2>1, <2>4 DEF InWire
    <3> QED BY <1>1, <1>4, <1>6, <1>10, <3>1, <3>2, <3>3, <3>4
            DEF ChoicesArrive, InReader, Healthy
  <2> QED BY <1>8, <1>9, <2>5, <2>7, <2>8, <2>9
<1> QED BY <1>2, <1>3, <1>11, <1>12

\* A step that moves no question and no choice keeps them in their places.
LEMMA Frame ==
    ASSUME ChoicesInv, script' = script,
           golden'.at = golden.at, golden'.asked = golden.asked,
           golden'.waiting = golden.waiting, golden.over => golden'.over,
           \A i \in DOMAIN wire' : wire'[i].type = "request" => \E j \in DOMAIN wire : wire[j] = wire'[i],
           \A i, j \in DOMAIN wire' :
             wire'[i].type = "request" /\ wire'[j].type = "request" => i = j,
           InWire => InWire',
           InReader' => /\ InReader /\ reader'.msg.type = reader.msg.type
                        /\ reader'.msg.ac = reader.msg.ac
                        /\ reader'.msg.choices = reader.msg.choices,
           Healthy' => Healthy /\ (InReader => InReader'),
           reader'.phase \in {"notify", "exit"} => reader'.msg.type # "request",
           net'.theirs = net.theirs, net'.theirCursor = net.theirCursor, net'.local = net.local,
           shadow' = shadow \/ (shadow.phase = "asleep" /\ shadow' = [shadow EXCEPT !.phase = "look"])
    PROVE  OneQuestion' /\ GoldenPlace' /\ ShadowPlace' /\ ChoicesArrive' /\ ChoicesTaken'
<1> USE DEF ChoicesInv
<1>1. /\ shadow'.pos = shadow.pos /\ shadow'.sent = shadow.sent
      /\ shadow'.taken = shadow.taken /\ shadow'.awaits = shadow.awaits
      /\ shadow'.phase = shadow.phase \/ (shadow.phase = "asleep" /\ shadow'.phase = "look")
  BY DEF TypeOK, Shadows
<1>2. /\ Asking' = Asking /\ Held' = Held /\ InLocal' = InLocal
      /\ (InWire' => InWire)
  BY <1>1 DEF Asking, Held, InLocal, InWire
<1>3. \A k : TheirsBelow(k)' = TheirsBelow(k)
  BY DEF TheirsBelow, Positions
<1>4. OneQuestion'
  <2>1. \A i \in DOMAIN wire' : wire'[i].type = "request" => Asking' /\ wire'[i].ac = golden'.at
    BY <1>2 DEF OneQuestion
  <2>2. InReader' => Asking' /\ reader'.msg.type = "request" /\ reader'.msg.ac = golden'.at
    BY <1>2 DEF OneQuestion
  <2>3. \A i \in DOMAIN net'.local :
          net'.local[i].type = "request" => Asking' /\ net'.local[i].ac = golden'.at
    BY <1>2 DEF OneQuestion
  <2>4. Held' => Asking' /\ shadow'.taken = golden'.at
    BY <1>1, <1>2 DEF OneQuestion
  <2>5. /\ InWire' => ~InReader' /\ ~InLocal' /\ ~Held'
        /\ InReader' => ~InLocal' /\ ~Held'
        /\ InLocal' => ~Held'
    BY <1>2 DEF OneQuestion
  <2>6. \A i, j \in DOMAIN net'.local :
          net'.local[i].type = "request" /\ net'.local[j].type = "request" => i = j
    BY DEF OneQuestion
  <2> QED BY <2>1, <2>2, <2>3, <2>4, <2>5, <2>6 DEF OneQuestion
<1>5. GoldenPlace'
  BY <1>1 DEF GoldenPlace
<1>6. ShadowPlace'
  BY <1>1 DEF ShadowPlace, Waits
<1>7. ChoicesArrive'
  BY <1>2, <1>3 DEF ChoicesArrive
<1>8. ChoicesTaken'
  BY <1>1, <1>3 DEF ChoicesTaken
<1> QED BY <1>4, <1>5, <1>6, <1>7, <1>8

\* The types that depend on the script.
LEMMA SameTypes ==
    ASSUME script' = script
    PROVE  /\ Nets' = Nets /\ Shadows' = Shadows
BY DEF Nets, Shadows, Positions

\* The connection ends behind all that was sent.
LEMMA BreakingKeeps ==
    ASSUME ChoicesInv, NEW how \in {"closed", "dropped"}, ConnectionBreaks(how)
    PROVE  ChoicesInv'
<1> DEFINE m == Ending(how)
<1>1. /\ script' = script /\ reader' = reader /\ net' = net /\ shadow' = shadow
      /\ wire' = Append(wire, m) /\ golden' = [golden EXCEPT !.over = TRUE]
  BY DEF ConnectionBreaks
<1>2. m \in Messages /\ m.type # "request" /\ m.type # "eager"
  BY SyncAssumption DEF Ending, Message, Messages
<1> HIDE DEF m
<1>3. wire \in Seq(Messages) /\ golden \in Goldens
  BY DEF ChoicesInv, TypeOK
<1>4. /\ wire' \in Seq(Messages)
      /\ \A i \in DOMAIN wire' : wire'[i].type \in {"request", "eager"} =>
           i \in DOMAIN wire /\ wire'[i] = wire[i]
      /\ \A i \in DOMAIN wire : i \in DOMAIN wire' /\ wire'[i] = wire[i]
  BY <1>1, <1>2, <1>3, AddsLast
<1>5. /\ golden' \in Goldens /\ golden'.at = golden.at /\ golden'.asked = golden.asked
      /\ golden'.waiting = golden.waiting /\ golden'.over
  BY <1>1, <1>3 DEF Goldens
<1>6. TypeOK'
  BY <1>1, <1>4, <1>5, SameTypes DEF ChoicesInv, TypeOK
<1>7. LogIsByPosition' /\ EagerTells'
  BY <1>1, <1>4 DEF ChoicesInv, LogIsByPosition, EagerTells
<1>8. \A i, j \in DOMAIN wire' :
        wire'[i].type = "request" /\ wire'[j].type = "request" => i = j
  BY <1>4 DEF ChoicesInv, OneQuestion
<1>9. InWire => InWire'
  BY <1>4 DEF InWire
<1>10. OneQuestion' /\ GoldenPlace' /\ ShadowPlace' /\ ChoicesArrive' /\ ChoicesTaken'
  <2>1. InReader' = InReader /\ Healthy' = Healthy
    BY <1>1 DEF InReader, Healthy
  <2>2. reader'.phase \in {"notify", "exit"} => reader'.msg.type # "request"
    BY <1>1 DEF ChoicesInv, OneQuestion
  <2> QED BY <1>1, <1>4, <1>5, <1>8, <1>9, <2>1, <2>2, Frame
<1> QED BY <1>6, <1>7, <1>10 DEF ChoicesInv

\* The golden game goes on when its choice is made; no question is left then.
LEMMA ChoiceMadeKeeps ==
    ASSUME ChoicesInv, OpponentChooses \/ AnswerArrives
    PROVE  ChoicesInv'
<1> USE DEF ChoicesInv
<1>1. /\ script' = script /\ reader' = reader /\ net' = net /\ shadow' = shadow
      /\ golden.waiting /\ ~golden.over
      /\ golden' = [golden EXCEPT !.at = golden.at + 1, !.waiting = FALSE]
  BY DEF OpponentChooses, AnswerArrives
<1>2. /\ golden \in Goldens /\ golden.at \in 0..MaxLog /\ golden.asked \in 0..MaxLog
      /\ MaxLog \in Nat /\ wire \in Seq(Messages)
  BY SyncAssumption DEF TypeOK, Goldens
<1>3. golden.at < MaxLog /\ golden.at \in Positions
  BY <1>1, <1>2 DEF GoldenPlace, Positions
<1>4. /\ golden' \in Goldens /\ golden'.at = golden.at + 1 /\ ~golden'.waiting
      /\ golden'.asked = golden.asked /\ golden'.over = golden.over
  <2>1. golden.at + 1 \in 0..MaxLog
    BY <1>2, <1>3
  <2>2. golden' \in Goldens
    BY <1>1, <1>2, <2>1 DEF Goldens
  <2>3. golden'.waiting = FALSE
    BY <1>1, <1>2 DEF Goldens
  <2> QED BY <1>1, <1>2, <2>2, <2>3 DEF Goldens
<1>5. ~Asking /\ (script[golden.at] \in Ours => golden.at \in shadow.sent)
  BY DEF OpponentChooses, AnswerArrives, Asking, Ours, Theirs
<1>6. wire' = wire \/ \E m \in Messages : m.type = "accepted" /\ wire' = Append(wire, m)
  <2>1. Message("accepted", golden.at, {}, {}) \in Messages
    BY <1>2 DEF Message, Messages
  <2>2. Message("accepted", golden.at, {}, {}).type = "accepted"
    BY DEF Message
  <2>3. wire' = wire \/ wire' = Append(wire, Message("accepted", golden.at, {}, {}))
    BY DEF OpponentChooses, AnswerArrives
  <2> QED BY <2>1, <2>2, <2>3
<1>7. /\ ~InWire /\ ~InReader /\ ~InLocal /\ ~Held /\ NoRequest(wire)
      /\ ~InReader' /\ ~InLocal' /\ ~Held'
  BY <1>1, <1>2, <1>5, NobodyAsks DEF NoRequest, InReader, InLocal, Held, EagerTells
<1>8. NoRequest(wire')
  <2>1. CASE wire' = wire
    BY <1>7, <2>1
  <2>2. ASSUME NEW m \in Messages, m.type = "accepted", wire' = Append(wire, m)
        PROVE  NoRequest(wire')
    BY <1>2, <1>7, <2>2, AddsLast DEF NoRequest
  <2> QED BY <1>6, <2>1, <2>2
<1>9. TypeOK'
  BY <1>1, <1>4, <1>8, SameTypes DEF TypeOK, NoRequest
<1>10. OneQuestion'
  BY <1>1, <1>5, <1>7, <1>8, NobodyAsks
     DEF OneQuestion, NoRequest, InWire, InReader, InLocal, Held
<1>11. GoldenPlace'
  <2>1. ASSUME NEW k \in 0..golden.at, script[k] \in Ours
        PROVE  k <= golden.asked /\ k \in shadow.sent
    <3>1. CASE k = golden.at
      BY <1>1, <1>2, <1>5, <2>1, <3>1 DEF GoldenPlace
    <3>2. CASE k # golden.at
      <4>1. k \in 0..golden.at - 1
        BY <1>2, <3>2
      <4> QED BY <2>1, <4>1 DEF GoldenPlace
    <3> QED BY <3>1, <3>2
  <2>2. ASSUME NEW k \in shadow.sent PROVE k < golden.at + 1
    <3>1. k \in Int
      BY <1>2 DEF TypeOK, Shadows, Positions
    <3>2. k < golden.at \/ k = golden.at
      BY DEF GoldenPlace
    <3> QED BY <1>2, <3>1, <3>2
  <2>3. golden.asked <= golden.at + 1
    BY <1>2 DEF GoldenPlace
  <2>4. 0..golden'.at - 1 = 0..golden.at
    BY <1>2, <1>4
  <2> QED BY <1>1, <1>4, <2>1, <2>2, <2>3, <2>4 DEF GoldenPlace
<1>12. ShadowPlace' /\ ChoicesTaken' /\ LogIsByPosition' /\ EagerTells'
  BY <1>1, <1>8 DEF NoRequest, EagerTells, ShadowPlace, ChoicesTaken, LogIsByPosition, TheirsBelow, Positions
<1>13. ChoicesArrive'
  <2>1. \A k : TheirsBelow(k)' = TheirsBelow(k)
    BY <1>1 DEF TheirsBelow, Positions
  <2>2. TheirsBelow(golden.at) \subseteq TheirsBelow(golden.at + 1)
    BY <1>2 DEF TheirsBelow, Positions
  <2>3. \A i \in DOMAIN wire' : wire'[i].type # "request"
    BY <1>8 DEF NoRequest
  <2> QED BY <1>1, <1>4, <1>7, <2>1, <2>2, <2>3 DEF ChoicesArrive, InReader, Healthy
<1> QED BY <1>9, <1>10, <1>11, <1>12, <1>13

-----------------------------------------------------------------------------
(* Questions and choices: the reader.                                      *)

\* A fact is filed, or refused with a panic; either leaves questions and choices.
LEMMA PushKeeps ==
    ASSUME ChoicesInv, NEW f \in Facts, NEW after \in Readers, push_state_sync_at(f, after)
    PROVE  /\ net' \in Nets /\ LogIsByPosition'
           /\ net'.theirs = net.theirs /\ net'.theirCursor = net.theirCursor
           /\ net'.local = net.local
           /\ reader' = after \/ reader' = [reader EXCEPT !.phase = "panicked"]
<1> USE DEF ChoicesInv
<1>1. net \in Nets
  BY DEF TypeOK
<1>2. CASE Accepts(f)
  <2>1. net' = [net EXCEPT !.log = net.log \union {f}] /\ reader' = after
    BY <1>2 DEF push_state_sync_at
  <2>2. net' \in Nets /\ net'.log = net.log \union {f}
    BY <1>1, <2>1 DEF Nets
  <2>3. \A g \in net.log : SameClass(f, g) /\ f.ac = g.ac => f = g
    <3>1. \A g \in net.log : SameClass(f, g) =>
            g \in IF f.kind = "reorder" THEN Reorders ELSE Reveals
      BY DEF SameClass, Reorders, Reveals
    <3>2. f \notin net.log => f \notin (IF f.kind = "reorder" THEN Reorders ELSE Reveals)
      BY DEF Reorders, Reveals
    <3>3. CASE f \in IF f.kind = "reorder" THEN Reorders ELSE Reveals
      BY <3>2, <3>3 DEF LogIsByPosition
    <3>4. CASE f \notin IF f.kind = "reorder" THEN Reorders ELSE Reveals
      <4>1. \A g \in (IF f.kind = "reorder" THEN Reorders ELSE Reveals) : g.ac # f.ac
        BY <1>2, <3>4 DEF Accepts
      <4> QED BY <3>1, <4>1
    <3> QED BY <3>3, <3>4
  <2>4. LogIsByPosition'
    BY <2>2, <2>3 DEF LogIsByPosition, SameClass
  <2> QED BY <1>1, <2>1, <2>2, <2>4 DEF Nets
<1>3. CASE ~Accepts(f)
  <2>1. net' = net /\ reader' = [reader EXCEPT !.phase = "panicked"]
    BY <1>3 DEF push_state_sync_at
  <2>2. net' \in Nets /\ LogIsByPosition'
    BY <1>1, <2>1 DEF LogIsByPosition
  <2> QED BY <2>1, <2>2
<1> QED BY <1>2, <1>3

\* A message that is no question is read.
LEMMA ReadingPassesOver ==
    ASSUME ChoicesInv, wire # <<>>, Head(wire).type # "request", wire' = Tail(wire)
    PROVE  /\ wire' \in Seq(Messages) /\ EagerTells'
           /\ \A i \in DOMAIN wire' : \E j \in DOMAIN wire : wire[j] = wire'[i]
           /\ \A i, j \in DOMAIN wire' :
                wire'[i].type = "request" /\ wire'[j].type = "request" => i = j
           /\ InWire => InWire'
<1>1. wire \in Seq(Messages)
  BY DEF ChoicesInv, TypeOK
<1>2. /\ Head(wire) = wire[1] /\ wire' \in Seq(Messages)
      /\ \A i \in DOMAIN wire' : i \in Nat /\ i + 1 \in DOMAIN wire /\ wire'[i] = wire[i + 1]
      /\ \A i \in DOMAIN wire : i # 1 => i - 1 \in DOMAIN wire' /\ wire'[i - 1] = wire[i]
  BY <1>1, TakesFirst
<1>3. \A i, j \in DOMAIN wire' :
        wire'[i].type = "request" /\ wire'[j].type = "request" => i = j
  <2> SUFFICES ASSUME NEW i \in DOMAIN wire', NEW j \in DOMAIN wire',
                      wire'[i].type = "request", wire'[j].type = "request"
               PROVE  i = j
    OBVIOUS
  <2>1. i + 1 = j + 1
    BY <1>2 DEF ChoicesInv, OneQuestion
  <2> QED BY <1>2, <2>1
<1>4. InWire => InWire'
  BY <1>2 DEF InWire
<1>5. EagerTells'
  BY <1>2 DEF ChoicesInv, EagerTells
<1> QED BY <1>2, <1>3, <1>4, <1>5

\* The reader files an eager message.
LEMMA ReadEagerKeeps ==
    ASSUME ChoicesInv, ReadEager
    PROVE  ChoicesInv'
<1> USE DEF ChoicesInv
<1>1. /\ script' = script /\ golden' = golden /\ shadow' = shadow /\ wire' = Tail(wire)
      /\ reader.phase = "idle" /\ wire # <<>> /\ Head(wire).type = "eager"
  BY DEF ReadEager, Receives
<1>2. wire \in Seq(Messages) /\ Head(wire) \in Messages /\ reader \in Readers
  BY <1>1, TakesFirst DEF TypeOK
<1>3. PICK f \in Facts : UNCHANGED <<reader, net>> \/ push_state_sync_at(f, reader)
  <2> DEFINE g == CHOOSE g \in Head(wire).facts : TRUE
  <2>1. Head(wire).facts # {}
    BY <1>1, <1>2, TakesFirst DEF EagerTells
  <2>2. g \in Facts
    BY <1>2, <2>1 DEF Messages
  <2>3. UNCHANGED <<reader, net>> \/ push_state_sync_at(g, reader)
    BY DEF ReadEager
  <2> HIDE DEF g
  <2> QED BY <2>2, <2>3
<1>4. /\ net' \in Nets /\ LogIsByPosition'
      /\ net'.theirs = net.theirs /\ net'.theirCursor = net.theirCursor
      /\ net'.local = net.local
      /\ reader' = reader \/ reader' = [reader EXCEPT !.phase = "panicked"]
  <2>1. CASE UNCHANGED <<reader, net>>
    BY <2>1 DEF TypeOK, LogIsByPosition
  <2>2. CASE push_state_sync_at(f, reader)
    BY <1>2, <2>2, PushKeeps
  <2> QED BY <1>3, <2>1, <2>2
<1>5. /\ reader' \in Readers /\ ~InReader /\ ~InReader'
      /\ reader'.phase \in {"idle", "panicked"}
      /\ Healthy
  BY <1>1, <1>2, <1>4 DEF Readers, InReader, Healthy
<1>6. /\ wire' \in Seq(Messages) /\ EagerTells'
      /\ \A i \in DOMAIN wire' : \E j \in DOMAIN wire : wire[j] = wire'[i]
      /\ \A i, j \in DOMAIN wire' :
           wire'[i].type = "request" /\ wire'[j].type = "request" => i = j
      /\ InWire => InWire'
  BY <1>1, ReadingPassesOver
<1>7. TypeOK'
  BY <1>1, <1>4, <1>5, <1>6, SameTypes DEF TypeOK
<1>8. OneQuestion' /\ GoldenPlace' /\ ShadowPlace' /\ ChoicesArrive' /\ ChoicesTaken'
  BY <1>1, <1>4, <1>5, <1>6, Frame
<1> QED BY <1>4, <1>6, <1>7, <1>8

\* The watermark rises to a position of the game.
LEMMA ReadRequestKeeps ==
    ASSUME ChoicesInv, ReadRequest
    PROVE  ChoicesInv'
<1> USE DEF ChoicesInv
<1> DEFINE m == Head(wire)
<1>1. /\ script' = script /\ golden' = golden /\ shadow' = shadow /\ wire' = Tail(wire)
      /\ reader.phase = "idle" /\ wire # <<>> /\ m.type = "request"
      /\ reader' = [phase |-> "serving", msg |-> m]
      /\ net' = [net EXCEPT !.authoritative = TRUE, !.watermark = Max({net.watermark, m.ac})]
  BY DEF ReadRequest, Receives
<1>2. /\ wire \in Seq(Messages) /\ m \in Messages /\ m = wire[1] /\ 1 \in DOMAIN wire
      /\ wire' \in Seq(Messages)
      /\ \A i \in DOMAIN wire' : i \in Nat /\ i + 1 \in DOMAIN wire /\ wire'[i] = wire[i + 1]
  BY <1>1, TakesFirst DEF TypeOK
<1> HIDE DEF m
<1>3. reader'.phase = "serving" /\ reader'.msg = m /\ reader' \in Readers
  BY <1>1, <1>2 DEF Readers
<1>4. /\ net' \in Nets /\ net'.theirs = net.theirs /\ net'.theirCursor = net.theirCursor
      /\ net'.local = net.local /\ net'.log = net.log
  <2>1. net \in Nets
    BY DEF TypeOK
  <2>2. Max({net.watermark, m.ac}) \in 0..MaxLog
    <3>1. net.watermark \in 0..MaxLog /\ m.ac \in 0..MaxLog
      BY <1>2, <2>1 DEF Nets, Messages
    <3> QED BY <3>1, SyncAssumption, LeastAndGreatest
  <2> QED BY <1>1, <2>1, <2>2 DEF Nets
<1>5. TypeOK'
  BY <1>1, <1>2, <1>3, <1>4, SameTypes DEF TypeOK
<1>6. \A i \in DOMAIN wire' : wire'[i].type # "request"
  <2> SUFFICES ASSUME NEW i \in DOMAIN wire', wire'[i].type = "request" PROVE FALSE
    OBVIOUS
  <2>1. i + 1 = 1
    BY <1>1, <1>2 DEF OneQuestion
  <2> QED BY <1>2, <2>1
<1>7. /\ Asking' /\ Asking /\ m.ac = golden.at /\ InWire
      /\ ~InLocal /\ ~Held /\ ~InLocal' /\ ~Held'
  BY <1>1, <1>2, <1>4 DEF OneQuestion, Asking, InWire, InLocal, Held
<1>8. OneQuestion'
  BY <1>1, <1>3, <1>4, <1>6, <1>7 DEF OneQuestion, InWire, InReader, InLocal, Held
<1>9. GoldenPlace' /\ ShadowPlace' /\ LogIsByPosition' /\ EagerTells'
  BY <1>1, <1>2, <1>4 DEF EagerTells, GoldenPlace, ShadowPlace, LogIsByPosition
<1>10. \A k : TheirsBelow(k)' = TheirsBelow(k)
  BY <1>1 DEF TheirsBelow, Positions
<1>11. ChoicesTaken'
  BY <1>1, <1>4, <1>10 DEF ChoicesTaken
<1>12. ChoicesArrive'
  <2>1. Healthy
    BY <1>1 DEF Healthy
  <2>2. /\ m.choices \subseteq TheirsBelow(golden.at)
        /\ TheirsBelow(golden.at) \subseteq net.theirs \union m.choices
    BY <1>1, <1>2, <2>1 DEF ChoicesArrive
  <2>3. InReader'
    BY <1>3 DEF InReader
  <2> QED BY <1>1, <1>3, <1>4, <1>6, <1>10, <2>2, <2>3 DEF ChoicesArrive
<1> QED BY <1>5, <1>8, <1>9, <1>11, <1>12

\* The notifications of the reader wake the game thread at most.
LEMMA WakingKeeps ==
    ASSUME TypeOK, NEW what, shadow' = Woken(what), script' = script
    PROVE  /\ shadow = shadow' \/ (shadow.phase = "asleep" /\ shadow' = [shadow EXCEPT !.phase = "look"])
           /\ shadow' \in Shadows
BY DEF Woken, TypeOK, Shadows

\* The reader files a fact of the question it serves.
LEMMA PushFactKeeps ==
    ASSUME ChoicesInv, PushFact
    PROVE  ChoicesInv'
<1> USE DEF ChoicesInv
<1>1. /\ script' = script /\ golden' = golden /\ shadow' = shadow /\ wire' = wire
      /\ reader.phase = "serving"
  BY DEF PushFact
<1>2. PICK f \in reader.msg.facts :
        push_state_sync_at(f, [reader EXCEPT !.msg.facts = @ \ {f}])
  BY DEF PushFact
<1>3. /\ reader \in Readers /\ reader.msg \in Messages /\ reader.msg.facts \subseteq Facts
      /\ f \in Facts
  BY <1>2 DEF TypeOK, Readers, Messages
<1> DEFINE after == [reader EXCEPT !.msg.facts = @ \ {f}]
<1>4. /\ after \in Readers /\ after.phase = "serving"
      /\ after.msg.type = reader.msg.type /\ after.msg.ac = reader.msg.ac
      /\ after.msg.choices = reader.msg.choices
  BY <1>1, <1>3 DEF Readers, Messages
<1>5. push_state_sync_at(f, after)
  BY <1>2
<1> HIDE DEF after
<1>6. /\ net' \in Nets /\ LogIsByPosition'
      /\ net'.theirs = net.theirs /\ net'.theirCursor = net.theirCursor
      /\ net'.local = net.local
      /\ reader' = after \/ reader' = [reader EXCEPT !.phase = "panicked"]
  BY <1>3, <1>4, <1>5, PushKeeps
<1>7. reader' \in Readers /\ reader'.phase \in {"serving", "panicked"}
  BY <1>3, <1>4, <1>6 DEF Readers
<1>8. TypeOK'
  BY <1>1, <1>6, <1>7, SameTypes DEF TypeOK
<1>9. /\ InReader' => /\ InReader /\ reader'.msg.type = reader.msg.type
                      /\ reader'.msg.ac = reader.msg.ac
                      /\ reader'.msg.choices = reader.msg.choices
      /\ Healthy' => Healthy /\ (InReader => InReader')
  <2>1. CASE reader' = after
    BY <1>1, <1>4, <2>1 DEF InReader, Healthy
  <2>2. CASE reader' = [reader EXCEPT !.phase = "panicked"]
    BY <1>3, <2>2 DEF InReader, Healthy, Readers
  <2> QED BY <1>6, <2>1, <2>2
<1>10. OneQuestion' /\ GoldenPlace' /\ ShadowPlace' /\ ChoicesArrive' /\ ChoicesTaken'
  <2>1. \A i, j \in DOMAIN wire' :
          wire'[i].type = "request" /\ wire'[j].type = "request" => i = j
    BY <1>1 DEF OneQuestion
  <2>2. InWire => InWire'
    BY <1>1 DEF InWire
  <2> QED BY <1>1, <1>6, <1>7, <1>9, <2>1, <2>2, Frame
<1>11. EagerTells'
  BY <1>1 DEF EagerTells
<1> QED BY <1>6, <1>8, <1>10, <1>11

\* The reader files an acceptance and wakes the game thread.
LEMMA ReadAcceptedKeeps ==
    ASSUME ChoicesInv, ReadAccepted
    PROVE  ChoicesInv'
<1> USE DEF ChoicesInv
<1>1. /\ script' = script /\ golden' = golden /\ reader' = reader /\ wire' = Tail(wire)
      /\ shadow' = Woken("accepted")
      /\ reader.phase = "idle" /\ wire # <<>> /\ Head(wire).type = "accepted"
      /\ net' = [net EXCEPT !.accepted = @ \union {Head(wire).ac}]
  BY DEF ReadAccepted, Receives
<1>2. wire \in Seq(Messages) /\ Head(wire) \in Messages /\ reader \in Readers /\ net \in Nets
  BY <1>1, TakesFirst DEF TypeOK
<1>3. Head(wire).ac \in 0..MaxLog
  BY <1>2 DEF Messages
<1>4. /\ net' \in Nets /\ net'.theirs = net.theirs /\ net'.theirCursor = net.theirCursor
      /\ net'.local = net.local /\ net'.log = net.log
  BY <1>1, <1>2, <1>3 DEF Nets
<1>6. /\ wire' \in Seq(Messages) /\ EagerTells'
      /\ \A i \in DOMAIN wire' : \E j \in DOMAIN wire : wire[j] = wire'[i]
      /\ \A i, j \in DOMAIN wire' :
           wire'[i].type = "request" /\ wire'[j].type = "request" => i = j
      /\ InWire => InWire'
  BY <1>1, ReadingPassesOver
<1>7. /\ shadow = shadow' \/ (shadow.phase = "asleep" /\ shadow' = [shadow EXCEPT !.phase = "look"])
      /\ shadow' \in Shadows
  BY <1>1, WakingKeeps
<1>8. TypeOK' /\ LogIsByPosition'
  BY <1>1, <1>4, <1>6, <1>7, SameTypes DEF TypeOK, LogIsByPosition
<1>9. InReader' = InReader /\ Healthy' = Healthy
  BY <1>1 DEF InReader, Healthy
<1>10. OneQuestion' /\ GoldenPlace' /\ ShadowPlace' /\ ChoicesArrive' /\ ChoicesTaken'
  <2>1. reader'.phase \in {"notify", "exit"} => reader'.msg.type # "request"
    BY <1>1
  <2> QED BY <1>1, <1>4, <1>6, <1>7, <1>9, <2>1, Frame
<1> QED BY <1>6, <1>8, <1>10

\* The reader sees the end and raises the terminal flag.
LEMMA ReadEndingKeeps ==
    ASSUME ChoicesInv, NEW type \in {"ended", "closed", "dropped"}, ReadEnding(type)
    PROVE  ChoicesInv'
<1> USE DEF ChoicesInv
<1>1. /\ script' = script /\ golden' = golden /\ wire' = Tail(wire) /\ shadow' = shadow
      /\ reader.phase = "idle" /\ wire # <<>> /\ Head(wire).type = type
      /\ reader' = [phase |-> "notify", msg |-> Head(wire)]
      /\ net' = [net EXCEPT !.terminal = TRUE]
  BY DEF ReadEnding, Receives
<1>2. wire \in Seq(Messages) /\ Head(wire) \in Messages /\ net \in Nets
  BY <1>1, TakesFirst DEF TypeOK
<1>3. /\ reader' \in Readers /\ ~InReader /\ ~InReader' /\ Healthy /\ reader'.msg.type # "request"
  BY <1>1, <1>2 DEF Readers, InReader, Healthy
<1>4. /\ net' \in Nets /\ net'.theirs = net.theirs /\ net'.theirCursor = net.theirCursor
      /\ net'.local = net.local /\ net'.log = net.log
  BY <1>1, <1>2 DEF Nets
<1>6. /\ wire' \in Seq(Messages) /\ EagerTells'
      /\ \A i \in DOMAIN wire' : \E j \in DOMAIN wire : wire[j] = wire'[i]
      /\ \A i, j \in DOMAIN wire' :
           wire'[i].type = "request" /\ wire'[j].type = "request" => i = j
      /\ InWire => InWire'
  BY <1>1, ReadingPassesOver
<1>8. TypeOK' /\ LogIsByPosition'
  BY <1>1, <1>3, <1>4, <1>6, SameTypes DEF TypeOK, LogIsByPosition
<1>10. OneQuestion' /\ GoldenPlace' /\ ShadowPlace' /\ ChoicesArrive' /\ ChoicesTaken'
  BY <1>1, <1>3, <1>4, <1>6, Frame
<1> QED BY <1>6, <1>8, <1>10

\* The reader wakes a waiting game thread after the flag is up.
LEMMA NotifyExitKeeps ==
    ASSUME ChoicesInv, NotifyExit
    PROVE  ChoicesInv'
<1> USE DEF ChoicesInv
<1>1. /\ script' = script /\ golden' = golden /\ wire' = wire /\ net' = net
      /\ shadow' = Woken(shadow.awaits) /\ reader.phase = "notify"
      /\ \E p \in {"gone", "exit"} : reader' = [reader EXCEPT !.phase = p]
  BY DEF NotifyExit
<1>2. reader \in Readers
  BY DEF TypeOK
<1>3. /\ reader' \in Readers /\ ~InReader /\ ~InReader' /\ Healthy
      /\ reader'.msg = reader.msg /\ reader.msg.type # "request"
  BY <1>1, <1>2 DEF Readers, InReader, Healthy, OneQuestion
<1>7. /\ shadow = shadow' \/ (shadow.phase = "asleep" /\ shadow' = [shadow EXCEPT !.phase = "look"])
      /\ shadow' \in Shadows
  BY <1>1, WakingKeeps
<1>8. TypeOK' /\ LogIsByPosition' /\ EagerTells'
  BY <1>1, <1>3, <1>7, SameTypes DEF TypeOK, LogIsByPosition, EagerTells
<1>10. OneQuestion' /\ GoldenPlace' /\ ShadowPlace' /\ ChoicesArrive' /\ ChoicesTaken'
  <2>1. \A i, j \in DOMAIN wire' :
          wire'[i].type = "request" /\ wire'[j].type = "request" => i = j
    BY <1>1 DEF OneQuestion
  <2>2. InWire => InWire'
    BY <1>1 DEF InWire
  <2> QED BY <1>1, <1>3, <1>7, <2>1, <2>2, Frame
<1> QED BY <1>8, <1>10

\* Choices are filed in order.
LEMMA PushChoiceKeeps ==
    ASSUME ChoicesInv, PushChoice
    PROVE  ChoicesInv'
<1> USE DEF ChoicesInv
<1>1. /\ script' = script /\ golden' = golden /\ wire' = wire
      /\ shadow' = Woken("opponent") /\ reader.phase = "serving"
  BY DEF PushChoice
<1>2. PICK k \in reader.msg.choices :
        /\ \A j \in reader.msg.choices : k <= j
        /\ net' = [net EXCEPT !.theirs = net.theirs \union {k}]
        /\ reader' = [reader EXCEPT !.msg.choices = @ \ {k}]
  BY DEF PushChoice
<1>3. /\ reader \in Readers /\ reader.msg \in Messages /\ net \in Nets
      /\ reader.msg.choices \subseteq Positions /\ InReader /\ Healthy
      /\ golden.at \in 0..MaxLog
  BY <1>1 DEF TypeOK, Readers, Messages, InReader, Healthy, Goldens
<1>4. /\ reader.msg.choices \subseteq TheirsBelow(golden.at)
      /\ TheirsBelow(golden.at) \subseteq net.theirs \union reader.msg.choices
      /\ ~InWire /\ ~InLocal /\ ~Held
  BY <1>3 DEF ChoicesArrive, OneQuestion
<1>5. k \in Positions /\ script[k] \in Theirs /\ k < golden.at
  BY <1>2, <1>4 DEF TheirsBelow
<1>6. /\ reader' \in Readers /\ reader'.phase = "serving"
      /\ reader'.msg.type = reader.msg.type /\ reader'.msg.ac = reader.msg.ac
      /\ reader'.msg.choices = reader.msg.choices \ {k}
  <2>1. reader' \in Readers
    BY <1>2, <1>3 DEF Readers, Messages
  <2> QED BY <1>1, <1>2, <1>3, <2>1 DEF Readers, Messages
<1>7. /\ net' \in Nets /\ net'.theirs = net.theirs \union {k} /\ net'.theirCursor = net.theirCursor
      /\ net'.local = net.local /\ net'.log = net.log
  BY <1>2, <1>3, <1>5 DEF Nets
<1>8. /\ shadow = shadow' \/ (shadow.phase = "asleep" /\ shadow' = [shadow EXCEPT !.phase = "look"])
      /\ shadow' \in Shadows
  BY <1>1, WakingKeeps
<1>9. /\ shadow'.pos = shadow.pos /\ shadow'.sent = shadow.sent
      /\ shadow'.taken = shadow.taken /\ shadow'.awaits = shadow.awaits
      /\ shadow'.phase = shadow.phase \/ (shadow.phase = "asleep" /\ shadow'.phase = "look")
  BY <1>8 DEF TypeOK, Shadows
<1>10. TypeOK' /\ LogIsByPosition' /\ EagerTells'
  BY <1>1, <1>6, <1>7, <1>8, SameTypes DEF TypeOK, LogIsByPosition, EagerTells
<1>11. \A q : TheirsBelow(q)' = TheirsBelow(q)
  BY <1>1 DEF TheirsBelow, Positions
<1>12. OneQuestion'
  <2>1. InReader' /\ Asking' = Asking /\ ~InWire' /\ ~InLocal' /\ ~Held'
    BY <1>1, <1>4, <1>6, <1>7, <1>9 DEF InReader, Asking, InWire, InLocal, Held
  <2>2. Asking /\ reader.msg.type = "request" /\ reader.msg.ac = golden.at
    BY <1>3 DEF OneQuestion
  <2> QED BY <1>1, <1>6, <1>7, <2>1, <2>2 DEF OneQuestion, InWire, InLocal
<1>13. GoldenPlace' /\ ShadowPlace' /\ ChoicesTaken'
  <2>1. GoldenPlace'
    BY <1>1, <1>9 DEF GoldenPlace
  <2>2. ShadowPlace'
    BY <1>1, <1>9 DEF ShadowPlace, Waits
  <2>3. ChoicesTaken'
    BY <1>1, <1>7, <1>9, <1>11 DEF ChoicesTaken
  <2> QED BY <2>1, <2>2, <2>3
<1>14. ChoicesArrive'
  <2>1. net'.theirs \subseteq TheirsBelow(golden.at)
    <3>1. k \in TheirsBelow(golden.at)
      BY <1>2, <1>4
    <3> QED BY <1>7, <3>1 DEF ChoicesArrive
  <2>2. ASSUME NEW j \in net'.theirs PROVE TheirsBelow(j) \subseteq net'.theirs
    <3>1. CASE j \in net.theirs
      BY <1>7, <3>1 DEF ChoicesArrive
    <3>2. CASE j = k
      <4> SUFFICES ASSUME NEW i \in TheirsBelow(k) PROVE i \in net.theirs
        BY <1>7, <3>2
      <4>1. i \in TheirsBelow(golden.at) /\ i < k
        BY <1>3, <1>5 DEF TheirsBelow, Positions
      <4>2. i \notin reader.msg.choices
        BY <1>2, <1>5, <4>1 DEF TheirsBelow, Positions
      <4> QED BY <1>4, <4>1, <4>2
    <3> QED BY <1>7, <2>2, <3>1, <3>2
  <2>3. InReader' /\ ~InWire'
    BY <1>1, <1>4, <1>6 DEF InReader, InWire
  <2>4. \A i \in DOMAIN wire' : wire'[i].type # "request"
    BY <2>3 DEF InWire
  <2>5. /\ reader'.msg.choices \subseteq TheirsBelow(golden.at)
        /\ TheirsBelow(golden.at) \subseteq net'.theirs \union reader'.msg.choices
    BY <1>4, <1>6, <1>7
  <2> QED BY <1>1, <1>11, <2>1, <2>2, <2>3, <2>4, <2>5 DEF ChoicesArrive
<1> QED BY <1>10, <1>12, <1>13, <1>14

\* The question comes last, when everything before it was filed.
LEMMA PutRequestKeeps ==
    ASSUME ChoicesInv, PutRequest
    PROVE  ChoicesInv'
<1> USE DEF ChoicesInv
<1>1. /\ script' = script /\ golden' = golden /\ wire' = wire /\ shadow' = shadow
      /\ reader.phase = "serving" /\ reader.msg.choices = {}
      /\ net' = [net EXCEPT !.local = Append(net.local, reader.msg)]
      /\ reader' = [reader EXCEPT !.phase = "idle"]
  BY DEF PutRequest
<1>2. /\ reader \in Readers /\ reader.msg \in Messages /\ net \in Nets
      /\ net.local \in Seq(Messages) /\ InReader /\ Healthy
  BY <1>1 DEF TypeOK, Readers, Nets, InReader, Healthy
<1>3. /\ Asking /\ reader.msg.type = "request" /\ reader.msg.ac = golden.at
      /\ ~InWire /\ ~InLocal /\ ~Held
  BY <1>2 DEF OneQuestion
<1>4. reader' \in Readers /\ ~InReader' /\ reader'.phase = "idle" /\ Healthy'
  BY <1>1, <1>2 DEF Readers, InReader, Healthy
<1> DEFINE l == net.local  n == Len(net.local) + 1
<1>5. /\ net'.local \in Seq(Messages) /\ n \in DOMAIN net'.local /\ net'.local[n] = reader.msg
      /\ \A i \in DOMAIN net'.local : i # n => net'.local[i].type # "request"
  <2>1. net'.local = Append(net.local, reader.msg)
    BY <1>1, <1>2 DEF Nets
  <2>2. \A i \in DOMAIN net.local : net.local[i].type # "request"
    BY <1>3 DEF InLocal
  <2> QED BY <1>2, <2>1, <2>2, AddsLast
<1> HIDE DEF n
<1>6. /\ net' \in Nets /\ net'.theirs = net.theirs /\ net'.theirCursor = net.theirCursor
      /\ net'.log = net.log
  <2>1. net'.theirs = net.theirs /\ net'.theirCursor = net.theirCursor /\ net'.log = net.log
    BY <1>1, <1>2 DEF Nets
  <2>2. Append(net.local, reader.msg) \in Seq(Messages)
    BY <1>2
  <2>3. net' \in Nets
    BY <1>1, <1>2, <2>2 DEF Nets
  <2> QED BY <2>1, <2>3
<1>7. TypeOK' /\ LogIsByPosition' /\ EagerTells'
  BY <1>1, <1>4, <1>6, SameTypes DEF TypeOK, LogIsByPosition, EagerTells
<1>8. OneQuestion'
  <2>1. Asking' /\ InLocal' /\ ~InWire' /\ ~Held'
    BY <1>1, <1>3, <1>5 DEF Asking, InLocal, InWire, Held
  <2>2. \A i \in DOMAIN wire' : wire'[i].type # "request"
    BY <2>1 DEF InWire
  <2> QED BY <1>1, <1>3, <1>4, <1>5, <2>1, <2>2 DEF OneQuestion
<1>9. GoldenPlace' /\ ShadowPlace'
  BY <1>1 DEF GoldenPlace, ShadowPlace
<1>10. \A q : TheirsBelow(q)' = TheirsBelow(q)
  BY <1>1 DEF TheirsBelow, Positions
<1>11. ChoicesTaken'
  BY <1>1, <1>6, <1>10 DEF ChoicesTaken
<1>12. ChoicesArrive'
  <2>1. TheirsBelow(golden.at) \subseteq net.theirs
    BY <1>1, <1>2 DEF ChoicesArrive
  <2>2. golden.asked = golden.at
    BY <1>3 DEF Asking, GoldenPlace
  <2>3. \A i \in DOMAIN wire' : wire'[i].type # "request"
    BY <1>1, <1>3 DEF InWire
  <2> QED BY <1>1, <1>4, <1>6, <1>10, <2>1, <2>2, <2>3 DEF ChoicesArrive
<1> QED BY <1>7, <1>8, <1>9, <1>11, <1>12

\* The end in the MVar is no question.
LEMMA PutExitKeeps ==
    ASSUME ChoicesInv, PutExit
    PROVE  ChoicesInv'
<1> USE DEF ChoicesInv
<1>1. /\ script' = script /\ golden' = golden /\ wire' = wire /\ shadow' = shadow
      /\ reader.phase = "exit"
      /\ net' = [net EXCEPT !.local = Append(net.local, reader.msg)]
      /\ reader' = [reader EXCEPT !.phase = "gone"]
  BY DEF PutExit
<1>2. /\ reader \in Readers /\ reader.msg \in Messages /\ net \in Nets
      /\ net.local \in Seq(Messages) /\ ~InReader /\ Healthy
      /\ reader.msg.type # "request"
  BY <1>1 DEF TypeOK, Readers, Nets, InReader, Healthy, OneQuestion
<1>3. reader' \in Readers /\ ~InReader' /\ reader'.phase = "gone" /\ Healthy'
  BY <1>1, <1>2 DEF Readers, InReader, Healthy
<1>4. /\ net'.local \in Seq(Messages)
      /\ \A i \in DOMAIN net'.local : net'.local[i].type = "request" =>
           i \in DOMAIN net.local /\ net'.local[i] = net.local[i]
  <2>1. net'.local = Append(net.local, reader.msg)
    BY <1>1, <1>2 DEF Nets
  <2> QED BY <1>2, <2>1, AddsLast
<1>5. /\ net' \in Nets /\ net'.theirs = net.theirs /\ net'.theirCursor = net.theirCursor
      /\ net'.log = net.log
  <2>1. net'.theirs = net.theirs /\ net'.theirCursor = net.theirCursor /\ net'.log = net.log
    BY <1>1, <1>2 DEF Nets
  <2>2. Append(net.local, reader.msg) \in Seq(Messages)
    BY <1>2
  <2>3. net' \in Nets
    BY <1>1, <1>2, <2>2 DEF Nets
  <2> QED BY <2>1, <2>3
<1>6. TypeOK' /\ LogIsByPosition' /\ EagerTells'
  BY <1>1, <1>3, <1>5, SameTypes DEF TypeOK, LogIsByPosition, EagerTells
<1>7. OneQuestion'
  <2>1. /\ Asking' = Asking /\ InWire' = InWire /\ Held' = Held /\ (InLocal' => InLocal)
    BY <1>1, <1>4 DEF Asking, InLocal, InWire, Held
  <2>2. \A i, j \in DOMAIN net'.local :
          net'.local[i].type = "request" /\ net'.local[j].type = "request" => i = j
    BY <1>4 DEF OneQuestion
  <2>3. \A i \in DOMAIN net'.local :
          net'.local[i].type = "request" => Asking /\ net'.local[i].ac = golden.at
    BY <1>4 DEF OneQuestion
  <2>4. /\ InWire' => ~InLocal' /\ ~Held'
        /\ InLocal' => ~Held'
        /\ Held' => Asking' /\ shadow'.taken = golden'.at
    BY <1>1, <2>1 DEF OneQuestion
  <2> QED BY <1>1, <1>3, <2>1, <2>2, <2>3, <2>4 DEF OneQuestion
<1>8. GoldenPlace' /\ ShadowPlace'
  BY <1>1 DEF GoldenPlace, ShadowPlace
<1>9. \A q : TheirsBelow(q)' = TheirsBelow(q)
  BY <1>1 DEF TheirsBelow, Positions
<1>10. ChoicesTaken'
  BY <1>1, <1>5, <1>9 DEF ChoicesTaken
<1>11. ChoicesArrive'
  <2>1. InWire' = InWire
    BY <1>1 DEF InWire
  <2> QED BY <1>1, <1>2, <1>3, <1>5, <1>9, <2>1 DEF ChoicesArrive
<1> QED BY <1>6, <1>7, <1>8, <1>10, <1>11

-----------------------------------------------------------------------------
(* Questions and choices: the game thread.                                 *)

\* A step of the game thread that takes no question and makes no choice.
LEMMA ShadowFrame ==
    ASSUME ChoicesInv, script' = script, golden' = golden, wire' = wire, reader' = reader,
           net' \in Nets, net'.log = net.log, net'.theirs = net.theirs, net'.local = net.local,
           shadow' \in Shadows, shadow'.sent = shadow.sent,
           shadow.phase # "choose", shadow'.phase # "choose"
    PROVE  /\ TypeOK' /\ EagerTells' /\ LogIsByPosition'
           /\ OneQuestion' /\ GoldenPlace' /\ ChoicesArrive'
<1> USE DEF ChoicesInv
<1>1. TypeOK' /\ EagerTells' /\ LogIsByPosition'
  BY SameTypes DEF TypeOK, EagerTells, LogIsByPosition
<1>2. Asking' = Asking /\ InWire' = InWire /\ InReader' = InReader /\ InLocal' = InLocal
      /\ ~Held /\ ~Held' /\ Healthy' = Healthy
  BY DEF Asking, InWire, InReader, InLocal, Held, Healthy
<1>3. OneQuestion'
  BY <1>2 DEF OneQuestion
<1>4. GoldenPlace'
  BY DEF GoldenPlace
<1>5. \A q : TheirsBelow(q)' = TheirsBelow(q)
  BY DEF TheirsBelow, Positions
<1>6. ChoicesArrive'
  BY <1>2, <1>5 DEF ChoicesArrive
<1> QED BY <1>1, <1>3, <1>4, <1>6

\* The shadow has performed the deed at which it stood.
LEMMA ShadowAdvances ==
    ASSUME ChoicesInv, script' = script, shadow.pos < MaxLog,
           shadow'.pos = shadow.pos + 1, shadow'.phase = "run",
           \A k \in shadow'.sent : k \in shadow.sent \/ k = shadow.pos,
           shadow.sent \subseteq shadow'.sent,
           script[shadow.pos] \in Ours => shadow.pos \in shadow'.sent,
           script[shadow.pos] \in Theirs => shadow.phase = "replay",
           net'.theirCursor = net.theirCursor, net'.theirs = net.theirs
    PROVE  ShadowPlace' /\ ChoicesTaken'
<1> USE DEF ChoicesInv
<1>1. /\ shadow.pos \in 0..MaxLog /\ MaxLog \in Nat /\ shadow.sent \subseteq Positions
      /\ net.theirCursor \in Int /\ Positions \subseteq Nat
  BY SyncAssumption DEF TypeOK, Shadows, Nets, Positions
<1>2. ASSUME NEW k \in 0..shadow'.pos - 1, script[k] \in Ours PROVE k \in shadow'.sent
  <2>1. k = shadow.pos \/ k \in 0..shadow.pos - 1
    BY <1>1
  <2> QED BY <1>2, <2>1 DEF ShadowPlace
<1>3. ASSUME NEW k \in shadow'.sent PROVE k < shadow'.pos
  <2>1. CASE k \in shadow.sent
    <3>1. k \in Nat
      BY <1>1, <2>1
    <3>2. k < shadow.pos \/ k = shadow.pos
      BY <2>1 DEF ShadowPlace
    <3> QED BY <1>1, <3>1, <3>2
  <2>2. CASE k = shadow.pos
    BY <1>1, <2>2
  <2> QED BY <1>3, <2>1, <2>2
<1>4. ShadowPlace'
  BY <1>2, <1>3 DEF ShadowPlace, Waits
<1>5. ASSUME NEW k \in TheirsBelow(shadow.pos + 1) PROVE k <= net.theirCursor
  <2>1. k \in Positions /\ script[k] \in Theirs /\ (k = shadow.pos \/ k < shadow.pos)
    BY <1>1 DEF TheirsBelow
  <2>2. CASE k = shadow.pos
    BY <1>1, <2>1, <2>2 DEF ChoicesTaken
  <2>3. CASE k < shadow.pos
    BY <2>1, <2>3 DEF ChoicesTaken, TheirsBelow
  <2> QED BY <2>1, <2>2, <2>3
<1>6. \A q : TheirsBelow(q)' = TheirsBelow(q)
  BY DEF TheirsBelow, Positions
<1>7. net.theirCursor < shadow.pos + 1
  <2>1. net.theirCursor = shadow.pos \/ net.theirCursor < shadow.pos
    BY DEF ChoicesTaken
  <2> QED BY <1>1, <2>1
<1>8. ChoicesTaken'
  BY <1>5, <1>6, <1>7 DEF ChoicesTaken
<1> QED BY <1>4, <1>8

\* The deeds at which the shadow does not wait.
LEMMA DrawsKeeps ==
    ASSUME ChoicesInv, Draws
    PROVE  ChoicesInv'
<1> USE DEF ChoicesInv
<1>1. /\ script' = script /\ golden' = golden /\ wire' = wire /\ reader' = reader
      /\ net' = SyncedNet /\ shadow' = [SyncedShadow EXCEPT !.pos = @ + 1]
      /\ shadow.phase = "run" /\ shadow.pos < MaxLog /\ script[shadow.pos] = "draw"
  BY DEF Draws, At, Deed
<1>2. /\ SyncedNet \in Nets /\ SyncedShadow \in Shadows
      /\ SyncedNet.log = net.log /\ SyncedNet.theirs = net.theirs
      /\ SyncedNet.theirCursor = net.theirCursor /\ SyncedNet.local = net.local
      /\ SyncedShadow.pos = shadow.pos /\ SyncedShadow.phase = shadow.phase
      /\ SyncedShadow.sent = shadow.sent
  BY SyncKeeps
<1>3. shadow.pos + 1 \in 0..MaxLog
  BY <1>1, SyncAssumption DEF TypeOK, Shadows
<1>4. /\ shadow' \in Shadows /\ shadow'.pos = shadow.pos + 1 /\ shadow'.phase = "run"
      /\ shadow'.sent = shadow.sent
  BY <1>1, <1>2, <1>3 DEF Shadows
<1>5. /\ TypeOK' /\ EagerTells' /\ LogIsByPosition'
      /\ OneQuestion' /\ GoldenPlace' /\ ChoicesArrive'
  BY <1>1, <1>2, <1>4, ShadowFrame
<1>6. ShadowPlace' /\ ChoicesTaken'
  BY <1>1, <1>2, <1>4, ShadowAdvances DEF Ours, Theirs
<1> QED BY <1>5, <1>6

\* The shadow performs a deed that needs no choice.
LEMMA PlaysKeeps ==
    ASSUME ChoicesInv, Plays
    PROVE  ChoicesInv'
<1> USE DEF ChoicesInv
<1>1. /\ script' = script /\ golden' = golden /\ wire' = wire /\ reader' = reader
      /\ net' = net /\ shadow' = [Dug(Deed, shadow) EXCEPT !.pos = @ + 1]
      /\ shadow.phase = "run" /\ shadow.pos < MaxLog
      /\ script[shadow.pos] \in {"cast", "shuffle", "dig"}
  BY DEF Plays, At, Deed
<1>2. shadow \in Shadows /\ net \in Nets /\ shadow.pos + 1 \in 0..MaxLog /\ shadow.pos \in Positions
  BY <1>1, SyncAssumption DEF TypeOK, Shadows, Positions
<1>3. /\ Dug(Deed, shadow) \in Shadows /\ Dug(Deed, shadow).pos = shadow.pos
      /\ Dug(Deed, shadow).phase = shadow.phase /\ Dug(Deed, shadow).sent = shadow.sent
  <2>1. CASE Deed # "dig"
    BY <1>2, <2>1 DEF Dug
  <2>2. CASE Deed = "dig"
    <3>1. /\ shadow.pending \in -1..MaxLog /\ shadow.dug \subseteq [at : Positions, by : -1..MaxLog]
      BY <1>2 DEF Shadows
    <3>2. -1 \in -1..MaxLog
      BY SyncAssumption
    <3> DEFINE dug == shadow.dug \union {[at |-> shadow.pos, by |-> shadow.pending]}
    <3>3. dug \subseteq [at : Positions, by : -1..MaxLog]
      BY <1>2, <3>1
    <3>4. Dug(Deed, shadow) = [shadow EXCEPT !.pending = -1, !.dug = dug]
      BY <2>2, <1>2 DEF Dug
    <3> HIDE DEF dug
    <3> QED BY <1>2, <3>2, <3>3, <3>4 DEF Shadows
  <2> QED BY <2>1, <2>2
<1>4. /\ shadow' \in Shadows /\ shadow'.pos = shadow.pos + 1 /\ shadow'.phase = "run"
      /\ shadow'.sent = shadow.sent
  BY <1>1, <1>2, <1>3 DEF Shadows
<1>5. /\ TypeOK' /\ EagerTells' /\ LogIsByPosition'
      /\ OneQuestion' /\ GoldenPlace' /\ ChoicesArrive'
  BY <1>1, <1>2, <1>4, ShadowFrame
<1>6. ShadowPlace' /\ ChoicesTaken'
  BY <1>1, <1>2, <1>4, ShadowAdvances DEF Ours, Theirs
<1> QED BY <1>5, <1>6

\* The choices of an opponent, and a search of ours that was accepted.
LEMMA ReplayKeeps ==
    ASSUME ChoicesInv, Replay
    PROVE  ChoicesInv'
<1> USE DEF ChoicesInv
<1>1. /\ script' = script /\ golden' = golden /\ wire' = wire /\ reader' = reader
      /\ net' = SyncedNet
      /\ shadow' = [SyncedShadow EXCEPT !.phase = "run", !.pos = @ + 1]
      /\ shadow.phase = "replay" /\ shadow.pos < MaxLog
      /\ script[shadow.pos] \in {"theirs", "search"}
  BY DEF Replay, At, Deed
<1>2. /\ SyncedNet \in Nets /\ SyncedShadow \in Shadows
      /\ SyncedNet.log = net.log /\ SyncedNet.theirs = net.theirs
      /\ SyncedNet.theirCursor = net.theirCursor /\ SyncedNet.local = net.local
      /\ SyncedShadow.pos = shadow.pos /\ SyncedShadow.phase = shadow.phase
      /\ SyncedShadow.sent = shadow.sent
  BY SyncKeeps
<1>3. shadow.pos + 1 \in 0..MaxLog
  BY <1>1, SyncAssumption DEF TypeOK, Shadows
<1>4. /\ shadow' \in Shadows /\ shadow'.pos = shadow.pos + 1 /\ shadow'.phase = "run"
      /\ shadow'.sent = shadow.sent
  BY <1>1, <1>2, <1>3 DEF Shadows
<1>5. /\ TypeOK' /\ EagerTells' /\ LogIsByPosition'
      /\ OneQuestion' /\ GoldenPlace' /\ ChoicesArrive'
  BY <1>1, <1>2, <1>4, ShadowFrame
<1>6. script[shadow.pos] \in Ours => shadow.pos \in shadow.sent
  BY <1>1 DEF ShadowPlace, Waits, Ours, Theirs
<1>7. ShadowPlace' /\ ChoicesTaken'
  BY <1>1, <1>2, <1>4, <1>6, ShadowAdvances
<1> QED BY <1>5, <1>7

\* The shadow performs a search whose choice it took.
LEMMA ReplaySearchKeeps ==
    ASSUME ChoicesInv, ReplaySearch
    PROVE  ChoicesInv'
<1> USE DEF ChoicesInv
<1> DEFINE logged == searched_card_for(shadow.pos)
           card == IF logged = {} /\ Deed = "find" THEN {shadow.taken} ELSE logged
           after == IF card = {} THEN shadow ELSE SyncedShadow
           fetched == after.fetched \union {<<shadow.pos, c>> : c \in card}
<1>1. /\ script' = script /\ golden' = golden /\ wire' = wire /\ reader' = reader
      /\ net' = (IF card = {} THEN net ELSE SyncedNet)
      /\ shadow' = [after EXCEPT !.phase = "run", !.pos = after.pos + 1, !.fetched = fetched]
      /\ shadow.phase = "replay" /\ shadow.pos < MaxLog
      /\ script[shadow.pos] \in Theirs
  BY DEF ReplaySearch, At, Deed, TheirSearches, Theirs
<1>2. shadow.pos + 1 \in 0..MaxLog /\ shadow.pos \in Positions /\ shadow \in Shadows /\ net \in Nets
  BY <1>1, SyncAssumption DEF TypeOK, Shadows, Positions
<1>3. card \subseteq 0..MaxLog
  <2>1. logged \subseteq 0..MaxLog
    <3>1. \A f \in net.log : f.ac \in 0..MaxLog
      BY <1>2 DEF Nets, Facts
    <3> QED BY <3>1 DEF searched_card_for
  <2>2. shadow.taken \in 0..MaxLog
    BY <1>1, <1>2 DEF ShadowPlace, Positions, Shadows
  <2> HIDE DEF logged
  <2> QED BY <2>1, <2>2
<1>4. /\ after \in Shadows /\ after.pos = shadow.pos /\ after.sent = shadow.sent
      /\ net' \in Nets /\ net'.log = net.log /\ net'.theirs = net.theirs
      /\ net'.theirCursor = net.theirCursor /\ net'.local = net.local
  <2>1. CASE card = {}
    BY <1>1, <1>2, <2>1
  <2>2. CASE card # {}
    <3> HIDE DEF card
    <3> QED BY <1>1, <2>2, SyncKeeps
  <2> QED BY <2>1, <2>2
<1>5. fetched \subseteq Positions \X (0..MaxLog)
  <2>1. after.fetched \subseteq Positions \X (0..MaxLog)
    BY <1>4 DEF Shadows
  <2> HIDE DEF card, after
  <2> QED BY <1>2, <1>3, <2>1
<1> HIDE DEF after, card, fetched
<1>6. /\ shadow' \in Shadows /\ shadow'.pos = shadow.pos + 1 /\ shadow'.phase = "run"
      /\ shadow'.sent = shadow.sent
  BY <1>1, <1>2, <1>4, <1>5 DEF Shadows
<1>7. /\ TypeOK' /\ EagerTells' /\ LogIsByPosition'
      /\ OneQuestion' /\ GoldenPlace' /\ ChoicesArrive'
  BY <1>1, <1>4, <1>6, ShadowFrame
<1>8. ShadowPlace' /\ ChoicesTaken'
  BY <1>1, <1>4, <1>6, ShadowAdvances DEF Ours, Theirs
<1> QED BY <1>7, <1>8

\* The steps of a wait, but for its end.
LEMMA WaitingKeeps ==
    ASSUME ChoicesInv,
           BeginSearch \/ AwaitOpponent \/ FindNothing \/ FallAsleep \/ WakeUp \/ TakeNothing
    PROVE  ChoicesInv'
<1> USE DEF ChoicesInv
<1> DEFINE sh == IF BeginSearch THEN SyncedShadow ELSE shadow
<1>1. /\ script' = script /\ golden' = golden /\ wire' = wire /\ reader' = reader
      /\ net' = net \/ net' = SyncedNet
  BY DEF BeginSearch, AwaitOpponent, FindNothing, FallAsleep, WakeUp, TakeNothing
<1>2. shadow.pos < MaxLog /\ shadow.pos \in 0..MaxLog /\ shadow \in Shadows
  BY DEF BeginSearch, AwaitOpponent, FindNothing, FallAsleep, WakeUp, TakeNothing, At,
         TypeOK, Shadows
<1>3. /\ sh \in Shadows /\ sh.pos = shadow.pos /\ sh.sent = shadow.sent
      /\ sh.taken = shadow.taken /\ sh.awaits = shadow.awaits
  BY <1>2, SyncKeeps
<1>4. /\ net' \in Nets /\ net'.log = net.log /\ net'.theirs = net.theirs
      /\ net'.theirCursor = net.theirCursor /\ net'.local = net.local
  BY <1>1, SyncKeeps DEF TypeOK
<1> HIDE DEF sh
<1>5. ASSUME NEW p \in {"ask", "look", "decide", "asleep", "left"},
             NEW a \in {"opponent", "accepted"},
             shadow' = [sh EXCEPT !.phase = p, !.awaits = a],
             \/ p = "left" /\ shadow.phase \in {"run", "ask", "look"}
             \/ p = "ask" /\ script[shadow.pos] = "search" /\ shadow.phase = "run"
             \/ /\ p \in Waits /\ script[shadow.pos] \in Theirs /\ a = "opponent"
                /\ shadow.phase = "run"
             \/ p \in Waits /\ shadow.phase \in Waits \ {"replay"} /\ a = shadow.awaits
      PROVE  ChoicesInv'
  <2>1. /\ shadow' \in Shadows /\ shadow'.pos = shadow.pos /\ shadow'.sent = shadow.sent
        /\ shadow'.taken = shadow.taken /\ shadow'.phase = p /\ shadow'.awaits = a
    BY <1>3, <1>5 DEF Shadows
  <2>2. shadow.phase # "choose" /\ shadow.phase # "replay" /\ p # "choose" /\ p # "replay"
    BY <1>5 DEF Waits
  <2>3. /\ TypeOK' /\ EagerTells' /\ LogIsByPosition'
        /\ OneQuestion' /\ GoldenPlace' /\ ChoicesArrive'
    BY <1>1, <1>4, <2>1, <2>2, ShadowFrame
  <2>4. ChoicesTaken'
    <3>1. \A q : TheirsBelow(q)' = TheirsBelow(q)
      BY <1>1 DEF TheirsBelow, Positions
    <3> QED BY <1>1, <1>4, <2>1, <2>2, <3>1 DEF ChoicesTaken
  <2>5. ShadowPlace'
    <3>1. \A k \in shadow.sent : k < shadow.pos \/ (k = shadow.pos /\ p \in Waits \union {"left"})
      BY <1>5 DEF ShadowPlace, Waits
    <3>2. p \in Waits => \/ script[shadow.pos] \in Theirs /\ a = "opponent"
                         \/ /\ script[shadow.pos] = "search" /\ a = "accepted"
                            /\ shadow.taken = shadow.pos /\ shadow.pos \in shadow.sent
      BY <1>5 DEF ShadowPlace, Waits
    <3>3. p = "ask" => script[shadow.pos] = "search"
      BY <1>5 DEF Waits
    <3>4. \A k \in 0..shadow.pos - 1 : script[k] \in Ours => k \in shadow.sent
      BY DEF ShadowPlace
    <3>5. script' = script
      BY <1>1
    <3> QED BY <1>2, <2>1, <2>2, <3>1, <3>2, <3>3, <3>4, <3>5 DEF ShadowPlace
  <2> QED BY <2>3, <2>4, <2>5
<1>6. CASE BeginSearch
  <2>1. shadow' = [SyncedShadow EXCEPT !.phase = IF Deed = "search" THEN "ask" ELSE "look",
                                       !.awaits = "opponent"]
    BY <1>6 DEF BeginSearch
  <2>2. sh = SyncedShadow
    BY <1>6 DEF sh
  <2>3. /\ shadow.phase = "run"
        /\ script[shadow.pos] # "search" => script[shadow.pos] \in Theirs
    BY <1>6 DEF BeginSearch, At, Deed, Theirs, TheirSearches
  <2>4. CASE script[shadow.pos] = "search"
    <3>1. shadow' = [sh EXCEPT !.phase = "ask", !.awaits = "opponent"]
      BY <2>1, <2>2, <2>4 DEF Deed
    <3> QED BY <1>5, <2>3, <2>4, <3>1
  <2>5. CASE script[shadow.pos] # "search"
    <3>1. shadow' = [sh EXCEPT !.phase = "look", !.awaits = "opponent"]
      BY <2>1, <2>2, <2>5 DEF Deed
    <3> QED BY <1>5, <2>3, <2>5, <3>1 DEF Waits
  <2> QED BY <2>4, <2>5
<1>7. CASE ~BeginSearch
  <2>1. sh = shadow
    BY <1>7 DEF sh
  <2>2. CASE AwaitOpponent
    <3>1. shadow' = [sh EXCEPT !.phase = "look", !.awaits = "opponent"]
      BY <2>1, <2>2 DEF AwaitOpponent
    <3>2. shadow.phase = "run" /\ script[shadow.pos] \in Theirs
      BY <2>2 DEF AwaitOpponent, At, Deed, Theirs
    <3> QED BY <1>5, <3>1, <3>2 DEF Waits
  <2>3. ASSUME NEW p \in {"look", "decide", "asleep", "left"},
               shadow' = [shadow EXCEPT !.phase = p],
               \/ p = "left" /\ shadow.phase \in {"run", "ask", "look"}
               \/ p # "left" /\ shadow.phase \in Waits \ {"replay"}
        PROVE  ChoicesInv'
    <3>1. shadow.awaits \in {"opponent", "accepted"}
      BY <1>2 DEF Shadows
    <3>2. shadow' = [sh EXCEPT !.phase = p, !.awaits = shadow.awaits]
      BY <1>2, <2>1, <2>3 DEF Shadows
    <3>3. p # "left" => p \in Waits
      BY <2>3 DEF Waits
    <3> QED BY <1>5, <2>3, <3>1, <3>2, <3>3
  <2>4. CASE FindNothing
    <3>1. /\ shadow.phase = "look"
          /\ \E p \in {"left", "decide"} : shadow' = [shadow EXCEPT !.phase = p]
      BY <2>4 DEF FindNothing, At
    <3> QED BY <2>3, <3>1 DEF Waits
  <2>5. CASE FallAsleep
    BY <2>3, <2>5 DEF FallAsleep, At, Waits
  <2>6. CASE WakeUp
    BY <2>3, <2>6 DEF WakeUp, At, Waits
  <2>7. CASE TakeNothing
    BY <2>3, <2>7 DEF TakeNothing, At, Waits
  <2> QED BY <1>7, <2>2, <2>4, <2>5, <2>6, <2>7
<1> QED BY <1>6, <1>7

\* What is awaited, where it is there, is for the choice at which the shadow
\* stands: the opponent's choices were filed and taken without gaps.
LEMMA TakenInPlace ==
    ASSUME ChoicesInv, shadow.phase = "look", shadow.pos < MaxLog, Awaited # {}
    PROVE  /\ Min(Awaited) = shadow.pos
           /\ shadow.awaits # "accepted" =>
                script[shadow.pos] \in Theirs /\ shadow.pos \in net.theirs
           /\ shadow.awaits = "accepted" => script[shadow.pos] = "search"
<1> USE DEF ChoicesInv
<1>1. /\ shadow.pos \in 0..MaxLog /\ MaxLog \in Nat /\ net.theirCursor \in Int
      /\ net.theirs \subseteq Positions /\ shadow.pos \in Positions
      /\ Positions \subseteq 0..MaxLog
  BY SyncAssumption DEF TypeOK, Shadows, Nets, Positions
<1>2. \/ script[shadow.pos] \in Theirs /\ shadow.awaits = "opponent"
      \/ script[shadow.pos] = "search" /\ shadow.awaits = "accepted" /\ shadow.taken = shadow.pos
  BY DEF ShadowPlace, Waits
<1>3. CASE shadow.awaits = "accepted"
  <2>1. Awaited = {shadow.pos}
    BY <1>2, <1>3 DEF Awaited
  <2>2. Min({shadow.pos}) = shadow.pos
    BY <1>1, LeastAndGreatest
  <2> QED BY <1>2, <1>3, <2>1, <2>2
<1>4. CASE shadow.awaits # "accepted"
  <2>1. Awaited = {k \in net.theirs : k > net.theirCursor} /\ script[shadow.pos] \in Theirs
    BY <1>2, <1>4 DEF Awaited
  <2>2. Awaited \subseteq 0..MaxLog
    BY <1>1, <2>1
  <2>3. Min(Awaited) \in Awaited /\ \A k \in Awaited : Min(Awaited) <= k
    BY <1>1, <2>2, LeastAndGreatest
  <2>4. PICK k \in Awaited : k = Min(Awaited) /\ \A j \in Awaited : k <= j
    BY <2>3
  <2>5. k \in net.theirs /\ k > net.theirCursor /\ k \in Nat /\ script[k] \in Theirs /\ k \in Positions
    BY <1>1, <2>1, <2>2, <2>4 DEF TypeOK, Nets
  <2>6. ~(k < shadow.pos)
    <3>1. k < shadow.pos => k \in TheirsBelow(shadow.pos)
      BY <2>5 DEF TheirsBelow
    <3> QED BY <1>1, <2>5, <3>1 DEF ChoicesTaken
  <2>7. ~(shadow.pos < k)
    <3> SUFFICES ASSUME shadow.pos < k PROVE FALSE
      OBVIOUS
    <3>1. shadow.pos \in TheirsBelow(k)
      BY <1>1, <2>1 DEF TheirsBelow
    <3>2. shadow.pos \in net.theirs
      BY <2>5, <3>1 DEF ChoicesArrive
    <3>3. net.theirCursor < shadow.pos
      BY DEF ChoicesTaken
    <3>4. shadow.pos \in Awaited
      BY <1>1, <2>1, <3>2, <3>3
    <3> QED BY <1>1, <2>4, <2>5, <3>4
  <2> QED BY <1>1, <1>4, <2>1, <2>4, <2>5, <2>6, <2>7
<1> QED BY <1>3, <1>4

\* The shadow takes the choice it waits for: the next one of the opponent.
LEMMA TakeAwaitedKeeps ==
    ASSUME ChoicesInv, TakeAwaited
    PROVE  ChoicesInv'
<1> USE DEF ChoicesInv
<1>1. /\ script' = script /\ golden' = golden /\ wire' = wire /\ reader' = reader
      /\ shadow' = [shadow EXCEPT !.phase = "replay", !.taken = Min(Awaited)]
      /\ net' = IF shadow.awaits = "accepted" THEN net
                ELSE [net EXCEPT !.theirCursor = Min(Awaited)]
      /\ shadow.phase = "look" /\ shadow.pos < MaxLog /\ Awaited # {}
  BY DEF TakeAwaited, At
<1>2. /\ Min(Awaited) = shadow.pos
      /\ shadow.awaits # "accepted" =>
           script[shadow.pos] \in Theirs /\ shadow.pos \in net.theirs
      /\ shadow.awaits = "accepted" => script[shadow.pos] = "search"
  BY <1>1, TakenInPlace
<1>3. /\ shadow.pos \in -1..MaxLog - 1 /\ shadow.pos \in 0..MaxLog /\ shadow \in Shadows
      /\ net \in Nets
  BY <1>1, SyncAssumption DEF TypeOK, Shadows
<1>4. /\ shadow' \in Shadows /\ shadow'.pos = shadow.pos /\ shadow'.sent = shadow.sent
      /\ shadow'.taken = shadow.pos /\ shadow'.phase = "replay" /\ shadow'.awaits = shadow.awaits
  BY <1>1, <1>2, <1>3 DEF Shadows
<1>5. /\ net' \in Nets /\ net'.log = net.log /\ net'.theirs = net.theirs
      /\ net'.local = net.local
      /\ shadow.awaits = "accepted" => net'.theirCursor = net.theirCursor
      /\ shadow.awaits # "accepted" => net'.theirCursor = shadow.pos
  <2>1. CASE shadow.awaits = "accepted"
    BY <1>1, <1>3, <2>1
  <2>2. CASE shadow.awaits # "accepted"
    <3>1. net' = [net EXCEPT !.theirCursor = shadow.pos]
      BY <1>1, <1>2, <2>2
    <3> QED BY <1>3, <2>2, <3>1 DEF Nets
  <2> QED BY <2>1, <2>2
<1>6. /\ TypeOK' /\ EagerTells' /\ LogIsByPosition'
      /\ OneQuestion' /\ GoldenPlace' /\ ChoicesArrive'
  BY <1>1, <1>4, <1>5, ShadowFrame
<1>7. ShadowPlace'
  <2>1. \A k \in shadow.sent : k < shadow.pos \/ k = shadow.pos
    BY DEF ShadowPlace
  <2>2. \/ script[shadow.pos] \in Theirs /\ shadow.awaits = "opponent"
        \/ /\ script[shadow.pos] = "search" /\ shadow.awaits = "accepted"
           /\ shadow.pos \in shadow.sent
    BY <1>1 DEF ShadowPlace, Waits
  <2>3. \A k \in 0..shadow.pos - 1 : script[k] \in Ours => k \in shadow.sent
    BY DEF ShadowPlace
  <2> QED BY <1>1, <1>4, <2>1, <2>2, <2>3 DEF ShadowPlace, Waits
<1>8. ChoicesTaken'
  <2>1. \A q : TheirsBelow(q)' = TheirsBelow(q)
    BY <1>1 DEF TheirsBelow, Positions
  <2>2. net.theirCursor < shadow.pos
    BY <1>1 DEF ChoicesTaken
  <2>3. script[shadow.pos] = "search" => script[shadow.pos] \notin Theirs
    BY DEF Theirs
  <2>4. \A k \in TheirsBelow(shadow.pos) : k <= net'.theirCursor
    <3>1. \A k \in TheirsBelow(shadow.pos) : k <= net.theirCursor /\ k < shadow.pos /\ k \in Int
      BY SyncAssumption DEF ChoicesTaken, TheirsBelow, Positions
    <3> QED BY <1>3, <1>5, <3>1
  <2> QED BY <1>1, <1>2, <1>4, <1>5, <2>1, <2>2, <2>3, <2>4 DEF ChoicesTaken
<1> QED BY <1>6, <1>7, <1>8

\* The question that is taken is for the choice at which the shadow stands: all
\* of ours before it were made, and it was not.
LEMMA AskedInPlace ==
    ASSUME ChoicesInv, shadow.phase \in {"run", "ask"}, shadow.pos < MaxLog,
           script[shadow.pos] \in Ours, net.local # <<>>, Head(net.local).type = "request"
    PROVE  /\ Head(net.local).ac = shadow.pos /\ golden.at = shadow.pos /\ Asking
           /\ ~InWire /\ ~InReader
           /\ \A i \in DOMAIN Tail(net.local) : Tail(net.local)[i].type # "request"
<1> USE DEF ChoicesInv
<1>1. /\ shadow.pos \in 0..MaxLog /\ golden.at \in 0..MaxLog /\ MaxLog \in Nat
      /\ net.local \in Seq(Messages) /\ shadow.sent \subseteq Positions
  BY SyncAssumption DEF TypeOK, Shadows, Goldens, Nets
<1>2. /\ Head(net.local) = net.local[1] /\ 1 \in DOMAIN net.local
      /\ \A i \in DOMAIN Tail(net.local) :
           i \in Nat /\ i + 1 \in DOMAIN net.local /\ Tail(net.local)[i] = net.local[i + 1]
  BY <1>1, TakesFirst
<1>3. InLocal /\ Asking /\ Head(net.local).ac = golden.at
  BY <1>2 DEF InLocal, OneQuestion
<1>4. ~InWire /\ ~InReader
  BY <1>3 DEF OneQuestion
<1>5. ASSUME NEW i \in DOMAIN Tail(net.local), Tail(net.local)[i].type = "request" PROVE FALSE
  <2>1. i + 1 = 1
    BY <1>2, <1>5 DEF OneQuestion
  <2> QED BY <1>2, <2>1
<1>6. script[golden.at] \in Ours /\ golden.at \notin shadow.sent
  BY <1>3 DEF Asking
<1>7. ~(golden.at < shadow.pos)
  <2>1. golden.at < shadow.pos => golden.at \in 0..shadow.pos - 1
    BY <1>1
  <2> QED BY <1>6, <2>1 DEF ShadowPlace
<1>8. ~(shadow.pos < golden.at)
  <2> SUFFICES ASSUME shadow.pos < golden.at PROVE FALSE
    OBVIOUS
  <2>1. shadow.pos \in 0..golden.at - 1
    BY <1>1
  <2>2. shadow.pos \in shadow.sent
    BY <2>1 DEF GoldenPlace
  <2> QED BY <1>1, <2>2 DEF ShadowPlace, Waits
<1>9. golden.at = shadow.pos
  BY <1>1, <1>7, <1>8
<1> QED BY <1>3, <1>4, <1>5, <1>9

\* The end of the game in the MVar makes the game thread leave.
LEMMA LeavingKeeps ==
    ASSUME ChoicesInv, script' = script, golden' = golden, wire' = wire, reader' = reader,
           shadow.phase \in {"run", "ask"}, shadow' = [shadow EXCEPT !.phase = "left"],
           net.local # <<>>, Head(net.local).type # "request",
           net' = [net EXCEPT !.local = Tail(net.local)]
    PROVE  ChoicesInv'
<1> USE DEF ChoicesInv
<1>1. /\ shadow \in Shadows /\ net \in Nets /\ net.local \in Seq(Messages)
  BY DEF TypeOK, Nets
<1>2. /\ Head(net.local) = net.local[1] /\ Tail(net.local) \in Seq(Messages)
      /\ \A i \in DOMAIN Tail(net.local) :
           i \in Nat /\ i + 1 \in DOMAIN net.local /\ Tail(net.local)[i] = net.local[i + 1]
  BY <1>1, TakesFirst
<1>3. /\ net' \in Nets /\ net'.theirs = net.theirs /\ net'.theirCursor = net.theirCursor
      /\ net'.log = net.log /\ net'.local = Tail(net.local)
  BY <1>1, <1>2 DEF Nets
<1>4. /\ shadow' \in Shadows /\ shadow'.pos = shadow.pos /\ shadow'.sent = shadow.sent
      /\ shadow'.taken = shadow.taken /\ shadow'.phase = "left"
  BY <1>1 DEF Shadows
<1>5. TypeOK' /\ EagerTells' /\ LogIsByPosition'
  BY <1>3, <1>4, SameTypes DEF TypeOK, EagerTells, LogIsByPosition
<1>6. /\ Asking' = Asking /\ InWire' = InWire /\ InReader' = InReader /\ (InLocal' => InLocal)
      /\ ~Held /\ ~Held' /\ Healthy' = Healthy
  BY <1>2, <1>3, <1>4 DEF Asking, InWire, InReader, InLocal, Held, Healthy
<1>7. OneQuestion'
  <2>1. ASSUME NEW i \in DOMAIN net'.local, NEW j \in DOMAIN net'.local,
               net'.local[i].type = "request", net'.local[j].type = "request"
        PROVE  i = j
    <3>1. i + 1 = j + 1
      BY <1>2, <1>3, <2>1 DEF OneQuestion
    <3> QED BY <1>2, <1>3, <3>1
  <2>2. ASSUME NEW i \in DOMAIN net'.local, net'.local[i].type = "request"
        PROVE  Asking' /\ net'.local[i].ac = golden'.at
    <3>1. i + 1 \in DOMAIN net.local /\ net.local[i + 1] = net'.local[i]
      BY <1>2, <1>3, <2>2
    <3> QED BY <1>6, <2>2, <3>1 DEF OneQuestion
  <2>3. /\ \A i \in DOMAIN wire' : wire'[i].type = "request" => Asking' /\ wire'[i].ac = golden'.at
        /\ InReader' => Asking' /\ reader'.msg.type = "request" /\ reader'.msg.ac = golden'.at
        /\ \A i, j \in DOMAIN wire' :
             wire'[i].type = "request" /\ wire'[j].type = "request" => i = j
        /\ reader'.phase \in {"notify", "exit"} => reader'.msg.type # "request"
    BY <1>6 DEF OneQuestion
  <2>4. /\ InWire' => ~InReader' /\ ~InLocal' /\ ~Held'
        /\ InReader' => ~InLocal' /\ ~Held'
    BY <1>6 DEF OneQuestion
  <2> QED BY <1>6, <2>1, <2>2, <2>3, <2>4 DEF OneQuestion
<1>8. GoldenPlace'
  BY <1>4 DEF GoldenPlace
<1>9. ShadowPlace'
  <2>1. \A k \in shadow.sent : k < shadow.pos
    BY DEF ShadowPlace, Waits
  <2> QED BY <1>4, <2>1 DEF ShadowPlace, Waits
<1>10. \A q : TheirsBelow(q)' = TheirsBelow(q)
  BY DEF TheirsBelow, Positions
<1>11. ChoicesArrive' /\ ChoicesTaken'
  BY <1>3, <1>4, <1>6, <1>10 DEF ChoicesArrive, ChoicesTaken
<1> QED BY <1>5, <1>7, <1>8, <1>9, <1>11

\* A question is taken to be answered, at once or after a synchronisation.
LEMMA PrepareOwnChoiceKeeps ==
    ASSUME ChoicesInv, PrepareOwnChoice
    PROVE  ChoicesInv'
<1> USE DEF ChoicesInv
<1>1. /\ script' = script /\ golden' = golden /\ wire' = wire /\ reader' = reader
      /\ net' = [net EXCEPT !.local = Tail(net.local)] /\ net.local # <<>>
      /\ shadow.phase = "run" /\ shadow.pos < MaxLog /\ script[shadow.pos] = "ours"
      /\ shadow' = IF Head(net.local).type = "request"
                   THEN [shadow EXCEPT !.phase = "choose", !.taken = Head(net.local).ac]
                   ELSE [shadow EXCEPT !.phase = "left"]
  BY DEF PrepareOwnChoice, TakeRequest, At, Deed
<1>2. CASE Head(net.local).type # "request"
  BY <1>1, <1>2, LeavingKeeps
<1>3. CASE Head(net.local).type = "request"
  <2>1. /\ Head(net.local).ac = shadow.pos /\ golden.at = shadow.pos /\ Asking
        /\ ~InWire /\ ~InReader
        /\ \A i \in DOMAIN Tail(net.local) : Tail(net.local)[i].type # "request"
    BY <1>1, <1>3, AskedInPlace DEF Ours
  <2>2. shadow \in Shadows /\ net \in Nets /\ net.local \in Seq(Messages)
        /\ shadow.pos \in -1..MaxLog - 1 /\ shadow.pos \in 0..MaxLog
    <3>1. shadow \in Shadows /\ net \in Nets
      BY DEF TypeOK
    <3>2. shadow.pos \in 0..MaxLog /\ net.local \in Seq(Messages)
      BY <3>1 DEF Nets, Shadows
    <3>3. shadow.pos \in -1..MaxLog - 1
      BY <1>1, <3>2, SyncAssumption
    <3> QED BY <3>1, <3>2, <3>3
  <2>3. shadow' = [shadow EXCEPT !.phase = "choose", !.taken = shadow.pos]
    BY <1>1, <1>3, <2>1
  <2>4. /\ shadow' \in Shadows /\ shadow'.pos = shadow.pos /\ shadow'.sent = shadow.sent
        /\ shadow'.taken = shadow.pos /\ shadow'.phase = "choose"
    BY <2>2, <2>3 DEF Shadows
  <2>5. Tail(net.local) \in Seq(Messages)
    BY <1>1, <2>2, TakesFirst
  <2>6. /\ net' \in Nets /\ net'.theirs = net.theirs /\ net'.theirCursor = net.theirCursor
        /\ net'.log = net.log /\ net'.local = Tail(net.local)
    BY <1>1, <2>2, <2>5 DEF Nets
  <2>7. TypeOK' /\ EagerTells' /\ LogIsByPosition'
    BY <1>1, <2>4, <2>6, SameTypes DEF TypeOK, EagerTells, LogIsByPosition
  <2>8. /\ Asking' /\ ~InWire' /\ ~InReader' /\ ~InLocal' /\ Held' /\ Healthy' = Healthy
    BY <1>1, <2>1, <2>4, <2>6 DEF Asking, InWire, InReader, InLocal, Held, Healthy
  <2>9. OneQuestion'
    <3>1. \A i \in DOMAIN wire' : wire'[i].type # "request"
      BY <2>8 DEF InWire
    <3>2. reader'.phase \in {"notify", "exit"} => reader'.msg.type # "request"
      BY <1>1 DEF OneQuestion
    <3> QED BY <1>1, <2>1, <2>4, <2>6, <2>8, <3>1, <3>2 DEF OneQuestion
  <2>10. GoldenPlace'
    BY <1>1, <2>4 DEF GoldenPlace
  <2>11. ShadowPlace'
    <3>1. \A k \in shadow.sent : k < shadow.pos
      BY <1>1 DEF ShadowPlace, Waits
    <3> QED BY <1>1, <2>4, <3>1 DEF ShadowPlace, Waits
  <2>12. \A q : TheirsBelow(q)' = TheirsBelow(q)
    BY <1>1 DEF TheirsBelow, Positions
  <2>13. ChoicesArrive' /\ ChoicesTaken'
    <3>1. /\ ~InWire /\ ~InReader /\ ~InWire' /\ ~InReader' /\ Healthy' = Healthy
          /\ golden' = golden /\ net'.theirs = net.theirs
      BY <1>1, <2>1, <2>6, <2>8
    <3>2. ChoicesArrive'
      BY <2>12, <3>1 DEF ChoicesArrive, InWire
    <3>3. ChoicesTaken'
      BY <1>1, <2>4, <2>6, <2>12 DEF ChoicesTaken
    <3> QED BY <3>2, <3>3
  <2> QED BY <2>7, <2>9, <2>10, <2>11, <2>13
<1> QED BY <1>2, <1>3

\* An answer of ours leaves the question nowhere.
LEMMA AnswerKeeps ==
    ASSUME ChoicesInv, script' = script, golden' = golden, wire' = wire, reader' = reader,
           Asking, golden.at = shadow.pos, ~InWire, ~InReader, net' \in Nets,
           \A i \in DOMAIN net'.local : net'.local[i].type # "request",
           net'.log = net.log, net'.theirs = net.theirs, net'.theirCursor = net.theirCursor,
           shadow' \in Shadows, shadow'.sent = shadow.sent \union {shadow.pos},
           shadow'.phase # "choose"
    PROVE  /\ TypeOK' /\ EagerTells' /\ LogIsByPosition'
           /\ OneQuestion' /\ GoldenPlace' /\ ChoicesArrive'
<1> USE DEF ChoicesInv
<1>1. TypeOK' /\ EagerTells' /\ LogIsByPosition'
  BY SameTypes DEF TypeOK, EagerTells, LogIsByPosition
<1>2. /\ ~Asking' /\ ~InWire' /\ ~InReader' /\ ~InLocal' /\ ~Held' /\ Healthy' = Healthy
  BY DEF Asking, InWire, InReader, InLocal, Held, Healthy
<1>3. OneQuestion'
  <2>1. \A i \in DOMAIN wire' : wire'[i].type # "request"
    BY <1>2 DEF InWire
  <2>2. reader'.phase \in {"notify", "exit"} => reader'.msg.type # "request"
    BY DEF OneQuestion
  <2> QED BY <1>2, <2>1, <2>2 DEF OneQuestion
<1>4. GoldenPlace'
  <2>1. golden.waiting
    BY DEF Asking
  <2> QED BY <2>1 DEF GoldenPlace
<1>5. \A q : TheirsBelow(q)' = TheirsBelow(q)
  BY DEF TheirsBelow, Positions
<1>6. ChoicesArrive'
  BY <1>2, <1>5 DEF ChoicesArrive, InWire
<1> QED BY <1>1, <1>3, <1>4, <1>6

\* The shadow performs our choice and sends it.
LEMMA ChooseKeeps ==
    ASSUME ChoicesInv, Choose
    PROVE  ChoicesInv'
<1> USE DEF ChoicesInv
<1>1. /\ script' = script /\ golden' = golden /\ wire' = wire /\ reader' = reader
      /\ net' = SyncedNet
      /\ shadow' = [SyncedShadow EXCEPT !.phase = "run", !.pos = @ + 1,
                                        !.sent = @ \union {shadow.taken}]
      /\ shadow.phase = "choose" /\ shadow.pos < MaxLog /\ script[shadow.pos] = "ours"
  BY DEF Choose, At, Deed
<1>2. /\ SyncedNet \in Nets /\ SyncedShadow \in Shadows
      /\ SyncedNet.log = net.log /\ SyncedNet.theirs = net.theirs
      /\ SyncedNet.theirCursor = net.theirCursor /\ SyncedNet.local = net.local
      /\ SyncedShadow.pos = shadow.pos /\ SyncedShadow.phase = shadow.phase
      /\ SyncedShadow.sent = shadow.sent
  BY SyncKeeps
<1>3. /\ Held /\ Asking /\ shadow.taken = golden.at /\ shadow.taken = shadow.pos
      /\ ~InWire /\ ~InReader /\ ~InLocal
  BY <1>1 DEF Held, OneQuestion, ShadowPlace
<1>4. shadow.pos + 1 \in 0..MaxLog /\ shadow.pos \in Positions
  BY <1>1, SyncAssumption DEF TypeOK, Shadows, Positions
<1>5. /\ shadow' \in Shadows /\ shadow'.pos = shadow.pos + 1 /\ shadow'.phase = "run"
      /\ shadow'.sent = shadow.sent \union {shadow.pos}
  <2> DEFINE sent == shadow.sent \union {shadow.pos}
  <2>1. shadow' = [SyncedShadow EXCEPT !.phase = "run", !.pos = shadow.pos + 1, !.sent = sent]
    BY <1>1, <1>2, <1>3
  <2>2. sent \in SUBSET {k \in Positions : script[k] \in Ours}
    BY <1>1, <1>4 DEF TypeOK, Shadows, Ours
  <2> HIDE DEF sent
  <2>3. /\ shadow' \in Shadows /\ shadow'.pos = shadow.pos + 1 /\ shadow'.phase = "run"
        /\ shadow'.sent = sent
    BY <1>2, <1>4, <2>1, <2>2 DEF Shadows
  <2> QED BY <2>3 DEF sent
<1>6. /\ TypeOK' /\ EagerTells' /\ LogIsByPosition'
      /\ OneQuestion' /\ GoldenPlace' /\ ChoicesArrive'
  <2>1. \A i \in DOMAIN net'.local : net'.local[i].type # "request"
    BY <1>1, <1>2, <1>3 DEF InLocal
  <2> QED BY <1>1, <1>2, <1>3, <1>5, <2>1, AnswerKeeps
<1>7. ShadowPlace' /\ ChoicesTaken'
  BY <1>1, <1>2, <1>5, ShadowAdvances DEF Ours, Theirs
<1> QED BY <1>6, <1>7

\* The shadow answers a question about a library, or leaves at the end.
LEMMA AnswerSearchKeeps ==
    ASSUME ChoicesInv, AnswerSearch
    PROVE  ChoicesInv'
<1> USE DEF ChoicesInv
<1>1. /\ script' = script /\ golden' = golden /\ wire' = wire /\ reader' = reader
      /\ net' = [net EXCEPT !.local = Tail(net.local)] /\ net.local # <<>>
      /\ shadow.phase = "ask" /\ shadow.pos < MaxLog /\ script[shadow.pos] = "search"
      /\ shadow' = IF Head(net.local).type = "request"
                   THEN [shadow EXCEPT !.phase = "look", !.awaits = "accepted",
                                       !.taken = Head(net.local).ac,
                                       !.sent = shadow.sent \union {Head(net.local).ac}]
                   ELSE [shadow EXCEPT !.phase = "left"]
  BY DEF AnswerSearch, TakeRequest, At, Deed
<1>2. CASE Head(net.local).type # "request"
  BY <1>1, <1>2, LeavingKeeps
<1>3. CASE Head(net.local).type = "request"
  <2>1. /\ Head(net.local).ac = shadow.pos /\ golden.at = shadow.pos /\ Asking
        /\ ~InWire /\ ~InReader
        /\ \A i \in DOMAIN Tail(net.local) : Tail(net.local)[i].type # "request"
    BY <1>1, <1>3, AskedInPlace DEF Ours
  <2>2. /\ shadow \in Shadows /\ net \in Nets /\ net.local \in Seq(Messages)
        /\ shadow.pos \in -1..MaxLog - 1 /\ shadow.pos \in 0..MaxLog /\ shadow.pos \in Positions
    <3>1. shadow \in Shadows /\ net \in Nets
      BY DEF TypeOK
    <3>2. shadow.pos \in 0..MaxLog /\ net.local \in Seq(Messages)
      BY <3>1 DEF Nets, Shadows
    <3>3. shadow.pos \in -1..MaxLog - 1 /\ shadow.pos \in Positions
      BY <1>1, <3>2, SyncAssumption DEF Positions
    <3> QED BY <3>1, <3>2, <3>3
  <2>3. shadow' = [shadow EXCEPT !.phase = "look", !.awaits = "accepted", !.taken = shadow.pos,
                                 !.sent = shadow.sent \union {shadow.pos}]
    BY <1>1, <1>3, <2>1
  <2> DEFINE sent == shadow.sent \union {shadow.pos}
  <2>4. /\ sent \in SUBSET {k \in Positions : script[k] \in Ours}
        /\ shadow' = [shadow EXCEPT !.phase = "look", !.awaits = "accepted",
                                    !.taken = shadow.pos, !.sent = sent]
    <3>1. shadow.sent \in SUBSET {k \in Positions : script[k] \in Ours}
      BY <2>2 DEF Shadows
    <3>2. shadow.pos \in {k \in Positions : script[k] \in Ours}
      BY <1>1, <2>2 DEF Ours
    <3> QED BY <2>3, <3>1, <3>2
  <2> HIDE DEF sent
  <2>5. /\ shadow' \in Shadows /\ shadow'.pos = shadow.pos /\ shadow'.taken = shadow.pos
        /\ shadow'.sent = shadow.sent \union {shadow.pos}
        /\ shadow'.phase = "look" /\ shadow'.awaits = "accepted"
    <3>1. /\ shadow' \in Shadows /\ shadow'.pos = shadow.pos /\ shadow'.taken = shadow.pos
          /\ shadow'.sent = sent
          /\ shadow'.phase = "look" /\ shadow'.awaits = "accepted"
      BY <2>2, <2>4 DEF Shadows
    <3> QED BY <3>1 DEF sent
  <2>6. Tail(net.local) \in Seq(Messages)
    BY <1>1, <2>2, TakesFirst
  <2>7. /\ net' \in Nets /\ net'.theirs = net.theirs /\ net'.theirCursor = net.theirCursor
        /\ net'.log = net.log /\ net'.local = Tail(net.local)
    BY <1>1, <2>2, <2>6 DEF Nets
  <2>8. /\ TypeOK' /\ EagerTells' /\ LogIsByPosition'
        /\ OneQuestion' /\ GoldenPlace' /\ ChoicesArrive'
    BY <1>1, <2>1, <2>5, <2>7, AnswerKeeps
  <2>9. ShadowPlace'
    <3>1. \A k \in shadow'.sent : k < shadow.pos \/ k = shadow.pos
      BY <1>1, <2>5 DEF ShadowPlace, Waits
    <3>2. \A k \in 0..shadow.pos - 1 : script[k] \in Ours => k \in shadow'.sent
      BY <2>5 DEF ShadowPlace
    <3> QED BY <1>1, <2>5, <3>1, <3>2 DEF ShadowPlace, Waits
  <2>10. ChoicesTaken'
    <3>1. \A q : TheirsBelow(q)' = TheirsBelow(q)
      BY <1>1 DEF TheirsBelow, Positions
    <3> QED BY <1>1, <2>5, <2>7, <3>1 DEF ChoicesTaken
  <2> QED BY <2>8, <2>9, <2>10
<1> QED BY <1>2, <1>3

-----------------------------------------------------------------------------
(* The invariant, the types and the refinement.                            *)

\* No choice was made at the start.
LEMMA ChoicesInit ==
    ASSUME Init
    PROVE  ChoicesInv
<1> USE SyncAssumption
<1>1. /\ script \in [Positions -> Deeds] /\ wire = <<>>
      /\ golden = [at |-> 0, asked |-> 0, waiting |-> FALSE, over |-> FALSE]
      /\ reader = [phase |-> "idle", msg |-> Ending("ended")]
      /\ net = [log |-> {}, revealCursor |-> 0, reorderCursor |-> 0, anyApplied |-> FALSE,
                authoritative |-> FALSE, watermark |-> 0,
                theirs |-> {}, theirCursor |-> -1, accepted |-> {},
                local |-> <<>>, terminal |-> FALSE]
      /\ shadow = [pos |-> 0, phase |-> "run", awaits |-> "opponent", taken |-> -1,
                   sent |-> {}, applied |-> <<>>, pending |-> -1, dug |-> {}, fetched |-> {}]
  BY DEF Init
<1>2. 0 \in 0..MaxLog /\ -1 \in -1..MaxLog - 1 /\ -1 \in -1..MaxLog
  OBVIOUS
<1>3. golden \in Goldens /\ wire \in Seq(Messages)
  BY <1>1, <1>2 DEF Goldens
<1>4. reader \in Readers
  <2>1. Ending("ended") \in Messages
    BY <1>2 DEF Ending, Message, Messages
  <2> QED BY <1>1, <2>1 DEF Readers
<1>5. net \in Nets
  BY <1>1, <1>2 DEF Nets
<1>6. shadow \in Shadows
  BY <1>1, <1>2 DEF Shadows
<1>7. TypeOK
  BY <1>1, <1>3, <1>4, <1>5, <1>6 DEF TypeOK
<1>8. /\ DOMAIN wire = {} /\ DOMAIN net.local = {} /\ ~InReader /\ ~Held /\ ~InWire /\ ~InLocal
      /\ reader.phase = "idle"
  BY <1>1 DEF InReader, Held, InWire, InLocal
<1>9. EagerTells /\ OneQuestion /\ LogIsByPosition
  BY <1>1, <1>8 DEF EagerTells, OneQuestion, LogIsByPosition
<1>10. GoldenPlace /\ ShadowPlace
  BY <1>1 DEF GoldenPlace, ShadowPlace, Waits
<1>11. TheirsBelow(0) = {}
  BY DEF TheirsBelow, Positions
<1>12. ChoicesArrive /\ ChoicesTaken
  BY <1>1, <1>8, <1>11 DEF ChoicesArrive, ChoicesTaken
<1> QED BY <1>7, <1>9, <1>10, <1>12 DEF ChoicesInv

\* Every step keeps the invariant of the choices.
LEMMA ChoicesStep ==
    ASSUME ChoicesInv, [Next]_vars
    PROVE  ChoicesInv'
<1>1. CASE Server \/ OpponentChooses
  BY <1>1, ReachingChoiceKeeps, ChoiceMadeKeeps DEF Server
<1>2. ASSUME NEW how \in {"closed", "dropped"}, ConnectionBreaks(how) PROVE ChoicesInv'
  BY <1>2, BreakingKeeps
<1>3. CASE ReaderStep
  <2>1. ASSUME NEW type \in {"ended", "closed", "dropped"}, ReadEnding(type) PROVE ChoicesInv'
    BY <2>1, ReadEndingKeeps
  <2> QED BY <1>3, <2>1, ReadEagerKeeps, ReadRequestKeeps, PushFactKeeps, PushChoiceKeeps,
             PutRequestKeeps, ReadAcceptedKeeps, NotifyExitKeeps, PutExitKeeps DEF ReaderStep
<1>4. CASE GameThread \/ WakeUp
  BY <1>4, DrawsKeeps, PlaysKeeps, PrepareOwnChoiceKeeps, ChooseKeeps, AnswerSearchKeeps,
     TakeAwaitedKeeps, WaitingKeeps, ReplayKeeps, ReplaySearchKeeps DEF GameThread
<1>5. CASE UNCHANGED vars
  <2>1. /\ script' = script /\ golden' = golden /\ wire' = wire /\ reader' = reader
        /\ net' = net /\ shadow' = shadow
    BY <1>5 DEF vars
  <2>2. TypeOK' /\ EagerTells' /\ OneQuestion' /\ LogIsByPosition'
    BY <2>1, SameTypes
       DEF ChoicesInv, TypeOK, EagerTells, OneQuestion, LogIsByPosition, Asking, InWire,
           InReader, InLocal, Held
  <2>3. \A q : TheirsBelow(q)' = TheirsBelow(q)
    BY <2>1 DEF TheirsBelow, Positions
  <2>4. GoldenPlace' /\ ShadowPlace' /\ ChoicesTaken'
    BY <2>1, <2>3 DEF ChoicesInv, GoldenPlace, ShadowPlace, ChoicesTaken
  <2>5. ChoicesArrive'
    <3>1. InWire' = InWire /\ InReader' = InReader /\ Healthy' = Healthy
      BY <2>1 DEF InWire, InReader, Healthy
    <3> QED BY <2>1, <2>3, <3>1 DEF ChoicesInv, ChoicesArrive
  <2> QED BY <2>2, <2>4, <2>5 DEF ChoicesInv
<1> QED BY <1>1, <1>2, <1>3, <1>4, <1>5 DEF Next

\* Questions, choices and positions fit each other in every reachable state: a
\* question is in one place and is the one the server asks, the opponent's choices
\* are filed and taken without gaps, and the two copies stand where the choices
\* made so far let them (the server's questions, apply_choice_buffer, the MVar,
\* take_opponent_choice, wait_for_choice_accepted).
THEOREM ChoicesInvariant == Spec => []ChoicesInv
<1>1. ChoicesInv /\ [Next]_vars => ChoicesInv'
  BY ChoicesStep
<1>2. Init => ChoicesInv
  BY ChoicesInit
<1> QED BY <1>1, <1>2, PTL DEF Spec

\* Every record has its type in every reachable state.
THEOREM TypeCorrect == Spec => []TypeOK
<1>1. ChoicesInv => TypeOK
  BY DEF ChoicesInv
<1> QED BY <1>1, ChoicesInvariant, PTL

\* The positions of the two copies and the choices made, over a step of the
\* server or of the reader.
LEMMA GoldenStepRefines ==
    ASSUME ChoicesInv, GameReachesChoice \/ OpponentChooses \/ AnswerArrives
    PROVE  [Replicas!Next]_Replicas!vars
<1> USE DEF ChoicesInv
<1>1. golden.at \in 0..MaxLog /\ MaxLog \in Nat /\ golden \in Goldens
  BY SyncAssumption DEF TypeOK, Goldens
<1>2. script' = script /\ shadow' = shadow
  BY DEF GameReachesChoice, OpponentChooses, AnswerArrives
<1>3. ASSUME golden'.at \in golden.at + 1..MaxLog,
             \A k \in golden.at..golden'.at - 1 : script[k] \in Ours => k \in shadow.sent
      PROVE  Replicas!GoldenPlays
  BY <1>2, <1>3 DEF Replicas!GoldenPlays
<1>4. CASE GameReachesChoice
  <2> DEFINE q == NextChoice(golden.at)
  <2>1. q \in golden.at..MaxLog /\ \A i \in golden.at..q - 1 : script[i] \notin Ours
    BY <1>1, NextChoiceIsNext
  <2>2. golden'.at = q
    BY <1>4 DEF GameReachesChoice
  <2> HIDE DEF q
  <2>3. CASE q = golden.at
    BY <1>2, <2>2, <2>3 DEF Replicas!vars
  <2>4. CASE q # golden.at
    BY <1>1, <1>3, <2>1, <2>2, <2>4 DEF Replicas!Next
  <2> QED BY <2>3, <2>4
<1>5. CASE OpponentChooses \/ AnswerArrives
  <2>1. golden.waiting /\ golden'.at = golden.at + 1 /\ golden.at < MaxLog
    BY <1>1, <1>5 DEF OpponentChooses, AnswerArrives, GoldenPlace, Goldens
  <2>2. script[golden.at] \in Ours => golden.at \in shadow.sent
    BY <1>5 DEF OpponentChooses, AnswerArrives, Ours, Theirs
  <2> QED BY <1>1, <1>3, <2>1, <2>2 DEF Replicas!Next
<1> QED BY <1>4, <1>5

\* A choice the shadow replays was made in the golden game.
LEMMA ReplayedIsMade ==
    ASSUME ChoicesInv, shadow.phase = "replay", shadow.pos < MaxLog
    PROVE  /\ script[shadow.pos] \in Theirs => shadow.pos < golden.at
           /\ script[shadow.pos] \in Ours => shadow.pos \in shadow.sent
<1> USE DEF ChoicesInv
<1>1. script[shadow.pos] \in Ours => shadow.pos \in shadow.sent
  BY DEF ShadowPlace, Waits, Ours, Theirs
<1>2. ASSUME script[shadow.pos] \in Theirs PROVE shadow.pos < golden.at
  <2>1. net.theirCursor = shadow.pos /\ shadow.pos \in 0..MaxLog
    BY <1>2 DEF ChoicesTaken, TypeOK, Shadows
  <2>2. shadow.pos \in net.theirs
    BY <2>1, SyncAssumption DEF ChoicesTaken
  <2> QED BY <2>2 DEF ChoicesArrive, TheirsBelow
<1> QED BY <1>1, <1>2

\* The same over a step of the game thread.
LEMMA ShadowStepRefines ==
    ASSUME ChoicesInv, GameThread \/ WakeUp
    PROVE  [Replicas!Next]_Replicas!vars
<1> USE DEF ChoicesInv
<1>1. script' = script /\ golden' = golden /\ shadow \in Shadows /\ shadow.pos \in 0..MaxLog
  BY DEF GameThread, Draws, Plays, PrepareOwnChoice, Choose, BeginSearch, AnswerSearch,
         TakeRequest, TakeNothing, AwaitOpponent, TakeAwaited, FindNothing, FallAsleep, Replay,
         ReplaySearch, WakeUp, TypeOK, Shadows
<1>2. SyncedShadow \in Shadows /\ SyncedShadow.pos = shadow.pos /\ SyncedShadow.sent = shadow.sent
  BY SyncKeeps
<1>3. ASSUME shadow.pos < MaxLog, shadow'.pos = shadow.pos + 1, shadow'.sent = shadow.sent,
             script[shadow.pos] \in Theirs => shadow.pos < golden.at,
             script[shadow.pos] \in Ours => shadow.pos \in shadow.sent
      PROVE  Replicas!Next
  BY <1>1, <1>3 DEF Replicas!Next, Replicas!MirrorPlays
<1>4. CASE Draws
  <2>1. /\ shadow.pos < MaxLog /\ script[shadow.pos] = "draw"
        /\ shadow' = [SyncedShadow EXCEPT !.pos = @ + 1]
    BY <1>4 DEF Draws, At, Deed
  <2>2. shadow'.pos = shadow.pos + 1 /\ shadow'.sent = shadow.sent
    BY <1>2, <2>1 DEF Shadows
  <2> QED BY <1>3, <2>1, <2>2 DEF Ours, Theirs
<1>5. CASE Plays
  <2>1. /\ shadow.pos < MaxLog /\ script[shadow.pos] \in {"cast", "shuffle", "dig"}
        /\ shadow' = [Dug(Deed, shadow) EXCEPT !.pos = @ + 1]
    BY <1>5 DEF Plays, At, Deed
  <2>2. shadow'.pos = shadow.pos + 1 /\ shadow'.sent = shadow.sent
    BY <1>1, <2>1 DEF Shadows, Dug
  <2> QED BY <1>3, <2>1, <2>2 DEF Ours, Theirs
<1>6. CASE Replay
  <2>1. /\ shadow.pos < MaxLog /\ shadow.phase = "replay"
        /\ shadow' = [SyncedShadow EXCEPT !.phase = "run", !.pos = @ + 1]
    BY <1>6 DEF Replay, At
  <2>2. shadow'.pos = shadow.pos + 1 /\ shadow'.sent = shadow.sent
    BY <1>2, <2>1 DEF Shadows
  <2> QED BY <1>3, <2>1, <2>2, ReplayedIsMade
<1>7. CASE ReplaySearch
  <2>1. /\ shadow.pos < MaxLog /\ shadow.phase = "replay"
        /\ \E sh \in {shadow, SyncedShadow} : \E fetched :
             shadow' = [sh EXCEPT !.phase = "run", !.pos = sh.pos + 1, !.fetched = fetched]
    <3>1. /\ shadow.pos < MaxLog /\ shadow.phase = "replay"
      BY <1>7 DEF ReplaySearch, At
    <3> DEFINE logged == searched_card_for(shadow.pos)
               card == IF logged = {} /\ Deed = "find" THEN {shadow.taken} ELSE logged
               after == IF card = {} THEN shadow ELSE SyncedShadow
               fetched == after.fetched \union {<<shadow.pos, c>> : c \in card}
    <3>2. shadow' = [after EXCEPT !.phase = "run", !.pos = after.pos + 1, !.fetched = fetched]
      BY <1>7 DEF ReplaySearch
    <3>3. after \in {shadow, SyncedShadow}
      OBVIOUS
    <3> HIDE DEF after, fetched
    <3> QED BY <3>1, <3>2, <3>3
  <2>2. shadow'.pos = shadow.pos + 1 /\ shadow'.sent = shadow.sent
    BY <1>1, <1>2, <2>1 DEF Shadows
  <2> QED BY <1>3, <2>1, <2>2, ReplayedIsMade
<1>8. CASE Choose
  <2>1. /\ shadow.pos < MaxLog /\ shadow.phase = "choose" /\ script[shadow.pos] = "ours"
        /\ shadow' = [SyncedShadow EXCEPT !.phase = "run", !.pos = @ + 1,
                                          !.sent = @ \union {shadow.taken}]
    BY <1>8 DEF Choose, At, Deed
  <2>2. shadow.taken = shadow.pos /\ golden.at = shadow.pos
    BY <2>1 DEF ShadowPlace, OneQuestion, Held
  <2>3. shadow'.pos = shadow.pos + 1 /\ shadow'.sent = shadow.sent \union {shadow.pos}
    BY <1>2, <2>1, <2>2 DEF Shadows
  <2> QED BY <1>1, <2>1, <2>2, <2>3 DEF Replicas!Next, Replicas!MirrorPlays, Ours, Theirs
<1>9. CASE AnswerSearch /\ Head(net.local).type = "request"
  <2>1. /\ shadow.pos < MaxLog /\ shadow.phase = "ask" /\ script[shadow.pos] = "search"
        /\ net.local # <<>>
        /\ shadow' = [shadow EXCEPT !.phase = "look", !.awaits = "accepted",
                                    !.taken = Head(net.local).ac,
                                    !.sent = @ \union {Head(net.local).ac}]
    BY <1>9 DEF AnswerSearch, TakeRequest, At, Deed
  <2>2. Head(net.local).ac = shadow.pos /\ golden.at = shadow.pos
    BY <1>9, <2>1, AskedInPlace DEF Ours
  <2>3. shadow'.pos = shadow.pos /\ shadow'.sent = shadow.sent \union {shadow.pos}
    BY <1>1, <2>1, <2>2 DEF Shadows
  <2> QED BY <1>1, <2>1, <2>2, <2>3 DEF Replicas!Next, Replicas!Make, Ours
<1>10. CASE \/ AnswerSearch /\ Head(net.local).type # "request"
            \/ PrepareOwnChoice \/ BeginSearch \/ TakeNothing \/ AwaitOpponent \/ TakeAwaited
            \/ FindNothing \/ FallAsleep \/ WakeUp
  <2>1. CASE BeginSearch
    <3>1. shadow' = [SyncedShadow EXCEPT !.phase = IF Deed = "search" THEN "ask" ELSE "look",
                                         !.awaits = "opponent"]
      BY <2>1 DEF BeginSearch
    <3>2. shadow'.pos = shadow.pos /\ shadow'.sent = shadow.sent
      BY <1>2, <3>1 DEF Shadows
    <3> QED BY <1>1, <3>2 DEF Replicas!vars
  <2>2. CASE PrepareOwnChoice
    <3>1. \/ shadow' = [shadow EXCEPT !.phase = "choose", !.taken = Head(net.local).ac]
          \/ shadow' = [shadow EXCEPT !.phase = "left"]
      BY <2>2 DEF PrepareOwnChoice, TakeRequest
    <3>2. shadow'.pos = shadow.pos /\ shadow'.sent = shadow.sent
      BY <1>1, <3>1 DEF Shadows
    <3> QED BY <1>1, <3>2 DEF Replicas!vars
  <2>3. CASE TakeAwaited
    <3>1. shadow' = [shadow EXCEPT !.phase = "replay", !.taken = Min(Awaited)]
      BY <2>3 DEF TakeAwaited
    <3>2. shadow'.pos = shadow.pos /\ shadow'.sent = shadow.sent
      BY <1>1, <3>1 DEF Shadows
    <3> QED BY <1>1, <3>2 DEF Replicas!vars
  <2>4. CASE AwaitOpponent
    <3>1. shadow' = [shadow EXCEPT !.phase = "look", !.awaits = "opponent"]
      BY <2>4 DEF AwaitOpponent
    <3>2. shadow'.pos = shadow.pos /\ shadow'.sent = shadow.sent
      BY <1>1, <3>1 DEF Shadows
    <3> QED BY <1>1, <3>2 DEF Replicas!vars
  <2>5. CASE \/ AnswerSearch /\ Head(net.local).type # "request"
             \/ TakeNothing \/ FindNothing \/ FallAsleep \/ WakeUp
    <3>1. \E p : shadow' = [shadow EXCEPT !.phase = p]
      BY <2>5 DEF AnswerSearch, TakeRequest, TakeNothing, FindNothing, FallAsleep, WakeUp
    <3>2. shadow'.pos = shadow.pos /\ shadow'.sent = shadow.sent
      BY <1>1, <3>1 DEF Shadows
    <3> QED BY <1>1, <3>2 DEF Replicas!vars
  <2> QED BY <1>10, <2>1, <2>2, <2>3, <2>4, <2>5
<1> QED BY <1>4, <1>5, <1>6, <1>7, <1>8, <1>9, <1>10 DEF GameThread

\* The two copies of a game keep each other's choices: the golden game never runs
\* past a choice of ours that was not made, the shadow never past one of the
\* opponent's, and ours are made while both stand at them, each once.
THEOREM CopiesKeepChoices == Spec => ImplementsReplica
<1>1. Init => Replicas!Init
  BY DEF Init, Replicas!Init
<1>2. ChoicesInv /\ [Next]_vars => [Replicas!Next]_Replicas!vars
  <2> SUFFICES ASSUME ChoicesInv, [Next]_vars PROVE [Replicas!Next]_Replicas!vars
    OBVIOUS
  <2>1. CASE Server \/ OpponentChooses
    BY <2>1, GoldenStepRefines DEF Server
  <2>2. CASE ReaderStep \/ \E how \in {"closed", "dropped"} : ConnectionBreaks(how)
    <3>1. golden \in Goldens /\ shadow \in Shadows
      BY DEF ChoicesInv, TypeOK
    <3>2. script' = script /\ golden'.at = golden.at
      BY <2>2, <3>1
         DEF ReaderStep, ReadEager, ReadRequest, PushFact, PushChoice, PutRequest,
             ReadAccepted, ReadEnding, NotifyExit, PutExit, ConnectionBreaks, Goldens
    <3>3. shadow' = shadow \/ \E what : shadow' = Woken(what)
      BY <2>2
         DEF ReaderStep, ReadEager, ReadRequest, PushFact, PushChoice, PutRequest,
             ReadAccepted, ReadEnding, NotifyExit, PutExit, ConnectionBreaks
    <3>4. shadow'.pos = shadow.pos /\ shadow'.sent = shadow.sent
      BY <3>1, <3>3 DEF Woken, Shadows
    <3> QED BY <3>2, <3>4 DEF Replicas!vars
  <2>3. CASE GameThread \/ WakeUp
    BY <2>3, ShadowStepRefines
  <2>4. CASE UNCHANGED vars
    BY <2>4 DEF vars, Replicas!vars
  <2> QED BY <2>1, <2>2, <2>3, <2>4 DEF Next
<1> QED BY <1>1, <1>2, ChoicesInvariant, PTL DEF Spec, ImplementsReplica, Replicas!Spec

-----------------------------------------------------------------------------
(* Facts.  What the reader files is what happened in the golden game up to *)
(* the last question, in the order in which it happened.                   *)

\* No deed is a dig: the copies of its decision are filed whenever they come.
NoDigs == "dig" \notin Deeds

\* A card is played after a choice, a library searched after a spell.
Playable ==
    \A k \in Positions :
        /\ script[k] = "cast" => k > 0 /\ script[k - 1] = "theirs"
        /\ script[k] \in TheirSearches \union {"search"} =>
             \E j \in 0..k - 1 : script[j] = "ours"

\* The facts of the game up to a question.
AllFacts(q) == FactsIn(0, q) \union UNION {Candidates(k) : k \in {i \in Positions : i <= q}}

\* What eager messages tell, and that they tell it in order.
EagerFacts(w) == {f \in Facts : \E i \in DOMAIN w : w[i].type = "eager" /\ f \in w[i].facts}

\* What the client has, or will have when it reads what was sent ahead.
Known == net.log \union EagerFacts(wire)

\* Each fact is later than those of its class in the log and in the messages before it.
EagerInOrder(log, w) ==
    \A j \in DOMAIN w : w[j].type = "eager" => \A f \in w[j].facts :
        /\ \A g \in log : SameClass(f, g) => g.ac < f.ac
        /\ \A i \in DOMAIN w : i < j /\ w[i].type = "eager" =>
             \A g \in w[i].facts : SameClass(f, g) => g.ac < f.ac

\* Nothing was sent ahead after a question.
QuestionsLast(w) ==
    \A i, j \in DOMAIN w : w[i].type = "request" /\ w[j].type = "eager" => j < i

\* Each eager message tells one fact.
OneEach(w) ==
    \A i \in DOMAIN w : w[i].type = "eager" =>
        \E f \in Facts : w[i].facts = {f} /\ f.kind # "dig"
EagerIsOne == OneEach(wire)

\* Before the first question was read nothing of it, or after it, has happened.
BeforeQuestions ==
    ~net.authoritative =>
        /\ net.watermark = 0 /\ ~InReader /\ ~InLocal /\ ~Held
        /\ shadow.sent = {} /\ net.theirs = {}
        /\ EagerInOrder(net.log, wire)
        /\ Known \subseteq AllFacts(golden.at)
        /\ ~InWire /\ ~golden.over =>
             golden.asked = 0 /\ Known = {f \in FactsIn(0, golden.at) : f.kind = "reorder"}
        /\ InWire => Known = AllFacts(golden.at) /\ QuestionsLast(wire)
        /\ \A i \in DOMAIN wire : wire[i].type = "request" =>
             wire[i].facts = AllFacts(golden.at)

\* From then on the log holds the facts up to the last question that was read,
\* but for those the reader is about to push, in order.
AfterQuestions ==
    net.authoritative =>
        /\ net.watermark < MaxLog /\ script[net.watermark] \in Ours
        /\ net.watermark <= golden.at
        /\ golden.waiting \/ golden.over \/ net.watermark < golden.at
        /\ \A k \in shadow.sent : k <= net.watermark
        /\ ~InReader => net.log = AllFacts(net.watermark)
        /\ InReader =>
             /\ net.log \union reader.msg.facts = AllFacts(net.watermark)
             /\ \A f \in reader.msg.facts \ net.log :
                  /\ \A g \in net.log : g.ac <= f.ac
                  /\ \A k \in shadow.sent : k < f.ac
        /\ InReader \/ InLocal \/ Held => net.watermark = golden.at
        /\ \A i \in DOMAIN wire : wire[i].type = "request" =>
             /\ net.watermark < golden.at
             /\ AllFacts(golden.at) = AllFacts(net.watermark) \union wire[i].facts
             /\ \A f \in wire[i].facts : net.watermark < f.ac
        /\ ~InWire /\ ~golden.over => golden.asked = net.watermark

\* The invariant of the log.
LogInv == Playable /\ EagerIsOne /\ BeforeQuestions /\ AfterQuestions

\* A cursor is not ahead of what is in the log.
CursorsBehind ==
    /\ net.revealCursor <= net.watermark
    /\ net.revealCursor = 0 \/ \E g \in Reveals : net.revealCursor <= g.ac
    /\ net.reorderCursor = 0 \/ \E g \in Reorders : net.reorderCursor <= g.ac
    /\ net.reorderCursor <= shadow.pos
    /\ net.anyApplied => Reveals # {}

\* What a cursor has passed was applied, and nothing else.
AppliedIsPassed ==
    \A f \in Facts : f \in Applied <=>
        /\ f \in net.log
        /\ IF f.kind = "reorder" THEN f.ac <= net.reorderCursor
           ELSE net.anyApplied /\ f.ac <= net.revealCursor

\* The invariant of the cursors.
CursorInv == CursorsBehind /\ AppliedIsPassed /\ AppliedOnceInOrder

\* The facts before an opponent's choice, and the card it plays, are there when
\* the choice is.
FactsBeforeChoices ==
    \A k \in net.theirs :
        /\ net.authoritative /\ k < net.watermark
        /\ FactsIn(0, k + 1) \subseteq net.log
        /\ script[k + 1] = "cast" => k + 1 < net.watermark /\ FactOf(k + 1) \in net.log

\* The card at which the shadow stands is known too.
CastsKnown ==
    \A k \in Positions : k <= shadow.pos /\ script[k] = "cast" => FactOf(k) \in Applied

\* The invariant of what the shadow knows.
KnownInv == FactsBeforeChoices /\ CastsKnown /\ KnownInTime /\ FoundCardIsTheServers

\* The inductive invariant of the facts.
FactsInv == Healthy /\ LogInv /\ CursorInv /\ KnownInv

\* What a deed leaves.
LEMMA FactOfDeed ==
    ASSUME script \in [Positions -> Deeds], NEW k \in Positions, script[k] \in DOMAIN KindOf
    PROVE  /\ FactOf(k) \in Facts
           /\ FactOf(k).kind # "candidates"
           /\ script[k] = "shuffle" <=> FactOf(k).kind = "reorder"
           /\ script[k] = "shuffle" => FactOf(k).ac = k + 1
           /\ script[k] # "shuffle" => FactOf(k).ac = k
           /\ script[k] = "find" <=> FactOf(k).kind = "searched"
           /\ script[k] = "dig" <=> FactOf(k).kind = "dig"
           /\ script[k] \notin Ours /\ (script[k] \in Theirs => script[k] = "find")
<1>1. FactOf(k) \in Facts
  BY DeedsOfScript
<1>2. script[k] \in {"draw", "cast", "shuffle", "find", "dig"}
  BY DEF KindOf
<1> QED BY <1>1, <1>2 DEF FactOf, KindOf, Ours, Theirs

\* The facts between two positions, and those up to one.
LEMMA FactsBetween ==
    ASSUME script \in [Positions -> Deeds], NEW a \in 0..MaxLog, NEW b \in 0..MaxLog
    PROVE  /\ FactsIn(a, b) \subseteq Facts
           /\ \A f \in FactsIn(a, b) : \E k \in Positions :
                k >= a /\ k < b /\ script[k] \in DOMAIN KindOf /\ f = FactOf(k)
           /\ \A k \in Positions :
                k >= a /\ k < b /\ script[k] \in DOMAIN KindOf => FactOf(k) \in FactsIn(a, b)
<1>1. \A k \in a..b - 1 : k \in Positions /\ k >= a /\ k < b
  BY SyncAssumption DEF Positions
<1>2. \A k \in Positions : k >= a /\ k < b => k \in a..b - 1
  BY SyncAssumption DEF Positions
<1>3. \A k \in Positions : script[k] \in DOMAIN KindOf => FactOf(k) \in Facts
  BY FactOfDeed
<1> QED BY <1>1, <1>2, <1>3 DEF FactsIn

\* The candidates of a search are one fact, at the search.
LEMMA CandidatesOf ==
    ASSUME NEW k \in Positions
    PROVE  /\ Candidates(k) \subseteq Facts
           /\ \A f \in Candidates(k) : f.ac = k /\ f.kind = "candidates" /\ script[k] = "search"
           /\ script[k] = "search" => Candidates(k) = {[ac |-> k, kind |-> "candidates"]}
           /\ script[k] # "search" => Candidates(k) = {}
BY SyncAssumption DEF Candidates, Facts, Positions

\* A fact up to a question happened before it or belongs to a search up to it.
LEMMA FactsUpTo ==
    ASSUME script \in [Positions -> Deeds], NEW q \in 0..MaxLog, NEW f
    PROVE  f \in AllFacts(q) <=>
             \/ f \in FactsIn(0, q)
             \/ \E k \in Positions : k <= q /\ f \in Candidates(k)
BY DEF AllFacts

\* There is one fact of a class at a position, and none after the last position.
LEMMA FactsByPosition ==
    ASSUME script \in [Positions -> Deeds], NEW q \in 0..MaxLog
    PROVE  /\ AllFacts(q) \subseteq Facts
           /\ \A f \in AllFacts(q) : f.ac <= q /\ (f.kind = "reorder" => 1 <= f.ac)
           /\ \A f, g \in AllFacts(q) : SameClass(f, g) /\ f.ac = g.ac => f = g
<1>1. 0 \in 0..MaxLog /\ Positions \subseteq Nat
  BY SyncAssumption DEF Positions
<1>2. ASSUME NEW f \in AllFacts(q)
      PROVE  /\ f \in Facts /\ f.ac <= q
             /\ \/ \E k \in Positions : script[k] \in DOMAIN KindOf /\ f = FactOf(k) /\ k < q
                \/ \E k \in Positions : f \in Candidates(k)
  <2>1. CASE f \in FactsIn(0, q)
    <3>1. PICK k \in Positions : k < q /\ script[k] \in DOMAIN KindOf /\ f = FactOf(k)
      BY <1>1, <2>1, FactsBetween
    <3> QED BY <1>1, <3>1, FactOfDeed
  <2>2. CASE \E k \in Positions : k <= q /\ f \in Candidates(k)
    BY <2>2, CandidatesOf
  <2> QED BY <1>2, <2>1, <2>2, FactsUpTo
<1>3. ASSUME NEW f \in AllFacts(q), f.kind = "reorder" PROVE 1 <= f.ac
  <2>1. \A k \in Positions : f \notin Candidates(k)
    BY <1>3, CandidatesOf
  <2>2. PICK k \in Positions : script[k] \in DOMAIN KindOf /\ f = FactOf(k)
    BY <1>2, <2>1
  <2> QED BY <1>1, <1>3, <2>2, FactOfDeed
<1>4. ASSUME NEW f \in AllFacts(q), NEW g \in AllFacts(q), SameClass(f, g), f.ac = g.ac
      PROVE  f = g
  <2>1. ASSUME NEW x \in {f, g}
        PROVE  \/ \E k \in Positions : script[k] \in DOMAIN KindOf /\ x = FactOf(k)
               \/ \E k \in Positions : x \in Candidates(k)
    BY <1>2
  <2>2. ASSUME NEW k \in Positions, NEW j \in Positions,
               script[k] \in DOMAIN KindOf, f = FactOf(k),
               script[j] \in DOMAIN KindOf, g = FactOf(j)
        PROVE  f = g
    <3>1. k = j
      BY <1>1, <1>4, <2>2, FactOfDeed DEF SameClass
    <3> QED BY <2>2, <3>1
  <2>3. ASSUME NEW x \in {f, g}, NEW y \in {f, g}, NEW k \in Positions, NEW j \in Positions,
               script[k] \in DOMAIN KindOf, x = FactOf(k), y \in Candidates(j)
        PROVE  FALSE
    <3>1. y.ac = j /\ y.kind = "candidates" /\ script[j] = "search"
      BY <2>3, CandidatesOf
    <3>2. x.ac = j /\ x.kind # "reorder"
      BY <1>4, <2>3, <3>1 DEF SameClass
    <3>3. k = j
      BY <2>3, <3>2, FactOfDeed
    <3> QED BY <2>3, <3>1, <3>3, FactOfDeed DEF Ours
  <2>4. ASSUME NEW k \in Positions, NEW j \in Positions, f \in Candidates(k), g \in Candidates(j)
        PROVE  f = g
    <3>1. k = j
      BY <1>4, <2>4, CandidatesOf
    <3> QED BY <2>4, <3>1, CandidatesOf
  <2>5. \/ \E k \in Positions : script[k] \in DOMAIN KindOf /\ f = FactOf(k)
        \/ \E k \in Positions : f \in Candidates(k)
    BY <2>1
  <2>6. \/ \E k \in Positions : script[k] \in DOMAIN KindOf /\ g = FactOf(k)
        \/ \E k \in Positions : g \in Candidates(k)
    BY <2>1
  <2> QED BY <2>2, <2>3, <2>4, <2>5, <2>6
<1> QED BY <1>2, <1>3, <1>4

\* Later positions have more facts.  If no choice of ours lies between, only the
\* deeds between and the last one add to them; their facts come later.
LEMMA FactsGrow ==
    ASSUME script \in [Positions -> Deeds], NEW q \in 0..MaxLog, NEW r \in q..MaxLog
    PROVE  /\ FactsIn(0, r) = FactsIn(0, q) \union FactsIn(q, r)
           /\ AllFacts(q) \subseteq AllFacts(r)
           /\ q < MaxLog /\ r < MaxLog /\ q < r /\ script[q] \in Ours
              /\ (\A k \in q + 1..r - 1 : script[k] \notin Ours) =>
                /\ AllFacts(r) = AllFacts(q) \union FactsIn(q, r) \union Candidates(r)
                /\ \A f \in FactsIn(q, r) \union Candidates(r) : q < f.ac
<1>1. /\ 0 \in 0..MaxLog /\ Positions \subseteq Nat /\ q \in Nat /\ r \in Nat /\ q <= r
      /\ r \in 0..MaxLog /\ MaxLog \in Nat
  BY SyncAssumption DEF Positions
<1>2. FactsIn(0, r) = FactsIn(0, q) \union FactsIn(q, r)
  <2>1. ASSUME NEW f \in FactsIn(0, r) PROVE f \in FactsIn(0, q) \union FactsIn(q, r)
    <3>1. PICK k \in Positions : k >= 0 /\ k < r /\ script[k] \in DOMAIN KindOf /\ f = FactOf(k)
      BY <1>1, <2>1, FactsBetween
    <3>2. k < q \/ k >= q
      BY <1>1
    <3> QED BY <1>1, <3>1, <3>2, FactsBetween
  <2>2. ASSUME NEW f \in FactsIn(0, q) \union FactsIn(q, r) PROVE f \in FactsIn(0, r)
    <3>1. PICK k \in Positions : k >= 0 /\ k < r /\ script[k] \in DOMAIN KindOf /\ f = FactOf(k)
      <4>1. CASE f \in FactsIn(0, q)
        <5>1. PICK k \in Positions : k < q /\ script[k] \in DOMAIN KindOf /\ f = FactOf(k)
          BY <1>1, <4>1, FactsBetween
        <5> QED BY <1>1, <5>1
      <4>2. CASE f \in FactsIn(q, r)
        <5>1. PICK k \in Positions : k < r /\ script[k] \in DOMAIN KindOf /\ f = FactOf(k)
          BY <1>1, <4>2, FactsBetween
        <5> QED BY <1>1, <5>1
      <4> QED BY <2>2, <4>1, <4>2
    <3> QED BY <1>1, <3>1, FactsBetween
  <2> QED BY <2>1, <2>2
<1>3. AllFacts(q) \subseteq AllFacts(r)
  <2> SUFFICES ASSUME NEW f \in AllFacts(q) PROVE f \in AllFacts(r)
    OBVIOUS
  <2>1. f \in FactsIn(0, q) \/ \E k \in Positions : k <= q /\ f \in Candidates(k)
    BY FactsUpTo
  <2>2. \A k \in Positions : k <= q => k <= r
    BY <1>1
  <2> QED BY <1>1, <1>2, <2>1, <2>2, FactsUpTo
<1>4. ASSUME q < MaxLog, r < MaxLog, q < r, script[q] \in Ours,
             \A k \in q + 1..r - 1 : script[k] \notin Ours
      PROVE  /\ AllFacts(r) = AllFacts(q) \union FactsIn(q, r) \union Candidates(r)
             /\ \A f \in FactsIn(q, r) \union Candidates(r) : q < f.ac
  <2>1. q \in Positions /\ r \in Positions
    BY <1>1, <1>4 DEF Positions
  <2>2. ASSUME NEW f \in AllFacts(r)
        PROVE  f \in AllFacts(q) \union FactsIn(q, r) \union Candidates(r)
    <3>1. CASE f \in FactsIn(0, r)
      BY <1>2, <3>1, FactsUpTo
    <3>2. ASSUME NEW k \in Positions, k <= r, f \in Candidates(k)
          PROVE  f \in AllFacts(q) \union Candidates(r)
      <4>1. script[k] = "search"
        BY <3>2, CandidatesOf
      <4>2. k \notin q + 1..r - 1
        BY <1>4, <4>1 DEF Ours
      <4>3. k <= q \/ k = r
        BY <1>1, <3>2, <4>2
      <4> QED BY <3>2, <4>3, FactsUpTo
    <3> QED BY <1>1, <2>2, <3>1, <3>2, FactsUpTo
  <2>3. FactsIn(q, r) \union Candidates(r) \subseteq AllFacts(r)
    <3>1. r <= r
      BY <1>1
    <3> QED BY <1>1, <1>2, <2>1, <3>1, FactsUpTo
  <2>4. ASSUME NEW f \in FactsIn(q, r) PROVE q < f.ac
    <3>1. PICK k \in Positions : k >= q /\ script[k] \in DOMAIN KindOf /\ f = FactOf(k)
      BY <1>1, <2>4, FactsBetween
    <3>2. k # q
      BY <1>4, <3>1, FactOfDeed
    <3> QED BY <1>1, <3>1, <3>2, FactOfDeed
  <2>5. ASSUME NEW f \in Candidates(r) PROVE q < f.ac
    BY <1>4, <2>1, <2>5, CandidatesOf
  <2> QED BY <1>3, <2>2, <2>3, <2>4, <2>5
<1> QED BY <1>2, <1>3, <1>4

-----------------------------------------------------------------------------
(* Eager messages in a sequence.                                           *)

\* The places in one sequence after another.
LEMMA Joined ==
    ASSUME NEW s \in Seq(Messages), NEW t \in Seq(Messages)
    PROVE  /\ s \o t \in Seq(Messages) /\ Len(s) \in Nat
           /\ DOMAIN s = 1..Len(s) /\ DOMAIN t \subseteq Nat
           /\ \A i \in DOMAIN (s \o t) :
                \/ i \in DOMAIN s /\ (s \o t)[i] = s[i]
                \/ /\ i \in Nat /\ i > Len(s) /\ i - Len(s) \in DOMAIN t
                   /\ (s \o t)[i] = t[i - Len(s)]
           /\ \A i \in DOMAIN s : i \in DOMAIN (s \o t) /\ (s \o t)[i] = s[i]
           /\ \A i \in DOMAIN t : i + Len(s) \in DOMAIN (s \o t) /\ (s \o t)[i + Len(s)] = t[i]
<1>1. /\ s \o t \in Seq(Messages) /\ Len(s) \in Nat /\ Len(t) \in Nat
      /\ DOMAIN s = 1..Len(s) /\ DOMAIN t = 1..Len(t) /\ DOMAIN (s \o t) = 1..Len(s) + Len(t)
  OBVIOUS
<1>2. \A i \in 1..Len(s) + Len(t) : (s \o t)[i] = IF i <= Len(s) THEN s[i] ELSE t[i - Len(s)]
  OBVIOUS
<1>3. \A i \in 1..Len(t) : i + Len(s) \in 1..Len(s) + Len(t) /\ ~(i + Len(s) <= Len(s))
                           /\ (i + Len(s)) - Len(s) = i
  BY <1>1
<1>4. \A i \in 1..Len(s) + Len(t) : i \in 1..Len(s) \/ (i > Len(s) /\ i - Len(s) \in 1..Len(t))
  BY <1>1
<1>5. ASSUME NEW i \in DOMAIN (s \o t)
      PROVE  \/ i \in DOMAIN s /\ (s \o t)[i] = s[i]
             \/ /\ i \in Nat /\ i > Len(s) /\ i - Len(s) \in DOMAIN t
                /\ (s \o t)[i] = t[i - Len(s)]
  <2>1. i \in 1..Len(s) + Len(t)
    BY <1>1
  <2>2. CASE i \in 1..Len(s)
    BY <1>1, <1>2, <2>1, <2>2
  <2>3. CASE i > Len(s) /\ i - Len(s) \in 1..Len(t)
    BY <1>1, <1>2, <2>1, <2>3
  <2> QED BY <1>4, <2>1, <2>2, <2>3
<1>6. ASSUME NEW i \in DOMAIN s PROVE i \in DOMAIN (s \o t) /\ (s \o t)[i] = s[i]
  BY <1>1, <1>2
<1>7. ASSUME NEW i \in DOMAIN t
      PROVE  i + Len(s) \in DOMAIN (s \o t) /\ (s \o t)[i + Len(s)] = t[i]
  BY <1>1, <1>2, <1>3
<1> QED BY <1>1, <1>5, <1>6, <1>7

\* What two sequences tell ahead is what each of them tells.
LEMMA EagerFactsJoin ==
    ASSUME NEW s \in Seq(Messages), NEW t \in Seq(Messages)
    PROVE  EagerFacts(s \o t) = EagerFacts(s) \union EagerFacts(t)
<1> DEFINE w == s \o t
<1>1. /\ \A i \in DOMAIN w : \/ i \in DOMAIN s /\ w[i] = s[i]
                             \/ i - Len(s) \in DOMAIN t /\ w[i] = t[i - Len(s)]
      /\ \A i \in DOMAIN s : i \in DOMAIN w /\ w[i] = s[i]
      /\ \A i \in DOMAIN t : i + Len(s) \in DOMAIN w /\ w[i + Len(s)] = t[i]
  BY Joined
<1> HIDE DEF w
<1>2. EagerFacts(w) = EagerFacts(s) \union EagerFacts(t)
  BY <1>1 DEF EagerFacts
<1> QED BY <1>2 DEF w

\* Two ordered sequences are ordered when the second tells what is later.
LEMMA EagerOrderJoin ==
    ASSUME NEW s \in Seq(Messages), NEW t \in Seq(Messages), NEW log,
           EagerInOrder(log, s), EagerInOrder(log, t),
           \A f \in EagerFacts(t), g \in EagerFacts(s) : SameClass(f, g) => g.ac < f.ac
    PROVE  EagerInOrder(log, s \o t)
<1> DEFINE w == s \o t
<1>1. /\ Len(s) \in Nat /\ DOMAIN s = 1..Len(s)
      /\ \A i \in DOMAIN w : \/ i \in DOMAIN s /\ w[i] = s[i]
                             \/ /\ i \in Nat /\ i > Len(s) /\ i - Len(s) \in DOMAIN t
                                /\ w[i] = t[i - Len(s)]
  BY Joined
<1>2. /\ \A i \in DOMAIN s : s[i].facts \subseteq Facts
      /\ \A i \in DOMAIN t : t[i].facts \subseteq Facts
  <2>1. \A m \in Messages : m.facts \subseteq Facts
    BY DEF Messages
  <2>2. (\A i \in DOMAIN s : s[i] \in Messages) /\ (\A i \in DOMAIN t : t[i] \in Messages)
    OBVIOUS
  <2> QED BY <2>1, <2>2
<1> HIDE DEF w
<1>3. ASSUME NEW j \in DOMAIN w, w[j].type = "eager", NEW f \in w[j].facts, NEW g \in log,
             SameClass(f, g)
      PROVE  g.ac < f.ac
  BY <1>1, <1>3 DEF EagerInOrder
<1>4. ASSUME NEW j \in DOMAIN w, w[j].type = "eager", NEW f \in w[j].facts,
             NEW i \in DOMAIN w, i < j, w[i].type = "eager", NEW g \in w[i].facts,
             SameClass(f, g)
      PROVE  g.ac < f.ac
  <2>1. CASE j \in DOMAIN s /\ w[j] = s[j]
    <3>1. i \in DOMAIN s /\ w[i] = s[i]
      BY <1>1, <1>4, <2>1
    <3> QED BY <1>4, <2>1, <3>1 DEF EagerInOrder
  <2>2. CASE j \in Nat /\ j > Len(s) /\ j - Len(s) \in DOMAIN t /\ w[j] = t[j - Len(s)]
    <3>1. CASE i \in DOMAIN s /\ w[i] = s[i]
      <4>1. f \in EagerFacts(t) /\ g \in EagerFacts(s)
        BY <1>2, <1>4, <2>2, <3>1 DEF EagerFacts
      <4> QED BY <1>4, <4>1
    <3>2. CASE i \in Nat /\ i > Len(s) /\ i - Len(s) \in DOMAIN t /\ w[i] = t[i - Len(s)]
      <4>1. i - Len(s) < j - Len(s)
        BY <1>1, <1>4, <2>2, <3>2
      <4> QED BY <1>4, <2>2, <3>2, <4>1 DEF EagerInOrder
    <3> QED BY <1>1, <3>1, <3>2
  <2> QED BY <1>1, <2>1, <2>2
<1>5. EagerInOrder(log, w)
  BY <1>3, <1>4 DEF EagerInOrder
<1> QED BY <1>5 DEF w

\* Another message tells nothing eagerly.
LEMMA EagerAppend ==
    ASSUME NEW s \in Seq(Messages), NEW m \in Messages, m.type # "eager", NEW log
    PROVE  /\ EagerFacts(Append(s, m)) = EagerFacts(s)
           /\ EagerInOrder(log, s) => EagerInOrder(log, Append(s, m))
<1> DEFINE w == Append(s, m)
<1>1. /\ \A i \in DOMAIN w : (i \in DOMAIN s /\ w[i] = s[i]) \/ w[i] = m
      /\ \A i \in DOMAIN s : i \in DOMAIN w /\ w[i] = s[i]
  BY AddsLast
<1> HIDE DEF w
<1>2. EagerFacts(w) = EagerFacts(s)
  BY <1>1 DEF EagerFacts
<1>3. ASSUME EagerInOrder(log, s) PROVE EagerInOrder(log, w)
  <2>1. \A i \in DOMAIN w : w[i].type = "eager" => i \in DOMAIN s /\ w[i] = s[i]
    BY <1>1
  <2> QED BY <1>3, <2>1 DEF EagerInOrder
<1> QED BY <1>2, <1>3 DEF w

\* Copies of facts tell these, in order.
LEMMA EagerOfCopies ==
    ASSUME NEW S, S \subseteq Facts, NEW s, IsCopies(s, S), NEW log,
           \A f \in S, g \in log : SameClass(f, g) => g.ac < f.ac
    PROVE  EagerFacts(s) = S /\ EagerInOrder(log, s)
<1>1. EagerFacts(s) = S
  BY DEF IsCopies, EagerFacts
<1>2. EagerInOrder(log, s)
  <2>1. \A i \in DOMAIN s : s[i].facts \subseteq S
    BY DEF IsCopies
  <2> QED BY <2>1 DEF IsCopies, EagerInOrder
<1> QED BY <1>1, <1>2

\* The first message is read.
LEMMA EagerTail ==
    ASSUME NEW w \in Seq(Messages), w # <<>>, NEW log
    PROVE  /\ Head(w).type = "eager" =>
                EagerFacts(w) = Head(w).facts \union EagerFacts(Tail(w))
           /\ Head(w).type # "eager" => EagerFacts(w) = EagerFacts(Tail(w))
           /\ EagerInOrder(log, w) => EagerInOrder(log, Tail(w))
           /\ EagerInOrder(log, w) /\ Head(w).type = "eager" =>
                /\ EagerInOrder(log \union Head(w).facts, Tail(w))
                /\ \A f \in Head(w).facts, g \in log : SameClass(f, g) => g.ac < f.ac
<1> DEFINE t == Tail(w)  h == Head(w)
<1>1. /\ h \in Messages /\ h = w[1] /\ 1 \in DOMAIN w
      /\ \A i \in DOMAIN t : i \in Nat /\ i + 1 \in DOMAIN w /\ t[i] = w[i + 1]
      /\ \A i \in DOMAIN w : i # 1 => i - 1 \in DOMAIN t /\ t[i - 1] = w[i]
      /\ DOMAIN t \subseteq Nat \ {0}
  <2>1. DOMAIN t \subseteq Nat \ {0}
    OBVIOUS
  <2> QED BY <2>1, TakesFirst
<1> HIDE DEF t, h
<1>2. h.facts \subseteq Facts
  BY <1>1 DEF Messages
<1>3. ASSUME h.type = "eager" PROVE EagerFacts(w) = h.facts \union EagerFacts(t)
  BY <1>1, <1>2, <1>3 DEF EagerFacts
<1>4. ASSUME h.type # "eager" PROVE EagerFacts(w) = EagerFacts(t)
  BY <1>1, <1>4 DEF EagerFacts
<1>5. ASSUME EagerInOrder(log, w) PROVE EagerInOrder(log, t)
  <2>1. \A i, j \in DOMAIN t : i < j => i + 1 < j + 1
    BY <1>1
  <2> QED BY <1>1, <1>5, <2>1 DEF EagerInOrder
<1>6. ASSUME EagerInOrder(log, w), h.type = "eager"
      PROVE  /\ EagerInOrder(log \union h.facts, t)
             /\ \A f \in h.facts, g \in log : SameClass(f, g) => g.ac < f.ac
  <2>1. \A f \in h.facts, g \in log : SameClass(f, g) => g.ac < f.ac
    BY <1>1, <1>6 DEF EagerInOrder
  <2>2. ASSUME NEW j \in DOMAIN t, t[j].type = "eager", NEW f \in t[j].facts, NEW g \in h.facts,
               SameClass(f, g)
        PROVE  g.ac < f.ac
    <3>1. 1 < j + 1 /\ j + 1 \in DOMAIN w /\ t[j] = w[j + 1]
      BY <1>1
    <3> QED BY <1>1, <1>6, <2>2, <3>1 DEF EagerInOrder
  <2>3. EagerInOrder(log, t)
    BY <1>5, <1>6
  <2> QED BY <2>1, <2>2, <2>3 DEF EagerInOrder
<1> QED BY <1>3, <1>4, <1>5, <1>6 DEF t, h

-----------------------------------------------------------------------------
(* The log: steps that tell nothing.                                       *)

\* Messages between two sequences that tell nothing and ask nothing.
Passes(w, v) ==
    /\ EagerFacts(v) = EagerFacts(w)
    /\ \A log : EagerInOrder(log, w) => EagerInOrder(log, v)
    /\ \A i \in DOMAIN v : v[i].type \in {"eager", "request"} => \E j \in DOMAIN w : w[j] = v[i]
    /\ \A i \in DOMAIN w : w[i].type = "request" => \E j \in DOMAIN v : v[j] = w[i]
    /\ QuestionsLast(w) => QuestionsLast(v)

\* An acceptance or an ending, sent or read, leaves the facts in the wire alone.
LEMMA OtherMessagesPass ==
    ASSUME NEW w \in Seq(Messages)
    PROVE  /\ \A m \in Messages : m.type \notin {"eager", "request"} => Passes(w, Append(w, m))
           /\ w # <<>> /\ Head(w).type \notin {"eager", "request"} => Passes(w, Tail(w))
<1>1. ASSUME NEW m \in Messages, m.type \notin {"eager", "request"} PROVE Passes(w, Append(w, m))
  <2> DEFINE v == Append(w, m)
  <2>1. /\ \A i \in DOMAIN v : (i \in DOMAIN w /\ v[i] = w[i]) \/ v[i] = m
        /\ \A i \in DOMAIN w : i \in DOMAIN v /\ v[i] = w[i]
    BY AddsLast
  <2>2. /\ EagerFacts(v) = EagerFacts(w)
        /\ \A log : EagerInOrder(log, w) => EagerInOrder(log, v)
    BY <1>1, EagerAppend
  <2> HIDE DEF v
  <2>3. QuestionsLast(w) => QuestionsLast(v)
    BY <1>1, <2>1 DEF QuestionsLast
  <2>4. /\ \A i \in DOMAIN v : v[i].type \in {"eager", "request"} => \E j \in DOMAIN w : w[j] = v[i]
        /\ \A i \in DOMAIN w : w[i].type = "request" => \E j \in DOMAIN v : v[j] = w[i]
    BY <1>1, <2>1
  <2>5. Passes(w, v)
    BY <2>2, <2>3, <2>4, Zenon DEF Passes
  <2> QED BY <2>5 DEF v
<1>2. ASSUME w # <<>>, Head(w).type \notin {"eager", "request"} PROVE Passes(w, Tail(w))
  <2> DEFINE v == Tail(w)
  <2>1. /\ Head(w) = w[1]
        /\ \A i \in DOMAIN v : i \in Nat /\ i + 1 \in DOMAIN w /\ v[i] = w[i + 1]
        /\ \A i \in DOMAIN w : i # 1 => i - 1 \in DOMAIN v /\ v[i - 1] = w[i]
    BY <1>2, TakesFirst
  <2>2. /\ EagerFacts(v) = EagerFacts(w)
        /\ \A log : EagerInOrder(log, w) => EagerInOrder(log, v)
    BY <1>2, EagerTail
  <2> HIDE DEF v
  <2>3. QuestionsLast(w) => QuestionsLast(v)
    <3> SUFFICES ASSUME QuestionsLast(w), NEW i \in DOMAIN v, NEW j \in DOMAIN v,
                        v[i].type = "request", v[j].type = "eager"
                 PROVE  j < i
      BY DEF QuestionsLast
    <3>1. j + 1 < i + 1
      BY <2>1 DEF QuestionsLast
    <3> QED BY <2>1, <3>1
  <2>4. /\ \A i \in DOMAIN v : v[i].type \in {"eager", "request"} => \E j \in DOMAIN w : w[j] = v[i]
        /\ \A i \in DOMAIN w : w[i].type = "request" => \E j \in DOMAIN v : v[j] = w[i]
    BY <1>2, <2>1
  <2>5. Passes(w, v)
    BY <2>2, <2>3, <2>4, Zenon DEF Passes
  <2> QED BY <2>5 DEF v
<1> QED BY <1>1, <1>2

\* What the facts of a game are depends on its script alone.
LEMMA SameFacts ==
    ASSUME script' = script
    PROVE  /\ Positions' = Positions /\ Playable' = Playable
           /\ \A a, b : FactsIn(a, b)' = FactsIn(a, b)
           /\ \A q : AllFacts(q)' = AllFacts(q)
           /\ \A q : Candidates(q)' = Candidates(q)
           /\ \A k : FactOf(k)' = FactOf(k)
           /\ \A w : EagerFacts(w)' = EagerFacts(w)
<1>1. \A k : FactOf(k)' = FactOf(k)
  BY DEF FactOf
<1>2. \A a, b : FactsIn(a, b)' = FactsIn(a, b)
  BY <1>1 DEF FactsIn
<1>3. \A q : Candidates(q)' = Candidates(q)
  BY DEF Candidates
<1>4. \A q : AllFacts(q)' = AllFacts(q)
  BY <1>2, <1>3 DEF AllFacts, Positions
<1>5. Positions' = Positions /\ Playable' = Playable
  BY DEF Positions, Playable
<1>6. \A w : EagerFacts(w)' = EagerFacts(w)
  BY DEF EagerFacts, Facts
<1> QED BY <1>1, <1>2, <1>3, <1>4, <1>5, <1>6

\* A step that tells nothing new, reads no question and files no fact.
LEMMA LogFrame ==
    ASSUME ChoicesInv, LogInv, script' = script,
           golden'.at = golden.at, golden'.asked = golden.asked,
           golden'.waiting = golden.waiting, golden.over => golden'.over,
           Passes(wire, wire'),
           InReader' => InReader /\ reader'.msg.facts = reader.msg.facts,
           InReader /\ ~InReader' => reader.msg.facts = {},
           net'.log = net.log, net'.authoritative = net.authoritative,
           net'.watermark = net.watermark,
           net'.theirs = net.theirs \/ InReader,
           InLocal' \/ Held' => InReader \/ InLocal \/ Held,
           \/ shadow'.sent = shadow.sent
           \/ (InLocal \/ Held) /\ shadow'.sent = shadow.sent \union {golden.at}
    PROVE  LogInv'
<1> USE DEF LogInv
<1>1. /\ Positions' = Positions /\ Playable' = Playable
      /\ \A a, b : FactsIn(a, b)' = FactsIn(a, b)
      /\ \A q : AllFacts(q)' = AllFacts(q)
  BY SameFacts
<1>2. /\ EagerFacts(wire') = EagerFacts(wire)
      /\ \A log : EagerInOrder(log, wire) => EagerInOrder(log, wire')
      /\ \A i \in DOMAIN wire' : wire'[i].type \in {"eager", "request"} =>
           \E j \in DOMAIN wire : wire[j] = wire'[i]
      /\ \A i \in DOMAIN wire : wire[i].type = "request" =>
           \E j \in DOMAIN wire' : wire'[j] = wire[i]
      /\ QuestionsLast(wire) => QuestionsLast(wire')
  BY DEF Passes
<1>3. InWire' <=> InWire
  BY <1>2 DEF InWire
<1>4. EagerIsOne'
  BY <1>2 DEF EagerIsOne, OneEach, Facts
<1>5. Known' = Known
  BY <1>2 DEF Known, EagerFacts, Facts
<1>6. InReader => ~InLocal /\ ~Held
  BY DEF ChoicesInv, OneQuestion
<1>7. CASE ~net.authoritative
  <2>1. /\ net.watermark = 0 /\ ~InReader /\ ~InLocal /\ ~Held
        /\ shadow.sent = {} /\ net.theirs = {}
        /\ EagerInOrder(net.log, wire)
        /\ Known \subseteq AllFacts(golden.at)
        /\ ~InWire /\ ~golden.over =>
             golden.asked = 0 /\ Known = {f \in FactsIn(0, golden.at) : f.kind = "reorder"}
        /\ InWire => Known = AllFacts(golden.at) /\ QuestionsLast(wire)
        /\ \A i \in DOMAIN wire : wire[i].type = "request" =>
             wire[i].facts = AllFacts(golden.at)
    BY <1>7, Zenon DEF BeforeQuestions
  <2>2. /\ net'.watermark = 0 /\ ~InReader' /\ ~InLocal' /\ ~Held'
        /\ shadow'.sent = {} /\ net'.theirs = {}
    BY <2>1
  <2>3. EagerInOrder(net'.log, wire')
    BY <1>2, <2>1
  <2>4. /\ Known' \subseteq AllFacts(golden.at)
        /\ ~InWire' /\ ~golden'.over =>
             golden'.asked = 0 /\ Known' = {f \in FactsIn(0, golden.at) : f.kind = "reorder"}
        /\ InWire' => Known' = AllFacts(golden.at) /\ QuestionsLast(wire')
    BY <1>2, <1>3, <1>5, <2>1
  <2>5. \A i \in DOMAIN wire' : wire'[i].type = "request" => wire'[i].facts = AllFacts(golden.at)
    BY <1>2, <2>1
  <2>6. BeforeQuestions'
    <3>1. /\ EagerInOrder(net.log, wire)' = EagerInOrder(net'.log, wire')
          /\ QuestionsLast(wire)' = QuestionsLast(wire')
      BY DEF EagerInOrder, QuestionsLast, SameClass
    <3> QED BY <1>1, <2>2, <2>3, <2>4, <2>5, <3>1 DEF BeforeQuestions
  <2> QED BY <1>1, <1>4, <1>7, <2>6 DEF AfterQuestions
<1>8. CASE net.authoritative
  <2>1. /\ net.watermark < MaxLog /\ script[net.watermark] \in Ours
        /\ net.watermark <= golden.at
        /\ golden.waiting \/ golden.over \/ net.watermark < golden.at
        /\ \A k \in shadow.sent : k <= net.watermark
        /\ InReader \/ InLocal \/ Held => net.watermark = golden.at
        /\ ~InWire /\ ~golden.over => golden.asked = net.watermark
    BY <1>8, Zenon DEF AfterQuestions
  <2>2. /\ ~InReader => net.log = AllFacts(net.watermark)
        /\ InReader =>
             /\ net.log \union reader.msg.facts = AllFacts(net.watermark)
             /\ \A f \in reader.msg.facts \ net.log :
                  /\ \A g \in net.log : g.ac <= f.ac
                  /\ \A k \in shadow.sent : k < f.ac
        /\ \A i \in DOMAIN wire : wire[i].type = "request" =>
             /\ net.watermark < golden.at
             /\ AllFacts(golden.at) = AllFacts(net.watermark) \union wire[i].facts
             /\ \A f \in wire[i].facts : net.watermark < f.ac
    BY <1>8, Zenon DEF AfterQuestions
  <2>3. /\ net'.watermark < MaxLog /\ script'[net'.watermark] \in Ours
        /\ net'.watermark <= golden'.at
        /\ golden'.waiting \/ golden'.over \/ net'.watermark < golden'.at
        /\ InReader' \/ InLocal' \/ Held' => net'.watermark = golden'.at
        /\ ~InWire' /\ ~golden'.over => golden'.asked = net'.watermark
    BY <1>3, <2>1
  <2>4. \A k \in shadow'.sent : k <= net'.watermark
    <3>1. net.watermark \in Int
      BY SyncAssumption DEF ChoicesInv, TypeOK, Nets
    <3> QED BY <2>1, <3>1
  <2>5. ~InReader' => net'.log = AllFacts(net'.watermark)
    BY <2>2
  <2>6. InReader' =>
          /\ net'.log \union reader'.msg.facts = AllFacts(net'.watermark)
          /\ \A f \in reader'.msg.facts \ net'.log :
               /\ \A g \in net'.log : g.ac <= f.ac
               /\ \A k \in shadow'.sent : k < f.ac
    BY <1>6, <2>2
  <2>7. \A i \in DOMAIN wire' : wire'[i].type = "request" =>
          /\ net'.watermark < golden'.at
          /\ AllFacts(golden'.at) = AllFacts(net'.watermark) \union wire'[i].facts
          /\ \A f \in wire'[i].facts : net'.watermark < f.ac
    BY <1>2, <2>2
  <2>8. AfterQuestions'
    BY <1>1, <2>3, <2>4, <2>5, <2>6, <2>7 DEF AfterQuestions
  <2> QED BY <1>1, <1>4, <1>8, <2>8 DEF BeforeQuestions
<1> QED BY <1>7, <1>8

\* The reader's other messages, its second pass and the end of a connection.
LEMMA QuietReaderKeepsLog ==
    ASSUME ChoicesInv, LogInv,
           \/ PushChoice \/ PutRequest \/ ReadAccepted \/ NotifyExit \/ PutExit
           \/ \E type \in {"ended", "closed", "dropped"} : ReadEnding(type)
           \/ \E how \in {"closed", "dropped"} : ConnectionBreaks(how)
    PROVE  LogInv'
<1>1. /\ script' = script /\ golden \in Goldens /\ net \in Nets /\ reader \in Readers
      /\ wire \in Seq(Messages) /\ shadow \in Shadows /\ net.local \in Seq(Messages)
      /\ reader.msg \in Messages
  <2>1. script' = script
    BY DEF PushChoice, PutRequest, ReadAccepted, NotifyExit, PutExit, ReadEnding, ConnectionBreaks
  <2>2. /\ golden \in Goldens /\ net \in Nets /\ reader \in Readers
        /\ wire \in Seq(Messages) /\ shadow \in Shadows
    BY DEF ChoicesInv, TypeOK
  <2> QED BY <2>1, <2>2 DEF Nets, Readers
<1>2. Passes(wire, wire)
  BY Zenon DEF Passes
<1>3. ASSUME NEW what PROVE /\ Woken(what).sent = shadow.sent
                            /\ (Woken(what).phase = "choose" <=> Held)
  BY <1>1 DEF Woken, Shadows, Held
<1>4. CASE PushChoice
  <2>1. /\ golden' = golden /\ wire' = wire /\ shadow' = Woken("opponent") /\ InReader
        /\ \E T, C : /\ net' = [net EXCEPT !.theirs = T]
                     /\ reader' = [reader EXCEPT !.msg.choices = C]
    BY <1>4 DEF PushChoice, InReader
  <2>2. /\ reader'.msg.facts = reader.msg.facts /\ InReader'
    BY <1>1, <2>1 DEF Readers, Messages, InReader
  <2>3. /\ net'.log = net.log /\ net'.authoritative = net.authoritative
        /\ net'.watermark = net.watermark /\ net'.local = net.local
    BY <1>1, <2>1 DEF Nets
  <2> QED BY <1>1, <1>2, <1>3, <2>1, <2>2, <2>3, LogFrame DEF Held, InLocal
<1>5. CASE PutRequest \/ PutExit
  <2>1. /\ golden' = golden /\ wire' = wire /\ shadow' = shadow
        /\ net' = [net EXCEPT !.local = Append(net.local, reader.msg)]
        /\ reader' = [reader EXCEPT !.phase = "idle"] \/ reader' = [reader EXCEPT !.phase = "gone"]
        /\ (InReader /\ reader.msg.facts = {}) \/ (~InReader /\ reader.msg.type # "request")
    BY <1>5 DEF PutRequest, PutExit, InReader, ChoicesInv, OneQuestion
  <2>2. ~InReader' /\ (InReader => reader.msg.facts = {})
    BY <1>1, <2>1 DEF Readers, InReader
  <2>3. /\ net'.log = net.log /\ net'.authoritative = net.authoritative
        /\ net'.watermark = net.watermark /\ net'.theirs = net.theirs
        /\ net'.local = Append(net.local, reader.msg)
    BY <1>1, <2>1 DEF Nets
  <2>4. InLocal' => InReader \/ InLocal
    <3>1. \A i \in DOMAIN net'.local :
            (i \in DOMAIN net.local /\ net'.local[i] = net.local[i]) \/ net'.local[i] = reader.msg
      BY <1>1, <2>3, AddsLast
    <3> QED BY <2>1, <3>1 DEF InLocal
  <2>5. Held' = Held
    BY <2>1 DEF Held
  <2> QED BY <1>1, <1>2, <2>1, <2>2, <2>3, <2>4, <2>5, LogFrame
<1>6. CASE NotifyExit
  <2>1. /\ golden' = golden /\ wire' = wire /\ shadow' = Woken(shadow.awaits) /\ net' = net
        /\ ~InReader
        /\ \E p \in {"gone", "exit"} : reader' = [reader EXCEPT !.phase = p]
    BY <1>6 DEF NotifyExit, InReader
  <2>2. ~InReader'
    BY <1>1, <2>1 DEF Readers, InReader
  <2> QED BY <1>1, <1>2, <1>3, <2>1, <2>2, LogFrame DEF Held, InLocal
<1>7. CASE ReadAccepted \/ \E type \in {"ended", "closed", "dropped"} : ReadEnding(type)
  <2>1. /\ golden' = golden /\ wire' = Tail(wire) /\ wire # <<>>
        /\ Head(wire).type \notin {"eager", "request"} /\ ~InReader
        /\ reader' = reader \/ reader' = [phase |-> "notify", msg |-> Head(wire)]
        /\ shadow' = shadow \/ shadow' = Woken("accepted")
        /\ \/ \E A : net' = [net EXCEPT !.accepted = A]
           \/ net' = [net EXCEPT !.terminal = TRUE]
    BY <1>7 DEF ReadAccepted, ReadEnding, Receives, InReader
  <2>2. Passes(wire, wire')
    BY <1>1, <2>1, OtherMessagesPass
  <2>3. ~InReader'
    BY <2>1 DEF InReader
  <2>4. /\ net'.log = net.log /\ net'.authoritative = net.authoritative
        /\ net'.watermark = net.watermark /\ net'.theirs = net.theirs
        /\ net'.local = net.local
    BY <1>1, <2>1 DEF Nets
  <2>5. shadow'.sent = shadow.sent /\ Held' = Held /\ InLocal' = InLocal
    BY <1>3, <2>1, <2>4 DEF Held, InLocal
  <2> QED BY <1>1, <2>1, <2>2, <2>3, <2>4, <2>5, LogFrame
<1>8. ASSUME NEW how \in {"closed", "dropped"}, ConnectionBreaks(how) PROVE LogInv'
  <2>1. /\ golden' = [golden EXCEPT !.over = TRUE] /\ wire' = Append(wire, Ending(how))
        /\ reader' = reader /\ net' = net /\ shadow' = shadow
    BY <1>8 DEF ConnectionBreaks
  <2>2. Ending(how) \in Messages /\ Ending(how).type \notin {"eager", "request"}
    BY <1>8, SyncAssumption DEF Ending, Message, Messages
  <2>3. Passes(wire, wire')
    BY <1>1, <2>1, <2>2, OtherMessagesPass
  <2>4. /\ golden'.at = golden.at /\ golden'.asked = golden.asked
        /\ golden'.waiting = golden.waiting /\ golden'.over
    BY <1>1, <2>1 DEF Goldens
  <2>5. InReader' = InReader /\ InLocal' = InLocal /\ Held' = Held
    BY <2>1 DEF InReader, InLocal, Held
  <2> QED BY <1>1, <2>1, <2>3, <2>4, <2>5, LogFrame
<1> QED BY <1>4, <1>5, <1>6, <1>7, <1>8

\* What the game thread leaves to the reader and the server.
LEMMA GameThreadLeaves ==
    ASSUME ChoicesInv, GameThread \/ WakeUp
    PROVE  /\ script' = script /\ golden' = golden /\ wire' = wire /\ reader' = reader
           /\ net'.log = net.log /\ net'.authoritative = net.authoritative
           /\ net'.watermark = net.watermark /\ net'.theirs = net.theirs
           /\ InLocal' \/ Held' => InLocal \/ Held
           /\ \/ shadow'.sent = shadow.sent
              \/ (InLocal \/ Held) /\ shadow'.sent = shadow.sent \union {golden.at}
<1>1. /\ net \in Nets /\ shadow \in Shadows /\ net.local \in Seq(Messages)
  <2>1. net \in Nets /\ shadow \in Shadows
    BY DEF ChoicesInv, TypeOK
  <2> QED BY <2>1 DEF Nets
<1>2. script' = script /\ golden' = golden /\ wire' = wire /\ reader' = reader
  BY DEF GameThread, Draws, Plays, PrepareOwnChoice, Choose, BeginSearch, AnswerSearch,
         TakeRequest, TakeNothing, AwaitOpponent, TakeAwaited, FindNothing, FallAsleep, Replay,
         ReplaySearch, WakeUp
<1>3. /\ SyncedNet.log = net.log /\ SyncedNet.authoritative = net.authoritative
      /\ SyncedNet.watermark = net.watermark /\ SyncedNet.theirs = net.theirs
      /\ SyncedNet.local = net.local
      /\ SyncedShadow \in Shadows /\ SyncedShadow.sent = shadow.sent
      /\ SyncedShadow.phase = shadow.phase
  BY SyncKeeps DEF ChoicesInv
<1>4. CASE Draws \/ Replay \/ ReplaySearch \/ BeginSearch
  <2>1. net' = net \/ net' = SyncedNet
    BY <1>4 DEF Draws, Replay, ReplaySearch, BeginSearch
  <2>2. shadow'.sent = shadow.sent /\ shadow'.phase # "choose"
    <3>1. CASE Draws
      <4>1. shadow' = [SyncedShadow EXCEPT !.pos = @ + 1] /\ shadow.phase = "run"
        BY <3>1 DEF Draws, At
      <4> QED BY <1>3, <4>1 DEF Shadows
    <3>2. CASE Replay
      <4>1. shadow' = [SyncedShadow EXCEPT !.phase = "run", !.pos = @ + 1]
        BY <3>2 DEF Replay
      <4> QED BY <1>3, <4>1 DEF Shadows
    <3>3. CASE ReplaySearch
      <4> DEFINE logged == searched_card_for(shadow.pos)
                 card == IF logged = {} /\ Deed = "find" THEN {shadow.taken} ELSE logged
                 after == IF card = {} THEN shadow ELSE SyncedShadow
                 fetched == after.fetched \union {<<shadow.pos, c>> : c \in card}
      <4>1. shadow' = [after EXCEPT !.phase = "run", !.pos = after.pos + 1, !.fetched = fetched]
        BY <3>3 DEF ReplaySearch
      <4>2. after \in Shadows /\ after.sent = shadow.sent
        BY <1>1, <1>3
      <4> HIDE DEF after, fetched
      <4> QED BY <4>1, <4>2 DEF Shadows
    <3>4. CASE BeginSearch
      <4>1. \E p \in {"ask", "look"} :
              shadow' = [SyncedShadow EXCEPT !.phase = p, !.awaits = "opponent"]
        BY <3>4 DEF BeginSearch
      <4> QED BY <1>3, <4>1 DEF Shadows
    <3> QED BY <1>4, <3>1, <3>2, <3>3, <3>4
  <2>3. InLocal' = InLocal /\ ~Held'
    BY <1>3, <2>1, <2>2 DEF InLocal, Held
  <2> QED BY <1>2, <1>3, <2>1, <2>2, <2>3
<1>5. CASE Plays
  <2>1. /\ net' = net /\ shadow' = [Dug(Deed, shadow) EXCEPT !.pos = @ + 1]
        /\ shadow.phase = "run"
    BY <1>5 DEF Plays, At
  <2>2. shadow'.sent = shadow.sent /\ shadow'.phase = "run"
    BY <1>1, <2>1 DEF Shadows, Dug
  <2>3. InLocal' = InLocal /\ ~Held'
    BY <2>1, <2>2 DEF InLocal, Held
  <2> QED BY <1>2, <2>1, <2>2, <2>3
<1>6. CASE AwaitOpponent \/ TakeAwaited \/ FindNothing \/ FallAsleep \/ WakeUp \/ TakeNothing
  <2>1. shadow'.sent = shadow.sent /\ shadow'.phase # "choose"
    <3>1. \/ \E p \in {"look", "left", "decide", "asleep"} : shadow' = [shadow EXCEPT !.phase = p]
          \/ shadow' = [shadow EXCEPT !.phase = "look", !.awaits = "opponent"]
          \/ \E t : shadow' = [shadow EXCEPT !.phase = "replay", !.taken = t]
      BY <1>6 DEF AwaitOpponent, TakeAwaited, FindNothing, FallAsleep, WakeUp, TakeNothing
    <3> QED BY <1>1, <3>1 DEF Shadows
  <2>2. net' = net \/ \E c : net' = [net EXCEPT !.theirCursor = c]
    BY <1>6 DEF AwaitOpponent, TakeAwaited, FindNothing, FallAsleep, WakeUp, TakeNothing
  <2>3. /\ net'.log = net.log /\ net'.authoritative = net.authoritative
        /\ net'.watermark = net.watermark /\ net'.theirs = net.theirs
        /\ net'.local = net.local
    BY <1>1, <2>2 DEF Nets
  <2>4. InLocal' = InLocal /\ ~Held'
    BY <2>1, <2>3 DEF InLocal, Held
  <2> QED BY <1>2, <2>1, <2>3, <2>4
<1>7. CASE Choose
  <2>1. /\ net' = SyncedNet /\ shadow.phase = "choose"
        /\ shadow' = [SyncedShadow EXCEPT !.phase = "run", !.pos = @ + 1,
                                          !.sent = @ \union {shadow.taken}]
    BY <1>7 DEF Choose, At
  <2>2. Held /\ shadow.taken = golden.at
    BY <2>1 DEF Held, ChoicesInv, OneQuestion
  <2>3. shadow'.sent = shadow.sent \union {golden.at} /\ shadow'.phase = "run"
    BY <1>3, <2>1, <2>2 DEF Shadows
  <2> QED BY <1>2, <1>3, <2>1, <2>2, <2>3
<1>8. CASE PrepareOwnChoice \/ AnswerSearch
  <2>1. /\ net' = [net EXCEPT !.local = Tail(net.local)] /\ net.local # <<>>
        /\ \/ shadow' = [shadow EXCEPT !.phase = "left"]
           \/ /\ Head(net.local).type = "request"
              /\ \/ shadow' = [shadow EXCEPT !.phase = "choose", !.taken = Head(net.local).ac]
                 \/ shadow' = [shadow EXCEPT !.phase = "look", !.awaits = "accepted",
                                             !.taken = Head(net.local).ac,
                                             !.sent = shadow.sent \union {Head(net.local).ac}]
    BY <1>8 DEF PrepareOwnChoice, AnswerSearch, TakeRequest
  <2>2. /\ Head(net.local) = net.local[1] /\ 1 \in DOMAIN net.local
        /\ \A i \in DOMAIN Tail(net.local) :
             i + 1 \in DOMAIN net.local /\ Tail(net.local)[i] = net.local[i + 1]
    BY <1>1, <2>1, TakesFirst
  <2>3. /\ net'.log = net.log /\ net'.authoritative = net.authoritative
        /\ net'.watermark = net.watermark /\ net'.theirs = net.theirs
        /\ net'.local = Tail(net.local)
    BY <1>1, <2>1 DEF Nets
  <2>4. InLocal' => InLocal
    BY <2>2, <2>3 DEF InLocal
  <2>5. Head(net.local).type = "request" => InLocal /\ Head(net.local).ac = golden.at
    BY <2>2 DEF InLocal, ChoicesInv, OneQuestion
  <2>6. /\ shadow'.sent = shadow.sent \/ (InLocal /\ shadow'.sent = shadow.sent \union {golden.at})
        /\ shadow'.phase = "choose" => InLocal
    BY <1>1, <2>1, <2>5 DEF Shadows
  <2>7. Held' => InLocal
    BY <2>6 DEF Held
  <2> QED BY <1>2, <2>3, <2>4, <2>6, <2>7
<1> QED BY <1>4, <1>5, <1>6, <1>7, <1>8 DEF GameThread

\* No step of the game thread disturbs the log.
LEMMA GameThreadKeepsLog ==
    ASSUME ChoicesInv, LogInv, GameThread \/ WakeUp
    PROVE  LogInv'
<1>1. /\ script' = script /\ golden' = golden /\ wire' = wire /\ reader' = reader
      /\ net'.log = net.log /\ net'.authoritative = net.authoritative
      /\ net'.watermark = net.watermark /\ net'.theirs = net.theirs
      /\ InLocal' \/ Held' => InLocal \/ Held
      /\ \/ shadow'.sent = shadow.sent
         \/ (InLocal \/ Held) /\ shadow'.sent = shadow.sent \union {golden.at}
  BY GameThreadLeaves
<1>2. Passes(wire, wire)
  BY Zenon DEF Passes
<1>3. InReader' = InReader
  BY <1>1 DEF InReader
<1> QED BY <1>1, <1>2, <1>3, LogFrame

-----------------------------------------------------------------------------
(* The log: what the server tells.                                         *)

\* Nor does a choice that reaches the server.
LEMMA ChoiceMadeKeepsLog ==
    ASSUME ChoicesInv, LogInv, OpponentChooses \/ AnswerArrives
    PROVE  LogInv'
<1> USE DEF LogInv
<1>1. /\ script' = script /\ reader' = reader /\ net' = net /\ shadow' = shadow
      /\ golden.waiting /\ ~golden.over
      /\ golden' = [golden EXCEPT !.at = golden.at + 1, !.waiting = FALSE]
  BY DEF OpponentChooses, AnswerArrives
<1>2. /\ golden \in Goldens /\ golden.at \in 0..MaxLog /\ golden.asked \in 0..MaxLog
      /\ MaxLog \in Nat /\ wire \in Seq(Messages) /\ script \in [Positions -> Deeds]
      /\ net.watermark \in 0..MaxLog
  <2>1. golden \in Goldens /\ net \in Nets /\ wire \in Seq(Messages) /\ script \in [Positions -> Deeds]
    BY DEF ChoicesInv, TypeOK
  <2> QED BY <2>1, SyncAssumption DEF Goldens, Nets
<1>3. golden.at < MaxLog /\ golden.at \in Positions /\ golden.at + 1 \in golden.at..MaxLog
  BY <1>1, <1>2 DEF ChoicesInv, GoldenPlace, Positions
<1>4. /\ golden'.at = golden.at + 1 /\ golden'.asked = golden.asked /\ golden'.over = golden.over
  BY <1>1, <1>2 DEF Goldens
<1>5. ~Asking /\ (golden.at \in shadow.sent \/ script[golden.at] \in Theirs)
  BY DEF OpponentChooses, AnswerArrives, Asking, Ours, Theirs
<1>6. /\ ~InWire /\ ~InReader /\ ~InLocal /\ ~Held /\ \A i \in DOMAIN wire : wire[i].type # "request"
  BY <1>5, NobodyAsks DEF ChoicesInv
<1>7. Passes(wire, wire')
  <2>1. Message("accepted", golden.at, {}, {}) \in Messages
    BY <1>2 DEF Message, Messages
  <2>2. Message("accepted", golden.at, {}, {}).type \notin {"eager", "request"}
    BY DEF Message
  <2>3. wire' = wire \/ wire' = Append(wire, Message("accepted", golden.at, {}, {}))
    BY DEF OpponentChooses, AnswerArrives
  <2>4. Passes(wire, wire)
    BY Zenon DEF Passes
  <2> QED BY <1>2, <2>1, <2>2, <2>3, <2>4, OtherMessagesPass
<1>8. /\ EagerFacts(wire') = EagerFacts(wire)
      /\ \A log : EagerInOrder(log, wire) => EagerInOrder(log, wire')
      /\ \A i \in DOMAIN wire' : wire'[i].type # "request"
      /\ \A i \in DOMAIN wire' : wire'[i].type = "eager" => \E j \in DOMAIN wire : wire[j] = wire'[i]
  BY <1>6, <1>7 DEF Passes
<1>9. EagerIsOne'
  BY <1>8 DEF EagerIsOne, OneEach, Facts
<1>10. Known' = Known
  BY <1>1, <1>8 DEF Known, EagerFacts, Facts
<1>11. ~InWire' /\ ~InReader' /\ ~InLocal' /\ ~Held'
  BY <1>1, <1>6, <1>8 DEF InWire, InReader, InLocal, Held
<1>12. /\ Positions' = Positions /\ Playable' = Playable
       /\ \A a, b : FactsIn(a, b)' = FactsIn(a, b)
       /\ \A q : AllFacts(q)' = AllFacts(q)
  BY <1>1, SameFacts
<1>13. AllFacts(golden.at) \subseteq AllFacts(golden.at + 1)
  BY <1>2, <1>3, FactsGrow
<1>14. CASE ~net.authoritative
  <2>1. /\ net.watermark = 0 /\ shadow.sent = {} /\ net.theirs = {}
        /\ EagerInOrder(net.log, wire) /\ Known \subseteq AllFacts(golden.at)
        /\ golden.asked = 0 /\ Known = {f \in FactsIn(0, golden.at) : f.kind = "reorder"}
    BY <1>1, <1>6, <1>14, Zenon DEF BeforeQuestions
  <2>2. script[golden.at] \in Theirs
    BY <1>5, <2>1
  <2>3. \A f \in FactsIn(golden.at, golden.at + 1) : f.kind # "reorder"
    <3> SUFFICES ASSUME NEW f \in FactsIn(golden.at, golden.at + 1) PROVE f.kind # "reorder"
      OBVIOUS
    <3>1. golden.at + 1 \in 0..MaxLog
      BY <1>2, <1>3
    <3>2. PICK k \in Positions : /\ k >= golden.at /\ k < golden.at + 1
                                 /\ script[k] \in DOMAIN KindOf /\ f = FactOf(k)
      BY <1>2, <3>1, FactsBetween
    <3>3. k = golden.at
      BY <1>2, <3>2, SyncAssumption DEF Positions
    <3>4. script[k] # "shuffle"
      BY <2>2, <3>3 DEF Theirs
    <3> QED BY <1>2, <3>2, <3>4, FactOfDeed
  <2>4. FactsIn(0, golden.at + 1) = FactsIn(0, golden.at) \union FactsIn(golden.at, golden.at + 1)
    BY <1>2, <1>3, FactsGrow
  <2>5. Known = {f \in FactsIn(0, golden.at + 1) : f.kind = "reorder"}
    BY <2>1, <2>3, <2>4
  <2>6. EagerInOrder(net.log, wire)'
    <3>1. EagerInOrder(net.log, wire)' = EagerInOrder(net'.log, wire')
      BY DEF EagerInOrder, SameClass
    <3> QED BY <1>1, <1>8, <2>1, <3>1
  <2>7. BeforeQuestions'
    BY <1>1, <1>4, <1>8, <1>10, <1>11, <1>12, <1>13, <2>1, <2>5, <2>6 DEF BeforeQuestions
  <2> QED BY <1>1, <1>9, <1>12, <1>14, <2>7 DEF AfterQuestions
<1>15. CASE net.authoritative
  <2>1. /\ net.watermark < MaxLog /\ script[net.watermark] \in Ours
        /\ net.watermark <= golden.at
        /\ \A k \in shadow.sent : k <= net.watermark
        /\ net.log = AllFacts(net.watermark)
        /\ golden.asked = net.watermark
    BY <1>1, <1>6, <1>15, Zenon DEF AfterQuestions
  <2>2. net.watermark <= golden.at + 1 /\ net.watermark < golden.at + 1
    BY <1>2, <2>1
  <2>3. AfterQuestions'
    BY <1>1, <1>4, <1>8, <1>11, <1>12, <2>1, <2>2 DEF AfterQuestions
  <2> QED BY <1>1, <1>9, <1>12, <1>15, <2>3 DEF BeforeQuestions
<1> QED BY <1>14, <1>15

\* Two sequences that tell one fact in each message, joined.
LEMMA OneEachJoin ==
    ASSUME NEW s \in Seq(Messages), NEW t \in Seq(Messages), OneEach(s), OneEach(t)
    PROVE  OneEach(s \o t)
<1> DEFINE w == s \o t
<1>1. \A i \in DOMAIN w : \/ i \in DOMAIN s /\ w[i] = s[i]
                          \/ i - Len(s) \in DOMAIN t /\ w[i] = t[i - Len(s)]
  BY Joined
<1> HIDE DEF w
<1>2. OneEach(w)
  BY <1>1 DEF OneEach
<1> QED BY <1>2 DEF w

\* Copies of deeds that are no dig tell what these deeds leave.
LEMMA CopiesTell ==
    ASSUME TypeOK, NEW a \in 0..MaxLog, NEW b \in 0..MaxLog,
           NEW deeds \in {{"shuffle"}, {"dig"}, {"draw", "cast"}}, NoDigs
    PROVE  /\ Copies(a, b, deeds) \in Seq(Messages) /\ OneEach(Copies(a, b, deeds))
           /\ EagerFacts(Copies(a, b, deeds)) \subseteq FactsIn(a, b)
           /\ \A k \in Positions : k >= a /\ k < b /\ script[k] \in deeds =>
                FactOf(k) \in EagerFacts(Copies(a, b, deeds))
           /\ \A f \in EagerFacts(Copies(a, b, deeds)) :
                \E k \in Positions : k >= a /\ k < b /\ script[k] \in deeds /\ f = FactOf(k)
           /\ \A log : (\A f \in EagerFacts(Copies(a, b, deeds)), g \in log :
                          SameClass(f, g) => g.ac < f.ac) =>
                EagerInOrder(log, Copies(a, b, deeds))
<1> DEFINE S == {FactOf(k) : k \in {i \in a..b - 1 : script[i] \in deeds}}
           s == Copies(a, b, deeds)
<1>1. IsCopies(s, S)
  BY CopiesOfDeeds
<1>2. \A k \in a..b - 1 : k \in Positions /\ k >= a /\ k < b
  BY SyncAssumption DEF Positions
<1>3. \A k \in Positions : k >= a /\ k < b => k \in a..b - 1
  BY SyncAssumption DEF Positions
<1>4. deeds \subseteq DOMAIN KindOf
  BY DEF KindOf
<1>5. script \in [Positions -> Deeds]
  BY DEF TypeOK
<1>6. \A f \in S : \E k \in Positions : k >= a /\ k < b /\ script[k] \in deeds /\ f = FactOf(k)
  BY <1>2
<1>7. S \subseteq FactsIn(a, b) /\ FactsIn(a, b) \subseteq Facts
  BY <1>4, <1>5, <1>6, FactsBetween
<1>8. \A f \in S : f.kind # "dig"
  <2> SUFFICES ASSUME NEW f \in S PROVE f.kind # "dig"
    OBVIOUS
  <2>1. PICK k \in Positions : script[k] \in deeds /\ f = FactOf(k)
    BY <1>6
  <2>2. script[k] # "dig"
    BY <1>5 DEF NoDigs
  <2> QED BY <1>4, <1>5, <2>1, <2>2, FactOfDeed
<1>9. \A k \in Positions : k >= a /\ k < b /\ script[k] \in deeds => FactOf(k) \in S
  BY <1>3
<1> HIDE DEF S, s
<1>10. EagerFacts(s) = S
  BY <1>1, <1>7 DEF IsCopies, EagerFacts
<1>11. \A log : (\A f \in S, g \in log : SameClass(f, g) => g.ac < f.ac) => EagerInOrder(log, s)
  BY <1>1, <1>7, EagerOfCopies
<1>12. s \in Seq(Messages) /\ OneEach(s)
  BY <1>1, <1>7, <1>8 DEF IsCopies, OneEach
<1> QED BY <1>6, <1>7, <1>9, <1>10, <1>11, <1>12 DEF s

\* What goes ahead of a choice: shuffles, and before our own what they do not tell.
LEMMA EagerCopiesTell ==
    ASSUME TypeOK, NEW q \in golden.at..MaxLog, NoDigs
    PROVE  /\ EagerCopies(golden.at, q) \in Seq(Messages)
           /\ OneEach(EagerCopies(golden.at, q))
           /\ EagerFacts(EagerCopies(golden.at, q)) =
                {f \in FactsIn(golden.at, q) : f.kind = "reorder"}
           /\ \A log \in SUBSET Facts : (\A g \in log : g.kind = "reorder" => g.ac <= golden.at) =>
                EagerInOrder(log, EagerCopies(golden.at, q))
<1> DEFINE s == Copies(golden.at, q, {"shuffle"})  t == Copies(golden.at, q, {"dig"})
<1>1. /\ golden.at \in 0..MaxLog /\ q \in 0..MaxLog /\ script \in [Positions -> Deeds]
  BY SyncAssumption DEF TypeOK, Goldens
<1>2. /\ s \in Seq(Messages) /\ OneEach(s)
      /\ EagerFacts(s) \subseteq FactsIn(golden.at, q)
      /\ \A k \in Positions : k >= golden.at /\ k < q /\ script[k] = "shuffle" =>
           FactOf(k) \in EagerFacts(s)
      /\ \A f \in EagerFacts(s) :
           \E k \in Positions : k >= golden.at /\ k < q /\ script[k] = "shuffle" /\ f = FactOf(k)
      /\ \A log : (\A f \in EagerFacts(s), g \in log : SameClass(f, g) => g.ac < f.ac) =>
           EagerInOrder(log, s)
  BY <1>1, CopiesTell
<1>3. /\ t \in Seq(Messages) /\ OneEach(t)
      /\ \A f \in EagerFacts(t) :
           \E k \in Positions : k >= golden.at /\ k < q /\ script[k] = "dig" /\ f = FactOf(k)
      /\ \A log : (\A f \in EagerFacts(t), g \in log : SameClass(f, g) => g.ac < f.ac) =>
           EagerInOrder(log, t)
  BY <1>1, CopiesTell
<1>4. EagerCopies(golden.at, q) = s \o t
  BY DEF EagerCopies
<1> HIDE DEF s, t
<1>5. EagerFacts(t) = {}
  BY <1>1, <1>3 DEF NoDigs
<1>6. EagerFacts(s \o t) = EagerFacts(s)
  <2>1. EagerFacts(s \o t) = EagerFacts(s) \union EagerFacts(t)
    BY <1>2, <1>3, EagerFactsJoin
  <2>2. EagerFacts(s) \union EagerFacts(t) = EagerFacts(s) \union {}
    BY <1>5
  <2> QED BY <2>1, <2>2
<1>7. s \o t \in Seq(Messages) /\ OneEach(s \o t)
  BY <1>2, <1>3, OneEachJoin, Joined
<1>8. EagerFacts(s) = {f \in FactsIn(golden.at, q) : f.kind = "reorder"}
  <2>1. ASSUME NEW f \in EagerFacts(s) PROVE f.kind = "reorder" /\ golden.at < f.ac
    <3>1. PICK k \in Positions : k >= golden.at /\ script[k] = "shuffle" /\ f = FactOf(k)
      BY <1>2, <2>1
    <3>2. script[k] \in DOMAIN KindOf
      BY <3>1 DEF KindOf
    <3>3. f.kind = "reorder" /\ f.ac = k + 1
      BY <1>1, <3>1, <3>2, FactOfDeed
    <3> QED BY <1>1, <3>1, <3>3, SyncAssumption DEF Positions
  <2>2. ASSUME NEW f \in FactsIn(golden.at, q), f.kind = "reorder" PROVE f \in EagerFacts(s)
    <3>1. PICK k \in Positions : /\ k >= golden.at /\ k < q /\ script[k] \in DOMAIN KindOf
                                 /\ f = FactOf(k)
      BY <1>1, FactsBetween
    <3>2. script[k] = "shuffle"
      BY <1>1, <2>2, <3>1, FactOfDeed
    <3> QED BY <1>2, <3>1, <3>2
  <2> QED BY <1>2, <2>1, <2>2
<1>9. ASSUME NEW log \in SUBSET Facts, \A g \in log : g.kind = "reorder" => g.ac <= golden.at
      PROVE  EagerInOrder(log, s \o t)
  <2>1. ASSUME NEW f \in EagerFacts(s), NEW g \in log, SameClass(f, g) PROVE g.ac < f.ac
    <3>1. PICK k \in Positions : k >= golden.at /\ script[k] = "shuffle" /\ f = FactOf(k)
      BY <1>2, <2>1
    <3>2. script[k] \in DOMAIN KindOf
      BY <3>1 DEF KindOf
    <3>3. f.kind = "reorder" /\ f.ac = k + 1
      BY <1>1, <3>1, <3>2, FactOfDeed
    <3>4. g.kind = "reorder" /\ g.ac <= golden.at
      BY <1>9, <2>1, <3>3 DEF SameClass
    <3>5. g.ac \in Int
      BY <2>1, SyncAssumption DEF Facts
    <3> QED BY <1>1, <3>1, <3>3, <3>4, <3>5, SyncAssumption DEF Positions
  <2>2. EagerInOrder(log, s) /\ EagerInOrder(log, t)
    BY <1>2, <1>3, <1>5, <2>1
  <2> QED BY <1>2, <1>3, <1>5, <2>2, EagerOrderJoin
<1> QED BY <1>4, <1>6, <1>7, <1>8, <1>9

\* What goes ahead of a choice of ours besides: cards and candidates.
LEMMA EagerRevealsTell ==
    ASSUME TypeOK, NEW q \in Positions, NoDigs
    PROVE  /\ EagerReveals(golden.asked, q) \in Seq(Messages)
           /\ OneEach(EagerReveals(golden.asked, q))
           /\ Candidates(q) = {} =>
                EagerReveals(golden.asked, q) = Copies(golden.asked, q, {"draw", "cast"})
<1> DEFINE s == Copies(golden.asked, q, {"draw", "cast"})
           t == IF Candidates(q) = {} THEN <<>> ELSE <<Message("eager", 0, Candidates(q), {})>>
<1>1. golden.asked \in 0..MaxLog /\ q \in 0..MaxLog
  BY SyncAssumption DEF TypeOK, Goldens, Positions
<1>2. s \in Seq(Messages) /\ OneEach(s)
  BY <1>1, CopiesTell
<1>3. EagerReveals(golden.asked, q) = s \o t
  BY DEF EagerReveals
<1>4. t \in Seq(Messages) /\ OneEach(t)
  <2>1. CASE Candidates(q) = {}
    <3>1. t = <<>>
      BY <2>1
    <3> HIDE DEF t
    <3> QED BY <3>1 DEF OneEach
  <2>2. CASE Candidates(q) # {}
    <3> DEFINE f == [ac |-> q, kind |-> "candidates"]
               m == Message("eager", 0, {f}, {})
    <3>1. script[q] = "search" /\ Candidates(q) = {f} /\ f \in Facts /\ f.kind # "dig"
      BY <2>2, CandidatesOf
    <3>2. t = <<m>>
      BY <2>2, <3>1
    <3> HIDE DEF t, f
    <3>3. m \in Messages /\ m.facts = {f}
      <4>1. {f} \in SUBSET Facts /\ {} \in SUBSET Positions /\ 0 \in 0..MaxLog
        BY <1>1, <3>1, SyncAssumption
      <4> QED BY <4>1 DEF Message, Messages
    <3> HIDE DEF m
    <3> QED BY <3>1, <3>2, <3>3 DEF OneEach
  <2> QED BY <2>1, <2>2
<1>5. Candidates(q) = {} => s \o t = s
  <2> SUFFICES ASSUME Candidates(q) = {} PROVE s \o t = s
    OBVIOUS
  <2>1. t = <<>>
    OBVIOUS
  <2> HIDE DEF s, t
  <2> QED BY <1>2, <2>1
<1> HIDE DEF t
<1> QED BY <1>2, <1>3, <1>4, <1>5, OneEachJoin, Joined

\* Before our first choice nobody searches.
LEMMA NoSearchYet ==
    ASSUME TypeOK, Playable, NoDigs, NEW q \in 0..MaxLog,
           \A k \in 0..q - 1 : script[k] # "ours"
    PROVE  /\ AllFacts(q) = FactsIn(0, q)
           /\ q < MaxLog => Candidates(q) = {}
           /\ {f \in FactsIn(0, q) : f.kind # "reorder"} =
                EagerFacts(Copies(0, q, {"draw", "cast"}))
<1>1. script \in [Positions -> Deeds] /\ MaxLog \in Nat /\ 0 \in 0..MaxLog /\ q \in Int
  BY SyncAssumption DEF TypeOK
<1>2. \A k \in Positions : k <= q => script[k] \notin TheirSearches \union {"search"}
  <2> SUFFICES ASSUME NEW k \in Positions, k <= q, script[k] \in TheirSearches \union {"search"}
               PROVE  FALSE
    OBVIOUS
  <2>1. PICK j \in 0..k - 1 : script[j] = "ours"
    BY DEF Playable
  <2>2. j \in 0..q - 1
    BY <1>1 DEF Positions
  <2> QED BY <2>1, <2>2
<1>3. \A k \in Positions : k <= q => Candidates(k) = {}
  BY <1>2, CandidatesOf
<1>4. AllFacts(q) = FactsIn(0, q)
  BY <1>3 DEF AllFacts
<1>5. q < MaxLog => Candidates(q) = {}
  BY <1>1, <1>3 DEF Positions
<1> DEFINE E == EagerFacts(Copies(0, q, {"draw", "cast"}))
<1>6. /\ E \subseteq FactsIn(0, q)
      /\ \A k \in Positions : k >= 0 /\ k < q /\ script[k] \in {"draw", "cast"} => FactOf(k) \in E
      /\ \A f \in E : \E k \in Positions : k >= 0 /\ k < q /\ script[k] \in {"draw", "cast"}
                                           /\ f = FactOf(k)
  BY <1>1, CopiesTell
<1> HIDE DEF E
<1>7. ASSUME NEW f \in E PROVE f.kind # "reorder"
  <2>1. PICK k \in Positions : script[k] \in {"draw", "cast"} /\ f = FactOf(k)
    BY <1>6
  <2>2. script[k] \in DOMAIN KindOf /\ script[k] # "shuffle"
    BY <2>1 DEF KindOf
  <2> QED BY <1>1, <2>1, <2>2, FactOfDeed
<1>8. ASSUME NEW f \in FactsIn(0, q), f.kind # "reorder" PROVE f \in E
  <2>1. PICK k \in Positions : k >= 0 /\ k < q /\ script[k] \in DOMAIN KindOf /\ f = FactOf(k)
    BY <1>1, FactsBetween
  <2>2. script[k] # "shuffle"
    BY <1>1, <1>8, <2>1, FactOfDeed
  <2>3. script[k] # "find"
    BY <1>1, <1>2, <2>1 DEF TheirSearches, Positions
  <2>4. script[k] # "dig"
    BY <1>1 DEF NoDigs
  <2>5. script[k] \in {"draw", "cast"}
    BY <2>1, <2>2, <2>3, <2>4 DEF KindOf
  <2> QED BY <1>6, <2>1, <2>5
<1>9. {f \in FactsIn(0, q) : f.kind # "reorder"} = E
  BY <1>6, <1>7, <1>8
<1> QED BY <1>4, <1>5, <1>9 DEF E

\* The game reaches a choice before our first question was read.
LEMMA FirstQuestionKeepsLog ==
    ASSUME ChoicesInv, LogInv, NoDigs, GameReachesChoice, ~net.authoritative
    PROVE  EagerIsOne' /\ BeforeQuestions'
<1> USE DEF LogInv
<1> DEFINE q == NextChoice(golden.at)
<1>1. /\ script' = script /\ reader' = reader /\ net' = net /\ shadow' = shadow
      /\ wire' = wire \o Question(q) /\ ~golden.waiting /\ ~golden.over
      /\ golden' = [at |-> q, waiting |-> q < MaxLog, over |-> q = MaxLog,
                    asked |-> IF q < MaxLog /\ script[q] \in Theirs THEN golden.asked ELSE q]
  BY DEF GameReachesChoice
<1>2. /\ golden.at \in 0..MaxLog /\ golden.asked \in 0..MaxLog /\ MaxLog \in Nat
      /\ wire \in Seq(Messages) /\ script \in [Positions -> Deeds] /\ TypeOK
      /\ net.log \in SUBSET Facts
  <2>1. TypeOK /\ golden \in Goldens /\ net \in Nets
    BY DEF ChoicesInv, TypeOK
  <2> QED BY <2>1, SyncAssumption DEF TypeOK, Goldens, Nets
<1>3. /\ q \in golden.at..MaxLog
      /\ q = MaxLog \/ script[q] \in Ours \union Theirs
      /\ \A i \in golden.at..q - 1 : script[i] \notin Ours \union Theirs
  BY <1>2, NextChoiceIsNext
<1> HIDE DEF q
<1>4. /\ golden'.at = q /\ (golden'.over <=> q = MaxLog)
      /\ q < MaxLog /\ script[q] \in Theirs => golden'.asked = golden.asked
  BY <1>1
<1>5. ~Asking
  BY <1>1 DEF Asking
<1>6. /\ ~InWire /\ ~InReader /\ ~InLocal /\ ~Held
      /\ \A i \in DOMAIN wire : wire[i].type # "request"
      /\ ~InReader' /\ ~InLocal' /\ ~Held'
  BY <1>1, <1>5, NobodyAsks DEF ChoicesInv, InReader, InLocal, Held
<1>7. /\ Positions' = Positions
      /\ \A a, b : FactsIn(a, b)' = FactsIn(a, b)
      /\ \A k : AllFacts(k)' = AllFacts(k)
  BY <1>1, SameFacts
<1>8. /\ net.watermark = 0 /\ shadow.sent = {} /\ net.theirs = {}
      /\ EagerInOrder(net.log, wire) /\ Known \subseteq AllFacts(golden.at)
      /\ golden.asked = 0 /\ Known = {f \in FactsIn(0, golden.at) : f.kind = "reorder"}
      /\ Playable /\ OneEach(wire)
  BY <1>1, <1>6, Zenon DEF BeforeQuestions, EagerIsOne
<1>9. \A k \in 0..q - 1 : script[k] # "ours"
  <2> SUFFICES ASSUME NEW k \in 0..q - 1, script[k] = "ours" PROVE FALSE
    OBVIOUS
  <2>1. script[k] \in Ours
    BY DEF Ours
  <2>2. k \in 0..golden.at - 1
    BY <1>2, <1>3, <2>1
  <2>3. k \in shadow.sent
    BY <2>1, <2>2 DEF ChoicesInv, GoldenPlace
  <2> QED BY <1>8, <2>3
<1>10. q \in 0..MaxLog /\ 0 \in 0..MaxLog
  BY <1>2, <1>3
<1>11. /\ AllFacts(golden.at) \subseteq AllFacts(q)
       /\ FactsIn(0, q) = FactsIn(0, golden.at) \union FactsIn(golden.at, q)
       /\ AllFacts(q) = FactsIn(0, q) /\ (q < MaxLog => Candidates(q) = {})
       /\ {f \in FactsIn(0, q) : f.kind # "reorder"} = EagerFacts(Copies(0, q, {"draw", "cast"}))
  BY <1>2, <1>3, <1>8, <1>9, <1>10, FactsGrow, NoSearchYet
<1>12. EagerInOrder(net.log, wire)' = EagerInOrder(net.log, wire')
  BY <1>1 DEF EagerInOrder, SameClass
<1>13. Known' = net.log \union EagerFacts(wire')
  BY <1>1 DEF Known, EagerFacts, Facts
<1>14. EagerIsOne' = OneEach(wire')
  BY <1>1 DEF EagerIsOne, OneEach, Facts
<1> DEFINE s == EagerCopies(golden.at, q)
<1>15. /\ s \in Seq(Messages) /\ OneEach(s)
       /\ EagerFacts(s) = {f \in FactsIn(golden.at, q) : f.kind = "reorder"}
       /\ \A log \in SUBSET Facts : (\A g \in log : g.kind = "reorder" => g.ac <= golden.at) =>
            EagerInOrder(log, s)
  BY <1>2, <1>3, EagerCopiesTell
<1>16. \A f \in Known : f.kind = "reorder" /\ f.ac <= golden.at /\ f \in Facts
  BY <1>2, <1>8, FactsByPosition
<1>17. \A f \in FactsIn(golden.at, q) : f.kind = "reorder" => golden.at < f.ac
  <2> SUFFICES ASSUME NEW f \in FactsIn(golden.at, q), f.kind = "reorder" PROVE golden.at < f.ac
    OBVIOUS
  <2>1. PICK k \in Positions : k >= golden.at /\ script[k] \in DOMAIN KindOf /\ f = FactOf(k)
    BY <1>2, <1>10, FactsBetween
  <2>2. f.ac = k + 1
    BY <1>2, <2>1, FactOfDeed
  <2> QED BY <1>2, <2>1, <2>2 DEF Positions
<1> HIDE DEF s
<1>18. /\ wire \o s \in Seq(Messages) /\ OneEach(wire \o s)
       /\ EagerFacts(wire \o s) = EagerFacts(wire) \union EagerFacts(s)
       /\ EagerInOrder(net.log, wire \o s)
  <2>1. \A f \in EagerFacts(s), g \in EagerFacts(wire) : SameClass(f, g) => g.ac < f.ac
    <3> SUFFICES ASSUME NEW f \in EagerFacts(s), NEW g \in EagerFacts(wire) PROVE g.ac < f.ac
      OBVIOUS
    <3>1. golden.at < f.ac /\ f \in Facts
      <4>1. f \in FactsIn(golden.at, q) /\ f.kind = "reorder"
        BY <1>15
      <4> QED BY <1>2, <1>10, <1>17, <4>1, FactsBetween
    <3>2. g.ac <= golden.at /\ g \in Facts
      BY <1>16 DEF Known
    <3>3. f.ac \in Int /\ g.ac \in Int
      BY <3>1, <3>2 DEF Facts
    <3> QED BY <1>2, <3>1, <3>2, <3>3
  <2>2. EagerInOrder(net.log, s)
    BY <1>2, <1>15, <1>16 DEF Known
  <2> QED BY <1>2, <1>8, <1>15, <2>1, <2>2, Joined, OneEachJoin, EagerFactsJoin, EagerOrderJoin
<1>19. net.log \union EagerFacts(wire \o s) = {f \in FactsIn(0, q) : f.kind = "reorder"}
  <2>1. net.log \union EagerFacts(wire \o s) = Known \union EagerFacts(s)
    BY <1>18 DEF Known
  <2> QED BY <1>8, <1>11, <1>15, <2>1
<1>20. CASE q = MaxLog
  <2>1. Question(q) = <<Ending("ended")>> /\ Ending("ended") \in Messages /\ Ending("ended").type = "ended"
    BY <1>2, <1>20 DEF Question, Ending, Message, Messages
  <2>2. wire' = Append(wire, Ending("ended"))
    BY <1>1, <1>2, <2>1
  <2>3. Passes(wire, wire')
    BY <1>2, <2>1, <2>2, OtherMessagesPass
  <2>4. EagerFacts(wire') = EagerFacts(wire) /\ EagerInOrder(net.log, wire')
    BY <1>8, <2>3 DEF Passes
  <2>5. \A i \in DOMAIN wire' : wire'[i].type # "request"
    BY <1>6, <2>3 DEF Passes
  <2>6. EagerIsOne'
    <3>1. \A i \in DOMAIN wire' : wire'[i].type = "eager" => \E j \in DOMAIN wire : wire[j] = wire'[i]
      BY <2>3 DEF Passes
    <3> QED BY <1>8, <1>14, <3>1 DEF OneEach
  <2>7. Known' = Known
    BY <1>13, <2>4 DEF Known
  <2>8. ~InWire'
    BY <2>5 DEF InWire
  <2>9. Known \subseteq AllFacts(q)
    BY <1>8, <1>11
  <2> QED BY <1>1, <1>4, <1>6, <1>7, <1>8, <1>12, <1>20, <2>4, <2>5, <2>6, <2>7, <2>8, <2>9
          DEF BeforeQuestions
<1>21. CASE q < MaxLog /\ script[q] \in Theirs
  <2>1. wire' = wire \o s
    BY <1>1, <1>2, <1>3, <1>21 DEF Question, s
  <2>2. \A i \in DOMAIN wire' : wire'[i].type # "request"
    <3>1. NoRequest(Question(q))
      BY <1>2, <1>3, <1>21, QuestionShape
    <3>2. NoRequest(wire)
      BY <1>2, <1>6 DEF NoRequest, ChoicesInv, EagerTells
    <3> QED BY <1>1, <3>1, <3>2, NoRequestThenNone DEF NoRequest
  <2>3. ~InWire'
    BY <2>2 DEF InWire
  <2>4. Known' = {f \in FactsIn(0, q) : f.kind = "reorder"}
    BY <1>13, <1>19, <2>1
  <2>5. Known' \subseteq AllFacts(q)
    BY <1>11, <2>4
  <2>6. golden'.asked = 0
    BY <1>4, <1>8, <1>21
  <2> QED BY <1>1, <1>4, <1>6, <1>7, <1>8, <1>12, <1>14, <1>18, <2>1, <2>2, <2>3, <2>4, <2>5, <2>6
          DEF BeforeQuestions
<1>22. CASE q < MaxLog /\ script[q] \in Ours
  <2>1. PICK front, m :
          /\ wire' = Append(wire \o front, m)
          /\ NoRequest(front) /\ m \in Messages
          /\ front = EagerCopies(golden.at, q) \o EagerReveals(golden.asked, q)
          /\ m.type = "request"
          /\ m.facts = FactsIn(golden.asked, q) \union Candidates(q)
    <3>1. wire' = wire \o Question(q)
      BY <1>1
    <3>2. \E front, m :
            /\ NoRequest(front) /\ m \in Messages
            /\ front = EagerCopies(golden.at, q) \o EagerReveals(golden.asked, q)
            /\ wire \o Question(q) = Append(wire \o front, m)
            /\ m.type = "request"
            /\ m.facts = FactsIn(golden.asked, q) \union Candidates(q)
      <4>1. TypeOK /\ q \in golden.at..MaxLog /\ q < MaxLog /\ script[q] \in Ours
        BY <1>2, <1>3, <1>22
      <4> QED BY <4>1, QuestionShape, Zenon
    <3> QED BY <3>1, <3>2, Zenon
  <2> DEFINE t == EagerReveals(golden.asked, q)
  <2>2. q \in Positions
    BY <1>2, <1>10, <1>22 DEF Positions
  <2>3. /\ t \in Seq(Messages) /\ OneEach(t) /\ t = Copies(0, q, {"draw", "cast"})
    BY <1>2, <1>8, <1>11, <1>22, <2>2, EagerRevealsTell
  <2>4. EagerFacts(t) = {f \in FactsIn(0, q) : f.kind # "reorder"}
    BY <1>11, <2>3
  <2>5. \A log : (\A f \in EagerFacts(t), g \in log : SameClass(f, g) => g.ac < f.ac) =>
           EagerInOrder(log, t)
    BY <1>2, <1>10, <2>3, CopiesTell
  <2> HIDE DEF t
  <2> DEFINE w == (wire \o s) \o t
  <2>6. w = wire \o front
    BY <1>2, <1>15, <2>1, <2>3 DEF s, t
  <2>7. /\ w \in Seq(Messages) /\ OneEach(w) /\ EagerFacts(w) = EagerFacts(wire \o s) \union EagerFacts(t)
    BY <1>18, <2>3, Joined, OneEachJoin, EagerFactsJoin
  <2>8. EagerInOrder(net.log, w)
    <3>1. \A f \in EagerFacts(t) : f.kind # "reorder"
      BY <2>4
    <3>2. \A g \in EagerFacts(wire \o s) \union net.log : g.kind = "reorder"
      BY <1>19
    <3>3. EagerInOrder(net.log, t)
      BY <2>5, <3>1, <3>2 DEF SameClass
    <3>4. \A f \in EagerFacts(t), g \in EagerFacts(wire \o s) : SameClass(f, g) => g.ac < f.ac
      BY <3>1, <3>2 DEF SameClass
    <3> QED BY <1>18, <2>3, <3>3, <3>4, EagerOrderJoin
  <2>9. net.log \union EagerFacts(w) = AllFacts(q)
    <3>1. net.log \union EagerFacts(w) = (net.log \union EagerFacts(wire \o s)) \union EagerFacts(t)
      BY <2>7
    <3>2. net.log \union EagerFacts(w) =
            {f \in FactsIn(0, q) : f.kind = "reorder"} \union {f \in FactsIn(0, q) : f.kind # "reorder"}
      BY <1>19, <2>4, <3>1
    <3> QED BY <1>11, <3>2
  <2>10. wire' = Append(w, m)
    BY <2>1, <2>6
  <2>11. \A i \in DOMAIN w : w[i].type # "request"
    <3>1. NoRequest(wire)
      BY <1>2, <1>6 DEF NoRequest, ChoicesInv, EagerTells
    <3>2. NoRequest(wire \o front)
      BY <2>1, <3>1, NoRequestThenNone
    <3> QED BY <2>6, <3>2 DEF NoRequest
  <2>12. m.facts = AllFacts(q)
    BY <1>8, <1>11, <1>22, <2>1
  <2> HIDE DEF w
  <2>13. /\ wire' \in Seq(Messages)
         /\ \A i \in DOMAIN wire' : \/ i \in DOMAIN w /\ wire'[i] = w[i]
                                    \/ i = Len(w) + 1 /\ wire'[i] = m
         /\ Len(w) + 1 \in DOMAIN wire' /\ wire'[Len(w) + 1] = m
    <3>1. w \in Seq(Messages) /\ m \in Messages
      BY <2>1, <2>7
    <3>2. /\ Append(w, m) \in Seq(Messages)
          /\ \A i \in DOMAIN Append(w, m) : \/ i \in DOMAIN w /\ Append(w, m)[i] = w[i]
                                            \/ i = Len(w) + 1 /\ Append(w, m)[i] = m
          /\ Len(w) + 1 \in DOMAIN Append(w, m) /\ Append(w, m)[Len(w) + 1] = m
      BY <3>1, AddsLast
    <3> QED BY <2>10, <3>2, Zenon
  <2>14. EagerFacts(wire') = EagerFacts(w) /\ EagerInOrder(net.log, wire')
    <3>1. m.type # "eager"
      BY <2>1
    <3>2. EagerFacts(Append(w, m)) = EagerFacts(w) /\ EagerInOrder(net.log, Append(w, m))
      BY <2>1, <2>7, <2>8, <3>1, EagerAppend
    <3> QED BY <2>10, <3>2
  <2>15. OneEach(wire')
    BY <2>1, <2>7, <2>13 DEF OneEach
  <2>16. QuestionsLast(wire')
    <3>1. \A i \in DOMAIN wire' : wire'[i].type = "request" => i = Len(w) + 1
      BY <2>11, <2>13
    <3>2. \A j \in DOMAIN wire' : wire'[j].type = "eager" => j < Len(w) + 1
      <4>1. DOMAIN w = 1..Len(w) /\ Len(w) \in Nat
        BY <2>7
      <4> SUFFICES ASSUME NEW j \in DOMAIN wire', wire'[j].type = "eager" PROVE j < Len(w) + 1
        OBVIOUS
      <4>2. j \in DOMAIN w \/ wire'[j] = m
        BY <2>13
      <4>3. j \in DOMAIN w
        BY <2>1, <4>2
      <4> QED BY <4>1, <4>3
    <3> SUFFICES ASSUME NEW i \in DOMAIN wire', NEW j \in DOMAIN wire',
                        wire'[i].type = "request", wire'[j].type = "eager"
                 PROVE  j < i
      BY DEF QuestionsLast
    <3> QED BY <3>1, <3>2
  <2>17. InWire'
    BY <2>1, <2>13 DEF InWire
  <2>18. Known' = AllFacts(q)
    BY <1>13, <2>9, <2>14
  <2>19. \A i \in DOMAIN wire' : wire'[i].type = "request" => wire'[i].facts = AllFacts(q)
    BY <2>11, <2>12, <2>13
  <2>20. QuestionsLast(wire)' = QuestionsLast(wire')
    BY DEF QuestionsLast
  <2> QED BY <1>1, <1>4, <1>6, <1>7, <1>8, <1>12, <1>14, <2>14, <2>15, <2>16, <2>17, <2>18, <2>19,
             <2>20 DEF BeforeQuestions
<1>23. q = MaxLog \/ (q < MaxLog /\ script[q] \in Theirs) \/ (q < MaxLog /\ script[q] \in Ours)
  BY <1>2, <1>3
<1> QED BY <1>20, <1>21, <1>22, <1>23, Zenon

\* The game reaches a choice after our first question was read.
LEMMA LaterQuestionKeepsLog ==
    ASSUME ChoicesInv, LogInv, NoDigs, GameReachesChoice, net.authoritative
    PROVE  EagerIsOne' /\ AfterQuestions'
<1> USE DEF LogInv
<1> DEFINE q == NextChoice(golden.at)
<1>1. /\ script' = script /\ reader' = reader /\ net' = net /\ shadow' = shadow
      /\ wire' = wire \o Question(q) /\ ~golden.waiting /\ ~golden.over
      /\ golden' = [at |-> q, waiting |-> q < MaxLog, over |-> q = MaxLog,
                    asked |-> IF q < MaxLog /\ script[q] \in Theirs THEN golden.asked ELSE q]
  BY DEF GameReachesChoice
<1>2. /\ golden.at \in 0..MaxLog /\ MaxLog \in Nat /\ net.watermark \in 0..MaxLog
      /\ wire \in Seq(Messages) /\ script \in [Positions -> Deeds] /\ TypeOK
  <2>1. TypeOK /\ golden \in Goldens /\ net \in Nets
    BY DEF ChoicesInv, TypeOK
  <2> QED BY <2>1, SyncAssumption DEF TypeOK, Goldens, Nets
<1>3. /\ q \in golden.at..MaxLog
      /\ q = MaxLog \/ script[q] \in Ours \union Theirs
      /\ \A i \in golden.at..q - 1 : script[i] \notin Ours \union Theirs
  BY <1>2, NextChoiceIsNext
<1> HIDE DEF q
<1>4. /\ golden'.at = q /\ (golden'.over <=> q = MaxLog) /\ (golden'.waiting <=> q < MaxLog)
      /\ q < MaxLog /\ script[q] \in Theirs => golden'.asked = golden.asked
  BY <1>1
<1>5. ~Asking
  BY <1>1 DEF Asking
<1>6. /\ ~InWire /\ ~InReader /\ ~InLocal /\ ~Held
      /\ \A i \in DOMAIN wire : wire[i].type # "request"
      /\ ~InReader' /\ ~InLocal' /\ ~Held'
  BY <1>1, <1>5, NobodyAsks DEF ChoicesInv, InReader, InLocal, Held
<1>7. /\ Positions' = Positions
      /\ \A k : AllFacts(k)' = AllFacts(k)
  BY <1>1, SameFacts
<1>8. /\ net.watermark < MaxLog /\ script[net.watermark] \in Ours
      /\ net.watermark < golden.at
      /\ \A k \in shadow.sent : k <= net.watermark
      /\ net.log = AllFacts(net.watermark)
      /\ golden.asked = net.watermark
      /\ OneEach(wire)
  BY <1>1, <1>6, Zenon DEF AfterQuestions, EagerIsOne
<1>9. net.watermark < q /\ net.watermark <= q /\ q \in 0..MaxLog /\ q \in net.watermark..MaxLog
  BY <1>2, <1>3, <1>8
<1>10. \A k \in net.watermark + 1..q - 1 : script[k] \notin Ours
  <2> SUFFICES ASSUME NEW k \in net.watermark + 1..q - 1, script[k] \in Ours PROVE FALSE
    OBVIOUS
  <2>1. k \in 0..golden.at - 1
    BY <1>2, <1>3, <1>9
  <2>2. k \in shadow.sent
    BY <2>1 DEF ChoicesInv, GoldenPlace
  <2>3. k <= net.watermark
    BY <1>8, <2>2
  <2> QED BY <1>2, <2>3
<1>11. EagerIsOne' = OneEach(wire')
  BY <1>1 DEF EagerIsOne, OneEach, Facts
<1> DEFINE s == EagerCopies(golden.at, q)
<1>12. s \in Seq(Messages) /\ OneEach(s)
  BY <1>2, <1>3, EagerCopiesTell
<1> HIDE DEF s
<1>13. wire \o s \in Seq(Messages) /\ OneEach(wire \o s)
  BY <1>2, <1>8, <1>12, Joined, OneEachJoin
<1>14. NoRequest(wire)
  BY <1>2, <1>6 DEF NoRequest, ChoicesInv, EagerTells
<1>15. CASE q = MaxLog \/ script[q] \in Theirs
  <2>1. NoRequest(wire')
    BY <1>1, <1>2, <1>3, <1>14, <1>15, QuestionShape, NoRequestThenNone
  <2>2. \A i \in DOMAIN wire' : wire'[i].type # "request"
    BY <2>1 DEF NoRequest
  <2>3. ~InWire'
    BY <2>2 DEF InWire
  <2>4. OneEach(wire')
    <3>1. CASE q = MaxLog
      <4>1. Question(q) = <<Ending("ended")>> /\ Ending("ended") \in Messages
            /\ Ending("ended").type = "ended"
        BY <1>2, <3>1 DEF Question, Ending, Message, Messages
      <4>2. wire' = Append(wire, Ending("ended"))
        BY <1>1, <1>2, <4>1
      <4>3. Passes(wire, wire')
        BY <1>2, <4>1, <4>2, OtherMessagesPass
      <4>4. \A i \in DOMAIN wire' : wire'[i].type = "eager" => \E j \in DOMAIN wire : wire[j] = wire'[i]
        BY <4>3 DEF Passes
      <4> QED BY <1>8, <4>4 DEF OneEach
    <3>2. CASE q # MaxLog
      <4>1. wire' = wire \o s
        BY <1>1, <1>15, <3>2 DEF Question, s
      <4> QED BY <1>13, <4>1
    <3> QED BY <3>1, <3>2
  <2>5. golden'.over \/ golden'.asked = net.watermark
    BY <1>2, <1>3, <1>4, <1>8, <1>15
  <2> QED BY <1>1, <1>4, <1>6, <1>7, <1>8, <1>9, <1>11, <2>2, <2>3, <2>4, <2>5 DEF AfterQuestions
<1>16. CASE q < MaxLog /\ script[q] \in Ours
  <2>1. PICK front, m :
          /\ wire' = Append(wire \o front, m)
          /\ NoRequest(front) /\ m \in Messages
          /\ front = EagerCopies(golden.at, q) \o EagerReveals(golden.asked, q)
          /\ m.type = "request"
          /\ m.facts = FactsIn(golden.asked, q) \union Candidates(q)
    <3>1. wire' = wire \o Question(q)
      BY <1>1
    <3>2. \E front, m :
            /\ NoRequest(front) /\ m \in Messages
            /\ front = EagerCopies(golden.at, q) \o EagerReveals(golden.asked, q)
            /\ wire \o Question(q) = Append(wire \o front, m)
            /\ m.type = "request"
            /\ m.facts = FactsIn(golden.asked, q) \union Candidates(q)
      <4>1. TypeOK /\ q \in golden.at..MaxLog /\ q < MaxLog /\ script[q] \in Ours
        BY <1>2, <1>3, <1>16
      <4> QED BY <4>1, QuestionShape, Zenon
    <3> QED BY <3>1, <3>2, Zenon
  <2> DEFINE t == EagerReveals(golden.asked, q)
  <2>2. q \in Positions
    BY <1>2, <1>9, <1>16 DEF Positions
  <2>3. t \in Seq(Messages) /\ OneEach(t)
    BY <1>2, <2>2, EagerRevealsTell
  <2> HIDE DEF t
  <2> DEFINE w == (wire \o s) \o t
  <2>4. w = wire \o front
    <3>1. wire \in Seq(Messages)
      BY <1>2
    <3>2. s \in Seq(Messages) /\ t \in Seq(Messages)
      BY <1>12, <2>3
    <3>3. (wire \o s) \o t = wire \o (s \o t)
      BY <3>1, <3>2, ConcatAssociative
    <3>4. front = s \o t
      BY <2>1, Zenon DEF s, t
    <3> QED BY <3>3, <3>4
  <2>5. w \in Seq(Messages) /\ OneEach(w)
    BY <1>13, <2>3, Joined, OneEachJoin
  <2>6. \A i \in DOMAIN w : w[i].type # "request"
    <3>1. NoRequest(wire \o front)
      BY <1>14, <2>1, NoRequestThenNone
    <3> QED BY <2>4, <3>1 DEF NoRequest
  <2>7. wire' = Append(w, m)
    BY <2>1, <2>4
  <2> HIDE DEF w
  <2>8. /\ \A i \in DOMAIN wire' : \/ i \in DOMAIN w /\ wire'[i] = w[i]
                                   \/ i = Len(w) + 1 /\ wire'[i] = m
        /\ Len(w) + 1 \in DOMAIN wire' /\ wire'[Len(w) + 1] = m
    <3>1. w \in Seq(Messages) /\ m \in Messages
      BY <2>1, <2>5
    <3>2. /\ \A i \in DOMAIN Append(w, m) : \/ i \in DOMAIN w /\ Append(w, m)[i] = w[i]
                                            \/ i = Len(w) + 1 /\ Append(w, m)[i] = m
          /\ Len(w) + 1 \in DOMAIN Append(w, m) /\ Append(w, m)[Len(w) + 1] = m
      BY <3>1, AddsLast
    <3> QED BY <2>7, <3>2, Zenon
  <2>9. OneEach(wire')
    <3>1. m.type # "eager"
      BY <2>1
    <3>2. \A i \in DOMAIN wire' : wire'[i].type = "eager" => i \in DOMAIN w /\ wire'[i] = w[i]
      BY <2>8, <3>1
    <3> QED BY <2>5, <3>2 DEF OneEach
  <2>10. InWire'
    BY <2>1, <2>8 DEF InWire
  <2>11. /\ AllFacts(q) = AllFacts(net.watermark) \union m.facts
         /\ \A f \in m.facts : net.watermark < f.ac
    <3>1. /\ AllFacts(q) = AllFacts(net.watermark) \union FactsIn(net.watermark, q) \union Candidates(q)
          /\ \A f \in FactsIn(net.watermark, q) \union Candidates(q) : net.watermark < f.ac
      BY <1>2, <1>8, <1>9, <1>10, <1>16, FactsGrow
    <3>2. m.facts = FactsIn(net.watermark, q) \union Candidates(q)
      BY <1>8, <2>1
    <3> QED BY <3>1, <3>2
  <2>12. \A i \in DOMAIN wire' : wire'[i].type = "request" => wire'[i].facts = m.facts
    BY <2>6, <2>8
  <2>13. \A i \in DOMAIN wire' : wire'[i].type = "request" =>
           /\ AllFacts(q) = AllFacts(net.watermark) \union wire'[i].facts
           /\ \A f \in wire'[i].facts : net.watermark < f.ac
    BY <2>11, <2>12
  <2> QED BY <1>1, <1>4, <1>6, <1>7, <1>8, <1>9, <1>11, <1>16, <2>9, <2>10, <2>13 DEF AfterQuestions
<1>17. q = MaxLog \/ (q < MaxLog /\ script[q] \in Theirs) \/ (q < MaxLog /\ script[q] \in Ours)
  BY <1>2, <1>3
<1> QED BY <1>15, <1>16, <1>17, Zenon

\* The server reaches its next choice: what it sends completes the log.
LEMMA ReachingChoiceKeepsLog ==
    ASSUME ChoicesInv, LogInv, NoDigs, GameReachesChoice
    PROVE  LogInv'
<1>1. script' = script /\ net' = net
  BY DEF GameReachesChoice
<1>2. Playable'
  BY <1>1, SameFacts DEF LogInv
<1>3. CASE net.authoritative
  <2>1. BeforeQuestions'
    BY <1>1, <1>3 DEF BeforeQuestions
  <2> QED BY <1>2, <1>3, <2>1, LaterQuestionKeepsLog DEF LogInv
<1>4. CASE ~net.authoritative
  <2>1. AfterQuestions'
    BY <1>1, <1>4 DEF AfterQuestions
  <2> QED BY <1>2, <1>4, <2>1, FirstQuestionKeepsLog DEF LogInv
<1> QED BY <1>3, <1>4

-----------------------------------------------------------------------------
(* The log: what the reader files.                                         *)

\* The reader accepts a fact that is later than all it has of the class.
LEMMA AcceptsNext ==
    ASSUME TypeOK, CursorsBehind, NEW f \in Facts,
           \A g \in net.log : SameClass(f, g) => g.ac < f.ac
    PROVE  Accepts(f)
<1>1. net \in Nets
  BY DEF TypeOK
<1>2. /\ net.log \subseteq Facts /\ net.revealCursor \in 0..MaxLog /\ net.reorderCursor \in 0..MaxLog
      /\ MaxLog \in Nat
  BY <1>1, SyncAssumption DEF Nets
<1>3. f.ac \in 0..MaxLog /\ \A g \in net.log : g.ac \in 0..MaxLog
  BY <1>2 DEF Facts
<1>4. CASE f.kind = "reorder"
  <2>1. \A g \in Reorders : g \in net.log /\ g.ac < f.ac
    BY <1>4 DEF Reorders, SameClass
  <2>2. net.reorderCursor <= f.ac
    <3>1. CASE net.reorderCursor = 0
      BY <1>2, <1>3, <3>1
    <3>2. CASE net.reorderCursor # 0
      <4>1. PICK g \in Reorders : net.reorderCursor <= g.ac
        BY <3>2 DEF CursorsBehind
      <4> QED BY <1>2, <1>3, <2>1, <4>1
    <3> QED BY <3>1, <3>2
  <2>3. \A g \in Reorders : g.ac # f.ac
    BY <1>2, <1>3, <2>1
  <2> QED BY <1>2, <1>3, <1>4, <2>2, <2>3 DEF Accepts
<1>5. CASE f.kind # "reorder"
  <2>1. \A g \in Reveals : g \in net.log /\ g.ac < f.ac
    BY <1>5 DEF Reveals, Reorders, SameClass
  <2>2. net.revealCursor <= f.ac
    <3>1. CASE net.revealCursor = 0
      BY <1>2, <1>3, <3>1
    <3>2. CASE net.revealCursor # 0
      <4>1. PICK g \in Reveals : net.revealCursor <= g.ac
        BY <3>2 DEF CursorsBehind
      <4> QED BY <1>2, <1>3, <2>1, <4>1
    <3> QED BY <3>1, <3>2
  <2>3. \A g \in Reveals : g.ac # f.ac
    BY <1>2, <1>3, <2>1
  <2> QED BY <1>2, <1>3, <1>5, <2>2, <2>3 DEF Accepts
<1> QED BY <1>4, <1>5

\* What the reader does with a message that came ahead of the buffer: the first
\* question makes them superfluous.
LEMMA ReadEagerFiles ==
    ASSUME ChoicesInv, LogInv, CursorsBehind, ReadEager
    PROVE  /\ wire # <<>> /\ Head(wire).type = "eager" /\ wire' = Tail(wire)
           /\ script' = script /\ golden' = golden /\ shadow' = shadow /\ reader' = reader
           /\ \/ net.authoritative /\ net' = net
              \/ /\ ~net.authoritative
                 /\ \E f \in AllFacts(golden.at) :
                      /\ Head(wire).facts = {f}
                      /\ \A g \in net.log : SameClass(f, g) => g.ac < f.ac
                      /\ net' = [net EXCEPT !.log = net.log \union {f}]
<1> USE DEF LogInv
<1>1. /\ wire # <<>> /\ Head(wire).type = "eager" /\ wire' = Tail(wire)
      /\ script' = script /\ golden' = golden /\ shadow' = shadow
  BY DEF ReadEager, Receives
<1>2. /\ wire \in Seq(Messages) /\ TypeOK /\ script \in [Positions -> Deeds]
      /\ golden.at \in 0..MaxLog
  <2>1. TypeOK /\ golden \in Goldens
    BY DEF ChoicesInv, TypeOK
  <2> QED BY <2>1 DEF TypeOK, Goldens
<1>3. Head(wire) = wire[1] /\ 1 \in DOMAIN wire
  BY <1>1, <1>2, TakesFirst
<1>4. PICK f \in Facts : Head(wire).facts = {f} /\ f.kind # "dig"
  BY <1>1, <1>3 DEF EagerIsOne, OneEach
<1>5. (CHOOSE g \in Head(wire).facts : TRUE) = f
  BY <1>4
<1>6. IF net.authoritative THEN reader' = reader /\ net' = net
      ELSE push_state_sync_at(f, reader)
  BY <1>4, <1>5 DEF ReadEager
<1>7. CASE net.authoritative
  BY <1>1, <1>6, <1>7
<1>8. CASE ~net.authoritative
  <2>1. EagerInOrder(net.log, wire) /\ Known \subseteq AllFacts(golden.at)
    BY <1>8, Zenon DEF BeforeQuestions
  <2>2. f \in AllFacts(golden.at)
    BY <1>1, <1>3, <1>4, <2>1 DEF Known, EagerFacts
  <2>3. \A g \in net.log : SameClass(f, g) => g.ac < f.ac
    BY <1>1, <1>3, <1>4, <2>1 DEF EagerInOrder
  <2>4. Accepts(f)
    BY <1>2, <2>3, AcceptsNext
  <2>5. reader' = reader /\ net' = [net EXCEPT !.log = net.log \union {f}]
    BY <1>6, <1>8, <2>4 DEF push_state_sync_at
  <2> QED BY <1>1, <1>4, <1>8, <2>2, <2>3, <2>5
<1> QED BY <1>7, <1>8

\* The fact that the reader pushes is the earliest that is left, and is later than the log.
LEMMA PushFactFiles ==
    ASSUME ChoicesInv, LogInv, CursorsBehind, PushFact
    PROVE  /\ InReader /\ net.authoritative
           /\ script' = script /\ golden' = golden /\ shadow' = shadow /\ wire' = wire
           /\ \E f \in AllFacts(net.watermark) :
                /\ f \in reader.msg.facts /\ \A g \in reader.msg.facts : f.ac <= g.ac
                /\ f \in net.log \/ \A g \in net.log : SameClass(f, g) => g.ac < f.ac
                /\ net' = [net EXCEPT !.log = net.log \union {f}]
                /\ reader' = [reader EXCEPT !.msg.facts = reader.msg.facts \ {f}]
<1> USE DEF LogInv
<1>1. /\ InReader
      /\ script' = script /\ golden' = golden /\ shadow' = shadow /\ wire' = wire
  BY DEF PushFact, InReader
<1>2. net.authoritative
  BY <1>1, Zenon DEF BeforeQuestions
<1>3. /\ TypeOK /\ script \in [Positions -> Deeds] /\ net.watermark \in 0..MaxLog
      /\ MaxLog \in Nat /\ net.log \subseteq Facts
  <2>1. TypeOK /\ net \in Nets
    BY DEF ChoicesInv, TypeOK
  <2> QED BY <2>1, SyncAssumption DEF TypeOK, Nets
<1>4. PICK f \in reader.msg.facts :
        /\ \A g \in reader.msg.facts : f.ac <= g.ac
        /\ push_state_sync_at(f, [reader EXCEPT !.msg.facts = reader.msg.facts \ {f}])
  BY DEF PushFact
<1>5. /\ net.log \union reader.msg.facts = AllFacts(net.watermark)
      /\ \A h \in reader.msg.facts \ net.log : \A g \in net.log : g.ac <= h.ac
  BY <1>1, <1>2, Zenon DEF AfterQuestions
<1>6. f \in AllFacts(net.watermark) /\ f \in Facts
  BY <1>3, <1>5, FactsByPosition
<1>7. f \in net.log \/ \A g \in net.log : SameClass(f, g) => g.ac < f.ac
  <2> SUFFICES ASSUME f \notin net.log, NEW g \in net.log, SameClass(f, g) PROVE g.ac < f.ac
    OBVIOUS
  <2>1. g.ac <= f.ac
    BY <1>5
  <2>2. g \in AllFacts(net.watermark) /\ g # f
    BY <1>5
  <2>3. g.ac # f.ac
    BY <1>3, <1>6, <2>2, FactsByPosition
  <2>4. g.ac \in Int /\ f.ac \in Int
    BY <1>3, <1>6 DEF Facts
  <2> QED BY <2>1, <2>3, <2>4
<1>8. Accepts(f)
  <2>1. CASE f \in net.log
    BY <2>1 DEF Accepts, Reveals, Reorders
  <2>2. CASE f \notin net.log
    BY <1>3, <1>6, <1>7, <2>2, AcceptsNext
  <2> QED BY <2>1, <2>2
<1>9. /\ net' = [net EXCEPT !.log = net.log \union {f}]
      /\ reader' = [reader EXCEPT !.msg.facts = reader.msg.facts \ {f}]
  BY <1>4, <1>8 DEF push_state_sync_at
<1> QED BY <1>1, <1>2, <1>4, <1>6, <1>7, <1>9

\* The reader files an eager message, or drops it when questions are authoritative.
LEMMA ReadEagerKeepsLog ==
    ASSUME ChoicesInv, LogInv, CursorsBehind, ReadEager
    PROVE  LogInv'
<1> USE DEF LogInv
<1>1. /\ wire # <<>> /\ Head(wire).type = "eager" /\ wire' = Tail(wire)
      /\ script' = script /\ golden' = golden /\ shadow' = shadow /\ reader' = reader
  BY ReadEagerFiles
<1>2. wire \in Seq(Messages) /\ net \in Nets
  BY DEF ChoicesInv, TypeOK
<1>3. /\ \A i \in DOMAIN wire' : i \in Nat /\ i + 1 \in DOMAIN wire /\ wire'[i] = wire[i + 1]
      /\ \A i \in DOMAIN wire : i # 1 => i - 1 \in DOMAIN wire' /\ wire'[i - 1] = wire[i]
      /\ Head(wire) = wire[1] /\ 1 \in DOMAIN wire
  BY <1>1, <1>2, TakesFirst
<1>4. /\ Playable' /\ (\A k : AllFacts(k)' = AllFacts(k)) /\ (\A a, b : FactsIn(a, b)' = FactsIn(a, b))
      /\ Positions' = Positions
  BY <1>1, SameFacts
<1>5. EagerIsOne'
  <2>1. EagerIsOne' = OneEach(wire')
    BY DEF EagerIsOne, OneEach, Facts
  <2>2. OneEach(wire')
    BY <1>3 DEF EagerIsOne, OneEach
  <2> QED BY <2>1, <2>2
<1>6. InWire' <=> InWire
  <2>1. InWire => InWire'
    <3> SUFFICES ASSUME NEW i \in DOMAIN wire, wire[i].type = "request" PROVE InWire'
      BY DEF InWire
    <3>1. i # 1
      BY <1>1, <1>3
    <3> QED BY <1>3, <3>1 DEF InWire
  <2>2. InWire' => InWire
    BY <1>3 DEF InWire
  <2> QED BY <2>1, <2>2
<1>7. /\ InReader' = InReader /\ Held' = Held
  BY <1>1 DEF InReader, Held
<1>8. CASE net.authoritative
  <2>1. net' = net
    BY <1>8, ReadEagerFiles
  <2>2. InLocal' = InLocal
    BY <2>1 DEF InLocal
  <2>3. /\ net.watermark < MaxLog /\ script[net.watermark] \in Ours
        /\ net.watermark <= golden.at
        /\ golden.waiting \/ golden.over \/ net.watermark < golden.at
        /\ \A k \in shadow.sent : k <= net.watermark
        /\ ~InReader => net.log = AllFacts(net.watermark)
        /\ InReader =>
             /\ net.log \union reader.msg.facts = AllFacts(net.watermark)
             /\ \A f \in reader.msg.facts \ net.log :
                  /\ \A g \in net.log : g.ac <= f.ac
                  /\ \A k \in shadow.sent : k < f.ac
        /\ InReader \/ InLocal \/ Held => net.watermark = golden.at
        /\ ~InWire /\ ~golden.over => golden.asked = net.watermark
    BY <1>8, Zenon DEF AfterQuestions
  <2>4. \A i \in DOMAIN wire : wire[i].type = "request" =>
          /\ net.watermark < golden.at
          /\ AllFacts(golden.at) = AllFacts(net.watermark) \union wire[i].facts
          /\ \A f \in wire[i].facts : net.watermark < f.ac
    BY <1>8, Zenon DEF AfterQuestions
  <2>5. \A i \in DOMAIN wire' : wire'[i].type = "request" =>
          /\ net.watermark < golden.at
          /\ AllFacts(golden.at) = AllFacts(net.watermark) \union wire'[i].facts
          /\ \A f \in wire'[i].facts : net.watermark < f.ac
    BY <1>3, <2>4
  <2>6. AfterQuestions'
    BY <1>1, <1>4, <1>6, <1>7, <2>1, <2>2, <2>3, <2>5 DEF AfterQuestions
  <2> QED BY <1>4, <1>5, <1>8, <2>1, <2>6 DEF BeforeQuestions
<1>9. CASE ~net.authoritative
  <2>1. PICK f \in AllFacts(golden.at) :
          Head(wire).facts = {f} /\ net' = [net EXCEPT !.log = net.log \union {f}]
    BY <1>9, ReadEagerFiles
  <2>2. /\ net'.log = net.log \union {f} /\ net'.authoritative = net.authoritative
        /\ net'.watermark = net.watermark /\ net'.theirs = net.theirs /\ net'.local = net.local
    BY <1>2, <2>1 DEF Nets
  <2>3. InLocal' = InLocal
    BY <2>2 DEF InLocal
  <2>4. /\ net.watermark = 0 /\ ~InReader /\ ~InLocal /\ ~Held
        /\ shadow.sent = {} /\ net.theirs = {}
        /\ EagerInOrder(net.log, wire)
        /\ Known \subseteq AllFacts(golden.at)
        /\ ~InWire /\ ~golden.over =>
             golden.asked = 0 /\ Known = {g \in FactsIn(0, golden.at) : g.kind = "reorder"}
        /\ InWire => Known = AllFacts(golden.at) /\ QuestionsLast(wire)
        /\ \A i \in DOMAIN wire : wire[i].type = "request" => wire[i].facts = AllFacts(golden.at)
    BY <1>9, Zenon DEF BeforeQuestions
  <2>5. /\ EagerFacts(wire) = {f} \union EagerFacts(wire')
        /\ EagerInOrder(net.log \union {f}, wire')
    BY <1>1, <1>2, <2>1, <2>4, EagerTail
  <2>6. Known' = Known
    <3>1. Known' = net'.log \union EagerFacts(wire')
      BY DEF Known, EagerFacts, Facts
    <3> QED BY <2>2, <2>5, <3>1 DEF Known
  <2>7. EagerInOrder(net.log, wire)'
    <3>1. EagerInOrder(net.log, wire)' = EagerInOrder(net'.log, wire')
      BY DEF EagerInOrder, SameClass
    <3> QED BY <2>2, <2>5, <3>1
  <2>8. QuestionsLast(wire) => QuestionsLast(wire)'
    <3> SUFFICES ASSUME QuestionsLast(wire), NEW i \in DOMAIN wire', NEW j \in DOMAIN wire',
                        wire'[i].type = "request", wire'[j].type = "eager"
                 PROVE  j < i
      BY DEF QuestionsLast
    <3>1. i \in Nat /\ j \in Nat /\ i + 1 \in DOMAIN wire /\ j + 1 \in DOMAIN wire
          /\ wire[i + 1].type = "request" /\ wire[j + 1].type = "eager"
      BY <1>3
    <3>2. j + 1 < i + 1
      BY <3>1 DEF QuestionsLast
    <3> QED BY <3>1, <3>2
  <2>9. \A i \in DOMAIN wire' : wire'[i].type = "request" => wire'[i].facts = AllFacts(golden.at)
    BY <1>3, <2>4
  <2>10. BeforeQuestions'
    BY <1>1, <1>4, <1>6, <1>7, <2>2, <2>3, <2>4, <2>6, <2>7, <2>8, <2>9 DEF BeforeQuestions
  <2> QED BY <1>4, <1>5, <1>9, <2>2, <2>10 DEF AfterQuestions
<1> QED BY <1>8, <1>9

\* A question is read: it brings the facts up to it.
LEMMA ReadRequestKeepsLog ==
    ASSUME ChoicesInv, LogInv, ReadRequest
    PROVE  LogInv' /\ net'.watermark = golden.at /\ net.watermark <= golden.at
<1> USE DEF LogInv
<1> DEFINE m == Head(wire)
<1>1. /\ script' = script /\ golden' = golden /\ shadow' = shadow /\ wire' = Tail(wire)
      /\ reader.phase = "idle" /\ wire # <<>> /\ m.type = "request"
      /\ reader' = [phase |-> "serving", msg |-> m]
      /\ net' = [net EXCEPT !.authoritative = TRUE, !.watermark = Max({net.watermark, m.ac})]
  BY DEF ReadRequest, Receives
<1>2. /\ wire \in Seq(Messages) /\ m \in Messages /\ m = wire[1] /\ 1 \in DOMAIN wire
      /\ \A i \in DOMAIN wire' : i \in Nat /\ i + 1 \in DOMAIN wire /\ wire'[i] = wire[i + 1]
      /\ DOMAIN wire \subseteq Nat \ {0} /\ wire' \in Seq(Messages)
  <2>1. wire \in Seq(Messages)
    BY DEF ChoicesInv, TypeOK
  <2> QED BY <1>1, <2>1, TakesFirst
<1> HIDE DEF m
<1>3. /\ golden.at \in 0..MaxLog /\ MaxLog \in Nat /\ net.watermark \in 0..MaxLog
      /\ script \in [Positions -> Deeds] /\ net \in Nets /\ shadow.sent \subseteq Nat
      /\ net.log \subseteq Facts
  <2>1. golden \in Goldens /\ net \in Nets /\ shadow \in Shadows /\ script \in [Positions -> Deeds]
    BY DEF ChoicesInv, TypeOK
  <2> QED BY <2>1, SyncAssumption DEF Goldens, Nets, Shadows, Positions
<1>4. Asking /\ m.ac = golden.at /\ InWire /\ ~InReader /\ ~InLocal /\ ~Held
  BY <1>1, <1>2 DEF ChoicesInv, OneQuestion, InWire
<1>5. golden.waiting /\ script[golden.at] \in Ours /\ golden.at < MaxLog /\ golden.asked = golden.at
  BY <1>4 DEF Asking, ChoicesInv, GoldenPlace
<1>6. net.watermark <= golden.at
  <2>1. CASE net.authoritative
    BY <2>1, Zenon DEF AfterQuestions
  <2>2. CASE ~net.authoritative
    <3>1. net.watermark = 0
      BY <2>2, Zenon DEF BeforeQuestions
    <3> QED BY <1>3, <3>1
  <2> QED BY <2>1, <2>2
<1>7. net'.watermark = golden.at
  <2>1. {net.watermark, golden.at} \subseteq 0..MaxLog /\ {net.watermark, golden.at} # {}
    BY <1>3
  <2>2. /\ Max({net.watermark, golden.at}) \in {net.watermark, golden.at}
        /\ \A x \in {net.watermark, golden.at} : x <= Max({net.watermark, golden.at})
    BY <1>3, <2>1, LeastAndGreatest
  <2>3. Max({net.watermark, golden.at}) = golden.at
    BY <1>3, <1>6, <2>2
  <2> QED BY <1>1, <1>3, <1>4, <2>3 DEF Nets
<1>8. /\ net'.authoritative /\ net'.log = net.log /\ net'.local = net.local
  BY <1>1, <1>3 DEF Nets
<1>9. /\ Playable' /\ (\A k : AllFacts(k)' = AllFacts(k)) /\ Positions' = Positions
  BY <1>1, SameFacts
<1>10. EagerIsOne'
  <2>1. EagerIsOne' = OneEach(wire')
    BY DEF EagerIsOne, OneEach, Facts
  <2>2. OneEach(wire')
    BY <1>2 DEF EagerIsOne, OneEach
  <2> QED BY <2>1, <2>2
<1>11. \A i \in DOMAIN wire' : wire'[i].type # "request"
  <2> SUFFICES ASSUME NEW i \in DOMAIN wire', wire'[i].type = "request" PROVE FALSE
    OBVIOUS
  <2>1. i + 1 = 1
    BY <1>1, <1>2 DEF ChoicesInv, OneQuestion
  <2> QED BY <1>2, <2>1
<1>12. /\ reader'.msg.facts = m.facts /\ InReader' /\ ~InWire'
       /\ InLocal' = InLocal /\ Held' = Held
  BY <1>1, <1>8, <1>11 DEF InReader, InWire, InLocal, Held
<1>13. /\ net.log \union m.facts = AllFacts(golden.at)
       /\ \A f \in m.facts \ net.log :
            /\ \A g \in net.log : g.ac <= f.ac
            /\ \A k \in shadow.sent : k < f.ac
       /\ \A k \in shadow.sent : k <= golden.at
  <2>1. CASE ~net.authoritative
    <3>1. /\ shadow.sent = {} /\ Known = AllFacts(golden.at) /\ QuestionsLast(wire)
          /\ \A i \in DOMAIN wire : wire[i].type = "request" => wire[i].facts = AllFacts(golden.at)
      BY <1>4, <2>1, Zenon DEF BeforeQuestions
    <3>2. \A j \in DOMAIN wire : wire[j].type # "eager"
      <4> SUFFICES ASSUME NEW j \in DOMAIN wire, wire[j].type = "eager" PROVE FALSE
        OBVIOUS
      <4>1. j < 1
        BY <1>1, <1>2, <3>1 DEF QuestionsLast
      <4> QED BY <1>2, <4>1
    <3>3. EagerFacts(wire) = {}
      BY <3>2 DEF EagerFacts
    <3>4. Known = net.log
      BY <3>3 DEF Known
    <3>5. m.facts = AllFacts(golden.at)
      BY <1>1, <1>2, <3>1
    <3> QED BY <3>1, <3>4, <3>5
  <2>2. CASE net.authoritative
    <3>1. /\ net.watermark < golden.at /\ net.log = AllFacts(net.watermark)
          /\ \A k \in shadow.sent : k <= net.watermark
          /\ AllFacts(golden.at) = AllFacts(net.watermark) \union m.facts
          /\ \A f \in m.facts : net.watermark < f.ac
      <4>1. /\ net.log = AllFacts(net.watermark) /\ \A k \in shadow.sent : k <= net.watermark
        BY <1>4, <2>2, Zenon DEF AfterQuestions
      <4>2. \A i \in DOMAIN wire : wire[i].type = "request" =>
              /\ net.watermark < golden.at
              /\ AllFacts(golden.at) = AllFacts(net.watermark) \union wire[i].facts
              /\ \A f \in wire[i].facts : net.watermark < f.ac
        BY <2>2, Zenon DEF AfterQuestions
      <4> QED BY <1>1, <1>2, <4>1, <4>2
    <3>2. \A f \in m.facts : f.ac \in Int
      <4>1. m.facts \subseteq Facts
        BY <1>2 DEF Messages
      <4> QED BY <1>3, <4>1 DEF Facts
    <3>3. \A g \in net.log : g.ac \in Int /\ g.ac <= net.watermark
      <4>1. \A g \in net.log : g \in Facts /\ g.ac <= net.watermark
        BY <1>3, <3>1, FactsByPosition
      <4> QED BY <1>3, <4>1 DEF Facts
    <3>4. ASSUME NEW f \in m.facts \ net.log
          PROVE  /\ \A g \in net.log : g.ac <= f.ac
                 /\ \A k \in shadow.sent : k < f.ac
      BY <1>3, <3>1, <3>2, <3>3, <3>4
    <3>5. \A k \in shadow.sent : k <= golden.at
      BY <1>3, <3>1
    <3> QED BY <3>1, <3>4, <3>5
  <2> QED BY <2>1, <2>2
<1>14. AfterQuestions'
  <2>1. /\ net'.watermark < MaxLog /\ script'[net'.watermark] \in Ours
        /\ net'.watermark <= golden'.at /\ golden'.waiting
        /\ ~golden'.over => golden'.asked = net'.watermark
    BY <1>1, <1>3, <1>5, <1>7
  <2>2. \A k \in shadow'.sent : k <= net'.watermark
    BY <1>1, <1>7, <1>13
  <2>3. net'.log \union reader'.msg.facts = AllFacts(net.watermark)'
    BY <1>7, <1>8, <1>9, <1>12, <1>13
  <2>4. \A f \in reader'.msg.facts \ net'.log :
          /\ \A g \in net'.log : g.ac <= f.ac
          /\ \A k \in shadow'.sent : k < f.ac
    BY <1>1, <1>8, <1>12, <1>13
  <2> QED BY <1>1, <1>7, <1>11, <1>12, <2>1, <2>2, <2>3, <2>4, Zenon DEF AfterQuestions
<1> QED BY <1>6, <1>7, <1>8, <1>9, <1>10, <1>14 DEF BeforeQuestions

\* A fact of the buffer is filed.
LEMMA PushFactKeepsLog ==
    ASSUME ChoicesInv, LogInv, CursorsBehind, PushFact
    PROVE  LogInv'
<1> USE DEF LogInv
<1>1. /\ InReader /\ net.authoritative
      /\ script' = script /\ golden' = golden /\ shadow' = shadow /\ wire' = wire
  BY PushFactFiles
<1>2. PICK f \in AllFacts(net.watermark) :
        /\ f \in reader.msg.facts /\ \A g \in reader.msg.facts : f.ac <= g.ac
        /\ net' = [net EXCEPT !.log = net.log \union {f}]
        /\ reader' = [reader EXCEPT !.msg.facts = reader.msg.facts \ {f}]
  BY PushFactFiles
<1>3. /\ net'.log = net.log \union {f} /\ net'.authoritative /\ net'.watermark = net.watermark
      /\ net'.local = net.local /\ reader'.msg.facts = reader.msg.facts \ {f} /\ InReader'
  <2>1. net \in Nets /\ reader \in Readers
    BY DEF ChoicesInv, TypeOK
  <2>2. net'.log = net.log \union {f} /\ net'.authoritative /\ net'.watermark = net.watermark
        /\ net'.local = net.local
    BY <1>1, <1>2, <2>1 DEF Nets
  <2>3. reader'.msg.facts = reader.msg.facts \ {f} /\ reader'.phase = reader.phase
    BY <1>2, <2>1 DEF Readers, Messages
  <2> QED BY <1>1, <2>2, <2>3 DEF InReader
<1>4. /\ Playable' /\ (\A k : AllFacts(k)' = AllFacts(k)) /\ Positions' = Positions
  BY <1>1, SameFacts
<1>5. EagerIsOne' /\ InWire' = InWire /\ InLocal' = InLocal /\ Held' = Held
  BY <1>1, <1>3 DEF EagerIsOne, OneEach, Facts, InWire, InLocal, Held
<1>6. /\ net.watermark < MaxLog /\ script[net.watermark] \in Ours
      /\ net.watermark <= golden.at
      /\ golden.waiting \/ golden.over \/ net.watermark < golden.at
      /\ \A k \in shadow.sent : k <= net.watermark
      /\ net.log \union reader.msg.facts = AllFacts(net.watermark)
      /\ \A h \in reader.msg.facts \ net.log :
           /\ \A g \in net.log : g.ac <= h.ac
           /\ \A k \in shadow.sent : k < h.ac
      /\ net.watermark = golden.at
      /\ ~InWire /\ ~golden.over => golden.asked = net.watermark
  BY <1>1, Zenon DEF AfterQuestions
<1>7. \A i \in DOMAIN wire : wire[i].type # "request"
  BY <1>1 DEF ChoicesInv, OneQuestion, InWire
<1>8. net'.log \union reader'.msg.facts = AllFacts(net.watermark)
  BY <1>2, <1>3, <1>6
<1>9. \A h \in reader'.msg.facts \ net'.log :
        /\ \A g \in net'.log : g.ac <= h.ac
        /\ \A k \in shadow.sent : k < h.ac
  BY <1>2, <1>3, <1>6
<1>10. AfterQuestions'
  BY <1>1, <1>3, <1>4, <1>5, <1>6, <1>7, <1>8, <1>9 DEF AfterQuestions
<1> QED BY <1>3, <1>4, <1>5, <1>10 DEF BeforeQuestions

\* Every step keeps the invariant of the log.
LEMMA LogStep ==
    ASSUME ChoicesInv, LogInv, CursorsBehind, NoDigs, [Next]_vars
    PROVE  LogInv'
<1>1. CASE Server \/ OpponentChooses
  BY <1>1, ReachingChoiceKeepsLog, ChoiceMadeKeepsLog DEF Server
<1>2. ASSUME NEW how \in {"closed", "dropped"}, ConnectionBreaks(how) PROVE LogInv'
  BY <1>2, QuietReaderKeepsLog
<1>3. CASE ReaderStep
  <2>1. ASSUME NEW type \in {"ended", "closed", "dropped"}, ReadEnding(type) PROVE LogInv'
    BY <2>1, QuietReaderKeepsLog
  <2> QED BY <1>3, <2>1, ReadEagerKeepsLog, ReadRequestKeepsLog, PushFactKeepsLog,
             QuietReaderKeepsLog DEF ReaderStep
<1>4. CASE GameThread \/ WakeUp
  BY <1>4, GameThreadKeepsLog
<1>5. CASE UNCHANGED vars
  <2>1. /\ script' = script /\ golden' = golden /\ wire' = wire /\ reader' = reader
        /\ net' = net /\ shadow' = shadow
    BY <1>5 DEF vars
  <2>2. InReader' = InReader /\ InLocal' = InLocal /\ Held' = Held
    BY <2>1 DEF InReader, InLocal, Held
  <2>3. Passes(wire, wire')
    BY <2>1, Zenon DEF Passes
  <2> QED BY <2>1, <2>2, <2>3, LogFrame
<1> QED BY <1>1, <1>2, <1>3, <1>4, <1>5 DEF Next

-----------------------------------------------------------------------------
(* The cursors: what they have passed was applied, in order.               *)

\* The bookkeeping of apply_state_sync stays where it is, the rest moves on.
LEMMA CursorsStay ==
    ASSUME ChoicesInv, CursorInv,
           net'.log = net.log, net'.revealCursor = net.revealCursor,
           net'.reorderCursor = net.reorderCursor, net'.anyApplied = net.anyApplied,
           net.watermark <= net'.watermark, net'.watermark \in 0..MaxLog,
           shadow'.applied = shadow.applied,
           shadow.pos <= shadow'.pos, shadow'.pos \in 0..MaxLog
    PROVE  CursorInv'
<1>1. /\ net.revealCursor \in 0..MaxLog /\ net.reorderCursor \in 0..MaxLog
      /\ net.watermark \in 0..MaxLog /\ shadow.pos \in 0..MaxLog /\ MaxLog \in Nat
  <2>1. net \in Nets /\ shadow \in Shadows
    BY DEF ChoicesInv, TypeOK
  <2> QED BY <2>1, SyncAssumption DEF Nets, Shadows
<1>2. Reveals' = Reveals /\ Reorders' = Reorders
  BY DEF Reveals, Reorders
<1>3. CursorsBehind
  BY DEF CursorInv
<1>4. net'.revealCursor <= net'.watermark /\ net'.reorderCursor <= shadow'.pos
  BY <1>1, <1>3 DEF CursorsBehind
<1>5. CursorsBehind'
  BY <1>2, <1>3, <1>4 DEF CursorsBehind
<1>6. AppliedIsPassed' /\ AppliedOnceInOrder'
  BY DEF CursorInv, AppliedIsPassed, AppliedOnceInOrder, Applied, Facts
<1> QED BY <1>5, <1>6 DEF CursorInv

\* A fact filed later than all of its class is ahead of the cursor.
LEMMA LogGrows ==
    ASSUME ChoicesInv, CursorInv, NEW f \in Facts, f.kind = "reorder" => 1 <= f.ac,
           f \in net.log \/ \A g \in net.log : SameClass(f, g) => g.ac < f.ac,
           net' = [net EXCEPT !.log = net.log \union {f}], shadow' = shadow
    PROVE  CursorInv'
<1>1. /\ net.revealCursor \in 0..MaxLog /\ net.reorderCursor \in 0..MaxLog
      /\ net.log \subseteq Facts /\ MaxLog \in Nat /\ net \in Nets
  <2>1. net \in Nets
    BY DEF ChoicesInv, TypeOK
  <2> QED BY <2>1, SyncAssumption DEF Nets
<1>2. /\ net'.log = net.log \union {f} /\ net'.revealCursor = net.revealCursor
      /\ net'.reorderCursor = net.reorderCursor /\ net'.anyApplied = net.anyApplied
      /\ net'.watermark = net.watermark
  BY <1>1 DEF Nets
<1>3. CursorsBehind /\ AppliedIsPassed /\ AppliedOnceInOrder
  BY DEF CursorInv
<1>4. Reveals \subseteq Reveals' /\ Reorders \subseteq Reorders'
  BY <1>2 DEF Reveals, Reorders
<1>5. CursorsBehind'
  BY <1>2, <1>3, <1>4 DEF CursorsBehind
<1>6. AppliedOnceInOrder' /\ Applied' = Applied
  BY <1>3 DEF AppliedOnceInOrder, Applied
<1>7. ASSUME f \notin net.log
      PROVE  ~ IF f.kind = "reorder" THEN f.ac <= net.reorderCursor
               ELSE net.anyApplied /\ f.ac <= net.revealCursor
  <2>1. f.ac \in 0..MaxLog /\ \A g \in net.log : g.ac \in 0..MaxLog
    BY <1>1 DEF Facts
  <2>2. \A g \in net.log : SameClass(f, g) => g.ac < f.ac
    BY <1>7
  <2>3. CASE f.kind = "reorder"
    <3>1. \A g \in Reorders : g.ac < f.ac /\ g.ac \in 0..MaxLog
      BY <2>1, <2>2, <2>3 DEF Reorders, SameClass
    <3>2. CASE net.reorderCursor = 0
      BY <2>1, <2>3, <3>2
    <3>3. CASE \E g \in Reorders : net.reorderCursor <= g.ac
      <4>1. PICK g \in Reorders : net.reorderCursor <= g.ac
        BY <3>3
      <4>2. ~(f.ac <= net.reorderCursor)
        BY <1>1, <2>1, <3>1, <4>1
      <4> QED BY <2>3, <4>2
    <3> QED BY <1>3, <3>2, <3>3 DEF CursorsBehind
  <2>4. CASE f.kind # "reorder"
    <3>1. \A g \in Reveals : g.ac < f.ac /\ g.ac \in 0..MaxLog
      BY <2>1, <2>2, <2>4 DEF Reveals, Reorders, SameClass
    <3>2. CASE net.anyApplied
      <4>1. PICK h \in Reveals : TRUE
        BY <1>3, <3>2 DEF CursorsBehind
      <4>2. PICK g \in Reveals : net.revealCursor <= g.ac
        <5>1. CASE net.revealCursor = 0
          BY <3>1, <4>1, <5>1
        <5> QED BY <1>3, <5>1 DEF CursorsBehind
      <4>3. ~(f.ac <= net.revealCursor)
        BY <1>1, <2>1, <3>1, <4>2
      <4> QED BY <2>4, <4>3
    <3> QED BY <2>4, <3>2
  <2> QED BY <2>3, <2>4
<1>8. AppliedIsPassed'
  <2> SUFFICES ASSUME NEW g \in Facts
               PROVE  g \in Applied <=>
                        /\ g \in net'.log
                        /\ IF g.kind = "reorder" THEN g.ac <= net.reorderCursor
                           ELSE net.anyApplied /\ g.ac <= net.revealCursor
    BY <1>2, <1>6 DEF AppliedIsPassed, Facts
  <2>1. g \in Applied <=>
          /\ g \in net.log
          /\ IF g.kind = "reorder" THEN g.ac <= net.reorderCursor
             ELSE net.anyApplied /\ g.ac <= net.revealCursor
    BY <1>3 DEF AppliedIsPassed
  <2>2. CASE g = f /\ f \notin net.log
    BY <1>2, <1>7, <2>1, <2>2
  <2>3. CASE g # f \/ f \in net.log
    <3>1. g \in net'.log <=> g \in net.log
      BY <1>2, <2>3
    <3> QED BY <2>1, <3>1
  <2> QED BY <2>2, <2>3
<1> QED BY <1>5, <1>6, <1>8 DEF CursorInv

\* Sequences whose facts are in order by class.
InClassOrder(s) ==
    \A i, j \in DOMAIN s : i < j /\ SameClass(s[i], s[j]) => s[i].ac < s[j].ac

\* Two sequences of facts in order, the second later than the first.
LEMMA OrderedJoin ==
    ASSUME NEW s \in Seq(Facts), NEW t \in Seq(Facts), InClassOrder(s), InClassOrder(t),
           \A f \in ToSet(s), g \in ToSet(t) : SameClass(f, g) => f.ac < g.ac
    PROVE  /\ s \o t \in Seq(Facts) /\ InClassOrder(s \o t)
           /\ ToSet(s \o t) = ToSet(s) \union ToSet(t)
<1> DEFINE w == s \o t
<1>1. /\ w \in Seq(Facts) /\ Len(s) \in Nat /\ Len(t) \in Nat
      /\ DOMAIN s = 1..Len(s) /\ DOMAIN t = 1..Len(t) /\ DOMAIN w = 1..Len(s) + Len(t)
  OBVIOUS
<1>2. \A i \in 1..Len(s) + Len(t) : w[i] = IF i <= Len(s) THEN s[i] ELSE t[i - Len(s)]
  OBVIOUS
<1> HIDE DEF w
<1>3. ASSUME NEW i \in DOMAIN w
      PROVE  \/ i \in DOMAIN s /\ w[i] = s[i]
             \/ i > Len(s) /\ i - Len(s) \in DOMAIN t /\ w[i] = t[i - Len(s)]
  <2>1. i \in 1..Len(s) + Len(t)
    BY <1>1
  <2>2. CASE i <= Len(s)
    BY <1>1, <1>2, <2>1, <2>2
  <2>3. CASE ~(i <= Len(s))
    BY <1>1, <1>2, <2>1, <2>3
  <2> QED BY <2>2, <2>3
<1>4. \A i \in DOMAIN s : i \in DOMAIN w /\ w[i] = s[i]
  BY <1>1, <1>2
<1>5. \A i \in DOMAIN t : i + Len(s) \in DOMAIN w /\ w[i + Len(s)] = t[i]
  <2> SUFFICES ASSUME NEW i \in DOMAIN t PROVE i + Len(s) \in DOMAIN w /\ w[i + Len(s)] = t[i]
    OBVIOUS
  <2>1. i + Len(s) \in 1..Len(s) + Len(t) /\ ~(i + Len(s) <= Len(s)) /\ (i + Len(s)) - Len(s) = i
    BY <1>1
  <2> QED BY <1>1, <1>2, <2>1
<1>6. ToSet(w) = ToSet(s) \union ToSet(t)
  BY <1>3, <1>4, <1>5 DEF ToSet
<1>7. InClassOrder(w)
  <2> SUFFICES ASSUME NEW i \in DOMAIN w, NEW j \in DOMAIN w, i < j, SameClass(w[i], w[j])
               PROVE  w[i].ac < w[j].ac
    BY DEF InClassOrder
  <2>1. i \in Int /\ j \in Int /\ Len(s) \in Int
    BY <1>1
  <2>2. CASE i \in DOMAIN s /\ w[i] = s[i] /\ j \in DOMAIN s /\ w[j] = s[j]
    BY <2>2 DEF InClassOrder
  <2>3. CASE i \in DOMAIN s /\ w[i] = s[i] /\ j - Len(s) \in DOMAIN t /\ w[j] = t[j - Len(s)]
    <3>1. w[i] \in ToSet(s) /\ w[j] \in ToSet(t)
      BY <2>3 DEF ToSet
    <3> QED BY <3>1
  <2>4. CASE /\ i - Len(s) \in DOMAIN t /\ w[i] = t[i - Len(s)]
             /\ j - Len(s) \in DOMAIN t /\ w[j] = t[j - Len(s)]
    <3>1. i - Len(s) < j - Len(s)
      BY <2>1
    <3> QED BY <2>4, <3>1 DEF InClassOrder
  <2>5. ~(i > Len(s) /\ j \in DOMAIN s)
    BY <1>1, <2>1
  <2> QED BY <1>3, <2>2, <2>3, <2>4, <2>5
<1> QED BY <1>1, <1>6, <1>7 DEF w

\* How far a synchronisation moves the cursors: to the bounds, and never back.
LEMMA SyncedCursors ==
    ASSUME ChoicesInv, CursorInv
    PROVE  /\ net.revealCursor <= RevealBound /\ net.reorderCursor <= ReorderBound
           /\ DueReveals \union DueReorders = {} => SyncedNet = net
           /\ DueReveals \union DueReorders # {} =>
                /\ SyncedNet.revealCursor = RevealBound
                /\ SyncedNet.reorderCursor = ReorderBound
                /\ SyncedNet.anyApplied <=> (net.anyApplied \/ DueReveals # {})
<1>1. /\ net \in Nets /\ net.revealCursor \in 0..MaxLog /\ net.reorderCursor \in 0..MaxLog
      /\ net.log \subseteq Facts /\ MaxLog \in Nat /\ TypeOK /\ net.anyApplied \in BOOLEAN
      /\ net.watermark \in 0..MaxLog /\ shadow.pos \in 0..MaxLog
  <2>1. TypeOK /\ net \in Nets /\ shadow \in Shadows
    BY DEF ChoicesInv, TypeOK
  <2> QED BY <2>1, SyncAssumption DEF Nets, Shadows
<1>2. \A f \in Reveals \union Reorders : f.ac \in 0..MaxLog
  <2>1. Reveals \union Reorders \subseteq Facts
    BY <1>1 DEF Reveals, Reorders
  <2> QED BY <2>1 DEF Facts
<1>3. CursorsBehind
  BY DEF CursorInv
<1>4. net.revealCursor <= RevealBound
  <2>1. RevealBound \in 0..MaxLog
        /\ (RevealBound = net.watermark \/ \A f \in Reveals : f.ac <= RevealBound)
    BY <1>1, Bounds
  <2>2. CASE RevealBound = net.watermark
    BY <1>3, <2>2 DEF CursorsBehind
  <2>3. CASE \A f \in Reveals : f.ac <= RevealBound
    <3>1. CASE net.revealCursor = 0
      BY <1>1, <2>1, <3>1
    <3>2. CASE \E g \in Reveals : net.revealCursor <= g.ac
      BY <1>1, <1>2, <2>1, <2>3, <3>2
    <3> QED BY <1>3, <3>1, <3>2 DEF CursorsBehind
  <2> QED BY <2>1, <2>2, <2>3
<1>5. net.reorderCursor <= ReorderBound
  <2>1. ReorderBound \in 0..MaxLog
        /\ (ReorderBound = shadow.pos \/ \A f \in Reorders : f.ac <= ReorderBound)
    BY <1>1, Bounds
  <2>2. CASE ReorderBound = shadow.pos
    BY <1>3, <2>2 DEF CursorsBehind
  <2>3. CASE \A f \in Reorders : f.ac <= ReorderBound
    <3>1. CASE net.reorderCursor = 0
      BY <1>1, <2>1, <3>1
    <3>2. CASE \E g \in Reorders : net.reorderCursor <= g.ac
      BY <1>1, <1>2, <2>1, <2>3, <3>2
    <3> QED BY <1>3, <3>1, <3>2 DEF CursorsBehind
  <2> QED BY <2>1, <2>2, <2>3
<1>6. DueReveals \union DueReorders = {} => SyncedNet = net
  BY DEF SyncedNet
<1>7. ASSUME DueReveals \union DueReorders # {}
      PROVE  /\ SyncedNet.revealCursor = RevealBound
             /\ SyncedNet.reorderCursor = ReorderBound
             /\ SyncedNet.anyApplied <=> (net.anyApplied \/ DueReveals # {})
  <2>1. RevealBound \in 0..MaxLog /\ ReorderBound \in 0..MaxLog
    BY <1>1, Bounds
  <2>2. ASSUME NEW x \in 0..MaxLog, NEW y \in 0..MaxLog, x <= y PROVE Max({x, y}) = y
    <3>1. {x, y} \subseteq 0..MaxLog /\ {x, y} # {}
      OBVIOUS
    <3>2. Max({x, y}) \in {x, y} /\ \A z \in {x, y} : z <= Max({x, y})
      BY <1>1, <3>1, LeastAndGreatest
    <3> QED BY <1>1, <2>2, <3>2
  <2>3. /\ Max({net.revealCursor, RevealBound}) = RevealBound
        /\ Max({net.reorderCursor, ReorderBound}) = ReorderBound
    BY <1>1, <1>4, <1>5, <2>1, <2>2
  <2>4. SyncedNet = [net EXCEPT !.revealCursor = Max({net.revealCursor, RevealBound}),
                                !.reorderCursor = Max({net.reorderCursor, ReorderBound}),
                                !.anyApplied = net.anyApplied \/ DueReveals # {}]
    <3>1. DueReorders \union DueReveals # {}
      BY <1>7
    <3> QED BY <3>1 DEF SyncedNet
  <2> DEFINE any == net.anyApplied \/ DueReveals # {}
  <2>5. SyncedNet = [net EXCEPT !.revealCursor = RevealBound, !.reorderCursor = ReorderBound,
                                !.anyApplied = any]
    BY <2>3, <2>4
  <2>6. any <=> (net.anyApplied \/ DueReveals # {})
    OBVIOUS
  <2> HIDE DEF any
  <2>7. /\ SyncedNet.revealCursor = RevealBound /\ SyncedNet.reorderCursor = ReorderBound
        /\ SyncedNet.anyApplied = any
    BY <1>1, <2>5 DEF Nets
  <2> QED BY <2>6, <2>7
<1> QED BY <1>4, <1>5, <1>6, <1>7

\* What it applies: what is due, behind all that was applied before.
LEMMA SyncedApplied ==
    ASSUME ChoicesInv, CursorInv
    PROVE  /\ ToSet(SyncedShadow.applied) = Applied \union DueReorders \union DueReveals
           /\ InClassOrder(SyncedShadow.applied)
<1>1. /\ TypeOK /\ LogIsByPosition /\ net.log \subseteq Facts /\ shadow.applied \in Seq(Facts)
      /\ net.revealCursor \in Int /\ net.reorderCursor \in Int
  <2>1. TypeOK /\ LogIsByPosition /\ net \in Nets /\ shadow \in Shadows
    BY DEF ChoicesInv, TypeOK
  <2> QED BY <2>1, SyncAssumption DEF Nets, Shadows
<1>2. AppliedIsPassed /\ InClassOrder(shadow.applied)
  BY DEF CursorInv, AppliedOnceInOrder, InClassOrder, SameClass
<1> DEFINE a == shadow.applied  b == InOrder(DueReorders)  c == InOrder(DueReveals)
<1>3. SyncedShadow.applied = (a \o b) \o c
  BY <1>1, SyncKeeps
<1>4. ASSUME NEW S \in {DueReorders, DueReveals}
      PROVE  InOrder(S) \in Seq(Facts) /\ ToSet(InOrder(S)) = S /\ InClassOrder(InOrder(S))
  <2>1. ByPosition(S) /\ S \subseteq Facts
    BY <1>1, DueByPosition DEF ByPosition
  <2>2. /\ InOrder(S) \in Seq(S)
        /\ \A i, j \in DOMAIN InOrder(S) : i < j => InOrder(S)[i].ac < InOrder(S)[j].ac
        /\ \A f \in S : \E i \in DOMAIN InOrder(S) : InOrder(S)[i] = f
    BY <2>1, InOrderSorts
  <2> DEFINE s == InOrder(S)
  <2> HIDE DEF s
  <2>3. /\ s \in Seq(S)
        /\ \A i, j \in DOMAIN s : i < j => s[i].ac < s[j].ac
        /\ \A f \in S : \E i \in DOMAIN s : s[i] = f
    BY <2>2 DEF s
  <2>4. s \in Seq(Facts) /\ \A i \in DOMAIN s : s[i] \in S
    BY <2>1, <2>3
  <2>5. ToSet(s) = S
    BY <2>3, <2>4 DEF ToSet
  <2>6. InClassOrder(s)
    BY <2>3 DEF InClassOrder
  <2> QED BY <2>4, <2>5, <2>6 DEF s
<1>5. /\ a \in Seq(Facts) /\ InClassOrder(a) /\ ToSet(a) = Applied
      /\ b \in Seq(Facts) /\ InClassOrder(b) /\ ToSet(b) = DueReorders
      /\ c \in Seq(Facts) /\ InClassOrder(c) /\ ToSet(c) = DueReveals
  BY <1>1, <1>2, <1>4 DEF Applied
<1> HIDE DEF a, b, c
<1>6. /\ \A f \in DueReorders : /\ f.kind = "reorder" /\ f.ac > net.reorderCursor
                                /\ f.ac \in Int
      /\ \A f \in DueReveals : /\ f.kind # "reorder" /\ f.ac \in Int
                               /\ ~net.anyApplied \/ f.ac > net.revealCursor
  <2>1. DueReorders \subseteq Facts /\ DueReveals \subseteq Facts
    BY <1>1 DEF DueReorders, DueReveals, Reorders, Reveals
  <2>2. \A f \in Facts : f.ac \in Int
    BY SyncAssumption DEF Facts
  <2> QED BY <2>1, <2>2 DEF DueReorders, DueReveals, Reorders, Reveals
<1>7. \A f \in Applied : /\ f.ac \in Int
                         /\ IF f.kind = "reorder" THEN f.ac <= net.reorderCursor
                            ELSE net.anyApplied /\ f.ac <= net.revealCursor
  <2>1. Applied \subseteq Facts
    BY <1>1 DEF Applied, ToSet
  <2> QED BY <1>2, <2>1, SyncAssumption DEF AppliedIsPassed, Facts
<1>8. \A f \in Applied, g \in DueReorders : SameClass(f, g) => f.ac < g.ac
  BY <1>1, <1>6, <1>7 DEF SameClass
<1>9. /\ a \o b \in Seq(Facts) /\ InClassOrder(a \o b)
      /\ ToSet(a \o b) = Applied \union DueReorders
  BY <1>5, <1>8, OrderedJoin
<1>10. \A f \in Applied \union DueReorders, g \in DueReveals : SameClass(f, g) => f.ac < g.ac
  BY <1>1, <1>6, <1>7 DEF SameClass
<1> DEFINE d == a \o b
<1>11. d \in Seq(Facts) /\ InClassOrder(d) /\ ToSet(d) = Applied \union DueReorders
  BY <1>9
<1> HIDE DEF d
<1>12. InClassOrder(d \o c) /\ ToSet(d \o c) = (Applied \union DueReorders) \union DueReveals
  BY <1>5, <1>10, <1>11, OrderedJoin
<1>13. SyncedShadow.applied = d \o c
  BY <1>3 DEF d, a, b, c
<1> QED BY <1>12, <1>13

\* After a synchronisation everything the shadow may know was applied.
LEMMA SyncAdvances ==
    ASSUME ChoicesInv, CursorInv, net' = SyncedNet, shadow'.applied = SyncedShadow.applied,
           shadow.pos <= shadow'.pos, shadow'.pos \in 0..MaxLog
    PROVE  /\ CursorInv' /\ Applied \subseteq Applied'
           /\ \A f \in net.log :
                f.ac <= (IF f.kind = "reorder" THEN shadow.pos ELSE net.watermark) => f \in Applied'
<1>1. /\ TypeOK /\ net.log \subseteq Facts
      /\ net.revealCursor \in 0..MaxLog /\ net.reorderCursor \in 0..MaxLog
      /\ shadow.pos \in 0..MaxLog /\ MaxLog \in Nat
  <2>1. TypeOK /\ net \in Nets /\ shadow \in Shadows
    BY DEF ChoicesInv, TypeOK
  <2> QED BY <2>1, SyncAssumption DEF Nets, Shadows
<1>2. /\ SyncedNet.log = net.log /\ SyncedNet.watermark = net.watermark
  BY SyncKeeps DEF ChoicesInv
<1>3. /\ RevealBound \in 0..MaxLog /\ RevealBound <= net.watermark
      /\ \A f \in Reveals : f.ac <= net.watermark => f.ac <= RevealBound
      /\ RevealBound = 0 \/ \E f \in Reveals : RevealBound <= f.ac
      /\ ReorderBound \in 0..MaxLog /\ ReorderBound <= shadow.pos
      /\ \A f \in Reorders : f.ac <= shadow.pos => f.ac <= ReorderBound
      /\ ReorderBound = 0 \/ \E f \in Reorders : ReorderBound <= f.ac
  BY <1>1, Bounds
<1>4. /\ net.revealCursor <= RevealBound /\ net.reorderCursor <= ReorderBound
      /\ DueReveals \union DueReorders = {} => SyncedNet = net
      /\ DueReveals \union DueReorders # {} =>
           /\ SyncedNet.revealCursor = RevealBound
           /\ SyncedNet.reorderCursor = ReorderBound
           /\ SyncedNet.anyApplied <=> (net.anyApplied \/ DueReveals # {})
  BY SyncedCursors
<1>5. Applied' = Applied \union DueReorders \union DueReveals /\ InClassOrder(shadow'.applied)
  <2>1. Applied' = ToSet(shadow'.applied)
    BY DEF Applied
  <2> QED BY <2>1, SyncedApplied
<1>6. Reveals' = Reveals /\ Reorders' = Reorders /\ net'.log = net.log
  BY <1>2 DEF Reveals, Reorders
<1>7. CursorsBehind /\ AppliedIsPassed
  BY DEF CursorInv
<1>8. CursorsBehind'
  <2>1. net.reorderCursor <= shadow'.pos /\ ReorderBound <= shadow'.pos
    BY <1>1, <1>3, <1>7 DEF CursorsBehind
  <2>2. CASE DueReveals \union DueReorders = {}
    <3>1. net' = net
      BY <1>4, <2>2
    <3> QED BY <1>6, <1>7, <2>1, <3>1 DEF CursorsBehind
  <2>3. CASE DueReveals \union DueReorders # {}
    <3>1. /\ net'.revealCursor = RevealBound /\ net'.reorderCursor = ReorderBound
          /\ net'.anyApplied <=> (net.anyApplied \/ DueReveals # {})
          /\ net'.watermark = net.watermark
      BY <1>2, <1>4, <2>3
    <3>2. net'.anyApplied => Reveals # {}
      BY <1>7, <3>1 DEF CursorsBehind, DueReveals
    <3> QED BY <1>3, <1>6, <2>1, <3>1, <3>2 DEF CursorsBehind
  <2> QED BY <2>2, <2>3
<1>9. AppliedOnceInOrder'
  BY <1>5 DEF InClassOrder, SameClass, AppliedOnceInOrder
<1>10. \A f \in Facts : f.ac \in 0..MaxLog
  BY DEF Facts
<1>11. ASSUME NEW f \in Facts
       PROVE  f \in Applied' <=>
                /\ f \in net.log
                /\ IF f.kind = "reorder" THEN f.ac <= net'.reorderCursor
                   ELSE net'.anyApplied /\ f.ac <= net'.revealCursor
  <2>1. f \in Applied <=>
          /\ f \in net.log
          /\ IF f.kind = "reorder" THEN f.ac <= net.reorderCursor
             ELSE net.anyApplied /\ f.ac <= net.revealCursor
    BY <1>7 DEF AppliedIsPassed
  <2>2. CASE DueReveals \union DueReorders = {}
    <3>1. net' = net /\ Applied' = Applied
      BY <1>4, <1>5, <2>2
    <3> QED BY <2>1, <3>1
  <2>3. CASE DueReveals \union DueReorders # {}
    <3>1. /\ net'.revealCursor = RevealBound /\ net'.reorderCursor = ReorderBound
          /\ net'.anyApplied <=> (net.anyApplied \/ DueReveals # {})
      BY <1>4, <2>3
    <3>2. CASE f.kind = "reorder"
      <4>1. f \notin DueReveals /\
            (f \in DueReorders <=> f \in net.log /\ f.ac > net.reorderCursor /\ f.ac <= ReorderBound)
        BY <3>2 DEF DueReveals, DueReorders, Reveals, Reorders
      <4> QED BY <1>1, <1>3, <1>4, <1>5, <1>10, <2>1, <3>1, <3>2, <4>1
    <3>3. CASE f.kind # "reorder"
      <4>1. f \notin DueReorders /\
            (f \in DueReveals <=> /\ f \in net.log /\ (~net.anyApplied \/ f.ac > net.revealCursor)
                                  /\ f.ac <= RevealBound)
        BY <3>3 DEF DueReveals, DueReorders, Reveals, Reorders
      <4>2. f \in Applied' => f \in net.log /\ net'.anyApplied /\ f.ac <= RevealBound
        BY <1>1, <1>3, <1>4, <1>5, <1>10, <2>1, <3>1, <3>3, <4>1
      <4>3. ASSUME f \in net.log, net'.anyApplied, f.ac <= RevealBound PROVE f \in Applied'
        BY <1>1, <1>5, <1>10, <2>1, <3>1, <3>3, <4>1, <4>3
      <4> QED BY <3>1, <3>3, <4>2, <4>3
    <3> QED BY <3>2, <3>3
  <2> QED BY <2>2, <2>3
<1>12. AppliedIsPassed'
  <2>1. \A f \in Facts :
          f \in Applied' <=>
            /\ f \in net'.log
            /\ IF f.kind = "reorder" THEN f.ac <= net'.reorderCursor
               ELSE net'.anyApplied /\ f.ac <= net'.revealCursor
    BY <1>6, <1>11
  <2> QED BY <2>1 DEF AppliedIsPassed, Facts
<1>13. ASSUME NEW f \in net.log,
              f.ac <= IF f.kind = "reorder" THEN shadow.pos ELSE net.watermark
       PROVE  f \in Applied'
  <2>1. f \in Facts /\ f.ac \in 0..MaxLog
    BY <1>1, <1>10
  <2>2. f \in Applied <=>
          IF f.kind = "reorder" THEN f.ac <= net.reorderCursor
          ELSE net.anyApplied /\ f.ac <= net.revealCursor
    BY <1>7, <2>1 DEF AppliedIsPassed
  <2>3. CASE f.kind = "reorder"
    <3>1. f \in Reorders /\ f.ac <= ReorderBound
      BY <1>3, <1>13, <2>3 DEF Reorders
    <3>2. f \in DueReorders \/ f.ac <= net.reorderCursor
      BY <1>1, <2>1, <3>1 DEF DueReorders
    <3> QED BY <1>5, <2>2, <2>3, <3>2
  <2>4. CASE f.kind # "reorder"
    <3>1. f \in Reveals /\ f.ac <= RevealBound
      BY <1>3, <1>13, <2>4 DEF Reveals, Reorders
    <3>2. f \in DueReveals \/ (net.anyApplied /\ f.ac <= net.revealCursor)
      BY <1>1, <2>1, <3>1 DEF DueReveals
    <3> QED BY <1>5, <2>2, <2>4, <3>2
  <2> QED BY <2>3, <2>4
<1> QED BY <1>5, <1>8, <1>9, <1>12, <1>13 DEF CursorInv

\* The game thread synchronises, or leaves the cursors and the applied facts alone.
Syncs == net' = SyncedNet /\ shadow'.applied = SyncedShadow.applied
Stays ==
    /\ net'.revealCursor = net.revealCursor /\ net'.reorderCursor = net.reorderCursor
    /\ net'.anyApplied = net.anyApplied /\ shadow'.applied = shadow.applied

\* The shadow moves past a deed.
Advances == shadow.pos < MaxLog /\ shadow'.pos = shadow.pos + 1

\* When it performs a choice, ours or the opponent's, it synchronises.
LEMMA GameThreadMoves ==
    ASSUME ChoicesInv, GameThread \/ WakeUp
    PROVE  /\ Syncs \/ Stays
           /\ \/ shadow'.pos = shadow.pos /\ shadow'.fetched = shadow.fetched
              \/ Advances /\ ReplaySearch
              \/ /\ Advances /\ shadow'.fetched = shadow.fetched
                 /\ \/ script[shadow.pos] \in {"draw", "cast", "shuffle", "dig"}
                    \/ script[shadow.pos] = "ours" /\ Held /\ Syncs
                    \/ /\ script[shadow.pos] \in {"theirs", "search"}
                       /\ shadow.phase = "replay" /\ Syncs
<1>1. /\ net \in Nets /\ shadow \in Shadows
  BY DEF ChoicesInv, TypeOK
<1>2. /\ SyncedShadow \in Shadows
      /\ SyncedShadow.pos = shadow.pos /\ SyncedShadow.fetched = shadow.fetched
  BY SyncKeeps DEF ChoicesInv
<1>3. CASE Draws
  <2>1. /\ net' = SyncedNet /\ shadow' = [SyncedShadow EXCEPT !.pos = SyncedShadow.pos + 1]
        /\ script[shadow.pos] = "draw" /\ shadow.pos < MaxLog
    BY <1>3 DEF Draws, At, Deed
  <2>2. /\ shadow'.pos = shadow.pos + 1 /\ shadow'.fetched = shadow.fetched
        /\ shadow'.applied = SyncedShadow.applied
    BY <1>2, <2>1 DEF Shadows
  <2> QED BY <2>1, <2>2 DEF Syncs, Advances
<1>4. CASE Plays
  <2>1. /\ net' = net /\ shadow.pos < MaxLog
        /\ script[shadow.pos] \in {"cast", "shuffle", "dig"}
        /\ \/ shadow' = [shadow EXCEPT !.pos = shadow.pos + 1]
           \/ \E d : shadow' = [[shadow EXCEPT !.pending = -1, !.dug = d] EXCEPT !.pos = shadow.pos + 1]
    <3>1. shadow' = [Dug(Deed, shadow) EXCEPT !.pos = Dug(Deed, shadow).pos + 1]
      BY <1>4 DEF Plays
    <3>2. Dug(Deed, shadow).pos = shadow.pos
      BY <1>1 DEF Dug, Shadows
    <3>3. \/ Dug(Deed, shadow) = shadow
          \/ \E d : Dug(Deed, shadow) = [shadow EXCEPT !.pending = -1, !.dug = d]
      BY DEF Dug
    <3>4. net' = net /\ shadow.pos < MaxLog /\ script[shadow.pos] \in {"cast", "shuffle", "dig"}
      BY <1>4 DEF Plays, At, Deed
    <3> QED BY <3>1, <3>2, <3>3, <3>4
  <2>2. /\ shadow'.pos = shadow.pos + 1 /\ shadow'.fetched = shadow.fetched
        /\ shadow'.applied = shadow.applied
    BY <1>1, <2>1 DEF Shadows
  <2> QED BY <2>1, <2>2 DEF Stays, Advances
<1>5. CASE AwaitOpponent \/ TakeAwaited \/ FindNothing \/ FallAsleep \/ WakeUp \/ TakeNothing
  <2>1. \/ \E p : shadow' = [shadow EXCEPT !.phase = p]
        \/ shadow' = [shadow EXCEPT !.phase = "look", !.awaits = "opponent"]
        \/ \E t : shadow' = [shadow EXCEPT !.phase = "replay", !.taken = t]
    BY <1>5 DEF AwaitOpponent, TakeAwaited, FindNothing, FallAsleep, WakeUp, TakeNothing
  <2>2. net' = net \/ \E c : net' = [net EXCEPT !.theirCursor = c]
    BY <1>5 DEF AwaitOpponent, TakeAwaited, FindNothing, FallAsleep, WakeUp, TakeNothing
  <2>3. /\ shadow'.pos = shadow.pos /\ shadow'.fetched = shadow.fetched
        /\ shadow'.applied = shadow.applied
    BY <1>1, <2>1 DEF Shadows
  <2>4. /\ net'.revealCursor = net.revealCursor /\ net'.reorderCursor = net.reorderCursor
        /\ net'.anyApplied = net.anyApplied
    BY <1>1, <2>2 DEF Nets
  <2> QED BY <2>3, <2>4 DEF Stays
<1>6. CASE PrepareOwnChoice \/ AnswerSearch
  <2>1. /\ net' = [net EXCEPT !.local = Tail(net.local)]
        /\ \/ shadow' = [shadow EXCEPT !.phase = "left"]
           \/ \E t : shadow' = [shadow EXCEPT !.phase = "choose", !.taken = t]
           \/ \E t, s : shadow' = [shadow EXCEPT !.phase = "look", !.awaits = "accepted",
                                                 !.taken = t, !.sent = s]
    BY <1>6 DEF PrepareOwnChoice, AnswerSearch, TakeRequest
  <2>2. /\ shadow'.pos = shadow.pos /\ shadow'.fetched = shadow.fetched
        /\ shadow'.applied = shadow.applied
    BY <1>1, <2>1 DEF Shadows
  <2>3. /\ net'.revealCursor = net.revealCursor /\ net'.reorderCursor = net.reorderCursor
        /\ net'.anyApplied = net.anyApplied
    BY <1>1, <2>1 DEF Nets
  <2> QED BY <2>2, <2>3 DEF Stays
<1>7. CASE Choose
  <2> DEFINE sent == SyncedShadow.sent \union {shadow.taken}
  <2>1. /\ net' = SyncedNet /\ script[shadow.pos] = "ours" /\ shadow.pos < MaxLog /\ Held
        /\ shadow' = [SyncedShadow EXCEPT !.phase = "run", !.pos = SyncedShadow.pos + 1,
                                          !.sent = sent]
    BY <1>7 DEF Choose, At, Deed, Held
  <2> HIDE DEF sent
  <2>2. /\ shadow'.pos = shadow.pos + 1 /\ shadow'.fetched = shadow.fetched
        /\ shadow'.applied = SyncedShadow.applied
    BY <1>2, <2>1 DEF Shadows
  <2> QED BY <2>1, <2>2 DEF Syncs, Advances
<1>8. CASE BeginSearch
  <2>1. net' = SyncedNet /\
        \E p : shadow' = [SyncedShadow EXCEPT !.phase = p, !.awaits = "opponent"]
    BY <1>8 DEF BeginSearch
  <2>2. /\ shadow'.pos = shadow.pos /\ shadow'.fetched = shadow.fetched
        /\ shadow'.applied = SyncedShadow.applied
    BY <1>2, <2>1 DEF Shadows
  <2> QED BY <2>1, <2>2 DEF Syncs
<1>9. CASE Replay
  <2>1. /\ net' = SyncedNet /\ script[shadow.pos] \in {"theirs", "search"} /\ shadow.pos < MaxLog
        /\ shadow.phase = "replay"
        /\ shadow' = [SyncedShadow EXCEPT !.phase = "run", !.pos = SyncedShadow.pos + 1]
    BY <1>9 DEF Replay, At, Deed
  <2>2. /\ shadow'.pos = shadow.pos + 1 /\ shadow'.fetched = shadow.fetched
        /\ shadow'.applied = SyncedShadow.applied
    BY <1>2, <2>1 DEF Shadows
  <2> QED BY <2>1, <2>2 DEF Syncs, Advances
<1>10. CASE ReplaySearch
  <2> DEFINE logged == searched_card_for(shadow.pos)
             card == IF logged = {} /\ Deed = "find" THEN {shadow.taken} ELSE logged
             after == IF card = {} THEN shadow ELSE SyncedShadow
             fetched == after.fetched \union {<<shadow.pos, c>> : c \in card}
  <2>1. /\ shadow' = [after EXCEPT !.phase = "run", !.pos = after.pos + 1, !.fetched = fetched]
        /\ net' = IF card = {} THEN net ELSE SyncedNet
        /\ shadow.pos < MaxLog
    BY <1>10 DEF ReplaySearch, At
  <2>2. after \in Shadows /\ after.pos = shadow.pos
    BY <1>1, <1>2
  <2>3. (after = shadow /\ net' = net) \/ (after = SyncedShadow /\ net' = SyncedNet)
    BY <2>1
  <2> HIDE DEF after, fetched
  <2>4. shadow'.pos = shadow.pos + 1 /\ shadow'.applied = after.applied
    BY <2>1, <2>2 DEF Shadows
  <2>5. Syncs \/ Stays
    BY <2>3, <2>4 DEF Syncs, Stays
  <2> QED BY <1>10, <2>1, <2>4, <2>5 DEF Advances
<1> QED BY <1>3, <1>4, <1>5, <1>6, <1>7, <1>8, <1>9, <1>10 DEF GameThread

\* A step of the game thread keeps the cursors, and applies what is due for what
\* it performs.
LEMMA GameThreadKeepsCursors ==
    ASSUME ChoicesInv, CursorInv, GameThread \/ WakeUp
    PROVE  /\ CursorInv' /\ Applied \subseteq Applied'
           /\ Syncs => \A f \in net.log :
                f.ac <= (IF f.kind = "reorder" THEN shadow.pos ELSE net.watermark) => f \in Applied'
<1>1. shadow.pos \in 0..MaxLog /\ net.watermark \in 0..MaxLog /\ MaxLog \in Nat
  <2>1. net \in Nets /\ shadow \in Shadows
    BY DEF ChoicesInv, TypeOK
  <2> QED BY <2>1, SyncAssumption DEF Nets, Shadows
<1>2. shadow'.pos \in 0..MaxLog /\ shadow.pos <= shadow'.pos
  <2>1. shadow'.pos = shadow.pos \/ Advances
    BY GameThreadMoves
  <2> QED BY <1>1, <2>1 DEF Advances
<1>3. net'.log = net.log /\ net'.watermark = net.watermark
  BY GameThreadLeaves
<1>4. CASE Syncs
  BY <1>2, <1>4, SyncAdvances DEF Syncs
<1>5. CASE Stays /\ ~Syncs
  <2>1. Applied' = Applied
    BY <1>5 DEF Stays, Applied
  <2>2. CursorInv'
    BY <1>1, <1>2, <1>3, <1>5, CursorsStay DEF Stays
  <2> QED BY <1>5, <2>1, <2>2
<1> QED BY <1>4, <1>5, GameThreadMoves

-----------------------------------------------------------------------------
(* Known in time.                                                          *)

\* A choice of the opponent that is taken has its facts in the log.
LEMMA TakenIsTold ==
    ASSUME ChoicesInv, FactsBeforeChoices, shadow.phase = "replay", shadow.pos < MaxLog,
           script[shadow.pos] \in Theirs
    PROVE  /\ shadow.pos \in net.theirs /\ shadow.pos < net.watermark
           /\ FactsIn(0, shadow.pos + 1) \subseteq net.log
           /\ script[shadow.pos + 1] = "cast" =>
                shadow.pos + 1 < net.watermark /\ FactOf(shadow.pos + 1) \in net.log
<1>1. net.theirCursor = shadow.pos
  BY DEF ChoicesInv, ChoicesTaken
<1>2. shadow.pos # -1
  BY SyncAssumption DEF ChoicesInv, TypeOK, Shadows
<1>3. shadow.pos \in net.theirs
  BY <1>1, <1>2 DEF ChoicesInv, ChoicesTaken
<1> QED BY <1>3 DEF FactsBeforeChoices

\* The shadow decides with everything that came before the question.
LEMMA DecidesKnowing ==
    ASSUME ChoicesInv, LogInv, Held, NEW f \in FactsIn(0, shadow.pos)
    PROVE  f \in net.log /\ f.ac <= IF f.kind = "reorder" THEN shadow.pos ELSE net.watermark
<1>1. /\ shadow.pos \in 0..MaxLog /\ MaxLog \in Nat /\ script \in [Positions -> Deeds]
  <2>1. shadow \in Shadows /\ script \in [Positions -> Deeds]
    BY DEF ChoicesInv, TypeOK
  <2> QED BY <2>1, SyncAssumption DEF Shadows
<1>2. net.authoritative
  BY Zenon DEF LogInv, BeforeQuestions
<1>3. ~InReader
  BY DEF ChoicesInv, OneQuestion
<1>4. shadow.pos = golden.at
  BY DEF Held, ChoicesInv, OneQuestion, ShadowPlace
<1>5. net.watermark = golden.at /\ net.log = AllFacts(net.watermark)
  BY <1>2, <1>3, Zenon DEF LogInv, AfterQuestions
<1>6. f \in AllFacts(shadow.pos)
  BY DEF AllFacts
<1>7. f.ac <= shadow.pos
  BY <1>1, <1>6, FactsByPosition
<1> QED BY <1>4, <1>5, <1>6, <1>7

\* And it replays its own search with the candidates it had.
LEMMA SearchesKnowing ==
    ASSUME ChoicesInv, LogInv, shadow.phase = "replay", shadow.pos < MaxLog,
           script[shadow.pos] = "search", NEW f \in Candidates(shadow.pos)
    PROVE  f \in net.log /\ f.kind # "reorder" /\ f.ac <= net.watermark
<1>1. /\ shadow.pos \in Positions /\ MaxLog \in Nat /\ script \in [Positions -> Deeds]
      /\ net.watermark \in 0..MaxLog
  <2>1. shadow \in Shadows /\ script \in [Positions -> Deeds] /\ net \in Nets
    BY DEF ChoicesInv, TypeOK
  <2> QED BY <2>1, SyncAssumption DEF Shadows, Nets, Positions
<1>2. shadow.pos \in shadow.sent
  BY DEF ChoicesInv, ShadowPlace, Waits, Theirs
<1>3. net.authoritative
  BY <1>2, Zenon DEF LogInv, BeforeQuestions
<1>4. shadow.pos <= net.watermark
  BY <1>2, <1>3, Zenon DEF LogInv, AfterQuestions
<1>5. f.ac = shadow.pos /\ f.kind = "candidates"
  BY <1>1, CandidatesOf
<1>6. f \in AllFacts(net.watermark)
  BY <1>1, <1>4, FactsUpTo
<1>7. f \in net.log
  <2>1. CASE ~InReader
    <3>1. net.log = AllFacts(net.watermark)
      BY <1>3, <2>1, Zenon DEF LogInv, AfterQuestions
    <3> QED BY <1>6, <3>1
  <2>2. CASE InReader
    <3>1. /\ net.log \union reader.msg.facts = AllFacts(net.watermark)
          /\ \A g \in reader.msg.facts \ net.log : \A k \in shadow.sent : k < g.ac
      BY <1>3, <2>2, Zenon DEF LogInv, AfterQuestions
    <3>2. f \notin net.log => shadow.pos < f.ac
      BY <1>2, <1>6, <3>1
    <3> QED BY <1>1, <1>5, <3>2 DEF Positions
  <2> QED BY <2>1, <2>2
<1> QED BY <1>4, <1>5, <1>7

\* The latest search in the log is the one at which the shadow stands.
LEMMA FindsTheCard ==
    ASSUME ChoicesInv, FactsBeforeChoices, shadow.phase = "replay", shadow.pos < MaxLog,
           script[shadow.pos] = "find"
    PROVE  searched_card_for(shadow.pos) = {shadow.pos}
<1>1. /\ shadow.pos \in Positions /\ MaxLog \in Nat /\ script \in [Positions -> Deeds]
      /\ net.log \subseteq Facts /\ shadow.pos + 1 \in 0..MaxLog /\ 0 \in 0..MaxLog
      /\ shadow.pos \in Int
  <2>1. shadow \in Shadows /\ script \in [Positions -> Deeds] /\ net \in Nets
    BY DEF ChoicesInv, TypeOK
  <2> QED BY <2>1, SyncAssumption DEF Shadows, Nets, Positions
<1>2. FactsIn(0, shadow.pos + 1) \subseteq net.log
  BY TakenIsTold DEF Theirs
<1>3. script[shadow.pos] \in DOMAIN KindOf
  BY DEF KindOf
<1>4. FactOf(shadow.pos) \in net.log
  <2>1. shadow.pos >= 0 /\ shadow.pos < shadow.pos + 1
    BY <1>1 DEF Positions
  <2> QED BY <1>1, <1>2, <1>3, <2>1, FactsBetween
<1>5. FactOf(shadow.pos).kind = "searched" /\ FactOf(shadow.pos).ac = shadow.pos
  BY <1>1, <1>3, FactOfDeed
<1> DEFINE found == {f.ac : f \in {g \in net.log : g.kind = "searched" /\ g.ac <= shadow.pos}}
<1>6. shadow.pos \in found
  BY <1>1, <1>4, <1>5
<1>7. \A j \in found : j \in Int /\ j <= shadow.pos
  BY <1>1 DEF Facts
<1>8. searched_card_for(shadow.pos) = {k \in found : \A j \in found : j <= k}
  BY DEF searched_card_for
<1> HIDE DEF found
<1> QED BY <1>1, <1>6, <1>7, <1>8

\* The game thread performs nothing before it knows what came before.
LEMMA GameThreadKeepsKnown ==
    ASSUME ChoicesInv, LogInv, CursorInv, KnownInv, NoDigs, GameThread \/ WakeUp
    PROVE  KnownInv'
<1> USE DEF KnownInv
<1>1. /\ shadow.pos \in 0..MaxLog /\ net.watermark \in 0..MaxLog /\ MaxLog \in Nat
      /\ script \in [Positions -> Deeds] /\ shadow \in Shadows
  <2>1. net \in Nets /\ shadow \in Shadows /\ script \in [Positions -> Deeds]
    BY DEF ChoicesInv, TypeOK
  <2> QED BY <2>1, SyncAssumption DEF Nets, Shadows
<1>2. /\ script' = script /\ net'.log = net.log /\ net'.watermark = net.watermark
      /\ net'.authoritative = net.authoritative /\ net'.theirs = net.theirs
  BY GameThreadLeaves
<1>3. /\ Positions' = Positions
      /\ \A a, b : FactsIn(a, b)' = FactsIn(a, b)
      /\ \A k : Candidates(k)' = Candidates(k)
      /\ \A k : FactOf(k)' = FactOf(k)
      /\ Playable
  BY <1>2, SameFacts DEF LogInv
<1>4. /\ Applied \subseteq Applied'
      /\ Syncs => \A f \in net.log :
           f.ac <= (IF f.kind = "reorder" THEN shadow.pos ELSE net.watermark) => f \in Applied'
  BY GameThreadKeepsCursors
<1>5. FactsBeforeChoices'
  BY <1>2, <1>3 DEF FactsBeforeChoices
<1>6. CASE shadow'.pos = shadow.pos /\ shadow'.fetched = shadow.fetched
  <2>1. CastsKnown'
    BY <1>2, <1>3, <1>4, <1>6 DEF CastsKnown
  <2>2. KnownInTime'
    BY <1>2, <1>3, <1>4, <1>6 DEF KnownInTime
  <2>3. FoundCardIsTheServers'
    BY <1>2, <1>6 DEF FoundCardIsTheServers
  <2> QED BY <1>5, <2>1, <2>2, <2>3
<1>7. CASE Advances
  <2>1. /\ shadow.pos < MaxLog /\ shadow'.pos = shadow.pos + 1 /\ shadow.pos \in Positions
        /\ \A k \in 0..shadow'.pos - 1 : k \in 0..shadow.pos - 1 \/ k = shadow.pos
        /\ \A k \in Positions : k <= shadow'.pos => k <= shadow.pos \/ k = shadow.pos + 1
    BY <1>1, <1>7 DEF Advances, Positions
  <2>2. /\ script[shadow.pos] = "theirs" => shadow.phase = "replay" /\ Syncs
        /\ script[shadow.pos] = "ours" => Held /\ Syncs
        /\ script[shadow.pos] = "search" => shadow.phase = "replay" /\ Syncs
    <3>1. ReplaySearch => script[shadow.pos] \in {"find", "miss"}
      BY DEF ReplaySearch, At, Deed, TheirSearches
    <3>2. shadow'.pos # shadow.pos
      BY <1>1, <2>1
    <3>3. \/ ReplaySearch
          \/ script[shadow.pos] \in {"draw", "cast", "shuffle", "dig"}
          \/ script[shadow.pos] = "ours" /\ Held /\ Syncs
          \/ /\ script[shadow.pos] \in {"theirs", "search"}
             /\ shadow.phase = "replay" /\ Syncs
      BY <3>2, GameThreadMoves
    <3> QED BY <3>1, <3>3
  <2>3. ASSUME NEW k \in Positions, k = shadow.pos + 1, script[k] = "cast"
        PROVE  FactOf(k) \in Applied'
    <3>1. script[shadow.pos] = "theirs"
      <4>1. k - 1 = shadow.pos
        BY <1>1, <2>3
      <4> QED BY <1>3, <2>3, <4>1 DEF Playable
    <3>2. k < net.watermark /\ FactOf(k) \in net.log
      BY <2>1, <2>2, <2>3, <3>1, TakenIsTold DEF Theirs
    <3>3. script[k] \in DOMAIN KindOf /\ script[k] # "shuffle"
      BY <2>3 DEF KindOf
    <3>4. FactOf(k).ac = k /\ FactOf(k).kind # "reorder"
      BY <1>1, <3>3, FactOfDeed
    <3>5. FactOf(k).ac <= net.watermark
      BY <1>1, <3>2, <3>4 DEF Positions
    <3> QED BY <1>4, <2>2, <3>1, <3>2, <3>4, <3>5
  <2>4. CastsKnown'
    <3> SUFFICES ASSUME NEW k \in Positions, k <= shadow'.pos, script[k] = "cast"
                 PROVE  FactOf(k) \in Applied'
      BY <1>2, <1>3 DEF CastsKnown
    <3>1. CASE k <= shadow.pos
      BY <1>4, <3>1 DEF CastsKnown
    <3>2. CASE k = shadow.pos + 1
      BY <2>3, <3>2
    <3> QED BY <2>1, <3>1, <3>2
  <2>5. KnownInTime'
    <3> SUFFICES ASSUME NEW k \in 0..shadow'.pos - 1
                 PROVE  /\ script[k] = "cast" => FactOf(k) \in Applied'
                        /\ script[k] = "search" => Candidates(k) \subseteq Applied'
                        /\ script[k] = "ours" => FactsIn(0, k) \subseteq Applied'
      BY <1>2, <1>3 DEF KnownInTime
    <3>1. CASE k \in 0..shadow.pos - 1
      BY <1>4, <3>1 DEF KnownInTime
    <3>2. CASE k = shadow.pos
      <4>1. script[k] = "cast" => FactOf(k) \in Applied'
        BY <1>1, <1>4, <2>1, <3>2 DEF CastsKnown
      <4>2. script[k] = "search" => Candidates(k) \subseteq Applied'
        BY <1>4, <2>1, <2>2, <3>2, SearchesKnowing
      <4>3. script[k] = "ours" => FactsIn(0, k) \subseteq Applied'
        BY <1>4, <2>2, <3>2, DecidesKnowing
      <4> QED BY <4>1, <4>2, <4>3
    <3> QED BY <2>1, <3>1, <3>2
  <2>6. FoundCardIsTheServers'
    <3>1. CASE shadow'.fetched = shadow.fetched
      BY <1>2, <3>1 DEF FoundCardIsTheServers
    <3>2. CASE ReplaySearch
      <4> DEFINE logged == searched_card_for(shadow.pos)
                 card == IF logged = {} /\ Deed = "find" THEN {shadow.taken} ELSE logged
                 after == IF card = {} THEN shadow ELSE SyncedShadow
                 fetched == after.fetched \union {<<shadow.pos, c>> : c \in card}
      <4>1. /\ shadow' = [after EXCEPT !.phase = "run", !.pos = after.pos + 1, !.fetched = fetched]
            /\ shadow.phase = "replay"
        BY <3>2 DEF ReplaySearch, At
      <4>2. after \in Shadows /\ after.fetched = shadow.fetched
        <5>1. SyncedShadow \in Shadows /\ SyncedShadow.fetched = shadow.fetched
          BY SyncKeeps DEF ChoicesInv
        <5> QED BY <1>1, <5>1
      <4>3. script[shadow.pos] = "find" => card = {shadow.pos}
        <5>1. script[shadow.pos] = "find" => logged = {shadow.pos}
          BY <2>1, <4>1, FindsTheCard
        <5> QED BY <5>1
      <4>4. \A p \in fetched : p \in shadow.fetched \/ \E c \in card : p = <<shadow.pos, c>>
        BY <4>2
      <4> HIDE DEF card, after, fetched
      <4>5. shadow'.fetched = fetched
        BY <4>1, <4>2 DEF Shadows
      <4>6. ASSUME NEW p \in fetched, script[p[1]] = "find" PROVE p[2] = p[1]
        <5>1. CASE p \in shadow.fetched
          BY <4>6, <5>1 DEF FoundCardIsTheServers
        <5>2. CASE \E c \in card : p = <<shadow.pos, c>>
          BY <4>3, <4>6, <5>2
        <5> QED BY <4>4, <5>1, <5>2
      <4> QED BY <1>2, <4>5, <4>6 DEF FoundCardIsTheServers
    <3> QED BY <3>1, <3>2, GameThreadMoves
  <2> QED BY <1>5, <2>4, <2>5, <2>6
<1> QED BY <1>6, <1>7, GameThreadMoves

\* The reader and the server take away nothing of what is known.
LEMMA KnownStays ==
    ASSUME ChoicesInv, KnownInv, script' = script, net.log \subseteq net'.log,
           net.authoritative => net'.authoritative,
           net.watermark <= net'.watermark, net'.watermark \in 0..MaxLog,
           \A k \in net'.theirs :
             \/ k \in net.theirs
             \/ /\ net.authoritative /\ k < net.watermark
                /\ FactsIn(0, k + 1) \subseteq net.log
                /\ script[k + 1] = "cast" => k + 1 < net.watermark /\ FactOf(k + 1) \in net.log,
           net'.theirs \subseteq Positions,
           shadow'.applied = shadow.applied, shadow'.pos = shadow.pos,
           shadow'.fetched = shadow.fetched
    PROVE  KnownInv'
<1> USE DEF KnownInv
<1>1. net.watermark \in 0..MaxLog /\ MaxLog \in Nat
  <2>1. net \in Nets
    BY DEF ChoicesInv, TypeOK
  <2> QED BY <2>1, SyncAssumption DEF Nets
<1>2. /\ Positions' = Positions
      /\ \A a, b : FactsIn(a, b)' = FactsIn(a, b)
      /\ \A k : Candidates(k)' = Candidates(k)
      /\ \A k : FactOf(k)' = FactOf(k)
  BY SameFacts
<1>3. Applied' = Applied
  BY DEF Applied
<1>4. ASSUME NEW k \in net'.theirs
      PROVE  /\ net'.authoritative /\ k < net'.watermark
             /\ FactsIn(0, k + 1) \subseteq net'.log
             /\ script[k + 1] = "cast" => k + 1 < net'.watermark /\ FactOf(k + 1) \in net'.log
  <2>1. /\ net.authoritative /\ k < net.watermark
        /\ FactsIn(0, k + 1) \subseteq net.log
        /\ script[k + 1] = "cast" => k + 1 < net.watermark /\ FactOf(k + 1) \in net.log
    BY DEF FactsBeforeChoices
  <2>2. k \in Int
    BY SyncAssumption DEF Positions
  <2> QED BY <1>1, <2>1, <2>2
<1>5. FactsBeforeChoices'
  BY <1>2, <1>4 DEF FactsBeforeChoices
<1>6. CastsKnown' /\ KnownInTime' /\ FoundCardIsTheServers'
  BY <1>2, <1>3 DEF CastsKnown, KnownInTime, FoundCardIsTheServers
<1> QED BY <1>5, <1>6

\* The server's steps.
LEMMA ServerKeepsFacts ==
    ASSUME ChoicesInv, Healthy, CursorInv, KnownInv,
           script' = script, net' = net, shadow' = shadow, reader' = reader
    PROVE  Healthy' /\ CursorInv' /\ KnownInv'
<1>1. net.watermark \in 0..MaxLog /\ MaxLog \in Nat /\ shadow.pos \in 0..MaxLog
      /\ net.theirs \subseteq Positions
  <2>1. net \in Nets /\ shadow \in Shadows
    BY DEF ChoicesInv, TypeOK
  <2> QED BY <2>1, SyncAssumption DEF Nets, Shadows
<1>2. CursorInv'
  BY <1>1, CursorsStay
<1>3. KnownInv'
  BY <1>1, KnownStays
<1> QED BY <1>2, <1>3 DEF Healthy

\* A fact is filed.
LEMMA FilingKeepsFacts ==
    ASSUME ChoicesInv, LogInv, Healthy, CursorInv, KnownInv, ReadEager \/ PushFact
    PROVE  Healthy' /\ CursorInv' /\ KnownInv'
<1>1. /\ net.watermark \in 0..MaxLog /\ MaxLog \in Nat /\ golden.at \in 0..MaxLog
      /\ script \in [Positions -> Deeds] /\ net \in Nets /\ net.theirs \subseteq Positions
      /\ reader \in Readers
  <2>1. net \in Nets /\ golden \in Goldens /\ script \in [Positions -> Deeds] /\ reader \in Readers
    BY DEF ChoicesInv, TypeOK
  <2> QED BY <2>1, SyncAssumption DEF Nets, Goldens
<1>2. CursorsBehind
  BY DEF CursorInv
<1>3. CASE ReadEager /\ net' = net
  <2>1. script' = script /\ shadow' = shadow /\ reader' = reader
    BY <1>2, <1>3, ReadEagerFiles
  <2> QED BY <1>3, <2>1, ServerKeepsFacts
<1>4. ASSUME NEW q \in 0..MaxLog, NEW f \in AllFacts(q),
             f \in net.log \/ \A g \in net.log : SameClass(f, g) => g.ac < f.ac,
             net' = [net EXCEPT !.log = net.log \union {f}],
             script' = script, shadow' = shadow
      PROVE  CursorInv' /\ KnownInv'
  <2>1. f \in Facts /\ (f.kind = "reorder" => 1 <= f.ac)
    BY <1>1, FactsByPosition
  <2>2. CursorInv'
    BY <1>4, <2>1, LogGrows
  <2>3. /\ net.log \subseteq net'.log /\ net'.authoritative = net.authoritative
        /\ net'.watermark = net.watermark /\ net'.theirs = net.theirs
    BY <1>1, <1>4 DEF Nets
  <2>4. KnownInv'
    BY <1>1, <1>4, <2>3, KnownStays
  <2> QED BY <2>2, <2>4
<1>5. CASE ReadEager /\ net' # net
  <2>1. /\ script' = script /\ shadow' = shadow /\ reader' = reader
        /\ \E f \in AllFacts(golden.at) :
             /\ \A g \in net.log : SameClass(f, g) => g.ac < f.ac
             /\ net' = [net EXCEPT !.log = net.log \union {f}]
    BY <1>2, <1>5, ReadEagerFiles
  <2> QED BY <1>1, <1>4, <2>1 DEF Healthy
<1>6. CASE PushFact
  <2>1. /\ script' = script /\ shadow' = shadow
        /\ \E f \in AllFacts(net.watermark) :
             /\ f \in net.log \/ \A g \in net.log : SameClass(f, g) => g.ac < f.ac
             /\ net' = [net EXCEPT !.log = net.log \union {f}]
        /\ \E f : reader' = [reader EXCEPT !.msg.facts = f]
    BY <1>2, <1>6, PushFactFiles
  <2>2. reader'.phase = reader.phase
    BY <1>1, <2>1 DEF Readers
  <2> QED BY <1>1, <1>4, <2>1, <2>2 DEF Healthy
<1> QED BY <1>3, <1>5, <1>6

\* An opponent's choice is filed, when all the facts of the buffer are.
LEMMA PushChoiceKeepsFacts ==
    ASSUME ChoicesInv, LogInv, Healthy, CursorInv, KnownInv, PushChoice
    PROVE  Healthy' /\ CursorInv' /\ KnownInv'
<1>1. /\ net.watermark \in 0..MaxLog /\ MaxLog \in Nat /\ golden.at \in 0..MaxLog
      /\ script \in [Positions -> Deeds] /\ net \in Nets /\ net.theirs \subseteq Positions
      /\ reader \in Readers /\ shadow \in Shadows /\ shadow.pos \in 0..MaxLog /\ TypeOK
  <2>1. net \in Nets /\ golden \in Goldens /\ script \in [Positions -> Deeds] /\ reader \in Readers
        /\ shadow \in Shadows /\ TypeOK
    BY DEF ChoicesInv, TypeOK
  <2> QED BY <2>1, SyncAssumption DEF Nets, Goldens, Shadows
<1>2. /\ script' = script /\ InReader /\ reader.msg.facts = {} /\ shadow' = Woken("opponent")
  BY DEF PushChoice, InReader
<1>3. PICK k \in reader.msg.choices :
        /\ net' = [net EXCEPT !.theirs = net.theirs \union {k}]
        /\ reader' = [reader EXCEPT !.msg.choices = reader.msg.choices \ {k}]
  BY DEF PushChoice
<1>4. net.authoritative
  BY <1>2, Zenon DEF LogInv, BeforeQuestions
<1>5. /\ net.log \union reader.msg.facts = AllFacts(net.watermark)
      /\ net.watermark = golden.at /\ net.watermark < MaxLog /\ script[net.watermark] \in Ours
  BY <1>2, <1>4, Zenon DEF LogInv, AfterQuestions
<1>6. net.log = AllFacts(net.watermark)
  BY <1>2, <1>5
<1>7. k \in Positions /\ k < net.watermark
  BY <1>2, <1>3, <1>5 DEF ChoicesInv, ChoicesArrive, TheirsBelow
<1>8. k + 1 \in 0..net.watermark /\ k + 1 \in 0..MaxLog /\ net.watermark \in k + 1..MaxLog
      /\ 0 \in 0..MaxLog
  BY <1>1, <1>7 DEF Positions
<1>9. FactsIn(0, k + 1) \subseteq net.log
  <2>1. FactsIn(0, net.watermark) = FactsIn(0, k + 1) \union FactsIn(k + 1, net.watermark)
    BY <1>1, <1>8, FactsGrow
  <2>2. FactsIn(0, net.watermark) \subseteq AllFacts(net.watermark)
    BY DEF AllFacts
  <2> QED BY <1>6, <2>1, <2>2
<1>10. ASSUME script[k + 1] = "cast" PROVE k + 1 < net.watermark /\ FactOf(k + 1) \in net.log
  <2>1. k + 1 # net.watermark
    BY <1>5, <1>10 DEF Ours
  <2>2. k + 1 < net.watermark
    BY <1>1, <1>8, <2>1
  <2>3. k + 1 \in Positions /\ k + 1 >= 0 /\ script[k + 1] \in DOMAIN KindOf
    BY <1>1, <1>8, <1>10, <2>2 DEF Positions, KindOf
  <2>4. FactOf(k + 1) \in FactsIn(0, net.watermark)
    BY <1>1, <1>8, <2>2, <2>3, FactsBetween
  <2>5. FactsIn(0, net.watermark) \subseteq AllFacts(net.watermark)
    BY DEF AllFacts
  <2> QED BY <1>6, <2>2, <2>4, <2>5
<1> DEFINE theirs == net.theirs \union {k}
<1>11. \A j \in theirs : j \in net.theirs \/ j = k
  OBVIOUS
<1>12. theirs \subseteq Positions
  BY <1>1, <1>7
<1>13. net' = [net EXCEPT !.theirs = theirs]
  BY <1>3
<1> HIDE DEF theirs
<1>14. /\ net'.log = net.log /\ net'.authoritative = net.authoritative
       /\ net'.watermark = net.watermark /\ net'.theirs = theirs
       /\ net'.revealCursor = net.revealCursor /\ net'.reorderCursor = net.reorderCursor
       /\ net'.anyApplied = net.anyApplied
  BY <1>1, <1>13 DEF Nets
<1>15. /\ shadow'.applied = shadow.applied /\ shadow'.pos = shadow.pos
       /\ shadow'.fetched = shadow.fetched
  BY <1>1, <1>2 DEF Woken, Shadows
<1>16. CursorInv'
  BY <1>1, <1>14, <1>15, CursorsStay
<1>17. KnownInv'
  BY <1>1, <1>2, <1>4, <1>7, <1>9, <1>10, <1>11, <1>12, <1>14, <1>15, KnownStays
<1>18. reader'.phase = reader.phase
  BY <1>1, <1>3 DEF Readers
<1> QED BY <1>16, <1>17, <1>18 DEF Healthy

\* What else the reader does.
LEMMA ReaderKeepsFacts ==
    ASSUME ChoicesInv, LogInv, Healthy, CursorInv, KnownInv,
           \/ ReadRequest \/ PutRequest \/ ReadAccepted \/ NotifyExit \/ PutExit
           \/ \E type \in {"ended", "closed", "dropped"} : ReadEnding(type)
    PROVE  Healthy' /\ CursorInv' /\ KnownInv'
<1>1. /\ net.watermark \in 0..MaxLog /\ MaxLog \in Nat /\ golden.at \in 0..MaxLog
      /\ net \in Nets /\ net.theirs \subseteq Positions
      /\ reader \in Readers /\ shadow \in Shadows /\ shadow.pos \in 0..MaxLog
  <2>1. net \in Nets /\ golden \in Goldens /\ reader \in Readers /\ shadow \in Shadows
    BY DEF ChoicesInv, TypeOK
  <2> QED BY <2>1, SyncAssumption DEF Nets, Goldens, Shadows
<1>2. script' = script
  BY DEF ReadRequest, PutRequest, ReadAccepted, NotifyExit, PutExit, ReadEnding
<1>3. /\ shadow'.applied = shadow.applied /\ shadow'.pos = shadow.pos
      /\ shadow'.fetched = shadow.fetched
  <2>1. shadow' = shadow \/ \E p : shadow' = [shadow EXCEPT !.phase = p]
    BY DEF ReadRequest, PutRequest, ReadAccepted, NotifyExit, PutExit, ReadEnding, Woken
  <2> QED BY <1>1, <2>1 DEF Shadows
<1>4. Healthy'
  <2>1. \/ reader' = reader
        \/ \E p \in {"idle", "exit", "gone"} : reader' = [reader EXCEPT !.phase = p]
        \/ \E p \in {"serving", "notify"} : \E m : reader' = [phase |-> p, msg |-> m]
    BY DEF ReadRequest, PutRequest, ReadAccepted, NotifyExit, PutExit, ReadEnding
  <2> QED BY <1>1, <2>1 DEF Readers, Healthy
<1>5. /\ net'.log = net.log /\ net'.theirs = net.theirs
      /\ net'.revealCursor = net.revealCursor /\ net'.reorderCursor = net.reorderCursor
      /\ net'.anyApplied = net.anyApplied
      /\ net.authoritative => net'.authoritative
      /\ net.watermark <= net'.watermark /\ net'.watermark \in 0..MaxLog
  <2>1. CASE ReadRequest
    <3>1. net' = [net EXCEPT !.authoritative = TRUE, !.watermark = Max({net.watermark, Head(wire).ac})]
      BY <2>1 DEF ReadRequest
    <3>2. net'.watermark = golden.at /\ net.watermark <= golden.at
      BY <2>1, ReadRequestKeepsLog
    <3> QED BY <1>1, <3>1, <3>2 DEF Nets
  <2>2. CASE ~ReadRequest
    <3>1. \/ net' = net
          \/ \E l : net' = [net EXCEPT !.local = l]
          \/ \E a : net' = [net EXCEPT !.accepted = a]
          \/ net' = [net EXCEPT !.terminal = TRUE]
      BY <2>2 DEF PutRequest, ReadAccepted, NotifyExit, PutExit, ReadEnding
    <3> QED BY <1>1, <3>1 DEF Nets
  <2> QED BY <2>1, <2>2
<1>6. CursorInv'
  BY <1>1, <1>3, <1>5, CursorsStay
<1>7. KnownInv'
  BY <1>1, <1>2, <1>3, <1>5, KnownStays
<1> QED BY <1>4, <1>6, <1>7

\* No fact happened at the start.
LEMMA FactsInit ==
    ASSUME Init
    PROVE  FactsInv
<1>1. /\ golden = [at |-> 0, asked |-> 0, waiting |-> FALSE, over |-> FALSE] /\ wire = <<>>
      /\ reader = [phase |-> "idle", msg |-> Ending("ended")]
      /\ net.log = {} /\ net.revealCursor = 0 /\ net.reorderCursor = 0 /\ ~net.anyApplied
      /\ ~net.authoritative /\ net.watermark = 0 /\ net.theirs = {} /\ net.local = <<>>
      /\ shadow.pos = 0 /\ shadow.phase = "run" /\ shadow.sent = {} /\ shadow.applied = <<>>
      /\ shadow.fetched = {}
  BY DEF Init
<1>2. Playable
  BY DEF Init, Playable
<1>3. /\ DOMAIN wire = {} /\ DOMAIN net.local = {} /\ DOMAIN shadow.applied = {}
  BY <1>1
<1>4. FactsIn(0, 0) = {}
  <2>1. 0..0 - 1 = {}
    OBVIOUS
  <2> QED BY <2>1 DEF FactsIn
<1>5. Known = {} /\ Reveals = {} /\ Reorders = {} /\ Applied = {}
  BY <1>1, <1>3 DEF Known, EagerFacts, Reveals, Reorders, Applied, ToSet
<1>6. /\ EagerIsOne /\ EagerInOrder(net.log, wire) /\ ~InWire /\ ~InLocal
  BY <1>3 DEF EagerIsOne, OneEach, EagerInOrder, InWire, InLocal
<1>7. ~InReader /\ ~Held /\ Healthy
  BY <1>1 DEF InReader, Held, Healthy
<1>8. BeforeQuestions
  <2>1. golden.at = 0 /\ golden.asked = 0 /\ Known \subseteq AllFacts(golden.at)
    BY <1>1, <1>5
  <2>2. Known = {f \in FactsIn(0, golden.at) : f.kind = "reorder"}
    BY <1>4, <1>5, <2>1
  <2> QED BY <1>1, <1>3, <1>6, <1>7, <2>1, <2>2 DEF BeforeQuestions
<1>9. AfterQuestions
  BY <1>1 DEF AfterQuestions
<1>10. CursorInv
  <2>1. CursorsBehind
    BY <1>1 DEF CursorsBehind
  <2>2. AppliedIsPassed /\ AppliedOnceInOrder
    BY <1>1, <1>3, <1>5 DEF AppliedIsPassed, AppliedOnceInOrder
  <2> QED BY <2>1, <2>2 DEF CursorInv
<1>11. KnownInv
  <2>1. FactsBeforeChoices /\ FoundCardIsTheServers
    BY <1>1 DEF FactsBeforeChoices, FoundCardIsTheServers
  <2>2. 0..shadow.pos - 1 = {}
    BY <1>1
  <2>3. KnownInTime
    BY <2>2 DEF KnownInTime
  <2>4. CastsKnown
    <3> SUFFICES ASSUME NEW k \in Positions, k <= 0, script[k] = "cast" PROVE FALSE
      BY <1>1 DEF CastsKnown
    <3>1. k > 0
      BY <1>2 DEF Playable
    <3> QED BY <3>1, SyncAssumption DEF Positions
  <2> QED BY <2>1, <2>3, <2>4 DEF KnownInv
<1> QED BY <1>2, <1>6, <1>7, <1>8, <1>9, <1>10, <1>11 DEF FactsInv, LogInv

\* Every step keeps the invariant of the facts.
LEMMA FactsStep ==
    ASSUME ChoicesInv, FactsInv, NoDigs, [Next]_vars
    PROVE  FactsInv'
<1>1. /\ Healthy /\ LogInv /\ CursorInv /\ KnownInv /\ CursorsBehind
  BY DEF FactsInv, CursorInv
<1>2. LogInv'
  BY <1>1, LogStep
<1>3. Healthy' /\ CursorInv' /\ KnownInv'
  <2>1. CASE Server \/ OpponentChooses
    <3>1. script' = script /\ net' = net /\ shadow' = shadow /\ reader' = reader
      BY <2>1 DEF Server, GameReachesChoice, AnswerArrives, OpponentChooses
    <3> QED BY <1>1, <3>1, ServerKeepsFacts
  <2>2. CASE \E how \in {"closed", "dropped"} : ConnectionBreaks(how)
    <3>1. script' = script /\ net' = net /\ shadow' = shadow /\ reader' = reader
      BY <2>2 DEF ConnectionBreaks
    <3> QED BY <1>1, <3>1, ServerKeepsFacts
  <2>3. CASE ReaderStep
    BY <1>1, <2>3, FilingKeepsFacts, PushChoiceKeepsFacts, ReaderKeepsFacts DEF ReaderStep
  <2>4. CASE GameThread \/ WakeUp
    <3>1. CursorInv' /\ KnownInv'
      BY <1>1, <2>4, GameThreadKeepsCursors, GameThreadKeepsKnown
    <3>2. reader' = reader
      BY <2>4, GameThreadLeaves
    <3> QED BY <1>1, <3>1, <3>2 DEF Healthy
  <2>5. CASE UNCHANGED vars
    <3>1. script' = script /\ net' = net /\ shadow' = shadow /\ reader' = reader
      BY <2>5 DEF vars
    <3> QED BY <1>1, <3>1, ServerKeepsFacts
  <2> QED BY <2>1, <2>2, <2>3, <2>4, <2>5 DEF Next
<1> QED BY <1>2, <1>3 DEF FactsInv

\* In a game without digs the log, the cursors and what was applied fit the golden
\* game in every reachable state: the log holds what happened up to the last
\* question that was read, the cursors have passed what was applied and nothing
\* else, and the choices of the opponent have what came before them in the log
\* (the eager arms and apply_choice_buffer of the reader, apply_state_sync).
THEOREM FactsInvariant == NoDigs => (Spec => []FactsInv)
<1> SUFFICES ASSUME NoDigs PROVE Spec => []FactsInv
  OBVIOUS
<1>1. Init => FactsInv
  BY FactsInit
<1>2. ChoicesInv /\ FactsInv /\ [Next]_vars => FactsInv'
  BY FactsStep
<1> QED BY <1>1, <1>2, ChoicesInvariant, PTL DEF Spec

\* In a game without digs no fact arrives behind its cursor, so the reader never
\* panics, and every fact a cursor has passed was applied (push_state_sync_at's
\* assertions, apply_state_sync_up_to_frontier).
THEOREM NothingIsLost == NoDigs => (Spec => []NoDeltaIsLost)
<1> SUFFICES ASSUME NoDigs PROVE Spec => []NoDeltaIsLost
  OBVIOUS
<1>1. ASSUME TypeOK, FactsInv PROVE NoDeltaIsLost
  <2>1. reader.phase # "panicked"
    BY <1>1 DEF FactsInv, Healthy
  <2>2. net.log \subseteq Facts
    BY <1>1 DEF TypeOK, Nets
  <2>3. AppliedIsPassed
    BY <1>1 DEF FactsInv, CursorInv
  <2> QED BY <2>1, <2>2, <2>3 DEF NoDeltaIsLost, AppliedIsPassed
<1> QED BY <1>1, TypeCorrect, FactsInvariant, PTL

\* In a game without digs the shadow follows the golden game: what it decides or
\* replays it does in its place and knowing all that came before, it applies each
\* fact once, in order and no library order early, and it fetches the card that
\* was found (the second pass of apply_choice_buffer, the synchronisation before
\* each choice, searched_card_for).
THEOREM FollowsTheServer == NoDigs => (Spec => []FollowsInOrder)
<1> SUFFICES ASSUME NoDigs PROVE Spec => []FollowsInOrder
  OBVIOUS
<1>1. ASSUME ChoicesInv, FactsInv PROVE FollowsInOrder
  <2>1. KnownInTime /\ AppliedOnceInOrder /\ FoundCardIsTheServers
    BY <1>1 DEF FactsInv, CursorInv, KnownInv
  <2>2. ReordersNotEarly
    <3>1. /\ net.log \subseteq Facts /\ shadow.applied \in Seq(Facts)
          /\ net.reorderCursor \in Int /\ shadow.pos \in Int /\ \A f \in Facts : f.ac \in Int
      <4>1. net \in Nets /\ shadow \in Shadows
        BY <1>1 DEF ChoicesInv, TypeOK
      <4> QED BY <4>1, SyncAssumption DEF Nets, Shadows, Facts
    <3>2. AppliedIsPassed /\ net.reorderCursor <= shadow.pos
      BY <1>1 DEF FactsInv, CursorInv, CursorsBehind
    <3>3. Applied \subseteq Facts
      BY <3>1 DEF Applied, ToSet
    <3>4. ASSUME NEW f \in Applied, f.kind = "reorder" PROVE f.ac <= shadow.pos
      <4>1. f.ac <= net.reorderCursor
        BY <3>2, <3>3, <3>4 DEF AppliedIsPassed
      <4> QED BY <3>1, <3>2, <3>3, <4>1
    <3> QED BY <3>4 DEF ReordersNotEarly
  <2>3. ChoicesInPlace
    BY <1>1, Zenon DEF ChoicesInv, ShadowPlace, Waits, ChoicesInPlace
  <2> QED BY <2>1, <2>2, <2>3 DEF FollowsInOrder
<1> QED BY <1>1, ChoicesInvariant, FactsInvariant, PTL
=============================================================================
