--------------------------- MODULE TurnLoopProofs ---------------------------
(***************************************************************************)
(* Proofs about TurnLoop.tla for any decks and bounds: types, no step and  *)
(* no turn ends before both players have passed, no spell resolves         *)
(* unanswered, and as many combat phases as were granted.                  *)
(***************************************************************************)
EXTENDS TurnLoop, SequenceTheorems, FiniteSetTheorems,
        WellFoundedInduction, TLAPS

\* A turn that goes on is within the limit.
TurnsLeft ==
    pc \in {"step", "round", "normalDamage", "advance"} => elapsed < MaxTurns

\* In a round somebody has priority, and a pass is a pass of the other one.
RoundInv ==
    pc = "round" =>
        /\ turn.priority \in Players
        /\ turn.passes = 1 => Other(turn.priority) \in quiet
        /\ turn.passes = 2 => quiet = Players

\* Outside a round nothing of it is left.
BetweenRounds ==
    pc \in {"turn", "step", "normalDamage", "advance"} =>
        /\ game.stack = <<>>
        /\ turn.priority = None /\ turn.passes = 0

\* A step that is about to end had its round, if it has one.
RoundHeld == pc = "advance" /\ HasRound => quiet = Players

\* The second part of the damage belongs to the combat damage step.
SecondDamage ==
    pc = "normalDamage" \/ (pc = "round" /\ round.next = "normalDamage")
        => turn.step = "CombatDamage"

QuietInv == RoundInv /\ BetweenRounds /\ RoundHeld /\ SecondDamage

\* Spells that grant a combat phase wait on the stack of a main phase only.
GrantsInMain == \A c \in OnStack(game) : c \in Assaults => IsMain(turn.step)

\* Every combat phase granted in time is begun or still to come.
Combats(begun) ==
    CASE turn.step \in {"Untap", "Upkeep", "Draw", "Main1"} ->
            /\ combats.begun = 0
            /\ game.extraCombats = combats.granted
      [] turn.step \in {"Main2", "End", "Cleanup"} ->
            combats.begun = 1 + combats.granted
      [] OTHER -> combats.begun + game.extraCombats = begun + combats.granted

CombatsInv ==
    /\ GrantsInMain
    /\ pc = "turn" => turn.step = "Untap" /\ game.extraCombats = 0
    /\ pc # "turn" /\ ~(pc = "over" /\ turn.step = "Untap") =>
         Combats(IF pc = "step" /\ turn.step = "BeginCombat" THEN 0 ELSE 1)

LoopInv == TypeOK /\ TurnsLeft /\ QuietInv /\ CombatsInv

-----------------------------------------------------------------------------
\* A non-empty set of natural numbers has a least element.
LEMMA LeastNat ==
    ASSUME NEW T, T \subseteq Nat, T # {}
    PROVE  \E x \in T : \A y \in T : x <= y
<1>1. PICK x \in T : \A y \in T : ~ (<<y, x>> \in OpToRel(<, Nat))
  BY NatLessThanWellFounded, WFMin, Zenon
<1>2. \A y \in T : ~ (y < x)
  BY <1>1 DEF OpToRel
<1> QED BY <1>2

\* The cards of a zone, as a set.
Members(s) == {s[k] : k \in DOMAIN s}

\* Taking a card out of a zone leaves a zone with no other card in it.
LEMMA TakeOutKeeps ==
    ASSUME NEW S, NEW s \in Seq(S), NEW c
    PROVE  TakeOut(s, c) \in Seq(S) /\ Members(TakeOut(s, c)) \subseteq Members(s)
<1>1. CASE \A i \in DOMAIN s : s[i] # c
  BY <1>1 DEF TakeOut, Members
<1>2. CASE ~ \A i \in DOMAIN s : s[i] # c
  <2> DEFINE IsFirst(i) == s[i] = c /\ \A j \in DOMAIN s : s[j] = c => i <= j
             i == CHOOSE i \in DOMAIN s : IsFirst(i)
             T == {k \in DOMAIN s : s[k] = c}
  <2>1. T # {} /\ T \subseteq Nat
    BY <1>2
  <2>2. \E k \in DOMAIN s : IsFirst(k)
    <3>1. PICK k \in T : \A j \in T : k <= j
      <4> HIDE DEF T
      <4> QED BY <2>1, LeastNat, Zenon
    <3> QED BY <3>1
  <2>3. i \in DOMAIN s
    BY <2>2
  <2>4. TakeOut(s, c) = SubSeq(s, 1, i - 1) \o SubSeq(s, i + 1, Len(s))
    BY <1>2 DEF TakeOut
  <2> HIDE DEF i
  <2> DEFINE a == SubSeq(s, 1, i - 1)
             b == SubSeq(s, i + 1, Len(s))
             R == {s[k] : k \in DOMAIN s}
  <2>5. s \in Seq(R) /\ i \in 1..Len(s) /\ Len(s) \in Nat
    BY <2>3
  <2>6. a \in Seq(R) /\ a \in Seq(S)
    BY <2>5
  <2>7. b \in Seq(R) /\ b \in Seq(S)
    BY <2>5
  <2> HIDE DEF a, b, R
  <2>8. a \o b \in Seq(R) /\ a \o b \in Seq(S)
    BY <2>6, <2>7
  <2>9. \A k \in DOMAIN (a \o b) : (a \o b)[k] \in R
    BY <2>8
  <2> QED BY <2>4, <2>8, <2>9 DEF a, b, R, Members
<1> QED BY <1>1, <1>2

\* The stack after taking a card out of it, as a set.
LEMMA StackAfterTakeOut ==
    ASSUME NEW g \in GameStates, NEW c
    PROVE  /\ TakeOut(g.stack, c) \in Seq(Cards)
           /\ \A h : h.stack = TakeOut(g.stack, c) => OnStack(h) \subseteq OnStack(g)
<1> DEFINE s == g.stack
<1>1. s \in Seq(Cards)
  BY DEF GameStates
<1>2. OnStack(g) = Members(s) /\ \A h : OnStack(h) = Members(h.stack)
  BY Zenon DEF OnStack, Members
<1> HIDE DEF s
<1>3. TakeOut(s, c) \in Seq(Cards) /\ Members(TakeOut(s, c)) \subseteq Members(s)
  BY <1>1, TakeOutKeeps, Zenon
<1>4. \A h : h.stack = TakeOut(s, c) => OnStack(h) \subseteq OnStack(g)
  BY <1>2, <1>3, Zenon
<1> QED BY <1>3, <1>4, Zenon DEF s

\* What the step handlers do to the game keeps its types, and neither the
\* stack nor the extra combats change.
SameSpells(g, h) ==
    /\ h \in GameStates
    /\ h.stack = g.stack
    /\ h.extraCombats = g.extraCombats

\* Replacing one player's record touches neither stack nor extra combats.
LEMMA PlayerChange ==
    ASSUME NEW g \in GameStates, NEW p \in Players, NEW s \in PlayerStates
    PROVE  /\ SameSpells(g, [g EXCEPT !.pl[p] = s])
           /\ \A D \in SUBSET Players :
                SameSpells(g, [g EXCEPT !.delayed = D, !.pl[p] = s])
BY DEF GameStates, SameSpells

\* Nor does replacing every player's record.
LEMMA PlayersChange ==
    ASSUME NEW g \in GameStates, NEW f \in [Players -> PlayerStates]
    PROVE  SameSpells(g, [g EXCEPT !.pl = f])
BY DEF GameStates, SameSpells

\* The updates of one player's record, each to a value of its type.
LEMMA PlayerFields ==
    ASSUME NEW r \in PlayerStates, NEW b \in BOOLEAN
    PROVE  /\ [r EXCEPT !.life = @ - 1] \in PlayerStates
           /\ [r EXCEPT !.tapped = TRUE] \in PlayerStates
           /\ [r EXCEPT !.protected = TRUE] \in PlayerStates
           /\ [r EXCEPT !.drawn = 0, !.tapped = FALSE] \in PlayerStates
           /\ [r EXCEPT !.lands = 0] \in PlayerStates
           /\ [r EXCEPT !.lands = @ + 1] \in PlayerStates
           /\ [r EXCEPT !.pool = 0, !.protected = FALSE] \in PlayerStates
           /\ [r EXCEPT !.pool = 0, !.lands = IF b THEN 0 ELSE @] \in PlayerStates
           /\ [r EXCEPT !.pool = @ + IF b THEN 1 ELSE 0] \in PlayerStates
           /\ Drawing(r) \in PlayerStates
           /\ \A m \in Nat : m <= r.fresh =>
                [r EXCEPT !.fresh = @ - m] \in PlayerStates
<1> USE DEF PlayerStates
<1>1. /\ r.life - 1 \in Int /\ r.lands + 1 \in Nat
      /\ (r.pool + IF b THEN 1 ELSE 0) \in Nat
      /\ r.fresh + 1 \in Nat /\ r.drawn + 1 \in Nat
      /\ r.library # 0 => r.library - 1 \in Nat
      /\ \A m \in Nat : m <= r.fresh => r.fresh - m \in Nat
  OBVIOUS
<1>2. Drawing(r) \in PlayerStates
  <2>1. CASE r.library = 0
    BY <2>1 DEF Drawing
  <2>2. CASE r.library # 0
    <3>1. [r EXCEPT !.library = @ - 1, !.fresh = @ + 1, !.drawn = @ + 1]
            \in PlayerStates
      BY <1>1, <2>2
    <3> QED BY <2>2, <3>1 DEF Drawing
  <2> QED BY <2>1, <2>2
<1>3. /\ [r EXCEPT !.life = @ - 1] \in PlayerStates
      /\ [r EXCEPT !.tapped = TRUE] \in PlayerStates
      /\ [r EXCEPT !.protected = TRUE] \in PlayerStates
  BY <1>1
<1>4. /\ [r EXCEPT !.drawn = 0, !.tapped = FALSE] \in PlayerStates
      /\ [r EXCEPT !.lands = 0] \in PlayerStates
      /\ [r EXCEPT !.lands = @ + 1] \in PlayerStates
  BY <1>1
<1>5. /\ [r EXCEPT !.pool = 0, !.protected = FALSE] \in PlayerStates
      /\ [r EXCEPT !.pool = 0, !.lands = IF b THEN 0 ELSE @] \in PlayerStates
      /\ [r EXCEPT !.pool = @ + IF b THEN 1 ELSE 0] \in PlayerStates
  BY <1>1
<1>6. \A m \in Nat : m <= r.fresh => [r EXCEPT !.fresh = @ - m] \in PlayerStates
  BY <1>1
<1> HIDE DEF PlayerStates
<1> QED BY <1>2, <1>3, <1>4, <1>5, <1>6

\* Losing life and tapping a creature are changes of one player's record.
LEMMA LifeAndTap ==
    ASSUME NEW g \in GameStates, NEW p \in Players
    PROVE  SameSpells(g, LoseLife(g, p)) /\ SameSpells(g, Tap(g, p))
<1>1. g.pl[p] \in PlayerStates
  BY DEF GameStates
<1>2. /\ [g.pl[p] EXCEPT !.life = @ - 1] \in PlayerStates
      /\ [g.pl[p] EXCEPT !.tapped = TRUE] \in PlayerStates
  BY <1>1, PlayerFields
<1> QED BY <1>2, PlayerChange DEF LoseLife, Tap

\* So are the draw, the reset at a turn's start, the delayed triggers, the
\* damage and the end of the turn.
LEMMA StepChange ==
    ASSUME NEW g \in GameStates, NEW p \in Players, NEW b \in BOOLEAN,
           turn.active \in Players
    PROVE  /\ SameSpells(g, ResetTurnState(g, p))
           /\ SameSpells(g, DrawCard(g, p))
           /\ SameSpells(g, FireDelayed(g, p))
           /\ SameSpells(g, DealCombatDamage(g, b))
           /\ SameSpells(g, EndThisTurn(g))
<1>1. \A q \in Players : g.pl[q] \in PlayerStates
  BY DEF GameStates
<1>2. SameSpells(g, ResetTurnState(g, p))
  <2>1. \A q \in Players :
          [g.pl[q] EXCEPT !.pool = 0, !.lands = IF q = p THEN 0 ELSE @]
            \in PlayerStates
    BY <1>1, PlayerFields
  <2> DEFINE f == [q \in Players |->
        [g.pl[q] EXCEPT !.pool = 0, !.lands = IF q = p THEN 0 ELSE @]]
  <2>2. f \in [Players -> PlayerStates]
    BY <2>1
  <2>3. ResetTurnState(g, p) = [g EXCEPT !.pl = f]
    BY DEF ResetTurnState
  <2> HIDE DEF f
  <2> QED BY <2>2, <2>3, PlayersChange
<1>3. SameSpells(g, DrawCard(g, p))
  <2>1. Drawing(g.pl[p]) \in PlayerStates
    BY <1>1, PlayerFields
  <2> QED BY <2>1, PlayerChange DEF DrawCard
<1>4. SameSpells(g, FireDelayed(g, p))
  <2> DEFINE s == [g.pl[p] EXCEPT !.pool = @ + IF p \in g.delayed THEN 1 ELSE 0]
  <2>1. s \in PlayerStates
    BY <1>1, PlayerFields
  <2>2. g.delayed \ {p} \in SUBSET Players
    BY DEF GameStates
  <2>3. FireDelayed(g, p) = [g EXCEPT !.delayed = g.delayed \ {p}, !.pl[p] = s]
    BY Zenon DEF FireDelayed
  <2> DEFINE D == g.delayed \ {p}
  <2> HIDE DEF s, D
  <2>4. D \in SUBSET Players /\ FireDelayed(g, p) = [g EXCEPT !.delayed = D, !.pl[p] = s]
    BY <2>2, <2>3 DEF D
  <2>5. SameSpells(g, [g EXCEPT !.delayed = D, !.pl[p] = s])
    BY <2>1, <2>4, PlayerChange
  <2> QED BY <2>4, <2>5
<1>5. SameSpells(g, DealCombatDamage(g, b))
  <2>1. Other(turn.active) \in Players
    BY DEF Other, Players
  <2>2. SameSpells(g, LoseLife(g, Other(turn.active)))
    BY <2>1, LifeAndTap
  <2> QED BY <2>2 DEF DealCombatDamage, SameSpells
<1>6. SameSpells(g, EndThisTurn(g))
  <2>1. \A q \in Players :
          [g.pl[q] EXCEPT !.pool = 0, !.protected = FALSE] \in PlayerStates
    BY <1>1, PlayerFields
  <2> DEFINE f == [q \in Players |-> [g.pl[q] EXCEPT !.pool = 0, !.protected = FALSE]]
  <2>2. f \in [Players -> PlayerStates]
    BY <2>1
  <2>3. EndThisTurn(g) = [g EXCEPT !.pl = f]
    BY DEF EndThisTurn
  <2> HIDE DEF f
  <2> QED BY <2>2, <2>3, PlayersChange
<1> QED BY <1>2, <1>3, <1>4, <1>5, <1>6

\* A hand is finite, so its size is a number.
LEMMA HandSizes ==
    ASSUME NEW g \in GameStates, NEW p \in Players
    PROVE  /\ HandSize(g, p) \in Nat
           /\ \A D \in SUBSET Hand(g, p) : Cardinality(D) \in Nat
<1>1. \A D \in SUBSET Cards : IsFiniteSet(D) /\ Cardinality(D) \in Nat
  BY LoopAssumption, FS_Subset, FS_CardinalityType
<1>2. Hand(g, p) \in SUBSET Cards
  BY DEF Hand
<1>3. g.pl[p].fresh \in Nat
  BY DEF GameStates, PlayerStates
<1> QED BY <1>1, <1>2, <1>3 DEF HandSize

\* A discard moves cards to the graveyard and counts down the hand.
LEMMA DiscardChange ==
    ASSUME NEW g \in GameStates, NEW p \in Players, NEW n \in Nat,
           NEW h \in Discards(g, p, n)
    PROVE  SameSpells(g, h)
<1>1. PICK D \in SUBSET Hand(g, p) :
        /\ Cardinality(D) <= n
        /\ n - Cardinality(D) <= g.pl[p].fresh
        /\ h = [g EXCEPT !.zone = [c \in Cards |-> IF c \in D THEN "grave" ELSE @[c]],
                         !.pl[p].fresh = @ - (n - Cardinality(D))]
  BY DEF Discards
<1>2. Cardinality(D) \in Nat
  BY HandSizes
<1> DEFINE m == n - Cardinality(D)
<1>3. m \in Nat /\ m <= g.pl[p].fresh
  BY <1>1, <1>2
<1> HIDE DEF m
<1> DEFINE z == [c \in Cards |-> IF c \in D THEN "grave" ELSE g.zone[c]]
           s == [g.pl[p] EXCEPT !.fresh = @ - m]
<1>4. h = [g EXCEPT !.zone = z, !.pl[p] = s]
  BY <1>1 DEF m
<1>5. z \in [Cards -> {"hand", "stack", "field", "grave"}]
  BY DEF GameStates
<1>6. s \in PlayerStates
  <2>1. g.pl[p] \in PlayerStates
    BY DEF GameStates
  <2> QED BY <1>3, <2>1, PlayerFields
<1> HIDE DEF z, s
<1> QED BY <1>4, <1>5, <1>6 DEF GameStates, SameSpells

\* A card has the effect of one kind.
LEMMA KindsAreDisjoint ==
    ASSUME NEW c
    PROVE  /\ c \in Bolts => c \notin Counters \cup Regrowths \cup Walks
                                        \cup Assaults \cup Loots
           /\ c \in Counters => c \notin Regrowths \cup Walks \cup Assaults \cup Loots
           /\ c \in Regrowths => c \notin Walks \cup Assaults \cup Loots
           /\ c \in Walks => c \notin Assaults \cup Loots
           /\ c \in Assaults => c \notin Loots
<1>1. /\ Kinds[1] = Bolts /\ Kinds[2] = Counters /\ Kinds[3] = Regrowths
      /\ Kinds[4] = Walks /\ Kinds[5] = Assaults /\ Kinds[6] = Loots
      /\ DOMAIN Kinds = 1..6
  BY DEF Kinds
<1>2. \A i, j \in 1..6 : i # j => Kinds[i] \cap Kinds[j] = {}
  BY <1>1, LoopAssumption
<1>3. /\ \A j \in 2..6 : Kinds[1] \cap Kinds[j] = {}
      /\ \A j \in 3..6 : Kinds[2] \cap Kinds[j] = {}
      /\ \A j \in 4..6 : Kinds[3] \cap Kinds[j] = {}
      /\ \A j \in 5..6 : Kinds[4] \cap Kinds[j] = {}
      /\ Kinds[5] \cap Kinds[6] = {}
  BY <1>2
<1> QED BY <1>1, <1>3

\* Executing a spell's effects: types, no new spell on the stack, and only a
\* spell of Assaults grants a combat.
LEMMA EffectsChange ==
    ASSUME NEW g \in GameStates, NEW c \in Cards, NEW t \in Targets,
           NEW h \in Effects(g, c, t), turn.active \in Players
    PROVE  /\ h \in GameStates
           /\ OnStack(h) \subseteq OnStack(g)
           /\ h.extraCombats = g.extraCombats + IF c \in Assaults THEN 1 ELSE 0
<1> DEFINE Good(k, n) == /\ k \in GameStates
                         /\ OnStack(k) \subseteq OnStack(g)
                         /\ k.extraCombats = g.extraCombats + n
<1>0. /\ g.extraCombats \in Nat /\ Good(g, 0)
      /\ \A k : SameSpells(g, k) => Good(k, 0)
  BY DEF GameStates, SameSpells, OnStack
<1>1. Owner(c) \in Players
  BY DEF Owner, Players
<1>2. CASE c \in Bolts
  <2>1. h \in {IF t \in Players THEN LoseLife(g, t) ELSE g}
    BY <1>2, KindsAreDisjoint DEF Effects
  <2>2. Good(h, 0)
    BY <1>0, <2>1, LifeAndTap
  <2> QED BY <1>2, <2>2, KindsAreDisjoint
<1>3. CASE c \in Counters /\ c \notin Bolts
  <2>1. h \in {IF t \in OnStack(g)
               THEN [CounterSpell(g, t) EXCEPT
                     !.delayed = IF c \in Drains THEN @ \cup {Owner(c)} ELSE @]
               ELSE g}
    BY <1>3, KindsAreDisjoint DEF Effects
  <2>2. ASSUME t \in OnStack(g) PROVE Good(h, 0)
    <3>1. CounterSpell(g, t) \in GameStates
      BY StackAfterTakeOut DEF CounterSpell, GameStates
    <3>2. /\ CounterSpell(g, t).stack = TakeOut(g.stack, t)
          /\ CounterSpell(g, t).extraCombats = g.extraCombats
      BY DEF CounterSpell, GameStates
    <3>3. h \in GameStates /\ h.stack = TakeOut(g.stack, t)
          /\ h.extraCombats = g.extraCombats
      <4> DEFINE k == CounterSpell(g, t)
                 D == IF c \in Drains THEN k.delayed \cup {Owner(c)} ELSE k.delayed
      <4>1. h = [k EXCEPT !.delayed = D]
        BY <2>1, <2>2
      <4>2. D \in SUBSET Players
        BY <1>1, <3>1 DEF GameStates
      <4> HIDE DEF D, k
      <4>3. /\ h \in GameStates /\ h.stack = k.stack
            /\ h.extraCombats = k.extraCombats
        BY <3>1, <4>1, <4>2 DEF GameStates, k
      <4> QED BY <3>2, <4>3 DEF k
    <3>4. OnStack(h) \subseteq OnStack(g)
      BY <3>3, StackAfterTakeOut
    <3> QED BY <1>0, <3>3, <3>4
  <2>3. Good(h, 0)
    BY <1>0, <2>1, <2>2
  <2> QED BY <1>3, <2>3, KindsAreDisjoint
<1>4. CASE c \in Regrowths /\ c \notin Bolts \cup Counters
  <2>1. h \in {IF t \in Cards /\ g.zone[t] = "grave"
               THEN [g EXCEPT !.zone[t] = "hand"] ELSE g}
    BY <1>4, KindsAreDisjoint DEF Effects
  <2>2. ASSUME t \in Cards /\ g.zone[t] = "grave" PROVE SameSpells(g, h)
    <3> DEFINE z == [g.zone EXCEPT ![t] = "hand"]
    <3>1. z \in [Cards -> {"hand", "stack", "field", "grave"}]
      BY DEF GameStates
    <3>2. h = [g EXCEPT !.zone = z]
      BY <2>1, <2>2
    <3> HIDE DEF z
    <3> QED BY <3>1, <3>2 DEF SameSpells, GameStates
  <2>3. SameSpells(g, h)
    BY <1>0, <2>1, <2>2 DEF SameSpells
  <2> QED BY <1>0, <1>4, <2>3, KindsAreDisjoint
<1>5. CASE c \in Walks /\ c \notin Bolts \cup Counters \cup Regrowths
  <2>1. h = [g EXCEPT !.extraTurns = Append(@, Owner(c))]
    BY <1>5, KindsAreDisjoint DEF Effects
  <2>2. Append(g.extraTurns, Owner(c)) \in Seq(Players)
    BY <1>1 DEF GameStates
  <2>3. h \in GameStates
    <3> DEFINE e == Append(g.extraTurns, Owner(c))
    <3>1. h = [g EXCEPT !.extraTurns = e]
      BY <2>1
    <3> HIDE DEF e
    <3> QED BY <2>2, <3>1 DEF GameStates, e
  <2>4. SameSpells(g, h)
    BY <2>1, <2>3 DEF SameSpells, GameStates
  <2> QED BY <1>0, <1>5, <2>4, KindsAreDisjoint
<1>6. CASE c \in Assaults
  <2>1. h = [g EXCEPT !.extraCombats = @ + 1]
    BY <1>6, KindsAreDisjoint DEF Effects
  <2>2. g.extraCombats + 1 \in Nat
    BY DEF GameStates
  <2>3. h \in GameStates /\ h.stack = g.stack
        /\ h.extraCombats = g.extraCombats + 1
    BY <2>1, <2>2 DEF GameStates
  <2>4. OnStack(h) \subseteq OnStack(g)
    BY <2>3 DEF OnStack
  <2> QED BY <1>6, <2>3, <2>4
<1>7. CASE c \in Loots /\ c \notin Bolts \cup Counters \cup Regrowths \cup Walks
  <2> DEFINE d == DrawCard(g, Owner(c))
             n == IF HandSize(d, Owner(c)) > 0 THEN 1 ELSE 0
  <2>1. h \in Discards(d, Owner(c), n)
    BY <1>7, KindsAreDisjoint DEF Effects
  <2>2. SameSpells(g, d) /\ n \in Nat
    BY <1>1, StepChange
  <2> HIDE DEF d, n
  <2>3. SameSpells(d, h)
    BY <1>1, <2>1, <2>2, DiscardChange DEF SameSpells
  <2>4. SameSpells(g, h)
    BY <2>2, <2>3 DEF SameSpells
  <2> QED BY <1>0, <1>7, <2>4, KindsAreDisjoint
<1>8. CASE c \notin Bolts \cup Counters \cup Regrowths \cup Walks \cup Loots
                   \cup Assaults
  <2>1. h = g
    BY <1>8, KindsAreDisjoint DEF Effects
  <2> QED BY <1>0, <1>8, <2>1
<1> QED BY <1>2, <1>3, <1>4, <1>5, <1>6, <1>7, <1>8

-----------------------------------------------------------------------------
\* There are two players, each the other's opponent.
LEMMA OtherPlayer ==
    ASSUME NEW p \in Players
    PROVE  /\ Other(p) \in Players /\ Other(Other(p)) = p
           /\ Players = {p, Other(p)}
BY DEF Other, Players

\* A handler that ends in a round, having changed no spell: every step but
\* the ones without a round.
LEMMA RoundEntered ==
    ASSUME LoopInv, pc \in {"step", "normalDamage"},
           NEW next \in {"advance", "normalDamage"}, EnterRound(next),
           next = "normalDamage" => turn.step = "CombatDamage",
           SameSpells(game, game'), UNCHANGED <<elapsed, chosen>>,
           combats' = IF pc = "step" /\ turn.step = "BeginCombat"
                      THEN [combats EXCEPT !.begun = @ + 1] ELSE combats
    PROVE  LoopInv'
<1> USE DEF LoopInv, EnterRound
<1>1. /\ turn' = [turn EXCEPT !.priority = turn.active]
      /\ game.stack = <<>> /\ game'.stack = <<>> /\ turn.passes = 0
      /\ game'.extraCombats = game.extraCombats /\ game' \in GameStates
  BY DEF QuietInv, BetweenRounds, SameSpells
<1>2. TypeOK'
  <2>1. MaxActions \in Nat
    BY LoopAssumption
  <2>2. turn' \in [number: Nat, step: Steps, active: Players,
                   priority: Players \cup {None}, passes: 0..2]
    BY <1>1 DEF TypeOK
  <2>3. round' \in [actions: 0..MaxActions, next: {"advance", "normalDamage"}]
    BY <2>1
  <2>4. combats' \in [begun: Nat, granted: Nat]
    BY DEF TypeOK
  <2> QED BY <1>1, <2>2, <2>3, <2>4 DEF TypeOK
<1>3. TurnsLeft'
  BY DEF TurnsLeft
<1>4. QuietInv'
  BY <1>1 DEF TypeOK, QuietInv, RoundInv, BetweenRounds, RoundHeld, SecondDamage
<1>5. CombatsInv'
  <2>1. GrantsInMain'
    BY <1>1 DEF GrantsInMain, OnStack
  <2>2. turn'.step = turn.step /\ turn.step \in Steps
    BY <1>1 DEF TypeOK
  <2>3. Combats(IF pc = "step" /\ turn.step = "BeginCombat" THEN 0 ELSE 1)
    BY DEF CombatsInv
  <2>4. combats \in [begun: Nat, granted: Nat] /\ game.extraCombats \in Nat
    BY DEF TypeOK, GameStates
  <2>5. Combats(1)'
    BY <1>1, <2>2, <2>3, <2>4 DEF Combats, Steps
  <2> QED BY <2>1, <2>2, <2>5 DEF CombatsInv
<1> QED BY <1>2, <1>3, <1>4, <1>5

\* A handler without a round.
LEMMA RoundSkipped ==
    ASSUME LoopInv, pc = "step", SkipRound, ~HasRound,
           turn.step # "BeginCombat",
           SameSpells(game, game'), UNCHANGED <<elapsed, chosen, combats>>
    PROVE  LoopInv'
<1> USE DEF LoopInv, SkipRound
<1>1. /\ game'.stack = game.stack /\ game'.extraCombats = game.extraCombats
      /\ game' \in GameStates
  BY DEF SameSpells
<1>2. TypeOK'
  BY <1>1 DEF TypeOK
<1>3. TurnsLeft'
  BY DEF TurnsLeft
<1>4. QuietInv'
  BY <1>1 DEF QuietInv, RoundInv, BetweenRounds, RoundHeld, SecondDamage, HasRound
<1>5. CombatsInv'
  BY <1>1 DEF CombatsInv, GrantsInMain, OnStack, Combats
<1> QED BY <1>2, <1>3, <1>4, <1>5

\* A player lost in the middle of the combat damage step.
LEMMA DamageEndsGame ==
    ASSUME LoopInv, pc \in {"step", "normalDamage"}, pc' = "over",
           turn.step # "BeginCombat", turn.step # "Untap",
           SameSpells(game, game'),
           UNCHANGED <<turn, round, quiet, elapsed, chosen, combats>>
    PROVE  LoopInv'
<1> USE DEF LoopInv
<1>1. /\ game'.stack = game.stack /\ game'.extraCombats = game.extraCombats
      /\ game' \in GameStates
  BY DEF SameSpells
<1>2. TypeOK'
  BY <1>1 DEF TypeOK
<1>3. TurnsLeft' /\ QuietInv'
  BY DEF TurnsLeft, QuietInv, RoundInv, BetweenRounds, RoundHeld, SecondDamage
<1>4. CombatsInv'
  BY <1>1 DEF CombatsInv, GrantsInMain, OnStack, Combats
<1> QED BY <1>2, <1>3, <1>4

\* A decision in a round: what it leaves of the round, and of the stack.
LEMMA Decided ==
    ASSUME LoopInv, Deciding, CountAction,
           turn' \in [number: Nat, step: Steps, active: Players,
                      priority: Players, passes: 0..2],
           turn'.number = turn.number, turn'.step = turn.step,
           quiet' \subseteq Players,
           turn'.passes = 1 => Other(turn'.priority) \in quiet',
           turn'.passes = 2 => quiet' = Players,
           game' \in GameStates, game'.extraCombats = game.extraCombats,
           \A c \in OnStack(game') :
              c \in OnStack(game) \/ (c \in Assaults => IsMain(turn.step)),
           chosen' \in [Cards -> Targets],
           UNCHANGED <<pc, elapsed, combats>>
    PROVE  LoopInv'
<1> USE DEF LoopInv, Deciding
<1>1. TypeOK'
  <2>1. MaxActions \in Nat
    BY LoopAssumption
  <2>2. round' \in [actions: 0..MaxActions, next: {"advance", "normalDamage"}]
    BY <2>1 DEF CountAction, TypeOK
  <2> QED BY <2>2 DEF TypeOK
<1>2. TurnsLeft' /\ QuietInv'
  <2>1. round'.next = round.next
    BY DEF CountAction, TypeOK
  <2> QED BY <2>1 DEF TurnsLeft, QuietInv, RoundInv, BetweenRounds, RoundHeld,
                      SecondDamage
<1>3. CombatsInv'
  <2>1. GrantsInMain'
    BY DEF CombatsInv, GrantsInMain
  <2>2. Combats(1) /\ Combats(1)' = Combats(1)
    BY DEF CombatsInv, Combats
  <2> QED BY <2>1, <2>2 DEF CombatsInv
<1> QED BY <1>1, <1>2, <1>3

\* While a decision is due somebody holds priority.
LEMMA Holding ==
    ASSUME LoopInv, Deciding
    PROVE  /\ Holder \in Players /\ Holder = turn.priority
           /\ turn \in [number: Nat, step: Steps, active: Players,
                        priority: Players, passes: 0..2]
           /\ turn.passes \in 0..1
           /\ turn.passes = 1 => Other(Holder) \in quiet
           /\ quiet \subseteq Players
           /\ game \in GameStates /\ chosen \in [Cards -> Targets]
<1>1. turn.passes \in 0..2 /\ turn.passes < 2
  BY DEF LoopInv, Deciding, TypeOK
<1> QED BY <1>1 DEF LoopInv, Deciding, Holder, TypeOK, QuietInv, RoundInv

\* Passes and priority are all a decision changes of the turn.
LEMMA TurnChange ==
    ASSUME NEW k \in 0..2, NEW q \in Players, LoopInv, Deciding
    PROVE  LET t == [turn EXCEPT !.passes = k, !.priority = q]
           IN  /\ t \in [number: Nat, step: Steps, active: Players,
                         priority: Players, passes: 0..2]
               /\ t.number = turn.number /\ t.step = turn.step
               /\ t.passes = k /\ t.priority = q
<1>1. turn \in [number: Nat, step: Steps, active: Players,
                priority: Players, passes: 0..2]
  BY Holding
<1> QED BY <1>1

\* A pass, or a failed action that counts as one.
LEMMA PassKeeps ==
    ASSUME LoopInv, Pass \/ FailedAction
    PROVE  LoopInv'
<1>1. Deciding /\ CountAction
  BY DEF Pass, FailedAction
<1>2. Other(Holder) \in Players /\ Other(Other(Holder)) = Holder
      /\ Players = {Holder, Other(Holder)}
  BY <1>1, Holding, OtherPlayer
<1>3. CASE Pass
  <2>1. turn' = [turn EXCEPT !.passes = @ + 1, !.priority = Other(Holder)]
    BY <1>3 DEF Pass, Holder
  <2>2. /\ turn' \in [number: Nat, step: Steps, active: Players,
                      priority: Players, passes: 0..2]
        /\ turn'.number = turn.number /\ turn'.step = turn.step
        /\ turn'.passes = turn.passes + 1 /\ turn'.priority = Other(Holder)
    <3>1. turn.passes + 1 \in 0..2
      BY <1>1, Holding
    <3> QED BY <1>1, <1>2, <2>1, <3>1, TurnChange
  <2>3. quiet' = quiet \cup {Holder}
    BY <1>3 DEF Pass
  <2>4. turn'.passes = 2 => quiet' = Players
    BY <1>1, <1>2, <2>2, <2>3, Holding
  <2> QED BY <1>1, <1>2, <1>3, <2>2, <2>3, <2>4, Holding, Decided DEF Pass
<1>4. CASE FailedAction
  <2>1. turn' = [turn EXCEPT !.passes = 1, !.priority = Other(Holder)]
    BY <1>4 DEF FailedAction, Holder
  <2>2. /\ turn' \in [number: Nat, step: Steps, active: Players,
                      priority: Players, passes: 0..2]
        /\ turn'.number = turn.number /\ turn'.step = turn.step
        /\ turn'.passes = 1 /\ turn'.priority = Other(Holder)
    BY <1>1, <1>2, <2>1, TurnChange
  <2>3. quiet' = {Holder}
    BY <1>4 DEF FailedAction
  <2> QED BY <1>1, <1>2, <1>4, <2>2, <2>3, Holding, Decided DEF FailedAction
<1> QED BY <1>3, <1>4

\* After an action nobody has passed.
LEMMA ActionKeeps ==
    ASSUME LoopInv, ActAndSwitch,
           game' \in GameStates, game'.extraCombats = game.extraCombats,
           \A c \in OnStack(game') :
              c \in OnStack(game) \/ (c \in Assaults => IsMain(turn.step)),
           chosen' \in [Cards -> Targets]
    PROVE  LoopInv'
<1>1. Deciding /\ CountAction
  BY DEF ActAndSwitch
<1>2. Other(Holder) \in Players
  BY <1>1, Holding, OtherPlayer
<1>3. turn' = [turn EXCEPT !.passes = 0, !.priority = Other(Holder)]
  BY DEF ActAndSwitch, Holder
<1>4. /\ turn' \in [number: Nat, step: Steps, active: Players,
                    priority: Players, passes: 0..2]
      /\ turn'.number = turn.number /\ turn'.step = turn.step
      /\ turn'.passes = 0
  <2>1. 0 \in 0..2
    OBVIOUS
  <2> QED BY <1>1, <1>2, <1>3, <2>1, TurnChange
<1> QED BY <1>1, <1>4, Decided DEF ActAndSwitch

\* The actions that change no spell: the other player holds priority next.
LEMMA ActivateOrCycleKeeps ==
    ASSUME LoopInv, ActivateAbility \/ \E c \in Cards : Cycle(c)
    PROVE  LoopInv' /\ game'.stack = game.stack
<1>1. ActAndSwitch /\ Deciding
  BY DEF ActivateAbility, Cycle, ActAndSwitch
<1>2. /\ game \in GameStates /\ chosen \in [Cards -> Targets]
      /\ Holder \in Players /\ Other(Holder) \in Players
  BY <1>1, Holding, OtherPlayer
<1>3. ASSUME SameSpells(game, game'), UNCHANGED chosen
      PROVE  LoopInv' /\ game'.stack = game.stack
  <2>1. OnStack(game') = OnStack(game)
    BY <1>3 DEF SameSpells, OnStack
  <2> QED BY <1>1, <1>2, <1>3, <2>1, ActionKeeps DEF SameSpells
<1>4. CASE ActivateAbility
  <2>1. SameSpells(game, Tap(game, Holder))
    BY <1>2, LifeAndTap
  <2>2. SameSpells(Tap(game, Holder), game')
    BY <1>2, <1>4, <2>1, LifeAndTap DEF SameSpells, ActivateAbility
  <2>3. SameSpells(game, game')
    BY <2>1, <2>2 DEF SameSpells
  <2> QED BY <1>3, <1>4, <2>3 DEF ActivateAbility
<1>5. ASSUME NEW c \in Cards, Cycle(c)
      PROVE  LoopInv' /\ game'.stack = game.stack
  <2> DEFINE g == [game EXCEPT !.zone[c] = "grave"]
  <2>1. SameSpells(game, g)
    <3> DEFINE z == [game.zone EXCEPT ![c] = "grave"]
    <3>1. z \in [Cards -> {"hand", "stack", "field", "grave"}]
      BY <1>2 DEF GameStates
    <3>2. g = [game EXCEPT !.zone = z]
      OBVIOUS
    <3> HIDE DEF z, g
    <3> QED BY <1>2, <3>1, <3>2 DEF GameStates, SameSpells
  <2>2. game' = DrawCard(g, Holder) /\ UNCHANGED chosen
    BY <1>5 DEF Cycle
  <2> HIDE DEF g
  <2>3. turn.active \in Players
    BY DEF LoopInv, TypeOK
  <2>4. SameSpells(g, game')
    BY <1>2, <2>1, <2>2, <2>3, StepChange DEF SameSpells
  <2>5. SameSpells(game, game')
    BY <2>1, <2>4 DEF SameSpells
  <2> QED BY <1>3, <2>2, <2>5
<1> QED BY <1>4, <1>5

\* A land play: the player keeps priority, and no pass counts any more.
LEMMA PlayLandKeeps ==
    ASSUME LoopInv, NEW c \in Cards, PlayLand(c)
    PROVE  LoopInv' /\ game'.stack = game.stack
<1>1. /\ Deciding /\ CountAction
      /\ turn' = [turn EXCEPT !.passes = 0]
      /\ quiet' = {}
      /\ UNCHANGED <<pc, elapsed, chosen, combats>>
  BY DEF PlayLand
<1>2. /\ turn' \in [number: Nat, step: Steps, active: Players,
                    priority: Players, passes: 0..2]
      /\ turn'.number = turn.number /\ turn'.step = turn.step
      /\ turn'.passes = 0
  BY <1>1, Holding
<1>3. /\ game' \in GameStates /\ game'.extraCombats = game.extraCombats
      /\ game'.stack = game.stack
  <2>1. Holder \in Players /\ game \in GameStates
    BY <1>1, Holding
  <2> DEFINE z == [game.zone EXCEPT ![c] = "field"]
             s == [game.pl[Holder] EXCEPT !.lands = @ + 1]
  <2>2. z \in [Cards -> {"hand", "stack", "field", "grave"}]
    BY <2>1 DEF GameStates
  <2>3. game.pl[Holder] \in PlayerStates
    BY <2>1 DEF GameStates
  <2>4. s \in PlayerStates
    BY <2>3, PlayerFields
  <2>5. game' = [game EXCEPT !.zone = z, !.pl[Holder] = s]
    BY Zenon DEF PlayLand
  <2> HIDE DEF z, s
  <2> QED BY <2>1, <2>2, <2>4, <2>5 DEF GameStates
<1>4. OnStack(game') = OnStack(game)
  BY <1>3 DEF OnStack
<1>5. chosen' \in [Cards -> Targets]
  BY <1>1, Holding
<1> QED BY <1>1, <1>2, <1>3, <1>4, <1>5, Decided

\* A spell that grants a combat is cast in a main phase.
LEMMA CastSpellKeeps ==
    ASSUME LoopInv, NEW c \in Cards, NEW t \in Targets, CastSpell(c, t)
    PROVE  LoopInv' /\ Len(game'.stack) = Len(game.stack) + 1
<1>1. ActAndSwitch /\ Deciding /\ CanCast(Holder, c)
  BY DEF CastSpell, ActAndSwitch
<1>2. game \in GameStates /\ chosen \in [Cards -> Targets]
  BY <1>1, Holding
<1> DEFINE z == [game.zone EXCEPT ![c] = "stack"]
           s == Append(game.stack, c)
           r == [game.targets EXCEPT ![c] = Append(@, t)]
<1>3. z \in [Cards -> {"hand", "stack", "field", "grave"}]
  BY <1>2 DEF GameStates
<1>4. game.stack \in Seq(Cards) /\ s \in Seq(Cards) /\ Len(s) = Len(game.stack) + 1
  BY <1>2 DEF GameStates
<1>5. r \in [Cards -> Seq(Targets)]
  <2>1. Append(game.targets[c], t) \in Seq(Targets)
    BY <1>2 DEF GameStates
  <2> QED BY <1>2, <2>1 DEF GameStates
<1>6. game' = [game EXCEPT !.zone = z, !.stack = s, !.targets = r]
  BY Zenon DEF CastSpell
<1>7. \A d \in {s[i] : i \in DOMAIN s} : d = c \/ d \in OnStack(game)
  BY <1>4 DEF OnStack
<1> HIDE DEF z, s, r
<1>8. /\ game' \in GameStates /\ game'.extraCombats = game.extraCombats
      /\ game'.stack = s
  BY <1>2, <1>3, <1>4, <1>5, <1>6 DEF GameStates
<1>9. c \in Assaults => IsMain(turn.step)
  BY <1>1, KindsAreDisjoint DEF CanCast, SorcerySpeed, Instants
<1>10. \A d \in OnStack(game') :
         d \in OnStack(game) \/ (d \in Assaults => IsMain(turn.step))
  BY <1>7, <1>8, <1>9 DEF OnStack
<1>11. chosen' \in [Cards -> Targets]
  BY <1>2 DEF CastSpell
<1> QED BY <1>1, <1>4, <1>8, <1>10, <1>11, ActionKeeps

\* The bound on decisions ends the game in error in the middle of a round.
LEMMA TooManyActionsKeeps ==
    ASSUME LoopInv, TooManyActions
    PROVE  LoopInv'
<1> USE DEF LoopInv, TooManyActions
<1>1. TypeOK' /\ TurnsLeft'
  BY DEF TypeOK, TurnsLeft
<1>2. QuietInv'
  BY DEF QuietInv, RoundInv, BetweenRounds, RoundHeld, SecondDamage
<1>3. CombatsInv'
  BY DEF CombatsInv, GrantsInMain, OnStack, Combats
<1> QED BY <1>1, <1>2, <1>3

\* Resolving takes the spell off the stack, and grants what it grants; both
\* have passed.
LEMMA ResolveTopKeeps ==
    ASSUME LoopInv, ResolveTop
    PROVE  LoopInv' /\ quiet = Players
<1> USE DEF LoopInv
<1> DEFINE c == game.stack[Len(game.stack)]
           t == TargetOf(game, c)
           n == IF c \in Assaults THEN 1 ELSE 0
<1>1. /\ game \in GameStates /\ turn.active \in Players
      /\ combats \in [begun: Nat, granted: Nat]
      /\ turn.step \in Steps /\ game.extraCombats \in Nat
  BY DEF TypeOK, GameStates
<1>2. c \in Cards /\ c \in OnStack(game)
  <2>1. game.stack \in Seq(Cards) /\ game.stack # <<>>
    BY <1>1 DEF ResolveTop, GameStates
  <2>2. Len(game.stack) \in DOMAIN game.stack
    BY <2>1
  <2> QED BY <2>1, <2>2 DEF OnStack
<1>3. t \in Targets
  <2>1. game.targets[c] \in Seq(Targets)
    BY <1>1, <1>2 DEF GameStates
  <2>2. CASE game.targets[c] = <<>>
    BY <2>2 DEF TargetOf, Targets
  <2>3. CASE game.targets[c] # <<>>
    <3>1. Head(game.targets[c]) \in Targets
      BY <2>1, <2>3
    <3> QED BY <2>3, <3>1 DEF TargetOf
  <2> QED BY <2>2, <2>3
<1>4. PICK g \in Effects(game, c, t) :
        LET h == [g EXCEPT !.stack = TakeOut(@, c), !.zone[c] = "grave"]
        IN  game' = IF c \in Loots THEN h ELSE Forget(h, c)
  BY DEF ResolveTop
<1> HIDE DEF c, t
<1>5. /\ g \in GameStates /\ OnStack(g) \subseteq OnStack(game)
      /\ g.extraCombats = game.extraCombats + n
  BY <1>1, <1>2, <1>3, <1>4, EffectsChange
<1> DEFINE s == TakeOut(g.stack, c)
           z == [g.zone EXCEPT ![c] = "grave"]
           h == [g EXCEPT !.stack = s, !.zone = z]
<1>6. s \in Seq(Cards) /\ \A k : k.stack = s => OnStack(k) \subseteq OnStack(g)
  BY <1>5, StackAfterTakeOut
<1>7. z \in [Cards -> {"hand", "stack", "field", "grave"}]
  BY <1>2, <1>5 DEF GameStates
<1>8. game' = IF c \in Loots THEN h ELSE Forget(h, c)
  BY <1>4
<1> HIDE DEF s, z
<1>9. /\ h \in GameStates /\ h.stack = s
      /\ h.extraCombats = game.extraCombats + n
  BY <1>5, <1>6, <1>7 DEF GameStates
<1> HIDE DEF h
<1>10. /\ Forget(h, c) \in GameStates /\ Forget(h, c).stack = s
       /\ Forget(h, c).extraCombats = game.extraCombats + n
  <2> DEFINE r == [h.targets EXCEPT ![c] = <<>>]
  <2>1. <<>> \in Seq(Targets)
    OBVIOUS
  <2>2. r \in [Cards -> Seq(Targets)]
    BY <1>2, <1>9, <2>1 DEF GameStates
  <2>3. Forget(h, c) = [h EXCEPT !.targets = r]
    BY DEF Forget
  <2> HIDE DEF r
  <2> QED BY <1>9, <2>2, <2>3 DEF GameStates
<1>11. /\ game' \in GameStates /\ OnStack(game') \subseteq OnStack(game)
       /\ game'.extraCombats = game.extraCombats + n
  BY <1>5, <1>6, <1>8, <1>9, <1>10
<1>12. /\ pc = "round" /\ pc' \in {"over", "round"}
       /\ turn' = [turn EXCEPT !.passes = 0, !.priority = turn.active]
       /\ round' = [round EXCEPT !.actions = 0] /\ quiet' = {}
       /\ UNCHANGED <<elapsed, chosen>>
       /\ turn.passes = 2
  BY DEF ResolveTop, GoUnlessOver
<1>13. combats' = [combats EXCEPT !.granted =
         @ + IF c \in Assaults /\ turn.step = "Main1" THEN 1 ELSE 0]
  BY DEF ResolveTop, c
<1>14. TypeOK'
  <2>1. MaxActions \in Nat
    BY LoopAssumption
  <2>2. combats' \in [begun: Nat, granted: Nat]
    BY <1>1, <1>13
  <2>3. round' \in [actions: 0..MaxActions, next: {"advance", "normalDamage"}]
    BY <1>12, <2>1 DEF TypeOK
  <2>4. turn' \in [number: Nat, step: Steps, active: Players,
                   priority: Players \cup {None}, passes: 0..2]
    <3>1. turn \in [number: Nat, step: Steps, active: Players,
                    priority: Players \cup {None}, passes: 0..2]
      BY DEF TypeOK
    <3>2. 0 \in 0..2
      OBVIOUS
    <3> QED BY <1>1, <1>12, <3>1, <3>2
  <2>5. /\ pc' \in {"over", "round"} /\ quiet' \subseteq Players
        /\ elapsed' \in 0..MaxTurns /\ chosen' \in [Cards -> Targets]
    BY <1>12 DEF TypeOK
  <2> QED BY <1>11, <2>2, <2>3, <2>4, <2>5 DEF TypeOK
<1>15. TurnsLeft'
  BY <1>12 DEF TurnsLeft
<1>16. QuietInv' /\ quiet = Players
  <2>1. turn'.priority \in Players /\ turn'.passes = 0
    BY <1>1, <1>12 DEF TypeOK
  <2> QED BY <1>12, <2>1 DEF QuietInv, RoundInv, BetweenRounds, RoundHeld, SecondDamage
<1>17. CombatsInv'
  <2>1. GrantsInMain' /\ (c \in Assaults => IsMain(turn.step))
    BY <1>2, <1>11, <1>12 DEF CombatsInv, GrantsInMain, TypeOK
  <2>2. Combats(1) /\ turn'.step = turn.step
    BY <1>12 DEF CombatsInv, TypeOK
  <2>3. n \in {0, 1} /\ (n = 1 <=> c \in Assaults)
    OBVIOUS
  <2> HIDE DEF n
  <2>4. /\ combats'.begun = combats.begun
        /\ combats'.granted =
             combats.granted + IF n = 1 /\ turn.step = "Main1" THEN 1 ELSE 0
    BY <1>1, <1>13, <2>3
  <2>5. n = 0 \/ turn.step \in {"Main1", "Main2"}
    BY <2>1, <2>3 DEF IsMain
  <2>6. Combats(1)'
    BY <1>1, <1>11, <2>2, <2>3, <2>4, <2>5 DEF Combats, Steps
  <2>7. pc' # "turn" /\ pc' # "step"
    BY <1>12
  <2> HIDE DEF Combats
  <2> QED BY <2>1, <2>6, <2>7 DEF CombatsInv
<1> QED BY <1>14, <1>15, <1>16, <1>17

\* A round ends over an empty stack, both having passed in it.
LEMMA RoundOverKeeps ==
    ASSUME LoopInv, RoundOver
    PROVE  LoopInv'
<1> USE DEF LoopInv
<1>1. /\ pc = "round" /\ turn.passes = 2 /\ game.stack = <<>>
      /\ pc' = round.next /\ pc' \in {"advance", "normalDamage"}
      /\ turn' = [turn EXCEPT !.passes = 0, !.priority = None]
      /\ UNCHANGED <<round, game, elapsed, result, quiet, chosen, combats>>
  BY DEF RoundOver, TypeOK
<1>2. /\ turn' \in [number: Nat, step: Steps, active: Players,
                    priority: Players \cup {None}, passes: 0..2]
      /\ turn'.priority = None /\ turn'.passes = 0
      /\ turn'.step = turn.step
  <2>1. turn \in [number: Nat, step: Steps, active: Players,
                  priority: Players \cup {None}, passes: 0..2]
    BY DEF TypeOK
  <2>2. 0 \in 0..2
    OBVIOUS
  <2> QED BY <1>1, <2>1, <2>2
<1>3. TypeOK' /\ TurnsLeft'
  BY <1>1, <1>2 DEF TypeOK, TurnsLeft
<1>4. QuietInv'
  BY <1>1, <1>2 DEF QuietInv, RoundInv, BetweenRounds, RoundHeld, SecondDamage
<1>5. CombatsInv'
  <2>1. GrantsInMain'
    BY <1>1, <1>2 DEF CombatsInv, GrantsInMain, OnStack
  <2>2. Combats(1)' = Combats(1) /\ Combats(1)
    BY <1>1, <1>2 DEF CombatsInv, Combats
  <2> HIDE DEF Combats
  <2> QED BY <1>1, <2>1, <2>2 DEF CombatsInv
<1> QED BY <1>3, <1>4, <1>5

\* Only a new combat phase, the next step or the next turn follow a step.
LEMMA AdvanceStepKeeps ==
    ASSUME LoopInv, AdvanceStep
    PROVE  LoopInv' /\ game'.stack = game.stack
<1> USE DEF LoopInv
<1>1. /\ pc = "advance" /\ elapsed < MaxTurns /\ elapsed \in 0..MaxTurns
      /\ game.stack = <<>> /\ turn.passes = 0 /\ turn.priority = None
      /\ UNCHANGED <<round, result, quiet, chosen, combats>>
      /\ game \in GameStates /\ turn.step \in Steps
      /\ Combats(1)
  BY DEF AdvanceStep, TurnsLeft, TypeOK, QuietInv, BetweenRounds, CombatsInv
<1>2. CASE turn.step = "Cleanup"
  <2> DEFINE p == NextPlayer(game)
             e == IF game.extraTurns = <<>> THEN <<>> ELSE Tail(game.extraTurns)
             s == [game.pl[p] EXCEPT !.lands = 0]
  <2>1. p \in Players /\ e \in Seq(Players)
    <3>1. game.extraTurns \in Seq(Players)
      BY <1>1 DEF GameStates
    <3>2. turn.active \in Players /\ Other(turn.active) \in Players
      BY OtherPlayer DEF TypeOK
    <3> QED BY <3>1, <3>2 DEF NextPlayer
  <2>2. s \in PlayerStates
    BY <1>1, <2>1, PlayerFields DEF GameStates
  <2>3. /\ turn' = [number |-> turn.number + 1, step |-> "Untap",
                    active |-> p, priority |-> None, passes |-> 0]
        /\ game' = [game EXCEPT !.extraCombats = 0,
                       !.extraTurns = IF @ = <<>> THEN @ ELSE Tail(@),
                       !.pl[p].lands = 0]
        /\ elapsed' = elapsed + 1 /\ pc' = "turn"
    BY <1>2 DEF AdvanceStep, NextTurn
  <2>4. game' = [game EXCEPT !.extraCombats = 0, !.extraTurns = e, !.pl[p] = s]
    BY <2>3
  <2> HIDE DEF p, e, s
  <2>5. /\ game' \in GameStates /\ game'.stack = <<>>
        /\ game'.extraCombats = 0
    BY <1>1, <2>1, <2>2, <2>4 DEF GameStates
  <2>6. turn' \in [number: Nat, step: Steps, active: Players,
                   priority: Players \cup {None}, passes: 0..2]
    BY <2>1, <2>3 DEF TypeOK, Steps
  <2>7. elapsed' \in 0..MaxTurns
    BY <1>1, <2>3, LoopAssumption
  <2>8. TypeOK' /\ TurnsLeft'
    BY <1>1, <2>3, <2>5, <2>6, <2>7 DEF TypeOK, TurnsLeft
  <2>9. QuietInv'
    BY <2>3, <2>5 DEF QuietInv, RoundInv, BetweenRounds, RoundHeld, SecondDamage
  <2>10. CombatsInv'
    BY <2>3, <2>5 DEF CombatsInv, GrantsInMain, OnStack
  <2> QED BY <1>1, <2>5, <2>8, <2>9, <2>10
<1>3. CASE turn.step = "EndCombat" /\ game.extraCombats > 0
  <2>1. /\ turn' = [turn EXCEPT !.step = "BeginCombat"]
        /\ game' = [game EXCEPT !.extraCombats = @ - 1]
        /\ elapsed' = elapsed /\ pc' = "step"
    BY <1>3 DEF AdvanceStep
  <2>2. game.extraCombats - 1 \in Nat
    BY <1>1, <1>3 DEF GameStates
  <2>3. /\ game' \in GameStates /\ game'.stack = <<>>
        /\ game'.extraCombats = game.extraCombats - 1
    BY <1>1, <2>1, <2>2 DEF GameStates
  <2>4. turn' \in [number: Nat, step: Steps, active: Players,
                   priority: Players \cup {None}, passes: 0..2]
        /\ turn'.step = "BeginCombat" /\ turn'.passes = 0
        /\ turn'.priority = None
    BY <1>1, <2>1 DEF TypeOK, Steps
  <2>5. TypeOK' /\ TurnsLeft'
    BY <1>1, <2>1, <2>3, <2>4 DEF TypeOK, TurnsLeft
  <2>6. QuietInv'
    BY <2>1, <2>3, <2>4 DEF QuietInv, RoundInv, BetweenRounds, RoundHeld, SecondDamage
  <2>7. combats.begun + game.extraCombats = 1 + combats.granted
    BY <1>1, <1>3 DEF Combats
  <2>8. combats'.begun + game'.extraCombats = 0 + combats'.granted
    BY <1>1, <2>3, <2>7 DEF TypeOK, GameStates
  <2>9. Combats(0)'
    BY <2>4, <2>8 DEF Combats
  <2>10. CombatsInv'
    BY <2>1, <2>3, <2>4, <2>9 DEF CombatsInv, GrantsInMain, OnStack
  <2> QED BY <1>1, <2>3, <2>5, <2>6, <2>10
<1>4. CASE /\ turn.step # "Cleanup"
           /\ ~ (turn.step = "EndCombat" /\ game.extraCombats > 0)
  <2>1. /\ turn' = [turn EXCEPT !.step = NextStep(turn.step)]
        /\ game' = game /\ elapsed' = elapsed /\ pc' = "step"
    BY <1>4 DEF AdvanceStep
  <2>2. NextStep(turn.step) \in Steps /\ turn'.step = NextStep(turn.step)
    BY <1>1, <1>4, <2>1 DEF NextStep, Steps, TypeOK
  <2>3. turn' \in [number: Nat, step: Steps, active: Players,
                   priority: Players \cup {None}, passes: 0..2]
        /\ turn'.passes = 0 /\ turn'.priority = None
    BY <1>1, <2>1, <2>2 DEF TypeOK
  <2>4. TypeOK' /\ TurnsLeft'
    BY <1>1, <2>1, <2>3 DEF TypeOK, TurnsLeft
  <2>5. QuietInv'
    BY <1>1, <2>1, <2>3 DEF QuietInv, RoundInv, BetweenRounds, RoundHeld, SecondDamage
  <2>6. Combats(IF turn.step = "BeginCombat" THEN 0 ELSE 1)'
    <3>1. combats \in [begun: Nat, granted: Nat] /\ game.extraCombats \in Nat
      BY <1>1 DEF TypeOK, GameStates
    <3>2. CASE turn.step \in {"Untap", "Upkeep", "Draw"}
      <4>1. turn'.step \in {"Upkeep", "Draw", "Main1"}
        BY <2>2, <3>2 DEF NextStep
      <4> QED BY <1>1, <2>1, <3>2, <4>1 DEF Combats
    <3>3. CASE turn.step = "Main1"
      <4>1. turn'.step = "BeginCombat"
        BY <2>2, <3>3 DEF NextStep
      <4> QED BY <1>1, <2>1, <3>1, <3>3, <4>1 DEF Combats
    <3>4. CASE turn.step \in {"BeginCombat", "DeclareAttackers",
                              "DeclareBlockers", "CombatDamage"}
      <4>1. turn'.step \in {"DeclareAttackers", "DeclareBlockers",
                            "CombatDamage", "EndCombat"}
        BY <2>2, <3>4 DEF NextStep
      <4> QED BY <1>1, <2>1, <3>4, <4>1 DEF Combats
    <3>5. CASE turn.step = "EndCombat"
      <4>1. turn'.step = "Main2" /\ game.extraCombats = 0
        BY <1>4, <2>2, <3>1, <3>5 DEF NextStep
      <4> QED BY <1>1, <2>1, <3>1, <3>5, <4>1 DEF Combats
    <3>6. CASE turn.step \in {"Main2", "End"}
      <4>1. turn'.step \in {"End", "Cleanup"}
        BY <2>2, <3>6 DEF NextStep
      <4> QED BY <1>1, <2>1, <3>6, <4>1 DEF Combats
    <3> QED BY <1>1, <1>4, <3>2, <3>3, <3>4, <3>5, <3>6 DEF Steps
  <2>7. CombatsInv'
    <3>1. GrantsInMain'
      BY <1>1, <2>1 DEF GrantsInMain, OnStack
    <3> HIDE DEF Combats
    <3> QED BY <2>1, <2>6, <3>1 DEF CombatsInv
  <2> QED BY <2>1, <2>4, <2>5, <2>7
<1> QED BY <1>2, <1>3, <1>4

\* A turn starts with nothing granted and nothing on the stack.
LEMMA RunTurnOnceKeeps ==
    ASSUME LoopInv, RunTurnOnce
    PROVE  LoopInv' /\ game'.stack = game.stack
<1> USE DEF LoopInv
<1>1. /\ pc = "turn" /\ turn.step = "Untap" /\ game.extraCombats = 0
      /\ game.stack = <<>> /\ turn.passes = 0 /\ turn.priority = None
      /\ UNCHANGED <<turn, round, elapsed, quiet, chosen>>
      /\ game \in GameStates /\ elapsed \in 0..MaxTurns /\ MaxTurns \in Nat
  BY LoopAssumption
     DEF RunTurnOnce, QuietInv, BetweenRounds, CombatsInv, TypeOK
<1>2. CASE pc' = "over" /\ UNCHANGED <<game, combats>>
  <2>1. TypeOK' /\ TurnsLeft'
    BY <1>1, <1>2 DEF TypeOK, TurnsLeft
  <2>2. QuietInv'
    BY <1>1, <1>2 DEF QuietInv, RoundInv, BetweenRounds, RoundHeld, SecondDamage
  <2>3. CombatsInv'
    BY <1>1, <1>2 DEF CombatsInv, GrantsInMain, OnStack
  <2> QED BY <1>2, <2>1, <2>2, <2>3
<1>3. CASE /\ pc' = "step" /\ ~ elapsed >= MaxTurns
           /\ game' = ResetTurnState(game, turn.active)
           /\ combats' = [begun |-> 0, granted |-> 0]
  <2>1. turn.active \in Players
    BY DEF TypeOK
  <2>2. /\ game' \in GameStates /\ game'.stack = <<>>
        /\ game'.extraCombats = 0
    BY <1>1, <1>3, <2>1, StepChange DEF SameSpells
  <2>3. TypeOK' /\ TurnsLeft'
    BY <1>1, <1>3, <2>2 DEF TypeOK, TurnsLeft
  <2>4. QuietInv'
    BY <1>1, <1>3, <2>2 DEF QuietInv, RoundInv, BetweenRounds, RoundHeld, SecondDamage
  <2>5. CombatsInv'
    BY <1>1, <1>3, <2>2 DEF CombatsInv, GrantsInMain, OnStack, Combats
  <2> QED BY <1>1, <2>2, <2>3, <2>4, <2>5
<1> QED BY <1>2, <1>3 DEF RunTurnOnce

\* The handlers of the steps.
LEMMA HandlerKeeps ==
    ASSUME LoopInv,
           \/ UntapStep \/ UpkeepStep \/ DrawStep \/ MainPhase
           \/ BeginCombatStep \/ DeclareAttackersStep \/ DeclareBlockersStep
           \/ CombatDamageStep \/ NormalDamage \/ EndCombatStep
           \/ EndStep \/ CleanupStep
    PROVE  LoopInv' /\ game'.stack = game.stack
<1> DEFINE p == turn.active
<1>1. p \in Players /\ game \in GameStates /\ game.combat.attacking \in BOOLEAN
  BY DEF LoopInv, TypeOK, GameStates
<1>2. SameSpells(game, game)
  BY <1>1 DEF SameSpells
<1>3. ASSUME InStep("BeginCombat") \/ combats' = combats,
             InStep("BeginCombat") => combats' = [combats EXCEPT !.begun = @ + 1],
             pc \in {"step", "normalDamage"},
             \/ EnterRound("advance")
             \/ EnterRound("normalDamage") /\ turn.step = "CombatDamage",
             SameSpells(game, game'), UNCHANGED <<elapsed, chosen>>
      PROVE  LoopInv' /\ game'.stack = game.stack
  BY <1>3, RoundEntered DEF InStep, SameSpells
<1>4. ASSUME pc = "step", SkipRound, ~HasRound, turn.step # "BeginCombat",
             SameSpells(game, game'), UNCHANGED <<elapsed, chosen, combats>>
      PROVE  LoopInv' /\ game'.stack = game.stack
  BY <1>4, RoundSkipped DEF SameSpells
<1>5. CASE UntapStep
  <2> DEFINE s == [game.pl[p] EXCEPT !.drawn = 0, !.tapped = FALSE]
  <2>1. s \in PlayerStates
    BY <1>1, PlayerFields DEF GameStates
  <2>2. game' = [game EXCEPT !.pl[p] = s]
    BY <1>5, Zenon DEF UntapStep
  <2> HIDE DEF s
  <2>3. SameSpells(game, game')
    BY <1>1, <2>1, <2>2, PlayerChange
  <2> QED BY <1>4, <1>5, <2>3 DEF UntapStep, InStep, HasRound
<1>6. CASE UpkeepStep
  <2>1. SameSpells(game, game')
    BY <1>1, <1>2, <1>6, LifeAndTap DEF UpkeepStep
  <2> QED BY <1>3, <1>6, <2>1 DEF UpkeepStep, InStep
<1>7. CASE DrawStep
  <2> DEFINE s == [game.pl[p] EXCEPT !.protected = TRUE]
  <2>1. s \in PlayerStates
    BY <1>1, PlayerFields DEF GameStates
  <2>2. [game EXCEPT !.pl[p].protected = TRUE] = [game EXCEPT !.pl[p] = s]
    BY Zenon
  <2> HIDE DEF s
  <2>3. /\ SameSpells(game, [game EXCEPT !.pl[p] = s])
        /\ SameSpells(game, DrawCard(game, p))
    BY <1>1, <2>1, PlayerChange, StepChange
  <2>4. SameSpells(game, game')
    BY <1>2, <1>7, <2>2, <2>3 DEF DrawStep
  <2>5. CASE turn.number = 1
    BY <1>4, <1>7, <2>4, <2>5 DEF DrawStep, InStep, HasRound
  <2>6. CASE turn.number # 1
    BY <1>3, <1>7, <2>4, <2>6 DEF DrawStep, InStep
  <2> QED BY <2>5, <2>6
<1>8. CASE MainPhase
  <2>1. SameSpells(game, game')
    BY <1>1, <1>8, StepChange DEF MainPhase
  <2> QED BY <1>3, <1>8, <2>1 DEF MainPhase, InStep, IsMain
<1>9. CASE BeginCombatStep
  BY <1>2, <1>3, <1>9 DEF BeginCombatStep, InStep
<1>10. CASE DeclareAttackersStep
  <2> DEFINE k == [game.combat EXCEPT !.attacking = TRUE]
             g == Tap(game, p)
  <2>1. SameSpells(game, g) /\ g.combat = game.combat
    BY <1>1, LifeAndTap DEF Tap, GameStates
  <2>2. k \in [attacking: BOOLEAN, blocked: BOOLEAN]
    <3>1. game.combat \in [attacking: BOOLEAN, blocked: BOOLEAN]
      BY <1>1 DEF GameStates
    <3> QED BY <3>1
  <2>3. game' = game \/ game' = [g EXCEPT !.combat = k]
    BY <1>10, <2>1 DEF DeclareAttackersStep
  <2> HIDE DEF g, k
  <2>4. g \in GameStates /\ SameSpells(g, [g EXCEPT !.combat = k])
    BY <2>1, <2>2 DEF SameSpells, GameStates
  <2>5. SameSpells(game, [g EXCEPT !.combat = k])
    BY <2>1, <2>4, Zenon DEF SameSpells
  <2>6. SameSpells(game, game')
    BY <1>2, <2>3, <2>5
  <2> QED BY <1>3, <1>10, <2>6 DEF DeclareAttackersStep, InStep
<1>11. CASE DeclareBlockersStep
  <2> DEFINE k == [game.combat EXCEPT !.blocked = TRUE]
  <2>1. k \in [attacking: BOOLEAN, blocked: BOOLEAN]
    BY <1>1 DEF GameStates
  <2>2. game' = game \/ game' = [game EXCEPT !.combat = k]
    BY <1>11 DEF DeclareBlockersStep
  <2> HIDE DEF k
  <2>3. SameSpells(game, game')
    BY <1>1, <1>2, <2>1, <2>2 DEF SameSpells, GameStates
  <2> QED BY <1>3, <1>11, <2>3 DEF DeclareBlockersStep, InStep
<1>12. ASSUME NEW b \in BOOLEAN, NEW next \in {"advance", "normalDamage"},
              DamageThenRound(b, next), pc \in {"step", "normalDamage"},
              turn.step = "CombatDamage"
       PROVE  LoopInv' /\ game'.stack = game.stack
  <2>1. SameSpells(game, game')
    BY <1>1, <1>12, StepChange DEF DamageThenRound
  <2>2. UNCHANGED <<elapsed, chosen, combats>>
    BY <1>12 DEF DamageThenRound
  <2>3. CASE EnterRound(next)
    BY <1>3, <1>12, <2>1, <2>2, <2>3 DEF InStep
  <2>4. CASE pc' = "over" /\ UNCHANGED <<turn, round, quiet>>
    BY <1>12, <2>1, <2>2, <2>4, DamageEndsGame DEF SameSpells
  <2> QED BY <1>12, <2>3, <2>4 DEF DamageThenRound
<1>13. CASE CombatDamageStep
  BY <1>12, <1>13 DEF CombatDamageStep, InStep
<1>14. CASE NormalDamage
  <2>1. turn.step = "CombatDamage"
    BY <1>14 DEF NormalDamage, LoopInv, QuietInv, SecondDamage
  <2> QED BY <1>12, <1>14, <2>1 DEF NormalDamage
<1>15. CASE EndCombatStep
  <2>1. SameSpells(game, game')
    BY <1>1, <1>15 DEF EndCombatStep, NoCombat, SameSpells, GameStates
  <2> QED BY <1>3, <1>15, <2>1 DEF EndCombatStep, InStep
<1>16. CASE EndStep
  BY <1>2, <1>3, <1>16 DEF EndStep, InStep
<1>17. CASE CleanupStep
  <2> DEFINE n == IF HandSize(game, p) > MaxHand
                  THEN HandSize(game, p) - MaxHand ELSE 0
  <2>1. n \in Nat
    BY <1>1, HandSizes, LoopAssumption
  <2>2. PICK g \in Discards(game, p, n) : game' = EndThisTurn(g)
    BY <1>17 DEF CleanupStep
  <2> HIDE DEF n
  <2>3. SameSpells(game, g)
    BY <1>1, <2>1, <2>2, DiscardChange
  <2>4. SameSpells(g, game')
    BY <1>1, <2>2, <2>3, StepChange DEF SameSpells
  <2>5. SameSpells(game, game')
    BY <2>3, <2>4 DEF SameSpells
  <2> QED BY <1>4, <1>17, <2>5 DEF CleanupStep, InStep, HasRound
<1> QED BY <1>5, <1>6, <1>7, <1>8, <1>9, <1>10, <1>11, <1>13, <1>14, <1>15,
           <1>16, <1>17

-----------------------------------------------------------------------------
\* The loop's invariant is inductive.
THEOREM LoopInvariant == Spec => []LoopInv
<1>1. Init => LoopInv
  <2> SUFFICES ASSUME Init PROVE LoopInv
    OBVIOUS
  <2> USE LoopAssumption DEF Init
  <2>1. game \in GameStates
    BY DEF GameStates, PlayerStates, NewPlayer, NoCombat
  <2>2. TypeOK
    BY <2>1 DEF TypeOK, Steps, Players, Targets
  <2>3. TurnsLeft /\ QuietInv
    BY DEF TurnsLeft, QuietInv, RoundInv, BetweenRounds, RoundHeld, SecondDamage
  <2>4. CombatsInv
    BY DEF CombatsInv, GrantsInMain, OnStack
  <2> QED BY <2>2, <2>3, <2>4 DEF LoopInv
<1>2. LoopInv /\ [Next]_vars => LoopInv'
  <2> SUFFICES ASSUME LoopInv, [Next]_vars PROVE LoopInv'
    OBVIOUS
  <2>1. CASE UNCHANGED vars
    <3> USE <2>1 DEF vars
    <3>1. TypeOK'
      BY DEF LoopInv, TypeOK
    <3>2. TurnsLeft'
      BY DEF LoopInv, TurnsLeft
    <3>3. QuietInv'
      BY DEF LoopInv, QuietInv, RoundInv, BetweenRounds, RoundHeld,
         SecondDamage, HasRound
    <3>4. CombatsInv'
      BY DEF LoopInv, CombatsInv, GrantsInMain, OnStack, Combats
    <3> QED BY <3>1, <3>2, <3>3, <3>4 DEF LoopInv
  <2>2. ASSUME NEW c \in Cards, PlayLand(c) PROVE LoopInv'
    BY <2>2, PlayLandKeeps
  <2>3. ASSUME NEW c \in Cards, NEW t \in Targets, CastSpell(c, t)
        PROVE  LoopInv'
    BY <2>3, CastSpellKeeps
  <2>4. CASE ActivateAbility \/ \E c \in Cards : Cycle(c)
    BY <2>4, ActivateOrCycleKeeps
  <2>5. CASE RunTurnOnce
    BY <2>5, RunTurnOnceKeeps
  <2>6. CASE \/ UntapStep \/ UpkeepStep \/ DrawStep \/ MainPhase
             \/ BeginCombatStep \/ DeclareAttackersStep
             \/ DeclareBlockersStep \/ CombatDamageStep \/ NormalDamage
             \/ EndCombatStep \/ EndStep \/ CleanupStep
    BY <2>6, HandlerKeeps
  <2>7. CASE Pass \/ FailedAction
    BY <2>7, PassKeeps
  <2>9. CASE TooManyActions
    BY <2>9, TooManyActionsKeeps
  <2>10. CASE ResolveTop
    BY <2>10, ResolveTopKeeps
  <2>11. CASE RoundOver
    BY <2>11, RoundOverKeeps
  <2>12. CASE AdvanceStep
    BY <2>12, AdvanceStepKeeps
  <2> QED
    BY <2>1, <2>2, <2>3, <2>4, <2>5, <2>6, <2>7, <2>9, <2>10, <2>11, <2>12
       DEF Next
<1> QED BY <1>1, <1>2, PTL DEF Spec

\* The loop's state keeps its types for any decks and bounds: players, steps,
\* the stack of cards, the pending delayed triggers and extra turns.
THEOREM TypeCorrect == Spec => []TypeOK
<1>1. LoopInv => TypeOK
  BY DEF LoopInv
<1> QED BY <1>1, LoopInvariant, PTL

\* advance_step begins one combat phase for each that effects granted in
\* time, besides the turn's own: none is lost, none is carried over.
THEOREM GrantedCombatsHappen == Spec => []CombatsMatchGrants
<1>1. LoopInv => CombatsMatchGrants
  BY DEF LoopInv, CombatsInv, Combats, CombatsMatchGrants
<1> QED BY <1>1, LoopInvariant, PTL

\* Only advance_step leaves a step; every handler and every decision stays
\* in the step it belongs to.
LEMMA OnlyAdvanceEndsStep ==
    ASSUME Next, ~AdvanceStep, TypeOK
    PROVE  turn'.step = turn.step /\ turn'.number = turn.number
<1> USE DEF TypeOK
<1>1. CASE RunTurnOnce \/ TooManyActions
  BY <1>1 DEF RunTurnOnce, TooManyActions
<1>2. ASSUME NEW next, EnterRound(next)
      PROVE  turn'.step = turn.step /\ turn'.number = turn.number
  BY <1>2 DEF EnterRound
<1>3. CASE UntapStep \/ DrawStep
  BY <1>2, <1>3 DEF UntapStep, DrawStep, SkipRound
<1>4. CASE UpkeepStep \/ MainPhase \/ EndStep
  BY <1>2, <1>4 DEF UpkeepStep, MainPhase, EndStep
<1>5. CASE BeginCombatStep \/ EndCombatStep
  BY <1>2, <1>5 DEF BeginCombatStep, EndCombatStep
<1>6. CASE DeclareAttackersStep \/ DeclareBlockersStep \/ CleanupStep
  BY <1>2, <1>6 DEF DeclareAttackersStep, DeclareBlockersStep, CleanupStep,
     SkipRound
<1>7. CASE CombatDamageStep \/ NormalDamage
  BY <1>2, <1>7 DEF CombatDamageStep, NormalDamage, DamageThenRound
<1>8. CASE Pass \/ FailedAction
  BY <1>8 DEF Pass, FailedAction
<1>9. ASSUME ActAndSwitch
      PROVE  turn'.step = turn.step /\ turn'.number = turn.number
  BY <1>9 DEF ActAndSwitch
<1>10. CASE ActivateAbility \/ \E c \in Cards : Cycle(c)
  BY <1>9, <1>10 DEF ActivateAbility, Cycle
<1>11. CASE \E c \in Cards : PlayLand(c)
  BY <1>11 DEF PlayLand
<1>12. CASE \E c \in Cards, t \in Targets : CastSpell(c, t)
  BY <1>9, <1>12 DEF CastSpell
<1>13. CASE ResolveTop \/ RoundOver
  BY <1>13 DEF ResolveTop, RoundOver
<1> QED BY <1>1, <1>3, <1>4, <1>5, <1>6, <1>7, <1>8, <1>10, <1>11, <1>12,
           <1>13 DEF Next

\* priority_round holds the step until both players have passed in a row
\* over an empty stack, whatever they chose before and whatever failed.
THEOREM StepsWaitForBoth == Spec => StepsEndQuiet
<1>1. LoopInv /\ LoopInv' /\ [Next]_vars =>
        [turn'.step # turn.step \/ turn'.number # turn.number
           => game.stack = <<>> /\ (HasRound => quiet = Players)]_vars
  <2> SUFFICES ASSUME LoopInv, [Next]_vars,
                      turn'.step # turn.step \/ turn'.number # turn.number
               PROVE  game.stack = <<>> /\ (HasRound => quiet = Players)
    OBVIOUS
  <2>1. Next
    BY DEF vars
  <2>2. AdvanceStep
    BY <2>1, OnlyAdvanceEndsStep DEF LoopInv
  <2> QED BY <2>2 DEF AdvanceStep, LoopInv, QuietInv, BetweenRounds, RoundHeld
<1> QED BY <1>1, LoopInvariant, PTL DEF Spec, StepsEndQuiet

\* Only resolving shortens the stack, and it waits for two passes in a row:
\* no action can make the counter reach two with fewer.
THEOREM SpellsWaitForAnswers == Spec => AnsweredBeforeResolving
<1>1. LoopInv /\ LoopInv' /\ [Next]_vars =>
        [Len(game'.stack) < Len(game.stack) => quiet = Players]_vars
  <2> SUFFICES ASSUME LoopInv, LoopInv', [Next]_vars,
                      Len(game'.stack) < Len(game.stack)
               PROVE  quiet = Players
    OBVIOUS
  <2>1. /\ game \in GameStates /\ Len(game.stack) \in Nat
    <3>1. game \in GameStates
      BY DEF LoopInv, TypeOK
    <3>2. game.stack \in Seq(Cards)
      BY <3>1 DEF GameStates
    <3> QED BY <3>1, <3>2
  <2>2. game'.stack # game.stack
    BY <2>1
  <2>3. Next
    BY <2>2 DEF vars
  <2>4. CASE RunTurnOnce
    BY <2>2, <2>4, RunTurnOnceKeeps
  <2>5. CASE \/ UntapStep \/ UpkeepStep \/ DrawStep \/ MainPhase
             \/ BeginCombatStep \/ DeclareAttackersStep
             \/ DeclareBlockersStep \/ CombatDamageStep \/ NormalDamage
             \/ EndCombatStep \/ EndStep \/ CleanupStep
    BY <2>2, <2>5, HandlerKeeps
  <2>6. CASE Pass \/ FailedAction \/ TooManyActions \/ RoundOver
    BY <2>2, <2>6 DEF Pass, FailedAction, TooManyActions, RoundOver
  <2>7. CASE ActivateAbility \/ \E c \in Cards : PlayLand(c) \/ Cycle(c)
    BY <2>2, <2>7, ActivateOrCycleKeeps, PlayLandKeeps
  <2>8. ASSUME NEW c \in Cards, NEW t \in Targets, CastSpell(c, t)
        PROVE  FALSE
    BY <2>1, <2>8, CastSpellKeeps
  <2>9. CASE ResolveTop
    BY <2>9, ResolveTopKeeps
  <2>10. CASE AdvanceStep
    BY <2>2, <2>10, AdvanceStepKeeps
  <2> QED BY <2>3, <2>4, <2>5, <2>6, <2>7, <2>8, <2>9, <2>10 DEF Next
<1> QED BY <1>1, LoopInvariant, PTL DEF Spec, AnsweredBeforeResolving
=============================================================================
