-------------------------------- MODULE Mana --------------------------------
(***************************************************************************)
(* One player's mana: the permanents that make it, the incrementally kept  *)
(* ManaSourceCache of them, the memoized ManaEngine that says which spells *)
(* can be paid, the greedy resolver that picks what to tap, and the eight  *)
(* steps of a cast, which tap, produce, pay and roll back.                 *)
(*                                                                         *)
(* Two colours stand for five: what the code does with a colour depends on *)
(* its place in WUBRG order and on which is the default of lands (the      *)
(* first) and of artifacts (the last).  A source's `kind' is its printed   *)
(* card: the colours it can make, whether any, how much, the side cost of  *)
(* using it (0, utility land 5, pain 20, sacrifice 1000), land, creature.  *)
(* The version counter of the engine's memo is reduced to the one thing it *)
(* is compared for: whether it moved since the last look.                  *)
(***************************************************************************)
EXTENDS Integers, Sequences, FiniteSets, SequencesExt, FiniteSetsExt, TLC

CONSTANTS
  Cards,       \* ids of the player's mana sources
  Decks,       \* functions: card -> [colors, any, amount, side, land, creature]
  Costs,       \* set of [W, G, C, generic]
  MaxOps,      \* bound: operations in a behaviour
  EarthbentDies  \* whether this instance lets an earthbent land die

ASSUME ManaAssumption ==
  /\ Cards \subseteq Nat /\ IsFiniteSet(Cards)
  /\ \A d \in Decks : \A c \in Cards :
       /\ d[c].amount \in Nat \ {0} /\ d[c].side \in {0, 5, 20, 1000}
       /\ d[c].land \/ d[c].any \/ Cardinality(d[c].colors) < 2
  /\ MaxOps \in Nat /\ EarthbentDies \in BOOLEAN

VARIABLES
  kind,   \* card -> its printed card
  g,      \* the part of GameState that a payment touches
  memo,   \* ManaEngine: the last look, and whether the version moved since
  last,   \* history: how the last cast ended
  ops     \* operations so far

vars == <<kind, g, memo, last, ops>>

Colors == <<"W", "G">>
Mana == {"W", "G", "C"}
NoMana == [m \in Mana |-> 0]
SacrificeCost == 1000

Total(p) == p["W"] + p["G"] + p["C"]
Least(a, b) == IF a < b THEN a ELSE b
Minus(a, b) == IF a > b THEN a - b ELSE 0

\* The classes of ManaProductionKind.
IsColorless(k) == k.colors = {} /\ ~k.any
IsFixed(k) == Cardinality(k.colors) = 1 /\ ~k.any
CanProduceColor(k, m) == k.any \/ m \in k.colors
IsCreature(s, c) == kind[c].creature \/ c \in s.animated

(***************************************************************************)
(* ManaSourceCache: lists by class, and totals of the untapped ones.       *)
(***************************************************************************)
EmptyCache == [list |-> [m \in Mana |-> <<>>], complex |-> <<>>, untapped |-> NoMana, dirty |-> FALSE]

\* The list a card goes to when it enters.
Class(s, c) ==
  CASE IsCreature(s, c) -> "complex"
    [] IsColorless(kind[c]) -> "C"
    [] IsFixed(kind[c]) -> CHOOSE m \in kind[c].colors : TRUE
    [] OTHER -> "complex"

OnCardEntered(cache, s, c) ==
  LET m == Class(s, c) IN
  IF m = "complex" THEN [cache EXCEPT !.complex = Append(@, c)]
  ELSE [cache EXCEPT !.list[m] = Append(@, c),
                     !.untapped[m] = @ + IF c \in s.tapped THEN 0 ELSE kind[c].amount]

\* The totals after card c, listed under a colour, went tapped (-1) or untapped (+1).
Counted(cache, c, sign) ==
  [m \in Mana |-> IF c \notin Range(cache.list[m]) THEN cache.untapped[m]
                  ELSE IF sign = 1 THEN cache.untapped[m] + kind[c].amount
                  ELSE Minus(cache.untapped[m], kind[c].amount)]

\* Mutant: the total is not reduced.
OnCardLeftKeepsCount(cache, s, c) ==
  [cache EXCEPT !.list = [m \in Mana |-> SelectSeq(@[m], LAMBDA x : x # c)],
                !.complex = SelectSeq(@, LAMBDA x : x # c)]

OnCardLeft(cache, s, c) ==
  [cache EXCEPT !.untapped = IF c \in s.tapped THEN @ ELSE Counted(cache, c, -1),
                !.list = [m \in Mana |-> SelectSeq(@[m], LAMBDA x : x # c)],
                !.complex = SelectSeq(@, LAMBDA x : x # c)]

OnTap(cache, c) == [cache EXCEPT !.untapped = Counted(cache, c, -1)]
OnUntap(cache, c) == [cache EXCEPT !.untapped = Counted(cache, c, 1)]

RebuildFromBattlefield(s) ==
  FoldLeft(LAMBDA cache, c : OnCardEntered(cache, s, c), EmptyCache, s.field)

(***************************************************************************)
(* ManaEngine: what a look at the cache gives.                             *)
(***************************************************************************)
\* A source as the resolver sees it.
Source(s, c, complex) ==
  [card |-> c, tapped |-> c \in s.tapped,
   sick |-> complex /\ IsCreature(s, c) /\ c \in s.entered /\ c \notin s.hasty]

ReadFromCache(s) ==
  LET simple == s.cache.list["W"] \o s.cache.list["G"] \o s.cache.list["C"] IN
  [current |-> TRUE,
   sources |-> [i \in 1..Len(simple) |-> Source(s, simple[i], FALSE)]
               \o [i \in 1..Len(s.cache.complex) |-> Source(s, s.cache.complex[i], TRUE)],
   capacity |-> s.cache.untapped,
   greedy |-> s.cache.complex # <<>>]

IsEmpty(cache) == cache.complex = <<>> /\ \A m \in Mana : cache.list[m] = <<>>

Rebuilt(s) ==
  IF s.cache.dirty \/ (IsEmpty(s.cache) /\ s.field # <<>>)
  THEN [s EXCEPT !.cache = RebuildFromBattlefield(s)] ELSE s

\* The game and the memo after update_mut.
Looked(s, e) ==
  IF e.current THEN [game |-> s, memo |-> e]
  ELSE [game |-> Rebuilt(s), memo |-> ReadFromCache(Rebuilt(s))]

IsAffordable(cost, p) ==
  /\ \A m \in Mana : p[m] >= cost[m]
  /\ Total(p) >= Total(cost) + cost.generic

\* What is left of a cost once the pool has been used for it.
Remaining(cost, pool) ==
  [m \in Mana |-> Minus(cost[m], pool[m])]
  @@ [generic |-> Minus(cost.generic, Total([m \in Mana |-> Minus(pool[m], cost[m])]))]

Cmc(cost) == Total(cost) + cost.generic

(***************************************************************************)
(* GreedyManaResolver.                                                     *)
(***************************************************************************)
Usable(src) == ~src.tapped /\ ~src.sick

\* bounds_check_payment's proof that a cost cannot be paid.
BoundsSayNo(cost, sources) ==
  LET most(m) == MapThenSumSet(LAMBDA i : kind[sources[i].card].amount,
        {i \in DOMAIN sources : /\ Usable(sources[i])
                                /\ LET k == kind[sources[i].card] IN
                                   IF m = "C" THEN IsColorless(k) ELSE CanProduceColor(k, m)})
      total == MapThenSumSet(LAMBDA i : kind[sources[i].card].amount,
                             {i \in DOMAIN sources : Usable(sources[i])})
  IN total < Cmc(cost) \/ \E m \in Mana : cost[m] > most(m)

\* What a source costs beyond its mana when tapped for colour m.
ScoreForColor(k, m) ==
  k.side + (IF k.any THEN 100 ELSE IF k.colors = {m} THEN 0 ELSE Cardinality(k.colors))

GenericScore(k) ==
  k.side + (k.amount - 1) * 2
    + (IF k.any THEN 4 ELSE IF Cardinality(k.colors) > 1 THEN Cardinality(k.colors) ELSE 0)

\* One phase: the cheapest eligible sources, in order, until `need' is met.
\* `eligible' is a set of positions in `sources', `score' a function on them.
TapCheapest(plan, sources, need, eligible, score) ==
  LET candidates == {i \in eligible : Usable(sources[i]) /\ sources[i].card \notin Range(plan.order)}
      sorted == SetToSortSeq(candidates, LAMBDA i, j :
                  score[i] < score[j] \/ (score[i] = score[j] /\ i < j))
      made(n) == MapThenSumSet(LAMBDA i : kind[sources[sorted[i]].card].amount, 1..n)
      enough == {n \in 0..Len(sorted) : made(n) >= need}
  IN IF need = 0 \/ ~plan.ok THEN plan
     ELSE IF enough = {} THEN [plan EXCEPT !.ok = FALSE]
     ELSE LET n == Min(enough) IN
          [plan EXCEPT !.order = @ \o [i \in 1..n |-> sources[sorted[i]].card],
                       !.extra = @ + made(n) - need]

\* try_greedy_payment: coloured pips first, then colourless, then generic.
TryGreedyPayment(cost, sources) ==
  LET all == DOMAIN sources
      k(i) == kind[sources[i].card]
      generic == [i \in all |-> GenericScore(k(i))]
      colored(plan, m) == TapCheapest(plan, sources, cost[m],
        {i \in all : CanProduceColor(k(i), m)}, [i \in all |-> ScoreForColor(k(i), m)])
      afterColors == FoldLeft(colored, [ok |-> TRUE, order |-> <<>>, extra |-> 0], Colors)
      afterC == TapCheapest(afterColors, sources, cost["C"], {i \in all : IsColorless(k(i))}, generic)
  IN TapCheapest(afterC, sources, Minus(cost.generic, afterC.extra), all, generic)

\* check_payment: whether there is a tap order, and which.
ComputeTapOrder(cost, sources) ==
  IF BoundsSayNo(cost, sources) THEN [ok |-> FALSE, order |-> <<>>, extra |-> 0]
  ELSE TryGreedyPayment(cost, sources)

\* The engine's verdict from its last look: pool first, then the sources.
CanPayWithPool(e, cost, pool) ==
  LET rest == Remaining(cost, pool) IN
  \/ Cmc(rest) = 0
  \/ IF e.greedy THEN ComputeTapOrder(rest, e.sources).ok ELSE IsAffordable(rest, e.capacity)

(***************************************************************************)
(* Movements, taps and payments, as functions of the game.                 *)
(***************************************************************************)
TapCard(s, c) ==
  IF c \in s.tapped THEN s ELSE [s EXCEPT !.tapped = @ \cup {c}, !.cache = OnTap(@, c)]

UntapCard(s, c) ==
  IF c \notin s.tapped THEN s ELSE [s EXCEPT !.tapped = @ \ {c}, !.cache = OnUntap(@, c)]

\* A card enters, tapped by a replacement effect or as it was.
EnterField(s, c, tapped) ==
  LET t == [s EXCEPT !.field = Append(@, c), !.entered = @ \cup {c},
                     !.tapped = IF tapped THEN @ \cup {c} ELSE @]
  IN [t EXCEPT !.cache = OnCardEntered(@, t, c)]

\* A card leaves: the caches first, then the reset of what it had become.
LeaveField(s, c) ==
  [s EXCEPT !.cache = OnCardLeft(@, s, c), !.field = SelectSeq(@, LAMBDA x : x # c),
            !.tapped = @ \ {c}, !.animated = @ \ {c}, !.hasty = @ \ {c}, !.entered = @ \ {c}]

\* To the graveyard; an earthbent land returns, tapped behind the cache's back.
Die(s, c) ==
  LET t == LeaveField(s, c) IN
  IF c \notin s.bent THEN t
  ELSE [EnterField(t, c, FALSE) EXCEPT !.tapped = @ \cup {c}, !.bent = @ \ {c}]

Wanted(k, hint) == SelectSeq(Colors, LAMBDA m : CanProduceColor(k, m) /\ hint[m] > 0)

\* The colour an artifact's or a creature's mana ability makes, under a hint of
\* what is still needed.
AbilityColor(k, hint) ==
  CASE IsColorless(k) -> "C"
    [] IsFixed(k) -> CHOOSE m \in k.colors : TRUE
    [] k.any /\ Wanted(k, hint) # <<>> -> Head(Wanted(k, hint))
    [] OTHER -> Last(Colors)

\* The colour a land makes.
LandColor(k, hint) ==
  CASE IsColorless(k) -> "C"
    [] Wanted(k, hint) # <<>> -> Head(Wanted(k, hint))
    [] OTHER -> Head(SelectSeq(Colors, LAMBDA m : CanProduceColor(k, m)))

ColorMade(k, hint) == IF k.land THEN LandColor(k, hint) ELSE AbilityColor(k, hint)

\* tap_for_mana_for_cost: neither the zone nor the sickness is looked at, and a
\* land pays no cost but its tapping.
TapForMana(s, c, hint) ==
  LET t == [TapCard(s, c) EXCEPT !.pool[ColorMade(kind[c], hint)] = @ + kind[c].amount]
  IN IF ~kind[c].land /\ kind[c].side = SacrificeCost THEN Die(t, c) ELSE t

\* Mutant: the hint stays what it was.
HintUnchanged(hint, before, after) == hint

\* What is still needed after a tap: the pips it made, then generic.
UpdateHint(hint, before, after) ==
  LET made == [m \in Mana |-> after[m] - before[m]] IN
  [m \in Mana |-> Minus(hint[m], made[m])]
  @@ [generic |-> Minus(hint.generic, Total([m \in Mana |-> Minus(made[m], hint[m])]))]

\* The taps of an order, one after the other, up to the first that fails.
TapAll(s, order, need) ==
  FoldLeft(LAMBDA r, c :
             IF ~r.ok \/ c \in r.game.tapped THEN [r EXCEPT !.ok = FALSE]
             ELSE LET t == TapForMana(r.game, c, r.hint) IN
                  [ok |-> TRUE, game |-> t, done |-> Append(r.done, c),
                   hint |-> UpdateHint(r.hint, r.game.pool, t.pool)],
           [ok |-> TRUE, game |-> s, done |-> <<>>, hint |-> need], order)

\* Coloured pips, then generic in pool order.
PayCost(pool, cost) ==
  LET rest == [m \in Mana |-> pool[m] - cost[m]]
      w == Least(cost.generic, rest["W"])
      v == Least(cost.generic - w, rest["G"])
  IN [rest EXCEPT !["W"] = @ - w, !["G"] = @ - v, !["C"] = @ - (cost.generic - w - v)]

\* The unwinding of a cast: what was tapped is untapped, the pool emptied.
Unwind(s, done) ==
  [FoldLeft(LAMBDA t, c : UntapCard(t, c), s, done) EXCEPT !.pool = NoMana]

\* The first n lands of the battlefield, which pay_sacrifice_costs takes.
Lands(s) == SelectSeq(s.field, LAMBDA c : kind[c].land)
SacrificeLands(s, n) == FoldLeft(LAMBDA t, c : Die(t, c), s, SubSeq(Lands(s), 1, n))

(***************************************************************************)
(* Operations.                                                             *)
(***************************************************************************)
Moved(e) == [e EXCEPT !.current = FALSE]
Step == ops < MaxOps /\ ops' = ops + 1 /\ UNCHANGED kind
OnField(c) == c \in Range(g.field)
NoCast == UNCHANGED last
MayDie(c) == EarthbentDies \/ c \notin g.bent

Init ==
  /\ kind \in Decks
  /\ \E n \in 0..Cardinality(Cards) :
       LET s == [field |-> SetToSortSeq({c \in Cards : c <= n}, <), tapped |-> {}, animated |-> {},
                 entered |-> {}, hasty |-> {}, bent |-> {}, cache |-> EmptyCache, pool |-> NoMana]
       IN g = [s EXCEPT !.cache = RebuildFromBattlefield(s)]
  /\ memo = [current |-> FALSE, sources |-> <<>>, capacity |-> NoMana, greedy |-> FALSE]
  /\ last = [outcome |-> "none", extra |-> 0]
  /\ ops = 0

\* A source enters; from hand, library or graveyard.
Enter(c, tapped) ==
  /\ Step /\ ~OnField(c) /\ NoCast
  /\ g' = EnterField(g, c, tapped)
  /\ memo' = Moved(memo)

\* A source is returned to hand, or dies.
Leave(c, dies) ==
  /\ Step /\ OnField(c) /\ NoCast
  /\ dies => MayDie(c)
  /\ g' = IF dies THEN Die(g, c) ELSE LeaveField(g, c)
  /\ memo' = Moved(memo)

\* Mutant: the version does not move.
TapKeepsVersion(c) ==
  /\ Step /\ OnField(c) /\ c \notin g.tapped /\ NoCast
  /\ g' = TapCard(g, c)
  /\ UNCHANGED memo

\* A source is tapped for something other than mana: an attack, a cost, an effect.
TapPermanent(c) ==
  /\ Step /\ OnField(c) /\ c \notin g.tapped /\ NoCast
  /\ g' = TapCard(g, c)
  /\ memo' = Moved(memo)

\* An effect untaps a source.
UntapPermanent(c) ==
  /\ Step /\ OnField(c) /\ c \in g.tapped /\ NoCast
  /\ g' = UntapCard(g, c)
  /\ memo' = Moved(memo)

\* A land becomes a creature until end of turn: the caches go dirty.
Animate(c) ==
  /\ Step /\ OnField(c) /\ ~IsCreature(g, c) /\ NoCast
  /\ g' = [g EXCEPT !.animated = @ \cup {c}, !.cache.dirty = TRUE]
  /\ memo' = Moved(memo)

\* A land becomes a creature with haste and a promise to return; no cache hears
\* of it.  Its source was paid for or entered, which moved the version.
Earthbend(c) ==
  /\ Step /\ OnField(c) /\ kind[c].land /\ NoCast
  /\ g' = [g EXCEPT !.animated = @ \cup {c}, !.hasty = @ \cup {c}, !.bent = @ \cup {c}]
  /\ memo' = Moved(memo)

\* A ritual's mana.
AddMana(m) ==
  /\ Step /\ NoCast /\ Total(g.pool) = 0
  /\ g' = [g EXCEPT !.pool[m] = @ + 2]
  /\ UNCHANGED memo

\* Cleanup, the opponent's turn, and the next untap step.
NewTurn ==
  /\ Step /\ NoCast
  /\ LET reverted == g.animated \cap Range(g.field)
         s == [g EXCEPT !.animated = {}, !.entered = {}, !.pool = NoMana,
                        !.cache.dirty = @ \/ reverted # {}]
     IN g' = FoldLeft(LAMBDA t, c : UntapCard(t, c), s, s.field)
  /\ memo' = Moved(memo)

\* make_casting_context: the engine is brought up to date.
Look ==
  /\ Step /\ NoCast /\ ~memo.current
  /\ LET r == Looked(g, memo) IN g' = r.game /\ memo' = r.memo

\* An offered spell is cast: targets may add to its cost, lands may be sacrificed for it.
CastSpell(cost, extra, n) ==
  LET r == Looked(g, memo)
      full == [cost EXCEPT !.generic = @ + extra]
      afterSac == SacrificeLands(r.game, n)
      need == Remaining(full, afterSac.pool)
      plan == IF Cmc(need) = 0 THEN [ok |-> TRUE, order |-> <<>>, extra |-> 0]
              ELSE ComputeTapOrder(need, r.memo.sources)
      taps == TapAll(afterSac, plan.order, need)
      paid == taps.ok /\ IsAffordable(full, taps.game.pool)
  IN /\ Step
     /\ CanPayWithPool(r.memo, cost, g.pool)
     /\ n <= Len(Lands(g)) /\ \A i \in 1..n : MayDie(Lands(g)[i])
     /\ g' = CASE ~plan.ok -> afterSac
               [] plan.ok /\ ~paid -> Unwind(taps.game, taps.done)
               [] OTHER -> [taps.game EXCEPT !.pool = PayCost(@, full)]
     /\ last' = [outcome |-> IF ~plan.ok THEN "refused" ELSE IF paid THEN "paid" ELSE "aborted",
                 extra |-> extra]
     /\ memo' = IF n > 0 \/ (plan.ok /\ plan.order # <<>>) THEN Moved(r.memo) ELSE r.memo

\* The sources a fresh read-only engine finds: battlefield order if the cache is dirty.
FreshSources(s) ==
  IF s.cache.dirty \/ IsEmpty(s.cache)
  THEN [i \in 1..Len(s.field) |-> Source(s, s.field[i], TRUE)]
  ELSE ReadFromCache(s).sources

\* An optional cost decided at resolution, paid in full from new taps or from the pool.
PayManaCostByTapping(cost) ==
  LET covered == IsAffordable(cost, g.pool)
      plan == ComputeTapOrder(cost, FreshSources(g))
      taps == TapAll(g, plan.order, cost)
  IN /\ Step /\ NoCast /\ (covered \/ plan.ok)
     /\ g' = IF covered THEN [g EXCEPT !.pool = PayCost(@, cost)]
             ELSE [taps.game EXCEPT !.pool = IF IsAffordable(cost, @) THEN PayCost(@, cost) ELSE @]
     /\ memo' = IF covered THEN memo ELSE Moved(memo)

Next ==
  \/ \E c \in Cards : \/ \E b \in BOOLEAN : Enter(c, b) \/ Leave(c, b)
                      \/ TapPermanent(c) \/ UntapPermanent(c) \/ Animate(c) \/ Earthbend(c)
  \/ \E m \in {"W", "C"} : AddMana(m)
  \/ NewTurn \/ Look
  \/ \E cost \in Costs : PayManaCostByTapping(cost)
                        \/ \E extra, n \in {0, 1} : CastSpell(cost, extra, n)

Spec == Init /\ [][Next]_vars

(***************************************************************************)
(* Properties.                                                             *)
(***************************************************************************)
Increasing(list) ==
  \A i, j \in DOMAIN list : i < j =>
    \E p, q \in DOMAIN g.field : g.field[p] = list[i] /\ g.field[q] = list[j] /\ p < q

\* The cache kept step by step (on_card_entered, on_card_left, on_tap, on_untap)
\* is the battlefield's: each source is listed once, in battlefield order, and
\* the untapped totals are those of the cards' live tapped flags.
CacheAgrees ==
  ~g.cache.dirty =>
    LET lists == [m \in Mana |-> g.cache.list[m]] @@ [complex |-> g.cache.complex] IN
    /\ UNION {Range(lists[m]) : m \in DOMAIN lists} = Range(g.field)
    /\ \A m, n \in DOMAIN lists : m # n => Range(lists[m]) \cap Range(lists[n]) = {}
    /\ \A m \in DOMAIN lists : Increasing(lists[m])
    /\ \A m \in Mana : g.cache.untapped[m] =
         MapThenSumSet(LAMBDA c : kind[c].amount, Range(g.cache.list[m]) \ g.tapped)

\* A spell that was offered (make_casting_context) finds its tap order unless
\* its targets made it dearer, and a cast with a tap order never fails in
\* tapping or paying (cast_spell_8_step_from), whatever was sacrificed between.
OfferedCastsComplete ==
  /\ last.outcome # "aborted"
  /\ last.outcome = "refused" => last.extra > 0

\* The reference: some choice of colours of the sources usable now pays the cost.
Payable(cost) ==
  LET usable == {c \in Range(g.field) \ g.tapped :
                   ~(IsCreature(g, c) /\ c \in g.entered /\ c \notin g.hasty)}
      makes(c, m) == IF m = "C" THEN IsColorless(kind[c]) ELSE CanProduceColor(kind[c], m)
  IN \E f \in [usable -> Mana] :
       /\ \A c \in usable : makes(c, f[c])
       /\ IsAffordable(cost, [m \in Mana |-> g.pool[m]
              + MapThenSumSet(LAMBDA c : kind[c].amount, {c \in usable : f[c] = m})])

\* While the memo is current, what the engine says of any cost is true of the
\* live board: what it offers can be paid, what the bounds rule out cannot,
\* and without flexible sources it offers everything that can be paid.
VerdictsAreRight ==
  memo.current => \A cost \in Costs :
    /\ CanPayWithPool(memo, cost, g.pool) => Payable(cost)
    /\ BoundsSayNo(Remaining(cost, g.pool), memo.sources) => ~Payable(cost)
    /\ ~memo.greedy /\ Payable(cost) => CanPayWithPool(memo, cost, g.pool)
=============================================================================
