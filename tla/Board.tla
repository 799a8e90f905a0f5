------------------------------- MODULE Board -------------------------------
(***************************************************************************)
(* Zones, attachments and control of permanents: move_card with the delayed *)
(* triggers it fires, the effects that move, damage, attach or steal        *)
(* permanents (game/actions/effects/), the resolution of permanent spells   *)
(* (game/actions/mod.rs), and the pass of state-based actions that follows  *)
(* every resolution (game/state.rs, run from game_loop/priority.rs).        *)
(*                                                                         *)
(* One action is one resolution: the effect, then the whole pass.  Instants *)
(* and abilities are effects without a card of their own; permanent spells  *)
(* wait on the stack with their target, so an effect may come in between.   *)
(* Power, mana and the cards' other abilities are left out; of the triggers *)
(* only those that move a permanent are kept.  No card of the instance is a *)
(* commander, a planeswalker or a set hoser.                                *)
(***************************************************************************)
EXTENDS Integers, Sequences, FiniteSets, SequencesExt

CONSTANTS Players,
          Seats,          \* the players in the order of their PlayerIds
          Cards,
          Owner,          \* [Cards -> Players]
          Creatures,
          Lands,
          StealAuras,     \* Auras "enchant creature" with a GainControl static
          RaiseAuras,     \* Auras that enchant a creature card in a graveyard
          Equipment,
          Sources,        \* creatures whose ability grants control of a permanent
                          \* for as long as its controller controls them (Aladdin)
          Enduring,       \* creatures that return as an enchantment when they die
          Legends,        \* legendary cards; they share one name
          InHand,         \* cards that start in their owner's hand, the others
                          \* start on the battlefield
          None,           \* no card
          MaxEffects      \* bound on the resolutions of a behaviour

Auras == StealAuras \union RaiseAuras

ASSUME BoardAssumption ==
    /\ Owner \in [Cards -> Players] /\ None \notin Cards
    /\ Seats \in Seq(Players) /\ ToSet(Seats) = Players /\ IsInjective(Seats)
    /\ IsFiniteSet(Cards)
    /\ \A S \in {Creatures, Lands, Auras, Equipment, Legends, InHand} : S \subseteq Cards
    /\ Sources \subseteq Creatures /\ Enduring \subseteq Creatures
    /\ Creatures \intersect (Auras \union Lands \union Equipment) = {}
    /\ Lands \intersect (Auras \union Equipment) = {}
    /\ StealAuras \intersect RaiseAuras = {} /\ Auras \intersect Equipment = {}
    /\ MaxEffects \in Nat

VARIABLES
    g,      \* the GameState: field, piles, stack, ctrl (controllers), card, delayed,
            \* mayPlay, aborted, and the history `taken`
    left    \* resolutions left of MaxEffects

vars == <<g, left>>

Piles == {"hand", "graveyard", "exile"}
MaxMark == 1    \* bound on the counters, shields and delayed triggers of a card

\* The transient state of a card after reset_transient_state.  The controller
\* is not part of it.
Fresh == [attached |-> None,     \* attached_to
          fromAura |-> None,     \* control_from_aura
          grant    |-> None,     \* the source of control_grant, its grantee is
          grantee  |-> None,     \*   kept beside it
          damage   |-> 0,
          counters |-> 0,        \* +1/+1 counters
          shields  |-> 0,        \* regeneration_shields
          animated |-> FALSE,    \* earthbent: a creature until cleanup
          faded    |-> FALSE,    \* returned as an enchantment: not a creature
          exiles   |-> FALSE]    \* exile_if_would_die_this_turn

\* The members of a list that are in S, in their order.
Kept(list, S) ==
    LET kept[i \in 0..Len(list)] ==
            IF i = 0 THEN <<>>
            ELSE IF list[i] \in S THEN Append(kept[i - 1], list[i])
            ELSE kept[i - 1]
    IN  kept[Len(list)]

On(s) == ToSet(s.field)
Of(s, c) == s.card[c]
Creature(s, c) == (c \in Creatures /\ ~Of(s, c).faded) \/ Of(s, c).animated
Toughness(s, c) == (IF c \in Creatures THEN 1 ELSE 0) + Of(s, c).counters
Lethal(s, c) == Creature(s, c) /\ (Toughness(s, c) <= 0 \/ Of(s, c).damage >= Toughness(s, c))

-----------------------------------------------------------------------------
(* move_card and the delayed triggers it fires.                             *)

IsIn(s, c, zone, p) ==
    CASE zone = "battlefield" -> c \in On(s)
      [] zone = "stack"       -> \E i \in DOMAIN s.stack : s.stack[i].card = c
      [] OTHER                -> c \in s.piles[p][zone]

FindZone(s, c) ==
    IF c \in On(s) THEN "battlefield"
    ELSE IF IsIn(s, c, "stack", Owner[c]) THEN "stack"
    ELSE CHOOSE z \in Piles : \E p \in Players : c \in s.piles[p][z]

\* Equipment lets go of a creature that is about to leave.
LetGo(s, c) ==
    [s EXCEPT !.card = [e \in Cards |->
        IF Creature(s, c) /\ e \in Equipment \intersect On(s) /\ s.card[e].attached = c
        THEN [s.card[e] EXCEPT !.attached = None] ELSE s.card[e]]]

Take(s, c, zone, p) ==
    CASE zone = "battlefield" -> [s EXCEPT !.field = Kept(@, On(s) \ {c})]
      [] zone = "stack"       -> [s EXCEPT !.stack = Kept(@, {e \in ToSet(@) : e.card # c})]
      [] OTHER                -> [s EXCEPT !.piles[p][zone] = @ \ {c}]

Put(s, c, zone, p) ==
    CASE zone = "battlefield" -> [s EXCEPT !.field = Append(@, c)]
      [] zone = "stack"       -> [s EXCEPT !.stack = Append(@, [card |-> c, target |-> None])]
      [] OTHER                -> [s EXCEPT !.piles[p][zone] = @ \union {c}]

\* Changed form of ResetTransientState: what the card was attached to stays.
ResetKeepsAttachment(s, c) ==
    [s EXCEPT !.card[c] = [Fresh EXCEPT !.attached = s.card[c].attached],
              !.taken = IF s.ctrl[c] # Owner[c] THEN @ \union {c} ELSE @]

\* A card that leaves the battlefield forgets its past, but not its controller.
ResetTransientState(s, c) ==
    [s EXCEPT !.card[c] = Fresh,
              !.taken = IF s.ctrl[c] # Owner[c] THEN @ \union {c} ELSE @]

\* move_card up to its delayed triggers.
Moved(s, c, from, to, p) ==
    LET ready == IF from = "battlefield" THEN LetGo(s, c) ELSE s
        taken == Put(Take(ready, c, from, p), c, to, p)
        reset == IF from = "battlefield" THEN ResetTransientState(taken, c) ELSE taken
    IN  IF ~IsIn(s, c, from, p) THEN ready
        ELSE [reset EXCEPT !.mayPlay = IF from = "exile" THEN @ \ {c} ELSE @]

\* Changed form of Fires: every trigger wants a graveyard or exile.
FiresOnDeath(s, c, from, to) ==
    IF from # "battlefield" THEN <<>>
    ELSE Kept(s.delayed, {t \in ToSet(s.delayed) : t.watch = c /\ to \in {"graveyard", "exile"}})

\* The triggers a move fires, oldest first.  A trigger is
\* [watch |-> the tracked card, sacrifice |-> the other card, or None for
\* "return it to the battlefield"].
Fires(s, c, from, to) ==
    IF from # "battlefield" THEN <<>>
    ELSE Kept(s.delayed, {t \in ToSet(s.delayed) :
                             /\ t.watch = c
                             /\ t.sacrifice = None => to \in {"graveyard", "exile"}})

DeathDestination(s, c) == IF Of(s, c).exiles THEN "exile" ELSE "graveyard"

\* The move a fired trigger makes, if any: a return, or the sacrifice of a permanent
\* that is still there.
FiredMove(s, t) ==
    IF t.sacrifice = None
    THEN {[card |-> t.watch, from |-> FindZone(s, t.watch), to |-> "battlefield"]}
    ELSE {[card |-> x, from |-> "battlefield", to |-> DeathDestination(s, x)] :
             x \in {t.sacrifice} \intersect On(s)}

\* A trigger still registered is spent and makes its move with Move.
Fire(s, t, Move(_, _, _, _, _)) ==
    LET rest == [s EXCEPT !.delayed = RemoveFirst(@, t)]
        moves == FiredMove(rest, t)
    IN  IF ~Contains(s.delayed, t) THEN s
        ELSE IF moves = {} THEN rest
        ELSE LET v == CHOOSE v \in moves : TRUE IN Move(rest, v.card, v.from, v.to, Owner[v.card])

\* Triggers nest: an Aura that leaves makes its creature leave.  A creature's own
\* departure may only fire a return, which fires nothing.
MoveOther(s, c, from, to, p) ==
    LET m == Moved(s, c, from, to, p)
    IN  IF ~IsIn(s, c, from, p) THEN m
        ELSE FoldLeft(LAMBDA a, t : Fire(a, t, Moved), m, Fires(m, c, from, to))

MoveCard(s, c, from, to, p) ==
    LET m == Moved(s, c, from, to, p)
    IN  IF ~IsIn(s, c, from, p) THEN m
        ELSE FoldLeft(LAMBDA a, t : Fire(a, t, MoveOther), m, Fires(m, c, from, to))

\* It must be in its graveyard; it comes back without its creature type.
ReturnSelfAsEnchantment(s, c) ==
    IF c \notin s.piles[Owner[c]]["graveyard"] THEN s
    ELSE LET back == MoveCard(s, c, "graveyard", "battlefield", Owner[c])
         IN  [back EXCEPT !.card[c].faded = TRUE]

\* The dying card's own triggers.
CheckDeathTriggers(s, c) == IF c \in Enduring THEN ReturnSelfAsEnchantment(s, c) ELSE s

Bury(s, c) == MoveCard(s, c, "battlefield", DeathDestination(s, c), Owner[c])

-----------------------------------------------------------------------------
(* The pass of state-based actions: one pass, in this order, no fixpoint.   *)

\* Death triggers look before the creature leaves.
CheckLethalDamage(s) ==
    FoldLeft(LAMBDA a, c : Bury(CheckDeathTriggers(a, c), c), s,
             Kept(s.field, {c \in On(s) : Lethal(s, c)}))

\* The legends a player controls, but for the oldest.
ExtraLegends(s, p) ==
    LET his == Kept(s.field, {c \in On(s) : c \in Legends /\ s.ctrl[c] = p})
    IN  IF his = <<>> THEN <<>> ELSE Tail(his)

\* Of the legends one player controls the oldest stays: the players' extras are
\* listed first, then buried player by player.
CheckLegendaryRule(s) ==
    FoldLeft(LAMBDA a, p : FoldLeft(Bury, a, ExtraLegends(s, p)), s, Seats)

\* An Aura whose host is gone is buried; an Aura attached to nothing is passed over.
CheckAuraAttachment(s) ==
    FoldLeft(Bury, s, Kept(s.field,
        {a \in Auras \intersect On(s) : Of(s, a).attached # None /\ Of(s, a).attached \notin On(s)}))

\* The youngest control Aura on a permanent.
Governor(s, c) ==
    LET on == {i \in DOMAIN s.field :
                  s.field[i] \in StealAuras /\ Of(s, s.field[i]).attached = c}
    IN  IF on = {} THEN None ELSE s.field[Max(on)]

\* Changed form of RecomputeAuraControl: a permanent whose Aura is gone is left alone.
RecomputeLiveAurasOnly(s) ==
    LET touched == {c \in On(s) : Governor(s, c) # None}
    IN  [s EXCEPT !.ctrl = [c \in Cards |->
                     IF c \in touched THEN s.ctrl[Governor(s, c)] ELSE s.ctrl[c]],
                  !.card = [c \in Cards |->
                     IF c \in On(s) THEN [s.card[c] EXCEPT !.fromAura = Governor(s, c)]
                     ELSE s.card[c]]]

\* Control follows the youngest control Aura on a permanent, and goes back to the
\* owner when the Aura that governed it is gone.
RecomputeAuraControl(s) ==
    LET governor == [c \in On(s) |-> Governor(s, c)]
        touched == {c \in On(s) : governor[c] # None \/ Of(s, c).fromAura # None}
    IN  [s EXCEPT !.ctrl = [c \in Cards |->
                     IF c \notin touched THEN s.ctrl[c]
                     ELSE IF governor[c] # None THEN s.ctrl[governor[c]] ELSE Owner[c]],
                  !.card = [c \in Cards |->
                     IF c \in touched THEN [s.card[c] EXCEPT !.fromAura = governor[c]]
                     ELSE s.card[c]]]

\* Changed form of GrantHolds: it is enough that the source is in play.
GrantHoldsInPlay(s, c) == Of(s, c).grant \in On(s)

GrantHolds(s, c) == Of(s, c).grant \in On(s) /\ s.ctrl[Of(s, c).grant] = Of(s, c).grantee

\* A grant of control on one permanent is put into effect, or given up.
VisitGrant(s, c) ==
    IF Of(s, c).grant = None THEN s
    ELSE IF GrantHolds(s, c) THEN [s EXCEPT !.ctrl[c] = Of(s, c).grantee]
    ELSE [s EXCEPT !.ctrl[c] = Owner[c], !.card[c].grant = None, !.card[c].grantee = None]

\* One permanent after the other, each seeing the controllers set before it.
RecomputeSourceControl(s) == FoldLeft(VisitGrant, s, s.field)

CheckEquipmentAttachment(s) ==
    LET Falls(e) == /\ e \in Equipment \intersect On(s) /\ Of(s, e).attached # None
                    /\ \/ Creature(s, e)
                       \/ Of(s, e).attached \notin On(s)
                       \/ ~Creature(s, Of(s, e).attached)
    IN  [s EXCEPT !.card = [e \in Cards |->
            IF Falls(e) THEN [s.card[e] EXCEPT !.attached = None] ELSE s.card[e]]]

CheckStateBasedActions(s) ==
    CheckEquipmentAttachment(RecomputeSourceControl(RecomputeAuraControl(
        CheckAuraAttachment(CheckLegendaryRule(CheckLethalDamage(s))))))

-----------------------------------------------------------------------------
(* Effects: what execute_effect does to the board.                          *)

ApplyRegenerationShield(s, c) ==
    [s EXCEPT !.card[c].shields = @ - 1, !.card[c].damage = 0]

\* The move first, then the death triggers.
Destroy(s, c, noRegenerate) ==
    IF Of(s, c).shields > 0 /\ ~noRegenerate THEN ApplyRegenerationShield(s, c)
    ELSE CheckDeathTriggers(Bury(s, c), c)

DestroyAll(s, noRegenerate) ==
    FoldLeft(LAMBDA a, c : Destroy(a, c, noRegenerate), s,
             Kept(s.field, {c \in On(s) : Creature(s, c)}))

SacrificeAll(s) ==
    FoldLeft(LAMBDA a, c : CheckDeathTriggers(Bury(a, c), c), s,
             Kept(s.field, {c \in On(s) : Creature(s, c)}))

\* The player's least valuable creature; here all have the same value.
ForceSacrifice(s, p) ==
    LET his == Kept(s.field, {c \in On(s) : Creature(s, c) /\ s.ctrl[c] = p})
    IN  IF his = <<>> THEN s ELSE Bury(s, Head(his))

\* ChangeZoneAll from the battlefield to the hand.
BounceAll(s) ==
    FoldLeft(LAMBDA a, c : MoveCard(a, c, "battlefield", "hand", Owner[c]), s,
             Kept(s.field, {c \in On(s) : Creature(s, c)}))

ReturnPermanentToHand(s, c) == MoveCard(s, c, "battlefield", "hand", Owner[c])

ExilePermanent(s, c) == MoveCard(s, c, "battlefield", "exile", Owner[c])

\* Exile with the owner's permission to cast it again.
Airbend(s, c) ==
    LET gone == ExilePermanent(s, c)
    IN  [gone EXCEPT !.mayPlay = @ \union {c}]

DealDamage(s, c) == [s EXCEPT !.card[c].damage = @ + 1]

DamageAll(s) ==
    [s EXCEPT !.card = [c \in Cards |-> IF c \in On(s) /\ Creature(s, c)
                                        THEN [s.card[c] EXCEPT !.damage = @ + 1] ELSE s.card[c]]]

\* Power equals toughness here; a creature without power deals nothing.
Fight(s, c, d) ==
    IF {c, d} \subseteq On(s)
    THEN [s EXCEPT !.card[d].damage = @ + Toughness(s, c), !.card[c].damage = @ + Toughness(s, d)]
    ELSE s

Regenerate(s, c) == IF c \in On(s) THEN [s EXCEPT !.card[c].shields = @ + 1] ELSE s

ExileIfWouldDie(s, c) == [s EXCEPT !.card[c].exiles = TRUE]

Earthbend(s, c) ==
    [s EXCEPT !.card[c].animated = TRUE, !.card[c].counters = @ + 1,
              !.delayed = Append(@, [watch |-> c, sacrifice |-> None])]

PutCounter(s, c) == [s EXCEPT !.card[c].counters = @ + 1]

RemoveCounter(s, c) == [s EXCEPT !.card[c].counters = IF @ = 0 THEN 0 ELSE @ - 1]

\* For good, or until end of turn (which nothing ends).
GainControl(s, c, p) ==
    IF c \notin On(s) THEN s
    ELSE [s EXCEPT !.ctrl[c] = p, !.taken = @ \union {c}]

\* For as long as p controls the source.
GrantControl(s, c, p, source) ==
    IF c \notin On(s) THEN s
    ELSE [s EXCEPT !.ctrl[c] = p, !.card[c].grant = source, !.card[c].grantee = p]

\* A failing attach ends the activation, which changed nothing else here.
AttachEquipment(s, e, c) ==
    IF {e, c} \subseteq On(s) /\ Creature(s, c) /\ s.ctrl[e] = s.ctrl[c]
    THEN [s EXCEPT !.card[e].attached = c] ELSE s

\* Return a creature from a graveyard to the battlefield for player p; the move is
\* made from p's own graveyard when p is to gain control of it.
ReturnFromGraveyard(s, c, p, gainControl) ==
    MoveCard(s, c, "graveyard", "battlefield", IF gainControl THEN p ELSE Owner[c])

PutFromHand(s, c, p) == MoveCard(s, c, "hand", "battlefield", p)

-----------------------------------------------------------------------------
(* Permanent spells.                                                        *)

\* An error in attach_aura leaves the game loop and ends the game.
AttachAura(s, a, c) ==
    IF Creature(s, c) THEN [s EXCEPT !.card[a].attached = c] ELSE [s EXCEPT !.aborted = TRUE]

\* The dead creature comes back under the control of the Aura's owner, who loses it
\* with the Aura.
ReanimateAuraTarget(s, a, c) ==
    LET p == Owner[a]
        back == MoveCard(s, c, "graveyard", "battlefield", Owner[c])
        mine == IF p = Owner[c] THEN back
                ELSE [back EXCEPT !.ctrl[c] = p, !.taken = @ \union {c}]
        on == IF {a, c} \subseteq On(mine) THEN AttachAura(mine, a, c) ELSE mine
    IN  IF on.aborted THEN on
        ELSE [on EXCEPT !.delayed = Append(@, [watch |-> a, sacrifice |-> c])]

ResolveSpell(s, c, target) ==
    LET in == MoveCard(s, c, "stack", "battlefield", Owner[c])
    IN  IF c \notin Auras THEN in
        ELSE IF target \in On(in) THEN AttachAura(in, c, target)
        ELSE IF FindZone(in, target) = "graveyard" THEN ReanimateAuraTarget(in, c, target)
        ELSE MoveCard(in, c, "battlefield", "graveyard", Owner[c])

\* cleanup_step and cleanup_temporary_effects: no state-based actions follow.
CleanupTemporaryEffects(s) ==
    [s EXCEPT !.card = [c \in Cards |->
        IF c \notin On(s) THEN s.card[c]
        ELSE [s.card[c] EXCEPT !.damage = 0, !.animated = FALSE, !.exiles = FALSE,
                               !.shields = IF Creature(s, c) THEN 0 ELSE @]]]

-----------------------------------------------------------------------------
Start ==
    [field   |-> SetToSeq(Cards \ InHand),
     piles   |-> [p \in Players |-> [z \in Piles |->
                     IF z = "hand" THEN {c \in InHand : Owner[c] = p} ELSE {}]],
     stack   |-> <<>>,
     ctrl    |-> Owner,
     card    |-> [c \in Cards |-> Fresh],
     delayed |-> <<>>,
     mayPlay |-> {},
     aborted |-> FALSE,
     taken   |-> {}]

Init == g = Start /\ left = MaxEffects

Going == ~g.aborted /\ left > 0

\* A resolution ends with the pass, unless an error ended the game.
Resolve(s) ==
    /\ g' = IF s.aborted THEN s ELSE CheckStateBasedActions(s)
    /\ left' = left - 1

\* An outcome there is only under a condition.
Provided(condition, s) == IF condition THEN {s} ELSE {}

\* The outcomes of the effects that ask for a creature.
AimedAtCreature(c) ==
    {DealDamage(g, c)}
    \union Provided(Of(g, c).shields < MaxMark, Regenerate(g, c))
    \union Provided(~Of(g, c).exiles, ExileIfWouldDie(g, c))
    \union Provided(Of(g, c).counters < MaxMark, PutCounter(g, c))
    \union {Fight(g, c, d) : d \in {d \in On(g) \ {c} : Creature(g, d)}}
    \union {GainControl(g, c, p) : p \in Players \ {g.ctrl[c]}}
    \union {GrantControl(g, c, g.ctrl[s], s) :
               s \in {s \in Sources \intersect On(g) : s # c /\ Of(g, c).grant = None}}
    \union {AttachEquipment(g, e, c) :
               e \in {e \in Equipment \intersect On(g) :
                         g.stack = <<>> /\ Of(g, e).attached # c /\ g.ctrl[e] = g.ctrl[c]}}

\* The outcomes of the effects aimed at one permanent that is still there.
Targeted(c) ==
    {Destroy(g, c, no) : no \in BOOLEAN}
    \union {ReturnPermanentToHand(g, c), ExilePermanent(g, c), Airbend(g, c)}
    \union Provided(Of(g, c).counters > 0, RemoveCounter(g, c))
    \union Provided(c \in Lands /\ Of(g, c).counters < MaxMark, Earthbend(g, c))
    \union (IF Creature(g, c) THEN AimedAtCreature(c) ELSE {})

OneTarget == Going /\ \E c \in On(g) : \E s \in Targeted(c) : Resolve(s)

\* The outcomes of the effects on every creature there is, or on one of a player's.
Swept ==
    {DestroyAll(g, no) : no \in BOOLEAN}
    \union {SacrificeAll(g), DamageAll(g), BounceAll(g)}
    \union {ForceSacrifice(g, p) : p \in Players}

Mass == Going /\ \E s \in Swept : Resolve(s)

\* The outcomes of putting a creature onto the battlefield for player p.
Reentered(p) ==
    LET dead == {c \in Creatures : \E q \in Players : c \in g.piles[q]["graveyard"]}
    IN  {ReturnFromGraveyard(g, c, p, FALSE) : c \in dead}
        \union {ReturnFromGraveyard(g, c, p, TRUE) : c \in dead}
        \union {PutFromHand(g, c, p) : c \in g.piles[p]["hand"] \intersect Creatures}

Return == Going /\ \E p \in Players : \E s \in Reentered(p) : Resolve(s)

\* Hand to stack, or exile to stack with permission; a land goes to the battlefield.
\* No state-based actions follow either.
CastFrom(zone, c, target) ==
    LET s == MoveCard(g, c, zone, "stack", Owner[c])
    IN  /\ g' = [s EXCEPT !.stack[Len(s.stack)].target = target]
        /\ UNCHANGED left

Targets(c) ==
    IF c \in StealAuras THEN {t \in On(g) : Creature(g, t)}
    ELSE IF c \in RaiseAuras THEN {t \in Creatures : \E p \in Players : t \in g.piles[p]["graveyard"]}
    ELSE {None}

Cast ==
    /\ Going /\ g.stack = <<>>
    /\ \E c \in Cards \ Lands : \E t \in Targets(c) :
          \/ c \in g.piles[Owner[c]]["hand"] /\ CastFrom("hand", c, t)
          \/ c \in g.piles[Owner[c]]["exile"] \intersect g.mayPlay /\ CastFrom("exile", c, t)

PlayLand ==
    /\ Going /\ g.stack = <<>>
    /\ \E c \in Lands : /\ c \in g.piles[Owner[c]]["hand"]
                        /\ g' = MoveCard(g, c, "hand", "battlefield", Owner[c])
    /\ UNCHANGED left

ResolveTop ==
    /\ Going /\ g.stack # <<>>
    /\ LET top == Last(g.stack) IN Resolve(ResolveSpell(g, top.card, top.target))

Cleanup ==
    /\ Going /\ g.stack = <<>>
    /\ g' = CleanupTemporaryEffects(g) /\ g' # g /\ UNCHANGED left

Next == OneTarget \/ Mass \/ Return \/ Cast \/ PlayLand \/ ResolveTop \/ Cleanup

Spec == Init /\ [][Next]_vars

-----------------------------------------------------------------------------
(* Properties.                                                              *)

\* Steps that end with the pass of state-based actions.
Settles == left' < left /\ ~g'.aborted

\* Every card is in exactly one zone, and in hands, graveyards and exile it is in
\* its owner's: a second move of a card that has already left (move_card finds it
\* missing) neither duplicates nor loses it.
OneZoneEach ==
    /\ \A c \in Cards :
          Cardinality({i \in DOMAIN g.field : g.field[i] = c})
        + Cardinality({i \in DOMAIN g.stack : g.stack[i].card = c})
        + Cardinality({pz \in Players \X Piles : c \in g.piles[pz[1]][pz[2]]}) = 1
    /\ \A p \in Players, z \in Piles : \A c \in g.piles[p][z] : Owner[c] = p

\* A card that is not on the battlefield carries nothing from its last stay there
\* (reset_transient_state): no host, grant, Aura control, damage, counters, shields.
NothingFollowsACard == \A c \in Cards \ On(g) : Of(g, c) = Fresh

\* No sequence of moves loses or doubles a card, or lets it take along what it
\* was on the battlefield (move_card, reset_transient_state).
CardsAccountedFor == OneZoneEach /\ NothingFollowsACard

\* No Equipment sits on something that is not a creature in play (CR 704.5n).
EquipmentOnCreatures(s) ==
    \A e \in Equipment \intersect On(s) :
        Of(s, e).attached # None =>
            Of(s, e).attached \in On(s) /\ Creature(s, Of(s, e).attached)

\* A grant of control "for as long as you control" its source is there only while
\* its grantee does control the source, and then has its effect.
GrantsFollowTheirSource(s) ==
    \A c \in On(s) :
        Of(s, c).grant # None =>
            /\ Of(s, c).grant \in On(s)
            /\ {s.ctrl[c], s.ctrl[Of(s, c).grant]} = {Of(s, c).grantee}

\* After the pass of state-based actions (check_state_based_actions) Equipment is on
\* creatures and, while one permanent grants control, no grant outlives what it
\* rests on, however that left, died, faded or changed hands.  With several such
\* sources one round of the recompute is not enough: GrantsEndWithTheirSource.
PassSettles == [][Settles => EquipmentOnCreatures(g') /\ GrantsFollowTheirSource(g')]_vars

\* card.rs:894 of the grant kept with a permanent: the pass "reverts control to the
\* owner the moment `grantee` stops controlling `source`".  In the round over the
\* permanents a source can be handed back after what it grants has been visited.
GrantsEndWithTheirSource == [][Settles => GrantsFollowTheirSource(g')]_vars

\* After the pass whoever controls another player's permanent has a reason: a control
\* Aura that is on it now, a grant that holds, or a one-shot theft or reanimation
\* (of this object or, as move_card keeps the controller, of an earlier one).
ControlHasACause ==
    [][Settles => \A c \in On(g') :
          g'.ctrl[c] # Owner[c] =>
              \/ c \in g'.taken
              \/ Of(g', c).grant # None
              \/ /\ Of(g', c).fromAura \in On(g')
                 /\ Of(g', Of(g', c).fromAura).attached = c]_vars

\* A creature raised by an Aura goes when the Aura goes, wherever the Aura goes.
RaisedGoesWithItsAura ==
    [][\A t \in ToSet(g.delayed) :
          t.sacrifice # None /\ {t.watch, t.sacrifice} \subseteq On(g) /\ t.watch \notin On(g')
              => t.sacrifice \notin On(g')]_vars

\* What resolve_spell_finalize says of an Aura whose target is gone: "Target became
\* invalid - move Aura to graveyard".
AuraWithoutTargetIsBuried ==
    [][g.stack # <<>> /\ g'.stack = <<>> =>
          LET top == Last(g.stack)
          IN  top.card \in StealAuras /\ top.target \notin On(g)
                  => top.card \in g'.piles[Owner[top.card]]["graveyard"]]_vars

\* What move_card says of a card that leaves the battlefield: it "becomes a new object
\* on return".  A permanent cast anew is its caster's.
NewObjectIsItsCasters ==
    [][\A c \in Cards \ Auras : IsIn(g, c, "stack", Owner[c]) /\ c \in On(g')
          => g'.ctrl[c] = Owner[c]]_vars

=============================================================================
