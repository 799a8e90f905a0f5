------------------------------ MODULE UndoLog ------------------------------
(***************************************************************************)
(* The undo log of the engine (undo.rs, and the operations of game/state.rs *)
(* and game/actions/ that write it).  An operation changes the game and     *)
(* appends the actions from which GameAction::undo can take the change      *)
(* back; undo, undo_to_previous_choice_point and rewind_to_turn_start pop   *)
(* and reverse.  Local play re-enters a turn by rewinding to its start and  *)
(* replaying the recorded choices, so a rewind that is not exact makes the  *)
(* replayed turn differ from the one the players saw.                       *)
(*                                                                         *)
(* The game is that of a local match (skip_reveals is set: no RevealCard).  *)
(* One player's zones and life are modelled; the other's are the same code. *)
(* The steps of a turn before the end step are one step "combat".           *)
(***************************************************************************)
EXTENDS Integers, Sequences, FiniteSets, SequencesExt, TLC

CONSTANTS Cards,          \* ids of the cards dealt at the start
          Tokens,         \* ids next_card_id may mint
          Equipment,      \* cards that are Equipment; the rest are creatures
          EntersTapped,   \* cards with the enters_tapped flag
          TapsEntering,   \* permanents with etb_tapped_global (Kismet)
          PaysLife,       \* cards with etb_pay_life
          InHand,         \* cards that may be in hand at the start
          MaxOps,         \* bound on the operations of a behaviour
          MaxTurn,        \* bound on the turn number
          StartLife

ASSUME UndoAssumption ==
    /\ Cards \subseteq Nat \ {0} /\ Tokens \subseteq Nat \ {0}
    /\ \A c \in Cards, t \in Tokens : c < t
    /\ Equipment \subseteq Cards /\ EntersTapped \subseteq Cards
    /\ TapsEntering \subseteq Cards /\ PaysLife \subseteq Cards /\ InHand \subseteq Cards
    /\ MaxOps \in Nat /\ MaxTurn \in Nat /\ StartLife \in Nat \ {0}

VARIABLES
    game,   \* the GameState, a record of the fields below
    log,    \* UndoLog::actions
    ops,    \* operations and choices so far, at most MaxOps
    marks   \* history: for each ChangeTurn and ChoicePoint of the log, in order,
            \* its place, the game there, and `loose`: the fields written since
            \* (until the next mark) with no action that could restore them

vars == <<game, log, ops, marks>>

Ids == Cards \union Tokens
NoId == 0
Zones == {"library", "hand", "stack", "battlefield", "graveyard"}
NoCounters == [plus |-> 0, minus |-> 0]
MaxPaid == 7    \* the most the AI pays for etb_pay_life
MaxMark == 1    \* bound on the pumps, damage, counters, shields of a permanent,
                \* on floating mana, on queued turns, combats and triggers

Battlefield(g) == ToSet(g.zone["battlefield"])
OnBattlefield(c) == c \in Battlefield(game)

-----------------------------------------------------------------------------
(* Reversing one action: the arms of GameAction::undo.                      *)

\* Changed form of UndoMove: the card goes back to the end of its zone.
UndoMoveAtEnd(a, g) ==
    IF a.card \notin ToSet(g.zone[a.to]) THEN g
    ELSE [g EXCEPT !.zone[a.to] = SelectSeq(@, LAMBDA c : c # a.card),
                   !.zone[a.from] = Append(@, a.card)]

\* MoveCard: out of to_zone, if it is there, and back in from_zone where it was.
UndoMove(a, g) ==
    IF a.card \notin ToSet(g.zone[a.to]) THEN g
    ELSE LET left == [g.zone EXCEPT ![a.to] = SelectSeq(@, LAMBDA c : c # a.card)]
             pos  == IF a.pos > Len(left[a.from]) + 1 THEN Len(left[a.from]) + 1
                     ELSE a.pos
         IN  [g EXCEPT !.zone = [left EXCEPT ![a.from] = InsertAt(@, pos, a.card)]]

\* The many arms that put a saved value back: SetDamage, SetManaPool,
\* SetLandsPlayedThisTurn, ClearCombat, SetAttachedTo, SetCardCounters,
\* SetStoredInt and their like.
UndoSetCard(a, g) == [g EXCEPT ![a.field][a.card] = a.prev]
UndoSet(a, g) == [g EXCEPT ![a.field] = a.prev]

\* TapCard stores the new state.
UndoTap(a, g) == [g EXCEPT !.tapped[a.card] = ~a.tapped]

\* ModifyLife: the delta back, and has_lost derived again.
UndoLife(a, g) ==
    LET life == g.life - a.delta
    IN  [g EXCEPT !.life = life, !.lost = IF life > 0 THEN FALSE ELSE @]

\* AddMana: saturating subtraction.
UndoAddMana(a, g) ==
    [g EXCEPT !.pool = IF @ > a.amount THEN @ - a.amount ELSE 0]

\* Card::add_counter, with the annihilation of opposite counters.
AddCounter(k, sort) ==
    LET up == [k EXCEPT ![sort] = @ + 1]
        m  == IF up.plus < up.minus THEN up.plus ELSE up.minus
    IN  [plus |-> up.plus - m, minus |-> up.minus - m]

UndoRemoveCounter(a, g) ==
    IF a.removed = 0 THEN g
    ELSE [g EXCEPT !.counters[a.card] = AddCounter(@, a.sort)]

\* PumpCreature: the bonus and the keyword, if this pump granted it.
UndoPump(a, g) ==
    [g EXCEPT !.bonus[a.card] = @ - 1,
              !.kw[a.card] = IF a.granted THEN FALSE ELSE @]

\* ShuffleLibrary: the order and the random generator.
UndoShuffle(a, g) == [g EXCEPT !.zone["library"] = a.prev, !.rng = a.rng]

\* ReorderLibrary: the order alone.
UndoReorder(a, g) == [g EXCEPT !.zone["library"] = a.prev]

\* DeclareAttacker.
UndoAttack(a, g) == [g EXCEPT !.attackers = @ \ {a.card}]

\* RegenerateReplaceDestroy: shields, damage and the whole combat.
UndoRegenerate(a, g) ==
    [g EXCEPT !.shields[a.card] = a.shields, !.damage[a.card] = a.damage,
              !.attackers = a.attackers]

\* reset_transient_state: card c as a new object.
Fresh(c, g) ==
    [g EXCEPT !.tapped[c] = FALSE, !.bonus[c] = 0, !.kw[c] = FALSE, !.damage[c] = 0,
              !.counters[c] = NoCounters, !.shields[c] = 0, !.stored[c] = 0,
              !.attached[c] = NoId]

\* CreateEntity: off the battlefield, the instance cleared, and the id counter
\* rolled back.
UndoMint(a, g) ==
    Fresh(a.card, [g EXCEPT !.zone["battlefield"]
                       = SelectSeq(@, LAMBDA c : c # a.card), !.nextId = a.card])

\* RegisterDelayedTrigger (undo_add) and FireDelayedTrigger (restore).
UndoRegister(a, g) ==
    [g EXCEPT !.triggers = SelectSeq(@, LAMBDA t : t.id # a.id),
              !.nextTrigger = IF (\E t \in ToSet(g.triggers) : t.id = a.id)
                                 /\ a.id + 1 = @
                              THEN a.id ELSE @]
UndoFire(a, g) == [g EXCEPT !.triggers = Append(@, a.trigger)]

\* PushExtraTurn: off the back of the queue, if it is still there.
UndoExtraTurn(g) == [g EXCEPT !.extraTurns = IF @ > 0 THEN @ - 1 ELSE 0]

\* RestoreCardState: everything reset_transient_state wiped.
UndoRestore(a, g) ==
    [g EXCEPT !.tapped[a.card] = a.snap.tapped, !.bonus[a.card] = a.snap.bonus,
              !.kw[a.card] = a.snap.kw, !.damage[a.card] = a.snap.damage,
              !.counters[a.card] = a.snap.counters,
              !.shields[a.card] = a.snap.shields,
              !.stored[a.card] = a.snap.stored,
              !.attached[a.card] = a.snap.attached]

\* AdvanceStep, and ChangeTurn, which never goes below turn 1 and leaves the
\* step, the extra turns and the land count of the new turn as they are.
UndoStep(a, g) == [g EXCEPT !.step = a.from]
UndoTurn(a, g) ==
    [g EXCEPT !.turn = IF a.turn <= 1 THEN 1 ELSE a.turn - 1, !.rng = a.rng]

\* GameAction::undo.
Undo(a, g) ==
    CASE a.kind = "Move"     -> UndoMove(a, g)
      [] a.kind = "Tap"      -> UndoTap(a, g)
      [] a.kind = "SetCard"  -> UndoSetCard(a, g)
      [] a.kind = "Set"      -> UndoSet(a, g)
      [] a.kind = "Life"     -> UndoLife(a, g)
      [] a.kind = "AddMana"  -> UndoAddMana(a, g)
      [] a.kind = "Remove"   -> UndoRemoveCounter(a, g)
      [] a.kind = "Pump"     -> UndoPump(a, g)
      [] a.kind = "Shuffle"  -> UndoShuffle(a, g)
      [] a.kind = "Reorder"  -> UndoReorder(a, g)
      [] a.kind = "Attack"   -> UndoAttack(a, g)
      [] a.kind = "Regen"    -> UndoRegenerate(a, g)
      [] a.kind = "Mint"     -> UndoMint(a, g)
      [] a.kind = "Register" -> UndoRegister(a, g)
      [] a.kind = "Fire"     -> UndoFire(a, g)
      [] a.kind = "Extra"    -> UndoExtraTurn(g)
      [] a.kind = "Restore"  -> UndoRestore(a, g)
      [] a.kind = "Step"     -> UndoStep(a, g)
      [] a.kind = "Turn"     -> UndoTurn(a, g)
      [] OTHER               -> g     \* ChoicePoint


-----------------------------------------------------------------------------
(* Undoing: the state after popping entries of the log.                     *)

\* The game after undoing every entry from k on.
UndoneTo(k) ==
    LET n == Len(log)
        u[i \in k .. n + 1] == IF i = n + 1 THEN game ELSE Undo(log[i], u[i + 1])
    IN  u[k]

\* Changed form of Sweep: the battlefield only, as cleanup once did.
SweepBattlefield(g) ==
    [g EXCEPT !.attackers = {},
              !.damage = [c \in Ids |-> IF c \in Battlefield(g) THEN 0 ELSE @[c]],
              !.bonus = [c \in Ids |-> IF c \in Battlefield(g) THEN 0 ELSE @[c]],
              !.shields = [c \in Ids |-> IF c \in Battlefield(g) THEN 0 ELSE @[c]],
              !.kw = [c \in Ids |-> IF c \in Battlefield(g) THEN FALSE ELSE @[c]]]

\* What rewind_to_turn_start resets after the undo: combat; damage and bonuses
\* of permanents; shields and until-end-of-turn keywords of every card.
Sweep(g) ==
    [g EXCEPT !.attackers = {},
              !.damage = [c \in Ids |-> IF c \in Battlefield(g) THEN 0 ELSE @[c]],
              !.bonus = [c \in Ids |-> IF c \in Battlefield(g) THEN 0 ELSE @[c]],
              !.shields = [c \in Ids |-> 0],
              !.kw = [c \in Ids |-> FALSE]]

\* The last entry of the log with property P, 0 if there is none.
LastOf(P(_)) ==
    LET at == {i \in 1 .. Len(log) : P(log[i])}
    IN  IF at = {} THEN 0 ELSE CHOOSE i \in at : \A j \in at : j <= i

IsTurn(a) == a.kind = "Turn"
TurnBoundary == LastOf(IsTurn)    \* 0: none, the whole log is unwound
Rewound == Sweep(UndoneTo(TurnBoundary + 1))

\* The log is cut to its first k entries.  The loose fields of the marks that
\* go are loose after the last mark that stays.
CutTo(k) ==
    LET gone == {i \in 1 .. Len(marks) : marks[i].at > k}
        stay == Len(marks) - Cardinality(gone)
        lost == UNION {marks[i].loose : i \in gone}
    IN  /\ log' = SubSeq(log, 1, k)
        /\ marks' = IF stay = 0 THEN <<>>
                    ELSE [SubSeq(marks, 1, stay) EXCEPT ![stay].loose = @ \union lost]

\* GameState::undo_to_previous_choice_point: nothing unless the player has a
\* choice in the log; the choice itself goes too.
UndoToChoice(p) ==
    LET mine(a) == a.kind = "Choice" /\ a.player = p
        k == LastOf(mine)
    IN  /\ k # 0
        /\ game' = UndoneTo(k)
        /\ CutTo(k - 1)

\* UndoLog::rewind_to_turn_start.  The ChangeTurn stays in the log.
Rewind ==
    /\ log # <<>>
    /\ game' = Rewound
    /\ CutTo(TurnBoundary)

-----------------------------------------------------------------------------
(* Doing: the operations that change the game.                              *)

\* The new game, the actions logged for it, and the fields it changed that no
\* logged action restores.
Do(g, actions, loose) ==
    /\ game' = g
    /\ log' = log \o actions
    /\ marks' = [marks EXCEPT ![Len(marks)].loose = @ \union loose]

\* A turn is being played: its marker is in the log and the player is alive.
\* In the cleanup step there is no priority, only the choice of the discards.
InTurn == TurnBoundary # 0 /\ ~game.lost /\ game.life > 0
Playing == InTurn /\ game.step # "cleanup"
Permanent(c) == Playing /\ OnBattlefield(c)
Creature(c) == Permanent(c) /\ c \notin Equipment
Differ(g, h) == {f \in DOMAIN g : g[f] # h[f]}

tap_permanent(c) ==
    /\ Permanent(c) /\ ~game.tapped[c]
    /\ Do([game EXCEPT !.tapped[c] = TRUE],
          <<[kind |-> "Tap", card |-> c, tapped |-> TRUE]>>, {})

untap_permanent(c) ==
    /\ Permanent(c) /\ game.tapped[c]
    /\ Do([game EXCEPT !.tapped[c] = FALSE],
          <<[kind |-> "Tap", card |-> c, tapped |-> FALSE]>>, {})

\* move_card, when the card enters the battlefield: its own enters-tapped flag
\* is logged, that of another permanent is not; the life paid is logged with
\* the sign of a gain.
Entered(c, g) ==
    LET own    == c \in EntersTapped
        kismet == ~own /\ \E s \in Battlefield(g) \ {c} : s \in TapsEntering
        pay    == IF c \notin PaysLife THEN 0
                  ELSE IF g.life > MaxPaid THEN MaxPaid ELSE g.life - 1
        paid   == c \in PaysLife
        g1     == [g EXCEPT !.tapped[c] = @ \/ own \/ kismet,
                            !.life = @ - pay,
                            !.stored[c] = IF paid THEN pay ELSE @]
    IN  [game |-> g1,
         acts |-> (IF own THEN <<[kind |-> "Tap", card |-> c, tapped |-> TRUE]>>
                          ELSE <<>>)
                  \o (IF paid THEN <<[kind |-> "Life", delta |-> pay],
                                     [kind |-> "SetCard", field |-> "stored",
                                      card |-> c, prev |-> g.stored[c]]>>
                              ELSE <<>>),
         loose |-> (IF kismet THEN {"tapped"} ELSE {})
                   \union (IF pay > 0 THEN {"life", "lost"} ELSE {})]

\* move_card, when it leaves: the equipment on it falls off unlogged, its own
\* transient state is saved and reset (reset_transient_state).
Left(c, g) ==
    LET on == {e \in Battlefield(g) \intersect Equipment : g.attached[e] = c}
        g1 == [g EXCEPT !.attached = [e \in Ids |-> IF e \in on THEN NoId ELSE @[e]]]
        snap == [tapped |-> g.tapped[c], bonus |-> g.bonus[c], kw |-> g.kw[c],
                 damage |-> g.damage[c], counters |-> g.counters[c],
                 shields |-> g.shields[c], stored |-> g.stored[c],
                 attached |-> g1.attached[c]]
    IN  [game |-> Fresh(c, g1),
         acts |-> <<[kind |-> "Restore", card |-> c, snap |-> snap]>>,
         loose |-> IF on # {} THEN {"attached"} ELSE {}]

\* The zone changes of the game.
Edges == {<<"library", "hand">>, <<"hand", "stack">>, 
          <<"stack", "battlefield">>, <<"stack", "graveyard">>,
          <<"battlefield", "graveyard">>, <<"battlefield", "hand">>,
          <<"graveyard", "battlefield">>, <<"hand", "graveyard">>}

\* GameState::move_card: the game after it, what it logged, what it did not.
Moved(c, from, to) ==
    LET pos   == CHOOSE i \in DOMAIN game.zone[from] : game.zone[from][i] = c
        moved == [game EXCEPT !.zone[from] = RemoveAt(@, pos),
                              !.zone[to] = Append(@, c)]
        idle(g) == [game |-> g, acts |-> <<>>, loose |-> {}]
        in  == IF to = "battlefield" THEN Entered(c, moved) ELSE idle(moved)
        out == IF from = "battlefield" THEN Left(c, in.game) ELSE idle(in.game)
    IN  [game  |-> out.game,
         acts  |-> in.acts \o <<[kind |-> "Move", card |-> c, from |-> from,
                                 to |-> to, pos |-> pos]>> \o out.acts,
         loose |-> in.loose \union out.loose]

move_card(c, from, to) ==
    /\ IF <<from, to>> = <<"hand", "graveyard">> THEN InTurn ELSE Playing
    /\ c \in ToSet(game.zone[from])
    /\ LET m == Moved(c, from, to) IN Do(m.game, m.acts, m.loose)

\* play_land: the move, then the land count.
play_land(c) ==
    /\ Playing /\ game.lands = 0 /\ c \in ToSet(game.zone["hand"])
    /\ LET m == Moved(c, "hand", "battlefield")
       IN  Do([m.game EXCEPT !.lands = 1],
              Append(m.acts, [kind |-> "Set", field |-> "lands", prev |-> 0]), m.loose)

execute_pump_creature(c) ==
    /\ Creature(c) /\ game.bonus[c] <= MaxMark
    /\ Do([game EXCEPT !.bonus[c] = @ + 1, !.kw[c] = TRUE],
          <<[kind |-> "Pump", card |-> c, granted |-> ~game.kw[c]]>>, {})

\* deal_damage_to_creature: log_damage, then the damage.
deal_damage(c) ==
    /\ Creature(c) /\ game.damage[c] < MaxMark
    /\ Do([game EXCEPT !.damage[c] = @ + 1],
          <<[kind |-> "SetCard", field |-> "damage", card |-> c,
             prev |-> game.damage[c]]>>, {})

add_counters(c, sort) ==
    /\ Creature(c) /\ game.counters[c][sort] < MaxMark
    /\ Do([game EXCEPT !.counters[c] = AddCounter(@, sort)],
          <<[kind |-> "SetCard", field |-> "counters", card |-> c,
             prev |-> game.counters[c]]>>, {})

remove_counters(c, sort) ==
    /\ Creature(c)
    /\ LET n == IF game.counters[c][sort] > 0 THEN 1 ELSE 0
       IN  Do([game EXCEPT !.counters[c][sort] = @ - n],
              <<[kind |-> "Remove", card |-> c, sort |-> sort, removed |-> n]>>, {})

\* execute_gain_life, execute_lose_life (Player::lose_life sets has_lost) and
\* execute_set_life (which does not).
execute_gain_life ==
    /\ Playing /\ game.life <= StartLife
    /\ Do([game EXCEPT !.life = @ + 1], <<[kind |-> "Life", delta |-> 1]>>, {})
execute_lose_life ==
    /\ Playing
    /\ Do([game EXCEPT !.life = @ - 1, !.lost = @ \/ game.life <= 1],
          <<[kind |-> "Life", delta |-> -1]>>, {})
execute_set_life(n) ==
    /\ Playing
    /\ Do([game EXCEPT !.life = n], <<[kind |-> "Life", delta |-> n - game.life]>>, {})

\* Mana: a mana ability, a payment (log_mana_pool first), and the drain of
\* execute_drain_mana, which is not logged.
tap_for_mana(c) ==
    /\ Permanent(c) /\ ~game.tapped[c] /\ game.pool < MaxMark
    /\ Do([game EXCEPT !.tapped[c] = TRUE, !.pool = @ + 1],
          <<[kind |-> "Tap", card |-> c, tapped |-> TRUE],
            [kind |-> "AddMana", amount |-> 1]>>, {})
pay_mana ==
    /\ Playing /\ game.pool > 0
    /\ Do([game EXCEPT !.pool = @ - 1],
          <<[kind |-> "Set", field |-> "pool", prev |-> game.pool]>>, {})
execute_drain_mana ==
    /\ Playing /\ game.pool > 0
    /\ Do([game EXCEPT !.pool = 0], <<>>, {"pool"})

\* execute_regenerate: a shield, not logged.  apply_regeneration_shield: the
\* tap has an action of its own, before the one that covers the rest.
execute_regenerate(c) ==
    /\ Creature(c) /\ game.shields[c] < MaxMark
    /\ Do([game EXCEPT !.shields[c] = @ + 1], <<>>, {"shields"})
apply_regeneration_shield(c) ==
    /\ Creature(c) /\ game.shields[c] > 0
    /\ Do([game EXCEPT !.shields[c] = @ - 1, !.damage[c] = 0, !.tapped[c] = TRUE,
                       !.attackers = @ \ {c}],
          (IF game.tapped[c] THEN <<>>
           ELSE <<[kind |-> "Tap", card |-> c, tapped |-> TRUE]>>)
          \o <<[kind |-> "Regen", card |-> c, shields |-> game.shields[c],
                damage |-> game.damage[c], attackers |-> game.attackers]>>, {})

\* The library: shuffle_library (any order, and the generator moves on), and
\* the reorder of a scry, logged by log_library_reorder without the generator.
shuffle_library ==
    /\ Playing
    /\ \E p \in Permutations(ToSet(game.zone["library"])) :
          Do([game EXCEPT !.zone["library"] = [i \in DOMAIN @ |-> p[@[i]]],
                          !.rng = @ + 1],
             <<[kind |-> "Shuffle", prev |-> game.zone["library"],
                rng |-> game.rng]>>, {})
scry ==
    /\ Playing /\ Len(game.zone["library"]) > 1
    /\ Do([game EXCEPT !.zone["library"] = Append(Tail(@), Head(@))],
          <<[kind |-> "Reorder", prev |-> game.zone["library"]]>>, {})

\* execute_declare_attacker.
declare_attacker(c) ==
    /\ Creature(c) /\ game.step = "combat" /\ c \notin game.attackers
    /\ Do([game EXCEPT !.attackers = @ \union {c}],
          <<[kind |-> "Attack", card |-> c]>>, {})

\* execute_create_token: the id is the next one, the mint is logged before the
\* token is put onto the battlefield.
execute_create_token ==
    /\ Playing /\ game.nextId \in Tokens
    /\ Do([game EXCEPT !.zone["battlefield"] = Append(@, game.nextId),
                       !.nextId = @ + 1],
          <<[kind |-> "Mint", card |-> game.nextId]>>, {})

\* DelayedTriggerStore: a trigger is registered under the next id; a trigger
\* that fires is removed from its place and, undone, comes back at the end.
register_trigger(eot) ==
    LET id == game.nextTrigger
    IN  /\ Playing /\ id <= MaxMark + 1
        /\ Do([game EXCEPT !.triggers = Append(@, [id |-> id, eot |-> eot]),
                           !.nextTrigger = id + 1],
              <<[kind |-> "Register", id |-> id]>>, {})
fire_trigger ==
    /\ Playing
    /\ \E i \in DOMAIN game.triggers :
          Do([game EXCEPT !.triggers = RemoveAt(@, i)],
             <<[kind |-> "Fire", trigger |-> game.triggers[i]]>>,
             IF i < Len(game.triggers) THEN {"triggers"} ELSE {})

\* execute_add_turn, and execute_add_phase, which is not logged.
execute_add_turn ==
    /\ Playing /\ game.extraTurns < MaxMark
    /\ Do([game EXCEPT !.extraTurns = @ + 1], <<[kind |-> "Extra"]>>, {})
execute_add_phase ==
    /\ Playing /\ game.step = "combat" /\ game.extraCombats < MaxMark
    /\ Do([game EXCEPT !.extraCombats = @ + 1], <<>>, {"extraCombats"})

\* attach_equipment.
attach_equipment(e, c) ==
    /\ Permanent(e) /\ e \in Equipment /\ Creature(c) /\ game.attached[e] # c
    /\ Do([game EXCEPT !.attached[e] = c],
          <<[kind |-> "SetCard", field |-> "attached", card |-> e,
             prev |-> game.attached[e]]>>, {})

\* A mark for the entry about to be logged.
Mark(g, at) == [at |-> at, game |-> g, loose |-> {}]

\* log_choice_point.
log_choice_point(p) ==
    /\ InTurn
    /\ log' = Append(log, [kind |-> "Choice", player |-> p])
    /\ marks' = Append(marks, Mark(game, Len(log) + 1))
    /\ UNCHANGED game

\* ensure_turn_one_boundary.
ensure_turn_one_boundary ==
    /\ game.turn = 1 /\ TurnBoundary = 0
    /\ log' = Append(log, [kind |-> "Turn", turn |-> 1, rng |-> game.rng])
    /\ marks' = Append(marks, Mark(game, Len(log) + 1))
    /\ UNCHANGED game

\* end_combat_step, then advance_step.  A queued combat begins again, with
\* nothing logged; otherwise the next step, logged.
LeaveCombat ==
    LET clear == [game EXCEPT !.attackers = {}]
        acts  == <<[kind |-> "Set", field |-> "attackers", prev |-> game.attackers]>>
    IN  /\ Playing /\ game.step = "combat"
        /\ IF game.extraCombats > 0
           THEN Do([clear EXCEPT !.extraCombats = @ - 1], acts, {"extraCombats"})
           ELSE Do([clear EXCEPT !.step = "end"],
                   Append(acts, [kind |-> "Step", from |-> "combat"]), {})

\* advance_step from the end step: cleanup_temporary_effects, not logged.
EnterCleanup ==
    LET clean == [game EXCEPT
            !.bonus = [c \in Ids |-> IF OnBattlefield(c) THEN 0 ELSE @[c]],
            !.damage = [c \in Ids |-> IF OnBattlefield(c) THEN 0 ELSE @[c]],
            !.kw = [c \in Ids |-> FALSE]]
    IN  /\ Playing /\ game.step = "end"
        /\ Do([clean EXCEPT !.step = "cleanup"], <<[kind |-> "Step", from |-> "end"]>>,
              Differ(clean, game))

\* The rest of cleanup_step (after its discards) and advance_step into the next
\* turn.  Only the turn number and the generator are in the log.
NextTurn ==
    LET ended == [game EXCEPT
            !.pool = 0,
            !.triggers = SelectSeq(@, LAMBDA t : ~t.eot),
            !.damage = [c \in Ids |-> IF OnBattlefield(c) /\ c \notin Equipment
                                      THEN 0 ELSE @[c]],
            !.shields = [c \in Ids |-> IF OnBattlefield(c) /\ c \notin Equipment
                                       THEN 0 ELSE @[c]],
            !.extraCombats = 0,
            !.extraTurns = IF @ > 0 THEN @ - 1 ELSE 0,
            !.step = "combat", !.lands = 0]
        expired == IF ended.triggers # game.triggers THEN {"nextTrigger"} ELSE {}
        n == Len(marks)
    IN  /\ InTurn /\ game.step = "cleanup"
        /\ game.turn < MaxTurn
        /\ game' = [ended EXCEPT !.turn = @ + 1]
        /\ log' = Append(log, [kind |-> "Turn", turn |-> game.turn + 1,
                               rng |-> game.rng])
        /\ marks' = Append([marks EXCEPT ![n].loose = @ \union expired
                                                      \union Differ(ended, game)],
                           Mark(game', Len(log) + 1))

-----------------------------------------------------------------------------
\* A game in progress: the cards all in the library, or on the battlefield, some
\* of InHand still in hand.
Deals == {[c \in Cards |-> "library"]} \union
         {at \in [Cards -> {"hand", "battlefield"}] :
             \A c \in Cards \ InHand : at[c] = "battlefield"}
Init ==
    /\ \E at \in Deals :
          game = [zone |-> [z \in Zones |->
                               SetToSortSeq({c \in Cards : at[c] = z}, <)],
                  tapped |-> [c \in Ids |-> FALSE], bonus |-> [c \in Ids |-> 0],
                  kw |-> [c \in Ids |-> FALSE], damage |-> [c \in Ids |-> 0],
                  counters |-> [c \in Ids |-> NoCounters],
                  shields |-> [c \in Ids |-> 0], stored |-> [c \in Ids |-> 0],
                  attached |-> [c \in Ids |-> NoId], life |-> StartLife,
                  lost |-> FALSE, pool |-> 0, step |-> "combat", turn |-> 1,
                  attackers |-> {}, extraTurns |-> 0, extraCombats |-> 0, rng |-> 0,
                  nextId |-> Cardinality(Cards) + 1, triggers |-> <<>>,
                  nextTrigger |-> 1, lands |-> 0]
    /\ log = <<>> /\ marks = <<>> /\ ops = 0

CardOps ==
    \E c \in Ids :
        \/ tap_permanent(c) \/ untap_permanent(c) \/ tap_for_mana(c)
        \/ play_land(c)
        \/ \E e \in Edges : move_card(c, e[1], e[2])
        \/ execute_pump_creature(c) \/ deal_damage(c)
        \/ \E sort \in {"plus", "minus"} : add_counters(c, sort)
                                           \/ remove_counters(c, sort)
        \/ execute_regenerate(c) \/ apply_regeneration_shield(c)
        \/ declare_attacker(c)
        \/ \E e \in Equipment : attach_equipment(e, c)

PlayerOps ==
    \/ execute_gain_life \/ execute_lose_life \/ execute_set_life(1)
    \/ pay_mana \/ execute_drain_mana
    \/ shuffle_library \/ scry
    \/ execute_create_token
    \/ \E eot \in BOOLEAN : register_trigger(eot)
    \/ fire_trigger
    \/ execute_add_turn \/ execute_add_phase
    \/ \E p \in {1, 2} : log_choice_point(p)

TurnOps == ensure_turn_one_boundary \/ LeaveCombat \/ EnterCleanup \/ NextTurn

UndoOps == Rewind \/ \E p \in {1, 2} : UndoToChoice(p)

Next ==
    \/ ops < MaxOps /\ ops' = ops + 1 /\ (CardOps \/ PlayerOps)
    \/ (TurnOps \/ UndoOps) /\ UNCHANGED ops

Spec == Init /\ [][Next]_vars

-----------------------------------------------------------------------------
(* Properties.                                                              *)

\* Every dealt card, and every token minted so far, is in one place of one
\* zone, however operations and undos are mixed; the marks follow the log.
TypeOK ==
    /\ LET made == Cards \union {t \in Tokens : t < game.nextId}
           all  == game.zone["library"] \o game.zone["hand"] \o game.zone["stack"]
                   \o game.zone["battlefield"] \o game.zone["graveyard"]
       IN  ToSet(all) = made /\ Len(all) = Cardinality(made)
    /\ \A c \in Ids : game.counters[c].plus >= 0 /\ game.counters[c].minus >= 0
    /\ game.pool >= 0 /\ game.turn \in 1 .. MaxTurn
    /\ {marks[i].at : i \in DOMAIN marks}
         = {i \in DOMAIN log : log[i].kind \in {"Turn", "Choice"}}

LooseSince(i) == UNION {marks[j].loose : j \in i .. Len(marks)}

\* Undoing to a choice point gives back the game in which the choice was made:
\* every field, except those the code writes without logging (or, for the order
\* of delayed triggers, restores elsewhere).  Zone order, keywords granted
\* twice, counters that annihilated, has_lost and next_id are all included.
UndoIsExact ==
    \A i \in DOMAIN marks :
        log[marks[i].at].kind = "Choice" =>
            Differ(UndoneTo(marks[i].at), marks[i].game) \subseteq LooseSince(i)

\* rewind_to_turn_start gives back the start of the turn, if the turn began with
\* no shield, keyword, bonus or damage left over.  The sweep makes good what the
\* log leaves out: shields, keywords, damage and combat always, the bonuses of
\* the permanents the turn began with.
RewindIsExact ==
    \A i \in DOMAIN marks :
        LET was  == marks[i].game
            diff == Differ(Rewound, was)
        IN  (marks[i].at = TurnBoundary /\ was = Sweep(was)) =>
                /\ diff \subseteq LooseSince(i)
                /\ diff \intersect {"shields", "kw", "damage", "attackers"} = {}
                /\ \A c \in Battlefield(was) : Rewound.bonus[c] = was.bonus[c]
=============================================================================
