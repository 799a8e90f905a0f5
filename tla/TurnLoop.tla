------------------------------ MODULE TurnLoop ------------------------------
(***************************************************************************)
(* The game loop: turns, the twelve steps of a turn, the priority round in *)
(* which two players act or pass until both have passed, the stack, and    *)
(* the end of the game.  It models run_turn_once, run_turn, the step       *)
(* handlers of game_loop/steps.rs and game_loop/combat.rs, priority_round  *)
(* of game_loop/priority.rs and GameState::advance_step.                   *)
(*                                                                         *)
(* Both controllers are local and never ask for an undo: a controller is a *)
(* choice among what get_available_spell_abilities offers.  A card is a    *)
(* member of one of the sets below that say what it does; the cards of a   *)
(* library have no identity, and neither have the ones drawn from it.      *)
(***************************************************************************)
EXTENDS Integers, Sequences, FiniteSets

CONSTANTS First,        \* the named cards player 1 starts with in hand
          Second,       \* the same for player 2
          Lands,        \* cards played without the stack
          Cyclers,      \* cards with cycling
          Bolts,        \* instants: one damage to a player
          Counters,     \* instants: counter a spell of the stack
          Drains,       \* counterspells that register a delayed trigger
          Regrowths,    \* sorceries: a card of the graveyard back to hand
          Walks,        \* sorceries: an extra turn
          Assaults,     \* sorceries: an extra combat phase
          Loots,        \* instants resolved effect by effect: draw, discard
          Creatures,    \* players who have a creature with "tap: 1 damage"
          FirstStrikers,\* players whose creature has first strike
          Sanctuaries,  \* players who control an Island Sanctuary
          Pained,       \* players with an upkeep trigger that hurts them
          StartLife, LibrarySize, MaxHand,
          MaxTurns,     \* max_turns of the game loop
          MaxActions    \* MAX_ACTIONS_PER_PRIORITY

Players == {1, 2}
Cards == First \cup Second
None == 0

Kinds == <<Bolts, Counters, Regrowths, Walks, Assaults, Loots>>

(* A deck is finite; a named card does one thing when it resolves.         *)
ASSUME LoopAssumption ==
    /\ First \cap Second = {}
    /\ Cards \subseteq Nat \ {0}
    /\ IsFiniteSet(Cards)
    /\ \A i, j \in DOMAIN Kinds : i # j => Kinds[i] \cap Kinds[j] = {}
    /\ {StartLife, LibrarySize, MaxHand, MaxTurns, MaxActions} \subseteq Nat
    /\ StartLife > 0
    /\ Creatures \cup FirstStrikers \cup Sanctuaries \cup Pained \subseteq Players

VARIABLES
    pc,       \* where the loop stands
    turn,     \* TurnStructure
    round,    \* the locals of priority_round, and what follows the round
    game,     \* zones, stack, players, pending turns and combats
    elapsed,  \* turns_elapsed
    result,   \* GameResult, None while the game runs
    quiet,    \* history: who has passed since the last action or resolution
    chosen,   \* history: the target chosen when a card was last cast
    combats   \* history: combat phases of this turn, and extra ones granted
              \* while the turn could still have them

vars == <<pc, turn, round, game, elapsed, result, quiet, chosen, combats>>

Other(p) == 3 - p
Owner(c) == IF c \in First THEN 1 ELSE 2
Targets == Players \cup Cards \cup {None}
Instants == Bolts \cup Counters \cup Loots

Steps == {"Untap", "Upkeep", "Draw", "Main1", "BeginCombat",
          "DeclareAttackers", "DeclareBlockers", "CombatDamage", "EndCombat",
          "Main2", "End", "Cleanup"}

(* Step::next; Cleanup has no successor and starts a turn instead. *)
NextStep(s) ==
    CASE s = "Untap" -> "Upkeep"
      [] s = "Upkeep" -> "Draw"
      [] s = "Draw" -> "Main1"
      [] s = "Main1" -> "BeginCombat"
      [] s = "BeginCombat" -> "DeclareAttackers"
      [] s = "DeclareAttackers" -> "DeclareBlockers"
      [] s = "DeclareBlockers" -> "CombatDamage"
      [] s = "CombatDamage" -> "EndCombat"
      [] s = "EndCombat" -> "Main2"
      [] s = "Main2" -> "End"
      [] s = "End" -> "Cleanup"

IsMain(s) == s \in {"Main1", "Main2"}

(***************************************************************************)
(* The state.                                                              *)
(***************************************************************************)
PlayerStates ==
    [life: Int, library: Nat, fresh: Nat, lands: Nat, drawn: Nat,
     pool: Nat, tapped: BOOLEAN, protected: BOOLEAN]

(* targets holds spell_targets by card: its order between cards is never   *)
(* looked at.                                                              *)
GameStates ==
    [zone: [Cards -> {"hand", "stack", "field", "grave"}], stack: Seq(Cards),
     targets: [Cards -> Seq(Targets)], pl: [Players -> PlayerStates],
     extraTurns: Seq(Players), extraCombats: Nat,
     combat: [attacking: BOOLEAN, blocked: BOOLEAN],
     delayed: SUBSET Players]

NewPlayer ==
    [life |-> StartLife, library |-> LibrarySize, fresh |-> 0, lands |-> 0,
     drawn |-> 0, pool |-> 0, tapped |-> FALSE, protected |-> FALSE]

NoCombat == [attacking |-> FALSE, blocked |-> FALSE]

Init ==
    /\ pc = "turn"
    /\ turn = [number |-> 1, step |-> "Untap", active |-> 1,
               priority |-> None, passes |-> 0]
    /\ round = [actions |-> 0, next |-> "advance"]
    /\ game = [zone |-> [c \in Cards |-> "hand"], stack |-> <<>>,
               targets |-> [c \in Cards |-> <<>>],
               pl |-> [p \in Players |-> NewPlayer],
               extraTurns |-> <<>>, extraCombats |-> 0,
               combat |-> NoCombat, delayed |-> {}]
    /\ elapsed = 0
    /\ result = None
    /\ quiet = {}
    /\ chosen = [c \in Cards |-> None]
    /\ combats = [begun |-> 0, granted |-> 0]

(***************************************************************************)
(* check_win_condition: the first player at no life loses; failing that,   *)
(* the first player whose library is empty.  0 when the game goes on.      *)
(***************************************************************************)
Dead(g) == {p \in Players : g.pl[p].life <= 0}
Decked(g) == {p \in Players : g.pl[p].library = 0}
Foremost(S) == CHOOSE p \in S : \A q \in S : p <= q

Verdict(g) ==
    IF Dead(g) # {} THEN [reason |-> "death", loser |-> Foremost(Dead(g))]
    ELSE IF Decked(g) # {}
         THEN [reason |-> "decking", loser |-> Foremost(Decked(g))]
         ELSE [reason |-> "none", loser |-> None]

(* Leave for pc, unless somebody has lost in g. *)
GoUnlessOver(g, where) ==
    IF Verdict(g).loser # None
    THEN pc' = "over" /\ result' = Verdict(g)
    ELSE pc' = where /\ result' = result

(***************************************************************************)
(* run_turn_once and the start of run_turn: win condition, turn limit, the *)
(* check after the turn (which is this one again, one turn later), then    *)
(* reset_turn_state.                                                       *)
(***************************************************************************)
LoseLife(g, p) == [g EXCEPT !.pl[p].life = @ - 1]
Tap(g, p) == [g EXCEPT !.pl[p].tapped = TRUE]

ResetTurnState(g, p) ==
    [g EXCEPT !.pl = [q \in Players |->
        [g.pl[q] EXCEPT !.pool = 0, !.lands = IF q = p THEN 0 ELSE @]]]

RunTurnOnce ==
    /\ pc = "turn"
    /\ IF Verdict(game).loser # None
       THEN /\ pc' = "over" /\ result' = Verdict(game)
            /\ UNCHANGED <<game, combats>>
       ELSE IF elapsed >= MaxTurns
            THEN /\ pc' = "over"
                 /\ result' = [reason |-> "limit", loser |-> None]
                 /\ UNCHANGED <<game, combats>>
            ELSE /\ pc' = "step"
                 /\ game' = ResetTurnState(game, turn.active)
                 /\ combats' = [begun |-> 0, granted |-> 0]
                 /\ result' = result
    /\ UNCHANGED <<turn, round, elapsed, quiet, chosen>>

(***************************************************************************)
(* The step handlers.  Most end with priority_round: EnterRound is its     *)
(* entry, where a priority player left over from an interrupted round      *)
(* would resume and otherwise the active player starts.                    *)
(***************************************************************************)
EnterRound(next) ==
    /\ pc' = "round"
    /\ round' = [actions |-> 0, next |-> next]
    /\ turn' = [turn EXCEPT !.priority = IF @ = None THEN turn.active ELSE @]
    /\ quiet' = {}

InStep(s) == pc = "step" /\ turn.step = s

SkipRound == pc' = "advance" /\ UNCHANGED <<turn, round, quiet>>

(* untap_step: draw counter, then the active player's creature. *)
UntapStep ==
    /\ InStep("Untap")
    /\ game' = [game EXCEPT !.pl[turn.active] =
                              [@ EXCEPT !.drawn = 0, !.tapped = FALSE]]
    /\ SkipRound
    /\ UNCHANGED <<elapsed, result, chosen, combats>>

(* upkeep_step: phase triggers take effect at once, without the stack. *)
UpkeepStep ==
    /\ InStep("Upkeep")
    /\ game' = IF turn.active \in Pained
               THEN LoseLife(game, turn.active) ELSE game
    /\ EnterRound("advance")
    /\ UNCHANGED <<elapsed, result, chosen, combats>>

(* draw_card: nothing happens when the library is empty. *)
Drawing(r) ==
    IF r.library = 0 THEN r
    ELSE [r EXCEPT !.library = @ - 1, !.fresh = @ + 1, !.drawn = @ + 1]

DrawCard(g, p) ==
    [g EXCEPT !.pl[p] = Drawing(@)]

(* draw_step: not on turn 1, which has no round either; an Island          *)
(* Sanctuary replaces the draw by protection.                              *)
DrawStep ==
    /\ InStep("Draw")
    /\ IF turn.number = 1
       THEN SkipRound /\ UNCHANGED game
       ELSE /\ game' = IF turn.active \in Sanctuaries
                       THEN [game EXCEPT !.pl[turn.active].protected = TRUE]
                       ELSE DrawCard(game, turn.active)
            /\ EnterRound("advance")
    /\ UNCHANGED <<elapsed, result, chosen, combats>>

(* main_phase: the delayed triggers of the active player fire and go. *)
FireDelayed(g, p) ==
    [g EXCEPT !.delayed = @ \ {p},
              !.pl[p].pool = @ + IF p \in g.delayed THEN 1 ELSE 0]

MainPhase ==
    /\ pc = "step" /\ IsMain(turn.step)
    /\ game' = FireDelayed(game, turn.active)
    /\ EnterRound("advance")
    /\ UNCHANGED <<elapsed, result, chosen, combats>>

BeginCombatStep ==
    /\ InStep("BeginCombat")
    /\ combats' = [combats EXCEPT !.begun = @ + 1]
    /\ EnterRound("advance")
    /\ UNCHANGED <<game, elapsed, result, chosen>>

(* The active player's creature may attack when it is untapped and the     *)
(* defender is not protected; attacking taps it.                           *)
CanAttack(p) ==
    /\ p \in Creatures
    /\ ~game.pl[p].tapped
    /\ ~game.pl[Other(p)].protected

DeclareAttackersStep ==
    /\ InStep("DeclareAttackers")
    /\ \/ UNCHANGED game
       \/ /\ CanAttack(turn.active)
          /\ game' = [Tap(game, turn.active) EXCEPT
                        !.combat = [@ EXCEPT !.attacking = TRUE]]
    /\ EnterRound("advance")
    /\ UNCHANGED <<elapsed, result, chosen, combats>>

DeclareBlockersStep ==
    /\ InStep("DeclareBlockers")
    /\ \/ UNCHANGED game
       \/ /\ game.combat.attacking
          /\ Other(turn.active) \in Creatures
          /\ ~game.pl[Other(turn.active)].tapped
          /\ game' = [game EXCEPT !.combat = [@ EXCEPT !.blocked = TRUE]]
    /\ EnterRound("advance")
    /\ UNCHANGED <<elapsed, result, chosen, combats>>

(* One call of assign_combat_damage: an unblocked attacker hits its        *)
(* defender in the part of the step its keyword gives it.                  *)
DealCombatDamage(g, firstStrike) ==
    IF /\ g.combat.attacking /\ ~g.combat.blocked
       /\ (turn.active \in FirstStrikers) = firstStrike
    THEN LoseLife(g, Other(turn.active))
    ELSE g

HasFirstStrike ==
    \/ game.combat.attacking /\ turn.active \in FirstStrikers
    \/ game.combat.blocked /\ Other(turn.active) \in FirstStrikers

(* combat_damage_step: the part for first strike with its own win check    *)
(* and round, then the normal part with its own.                           *)
DamageThenRound(firstStrike, next) ==
    LET g == DealCombatDamage(game, firstStrike) IN
    /\ game' = g
    /\ IF Verdict(g).loser # None
       THEN /\ pc' = "over" /\ result' = Verdict(g)
            /\ UNCHANGED <<turn, round, quiet>>
       ELSE EnterRound(next) /\ result' = result
    /\ UNCHANGED <<elapsed, chosen, combats>>

CombatDamageStep ==
    /\ InStep("CombatDamage")
    /\ IF HasFirstStrike THEN DamageThenRound(TRUE, "normalDamage")
                         ELSE DamageThenRound(FALSE, "advance")

NormalDamage ==
    /\ pc = "normalDamage"
    /\ DamageThenRound(FALSE, "advance")

EndCombatStep ==
    /\ InStep("EndCombat")
    /\ game' = [game EXCEPT !.combat = NoCombat]
    /\ EnterRound("advance")
    /\ UNCHANGED <<elapsed, result, chosen, combats>>

EndStep ==
    /\ InStep("End")
    /\ EnterRound("advance")
    /\ UNCHANGED <<game, elapsed, result, chosen, combats>>

(* A discard of n cards of p: named ones D, the rest without identity. *)
Hand(g, p) == {c \in Cards : g.zone[c] = "hand" /\ Owner(c) = p}
HandSize(g, p) == Cardinality(Hand(g, p)) + g.pl[p].fresh

Discards(g, p, n) ==
    {[g EXCEPT !.zone = [c \in Cards |-> IF c \in D THEN "grave" ELSE @[c]],
               !.pl[p].fresh = @ - (n - Cardinality(D))] :
     D \in {E \in SUBSET Hand(g, p) :
              /\ Cardinality(E) <= n
              /\ n - Cardinality(E) <= g.pl[p].fresh}}

(* cleanup_step: discard to hand size, empty the pools, end "this turn"    *)
(* shields and Island Sanctuary; nobody gets priority.                     *)
EndThisTurn(g) ==
    [g EXCEPT !.pl = [q \in Players |->
        [g.pl[q] EXCEPT !.pool = 0, !.protected = FALSE]]]

CleanupStep ==
    /\ InStep("Cleanup")
    /\ \E g \in Discards(game, turn.active,
                         IF HandSize(game, turn.active) > MaxHand
                         THEN HandSize(game, turn.active) - MaxHand ELSE 0) :
         game' = EndThisTurn(g)
    /\ SkipRound
    /\ UNCHANGED <<elapsed, result, chosen, combats>>

(***************************************************************************)
(* priority_round, the inner loop: one decision of the player who has      *)
(* priority.  What is offered: lands and sorcery-speed spells in the       *)
(* active player's main phase with an empty stack, instants and abilities  *)
(* at any time, targeted spells when they have a target.                   *)
(***************************************************************************)
Holder == turn.priority

Deciding == pc = "round" /\ turn.passes < 2 /\ round.actions < MaxActions

SorcerySpeed(p) ==
    IsMain(turn.step) /\ turn.active = p /\ game.stack = <<>>

OnStack(g) == {g.stack[i] : i \in DOMAIN g.stack}

ValidTargets(c) ==
    CASE c \in Bolts -> Players
      [] c \in Counters -> OnStack(game)
      [] c \in Regrowths ->
            {d \in Cards : game.zone[d] = "grave" /\ Owner(d) = Owner(c)}
      [] OTHER -> {None}

CanCast(p, c) ==
    /\ c \in Hand(game, p) \ Lands
    /\ c \in Instants \/ SorcerySpeed(p)
    /\ ValidTargets(c) # {}

CanActivate(p) == p \in Creatures /\ ~game.pl[p].tapped

(* Mutant: the decisions of a round are not counted. *)
CountNothing == round' = round

CountAction == round' = [round EXCEPT !.actions = @ + 1]

(* The holder passes, by choice or because nothing is offered. *)
Pass ==
    /\ Deciding
    /\ CountAction
    /\ turn' = [turn EXCEPT !.passes = @ + 1, !.priority = Other(@)]
    /\ quiet' = quiet \cup {Holder}
    /\ UNCHANGED <<pc, game, elapsed, result, chosen, combats>>

(* Mutant: the pass counter is not reset when an action is chosen. *)
FailedActionAddsPass ==
    /\ Deciding
    /\ CanActivate(Holder) \/ \E c \in Cards : CanCast(Holder, c)
    /\ CountAction
    /\ turn' = [turn EXCEPT !.passes = @ + 1, !.priority = Other(@)]
    /\ quiet' = {Holder}
    /\ UNCHANGED <<pc, game, elapsed, result, chosen, combats>>

(* An action that was offered but whose payment fails: the pass counter,   *)
(* reset when the action was chosen, counts it as a pass.                  *)
FailedAction ==
    /\ Deciding
    /\ CanActivate(Holder) \/ \E c \in Cards : CanCast(Holder, c)
    /\ CountAction
    /\ turn' = [turn EXCEPT !.passes = 1, !.priority = Other(@)]
    /\ quiet' = {Holder}
    /\ UNCHANGED <<pc, game, elapsed, result, chosen, combats>>

(* Mutant: passes made before the action still count. *)
ActKeepingPasses ==
    /\ Deciding
    /\ CountAction
    /\ turn' = [turn EXCEPT !.priority = Other(@)]
    /\ quiet' = {}
    /\ UNCHANGED <<pc, elapsed, result, combats>>

(* After a successful action other than a land play the other player has   *)
(* priority.                                                               *)
ActAndSwitch ==
    /\ Deciding
    /\ CountAction
    /\ turn' = [turn EXCEPT !.passes = 0, !.priority = Other(@)]
    /\ quiet' = {}
    /\ UNCHANGED <<pc, elapsed, result, combats>>

(* PlayLand: no stack, the player keeps priority. *)
PlayLand(c) ==
    /\ Deciding
    /\ c \in Hand(game, Holder) \cap Lands
    /\ SorcerySpeed(Holder)
    /\ game.pl[Holder].lands < 1
    /\ CountAction
    /\ turn' = [turn EXCEPT !.passes = 0]
    /\ game' = [game EXCEPT !.zone[c] = "field",
                            !.pl[Holder].lands = @ + 1]
    /\ quiet' = {}
    /\ UNCHANGED <<pc, elapsed, result, chosen, combats>>

(* CastSpell: the card is on top of the stack and its targets are noted in *)
(* sub_action_scratch.spell_targets.                                       *)
CastSpell(c, t) ==
    /\ ActAndSwitch
    /\ CanCast(Holder, c)
    /\ t \in ValidTargets(c)
    /\ game' = [game EXCEPT !.zone[c] = "stack",
                            !.stack = Append(@, c),
                            !.targets[c] = Append(@, t)]
    /\ chosen' = [chosen EXCEPT ![c] = t]

(* ActivateAbility: the cost is paid and the effect executed at once; no   *)
(* win condition is looked at before the round goes on.                    *)
ActivateAbility ==
    /\ ActAndSwitch
    /\ CanActivate(Holder)
    /\ game' = LoseLife(Tap(game, Holder), Other(Holder))
    /\ UNCHANGED chosen

(* Cycle: discard the card, draw one. *)
Cycle(c) ==
    /\ ActAndSwitch
    /\ c \in Hand(game, Holder) \cap Cyclers
    /\ game' = DrawCard([game EXCEPT !.zone[c] = "grave"], Holder)
    /\ UNCHANGED chosen

(* MAX_ACTIONS_PER_PRIORITY decisions in one round end the game in error. *)
TooManyActions ==
    /\ pc = "round" /\ turn.passes < 2 /\ round.actions = MaxActions
    /\ pc' = "error"
    /\ UNCHANGED <<turn, round, game, elapsed, result, quiet, chosen, combats>>

(***************************************************************************)
(* Both have passed.  resolve_top_spell_from_stack takes the first entry   *)
(* spell_targets has for the card and drops the card's entries afterwards; *)
(* a spell that draws or discards is resolved effect by effect by          *)
(* resolve_top_spell_with_discard_hook, which leaves them.                 *)
(***************************************************************************)
TargetOf(g, c) ==
    IF g.targets[c] = <<>> THEN None ELSE Head(g.targets[c])

Forget(g, c) == [g EXCEPT !.targets[c] = <<>>]

(* CardZone::remove: the card's first place in the zone, if it is there.   *)
TakeOut(s, c) ==
    IF \A i \in DOMAIN s : s[i] # c THEN s
    ELSE LET i == CHOOSE i \in DOMAIN s :
                    s[i] = c /\ \A j \in DOMAIN s : s[j] = c => i <= j
         IN  SubSeq(s, 1, i - 1) \o SubSeq(s, i + 1, Len(s))

(* counter_spell: the spell leaves the stack for its owner's graveyard. *)
CounterSpell(g, c) ==
    [g EXCEPT !.stack = TakeOut(@, c), !.zone[c] = "grave"]

(* What executing the effects of c can lead to. *)
Effects(g, c, t) ==
    LET p == Owner(c) IN
    CASE c \in Bolts -> {IF t \in Players
                         THEN LoseLife(g, t) ELSE g}
      [] c \in Counters ->
            {IF t \in OnStack(g)
             THEN [CounterSpell(g, t) EXCEPT
                     !.delayed = IF c \in Drains THEN @ \cup {p} ELSE @]
             ELSE g}
      [] c \in Regrowths ->
            {IF t \in Cards /\ g.zone[t] = "grave"
             THEN [g EXCEPT !.zone[t] = "hand"] ELSE g}
      [] c \in Walks -> {[g EXCEPT !.extraTurns = Append(@, p)]}
      [] c \in Assaults -> {[g EXCEPT !.extraCombats = @ + 1]}
      [] c \in Loots -> LET d == DrawCard(g, p) IN
                        Discards(d, p, IF HandSize(d, p) > 0 THEN 1 ELSE 0)
      [] OTHER -> {g}

ResolveTop ==
    /\ pc = "round" /\ turn.passes = 2 /\ game.stack # <<>>
    /\ LET c == game.stack[Len(game.stack)] IN
       /\ \E g \in Effects(game, c, TargetOf(game, c)) :
            LET h == [g EXCEPT !.stack = TakeOut(@, c),
                               !.zone[c] = "grave"] IN
            /\ game' = IF c \in Loots THEN h ELSE Forget(h, c)
            /\ GoUnlessOver(game', "round")
       /\ combats' = [combats EXCEPT !.granted =
            @ + IF c \in Assaults /\ turn.step = "Main1" THEN 1 ELSE 0]
    /\ turn' = [turn EXCEPT !.passes = 0, !.priority = turn.active]
    /\ round' = [round EXCEPT !.actions = 0]
    /\ quiet' = {}
    /\ UNCHANGED <<elapsed, chosen>>

RoundOver ==
    /\ pc = "round" /\ turn.passes = 2 /\ game.stack = <<>>
    /\ pc' = round.next
    /\ turn' = [turn EXCEPT !.passes = 0, !.priority = None]
    /\ UNCHANGED <<round, game, elapsed, result, quiet, chosen, combats>>

(***************************************************************************)
(* GameState::advance_step: another combat phase, the next step, or the    *)
(* next turn, which the front of extra_turns takes if there is one.        *)
(***************************************************************************)
NextPlayer(g) ==
    IF g.extraTurns = <<>> THEN Other(turn.active) ELSE Head(g.extraTurns)

NextTurn ==
    LET p == NextPlayer(game) IN
    /\ turn' = [number |-> turn.number + 1, step |-> "Untap", active |-> p,
                priority |-> None, passes |-> 0]
    /\ game' = [game EXCEPT !.extraCombats = 0,
                            !.extraTurns = IF @ = <<>> THEN @ ELSE Tail(@),
                            !.pl[p].lands = 0]
    /\ elapsed' = elapsed + 1
    /\ pc' = "turn"

(* Mutant: the last extra combat is taken for none. *)
AdvanceStepOffByOne ==
    /\ pc = "advance"
    /\ IF turn.step = "Cleanup" THEN NextTurn
       ELSE /\ IF turn.step = "EndCombat" /\ game.extraCombats > 1
               THEN /\ turn' = [turn EXCEPT !.step = "BeginCombat"]
                    /\ game' = [game EXCEPT !.extraCombats = @ - 1]
               ELSE /\ turn' = [turn EXCEPT !.step = NextStep(@)]
                    /\ game' = game
            /\ elapsed' = elapsed
            /\ pc' = "step"
    /\ UNCHANGED <<round, result, quiet, chosen, combats>>

AdvanceStep ==
    /\ pc = "advance"
    /\ IF turn.step = "Cleanup" THEN NextTurn
       ELSE /\ IF turn.step = "EndCombat" /\ game.extraCombats > 0
               THEN /\ turn' = [turn EXCEPT !.step = "BeginCombat"]
                    /\ game' = [game EXCEPT !.extraCombats = @ - 1]
               ELSE /\ turn' = [turn EXCEPT !.step = NextStep(@)]
                    /\ game' = game
            /\ elapsed' = elapsed
            /\ pc' = "step"
    /\ UNCHANGED <<round, result, quiet, chosen, combats>>

Next ==
    \/ RunTurnOnce
    \/ UntapStep \/ UpkeepStep \/ DrawStep \/ MainPhase
    \/ BeginCombatStep \/ DeclareAttackersStep \/ DeclareBlockersStep
    \/ CombatDamageStep \/ NormalDamage \/ EndCombatStep
    \/ EndStep \/ CleanupStep
    \/ Pass \/ FailedAction \/ ActivateAbility \/ TooManyActions
    \/ \E c \in Cards : PlayLand(c) \/ Cycle(c)
    \/ \E c \in Cards, t \in Targets : CastSpell(c, t)
    \/ ResolveTop \/ RoundOver
    \/ AdvanceStep

(* The loop is one thread that never waits for anything but a decision,    *)
(* and a controller always decides.                                        *)
Spec == Init /\ [][Next]_vars /\ WF_vars(Next)

(***************************************************************************)
(* Properties.                                                             *)
(***************************************************************************)
TypeOK ==
    /\ pc \in {"turn", "step", "round", "normalDamage", "advance", "over",
               "error"}
    /\ turn \in [number: Nat, step: Steps, active: Players,
                 priority: Players \cup {None}, passes: 0..2]
    /\ round \in [actions: 0..MaxActions, next: {"advance", "normalDamage"}]
    /\ game \in GameStates
    /\ elapsed \in 0..MaxTurns
    /\ quiet \subseteq Players
    /\ chosen \in [Cards -> Targets]
    /\ combats \in [begun: Nat, granted: Nat]

(* Steps in which the handler runs a priority round. *)
HasRound ==
    /\ turn.step \notin {"Untap", "Cleanup"}
    /\ ~(turn.step = "Draw" /\ turn.number = 1)

(* A step or a turn ends only with an empty stack, and if players get      *)
(* priority in it, only after both of them have passed since the last      *)
(* thing that happened: nobody is skipped by a counter that counts two     *)
(* passes of one player, or passes from before the last action.            *)
StepsEndQuiet ==
    [][turn'.step # turn.step \/ turn'.number # turn.number
         => /\ game.stack = <<>>
            /\ HasRound => quiet = Players]_vars

(* Every spell was answered: when one leaves the stack by resolving, both  *)
(* players have passed since it, and everything above it, was cast.        *)
AnsweredBeforeResolving ==
    [][Len(game'.stack) < Len(game.stack) => quiet = Players]_vars

(* After the combat phases of a turn there have been one and as many more  *)
(* as effects granted before them in this turn; none is carried over from  *)
(* a turn in which it could not be used any more.                          *)
CombatsMatchGrants ==
    turn.step \in {"Main2", "End", "Cleanup"} =>
        combats.begun = 1 + combats.granted

(* The loop ends: by a winner, the turn limit or the bound on actions.     *)
GameEnds == <>(pc \in {"over", "error"})

(* spell_targets serves the spell being resolved: the target found for a   *)
(* spell on the stack is the one chosen when that spell was cast.          *)
TargetsOfThisCast ==
    \A c \in OnStack(game) : TargetOf(game, c) = chosen[c]
=============================================================================
