------------------------------- MODULE Combat -------------------------------
(***************************************************************************)
(* One turn's combat phases: declaration of attackers and blockers, the    *)
(* choice of how a multi-blocked attacker spends its power, the one or two *)
(* damage steps and what happens in the priority rounds between them.      *)
(* `Ours' are the creatures of the active player, `Theirs' those of the    *)
(* defending player; both are card ids, and their order matters where the  *)
(* code sorts.                                                             *)
(*                                                                         *)
(* A creature's `kind' stands for its printed card: power, toughness and   *)
(* keywords.  Flying stands for the evasion rules that compare one         *)
(* attacker with one blocker; the keyword "Trigger" for an attack or       *)
(* combat-damage trigger that makes some creature leave.  The priority     *)
(* rounds are reduced to the effects that matter to combat, MaxEffects of  *)
(* them.                                                                   *)
(***************************************************************************)
EXTENDS Integers, Sequences, FiniteSets, SequencesExt, FiniteSetsExt, TLC

CONSTANTS
  Ours, Theirs,           \* card ids
  OurKinds, TheirKinds,   \* sets of [power, toughness, keywords]
  StartLife,              \* life of the defending player
  MaxEffects,             \* bound: effects resolved in the priority rounds
  MaxCombats              \* bound: combat phases of the turn

ASSUME CombatAssumption ==
  /\ Ours \subseteq Nat /\ Theirs \subseteq Nat /\ Ours \cap Theirs = {}
  /\ IsFiniteSet(Ours) /\ IsFiniteSet(Theirs)
  /\ \A k \in OurKinds \cup TheirKinds : k.power \in Nat /\ k.toughness \in Nat \ {0}
  /\ MaxEffects \in Nat /\ MaxCombats \in Nat \ {0}

VARIABLES
  kind,       \* creature -> its printed card
  granted,    \* creature -> keywords granted by continuous effects
  field,      \* creatures on the battlefield
  tapped,     \* tapped creatures
  shields,    \* creature -> regeneration shields
  mazed,      \* creatures with prevent_all_combat_damage_this_turn
  attackers,  \* CombatState.attackers: who attacks (always the defending player)
  blockers,   \* CombatState.blockers: blocker -> the attacker it blocks
  blockedBy,  \* CombatState.attacker_blockers: attacker -> its blockers, in order
  life,       \* life of the two players
  phase,      \* where the turn loop stands
  todo,       \* chosen attackers still to be declared, in order
  hits,       \* damage step -> damage dealt in it this combat
  effects,    \* effects resolved so far
  combats,    \* combat phases begun so far
  regenerated \* history: creatures that regenerated this combat

board == <<kind, granted, field, tapped, shields, mazed>>
combat == <<attackers, blockers, blockedBy>>
vars == <<board, combat, life, phase, todo, hits, effects, combats, regenerated>>

Creatures == Ours \cup Theirs
Defender == -1   \* the defending player, as the target of damage
Windows == {"afterAttackers", "afterBlockers", "afterFirst", "afterDamage", "afterCombat"}

Power(c) == kind[c].power
Toughness(c) == kind[c].toughness
Printed(c, k) == k \in kind[c].keywords
HasKeywordWithEffects(c, k) == Printed(c, k) \/ k \in granted[c]

(***************************************************************************)
(* The board below combat.                                                 *)
(***************************************************************************)
\* The creatures of S leave and their transient state is reset; CombatState keeps
\* their ids.  `t' and `sh' are the tapped set and the shields of the others.
Leave(S, t, sh) ==
  /\ field' = field \ S
  /\ tapped' = t \ S
  /\ mazed' = mazed \ S
  /\ granted' = [c \in Creatures |-> IF c \in S THEN {} ELSE granted[c]]
  /\ shields' = [c \in Creatures |-> IF c \in S THEN 0 ELSE sh[c]]
  /\ UNCHANGED kind

\* A set of numbers in ascending order: each has as many below it as its place
\* says.
SortedSeq(S) ==
  [i \in 1..Cardinality(S) |-> CHOOSE x \in S : Cardinality({y \in S : y < x}) = i - 1]

\* retain: the places kept, in order.
Without(list, S) ==
  LET kept == SortedSeq({i \in DOMAIN list : list[i] \notin S})
  IN [j \in DOMAIN kept |-> list[kept[j]]]

\* Mutant: the lists of blockers keep the creature.
RemoveKeepsLists(S) ==
  /\ attackers' = attackers \ S
  /\ blockers' = [b \in DOMAIN blockers \ S |-> blockers[b]]
  /\ blockedBy' = [a \in DOMAIN blockedBy \ S |-> blockedBy[a]]
  /\ regenerated' = regenerated \cup S

\* Mutant: only a blocker is removed.
RemoveBlockerOnly(S) ==
  /\ blockers' = [b \in DOMAIN blockers \ S |-> blockers[b]]
  /\ blockedBy' = [a \in DOMAIN blockedBy |-> Without(blockedBy[a], S)]
  /\ regenerated' = regenerated \cup S
  /\ UNCHANGED attackers

RemoveFromCombat(S) ==
  /\ attackers' = attackers \ S
  /\ blockers' = [b \in DOMAIN blockers \ S |-> blockers[b]]
  /\ blockedBy' = [a \in DOMAIN blockedBy \ S |-> Without(blockedBy[a], S)]
  /\ regenerated' = regenerated \cup S

\* Mutant: a blocker counts while it is on the battlefield.
IsBlockedNow(a) == a \in DOMAIN blockedBy /\ Range(blockedBy[a]) \cap field # {}

IsBlocked(a) == a \in DOMAIN blockedBy /\ blockedBy[a] # <<>>

\* What the triggers of the creatures in `who' may make leave, out of `candidates'.
TriggerMayTake(who, candidates) ==
  {{}} \cup (IF \E c \in who : Printed(c, "Trigger") THEN {{d} : d \in candidates} ELSE {})

(***************************************************************************)
(* Declaration of attackers.                                               *)
(***************************************************************************)
AvailableAttackers == {c \in Ours \cap field : c \notin tapped /\ c \notin attackers
                                               /\ ~Printed(c, "Defender")}

\* Creatures that must attack and were left back are added behind the chosen ones.
ChooseAttackers ==
  /\ phase = "attackers"
  /\ LET able == AvailableAttackers
         forced == {c \in able : HasKeywordWithEffects(c, "MustAttack")} IN
     \E S \in SUBSET able :
       \E order \in SetToSeqs(S) :
         todo' = order \o SortedSeq(forced \ S)
  /\ phase' = "declaring"
  /\ UNCHANGED <<board, combat, life, hits, effects, combats, regenerated>>

\* A creature an earlier attacker's trigger has taken away is skipped.
SkipAttacker ==
  /\ phase = "declaring" /\ todo # <<>>
  /\ Head(todo) \notin field \/ Head(todo) \in tapped
  /\ todo' = Tail(todo)
  /\ UNCHANGED <<board, combat, life, phase, hits, effects, combats, regenerated>>

\* declare_attacker: into combat, tapped, and its triggers run at once.
DeclareAttacker ==
  /\ phase = "declaring" /\ todo # <<>>
  /\ LET c == Head(todo) IN
     /\ c \in field /\ c \notin tapped
     /\ attackers' = attackers \cup {c}
     /\ \E lost \in TriggerMayTake({c}, field \ {c}) :
          Leave(lost, IF HasKeywordWithEffects(c, "Vigilance") THEN tapped ELSE tapped \cup {c},
                shields)
  /\ todo' = Tail(todo)
  /\ UNCHANGED <<blockers, blockedBy, life, phase, hits, effects, combats, regenerated>>

AttackersDeclared ==
  /\ phase = "declaring" /\ todo = <<>>
  /\ phase' = "afterAttackers"
  /\ UNCHANGED <<board, combat, life, todo, hits, effects, combats, regenerated>>

(***************************************************************************)
(* Declaration of blockers.                                                *)
(***************************************************************************)
CanBlock(a, b) ==
  /\ b \notin tapped
  /\ HasKeywordWithEffects(a, "Flying") => HasKeywordWithEffects(b, "Flying")

AvailableBlockers == {b \in Theirs \cap field : /\ b \notin tapped
                                                /\ b \notin DOMAIN blockers
                                                /\ \E a \in attackers : CanBlock(a, b)}

\* The blocks kept: the pair is legal, and an attacker with menace was named
\* by more than one of the chosen blocks, legal or not.
ValidateBlockingRestrictions(blocks) ==
  {b \in DOMAIN blocks :
     /\ CanBlock(blocks[b], b)
     /\ ~(/\ HasKeywordWithEffects(blocks[b], "Menace")
          /\ Cardinality({d \in DOMAIN blocks : blocks[d] = blocks[b]}) = 1)}

\* A controller may name any attacker for an available blocker.
DeclareBlockers ==
  /\ phase = "blockers"
  /\ \E B \in SUBSET AvailableBlockers :
       /\ attackers = {} => B = {}
       /\ \E blocks \in [B -> attackers] :
            LET kept == ValidateBlockingRestrictions(blocks)
                new(a) == SortedSeq({b \in kept : blocks[b] = a})
                old(a) == IF a \in DOMAIN blockedBy THEN blockedBy[a] ELSE <<>> IN
            /\ blockers' = [b \in kept \cup DOMAIN blockers |->
                              IF b \in kept THEN blocks[b] ELSE blockers[b]]
            /\ blockedBy' = [a \in {blocks[b] : b \in kept} \cup DOMAIN blockedBy |->
                               old(a) \o new(a)]
  /\ phase' = "afterBlockers"
  /\ UNCHANGED <<board, attackers, life, todo, hits, effects, combats, regenerated>>

(***************************************************************************)
(* Damage.  A plan is a function from blockers to damage.                  *)
(***************************************************************************)
\* 0 for a blocker that damage cannot kill.
CalculateLethalDamage(a, b) ==
  IF HasKeywordWithEffects(b, "Indestructible") THEN 0
  ELSE IF HasKeywordWithEffects(a, "Deathtouch") THEN 1 ELSE Toughness(b)

Spent(plan) == SumFunction(plan)

LethalFor(a, bs) == SumFunction([b \in bs |-> CalculateLethalDamage(a, b)])

\* Case 2: kill one blocker after another, at the controller's choice, while one
\* can be killed with the power left; that is the killing of any set K that it
\* pays for and that leaves no such blocker.  What is left then goes to one
\* blocker, unless the attacker tramples.
KillInTurn(a, bs) ==
  LET lethal(b) == CalculateLethalDamage(a, b)
      left(K) == Power(a) - LethalFor(a, K)
      dead == {K \in SUBSET bs : /\ \A b \in K : lethal(b) > 0
                                 /\ left(K) >= 0
                                 /\ \A b \in bs \ K : lethal(b) \notin 1..left(K)}
      rest(K) == IF left(K) = 0 \/ HasKeywordWithEffects(a, "Trample") THEN {} ELSE bs \ K
      kill(K, dump) == [b \in K \cup dump |-> IF b \in K THEN lethal(b) ELSE left(K)]
  IN UNION {IF rest(K) = {} THEN {kill(K, {})} ELSE {kill(K, {b}) : b \in rest(K)} : K \in dead}

\* Mutant: the leftover is dropped.
KillAllExactly(a, bs) ==
  [b \in {d \in bs : CalculateLethalDamage(a, d) > 0} |-> CalculateLethalDamage(a, b)]

\* Case 1: everything killable dies; the leftover goes to the last in the order
\* of lethal damage and id, unless the attacker tramples.
KillAll(a, bs) ==
  LET lethal(b) == CalculateLethalDamage(a, b)
      killable == {b \in bs : lethal(b) > 0}
      plan == [b \in killable |-> lethal(b)]
      isLast(b) == \A d \in killable : lethal(d) < lethal(b) \/ (lethal(d) = lethal(b) /\ d <= b)
  IN [b \in killable |->
        IF isLast(b) /\ ~HasKeywordWithEffects(a, "Trample")
        THEN lethal(b) + Power(a) - Spent(plan) ELSE lethal(b)]

SmartDamageAssignment(a) ==
  LET bs == Range(blockedBy[a])
  IN IF Power(a) >= LethalFor(a, bs) THEN {KillAll(a, bs)} ELSE KillInTurn(a, bs)

\* One blocker, or several of which none can be killed: each in turn takes at
\* most its toughness, and a single one everything.
InOrder(a) ==
  LET bs == blockedBy[a]
      lethal(b) == IF HasKeywordWithEffects(a, "Deathtouch") THEN 1 ELSE Toughness(b)
      all == Len(bs) = 1 /\ ~HasKeywordWithEffects(a, "Trample")
      left[i \in 0..Len(bs)] ==
        IF i = 0 THEN Power(a)
        ELSE IF all THEN 0 ELSE Max({0, left[i - 1] - lethal(bs[i])})
      place(b) == CHOOSE i \in DOMAIN bs : bs[i] = b
  IN [b \in Range(bs) |-> left[place(b) - 1] - left[place(b)]]

Strikes(c, step) ==
  LET first == HasKeywordWithEffects(c, "FirstStrike")
      double == HasKeywordWithEffects(c, "DoubleStrike")
  IN IF step = "first" THEN first \/ double ELSE double \/ ~first

Striking(step) == {c \in field \ mazed : Strikes(c, step) /\ Power(c) > 0}

Hit(s, d, k) == [src |-> s, dst |-> d, n |-> k]

AttackerHits(a, plan) ==
  LET final == IF plan # <<>> THEN plan ELSE InOrder(a)
      over == Power(a) - Spent(final) IN
  IF ~IsBlocked(a) THEN {Hit(a, Defender, Power(a))}
  ELSE {Hit(a, b, final[b]) : b \in {d \in DOMAIN final : final[d] > 0}}
       \cup (IF HasKeywordWithEffects(a, "Trample") /\ over > 0 THEN {Hit(a, Defender, over)} ELSE {})

\* Blockers are reached through the attacker they block, if that one strikes.
BlockerHits(a, step) ==
  IF IsBlocked(a) THEN {Hit(b, a, Power(b)) : b \in Range(blockedBy[a]) \cap Striking(step)} ELSE {}

Total(h, P(_)) == SumFunction([e \in {d \in h : P(d)} |-> e.n])
LifelinkOf(h, side) == Total(h, LAMBDA e : e.src \in side /\ HasKeywordWithEffects(e.src, "Lifelink"))

LifeAfter(h) ==
  [active |-> life.active + LifelinkOf(h, Ours),
   defending |-> life.defending + LifelinkOf(h, Theirs) - Total(h, LAMBDA e : e.dst = Defender)]

\* Dealt lethal damage, or any by a source with deathtouch.
Killed(c, h) ==
  /\ ~HasKeywordWithEffects(c, "Indestructible")
  /\ \E e \in h : e.dst = c
  /\ \/ Total(h, LAMBDA e : e.dst = c) >= Toughness(c)
     \/ \E e \in h : e.dst = c /\ HasKeywordWithEffects(e.src, "Deathtouch")

CreaturesToDestroy(h, there) == {c \in there : Killed(c, h)}

\* The destroyed die, unless a shield saves them and takes them out of combat.
ProcessDying(h, lost) ==
  LET doomed == CreaturesToDestroy(h, field \ lost)
      saved == {c \in doomed : shields[c] > 0} IN
  /\ Leave(lost \cup (doomed \ saved), tapped \cup saved,
           [c \in Creatures |-> IF c \in saved THEN shields[c] - 1 ELSE shields[c]])
  /\ RemoveFromCombat(saved)

\* assign_combat_damage_planned and the check for the end of the game after it.
AssignCombatDamage(step, next) ==
  LET striking == attackers \cap Striking(step)
      several == {a \in striking : IsBlocked(a) /\ Len(blockedBy[a]) > 1}
      plans == [several -> UNION {SmartDamageAssignment(a) : a \in several}] IN
  \E plan \in {p \in plans : \A a \in several : p[a] \in SmartDamageAssignment(a)} :
    LET planOf(a) == IF a \in several THEN plan[a] ELSE <<>>
        h == UNION {AttackerHits(a, planOf(a)) \cup BlockerHits(a, step) : a \in striking} IN
    /\ hits' = [hits EXCEPT ![step] = h]
    /\ life' = LifeAfter(h)
    /\ phase' = IF LifeAfter(h).defending <= 0 THEN "over" ELSE next
    /\ \E lost \in TriggerMayTake({e.src : e \in h}, field) : ProcessDying(h, lost)

\* Looks at printed keywords, of declared creatures wherever they are now.
HasFirstStrikeCombat ==
  \E a \in attackers :
    \E c \in {a} \cup (IF IsBlocked(a) THEN Range(blockedBy[a]) ELSE {}) :
      Printed(c, "FirstStrike") \/ Printed(c, "DoubleStrike")

FirstStrikeDamage ==
  /\ phase = "damage" /\ HasFirstStrikeCombat
  /\ AssignCombatDamage("first", "afterFirst")
  /\ UNCHANGED <<todo, effects, combats>>

NormalDamage ==
  /\ phase = "normal" \/ (phase = "damage" /\ ~HasFirstStrikeCombat)
  /\ AssignCombatDamage("normal", "afterDamage")
  /\ UNCHANGED <<todo, effects, combats>>

EndCombat ==
  /\ phase = "endCombat"
  /\ attackers' = {} /\ blockers' = <<>> /\ blockedBy' = <<>>
  /\ regenerated' = {}
  /\ phase' = "afterCombat"
  /\ UNCHANGED <<board, life, todo, hits, effects, combats>>

(***************************************************************************)
(* The priority rounds.                                                    *)
(***************************************************************************)
Effect == phase \in Windows /\ effects < MaxEffects /\ effects' = effects + 1

Destroy(c) ==
  /\ Effect
  /\ c \in field /\ ~HasKeywordWithEffects(c, "Indestructible")
  /\ IF shields[c] > 0
     THEN /\ RemoveFromCombat({c})
          /\ Leave({}, tapped \cup {c}, [shields EXCEPT ![c] = @ - 1])
     ELSE /\ Leave({c}, tapped, shields)
          /\ UNCHANGED <<combat, regenerated>>
  /\ UNCHANGED <<life, phase, todo, hits, combats>>

Bounce(c) ==
  /\ Effect
  /\ c \in field
  /\ Leave({c}, tapped, shields)
  /\ UNCHANGED <<combat, life, phase, todo, hits, combats, regenerated>>

Regenerate(c) ==
  /\ Effect
  /\ c \in field
  /\ shields' = [shields EXCEPT ![c] = @ + 1]
  /\ UNCHANGED <<kind, granted, field, tapped, mazed, combat, life, phase, todo, hits, combats, regenerated>>

\* Maze of Ith: untap an attacker and prevent its combat damage.
Maze(c) ==
  /\ Effect
  /\ c \in field \cap attackers
  /\ mazed' = mazed \cup {c}
  /\ tapped' = tapped \ {c}
  /\ UNCHANGED <<kind, granted, field, shields, combat, life, phase, todo, hits, combats, regenerated>>

\* A permanent that grants first strike enters or leaves.
Grant(c) ==
  /\ Effect
  /\ c \in field
  /\ granted' = [granted EXCEPT ![c] = IF @ = {} THEN {"FirstStrike"} ELSE {}]
  /\ UNCHANGED <<kind, field, tapped, shields, mazed, combat, life, phase, todo, hits, combats, regenerated>>

NextPhase == [afterAttackers |-> "blockers", afterBlockers |-> "damage",
              afterFirst |-> "normal", afterDamage |-> "endCombat", afterCombat |-> "done"]

PriorityRoundEnds ==
  /\ phase \in Windows
  /\ phase' = NextPhase[phase]
  /\ UNCHANGED <<board, combat, life, todo, hits, effects, combats, regenerated>>

ExtraCombat ==
  /\ phase = "done" /\ combats < MaxCombats
  /\ combats' = combats + 1
  /\ hits' = [s \in {"first", "normal"} |-> {}]
  /\ phase' = "attackers"
  /\ UNCHANGED <<board, combat, life, todo, effects, regenerated>>

(***************************************************************************)
(* The specification.                                                      *)
(***************************************************************************)
Init ==
  /\ kind \in {k \in [Creatures -> OurKinds \cup TheirKinds] :
                 \A c \in Creatures : k[c] \in (IF c \in Ours THEN OurKinds ELSE TheirKinds)}
  /\ granted = [c \in Creatures |-> {}]
  /\ field = Creatures
  /\ tapped = {} /\ mazed = {}
  /\ shields = [c \in Creatures |-> 0]
  /\ attackers = {} /\ blockers = <<>> /\ blockedBy = <<>>
  /\ life = [active |-> StartLife, defending |-> StartLife]
  /\ phase = "attackers" /\ todo = <<>>
  /\ hits = [s \in {"first", "normal"} |-> {}]
  /\ effects = 0 /\ combats = 1 /\ regenerated = {}

Next ==
  \/ ChooseAttackers \/ SkipAttacker \/ DeclareAttacker \/ AttackersDeclared
  \/ DeclareBlockers \/ FirstStrikeDamage \/ NormalDamage \/ EndCombat
  \/ PriorityRoundEnds \/ ExtraCombat
  \/ \E c \in Creatures :
       Destroy(c) \/ Bounce(c) \/ Regenerate(c) \/ Maze(c) \/ Grant(c)

Spec == Init /\ [][Next]_vars

(***************************************************************************)
(* Properties.                                                             *)
(***************************************************************************)
DealtBy(h, c) == Total(h, LAMBDA e : e.src = c)

\* The two directions of CombatState describe one set of blocks: whatever was
\* declared, regenerated away or cleared (an attacker that is gone from combat
\* takes its list along; the blockers it had stay blocking creatures).
MapsAgree ==
  /\ DOMAIN blockedBy \subseteq attackers
  /\ \A a \in DOMAIN blockedBy : \A b \in Range(blockedBy[a]) :
       b \in DOMAIN blockers /\ blockers[b] = a
  /\ \A b \in DOMAIN blockers : blockers[b] \in attackers =>
       Cardinality({i \in DOMAIN blockedBy[blockers[b]] : blockedBy[blockers[b]][i] = b}) = 1

StepTaken(step) == phase \in {"damage", "normal"} /\ hits'[step] # hits[step]

\* Whatever the plan, the blockers' fate and the effects in between, in a damage
\* step every attacker that strikes deals exactly its power and every other one
\* nothing, and a blocker deals its power or nothing; the power is not spent in
\* full only on several blockers that cannot be killed.
FullPowerDealt ==
  [][\A step \in {"first", "normal"} : StepTaken(step) =>
       /\ \A a \in Ours :
            \/ DealtBy(hits'[step], a) = IF a \in attackers \cap Striking(step) THEN Power(a) ELSE 0
            \/ /\ IsBlocked(a) /\ Len(blockedBy[a]) > 1
               /\ DealtBy(hits'[step], a) <= Power(a)
               /\ \A b \in Range(blockedBy[a]) : HasKeywordWithEffects(b, "Indestructible")
       /\ \A b \in Theirs :
            DealtBy(hits'[step], b) \in {0} \cup (IF b \in field THEN {Power(b)} ELSE {})]_vars

\* Killing or returning the blockers of an attacker does not unblock it: what
\* reaches the player comes from attackers nobody blocks, or tramples over.
BlockedStaysBlocked ==
  [][\A step \in {"first", "normal"} : StepTaken(step) =>
       \A e \in hits'[step] : e.dst = Defender /\ ~HasKeywordWithEffects(e.src, "Trample") =>
         \A b \in DOMAIN blockers : blockers[b] # e.src]_vars

\* A creature that regenerated, from a spell or from the first-strike damage,
\* neither deals nor takes combat damage for the rest of that combat.
RegeneratedIsOut ==
  [][\A step \in {"first", "normal"} : StepTaken(step) =>
       \A e \in hits'[step] : e.src \notin regenerated /\ e.dst \notin regenerated]_vars

\* What the comments and tests of the damage step say of blockers: one that is
\* there strikes its attacker in the step that its own keywords name.
BlockersStrikeBack ==
  [][\A step \in {"first", "normal"} : StepTaken(step) =>
       \A a \in DOMAIN blockedBy \cap (field \ mazed) :
         \A b \in Range(blockedBy[a]) \cap Striking(step) :
           DealtBy(hits'[step], b) = Power(b)]_vars
=============================================================================
