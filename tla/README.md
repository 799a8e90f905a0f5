# A verification development for DeepScry

DeepScry is a Magic: The Gathering engine in Rust (`src/mtg-engine`) that plays
games locally, in the browser (WASM) and over the network. Two things in it are
hard to test. Around the game: a server that lists, fills and runs games for
clients that come and go, and a protocol that keeps two *shadow* games, one per
client, in step with the server's *golden* one by sending choices and the hidden
facts they depend on. In the game: a deterministic sequential simulation whose
state is kept in many places at once (zones, caches, combat maps, an undo log)
by operations that may follow one another in any order.
This directory holds TLA+ modules translated from that code, the TLC
configurations that check them, and theorems proved with TLAPS. `PROJECT.json`
lists components, runs, mutants, the map from definitions to source lines,
findings, hazards and theorems. Paths below are relative to
`src/mtg-engine/src/`.

## 1. Inventory: the system's parts

### Network server (`network/server.rs`, `network/lobby.rs`, `network/controller.rs`)

| part | state | operations | interacts with |
|---|---|---|---|
| connection accept, memory admission (`server.rs` accept loop, `memory.rs`) | none beyond `/proc` readings | accept, refuse above the limit | spawns one lobby task per socket |
| player-name registry (`lobby.rs` `LobbyState::names`, `registered_name` of each task) | map name → owner | `try_register_name`, `release_name` | lobby tasks, under one async mutex |
| lobby waiting rooms (`run_create_flow`, `run_join_flow`, `run_joiner_waiting_room`) | `waiting_games`, `active_games`, per-game `oneshot` hand-off and `watch` snapshot channels | create, join, ready, set deck, cancel, leave, evict, time out | creator's task and joiner's task of one game; all others through the lobby mutex |
| game runner (`run_game`) | handles of five tasks | start, select over task ends, end notification, abort | game thread, coordinator, two handlers |
| coordinator (`run_coordinator`) | the request it is serving | broadcast reorders and dig decisions, forward a request, validate and return the answer, tell the opponent | two sync channels from the game thread, two channels to and from the handlers |
| player handler (`handle_player_websocket`) | `waiting_for_choice`, `pending_choice`, facts accumulated for the next request | forward, accumulate, assemble the buffer, queue an early answer | coordinator and one socket |
| network controller (`controller.rs`) | `choice_seq`, reveal index | collect reveals, drain reorders, ask, check the answer | the game loop that calls it, the coordinator |
| bug reports, GitHub filing (`server.rs`) | files | store, file | external services |

### Network client (`network/client.rs`, `local_controller.rs`, `remote_controller.rs`, `mvar.rs`, `action_log.rs`)

| part | state | operations | interacts with |
|---|---|---|---|
| MVar (`mvar.rs`) | queue, mutex, condition variable, exit flag | `put`, `take`, `try_take`, `signal_exit` | websocket reader thread → game thread |
| `ActionLog` (`action_log.rs`) | entries in ascending `action_count` | `push`, `insert_sorted`, `get`, `frontier`, `iter` | state-sync, opponent-choice and accepted-choice buffers |
| shared network state (`client.rs` `SharedNetworkState`) | three logs with cursors, watermark, authority flag, terminal flag, winner | push, apply up to the frontier, take, wait, signal exit | reader thread and game thread |
| websocket reader (`run_ws_reader_shared`) | – | one arm per server message | shared network state, local-choice MVar |
| local and remote controllers | current request, last opponent choice | wait for a request, answer it; wait for an opponent choice, replay it | shadow game loop |
| reveal processor (`reveal_processor.rs`) | shadow cards | instantiate a revealed card | shadow game state |
| WASM client (`wasm/network/`) | the same logs, without threads | return `NeedsInput`, rewind and replay | browser event loop |

### The engine (`game/`, `core/`, `undo.rs`, `zones.rs`)

| part | state | operations | interacts with |
|---|---|---|---|
| turn structure and priority (`game/game_loop/`) | turn, step, priority holder, pass counter, stack, pending extra turns and combats | run a turn, a step, a priority round; cast, activate, cycle, play a land, pass, resolve | controllers (choices), everything below |
| actions and effects (`game/state.rs`, `game/actions/`) | zones, controllers, attachments, counters, delayed triggers | `move_card`, effects, resolution of spells, the pass of state-based actions | undo log, mana cache, combat |
| combat (`game/combat.rs`, `game/actions/combat.rs`, `game_loop/combat.rs`) | three maps of attackers and blockers | declare, validate, assign damage, destroy, regenerate, remove, clear | priority rounds between its steps |
| mana (`game/mana_*.rs`, `game/mana_payment/`) | source cache with untapped totals, memoized engine with a version, pool | enter, leave, tap, untap, look, plan, pay, roll back | casts and optional costs |
| undo log (`undo.rs`) | list of reversible actions | log, undo to a choice point, rewind to the turn start | every operation that changes the game |
| continuous effects, snapshots and replay, state hashes, player controllers | – | – | the above |

It is sequential and deterministic, by design. Its hard part is that the same
fact is kept twice or for later (a cache, a version, a plan, a log entry, an id
held over a zone change), and has to be kept right by hand in every operation.

### Around it

Card and deck loading (`loader/`), puzzles (`puzzle/`), deck builder, renderers
and TUIs, the web server, OAuth and deck storage (`web_server/`), tournaments
(`tournament.rs`, independent games in parallel), the downloaders, and the
browser pages in `web/`.

### What is hard, and what makes each part correct

- MVar: a hand-over is never lost, order is FIFO, exit drains and then releases.
- Registry: a live player's name is its own; nothing is reserved for ever.
- Rooms: a game has one host and at most one opponent, a socket has one owner,
  a listing ends when its host does, both sides agree on when to go.
- Relay: each choice is asked once and answered by the answer to that question;
  the facts a client needs precede the question; when one side goes, the other
  is told and every thread of the game ends.
- Client: the shadow sees a fact before it needs it, applies each once, in game
  order, whatever the arrival order; no wait outlives the connection.
- Undo: taking back an operation restores what it changed; so does a rewind.
- Turn loop: nothing resolves and no step ends before both players have passed
  since the last action; what was granted happens as often as it was granted.
- Board: a card is in one zone, as a new object when it has moved; who controls
  a permanent, and what it is attached to, has a cause that still exists.
- Combat: a creature's power is spent in full and once on what it fights; what
  left or regenerated neither strikes nor changes who is blocked.
- Mana: the incremental cache is the battlefield's; what is offered can be paid.

## 2. Plan

Order, most important first (the modules already present are described in
section 3):

1. `MVar`, with the abstract `ExitableQueue` (done, refinement proved).
2. `NameRegistry` (done, safety proved).
3. `WaitingRooms` (done, every safety property proved in
   `WaitingRoomsProofs`).
4. `GameRelay`: game thread, coordinator, handlers, the buffer of facts (done,
   every safety property proved in `GameRelayProofs`).
5. `ShadowSync`, with the abstract `Replica` (done; `ShadowSyncProofs` has the
   refinement and every safety property): the client's logs with their cursors, the
   watermark, the authority flag and exit, reader and game thread interleaved.
6. `UndoLog`: operations with what they log, undo to a choice point, rewind to
   the turn start (done).
7. `TurnLoop`: turns, steps, priority rounds, the stack (done for local play, every
   safety property proved in `TurnLoopProofs`).
8. `Board`: zone changes, control, attachments, state-based actions (done for the
   effects that move permanents; `BoardProofs` has every property, `PassSettles` for
   boards with one source of grants); `Combat` (done; every safety property proved in
   `CombatProofs`); `Mana` (done).
9. Left: `NetworkGame`, in which `GameRelay`'s message order and two shadows are
   composed, refining an abstract replicated log of which each shadow holds a
   prefix; the WASM client, which returns `NeedsInput`, rewinds with `UndoLog`'s
   rewind and replays; the interruption and resumption of a priority round; proofs
   for `UndoLog` (`UndoIsExact`) and `Mana` (`CacheAgrees`); paging of the lobby
   list; memory admission.

Modules meant for proof keep recursion out and state invariants as conjunctions
of named parts.

## 3. The modules and their runs

A definition named after a function of the code stands for it; a definition
commented "Changed form of X" is a plausible bug in X, which a mutant puts in
its place and the run must then reject.

### `ExitableQueue`, `MVar` (`network/mvar.rs`)

`MVar` has one action per stretch of code between two points where another
thread can get in: acquiring the mutex (`TakeLock`), the loop condition of
`take` (`TakeValue`, `TakeNone`, `TakeDecideToWait`), `Condvar::wait`, which
releases and sleeps atomically (`TakeWait`), a wakeup, wanted or not, and for
`signal_exit` the store of the flag and the notification, which happen without
the mutex. `put` and `try_take` hold the mutex from start to end and nobody
sees their middle, so each is one step. `ExitableQueue` is what a caller may
rely on: FIFO, each value once, "no more" only after the exit and on an empty
queue.

- `mvar` (one consumer, as in the client; four puts): `TypeOK`;
  `BlockedConsumerIsServed`, no wakeup of `put` is lost; and
  `ImplementsExitableQueue`, refinement with `queue`, `taken` and `exitFlag` for
  the abstract variables. Four values allow a put in every position of two
  complete takes and of the sleep between them.

Fairness: a thread inside `take`, or between the store and the notification,
keeps running. Nobody has to call anything and a spurious wakeup never has to
happen, so no property holds because of one. The client uses a cell from a
single game thread; with two consumers one of them may take the value the
other was woken for, which is why the run has one.

### `NameRegistry`, `MC_NameRegistry` (`network/lobby.rs`, `network/server.rs`)

State: `holder` is `registered_names`; per connection, `registeredName` is the
local of `handle_lobby_connection`, `task` where its task is, `socket` who owns
its WebSocket. A step is one critical section of the lobby mutex. `Register`,
`Commit` and `Return` are the arms of `run_lobby_dispatch`; `HandOver` is the
legacy join, after which the joiner's task ends while its socket lives on in
the host's; `Cleanup` is the release after the dispatch.

- `names` (three connections; two spellings of one name, another name, a blank
  one): `CurrentNameHeld`, `OnlyOwnerReleases` and, under weak fairness of
  `Cleanup` (the executor runs a task that left its loop), `LastNameComesBack`.
  Three connections are enough for one to hold, one to be refused and one to
  reuse; two names for a second registration by the same connection.

### `WaitingRooms` (`network/server.rs`, `network/lobby.rs`)

State: the listing (`waiting`, an entry per `PendingGame`), `active`, the id
counter, the position and the locals of every connection's task, and per game
the `oneshot` hand-off and the latest snapshot of the `watch` channel with the
set of receivers that have not read it. `unseen` is the version counter of
`tokio::sync::watch`: a new snapshot replaces one nobody has read. `SenderAlive`
is the reference count that decides when `changed()` fails. Every `?` that
returns past the eviction is an action (`AnnounceFails`, `EnterRoomFails`).
`Authenticate` looks and acts in two critical sections (`AuthenticateLooks`).
A task that reads a start snapshot decides there and sends `WaitingRoomReady` in a
later step (`HostGoes`, `GuestGoes`; the points "hostGoes", "guestGoes"), and the
other player may act in between.
Deck contents, passwords, bug reports and the text of the updates are left out;
their refusals are `LeaveLobby`.

- `rooms` (three clients, one name, two game ids; one step is one critical
  section): listings are distinct (`ListingsDistinct`), a listing is never a
  running game (`NeverListedAndActive`), a host that reached its loop leaves no
  ghost (`AnnouncedHostKeepsNoGhost`), a published start is withdrawn by a cancel
  (`GoIsWithdrawn`); a handed-over joiner is served or dropped and a running game
  has exactly two players (`HandOverMakesAGame`); a task only decides to send
  `WaitingRoomReady` on a snapshot of the client's own room that says so, or under a
  name that another game has by now, and then frees the listing
  (`GoStartsTheGame`). The decision is what can be promised: that both are ready
  when the message is sent is not so, the other player can take it back or change
  its deck in between. With three clients a second joiner, or a second host
  reusing the name, meets the first pair at every point; one name makes every
  collision of names happen, and two ids let a game follow another under it.

What `AnnouncedHostKeepsNoGhost` and `GoIsWithdrawn` leave out on purpose, first
sends that fail and snapshots nobody read, is in the model too: that both players of
a room are told to go (`BothAreTold`) is not so (section 5).

Fairness: weak, for a task that has something to do. No client has to send or
to close, no timeout has to fire, no game has to end.

### `GameRelay`, `MC_GameRelay` (`network/server.rs`, `network/controller.rs`)

One variable or record per thread or task: `game`, `log`, `seq`, `revealed`
(the game thread with its two `NetworkController`s), `coord`, `handler[p]`,
`runner`; between them `request`/`response` (the synchronous channels with
their bridge threads), `inbox`/`outbox` (`GameToHandler`, `HandlerToGame`) and
`endInfo` (the one-shot with the end of the game).

| actions | code |
|---|---|
| `GameActs`, `GameReorders`, `GameDigs` | the undo log and the two `pending_*` queues of the golden state |
| `Ask`, `TakeAnswer`, `RevealsSinceLastChoice` | `request_choice`, `collect_reveals_since_last_choice` |
| `Forward`, `ReceiveAnswer`, `AcceptChoice`, `InformOpponent`, `ReceiveDeparture`, `ReceiveNothing`, `ForwardGameEnd` | the select loop of `run_coordinator` |
| `HandleMessage`, `HandleSubmit`, `HandleClose`, `HandlerGivesUp`, `AssembleBuffer`, `SortFacts` | the two arms of `handle_player_websocket`, `assemble_choice_buffer` |
| `RunnerSeesEnd`, `RunnerStops` | the select over the tasks in `run_game`, the 200 ms, the aborts |
| `ClientAnswers`, `ClientStrays`, `ClientLeaves` | what a client may do to its handler |

The undo log is a sequence of entries that only keeps what the relay depends
on: reveals with their recipient, choice points, and anything else. `known[p]`
collects what the buffers told client p; `FactsFor` computes from the log what
its shadow needs, so `FactsBeforeQuestion` relates the accumulation in the
handler, the reveal index, the drained queues and the coordinator's broadcasts
to the game's history. A buffer is a list, pushed source by source and sorted stably by action
count and source, with whatever occurs twice in it. The answer is released to the
game thread, the player told that it was accepted and the opponent told what it was
in three steps; the game may run on, and its client leave, between them. What is
simplified: a message is delivered when it is
written; the queues to a handler have no bound (16 in the code, at most a few
messages between two questions); the eager copies of reorders and digs, which
a client ignores once it has seen a buffer (digs excepted), are left to
`ShadowSync`; a
state hash that differs acts as an action count that differs. Time is not
modelled: the 200 ms before the abort are `RunnerStops`, which may come before any
other step, or after any number of them.

- `relay` (two players who stay and answer; every deed, searches and finds; four
  log entries; the two players symmetric, no liveness): `FactsBeforeQuestion`, `OneQuestionAtATime`. Four entries give
  two questions to one player around one to the other, with a reveal, a reorder
  or a dig in between, the shortest history in which the shared reveal index
  and the backward scan disagree.
- `relay_ends` (clients that diverge, answer out of turn or leave; two log
  entries, one stray answer, both may leave): an answer is only applied to the
  question it was for (`AnswersFitQuestions`), `EveryTaskEnds`, and
  `EndReachesClients`, which has three parts: a client hears of no end but the
  coordinator's (`OneVerdict`); once the coordinator has one, each client that is
  still there has heard it or has it in its queue, with a handler that runs unless
  the abort came (`VerdictIsUnderWay`); a won game finds the coordinator between
  two requests or telling the players of the last answer, where it will see the
  end, unless the abort came (`WinnerIsAnnounced`). It does not say that everybody
  learns the end: an end that comes while the coordinator awaits a client is not
  announced, and the abort waits for nobody (`EndIsPolled` and
  `WinnerReachesClients` in section 5). One stray answer suffices to fill the early slot
  before, and to be the second answer after, a question; both players leaving
  covers a departure during a departure.

Fairness: weak, for the game thread, the coordinator, the runner and each
handler, which the runtime schedules. None for the clients: a player may think
for ever, and then the game waits for ever, as in the code. `EveryTaskEnds`
therefore starts from a departure or an ended task.

### `Replica`, `ShadowSync` (`network/client.rs`, its controllers, the game loop's synchronisation points)

One native client, seen from both of its threads. `reader` is
`run_ws_reader_shared`, `net` is `SharedNetworkState`, `shadow` the game thread
with its controllers; `golden` and `wire` are the server as `GameRelay` has it:
a question carries the facts and choices since the last one, and copies of some
facts travel ahead of it. A game is a `script` of deeds, one per position of the
undo log, fixed at the start and the same for both copies: the simulation is
deterministic, and what could make the copies differ is what the shadow knows
when. Nothing in the module compares the copies; the properties do.

| deed | stands for | what this client is told |
|---|---|---|
| `draw` | our draw in a draw step, which synchronises first | a reveal at its position |
| `cast` | the opponent plays a card it chose just before | a reveal at its position |
| `shuffle` | a library is shuffled | a reorder at the position after it |
| `dig` | a dig that reveals nothing | a decision at its position, always ahead too |
| `ours` | a choice of ours that is prepared (`prepare_for_priority_choice`) | the question |
| `search` | our library search, which is not | the question, with candidates |
| `theirs`, `find`, `miss` | the opponent's choice, a search that finds or does not | the choice, with our next question; for `find` a dummy reveal |

| actions | code |
|---|---|
| `ReadEager`, `ReadRequest`, `PutRequest`, `ReadAccepted`, `ReadEnding`, `PutExit` | the arms of the reader |
| `PushFact`, `PushChoice`, `push_state_sync_at` | `apply_choice_buffer` and its pushes, one critical section each |
| `SyncedNet`, `SyncedShadow` | `apply_state_sync_up_to_frontier`, one critical section |
| `PrepareOwnChoice`, `Choose`, `BeginSearch`, `AnswerSearch`, `TakeNothing` | the local controller and the game loop around it |
| `AwaitOpponent`, `TakeAwaited`, `FindNothing`, `FallAsleep`, `WakeUp` | `take_opponent_choice`, `wait_for_choice_accepted` |
| `Replay`, `ReplaySearch`, `searched_card_for` | the remote controller, `choose_from_library_with_hook` |

A refused push is a panic that poisons the lock (`Healthy`). The MVar is what
`ExitableQueue` promises. A card's identity and the contents of a library are
left out, as are the initial library orders and the opening hands, which are
applied before the first deed, and the choices that are neither prepared nor
searches (see section 5).

- `shadow` (every deed but digs, four positions, a connection that may close or
  drop at any point): `FollowsInOrder`, which joins five named invariants: at an
  own choice, an opponent's play or a fetched card the facts it rests on are
  there (`KnownInTime`), each fact is applied once and in order, reorders never
  early, choices are made and replayed at their own position although no code
  compares positions, and a successful search of the opponent fetches its own
  card; no fact is lost between a cursor and a late push and the reader does not
  panic (`NoDeltaIsLost`); while the connection holds every question is answered
  (`QuestionsAreAnswered`); and the two copies keep each other's choices
  (`ImplementsReplica`). Four positions hold a question with two facts and two
  choices in its buffer, and two questions with something between; all 719
  scripts of that length that the rules allow are checked. Digs are left out
  because with them the code does not keep these promises (section 5).

Fairness: both threads and the server are scheduled (weak), and the reader is
not kept out of a lock that is released again and again (strong; a condition
variable that woke spuriously for ever could otherwise hold it). The opponent
may think for ever and the connection need not break.

### `UndoLog` (`undo.rs`, and what `game/state.rs` and `game/actions/` log)

`game` is the part of `GameState` that the operations below touch, `log` the list
of actions. An operation changes the game and appends actions; `Undo` has the
arms of `GameAction::undo`, `UndoToChoice` and `Rewind` pop and reverse,
`Sweep` is what `rewind_to_turn_start` repairs without an action. `marks` is a
history: the game as it was at each turn boundary and choice point, and `loose`,
the fields written since then with nothing in the log that could restore them.
One player's zones and life are modelled (the other's are the same code); the
game is a local one, without reveals; the steps before the end step are one.

- `undo` (two cards, one an Equipment that enters tapped and taps others, one
  that pays life; a token; three operations over two turns; about 100 s):
  `UndoIsExact`, taking the log back to a choice point gives the game there was,
  and `RewindIsExact`, the same for the start of the turn after the sweep. Both
  leave out the `loose` fields; which those are is in section 5. Three operations
  are two that interfere (a card put back into a zone that has changed since,
  two grants of one keyword, a token minted twice) and one that moves their
  card away. All thirty operations are included, in every order.

### `TurnLoop` (`game/game_loop/`, `GameState::advance_step`)

`pc` is where the loop stands, `turn` is `TurnStructure`, `round` the locals of
`priority_round`. Each step handler is an action up to its priority round;
`Pass`, `PlayLand`, `CastSpell`, `ActivateAbility`, `Cycle` and `FailedAction` are
the arms of the round; `ResolveTop`, `RoundOver` and `TooManyActions` its ends;
`AdvanceStep` and `NextTurn` the move to the next step with extra combats and
extra turns. Both controllers are local, ask for no undo and are never
interrupted. A card is a member of a set that says what it does. `quiet` is a
history: who has passed since the last action or resolution.

- `turn` (two turns, four actions per round; a land, a bolt, an extra combat, an
  extra turn, a counterspell with a delayed trigger, a loot, cycling, payments that fail;
  about 100 s): no step ends (`StepsEndQuiet`) and no spell or ability resolves
  (`AnsweredBeforeResolving`) before both have passed on the state that is then
  acted on, the combat phases of a turn are one and those granted in time
  (`CombatsMatchGrants`), and the game ends (`GameEnds`). Four actions per round
  are a spell, an answer, an answer to it and a failed payment; two turns see
  the resets between turns and the extra turn's place in the queue.

Fairness: `WF` on the loop as a whole: it is one thread, and local controllers
return. `GameEnds` then rests on the bounds of the code (`max_turns`,
`MAX_ACTIONS_PER_PRIORITY`), not on fairness among the players.

### `Board`, `MC_Board` (`game/state.rs`, `game/actions/mod.rs`, `game/actions/effects/`)

`g` holds the battlefield in order, the other zones, the stack, controllers, the
transient state of each card and the delayed triggers. `MoveCard` is `move_card`
with the triggers it fires (`Moved` is the part before them). One action is one
resolution: the effect or permanent spell (`Targeted`, `Swept` and `Reentered` are
the outcomes of the effects there is something for), then the whole pass
(`CheckStateBasedActions`) in the order of the code, once. `Seats` is the order of
the player ids, in which the legend rule goes through the players' groups of
legends; names within a group follow the battlefield. Permanent spells wait
on the stack with their target, so any effect may come in between; instants and
abilities are effects without a card of their own. A resolution that returns
an error ends the game (`aborted`). Of the triggers only those that move a
permanent are kept; draw, discard, search, tokens and life are left out, and
there is no commander, planeswalker or set hoser.

- `board` (six cards: two legendary creatures of one name of which one returns as an
  enchantment and the other grants control, a land that may be earthbent, a
  control Aura, a reanimation Aura, an Equipment; one source of grants, four
  resolutions; under half a minute):
  `CardsAccountedFor` (one zone each, and a card that left is a fresh object),
  `PassSettles` (after a pass Equipment is on creatures and, with the one source
  there is here, a grant of control
  lasts while its source is its grantee's), `ControlHasACause` (a permanent that
  is not its owner's has an Aura, a grant, or an effect that took it) and
  `RaisedGoesWithItsAura`. Four resolutions are a death, the reanimation, a theft
  and the loss of one of the causes; casts, land drops and cleanups in between do
  not count. A fifth takes some two minutes more and shows nothing else: it was
  run, and the theorems about `Board` (section 4) hold for any number.

### `Combat`, `MC_Combat` (`game/combat.rs`, `game/actions/combat.rs`, `game/game_loop/combat.rs`)

The three maps of `CombatState`, the board below it, and `phase`, where the turn
loop stands. `DeclareAttacker`, `DeclareBlockers` (with
`ValidateBlockingRestrictions`), `FirstStrikeDamage`, `NormalDamage` and
`EndCombat` are the code's steps, `SmartDamageAssignment` the plan for an attacker
with several blockers; `Destroy`, `Bounce`, `Regenerate`, `Maze` and `Grant` are
what may resolve in the rounds between. Flying stands for the evasion rules that
compare one attacker with one blocker, the keyword "Trigger" for a trigger that
makes a creature leave. Left out: prevention and increase of damage, commander
damage, planeswalkers, summoning sickness and attack restrictions of statics,
and the wait for a remote player's sub-choice. The plan is only made for
attackers that strike in the step, the only ones for which it is used.

- `combat` (two attackers of two kinds against two blockers of two, which between
  them have the keywords that block and damage rules look at; two effects, two
  combat phases; half a minute): the maps agree (`MapsAgree`), a striking creature
  that has something to strike deals exactly its power (`FullPowerDealt`), a blocked attacker stays blocked whatever leaves
  (`BlockedStaysBlocked`), and what regenerated is out (`RegeneratedIsOut`). Two
  blockers on one attacker is the shortest plan that can be stale; two phases
  see the reset. The attacker with double strike has power for one of two
  2/2 blockers and a rest, or for one and an indestructible one, so that every
  case of a plan arises; the one that tramples need not spend all of it on them.
  The theorems about `Combat` (section 4) hold for every kind, number and bound.

### `Mana`, `MC_Mana` (`game/mana_source_cache.rs`, `game/mana_engine.rs`, `game/mana_payment/`)

`g` has the battlefield, the tapped set, the pool and the `ManaSourceCache`;
`memo` is the engine's last look and whether the version moved since. `CastSpell`
is the mana part of `cast_spell_8_step_from`: the offer, sacrifices, the plan from
the look taken before them, tap by tap with the hint, payment or unwinding;
`PayManaCostByTapping` the payment of optional costs. `Enter`, `Leave`,
`TapPermanent`, `UntapPermanent`, `Animate`, `Earthbend` and `NewTurn` move the
sources under it. Two colours stand for five (what the code does with a colour
depends on its place in WUBRG order and on the defaults of lands and artifacts).
Non-land sources with a choice of exactly two colours are excluded by the
assumption of the module; combat mana, granted and reflected mana, activation
costs of mana abilities, X and tap triggers are left out. An earthbend's source
was itself paid for or entered, so the version has moved by then. Lands pay no
other cost than their tapping when a cast taps them, as in `tap_for_mana_for_cost`.

- `mana` (four boards of three sources, three costs, four operations; a minute and a half):
  `CacheAgrees`, `OfferedCastsComplete` (an offered spell finds its tap order unless
  its targets made it dearer, and a planned cast never fails half-way) and
  `VerdictsAreRight` (against a reference that tries every choice of colours).
  Four operations are a look, a change of a source, a second one, and the cast
  or look that would meet what is stale. `EarthbentDies` is `FALSE`.
- `mana_drift` (the same with `EarthbentDies = TRUE`): `CacheAgrees` is violated
  (section 5).

## 4. What is proved

With TLAPS, for every value of the constants that satisfies the module's named
assumption:

- `MVarProofs`: `TypeCorrect` (inductive as it stands: the type invariant says
  that the owner of the mutex is the thread between acquiring and releasing it)
  and `Refinement`, `Spec => ImplementsExitableQueue`, step by step: a put
  offers, a take or try_take that pops delivers, the store closes, a `None`
  dismisses, and all else stutters.
- `NameRegistryProofs`: `TypeCorrect`; `CurrentNamesAreHeld`, inductive together
  with the types, by `StepKeepsCurrentNames`: only `Register` and `Cleanup` write
  a reservation, the first only a free one, the second only the connection's
  own; and the action property `ReservationsEndWithOwner`.
- `WaitingRoomsProofs`: `TypeCorrect`, `ListingsAreDistinct`,
  `NeverBothListedAndActive` and `NoGhostOfAnnouncedHost`, all from one inductive
  invariant, `RoomsInv`. The listing alone does not carry itself: that a game is
  not listed and running at once needs `SendersTaken` (a joiner on its way, and a
  running game, hold a hand-off sender that was taken under the lock that
  removed or marked the entry), and a new entry is distinct only because an id
  not handed out is untouched (`FreshIdsUntouched`). That a host leaves no ghost
  needs `HostsSeated` (the host of a listing still has that seat and has not gone
  on to play), `AnnouncedReachedLoop`, and `ChannelHoldsJoiners`, since a host may
  receive, and take along to its end, the client it finds in its channel.
  `ListingStep` and `HostStep` have one step per action. `TypeOK` is inductive
  with the clause that a task without a seat is in the lobby or gone.
  On top of it, `StaleGoIsWithdrawn` (`GoIsWithdrawn`; inductive once an id nobody
  has been given has published nothing) and the safety halves of the two
  properties that also have a liveness half: `NobodyStartsAlone`
  (`GoOnlyWhenBothReady`) and `GamesAreOfTwo` (`GamesHaveTwoPlayers`). The last
  needs `PairInv`: per game id one host and one joiner (`OneOfEach`), where a
  joiner between the two tasks may be (`JoinersPlaced`: it has the sender, or is
  in the channel of a host that still waits, or is in a running game), and that
  a running game was received by its host (`GamesPlayed`). Without the second, a
  host's end could take a player out of someone's running game.
- `GameRelayProofs`: `RelayInvariant`, and from it `TypeCorrect`, `OneClientIsAsked`
  (`OneQuestionAtATime`) and `AnswersAreForTheirPlace` (`AnswersFitQuestions`).
  `RelayInv` says where the one open question is: nowhere while the coordinator
  selects, and while it awaits an answer in exactly one place - the handler's
  queue, the handler with or without an early answer, the way back - with
  everybody else `Quiet` (`CoordinatorInv`); a request on its way is the game's
  next question, and an answer on its way is for the end of the log
  (`GameInv`); a handler that reported its client's departure is not alive
  (`HandlerInv`). A buffer must be shown not to contain an end of game or a
  question, whatever the facts, which needs that sorting keeps the facts there are
  and orders them (`OrderedSorts`, `FactsAreSorted`).
  `EndIsTold` (`EndReachesClients`, for a timer that may fall at any moment) adds
  `EndInv`: until the coordinator ends, no
  client that is there has lost its handler (`StillServed`); no end but the
  coordinator's is told or in a queue (`OtherEndsAreNot`); once it has one, each
  client that is there was told, or it is in its queue with a handler that is alive
  or was aborted (`VerdictUnderWay`); a won game is announced as won or the abort
  comes first, because
  while the runner watches the only thing that ends the coordinator of a game that
  goes on is a fatal verdict or a departure (`WinnerIsForwarded`, `UnseenEnd`); and
  who is reported as departed has left (`DepartedLeft`).
  `FactsPrecedeQuestions` (`FactsBeforeQuestion`) rests on `ToldInvariant`. `ToldInv`
  says that a client that is not lost stands at its open question or at the last one it
  answered (`PlaceOf`); that the index kept for reveals is not ahead of what it was
  told, so that the backward scan finds exactly the reveals it has not been told
  (`RequestsTell`, `ScanFindsUntold`); that the public facts and the other player's
  choices since its last question are gathered in its handler, in its queue or still
  with the coordinator, and nothing else is (`OwedIsGathered`); and that its buffers
  hold all it needed at its last question, once and in order (`KnownFits`). The step
  that matters is the handler taking a request: what it joins to the reveals is then
  all that happened since (`FactsSince`, `BufferOf`), and every new fact is later than
  every known one (`NewIsLater`). That the list it joins repeats nothing is
  `OnceInvariant`: every fact under way to a client is in one place, once (`OnceInv`).
  Clients that diverged or answered out of turn are
  excluded, as they are in the property.
- `ShadowSyncProofs`, in two layers. `ChoicesInvariant` holds for every script; from
  it `TypeCorrect` and `CopiesKeepChoices`, `Spec => ImplementsReplica`. No code of
  the client compares the position of a choice with its own, so that the choice it
  takes is the one for its place must follow from counting: the server's question
  is in one place at a time - on the wire, with the reader, in the queue, in hand -
  and is the one the server waits for (`OneQuestion`); our choices are made up to
  where the shadow stands, and the server has not got further than they go
  (`GoldenPlace`, `ShadowPlace`); the opponent's choices arrive (`ChoicesArrive`) and are taken
  (`ChoicesTaken`) without gaps, so the least one not yet taken is the shadow's.
  `FactsInvariant` adds `FactsInv`, for scripts without digs; from it `NothingIsLost`
  (`NoDeltaIsLost`) and `FollowsTheServer` (`FollowsInOrder`). Before the first
  question is read, the log and the eager copies under way are facts of the game, in
  order (`BeforeQuestions`; then the copies can be filed without being refused). From
  then on the log is all the facts up to the watermark, but for those the reader is
  pushing, each later than what is there and than our last choice (`AfterQuestions`):
  a copy that arrives late is known or refused, and the cursor, which is bounded by
  the watermark, by the frontier and, for reorders, by the shadow's own place, cannot
  be ahead of a push (`CursorsBehind`). That a fact was applied if and only if its
  cursor has passed it (`AppliedIsPassed`) makes it applied once. An opponent's choice
  is pushed after its buffer's facts (`FactsBeforeChoices`), so the card it plays is
  known when the shadow gets there (`CastsKnown`). `NoDigs` is a hypothesis because
  with digs the code does not keep these promises: a dig decision is filed ahead of
  its buffer even when buffers are authoritative (section 5). It is a hypothesis of the
  three theorems about facts only, and the constants of the `shadow` run satisfy it.
- `TurnLoopProofs`: `LoopInvariant`, and from it `TypeCorrect`, `StepsWaitForBoth`
  (`StepsEndQuiet`), `SpellsWaitForAnswers` (`AnsweredBeforeResolving`, an action
  property) and `GrantedCombatsHappen` (`CombatsMatchGrants`). `LoopInv` says what
  the pass counter means (`RoundInv`: one pass means that the other player has
  passed since the last action, two that both have), that nothing of a round is left
  outside it (`BetweenRounds`), that a step that ends had its round (`RoundHeld`),
  and, in each step of the turn, how the combat phases begun, still to come and
  granted add up (`Combats`). That a granted phase is never granted too late needs
  `GrantsInMain`: a spell that grants one can only be on the stack of a main phase.
  Termination bounds (`TurnsLeft`) are part of it.
- `CombatProofs`: `CombatInvariant`, and from it `TypeCorrect`, `TheMapsAgree`
  (`MapsAgree`) and the action properties `BlockedAttackersStayBlocked`
  (`BlockedStaysBlocked`) and `RegeneratedStaysOut` (`RegeneratedIsOut`).
  `CombatInv` says that no blocks are left when blockers are declared
  (`BlocksInCombat`: the code appends to the lists it finds), that the two maps
  hold the same blocks, each once (`BlocksPaired`), and that what regenerated is in
  no map and is tapped while it is there, so that it cannot be declared again
  (`RegeneratedApart`). The action properties also need where a hit can come from:
  whatever plan a controller chooses, it is for blockers of its attacker
  (`PlansAreForBlockers`, `HitsAreFromCombat`). `PowerIsDealt` (`FullPowerDealt`) adds
  the damage up: sums over finite sets of creatures are compared by induction on the
  sets, and what one creature deals in a plan or on its own is its power.
- `BoardProofs`: `BoardIsGood`, and from it `CardsStayAccountedFor`
  (`CardsAccountedFor`), `ControlIsCaused` (`ControlHasACause`), `EquipmentSettles`
  (the half of `PassSettles` about Equipment), `PassSettlesWithOneSource`
  (`PassSettles`) and `RaisedGoes` (`RaisedGoesWithItsAura`). The invariant is that `g`
  is one of the `GoodStates`: typed; every card in one zone, once, and outside the
  battlefield in a pile of its owner (`PlacedBut`); what is off the battlefield
  unmarked (`Unmarked`); and every theft with a cause, every grant with another card
  as its source, only lands animated (`Explained`). `PlacedBut` has the set of cards
  that are nowhere as a parameter, because a move takes a card out before it puts
  it down. Each effect, move, nested trigger and check of the pass leads from good
  states to good states; after `RecomputeAuraControl` the Auras named as causes are
  on what they govern (`SettledStates`), which the rest of the pass keeps.
  The folds over lists of triggers and cards are followed position by position
  (`LeastNat`, `NumberByNumber`, `PositionByPosition`, `FoldExists`), once for each
  operator that is folded: the lemmas named `...Each` say that what one step
  preserves the fold preserves, and for triggers also what one of them brings about.
  The grants need more than the invariant. A grant is visited once, in the order of
  the battlefield, and holds afterwards unless its source changes hands at a later
  visit (`VisitHolds`); with one source that cannot happen, as no card lends itself.
  With two sources it does, and `GrantsEndWithTheirSource` (section 5) is violated:
  the theorem has `OneSource` as its hypothesis for that reason, and the `board` run
  has one source. `RaisedGoes` follows an Aura and the creature it raised through a
  step: the Aura stays with its trigger (`Bound`), or leaves and the trigger that it
  fires takes the creature along (`MoveCardLooses`), whatever else fires, and then
  neither comes back in the pass (`Gone`).

The assumptions only say that distinguished values (no owner, no connection, no
client, no verdict) are outside the sets they are distinguished from, that the
default name is a name, that there are two players with decks that share no card,
that the kinds of cards of `TurnLoop` are disjoint, that the creatures of `Combat`
are finite disjoint sets of ids, which are numbers, that the cards of `Board` are
finitely many, each with an owner and of at most one of the kinds creature, land,
Aura and Equipment, that bounds are natural numbers, and that the empty slot of
`GameRelay` is no request, answer or question. Facts about sequences and sorted
buffers are proved in the same modules (taking a card out of a zone or a creature
out of a list, concatenation, sorting by counting, the least element of a set of
numbers, from which induction over the length of a sequence can be had).

Only model-checked: all liveness properties (they need fairness, which TLAPS does
not handle through `ENABLED`), so of `GoStartsTheGame` and `HandOverMakesAGame` the
halves that say something comes about; of `ShadowSync`, `QuestionsAreAnswered`; and
all of `UndoLog` and `Mana`, which lean on recursive functions over sequences of
unbounded length and, in `Mana`, on a search for payments. The library's induction
theorems cannot be instantiated here; induction by way of the least counterexample
can, as in `BoardProofs`, at the price of a lemma per function, and is not done for
them.

## 5. Where the code and its documentation disagree

### Shown by a run

- `mana_drift` (`PROJECT.json` "findings" quotes the lines): an earthbent land
  that dies returns to the battlefield by its delayed trigger, which sets
  `tapped` directly (`state.rs:4813`) after the card has entered the cache
  untapped. The untapped totals then count a tapped land, against the assertion
  text of `mana_engine.rs:916`, until the cache is next rebuilt.

### Confirmed with TLC, kept as properties of the modules

Each is stated in its module beside the checked ones, and TLC refutes it with
the constants of the module's configuration, changed as the second column says.
The three about eventual behaviour are refuted under `FairSpec`.

| property | configuration | what happens |
|---|---|---|
| `MVar`: `ExitReleasesConsumers` | `MVar.cfg` | the notification of `signal_exit` can fall between the check of the flag in `take` and its wait; the game thread then sleeps for ever. `client.rs` 1266-1277 has the same pattern for its own condition variables |
| `WaitingRooms`: `RemovalIsIdempotent` | `WaitingRooms.cfg` | the "idempotent" removal by name evicts another host's game |
| `WaitingRooms`: `BothAreTold` | two clients, one game | the joiner's task reads the start snapshot, sends its `WaitingRoomReady`, removes the listing and returns, and leaves it to the snapshot in the watch channel to tell the host's task. A deck change or a cancel of the host, handled before that snapshot is read, publishes one without the start (`server.rs` 1370-1380, 1404-1412). The host is not told and waits in a room that is no longer listed, where `protocol.rs:628` says "When the server observes BOTH players ready it sends `WaitingRoomReady` to both launcher sockets" |
| `WaitingRooms`: `GuestLearnsHostLeft` | two clients | a joiner holds a sender of the channel whose closing should tell it that the host left |
| `GameRelay`: `EndIsPolled` | `GameRelayEnds.cfg` | the coordinator awaits an answer and nothing else, so when the other player leaves, or the game fails, the player to move is not told until the abort closes its socket |
| `GameRelay`: `WinnerReachesClients` | `GameRelayEnds.cfg` | nothing makes the abort, 200 ms after the end, wait for the last message, which the comment at `server.rs:2439` says it does ("Wait for coordinator and handlers to process GameEnded") |
| `ShadowSync`: `NoDeltaIsLost` | `Deeds = {"draw", "ours", "theirs", "dig"}` | a dig decision is pushed ahead of its buffer even once buffers are authoritative. A synchronisation after the next question has raised the watermark and before its facts are pushed moves the cursor up to the dig; the push of an earlier fact then panics. The doc calls this window atomic |
| `ShadowSync`: `DigsFollowTheServer` | the same | when our own pass is the last before the opponent's dig, the shadow digs before the decision can reach it, and decides for itself; the decision stays pending and a later dig takes it |
| `TurnLoop`: `TargetsOfThisCast` | a bolt, a regrowth, a counterspell; one turn | a spell that is countered, returned to hand and cast at another target finds the target of its first cast (`priority.rs:46`); `state.rs:384` says "Entries are removed when the corresponding spell resolves or is countered." |
| `Board`: `AuraWithoutTargetIsBuried` | `Board.cfg` | a control Aura whose target dies in response puts it back on the battlefield under the Aura's control (`actions/mod.rs:1346`), where the comment at 1368 has it go to the graveyard |
| `Board`: `NewObjectIsItsCasters` | `Board.cfg` | `reset_transient_state` keeps the controller (`state.rs:2120`): a creature stolen, returned to hand and cast again enters under the thief |
| `Board`: `GrantsEndWithTheirSource` | three creatures of which two are `Sources`, three resolutions | the round of `recompute_source_control` (`state.rs:3842`) visits a permanent while its grantee still controls the source; later in the round the source, itself lent, goes back to its owner. The grantee keeps the first permanent until a later pass, where `core/card.rs:894` says control reverts "the moment `grantee` stops controlling" the source |
| `Combat`: `BlockersStrikeBack` | `Combat.cfg` | a blocker only strikes in a damage step in which its attacker strikes (`actions/combat.rs:766`); the test at `actions/tests/combat.rs:1268` says "First strike damage step: only blocker deals damage" |

More that TLC shows on traces of `Combat` and `Mana`:

- A trampler that cannot kill all its blockers tramples with the leftover although
  a blocker is short of lethal damage (`actions/combat.rs` 467-566, 838-865), and
  a double striker whose only blocker regenerated becomes unblocked.
- Combat damage is not added to `card.damage`: damage of the first-strike step and
  of the normal step does not add up. First strike that a continuous effect
  grants does not make a first-strike step (`game_loop/combat.rs:500`).
- With a dirty cache the payment of an optional cost sees sources in battlefield
  order, with a clean one in class order (`mana_engine.rs:655`), so what is tapped
  depends on whether the cache is dirty, which it is on a client that has
  rewound; `payment_execution.rs:756-758` calls the selection "a pure function of
  the payer's own public mana sources".

### Met while reading the network code

- A first message to a new host that fails returns through `?`
  (`server.rs:1247-1260`) past the eviction that the comment at 1267 calls
  unconditional; the entry stays listed. `AnnouncedHostKeepsNoGhost` therefore
  speaks of hosts that reached their loop.
- `Authenticate` looks and creates in two critical sections (`server.rs:973-1005`);
  two clients can both decide to create, and the second is refused.
- A joiner's `Disconnect` clears its slice without telling the host
  (`server.rs:1884-1890`, `lobby.rs:160-162`).
- A legacy joiner's name is released while it plays (`server.rs:1710`, `733`),
  which `HandOver` then `Cleanup` of `NameRegistry` shows.
- `protocol.rs:296-302` says both players ready starts the match; the code sends
  `WaitingRoomReady` and frees the name.
- A second joiner overwrites the slice of a room that is occupied.
- A wrong sequence number or index found by the controller comes after
  `ChoiceAccepted` and `OpponentMadeChoice` were sent and ends as a draw without
  winner (`server.rs` 2428-2437), where `docs/NETWORK_ARCHITECTURE.md:39` wants a
  fatal desync.
- An early answer drops the request with its reveals (`server.rs:3132-3150`):
  they are not in any later buffer. `FactsBeforeQuestion` excludes clients that
  answered without a question.
- A controller's `choose_x_value` is not overridden, so the game logs a choice
  point nobody was asked for (`priority.rs:1177-1190`); it cuts the backward
  scan of the caster's reveals.
- The order of a library is read when the queue is drained (`controller.rs`
  1044-1066) and stamped with the count at which it was reordered: two reorders,
  or a reorder and a draw, between two questions announce the wrong one.
- A second `Register` of a connection overwrites the only record of the first
  name (`server.rs:782`), which stays reserved for ever; the doc at 700 says any
  name the connection holds is released. `LastNameComesBack` speaks of the last.
- A dig decision is stamped with the length of the log before the kept card is
  moved (`zones.rs:208`), and the reveal of that card is then logged at the same
  position: two deltas of one class, which `client.rs:694` asserts cannot be.
- `searched_card_for` (`client.rs:754`) has no lower bound: an opponent's search
  that finds nothing returns the card of an earlier search, where its doc says
  `None` is a genuine failure to find. `FoundCardIsTheServers` therefore speaks of
  searches that found.
- `call_pre_choice_hook` (`game_loop/mod.rs:755-778`) says that the
  synchronisation between request and decision is needed for every kind of
  choice, but the native client configures no hook: choices that are neither
  prepared nor searches (such as the discard of a loot, `priority.rs:4080`)
  synchronise before the request only.
- `signal_exit` of `SharedNetworkState` can lose its wakeup as the MVar's can
  (`ReadEnding` between `FindNothing` and `FallAsleep`), and no later put heals
  a wait for the opponent.

### Met while reading the engine

- Undo. Fields that operations write and the log cannot restore, the `loose` ones
  of `UndoLog`: the tapping by a Kismet effect; life paid on entering, logged
  with the wrong sign (`state.rs` near 1985, `undo.rs:88`); what an Equipment was
  attached to when its creature leaves; extra combats; the draining of the pool;
  shields; the bonus of newcomers at cleanup; the order of triggers and the next
  trigger id when one expires; step, lands and extra turns behind a `ChangeTurn`.
- An undo asked for in the TUI prompts again with the locals from before it, and
  `run_turn` runs the rewound step again (`game_loop/mod.rs` near 1445).
- `check_win_condition` counts an empty library as a loss, where its comment says
  "when trying to draw"; with both players dead the first loses; it is not called
  after activated abilities.
- Island Sanctuary is set in its owner's draw step (`steps.rs:863`) and cleared at
  its owner's cleanup (`steps.rs:1207`): it never covers the opponent's turn.
- An extra combat granted in the second main phase is lost; extra turns are
  taken first in, first out.
- A cast from the graveyard taps lands and never takes the mana from the pool
  (`priority.rs` near 3560). Kicker, offspring and modes are each budgeted alone,
  so together they may not be payable; the cast then fails as a pass without
  rolling back what was sacrificed for it.
- A spell fizzles when any target is gone, under the comment "If all targets are
  illegal" (`actions/mod.rs` near 843). The pass of state-based actions is one
  round, not a fixpoint; lethal damage ignores regeneration shields there and
  runs death triggers before the move.
- An Aura whose target stopped being a creature returns an error through `?`
  that ends the game; `check_aura_attachment` skips unattached Auras, which its
  doc includes.
- Menace counts blocks that the validation after it drops
  (`game_loop/combat.rs` 548-580).
- The check of an "unless" cost uses the pool (`stack.rs:362`), the payment plans
  the full cost without it. A failed cast clears the whole pool and keeps the
  sacrifices. Lands sacrificed for a cast still pay from the graveyard
  (`actions/mod.rs` near 3160 says they must not). `Cost::Untap` tells neither cache
  nor version (`payment_execution.rs:869`). The cache lists by owner, not by
  controller.

## 6. What is not modelled, and why

- The WASM client, the rewind support of the native client (nothing calls its
  resets), the set-up of a connection and the reported winner.
- In the engine: effects that only draw, discard, search, make tokens or change
  life; card triggers in general; continuous effects (layers); the interruption
  of a priority round for a remote player and its resumption; undo requests of a
  player. What the engine owes the network (an entry in the undo log for
  every change, a reveal before a move) is assumed by `GameRelay`, except for
  `execute_dig`, whose order is modelled.
- Snapshots and replay files: serialization around the choices that `UndoLog`
  marks.
- The contents of libraries, options and indices of choices, state hashes:
  abstracted to "valid", "find", "outOfRange", "diverged".
- The card parser and effect converter (`loader/`), the effect types
  (`core/effects.rs`): data without behaviour of their own over time.
- Memory admission, bug reports, HTTP, OAuth and deck storage, loading,
  rendering, tournaments, AI heuristics: I/O or independent computations
  without shared protocol state.
- Facts about the recursive definitions of `UndoLog` and `Mana` stay with TLC
  (section 4).
