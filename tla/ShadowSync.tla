----------------------------- MODULE ShadowSync -----------------------------
(***************************************************************************)
(* A native client following a network game: SharedNetworkState and the    *)
(* WebSocket reader of network/client.rs, the local and the remote         *)
(* controller, and the synchronisation points of the game loop.            *)
(*                                                                         *)
(* Two threads share the state.  The reader takes messages off the wire    *)
(* and files what they tell: reveals and reorders in logs kept by game     *)
(* position, the opponent's choices and the acknowledgements in logs of    *)
(* their own, our questions in the MVar.  The game thread plays a shadow   *)
(* of the golden game; at a synchronisation point it applies what the      *)
(* cursors, the watermark and its own position allow, and at a choice it   *)
(* waits for its question or for the opponent's choice.  A step is one     *)
(* critical section, or the thread-local work between two.                 *)
(*                                                                         *)
(* The server is what GameRelay promises: a question carries the facts and *)
(* choices since the last.  A game is a script of deeds; a position is an  *)
(* action_count.  Cards, orders of libraries (a shadow shuffles with the   *)
(* server's random numbers) and opening hands are left out.                *)
(***************************************************************************)
EXTENDS Integers, FiniteSetsExt, SequencesExt

CONSTANTS MaxLog,    \* bound: length of a game
          Deeds,     \* what a game may consist of
          MayBreak   \* whether the connection may break

Ours == {"ours", "search"}              \* our choices
Theirs == {"theirs", "find", "miss"}    \* our opponent's
TheirSearches == {"find", "miss"}

\* The fact a deed leaves for this client.
KindOf == [draw |-> "reveal", cast |-> "reveal", shuffle |-> "reorder",
           find |-> "searched", dig |-> "dig"]

ASSUME SyncAssumption ==
    /\ MaxLog \in Nat
    /\ Deeds \subseteq Ours \union Theirs \union DOMAIN KindOf
    /\ MayBreak \in BOOLEAN

VARIABLES script,  \* the deed at each position of the game
          golden,  \* the server's game and its connection to us
          wire,    \* messages to us
          reader,  \* run_ws_reader_shared
          net,     \* SharedNetworkState
          shadow   \* the game thread: its game and its controllers

vars == <<script, golden, wire, reader, net, shadow>>

Positions == 0..MaxLog - 1
Facts == [ac : 0..MaxLog, kind : {"reveal", "searched", "candidates", "dig", "reorder"}]
Messages == [type : {"eager", "request", "accepted", "ended", "closed", "dropped"},
             ac : 0..MaxLog, facts : SUBSET Facts, choices : SUBSET Positions]

Message(type, ac, facts, choices) ==
    [type |-> type, ac |-> ac, facts |-> facts, choices |-> choices]
Ending(type) == Message(type, 0, {}, {})

\* A card is played as the outcome of an opponent's choice, and a library is
\* searched or dug in when a spell resolves, after both players had priority.
Init ==
    /\ script \in {s \in [Positions -> Deeds] : \A k \in Positions :
                     /\ s[k] = "cast" => k > 0 /\ s[k - 1] = "theirs"
                     /\ s[k] \in TheirSearches \union {"search", "dig"} =>
                          \E j \in 0..k - 1 : s[j] = "ours"}
    /\ golden = [at |-> 0, asked |-> 0, waiting |-> FALSE, over |-> FALSE]
    /\ wire = <<>>
    /\ reader = [phase |-> "idle", msg |-> Ending("ended")]
    /\ net = [log |-> {}, revealCursor |-> 0, reorderCursor |-> 0, anyApplied |-> FALSE,
              authoritative |-> FALSE, watermark |-> 0,
              theirs |-> {}, theirCursor |-> -1, accepted |-> {},
              local |-> <<>>, terminal |-> FALSE]
    /\ shadow = [pos |-> 0, phase |-> "run", awaits |-> "opponent", taken |-> -1,
                 sent |-> {}, applied |-> <<>>, pending |-> -1, dug |-> {}, fetched |-> {}]

-----------------------------------------------------------------------------
(* The server.                                                             *)

\* A reorder is stamped with the position after the shuffle.
FactOf(k) == [ac |-> IF script[k] = "shuffle" THEN k + 1 ELSE k, kind |-> KindOf[script[k]]]
FactsIn(from, to) == {FactOf(k) : k \in {i \in from..to - 1 : script[i] \in DOMAIN KindOf}}
Candidates(k) == IF script[k] = "search" THEN {[ac |-> k, kind |-> "candidates"]} ELSE {}

\* Facts of different positions by position: each has as many before it as its
\* place says.
InOrder(facts) ==
    [i \in 1..Cardinality(facts) |->
        CHOOSE f \in facts : Cardinality({g \in facts : g.ac < f.ac}) = i - 1]

\* The next choice, or the end of the game.
NextChoice(k) ==
    CHOOSE q \in k..MaxLog :
        /\ q = MaxLog \/ script[q] \in Ours \union Theirs
        /\ \A i \in k..q - 1 : script[i] \notin Ours \union Theirs

\* Messages sent ahead of the buffer: one for each deed of a kind, in order.
Copies(from, to, deeds) ==
    LET told == InOrder({FactOf(k) : k \in {i \in from..to - 1 : script[i] \in deeds}})
    IN  [i \in DOMAIN told |-> Message("eager", 0, {told[i]}, {})]

\* The coordinator broadcasts reorders, then dig decisions, before any question;
\* our handler sends reveals and search candidates before our own.
EagerCopies(from, to) == Copies(from, to, {"shuffle"}) \o Copies(from, to, {"dig"})
EagerReveals(from, q) ==
    Copies(from, q, {"draw", "cast"})
    \o IF Candidates(q) = {} THEN <<>> ELSE <<Message("eager", 0, Candidates(q), {})>>

\* What a choice sends to us: copies, and to our own the ChoiceRequest with the
\* facts and the opponent's choices since the last.
Question(q) ==
    IF q = MaxLog THEN <<Ending("ended")>>
    ELSE IF script[q] \in Theirs THEN EagerCopies(golden.at, q)
    ELSE EagerCopies(golden.at, q) \o EagerReveals(golden.asked, q)
         \o <<Message("request", q, FactsIn(golden.asked, q) \union Candidates(q),
                      {k \in golden.asked..q - 1 : script[k] \in Theirs})>>

\* The golden game runs to its next choice or to its end.
GameReachesChoice ==
    /\ ~golden.waiting /\ ~golden.over
    /\ LET q == NextChoice(golden.at)
       IN  /\ wire' = wire \o Question(q)
           /\ golden' = [at |-> q, waiting |-> q < MaxLog, over |-> q = MaxLog,
                         asked |-> IF q < MaxLog /\ script[q] \in Theirs
                                   THEN golden.asked ELSE q]
    /\ UNCHANGED <<script, reader, net, shadow>>

OpponentChooses ==
    /\ golden.waiting /\ ~golden.over /\ script[golden.at] \in Theirs
    /\ golden' = [golden EXCEPT !.at = @ + 1, !.waiting = FALSE]
    /\ UNCHANGED <<script, wire, reader, net, shadow>>

\* Our answer reaches the server, which acknowledges it.
AnswerArrives ==
    /\ golden.waiting /\ ~golden.over /\ golden.at \in shadow.sent
    /\ golden' = [golden EXCEPT !.at = @ + 1, !.waiting = FALSE]
    /\ wire' = Append(wire, Message("accepted", golden.at, {}, {}))
    /\ UNCHANGED <<script, reader, net, shadow>>

\* A close frame or a fatal error; or the stream just ends.
ConnectionBreaks(how) ==
    /\ MayBreak /\ ~golden.over
    /\ golden' = [golden EXCEPT !.over = TRUE]
    /\ wire' = Append(wire, Ending(how))
    /\ UNCHANGED <<script, reader, net, shadow>>

-----------------------------------------------------------------------------
(* The reader.                                                             *)

Reorders == {f \in net.log : f.kind = "reorder"}
Reveals == net.log \ Reorders
Frontier(facts) == Max({0} \union {f.ac : f \in facts})

\* What push_state_sync_at does not refuse: a fact it has, or one at a free
\* position of its log that the cursor of its class has not passed.
Accepts(f) ==
    LET class == IF f.kind = "reorder" THEN Reorders ELSE Reveals
        cursor == IF f.kind = "reorder" THEN net.reorderCursor ELSE net.revealCursor
    IN  f \in class \/ ((\A g \in class : g.ac # f.ac) /\ f.ac >= cursor)

\* push_state_sync_at; a refusal is a panic under the lock, which poisons it.
push_state_sync_at(f, after) ==
    IF Accepts(f)
    THEN /\ net' = [net EXCEPT !.log = @ \union {f}]
         /\ reader' = after
    ELSE /\ reader' = [reader EXCEPT !.phase = "panicked"]
         /\ UNCHANGED net

Receives(type) == reader.phase = "idle" /\ wire # <<>> /\ Head(wire).type = type

\* The eager arms: ignored once a question was seen, a dig decision never.
ReadEager ==
    /\ Receives("eager")
    /\ LET f == CHOOSE f \in Head(wire).facts : TRUE
       IN  IF f.kind # "dig" /\ net.authoritative
           THEN UNCHANGED <<reader, net>>
           ELSE push_state_sync_at(f, reader)
    /\ wire' = Tail(wire)
    /\ UNCHANGED <<script, golden, shadow>>

\* The watermark rises before the buffer is applied.
ReadRequest ==
    /\ Receives("request")
    /\ net' = [net EXCEPT !.authoritative = TRUE, !.watermark = Max({@, Head(wire).ac})]
    /\ reader' = [phase |-> "serving", msg |-> Head(wire)]
    /\ wire' = Tail(wire)
    /\ UNCHANGED <<script, golden, shadow>>

\* The first pass of apply_choice_buffer, by ascending position.
PushFact ==
    /\ reader.phase = "serving"
    /\ \E f \in reader.msg.facts :
         /\ \A g \in reader.msg.facts : f.ac <= g.ac
         /\ push_state_sync_at(f, [reader EXCEPT !.msg.facts = @ \ {f}])
    /\ UNCHANGED <<script, golden, wire, shadow>>

\* notify_all: whoever sleeps for this looks again.
Woken(what) == IF shadow.phase = "asleep" /\ shadow.awaits = what
               THEN [shadow EXCEPT !.phase = "look"] ELSE shadow

\* The game thread holds the lock of what it awaits until it sleeps.
Locked(what) == shadow.phase = "decide" /\ shadow.awaits = what

\* Changed form of push_opponent_choice: it does not notify.
PushChoiceQuietly ==
    /\ reader.phase = "serving" /\ reader.msg.facts = {} /\ ~Locked("opponent")
    /\ \E k \in reader.msg.choices :
         /\ \A j \in reader.msg.choices : k <= j
         /\ net' = [net EXCEPT !.theirs = @ \union {k}]
         /\ reader' = [reader EXCEPT !.msg.choices = @ \ {k}]
    /\ UNCHANGED <<script, golden, wire, shadow>>

\* Changed form of PushChoice: in one pass with the facts.
PushChoiceAmongFacts ==
    /\ reader.phase = "serving" /\ ~Locked("opponent")
    /\ \E k \in reader.msg.choices :
         /\ \A j \in reader.msg.choices : k <= j
         /\ \A f \in reader.msg.facts : k <= f.ac
         /\ net' = [net EXCEPT !.theirs = @ \union {k}]
         /\ reader' = [reader EXCEPT !.msg.choices = @ \ {k}]
    /\ shadow' = Woken("opponent")
    /\ UNCHANGED <<script, golden, wire>>

\* The second pass: push_opponent_choice.
PushChoice ==
    /\ reader.phase = "serving" /\ reader.msg.facts = {} /\ ~Locked("opponent")
    /\ \E k \in reader.msg.choices :
         /\ \A j \in reader.msg.choices : k <= j
         /\ net' = [net EXCEPT !.theirs = @ \union {k}]
         /\ reader' = [reader EXCEPT !.msg.choices = @ \ {k}]
    /\ shadow' = Woken("opponent")
    /\ UNCHANGED <<script, golden, wire>>

\* push_local_choice of the question itself, last.
PutRequest ==
    /\ reader.phase = "serving" /\ reader.msg.facts = {} /\ reader.msg.choices = {}
    /\ net' = [net EXCEPT !.local = Append(@, reader.msg)]
    /\ reader' = [reader EXCEPT !.phase = "idle"]
    /\ UNCHANGED <<script, golden, wire, shadow>>

\* push_choice_accepted
ReadAccepted ==
    /\ Receives("accepted") /\ ~Locked("accepted")
    /\ net' = [net EXCEPT !.accepted = @ \union {Head(wire).ac}]
    /\ shadow' = Woken("accepted")
    /\ wire' = Tail(wire)
    /\ UNCHANGED <<script, golden, reader>>

\* signal_exit: the flag is set, and the waiters notified, without their locks.
ReadEnding(type) ==
    /\ Receives(type)
    /\ net' = [net EXCEPT !.terminal = TRUE]
    /\ reader' = [phase |-> "notify", msg |-> Head(wire)]
    /\ wire' = Tail(wire)
    /\ UNCHANGED <<script, golden, shadow>>

NotifyExit ==
    /\ reader.phase = "notify"
    /\ shadow' = Woken(shadow.awaits)
    /\ reader' = [reader EXCEPT !.phase = IF reader.msg.type = "dropped" THEN "gone" ELSE "exit"]
    /\ UNCHANGED <<script, golden, wire, net>>

\* The explicit Exit in the MVar, which the end of the stream does not put.
PutExit ==
    /\ reader.phase = "exit"
    /\ net' = [net EXCEPT !.local = Append(@, reader.msg)]
    /\ reader' = [reader EXCEPT !.phase = "gone"]
    /\ UNCHANGED <<script, golden, wire, shadow>>

-----------------------------------------------------------------------------
(* The game thread.                                                        *)

Healthy == reader.phase # "panicked"   \* a poisoned lock kills whoever takes it
Deed == script[shadow.pos]
At(phase, deeds) ==
    Healthy /\ shadow.phase = phase /\ shadow.pos < MaxLog /\ Deed \in deeds

\* Changed form of RevealBound: the watermark alone.
WatermarkBound == net.watermark
\* How far a synchronisation goes: reveals ahead of the shadow, reorders not.
RevealBound == Min({net.watermark, Frontier(Reveals)})
ReorderBound == Min({shadow.pos, Frontier(Reorders)})

DueReveals ==
    {f \in Reveals : (~net.anyApplied \/ f.ac > net.revealCursor) /\ f.ac <= RevealBound}
DueReorders == {f \in Reorders : f.ac > net.reorderCursor /\ f.ac <= ReorderBound}

\* apply_state_sync_up_to_frontier: the cursors move only when something is due.
SyncedNet ==
    IF DueReveals \union DueReorders = {} THEN net
    ELSE [net EXCEPT !.revealCursor = Max({@, RevealBound}),
                     !.reorderCursor = Max({@, ReorderBound}),
                     !.anyApplied = @ \/ DueReveals # {}]

\* A dig decision only replaces the pending one.
SyncedShadow ==
    [shadow EXCEPT !.applied = @ \o InOrder(DueReorders) \o InOrder(DueReveals),
                   !.pending = LET digs == {f.ac : f \in {g \in DueReveals : g.kind = "dig"}}
                               IN  IF digs = {} THEN @ ELSE Max(digs)]

\* The draw step synchronises before it draws.
Draws ==
    /\ At("run", {"draw"})
    /\ net' = SyncedNet
    /\ shadow' = [SyncedShadow EXCEPT !.pos = @ + 1]
    /\ UNCHANGED <<script, golden, wire, reader>>

\* execute_dig takes whatever decision is pending, or decides for itself.
Dug(deed, sh) ==
    IF deed # "dig" THEN sh
    ELSE [sh EXCEPT !.pending = -1, !.dug = @ \union {[at |-> sh.pos, by |-> sh.pending]}]

\* Other deeds do not; the shadow repeats a shuffle itself.
Plays ==
    /\ At("run", {"cast", "shuffle", "dig"})
    /\ shadow' = [Dug(Deed, shadow) EXCEPT !.pos = @ + 1]
    /\ UNCHANGED <<script, golden, wire, reader, net>>

\* take_local_choice, by prepare_for_priority_choice or for a library search.
TakeRequest(phase, deeds, Then) ==
    /\ At(phase, deeds)
    /\ net.local # <<>>
    /\ net' = [net EXCEPT !.local = Tail(@)]
    /\ shadow' = IF Head(net.local).type = "request" THEN Then
                 ELSE [shadow EXCEPT !.phase = "left"]
    /\ UNCHANGED <<script, golden, wire, reader>>

TakeNothing ==
    /\ At("run", {"ours"}) \/ At("ask", {"search"})
    /\ net.local = <<>> /\ net.terminal
    /\ shadow' = [shadow EXCEPT !.phase = "left"]
    /\ UNCHANGED <<script, golden, wire, reader, net>>

PrepareOwnChoice ==
    TakeRequest("run", {"ours"},
                [shadow EXCEPT !.phase = "choose", !.taken = Head(net.local).ac])

\* Between the request and the decision lies the synchronisation.
Choose ==
    /\ At("choose", {"ours"})
    /\ net' = SyncedNet
    /\ shadow' = [SyncedShadow EXCEPT !.phase = "run", !.pos = @ + 1,
                                      !.sent = @ \union {shadow.taken}]
    /\ UNCHANGED <<script, golden, wire, reader>>

\* A library search synchronises first and takes its request as it asks.
BeginSearch ==
    /\ At("run", {"search"} \union TheirSearches)
    /\ net' = SyncedNet
    /\ shadow' = [SyncedShadow EXCEPT !.phase = IF Deed = "search" THEN "ask" ELSE "look",
                                      !.awaits = "opponent"]
    /\ UNCHANGED <<script, golden, wire, reader>>

\* choose_from_library chooses by the names in the request and waits for the result.
AnswerSearch ==
    TakeRequest("ask", {"search"},
                [shadow EXCEPT !.phase = "look", !.awaits = "accepted",
                               !.taken = Head(net.local).ac,
                               !.sent = @ \union {Head(net.local).ac}])

\* prepare_for_priority_choice of the remote controller.
AwaitOpponent ==
    /\ At("run", {"theirs"})
    /\ shadow' = [shadow EXCEPT !.phase = "look", !.awaits = "opponent"]
    /\ UNCHANGED <<script, golden, wire, reader, net>>

Awaited == IF shadow.awaits = "accepted" THEN net.accepted \intersect {shadow.taken}
           ELSE {k \in net.theirs : k > net.theirCursor}

\* Changed form of TakeAwaited: the cursor stays.
TakeAwaitedAgain ==
    /\ At("look", Ours \union Theirs) /\ Awaited # {}
    /\ shadow' = [shadow EXCEPT !.phase = "replay", !.taken = Min(Awaited)]
    /\ UNCHANGED <<script, golden, wire, reader, net>>

\* The loops of take_opponent_choice and wait_for_choice_accepted.
TakeAwaited ==
    /\ At("look", Ours \union Theirs) /\ Awaited # {}
    /\ shadow' = [shadow EXCEPT !.phase = "replay", !.taken = Min(Awaited)]
    /\ net' = IF shadow.awaits = "accepted" THEN net
              ELSE [net EXCEPT !.theirCursor = Min(Awaited)]
    /\ UNCHANGED <<script, golden, wire, reader>>

FindNothing ==
    /\ At("look", Ours \union Theirs) /\ Awaited = {}
    /\ shadow' = [shadow EXCEPT !.phase = IF net.terminal THEN "left" ELSE "decide"]
    /\ UNCHANGED <<script, golden, wire, reader, net>>

FallAsleep ==
    /\ At("decide", Ours \union Theirs)
    /\ shadow' = [shadow EXCEPT !.phase = "asleep"]
    /\ UNCHANGED <<script, golden, wire, reader, net>>

\* A condition variable may wake up on its own.
WakeUp ==
    /\ At("asleep", Ours \union Theirs)
    /\ shadow' = [shadow EXCEPT !.phase = "look"]
    /\ UNCHANGED <<script, golden, wire, reader, net>>

\* The opponent's choice is replayed after a synchronisation, and an accepted
\* search of ours too.
Replay ==
    /\ At("replay", {"theirs", "search"})
    /\ net' = SyncedNet
    /\ shadow' = [SyncedShadow EXCEPT !.phase = "run", !.pos = @ + 1]
    /\ UNCHANGED <<script, golden, wire, reader>>

\* searched_card_for: the card of the latest search up to a position.
searched_card_for(upTo) ==
    LET found == {f.ac : f \in {g \in net.log : g.kind = "searched" /\ g.ac <= upTo}}
    IN  {k \in found : \A j \in found : j <= k}

\* choose_from_library_with_hook for a remote controller: the card of the log, or
\* else of the choice; only a card is followed by a synchronisation.
ReplaySearch ==
    /\ At("replay", TheirSearches)
    /\ LET logged == searched_card_for(shadow.pos)
           card == IF logged = {} /\ Deed = "find" THEN {shadow.taken} ELSE logged
           after == IF card = {} THEN shadow ELSE SyncedShadow
       IN  /\ net' = IF card = {} THEN net ELSE SyncedNet
           /\ shadow' = [after EXCEPT !.phase = "run", !.pos = @ + 1,
                                      !.fetched = @ \union {<<shadow.pos, c>> : c \in card}]
    /\ UNCHANGED <<script, golden, wire, reader>>

-----------------------------------------------------------------------------
Server == GameReachesChoice \/ AnswerArrives

ReaderStep ==
    \/ ReadEager \/ ReadRequest \/ PushFact \/ PushChoice \/ PutRequest \/ ReadAccepted
    \/ \E type \in {"ended", "closed", "dropped"} : ReadEnding(type)
    \/ NotifyExit \/ PutExit

GameThread ==
    \/ Draws \/ Plays
    \/ PrepareOwnChoice \/ Choose \/ BeginSearch \/ AnswerSearch \/ TakeNothing
    \/ AwaitOpponent \/ TakeAwaited \/ FindNothing \/ FallAsleep
    \/ Replay \/ ReplaySearch

Next ==
    \/ Server \/ ReaderStep \/ GameThread
    \/ OpponentChooses \/ WakeUp
    \/ \E how \in {"closed", "dropped"} : ConnectionBreaks(how)

Spec == Init /\ [][Next]_vars

\* Both threads and the server are scheduled, and a lock that is free again and
\* again is not withheld from the reader; the opponent may think for ever.
FairSpec == Spec /\ WF_vars(Server) /\ SF_vars(ReaderStep) /\ WF_vars(GameThread)

-----------------------------------------------------------------------------
(* Properties.                                                             *)

Goldens == [at : 0..MaxLog, asked : 0..MaxLog, waiting : BOOLEAN, over : BOOLEAN]
Readers == [phase : {"idle", "serving", "notify", "exit", "gone", "panicked"}, msg : Messages]
Nets == [log : SUBSET Facts, revealCursor : 0..MaxLog, reorderCursor : 0..MaxLog,
         anyApplied : BOOLEAN, authoritative : BOOLEAN, watermark : 0..MaxLog,
         theirs : SUBSET {k \in Positions : script[k] \in Theirs},
         theirCursor : -1..MaxLog - 1,
         accepted : SUBSET (0..MaxLog), local : Seq(Messages), terminal : BOOLEAN]
Shadows == [pos : 0..MaxLog,
            phase : {"run", "choose", "ask", "look", "decide", "asleep", "replay", "left"},
            awaits : {"opponent", "accepted"}, taken : -1..MaxLog - 1,
            sent : SUBSET {k \in Positions : script[k] \in Ours},
            applied : Seq(Facts), pending : -1..MaxLog,
            dug : SUBSET [at : Positions, by : -1..MaxLog],
            fetched : SUBSET (Positions \X (0..MaxLog))]

\* Every record has its type.
TypeOK ==
    /\ script \in [Positions -> Deeds]
    /\ golden \in Goldens
    /\ wire \in Seq(Messages)
    /\ reader \in Readers
    /\ net \in Nets
    /\ shadow \in Shadows

Applied == ToSet(shadow.applied)

\* When the shadow plays an opponent's card, decides at a prepared choice, or
\* moves the card its player searched for, everything that came before in the
\* golden game, and that card, has been applied to it, whatever the reader was
\* doing meanwhile (client.rs, ORDERING IS LOAD-BEARING and the watermark).
KnownInTime ==
    \A k \in 0..shadow.pos - 1 :
        /\ script[k] = "cast" => FactOf(k) \in Applied
        /\ script[k] = "search" => Candidates(k) \subseteq Applied
        /\ script[k] = "ours" => FactsIn(0, k) \subseteq Applied

\* The reader never meets a fact its cursor has passed, and every fact that a
\* cursor has passed was applied: no delta is lost between the two threads
\* (push_state_sync_at's assertions, the cursors of apply_state_sync).
NoDeltaIsLost ==
    /\ reader.phase # "panicked"
    /\ \A f \in net.log :
         (IF f.kind = "reorder" THEN f.ac <= net.reorderCursor
          ELSE net.anyApplied /\ f.ac <= net.revealCursor) => f \in Applied

\* Each delta is applied once, and those of a class in game order, whatever the
\* order of arrival on the wire (the two copies of a reorder, eager and buffered).
AppliedOnceInOrder ==
    \A i, j \in DOMAIN shadow.applied :
        LET f == shadow.applied[i]
            g == shadow.applied[j]
        IN  i < j /\ (f.kind = "reorder" <=> g.kind = "reorder") => f.ac < g.ac

\* No order of a library reaches the shadow before the shuffle that made it
\* (last_applied_reorder_ac: a card fetched before would vanish).
ReordersNotEarly ==
    \A f \in Applied : f.kind = "reorder" => f.ac <= shadow.pos

\* A choice is made or replayed at the position it was asked at, though the
\* controllers take the next request or choice without comparing positions.
ChoicesInPlace ==
    /\ shadow.phase \in {"choose", "replay"} => shadow.taken = shadow.pos
    /\ shadow.phase = "look" /\ shadow.awaits = "accepted" => shadow.taken = shadow.pos

\* The card an opponent's successful search fetches is the one of that search,
\* not of an earlier one whose reveal the log still holds (searched_card_for).
FoundCardIsTheServers ==
    \A p \in shadow.fetched : script[p[1]] = "find" => p[2] = p[1]

\* What the shadow has done at any moment it did on time, once, in the golden
\* game's order and with the golden game's cards.
FollowsInOrder ==
    /\ KnownInTime
    /\ AppliedOnceInOrder
    /\ ReordersNotEarly
    /\ ChoicesInPlace
    /\ FoundCardIsTheServers

\* As long as the connection holds, a question of the server is answered: the
\* reader's notifications are not lost and no wait blocks the game for ever.
QuestionsAreAnswered ==
    \A k \in Positions :
        (golden.waiting /\ golden.at = k /\ script[k] \in Ours) ~> (golden.at > k \/ golden.over)

\* The shadow and the golden game keep each other's choices (Replica).
Replicas == INSTANCE Replica WITH Length <- MaxLog, golden <- golden.at, mirror <- shadow.pos,
                                  made <- shadow.sent
ImplementsReplica == Replicas!Spec

\* A shadow's dig keeps what the server's dig kept: the decision of this dig,
\* not its own guess nor the decision of another one.  client.rs, DigDecision:
\* "The shadow must adopt this in `execute_dig` instead of re-deriving from
\* hidden library contents."
DigsFollowTheServer == \A d \in shadow.dug : d.by = d.at
=============================================================================
