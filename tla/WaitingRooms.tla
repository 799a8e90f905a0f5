---------------------------- MODULE WaitingRooms ----------------------------
(***************************************************************************)
(* The lobby's waiting games: the connection tasks of network/server.rs    *)
(* (run_create_flow, run_join_flow, run_joiner_waiting_room) over the      *)
(* shared LobbyState of network/lobby.rs.                                  *)
(*                                                                         *)
(* A host lists a game under a name and waits.  In a legacy game the first *)
(* joiner takes the listing away and passes its WebSocket to the host's    *)
(* task, which runs the game.  In a rendezvous room the joiner waits too;  *)
(* both set ready flags in the listing, whose snapshots travel over a      *)
(* watch channel, and both are told to proceed once both are ready.        *)
(*                                                                         *)
(* One step is one critical section of the lobby mutex together with what  *)
(* the task does up to its next await on which another task can act.       *)
(***************************************************************************)
EXTENDS Naturals, FiniteSets

CONSTANTS Clients,      \* connections; one server task each
          Keys,         \* lower-cased game names
          DefaultKey,   \* DEFAULT_LOBBY_GAME, used by Authenticate
          NoClient,     \* "no joiner"
          MaxGames      \* bound: game ids handed out

\* Where the sender of a hand-off is: in the listing, with the joiner, dropped
\* unused; or already received by the host.
HandoffMarks == {"listed", "taken", "dropped", "received"}

ASSUME RoomsAssumption ==
    /\ DefaultKey \in Keys
    /\ NoClient \notin Clients
    /\ HandoffMarks \intersect Clients = {}
    /\ MaxGames \in Nat

Ids == 1..MaxGames

VARIABLES waiting,      \* LobbyState::waiting_games, each entry with its key
          active,       \* ids in LobbyState::active_games
          nextGameId,   \* LobbyState::next_game_id
          task,         \* where each connection's task is
          seat,         \* the task's locals: key, game id, rendezvous
          oneshot,      \* per game, the hand-off channel
          watch,        \* per game, the latest snapshot of the watch channel
          unseen,       \* tasks whose receiver has not read that snapshot
          connected,    \* clients whose WebSocket is open
          announced,    \* history: hosts that were sent their first messages
          go            \* history: clients that were sent WaitingRoomReady

lobbyVars == <<waiting, active, nextGameId>>
channelVars == <<oneshot, watch, unseen>>
historyVars == <<announced, go>>
vars == <<lobbyVars, task, seat, channelVars, connected, historyVars>>

Slots == [key : Keys, id : Ids, host : Clients, rendezvous : BOOLEAN,
          hostReady : BOOLEAN, guest : Clients \union {NoClient},
          guestReady : BOOLEAN]

Seats == [key : Keys, id : Ids \union {0}, rendezvous : BOOLEAN]

Snapshots == [start : BOOLEAN, guest : Clients \union {NoClient}]

\* ... or the joiner itself, while its socket is in the channel.
OneshotStates == HandoffMarks \union Clients

TaskPoints == {"lobby", "authCreate", "authJoin",               \* dispatch
               "announcing", "hosting", "hostGoes",             \* host
               "evicting", "playing",
               "seated", "inRoom", "guestGoes", "freeing",      \* guest
               "handing", "passed",                             \* legacy joiner
               "gone"}

Init ==
    /\ waiting = {}
    /\ active = {}
    /\ nextGameId = 1
    /\ task = [c \in Clients |-> "lobby"]
    /\ seat = [c \in Clients |-> [key |-> DefaultKey, id |-> 0,
                                   rendezvous |-> FALSE]]
    /\ oneshot = [g \in Ids |-> "listed"]
    /\ watch = [g \in Ids |-> [start |-> FALSE, guest |-> NoClient]]
    /\ unseen = {}
    /\ connected = Clients
    /\ announced = {}
    /\ go = {}

-----------------------------------------------------------------------------
(* The listing, the channels, and the end of a task.                       *)

Named(k) == {s \in waiting : s.key = k}

\* Changed form of NameFree: the listing is not consulted.
NameNotChecked(k) == TRUE

\* !waiting_games.contains_key(key)
NameFree(k) == Named(k) = {}

\* waiting_games.remove(key): the entry goes, whoever's it is, and with it a
\* hand-off sender it still holds.
RemoveNamed(k) ==
    /\ waiting' = waiting \ Named(k)
    /\ oneshot' = [g \in Ids |->
                     IF oneshot[g] = "listed" /\ \E s \in Named(k) : s.id = g
                     THEN "dropped" ELSE oneshot[g]]

Subscribed(g) ==
    {c \in Clients : /\ seat[c].id = g
                     /\ task[c] \in {"announcing", "hosting", "seated", "inRoom"}}

\* watch::Sender::send: the newest snapshot replaces one nobody has read yet.
Publish(g, start, guest) ==
    /\ watch' = [watch EXCEPT ![g] = [start |-> start, guest |-> guest]]
    /\ unseen' = unseen \union Subscribed(g)

\* The listing and every joiner in the room hold a sender of the channel.
SenderAlive(g) ==
    \/ \E s \in waiting : s.id = g
    \/ \E c \in Clients : /\ seat[c].id = g
                          /\ task[c] \in {"seated", "inRoom", "guestGoes", "freeing",
                                        "handing"}

\* Changed form of Ends: the task returns, the WebSocket stays open.
EndsLeakingSocket(c) ==
    /\ task' = [task EXCEPT ![c] = "gone"]
    /\ UNCHANGED connected

\* The task returns and drops its WebSocket.
Ends(c) ==
    /\ task' = [task EXCEPT ![c] = "gone"]
    /\ connected' = connected \ {c}

\* Changed form of HostEnds: the joiner in the channel is forgotten.
HostEndsAlone(c) ==
    /\ task' = [task EXCEPT ![c] = "gone"]
    /\ connected' = connected \ {c}

\* The host's task returns: a joiner still in the hand-off channel is dropped
\* with the receiver.
HostEnds(c) ==
    LET lost == {c, oneshot[seat[c].id]}
    IN  /\ task' = [d \in Clients |-> IF d \in lost THEN "gone" ELSE task[d]]
        /\ connected' = connected \ lost

-----------------------------------------------------------------------------
(* Dispatch.                                                               *)

\* Authenticate looks whether the default game is listed, releases the lock,
\* and only then enters the create or the join flow.
AuthenticateLooks(c) ==
    /\ task[c] = "lobby"
    /\ c \in connected
    /\ task' = [task EXCEPT ![c] =
                  IF Named(DefaultKey) # {} THEN "authJoin" ELSE "authCreate"]
    /\ UNCHANGED <<lobbyVars, seat, channelVars, connected, historyVars>>

MayCreate(c, k, rv) ==
    \/ task[c] = "lobby" /\ c \in connected
    \/ task[c] = "authCreate" /\ k = DefaultKey /\ ~rv

MayJoin(c, k, rv) ==
    \/ task[c] = "lobby" /\ c \in connected
    \/ task[c] = "authJoin" /\ k = DefaultKey /\ ~rv

\* Every other end of the dispatch loop, or of a flow before it touches the
\* listing: a refused password or deck, memory pressure, an I/O error, a
\* game to join that is not listed or has another password.
LeaveLobby(c) ==
    /\ task[c] \in {"lobby", "authCreate", "authJoin"}
    /\ Ends(c)
    /\ UNCHANGED <<lobbyVars, seat, channelVars, historyVars>>

\* The client closes its WebSocket.
ClientCloses(c) ==
    /\ c \in connected
    /\ connected' = connected \ {c}
    /\ UNCHANGED <<lobbyVars, task, seat, channelVars, historyVars>>

-----------------------------------------------------------------------------
(* run_create_flow.                                                        *)

\* The id is consumed and the game listed in one critical section.
CreateSlot(c, k, rv) ==
    /\ MayCreate(c, k, rv)
    /\ nextGameId <= MaxGames
    /\ NameFree(k)
    /\ nextGameId' = nextGameId + 1
    /\ waiting' = waiting \union
         {[key |-> k, id |-> nextGameId, host |-> c, rendezvous |-> rv,
           hostReady |-> FALSE, guest |-> NoClient, guestReady |-> FALSE]}
    /\ seat' = [seat EXCEPT ![c] = [key |-> k, id |-> nextGameId,
                                    rendezvous |-> rv]]
    /\ task' = [task EXCEPT ![c] = "announcing"]
    /\ UNCHANGED <<active, channelVars, connected, announced, go>>

\* The name is already waiting: the id is spent all the same.
CreateRefused(c, k, rv) ==
    /\ MayCreate(c, k, rv)
    /\ nextGameId <= MaxGames
    /\ ~NameFree(k)
    /\ nextGameId' = nextGameId + 1
    /\ Ends(c)
    /\ UNCHANGED <<waiting, active, seat, channelVars, historyVars>>

\* GameCreated, WaitingForOpponent and the first update reach the socket.
Announce(c) ==
    /\ task[c] = "announcing"
    /\ task' = [task EXCEPT ![c] = "hosting"]
    /\ announced' = announced \union {c}
    /\ UNCHANGED <<lobbyVars, seat, channelVars, connected, go>>

\* One of those sends fails and `?` returns past the eviction.
AnnounceFails(c) ==
    /\ task[c] = "announcing"
    /\ c \notin connected
    /\ HostEnds(c)
    /\ UNCHANGED <<lobbyVars, seat, channelVars, historyVars>>

\* Legacy: the joiner arrives through the hand-off channel; the game becomes
\* active and run_game starts.
ReceiveJoiner(c) ==
    /\ task[c] = "hosting"
    /\ ~seat[c].rendezvous
    /\ oneshot[seat[c].id] \in Clients
    /\ oneshot' = [oneshot EXCEPT ![seat[c].id] = "received"]
    /\ active' = active \union {seat[c].id}
    /\ task' = [task EXCEPT ![c] = "playing"]
    /\ UNCHANGED <<waiting, nextGameId, seat, watch, unseen, connected, historyVars>>

\* Legacy: the sender was dropped, or nobody came within WAIT_FOR_JOINER.
HandoffFails(c) ==
    /\ task[c] = "hosting"
    /\ ~seat[c].rendezvous
    /\ oneshot[seat[c].id] \in {"listed", "taken", "dropped"}
    /\ task' = [task EXCEPT ![c] = "evicting"]
    /\ UNCHANGED <<lobbyVars, seat, channelVars, connected, historyVars>>

\* update_rx.changed() resolves, on a new snapshot or because every sender is
\* gone (the error is ignored); start_game is borrowed, the snapshot is
\* forwarded, or the send fails.
HostUpdate(c) ==
    /\ task[c] = "hosting"
    /\ c \in unseen \/ ~SenderAlive(seat[c].id)
    /\ unseen' = unseen \ {c}
    /\ \/ c \notin connected /\ task' = [task EXCEPT ![c] = "evicting"]
       \/ /\ seat[c].rendezvous /\ watch[seat[c].id].start
          /\ task' = [task EXCEPT ![c] = "hostGoes"]
       \/ /\ ~(seat[c].rendezvous /\ watch[seat[c].id].start)
          /\ UNCHANGED task
    /\ UNCHANGED <<lobbyVars, seat, oneshot, watch, connected, historyVars>>

\* WaitingRoomReady, sent without another look at the room; a failure is ignored.
HostGoes(c) ==
    /\ task[c] = "hostGoes"
    /\ task' = [task EXCEPT ![c] = "evicting"]
    /\ go' = go \union ({c} \intersect connected)
    /\ UNCHANGED <<lobbyVars, seat, channelVars, connected, announced>>

\* Changed form of HostLeaves: the task returns without evicting its game.
HostLeavesAtOnce(c) ==
    /\ task[c] = "hosting"
    /\ HostEnds(c)
    /\ UNCHANGED <<lobbyVars, seat, channelVars, historyVars>>

\* The host's socket fails, or the host sends Disconnect.
HostLeaves(c) ==
    /\ task[c] = "hosting"
    /\ task' = [task EXCEPT ![c] = "evicting"]
    /\ UNCHANGED <<lobbyVars, seat, channelVars, connected, historyVars>>

\* SetDeck with a legal deck: the entry of that NAME gets it, not ready.
HostSetDeck(c) ==
    /\ task[c] = "hosting"
    /\ c \in connected
    /\ \E s \in Named(seat[c].key) :
         /\ waiting' = (waiting \ {s}) \union {[s EXCEPT !.hostReady = FALSE]}
         /\ Publish(s.id, FALSE, s.guest)
    /\ UNCHANGED <<active, nextGameId, task, seat, oneshot, connected, announced, go>>

BothReady(s) == s.hostReady /\ s.guest # NoClient /\ s.guestReady

\* Changed form of HostSetReady: cancelling is not published.
HostSetReadyQuietly(c, ready) ==
    /\ task[c] = "hosting"
    /\ c \in connected
    /\ \E s \in Named(seat[c].key) :
         LET t == [s EXCEPT !.hostReady = ready]
             both == seat[c].rendezvous /\ BothReady(t)
         IN  /\ waiting' = (waiting \ {s}) \union {t}
             /\ IF ready THEN Publish(s.id, both, s.guest)
                         ELSE UNCHANGED <<watch, unseen>>
             /\ task' = [task EXCEPT ![c] = IF both THEN "hostGoes" ELSE @]
    /\ UNCHANGED <<active, nextGameId, seat, oneshot, connected, historyVars>>

\* SetReady: the flag and the snapshot; on both ready the signal comes next.
HostSetReady(c, ready) ==
    /\ task[c] = "hosting"
    /\ c \in connected
    /\ \E s \in Named(seat[c].key) :
         LET t == [s EXCEPT !.hostReady = ready]
             both == seat[c].rendezvous /\ BothReady(t)
         IN  /\ waiting' = (waiting \ {s}) \union {t}
             /\ Publish(s.id, both, s.guest)
             /\ task' = [task EXCEPT ![c] = IF both THEN "hostGoes" ELSE @]
    /\ UNCHANGED <<active, nextGameId, seat, oneshot, connected, historyVars>>

\* Every path out of the loop but the hand-off removes the entry by name and
\* returns.
Evict(c) ==
    /\ task[c] = "evicting"
    /\ RemoveNamed(seat[c].key)
    /\ HostEnds(c)
    /\ UNCHANGED <<active, nextGameId, seat, watch, unseen, historyVars>>

PlayersEnd(c) ==
    LET lost == {c} \union
                {d \in Clients : task[d] = "passed" /\ seat[d].id = seat[c].id}
    IN  /\ task' = [d \in Clients |-> IF d \in lost THEN "gone" ELSE task[d]]
        /\ connected' = connected \ lost

\* run_game returns, fails or is cut off by DEFAULT_GAME_TIMEOUT; the game
\* leaves active_games and both sockets are dropped.
EndGame(c) ==
    /\ task[c] = "playing"
    /\ active' = active \ {seat[c].id}
    /\ PlayersEnd(c)
    /\ UNCHANGED <<waiting, nextGameId, seat, channelVars, historyVars>>

-----------------------------------------------------------------------------
(* run_join_flow and run_joiner_waiting_room.                              *)

TakesSeat(c, s, rv) ==
    seat' = [seat EXCEPT ![c] = [key |-> s.key, id |-> s.id,
                                 rendezvous |-> rv]]

\* Rendezvous: the joiner slice is overwritten, whoever held it, and the
\* joiner subscribes; the listing stays.
JoinRoom(c, k, rv) ==
    /\ MayJoin(c, k, rv)
    /\ \E s \in Named(k) :
         /\ s.rendezvous \/ rv
         /\ waiting' = (waiting \ {s}) \union
                         {[s EXCEPT !.guest = c, !.guestReady = FALSE]}
         /\ Publish(s.id, FALSE, c)
         /\ TakesSeat(c, s, TRUE)
    /\ task' = [task EXCEPT ![c] = "seated"]
    /\ UNCHANGED <<active, nextGameId, oneshot, connected, historyVars>>

\* Changed form of JoinLegacy: the listing is left for the next joiner.
JoinLegacyKeepingSlot(c, k, rv) ==
    /\ MayJoin(c, k, rv)
    /\ \E s \in Named(k) :
         /\ ~s.rendezvous /\ ~rv
         /\ oneshot' = [oneshot EXCEPT ![s.id] = "taken"]
         /\ Publish(s.id, FALSE, c)
         /\ TakesSeat(c, s, FALSE)
    /\ task' = [task EXCEPT ![c] = "handing"]
    /\ UNCHANGED <<waiting, active, nextGameId, connected, historyVars>>

\* Legacy: the joiner takes the hand-off sender and the listing with it.
JoinLegacy(c, k, rv) ==
    /\ MayJoin(c, k, rv)
    /\ \E s \in Named(k) :
         /\ ~s.rendezvous /\ ~rv
         /\ waiting' = waiting \ {s}
         /\ oneshot' = [oneshot EXCEPT ![s.id] = "taken"]
         /\ Publish(s.id, FALSE, c)
         /\ TakesSeat(c, s, FALSE)
    /\ task' = [task EXCEPT ![c] = "handing"]
    /\ UNCHANGED <<active, nextGameId, connected, historyVars>>

HostWaits(g) ==
    \E h \in Clients : task[h] \in {"announcing", "hosting", "hostGoes", "evicting"} /\ seat[h].id = g

\* AuthResult went out; the socket goes to the host's task if it is there.
HandOver(c) ==
    /\ task[c] = "handing"
    /\ IF HostWaits(seat[c].id)
       THEN /\ oneshot' = [oneshot EXCEPT ![seat[c].id] = c]
            /\ task' = [task EXCEPT ![c] = "passed"]
            /\ UNCHANGED connected
       ELSE Ends(c) /\ UNCHANGED oneshot
    /\ UNCHANGED <<lobbyVars, seat, watch, unseen, historyVars>>

\* AuthResult could not be sent: the hand-off sender is dropped unused.
HandOverFails(c) ==
    /\ task[c] = "handing"
    /\ c \notin connected
    /\ oneshot' = [oneshot EXCEPT ![seat[c].id] = "dropped"]
    /\ Ends(c)
    /\ UNCHANGED <<lobbyVars, seat, watch, unseen, historyVars>>

EnterRoom(c) ==
    /\ task[c] = "seated"
    /\ task' = [task EXCEPT ![c] = "inRoom"]
    /\ UNCHANGED <<lobbyVars, seat, channelVars, connected, historyVars>>

\* The reply to the join fails and `?` returns; the joiner slice stays.
EnterRoomFails(c) ==
    /\ task[c] = "seated"
    /\ c \notin connected
    /\ Ends(c)
    /\ UNCHANGED <<lobbyVars, seat, channelVars, historyVars>>

\* update_rx.changed() never reports a closed channel here: the joiner's task
\* holds a sender of its own until the room returns.
GuestUpdate(c) ==
    /\ task[c] = "inRoom"
    /\ c \in unseen
    /\ unseen' = unseen \ {c}
    /\ \/ c \notin connected /\ task' = [task EXCEPT ![c] = "freeing"]
       \/ watch[seat[c].id].start /\ task' = [task EXCEPT ![c] = "guestGoes"]
       \/ ~watch[seat[c].id].start /\ UNCHANGED task
    /\ UNCHANGED <<lobbyVars, seat, oneshot, watch, connected, historyVars>>

\* The joiner's WaitingRoomReady, sent in the same way.
GuestGoes(c) ==
    /\ task[c] = "guestGoes"
    /\ task' = [task EXCEPT ![c] = "freeing"]
    /\ go' = go \union ({c} \intersect connected)
    /\ UNCHANGED <<lobbyVars, seat, channelVars, connected, announced>>

ClearGuest(s) == [s EXCEPT !.guest = NoClient, !.guestReady = FALSE]

ClearNamed(k) == {IF s.key = k THEN ClearGuest(s) ELSE s : s \in waiting}

\* The socket fails: the joiner slice is cleared and the room told.
GuestDrops(c) ==
    /\ task[c] = "inRoom"
    /\ c \notin connected
    /\ waiting' = ClearNamed(seat[c].key)
    /\ IF Named(seat[c].key) = {} THEN UNCHANGED <<watch, unseen>>
       ELSE \E s \in Named(seat[c].key) : Publish(s.id, FALSE, NoClient)
    /\ Ends(c)
    /\ UNCHANGED <<active, nextGameId, seat, oneshot, historyVars>>

\* The Disconnect message: the slice is cleared, nobody is told.
GuestDisconnects(c) ==
    /\ task[c] = "inRoom"
    /\ c \in connected
    /\ waiting' = ClearNamed(seat[c].key)
    /\ Ends(c)
    /\ UNCHANGED <<active, nextGameId, seat, channelVars, historyVars>>

GuestSetDeck(c) ==
    /\ task[c] = "inRoom"
    /\ c \in connected
    /\ \E s \in Named(seat[c].key) :
         /\ waiting' = (waiting \ {s}) \union {[s EXCEPT !.guestReady = FALSE]}
         /\ Publish(s.id, FALSE, s.guest)
    /\ UNCHANGED <<active, nextGameId, task, seat, oneshot, connected, historyVars>>

\* Ready without a joiner slice on record is refused.
GuestSetReady(c, ready) ==
    /\ task[c] = "inRoom"
    /\ c \in connected
    /\ \E s \in Named(seat[c].key) :
         LET t == [s EXCEPT !.guestReady = ready]
         IN  /\ ready => s.guest # NoClient
             /\ waiting' = (waiting \ {s}) \union {t}
             /\ Publish(s.id, BothReady(t), s.guest)
             /\ task' = [task EXCEPT ![c] = IF BothReady(t) THEN "guestGoes" ELSE @]
    /\ UNCHANGED <<active, nextGameId, seat, oneshot, connected, historyVars>>

\* Changed form of FreeSlot: the joiner leaves the listing to the host.
FreeNothing(c) ==
    /\ task[c] = "freeing"
    /\ Ends(c)
    /\ UNCHANGED <<lobbyVars, seat, channelVars, historyVars>>

\* The joiner's side of freeing the listing, by name, and the return.
FreeSlot(c) ==
    /\ task[c] = "freeing"
    /\ RemoveNamed(seat[c].key)
    /\ Ends(c)
    /\ UNCHANGED <<active, nextGameId, seat, watch, unseen, historyVars>>

-----------------------------------------------------------------------------
\* What a client does: which message it sends, and when it closes.
ClientStep(c) ==
    \/ AuthenticateLooks(c)
    \/ ClientCloses(c)
    \/ \E k \in Keys, rv \in BOOLEAN :
         \/ CreateSlot(c, k, rv)
         \/ CreateRefused(c, k, rv)
         \/ JoinRoom(c, k, rv)
         \/ JoinLegacy(c, k, rv)
    \/ HostSetDeck(c)
    \/ GuestSetDeck(c)
    \/ \E ready \in BOOLEAN : HostSetReady(c, ready) \/ GuestSetReady(c, ready)
    \/ GuestDisconnects(c)

\* What the server's task does on its own.
HostTaskStep(c) ==
    \/ Announce(c)
    \/ AnnounceFails(c)
    \/ ReceiveJoiner(c)
    \/ HostUpdate(c)
    \/ HostGoes(c)
    \/ Evict(c)

GuestTaskStep(c) ==
    \/ HandOver(c)
    \/ HandOverFails(c)
    \/ EnterRoom(c)
    \/ EnterRoomFails(c)
    \/ GuestUpdate(c)
    \/ GuestGoes(c)
    \/ GuestDrops(c)
    \/ FreeSlot(c)

Next ==
    \E c \in Clients :
        \/ ClientStep(c)
        \/ HostTaskStep(c)
        \/ GuestTaskStep(c)
        \/ LeaveLobby(c)
        \/ HandoffFails(c)
        \/ HostLeaves(c)
        \/ EndGame(c)

Spec == Init /\ [][Next]_vars

\* Tasks that can run do run.  No client has to send, close or stay, no timer
\* has to fire and no game has to end.
FairSpec ==
    /\ Spec
    /\ \A c \in Clients : WF_vars(HostTaskStep(c)) /\ WF_vars(GuestTaskStep(c))

-----------------------------------------------------------------------------
(***************************************************************************)
(* Properties                                                              *)
(***************************************************************************)

\* Every variable has its type (lobby.rs LobbyState and PendingGame, the
\* locals of the tasks in server.rs).
TypeOK ==
    /\ waiting \subseteq Slots
    /\ active \subseteq Ids
    /\ nextGameId \in 1..MaxGames + 1
    /\ task \in [Clients -> TaskPoints]
    /\ seat \in [Clients -> Seats]
    /\ \A c \in Clients :
         seat[c].id = 0 => task[c] \in {"lobby", "authCreate", "authJoin", "gone"}
    /\ oneshot \in [Ids -> OneshotStates]
    /\ watch \in [Ids -> Snapshots]
    /\ unseen \subseteq Clients
    /\ connected \subseteq {c \in Clients : task[c] # "gone"}
    /\ announced \subseteq Clients
    /\ go \subseteq Clients

\* A name is listed at most once, a game id belongs to one listing, ids are
\* never handed out twice, and a listed game can still be joined (server.rs
\* run_create_flow, run_join_flow: one critical section each).
ListingsDistinct ==
    /\ \A s, t \in waiting : s.key = t.key \/ s.id = t.id => s = t
    /\ \A s \in waiting : s.id < nextGameId /\ oneshot[s.id] = "listed"

\* A game is never listed and running at once: the joiner takes the listing
\* away before the host can start ("Joiner's task already removed us from
\* waiting_games", server.rs run_create_flow).
NeverListedAndActive == \A s \in waiting : s.id \notin active

\* A running game has one host and one joiner, and no connection whose socket
\* was handed over belongs to two games (server.rs run_join_flow hand-off).
GamesHaveTwoPlayers ==
    /\ \A g \in active :
         /\ Cardinality({h \in Clients : task[h] = "playing" /\ seat[h].id = g}) = 1
         /\ Cardinality({j \in Clients : task[j] = "passed" /\ seat[j].id = g}) = 1
    /\ \A h \in Clients : task[h] = "playing" => seat[h].id \in active

\* A host that got as far as its waiting loop never leaves its listing behind,
\* whichever way it leaves the loop (server.rs run_create_flow).
AnnouncedHostKeepsNoGhost ==
    \A s \in waiting :
        s.host \in announced =>
            /\ task[s.host] \in {"hosting", "hostGoes", "evicting"}
            /\ seat[s.host].id = s.id

\* A published "go" is withdrawn as soon as a player cancels or changes deck:
\* the snapshot of a listed room only says start while both flags are up, or
\* the joiner has since disconnected (server.rs SetReady and SetDeck arms).
GoIsWithdrawn ==
    \A s \in waiting :
        watch[s.id].start =>
            s.hostReady /\ (s.guestReady \/ s.guest = NoClient)

\* A task that is about to send WaitingRoomReady.
Going(c) == task[c] \in {"hostGoes", "guestGoes"}

\* A task only makes up its mind to send WaitingRoomReady on a snapshot of its
\* own room in which both were ready, unless the room's name now belongs to
\* another game; and without having done so it sends none (server.rs: both arms
\* that send it, host and joiner side).
GoOnlyWhenBothReady ==
    [][\A c \in Clients :
        /\ Going(c)' /\ ~Going(c) =>
              \/ watch'[seat[c].id].start
              \/ \E s \in Named(seat[c].key) : s.id # seat[c].id
        /\ c \in go' \ go => Going(c)]_vars

\* A joiner whose socket went into the hand-off channel gets a game or loses
\* the connection; it is never left in the channel (server.rs run_join_flow).
HandedOverIsServed ==
    \A j \in Clients :
        task[j] = "passed" ~> (task[j] = "gone" \/ seat[j].id \in active)

\* A hand-over makes one game of two players: every joiner handed over is served,
\* and no game runs short of one or shares one (server.rs run_join_flow).
HandOverMakesAGame == []GamesHaveTwoPlayers /\ HandedOverIsServed

\* Once a client has been told to proceed, its game's listing is freed
\* (server.rs: remove after WaitingRoomReady on either side).
GoFreesListing ==
    \A c \in Clients :
        c \in go ~> \A s \in waiting : s.id # seat[c].id

\* Being told to proceed means that both were ready, and that the name is on its
\* way to be free again (server.rs: WaitingRoomReady and the removal after it).
GoStartsTheGame == GoOnlyWhenBothReady /\ GoFreesListing

-----------------------------------------------------------------------------
(***************************************************************************)
(* What comments and documentation say, and the code does not keep.        *)
(***************************************************************************)

\* "The joiner's task frees the slot from waiting_games; be defensive and
\* remove here too (idempotent)" (server.rs run_create_flow): a client that was
\* told to proceed frees its own game's listing and no other.
RemovalIsIdempotent ==
    [][\A c \in go :
        task[c] = "evicting" /\ task'[c] = "gone" =>
            \A s \in waiting : s.id # seat[c].id => s \in waiting']_vars

\* "When the server observes BOTH players ready it sends `WaitingRoomReady` to
\* both launcher sockets" (protocol.rs ServerMessage::WaitingRoomReady): once one
\* player of a room both of them entered as a rendezvous has been told to proceed,
\* the other is told or is gone.
BothAreTold ==
    \A c, d \in Clients :
        (/\ c \in go /\ seat[c].rendezvous
         /\ seat[d].id = seat[c].id /\ seat[d].rendezvous)
            ~> d \in go \/ d \notin connected

\* "Creator's task dropped the channel -- the game is gone" (server.rs
\* run_joiner_waiting_room): a joiner whose host has left leaves the room.
GuestLearnsHostLeft ==
    \A j, h \in Clients :
        (/\ task[j] = "inRoom" /\ task[h] = "gone" /\ h \in announced
         /\ seat[h].id = seat[j].id /\ j # h)
            ~> task[j] # "inRoom"
=============================================================================
