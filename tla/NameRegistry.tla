---------------------------- MODULE NameRegistry ----------------------------
(***************************************************************************)
(* Player-name reservations of the lobby server: LobbyState's              *)
(* registered_names (network/lobby.rs) and the life of the connection task *)
(* that owns a reservation (network/server.rs, handle_lobby_connection and *)
(* run_lobby_dispatch).  What a connection does after it commits to a game *)
(* is in WaitingRooms.tla; here a committed connection only ends, closing  *)
(* its socket or having given it to the game of the player who hosts it.   *)
(***************************************************************************)
EXTENDS Naturals, FiniteSets

CONSTANTS Connections,  \* accepted TCP connections (connection_id)
          Names,        \* display names clients submit
          Keys,         \* lower-cased forms, the keys of registered_names
          Lower,        \* str::to_lowercase, display name -> key
          WellFormed,   \* names that pass the format checks
          NoConn,       \* "no connection"
          NoName        \* "no name"

ASSUME RegistryAssumption ==
    /\ Lower \in [Names -> Keys]
    /\ WellFormed \subseteq Names
    /\ NoConn \notin Connections
    /\ NoName \notin Names

VARIABLES holder,         \* registered_names: key -> owning connection
          registeredName, \* the task's local registered_name
          task,           \* where the connection's task is
          socket          \* who holds the WebSocket: task, game, or nobody

vars == <<holder, registeredName, task, socket>>

TaskPoints == {"new", "dispatching", "committed", "leaving", "ended"}

Init ==
    /\ holder = [k \in Keys |-> NoConn]
    /\ registeredName = [c \in Connections |-> NoName]
    /\ task = [c \in Connections |-> "new"]
    /\ socket = [c \in Connections |-> "closed"]

\* handle_lobby_connection: the handshake is done and the id assigned.
Accept(c) ==
    /\ task[c] = "new"
    /\ task' = [task EXCEPT ![c] = "dispatching"]
    /\ socket' = [socket EXCEPT ![c] = "task"]
    /\ UNCHANGED <<holder, registeredName>>

\* Changed form of NameTaken: only the submitted spelling is compared.
NameTakenBySpelling(n) ==
    \E c \in Connections : holder[Lower[n]] = c /\ registeredName[c] = n

\* try_register_name refuses a taken name whoever holds it, the caller too.
NameTaken(n) == holder[Lower[n]] # NoConn

\* Register: the reservation under the lobby lock and the local remembered.
\* A second Register overwrites the local and keeps the first reservation.
Register(c, n) ==
    /\ task[c] = "dispatching"
    /\ n \in WellFormed
    /\ ~NameTaken(n)
    /\ holder' = [holder EXCEPT ![Lower[n]] = c]
    /\ registeredName' = [registeredName EXCEPT ![c] = n]
    /\ UNCHANGED <<task, socket>>

\* CreateGame, JoinGame, Authenticate: no lobby message is read after these.
Commit(c) ==
    /\ task[c] = "dispatching"
    /\ task' = [task EXCEPT ![c] = "committed"]
    /\ UNCHANGED <<holder, registeredName, socket>>

\* Legacy join: the WebSocket travels through the hand-off channel to the
\* creator's task and the joiner's own task returns.
HandOver(c) ==
    /\ task[c] = "committed"
    /\ socket[c] = "task"
    /\ socket' = [socket EXCEPT ![c] = "game"]
    /\ task' = [task EXCEPT ![c] = "leaving"]
    /\ UNCHANGED <<holder, registeredName>>

\* Every other return of run_lobby_dispatch: a refused password, an
\* unexpected message, an I/O error, the end of the hosted game.
Return(c) ==
    /\ task[c] \in {"dispatching", "committed"}
    /\ task' = [task EXCEPT ![c] = "leaving"]
    /\ socket' = [socket EXCEPT ![c] = "closed"]
    /\ UNCHANGED <<holder, registeredName>>

\* The peer closes, or the game that holds the socket ends.
Disconnect(c) ==
    /\ socket[c] # "closed"
    /\ socket' = [socket EXCEPT ![c] = "closed"]
    /\ UNCHANGED <<holder, registeredName, task>>

\* Changed form of release_name: the ownership test is turned around.
ReleaseForeign(c) ==
    IF registeredName[c] # NoName /\ holder[Lower[registeredName[c]]] # c
    THEN [holder EXCEPT ![Lower[registeredName[c]]] = NoConn]
    ELSE holder

\* release_name: the name the local remembers, if this connection holds it.
Release(c) ==
    IF registeredName[c] # NoName /\ holder[Lower[registeredName[c]]] = c
    THEN [holder EXCEPT ![Lower[registeredName[c]]] = NoConn]
    ELSE holder

\* Changed form of Cleanup: the task is dropped with the reservation.
CleanupForgetsTask(c) ==
    /\ task[c] = "leaving"
    /\ task' = [task EXCEPT ![c] = "new"]
    /\ holder' = Release(c)
    /\ UNCHANGED <<registeredName, socket>>

\* The cleanup that follows run_lobby_dispatch on every path.
Cleanup(c) ==
    /\ task[c] = "leaving"
    /\ task' = [task EXCEPT ![c] = "ended"]
    /\ holder' = Release(c)
    /\ UNCHANGED <<registeredName, socket>>

Next ==
    \E c \in Connections :
        \/ Accept(c)
        \/ \E n \in Names : Register(c, n)
        \/ Commit(c)
        \/ HandOver(c)
        \/ Return(c)
        \/ Disconnect(c)
        \/ Cleanup(c)

Spec == Init /\ [][Next]_vars

\* The task that left the dispatch loop is still run by the executor.
FairSpec == Spec /\ \A c \in Connections : WF_vars(Cleanup(c))

-----------------------------------------------------------------------------
(***************************************************************************)
(* Properties                                                              *)
(***************************************************************************)

\* Every variable has its type (lobby.rs LobbyState, server.rs locals).
TypeOK ==
    /\ holder \in [Keys -> Connections \union {NoConn}]
    /\ registeredName \in [Connections -> Names \union {NoName}]
    /\ task \in [Connections -> TaskPoints]
    /\ socket \in [Connections -> {"task", "game", "closed"}]
    /\ \A c \in Connections : task[c] = "new" => registeredName[c] = NoName

\* The name a connection plays under is reserved for it as long as its task
\* has not cleaned up: no other connection's register or cleanup, in whatever
\* case it spells the name, takes it away (lobby.rs try_register_name and
\* release_name).
CurrentNameHeld ==
    \A c \in Connections :
        registeredName[c] # NoName /\ task[c] # "ended" =>
            holder[Lower[registeredName[c]]] = c

\* A reservation ends only in its owner's cleanup and never passes directly
\* from one connection to another (lobby.rs release_name).
OnlyOwnerReleases ==
    [][\A k \in Keys :
        holder[k] # NoConn /\ holder'[k] # holder[k] =>
            /\ holder'[k] = NoConn
            /\ task[holder[k]] = "leaving"
            /\ task'[holder[k]] = "ended"]_vars

\* The name a finished connection was using becomes available again
\* (server.rs handle_lobby_connection, the release after the dispatch).
LastNameComesBack ==
    \A c \in Connections, n \in Names :
        (task[c] = "leaving" /\ registeredName[c] = n) ~> holder[Lower[n]] # c
=============================================================================
