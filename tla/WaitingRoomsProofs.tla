------------------------- MODULE WaitingRoomsProofs -------------------------
(***************************************************************************)
(* Proofs about WaitingRooms.tla for any set of clients, names and ids:    *)
(* types, distinct listings, no game both listed and running, no ghost of a*)
(* host that reached its waiting loop; then the start signals of a room,   *)
(* and the pairs of host and joiner that a hand-over makes.                *)
(***************************************************************************)
EXTENDS WaitingRooms, FiniteSetTheorems, TLAPS

\* An id that was not handed out has an untouched hand-off channel.
FreshIdsUntouched ==
    \A g \in Ids : g >= nextGameId => oneshot[g] = "listed"

\* A joiner on its way to the channel, and a running game, took the sender.
SendersTaken ==
    /\ \A c \in Clients : task[c] = "handing" => oneshot[seat[c].id] # "listed"
    /\ \A g \in active : oneshot[g] # "listed"

\* A listing's host still has the seat it created, and has not gone on to
\* play; if its first messages went out it has not ended either.
HostsSeated ==
    \A s \in waiting :
        /\ seat[s.host].id = s.id
        /\ seat[s.host].key = s.key
        /\ task[s.host] \in {"announcing", "hosting", "hostGoes", "evicting", "gone"}
        /\ s.host \in announced => task[s.host] # "gone"

\* A host was announced when it reached its loop, and not before.
AnnouncedReachedLoop ==
    \A c \in announced :
        task[c] \notin {"lobby", "authCreate", "authJoin", "announcing"}

\* A client in a hand-off channel is a joiner, or has ended.
ChannelHoldsJoiners ==
    \A g \in Ids : oneshot[g] \in Clients => task[oneshot[g]] \in {"passed", "gone"}

ListingInv ==
    /\ ListingsDistinct
    /\ FreshIdsUntouched
    /\ SendersTaken

HostInv ==
    /\ HostsSeated
    /\ AnnouncedReachedLoop
    /\ ChannelHoldsJoiners

\* Inductive: the listing's part does not need the host's, which needs both.
RoomsInv == TypeOK /\ ListingInv /\ HostInv

-----------------------------------------------------------------------------
\* Listing one more entry, or another one in the place of one.
LEMMA ListedSlots ==
    ASSUME TypeOK, NEW s, NEW t \in Slots
    PROVE  waiting \union {t} \subseteq Slots /\ (waiting \ {s}) \union {t} \subseteq Slots
BY DEF TypeOK

\* An entry stays an entry whatever a player changes in it.
LEMMA ChangedSlots ==
    ASSUME NEW s \in Slots, NEW b \in BOOLEAN, NEW j \in Clients \union {NoClient}
    PROVE  /\ [s EXCEPT !.hostReady = b] \in Slots
           /\ [s EXCEPT !.guestReady = b] \in Slots
           /\ [s EXCEPT !.guest = j, !.guestReady = b] \in Slots
BY DEF Slots

\* A published snapshot is a snapshot, and only clients have it to read.
LEMMA PublishedSnapshots ==
    ASSUME TypeOK, NEW g \in Ids, NEW start \in BOOLEAN,
           NEW j \in Clients \union {NoClient}, Publish(g, start, j)
    PROVE  /\ watch' \in [Ids -> Snapshots]
           /\ unseen' \subseteq Clients
BY DEF TypeOK, Publish, Snapshots, Subscribed

\* Clearing the joiner slice of a name keeps the listing well-typed.
LEMMA ClearedSlots ==
    ASSUME TypeOK, NEW k PROVE ClearNamed(k) \subseteq Slots
<1> SUFFICES ASSUME NEW s \in waiting PROVE ClearGuest(s) \in Slots
  BY DEF ClearNamed, TypeOK
<1> QED BY ChangedSlots DEF ClearGuest, TypeOK

\* Every step keeps the types.
LEMMA TypeStep == TypeOK /\ [Next]_vars => TypeOK'
<1> SUFFICES ASSUME TypeOK, [Next]_vars PROVE TypeOK'
  OBVIOUS
<1> USE RoomsAssumption
    DEF TypeOK, Ids, Seats, HandoffMarks, OneshotStates,
        TaskPoints, lobbyVars, channelVars, historyVars
<1>1. ASSUME NEW c \in Clients, AuthenticateLooks(c) PROVE TypeOK'
  BY <1>1 DEF AuthenticateLooks
<1>2. ASSUME NEW c \in Clients, ClientCloses(c) PROVE TypeOK'
  BY <1>2 DEF ClientCloses
<1>3. ASSUME NEW c \in Clients, NEW k \in Keys, NEW rv \in BOOLEAN,
             CreateSlot(c, k, rv)
      PROVE  TypeOK'
  <2>1. nextGameId \in Ids /\ nextGameId + 1 \in 1..MaxGames + 1
    BY <1>3 DEF CreateSlot
  <2>2. waiting' \subseteq Slots
    <3>1. [key |-> k, id |-> nextGameId, host |-> c, rendezvous |-> rv,
           hostReady |-> FALSE, guest |-> NoClient, guestReady |-> FALSE] \in Slots
      BY <2>1 DEF Slots
    <3> QED BY <1>3, <3>1, ListedSlots DEF CreateSlot
  <2>3. seat' \in [Clients -> Seats]
    BY <1>3, <2>1 DEF CreateSlot
  <2>4. task' \in [Clients -> TaskPoints] /\ connected' \subseteq {d \in Clients : task'[d] # "gone"}
    BY <1>3 DEF CreateSlot
  <2> QED BY <1>3, <2>1, <2>2, <2>3, <2>4 DEF CreateSlot
<1>4. ASSUME NEW c \in Clients, NEW k \in Keys, NEW rv \in BOOLEAN,
             CreateRefused(c, k, rv)
      PROVE  TypeOK'
  BY <1>4 DEF CreateRefused, Ends
<1>5. ASSUME NEW c \in Clients, NEW k \in Keys, NEW rv \in BOOLEAN,
             JoinRoom(c, k, rv)
      PROVE  TypeOK'
  <2>1. PICK s \in Named(k) :
          /\ waiting' = (waiting \ {s}) \union
                          {[s EXCEPT !.guest = c, !.guestReady = FALSE]}
          /\ Publish(s.id, FALSE, c)
          /\ TakesSeat(c, s, TRUE)
    BY <1>5 DEF JoinRoom
  <2>2. s \in Slots /\ s.id \in Ids /\ s.guest \in Clients \union {NoClient}
    BY DEF Named, Slots
  <2>3. waiting' \subseteq Slots
    BY <2>1, <2>2, ChangedSlots, ListedSlots
  <2>4. watch' \in [Ids -> Snapshots] /\ unseen' \subseteq Clients
    BY <2>1, <2>2, PublishedSnapshots
  <2>5. seat' \in [Clients -> Seats]
    BY <2>1, <2>2 DEF TakesSeat, Slots
  <2>6. \A d \in Clients :
          seat'[d].id = 0 => task'[d] \in {"lobby", "authCreate", "authJoin", "gone"}
    BY <1>5, <2>1, <2>2 DEF JoinRoom, TakesSeat
  <2> QED BY <1>5, <2>3, <2>4, <2>5, <2>6 DEF JoinRoom
<1>6. ASSUME NEW c \in Clients, NEW k \in Keys, NEW rv \in BOOLEAN,
             JoinLegacy(c, k, rv)
      PROVE  TypeOK'
  <2>1. PICK s \in Named(k) :
          /\ waiting' = waiting \ {s}
          /\ oneshot' = [oneshot EXCEPT ![s.id] = "taken"]
          /\ Publish(s.id, FALSE, c)
          /\ TakesSeat(c, s, FALSE)
    BY <1>6 DEF JoinLegacy
  <2>2. s \in Slots /\ s.id \in Ids /\ s.key \in Keys
    BY DEF Named, Slots
  <2>3. watch' \in [Ids -> Snapshots] /\ unseen' \subseteq Clients
    BY <2>1, <2>2, PublishedSnapshots
  <2>4. seat' \in [Clients -> Seats] /\ oneshot' \in [Ids -> OneshotStates]
    BY <2>1, <2>2 DEF TakesSeat
  <2>5. \A d \in Clients :
          seat'[d].id = 0 => task'[d] \in {"lobby", "authCreate", "authJoin", "gone"}
    BY <1>6, <2>1, <2>2 DEF JoinLegacy, TakesSeat
  <2> QED BY <1>6, <2>1, <2>3, <2>4, <2>5 DEF JoinLegacy
<1>7. ASSUME NEW c \in Clients, HostSetDeck(c) PROVE TypeOK'
  <2>1. PICK s \in Named(seat[c].key) :
          /\ waiting' = (waiting \ {s}) \union {[s EXCEPT !.hostReady = FALSE]}
          /\ Publish(s.id, FALSE, s.guest)
    BY <1>7 DEF HostSetDeck
  <2>2. s \in Slots /\ s.id \in Ids /\ s.guest \in Clients \union {NoClient}
    BY DEF Named, Slots
  <2>3. waiting' \subseteq Slots
    BY <2>1, <2>2, ChangedSlots, ListedSlots
  <2>4. watch' \in [Ids -> Snapshots] /\ unseen' \subseteq Clients
    BY <2>1, <2>2, PublishedSnapshots
  <2> QED BY <1>7, <2>3, <2>4 DEF HostSetDeck
<1>8. ASSUME NEW c \in Clients, GuestSetDeck(c) PROVE TypeOK'
  <2>1. PICK s \in Named(seat[c].key) :
          /\ waiting' = (waiting \ {s}) \union {[s EXCEPT !.guestReady = FALSE]}
          /\ Publish(s.id, FALSE, s.guest)
    BY <1>8 DEF GuestSetDeck
  <2>2. s \in Slots /\ s.id \in Ids /\ s.guest \in Clients \union {NoClient}
    BY DEF Named, Slots
  <2>3. waiting' \subseteq Slots
    BY <2>1, <2>2, ChangedSlots, ListedSlots
  <2>4. watch' \in [Ids -> Snapshots] /\ unseen' \subseteq Clients
    BY <2>1, <2>2, PublishedSnapshots
  <2> QED BY <1>8, <2>3, <2>4 DEF GuestSetDeck
<1>9. ASSUME NEW c \in Clients, NEW ready \in BOOLEAN, HostSetReady(c, ready)
      PROVE  TypeOK'
  <2>1. PICK s \in Named(seat[c].key), both \in BOOLEAN :
          /\ waiting' = (waiting \ {s}) \union {[s EXCEPT !.hostReady = ready]}
          /\ Publish(s.id, both, s.guest)
          /\ task' = [task EXCEPT ![c] = IF both THEN "hostGoes" ELSE @]
    BY <1>9 DEF HostSetReady
  <2>2. s \in Slots /\ s.id \in Ids /\ s.guest \in Clients \union {NoClient}
    BY DEF Named, Slots
  <2>3. waiting' \subseteq Slots
    BY <2>1, <2>2, ChangedSlots, ListedSlots
  <2>4. watch' \in [Ids -> Snapshots] /\ unseen' \subseteq Clients
    BY <2>1, <2>2, PublishedSnapshots
  <2> QED BY <1>9, <2>1, <2>3, <2>4 DEF HostSetReady
<1>10. ASSUME NEW c \in Clients, NEW ready \in BOOLEAN, GuestSetReady(c, ready)
       PROVE  TypeOK'
  <2>1. PICK s \in Named(seat[c].key), both \in BOOLEAN :
          /\ waiting' = (waiting \ {s}) \union {[s EXCEPT !.guestReady = ready]}
          /\ Publish(s.id, both, s.guest)
          /\ task' = [task EXCEPT ![c] = IF both THEN "guestGoes" ELSE @]
    BY <1>10 DEF GuestSetReady, BothReady
  <2>2. s \in Slots /\ s.id \in Ids /\ s.guest \in Clients \union {NoClient}
    BY DEF Named, Slots
  <2>3. waiting' \subseteq Slots
    BY <2>1, <2>2, ChangedSlots, ListedSlots
  <2>4. watch' \in [Ids -> Snapshots] /\ unseen' \subseteq Clients
    BY <2>1, <2>2, PublishedSnapshots
  <2> QED BY <1>10, <2>1, <2>3, <2>4 DEF GuestSetReady
<1>11. ASSUME NEW c \in Clients, GuestDisconnects(c) PROVE TypeOK'
  <2>1. waiting' \subseteq Slots
    BY <1>11, ClearedSlots DEF GuestDisconnects
  <2> QED BY <1>11, <2>1 DEF GuestDisconnects, Ends
<1>12. ASSUME NEW c \in Clients, Announce(c) PROVE TypeOK'
  BY <1>12 DEF Announce
<1>13. ASSUME NEW c \in Clients, AnnounceFails(c) PROVE TypeOK'
  BY <1>13 DEF AnnounceFails, HostEnds
<1>14. ASSUME NEW c \in Clients, ReceiveJoiner(c) PROVE TypeOK'
  <2>1. seat[c].id \in Ids
    BY <1>14 DEF ReceiveJoiner
  <2> QED BY <1>14, <2>1 DEF ReceiveJoiner
<1>15. ASSUME NEW c \in Clients, HostUpdate(c) PROVE TypeOK'
  <2>1. \/ task' = task \/ task' = [task EXCEPT ![c] = "evicting"]
        \/ task' = [task EXCEPT ![c] = "hostGoes"]
    BY <1>15 DEF HostUpdate
  <2>2. unseen' \subseteq Clients
    BY <1>15 DEF HostUpdate
  <2>3. task[c] = "hosting" /\ seat[c].id # 0
    BY <1>15 DEF HostUpdate
  <2>4. \A d \in Clients : task'[d] = "gone" => task[d] = "gone"
    BY <2>1
  <2>5. \A d \in Clients : d # c => task'[d] = task[d]
    BY <2>1
  <2>6. task' \in [Clients -> TaskPoints]
    BY <2>1
  <2>7. UNCHANGED <<lobbyVars, seat, oneshot, watch, connected, historyVars>>
    BY <1>15 DEF HostUpdate
  <2> QED BY <2>2, <2>3, <2>4, <2>5, <2>6, <2>7
<1>16. ASSUME NEW c \in Clients, Evict(c) PROVE TypeOK'
  BY <1>16 DEF Evict, RemoveNamed, HostEnds
<1>17. ASSUME NEW c \in Clients, HandOver(c) PROVE TypeOK'
  <2>1. oneshot' \in [Ids -> OneshotStates]
    BY <1>17 DEF HandOver
  <2>2. /\ task' \in [Clients -> TaskPoints]
        /\ connected' \subseteq {d \in Clients : task'[d] # "gone"}
    BY <1>17 DEF HandOver, Ends
  <2>3. \A d \in Clients :
          seat'[d].id = 0 => task'[d] \in {"lobby", "authCreate", "authJoin", "gone"}
    BY <1>17 DEF HandOver, Ends
  <2> QED BY <1>17, <2>1, <2>2, <2>3 DEF HandOver
<1>18. ASSUME NEW c \in Clients, HandOverFails(c) PROVE TypeOK'
  BY <1>18 DEF HandOverFails, Ends
<1>19. ASSUME NEW c \in Clients, EnterRoom(c) PROVE TypeOK'
  BY <1>19 DEF EnterRoom
<1>20. ASSUME NEW c \in Clients, EnterRoomFails(c) PROVE TypeOK'
  BY <1>20 DEF EnterRoomFails, Ends
<1>21. ASSUME NEW c \in Clients, GuestUpdate(c) PROVE TypeOK'
  <2>1. \/ task' = task \/ task' = [task EXCEPT ![c] = "freeing"]
        \/ task' = [task EXCEPT ![c] = "guestGoes"]
    BY <1>21 DEF GuestUpdate
  <2>2. task[c] = "inRoom" /\ seat[c].id # 0
    BY <1>21 DEF GuestUpdate
  <2> QED BY <1>21, <2>1, <2>2 DEF GuestUpdate
<1>22. ASSUME NEW c \in Clients, GuestDrops(c) PROVE TypeOK'
  <2>1. waiting' \subseteq Slots
    BY <1>22, ClearedSlots DEF GuestDrops
  <2>2. watch' \in [Ids -> Snapshots] /\ unseen' \subseteq Clients
    <3>1. CASE Named(seat[c].key) = {}
      BY <1>22, <3>1 DEF GuestDrops
    <3>2. CASE Named(seat[c].key) # {}
      <4>1. PICK s \in Named(seat[c].key) : Publish(s.id, FALSE, NoClient)
        BY <1>22, <3>2 DEF GuestDrops
      <4>2. s.id \in Ids
        BY DEF Named, Slots
      <4> QED BY <4>1, <4>2, PublishedSnapshots
    <3> QED BY <3>1, <3>2
  <2> QED BY <1>22, <2>1, <2>2 DEF GuestDrops, Ends
<1>23. ASSUME NEW c \in Clients, FreeSlot(c) PROVE TypeOK'
  BY <1>23 DEF FreeSlot, RemoveNamed, Ends
<1>24. ASSUME NEW c \in Clients, LeaveLobby(c) PROVE TypeOK'
  BY <1>24 DEF LeaveLobby, Ends
<1>25. ASSUME NEW c \in Clients, HandoffFails(c) \/ HostLeaves(c) PROVE TypeOK'
  <2>1. /\ task[c] = "hosting" /\ task' = [task EXCEPT ![c] = "evicting"]
        /\ UNCHANGED <<lobbyVars, seat, channelVars, connected, historyVars>>
    BY ONLY <1>25 DEF HandoffFails, HostLeaves
  <2>2. \A d \in Clients : task'[d] = "gone" => task[d] = "gone"
    BY <2>1
  <2>3. \A d \in Clients : seat'[d] = seat[d] /\ (d # c => task'[d] = task[d])
    BY <2>1
  <2>4. seat[c].id # 0
    BY <2>1
  <2>5. task' \in [Clients -> TaskPoints]
    BY <2>1
  <2> QED BY <2>1, <2>2, <2>3, <2>4, <2>5
<1>26. ASSUME NEW c \in Clients, EndGame(c) PROVE TypeOK'
  BY <1>26 DEF EndGame, PlayersEnd
<1>27. CASE UNCHANGED vars
  BY <1>27 DEF vars
<1>31. ASSUME NEW c \in Clients, HostGoes(c) PROVE TypeOK'
  BY <1>31 DEF HostGoes
<1>32. ASSUME NEW c \in Clients, GuestGoes(c) PROVE TypeOK'
  BY <1>32 DEF GuestGoes
<1>28. ASSUME NEW c \in Clients, ClientStep(c) PROVE TypeOK'
  BY ONLY <1>28, <1>1, <1>2, <1>3, <1>4, <1>5, <1>6, <1>7, <1>8, <1>9, <1>10, <1>11
     DEF ClientStep
<1>29. ASSUME NEW c \in Clients, HostTaskStep(c) PROVE TypeOK'
  BY ONLY <1>29, <1>12, <1>13, <1>14, <1>15, <1>16, <1>31 DEF HostTaskStep
<1>30. ASSUME NEW c \in Clients, GuestTaskStep(c) PROVE TypeOK'
  BY ONLY <1>30, <1>17, <1>18, <1>19, <1>20, <1>21, <1>22, <1>23, <1>32
     DEF GuestTaskStep
<1> QED
  BY <1>24, <1>25, <1>26, <1>27, <1>28, <1>29, <1>30 DEF Next

-----------------------------------------------------------------------------
\* Nobody starts a hand-over, and nobody in one changes seat.
NoNewHandOver ==
    \A d \in Clients : task'[d] = "handing" =>
                         task[d] = "handing" /\ seat'[d] = seat[d]

\* Steps that leave the listing and the channels alone; an id may be spent.
LEMMA QuietKeepsListing ==
    ASSUME TypeOK, TypeOK', ListingInv, NoNewHandOver,
           UNCHANGED <<waiting, active, oneshot>>, nextGameId' >= nextGameId
    PROVE  ListingInv'
<1> USE DEF TypeOK, Ids, ListingInv, Slots
<1>1. ListingsDistinct'
  BY RoomsAssumption DEF ListingsDistinct
<1>2. FreshIdsUntouched'
  BY RoomsAssumption DEF FreshIdsUntouched
<1>3. SendersTaken'
  BY DEF SendersTaken, NoNewHandOver
<1> QED BY <1>1, <1>2, <1>3

\* Steps that change an entry but neither its name nor its id.
LEMMA EditKeepsListing ==
    ASSUME TypeOK, TypeOK', ListingInv, NoNewHandOver,
           UNCHANGED <<active, nextGameId, oneshot>>,
           NEW s \in waiting, NEW t, t.key = s.key, t.id = s.id,
           waiting' = (waiting \ {s}) \union {t}
    PROVE  ListingInv'
<1> USE DEF ListingInv
<1>1. ListingsDistinct'
  BY DEF ListingsDistinct
<1>2. FreshIdsUntouched'
  BY DEF FreshIdsUntouched
<1>3. SendersTaken'
  BY DEF SendersTaken, NoNewHandOver
<1> QED BY <1>1, <1>2, <1>3

\* Clearing the joiner slice of a name is such a change, too.
LEMMA ClearKeepsListing ==
    ASSUME TypeOK, TypeOK', ListingInv, NoNewHandOver,
           UNCHANGED <<active, nextGameId, oneshot>>,
           NEW k, waiting' = ClearNamed(k)
    PROVE  ListingInv'
<1> USE DEF ListingInv
<1> DEFINE f(s) == IF s.key = k THEN ClearGuest(s) ELSE s
<1>1. \A s \in waiting : f(s).key = s.key /\ f(s).id = s.id
  BY DEF TypeOK, Slots, ClearGuest
<1>2. waiting' = {f(s) : s \in waiting}
  BY DEF ClearNamed
<1> HIDE DEF f
<1>3. ListingsDistinct'
  BY <1>1, <1>2 DEF ListingsDistinct
<1>4. FreshIdsUntouched'
  BY DEF FreshIdsUntouched
<1>5. SendersTaken'
  BY DEF SendersTaken, NoNewHandOver
<1> QED BY <1>3, <1>4, <1>5

\* Steps that take listings away and use up their senders, and no others'.
LEMMA RemovalKeepsListing ==
    ASSUME TypeOK, TypeOK', ListingInv,
           UNCHANGED <<active, nextGameId>>, waiting' \subseteq waiting,
           \A g \in Ids : oneshot'[g] = oneshot[g] \/
             (/\ \E s \in waiting \ waiting' : s.id = g
              /\ oneshot'[g] # "listed"),
           \A d \in Clients : task'[d] = "handing" =>
             seat'[d].id \in Ids /\ oneshot'[seat'[d].id] # "listed"
    PROVE  ListingInv'
<1> USE DEF TypeOK, ListingInv, Slots
<1>1. ListingsDistinct'
  BY DEF ListingsDistinct
<1>2. FreshIdsUntouched'
  BY RoomsAssumption DEF FreshIdsUntouched, ListingsDistinct, Ids
<1>3. SendersTaken'
  BY DEF SendersTaken
<1> QED BY <1>1, <1>2, <1>3

\* remove(key) is such a step.
LEMMA NamedRemoved ==
    ASSUME TypeOK, ListingInv, NEW k, RemoveNamed(k)
    PROVE  /\ waiting' \subseteq waiting
           /\ \A g \in Ids : oneshot'[g] = oneshot[g] \/
                (/\ \E s \in waiting \ waiting' : s.id = g
                 /\ oneshot'[g] # "listed")
           /\ \A g \in Ids : oneshot[g] # "listed" => oneshot'[g] = oneshot[g]
BY DEF RemoveNamed, Named

\* Every step keeps the listing's invariant.
LEMMA ListingStep == TypeOK /\ TypeOK' /\ ListingInv /\ [Next]_vars => ListingInv'
<1> SUFFICES ASSUME TypeOK, TypeOK', ListingInv, [Next]_vars PROVE ListingInv'
  OBVIOUS
<1> USE RoomsAssumption DEF TypeOK, lobbyVars, channelVars, historyVars
<1>1. ASSUME NEW c \in Clients,
             \/ AuthenticateLooks(c) \/ ClientCloses(c) \/ LeaveLobby(c)
             \/ Announce(c) \/ AnnounceFails(c) \/ HandoffFails(c)
             \/ HostUpdate(c) \/ HostLeaves(c) \/ EnterRoom(c)
             \/ EnterRoomFails(c) \/ GuestUpdate(c) \/ HostGoes(c) \/ GuestGoes(c)
      PROVE  ListingInv'
  <2>1. UNCHANGED lobbyVars /\ UNCHANGED oneshot /\ UNCHANGED seat
    BY <1>1 DEF AuthenticateLooks, ClientCloses, LeaveLobby, Announce,
                AnnounceFails, HandoffFails, HostUpdate, HostLeaves, EnterRoom,
                EnterRoomFails, GuestUpdate, HostGoes, GuestGoes
  <2>2. \A d \in Clients : task'[d] = "handing" => task[d] = "handing"
    BY <1>1 DEF AuthenticateLooks, ClientCloses, LeaveLobby, Announce,
                AnnounceFails, HandoffFails, HostUpdate, HostLeaves, EnterRoom,
                EnterRoomFails, GuestUpdate, HostGoes, GuestGoes, Ends, HostEnds
  <2> QED BY <2>1, <2>2, QuietKeepsListing DEF NoNewHandOver
<1>2. ASSUME NEW c \in Clients, NEW k \in Keys, NEW rv \in BOOLEAN,
             CreateRefused(c, k, rv)
      PROVE  ListingInv'
  BY <1>2, QuietKeepsListing DEF CreateRefused, Ends, NoNewHandOver
<1>3. ASSUME NEW c \in Clients, NEW k \in Keys, NEW rv \in BOOLEAN,
             CreateSlot(c, k, rv)
      PROVE  ListingInv'
  <2> DEFINE t == [key |-> k, id |-> nextGameId, host |-> c, rendezvous |-> rv,
                   hostReady |-> FALSE, guest |-> NoClient, guestReady |-> FALSE]
  <2>1. waiting' = waiting \union {t} /\ t.key = k /\ t.id = nextGameId
    BY <1>3 DEF CreateSlot
  <2>2. nextGameId' = nextGameId + 1 /\ UNCHANGED <<oneshot, active>>
    BY <1>3 DEF CreateSlot
  <2>3. \A s \in waiting : s.key # k
    BY <1>3 DEF CreateSlot, NameFree, Named
  <2>4. nextGameId \in Ids
    BY <1>3 DEF CreateSlot, Ids
  <2>5. oneshot[nextGameId] = "listed"
    BY <2>4 DEF ListingInv, FreshIdsUntouched, Ids
  <2> HIDE DEF t
  <2>6. ListingsDistinct'
    BY <2>1, <2>2, <2>3, <2>4, <2>5
       DEF ListingInv, ListingsDistinct, Slots, Ids
  <2>7. FreshIdsUntouched'
    BY <2>2 DEF ListingInv, FreshIdsUntouched, Ids
  <2>8. SendersTaken'
    BY <1>3, <2>2 DEF ListingInv, SendersTaken, CreateSlot
  <2> QED BY <2>6, <2>7, <2>8 DEF ListingInv
<1>4. ASSUME NEW c \in Clients, NEW k \in Keys, NEW rv \in BOOLEAN,
             JoinRoom(c, k, rv)
      PROVE  ListingInv'
  <2>1. PICK s \in waiting :
          /\ waiting' = (waiting \ {s}) \union
                          {[s EXCEPT !.guest = c, !.guestReady = FALSE]}
          /\ Publish(s.id, FALSE, c)
          /\ TakesSeat(c, s, TRUE)
    BY <1>4 DEF JoinRoom, Named
  <2> DEFINE t == [s EXCEPT !.guest = c, !.guestReady = FALSE]
  <2>2. t.key = s.key /\ t.id = s.id
    BY DEF Slots
  <2>3. NoNewHandOver
    BY <1>4, <2>1 DEF JoinRoom, NoNewHandOver, TakesSeat
  <2>4. UNCHANGED <<active, nextGameId, oneshot>>
    BY <1>4 DEF JoinRoom
  <2>5. waiting' = (waiting \ {s}) \union {t}
    BY <2>1
  <2> HIDE DEF t
  <2> QED BY <2>2, <2>3, <2>4, <2>5, EditKeepsListing
<1>5. ASSUME NEW c \in Clients, NEW k \in Keys, NEW rv \in BOOLEAN,
             JoinLegacy(c, k, rv)
      PROVE  ListingInv'
  <2>1. PICK s \in waiting :
          /\ waiting' = waiting \ {s}
          /\ oneshot' = [oneshot EXCEPT ![s.id] = "taken"]
          /\ TakesSeat(c, s, FALSE)
    BY <1>5 DEF JoinLegacy, Named
  <2>2. s.id \in Ids
    BY DEF Slots
  <2>3. task' = [task EXCEPT ![c] = "handing"] /\ UNCHANGED <<active, nextGameId>>
    BY <1>5 DEF JoinLegacy
  <2>4. ASSUME NEW g \in Ids
        PROVE  oneshot'[g] = oneshot[g] \/ (g = s.id /\ oneshot'[g] = "taken")
    BY <2>1, <2>2
  <2>5. ASSUME NEW d \in Clients, task'[d] = "handing"
        PROVE  seat'[d].id \in Ids /\ oneshot'[seat'[d].id] # "listed"
    <3>1. CASE d = c
      BY <2>1, <2>2, <3>1 DEF TakesSeat, Seats
    <3>2. CASE d # c
      <4>1. seat'[d] = seat[d] /\ task[d] = "handing"
        BY <2>1, <2>3, <2>5, <3>2 DEF TakesSeat
      <4>2. seat[d].id \in Ids
        BY <4>1 DEF Seats
      <4> QED BY <2>4, <4>1, <4>2 DEF ListingInv, SendersTaken
    <3> QED BY <3>1, <3>2
  <2> QED BY <2>1, <2>2, <2>3, <2>4, <2>5, RemovalKeepsListing
<1>6. ASSUME NEW c \in Clients,
             \/ HostSetDeck(c) \/ GuestSetDeck(c)
             \/ \E ready \in BOOLEAN : HostSetReady(c, ready)
                                     \/ GuestSetReady(c, ready)
      PROVE  ListingInv'
  <2>1. PICK s \in waiting, b \in BOOLEAN :
          \/ waiting' = (waiting \ {s}) \union {[s EXCEPT !.hostReady = b]}
          \/ waiting' = (waiting \ {s}) \union {[s EXCEPT !.guestReady = b]}
    <3>1. CASE HostSetDeck(c)
      BY <3>1 DEF HostSetDeck, Named
    <3>2. CASE GuestSetDeck(c)
      BY <3>2 DEF GuestSetDeck, Named
    <3>3. ASSUME NEW ready \in BOOLEAN, HostSetReady(c, ready)
          PROVE  \E s \in waiting :
                   waiting' = (waiting \ {s}) \union {[s EXCEPT !.hostReady = ready]}
      BY <3>3 DEF HostSetReady, Named
    <3>4. ASSUME NEW ready \in BOOLEAN, GuestSetReady(c, ready)
          PROVE  \E s \in waiting :
                   waiting' = (waiting \ {s}) \union {[s EXCEPT !.guestReady = ready]}
      BY <3>4 DEF GuestSetReady, Named
    <3> QED BY <1>6, <3>1, <3>2, <3>3, <3>4
  <2>2. PICK t :
          t.key = s.key /\ t.id = s.id /\ waiting' = (waiting \ {s}) \union {t}
    <3>1. CASE waiting' = (waiting \ {s}) \union {[s EXCEPT !.hostReady = b]}
      <4>1. [s EXCEPT !.hostReady = b].key = s.key /\ [s EXCEPT !.hostReady = b].id = s.id
        BY DEF Slots
      <4> QED BY <3>1, <4>1
    <3>2. CASE waiting' = (waiting \ {s}) \union {[s EXCEPT !.guestReady = b]}
      <4>1. [s EXCEPT !.guestReady = b].key = s.key /\ [s EXCEPT !.guestReady = b].id = s.id
        BY DEF Slots
      <4> QED BY <3>2, <4>1
    <3> QED BY <2>1, <3>1, <3>2
  <2>3. NoNewHandOver /\ UNCHANGED <<active, nextGameId, oneshot>>
    <3>1. CASE HostSetDeck(c)
      BY <3>1 DEF NoNewHandOver, HostSetDeck
    <3>2. CASE GuestSetDeck(c)
      BY <3>2 DEF NoNewHandOver, GuestSetDeck
    <3>3. ASSUME NEW ready \in BOOLEAN, HostSetReady(c, ready)
          PROVE  NoNewHandOver /\ UNCHANGED <<active, nextGameId, oneshot>>
      <4>1. PICK both :
              task' = [task EXCEPT ![c] = IF both THEN "hostGoes" ELSE @]
        BY ONLY <3>3 DEF HostSetReady
      <4>2. UNCHANGED <<active, nextGameId, oneshot, seat>>
        BY <3>3 DEF HostSetReady
      <4> QED BY <4>1, <4>2 DEF NoNewHandOver
    <3>4. ASSUME NEW ready \in BOOLEAN, GuestSetReady(c, ready)
          PROVE  NoNewHandOver /\ UNCHANGED <<active, nextGameId, oneshot>>
      <4>1. PICK both :
              task' = [task EXCEPT ![c] = IF both THEN "guestGoes" ELSE @]
        BY ONLY <3>4 DEF GuestSetReady
      <4>2. UNCHANGED <<active, nextGameId, oneshot, seat>>
        BY <3>4 DEF GuestSetReady
      <4> QED BY <4>1, <4>2 DEF NoNewHandOver
    <3> QED BY <1>6, <3>1, <3>2, <3>3, <3>4
  <2> QED BY <2>2, <2>3, EditKeepsListing
<1>7. ASSUME NEW c \in Clients, GuestDisconnects(c) \/ GuestDrops(c)
      PROVE  ListingInv'
  <2>1. waiting' = ClearNamed(seat[c].key) /\ UNCHANGED <<active, nextGameId, oneshot>>
    BY <1>7 DEF GuestDisconnects, GuestDrops
  <2>2. NoNewHandOver
    BY <1>7 DEF GuestDisconnects, GuestDrops, Ends, NoNewHandOver
  <2> QED BY <2>1, <2>2, ClearKeepsListing
<1>8. ASSUME NEW c \in Clients, Evict(c) \/ FreeSlot(c) PROVE ListingInv'
  <2>1. RemoveNamed(seat[c].key) /\ UNCHANGED <<active, nextGameId, seat>>
    BY <1>8 DEF Evict, FreeSlot
  <2>2. \A d \in Clients : task'[d] = "handing" => task[d] = "handing"
    BY <1>8 DEF Evict, FreeSlot, Ends, HostEnds
  <2>3. \A d \in Clients : task'[d] = "handing" =>
          seat'[d].id \in Ids /\ oneshot'[seat'[d].id] # "listed"
    BY <2>1, <2>2, NamedRemoved DEF ListingInv, SendersTaken, Seats
  <2> QED BY <2>1, <2>3, NamedRemoved, RemovalKeepsListing
<1>9. ASSUME NEW c \in Clients, ReceiveJoiner(c) PROVE ListingInv'
  <2>1. seat[c].id \in Ids /\ oneshot[seat[c].id] \in Clients
    BY <1>9 DEF ReceiveJoiner, Seats
  <2>2. \A g \in Ids : IF g = seat[c].id
                      THEN oneshot[g] # "listed" /\ oneshot'[g] = "received"
                      ELSE oneshot'[g] = oneshot[g]
    BY <1>9, <2>1 DEF ReceiveJoiner, HandoffMarks
  <2>3. /\ UNCHANGED <<waiting, nextGameId, seat>>
        /\ active' = active \union {seat[c].id}
        /\ \A d \in Clients : task'[d] = "handing" => task[d] = "handing"
    BY <1>9 DEF ReceiveJoiner
  <2>4. ListingsDistinct'
    BY <2>2, <2>3 DEF ListingInv, ListingsDistinct, Slots
  <2>5. FreshIdsUntouched'
    BY <2>2, <2>3 DEF ListingInv, FreshIdsUntouched
  <2>6. SendersTaken'
    BY <2>1, <2>2, <2>3 DEF ListingInv, SendersTaken, Seats
  <2> QED BY <2>4, <2>5, <2>6 DEF ListingInv
<1>10. ASSUME NEW c \in Clients, HandOver(c) \/ HandOverFails(c) PROVE ListingInv'
  <2>1. seat[c].id \in Ids /\ oneshot[seat[c].id] # "listed"
    BY <1>10 DEF HandOver, HandOverFails, Seats, ListingInv, SendersTaken
  <2>2. \A g \in Ids : oneshot'[g] = oneshot[g]
                      \/ (g = seat[c].id /\ oneshot'[g] # "listed")
    BY <1>10, <2>1 DEF HandOver, HandOverFails, HandoffMarks, Ends
  <2>3. /\ UNCHANGED <<waiting, active, nextGameId, seat>>
        /\ \A d \in Clients : task'[d] = "handing" => task[d] = "handing"
    BY <1>10 DEF HandOver, HandOverFails, Ends
  <2>4. ListingsDistinct'
    BY <2>1, <2>2, <2>3 DEF ListingInv, ListingsDistinct, Slots
  <2>5. FreshIdsUntouched'
    BY <2>1, <2>2, <2>3 DEF ListingInv, FreshIdsUntouched
  <2>6. SendersTaken'
    BY <2>2, <2>3 DEF ListingInv, SendersTaken, Seats
  <2> QED BY <2>4, <2>5, <2>6 DEF ListingInv
<1>11. ASSUME NEW c \in Clients, EndGame(c) PROVE ListingInv'
  <2>1. /\ UNCHANGED <<waiting, nextGameId, seat, oneshot>>
        /\ active' \subseteq active
        /\ \A d \in Clients : task'[d] = "handing" => task[d] = "handing"
    BY <1>11 DEF EndGame, PlayersEnd
  <2> QED
    BY <2>1 DEF ListingInv, ListingsDistinct, FreshIdsUntouched, SendersTaken
<1>12. CASE UNCHANGED vars
  BY <1>12, QuietKeepsListing DEF vars, NoNewHandOver
<1> QED
  BY <1>1, <1>2, <1>3, <1>4, <1>5, <1>6, <1>7, <1>8, <1>9, <1>10, <1>11, <1>12
     DEF Next, ClientStep, HostTaskStep, GuestTaskStep

-----------------------------------------------------------------------------
HostPoints == {"announcing", "hosting", "hostGoes", "evicting", "gone"}
DispatchPoints == {"lobby", "authCreate", "authJoin"}

\* What nearly every step does to a task: a host stays one in its seat, and
\* only an unannounced one just ends; nobody comes back to the dispatch loop;
\* a joiner that was handed over stays so or ends.
StaysInRole(d) ==
    /\ task[d] \in HostPoints => seat'[d] = seat[d] /\ task'[d] \in HostPoints
    /\ task[d] \in {"hosting", "hostGoes", "evicting"} => task'[d] # "gone"
    /\ task'[d] \in DispatchPoints \union {"announcing"} =>
         task[d] \in DispatchPoints \union {"announcing"}
    /\ task[d] \in {"passed", "gone"} => task'[d] \in {"passed", "gone"}

\* Such steps keep the hosts' invariant if they list and announce nobody and
\* put nobody in a channel.
LEMMA RolesKeepHosts ==
    ASSUME TypeOK, HostInv,
           \A d \in Clients : StaysInRole(d),
           \A t \in waiting' : \E s \in waiting :
               t.host = s.host /\ t.key = s.key /\ t.id = s.id,
           \A g \in Ids : oneshot'[g] \in Clients => oneshot'[g] = oneshot[g],
           announced' = announced
    PROVE  HostInv'
<1> USE DEF HostInv, StaysInRole, HostPoints, DispatchPoints
<1>1. HostsSeated'
  <2> SUFFICES ASSUME NEW t \in waiting'
               PROVE  /\ seat'[t.host].id = t.id
                      /\ seat'[t.host].key = t.key
                      /\ task'[t.host] \in {"announcing", "hosting", "hostGoes", "evicting", "gone"}
                      /\ t.host \in announced' => task'[t.host] # "gone"
    BY DEF HostsSeated
  <2>1. PICK s \in waiting : t.host = s.host /\ t.key = s.key /\ t.id = s.id
    OBVIOUS
  <2>2. s.host \in Clients
    BY DEF TypeOK, Slots
  <2>3. s.host \in announced => task[s.host] \in {"hosting", "hostGoes", "evicting"}
    BY DEF HostsSeated, AnnouncedReachedLoop
  <2> QED BY <2>1, <2>2, <2>3 DEF HostsSeated
<1>2. AnnouncedReachedLoop'
  BY DEF AnnouncedReachedLoop, TypeOK
<1>3. ChannelHoldsJoiners'
  BY DEF ChannelHoldsJoiners
<1> QED BY <1>1, <1>2, <1>3

\* A client whose host task ends takes with it only itself and a joiner that
\* was still in its channel.
LEMMA HostEndsAffects ==
    ASSUME TypeOK, HostInv, NEW c \in Clients, HostEnds(c),
           seat[c].id \in Ids, NEW d \in Clients, d # c
    PROVE  task'[d] = task[d] \/ (task[d] \in {"passed", "gone"} /\ task'[d] = "gone")
BY DEF TypeOK, HostInv, ChannelHoldsJoiners, HostEnds

\* Every step keeps the hosts' invariant.
LEMMA HostStep ==
    TypeOK /\ ListingInv /\ HostInv /\ [Next]_vars => HostInv'
<1> SUFFICES ASSUME TypeOK, ListingInv, HostInv, [Next]_vars PROVE HostInv'
  OBVIOUS
<1> USE RoomsAssumption
    DEF TypeOK, HostPoints, DispatchPoints, lobbyVars, channelVars, historyVars
<1>1. ASSUME NEW c \in Clients,
             \/ AuthenticateLooks(c) \/ ClientCloses(c) \/ LeaveLobby(c)
             \/ HandoffFails(c) \/ HostUpdate(c) \/ HostLeaves(c)
             \/ EnterRoom(c) \/ EnterRoomFails(c) \/ GuestUpdate(c)
             \/ HostGoes(c) \/ GuestGoes(c)
      PROVE  HostInv'
  <2>1. UNCHANGED <<waiting, oneshot, announced, seat>>
    BY <1>1 DEF AuthenticateLooks, ClientCloses, LeaveLobby, HandoffFails,
                HostUpdate, HostLeaves, EnterRoom, EnterRoomFails, GuestUpdate, HostGoes, GuestGoes
  <2>2. \A d \in Clients : StaysInRole(d)
    BY <1>1, <2>1 DEF AuthenticateLooks, ClientCloses, LeaveLobby, HandoffFails,
                HostUpdate, HostLeaves, EnterRoom, EnterRoomFails, GuestUpdate,
                HostGoes, GuestGoes, Ends, StaysInRole
  <2> QED BY <2>1, <2>2, RolesKeepHosts
<1>2. ASSUME NEW c \in Clients, NEW k \in Keys, NEW rv \in BOOLEAN,
             CreateRefused(c, k, rv)
      PROVE  HostInv'
  <2>1. \A d \in Clients : StaysInRole(d)
    BY <1>2 DEF CreateRefused, MayCreate, Ends, StaysInRole
  <2> QED BY <1>2, <2>1, RolesKeepHosts DEF CreateRefused
<1>3. ASSUME NEW c \in Clients, NEW k \in Keys, NEW rv \in BOOLEAN,
             CreateSlot(c, k, rv)
      PROVE  HostInv'
  <2> DEFINE t == [key |-> k, id |-> nextGameId, host |-> c, rendezvous |-> rv,
                   hostReady |-> FALSE, guest |-> NoClient, guestReady |-> FALSE]
  <2>1. /\ waiting' = waiting \union {t}
        /\ t.key = k /\ t.id = nextGameId /\ t.host = c
        /\ seat' = [seat EXCEPT ![c] = [key |-> k, id |-> nextGameId,
                                        rendezvous |-> rv]]
        /\ task' = [task EXCEPT ![c] = "announcing"]
        /\ UNCHANGED <<oneshot, announced>>
        /\ task[c] \in DispatchPoints
    BY <1>3 DEF CreateSlot, MayCreate
  <2> HIDE DEF t
  <2>2. \A s \in waiting : s.host \in Clients /\ s.host # c
    BY <2>1 DEF HostInv, HostsSeated, Slots
  <2>3. HostsSeated'
    BY <2>1, <2>2 DEF HostInv, HostsSeated
  <2>4. AnnouncedReachedLoop'
    BY <2>1 DEF HostInv, AnnouncedReachedLoop
  <2>5. ChannelHoldsJoiners'
    BY <2>1 DEF HostInv, ChannelHoldsJoiners
  <2> QED BY <2>3, <2>4, <2>5 DEF HostInv
<1>4. ASSUME NEW c \in Clients, NEW k \in Keys, NEW rv \in BOOLEAN,
             JoinRoom(c, k, rv)
      PROVE  HostInv'
  <2>1. PICK s \in waiting :
          /\ waiting' = (waiting \ {s}) \union
                          {[s EXCEPT !.guest = c, !.guestReady = FALSE]}
          /\ TakesSeat(c, s, TRUE)
    BY <1>4 DEF JoinRoom, Named
  <2>2. ASSUME NEW u \in waiting'
        PROVE  \E v \in waiting : u.host = v.host /\ u.key = v.key /\ u.id = v.id
    <3> DEFINE t == [s EXCEPT !.guest = c, !.guestReady = FALSE]
    <3>1. u \in waiting \/ u = t
      BY <2>1
    <3>2. t.host = s.host /\ t.key = s.key /\ t.id = s.id
      BY DEF Slots
    <3> HIDE DEF t
    <3> QED BY <3>1, <3>2
  <2>3. \A d \in Clients : StaysInRole(d)
    BY <1>4, <2>1 DEF JoinRoom, MayJoin, TakesSeat, StaysInRole
  <2> QED BY <1>4, <2>2, <2>3, RolesKeepHosts DEF JoinRoom
<1>5. ASSUME NEW c \in Clients, NEW k \in Keys, NEW rv \in BOOLEAN,
             JoinLegacy(c, k, rv)
      PROVE  HostInv'
  <2>1. PICK s \in waiting :
          /\ waiting' = waiting \ {s}
          /\ oneshot' = [oneshot EXCEPT ![s.id] = "taken"]
          /\ TakesSeat(c, s, FALSE)
    BY <1>5 DEF JoinLegacy, Named
  <2>2. \A g \in Ids : oneshot'[g] \in Clients => oneshot'[g] = oneshot[g]
    BY <2>1 DEF HandoffMarks
  <2>3. \A d \in Clients : StaysInRole(d)
    BY <1>5, <2>1 DEF JoinLegacy, MayJoin, TakesSeat, StaysInRole
  <2> QED BY <1>5, <2>1, <2>2, <2>3, RolesKeepHosts DEF JoinLegacy
<1>6. ASSUME NEW c \in Clients,
             \/ HostSetDeck(c) \/ GuestSetDeck(c)
             \/ \E ready \in BOOLEAN : HostSetReady(c, ready)
                                     \/ GuestSetReady(c, ready)
      PROVE  HostInv'
  <2>1. PICK s \in waiting, b \in BOOLEAN :
          \/ waiting' = (waiting \ {s}) \union {[s EXCEPT !.hostReady = b]}
          \/ waiting' = (waiting \ {s}) \union {[s EXCEPT !.guestReady = b]}
    <3>1. CASE HostSetDeck(c)
      BY <3>1 DEF HostSetDeck, Named
    <3>2. CASE GuestSetDeck(c)
      BY <3>2 DEF GuestSetDeck, Named
    <3>3. ASSUME NEW ready \in BOOLEAN, HostSetReady(c, ready)
          PROVE  \E s \in waiting :
                   waiting' = (waiting \ {s}) \union {[s EXCEPT !.hostReady = ready]}
      BY <3>3 DEF HostSetReady, Named
    <3>4. ASSUME NEW ready \in BOOLEAN, GuestSetReady(c, ready)
          PROVE  \E s \in waiting :
                   waiting' = (waiting \ {s}) \union {[s EXCEPT !.guestReady = ready]}
      BY <3>4 DEF GuestSetReady, Named
    <3> QED BY <1>6, <3>1, <3>2, <3>3, <3>4
  <2>2. ASSUME NEW u \in waiting'
        PROVE  \E v \in waiting : u.host = v.host /\ u.key = v.key /\ u.id = v.id
    <3> DEFINE h == [s EXCEPT !.hostReady = b]
               j == [s EXCEPT !.guestReady = b]
    <3>1. u \in waiting \/ u = h \/ u = j
      BY <2>1
    <3>2. /\ h.host = s.host /\ h.key = s.key /\ h.id = s.id
          /\ j.host = s.host /\ j.key = s.key /\ j.id = s.id
      BY DEF Slots
    <3> HIDE DEF h, j
    <3> QED BY <3>1, <3>2
  <2>3. UNCHANGED <<seat, oneshot, announced>> /\ \A d \in Clients : StaysInRole(d)
    BY <1>6 DEF StaysInRole, HostSetDeck, GuestSetDeck, HostSetReady, GuestSetReady
  <2> QED BY <2>2, <2>3, RolesKeepHosts
<1>7. ASSUME NEW c \in Clients, GuestDisconnects(c) \/ GuestDrops(c)
      PROVE  HostInv'
  <2>1. waiting' = ClearNamed(seat[c].key) /\ UNCHANGED <<seat, oneshot, announced>>
    BY <1>7 DEF GuestDisconnects, GuestDrops
  <2>2. ASSUME NEW u \in waiting'
        PROVE  \E v \in waiting : u.host = v.host /\ u.key = v.key /\ u.id = v.id
    <3>1. PICK v \in waiting : u = IF v.key = seat[c].key THEN ClearGuest(v) ELSE v
      BY <2>1 DEF ClearNamed
    <3>2. /\ ClearGuest(v).host = v.host
          /\ ClearGuest(v).key = v.key /\ ClearGuest(v).id = v.id
      BY DEF ClearGuest, Slots
    <3> QED BY <3>1, <3>2
  <2>3. \A d \in Clients : StaysInRole(d)
    BY <1>7, <2>1 DEF GuestDisconnects, GuestDrops, Ends, StaysInRole
  <2> QED BY <2>1, <2>2, <2>3, RolesKeepHosts
<1>8. ASSUME NEW c \in Clients, FreeSlot(c) PROVE HostInv'
  <2>1. RemoveNamed(seat[c].key) /\ UNCHANGED <<seat, announced>>
    BY <1>8 DEF FreeSlot
  <2>2. \A g \in Ids : oneshot'[g] \in Clients => oneshot'[g] = oneshot[g]
    BY <2>1 DEF RemoveNamed, HandoffMarks
  <2>3. \A d \in Clients : StaysInRole(d)
    BY <1>8, <2>1 DEF FreeSlot, Ends, StaysInRole
  <2> QED BY <2>1, <2>2, <2>3, NamedRemoved, RolesKeepHosts
<1>9. ASSUME NEW c \in Clients, Evict(c) PROVE HostInv'
  <2>1. /\ RemoveNamed(seat[c].key) /\ UNCHANGED <<seat, announced>>
        /\ task[c] = "evicting" /\ HostEnds(c) /\ task'[c] = "gone"
    BY <1>9 DEF Evict, HostEnds
  <2>2. seat[c].id \in Ids
    BY <2>1 DEF Seats
  <2>3. \A d \in Clients : d # c =>
          task'[d] = task[d] \/ (task[d] \in {"passed", "gone"} /\ task'[d] = "gone")
    BY <2>1, <2>2, HostEndsAffects
  <2>4. \A s \in waiting' :
          s \in waiting /\ s.host \in Clients /\ s.host # c
    BY <2>1 DEF RemoveNamed, Named, HostInv, HostsSeated, Slots
  <2>5. HostsSeated'
    BY <2>1, <2>3, <2>4 DEF HostInv, HostsSeated, AnnouncedReachedLoop
  <2>6. AnnouncedReachedLoop'
    BY <2>1, <2>3 DEF HostInv, AnnouncedReachedLoop
  <2>7. \A g \in Ids : oneshot'[g] \in Clients => oneshot'[g] = oneshot[g]
    BY <2>1 DEF RemoveNamed, HandoffMarks
  <2>8. ChannelHoldsJoiners'
    BY <2>1, <2>3, <2>7 DEF HostInv, ChannelHoldsJoiners
  <2> QED BY <2>5, <2>6, <2>8 DEF HostInv
<1>10. ASSUME NEW c \in Clients, Announce(c) PROVE HostInv'
  <2>1. /\ task[c] = "announcing" /\ task' = [task EXCEPT ![c] = "hosting"]
        /\ announced' = announced \union {c}
        /\ UNCHANGED <<waiting, seat, oneshot>>
    BY <1>10 DEF Announce
  <2>2. \A s \in waiting : s.host \in Clients
    BY DEF Slots
  <2>3. HostsSeated'
    BY <2>1, <2>2 DEF HostInv, HostsSeated
  <2>4. AnnouncedReachedLoop'
    BY <2>1 DEF HostInv, AnnouncedReachedLoop
  <2>5. ChannelHoldsJoiners'
    BY <2>1 DEF HostInv, ChannelHoldsJoiners
  <2> QED BY <2>3, <2>4, <2>5 DEF HostInv
<1>11. ASSUME NEW c \in Clients, AnnounceFails(c) PROVE HostInv'
  <2>1. /\ UNCHANGED <<waiting, seat, oneshot, announced>>
        /\ task[c] = "announcing" /\ HostEnds(c) /\ task'[c] = "gone"
    BY <1>11 DEF AnnounceFails, HostEnds
  <2>2. seat[c].id \in Ids
    BY <2>1 DEF Seats
  <2>3. \A d \in Clients : StaysInRole(d)
    BY <2>1, <2>2, HostEndsAffects DEF StaysInRole
  <2> QED BY <2>1, <2>3, RolesKeepHosts
<1>12. ASSUME NEW c \in Clients, ReceiveJoiner(c) PROVE HostInv'
  <2>1. /\ UNCHANGED <<waiting, seat, announced>>
        /\ task[c] = "hosting" /\ task' = [task EXCEPT ![c] = "playing"]
        /\ oneshot[seat[c].id] \in Clients
        /\ oneshot' = [oneshot EXCEPT ![seat[c].id] = "received"]
    BY <1>12 DEF ReceiveJoiner
  <2>2. \A s \in waiting : s.host \in Clients /\ s.host # c
    BY <2>1 DEF Slots, HandoffMarks, HostInv, HostsSeated, ListingInv, ListingsDistinct
  <2>3. HostsSeated'
    BY <2>1, <2>2 DEF HostInv, HostsSeated
  <2>4. AnnouncedReachedLoop'
    BY <2>1 DEF HostInv, AnnouncedReachedLoop
  <2>5. \A g \in Ids : oneshot'[g] \in Clients => oneshot'[g] = oneshot[g]
    BY <2>1 DEF HandoffMarks
  <2>6. ChannelHoldsJoiners'
    BY <2>1, <2>5 DEF HostInv, ChannelHoldsJoiners
  <2> QED BY <2>3, <2>4, <2>6 DEF HostInv
<1>13. ASSUME NEW c \in Clients, HandOver(c) PROVE HostInv'
  <2>1. UNCHANGED <<waiting, seat, announced>> /\ task[c] = "handing"
    BY <1>13 DEF HandOver
  <2>2. CASE HostWaits(seat[c].id)
    <3>1. /\ task' = [task EXCEPT ![c] = "passed"]
          /\ oneshot' = [oneshot EXCEPT ![seat[c].id] = c]
      BY <1>13, <2>2 DEF HandOver
    <3>2. \A s \in waiting : s.host \in Clients /\ s.host # c
      BY <2>1 DEF Slots, HostInv, HostsSeated
    <3>3. HostsSeated'
      BY <2>1, <3>1, <3>2 DEF HostInv, HostsSeated
    <3>4. AnnouncedReachedLoop'
      BY <2>1, <3>1 DEF HostInv, AnnouncedReachedLoop
    <3>5. \A g \in Ids : oneshot'[g] = oneshot[g] \/ oneshot'[g] = c
      BY <3>1
    <3>6. ChannelHoldsJoiners'
      BY <3>1, <3>5 DEF HostInv, ChannelHoldsJoiners
    <3> QED BY <3>3, <3>4, <3>6 DEF HostInv
  <2>3. CASE ~HostWaits(seat[c].id)
    <3>1. UNCHANGED oneshot /\ task' = [task EXCEPT ![c] = "gone"]
      BY <1>13, <2>3 DEF HandOver, Ends
    <3>2. \A d \in Clients : StaysInRole(d)
      BY <2>1, <3>1 DEF StaysInRole
    <3> QED BY <2>1, <3>1, <3>2, RolesKeepHosts
  <2> QED BY <2>2, <2>3
<1>14. ASSUME NEW c \in Clients, HandOverFails(c) PROVE HostInv'
  <2>1. \A g \in Ids : oneshot'[g] \in Clients => oneshot'[g] = oneshot[g]
    BY <1>14 DEF HandOverFails, HandoffMarks
  <2>2. \A d \in Clients : StaysInRole(d)
    BY <1>14 DEF HandOverFails, Ends, StaysInRole
  <2> QED BY <1>14, <2>1, <2>2, RolesKeepHosts DEF HandOverFails
<1>15. ASSUME NEW c \in Clients, EndGame(c) PROVE HostInv'
  <2>1. UNCHANGED <<waiting, seat, oneshot, announced>> /\ task[c] = "playing"
    BY <1>15 DEF EndGame
  <2>2. \A d \in Clients : task'[d] = task[d] \/
          (task[d] \in {"playing", "passed"} /\ task'[d] = "gone")
    BY <1>15 DEF EndGame, PlayersEnd
  <2>3. \A d \in Clients : StaysInRole(d)
    BY <2>1, <2>2 DEF StaysInRole
  <2> QED BY <2>1, <2>3, RolesKeepHosts
<1>16. CASE UNCHANGED vars
  BY <1>16 DEF vars, HostInv, HostsSeated, AnnouncedReachedLoop, ChannelHoldsJoiners
<1> QED
  BY <1>1, <1>2, <1>3, <1>4, <1>5, <1>6, <1>7, <1>8, <1>9, <1>10, <1>11, <1>12,
     <1>13, <1>14, <1>15, <1>16
     DEF Next, ClientStep, HostTaskStep, GuestTaskStep

-----------------------------------------------------------------------------
(* The signal to proceed.                                                  *)

\* Nothing was published for an id that was not handed out.
FreshIdsUnpublished ==
    \A g \in Ids : g >= nextGameId => ~watch[g].start

GoInv == GoIsWithdrawn /\ FreshIdsUnpublished

\* One entry is changed and its new snapshot published: it says start only if
\* both flags are up.
LEMMA PublishKeepsGo ==
    ASSUME TypeOK, TypeOK', ListingInv, GoInv,
           UNCHANGED nextGameId,
           NEW s \in waiting, NEW t, t.id = s.id,
           NEW start \in BOOLEAN, NEW j, Publish(s.id, start, j),
           start => t.hostReady /\ t.guestReady,
           waiting' \subseteq (waiting \ {s}) \union {t}
    PROVE  GoInv'
<1> USE DEF TypeOK, ListingInv, GoInv
<1>1. s.id \in Ids /\ s.id < nextGameId
  BY DEF Slots, ListingsDistinct
<1>2. /\ watch'[s.id].start = start
      /\ \A g \in Ids : g # s.id => watch'[g] = watch[g]
  BY <1>1 DEF Publish
<1>3. GoIsWithdrawn'
  <2> SUFFICES ASSUME NEW u \in waiting', watch'[u.id].start
               PROVE  u.hostReady /\ (u.guestReady \/ u.guest = NoClient)
    BY DEF GoIsWithdrawn
  <2>1. CASE u = t
    BY <1>2, <2>1
  <2>2. CASE u \in waiting /\ u # s
    <3>1. u.id \in Ids /\ u.id # s.id
      BY <2>2 DEF Slots, ListingsDistinct
    <3> QED BY <1>2, <2>2, <3>1 DEF GoIsWithdrawn
  <2> QED BY <2>1, <2>2
<1>4. FreshIdsUnpublished'
  BY <1>1, <1>2, RoomsAssumption DEF FreshIdsUnpublished, Ids
<1> QED BY <1>3, <1>4

\* Nothing is published, and entries at most lose their joiner.
LEMMA ClearKeepsGo ==
    ASSUME TypeOK, GoInv, UNCHANGED <<nextGameId, watch>>,
           \A u \in waiting' : u \in waiting \/ \E s \in waiting : u = ClearGuest(s)
    PROVE  GoInv'
<1>1. \A s \in waiting : /\ ClearGuest(s).id = s.id
                         /\ ClearGuest(s).hostReady = s.hostReady
                         /\ ClearGuest(s).guest = NoClient
  <2>1. waiting \subseteq Slots
    BY DEF TypeOK
  <2>2. ASSUME NEW s \in Slots
        PROVE  /\ ClearGuest(s).id = s.id
               /\ ClearGuest(s).hostReady = s.hostReady
               /\ ClearGuest(s).guest = NoClient
    BY DEF Slots, ClearGuest
  <2> QED BY <2>1, <2>2
<1>2. ASSUME NEW u \in waiting', watch'[u.id].start
      PROVE  u.hostReady /\ (u.guestReady \/ u.guest = NoClient)
  <2>1. \A s \in waiting : watch'[s.id].start =>
            s.hostReady /\ (s.guestReady \/ s.guest = NoClient)
    BY DEF GoInv, GoIsWithdrawn
  <2>2. CASE u \in waiting
    BY <1>2, <2>1, <2>2
  <2>3. CASE \E s \in waiting : u = ClearGuest(s)
    <3>1. PICK s \in waiting : u = ClearGuest(s)
      BY <2>3
    <3>2. u.id = s.id /\ u.hostReady = s.hostReady /\ u.guest = NoClient
      BY <1>1, <3>1
    <3> QED BY <1>2, <2>1, <3>2
  <2> QED BY <2>2, <2>3
<1>3. GoIsWithdrawn'
  BY <1>2 DEF GoIsWithdrawn
<1> QED BY <1>3 DEF GoInv, FreshIdsUnpublished

\* Every step withdraws the signals it makes stale.
LEMMA GoStep == TypeOK /\ TypeOK' /\ ListingInv /\ GoInv /\ [Next]_vars => GoInv'
<1> SUFFICES ASSUME TypeOK, TypeOK', ListingInv, GoInv, [Next]_vars PROVE GoInv'
  OBVIOUS
<1> USE DEF lobbyVars, channelVars, historyVars
<1>1. ASSUME NEW c \in Clients,
             \/ AuthenticateLooks(c) \/ ClientCloses(c) \/ LeaveLobby(c)
             \/ Announce(c) \/ AnnounceFails(c) \/ ReceiveJoiner(c)
             \/ HandoffFails(c) \/ HostUpdate(c) \/ HostLeaves(c) \/ EnterRoom(c)
             \/ EnterRoomFails(c) \/ GuestUpdate(c) \/ HandOver(c)
             \/ HostGoes(c) \/ GuestGoes(c)
             \/ HandOverFails(c) \/ EndGame(c)
      PROVE  GoInv'
  <2>1. UNCHANGED <<waiting, nextGameId, watch>>
    BY <1>1 DEF AuthenticateLooks, ClientCloses, LeaveLobby, Announce,
                AnnounceFails, ReceiveJoiner, HandoffFails, HostUpdate,
                HostLeaves, EnterRoom, EnterRoomFails, GuestUpdate, HandOver,
                HostGoes, GuestGoes,
                HandOverFails, EndGame
  <2> QED BY <2>1, ClearKeepsGo
<1>2. ASSUME NEW c \in Clients, Evict(c) \/ FreeSlot(c) \/ GuestDisconnects(c)
      PROVE  GoInv'
  BY <1>2, ClearKeepsGo DEF Evict, FreeSlot, GuestDisconnects, RemoveNamed,
     ClearNamed
<1>3. ASSUME NEW c \in Clients, NEW k \in Keys, NEW rv \in BOOLEAN,
             CreateRefused(c, k, rv) \/ CreateSlot(c, k, rv)
      PROVE  GoInv'
  <2>1. /\ nextGameId \in Ids /\ nextGameId' = nextGameId + 1 /\ UNCHANGED watch
        /\ \A s \in waiting' : s \in waiting \/ s.id = nextGameId
    BY <1>3, RoomsAssumption DEF CreateRefused, CreateSlot, TypeOK, Ids
  <2> QED BY <2>1, RoomsAssumption DEF GoInv, GoIsWithdrawn, FreshIdsUnpublished, Ids
<1>4. ASSUME NEW c \in Clients, NEW k \in Keys, NEW rv \in BOOLEAN,
             JoinRoom(c, k, rv)
      PROVE  GoInv'
  <2>1. PICK s \in waiting :
          /\ waiting' = (waiting \ {s}) \union
                          {[s EXCEPT !.guest = c, !.guestReady = FALSE]}
          /\ Publish(s.id, FALSE, c)
    BY <1>4 DEF JoinRoom, Named
  <2>2. [s EXCEPT !.guest = c, !.guestReady = FALSE].id = s.id
    BY DEF TypeOK, Slots
  <2>3. UNCHANGED nextGameId
    BY <1>4 DEF JoinRoom
  <2> QED BY <2>1, <2>2, <2>3, PublishKeepsGo
<1>5. ASSUME NEW c \in Clients, NEW k \in Keys, NEW rv \in BOOLEAN,
             JoinLegacy(c, k, rv)
      PROVE  GoInv'
  <2>1. PICK s \in waiting :
          /\ waiting' \subseteq (waiting \ {s}) \union {s}
          /\ Publish(s.id, FALSE, c)
          /\ UNCHANGED nextGameId
    BY <1>5 DEF JoinLegacy, Named
  <2> QED BY <2>1, PublishKeepsGo
<1>6. ASSUME NEW c \in Clients, HostSetDeck(c) \/ GuestSetDeck(c)
      PROVE  GoInv'
  <2>1. PICK s \in waiting :
          /\ \/ waiting' = (waiting \ {s}) \union {[s EXCEPT !.hostReady = FALSE]}
             \/ waiting' = (waiting \ {s}) \union {[s EXCEPT !.guestReady = FALSE]}
          /\ Publish(s.id, FALSE, s.guest)
          /\ UNCHANGED nextGameId
    BY <1>6 DEF HostSetDeck, GuestSetDeck, Named
  <2>2. [s EXCEPT !.hostReady = FALSE].id = s.id
        /\ [s EXCEPT !.guestReady = FALSE].id = s.id
    BY DEF TypeOK, Slots
  <2>3. PICK t : waiting' = (waiting \ {s}) \union {t} /\ t.id = s.id
    BY <2>1, <2>2
  <2> QED BY <2>1, <2>3, PublishKeepsGo
<1>7. ASSUME NEW c \in Clients, NEW ready \in BOOLEAN,
             HostSetReady(c, ready) \/ GuestSetReady(c, ready)
      PROVE  GoInv'
  <2>1. PICK s \in waiting, both \in BOOLEAN :
          /\ \E t \in {[s EXCEPT !.hostReady = ready],
                       [s EXCEPT !.guestReady = ready]} :
                waiting' = (waiting \ {s}) \union {t} /\ (both => BothReady(t))
          /\ Publish(s.id, both, s.guest)
          /\ UNCHANGED nextGameId
    <3>1. CASE HostSetReady(c, ready)
      <4>1. PICK s \in Named(seat[c].key) :
              LET t == [s EXCEPT !.hostReady = ready]
                  both == seat[c].rendezvous /\ BothReady(t)
              IN  /\ waiting' = (waiting \ {s}) \union {t}
                  /\ Publish(s.id, both, s.guest)
        BY <3>1 DEF HostSetReady
      <4> QED BY <3>1, <4>1 DEF HostSetReady, Named, BothReady
    <3>2. CASE GuestSetReady(c, ready)
      <4>1. PICK s \in Named(seat[c].key) :
              LET t == [s EXCEPT !.guestReady = ready]
              IN  /\ waiting' = (waiting \ {s}) \union {t}
                  /\ Publish(s.id, BothReady(t), s.guest)
        BY <3>2 DEF GuestSetReady
      <4> QED BY <3>2, <4>1 DEF GuestSetReady, Named, BothReady
    <3> QED BY <1>7, <3>1, <3>2
  <2>2. PICK t : /\ waiting' = (waiting \ {s}) \union {t} /\ t.id = s.id
                 /\ both => BothReady(t)
    BY <2>1 DEF TypeOK, Slots
  <2> QED BY <2>1, <2>2, PublishKeepsGo DEF BothReady
<1>8. ASSUME NEW c \in Clients, GuestDrops(c) PROVE GoInv'
  <2>1. UNCHANGED nextGameId /\ waiting' = ClearNamed(seat[c].key)
    BY <1>8 DEF GuestDrops
  <2>2. \A u \in waiting' : u \in waiting \/ \E s \in waiting : u = ClearGuest(s)
    BY <2>1 DEF ClearNamed
  <2>3. CASE UNCHANGED watch
    BY <2>1, <2>2, <2>3, ClearKeepsGo
  <2>4. ASSUME NEW s \in Named(seat[c].key), Publish(s.id, FALSE, NoClient)
        PROVE  GoInv'
    <3>1. s \in waiting /\ s.key = seat[c].key
      BY DEF Named
    <3>2. \A u \in waiting : u.key = seat[c].key => u = s
      BY <3>1 DEF ListingInv, ListingsDistinct
    <3>3. waiting' \subseteq (waiting \ {s}) \union {ClearGuest(s)}
      BY <2>1, <3>1, <3>2 DEF ClearNamed
    <3>4. ClearGuest(s).id = s.id
      BY <3>1 DEF ClearGuest, TypeOK, Slots
    <3> QED BY <2>1, <2>4, <3>1, <3>3, <3>4, PublishKeepsGo
  <2> QED BY <1>8, <2>3, <2>4 DEF GuestDrops
<1>9. CASE UNCHANGED vars
  BY <1>9, ClearKeepsGo DEF vars
<1> QED
  BY <1>1, <1>2, <1>3, <1>4, <1>5, <1>6, <1>7, <1>8, <1>9
     DEF Next, ClientStep, HostTaskStep, GuestTaskStep

-----------------------------------------------------------------------------
(* The hand-over of a joiner to its host.                                  *)

Waiting(c) == task[c] \in {"announcing", "hosting", "hostGoes", "evicting"}
Hosting(c) == Waiting(c) \/ task[c] = "playing"
Joining(c) == task[c] \in {"handing", "passed"}

\* No id is used before it is handed out; a game has one host and one joiner.
OneOfEach ==
    /\ \A c \in Clients : seat[c].id < nextGameId
    /\ \A c, d \in Clients :
         seat[c].id = seat[d].id =>
            /\ Hosting(c) /\ Hosting(d) => c = d
            /\ Joining(c) /\ Joining(d) => c = d

\* A joiner has its game's sender, is in the channel to a host that waits, or
\* is in a running game; in a waiting host's channel is nobody else.
JoinersPlaced ==
    /\ \A j \in Clients : task[j] = "handing" => oneshot[seat[j].id] = "taken"
    /\ \A j \in Clients : task[j] = "passed" =>
         \/ /\ oneshot[seat[j].id] = j
            /\ \E h \in Clients : Waiting(h) /\ seat[h].id = seat[j].id
         \/ oneshot[seat[j].id] = "received" /\ seat[j].id \in active
    /\ \A h \in Clients : Waiting(h) =>
         \A j \in Clients : oneshot[seat[h].id] = j =>
            task[j] = "passed" /\ seat[j].id = seat[h].id

\* A running game has a host, who received a joiner that is still there.
GamesPlayed ==
    /\ \A h \in Clients : task[h] = "playing" =>
         /\ seat[h].id \in active /\ oneshot[seat[h].id] = "received"
         /\ \E j \in Clients : task[j] = "passed" /\ seat[j].id = seat[h].id
    /\ \A g \in active : \E h \in Clients : task[h] = "playing" /\ seat[h].id = g

PairInv == OneOfEach /\ JoinersPlaced /\ GamesPlayed

\* A client that has a role, or gets one, has a game.
LEMMA RolesHaveIds ==
    ASSUME TypeOK, NEW c \in Clients, Hosting(c) \/ Joining(c)
    PROVE  seat[c].id \in Ids /\ oneshot[seat[c].id] \in OneshotStates
BY DEF TypeOK, Seats, Hosting, Waiting, Joining

\* Steps that give nobody a role and take it from nobody, but for a host that
\* goes on waiting in another place.
LEMMA RolesKeepPairs ==
    ASSUME TypeOK, TypeOK', PairInv, UNCHANGED active,
           nextGameId <= nextGameId',
           \A g \in Ids : oneshot'[g] = oneshot[g]
                          \/ (oneshot[g] = "listed" /\ oneshot'[g] = "dropped"),
           \A c \in Clients :
              \/ /\ seat'[c] = seat[c]
                 /\ task'[c] = task[c] \/ (Waiting(c) /\ Waiting(c)')
              \/ /\ ~Hosting(c) /\ ~Joining(c) /\ ~Hosting(c)' /\ ~Joining(c)'
                 /\ seat'[c].id < nextGameId'
    PROVE  PairInv'
<1> USE DEF PairInv
<1>1. \A c \in Clients : /\ Waiting(c)' <=> Waiting(c)
                         /\ Hosting(c)' <=> Hosting(c)
                         /\ Joining(c)' <=> Joining(c)
                         /\ Hosting(c) \/ Joining(c) => seat'[c] = seat[c]
                         /\ task'[c] \in {"playing", "handing", "passed"}
                               <=> task[c] \in {"playing", "handing", "passed"}
                         /\ task[c] \in {"playing", "handing", "passed"}
                              => task'[c] = task[c]
  BY DEF Waiting, Hosting, Joining
<1>2. OneOfEach'
  <2>1. \A c \in Clients : seat'[c].id < nextGameId'
    BY DEF OneOfEach, TypeOK, Seats, Ids
  <2> QED BY <1>1, <2>1 DEF OneOfEach
<1>3. \A c \in Clients : Hosting(c) \/ Joining(c) =>
        /\ seat'[c] = seat[c]
        /\ oneshot'[seat[c].id] = oneshot[seat[c].id]
           \/ (/\ oneshot[seat[c].id] = "listed"
               /\ oneshot'[seat[c].id] = "dropped")
  BY <1>1, RolesHaveIds
<1>4. JoinersPlaced'
  <2>1. \A j \in Clients : j # "listed" /\ j # "dropped" /\ j # "received"
    BY RoomsAssumption DEF HandoffMarks
  <2>2. \A j \in Clients : task'[j] = "handing" => oneshot'[seat'[j].id] = "taken"
    BY <1>1, <1>3 DEF JoinersPlaced, Joining
  <2>3. \A j \in Clients : task'[j] = "passed" =>
         \/ /\ oneshot'[seat'[j].id] = j
            /\ \E h \in Clients : Waiting(h)' /\ seat'[h].id = seat'[j].id
         \/ oneshot'[seat'[j].id] = "received" /\ seat'[j].id \in active'
    BY <1>1, <1>3, <2>1 DEF JoinersPlaced, Joining, Hosting
  <2>4. \A h \in Clients : Waiting(h)' =>
         \A j \in Clients : oneshot'[seat'[h].id] = j =>
            task'[j] = "passed" /\ seat'[j].id = seat'[h].id
    BY <1>1, <1>3, <2>1 DEF JoinersPlaced, Joining, Hosting
  <2> QED BY <2>2, <2>3, <2>4 DEF JoinersPlaced
<1>5. GamesPlayed'
  <2>1. \A h \in Clients : task'[h] = "playing" =>
         /\ seat'[h].id \in active' /\ oneshot'[seat'[h].id] = "received"
         /\ \E j \in Clients : task'[j] = "passed" /\ seat'[j].id = seat'[h].id
    BY <1>1, <1>3 DEF GamesPlayed, Joining, Hosting
  <2>2. \A g \in active' : \E h \in Clients : task'[h] = "playing" /\ seat'[h].id = g
    BY <1>1, <1>3 DEF GamesPlayed, Hosting
  <2> QED BY <2>1, <2>2 DEF GamesPlayed
<1> QED BY <1>2, <1>4, <1>5

\* The host's task returns: with it goes whoever is in its channel, and nobody
\* who is in a game.
LEMMA HostEndsKeepsPairs ==
    ASSUME TypeOK, TypeOK', PairInv, NEW c \in Clients, Waiting(c), HostEnds(c),
           UNCHANGED <<active, nextGameId, seat>>,
           \A g \in Ids : oneshot'[g] = oneshot[g]
                          \/ (oneshot[g] = "listed" /\ oneshot'[g] = "dropped")
    PROVE  PairInv'
<1> USE DEF PairInv
<1> DEFINE i == seat[c].id
<1>1. /\ i \in Ids
      /\ \A d \in Clients : IF d = c \/ d = oneshot[i] THEN task'[d] = "gone"
                            ELSE task'[d] = task[d]
  BY RolesHaveIds DEF HostEnds, Hosting
<1>2. \A j \in Clients : oneshot[i] = j => task[j] = "passed" /\ seat[j].id = i
  BY DEF JoinersPlaced
<1>3. \A j \in Clients : task[j] = "passed" /\ seat[j].id = i => oneshot[i] = j
  <2> SUFFICES ASSUME NEW j \in Clients, task[j] = "passed", seat[j].id = i
               PROVE  oneshot[i] = j
    OBVIOUS
  <2>1. CASE i \in active
    <3>1. PICK h \in Clients : task[h] = "playing" /\ seat[h].id = i
      BY <2>1 DEF GamesPlayed
    <3>2. h = c
      BY <3>1 DEF OneOfEach, Hosting
    <3> QED BY <3>1, <3>2 DEF Waiting
  <2> QED BY <2>1 DEF JoinersPlaced
<1>4. ASSUME NEW d \in Clients
      PROVE  /\ task'[d] = task[d] \/ task'[d] = "gone"
             /\ Waiting(d)' <=> Waiting(d) /\ d # c
             /\ task'[d] = "playing" <=> task[d] = "playing"
             /\ task'[d] = "passed" <=> task[d] = "passed" /\ seat[d].id # i
             /\ task'[d] = "handing" <=> task[d] = "handing"
  BY <1>1, <1>2, <1>3 DEF Waiting
<1> HIDE DEF i
<1>5. \A d \in Clients : Hosting(d) \/ Joining(d) =>
         oneshot'[seat[d].id] = oneshot[seat[d].id]
           \/ (/\ oneshot[seat[d].id] = "listed"
               /\ oneshot'[seat[d].id] = "dropped")
  BY RolesHaveIds
<1>6. OneOfEach'
  <2>1. \A d \in Clients : (Hosting(d)' => Hosting(d)) /\ (Joining(d)' => Joining(d))
    BY <1>4 DEF Hosting, Joining
  <2> QED BY <2>1 DEF OneOfEach
<1>7. \A j \in Clients : j # "listed" /\ j # "dropped" /\ j # "received"
  BY RoomsAssumption DEF HandoffMarks
<1>8. \A h \in Clients : Waiting(h) /\ seat[h].id = i => h = c
  BY DEF OneOfEach, Hosting, i
<1>9. JoinersPlaced'
  <2>1. \A j \in Clients : task'[j] = "handing" => oneshot'[seat'[j].id] = "taken"
    BY <1>4, <1>5 DEF JoinersPlaced, Joining
  <2>2. ASSUME NEW j \in Clients, task'[j] = "passed"
        PROVE  \/ /\ oneshot'[seat[j].id] = j
                  /\ \E h \in Clients : Waiting(h)' /\ seat[h].id = seat[j].id
               \/ oneshot'[seat[j].id] = "received" /\ seat[j].id \in active
    <3>1. task[j] = "passed" /\ seat[j].id # i
      BY <1>4, <2>2
    <3>2. CASE oneshot[seat[j].id] = "received" /\ seat[j].id \in active
      BY <1>5, <3>1, <3>2 DEF Joining
    <3>3. CASE oneshot[seat[j].id] = j
               /\ \E h \in Clients : Waiting(h) /\ seat[h].id = seat[j].id
      <4>1. oneshot'[seat[j].id] = j
        BY <1>5, <1>7, <3>1, <3>3 DEF Joining
      <4> QED BY <1>4, <3>1, <3>3, <4>1 DEF i
    <3> QED BY <3>1, <3>2, <3>3 DEF JoinersPlaced
  <2>3. ASSUME NEW h \in Clients, Waiting(h)', NEW j \in Clients,
               oneshot'[seat[h].id] = j
        PROVE  task'[j] = "passed" /\ seat[j].id = seat[h].id
    <3>1. Waiting(h) /\ seat[h].id # i
      BY <1>4, <1>8, <2>3
    <3>2. oneshot[seat[h].id] = j
      BY <1>5, <1>7, <2>3, <3>1 DEF Hosting
    <3> QED BY <1>4, <3>1, <3>2 DEF JoinersPlaced
  <2> QED BY <2>1, <2>2, <2>3 DEF JoinersPlaced
<1>10. GamesPlayed'
  <2>1. ASSUME NEW h \in Clients, task'[h] = "playing"
        PROVE  /\ seat[h].id \in active /\ oneshot'[seat[h].id] = "received"
               /\ \E j \in Clients : task'[j] = "passed" /\ seat[j].id = seat[h].id
    <3>1. task[h] = "playing"
      BY <1>4, <2>1
    <3>2. seat[h].id # i
      <4>1. h # c
        BY <3>1 DEF Waiting
      <4> QED BY <3>1, <4>1 DEF OneOfEach, Hosting, i
    <3> QED BY <1>4, <1>5, <3>1, <3>2 DEF GamesPlayed, Hosting
  <2>2. \A g \in active : \E h \in Clients : task'[h] = "playing" /\ seat[h].id = g
    BY <1>4 DEF GamesPlayed
  <2> QED BY <2>1, <2>2 DEF GamesPlayed
<1> QED BY <1>6, <1>9, <1>10

\* A joiner takes a listed game, whose sender nobody took before.
LEMMA JoinKeepsPairs ==
    ASSUME TypeOK, TypeOK', ListingInv, PairInv,
           NEW c \in Clients, NEW k \in Keys, NEW rv \in BOOLEAN,
           JoinLegacy(c, k, rv)
    PROVE  PairInv'
<1> USE DEF PairInv
<1>1. PICK s \in waiting :
        /\ oneshot' = [oneshot EXCEPT ![s.id] = "taken"]
        /\ TakesSeat(c, s, FALSE)
  BY DEF JoinLegacy, Named
<1>2. s.id \in Ids /\ s.id < nextGameId /\ oneshot[s.id] = "listed"
  BY DEF TypeOK, Slots, ListingInv, ListingsDistinct
<1>3. /\ ~Hosting(c) /\ ~Joining(c) /\ task'[c] = "handing" /\ seat'[c].id = s.id
      /\ \A d \in Clients : d # c => seat'[d] = seat[d] /\ task'[d] = task[d]
      /\ UNCHANGED <<active, nextGameId>>
  BY <1>1 DEF JoinLegacy, TakesSeat, MayJoin, Hosting, Waiting, Joining, TypeOK
<1>4. /\ oneshot'[s.id] = "taken"
      /\ \A g \in Ids : g # s.id => oneshot'[g] = oneshot[g]
  BY <1>1, <1>2 DEF TypeOK
<1>5. \A d \in Clients : Hosting(d) \/ Joining(d) => seat[d].id \in Ids
  BY RolesHaveIds
<1>6. \A j \in Clients : j # "listed" /\ j # "taken" /\ j # "received"
  BY RoomsAssumption DEF HandoffMarks
<1>7. \A d \in Clients : Joining(d) \/ task[d] = "playing" => seat[d].id # s.id
  BY <1>2, <1>6 DEF JoinersPlaced, GamesPlayed, Joining
<1>8. OneOfEach'
  <2>1. \A d \in Clients : seat'[d].id < nextGameId'
    BY <1>2, <1>3 DEF OneOfEach
  <2>2. \A d \in Clients : d # c => (Joining(d)' <=> Joining(d))
                                    /\ (Hosting(d)' <=> Hosting(d))
    BY <1>3 DEF Joining, Hosting, Waiting
  <2>3. ~Hosting(c)'
    BY <1>3 DEF Hosting, Waiting
  <2> QED BY <1>3, <1>7, <2>1, <2>2, <2>3 DEF OneOfEach
<1>9. JoinersPlaced'
  <2>1. \A j \in Clients : task'[j] = "handing" => oneshot'[seat'[j].id] = "taken"
    BY <1>3, <1>4, <1>5, <1>7 DEF JoinersPlaced, Joining
  <2>2. \A j \in Clients : task'[j] = "passed" =>
         \/ /\ oneshot'[seat'[j].id] = j
            /\ \E h \in Clients : Waiting(h)' /\ seat'[h].id = seat'[j].id
         \/ oneshot'[seat'[j].id] = "received" /\ seat'[j].id \in active'
    <3>1. \A d \in Clients : Waiting(d) => d # c
      BY <1>3 DEF Hosting
    <3>2. \A d \in Clients : d # c => (Waiting(d)' <=> Waiting(d))
      BY <1>3 DEF Waiting
    <3> QED BY <1>3, <1>4, <1>5, <1>7, <3>1, <3>2 DEF JoinersPlaced, Joining
  <2>3. \A h \in Clients : Waiting(h)' =>
         \A j \in Clients : oneshot'[seat'[h].id] = j =>
            task'[j] = "passed" /\ seat'[j].id = seat'[h].id
    BY <1>3, <1>4, <1>5, <1>6 DEF JoinersPlaced, Waiting, Hosting, Joining
  <2> QED BY <2>1, <2>2, <2>3 DEF JoinersPlaced
<1>10. GamesPlayed'
  <2>1. \A h \in Clients : task'[h] = "playing" =>
         /\ seat'[h].id \in active' /\ oneshot'[seat'[h].id] = "received"
         /\ \E j \in Clients : task'[j] = "passed" /\ seat'[j].id = seat'[h].id
    BY <1>3, <1>4, <1>5, <1>7 DEF GamesPlayed, Hosting, Joining
  <2>2. \A g \in active' : \E h \in Clients : task'[h] = "playing" /\ seat'[h].id = g
    BY <1>3 DEF GamesPlayed, Hosting
  <2> QED BY <2>1, <2>2 DEF GamesPlayed
<1> QED BY <1>8, <1>9, <1>10

\* A joiner goes into the channel of a host that waits, or gives up.
LEMMA HandOverKeepsPairs ==
    ASSUME TypeOK, TypeOK', PairInv, NEW c \in Clients,
           HandOver(c) \/ HandOverFails(c)
    PROVE  PairInv'
<1> USE DEF PairInv
<1> DEFINE i == seat[c].id
<1>1. /\ task[c] = "handing" /\ i \in Ids /\ oneshot[i] = "taken"
      /\ UNCHANGED <<active, nextGameId, seat>>
      /\ \A d \in Clients : d # c => task'[d] = task[d]
  BY RolesHaveIds DEF HandOver, HandOverFails, Joining, JoinersPlaced, lobbyVars,
     Ends, TypeOK
<1>2. \/ /\ task'[c] = "passed" /\ oneshot' = [oneshot EXCEPT ![i] = c]
         /\ \E h \in Clients : Waiting(h) /\ seat[h].id = i
      \/ /\ task'[c] = "gone"
         /\ oneshot' = oneshot \/ oneshot' = [oneshot EXCEPT ![i] = "dropped"]
  BY DEF HandOver, HandOverFails, HostWaits, Waiting, Ends, TypeOK
<1>3. /\ \A g \in Ids : g # i => oneshot'[g] = oneshot[g]
      /\ oneshot'[i] \in {"taken", "dropped", c}
      /\ task'[c] = "passed" => oneshot'[i] = c
  BY <1>1, <1>2 DEF TypeOK
<1>4. \A d \in Clients : Hosting(d) \/ Joining(d) => seat[d].id \in Ids
  BY RolesHaveIds
<1>5. \A j \in Clients : j \notin {"listed", "taken", "dropped", "received"}
  BY RoomsAssumption DEF HandoffMarks
<1>6. \A d \in Clients : d # c /\ Joining(d) => seat[d].id # i
  BY <1>1 DEF OneOfEach, Joining
<1>7. \A d \in Clients : task[d] = "playing" => seat[d].id # i
  BY <1>1 DEF GamesPlayed
<1> HIDE DEF i
<1>8. \A d \in Clients : /\ Waiting(d)' <=> Waiting(d)
                         /\ Hosting(d)' <=> Hosting(d)
                         /\ Joining(d)' => Joining(d)
  BY <1>1, <1>2 DEF Waiting, Hosting, Joining
<1>9. OneOfEach'
  BY <1>1, <1>8 DEF OneOfEach
<1>10. JoinersPlaced'
  <2>1. \A j \in Clients : task'[j] = "handing" => oneshot'[seat'[j].id] = "taken"
    BY <1>1, <1>2, <1>3, <1>4, <1>6 DEF JoinersPlaced, Joining
  <2>2. ASSUME NEW j \in Clients, task'[j] = "passed"
        PROVE  \/ /\ oneshot'[seat'[j].id] = j
                  /\ \E h \in Clients : Waiting(h)' /\ seat'[h].id = seat'[j].id
               \/ oneshot'[seat'[j].id] = "received" /\ seat'[j].id \in active'
    <3>1. CASE j = c
      BY <1>1, <1>2, <1>3, <1>8, <2>2, <3>1 DEF i
    <3>2. CASE j # c
      BY <1>1, <1>3, <1>4, <1>6, <1>8, <2>2, <3>2 DEF JoinersPlaced, Joining
    <3> QED BY <3>1, <3>2
  <2>3. ASSUME NEW h \in Clients, Waiting(h)', NEW j \in Clients,
               oneshot'[seat'[h].id] = j
        PROVE  task'[j] = "passed" /\ seat'[j].id = seat'[h].id
    <3>1. Waiting(h) /\ seat[h].id \in Ids /\ seat' = seat
      BY <1>1, <1>4, <1>8, <2>3 DEF Hosting
    <3>2. CASE seat[h].id = i
      <4>1. j = c
        BY <1>3, <1>5, <2>3, <3>1, <3>2
      <4>2. task'[c] = "passed"
        BY <1>1, <1>2, <1>5, <2>3, <3>1, <3>2, <4>1 DEF TypeOK
      <4> QED BY <3>1, <3>2, <4>1, <4>2 DEF i
    <3>3. CASE seat[h].id # i
      <4>1. task[j] = "passed" /\ seat[j].id = seat[h].id
        BY <1>3, <2>3, <3>1, <3>3 DEF JoinersPlaced
      <4> QED BY <1>1, <3>1, <4>1
    <3> QED BY <3>2, <3>3
  <2> QED BY <2>1, <2>2, <2>3 DEF JoinersPlaced
<1>11. GamesPlayed'
  <2>1. \A h \in Clients : task'[h] = "playing" =>
         /\ seat'[h].id \in active' /\ oneshot'[seat'[h].id] = "received"
         /\ \E j \in Clients : task'[j] = "passed" /\ seat'[j].id = seat'[h].id
    BY <1>1, <1>2, <1>3, <1>4, <1>7 DEF GamesPlayed, Hosting
  <2>2. \A g \in active' : \E h \in Clients : task'[h] = "playing" /\ seat'[h].id = g
    BY <1>1, <1>2 DEF GamesPlayed
  <2> QED BY <2>1, <2>2 DEF GamesPlayed
<1> QED BY <1>9, <1>10, <1>11

\* A host receives the joiner in its channel: the two are a running game.
LEMMA ReceiveKeepsPairs ==
    ASSUME TypeOK, TypeOK', PairInv, NEW c \in Clients, ReceiveJoiner(c)
    PROVE  PairInv'
<1> USE DEF PairInv
<1> DEFINE i == seat[c].id
<1>1. PICK j \in Clients : j = oneshot[i]
  BY DEF ReceiveJoiner
<1>2. /\ task[c] = "hosting" /\ Waiting(c) /\ i \in Ids
      /\ task'[c] = "playing" /\ \A d \in Clients : d # c => task'[d] = task[d]
      /\ oneshot'[i] = "received"
      /\ \A g \in Ids : g # i => oneshot'[g] = oneshot[g]
      /\ active' = active \union {i}
      /\ UNCHANGED <<seat, nextGameId>>
  BY RolesHaveIds DEF ReceiveJoiner, Waiting, Hosting, TypeOK
<1>3. task[j] = "passed" /\ seat[j].id = i /\ j # c
  BY <1>1, <1>2 DEF JoinersPlaced
<1>4. \A d \in Clients : Hosting(d) \/ Joining(d) => seat[d].id \in Ids
  BY RolesHaveIds
<1>5. \A d \in Clients : d # "received" /\ d # "taken"
  BY RoomsAssumption DEF HandoffMarks
<1> HIDE DEF i
<1>6. \A d \in Clients : /\ Waiting(d)' <=> Waiting(d) /\ d # c
                         /\ Hosting(d)' <=> Hosting(d)
                         /\ Joining(d)' <=> Joining(d)
  BY <1>2 DEF Waiting, Hosting, Joining
<1>7. \A d \in Clients : Joining(d) /\ seat[d].id = i => d = j
  BY <1>3 DEF OneOfEach, Joining
<1>8. OneOfEach'
  BY <1>2, <1>6 DEF OneOfEach
<1>9. \A d \in Clients : Hosting(d) /\ d # c => seat[d].id # i
  BY <1>2 DEF OneOfEach, Hosting, i
<1>10. JoinersPlaced'
  <2>1. \A d \in Clients : task'[d] = "handing" => oneshot'[seat'[d].id] = "taken"
    BY <1>2, <1>3, <1>4, <1>7 DEF JoinersPlaced, Joining
  <2>2. ASSUME NEW d \in Clients, task'[d] = "passed"
        PROVE  \/ /\ oneshot'[seat'[d].id] = d
                  /\ \E h \in Clients : Waiting(h)' /\ seat'[h].id = seat'[d].id
               \/ oneshot'[seat'[d].id] = "received" /\ seat'[d].id \in active'
    <3>1. CASE seat[d].id = i
      BY <1>2, <3>1
    <3>2. CASE seat[d].id # i
      <4>1. task[d] = "passed" /\ oneshot'[seat[d].id] = oneshot[seat[d].id]
        BY <1>2, <1>4, <2>2, <3>2 DEF Joining
      <4> QED BY <1>2, <1>6, <3>2, <4>1 DEF JoinersPlaced, i
    <3> QED BY <3>1, <3>2
  <2>3. \A h \in Clients : Waiting(h)' =>
         \A d \in Clients : oneshot'[seat'[h].id] = d =>
            task'[d] = "passed" /\ seat'[d].id = seat'[h].id
    BY <1>2, <1>4, <1>6, <1>9 DEF JoinersPlaced, Hosting
  <2> QED BY <2>1, <2>2, <2>3 DEF JoinersPlaced
<1>11. GamesPlayed'
  <2>1. ASSUME NEW h \in Clients, task'[h] = "playing"
        PROVE  /\ seat'[h].id \in active' /\ oneshot'[seat'[h].id] = "received"
               /\ \E d \in Clients : task'[d] = "passed" /\ seat'[d].id = seat'[h].id
    <3>1. CASE h = c
      BY <1>2, <1>3, <3>1 DEF i
    <3>2. CASE h # c
      BY <1>2, <1>4, <1>9, <2>1, <3>2 DEF GamesPlayed, Hosting
    <3> QED BY <3>1, <3>2
  <2>2. \A g \in active' : \E h \in Clients : task'[h] = "playing" /\ seat'[h].id = g
    BY <1>2 DEF GamesPlayed, i
  <2> QED BY <2>1, <2>2 DEF GamesPlayed
<1> QED BY <1>8, <1>10, <1>11

\* A game ends with both its players, and no other game loses one.
LEMMA GameEndKeepsPairs ==
    ASSUME TypeOK, TypeOK', PairInv, NEW c \in Clients, EndGame(c)
    PROVE  PairInv'
<1> USE DEF PairInv
<1> DEFINE i == seat[c].id
<1>1. /\ task[c] = "playing" /\ active' = active \ {i}
      /\ \A d \in Clients :
           task'[d] = IF d = c \/ (task[d] = "passed" /\ seat[d].id = i)
                      THEN "gone" ELSE task[d]
      /\ UNCHANGED <<seat, nextGameId, oneshot>>
  BY DEF EndGame, PlayersEnd, channelVars
<1> HIDE DEF i
<1>2. \A d \in Clients : /\ Waiting(d)' <=> Waiting(d)
                         /\ Hosting(d)' <=> Hosting(d) /\ d # c
                         /\ Joining(d)' => Joining(d)
                         /\ task'[d] = "passed" <=> task[d] = "passed" /\ seat[d].id # i
                         /\ task'[d] = "playing" <=> task[d] = "playing" /\ d # c
                         /\ task'[d] = "handing" <=> task[d] = "handing"
  BY <1>1 DEF Waiting, Hosting, Joining
<1>3. \A d \in Clients : Hosting(d) /\ d # c => seat[d].id # i
  BY <1>1 DEF OneOfEach, Hosting, i
<1>4. OneOfEach'
  BY <1>1, <1>2 DEF OneOfEach
<1>5. JoinersPlaced'
  <2>1. \A j \in Clients : task'[j] = "passed" =>
         \/ /\ oneshot'[seat'[j].id] = j
            /\ \E h \in Clients : Waiting(h)' /\ seat'[h].id = seat'[j].id
         \/ oneshot'[seat'[j].id] = "received" /\ seat'[j].id \in active'
    BY <1>1, <1>2 DEF JoinersPlaced
  <2>2. ASSUME NEW h \in Clients, Waiting(h)', NEW j \in Clients,
               oneshot'[seat'[h].id] = j
        PROVE  task'[j] = "passed" /\ seat'[j].id = seat'[h].id
    <3>1. Waiting(h) /\ seat[h].id # i
      BY <1>1, <1>2, <1>3, <2>2 DEF Hosting, Waiting
    <3>2. task[j] = "passed" /\ seat[j].id = seat[h].id
      BY <1>1, <2>2, <3>1 DEF JoinersPlaced
    <3> QED BY <1>1, <1>2, <3>1, <3>2
  <2>3. \A j \in Clients : task'[j] = "handing" => oneshot'[seat'[j].id] = "taken"
    BY <1>1, <1>2 DEF JoinersPlaced
  <2> QED BY <2>1, <2>2, <2>3 DEF JoinersPlaced
<1>6. GamesPlayed'
  <2>1. \A h \in Clients : task'[h] = "playing" =>
         /\ seat'[h].id \in active' /\ oneshot'[seat'[h].id] = "received"
         /\ \E j \in Clients : task'[j] = "passed" /\ seat'[j].id = seat'[h].id
    BY <1>1, <1>2, <1>3 DEF GamesPlayed, Hosting
  <2>2. \A g \in active' : \E h \in Clients : task'[h] = "playing" /\ seat'[h].id = g
    BY <1>1, <1>2 DEF GamesPlayed, i
  <2> QED BY <2>1, <2>2 DEF GamesPlayed
<1> QED BY <1>4, <1>5, <1>6

\* A host is listed under an id nobody has.
LEMMA CreateKeepsPairs ==
    ASSUME TypeOK, TypeOK', ListingInv, PairInv,
           NEW c \in Clients, NEW k \in Keys, NEW rv \in BOOLEAN,
           CreateSlot(c, k, rv)
    PROVE  PairInv'
<1> USE DEF PairInv
<1>1. /\ ~Hosting(c) /\ ~Joining(c) /\ task'[c] = "announcing"
      /\ seat'[c].id = nextGameId
      /\ \A d \in Clients : d # c => seat'[d] = seat[d] /\ task'[d] = task[d]
      /\ nextGameId \in Ids /\ nextGameId' = nextGameId + 1
      /\ UNCHANGED <<active, oneshot>>
  BY DEF CreateSlot, MayCreate, Hosting, Waiting, Joining, TypeOK, channelVars, Ids
<1>2. \A d \in Clients : seat[d].id \in Nat /\ seat[d].id < nextGameId
  BY DEF OneOfEach, TypeOK, Seats, Ids
<1>3. oneshot[nextGameId] = "listed"
  BY <1>1 DEF ListingInv, FreshIdsUntouched, Ids
<1>4. \A j \in Clients : j # "listed"
  BY RoomsAssumption DEF HandoffMarks
<1>5. \A d \in Clients : d # c => /\ Waiting(d)' <=> Waiting(d)
                                  /\ Hosting(d)' <=> Hosting(d)
                                  /\ Joining(d)' <=> Joining(d)
  BY <1>1 DEF Waiting, Hosting, Joining
<1>6. ~Joining(c)' /\ nextGameId \in Nat
  BY <1>1 DEF Joining, Ids
<1>7. OneOfEach'
  BY <1>1, <1>2, <1>5, <1>6 DEF OneOfEach
<1>8. JoinersPlaced'
  <2>1. \A j \in Clients : task'[j] = "handing" => oneshot'[seat'[j].id] = "taken"
    BY <1>1 DEF JoinersPlaced
  <2>2. \A j \in Clients : task'[j] = "passed" =>
         \/ /\ oneshot'[seat'[j].id] = j
            /\ \E h \in Clients : Waiting(h)' /\ seat'[h].id = seat'[j].id
         \/ oneshot'[seat'[j].id] = "received" /\ seat'[j].id \in active'
    BY <1>1, <1>5 DEF JoinersPlaced, Hosting
  <2>3. \A h \in Clients : Waiting(h)' =>
         \A j \in Clients : oneshot'[seat'[h].id] = j =>
            task'[j] = "passed" /\ seat'[j].id = seat'[h].id
    BY <1>1, <1>3, <1>4, <1>5 DEF JoinersPlaced, Joining
  <2> QED BY <2>1, <2>2, <2>3 DEF JoinersPlaced
<1>9. GamesPlayed'
  <2>1. \A h \in Clients : task'[h] = "playing" =>
         /\ seat'[h].id \in active' /\ oneshot'[seat'[h].id] = "received"
         /\ \E j \in Clients : task'[j] = "passed" /\ seat'[j].id = seat'[h].id
    BY <1>1 DEF GamesPlayed, Joining
  <2>2. \A g \in active' : \E h \in Clients : task'[h] = "playing" /\ seat'[h].id = g
    BY <1>1 DEF GamesPlayed, Hosting
  <2> QED BY <2>1, <2>2 DEF GamesPlayed
<1> QED BY <1>7, <1>8, <1>9

\* Every step keeps hosts and joiners in pairs.
LEMMA PairStep ==
    TypeOK /\ TypeOK' /\ ListingInv /\ PairInv /\ [Next]_vars => PairInv'
<1> SUFFICES ASSUME TypeOK, TypeOK', ListingInv, PairInv, [Next]_vars PROVE PairInv'
  OBVIOUS
<1> USE DEF lobbyVars, channelVars, historyVars
<1>1. nextGameId \in Nat /\ \A c \in Clients : seat[c].id < nextGameId
  BY DEF TypeOK, PairInv, OneOfEach
<1>0. ASSUME UNCHANGED <<active, nextGameId, seat>>,
             \A g \in Ids : oneshot'[g] = oneshot[g]
                            \/ (oneshot[g] = "listed" /\ oneshot'[g] = "dropped"),
             \A d \in Clients :
                \/ task'[d] = task[d] \/ (Waiting(d) /\ Waiting(d)')
                \/ ~Hosting(d) /\ ~Joining(d) /\ ~Hosting(d)' /\ ~Joining(d)'
      PROVE  PairInv'
  <2>1. UNCHANGED active /\ nextGameId <= nextGameId'
    BY <1>0, <1>1
  <2>2. \A d \in Clients :
          \/ /\ seat'[d] = seat[d]
             /\ task'[d] = task[d] \/ (Waiting(d) /\ Waiting(d)')
          \/ /\ ~Hosting(d) /\ ~Joining(d) /\ ~Hosting(d)' /\ ~Joining(d)'
             /\ seat'[d].id < nextGameId'
    BY <1>0, <1>1
  <2> QED BY <1>0, <2>1, <2>2, RolesKeepPairs
<1>2. ASSUME NEW c \in Clients,
             \/ AuthenticateLooks(c) \/ ClientCloses(c) \/ LeaveLobby(c)
             \/ Announce(c) \/ HandoffFails(c) \/ HostUpdate(c)
             \/ HostLeaves(c) \/ EnterRoom(c) \/ EnterRoomFails(c)
             \/ HostGoes(c) \/ GuestGoes(c)
             \/ GuestUpdate(c) \/ HostSetDeck(c) \/ GuestSetDeck(c)
             \/ GuestDisconnects(c) \/ GuestDrops(c)
      PROVE  PairInv'
  <2>1. UNCHANGED <<active, nextGameId, seat, oneshot>>
    BY <1>2 DEF AuthenticateLooks, ClientCloses, LeaveLobby, Announce,
                HandoffFails, HostUpdate, HostLeaves, EnterRoom, EnterRoomFails,
                GuestUpdate, HostGoes, GuestGoes, HostSetDeck, GuestSetDeck, GuestDisconnects,
                GuestDrops
  <2>2. \A d \in Clients :
           \/ task'[d] = task[d] \/ (Waiting(d) /\ Waiting(d)')
           \/ ~Hosting(d) /\ ~Joining(d) /\ ~Hosting(d)' /\ ~Joining(d)'
    BY <1>2 DEF AuthenticateLooks, ClientCloses, LeaveLobby, Announce,
                HandoffFails, HostUpdate, HostLeaves, EnterRoom, EnterRoomFails,
                GuestUpdate, HostGoes, GuestGoes, HostSetDeck, GuestSetDeck, GuestDisconnects,
                GuestDrops, Ends, Waiting, Hosting, Joining, TypeOK
  <2> QED BY <1>0, <2>1, <2>2
<1>3. ASSUME NEW c \in Clients, NEW ready \in BOOLEAN,
             HostSetReady(c, ready) \/ GuestSetReady(c, ready)
      PROVE  PairInv'
  <2>1. UNCHANGED <<active, nextGameId, seat, oneshot>>
    BY <1>3 DEF HostSetReady, GuestSetReady
  <2>2. \A d \in Clients :
           \/ task'[d] = task[d] \/ (Waiting(d) /\ Waiting(d)')
           \/ ~Hosting(d) /\ ~Joining(d) /\ ~Hosting(d)' /\ ~Joining(d)'
    <3>1. CASE HostSetReady(c, ready)
      BY <3>1 DEF HostSetReady, Waiting, TypeOK
    <3>2. CASE GuestSetReady(c, ready)
      BY <3>2 DEF GuestSetReady, Waiting, Hosting, Joining, TypeOK
    <3> QED BY <1>3, <3>1, <3>2
  <2> QED BY <1>0, <2>1, <2>2
<1>4. ASSUME NEW c \in Clients, NEW k \in Keys, NEW rv \in BOOLEAN,
             CreateRefused(c, k, rv) \/ JoinRoom(c, k, rv)
      PROVE  PairInv'
  <2>1. /\ UNCHANGED <<active, oneshot>> /\ nextGameId' \in Nat
        /\ nextGameId <= nextGameId'
    <3>1. UNCHANGED <<active, oneshot>>
      BY <1>4 DEF CreateRefused, JoinRoom
    <3>2. nextGameId' = nextGameId \/ nextGameId' = nextGameId + 1
      BY <1>4 DEF CreateRefused, JoinRoom
    <3> QED BY <1>1, <3>1, <3>2
  <2>2. /\ \A d \in Clients : d # c => seat'[d] = seat[d] /\ task'[d] = task[d]
        /\ ~Hosting(c) /\ ~Joining(c) /\ ~Hosting(c)' /\ ~Joining(c)'
    <3>1. CASE CreateRefused(c, k, rv)
      BY <3>1 DEF CreateRefused, MayCreate, Ends, Hosting, Waiting, Joining, TypeOK
    <3>2. CASE JoinRoom(c, k, rv)
      BY <3>2 DEF JoinRoom, MayJoin, TakesSeat, Hosting, Waiting, Joining, TypeOK
    <3> QED BY <1>4, <3>1, <3>2
  <2>3. seat'[c].id < nextGameId'
    <3>1. CASE JoinRoom(c, k, rv)
      <4>1. PICK s \in waiting : TakesSeat(c, s, TRUE)
        BY <3>1 DEF JoinRoom, Named
      <4>2. seat'[c].id = s.id /\ nextGameId' = nextGameId
        BY <3>1, <4>1 DEF JoinRoom, TakesSeat, TypeOK
      <4> QED BY <4>2 DEF ListingInv, ListingsDistinct
    <3>2. CASE CreateRefused(c, k, rv)
      <4>1. seat' = seat /\ nextGameId' = nextGameId + 1
        BY <3>2 DEF CreateRefused
      <4>2. seat[c].id \in Nat
        BY RoomsAssumption DEF TypeOK, Seats, Ids
      <4> QED BY <1>1, <4>1, <4>2
    <3> QED BY <1>4, <3>1, <3>2
  <2> QED BY <2>1, <2>2, <2>3, RolesKeepPairs
<1>5. ASSUME NEW c \in Clients, AnnounceFails(c) \/ Evict(c) PROVE PairInv'
  <2>1. /\ Waiting(c) /\ HostEnds(c) /\ UNCHANGED <<active, nextGameId, seat>>
        /\ \A g \in Ids : oneshot'[g] = oneshot[g]
                          \/ (oneshot[g] = "listed" /\ oneshot'[g] = "dropped")
    <3>1. CASE AnnounceFails(c)
      BY <3>1 DEF AnnounceFails, Waiting
    <3>2. CASE Evict(c)
      BY <3>2 DEF Evict, RemoveNamed, Waiting
    <3> QED BY <1>5, <3>1, <3>2
  <2> QED BY <2>1, HostEndsKeepsPairs
<1>6. ASSUME NEW c \in Clients, FreeSlot(c) PROVE PairInv'
  <2>1. /\ UNCHANGED <<active, nextGameId, seat>>
        /\ \A g \in Ids : oneshot'[g] = oneshot[g]
                          \/ (oneshot[g] = "listed" /\ oneshot'[g] = "dropped")
    BY <1>6 DEF FreeSlot, RemoveNamed
  <2>2. \A d \in Clients :
           \/ task'[d] = task[d]
           \/ ~Hosting(d) /\ ~Joining(d) /\ ~Hosting(d)' /\ ~Joining(d)'
    BY <1>6 DEF FreeSlot, Ends, Waiting, Hosting, Joining, TypeOK
  <2> QED BY <1>0, <2>1, <2>2
<1>7. CASE UNCHANGED vars
  <2>1. UNCHANGED <<active, nextGameId, seat, oneshot, task>>
    BY <1>7 DEF vars
  <2> QED BY <1>0, <2>1
<1> QED
  BY <1>2, <1>3, <1>4, <1>5, <1>6, <1>7, CreateKeepsPairs, JoinKeepsPairs,
     HandOverKeepsPairs, ReceiveKeepsPairs, GameEndKeepsPairs
     DEF Next, ClientStep, HostTaskStep, GuestTaskStep

-----------------------------------------------------------------------------
\* The inductive invariant holds throughout.
THEOREM RoomsInvariant == Spec => []RoomsInv
<1>1. Init => RoomsInv
  <2> SUFFICES ASSUME Init PROVE RoomsInv
    OBVIOUS
  <2> USE RoomsAssumption DEF Init, Ids
  <2>1. TypeOK
    BY DEF TypeOK, Slots, Seats, Snapshots, TaskPoints, OneshotStates, HandoffMarks
  <2>2. ListingInv
    BY DEF ListingInv, ListingsDistinct, FreshIdsUntouched, SendersTaken
  <2>3. HostInv
    BY DEF HostInv, HostsSeated, AnnouncedReachedLoop, ChannelHoldsJoiners, HandoffMarks
  <2> QED BY <2>1, <2>2, <2>3 DEF RoomsInv
<1>2. RoomsInv /\ [Next]_vars => RoomsInv'
  BY TypeStep, ListingStep, HostStep DEF RoomsInv
<1> QED BY <1>1, <1>2, PTL DEF Spec

\* The lobby's state stays within its types (lobby.rs LobbyState, server.rs).
THEOREM TypeCorrect == Spec => []TypeOK
<1>1. RoomsInv => TypeOK
  BY DEF RoomsInv
<1> QED BY <1>1, RoomsInvariant, PTL

\* Names and ids are listed once, ids are fresh and a listed game can be joined,
\* in every interleaving of creates, joins and evictions (server.rs
\* run_create_flow, run_join_flow).
THEOREM ListingsAreDistinct == Spec => []ListingsDistinct
<1>1. RoomsInv => ListingsDistinct
  BY DEF RoomsInv, ListingInv
<1> QED BY <1>1, RoomsInvariant, PTL

\* A game never waits in the lobby and runs at once (server.rs run_create_flow,
\* run_join_flow).
THEOREM NeverBothListedAndActive == Spec => []NeverListedAndActive
<1>1. RoomsInv => NeverListedAndActive
  BY DEF RoomsInv, ListingInv, ListingsDistinct, SendersTaken,
         NeverListedAndActive
<1> QED BY <1>1, RoomsInvariant, PTL

\* A host that reached its waiting loop takes its listing along, whichever way
\* it leaves (server.rs run_create_flow).
THEOREM NoGhostOfAnnouncedHost == Spec => []AnnouncedHostKeepsNoGhost
<1>1. RoomsInv => AnnouncedHostKeepsNoGhost
  BY DEF RoomsInv, HostInv, HostsSeated, AnnouncedReachedLoop,
         AnnouncedHostKeepsNoGhost
<1> QED BY <1>1, RoomsInvariant, PTL

\* A player who cancels or changes deck takes back a start that was published:
\* the snapshot of a listed room says start only while both are ready, or after
\* the joiner disconnected (server.rs SetReady and SetDeck arms).
THEOREM StaleGoIsWithdrawn == Spec => []GoIsWithdrawn
<1>1. Init => GoInv
  BY DEF Init, GoInv, GoIsWithdrawn, FreshIdsUnpublished
<1>2. RoomsInv /\ RoomsInv' /\ GoInv /\ [Next]_vars => GoInv'
  BY GoStep DEF RoomsInv
<1>3. GoInv => GoIsWithdrawn
  BY DEF GoInv
<1> QED BY <1>1, <1>2, <1>3, RoomsInvariant, PTL DEF Spec

\* No task makes up its mind to send WaitingRoomReady but on a snapshot of its
\* room that says start, or under a name that belongs to another game by now; and
\* no other task sends it (server.rs, both arms that send WaitingRoomReady).
THEOREM NobodyStartsAlone == Spec => GoOnlyWhenBothReady
<1> DEFINE Told(c) == \/ watch'[seat[c].id].start
                      \/ \E s \in Named(seat[c].key) : s.id # seat[c].id
           Fair(c) == /\ Going(c)' /\ ~Going(c) => Told(c)
                      /\ c \in go' \ go => Going(c)
<1>1. ASSUME RoomsInv, [Next]_vars PROVE \A c \in Clients : Fair(c)
  <2>1. ASSUME NEW d \in Clients, HostUpdate(d) \/ GuestUpdate(d), NEW c \in Clients
        PROVE  Fair(c)
    <3>1. go' = go /\ watch' = watch
      BY <2>1 DEF HostUpdate, GuestUpdate, historyVars
    <3>2. task' = task \/ \E at \in TaskPoints : task' = [task EXCEPT ![d] = at]
      BY <2>1 DEF HostUpdate, GuestUpdate, TaskPoints
    <3>3. Going(c)' /\ ~Going(c) => c = d
      BY <1>1, <3>2 DEF Going, RoomsInv, TypeOK
    <3>4. Going(d)' => watch[seat[d].id].start
      BY <1>1, <2>1 DEF Going, HostUpdate, GuestUpdate, RoomsInv, TypeOK
    <3> QED BY <3>1, <3>3, <3>4
  <2>2. ASSUME NEW d \in Clients, NEW ready \in BOOLEAN,
               HostSetReady(d, ready) \/ GuestSetReady(d, ready), NEW c \in Clients
        PROVE  Fair(c)
    <3>1. PICK s \in Named(seat[d].key), both \in BOOLEAN, at \in TaskPoints :
            /\ Publish(s.id, both, s.guest)
            /\ task' = [task EXCEPT ![d] = IF both THEN at ELSE @]
      <4>1. CASE HostSetReady(d, ready)
        BY <4>1 DEF HostSetReady, BothReady, TaskPoints
      <4>2. CASE GuestSetReady(d, ready)
        BY <4>2 DEF GuestSetReady, BothReady, TaskPoints
      <4> QED BY <2>2, <4>1, <4>2
    <3>2. go' = go
      BY <2>2 DEF HostSetReady, GuestSetReady, historyVars
    <3>3. Going(c)' /\ ~Going(c) => c = d /\ both = TRUE
      BY <1>1, <3>1 DEF Going, RoomsInv, TypeOK
    <3>4. s.id \in Ids
      BY <1>1 DEF Named, RoomsInv, TypeOK, Slots
    <3>5. both = TRUE => watch'[s.id].start
      BY <1>1, <3>1, <3>4 DEF Publish, RoomsInv, TypeOK
    <3> QED BY <3>2, <3>3, <3>5
  <2>3. ASSUME NEW d \in Clients, HostGoes(d) \/ GuestGoes(d), NEW c \in Clients
        PROVE  Fair(c)
    BY <1>1, <2>3 DEF HostGoes, GuestGoes, Going, RoomsInv, TypeOK
  <2>4. ASSUME NEW d \in Clients,
               \/ AuthenticateLooks(d) \/ ClientCloses(d) \/ HostSetDeck(d)
               \/ GuestSetDeck(d) \/ GuestDisconnects(d) \/ Announce(d)
               \/ AnnounceFails(d) \/ ReceiveJoiner(d) \/ Evict(d)
               \/ HandOver(d) \/ HandOverFails(d) \/ EnterRoom(d)
               \/ EnterRoomFails(d) \/ GuestDrops(d) \/ FreeSlot(d)
               \/ LeaveLobby(d) \/ HandoffFails(d) \/ HostLeaves(d)
               \/ EndGame(d),
               NEW c \in Clients
        PROVE  Fair(c)
    <3>1. go' = go
      BY <2>4 DEF historyVars, AuthenticateLooks, ClientCloses, HostSetDeck,
         GuestSetDeck, GuestDisconnects, Announce, AnnounceFails, ReceiveJoiner,
         Evict, HandOver, HandOverFails, EnterRoom, EnterRoomFails, GuestDrops,
         FreeSlot, LeaveLobby, HandoffFails, HostLeaves, EndGame
    <3>2. Going(c)' => Going(c)
      BY <1>1, <2>4 DEF AuthenticateLooks, ClientCloses, HostSetDeck,
         GuestSetDeck, GuestDisconnects, Announce, AnnounceFails, ReceiveJoiner,
         Evict, HandOver, HandOverFails, EnterRoom, EnterRoomFails, GuestDrops,
         FreeSlot, LeaveLobby, HandoffFails, HostLeaves, EndGame, Ends, HostEnds,
         PlayersEnd, Going, RoomsInv, TypeOK
    <3> QED BY <3>1, <3>2
  <2>5. ASSUME NEW d \in Clients, NEW k \in Keys, NEW rv \in BOOLEAN,
               \/ CreateSlot(d, k, rv) \/ CreateRefused(d, k, rv)
               \/ JoinRoom(d, k, rv) \/ JoinLegacy(d, k, rv),
               NEW c \in Clients
        PROVE  Fair(c)
    <3>1. go' = go
      BY <2>5 DEF historyVars, CreateSlot, CreateRefused, JoinRoom, JoinLegacy
    <3>2. Going(c)' => Going(c)
      BY <1>1, <2>5 DEF CreateSlot, CreateRefused, JoinRoom, JoinLegacy, Ends,
         Going, RoomsInv, TypeOK
    <3> QED BY <3>1, <3>2
  <2>6. CASE UNCHANGED vars
    BY <2>6 DEF vars, historyVars, Going
  <2> HIDE DEF Fair
  <2> QED
    BY <1>1, <2>1, <2>2, <2>3, <2>4, <2>5, <2>6
       DEF Next, ClientStep, HostTaskStep, GuestTaskStep
<1>2. RoomsInv /\ [Next]_vars =>
        [\A c \in Clients :
            /\ Going(c)' /\ ~Going(c) =>
                  \/ watch'[seat[c].id].start
                  \/ \E s \in Named(seat[c].key) : s.id # seat[c].id
            /\ c \in go' \ go => Going(c)]_vars
  BY <1>1
<1> QED BY <1>2, RoomsInvariant, PTL DEF Spec, GoOnlyWhenBothReady

\* A running game has one host and one joiner, and no connection plays in two
\* games or for a game that does not run (server.rs run_create_flow,
\* run_join_flow: the hand-off channel).
THEOREM GamesAreOfTwo == Spec => []GamesHaveTwoPlayers
<1>1. Init => PairInv
  <2> SUFFICES ASSUME Init PROVE PairInv
    OBVIOUS
  <2>1. \A c \in Clients : seat[c].id = 0 /\ ~Hosting(c) /\ ~Joining(c)
                           /\ ~Waiting(c) /\ task[c] = "lobby"
    BY DEF Init, Hosting, Joining, Waiting
  <2> QED BY <2>1 DEF Init, PairInv, OneOfEach, JoinersPlaced, GamesPlayed
<1>2. RoomsInv /\ RoomsInv' /\ PairInv /\ [Next]_vars => PairInv'
  BY PairStep DEF RoomsInv
<1>3. PairInv => GamesHaveTwoPlayers
  <2> SUFFICES ASSUME PairInv PROVE GamesHaveTwoPlayers
    OBVIOUS
  <2>1. ASSUME NEW g \in active
        PROVE  /\ Cardinality({h \in Clients : task[h] = "playing" /\ seat[h].id = g}) = 1
               /\ Cardinality({j \in Clients : task[j] = "passed" /\ seat[j].id = g}) = 1
    <3>1. PICK h \in Clients : task[h] = "playing" /\ seat[h].id = g
      BY DEF PairInv, GamesPlayed
    <3>2. PICK j \in Clients : task[j] = "passed" /\ seat[j].id = g
      BY <3>1 DEF PairInv, GamesPlayed
    <3>3. {d \in Clients : task[d] = "playing" /\ seat[d].id = g} = {h}
      BY <3>1 DEF PairInv, OneOfEach, Hosting
    <3>4. {d \in Clients : task[d] = "passed" /\ seat[d].id = g} = {j}
      BY <3>2 DEF PairInv, OneOfEach, Joining
    <3> QED BY <3>3, <3>4, FS_Singleton
  <2> QED BY <2>1 DEF GamesHaveTwoPlayers, PairInv, GamesPlayed
<1> QED BY <1>1, <1>2, <1>3, RoomsInvariant, PTL DEF Spec
=============================================================================
