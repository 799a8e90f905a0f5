------------------------- MODULE NameRegistryProofs -------------------------
(***************************************************************************)
(* Proofs about NameRegistry.tla for any sets of connections and names.    *)
(***************************************************************************)
EXTENDS NameRegistry, TLAPS

\* The registry's state stays within its types (lobby.rs LobbyState).
THEOREM TypeCorrect == Spec => []TypeOK
<1>1. Init => TypeOK
  BY DEF Init, TypeOK, TaskPoints
<1>2. TypeOK /\ [Next]_vars => TypeOK'
  <2> SUFFICES ASSUME TypeOK, [Next]_vars PROVE TypeOK'
    OBVIOUS
  <2> USE RegistryAssumption DEF TypeOK, TaskPoints
  <2>1. ASSUME NEW c \in Connections, Accept(c) PROVE TypeOK'
    BY <2>1 DEF Accept
  <2>2. ASSUME NEW c \in Connections, NEW n \in Names, Register(c, n)
        PROVE  TypeOK'
    BY <2>2 DEF Register
  <2>3. ASSUME NEW c \in Connections, Commit(c) PROVE TypeOK'
    BY <2>3 DEF Commit
  <2>4. ASSUME NEW c \in Connections, HandOver(c) PROVE TypeOK'
    BY <2>4 DEF HandOver
  <2>5. ASSUME NEW c \in Connections, Return(c) PROVE TypeOK'
    BY <2>5 DEF Return
  <2>6. ASSUME NEW c \in Connections, Disconnect(c) PROVE TypeOK'
    BY <2>6 DEF Disconnect
  <2>7. ASSUME NEW c \in Connections, Cleanup(c) PROVE TypeOK'
    BY <2>7 DEF Cleanup, Release
  <2>8. CASE UNCHANGED vars
    BY <2>8 DEF vars
  <2> QED
    BY <2>1, <2>2, <2>3, <2>4, <2>5, <2>6, <2>7, <2>8 DEF Next
<1> QED BY <1>1, <1>2, PTL DEF Spec

\* A step keeps every current name held.  Only Register and Cleanup write the
\* reservations, and each writes an entry that no other connection owns.
LEMMA StepKeepsCurrentNames ==
    ASSUME TypeOK, CurrentNameHeld, [Next]_vars
    PROVE  CurrentNameHeld'
<1> USE RegistryAssumption DEF TypeOK, CurrentNameHeld
<1>1. ASSUME NEW c \in Connections, Accept(c) PROVE CurrentNameHeld'
  BY <1>1 DEF Accept
<1>2. ASSUME NEW c \in Connections, NEW n \in Names, Register(c, n)
      PROVE  CurrentNameHeld'
  <2> SUFFICES ASSUME NEW d \in Connections,
                      registeredName'[d] # NoName, task'[d] # "ended"
               PROVE  holder'[Lower[registeredName'[d]]] = d
    OBVIOUS
  <2>1. CASE d = c
    BY <1>2, <2>1 DEF Register
  <2>2. CASE d # c
    <3>1. holder[Lower[registeredName[d]]] = d
      BY <1>2, <2>2 DEF Register
    <3>2. Lower[registeredName[d]] # Lower[n]
      BY <1>2, <3>1 DEF Register, NameTaken
    <3> QED BY <1>2, <2>2, <3>1, <3>2 DEF Register
  <2> QED BY <2>1, <2>2
<1>3. ASSUME NEW c \in Connections, Commit(c) PROVE CurrentNameHeld'
  BY <1>3 DEF Commit
<1>4. ASSUME NEW c \in Connections, HandOver(c) PROVE CurrentNameHeld'
  BY <1>4 DEF HandOver
<1>5. ASSUME NEW c \in Connections, Return(c) PROVE CurrentNameHeld'
  BY <1>5 DEF Return
<1>6. ASSUME NEW c \in Connections, Disconnect(c) PROVE CurrentNameHeld'
  BY <1>6 DEF Disconnect
<1>7. ASSUME NEW c \in Connections, Cleanup(c) PROVE CurrentNameHeld'
  <2> SUFFICES ASSUME NEW d \in Connections,
                      registeredName[d] # NoName, task'[d] # "ended"
               PROVE  holder'[Lower[registeredName[d]]] = d
    BY <1>7 DEF Cleanup
  <2>1. d # c
    BY <1>7 DEF Cleanup
  <2>2. holder[Lower[registeredName[d]]] = d
    BY <1>7, <2>1 DEF Cleanup
  <2> QED BY <1>7, <2>1, <2>2 DEF Cleanup, Release
<1>8. CASE UNCHANGED vars
  BY <1>8 DEF vars
<1> QED
  BY <1>1, <1>2, <1>3, <1>4, <1>5, <1>6, <1>7, <1>8 DEF Next

\* No interleaving of registrations and cleanups takes away the name a live
\* connection plays under (lobby.rs try_register_name, release_name).
THEOREM CurrentNamesAreHeld == Spec => []CurrentNameHeld
<1>1. Init => CurrentNameHeld
  BY DEF Init, CurrentNameHeld
<1>2. TypeOK /\ CurrentNameHeld /\ [Next]_vars => CurrentNameHeld'
  BY StepKeepsCurrentNames
<1> QED BY <1>1, <1>2, TypeCorrect, PTL DEF Spec

\* A reservation only ever ends in the cleanup of the connection that made it
\* (lobby.rs release_name, called from server.rs handle_lobby_connection).
THEOREM ReservationsEndWithOwner == Spec => OnlyOwnerReleases
<1> DEFINE Released(k) ==
      holder[k] # NoConn /\ holder'[k] # holder[k] =>
          /\ holder'[k] = NoConn
          /\ task[holder[k]] = "leaving"
          /\ task'[holder[k]] = "ended"
<1>1. ASSUME TypeOK, [Next]_vars PROVE \A k \in Keys : Released(k)
  <2> USE RegistryAssumption DEF TypeOK
  <2> SUFFICES ASSUME NEW k \in Keys, holder[k] # NoConn, holder'[k] # holder[k]
               PROVE  /\ holder'[k] = NoConn
                      /\ task[holder[k]] = "leaving"
                      /\ task'[holder[k]] = "ended"
    OBVIOUS
  <2>1. ASSUME NEW c \in Connections, NEW n \in Names, Register(c, n)
        PROVE  FALSE
    BY <2>1, <1>1 DEF Register, NameTaken
  <2>2. ASSUME NEW c \in Connections,
               Accept(c) \/ Commit(c) \/ HandOver(c) \/ Return(c) \/ Disconnect(c)
        PROVE  FALSE
    BY <2>2 DEF Accept, Commit, HandOver, Return, Disconnect
  <2>3. ASSUME NEW c \in Connections, Cleanup(c)
        PROVE  /\ holder[k] = c
               /\ holder'[k] = NoConn
               /\ task[c] = "leaving"
               /\ task'[c] = "ended"
    BY <2>3, <1>1 DEF Cleanup, Release
  <2>4. CASE UNCHANGED vars
    BY <2>4 DEF vars
  <2> QED BY <1>1, <2>1, <2>2, <2>3, <2>4 DEF Next
<1>2. TypeOK /\ [Next]_vars => [\A k \in Keys : Released(k)]_vars
  BY <1>1
<1> QED BY <1>2, TypeCorrect, PTL DEF Spec, OnlyOwnerReleases
=============================================================================
