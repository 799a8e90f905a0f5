----------------------------- MODULE GameRelay -----------------------------
(***************************************************************************)
(* A running network game on the server: run_game, run_coordinator,        *)
(* handle_player_websocket and assemble_choice_buffer of network/server.rs *)
(* and the NetworkController of network/controller.rs.                     *)
(*                                                                         *)
(* The game thread simulates and logs; at a choice it sends a request and  *)
(* blocks.  The coordinator passes the request to the player's handler,    *)
(* waits for that handler alone, returns the answer and tells the other    *)
(* handler.  A handler owns a WebSocket: it accumulates what its client    *)
(* must learn and ships it in the buffer of the client's next question.    *)
(* The runner watches the four tasks and ends the game with the first.     *)
(*                                                                         *)
(* A message counts as delivered when it is written to the socket, and a   *)
(* client's message as sent when its handler reads it: the network's delay *)
(* is part of the client's thinking time.  The bridge threads of the       *)
(* coordinator are part of the queues request[p]; the queues to a handler  *)
(* (16 entries) are unbounded.  Choice types, options and identities of    *)
(* cards are left out; a state hash that differs (network_debug) acts as   *)
(* an action count that differs.                                           *)
(***************************************************************************)
EXTENDS Naturals, FiniteSets, SequencesExt

CONSTANTS Players,    \* the two players
          Nobody,     \* no player
          None,       \* an empty slot
          Deeds,      \* what the game does between two choices
          Searching,  \* whether a question may be a library search
          Replies,    \* how clients answer
          MaxLog,     \* bound: length of the undo log
          MaxStrays,  \* bound: clients that answer no open question
          MaxLeavers  \* bound: clients that leave

ASSUME RelayAssumption ==
    /\ Cardinality(Players) = 2
    /\ Nobody \notin Players
    /\ None \notin {"winner", "draw", "fatal"}
    /\ Deeds \subseteq {"reveal", "move", "reorder", "dig"}
    /\ Searching \subseteq BOOLEAN
    /\ Replies \subseteq {"valid", "find", "outOfRange", "diverged"}
    /\ MaxLog \in Nat
    /\ MaxLeavers \in Nat
    /\ MaxStrays \in Nat

Other(p) == CHOOSE q \in Players : q # p

VARIABLES log,        \* the golden game's undo log
          pending,    \* pending_library_reorders and pending_dig_decisions
          game,       \* the game thread
          seq,        \* NetworkController::choice_seq, per player
          revealed,   \* NetworkController::shared_reveal_index, per player
          request,    \* NetworkController to coordinator, per player
          response,   \* coordinator to NetworkController, per player
          coord,      \* the coordinator task
          inbox,      \* GameToHandler queues
          outbox,     \* HandlerToGame queues
          handler,    \* handle_player_websocket's locals, per player
          runner,     \* run_game
          endInfo,    \* the game_end oneshot
          connected,  \* players whose client has not left
          question,   \* the last ChoiceRequest written to each client
          told,       \* how each client was told of the end
          known,      \* history: the facts of the buffers, per client
          public,     \* history: every fact that was ever in pending
          strays      \* history: clients that answered no open question

gameVars == <<log, pending, game, seq, revealed, public>>
linkVars == <<request, response>>
runVars == <<runner, endInfo>>
clientVars == <<connected, question, told, known, strays>>
vars == <<gameVars, linkVars, coord, inbox, outbox, handler, runVars,
          clientVars>>

\* The lists a buffer is joined from, in this order.
Source == [reveal |-> 1, search |-> 2, reorder |-> 3, dig |-> 4,
           choice |-> 5, searched |-> 5]

Facts == [ac : 0..MaxLog, kind : DOMAIN Source]

Fact(ac, kind) == [ac |-> ac, kind |-> kind]

\* An entry is a reveal of a named card to a player or to all (Nobody), a
\* choice point with its answer's action count, or anything else.
Entries == [kind : {"reveal"}, to : Players \union {Nobody}]
           \union [kind : {"other"}]
           \union [kind : {"choice"}, by : Players, search : BOOLEAN,
                   found : BOOLEAN, answered : 0..MaxLog + 1]

Requests == [seq : Nat, ac : 0..MaxLog, search : BOOLEAN,
             reveals : Seq(Facts), public : Seq(Facts)]

\* What the indices of an answer mean to the server; those of a client that
\* has diverged are never looked at.
Answers == [seq : Nat, ac : 0..MaxLog + 1,
            pick : {"valid", "find", "outOfRange", "diverged"}]

\* The open question of a client: what it must answer to.
Questions == [seq : Nat, ac : 0..MaxLog, search : BOOLEAN]

\* An empty slot is no request, answer or question.
ASSUME EmptySlotAssumption ==
    None \notin Requests /\ None \notin Answers /\ None \notin Questions

Init ==
    /\ log = <<>>
    /\ pending = <<>>
    /\ game = [at |-> "playing", player |-> Nobody, search |-> FALSE]
    /\ seq = [p \in Players |-> 0]
    /\ revealed = [p \in Players |-> 0]
    /\ request = [p \in Players |-> None]
    /\ response = [p \in Players |-> None]
    /\ coord = [at |-> "select", player |-> Nobody, request |-> None,
                facts |-> <<>>, verdict |-> None]
    /\ inbox = [p \in Players |-> <<>>]
    /\ outbox = [p \in Players |-> <<>>]
    /\ handler = [p \in Players |-> [alive |-> TRUE, waiting |-> FALSE,
                                     early |-> None, facts |-> <<>>]]
    /\ runner = "watching"
    /\ endInfo = None
    /\ connected = Players
    /\ question = [p \in Players |-> None]
    /\ told = [p \in Players |-> None]
    /\ known = [p \in Players |-> <<>>]
    /\ public = {}
    /\ strays = {}

-----------------------------------------------------------------------------
(* The game thread and its NetworkControllers.                             *)

\* The game does something that is not a choice: a move nobody learns of, or
\* the reveal of a card to one player or to both.
GameActs(e) ==
    /\ game.at = "playing"
    /\ Len(log) < MaxLog
    /\ log' = Append(log, e)
    /\ UNCHANGED <<pending, public, game, seq, revealed, linkVars, coord, inbox,
                   outbox, handler, runVars, clientVars>>

\* Scry, surveil or shuffle: logged, then stamped with the log's new length.
GameReorders ==
    LET f == Fact(Len(log) + 1, "reorder") IN
    /\ game.at = "playing"
    /\ Len(log) < MaxLog
    /\ log' = Append(log, [kind |-> "other"])
    /\ pending' = Append(pending, f)
    /\ public' = public \union {f}
    /\ UNCHANGED <<game, seq, revealed, linkVars, coord, inbox, outbox, handler,
                   runVars, clientVars>>

\* execute_dig: stamped with the log's length, then the kept cards move, the
\* first of them revealed (or, when none is kept, the rest moves).
GameDigs(e) ==
    LET f == Fact(Len(log), "dig") IN
    /\ game.at = "playing"
    /\ Len(log) < MaxLog
    /\ pending' = Append(pending, f)
    /\ public' = public \union {f}
    /\ log' = Append(log, e)
    /\ UNCHANGED <<game, seq, revealed, linkVars, coord, inbox, outbox, handler,
                   runVars, clientVars>>

IsChoiceOf(e, p) == e.kind = "choice" /\ e.by = p

\* A finite set as a list, by a strict total order given as a set of pairs.
Ordered(S, order) ==
    [n \in 1..Cardinality(S) |->
        CHOOSE x \in S : Cardinality({y \in S : <<y, x>> \in order}) = n - 1]

\* The reveals at some places of the log, in order.
RevealsAt(places) ==
    LET order == {e \in places \X places : e[1] < e[2]}
    IN  [n \in 1..Cardinality(places) |->
            Fact(Ordered(places, order)[n] - 1, "reveal")]

\* Changed form of RevealsSinceLastChoice: the scan stops at a choice of either.
RevealsSinceAnyChoice(p) ==
    RevealsAt({i \in revealed[p] + 1..Len(log) :
                 /\ \A j \in i..Len(log) : log[j].kind # "choice"
                 /\ log[i].kind = "reveal" /\ log[i].to \in {p, Nobody}})

\* collect_reveals_since_last_choice, scanning back to p's last choice point
\* and not below the shared index.
RevealsSinceLastChoice(p) ==
    RevealsAt({i \in revealed[p] + 1..Len(log) :
                 /\ \A j \in i..Len(log) : ~IsChoiceOf(log[j], p)
                 /\ log[i].kind = "reveal" /\ log[i].to \in {p, Nobody}})

\* request_choice up to its blocking receive.
Ask(p, search) ==
    LET reveals == RevealsSinceLastChoice(p) IN
    /\ game.at = "playing"
    /\ Len(log) < MaxLog
    /\ game' = [at |-> "waiting", player |-> p, search |-> search]
    /\ revealed' = IF reveals # <<>> THEN [revealed EXCEPT ![p] = Len(log)]
                   ELSE revealed
    /\ request' = [request EXCEPT ![p] =
                     [seq |-> seq[p] + 1, ac |-> Len(log), search |-> search,
                      reveals |-> reveals, public |-> pending]]
    /\ pending' = <<>>
    /\ UNCHANGED <<log, public, seq, response, coord, inbox, outbox, handler,
                   runVars, clientVars>>

\* request_choice after its receive: the answer is accepted and logged, or a
\* wrong sequence number or index ends the game thread with an error.
TakeAnswer(p) ==
    LET a == response[p] IN
    /\ game.at = "waiting" /\ game.player = p
    /\ a # None
    /\ response' = [response EXCEPT ![p] = None]
    /\ IF a.seq = seq[p] + 1 /\ a.pick # "outOfRange"
       THEN /\ log' = Append(log, [kind |-> "choice", by |-> p,
                                   search |-> game.search,
                                   found |-> game.search /\ a.pick = "find",
                                   answered |-> a.ac])
            /\ seq' = [seq EXCEPT ![p] = @ + 1]
            /\ game' = [game EXCEPT !.at = "playing"]
       ELSE /\ game' = [game EXCEPT !.at = "desync"]
            /\ UNCHANGED <<log, seq>>
    /\ UNCHANGED <<pending, public, revealed, request, coord, inbox, outbox,
                   handler, runVars, clientVars>>

\* The coordinator is gone and its end of the response channel with it.
AnswerChannelCloses ==
    /\ game.at = "waiting"
    /\ coord.at = "ended"
    /\ response[game.player] = None
    /\ game' = [game EXCEPT !.at = "failed"]
    /\ UNCHANGED <<log, pending, public, seq, revealed, linkVars, coord, inbox,
                   outbox, handler, runVars, clientVars>>

GameIsWon ==
    /\ game.at = "playing"
    /\ game' = [game EXCEPT !.at = "won"]
    /\ UNCHANGED <<log, pending, public, seq, revealed, linkVars, coord, inbox,
                   outbox, handler, runVars, clientVars>>

GameIsOver == game.at \in {"won", "desync", "failed"}

-----------------------------------------------------------------------------
(* The coordinator.                                                        *)

\* A send succeeds only into the queue of a handler that still runs.
Deliver(messages) ==
    [p \in Players |-> IF handler[p].alive THEN inbox[p] \o messages[p]
                       ELSE inbox[p]]

Ended(verdict) ==
    coord' = [coord EXCEPT !.at = "ended", !.verdict = verdict]

\* Reorders and dig decisions to both handlers, then the question to one.  A
\* closed handler channel ends the coordinator; what it had already sent to
\* the other handler then precedes no question and is left out.
Forward(p) ==
    LET r == request[p]
        facts == [i \in DOMAIN r.public |->
                    [type |-> "public", fact |-> r.public[i]]]
        reachable == /\ handler[p].alive
                     /\ r.public = <<>> \/ handler[Other(p)].alive
    IN
    /\ coord.at = "select"
    /\ r # None
    /\ request' = [request EXCEPT ![p] = None]
    /\ IF reachable
       THEN /\ coord' = [coord EXCEPT !.at = "await", !.player = p,
                                      !.request = r]
            /\ inbox' = Deliver([q \in Players |->
                 IF q = p THEN Append(facts, [type |-> "request", request |-> r])
                 ELSE facts])
       ELSE /\ Ended(None)
            /\ UNCHANGED inbox
    /\ UNCHANGED <<gameVars, response, outbox, handler, runVars, clientVars>>

\* The facts an answered question leaves with the opponent.
OpponentFacts(r, a) ==
    IF r.search /\ a.pick = "find"
    THEN <<Fact(r.ac, "choice"), Fact(r.ac, "searched")>>
    ELSE <<Fact(r.ac, "choice")>>

\* Changed form of Fits: the coordinator believes any answer.
FitsAlways(a, r) == TRUE

\* The check of the answer's action count.
Fits(a, r) == a.ac = r.ac

\* The awaited handler has sent an answer: it is for this question and goes to
\* the game thread at once, or the game is over for both.
ReceiveAnswer ==
    LET p == coord.player
        r == coord.request
        a == Head(outbox[p]).answer
    IN
    /\ coord.at = "await"
    /\ outbox[p] # <<>>
    /\ Head(outbox[p]).type = "answer"
    /\ outbox' = [outbox EXCEPT ![p] = Tail(@)]
    /\ IF Fits(a, r)
       THEN /\ response' = [response EXCEPT ![p] = a]
            /\ coord' = [coord EXCEPT !.at = "accept", !.request = None,
                                      !.facts = OpponentFacts(r, a)]
            /\ UNCHANGED inbox
       ELSE /\ inbox' = Deliver([q \in Players |-> <<[type |-> "fatal"]>>])
            /\ Ended("fatal")
            /\ UNCHANGED response
    /\ UNCHANGED <<gameVars, request, handler, runVars, clientVars>>

\* Meanwhile the player is told that its answer was accepted ...
AcceptChoice ==
    /\ coord.at = "accept"
    /\ inbox' = Deliver([q \in Players |->
         IF q = coord.player THEN <<[type |-> "accepted"]>> ELSE <<>>])
    /\ coord' = [coord EXCEPT !.at = "inform"]
    /\ UNCHANGED <<gameVars, linkVars, outbox, handler, runVars, clientVars>>

\* ... and the opponent what it was.
InformOpponent ==
    /\ coord.at = "inform"
    /\ inbox' = Deliver([q \in Players |->
         IF q = coord.player THEN <<>>
         ELSE <<[type |-> "opponent", facts |-> coord.facts]>>])
    /\ coord' = [coord EXCEPT !.at = "select", !.facts = <<>>]
    /\ UNCHANGED <<gameVars, linkVars, outbox, handler, runVars, clientVars>>

\* The awaited handler has reported that its client left.
ReceiveDeparture ==
    LET p == coord.player IN
    /\ coord.at = "await"
    /\ outbox[p] # <<>>
    /\ Head(outbox[p]).type = "left"
    /\ outbox' = [outbox EXCEPT ![p] = Tail(@)]
    /\ inbox' = Deliver([q \in Players |->
                           IF q = p THEN <<>> ELSE <<[type |-> "fatal"]>>])
    /\ Ended("fatal")
    /\ UNCHANGED <<gameVars, linkVars, handler, runVars, clientVars>>

\* The awaited handler ended without a word.
ReceiveNothing ==
    LET p == coord.player IN
    /\ coord.at = "await"
    /\ outbox[p] = <<>>
    /\ ~handler[p].alive
    /\ Ended(None)
    /\ UNCHANGED <<gameVars, linkVars, inbox, outbox, handler, runVars,
                   clientVars>>

\* The game_end branch, polled only between two requests.
ForwardGameEnd ==
    /\ coord.at = "select"
    /\ endInfo # None
    /\ inbox' = Deliver([p \in Players |->
                           <<[type |-> "over", info |-> endInfo]>>])
    /\ Ended(endInfo)
    /\ UNCHANGED <<gameVars, linkVars, outbox, handler, runVars, clientVars>>

-----------------------------------------------------------------------------
(* A player's handler.                                                     *)

\* HandlerToGame::ChoiceResponse
Answer(a) == [type |-> "answer", answer |-> a]

\* A stable sort by action count of what was pushed list after list.
Precedes(s, i, j) ==
    \/ s[i].ac < s[j].ac
    \/ /\ s[i].ac = s[j].ac
       /\ \/ Source[s[i].kind] < Source[s[j].kind]
          \/ Source[s[i].kind] = Source[s[j].kind] /\ i < j

SortFacts(s) ==
    LET places == 1..Len(s)
        order == {e \in places \X places : Precedes(s, e[1], e[2])}
    IN  [n \in places |-> s[Ordered(places, order)[n]]]

\* assemble_choice_buffer: all facts since the last question.  A search always
\* has candidates: one without has nothing to send and is a plain question.
AssembleBuffer(r, facts) ==
    LET search == IF r.search THEN <<Fact(r.ac, "search")>> ELSE <<>> IN
    SortFacts((r.reveals \o search) \o facts)

\* ChoiceRequest: an answer that is already here is passed on; otherwise the
\* client is asked, and sent all that has accumulated.
HandleRequest(p) ==
    LET m == Head(inbox[p])
        r == m.request
        early == handler[p].early
    IN
    /\ m.type = "request"
    /\ IF early # None
       THEN /\ outbox' = [outbox EXCEPT ![p] = Append(@, Answer(early))]
            /\ handler' = [handler EXCEPT ![p].early = None]
            /\ UNCHANGED <<question, known>>
       ELSE /\ question' = [question EXCEPT ![p] = [seq |-> r.seq, ac |-> r.ac,
                                                    search |-> r.search]]
            /\ known' = [known EXCEPT ![p] =
                           @ \o AssembleBuffer(r, handler[p].facts)]
            /\ handler' = [handler EXCEPT ![p].waiting = TRUE,
                                          ![p].facts = <<>>]
            /\ UNCHANGED outbox
    /\ UNCHANGED told

\* OpponentMadeChoice is kept for the next buffer; LibraryReordered and
\* DigDecision too (their eager copies, which a client that has seen a buffer
\* ignores, are left out); ChoiceAccepted only passes through.
HandleFacts(p) ==
    LET m == Head(inbox[p]) IN
    /\ m.type \in {"opponent", "public", "accepted"}
    /\ handler' = [handler EXCEPT ![p].facts =
                     CASE m.type = "opponent" -> @ \o m.facts
                       [] m.type = "public"   -> Append(@, m.fact)
                       [] m.type = "accepted" -> @]
    /\ UNCHANGED <<outbox, question, known, told>>

\* GameEnded and FatalError are passed on and end the handler.
HandleEnd(p) ==
    LET m == Head(inbox[p]) IN
    /\ m.type \in {"over", "fatal"}
    /\ told' = [told EXCEPT ![p] = IF m.type = "over" THEN m.info ELSE "fatal"]
    /\ handler' = [handler EXCEPT ![p].alive = FALSE]
    /\ UNCHANGED <<outbox, question, known>>

HandleMessage(p) ==
    /\ handler[p].alive
    /\ inbox[p] # <<>>
    /\ inbox' = [inbox EXCEPT ![p] = Tail(@)]
    /\ HandleRequest(p) \/ HandleFacts(p) \/ HandleEnd(p)
    /\ UNCHANGED <<gameVars, linkVars, coord, runVars, connected, strays>>

\* Changed form of HandlerGivesUp: a closed channel is not read to its end.
HandlerLeavesMessages(p) ==
    /\ handler[p].alive
    /\ \/ coord.at = "ended"
       \/ /\ inbox[p] # <<>> /\ p \notin connected
          /\ Head(inbox[p]).type # "opponent"
    /\ handler' = [handler EXCEPT ![p].alive = FALSE]
    /\ UNCHANGED <<gameVars, linkVars, coord, inbox, outbox, runVars,
                   clientVars>>

\* The handler ends by itself: the coordinator's channel is closed and empty,
\* or a write to a client that has left fails (and is not reported).
HandlerGivesUp(p) ==
    /\ handler[p].alive
    /\ \/ inbox[p] = <<>> /\ coord.at = "ended"
       \/ /\ inbox[p] # <<>> /\ p \notin connected
          /\ Head(inbox[p]).type # "opponent"
    /\ handler' = [handler EXCEPT ![p].alive = FALSE]
    /\ UNCHANGED <<gameVars, linkVars, coord, inbox, outbox, runVars,
                   clientVars>>

\* The WebSocket is closed, in error or at its end: the coordinator is told.
HandleClose(p) ==
    /\ handler[p].alive
    /\ p \notin connected
    /\ handler' = [handler EXCEPT ![p].alive = FALSE]
    /\ outbox' = [outbox EXCEPT ![p] = Append(@, [type |-> "left"])]
    /\ UNCHANGED <<gameVars, linkVars, coord, inbox, runVars, clientVars>>

\* Changed form of HandleSubmit: the awaited request is not taken.
HandleSubmitStillWaiting(p, a) ==
    /\ handler[p].alive
    /\ p \in connected
    /\ handler[p].waiting
    /\ outbox' = [outbox EXCEPT ![p] = Append(@, Answer(a))]
    /\ UNCHANGED <<gameVars, linkVars, coord, inbox, handler, runVars, connected,
                   question, told, known>>

\* SubmitChoice: the answer to the open question is passed on (or the handler
\* ends, if nobody listens); any other waits for the next question.
HandleSubmit(p, a) ==
    /\ handler[p].alive
    /\ p \in connected
    /\ IF handler[p].waiting
       THEN IF coord.at # "ended"
            THEN /\ outbox' = [outbox EXCEPT ![p] = Append(@, Answer(a))]
                 /\ handler' = [handler EXCEPT ![p].waiting = FALSE]
            ELSE /\ handler' = [handler EXCEPT ![p].alive = FALSE]
                 /\ UNCHANGED outbox
       ELSE /\ handler' = [handler EXCEPT ![p].early = a]
            /\ UNCHANGED outbox
    /\ UNCHANGED <<gameVars, linkVars, coord, inbox, runVars, connected,
                   question, told, known>>

-----------------------------------------------------------------------------
(* The clients.                                                            *)

\* A client answers the question it has, from a shadow that agrees with the
\* game or from one that has diverged.
ClientAnswers(p) ==
    /\ handler[p].waiting
    /\ \E reply \in Replies :
         HandleSubmit(p, [seq |-> question[p].seq,
                          ac |-> IF reply = "diverged" THEN question[p].ac + 1
                                 ELSE question[p].ac,
                          pick |-> reply])
    /\ UNCHANGED strays

\* It answers before it is asked, or answers again: from the sequence number
\* and the action count of its last question or of the one to come.
ClientStrays(p) ==
    LET last == IF question[p] = None THEN [seq |-> 0, ac |-> 0]
                ELSE question[p]
    IN
    /\ ~handler[p].waiting
    /\ p \notin strays /\ Cardinality(strays) < MaxStrays
    /\ \E s \in {last.seq, last.seq + 1}, ac \in {last.ac, Len(log)} :
         HandleSubmit(p, [seq |-> s, ac |-> ac, pick |-> "valid"])
    /\ strays' = strays \union {p}

ClientLeaves(p) ==
    /\ p \in connected
    /\ runner # "stopped"
    /\ Cardinality(Players \ connected) < MaxLeavers
    /\ connected' = connected \ {p}
    /\ UNCHANGED <<gameVars, linkVars, coord, inbox, outbox, handler, runVars,
                   question, told, known, strays>>

-----------------------------------------------------------------------------
(* run_game.                                                               *)

\* Changed form of RunnerSeesEnd: the select does not watch the handlers.
RunnerSeesGameOrCoordinator ==
    /\ runner = "watching"
    /\ \/ game.at = "won" /\ endInfo' = "winner"
       \/ (game.at \in {"desync", "failed"} \/ coord.at = "ended")
          /\ endInfo' = "draw"
    /\ runner' = "ending"
    /\ UNCHANGED <<gameVars, linkVars, coord, inbox, outbox, handler, clientVars>>

\* The select over the four tasks: a game that ended well has a winner, and
\* every other end is announced as a draw.
RunnerSeesEnd ==
    /\ runner = "watching"
    /\ \/ game.at = "won" /\ endInfo' = "winner"
       \/ /\ \/ game.at \in {"desync", "failed"}
             \/ coord.at = "ended"
             \/ \E p \in Players : ~handler[p].alive
          /\ endInfo' = "draw"
    /\ runner' = "ending"
    /\ UNCHANGED <<gameVars, linkVars, coord, inbox, outbox, handler, clientVars>>

\* The abort, 200 ms later: any number of steps later, or none.  An aborted task
\* ends where it waits, the coordinator between two requests or for an answer.
RunnerStops ==
    /\ runner = "ending"
    /\ coord.at \in {"select", "await", "ended"}
    /\ runner' = "stopped"
    /\ coord' = [coord EXCEPT !.at = "ended"]
    /\ handler' = [p \in Players |-> [handler[p] EXCEPT !.alive = FALSE]]
    /\ UNCHANGED <<gameVars, linkVars, inbox, outbox, endInfo, clientVars>>

-----------------------------------------------------------------------------
GameStep ==
    \/ \E to \in Players \union {Nobody} :
          \/ "reveal" \in Deeds /\ GameActs([kind |-> "reveal", to |-> to])
          \/ "dig" \in Deeds /\ GameDigs([kind |-> "reveal", to |-> to])
    \/ "move" \in Deeds /\ GameActs([kind |-> "other"])
    \/ "dig" \in Deeds /\ GameDigs([kind |-> "other"])
    \/ "reorder" \in Deeds /\ GameReorders
    \/ \E p \in Players, search \in Searching : Ask(p, search)
    \/ \E p \in Players : TakeAnswer(p)
    \/ AnswerChannelCloses
    \/ GameIsWon

CoordinatorStep ==
    \/ \E p \in Players : Forward(p)
    \/ ReceiveAnswer \/ AcceptChoice \/ InformOpponent
    \/ ReceiveDeparture \/ ReceiveNothing \/ ForwardGameEnd

HandlerStep(p) == HandleMessage(p) \/ HandlerGivesUp(p) \/ HandleClose(p)

RunnerStep == RunnerSeesEnd \/ RunnerStops

ClientStep(p) == ClientAnswers(p) \/ ClientStrays(p) \/ ClientLeaves(p)

\* All tasks of the game have ended; nothing is left to do.
AllEnded == runner = "stopped" /\ GameIsOver

Next ==
    \/ GameStep
    \/ CoordinatorStep
    \/ RunnerStep
    \/ \E p \in Players : HandlerStep(p) \/ ClientStep(p)
    \/ AllEnded /\ UNCHANGED vars

Spec == Init /\ [][Next]_vars

\* The runtime keeps running every task that can take a step; a player may
\* think for ever.
FairSpec ==
    /\ Spec
    /\ WF_vars(GameStep) /\ WF_vars(CoordinatorStep) /\ WF_vars(RunnerStep)
    /\ \A p \in Players : WF_vars(HandlerStep(p))

-----------------------------------------------------------------------------
(* Properties.                                                             *)

Messages == [type : {"request"}, request : Requests]
            \union [type : {"public"}, fact : Facts]
            \union [type : {"opponent"}, facts : Seq(Facts)]
            \union [type : {"over"}, info : {"winner", "draw"}]
            \union [type : {"accepted", "fatal"}]

GameTypes ==
    /\ log \in Seq(Entries) /\ Len(log) <= MaxLog
    /\ pending \in Seq(Facts) /\ public \in SUBSET Facts
    /\ game \in [at : {"playing", "waiting", "won", "desync", "failed"},
                 player : Players \union {Nobody}, search : BOOLEAN]
    /\ seq \in [Players -> Nat] /\ revealed \in [Players -> 0..MaxLog]

CoordinatorTypes ==
    /\ request \in [Players -> Requests \union {None}]
    /\ response \in [Players -> Answers \union {None}]
    /\ coord \in [at : {"select", "await", "accept", "inform", "ended"},
                  player : Players \union {Nobody},
                  request : Requests \union {None}, facts : Seq(Facts),
                  verdict : {None, "fatal", "winner", "draw"}]

HandlerTypes ==
    /\ inbox \in [Players -> Seq(Messages)]
    /\ outbox \in [Players -> Seq([type : {"answer"}, answer : Answers]
                                 \union [type : {"left"}])]
    /\ handler \in [Players -> [alive : BOOLEAN, waiting : BOOLEAN,
                                early : Answers \union {None},
                                facts : Seq(Facts)]]

ClientTypes ==
    /\ runner \in {"watching", "ending", "stopped"}
    /\ endInfo \in {None, "winner", "draw"}
    /\ connected \in SUBSET Players
    /\ question \in [Players -> Questions \union {None}]
    /\ told \in [Players -> {None, "winner", "draw", "fatal"}]
    /\ known \in [Players -> Seq(Facts)]
    /\ strays \in SUBSET Players

\* Types of the game thread, the channels, the tasks and the clients.
TypeOK == GameTypes /\ CoordinatorTypes /\ HandlerTypes /\ ClientTypes

\* What p must know to replay the game up to its question at ac.
FactsFor(p, ac, search) ==
    LET choices == {i \in 1..ac : log[i].kind = "choice"} IN
    {Fact(i - 1, "reveal") : i \in {j \in 1..ac : log[j].kind = "reveal"
                                        /\ log[j].to \in {p, Nobody}}}
    \union {f \in public : f.ac <= ac}
    \union {Fact(i - 1, "choice") : i \in {j \in choices : log[j].by # p}}
    \union {Fact(i - 1, "searched") :
                i \in {j \in choices : log[j].by # p /\ log[j].found}}
    \union {Fact(i - 1, "search") :
                i \in {j \in choices : log[j].by = p /\ log[j].search}}
    \union (IF search THEN {Fact(ac, "search")} ELSE {})

\* When a client is asked, the buffers it was sent hold every fact its shadow
\* needs up to the question, each once and in game order, and nothing else:
\* whatever the other player, the reveal index and the queues were doing.
FactsBeforeQuestion ==
    \A p \in Players : question[p] # None /\ p \notin strays =>
        /\ ToSet(known[p]) = FactsFor(p, question[p].ac, question[p].search)
        /\ IsInjective(known[p])
        /\ \A i \in 1..Len(known[p]) - 1 : known[p][i].ac <= known[p][i + 1].ac

\* One entity has control: while a client is being waited for, the game stands
\* at that very question, and so does the coordinator.
OneQuestionAtATime ==
    \A p \in Players : handler[p].alive /\ handler[p].waiting =>
        /\ game.at = "waiting" /\ game.player = p
        /\ Len(log) = question[p].ac /\ seq[p] + 1 = question[p].seq
        /\ coord.at = "await" /\ coord.player = p

\* Every choice in the log was made for the position where it stands, also
\* when answers come early, late or twice.
AnswersFitQuestions ==
    \A i \in 1..Len(log) :
        log[i].kind = "choice" => log[i].answered = i - 1

\* Nobody hears of an end but the coordinator's, so both hear of the same.
OneVerdict == \A p \in Players : told[p] # None => told[p] = coord.verdict

\* Every client that is still there has heard it, or will from its handler; only
\* the abort can come between.
VerdictIsUnderWay ==
    coord.verdict # None => \A p \in connected :
        \/ told[p] = coord.verdict
        \/ /\ \E i \in DOMAIN inbox[p] : inbox[p][i].type \in {"over", "fatal"}
           /\ handler[p].alive \/ runner = "stopped"

\* A won game finds the coordinator between two requests or on its way there,
\* never waiting for a client, and is announced as won unless the abort is first.
WinnerIsAnnounced ==
    endInfo = "winner" =>
        \/ coord.verdict = "winner"
        \/ /\ coord.verdict = None
           /\ coord.at \in {"select", "accept", "inform"} \/ runner = "stopped"

\* When the coordinator announces an end - a game that is won, or given up while
\* no question is open, a mismatch, a departure it was told of - all clients that
\* are still there hear of that end and of no other, unless they are cut off by
\* the abort, which does not wait for them.  An end that comes while a client is
\* being waited for is not announced.
EndReachesClients == OneVerdict /\ VerdictIsUnderWay /\ WinnerIsAnnounced

\* A departure, or the end of any one task, ends them all: game thread,
\* coordinator, both handlers and the runner.
SomethingEnded ==
    \/ connected # Players
    \/ GameIsOver
    \/ coord.at = "ended"
    \/ \E p \in Players : ~handler[p].alive

EveryTaskEnds == SomethingEnded ~> AllEnded

\* Whoever is still there when the tasks of a won game are aborted has heard who
\* won: "Wait for coordinator and handlers to process GameEnded".
WinnerReachesClients ==
    runner = "stopped" /\ endInfo = "winner" =>
        \A p \in connected : told[p] = "winner"

\* The end of the game does not find the coordinator waiting for a client that
\* has nothing to say.
EndIsPolled ==
    endInfo # None /\ coord.at = "await" =>
        outbox[coord.player] # <<>> \/ ~handler[coord.player].alive
=============================================================================
