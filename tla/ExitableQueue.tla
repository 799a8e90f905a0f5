--------------------------- MODULE ExitableQueue ---------------------------
(***************************************************************************)
(* What a blocking hand-over queue with a shutdown signal promises its     *)
(* users: values come out in the order they went in, each of them once,    *)
(* and "no more values" is only said after the shutdown, to a consumer     *)
(* that has drained the queue.  MVar.tla is shown to implement it.         *)
(***************************************************************************)
EXTENDS Naturals, Sequences

CONSTANTS Consumers,    \* the threads that take values
          MaxPuts       \* bound: how many values the producer offers

VARIABLES pending,      \* values offered and not yet taken, oldest first
          delivered,    \* values handed out, in the order they were
          closed,       \* the shutdown has been signalled
          dismissed     \* consumers that were told there is nothing more

eqVars == <<pending, delivered, closed, dismissed>>

EQInit ==
    /\ pending = <<>>
    /\ delivered = <<>>
    /\ closed = FALSE
    /\ dismissed = {}

\* Values are numbered by the order in which they are offered.
Offer ==
    /\ Len(pending) + Len(delivered) < MaxPuts
    /\ pending' = Append(pending, Len(pending) + Len(delivered) + 1)
    /\ UNCHANGED <<delivered, closed, dismissed>>

Deliver ==
    /\ pending # <<>>
    /\ delivered' = Append(delivered, Head(pending))
    /\ pending' = Tail(pending)
    /\ UNCHANGED <<closed, dismissed>>

Close ==
    /\ closed' = TRUE
    /\ UNCHANGED <<pending, delivered, dismissed>>

Dismiss(c) ==
    /\ closed
    /\ pending = <<>>
    /\ dismissed' = dismissed \union {c}
    /\ UNCHANGED <<pending, delivered, closed>>

EQNext == Offer \/ Deliver \/ Close \/ \E c \in Consumers : Dismiss(c)

EQSpec == EQInit /\ [][EQNext]_eqVars
=============================================================================
