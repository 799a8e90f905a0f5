-------------------------------- MODULE MVar --------------------------------
(***************************************************************************)
(* The hand-over cell between the client's WebSocket reader and its game   *)
(* thread (network/mvar.rs): a queue under a mutex, a condition variable,  *)
(* and an exit flag that is stored and announced WITHOUT the mutex.        *)
(*                                                                         *)
(* One step is what a thread does between two points where another thread  *)
(* can get in: acquiring the mutex, evaluating the loop condition of take, *)
(* going to sleep (which releases the mutex atomically), and, in           *)
(* signal_exit, the store and the notification.                            *)
(***************************************************************************)
EXTENDS Naturals, Sequences

CONSTANTS Consumers,    \* threads that call take or try_take
          MaxPuts       \* bound: number of values the producers put

NoOwner == "none"

ASSUME MVarAssumption == MaxPuts \in Nat /\ NoOwner \notin Consumers

VARIABLES queue,        \* MVar::queue, oldest value first
          exitFlag,     \* MVar::exit_flag
          owner,        \* the consumer inside the mutex, or NoOwner
          pc,           \* per consumer, where it is in take
          signaller,    \* where the thread calling signal_exit is
          taken,        \* history: the values returned, in that order
          dismissed     \* history: consumers whose take returned None

vars == <<queue, exitFlag, owner, pc, signaller, taken, dismissed>>

MutexFree == owner = NoOwner

\* Outside take; inside the mutex evaluating the loop; about to wait; asleep
\* in Condvar::wait; woken and contending for the mutex again.
TakePoints == {"outside", "checking", "deciding", "asleep", "woken"}

Init ==
    /\ queue = <<>>
    /\ exitFlag = FALSE
    /\ owner = NoOwner
    /\ pc = [c \in Consumers |-> "outside"]
    /\ signaller = "idle"
    /\ taken = <<>>
    /\ dismissed = {}

Puts == Len(queue) + Len(taken)
Asleep == {c \in Consumers : pc[c] = "asleep"}

\* Changed form of NotifyOne: put pushes and forgets to notify.
NotifyNobody == UNCHANGED pc

\* notify_one: one sleeper, whichever the platform picks, is woken.
NotifyOne ==
    IF Asleep = {} THEN UNCHANGED pc
    ELSE \E c \in Asleep : pc' = [pc EXCEPT ![c] = "woken"]

\* put holds the mutex from the push to the end of the notification.
Put ==
    /\ MutexFree
    /\ Puts < MaxPuts
    /\ queue' = Append(queue, Puts + 1)
    /\ NotifyOne
    /\ UNCHANGED <<exitFlag, owner, signaller, taken, dismissed>>

\* take (or a woken wait) acquires the mutex.
TakeLock(c) ==
    /\ MutexFree
    /\ pc[c] \in {"outside", "woken"}
    /\ c \notin dismissed
    /\ owner' = c
    /\ pc' = [pc EXCEPT ![c] = "checking"]
    /\ UNCHANGED <<queue, exitFlag, signaller, taken, dismissed>>

TakeValue(c) ==
    /\ pc[c] = "checking"
    /\ queue # <<>>
    /\ taken' = Append(taken, Head(queue))
    /\ queue' = Tail(queue)
    /\ owner' = NoOwner
    /\ pc' = [pc EXCEPT ![c] = "outside"]
    /\ UNCHANGED <<exitFlag, signaller, dismissed>>

\* Changed form of TakeNone: the exit flag is looked at before the queue.
TakeNoneEvenIfQueued(c) ==
    /\ pc[c] = "checking"
    /\ exitFlag
    /\ dismissed' = dismissed \union {c}
    /\ owner' = NoOwner
    /\ pc' = [pc EXCEPT ![c] = "outside"]
    /\ UNCHANGED <<queue, exitFlag, signaller, taken>>

TakeNone(c) ==
    /\ pc[c] = "checking"
    /\ queue = <<>>
    /\ exitFlag
    /\ dismissed' = dismissed \union {c}
    /\ owner' = NoOwner
    /\ pc' = [pc EXCEPT ![c] = "outside"]
    /\ UNCHANGED <<queue, exitFlag, signaller, taken>>

\* The queue is empty and the flag was read as false: the consumer will wait.
TakeDecideToWait(c) ==
    /\ pc[c] = "checking"
    /\ queue = <<>>
    /\ ~exitFlag
    /\ pc' = [pc EXCEPT ![c] = "deciding"]
    /\ UNCHANGED <<queue, exitFlag, owner, signaller, taken, dismissed>>

\* Changed form of TakeWait: a sleep that keeps the mutex.
TakeWaitHoldingMutex(c) ==
    /\ pc[c] = "deciding"
    /\ pc' = [pc EXCEPT ![c] = "asleep"]
    /\ UNCHANGED <<queue, exitFlag, owner, signaller, taken, dismissed>>

\* Condvar::wait: release the mutex and go to sleep in one step.
TakeWait(c) ==
    /\ pc[c] = "deciding"
    /\ owner' = NoOwner
    /\ pc' = [pc EXCEPT ![c] = "asleep"]
    /\ UNCHANGED <<queue, exitFlag, signaller, taken, dismissed>>

\* A condition variable may wake a sleeper for no reason.
SpuriousWakeup(c) ==
    /\ pc[c] = "asleep"
    /\ pc' = [pc EXCEPT ![c] = "woken"]
    /\ UNCHANGED <<queue, exitFlag, owner, signaller, taken, dismissed>>

\* try_take pops under the mutex if it can and never blocks.
TryTake(c) ==
    /\ MutexFree
    /\ pc[c] = "outside"
    /\ c \notin dismissed
    /\ queue # <<>>
    /\ taken' = Append(taken, Head(queue))
    /\ queue' = Tail(queue)
    /\ UNCHANGED <<exitFlag, owner, pc, signaller, dismissed>>

\* signal_exit: the store and the notify_all, neither under the mutex.
SignalStore ==
    /\ signaller = "idle"
    /\ exitFlag' = TRUE
    /\ signaller' = "stored"
    /\ UNCHANGED <<queue, owner, pc, taken, dismissed>>

SignalNotify ==
    /\ signaller = "stored"
    /\ signaller' = "done"
    /\ pc' = [c \in Consumers |-> IF pc[c] = "asleep" THEN "woken" ELSE pc[c]]
    /\ UNCHANGED <<queue, exitFlag, owner, taken, dismissed>>

Take(c) ==
    \/ TakeLock(c)
    \/ TakeValue(c)
    \/ TakeNone(c)
    \/ TakeDecideToWait(c)
    \/ TakeWait(c)

SignalExit == SignalStore \/ SignalNotify

Next ==
    \/ Put
    \/ SignalExit
    \/ \E c \in Consumers : Take(c) \/ SpuriousWakeup(c) \/ TryTake(c)

Spec == Init /\ [][Next]_vars

\* A thread inside take keeps running, and so does one inside signal_exit;
\* nobody has to call take, put or signal_exit, and no wakeup is spurious on
\* purpose.
TakeProgress(c) == pc[c] # "outside" /\ Take(c)

FairSpec ==
    /\ Spec
    /\ \A c \in Consumers : WF_vars(TakeProgress(c))
    /\ WF_vars(SignalNotify)

-----------------------------------------------------------------------------
(***************************************************************************)
(* Properties                                                              *)
(***************************************************************************)

\* Every variable has its type, and the mutex is held by exactly the consumer
\* that is between acquiring it and releasing it (mvar.rs take).
TypeOK ==
    /\ queue \in Seq(Nat)
    /\ exitFlag \in BOOLEAN
    /\ owner \in Consumers \union {NoOwner}
    /\ \A c \in Consumers : owner = c <=> pc[c] \in {"checking", "deciding"}
    /\ pc \in [Consumers -> TakePoints]
    /\ signaller \in {"idle", "stored", "done"}
    /\ taken \in Seq(Nat)
    /\ dismissed \subseteq Consumers

\* A consumer blocked in take while a value is queued gets out of take: no
\* wakeup of put is lost (mvar.rs put and take).
BlockedConsumerIsServed ==
    \A c \in Consumers :
        (pc[c] # "outside" /\ queue # <<>>) ~> pc[c] = "outside"

\* "Causes blocking take() calls to return None when the queue is empty"
\* (mvar.rs signal_exit): once signal_exit has returned, no consumer stays in
\* take for ever.
ExitReleasesConsumers ==
    \A c \in Consumers :
        (signaller = "done" /\ pc[c] # "outside") ~> pc[c] = "outside"

\* The cell keeps the promises of an exitable queue (mvar.rs take: values in
\* order, each once, None only after signal_exit and on an empty queue).
Abstract == INSTANCE ExitableQueue WITH
                pending <- queue, delivered <- taken, closed <- exitFlag

ImplementsExitableQueue == Abstract!EQSpec
=============================================================================
