----------------------------- MODULE MVarProofs -----------------------------
(***************************************************************************)
(* Proofs about MVar.tla: type correctness, and that the cell implements   *)
(* ExitableQueue for any number of consumers and any number of values.     *)
(***************************************************************************)
EXTENDS MVar, TLAPS

\* The cell's state stays within its types: in particular, only consumers ever
\* own the mutex and only consumers are dismissed (mvar.rs take, put).
THEOREM TypeCorrect == Spec => []TypeOK
<1>1. Init => TypeOK
  <2>1. <<>> \in Seq(Nat)
    OBVIOUS
  <2>2. [c \in Consumers |-> "outside"] \in [Consumers -> TakePoints]
    BY DEF TakePoints
  <2> QED BY <2>1, <2>2, MVarAssumption DEF Init, TypeOK
<1>2. TypeOK /\ [Next]_vars => TypeOK'
  <2> SUFFICES ASSUME TypeOK, [Next]_vars PROVE TypeOK'
    OBVIOUS
  <2> USE MVarAssumption DEF TypeOK, TakePoints, MutexFree
  <2>1. CASE Put
    <3>1. Puts + 1 \in Nat
      BY DEF Puts
    <3>2. pc' \in [Consumers -> TakePoints]
      BY <2>1 DEF Put, NotifyOne, Asleep
    <3>3. \A c \in Consumers : owner' = c <=> pc'[c] \in {"checking", "deciding"}
      BY <2>1 DEF Put, NotifyOne, Asleep
    <3> QED BY <2>1, <3>1, <3>2, <3>3 DEF Put
  <2>2. CASE SignalStore
    BY <2>2 DEF SignalStore
  <2>3. CASE SignalNotify
    BY <2>3 DEF SignalNotify
  <2>4. ASSUME NEW c \in Consumers, TakeLock(c) PROVE TypeOK'
    BY <2>4 DEF TakeLock
  <2>5. ASSUME NEW c \in Consumers, TakeValue(c) PROVE TypeOK'
    BY <2>5 DEF TakeValue
  <2>6. ASSUME NEW c \in Consumers, TakeNone(c) PROVE TypeOK'
    BY <2>6 DEF TakeNone
  <2>7. ASSUME NEW c \in Consumers, TakeDecideToWait(c) PROVE TypeOK'
    BY <2>7 DEF TakeDecideToWait
  <2>8. ASSUME NEW c \in Consumers, TakeWait(c) PROVE TypeOK'
    BY <2>8 DEF TakeWait
  <2>9. ASSUME NEW c \in Consumers, SpuriousWakeup(c) PROVE TypeOK'
    BY <2>9 DEF SpuriousWakeup
  <2>10. ASSUME NEW c \in Consumers, TryTake(c) PROVE TypeOK'
    BY <2>10 DEF TryTake
  <2>11. CASE UNCHANGED vars
    BY <2>11 DEF vars
  <2> QED
    BY <2>1, <2>2, <2>3, <2>4, <2>5, <2>6, <2>7, <2>8, <2>9, <2>10, <2>11
       DEF Next, SignalExit, Take
<1> QED BY <1>1, <1>2, PTL DEF Spec

\* Every step of the cell is a step of the exitable queue or leaves it alone:
\* put offers, a take or try_take that pops delivers, signal_exit's store
\* closes, a take that returns None dismisses (mvar.rs).
THEOREM Refinement == Spec => ImplementsExitableQueue
<1>1. Init => Abstract!EQInit
  BY DEF Init, Abstract!EQInit
<1>2. TypeOK /\ [Next]_vars => [Abstract!EQNext]_Abstract!eqVars
  <2> SUFFICES ASSUME TypeOK, [Next]_vars
               PROVE  [Abstract!EQNext]_Abstract!eqVars
    OBVIOUS
  <2> USE DEF Abstract!eqVars
  <2>1. CASE Put
    <3>1. Abstract!Offer
      BY <2>1, MVarAssumption DEF TypeOK, Put, Puts, Abstract!Offer
    <3> QED BY <3>1 DEF Abstract!EQNext
  <2>2. CASE SignalStore
    BY <2>2 DEF SignalStore, Abstract!EQNext, Abstract!Close
  <2>3. CASE SignalNotify
    BY <2>3 DEF SignalNotify
  <2>4. ASSUME NEW c \in Consumers, TakeLock(c)
        PROVE  UNCHANGED Abstract!eqVars
    BY <2>4 DEF TakeLock
  <2>5. ASSUME NEW c \in Consumers, TakeValue(c) PROVE Abstract!Deliver
    BY <2>5 DEF TakeValue, Abstract!Deliver
  <2>6. ASSUME NEW c \in Consumers, TakeNone(c) PROVE Abstract!Dismiss(c)
    BY <2>6 DEF TakeNone, Abstract!Dismiss
  <2>7. ASSUME NEW c \in Consumers, TakeDecideToWait(c)
        PROVE  UNCHANGED Abstract!eqVars
    BY <2>7 DEF TakeDecideToWait
  <2>8. ASSUME NEW c \in Consumers, TakeWait(c)
        PROVE  UNCHANGED Abstract!eqVars
    BY <2>8 DEF TakeWait
  <2>9. ASSUME NEW c \in Consumers, SpuriousWakeup(c)
        PROVE  UNCHANGED Abstract!eqVars
    BY <2>9 DEF SpuriousWakeup
  <2>10. ASSUME NEW c \in Consumers, TryTake(c) PROVE Abstract!Deliver
    BY <2>10 DEF TryTake, Abstract!Deliver
  <2>11. CASE UNCHANGED vars
    BY <2>11 DEF vars
  <2> QED
    BY <2>1, <2>2, <2>3, <2>4, <2>5, <2>6, <2>7, <2>8, <2>9, <2>10, <2>11
       DEF Next, SignalExit, Take, Abstract!EQNext
<1> QED
  BY <1>1, <1>2, TypeCorrect, PTL
     DEF Spec, ImplementsExitableQueue, Abstract!EQSpec
=============================================================================
