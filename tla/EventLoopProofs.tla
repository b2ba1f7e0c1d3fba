--------------------------- MODULE EventLoopProofs ---------------------------
(***************************************************************************)
(* EventLoop's safety properties, for any number of waiters, signals,      *)
(* datagrams and calls of set() and clear().                               *)
(*                                                                         *)
(* The argument: between the test of the flag and the first callback there *)
(* is exactly one receive, so a datagram received after clear() is the     *)
(* only one; the callbacks that follow are counted by their place, and the *)
(* test after the last of them ends the loop (LateOnlyAfterRecv).          *)
(***************************************************************************)
EXTENDS EventLoop, TLAPS

(* The number of callbacks is a number. *)
LEMMA CallbackCount == TypeOK => callbacks \in Nat
  BY LoopBounds DEF TypeOK, MayRegister

LEMMA InitIInv == Init => IInv
  <1> SUFFICES ASSUME Init PROVE IInv
    OBVIOUS
  <1>0. callbacks \in Nat
    BY LoopBounds DEF Init, MayRegister
  <1>1. TypeOK
    <2>1. /\ class \in Classes /\ kind \in SockKinds /\ timed \in BOOLEAN
          /\ callbacks \in MayRegister(class)
          /\ flag \in BOOLEAN /\ enabled \in BOOLEAN
          /\ val \in [Waiter -> BOOLEAN]
      BY Zenon DEF Init
    <2>2. /\ loop \in LoopAt
          /\ waiter \in [Waiter -> {"outside", "check", "parked", "returned"}]
          /\ caught \subseteq Signal \ Uncatchable
      BY DEF Init, LoopAt
    <2>3. /\ queue \in 0 .. arrived /\ late \in Nat /\ taken \in Nat
          /\ turn \in 0 .. callbacks
          /\ changes \in 0 .. MaxChanges /\ arrived \in 0 .. MaxData
      BY <1>0, LoopBounds DEF Init
    <2> QED
      BY <2>1, <2>2, <2>3 DEF TypeOK
  <1>2. LateOnlyAfterRecv
    BY DEF Init, LateOnlyAfterRecv
  <1> QED
    BY <1>1, <1>2 DEF IInv

(* set(), clear() and the handler. *)
LEMMA FlagPreserves ==
  ASSUME IInv, Change \/ HandlerElsewhere \/ HandlerInRecv
  PROVE  IInv'
  <1>0. callbacks \in Nat
    BY CallbackCount DEF IInv
  <1> USE <1>0, LoopBounds DEF IInv, TypeOK, LateOnlyAfterRecv, fixed, history,
                               waitVars, signalVars
  <1>1. CASE Change
    <2>1. flag' \in BOOLEAN
      BY <1>1, Zenon DEF Change, set, clear
    <2>2. \/ late' = 0 /\ taken' = 0
          \/ ~flag' /\ late' = late /\ taken' = taken
      BY <1>1 DEF Change, set, clear
    <2>3. changes' \in 0 .. MaxChanges
      BY <1>1 DEF Change
    <2> QED
      BY <1>1, <2>1, <2>2, <2>3 DEF Change
  <1>2. CASE HandlerElsewhere
    BY <1>2 DEF HandlerElsewhere, clear, Alive
  <1>3. CASE HandlerInRecv
    <2>1. AfterError \in {"test", "threw"}
      BY DEF AfterError
    <2> QED
      BY <1>3, <2>1 DEF HandlerInRecv, clear, LoopAt
  <1> QED
    BY <1>1, <1>2, <1>3

(* The threads in wait(). *)
LEMMA WaitPreserves ==
  ASSUME IInv, NEW w \in Waiter,
         \/ \E v \in BOOLEAN : wait(w, v)
         \/ waitCheck(w) \/ waitSpurious(w) \/ waitReturn(w)
  PROVE  IInv'
  BY DEF IInv, TypeOK, LateOnlyAfterRecv, fixed, history, waitVars, signalVars,
         wait, waitCheck, waitSpurious, waitReturn

(* The loop's own steps. *)
LEMMA LoopPreserves ==
  ASSUME IInv,
         \/ loopCall \/ loopTest \/ onceEnter \/ onceReceive \/ onceNoCallback
         \/ onceEmpty \/ onceTimeOut \/ onceNext \/ onceReturn
  PROVE  IInv'
  <1>0. callbacks \in Nat
    BY CallbackCount DEF IInv
  <1> USE <1>0, LoopBounds DEF IInv, TypeOK, LateOnlyAfterRecv, LoopTo, LoopAt,
                               fixed, history, waitVars, signalVars
  <1>1. CASE loopCall \/ loopTest
    BY <1>1 DEF loopCall, loopTest
  <1>2. CASE onceEnter
    BY <1>2 DEF onceEnter
  <1>3. CASE onceReceive
    BY <1>3 DEF onceReceive, Take, Begin
  <1>4. CASE onceNoCallback \/ onceEmpty
    BY <1>4 DEF onceNoCallback, onceEmpty, Take
  <1>5. CASE onceTimeOut
    <2>1. AfterError \in {"test", "threw"}
      BY DEF AfterError
    <2> QED
      BY <1>5, <2>1 DEF onceTimeOut
  <1>6. CASE onceNext
    BY <1>6 DEF onceNext, Begin
  <1>7. CASE onceReturn
    BY <1>7 DEF onceReturn
  <1> QED
    BY <1>1, <1>2, <1>3, <1>4, <1>5, <1>6, <1>7

(* Datagrams, SignalFunc::enable() and a signal that is not caught. *)
LEMMA OutsidePreserves ==
  ASSUME IInv, Arrive \/ (\E g \in Signal : enable(g)) \/ Kill
  PROVE  IInv'
  <1> USE LoopBounds DEF IInv, TypeOK, LateOnlyAfterRecv, fixed, history,
                         waitVars, signalVars
  <1>1. CASE Arrive
    BY <1>1 DEF Arrive
  <1>2. CASE \E g \in Signal : enable(g)
    BY <1>2 DEF enable
  <1>3. CASE Kill
    BY <1>3 DEF Kill, LoopAt
  <1> QED
    BY <1>1, <1>2, <1>3

LEMMA NextIInv == IInv /\ [Next]_vars => IInv'
  <1> SUFFICES ASSUME IInv, [Next]_vars PROVE IInv'
    OBVIOUS
  <1>1. CASE UNCHANGED vars
    BY <1>1 DEF vars, IInv, TypeOK, LateOnlyAfterRecv
  <1>2. CASE Next
    BY <1>2, FlagPreserves, WaitPreserves, LoopPreserves, OutsidePreserves DEF Next
  <1> QED
    BY <1>1, <1>2

(* The inductive invariant holds throughout. *)
THEOREM Invariance == Spec => []IInv
  BY InitIInv, NextIInv, PTL DEF Spec

(* Type correctness; in particular SIGKILL and SIGSTOP are never caught. *)
THEOREM TypeCorrect == Spec => []TypeOK
  <1>1. IInv => TypeOK
    BY DEF IInv
  <1> QED
    BY <1>1, Invariance, PTL

(* After clear() at most one more datagram is received, and the callbacks  *)
(* that begin are those of one message. *)
THEOREM AtMostOneLate == Spec => []OneLateMessage
  <1>1. IInv => OneLateMessage
    BY DEF IInv, LateOnlyAfterRecv, OneLateMessage
  <1> QED
    BY <1>1, Invariance, PTL
=============================================================================
