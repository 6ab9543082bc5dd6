------------------------------ MODULE EventProofs ------------------------------
(***************************************************************************)
(* Proofs about Event, for every set of waiters and every bound.          *)
(* AutoResetHandsOnce is inductive once the types are known: the only     *)
(* step that turns the event off without a reset() is the auto-reset of   *)
(* Return, and its guard (the loop ended with error == 0) means the event *)
(* was on.                                                                *)
(***************************************************************************)
EXTENDS Event, TLAPS

(* The inductive invariant. *)
IInv == TypeOK /\ AutoResetHandsOnce

(* The constructor's states satisfy IInv. *)
LEMMA InitIInv == Init => IInv
BY EventAssumption DEF Init, IInv, TypeOK, AutoResetHandsOnce, Labels, ETIMEDOUT, EINVAL, NoCall

(* The thread steps of wait() preserve IInv. *)
LEMMA ThreadStepIInv ==
    ASSUME IInv, NEW w \in Waiters,
           Call(w) \/ Lock(w) \/ Block(w) \/ BlockInvalid(w) \/ Return(w)
           \/ Wake(w) \/ SpuriousWakeup(w) \/ TimeOut(w) \/ Reacquire(w)
    PROVE  IInv'
<1> USE EventAssumption DEF IInv, TypeOK, AutoResetHandsOnce, Labels, ETIMEDOUT, EINVAL
<1>1. CASE Call(w)
  <2>1. PICK m \in Millis, u \in Usecs : call' = [call EXCEPT ![w] = <<u, m>>]
    BY <1>1 DEF Call
  <2> QED BY <1>1, <2>1 DEF Call
<1>2. CASE Lock(w)
  BY <1>2 DEF Lock
<1>3. CASE Block(w)
  BY <1>3 DEF Block
<1>4. CASE BlockInvalid(w)
  BY <1>4 DEF BlockInvalid
<1>5. CASE Return(w)
  <2>0. call' \in [Waiters -> (Usecs \cup {0}) \X (Millis \cup {k_forever})]
    BY <1>5 DEF Return, NoCall
  <2>1. CASE error[w] = 0 /\ ~is_manual_reset
    <3>1. event_status
      BY <1>5, <2>1 DEF Return
    <3> QED BY <1>5, <2>0, <2>1, <3>1 DEF Return
  <2>2. CASE ~(error[w] = 0 /\ ~is_manual_reset)
    BY <1>5, <2>0, <2>2 DEF Return
  <2> QED BY <2>1, <2>2
<1>6. CASE Wake(w)
  BY <1>6 DEF Wake
<1>7. CASE SpuriousWakeup(w)
  BY <1>7 DEF SpuriousWakeup
<1>8. CASE TimeOut(w)
  BY <1>8 DEF TimeOut
<1>9. CASE Reacquire(w)
  BY <1>9 DEF Reacquire
<1> QED BY <1>1, <1>2, <1>3, <1>4, <1>5, <1>6, <1>7, <1>8, <1>9

(* set() and reset() preserve IInv. *)
LEMMA SetResetIInv ==
    ASSUME IInv, Set \/ Reset
    PROVE  IInv'
<1> USE EventAssumption DEF IInv, TypeOK, AutoResetHandsOnce, ETIMEDOUT, EINVAL
<1>1. CASE Set
  <2>1. CASE event_status
    BY <1>1, <2>1 DEF Set
  <2>2. CASE ~event_status
    BY <1>1, <2>2 DEF Set
  <2> QED BY <2>1, <2>2
<1>2. CASE Reset
  <2>1. TypeOK'
    <3>1. event_status' \in BOOLEAN
      BY <1>2, Zenon DEF Reset
    <3>2. ops' \in 0 .. MaxOps /\ cleared' \in Nat
      BY <1>2 DEF Reset
    <3> QED BY <1>2, <3>1, <3>2 DEF Reset
  <2>2. (IF event_status' THEN 1 ELSE 0) = 0
    BY <1>2 DEF Reset
  <2>3. cleared' = cleared + (IF event_status THEN 1 ELSE 0)
    BY <1>2 DEF Reset
  <2>4. UNCHANGED <<is_manual_reset, consumed, signals>>
    BY <1>2 DEF Reset
  <2>5. AutoResetHandsOnce'
    BY <2>2, <2>3, <2>4
  <2> QED BY <2>1, <2>5
<1> QED BY <1>1, <1>2

(* Every step, stuttering included, preserves IInv. *)
LEMMA NextIInv == IInv /\ [Next]_vars => IInv'
<1> SUFFICES ASSUME IInv, [Next]_vars PROVE IInv'
  OBVIOUS
<1>1. CASE Next
  BY <1>1, ThreadStepIInv, SetResetIInv DEF Next
<1>2. CASE UNCHANGED vars
  BY <1>2 DEF vars, IInv, TypeOK, AutoResetHandsOnce
<1> QED BY <1>1, <1>2

(* Every variable of Event keeps its type through every interleaving of *)
(* wait(), set() and reset().                                          *)
THEOREM TypeCorrect == Spec => []TypeOK
<1>1. Init => IInv BY InitIInv
<1>2. IInv /\ [Next]_vars => IInv' BY NextIInv
<1>3. IInv => TypeOK BY DEF IInv
<1> QED BY <1>1, <1>2, <1>3, PTL DEF Spec

(* event.cpp 95-97: an auto-reset event hands each signal to exactly one *)
(* returning wait(), or it is cleared by reset(), or it is still on,     *)
(* whatever the number of waiters and of set() and reset() calls.        *)
THEOREM AutoResetHandsOnceHolds == Spec => []AutoResetHandsOnce
<1>1. Init => IInv BY InitIInv
<1>2. IInv /\ [Next]_vars => IInv' BY NextIInv
<1>3. IInv => AutoResetHandsOnce BY DEF IInv
<1> QED BY <1>1, <1>2, <1>3, PTL DEF Spec
-----------------------------------------------------------------------------
(* wait()'s deadline arithmetic (event.cpp 64-75) for every tv_usec that  *)
(* gettimeofday returns and every non-negative timeout: the remainder of  *)
(* milliseconds is below 1000, so tv_nsec before the carry is below       *)
(* 2 * 10^9, one carry brings it under 10^9, and the sum fits in 31 bits. *)
LEMMA DeadlineArith ==
    ASSUME NEW u \in Int, 0 <= u, u <= 999999, NEW m \in Nat
    PROVE  LET ts == Deadline(0, u, m)
           IN  /\ ValidTimespec(ts)
               /\ (ts[1] - CDiv(m, 1000)) * 1000000000 + ts[2]
                      = u * 1000 + CMod(m, 1000) * 1000000
               /\ u * 1000 + CMod(m, 1000) * 1000000 <= 2147483647
<1> DEFINE q == m \div 1000
           r == m % 1000
           nsec == u * 1000 + r * 1000000
           ts == Deadline(0, u, m)
<1>1. /\ q \in Int /\ r \in Int /\ 0 <= r /\ r <= 999
      /\ CDiv(m, 1000) = q /\ CMod(m, 1000) = r
  BY SMT DEF CDiv, CMod
<1>2. nsec \in Int /\ 0 <= nsec /\ nsec <= 1998999000
  BY <1>1, SMT
<1>3. ts = IF nsec >= 1000000000 THEN <<q + 1, nsec - 1000000000>> ELSE <<q, nsec>>
  BY <1>1, SMT DEF Deadline
<1> HIDE DEF q, r, nsec, ts
(* At most one carry: tv_sec grows by the carry, tv_nsec loses it. *)
<1>4. /\ (ts[1] - q) * 1000000000 + ts[2] = nsec
      /\ 0 <= ts[2] /\ ts[2] <= 999999999
  <2>1. CASE nsec >= 1000000000
    <3>1. ts[1] = q + 1 /\ ts[2] = nsec - 1000000000
      BY <1>3, <2>1, SMT
    <3>2. QED
      BY <1>1, <1>2, <2>1, <3>1, SMT
  <2>2. CASE ~(nsec >= 1000000000)
    <3>1. ts[1] = q /\ ts[2] = nsec
      BY <1>3, <2>2, SMT
    <3>2. QED
      BY <1>1, <1>2, <2>2, <3>1, SMT
  <2>3. QED
    BY <2>1, <2>2
<1>5. QED
  BY <1>1, <1>2, <1>4, SMT DEF ValidTimespec, nsec, ts

(* For every time of day and every timeout a thread passes to wait(),    *)
(* whatever the sets of timeouts and microsecond values, the deadline    *)
(* handed to pthread_cond_timedwait is a valid timespec exactly         *)
(* `milliseconds` after now, computed without 32-bit overflow.          *)
THEOREM DeadlineExactHolds == Spec => []DeadlineExact
<1>1. TypeOK => DeadlineExact
  <2> SUFFICES ASSUME TypeOK, NEW w \in Waiters
               PROVE  LET u == call[w][1]
                          m == call[w][2]
                          ts == Deadline(0, u, m)
                      IN  m >= 0 =>
                            /\ ValidTimespec(ts)
                            /\ (ts[1] - CDiv(m, 1000)) * 1000000000 + ts[2]
                                   = u * 1000 + CMod(m, 1000) * 1000000
                            /\ u * 1000 + CMod(m, 1000) * 1000000 <= 2147483647
    BY DEF DeadlineExact
  <2> DEFINE u == call[w][1]
             m == call[w][2]
  <2>1. u \in Usecs \cup {0} /\ m \in Millis \cup {k_forever}
    BY DEF TypeOK
  <2> HIDE DEF u, m
  <2>2. u \in Int /\ 0 <= u /\ u <= 999999
    BY <2>1, TimeoutAssumption, SMT
  <2>3. m >= 0 => m \in Nat
    BY <2>1, TimeoutAssumption, SMT DEF k_forever
  <2>4. ASSUME m >= 0
        PROVE  LET ts == Deadline(0, u, m)
               IN  /\ ValidTimespec(ts)
                   /\ (ts[1] - CDiv(m, 1000)) * 1000000000 + ts[2]
                          = u * 1000 + CMod(m, 1000) * 1000000
                   /\ u * 1000 + CMod(m, 1000) * 1000000 <= 2147483647
    <3>1. m \in Nat
      BY <2>3, <2>4
    <3>2. QED
      BY <2>2, <3>1, DeadlineArith
  <2>5. QED
    BY <2>4 DEF u, m
<1>2. QED
  BY TypeCorrect, <1>1, PTL
=============================================================================
