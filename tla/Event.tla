-------------------------------- MODULE Event --------------------------------
(***************************************************************************)
(* rtcbase::Event (event.{h,cpp}): a manual- or auto-reset event built on  *)
(* a pthread mutex and condition variable.  Threads in Waiters call wait(), *)
(* with a finite timeout or k_forever; any other thread calls set() and    *)
(* reset().                                                                *)
(*                                                                         *)
(* wait() is not atomic: it locks _event_mutex, tests _event_status in a   *)
(* loop, and pthread_cond_(timed)wait releases the mutex while it blocks   *)
(* and takes it again before it returns.  A blocked thread wakes on the    *)
(* broadcast of set(), on its timeout, or spuriously (POSIX allows it).   *)
(* set() and reset() do all their work under the mutex, so each is one     *)
(* step taken while nobody holds it.  The absolute deadline is computed   *)
(* by Deadline (TimedWait), as the #else branch built on Linux does, from *)
(* the timeout and the microseconds of the time of day; the clock itself  *)
(* is left out: a valid deadline may pass at any time.                    *)
(***************************************************************************)
EXTENDS Integers, TimedWait

CONSTANTS
    Waiters,   \* threads that call wait()
    NoThread,  \* nobody holds _event_mutex
    MaxOps,    \* bound on the set() and reset() calls
    Millis,    \* timeouts wait() is called with
    Usecs      \* tv_usec values gettimeofday may return

ASSUME EventAssumption ==
    /\ NoThread \notin Waiters
    /\ MaxOps \in Nat

(* tv_usec of gettimeofday lies in 0 .. 999999. *)
ASSUME TimeoutAssumption ==
    /\ Millis \subseteq Int
    /\ Usecs \subseteq Int
    /\ \A u \in Usecs : 0 <= u /\ u <= 999999

(* The inputs of a thread not in wait(). *)
NoCall == <<0, k_forever>>

(* w passed milliseconds != k_forever. *)
Timed(w, c) == c[w][2] # k_forever

(* The deadline w's wait() hands to pthread_cond_timedwait is accepted. *)
TsValid(w, c) == Timed(w, c) => ValidTimespec(Deadline(0, c[w][1], c[w][2]))

(* Where a thread is in wait(): not in it, waiting for the mutex at line *)
(* 79, holding it at the loop test, blocked in pthread_cond_(timed)wait, *)
(* or woken and taking the mutex again inside it.                        *)
Labels == {"idle", "locking", "testing", "blocked", "waking"}
InWait == Labels \ {"idle"}

VARIABLES
    is_manual_reset,  \* _is_manual_reset, fixed by the constructor
    event_status,     \* _event_status
    holder,           \* the thread holding _event_mutex, or NoThread
    pc,               \* pc[w]: where w is in wait()
    call,             \* call[w]: <<tv_usec, milliseconds>> of w's current wait()
    error,            \* error[w]: wait()'s local `error`
    woken,            \* woken[w]: a broadcast reached w since it blocked
    ops,              \* set() and reset() calls so far
    signals,          \* ghost: times the event went from unsignaled to signaled
    consumed,         \* ghost: wait() calls of an auto-reset event that returned true
    cleared           \* ghost: reset() calls that found the event signaled

vars == <<is_manual_reset, event_status, holder, pc, call, error, woken,
          ops, signals, consumed, cleared>>

(* The constructor Event(manual_reset, initially_signaled). *)
Init ==
    /\ is_manual_reset \in BOOLEAN
    /\ event_status \in BOOLEAN
    /\ holder = NoThread
    /\ pc = [w \in Waiters |-> "idle"]
    /\ call = [w \in Waiters |-> NoCall]
    /\ error = [w \in Waiters |-> 0]
    /\ woken = [w \in Waiters |-> FALSE]
    /\ ops = 0
    /\ signals = IF event_status THEN 1 ELSE 0
    /\ consumed = 0
    /\ cleared = 0

-----------------------------------------------------------------------------
(* wait(milliseconds) is called: error = 0, and the deadline computed    *)
(* from the time of day.                                                 *)
Call(w) ==
    /\ pc[w] = "idle"
    /\ pc' = [pc EXCEPT ![w] = "locking"]
    /\ \E m \in Millis, u \in Usecs : call' = [call EXCEPT ![w] = <<u, m>>]
    /\ error' = [error EXCEPT ![w] = 0]
    /\ UNCHANGED <<is_manual_reset, event_status, holder, woken, ops,
                   signals, consumed, cleared>>

(* pthread_mutex_lock(&_event_mutex) *)
Lock(w) ==
    /\ pc[w] = "locking"
    /\ holder = NoThread
    /\ holder' = w
    /\ pc' = [pc EXCEPT ![w] = "testing"]
    /\ UNCHANGED <<is_manual_reset, event_status, call, error, woken, ops,
                   signals, consumed, cleared>>

(* The loop test holds: pthread_cond_(timed)wait releases the mutex and  *)
(* blocks, in one atomic step.                                          *)
Block(w) ==
    /\ pc[w] = "testing"
    /\ ~event_status /\ error[w] = 0
    /\ TsValid(w, call)
    /\ holder' = NoThread
    /\ pc' = [pc EXCEPT ![w] = "blocked"]
    /\ woken' = [woken EXCEPT ![w] = FALSE]
    /\ UNCHANGED <<is_manual_reset, event_status, call, error, ops,
                   signals, consumed, cleared>>

(* The loop test holds but the deadline is no timespec (a negative      *)
(* timeout other than k_forever): pthread_cond_timedwait fails with      *)
(* EINVAL at once, keeping the mutex, and the loop ends.                 *)
BlockInvalid(w) ==
    /\ pc[w] = "testing"
    /\ ~event_status /\ error[w] = 0
    /\ ~TsValid(w, call)
    /\ error' = [error EXCEPT ![w] = EINVAL]
    /\ UNCHANGED <<is_manual_reset, event_status, holder, pc, call,
                   woken, ops, signals, consumed, cleared>>

(* Mutation: the auto-reset also done after a timeout. *)
ReturnResetsOnTimeout(w) ==
    /\ pc[w] = "testing"
    /\ event_status \/ error[w] # 0
    /\ event_status' = IF ~is_manual_reset THEN FALSE ELSE event_status
    /\ consumed' = IF error[w] = 0 /\ ~is_manual_reset THEN consumed + 1 ELSE consumed
    /\ holder' = NoThread
    /\ pc' = [pc EXCEPT ![w] = "idle"]
    /\ call' = [call EXCEPT ![w] = NoCall]
    /\ UNCHANGED <<is_manual_reset, error, woken, ops, signals, cleared>>

(* The loop ends: an auto-reset event is reset by the one thread that    *)
(* returns true, the mutex is released and wait() returns error == 0;   *)
(* its locals, the timeout and the deadline, go out of scope.           *)
Return(w) ==
    /\ pc[w] = "testing"
    /\ event_status \/ error[w] # 0
    /\ event_status' = IF error[w] = 0 /\ ~is_manual_reset THEN FALSE ELSE event_status
    /\ consumed' = IF error[w] = 0 /\ ~is_manual_reset THEN consumed + 1 ELSE consumed
    /\ holder' = NoThread
    /\ pc' = [pc EXCEPT ![w] = "idle"]
    /\ call' = [call EXCEPT ![w] = NoCall]
    /\ UNCHANGED <<is_manual_reset, error, woken, ops, signals, cleared>>

(* The broadcast of set() wakes w; pthread_cond_wait returns 0. *)
Wake(w) ==
    /\ pc[w] = "blocked"
    /\ woken[w]
    /\ pc' = [pc EXCEPT ![w] = "waking"]
    /\ error' = [error EXCEPT ![w] = 0]
    /\ UNCHANGED <<is_manual_reset, event_status, holder, call, woken, ops,
                   signals, consumed, cleared>>

(* A spurious wakeup: pthread_cond_wait returns 0 without a broadcast. *)
SpuriousWakeup(w) ==
    /\ pc[w] = "blocked"
    /\ ~woken[w]
    /\ pc' = [pc EXCEPT ![w] = "waking"]
    /\ error' = [error EXCEPT ![w] = 0]
    /\ UNCHANGED <<is_manual_reset, event_status, holder, call, woken, ops,
                   signals, consumed, cleared>>

(* The deadline of a timed wait passes: ETIMEDOUT. *)
TimeOut(w) ==
    /\ pc[w] = "blocked"
    /\ Timed(w, call)
    /\ pc' = [pc EXCEPT ![w] = "waking"]
    /\ error' = [error EXCEPT ![w] = ETIMEDOUT]
    /\ UNCHANGED <<is_manual_reset, event_status, holder, call, woken, ops,
                   signals, consumed, cleared>>

(* pthread_cond_(timed)wait takes the mutex again before it returns. *)
Reacquire(w) ==
    /\ pc[w] = "waking"
    /\ holder = NoThread
    /\ holder' = w
    /\ pc' = [pc EXCEPT ![w] = "testing"]
    /\ UNCHANGED <<is_manual_reset, event_status, call, error, woken, ops,
                   signals, consumed, cleared>>

(* Mutation: pthread_cond_signal for the broadcast: one waiter woken. *)
SetSignalOne ==
    /\ holder = NoThread
    /\ ops < MaxOps
    /\ event_status' = TRUE
    /\ IF \E w \in Waiters : pc[w] = "blocked"
         THEN \E v \in {w \in Waiters : pc[w] = "blocked"} :
                woken' = [woken EXCEPT ![v] = TRUE]
         ELSE UNCHANGED woken
    /\ ops' = ops + 1
    /\ signals' = IF event_status THEN signals ELSE signals + 1
    /\ UNCHANGED <<is_manual_reset, holder, pc, call, error, consumed, cleared>>

(* set(): under the mutex, _event_status = true and a broadcast to every *)
(* thread blocked on _event_cond.                                       *)
Set ==
    /\ holder = NoThread
    /\ ops < MaxOps
    /\ event_status' = TRUE
    /\ woken' = [w \in Waiters |-> woken[w] \/ pc[w] = "blocked"]
    /\ ops' = ops + 1
    /\ signals' = IF event_status THEN signals ELSE signals + 1
    /\ UNCHANGED <<is_manual_reset, holder, pc, call, error, consumed, cleared>>

(* reset(): under the mutex, _event_status = false. *)
Reset ==
    /\ holder = NoThread
    /\ ops < MaxOps
    /\ event_status' = FALSE
    /\ ops' = ops + 1
    /\ cleared' = IF event_status THEN cleared + 1 ELSE cleared
    /\ UNCHANGED <<is_manual_reset, holder, pc, call, error, woken, signals, consumed>>

Next ==
    \/ \E w \in Waiters :
         \/ Call(w) \/ Lock(w) \/ Block(w) \/ BlockInvalid(w) \/ Return(w)
         \/ Wake(w) \/ SpuriousWakeup(w) \/ TimeOut(w) \/ Reacquire(w)
    \/ Set
    \/ Reset

(* The scheduler runs every runnable thread: a thread holding the mutex  *)
(* tests and blocks or returns, and a broadcast or an expired deadline   *)
(* wakes a blocked thread.  A thread that waits for the mutex is not     *)
(* starved forever while it is free again and again (strong fairness);   *)
(* pthread mutexes promise no order, only that.  Nothing forces a        *)
(* spurious wakeup, a new wait() call, set() or reset().                 *)
Fairness ==
    \A w \in Waiters :
        /\ SF_vars(Lock(w)) /\ WF_vars(Block(w)) /\ WF_vars(BlockInvalid(w))
        /\ WF_vars(Return(w))
        /\ WF_vars(Wake(w)) /\ WF_vars(TimeOut(w)) /\ SF_vars(Reacquire(w))

Spec == Init /\ [][Next]_vars /\ Fairness

-----------------------------------------------------------------------------
(* Every variable has its type. *)
TypeOK ==
    /\ is_manual_reset \in BOOLEAN
    /\ event_status \in BOOLEAN
    /\ holder \in Waiters \cup {NoThread}
    /\ pc \in [Waiters -> Labels]
    /\ call \in [Waiters -> (Usecs \cup {0}) \X (Millis \cup {k_forever})]
    /\ error \in [Waiters -> {0, ETIMEDOUT, EINVAL}]
    /\ woken \in [Waiters -> BOOLEAN]
    /\ ops \in 0 .. MaxOps
    /\ signals \in Nat /\ consumed \in Nat /\ cleared \in Nat

(* event.cpp 95-97, "exactly one thread will auto-reset this event": for *)
(* an auto-reset event, whatever the interleaving of waits, timeouts,    *)
(* spurious wakeups, set() and reset(), every time the event became      *)
(* signaled is accounted for exactly once: one wait() returned true for  *)
(* it, a reset() cleared it, or it is still signaled.  Two waiters never *)
(* both take one set(), and a wait that times out never swallows one.    *)
AutoResetHandsOnce ==
    ~is_manual_reset =>
        consumed + cleared + (IF event_status THEN 1 ELSE 0) = signals

(* For every time of day and every non-negative timeout a thread passes, *)
(* the deadline wait() hands to pthread_cond_timedwait is a valid       *)
(* timespec exactly `milliseconds` after now: one carry suffices, and    *)
(* the intermediate tv_nsec sum fits in a 32-bit long.                   *)
DeadlineExact ==
    \A w \in Waiters :
        LET u == call[w][1]
            m == call[w][2]
            ts == Deadline(0, u, m)
        IN  m >= 0 =>
                /\ ValidTimespec(ts)
                /\ (ts[1] - CDiv(m, 1000)) * 1000000000 + ts[2]
                       = u * 1000 + CMod(m, 1000) * 1000000
                /\ u * 1000 + CMod(m, 1000) * 1000000 <= 2147483647

(* Once the event is signaled, every thread inside wait() returns, unless *)
(* the event is taken by an auto-reset wait or reset() first: set()'s     *)
(* broadcast reaches every blocked waiter.                                *)
SignaledReleases ==
    \A w \in Waiters :
        (event_status /\ pc[w] \in InWait) ~> (pc[w] = "idle" \/ ~event_status)
=============================================================================
