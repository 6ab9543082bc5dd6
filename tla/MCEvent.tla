-------------------------------- MODULE MCEvent --------------------------------
(* Model-checking instance of Event: two waiting threads, so that two     *)
(* waiters race for one set() and one waiter can be woken while the other *)
(* times out; three set() or reset() calls, so that set, reset, set and   *)
(* set, set happen around blocked waiters.  A wait is untimed, timed, or *)
(* timed with a negative timeout, which gives a negative tv_nsec (usec   *)
(* 4999) or a deadline already past (usec 999000); usec 999000 with 1 ms *)
(* carries to exactly 10^9 ns.                                            *)
EXTENDS Event

CONSTANTS w1, w2

MCWaiters == {w1, w2}
MCMaxOps == 3
MCMillis == {k_forever, -5, 1}
MCUsecs == {4999, 999000}
=============================================================================
