------------------------------- MODULE TimedWait -------------------------------
(***************************************************************************)
(* The timeout arithmetic of Event::wait (event.cpp 55-77): the absolute  *)
(* deadline handed to pthread_cond_timedwait, computed from gettimeofday  *)
(* and the timeout in milliseconds.  HAVE_PTHREAD_COND_TIMEDWAIT_RELATIVE *)
(* is defined nowhere in the build, so the #else branch is the one        *)
(* modelled.  A timespec is a pair <<tv_sec, tv_nsec>>.                  *)
(***************************************************************************)
EXTENDS Integers

(* pthread_cond_timedwait's result on expiry (Linux errno value). *)
ETIMEDOUT == 110
(* ... and on a timespec whose tv_nsec is outside 0 .. 999999999. *)
EINVAL == 22

(* Event::k_forever *)
k_forever == -1

(* C's int division and remainder, which truncate toward zero. *)
CDiv(a, b) == IF a >= 0 THEN a \div b ELSE -((-a) \div b)
CMod(a, b) == a - b * CDiv(a, b)

(* Mutation: the overflow test with > for >=. *)
DeadlineLateCarry(tv_sec, tv_usec, milliseconds) ==
    LET sec == tv_sec + CDiv(milliseconds, 1000)
        nsec == tv_usec * 1000 + CMod(milliseconds, 1000) * 1000000
    IN  IF nsec > 1000000000 THEN <<sec + 1, nsec - 1000000000>> ELSE <<sec, nsec>>

(* wait(): ts = now + milliseconds, as <<tv_sec, tv_nsec>>, with the one  *)
(* carry of "Handle overflow".                                           *)
Deadline(tv_sec, tv_usec, milliseconds) ==
    LET sec == tv_sec + CDiv(milliseconds, 1000)
        nsec == tv_usec * 1000 + CMod(milliseconds, 1000) * 1000000
    IN  IF nsec >= 1000000000 THEN <<sec + 1, nsec - 1000000000>> ELSE <<sec, nsec>>

(* What pthread_cond_timedwait accepts. *)
ValidTimespec(ts) == 0 <= ts[2] /\ ts[2] <= 999999999

=============================================================================
