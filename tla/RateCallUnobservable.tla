------------------------- MODULE RateCallUnobservable -------------------------
(***************************************************************************)
(* Two RateStatistics objects that receive the same update and            *)
(* set_window_size calls at the same times of a monotonic clock; object a *)
(* also receives rate() calls in between.  rate_statistics.h says of      *)
(* rate(): "it doesn't make any alterations that are observable from the *)
(* other methods, as long as supplied timestamps are from a monotonic     *)
(* clock".  The observation is what rate() would return, at any time not *)
(* before the clock.                                                      *)
(***************************************************************************)
EXTENDS Integers

CONSTANTS
    MaxWindow,    \* max_window_size_ms of both objects
    MaxTime,      \* the clock runs over 0 .. MaxTime
    Counts,       \* counts update is called with
    WindowSizes,  \* sizes set_window_size is called with
    MaxLive       \* bound on the samples an object holds

VARIABLES
    a,    \* the object that also receives rate() calls
    b,    \* the object that does not
    now   \* the monotonic clock

vars == <<a, b, now>>

R == INSTANCE RateStatistics
        WITH rs <- a, history <- <<>>, Times <- 0 .. MaxTime, MaxUpdates <- 0

Init ==
    /\ a = R!Fresh
    /\ b = R!Fresh
    /\ now = 0

(* The clock advances. *)
Tick ==
    /\ now < MaxTime
    /\ now' = now + 1
    /\ UNCHANGED <<a, b>>

(* Both objects: update(count, now). *)
UpdateBoth ==
    /\ b.num_samples < MaxLive
    /\ \E c \in Counts :
         /\ a' = R!Update(a, c, now)
         /\ b' = R!Update(b, c, now)
    /\ UNCHANGED now

(* Both objects: set_window_size(window_size_ms, now). *)
SetWindowSizeBoth ==
    /\ \E w \in WindowSizes :
         /\ a' = R!SetWindowSize(a, w, now)
         /\ b' = R!SetWindowSize(b, w, now)
    /\ UNCHANGED now

(* Object a only: rate(now). *)
RateOnA ==
    /\ a' = R!RateCall(a, now)
    /\ UNCHANGED <<b, now>>

Next == Tick \/ UpdateBoth \/ SetWindowSizeBoth \/ RateOnA

Spec == Init /\ [][Next]_vars

(* What rate(t) would return on object o, t not before the clock. *)
Observe(o, t) == R!RateResult(R!EraseOld(o, t), t)

(* rate_statistics.h, rate(): a rate() call makes no alteration that is  *)
(* observable later, as long as timestamps are monotonic: whatever       *)
(* rate() call happens from now on, both objects answer alike.           *)
RateCallUnobservable == \A t \in now .. MaxTime : Observe(a, t) = Observe(b, t)
=============================================================================
