---------------------------- MODULE RateStatistics ----------------------------
(***************************************************************************)
(* rtcbase::RateStatistics (rate_statistics.{h,cpp}): a sliding-window    *)
(* rate estimator.  One bucket per millisecond of the largest window, used *)
(* as a ring: _oldest_index is the bucket of _oldest_time, and the bucket *)
(* of time t is _oldest_index + (t - _oldest_time), wrapped once.          *)
(* erase_old, which update, rate and set_window_size all call, culls the  *)
(* buckets that fell out of the current window.                           *)
(*                                                                         *)
(* The object is one record; every member function is an operator from    *)
(* record to record, so that RateCallUnobservable can run two objects.    *)
(* `history` is a ghost: every sample update accepted since the last      *)
(* reset, against which the buckets are checked.  The float computation   *)
(* of rate() is left out: its result is the pair it is computed from.    *)
(***************************************************************************)
EXTENDS Integers, Sequences, FiniteSets, FiniteSetsExt

CONSTANTS
    MaxWindow,    \* max_window_size_ms
    Times,        \* timestamps the caller passes
    Counts,       \* counts update is called with
    WindowSizes,  \* sizes set_window_size is called with
    MaxUpdates    \* bound on accepted samples between resets

ASSUME MaxWindowAssumption == MaxWindow \in Nat \ {0}
ASSUME InputsAssumption ==
    /\ Times \subseteq Int /\ Counts \subseteq Nat /\ WindowSizes \subseteq Int
    /\ MaxUpdates \in Nat

Slots == 0 .. MaxWindow - 1
EmptyBucket == [sum |-> 0, samples |-> 0]

(* The constructor, and reset. *)
Fresh ==
    [buckets                |-> [k \in Slots |-> EmptyBucket],
     accumulated_count      |-> 0,
     num_samples            |-> 0,
     oldest_time            |-> -MaxWindow,
     oldest_index           |-> 0,
     current_window_size_ms |-> MaxWindow]

(* is_initialized *)
IsInitialized(s) == s.oldest_time # -MaxWindow

(* One turn of erase_old's loop: empty the oldest bucket and advance. *)
CullOldest(s) ==
    LET b == s.buckets[s.oldest_index]
    IN  [s EXCEPT !.accumulated_count = @ - b.sum,
                  !.num_samples = @ - b.samples,
                  !.buckets[s.oldest_index] = EmptyBucket,
                  !.oldest_index = IF @ + 1 >= MaxWindow THEN 0 ELSE @ + 1,
                  !.oldest_time = @ + 1]

RECURSIVE CullLoop(_, _)
CullLoop(s, new_oldest_time) ==
    IF s.num_samples > 0 /\ s.oldest_time < new_oldest_time
    THEN CullLoop(CullOldest(s), new_oldest_time)
    ELSE s

(* Mutation: the loop leaves the culled bucket's contents in place. *)
EraseOldNoClear(s, now_ms) ==
    LET new_oldest_time == now_ms - s.current_window_size_ms + 1
        Keep(t) == [t EXCEPT !.buckets = s.buckets]
    IN  IF ~IsInitialized(s) \/ new_oldest_time <= s.oldest_time THEN s
        ELSE [Keep(CullLoop(s, new_oldest_time)) EXCEPT !.oldest_time = new_oldest_time]

(* erase_old *)
EraseOld(s, now_ms) ==
    LET new_oldest_time == now_ms - s.current_window_size_ms + 1
    IN  IF ~IsInitialized(s) \/ new_oldest_time <= s.oldest_time THEN s
        ELSE [CullLoop(s, new_oldest_time) EXCEPT !.oldest_time = new_oldest_time]

(* update: whether the sample is taken, and the object after it. *)
Accepts(s, now_ms) == now_ms >= s.oldest_time
Update(s, count, now_ms) ==
    IF ~Accepts(s, now_ms) THEN s
    ELSE LET e == EraseOld(s, now_ms)
             i == IF IsInitialized(e) THEN e ELSE [e EXCEPT !.oldest_time = now_ms]
             index0 == i.oldest_index + (now_ms - i.oldest_time)
             index == IF index0 >= MaxWindow THEN index0 - MaxWindow ELSE index0
         IN  [i EXCEPT !.buckets[index] = [sum |-> @.sum + count,
                                           samples |-> @.samples + 1],
                       !.accumulated_count = @ + count,
                       !.num_samples = @ + 1]

(* Mutation: rate() culls as if called one millisecond later. *)
RateCallAhead(s, now_ms) == EraseOld(s, now_ms + 1)

(* rate: the const_cast erase_old, the state change it makes. *)
RateCall(s, now_ms) == EraseOld(s, now_ms)

(* rate: what it returns on the object after its erase_old: nullopt    *)
(* (<<>>), or the count and active window the value is scaled from.     *)
RateResult(e, now_ms) ==
    LET active_window_size == now_ms - e.oldest_time + 1
    IN  IF \/ e.num_samples = 0
           \/ active_window_size <= 1
           \/ e.num_samples <= 1 /\ active_window_size < e.current_window_size_ms
        THEN <<>>
        ELSE <<e.accumulated_count, active_window_size>>

(* Mutation: set_window_size without its range check. *)
SetWindowSizeUnchecked(s, window_size_ms, now_ms) ==
    EraseOld([s EXCEPT !.current_window_size_ms = window_size_ms], now_ms)

(* set_window_size: refused outside 1 .. max_window_size_ms. *)
SetWindowSize(s, window_size_ms, now_ms) ==
    IF window_size_ms <= 0 \/ window_size_ms > MaxWindow THEN s
    ELSE EraseOld([s EXCEPT !.current_window_size_ms = window_size_ms], now_ms)

-----------------------------------------------------------------------------
VARIABLES
    rs,       \* the RateStatistics object
    history   \* ghost: the <<now_ms, count>> samples taken since the last reset

vars == <<rs, history>>

Init ==
    /\ rs = Fresh
    /\ history = <<>>

(* update(count, now_ms) *)
UpdateStep ==
    /\ Len(history) < MaxUpdates
    /\ \E c \in Counts, t \in Times :
         /\ rs' = Update(rs, c, t)
         /\ history' = IF Accepts(rs, t) THEN Append(history, <<t, c>>) ELSE history

(* rate(now_ms) *)
RateStep ==
    /\ \E t \in Times : rs' = RateCall(rs, t)
    /\ UNCHANGED history

(* set_window_size(window_size_ms, now_ms) *)
SetWindowSizeStep ==
    /\ \E w \in WindowSizes, t \in Times : rs' = SetWindowSize(rs, w, t)
    /\ UNCHANGED history

(* reset() *)
ResetStep ==
    /\ rs' = Fresh
    /\ history' = <<>>

Next == UpdateStep \/ RateStep \/ SetWindowSizeStep \/ ResetStep

Spec == Init /\ [][Next]_vars

-----------------------------------------------------------------------------
(* Every field has its type. *)
TypeOK ==
    /\ rs.buckets \in [Slots -> [sum : Nat, samples : Nat]]
    /\ rs.accumulated_count \in Nat
    /\ rs.num_samples \in Nat
    /\ rs.oldest_time \in Int
    /\ rs.oldest_index \in Slots
    /\ rs.current_window_size_ms \in 1 .. MaxWindow
    /\ history \in Seq(Times \X Counts)

(* The samples still in the window: taken at or after _oldest_time. *)
Live == {i \in 1 .. Len(history) : history[i][1] >= rs.oldest_time}

(* The ring bucket a time maps to. *)
BucketOf(t) == (rs.oldest_index + (t - rs.oldest_time)) % MaxWindow

(* After any sequence of update, rate, set_window_size and reset calls,  *)
(* with any timestamps: the ring holds exactly the samples taken at or   *)
(* after _oldest_time, each in the bucket of its millisecond, within one *)
(* turn of the ring; _accumulated_count and _num_samples are their sum   *)
(* and number; and an object that is not initialized holds nothing.     *)
WindowExact ==
    /\ rs.accumulated_count = MapThenSumSet(LAMBDA i : history[i][2], Live)
    /\ rs.num_samples = Cardinality(Live)
    /\ \A i \in Live : history[i][1] - rs.oldest_time < MaxWindow
    /\ \A k \in Slots :
         LET here == {i \in Live : BucketOf(history[i][1]) = k}
         IN  rs.buckets[k] = [sum |-> MapThenSumSet(LAMBDA i : history[i][2], here),
                              samples |-> Cardinality(here)]
    /\ ~IsInitialized(rs) => Live = {}
=============================================================================
