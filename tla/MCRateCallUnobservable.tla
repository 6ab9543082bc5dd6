------------------------ MODULE MCRateCallUnobservable ------------------------
(* Model-checking instance of RateCallUnobservable: a 3 ms ring, a clock *)
(* over two turns of it, up to three samples held.                       *)
EXTENDS RateCallUnobservable

MCMaxWindow == 3
MCMaxTime == 6
MCCounts == {1, 2}
MCMaxLive == 3
(* The fixed window: set_window_size only ever with the maximum. *)
MCFixedWindow == {3}
(* A window that shrinks and grows back. *)
MCVaryingWindow == {1, 3}
=============================================================================
