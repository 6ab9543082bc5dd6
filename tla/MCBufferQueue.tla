---------------------------- MODULE MCBufferQueue ----------------------------
(* Model-checking instance of BufferQueue: capacity 2, so that the queue *)
(* is full, drained and reused; two messages so that a buffer overwritten *)
(* while queued is seen; lengths 0 and 2 read with room 1 or 2, so that  *)
(* read_front both truncates and copies whole messages.                  *)
EXTENDS BufferQueue

CONSTANTS m1, m2

MCCapacity == 2
MCMsgs == {m1, m2}
MCLens == {0, 2}
MCReadLens == {1, 2}
=============================================================================
