----------------------------- MODULE BoundedFifo -----------------------------
(***************************************************************************)
(* What BufferQueue promises its users (buffer_queue.h): a FIFO of at most *)
(* Capacity messages.  write_back appends a whole message or nothing,      *)
(* read_front removes the oldest one and hands over at most the number of  *)
(* bytes the caller has room for, and clear drops everything.  A message   *)
(* is a pair <<m, n>>: an identity m and a length n in bytes.             *)
(***************************************************************************)
EXTENDS Naturals, Sequences

CONSTANTS Capacity, Msgs, Lens, ReadLens

VARIABLES
    q,     \* the queued messages, oldest first
    got    \* the last message read, as the reader received it (<<>>: none)

Payloads == Msgs \X Lens

(* What the reader receives of message p when it has room for bytes. *)
Truncated(p, bytes) == <<p[1], IF bytes < p[2] THEN bytes ELSE p[2]>>

Init ==
    /\ q = <<>>
    /\ got = <<>>

(* "WriteBack always writes either the complete memory or nothing." *)
Put(p) ==
    /\ Len(q) < Capacity
    /\ q' = Append(q, p)
    /\ UNCHANGED got

(* "ReadFront will only read one buffer at a time and will truncate    *)
(* buffers that don't fit in the passed memory."                       *)
Get(bytes) ==
    /\ q # <<>>
    /\ got' = Truncated(Head(q), bytes)
    /\ q' = Tail(q)

(* "Clear the BufferQueue." *)
Clear ==
    /\ q' = <<>>
    /\ UNCHANGED got

Next ==
    \/ \E p \in Payloads : Put(p)
    \/ \E bytes \in ReadLens : Get(bytes)
    \/ Clear

Spec == Init /\ [][Next]_<<q, got>>
=============================================================================
