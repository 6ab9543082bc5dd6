----------------------------- MODULE BufferQueue -----------------------------
(***************************************************************************)
(* rtcbase::BufferQueue (buffer_queue.{h,cpp}): a bounded queue of Buffer *)
(* objects with a free list for reuse, every member function under one    *)
(* CritScope, so each call is one atomic step.  Buffers are numbered in    *)
(* the order `new Buffer` creates them; data[b] is what buffer b holds.   *)
(*                                                                         *)
(* Two client threads use it the way its notify hooks are meant for: a     *)
(* writer that, when write_back returns false, waits for                   *)
(* notify_writable_for_test, and a reader that, when read_front returns    *)
(* false, waits for notify_readable_for_test.  Any thread may call clear. *)
(***************************************************************************)
EXTENDS Naturals, Sequences

CONSTANTS
    Capacity,  \* _capacity
    Msgs,      \* message identities
    Lens,      \* lengths a writer passes to write_back
    ReadLens   \* room a reader passes to read_front

ASSUME CapacityAssumption == Capacity \in Nat
ASSUME LensAssumption == Lens \subseteq Nat /\ ReadLens \subseteq Nat

VARIABLES
    queue,           \* _queue: buffer numbers, front first
    free_list,       \* _free_list: buffer numbers, back last
    data,            \* data[b]: the <<message, length>> buffer b holds
    allocated,       \* how many Buffers `new` has created
    got,             \* what the reader's last successful read_front copied
    reader_waiting,  \* the reader waits for notify_readable_for_test
    writer_waiting   \* the writer waits for notify_writable_for_test

vars == <<queue, free_list, data, allocated, got, reader_waiting, writer_waiting>>

Payloads == Msgs \X Lens

(* The abstract queue: the messages the queued buffers hold. *)
Contents == [i \in 1 .. Len(queue) |-> data[queue[i]]]

Fifo == INSTANCE BoundedFifo WITH q <- Contents

Init ==
    /\ queue = <<>>
    /\ free_list = <<>>
    /\ data = [b \in 1 .. 0 |-> <<>>]
    /\ allocated = 0
    /\ got = <<>>
    /\ reader_waiting = FALSE
    /\ writer_waiting = FALSE

(* Mutation: `was_readable` taken after push_back, so never false. *)
WasReadableAlways(s) == TRUE

(* write_back: was_readable *)
WasReadable(s) == s # <<>>

(* read_front: was_writable *)
WasWritable(s) == Len(s) < Capacity

(* read_front: bytes = std::min(bytes, packet->size()) *)
CopiedBytes(p, bytes) == IF bytes < p[2] THEN bytes ELSE p[2]

(* The Buffer `new Buffer(bytes, _default_size)` creates. *)
NewBuffer == allocated + 1

(* std::vector::pop_back: the sequence without its last element. *)
DropBack(s) == [i \in 1 .. Len(s) - 1 |-> s[i]]

(* Mutation: the free list's back buffer reused without pop_back. *)
WriteBackReuseNoPop(p) ==
    /\ ~writer_waiting
    /\ Len(queue) # Capacity
    /\ free_list # <<>>
    /\ LET b == free_list[Len(free_list)]
       IN  /\ data' = [data EXCEPT ![b] = p]
           /\ queue' = Append(queue, b)
    /\ reader_waiting' = IF WasReadable(queue) THEN reader_waiting ELSE FALSE
    /\ UNCHANGED <<free_list, allocated, got, writer_waiting>>

(* write_back on a full queue returns false; the writer waits. *)
WriteBackFull ==
    /\ ~writer_waiting
    /\ Len(queue) = Capacity
    /\ writer_waiting' = TRUE
    /\ UNCHANGED <<queue, free_list, data, allocated, got, reader_waiting>>

(* write_back reusing the free list's back buffer: pop_back, set_data,  *)
(* push_back, and notify_readable_for_test if the queue was empty.       *)
WriteBackReuse(p) ==
    /\ ~writer_waiting
    /\ Len(queue) # Capacity
    /\ free_list # <<>>
    /\ LET b == free_list[Len(free_list)]
       IN  /\ free_list' = DropBack(free_list)
           /\ data' = [data EXCEPT ![b] = p]
           /\ queue' = Append(queue, b)
    /\ reader_waiting' = IF WasReadable(queue) THEN reader_waiting ELSE FALSE
    /\ UNCHANGED <<allocated, got, writer_waiting>>

(* Mutation: the new Buffer's contents stored at an index data lacks. *)
WriteBackNewNoGrow(p) ==
    /\ ~writer_waiting
    /\ Len(queue) # Capacity
    /\ free_list = <<>>
    /\ allocated' = allocated + 1
    /\ data' = [data EXCEPT ![NewBuffer] = p]
    /\ queue' = Append(queue, NewBuffer)
    /\ reader_waiting' = IF WasReadable(queue) THEN reader_waiting ELSE FALSE
    /\ UNCHANGED <<free_list, got, writer_waiting>>

(* write_back with an empty free list: a new Buffer, then as above. *)
WriteBackNew(p) ==
    /\ ~writer_waiting
    /\ Len(queue) # Capacity
    /\ free_list = <<>>
    /\ allocated' = allocated + 1
    /\ data' = [b \in 1 .. allocated + 1 |->
                   IF b = NewBuffer THEN p ELSE data[b]]
    /\ queue' = Append(queue, NewBuffer)
    /\ reader_waiting' = IF WasReadable(queue) THEN reader_waiting ELSE FALSE
    /\ UNCHANGED <<free_list, got, writer_waiting>>

(* read_front on an empty queue returns false; the reader waits. *)
ReadFrontEmpty ==
    /\ ~reader_waiting
    /\ queue = <<>>
    /\ reader_waiting' = TRUE
    /\ UNCHANGED <<queue, free_list, data, allocated, got, writer_waiting>>

(* read_front: pop the front buffer, copy at most `bytes` of it, push it *)
(* on the free list, and notify_writable_for_test if the queue was full. *)
ReadFront(bytes) ==
    /\ ~reader_waiting
    /\ queue # <<>>
    /\ LET b == Head(queue)
       IN  /\ got' = <<data[b][1], CopiedBytes(data[b], bytes)>>
           /\ queue' = Tail(queue)
           /\ free_list' = Append(free_list, b)
    /\ writer_waiting' = IF WasWritable(queue) THEN writer_waiting ELSE FALSE
    /\ UNCHANGED <<data, allocated, reader_waiting>>

(* Mutation: clear with `if` for `while`: only the front buffer moves. *)
ClearOnce ==
    /\ queue # <<>>
    /\ queue' = Tail(queue)
    /\ free_list' = Append(free_list, Head(queue))
    /\ UNCHANGED <<data, allocated, got, reader_waiting, writer_waiting>>

(* clear: every queued buffer, front first, onto the free list. *)
Clear ==
    /\ queue' = <<>>
    /\ free_list' = free_list \o queue
    /\ UNCHANGED <<data, allocated, got, reader_waiting, writer_waiting>>

Writer == WriteBackFull \/ \E p \in Payloads : WriteBackReuse(p) \/ WriteBackNew(p)
Reader == ReadFrontEmpty \/ \E bytes \in ReadLens : ReadFront(bytes)

Next == Writer \/ Reader \/ Clear

(* Both client threads keep calling as long as they are not waiting. *)
Fairness == WF_vars(Writer) /\ WF_vars(Reader)

Spec == Init /\ [][Next]_vars /\ Fairness

-----------------------------------------------------------------------------
(* Every variable has its type. *)
TypeOK ==
    /\ allocated \in Nat
    /\ queue \in Seq(1 .. allocated)
    /\ free_list \in Seq(1 .. allocated)
    /\ data \in [1 .. allocated -> Payloads]
    /\ got \in {<<>>} \cup (Msgs \X Nat)
    /\ reader_waiting \in BOOLEAN
    /\ writer_waiting \in BOOLEAN

(* The buffers a sequence holds, and that it holds each of them once. *)
Buffers(s) == {s[i] : i \in 1 .. Len(s)}
NoRepeats(s) == \A i, j \in 1 .. Len(s) : s[i] = s[j] => i = j

(* Every Buffer that write_back ever created is, through every sequence *)
(* of write_back, read_front and clear, in exactly one place: queued    *)
(* once or on the free list once, so a reused buffer is never also      *)
(* queued (set_data would overwrite a queued message) and none leaks;   *)
(* and no more than _capacity Buffers are ever created.                 *)
BufferConservation ==
    /\ Len(queue) + Len(free_list) = allocated
    /\ NoRepeats(queue)
    /\ NoRepeats(free_list)
    /\ Buffers(queue) \cap Buffers(free_list) = {}
    /\ Buffers(queue) \cup Buffers(free_list) = 1 .. allocated
    /\ allocated <= Capacity

(* A reader that read_front turned away, and that waits for              *)
(* notify_readable_for_test, only waits while the queue is empty: the    *)
(* notification write_back sends on the empty-to-non-empty transition    *)
(* is never missed.                                                      *)
ReaderWaitsOnlyWhenEmpty == reader_waiting => queue = <<>>

(* With both threads calling, the front buffer is always read (or        *)
(* dropped by clear) eventually: the reader is never left waiting on a   *)
(* queue that holds data.                                                *)
HeadEventuallyRead ==
    \A b \in 1 .. Capacity :
        (queue # <<>> /\ Head(queue) = b) ~> (queue = <<>> \/ Head(queue) # b)

(* BufferQueue implements BoundedFifo: the messages held by the queued   *)
(* buffers behave as a FIFO of at most _capacity messages, read_front    *)
(* returning the oldest one truncated to the caller's room.              *)
FifoRefinement == Fifo!Spec
=============================================================================
