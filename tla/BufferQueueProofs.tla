-------------------------- MODULE BufferQueueProofs --------------------------
(***************************************************************************)
(* Proofs about BufferQueue: the type invariant and BufferConservation    *)
(* hold in every reachable state, for every capacity.  BufferConservation *)
(* is inductive together with TypeOK; the lemmas below say how the four   *)
(* sequence operations the code applies to _queue and _free_list (pop     *)
(* front, push back, pop back, append one to the other) change the set of *)
(* buffers a sequence holds and keep it free of repeats.                  *)
(***************************************************************************)
EXTENDS BufferQueue, TLAPS

(* pop_front on a sequence without repeats removes exactly its front. *)
LEMMA PopFront ==
    ASSUME NEW S, NEW s \in Seq(S), s # <<>>, NoRepeats(s)
    PROVE  /\ Tail(s) \in Seq(S)
           /\ NoRepeats(Tail(s))
           /\ Buffers(Tail(s)) = Buffers(s) \ {Head(s)}
           /\ Len(Tail(s)) = Len(s) - 1
BY DEF NoRepeats, Buffers

(* push_back of a buffer the sequence does not hold adds exactly it. *)
LEMMA PushBack ==
    ASSUME NEW S, NEW s \in Seq(S), NEW x \in S, x \notin Buffers(s), NoRepeats(s)
    PROVE  /\ Append(s, x) \in Seq(S)
           /\ NoRepeats(Append(s, x))
           /\ Buffers(Append(s, x)) = Buffers(s) \cup {x}
           /\ Len(Append(s, x)) = Len(s) + 1
BY DEF NoRepeats, Buffers

(* pop_back on a sequence without repeats removes exactly its back. *)
LEMMA PopBack ==
    ASSUME NEW S, NEW s \in Seq(S), s # <<>>, NoRepeats(s)
    PROVE  /\ DropBack(s) \in Seq(S)
           /\ NoRepeats(DropBack(s))
           /\ Buffers(DropBack(s)) = Buffers(s) \ {s[Len(s)]}
           /\ Len(DropBack(s)) = Len(s) - 1
<1> DEFINE n == Len(s)
           u == DropBack(s)
<1>1. n \in Nat \ {0}
  OBVIOUS
<1>2. /\ Len(u) = n - 1
      /\ \A i \in 1 .. n - 1 : u[i] = s[i]
  BY <1>1 DEF DropBack
<1>6. u \in Seq(S)
  BY <1>1, <1>2 DEF DropBack
<1>3. NoRepeats(u)
  BY <1>2 DEF NoRepeats
<1>4. Buffers(u) = Buffers(s) \ {s[n]}
  <2>1. Buffers(u) \subseteq Buffers(s) \ {s[n]}
    BY <1>1, <1>2 DEF Buffers, NoRepeats
  <2>2. Buffers(s) \ {s[n]} \subseteq Buffers(u)
    <3> SUFFICES ASSUME NEW k \in 1 .. n, s[k] # s[n] PROVE s[k] \in Buffers(u)
      BY DEF Buffers
    <3>1. k \in 1 .. n - 1
      OBVIOUS
    <3>2. QED
      BY <1>2, <3>1 DEF Buffers
  <2>3. QED
    BY <2>1, <2>2
<1>5. QED
  BY <1>2, <1>3, <1>4, <1>6

(* Appending one sequence to another that shares no buffer with it. *)
LEMMA Concat ==
    ASSUME NEW S, NEW s \in Seq(S), NEW t \in Seq(S),
           NoRepeats(s), NoRepeats(t), Buffers(s) \cap Buffers(t) = {}
    PROVE  /\ s \o t \in Seq(S)
           /\ NoRepeats(s \o t)
           /\ Buffers(s \o t) = Buffers(s) \cup Buffers(t)
           /\ Len(s \o t) = Len(s) + Len(t)
<1> DEFINE c == s \o t
<1>1. /\ c \in Seq(S)
      /\ Len(c) = Len(s) + Len(t)
      /\ \A i \in 1 .. Len(s) : c[i] = s[i]
      /\ \A i \in Len(s) + 1 .. Len(s) + Len(t) : c[i] = t[i - Len(s)]
  OBVIOUS
<1>2. NoRepeats(c)
  <2> SUFFICES ASSUME NEW i \in 1 .. Len(c), NEW j \in 1 .. Len(c), c[i] = c[j]
               PROVE  i = j
    BY DEF NoRepeats
  <2>1. CASE i <= Len(s) /\ j <= Len(s)
    BY <1>1, <2>1 DEF NoRepeats
  <2>2. CASE i > Len(s) /\ j > Len(s)
    <3>1. t[i - Len(s)] = t[j - Len(s)]
      BY <1>1, <2>2
    <3>2. QED
      BY <1>1, <2>2, <3>1 DEF NoRepeats
  <2>3. CASE i <= Len(s) /\ j > Len(s)
    <3>1. c[i] \in Buffers(s) /\ c[j] \in Buffers(t)
      BY <1>1, <2>3 DEF Buffers
    <3>2. QED
      BY <3>1
  <2>4. CASE i > Len(s) /\ j <= Len(s)
    <3>1. c[j] \in Buffers(s) /\ c[i] \in Buffers(t)
      BY <1>1, <2>4 DEF Buffers
    <3>2. QED
      BY <3>1
  <2>5. QED
    BY <2>1, <2>2, <2>3, <2>4
<1>3. Buffers(c) = Buffers(s) \cup Buffers(t)
  <2>1. Buffers(c) \subseteq Buffers(s) \cup Buffers(t)
    BY <1>1 DEF Buffers
  <2>2. Buffers(s) \subseteq Buffers(c)
    BY <1>1 DEF Buffers
  <2>3. Buffers(t) \subseteq Buffers(c)
    <3> SUFFICES ASSUME NEW k \in 1 .. Len(t) PROVE t[k] \in Buffers(c)
      BY DEF Buffers
    <3>1. c[k + Len(s)] = t[k]
      BY <1>1
    <3>2. QED
      BY <1>1, <3>1 DEF Buffers
  <2>4. QED
    BY <2>1, <2>2, <2>3
<1>4. QED
  BY <1>1, <1>2, <1>3
-----------------------------------------------------------------------------
(* The inductive invariant: the type invariant and BufferConservation. *)
IInv == TypeOK /\ BufferConservation

LEMMA InitIInv == Init => IInv
<1> SUFFICES ASSUME Init PROVE IInv
  OBVIOUS
<1>1. TypeOK
  <2>1. allocated = 0 /\ 1 .. allocated = {}
    BY DEF Init
  <2>2. data \in [1 .. allocated -> Payloads]
    BY <2>1 DEF Init
  <2>3. queue \in Seq(1 .. allocated) /\ free_list \in Seq(1 .. allocated)
    BY DEF Init
  <2>4. got \in {<<>>} \cup (Msgs \X Nat)
    BY Zenon DEF Init
  <2>5. reader_waiting \in BOOLEAN /\ writer_waiting \in BOOLEAN
    BY DEF Init
  <2>6. QED
    BY <2>1, <2>2, <2>3, <2>4, <2>5, Zenon DEF TypeOK
<1>2. Buffers(queue) = {} /\ Buffers(free_list) = {}
  BY DEF Init, Buffers
<1>3. BufferConservation
  BY <1>2, CapacityAssumption DEF Init, BufferConservation, NoRepeats
<1>4. QED
  BY <1>1, <1>3 DEF IInv

(* write_back and read_front on a full or empty queue change no buffer. *)
LEMMA FailedCallsKeepIInv ==
    ASSUME IInv, WriteBackFull \/ ReadFrontEmpty
    PROVE  IInv'
<1>1. UNCHANGED <<queue, free_list, data, allocated>>
  BY DEF WriteBackFull, ReadFrontEmpty
<1>2. BufferConservation'
  BY <1>1 DEF IInv, BufferConservation
<1>3. TypeOK'
  BY <1>1 DEF IInv, TypeOK, WriteBackFull, ReadFrontEmpty
<1>4. QED
  BY <1>2, <1>3 DEF IInv

LEMMA ReadFrontKeepsIInv ==
    ASSUME IInv, NEW bytes \in ReadLens, ReadFront(bytes)
    PROVE  IInv'
<1> DEFINE S == 1 .. allocated
           b == Head(queue)
<1>1. /\ queue \in Seq(S) /\ free_list \in Seq(S) /\ queue # <<>>
      /\ NoRepeats(queue) /\ NoRepeats(free_list)
      /\ allocated \in Nat
  BY DEF IInv, TypeOK, BufferConservation, ReadFront
<1>2. b \in S /\ b \in Buffers(queue)
  BY <1>1 DEF Buffers
<1>3. b \notin Buffers(free_list)
  BY <1>2 DEF IInv, BufferConservation
<1>4. /\ Tail(queue) \in Seq(S)
      /\ NoRepeats(Tail(queue))
      /\ Buffers(Tail(queue)) = Buffers(queue) \ {b}
      /\ Len(Tail(queue)) = Len(queue) - 1
  BY <1>1, PopFront, Zenon
<1>5. /\ Append(free_list, b) \in Seq(S)
      /\ NoRepeats(Append(free_list, b))
      /\ Buffers(Append(free_list, b)) = Buffers(free_list) \cup {b}
      /\ Len(Append(free_list, b)) = Len(free_list) + 1
  BY <1>1, <1>2, <1>3, PushBack, Zenon
<1>6. /\ queue' = Tail(queue) /\ free_list' = Append(free_list, b)
      /\ UNCHANGED <<data, allocated>>
      /\ got' = <<data[b][1], CopiedBytes(data[b], bytes)>>
  BY DEF ReadFront
<1>7. BufferConservation'
  <2>1. Len(queue') + Len(free_list') = allocated'
    BY <1>4, <1>5, <1>6 DEF IInv, BufferConservation
  <2>2. NoRepeats(queue') /\ NoRepeats(free_list')
    BY <1>4, <1>5, <1>6
  <2>3. Buffers(queue') \cap Buffers(free_list') = {}
    BY <1>2, <1>4, <1>5, <1>6 DEF IInv, BufferConservation
  <2>4. Buffers(queue') \cup Buffers(free_list') = 1 .. allocated'
    BY <1>2, <1>4, <1>5, <1>6 DEF IInv, BufferConservation
  <2>5. allocated' <= Capacity
    BY <1>6 DEF IInv, BufferConservation
  <2>6. QED
    BY <2>1, <2>2, <2>3, <2>4, <2>5 DEF BufferConservation
<1>8. got' \in Msgs \X Nat
  <2>1. data[b] \in Msgs \X Lens
    BY <1>2 DEF IInv, TypeOK, Payloads
  <2>2. CopiedBytes(data[b], bytes) \in Nat
    BY <2>1, LensAssumption DEF CopiedBytes
  <2>3. QED
    BY <1>6, <2>1, <2>2
<1>9. TypeOK'
  BY <1>4, <1>5, <1>6, <1>8 DEF IInv, TypeOK, ReadFront
<1>10. QED
  BY <1>7, <1>9 DEF IInv

LEMMA WriteBackReuseKeepsIInv ==
    ASSUME IInv, NEW p \in Payloads, WriteBackReuse(p)
    PROVE  IInv'
<1> DEFINE S == 1 .. allocated
           b == free_list[Len(free_list)]
<1>1. /\ queue \in Seq(S) /\ free_list \in Seq(S) /\ free_list # <<>>
      /\ NoRepeats(queue) /\ NoRepeats(free_list)
      /\ allocated \in Nat
  BY DEF IInv, TypeOK, BufferConservation, WriteBackReuse
<1>2. b \in S /\ b \in Buffers(free_list)
  BY <1>1 DEF Buffers
<1>3. b \notin Buffers(queue)
  BY <1>2 DEF IInv, BufferConservation
<1>4. /\ DropBack(free_list) \in Seq(S)
      /\ NoRepeats(DropBack(free_list))
      /\ Buffers(DropBack(free_list)) = Buffers(free_list) \ {b}
      /\ Len(DropBack(free_list)) = Len(free_list) - 1
  BY <1>1, PopBack, Zenon
<1>5. /\ Append(queue, b) \in Seq(S)
      /\ NoRepeats(Append(queue, b))
      /\ Buffers(Append(queue, b)) = Buffers(queue) \cup {b}
      /\ Len(Append(queue, b)) = Len(queue) + 1
  BY <1>1, <1>2, <1>3, PushBack, Zenon
<1>6. /\ free_list' = DropBack(free_list) /\ queue' = Append(queue, b)
      /\ data' = [data EXCEPT ![b] = p]
      /\ UNCHANGED <<allocated, got, writer_waiting>>
      /\ reader_waiting' \in BOOLEAN
  BY DEF WriteBackReuse, IInv, TypeOK
<1>7. BufferConservation'
  <2>0. /\ Len(free_list') = Len(free_list) - 1
        /\ Len(queue') = Len(queue) + 1
        /\ allocated' = allocated
    BY <1>4, <1>5, <1>6
  <2>a. Len(queue) + Len(free_list) = allocated
    BY DEF IInv, BufferConservation
  <2>b. Len(free_list) \in Nat \ {0} /\ Len(queue) \in Nat
    BY <1>1
  <2>1. Len(queue') + Len(free_list') = allocated'
    BY <2>0, <2>a, <2>b
  <2>2. NoRepeats(queue') /\ NoRepeats(free_list')
    BY <1>4, <1>5, <1>6
  <2>3. Buffers(queue') \cap Buffers(free_list') = {}
    BY <1>2, <1>4, <1>5, <1>6 DEF IInv, BufferConservation
  <2>4. Buffers(queue') \cup Buffers(free_list') = 1 .. allocated'
    BY <1>2, <1>4, <1>5, <1>6 DEF IInv, BufferConservation
  <2>5. allocated' <= Capacity
    BY <1>6 DEF IInv, BufferConservation
  <2>6. QED
    BY <2>1, <2>2, <2>3, <2>4, <2>5 DEF BufferConservation
<1>8. data' \in [S -> Payloads]
  BY <1>2, <1>6 DEF IInv, TypeOK
<1>9. TypeOK'
  BY <1>4, <1>5, <1>6, <1>8 DEF IInv, TypeOK
<1>10. QED
  BY <1>7, <1>9 DEF IInv

LEMMA WriteBackNewKeepsIInv ==
    ASSUME IInv, NEW p \in Payloads, WriteBackNew(p)
    PROVE  IInv'
<1> DEFINE S == 1 .. allocated + 1
           b == allocated + 1
<1>1. /\ allocated \in Nat
      /\ queue \in Seq(1 .. allocated) /\ free_list = <<>>
      /\ NoRepeats(queue)
      /\ Buffers(queue) = 1 .. allocated
      /\ Len(queue) = allocated
  BY DEF IInv, TypeOK, BufferConservation, WriteBackNew, Buffers
<1>2. queue \in Seq(S) /\ b \in S /\ b \notin Buffers(queue)
  BY <1>1
<1>3. /\ Append(queue, b) \in Seq(S)
      /\ NoRepeats(Append(queue, b))
      /\ Buffers(Append(queue, b)) = Buffers(queue) \cup {b}
      /\ Len(Append(queue, b)) = Len(queue) + 1
  BY <1>1, <1>2, PushBack, Zenon
<1>4. /\ allocated' = b /\ queue' = Append(queue, b)
      /\ data' = [k \in 1 .. allocated + 1 |-> IF k = b THEN p ELSE data[k]]
      /\ UNCHANGED <<free_list, got, writer_waiting>>
      /\ reader_waiting' \in BOOLEAN
      /\ Len(queue) # Capacity
  BY DEF WriteBackNew, NewBuffer, IInv, TypeOK
<1>5. allocated + 1 <= Capacity
  BY <1>1, <1>4, CapacityAssumption DEF IInv, BufferConservation
<1>6. BufferConservation'
  <2>1. Buffers(free_list') = {} /\ NoRepeats(free_list') /\ Len(free_list') = 0
    BY <1>1, <1>4 DEF Buffers, NoRepeats
  <2>2. QED
    BY <1>1, <1>3, <1>4, <1>5, <2>1 DEF BufferConservation
<1>7. data' \in [S -> Payloads]
  BY <1>4 DEF IInv, TypeOK
<1>8. TypeOK'
  BY <1>1, <1>3, <1>4, <1>7 DEF IInv, TypeOK
<1>9. QED
  BY <1>6, <1>8 DEF IInv

LEMMA ClearKeepsIInv ==
    ASSUME IInv, Clear
    PROVE  IInv'
<1> DEFINE S == 1 .. allocated
<1>1. /\ queue \in Seq(S) /\ free_list \in Seq(S)
      /\ NoRepeats(queue) /\ NoRepeats(free_list)
      /\ Buffers(free_list) \cap Buffers(queue) = {}
  BY DEF IInv, TypeOK, BufferConservation
<1>2. /\ free_list \o queue \in Seq(S)
      /\ NoRepeats(free_list \o queue)
      /\ Buffers(free_list \o queue) = Buffers(free_list) \cup Buffers(queue)
      /\ Len(free_list \o queue) = Len(free_list) + Len(queue)
  BY <1>1, Concat, Zenon
<1>3. /\ queue' = <<>> /\ free_list' = free_list \o queue
      /\ UNCHANGED <<data, allocated, got, reader_waiting, writer_waiting>>
  BY DEF Clear
<1>4. Buffers(queue') = {} /\ NoRepeats(queue') /\ Len(queue') = 0
  BY <1>3 DEF Buffers, NoRepeats
<1>5. BufferConservation'
  BY <1>2, <1>3, <1>4 DEF IInv, BufferConservation
<1>6. TypeOK'
  BY <1>2, <1>3 DEF IInv, TypeOK
<1>7. QED
  BY <1>5, <1>6 DEF IInv

LEMMA StepIInv == IInv /\ [Next]_vars => IInv'
<1> SUFFICES ASSUME IInv, [Next]_vars PROVE IInv'
  OBVIOUS
<1>1. CASE WriteBackFull \/ ReadFrontEmpty
  BY <1>1, FailedCallsKeepIInv
<1>2. CASE \E p \in Payloads : WriteBackReuse(p)
  BY <1>2, WriteBackReuseKeepsIInv
<1>3. CASE \E p \in Payloads : WriteBackNew(p)
  BY <1>3, WriteBackNewKeepsIInv
<1>4. CASE \E bytes \in ReadLens : ReadFront(bytes)
  BY <1>4, ReadFrontKeepsIInv
<1>5. CASE Clear
  BY <1>5, ClearKeepsIInv
<1>6. CASE UNCHANGED vars
  BY <1>6 DEF vars, IInv, TypeOK, BufferConservation
<1>7. QED
  BY <1>1, <1>2, <1>3, <1>4, <1>5, <1>6 DEF Next, Writer, Reader

(* For every capacity: every call keeps each variable in its type. *)
THEOREM TypeCorrect == Spec => []TypeOK
<1>1. Init => IInv
  BY InitIInv
<1>2. IInv /\ [Next]_vars => IInv'
  BY StepIInv
<1>3. IInv => TypeOK
  BY DEF IInv
<1>4. QED
  BY <1>1, <1>2, <1>3, PTL DEF Spec

(* For every capacity: every Buffer write_back created is queued or on *)
(* the free list exactly once, and at most _capacity are created.      *)
THEOREM BufferConservationHolds == Spec => []BufferConservation
<1>1. Init => IInv
  BY InitIInv
<1>2. IInv /\ [Next]_vars => IInv'
  BY StepIInv
<1>3. IInv => BufferConservation
  BY DEF IInv
<1>4. QED
  BY <1>1, <1>2, <1>3, PTL DEF Spec

(* For every capacity: a reader waiting for notify_readable_for_test    *)
(* only waits on an empty queue, so write_back's notification on the     *)
(* empty-to-non-empty transition is never lost.  The property is         *)
(* inductive on its own.                                                 *)
THEOREM ReaderWaitsOnlyWhenEmptyHolds == Spec => []ReaderWaitsOnlyWhenEmpty
<1>1. Init => ReaderWaitsOnlyWhenEmpty
  BY DEF Init, ReaderWaitsOnlyWhenEmpty
<1>2. TypeOK /\ ReaderWaitsOnlyWhenEmpty /\ [Next]_vars => ReaderWaitsOnlyWhenEmpty'
  <2> SUFFICES ASSUME TypeOK, ReaderWaitsOnlyWhenEmpty, [Next]_vars
               PROVE  ReaderWaitsOnlyWhenEmpty'
    OBVIOUS
  <2>1. CASE WriteBackFull \/ ReadFrontEmpty
    BY <2>1 DEF WriteBackFull, ReadFrontEmpty, ReaderWaitsOnlyWhenEmpty
  <2>2. CASE \E p \in Payloads : WriteBackReuse(p) \/ WriteBackNew(p)
    <3>1. reader_waiting' = FALSE
      BY <2>2 DEF WriteBackReuse, WriteBackNew, WasReadable, ReaderWaitsOnlyWhenEmpty, TypeOK
    <3>2. QED
      BY <3>1 DEF ReaderWaitsOnlyWhenEmpty
  <2>3. CASE \E bytes \in ReadLens : ReadFront(bytes)
    BY <2>3 DEF ReadFront, ReaderWaitsOnlyWhenEmpty
  <2>4. CASE Clear
    BY <2>4 DEF Clear, ReaderWaitsOnlyWhenEmpty
  <2>5. CASE UNCHANGED vars
    BY <2>5 DEF vars, ReaderWaitsOnlyWhenEmpty
  <2>6. QED
    BY <2>1, <2>2, <2>3, <2>4, <2>5 DEF Next, Writer, Reader
<1>3. QED
  BY <1>1, <1>2, TypeCorrect, PTL DEF Spec

-----------------------------------------------------------------------------
(* The refinement: each step of BufferQueue is a step of BoundedFifo on  *)
(* the messages its queued buffers hold, or leaves them and got alone.   *)
(* It rests on BufferConservation: the buffer write_back fills is never  *)
(* a queued one, so set_data changes no queued message.                  *)

(* A write_back that fills a buffer no queued entry names appends p. *)
LEMMA FillAppends ==
    ASSUME IInv, NEW p \in Payloads, NEW b,
           b \notin Buffers(queue),
           queue' = Append(queue, b),
           \A k \in Buffers(queue) : data'[k] = data[k],
           data'[b] = p
    PROVE  Contents' = Append(Contents, p)
<1>1. queue \in Seq(Nat)
  BY DEF IInv, TypeOK
<1>2. \A i \in 1 .. Len(queue) : queue[i] # b /\ data'[queue[i]] = data[queue[i]]
  BY <1>1 DEF Buffers
<1>3. QED
  BY <1>1, <1>2 DEF Contents

LEMMA RefineStep == IInv /\ [Next]_vars => [Fifo!Next]_<<Contents, got>>
<1> SUFFICES ASSUME IInv, [Next]_vars PROVE [Fifo!Next]_<<Contents, got>>
  OBVIOUS
<1>0. /\ queue \in Seq(1 .. allocated) /\ allocated \in Nat
      /\ Len(queue) <= Capacity
  BY CapacityAssumption DEF IInv, TypeOK, BufferConservation
<1>len. Len(Contents) = Len(queue)
  BY <1>0 DEF Contents
<1>1. CASE WriteBackFull \/ ReadFrontEmpty
  <2>1. UNCHANGED <<queue, data, got>>
    BY <1>1 DEF WriteBackFull, ReadFrontEmpty
  <2>2. QED
    BY <2>1 DEF Contents
<1>2. ASSUME NEW p \in Payloads, WriteBackReuse(p)
      PROVE  [Fifo!Next]_<<Contents, got>>
  <2> DEFINE b == free_list[Len(free_list)]
  <2>1. b \in 1 .. allocated /\ b \in Buffers(free_list)
    BY <1>2 DEF IInv, TypeOK, WriteBackReuse, Buffers
  <2>2. b \notin Buffers(queue)
    BY <2>1 DEF IInv, BufferConservation
  <2>3. /\ queue' = Append(queue, b)
        /\ data' = [data EXCEPT ![b] = p]
        /\ UNCHANGED got
        /\ Len(queue) # Capacity
    BY <1>2 DEF WriteBackReuse
  <2>4. /\ \A k \in Buffers(queue) : data'[k] = data[k]
        /\ data'[b] = p
    BY <2>1, <2>2, <2>3 DEF IInv, TypeOK
  <2>5. Contents' = Append(Contents, p)
    BY <2>2, <2>3, <2>4, FillAppends
  <2>6. Len(Contents) < Capacity
    BY <1>0, <1>len, <2>3, CapacityAssumption
  <2>7. Fifo!Put(p)
    BY <2>3, <2>5, <2>6 DEF Fifo!Put
  <2>8. QED
    BY <2>7 DEF Fifo!Next, Payloads, Fifo!Payloads
<1>3. ASSUME NEW p \in Payloads, WriteBackNew(p)
      PROVE  [Fifo!Next]_<<Contents, got>>
  <2> DEFINE b == allocated + 1
  <2>1. b \notin Buffers(queue)
    BY <1>0 DEF Buffers
  <2>2. /\ queue' = Append(queue, b)
        /\ data' = [k \in 1 .. allocated + 1 |-> IF k = b THEN p ELSE data[k]]
        /\ UNCHANGED got
        /\ Len(queue) # Capacity
    BY <1>3 DEF WriteBackNew, NewBuffer
  <2>3. /\ \A k \in Buffers(queue) : data'[k] = data[k]
        /\ data'[b] = p
    BY <1>0, <2>1, <2>2 DEF Buffers
  <2>4. Contents' = Append(Contents, p)
    BY <2>1, <2>2, <2>3, FillAppends
  <2>5. Len(Contents) < Capacity
    BY <1>0, <1>len, <2>2, CapacityAssumption
  <2>6. Fifo!Put(p)
    BY <2>2, <2>4, <2>5 DEF Fifo!Put
  <2>7. QED
    BY <2>6 DEF Fifo!Next, Payloads, Fifo!Payloads
<1>4. ASSUME NEW bytes \in ReadLens, ReadFront(bytes)
      PROVE  [Fifo!Next]_<<Contents, got>>
  <2> DEFINE h == Head(queue)
  <2>1. /\ queue # <<>>
        /\ queue' = Tail(queue)
        /\ got' = <<data[h][1], CopiedBytes(data[h], bytes)>>
        /\ data' = data
    BY <1>4 DEF ReadFront
  <2>2. Contents # <<>> /\ Head(Contents) = data[h]
    BY <1>0, <2>1 DEF Contents
  <2>3. Contents' = Tail(Contents)
    BY <1>0, <2>1 DEF Contents
  <2>4. got' = Fifo!Truncated(Head(Contents), bytes)
    BY <2>1, <2>2 DEF CopiedBytes, Fifo!Truncated
  <2>5. Fifo!Get(bytes)
    BY <2>2, <2>3, <2>4 DEF Fifo!Get
  <2>6. QED
    BY <2>5 DEF Fifo!Next
<1>5. CASE Clear
  <2>1. queue' = <<>> /\ UNCHANGED got
    BY <1>5 DEF Clear
  <2>2. Contents' = <<>>
    BY <2>1 DEF Contents
  <2>3. QED
    BY <2>1, <2>2 DEF Fifo!Next, Fifo!Clear
<1>6. CASE UNCHANGED vars
  BY <1>6 DEF vars, Contents
<1>7. QED
  BY <1>1, <1>2, <1>3, <1>4, <1>5, <1>6 DEF Next, Writer, Reader

(* For every capacity: BufferQueue implements BoundedFifo.  The queued   *)
(* buffers' messages start empty and change only as a bounded FIFO with  *)
(* truncating reads allows (the fairness of Spec is not needed).         *)
THEOREM FifoRefinementHolds == Spec => FifoRefinement
<1>1. Init => Fifo!Init
  BY DEF Init, Fifo!Init, Contents
<1>2. IInv /\ [Next]_vars => [Fifo!Next]_<<Contents, got>>
  BY RefineStep
<1>3. QED
  BY <1>1, <1>2, InitIInv, StepIInv, PTL DEF Spec, FifoRefinement, Fifo!Spec
=============================================================================
