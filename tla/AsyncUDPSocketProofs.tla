------------------------- MODULE AsyncUDPSocketProofs -------------------------
(***************************************************************************)
(* Proofs about AsyncUDPSocket: _total_send_data counts exactly the       *)
(* packets queued in the map (CounterMatches), for every number of        *)
(* destinations and packets, with or without a closing handler.           *)
(*                                                                         *)
(* The count is the size of the set of queued slots, one per destination  *)
(* and list position.  add_udp_send_data's push_back adds the slot after  *)
(* the last one, and send_data's pop_front on a non-empty list takes the  *)
(* last slot away (the list gets one shorter), so the set grows or        *)
(* shrinks by exactly one element whenever the counter moves by one.      *)
(***************************************************************************)
EXTENDS AsyncUDPSocket, FiniteSetTheorems, TLAPS

(* The slots of a map of lists, as in Queued. *)
Slots(l) == UNION {{a} \X (1 .. Len(l[a])) : a \in Addrs}

(* The watcher and the socket record. *)
Watchers == [active : BOOLEAN, events : SUBSET {R, W}, fd : {SockFd, InvalidFd}]
Sockets ==
    [lists : [Addrs -> Seq(0 .. MaxPackets - 1)], total : Int, watcher : Watchers,
     closed : BOOLEAN, alive : BOOLEAN, next_id : 0 .. MaxPackets]

(* The counter matches a finite set of slots. *)
Counted(x) == x.total = Cardinality(Slots(x.lists)) /\ IsFiniteSet(Slots(x.lists))

(* A well-typed socket whose counter matches while it is alive. *)
Good(x) == x \in Sockets /\ (x.alive => Counted(x))

(* The inductive invariant. *)
IInv == Good(s) /\ pc \in {"idle", "send"} /\ cursor \in 1 .. END

-----------------------------------------------------------------------------
(* A slot is a destination and a position in its list. *)
LEMMA SlotsMember ==
    ASSUME NEW l, NEW x
    PROVE  x \in Slots(l) <=> \E a \in Addrs : \E i \in 1 .. Len(l[a]) : x = <<a, i>>
BY DEF Slots

(* No destination has a packet: no slot. *)
LEMMA SlotsEmpty ==
    Slots([a \in Addrs |-> <<>>]) = {}
BY DEF Slots

(* push_back on one list adds the slot after its last one. *)
LEMMA SlotsAppend ==
    ASSUME NEW S, NEW l \in [Addrs -> Seq(S)], NEW a \in Addrs, NEW v
    PROVE  /\ Slots([l EXCEPT ![a] = Append(l[a], v)]) = Slots(l) \cup {<<a, Len(l[a]) + 1>>}
           /\ <<a, Len(l[a]) + 1>> \notin Slots(l)
<1> DEFINE m == [l EXCEPT ![a] = Append(l[a], v)]
<1>1. \A b \in Addrs : Len(m[b]) = IF b = a THEN Len(l[a]) + 1 ELSE Len(l[b])
  OBVIOUS
<1>2. Slots(m) = Slots(l) \cup {<<a, Len(l[a]) + 1>>}
  <2> SUFFICES ASSUME NEW x
               PROVE  x \in Slots(m) <=> x \in Slots(l) \cup {<<a, Len(l[a]) + 1>>}
    OBVIOUS
  <2>1. (\E b \in Addrs : \E i \in 1 .. Len(m[b]) : x = <<b, i>>)
        <=> (\E b \in Addrs : \E i \in 1 .. Len(l[b]) : x = <<b, i>>) \/ x = <<a, Len(l[a]) + 1>>
    BY <1>1
  <2>2. x \in Slots(m) <=> \E b \in Addrs : \E i \in 1 .. Len(m[b]) : x = <<b, i>>
    BY SlotsMember
  <2>3. x \in Slots(l) <=> \E b \in Addrs : \E i \in 1 .. Len(l[b]) : x = <<b, i>>
    BY SlotsMember
  <2>4. QED
    BY <2>1, <2>2, <2>3, Zenon
<1>3. <<a, Len(l[a]) + 1>> \notin Slots(l)
  BY SlotsMember
<1>4. QED
  BY <1>2, <1>3

(* pop_front on a non-empty list takes away its last slot. *)
LEMMA SlotsTail ==
    ASSUME NEW S, NEW l \in [Addrs -> Seq(S)], NEW a \in Addrs, l[a] # <<>>
    PROVE  /\ Slots([l EXCEPT ![a] = Tail(l[a])]) = Slots(l) \ {<<a, Len(l[a])>>}
           /\ <<a, Len(l[a])>> \in Slots(l)
<1> DEFINE m == [l EXCEPT ![a] = Tail(l[a])]
<1>1. \A b \in Addrs : Len(m[b]) = IF b = a THEN Len(l[a]) - 1 ELSE Len(l[b])
  OBVIOUS
<1>2. Slots(m) = Slots(l) \ {<<a, Len(l[a])>>}
  <2> SUFFICES ASSUME NEW x
               PROVE  x \in Slots(m) <=> x \in Slots(l) \ {<<a, Len(l[a])>>}
    OBVIOUS
  <2>1. (\E b \in Addrs : \E i \in 1 .. Len(m[b]) : x = <<b, i>>)
        <=> (\E b \in Addrs : \E i \in 1 .. Len(l[b]) : x = <<b, i>>) /\ x # <<a, Len(l[a])>>
    BY <1>1
  <2>2. x \in Slots(m) <=> \E b \in Addrs : \E i \in 1 .. Len(m[b]) : x = <<b, i>>
    BY SlotsMember
  <2>3. x \in Slots(l) <=> \E b \in Addrs : \E i \in 1 .. Len(l[b]) : x = <<b, i>>
    BY SlotsMember
  <2>4. QED
    BY <2>1, <2>2, <2>3, Zenon
<1>3. <<a, Len(l[a])>> \in Slots(l)
  BY SlotsMember
<1>4. QED
  BY <1>2, <1>3
-----------------------------------------------------------------------------
(* start_io_event and stop_io_event leave a watcher a watcher. *)
LEMMA WatcherOps ==
    ASSUME NEW w \in Watchers, NEW fd \in {SockFd, InvalidFd}, NEW mask \in SUBSET {R, W}
    PROVE  StartIoEvent(w, fd, mask) \in Watchers /\ StopIoEvent(w, fd, mask) \in Watchers
BY DEF StartIoEvent, StopIoEvent, Watchers

(* A socket with the same lists, counter and liveness as a good one is good. *)
LEMMA GoodFields ==
    ASSUME NEW x, Good(x), NEW y \in Sockets,
           y.lists = x.lists, y.total = x.total, y.alive = x.alive
    PROVE  Good(y)
BY DEF Good, Counted

(* enable_events and disable_events touch only the watcher. *)
LEMMA EventsKeepGood ==
    ASSUME NEW x, Good(x), NEW m \in SUBSET {R, W}
    PROVE  /\ Good(EnableEvents(x, m)) /\ EnableEvents(x, m).alive = x.alive
           /\ Good(DisableEvents(x, m)) /\ DisableEvents(x, m).alive = x.alive
<1>1. x \in Sockets /\ GetFd(x) \in {SockFd, InvalidFd}
  BY DEF Good, GetFd
<1>2. StartIoEvent(x.watcher, GetFd(x), m) \in Watchers /\ StopIoEvent(x.watcher, GetFd(x), m) \in Watchers
  BY <1>1, WatcherOps DEF Sockets
<1>3. EnableEvents(x, m) \in Sockets /\ DisableEvents(x, m) \in Sockets
  BY <1>1, <1>2 DEF EnableEvents, DisableEvents, Sockets
<1>4. QED
  BY <1>1, <1>3, GoodFields DEF EnableEvents, DisableEvents, Sockets

(* A socket with new lists, counter and packet number is a socket. *)
LEMMA SocketUpdate ==
    ASSUME NEW x \in Sockets, NEW L \in [Addrs -> Seq(0 .. MaxPackets - 1)],
           NEW n \in Int, NEW k \in 0 .. MaxPackets
    PROVE  [x EXCEPT !.lists = L, !.total = n, !.next_id = k] \in Sockets
BY DEF Sockets

(* The counter moves with the slots: one more packet, one more slot; one *)
(* less, one less.                                                        *)
LEMMA CountedStep ==
    ASSUME NEW x, Counted(x), NEW y, NEW e,
           \/ Slots(y.lists) = Slots(x.lists) \cup {e} /\ e \notin Slots(x.lists)
              /\ y.total = x.total + 1
           \/ Slots(y.lists) = Slots(x.lists) \ {e} /\ e \in Slots(x.lists)
              /\ y.total = x.total - 1
    PROVE  Counted(y)
<1> DEFINE S == Slots(x.lists)
<1>1. IsFiniteSet(S) /\ x.total = Cardinality(S)
  BY DEF Counted
<1>2. Cardinality(S) \in Nat
  BY <1>1, FS_CardinalityType
<1>3. IsFiniteSet(S \cup {e}) /\ IsFiniteSet(S \ {e})
  BY <1>1, FS_AddElement, FS_RemoveElement
<1>4. e \notin S => Cardinality(S \cup {e}) = Cardinality(S) + 1
  BY <1>1, FS_AddElement
<1>5. e \in S => Cardinality(S \ {e}) = Cardinality(S) - 1
  BY <1>1, FS_RemoveElement
<1> HIDE DEF S
<1>6. QED
  BY <1>1, <1>3, <1>4, <1>5 DEF Counted, S

(* add_udp_send_data: one more packet, one more slot. *)
LEMMA AddKeepsGood ==
    ASSUME NEW x, Good(x), x.next_id < MaxPackets, NEW a \in Addrs
    PROVE  Good(AddUdpSendData(x, a)) /\ AddUdpSendData(x, a).alive = x.alive
<1> DEFINE L == x.lists
           q == L[a]
           L2 == [L EXCEPT ![a] = Append(q, x.next_id)]
           y == [x EXCEPT !.lists[a] = Append(@, x.next_id),
                          !.total = @ + 1,
                          !.next_id = @ + 1]
<1>1. x \in Sockets /\ MaxPackets \in Nat
  BY SocketAssumption DEF Good
<1>2. L \in [Addrs -> Seq(0 .. MaxPackets - 1)] /\ x.next_id \in 0 .. MaxPackets - 1
      /\ x.total \in Int
  BY <1>1 DEF Sockets
<1>3. y = [x EXCEPT !.lists = L2, !.total = x.total + 1, !.next_id = x.next_id + 1]
  BY <1>1 DEF Sockets
<1> HIDE DEF L, q
<1>4. L2 \in [Addrs -> Seq(0 .. MaxPackets - 1)]
  BY <1>2 DEF q
<1>5. y \in Sockets /\ y.alive = x.alive /\ y.lists = L2 /\ y.total = x.total + 1
  <2>1. x.next_id + 1 \in 0 .. MaxPackets /\ x.total + 1 \in Int
    BY <1>1, <1>2
  <2>2. [x EXCEPT !.lists = L2, !.total = x.total + 1, !.next_id = x.next_id + 1] \in Sockets
    BY <1>1, <1>4, <2>1, SocketUpdate
  <2>3. y.alive = x.alive /\ y.lists = L2 /\ y.total = x.total + 1
    BY <1>1, <1>3 DEF Sockets
  <2>4. QED
    BY <1>3, <2>2, <2>3
<1>6. Slots(L2) = Slots(L) \cup {<<a, Len(q) + 1>>} /\ <<a, Len(q) + 1>> \notin Slots(L)
  BY <1>2, SlotsAppend DEF q
<1>7. Good(y)
  BY <1>5, <1>6, CountedStep DEF Good, L
<1>8. QED
  BY <1>5, <1>7, EventsKeepGood DEF AddUdpSendData

(* close: the watcher is stopped and the socket marked closed. *)
LEMMA CloseKeepsGood ==
    ASSUME NEW x, Good(x)
    PROVE  Good(Close(x)) /\ Close(x).alive = x.alive
<1>1. Good(DisableEvents(x, {R, W})) /\ DisableEvents(x, {R, W}).alive = x.alive
  BY EventsKeepGood
<1>2. [DisableEvents(x, {R, W}) EXCEPT !.closed = TRUE] \in Sockets
  BY <1>1 DEF Good, Sockets
<1>3. QED
  BY <1>1, <1>2, GoodFields DEF Close, Good, Sockets

(* pop_front of a non-empty list: one packet less, one slot less. *)
LEMMA PopKeepsGood ==
    ASSUME NEW x, Good(x), NEW a \in Addrs, x.lists[a] # <<>>
    PROVE  Good([x EXCEPT !.lists[a] = Tail(@), !.total = @ - 1])
           /\ [x EXCEPT !.lists[a] = Tail(@), !.total = @ - 1].alive = x.alive
<1> DEFINE L == x.lists
           q == L[a]
           L2 == [L EXCEPT ![a] = Tail(q)]
           y == [x EXCEPT !.lists[a] = Tail(@), !.total = @ - 1]
<1>1. x \in Sockets
  BY DEF Good
<1>2. L \in [Addrs -> Seq(0 .. MaxPackets - 1)] /\ x.total \in Int /\ x.next_id \in 0 .. MaxPackets
  BY <1>1 DEF Sockets
<1>3. y = [x EXCEPT !.lists = L2, !.total = x.total - 1, !.next_id = x.next_id]
  BY <1>1 DEF Sockets
<1> HIDE DEF L, q
<1>4. L2 \in [Addrs -> Seq(0 .. MaxPackets - 1)]
  <2>1. q \in Seq(0 .. MaxPackets - 1) /\ q # <<>>
    BY <1>2 DEF q, L
  <2>2. Tail(q) \in Seq(0 .. MaxPackets - 1)
    BY <2>1
  <2>3. QED
    BY <1>2, <2>2
<1>5. y \in Sockets /\ y.alive = x.alive /\ y.lists = L2 /\ y.total = x.total - 1
  <2>1. x.total - 1 \in Int
    BY <1>2
  <2>2. [x EXCEPT !.lists = L2, !.total = x.total - 1, !.next_id = x.next_id] \in Sockets
    BY <1>1, <1>2, <1>4, <2>1, SocketUpdate
  <2>3. y.alive = x.alive /\ y.lists = L2 /\ y.total = x.total - 1
    BY <1>1, <1>3 DEF Sockets
  <2>4. QED
    BY <1>3, <2>2, <2>3
<1>6. Slots(L2) = Slots(L) \ {<<a, Len(q)>>} /\ <<a, Len(q)>> \in Slots(L)
  BY <1>2, SlotsTail DEF q, L
<1>7. Good(y)
  BY <1>5, <1>6, CountedStep DEF Good, L
<1>8. QED
  BY <1>5, <1>7

(* Whatever a signal handler does keeps the socket good and alive. *)
LEMMA HandlerKeepsGood ==
    ASSUME NEW x, Good(x), NEW t \in HandlerEffects(x)
    PROVE  Good(t) /\ t.alive = x.alive
<1>1. CASE t = x
  BY <1>1
<1>2. CASE \E a \in Addrs : x.next_id < MaxPackets /\ t = AddUdpSendData(x, a)
  BY <1>2, AddKeepsGood
<1>3. CASE t = Close(x)
  BY <1>3, CloseKeepsGood
<1>4. QED
  BY <1>1, <1>2, <1>3 DEF HandlerEffects
-----------------------------------------------------------------------------
(* The constructor: no packet, counter 0. *)
LEMMA InitIInv == Init => IInv
<1> SUFFICES ASSUME Init PROVE IInv
  OBVIOUS
<1> DEFINE x0 == [lists   |-> [a \in Addrs |-> <<>>],
                  total   |-> 0,
                  watcher |-> [active |-> FALSE, events |-> {}, fd |-> InvalidFd],
                  closed  |-> FALSE,
                  alive   |-> TRUE,
                  next_id |-> 0]
<1>1. MaxPackets \in Nat /\ NAddrs \in Nat \ {0}
  BY SocketAssumption
<1>2. x0 \in Sockets
  BY <1>1 DEF Sockets, Watchers, InvalidFd, SockFd
<1>3. Counted(x0)
  BY SlotsEmpty, FS_EmptySet DEF Counted
<1>4. Good(EnableEvents(x0, {R}))
  BY <1>2, <1>3, EventsKeepGood DEF Good
<1>5. QED
  BY <1>1, <1>4 DEF Init, Fresh, IInv, END

(* Every step of the loop thread keeps the inductive invariant. *)
LEMMA StepIInv == IInv /\ [Next]_vars => IInv'
<1> SUFFICES ASSUME IInv, [Next]_vars PROVE IInv'
  OBVIOUS
<1>0. Good(s) /\ pc \in {"idle", "send"} /\ cursor \in 1 .. END /\ NAddrs \in Nat \ {0}
  BY SocketAssumption DEF IInv
<1>1. ASSUME NEW a \in Addrs, SendTo(a) PROVE IInv'
  BY <1>0, <1>1, AddKeepsGood DEF SendTo, IInv
<1>2. CASE CloseStep
  BY <1>0, <1>2, CloseKeepsGood DEF CloseStep, IInv
<1>3. CASE Destroy
  <2>1. s \in Sockets
    BY <1>0 DEF Good
  <2>4. s' = [s EXCEPT !.watcher = [s.watcher EXCEPT !.active = FALSE],
                       !.lists = [a \in Addrs |-> <<>>],
                       !.alive = FALSE]
    BY <1>3, <2>1 DEF Destroy, Sockets
  <2>5. [s.watcher EXCEPT !.active = FALSE] \in Watchers
    BY <2>1 DEF Sockets, Watchers
  <2>6. [a \in Addrs |-> <<>>] \in [Addrs -> Seq(0 .. MaxPackets - 1)]
    OBVIOUS
  <2>2. s' \in Sockets /\ ~s'.alive
    BY <2>1, <2>4, <2>5, <2>6 DEF Sockets
  <2>3. QED
    BY <1>0, <1>3, <2>2 DEF Destroy, Good, IInv
<1>4. ASSUME NEW revents \in Ready, Dispatch(revents) PROVE IInv'
  <2>1. PICK sys \in SysOn(GetFd(s)) :
          \E t \in IF R \in revents THEN RecvData(s, sys) ELSE {s} :
             /\ s' = t
             /\ pc' = IF W \in revents THEN "send" ELSE "idle"
             /\ cursor' = END
    BY <1>4 DEF Dispatch
  <2>2. PICK t \in IF R \in revents THEN RecvData(s, sys) ELSE {s} :
             /\ s' = t
             /\ pc' = IF W \in revents THEN "send" ELSE "idle"
             /\ cursor' = END
    BY <2>1
  <2>3. t \in HandlerEffects(s) \cup {s}
    BY <2>2 DEF RecvData
  <2>4. Good(t)
    BY <1>0, <2>3, HandlerKeepsGood
  <2>5. END \in 1 .. END
    BY <1>0 DEF END
  <2>6. QED
    BY <2>2, <2>4, <2>5 DEF IInv
<1>5. CASE WhileTest
  <2>1. Good(DisableEvents(s, {W}))
    BY <1>0, EventsKeepGood
  <2>2. 1 \in 1 .. END
    BY <1>0 DEF END
  <2>3. QED
    BY <1>0, <1>5, <2>1, <2>2 DEF WhileTest, IInv
<1>6. CASE SkipEmpty
  BY <1>0, <1>6 DEF SkipEmpty, IInv, Addrs, END
<1>7. ASSUME NEW sys \in SysOn(GetFd(s)), SendOne(sys) PROVE IInv'
  <2>1. cursor \in Addrs /\ s.lists[cursor] # <<>> /\ pc = "send"
    BY <1>7 DEF SendOne
  <2>2. Good(PopFront(s, cursor)) /\ PopFront(s, cursor).alive = s.alive
    BY <1>0, <2>1, PopKeepsGood DEF PopFront
  <2>3. cursor + 1 \in 1 .. END
    BY <1>0, <2>1 DEF Addrs, END
  <2>4. sys \in SysResults
    BY DEF SysOn, SysResults
  <2>5. CASE sys = "data"
    <3>1. PICK t \in HandlerEffects(PopFront(s, cursor)) :
              s' = t /\ cursor' = cursor + 1 /\ UNCHANGED pc
      BY <1>7, <2>5 DEF SendOne, Classify
    <3>2. Good(t)
      BY <2>2, <3>1, HandlerKeepsGood
    <3>3. QED
      BY <1>0, <2>3, <3>1, <3>2 DEF IInv
  <2>6. CASE sys = "blocked"
    BY <1>0, <1>7, <2>6 DEF SendOne, Classify, SendBlocked, IInv
  <2>7. CASE sys \in {"error", "zero"}
    <3>0. Classify[sys] = -1
      BY <2>7 DEF Classify
    <3>1. s' = SendFailed(cursor) /\ pc' = "idle" /\ UNCHANGED cursor
      BY <1>7, <3>0 DEF SendOne
    <3>2. QED
      BY <1>0, <2>2, <3>1 DEF SendFailed, IInv
  <2>8. QED
    BY <2>4, <2>5, <2>6, <2>7 DEF SysResults
<1>8. CASE UNCHANGED vars
  BY <1>0, <1>8 DEF vars, IInv
<1>9. QED
  BY <1>1, <1>2, <1>3, <1>4, <1>5, <1>6, <1>7, <1>8 DEF Next

-----------------------------------------------------------------------------
(* The inductive invariant holds in every reachable state. *)
THEOREM IInvHolds == Spec => []IInv
BY InitIInv, StepIInv, PTL DEF Spec

(* Every field of the socket, the loop's pc and its cursor have their     *)
(* types in every reachable state.                                        *)
THEOREM TypeCorrect == Spec => []TypeOK
<1>1. IInv => TypeOK
  BY DEF IInv, Good, Sockets, Watchers, TypeOK
<1>2. QED
  BY <1>1, IInvHolds, PTL

(* _total_send_data, on which send_data's while loop runs, equals the    *)
(* number of queued packets in every reachable state of a live socket:   *)
(* through send_to from the application and from inside the read and    *)
(* sent handlers, through close, and through every result of send_to.    *)
THEOREM CounterMatchesHolds == Spec => []CounterMatches
<1>1. IInv => CounterMatches
  BY DEF IInv, Good, Counted, Slots, Queued, CounterMatches
<1>2. QED
  BY <1>1, IInvHolds, PTL
=============================================================================
