---------------------------- MODULE AsyncUDPSocket ----------------------------
(***************************************************************************)
(* rtcbase::AsyncUDPSocket (async_udp_socket.cpp) over a PhysicalSocket   *)
(* (physical_socket_server.cpp) and the libev IOWatcher of EventLoop       *)
(* (event_loop.cpp).  Everything runs on the event loop's one thread: the  *)
(* application calls send_to and close between callbacks, and the         *)
(* callbacks' own signal handlers (signal_read_packet,                     *)
(* signal_sent_packet) may call send_to or close from inside them.         *)
(*                                                                         *)
(* The socket object is one record `s`; every member function is an      *)
(* operator from record to record.  Packets are numbered in send_to order; *)
(* a destination is a number, and numeric order stands for the order of    *)
(* the std::map keys.  send_data's loop is taken one iteration per step   *)
(* (pc = "send", cursor = the for-loop's iterator, NAddrs + 1 = the while  *)
(* test): nothing else runs on the loop thread until it returns, so only   *)
(* the loop's own steps are enabled in between.                            *)
(***************************************************************************)
EXTENDS Integers, Sequences, FiniteSets

CONSTANTS
    NAddrs,          \* destinations, 1 .. NAddrs in key order
    MaxPackets,      \* bound on send_to calls
    HandlerMayClose  \* whether a signal handler may call close()

ASSUME SocketAssumption ==
    NAddrs \in Nat \ {0} /\ MaxPackets \in Nat /\ HandlerMayClose \in BOOLEAN

Addrs == 1 .. NAddrs
END == NAddrs + 1

(* The descriptors: the socket's own, and INVALID_SOCKET after close. *)
SockFd == 3
InvalidFd == -1

(* EventLoop::READ and EventLoop::WRITE, as the set of bits a mask holds. *)
R == "READ"
W == "WRITE"

(* What ::sendto and ::recvfrom can return: data moved, -1 with a         *)
(* blocking errno, -1 with another errno, or 0.  On INVALID_SOCKET the    *)
(* call fails with EBADF.                                                 *)
SysResults == {"data", "blocked", "error", "zero"}
SysOn(fd) == IF fd = InvalidFd THEN {"error"} ELSE SysResults

(* PhysicalSocket::send_to and recv_from: a blocking error becomes 0, any *)
(* other error and a zero-byte transfer become -1.                         *)
Classify == [data |-> 1, blocked |-> 0, error |-> -1, zero |-> -1]

-----------------------------------------------------------------------------
(* EventLoop::start_io_event: OR the mask into an active watcher (nothing *)
(* if no bit is new), or arm an inactive one with the mask alone.          *)
StartIoEvent(w, fd, mask) ==
    IF w.active
    THEN IF mask \subseteq w.events THEN w
         ELSE [active |-> TRUE, events |-> w.events \cup mask, fd |-> fd]
    ELSE [active |-> TRUE, events |-> mask, fd |-> fd]

(* EventLoop::stop_io_event: clear the mask from io->events, whether or   *)
(* not the watcher is active; ev_io_stop, and re-arm with what is left if *)
(* anything is.  ev_io_stop leaves io->events as it was.                   *)
StopIoEvent(w, fd, mask) ==
    LET left == w.events \ mask
    IN  IF left = w.events THEN w
        ELSE IF left # {} THEN [active |-> TRUE, events |-> left, fd |-> fd]
        ELSE [w EXCEPT !.active = FALSE]

(* PhysicalSocket::get_fd *)
GetFd(s) == IF s.closed THEN InvalidFd ELSE SockFd

(* enable_events, disable_events *)
EnableEvents(s, m) == [s EXCEPT !.watcher = StartIoEvent(s.watcher, GetFd(s), m)]
DisableEvents(s, m) == [s EXCEPT !.watcher = StopIoEvent(s.watcher, GetFd(s), m)]

(* The constructor: the watcher is created and READ enabled. *)
Fresh ==
    EnableEvents([lists   |-> [a \in Addrs |-> <<>>],
                  total   |-> 0,
                  watcher |-> [active |-> FALSE, events |-> {}, fd |-> InvalidFd],
                  closed  |-> FALSE,
                  alive   |-> TRUE,
                  next_id |-> 0], {R})

(* add_udp_send_data (what send_to calls): append to the destination's  *)
(* list, count it, and enable WRITE.                                       *)
AddUdpSendData(s, a) ==
    EnableEvents([s EXCEPT !.lists[a] = Append(@, s.next_id),
                           !.total = @ + 1,
                           !.next_id = @ + 1], {W})

(* close: disable READ and WRITE, then PhysicalSocket::close. *)
Close(s) == [DisableEvents(s, {R, W}) EXCEPT !.closed = TRUE]

(* What a signal handler may do from inside the callback: nothing, a     *)
(* send_to, or (if allowed) close.                                         *)
HandlerEffects(s) ==
    {s}
    \cup {AddUdpSendData(s, a) : a \in IF s.next_id < MaxPackets THEN Addrs ELSE {}}
    \cup (IF HandlerMayClose /\ ~s.closed THEN {Close(s)} ELSE {})

(* recv_data: a datagram is passed to signal_read_packet; 0 or -1 from   *)
(* recv_from returns after logging.                                        *)
RecvData(s, sys) ==
    IF Classify[sys] > 0 THEN HandlerEffects(s) ELSE {s}

(* The front packet of a list removed and uncounted. *)
PopFront(s, a) == [s EXCEPT !.lists[a] = Tail(@), !.total = @ - 1]

-----------------------------------------------------------------------------
VARIABLES
    s,       \* the AsyncUDPSocket with its PhysicalSocket and IOWatcher
    pc,      \* "idle", or "send" inside send_data
    cursor   \* send_data's map iterator; END at the while test

vars == <<s, pc, cursor>>

(* ev_io_start asserts fd >= 0: a watcher armed on INVALID_SOCKET aborts. *)
Aborted == s.watcher.active /\ s.watcher.fd = InvalidFd

Init ==
    /\ s = Fresh
    /\ pc = "idle"
    /\ cursor = END

(* The application's send_to, on a socket it has not closed. *)
SendTo(a) ==
    /\ pc = "idle" /\ s.alive /\ ~s.closed /\ ~Aborted
    /\ s.next_id < MaxPackets
    /\ s' = AddUdpSendData(s, a)
    /\ UNCHANGED <<pc, cursor>>

(* The application's close. *)
CloseStep ==
    /\ pc = "idle" /\ s.alive /\ ~s.closed /\ ~Aborted
    /\ s' = Close(s)
    /\ UNCHANGED <<pc, cursor>>

(* ~AsyncUDPSocket: delete_io_event stops the watcher; queued packets are *)
(* freed.                                                                  *)
Destroy ==
    /\ pc = "idle" /\ s.alive /\ ~Aborted
    /\ s' = [s EXCEPT !.watcher.active = FALSE,
                      !.lists = [a \in Addrs |-> <<>>],
                      !.alive = FALSE]
    /\ UNCHANGED <<pc, cursor>>

(* libev calls socket_io_cb with the ready subset of the watcher's       *)
(* events: recv_data first if READ is in it, then send_data if WRITE is. *)
Dispatch(revents) ==
    /\ pc = "idle" /\ s.alive /\ s.watcher.active /\ ~Aborted
    /\ \E sys \in SysOn(GetFd(s)) :
         \E t \in IF R \in revents THEN RecvData(s, sys) ELSE {s} :
            /\ s' = t
            /\ pc' = IF W \in revents THEN "send" ELSE "idle"
            /\ cursor' = END

Ready == SUBSET s.watcher.events \ {{}}

(* send_data's while test: loop again over the map while packets are     *)
(* counted, else disable WRITE and return.                                 *)
WhileTest ==
    /\ pc = "send" /\ cursor = END
    /\ IF s.total > 0
       THEN cursor' = 1 /\ UNCHANGED <<s, pc>>
       ELSE s' = DisableEvents(s, {W}) /\ pc' = "idle" /\ UNCHANGED cursor

(* The for loop passes an empty list. *)
SkipEmpty ==
    /\ pc = "send" /\ cursor \in Addrs
    /\ s.lists[cursor] = <<>>
    /\ cursor' = cursor + 1
    /\ UNCHANGED <<s, pc>>

(* Mutation: the -1 path deletes the packet but does not decrement. *)
SendFailedNoDecrement(a) == [s EXCEPT !.lists[a] = Tail(@)]

(* sent == -1: the front packet is dropped, and send_data returns. *)
SendFailed(a) == PopFront(s, a)

(* Mutation: the 0 path disables WRITE before it returns. *)
SendBlockedDisables(a) == DisableEvents(s, {W})

(* sent == 0: send_data returns, packet kept. *)
SendBlocked(a) == s

(* send_to on the front packet of the list at the cursor. *)
SendOne(sys) ==
    /\ pc = "send" /\ cursor \in Addrs
    /\ s.lists[cursor] # <<>>
    /\ CASE Classify[sys] = -1 ->
              s' = SendFailed(cursor) /\ pc' = "idle" /\ UNCHANGED cursor
         [] Classify[sys] = 0 ->
              s' = SendBlocked(cursor) /\ pc' = "idle" /\ UNCHANGED cursor
         [] Classify[sys] > 0 ->
              \E t \in HandlerEffects(PopFront(s, cursor)) :
                 s' = t /\ cursor' = cursor + 1 /\ UNCHANGED pc

SendProgress == \E sys \in SysOn(GetFd(s)) \ {"blocked"} : SendOne(sys)

Next ==
    \/ \E a \in Addrs : SendTo(a)
    \/ CloseStep
    \/ Destroy
    \/ \E revents \in Ready : Dispatch(revents)
    \/ WhileTest
    \/ SkipEmpty
    \/ \E sys \in SysOn(GetFd(s)) : SendOne(sys)

(* The loop thread runs send_data to its end; libev calls back a watcher  *)
(* armed for WRITE while the socket stays writable; and a send that       *)
(* blocked is tried again until the kernel takes or rejects the packet.   *)
Fairness ==
    /\ WF_vars(WhileTest) /\ WF_vars(SkipEmpty)
    /\ WF_vars(\E revents \in Ready : W \in revents /\ Dispatch(revents))
    /\ SF_vars(SendProgress)

Spec == Init /\ [][Next]_vars /\ Fairness

-----------------------------------------------------------------------------
(* Every field has its type. *)
TypeOK ==
    /\ s.lists \in [Addrs -> Seq(0 .. MaxPackets - 1)]
    /\ s.total \in Int
    /\ s.watcher \in [active : BOOLEAN, events : SUBSET {R, W}, fd : {SockFd, InvalidFd}]
    /\ s.closed \in BOOLEAN /\ s.alive \in BOOLEAN
    /\ s.next_id \in 0 .. MaxPackets
    /\ pc \in {"idle", "send"}
    /\ cursor \in 1 .. END

(* The packets queued in the map: one slot per destination and position *)
(* in its list.                                                           *)
Queued == UNION {{a} \X (1 .. Len(s.lists[a])) : a \in Addrs}

(* _total_send_data, which send_data's while loop runs on, always counts  *)
(* exactly the packets in the map's lists, through send_to from inside    *)
(* the read and sent handlers and through every send_to result; else the  *)
(* loop spins over empty lists, or stops with packets left.               *)
CounterMatches ==
    s.alive => s.total = Cardinality(Queued)

(* Every packet send_to queues on an open socket eventually leaves: it is *)
(* sent or dropped, unless the socket is closed or destroyed first.  So   *)
(* WRITE is never disabled while packets wait.                            *)
QueuedEventuallyFlushed ==
    (s.total > 0) ~> (s.total = 0 \/ s.closed \/ ~s.alive)

(* After close() (async_udp_socket.cpp 180) the socket's watcher is never *)
(* armed again while the application sends nothing more: no callback runs *)
(* on the closed descriptor.                                               *)
ClosedStaysDisarmed == s.closed => ~s.watcher.active
=============================================================================
