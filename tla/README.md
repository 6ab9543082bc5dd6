# Verification of librtcbase: OpenSSLStreamAdapter, BufferQueue, RateStatistics, Event, AsyncUDPSocket

This directory holds TLA+ models of five parts of librtcbase:

- the DTLS/TLS stream adapter in `src/src/openssl_stream_adapter.cpp`, with its DTLS-SRTP suite offer;
- the thread-safe `BufferQueue`;
- the sliding-window `RateStatistics`;
- the pthread-based `Event`, with the deadline arithmetic of its timed wait;
- the event-driven `AsyncUDPSocket`, with the libev I/O-watcher logic of `EventLoop` and the result classification of `PhysicalSocket`.

It has TLC configurations that check the models on small instances, and
TLAPS proofs of the main safety properties, and of two refinements, for every
value of the constants.

## The system

librtcbase is a WebRTC base library. Its parts are:

| Part | Sources | Role |
|---|---|---|
| OpenSSLStreamAdapter | `openssl_stream_adapter.{h,cpp}`, `ssl_stream_adapter.h` | wraps a `StreamInterface` in a TLS or DTLS session; runs the handshake; checks the peer certificate against a fingerprint digest; owns the DTLS retransmission timer |
| StreamAdapterInterface | `stream.{h,cpp}` | forwards the wrapped stream's `signal_event` (SE_OPEN, SE_READ, SE_WRITE, SE_CLOSE) to the adapter's `on_event`, and the adapter's events to the consumer |
| Event loop, timers and I/O watchers | `event_loop.cpp` | single-threaded loop; one-shot timer watchers (create, start, stop, delete); I/O watchers whose READ/WRITE mask `start_io_event` and `stop_io_event` change |
| Digests, fingerprints | `openssl_digest.cpp`, `message_digest.cpp`, `ssl_fingerprint.cpp`, `sha1*`, `md5*` | digest names, sizes and computation |
| Identities, certificates | `openssl_identity.cpp`, `ssl_identity.cpp`, `rtccertificate*.cpp` | key and certificate generation and encoding |
| OpenSSLAdapter | `openssl_adapter.cpp`, `ssl_adapter.cpp` | TLS over an async socket; independent of the stream adapter |
| AsyncUDPSocket | `async_udp_socket.cpp` | non-blocking UDP socket: per-destination send queues flushed when the watcher reports WRITE, datagrams read on READ |
| Sockets, network | `physical_socket_server.cpp`, `network.cpp`, `ipaddress.cpp`, ... | OS socket wrappers, addresses |
| SRTP suite tables | `ssl_stream_adapter.{h,cpp}` | SRTP crypto-suite ids, names, key and salt lengths, the default offer |
| BufferQueue | `buffer_queue.{h,cpp}` | bounded queue of buffers with a free list, shared by threads under one lock |
| RateStatistics | `rate_statistics.{h,cpp}` | sliding-window rate estimator over a ring of one-millisecond buckets |
| Event | `event.{h,cpp}` | manual- or auto-reset event on a pthread mutex and condition variable; `wait` with a timeout |
| Threads, locks | `platform_thread.cpp`, `critical_section.cpp` | pthread start/stop wrapper; recursive mutex and a spin lock |
| Other utilities | `byte_buffer.cpp`, `string_*.cpp`, `crc32.cpp`, `time_utils.cpp`, `logging.cpp`, ... | data structures and conversions |

The stream adapter interacts with three actors:

- the consumer, who calls `start_SSL` and `set_peer_certificate_digest`;
- the wrapped stream, whose events arrive in `on_event`;
- the event loop, which fires `dtls_handshake_timeout_callback`.

OpenSSL calls back into the adapter through `SSL_verify_callback` during
`SSL_connect`/`SSL_accept`. Everything runs on the loop thread, so each
handler, with all the calls it makes, is one atomic step.

BufferQueue and RateStatistics are independent of the adapter. A
BufferQueue is shared by threads: every member function takes the one
`CritScope`, and the notify hooks tell a waiting thread that the queue
changed. RateStatistics is used by one thread. Its `rate()` is `const`, but
it moves the window.

An Event is shared by threads: any number of them block in `wait`, while
others call `set` and `reset`. Unlike the adapter's handlers, `wait` is not
one atomic step. It takes the mutex, tests the status, and sleeps in
`pthread_cond_(timed)wait`, which gives the mutex up. It then wakes, takes
the mutex again and re-tests.

An AsyncUDPSocket lives on the loop thread. The application calls
`send_to` and `close` between callbacks. libev calls `socket_io_cb` when the
watcher's descriptor is ready. That callback runs `recv_data` and then
`send_data`, and their signals (`signal_read_packet`, `signal_sent_packet`)
run the application's handlers inside the callback. Those handlers may call
`send_to` or `close` again.

## Plan

These components have protocol logic and real hazards:

- the stream adapter's handshake, with its trust check, timer, SRTP offer and key export;
- BufferQueue, with its interleavings and wakeups;
- RateStatistics, with its ring arithmetic;
- Event, with its wakeups, timeouts and auto-reset;
- AsyncUDPSocket, with its send-queue counter, its watcher mask and its re-entrant handlers.

These are what is modelled. The other parts are either pure computation
(digests, encodings) or I/O wrappers. They are listed in `PROJECT.json` with
the reason they are not modelled. The DTLS timer's life cycle and the event
forwarding of `StreamAdapterInterface` are modelled as far as the adapter
depends on them.

## Modules

### `OpenSSLStreamAdapter.tla`

The adapter object is the record variable `adapter`. Its fields are the
members the control flow reads:

| Field | Member it models |
|---|---|
| `state` | `_state` |
| `role`, `mode` | `_role`, `_ssl_mode` |
| `client_auth` | `client_auth_enabled()` |
| `peer_digest` | `_peer_certificate_digest_algorithm` and `_value` |
| `peer_certificate` | `_peer_certificate` |
| `verified` | `_peer_certificate_verified` |
| `timer` | `_handshake_timer_watcher`: stopped, armed or deleted |
| `ssl`, `cert_seen` | `_ssl`: null or an engine that is running, done or failed; whether the peer's leaf was processed |
| `sig` | how often SE_OPEN, SE_CLOSE and the handshake error were signalled to the consumer, saturating at `MaxSignal` |

- `stream` is the wrapped stream's `StreamState`.
- `remote` is the certificate the peer presents, or `NoCert`.

Every member function is a record-to-record operator:

| Operator | Member function |
|---|---|
| `Cleanup` | `cleanup` |
| `ErrorInfo` | `error_info` |
| `VerifyPeerCertificate` | `verify_peer_certificate` |
| `CallbackState`, `CallbackAccepts` | `SSL_verify_callback` |
| `ContinueSSL` | `continue_SSL` |
| `BeginSSL` | `begin_SSL` |
| `OnEvent` | `on_event` |
| `SetDigest` | `set_peer_certificate_digest` |

`OnEvent` composes `BeginSSL`, `ContinueSSL`, `ErrorInfo` and `Cleanup` in
the code's order, with its early returns.

One call of `SSL_connect`/`SSL_accept` is `EngineStep`, driven by an
`Outcome`. An outcome chooses three things: whether the peer's leaf
certificate is processed in this call (the verify callback then runs), what
`SSL_get_error` returns, and whether `DTLSv1_get_timeout` reports a positive
delay. `EngineStep` constrains OpenSSL as it behaves:

- the leaf is processed at most once;
- the handshake cannot complete before it, unless the peer has none;
- a rejected certificate, or a missing one under `SSL_VERIFY_FAIL_IF_NO_PEER_CERT`, is an error;
- a finished or failed engine keeps answering the same way.

The actions are:

| Action | What it is |
|---|---|
| `StartSSL` | `start_SSL` |
| `StreamOpens`, `StreamIO`, `StreamCloses` | the wrapped stream raising SE_OPEN (optionally with I/O), SE_READ/SE_WRITE, and SE_CLOSE (optionally with SE_READ), each handled by `on_event` |
| `TimerFires` | `dtls_handshake_timeout_callback` |
| `SetPeerCertificateDigest` | the consumer's call, with any algorithm, length and digest from small sets |
| `ExportKeyingMaterial` | `export_keying_material`; its outcome (`ExportOutcomes`) is a crash on a NULL `_ssl`, a failure on a failed engine, and success or failure otherwise; the variable `exported` records the last one |

`Init` is the object the constructor builds after the configuration
setters: any role, mode and client-auth flag. A client's peer, a server,
always presents a certificate.

### `MCOpenSSLStreamAdapter.tla`

This module fixes the instance used by all three adapter runs:

- two certificates (`c1`, `c2`, symmetric model values): the trusted one and an impostor;
- two known digest algorithms of different sizes (20 and 32) and one unknown name;
- lengths {20, 32}, so that both early returns of `set_peer_certificate_digest` happen;
- `MaxSignal = 2`, so that a second SE_OPEN would be seen.

These bounds cover every branch of every handler: both roles, both modes,
client auth on and off, a peer with no certificate, a digest before, during
and after the handshake, a wrong digest, each engine result, and the timer.
The run reaches 5072 distinct states.

### `OpenSSLStreamAdapterProofs.tla`

This module holds the TLAPS proofs for the adapter; see "What is proved" below.

### `OpenSSLStreamAdapterReleaseProofs.tla`

This module extends `OpenSSLStreamAdapterProofs` with the proofs of
`ReleaseInvariant` and of the four adapter properties that rest on it.

### `SSLLifecycle.tla`

This is the abstract specification of what the adapter promises its
consumer about the session's life. It has two variables. `phase` is the
`SSLState` of `openssl_stream_adapter.h` (lines 79-88), and `announced`
says whether SE_OPEN has been signalled. There are two actions:

- `Advance`: a step moves the state forward in the order NONE, WAIT, CONNECTING, CONNECTED, and then to ERROR or CLOSED. These two are final and are not ordered against each other.
- `Announce`: SE_OPEN is raised once, by a step that leaves the session SSL_CONNECTED or ended.

`Announce` does not require the state to change. The comment in
`continue_SSL` (lines 335-337) says that when a client certificate
digest is still awaited, SE_OPEN is signalled later, while the session is
already SSL_CONNECTED.

`OpenSSLStreamAdapter` instantiates the module as `Lifecycle`, with the
mapping `phase <- adapter.state` and `announced <- adapter.sig.open > 0`.
`LifecycleRefinement == Lifecycle!Spec` is a property of the `core` run.

### `OpenSSLStreamAdapterLifecycleProofs.tla`

This module extends the release proofs with the proof of
`LifecycleRefinement`; see "What is proved" below.

### `SrtpSuites.tla` and `MCSrtpSuites.tla`

This module models the DTLS-SRTP crypto-suite offer.

The tables of `ssl_stream_adapter.cpp` are operators:

| Operator | Function |
|---|---|
| `SrtpCryptoSuiteToName` | `srtp_crypto_suite_to_name` |
| `SrtpCryptoSuiteFromName` | `srtp_crypto_suite_from_name` |
| `HasKeyAndSaltLengths`, `SrtpKeyAndSaltLengths` | `get_srtp_key_and_salt_lengths` |
| `IsGcmCryptoSuiteName` | `is_gcm_crypto_suite_name` |
| `SupportedDtlsSrtpCryptoSuites` | `get_supported_dtls_srtp_crypto_suites` |

`SrtpCipherMap` is `srtp_cipher_map`: the OpenSSL profile name of each id.

The adapter's side is a state machine over five variables:

- `state`;
- `srtp_ciphers`, the profile list, as a sequence of names instead of the colon-joined string;
- `ssl`;
- `selected`, the profile OpenSSL selected;
- `peer`, the profiles the remote supports.

The actions are:

| Action | Code |
|---|---|
| `SetDtlsSrtpCryptoSuites` | `set_dtls_srtp_crypto_suites` |
| `StartSSL` | `start_SSL` together with `setup_SSL_context`'s call of `SSL_CTX_set_tlsext_use_srtp`. That call refuses a list naming a profile twice, and the session then ends in SSL_ERROR. |
| `HandshakeDone` | the handshake selecting a profile both sides list, abstracted to one step (`OpenSSLStreamAdapter` has the handshake in detail) |
| `Cleanup` | `cleanup` |

`GetDtlsSrtpCryptoSuite` is `get_dtls_srtp_crypto_suite`.

`MCSrtpSuites` uses candidate lists of up to three ids, drawn from:

- the four known ids;
- the invalid id 0;
- an unknown id 3.

With every peer set, that covers every early return of the setter, a
duplicate, and handshakes with and without a common profile.

The setter accepts a list that names one suite twice. At `start_SSL`,
`SSL_CTX_set_tlsext_use_srtp` refuses it, and the model ends the session in
SSL_ERROR, as the code does (line 514). Spec 7 asks for suite errors to be
reported synchronously instead. No run checks that; `PROJECT.json` keeps it
as a hazard with a note.

### `BoundedFifo.tla`

This is the abstract specification of what `buffer_queue.h` promises:

- a FIFO of at most `Capacity` messages;
- `write_back` appends a whole message or nothing (`Put`);
- `read_front` removes the oldest message and hands over at most the caller's room (`Get`, `Truncated`);
- `clear` drops everything.

A message is a pair `<<id, length>>`.

### `BufferQueue.tla` and `MCBufferQueue.tla`

Buffers are numbered in the order `new Buffer` creates them. The variables
are:

| Variable | What it models |
|---|---|
| `queue` | `_queue` |
| `free_list` | `_free_list` |
| `data` | what each buffer holds |
| `allocated` | the number of Buffers created |
| `got` | what the last successful `read_front` copied |
| `reader_waiting`, `writer_waiting` | whether the reader or the writer waits for a notify hook |

Every call holds the `CritScope`, so it is one atomic step. The actions are:

| Action | Code |
|---|---|
| `WriteBackFull` | `write_back` on a full queue: returns false, and the writer waits |
| `WriteBackReuse` | `write_back` reusing `_free_list.back()` |
| `WriteBackNew` | `write_back` with a `new Buffer` |
| `ReadFrontEmpty` | `read_front` on an empty queue: the reader waits |
| `ReadFront` | `read_front`: pop the front, copy `min(bytes, size)`, push the buffer on the free list |
| `Clear` | `clear` |

The hooks `notify_readable_for_test` and `notify_writable_for_test` clear the
waiting flags under exactly the code's conditions (`WasReadable`,
`WasWritable`).

The refinement mapping is `Contents`, the messages of the queued buffers in
order. `Fifo == INSTANCE BoundedFifo WITH q <- Contents`.

`MCBufferQueue` uses:

- capacity 2, so the queue fills, drains and reuses buffers;
- two messages;
- lengths {0, 2} and read room {1, 2}, so `read_front` both truncates and copies whole.

### `RateStatistics.tla` and `MCRateStatistics.tla`

The object is one record of all members, and every member function is an
operator on it:

| Operator | Code |
|---|---|
| `Fresh` | the constructor and `reset` |
| `IsInitialized` | `is_initialized` |
| `EraseOld` | `erase_old`; its loop is `CullLoop`, with `CullOldest` for one turn |
| `Update` | `update`, with the `Accepts` guard |
| `RateCall`, `RateResult` | `rate`: the cull it makes, and what it returns |
| `SetWindowSize` | `set_window_size` |

`RateResult` returns nullopt as `<<>>`. Otherwise it returns the count and
active window that the float result is scaled from.

The ghost variable `history` holds the samples `update` accepted since the
last reset. It is what `WindowExact` compares the ring with.

`MCRateStatistics` uses:

- a 3 ms ring;
- times 0..6, two turns of the ring, so the index wraps and a jump culls everything;
- window sizes 0..4, so both refusals of `set_window_size` happen;
- up to 3 accepted samples.

### `RateCallUnobservable.tla` and `MCRateCallUnobservable.tla`

This module composes two RateStatistics objects, `a` and `b`, through
`INSTANCE RateStatistics`. Both receive the same `update` and
`set_window_size` calls at the same time `now` of a monotonic clock. Only `a`
also receives `rate()` calls.

The header (`rate_statistics.h:45-50`) says those calls are unobservable.
The property checks that for every later time `t`, a `rate(t)` on `a` and on
`b` would return the same.

There are two instances:

- `MCFixedWindow` keeps the window at 3 (run `rate_call`);
- `MCVaryingWindow` also allows 1 (run `rate_window_grows`).

### `Event.tla` and `MCEvent.tla`

Each thread in `Waiters` has a `pc` that says where it is in `wait`:

| `pc` | Code |
|---|---|
| `idle` | not in `wait` |
| `locking` | at `pthread_mutex_lock` (line 79) |
| `testing` | holding the mutex at the loop test (lines 82, 90) |
| `blocked` | inside `pthread_cond_(timed)wait`, mutex released |
| `waking` | woken, taking the mutex again inside the wait call |

| Variable | What it models |
|---|---|
| `is_manual_reset`, `event_status` | `_is_manual_reset`, `_event_status` |
| `holder` | the thread that holds `_event_mutex` |
| `call` | the `<<tv_usec, milliseconds>>` of the thread's current `wait`; `NoCall` outside it |
| `error` | `wait`'s local `error` |
| `woken` | a broadcast reached the thread since it blocked |
| `signals`, `consumed`, `cleared` | ghosts that count signals, auto-reset returns and resets of a signaled event |

| Action | Code |
|---|---|
| `Call` | `wait(ms)`: `error = 0` and the deadline, with `ms` and the time of day from small sets |
| `Lock` | `pthread_mutex_lock` |
| `Block` | the loop test holds, and the wait releases the mutex and sleeps |
| `BlockInvalid` | the loop test holds, and `pthread_cond_timedwait` fails with EINVAL on a negative `tv_nsec` |
| `Wake`, `SpuriousWakeup`, `TimeOut` | the wait returns 0 after a broadcast, 0 spuriously, or ETIMEDOUT |
| `Reacquire` | the wait takes the mutex again before it returns |
| `Return` | the loop ends: the auto-reset, then unlock and return |
| `Set`, `Reset` | `set`, `reset`, each one step under the mutex |

`MCEvent` uses:

- two waiters, so that two race for one signal, and one times out while the other is woken;
- three `set`/`reset` calls, so that set-reset and set-set sequences happen around blocked waiters;
- timeouts `k_forever`, -5 and 1, at microseconds 4999 and 999000:
  - a wait is untimed, timed, or gets an invalid deadline (-5 ms at 4999 us gives a negative `tv_nsec`);
  - 1 ms at 999000 us carries to exactly 10^9 ns, the edge of the overflow test.

### `AsyncUDPSocket.tla` and `MCAsyncUDPSocket.tla`

The socket is one record `s`, and each member function is an operator from
record to record, like `RateStatistics`.

| Field or operator | Code |
|---|---|
| `s.lists`, `s.total` | `_udp_data_send_map` (destination `1 .. NAddrs` in key order, packets numbered by `s.next_id`) and `_total_send_data` |
| `s.watcher` | the `ev_io` of the IOWatcher: `active` (`ev_is_active`), `events` (`io->events`) and `fd` |
| `s.closed` | `PhysicalSocket::_s == INVALID_SOCKET`; `GetFd` is `get_fd()` |
| `StartIoEvent`, `StopIoEvent` | `EventLoop::start_io_event` (lines 173-191), `stop_io_event` (193-206) |
| `Classify` | how `PhysicalSocket::send_to` and `recv_from` turn a `sendto`/`recvfrom` result into 1, 0 or -1 |
| `AddUdpSendData`, `Close`, `RecvData`, `HandlerEffects` | `add_udp_send_data`/`send_to`, `close`, `recv_data`, and what a handler may do |
| `SendTo`, `CloseStep`, `Destroy` | the application's calls and the destructor |
| `Dispatch(revents)` | `socket_io_cb`: `recv_data` if READ is ready, then entry to `send_data` if WRITE is |
| `WhileTest`, `SkipEmpty`, `SendOne(sys)` | one iteration of `send_data`'s `while` and `for` loops; `cursor` is the map iterator |

`send_data` is taken one loop iteration per step (`pc = "send"`). Nothing
else runs on the loop thread until it returns, so while `pc = "send"` only
its own steps are enabled. The split only lets the properties see the
loop's intermediate states, such as a loop spinning over empty lists.

`ev_io_start` asserts `fd >= 0`. A watcher armed on `INVALID_SOCKET`
(`Aborted`) ends the behaviour.

The application never calls `send_to` after its own `close`. A handler may
call `close` when `HandlerMayClose` is TRUE. `MCAsyncUDPSocket` has two
destinations and four packets.

`AsyncUDPSocketProofs.tla` holds the proof of `CounterMatches` for every
address set and packet bound; see "What is proved" below.

### `TimedWait.tla`

This module holds the deadline arithmetic of `wait` (lines 55-77):

- `CDiv` and `CMod` are C's truncating `/` and `%`;
- `Deadline` is the `#else` branch (`HAVE_PTHREAD_COND_TIMEDWAIT_RELATIVE` is defined nowhere);
- `ValidTimespec` is what `pthread_cond_timedwait` accepts. It is written as two inequalities, not as a range, so that the provers can use it.

`Event` keeps each waiter's inputs in `call` and decides with these
operators whether the wait is timed (`Timed`) and whether its deadline is
accepted (`TsValid`). `DeadlineExact` checks the deadline of every call
TLC explores.

## Runs

| Run | Config | Expect | What it shows |
|---|---|---|---|
| `core` | `MCOpenSSLStreamAdapter.cfg` | pass | the nine adapter properties below hold over every order of start, stream events, timer expiries, digest calls and key exports |
| `timeout_error` | `MC_HandshakeErrorIsFatal.cfg` | violation | `HandshakeErrorIsFatal` fails |
| `export_crash` | `MC_ExportNeverCrashes.cfg` | violation | `ExportNeverCrashes` fails: `export_keying_material` passes a NULL `_ssl` to OpenSSL |
| `srtp` | `MCSrtpSuites.cfg` | pass | `TypeOK`, `NegotiatedSuiteOffered`, `SuiteInvariant`, `SuiteTablesMatchSpec` |
| `buffer_queue` | `MCBufferQueue.cfg` | pass | `TypeOK`, `BufferConservation`, `ReaderWaitsOnlyWhenEmpty`, `HeadEventuallyRead`, `FifoRefinement` |
| `rate_window` | `MCRateStatistics.cfg` | pass | `TypeOK`, `WindowExact` |
| `rate_call` | `MCRateCallUnobservable.cfg` | pass | `RateCallUnobservable`, with a fixed window |
| `rate_window_grows` | `MC_RateCallWindowGrows.cfg` | violation | `RateCallUnobservable` fails once `set_window_size` may shrink and grow the window |
| `event` | `MCEvent.cfg` | pass | `AutoResetHandsOnce`, `DeadlineExact`, `SignaledReleases` |
| `udp_socket` | `MCAsyncUDPSocket.cfg` | pass | `CounterMatches`, `QueuedEventuallyFlushed` |
| `udp_close_rearm` | `MC_ClosedStaysDisarmed.cfg` | violation | `ClosedStaysDisarmed` fails: a `close()` from the sent-packet handler is followed by the watcher being re-armed on `INVALID_SOCKET` |

The properties of `core` are:

- `TypeOK`.
- `TrustedPeerOnOpen`: with client auth on, once SE_OPEN was signalled in SSL_CONNECTED, the adapter has verified the remote's certificate against a digest of exactly that certificate.
- `TrustInvariant`: the inductive strengthening used by the proof.
- `MutualAuthEnforced`: a client-auth server never connects to a peer without a certificate.
- `ScopedRelease`: the timer is armed only while negotiating, and a terminal state holds no SSL object, watcher or certificate.
- `SecureOpenOnce`: SE_OPEN is signalled at most once.
- `TerminalStable` (action property): SSL_ERROR and SSL_CLOSED are never left.
- `LifecycleRefinement`: the adapter implements `SSLLifecycle` under the mapping above. Its state only moves forward, SSL_ERROR and SSL_CLOSED are final, and SE_OPEN is first raised only by a step that leaves the session SSL_CONNECTED or ended.
- `ReleaseInvariant`: the inductive strengthening behind the last four. It adds to `TrustInvariant` that the timer is deleted exactly in a terminal state, that a recorded peer certificate exists only while negotiating or connected, that a finished SSL session means SSL_CONNECTED, and that while the stream is still opening the adapter is in SSL_NONE or SSL_WAIT.

The properties of the other pass runs are:

- `NegotiatedSuiteOffered`: a suite that `get_dtls_srtp_crypto_suite` reports is reported only while connected with a live `_ssl`. It was offered by both sides, and its name and key lengths exist.
- `SuiteInvariant`: the inductive strengthening of `NegotiatedSuiteOffered`. A negotiated suite exists only after `start_SSL` and was offered by both sides, and a negotiating or connected adapter has a live `_ssl`.
- `SuiteTablesMatchSpec`: the tables agree with each other and with spec 4.4. The default offer is accepted by the setter.
- `BufferConservation`: every Buffer ever created is queued once or free once. None is both, none leaks, and at most `_capacity` exist.
- `ReaderWaitsOnlyWhenEmpty`: a reader waits only while the queue is empty, so the readable notification is never lost.
- `HeadEventuallyRead` (liveness): the front buffer is eventually read or cleared.
- `FifoRefinement`: `BufferQueue` implements `BoundedFifo` under `Contents`.
- `WindowExact`: after any sequence of calls, the ring holds exactly the accepted samples at or after `_oldest_time`, each in the bucket of its millisecond. `_accumulated_count` and `_num_samples` are their sum and number.
- `RateCallUnobservable`: the header's claim about `rate()`, described above.
- `AutoResetHandsOnce`: for an auto-reset event, each time the event became signaled is accounted for exactly once. Either one `wait` returned true for it, or `reset` cleared it, or it is still on. Two woken waiters never both take one signal, and a timeout or EINVAL never swallows one.
- `SignaledReleases` (liveness): while the event is signaled, every thread inside `wait` returns, unless an auto-reset return or `reset` turns the event off first.
- `CounterMatches`: `_total_send_data` always equals the number of packets in the map's lists, counted as the set `Queued` of (destination, position) slots. This holds through handler `send_to` calls and through every `send_to` result, so `send_data`'s while loop never spins over empty lists.
- `QueuedEventuallyFlushed` (liveness): a queued packet is eventually sent or dropped, unless the socket is closed or destroyed.
- `DeadlineExact`: for a non-negative timeout, the deadline is a valid timespec exactly the timeout after now, and the nanosecond sum fits a 32-bit `long`.

Each property of a pass run has a mutant in `PROJECT.json`: a plausible bug
in the mapped code that TLC catches.

| Mutant | Property it breaks |
|---|---|
| digest checked for presence only | `TrustedPeerOnOpen`, `TrustInvariant` |
| no FAIL_IF_NO_PEER_CERT | `MutualAuthEnforced` |
| cleanup keeps the timer | `ScopedRelease`, `ReleaseInvariant` |
| continue_SSL does not stop the timer | `SecureOpenOnce` |
| unchecked digest length | `TypeOK` (core) |
| unguarded start_SSL | `TerminalStable` |
| `on_event` runs `continue_SSL` in every state past SSL_NONE | `LifecycleRefinement` |
| RFC names passed as OpenSSL profile names | `TypeOK` (srtp) |
| get_dtls_srtp_crypto_suite without its state check | `NegotiatedSuiteOffered` |
| `set_dtls_srtp_crypto_suites` accepted in any state | `SuiteInvariant` |
| SHA1_32 and SHA1_80 names swapped | `SuiteTablesMatchSpec` |
| new Buffer stored without growing the table | `TypeOK` (buffer_queue) |
| free buffer reused without `pop_back` | `BufferConservation` |
| `was_readable` taken after `push_back` | `ReaderWaitsOnlyWhenEmpty`, `HeadEventuallyRead` |
| `clear` with `if` for `while` | `FifoRefinement` |
| `set_window_size` without its range check | `TypeOK` (rate_window) |
| cull loop that leaves the bucket contents | `WindowExact` |
| `rate()` culling one millisecond ahead | `RateCallUnobservable` |
| auto-reset also done after a timeout | `AutoResetHandsOnce` |
| `pthread_cond_signal` for the broadcast | `SignaledReleases` |
| carry test with `>` for `>=` | `DeadlineExact` |
| `send_data`'s -1 path without `--_total_send_data` | `CounterMatches` |
| `send_data`'s 0 path disabling WRITE | `QueuedEventuallyFlushed` |

### Why the bounds are enough

- Adapter: see `MCOpenSSLStreamAdapter` above.
- SRTP: three ids are enough for a duplicate, an unknown id after a valid one, and every length of the default offer's prefix.
- BufferQueue: capacity 2 is the smallest in which a full queue, a drained queue, reuse of a freed buffer while another is queued, and clear of two buffers all happen. The proofs cover every capacity.
- Event: two waiters and three `set`/`reset` calls give every pairing of a signal with two waiters, a timeout and a spurious wakeup. The counting proof covers any number.
- Deadline: the inputs are the boundary values of each term of the sum.
- AsyncUDPSocket: two destinations let the `for` loop pass an empty list and send to a second key in one pass. Four packets let a handler's `send_to` land on a key the iterator has passed, so the `while` loop goes round again. The close bug needs one packet.
- RateStatistics: times over two turns of a 3 ms ring make the index wrap in both `update` and the cull loop. They also make a jump that empties the ring and leaves `_oldest_index` stale. Three samples fill distinct and shared buckets.

## Findings

- **Timer error (`timeout_error`).** `dtls_handshake_timeout_callback` (line 179) ignores `continue_SSL`'s error.
  - A protocol failure on a retransmission signals the handshake error.
  - The adapter stays in SSL_CONNECTING with `_ssl` alive, and no SE_CLOSE is sent.
  - `on_event` handles the same error through `error_info`.
- **Export on a NULL `_ssl` (`export_crash`).** `export_keying_material` (line 678) calls `SSL_export_keying_material(_ssl, ...)` whatever the state. Before `start_SSL`, in SSL_WAIT and after `cleanup`, `_ssl` is NULL. Spec 4.5 says export is valid only when Connected.
- **Watcher re-armed on a closed socket (`udp_close_rearm`).** `stop_io_event` (event_loop.cpp:195) reads `io->events` without checking `ev_is_active`, and `ev_io_stop` leaves `io->events` as it was. The counterexample is:
  1. `send_to` queues a packet, which enables WRITE;
  2. the WRITE callback sends it;
  3. the `signal_sent_packet` handler calls `close()`, which stops the watcher and leaves the stale mask READ|WRITE;
  4. `send_data` finds `_total_send_data` 0 and calls `disable_events(WRITE)` (async_udp_socket.cpp:121);
  5. the stale mask minus WRITE is READ, so the watcher is re-armed for READ on `get_fd()` = `INVALID_SOCKET`.

  libev's `ev_io_start` asserts `fd >= 0`, so a debug build aborts. Without the assertion, libev indexes its fd table with -1. The same happens when the read handler closes a socket whose WRITE is still enabled after a failed send.

- **`rate()` observable after the window grows (`rate_window_grows`).** `rate_statistics.h` (lines 45-50) says that `rate()` makes no alteration observable from the other methods while timestamps are monotonic. It does not restrict this to a fixed window. TLC's counterexample on `MCVaryingWindow`:
  1. `update` at t=1;
  2. `set_window_size(1)`;
  3. `rate()` at t=2 on object `a` only, whose `erase_old` (line 98) culls the sample;
  4. `set_window_size(3)`.

  From then on, a `rate()` on `a` misses the sample that object `b`, which skipped step 3, still counts. `rate_call` shows that the claim holds with a fixed window.

One further disagreement is modelled but not stated as a run. Its hazard in `PROJECT.json` says why:

- **Manual-reset pulse.** `set` only broadcasts, and a woken waiter re-tests `_event_status` once it has the mutex again (event.cpp:90). `set` followed by `reset` before the waiter gets the mutex sends it back to sleep. The `event` run reaches this state.

## Fairness

The adapter model assumes no fairness. The code gives no guarantee that the
stream ever delivers an event or that the consumer ever supplies a digest.
The DTLS retransmission timer depends on the delays OpenSSL reports,
which the model draws freely, so no progress property is stated for it
(see the hazard at line 353 in `PROJECT.json`).

`BufferQueue.Spec` assumes `WF_vars(Writer) /\ WF_vars(Reader)`: each client
thread that is not waiting keeps calling. This is how the notify hooks are
meant to be used. A thread either makes progress or blocks on a hook, and
only a hook releases it. `Clear` has no fairness, because nobody is obliged to
call it. Under this fairness `HeadEventuallyRead` holds.

A writer that waits on a full queue is not woken by `clear` (lines 45-51).
That hook is only a test hook, so no run checks it; `PROJECT.json` lists it
as a hazard with that note.

RateStatistics is checked for safety only.

`AsyncUDPSocket.Spec` assumes the following fairness:

- weak fairness for `WhileTest` and `SkipEmpty`, because the loop thread runs `send_data` to its end;
- weak fairness for a `Dispatch` whose ready set holds WRITE, because libev calls back a watcher armed for WRITE while the socket stays writable;
- strong fairness for `SendProgress`, a send that the kernel takes or rejects. This says that `sendto` does not return EAGAIN forever on a descriptor that libev reports writable.

The application and the read side get no fairness.

`Event.Spec` assumes weak fairness for each thread's `Block`,
`BlockInvalid`, `Return`, `Wake` and `TimeOut`. A thread that holds the
mutex or has been signaled is runnable, and the scheduler runs it. A timed
wait's deadline does pass.

`Lock` and `Reacquire` get strong fairness. A pthread mutex promises no
order, and with weak fairness TLC finds a run where one waiter always wins
the mutex back from the other. Strong fairness says a thread is not starved
forever of a mutex that is free again and again. No fairness is given to
spurious wakeups, new calls of `wait`, `set` or `reset`.

## What is proved

`OpenSSLStreamAdapterProofs.tla` proves, for every value of the constants
under the named assumptions `CertsAssumption`, `AlgsAssumption` and
`MaxSignalAssumption`:

- `TypeCorrect`: `Spec => []TypeOK`.
- `TrustInvariantHolds`: `Spec => []TrustInvariant`.
- `TrustedPeerOnOpenHolds`: `Spec => []TrustedPeerOnOpen`.

`TrustedPeerOnOpen` is not inductive on its own. A step of
`set_peer_certificate_digest`, the verify callback or `continue_SSL` can
only preserve it if it is also known that:

- a verified live session holds the remote's certificate and a digest of it;
- the only certificate ever recorded is the remote's;
- the timer is armed only while negotiating;
- nothing was reported open before SSL_CONNECTED;
- negotiation runs only on an open stream, so `on_event`'s SE_OPEN forwarding happens only in terminal states.

`TrustInvariant` adds exactly these facts. TLC checks it as an invariant of
the `core` run.

The argument runs operator by operator. For each member function there is a
lemma that it preserves typing and a lemma that it preserves `Good`, the
object-local part of `TrustInvariant`. Each lemma also says which states it
can move to. The step proof has one case per action, and each case combines
these lemmas.

`OpenSSLStreamAdapterReleaseProofs.tla` proves, under the same assumptions:

- `ReleaseInvariantHolds`: `Spec => []ReleaseInvariant`;
- `ScopedReleaseHolds`, `SecureOpenOnceHolds` and `MutualAuthEnforcedHolds`: each of these invariants holds in every state;
- `TerminalStableHolds`: `Spec => TerminalStable`. Every step from SSL_ERROR or SSL_CLOSED leaves the state unchanged.

None of the four holds as an induction on its own. `ReleaseInvariant` adds
the facts each one needs:

- `ScopedRelease` needs the timer to be deleted exactly in a terminal state. Otherwise `cleanup` could be reached with a live timer.
- `SecureOpenOnce` needs `TrustInvariant`'s "nothing reported open before SSL_CONNECTED". It also needs "while the stream is opening the adapter is in SSL_NONE or SSL_WAIT". Without that, `on_event` could forward a second SE_OPEN.
- `TerminalStable` needs "a recorded peer certificate means negotiating or connected". Otherwise a `set_peer_certificate_digest` in a terminal state or before the handshake could call `cleanup` or `continue_SSL`.
- `MutualAuthEnforced` needs "a finished SSL session means SSL_CONNECTED". A client-auth server whose peer sent no certificate never gets a finished session.

The proof follows the same layout as `TrustInvariant`. There is one lemma
per member function: `RelCleanup`, `RelEngineStep`, `RelContinueSSL`,
`RelBeginSSL`, `RelOnEvent`, `RelSetDigest` and others. Each says which
states the function can reach and that it keeps `Released`.
`ReleaseStep` then combines them, one case per action. It also shows that
a terminal state is unchanged, from which `TerminalStable` follows by PTL.

`OpenSSLStreamAdapterLifecycleProofs.tla` proves, under the same assumptions:

- `LifecycleRefinementHolds`: `Spec => LifecycleRefinement`. The adapter implements `SSLLifecycle`.

The proof rests on a relation `Moves(a, b)` between two adapter objects,
which reads only their state and whether SE_OPEN was raised. It holds when
going from `a` to `b` is an `Advance`, an `Announce` or a stutter under the
mapping. `Moves` is transitive (`MovesTrans`). A handler runs several
member functions one after the other. There is one lemma per function
saying that it moves from any live state: `CleanupMoves`,
`ErrorInfoMoves`, `ContinueMoves`, `BeginMoves`, `OnEventMoves` and
`SetDigestMoves`. The handler's move then follows by chaining them.

Three lemmas need facts from `ReleaseInvariant`, which is already proved:

- `OnEventMoves` needs that SE_OPEN arrives from the stream only in SSL_NONE or SSL_WAIT. Otherwise `on_event` would forward an SE_OPEN in SSL_CONNECTING. This holds because a stream that is still opening has an adapter that has not begun the handshake.
- The timer callback needs that an armed timer means SSL_CONNECTING.
- `SetDigestMoves` needs that a peer certificate is held only while negotiating or connected. Then `error_info` is reached only from a live state.

`StepMoves` shows that every action moves. `MovesRefine` turns a move
between typed states into `[Lifecycle!Next]_<<adapter.state,
adapter.sig.open > 0>>`. The theorem then follows by PTL from
`ReleaseInvariantHolds`.

`AsyncUDPSocketProofs.tla` proves, for every address set and packet bound:

- `TypeCorrect`: `Spec => []TypeOK`;
- `CounterMatchesHolds`: `Spec => []CounterMatches`.

The inductive invariant `IInv` says three things:

- the socket record is typed;
- `send_data` is idle or inside its loop with the cursor in range;
- while the socket is alive, `s.total` is the cardinality of the slot set and that set is finite.

Each operation changes one list by one packet and the counter by one. The
lemmas `SlotsAppend` and `SlotsTail` show that appending to a list adds
exactly one slot and that `Tail` removes exactly one (after renumbering).
`FS_AddElement` and `FS_RemoveElement` of `FiniteSetTheorems` then give the
new cardinality. Each operation has a lemma: `AddKeepsGood`,
`CloseKeepsGood`, `PopKeepsGood` and `HandlerKeepsGood`. `StepIInv` combines
them, one case per action, including the failure and zero-byte results of
`send_to`.

`SrtpSuitesProofs.tla` proves, for every suite constant set:

- `TypeCorrect` and `SuiteInvariantHolds`: `Spec => []SuiteInvariant`;
- `NegotiatedSuiteOfferedHolds`: `Spec => []NegotiatedSuiteOffered`;
- `SuiteTablesHold`: the tables agree with each other and with spec 4.4. This is a fact about constants. `SupportedSuitesValue` computes the default offer with the sequence lemmas of `SequenceTheorems`.

`NegotiatedSuiteOffered` is not inductive alone. A later `start_SSL` or
`set_dtls_srtp_crypto_suites` is harmless only because a negotiated suite
already implies that the state is past SSL_NONE. `SuiteInvariant` adds this fact.

`BufferQueueProofs.tla` proves, for every capacity, message set and length
set, under `CapacityAssumption` and `LensAssumption`:

- `TypeCorrect`: `Spec => []TypeOK`;
- `BufferConservationHolds`: `Spec => []BufferConservation`;
- `ReaderWaitsOnlyWhenEmptyHolds`: `Spec => []ReaderWaitsOnlyWhenEmpty`;
- `FifoRefinementHolds`: `Spec => FifoRefinement`, that is, BufferQueue implements BoundedFifo.

The inductive invariant is `IInv == TypeOK /\ BufferConservation`. Typing
alone is not inductive. `WriteBackReuse` writes `data[b]` for the free list's
last element, and `WriteBackNew` appends `allocated + 1`. Both stay within
`1 .. allocated` and below `Capacity` only because every buffer is in exactly
one of the two sequences and their lengths add up to `allocated`.

There is one lemma per action: `ReadFrontKeepsIInv`,
`WriteBackReuseKeepsIInv`, `WriteBackNewKeepsIInv`, `ClearKeepsIInv`, and
`FailedCallsKeepIInv` for the two calls that only set a waiting flag. They
rest on sequence lemmas about `Tail`, `Append`, `DropBack` and `\o`
(`PopFront`, `PushBack`, `PopBack`, `Concat`). `ReaderWaitsOnlyWhenEmpty` is
inductive together with `TypeOK`.

For the refinement:

- the initial state maps to `BoundedFifo!Init`;
- `RefineStep` shows that each action maps to `Put`, `Get`, `Clear` or a stutter of `<<q, got>>`;
- `FillAppends` shows that `Contents` of the appended queue is `Append(Contents, p)`.

The theorem then follows by PTL from `[]IInv`.

`EventProofs.tla` proves, for every set of waiters and bound, under
`EventAssumption`:

- `TypeCorrect`: `Spec => []TypeOK`;
- `AutoResetHandsOnceHolds`: `Spec => []AutoResetHandsOnce`;
- `DeadlineExactHolds`: `Spec => []DeadlineExact`, for every timeout in `Nat`, and under `TimeoutAssumption` for every `tv_usec` in `0 .. 999999`.

The inductive invariant is `IInv == TypeOK /\ AutoResetHandsOnce`. Only two
steps turn the event off:

- `reset`, which counts in `cleared`;
- the auto-reset of `Return`, which counts in `consumed`. Its guard (the loop ended with `error == 0`) means the event was on.

`set` counts a signal only when the event was off.

`DeadlineExact` follows from `TypeOK` alone. The lemma `DeadlineArith`
covers all the arithmetic for every input: it splits on whether the
nanosecond sum carries. Unlike the `event` run, which tries only the inputs
of `MCEvent`, the lemma bounds the nanosecond sum by 1999999999 for every
input. That sum fits a 32-bit `long`.

The following stay with TLC only:

- `TypeOK` of `rate_window`, `WindowExact` and `RateCallUnobservable`: their modules reach a RECURSIVE operator, which takes away the SMT backend. Also, `erase_old`'s loop is a RECURSIVE operator, and what it computes for every input is induction over data, which these provers cannot do;
- every liveness property (`HeadEventuallyRead`, `SignaledReleases`, `QueuedEventuallyFlushed`), since these provers do not handle fairness and ENABLED.

## Not modelled

- The data path: `read`, `write`, and the `_ssl_read_needs_write` and `_ssl_write_needs_read` flags.
- The cipher getters (`get_ssl_cipher_suite` and friends). These are single OpenSSL queries.
- The BIO glue.
- The byte contents of BufferQueue buffers (a message is an id and a length), the destructor, and `size`, which reads state without changing it.
- The float scaling in `RateStatistics::rate` and `_scale`.
- The clock behind a timed `wait`: a valid deadline may pass at any time. A wall-clock step, which moves a `CLOCK_REALTIME` deadline, is out of reach.
- `PlatformThread` and `CriticalSection`, which wrap pthread and atomics.
- `AsyncUDPSocket::get_option`, `set_option`, `get_local_address` and `PhysicalSocket::bind`, which forward to the OS; the timestamp of a received datagram.
- The other libraries in the table above. Why each is left out is recorded in `PROJECT.json`.
