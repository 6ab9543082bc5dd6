------------------------- MODULE OpenSSLStreamAdapter -------------------------
(***************************************************************************)
(* The DTLS/TLS handshake state machine of OpenSSLStreamAdapter            *)
(* (src/src/openssl_stream_adapter.cpp) together with the fingerprint     *)
(* trust check and the DTLS retransmission timer it owns.                 *)
(*                                                                         *)
(* The adapter object is one record variable, adapter, whose fields are   *)
(* the members of the class that the control flow depends on.  Every      *)
(* member function that changes state is an operator from a record to a   *)
(* record, so that a handler that calls several of them (on_event calls   *)
(* begin_SSL, continue_SSL, error_info and cleanup in one go) is one      *)
(* atomic step, as it is in the single-threaded event loop.               *)
(*                                                                         *)
(* OpenSSL itself (SSL_connect / SSL_accept, the record layer, the        *)
(* verification callback's caller) is the environment: one call of the   *)
(* engine is described by an Outcome chosen nondeterministically, and the *)
(* engine state the adapter can observe is kept in the fields ssl and     *)
(* cert_seen.  The underlying StreamInterface is the variable stream, and *)
(* the certificate the remote peer presents is the variable remote.       *)
(***************************************************************************)
EXTENDS Naturals

CONSTANTS
    Certs,        \* certificates a remote peer may present
    NoCert,       \* null _peer_certificate / a peer that presents none
    NoDigest,     \* empty _peer_certificate_digest_algorithm and value
    KnownAlgs,    \* digest names accepted by OpenSSLDigest::get_digest_EVP
    UnknownAlgs,  \* digest names it rejects
    Lengths,      \* digest lengths a caller may pass
    DigestSize,   \* EVP_MD_size of each known algorithm
    MaxSignal     \* saturation bound of the signal counters

ASSUME CertsAssumption == NoCert \notin Certs /\ Certs # {}
ASSUME AlgsAssumption ==
    /\ KnownAlgs \cap UnknownAlgs = {}
    /\ DigestSize \in [KnownAlgs -> Lengths]
ASSUME MaxSignalAssumption == MaxSignal \in Nat \ {0}

(* SSLState, openssl_stream_adapter.h 79-88 *)
States == {"NONE", "WAIT", "CONNECTING", "CONNECTED", "ERROR", "CLOSED"}
Terminal == {"ERROR", "CLOSED"}
(* StreamState, stream.h 29 *)
StreamStates == {"OPENING", "OPEN", "CLOSED"}
Roles == {"CLIENT", "SERVER"}
Modes == {"TLS", "DTLS"}
(* Handshake timer watcher: created, armed by start_timer, or deleted. *)
TimerStates == {"stopped", "armed", "deleted"}
(* _ssl: NULL, or an SSL object whose handshake is running, complete or *)
(* has failed (OpenSSL keeps returning the same error once it failed).  *)
SslStates == {"null", "hs", "done", "failed"}
(* The classes of SSL_get_error that continue_SSL distinguishes. *)
Results == {"NONE", "WANT_READ", "WANT_WRITE", "ERROR"}
(* One call of SSL_connect/SSL_accept: whether the peer's leaf          *)
(* certificate is processed in it, what it returns, and whether         *)
(* DTLSv1_get_timeout reports a positive delay afterwards.              *)
Outcomes == [cert : BOOLEAN, res : Results, delay : BOOLEAN]
Digests == [alg : KnownAlgs, val : Certs]
(* Arguments of set_peer_certificate_digest: val is the certificate the *)
(* digest bytes were computed from.                                     *)
DigestInputs == [alg : KnownAlgs \cup UnknownAlgs, len : Lengths, val : Certs]
SignalKinds == {"open", "close", "hs_error"}
(* What a call of export_keying_material can come to: no call yet, key *)
(* material derived, false returned, or a null SSL dereferenced.       *)
ExportResults == {"none", "ok", "fail", "crash"}

VARIABLES
    adapter,  \* the OpenSSLStreamAdapter object
    stream,   \* state of the wrapped StreamInterface
    remote,   \* the certificate the remote peer presents
    exported  \* outcome of the consumer's last export_keying_material

vars == <<adapter, stream, remote, exported>>

Adapters == [state : States, role : Roles, mode : Modes, client_auth : BOOLEAN,
             peer_digest : Digests \cup {NoDigest},
             peer_certificate : Certs \cup {NoCert},
             verified : BOOLEAN, timer : TimerStates,
             ssl : SslStates, cert_seen : BOOLEAN,
             sig : [SignalKinds -> 0..MaxSignal]]

-----------------------------------------------------------------------------
(* Signals raised to the consumer.  SE_OPEN is counted only when the     *)
(* adapter is past SSL_NONE (a clear-text open is not a secure open).   *)
Bump(n) == IF n < MaxSignal THEN n + 1 ELSE n
EmitAll(s, K) ==
    [s EXCEPT !.sig = [k \in SignalKinds |-> IF k \in K THEN Bump(@[k]) ELSE @[k]]]
Emit(s, k) == EmitAll(s, {k})

(* waiting_to_verify_peer_certificate, has_peer_certificate_digest *)
WaitingToVerify(s) == s.client_auth /\ ~s.verified
HasDigest(s) == s.peer_digest # NoDigest

(* verify_peer_certificate: the comparison it makes and its effect. *)
(* Mutation: the digest is checked for presence only, never compared. *)
VerifyOkPresenceOnly(s) ==
    /\ HasDigest(s)
    /\ s.peer_certificate # NoCert
VerifyOk(s) ==
    /\ HasDigest(s)
    /\ s.peer_certificate # NoCert
    /\ s.peer_digest.val = s.peer_certificate
VerifyPeerCertificate(s) ==
    IF VerifyOk(s) THEN [s EXCEPT !.verified = TRUE] ELSE s

(* Mutation: cleanup keeps the timer watcher alive. *)
CleanupKeepTimer(s) ==
    [s EXCEPT !.state = IF @ = "ERROR" THEN @ ELSE "CLOSED",
              !.ssl = "null", !.cert_seen = FALSE, !.peer_certificate = NoCert]

(* cleanup: SSL object, peer certificate and timer watcher released. *)
Cleanup(s) ==
    [s EXCEPT !.state = IF @ = "ERROR" THEN @ ELSE "CLOSED",
              !.ssl = "null", !.cert_seen = FALSE,
              !.peer_certificate = NoCert, !.timer = "deleted"]

(* error_info: SSL_ERROR, cleanup, and SE_CLOSE when signal is set. *)
ErrorInfo(s, signal) ==
    LET c == Cleanup([s EXCEPT !.state = "ERROR"])
    IN  IF signal THEN Emit(c, "close") ELSE c

(* Mutation: SSL_VERIFY_FAIL_IF_NO_PEER_CERT is never set. *)
FailIfNoPeerCertNever(s) == FALSE

(* setup_SSL_context: SSL_VERIFY_FAIL_IF_NO_PEER_CERT iff client auth. *)
FailIfNoPeerCert(s) == s.client_auth

(* SSL_verify_callback for the leaf (depth 0) certificate. *)
CallbackState(s) ==
    IF s.peer_digest = NoDigest \/ s.verified THEN s
    ELSE VerifyPeerCertificate([s EXCEPT !.peer_certificate = remote])
CallbackAccepts(s) ==
    \/ s.peer_digest = NoDigest
    \/ s.verified
    \/ VerifyOk([s EXCEPT !.peer_certificate = remote])

(* One call of SSL_connect / SSL_accept and SSL_get_error.  The leaf is *)
(* processed at most once; the handshake cannot complete before it was *)
(* processed unless the peer presents none; a completed or failed      *)
(* handshake returns the same result again.                            *)
EngineStep(s, o) ==
    LET seen == o.cert /\ s.ssl = "hs" /\ ~s.cert_seen /\ remote # NoCert
        s1 == IF seen THEN [CallbackState(s) EXCEPT !.cert_seen = TRUE] ELSE s
        rejected == seen /\ ~CallbackAccepts(s)
        complete == o.res = "NONE" /\ (s.cert_seen \/ seen \/ remote = NoCert)
        noPeerCert == complete /\ remote = NoCert /\ s.role = "SERVER"
                      /\ FailIfNoPeerCert(s)
        res == IF s.ssl = "failed" THEN "ERROR"
               ELSE IF s.ssl = "done" THEN "NONE"
               ELSE IF rejected \/ noPeerCert THEN "ERROR"
               ELSE IF o.res = "NONE" /\ ~complete THEN "WANT_READ"
               ELSE o.res
    IN  [s |-> [s1 EXCEPT !.ssl = CASE res = "ERROR" -> "failed"
                                    [] res = "NONE"  -> "done"
                                    [] OTHER         -> "hs"],
         res |-> res]

(* continue_SSL: stop the timer, step the engine, act on the result.   *)
(* Returns the new object and whether a (nonzero) error is returned.  *)
(* Mutation: continue_SSL does not stop the handshake timer first. *)
ContinueSSLNoStop(s, o) ==
    LET e == EngineStep(s, o)
        t == e.s
    IN  CASE e.res = "NONE" ->
               LET c == [t EXCEPT !.state = "CONNECTED"]
               IN  [s |-> IF WaitingToVerify(c) THEN c ELSE Emit(c, "open"),
                    err |-> FALSE]
          [] e.res = "WANT_READ" ->
               [s |-> IF t.mode = "DTLS" /\ o.delay
                        THEN [t EXCEPT !.timer = "armed"] ELSE t,
                err |-> FALSE]
          [] e.res = "WANT_WRITE" -> [s |-> t, err |-> FALSE]
          [] e.res = "ERROR" -> [s |-> Emit(t, "hs_error"), err |-> TRUE]

ContinueSSL(s, o) ==
    LET e == EngineStep([s EXCEPT !.timer = IF @ = "armed" THEN "stopped" ELSE @], o)
        t == e.s
    IN  CASE e.res = "NONE" ->
               LET c == [t EXCEPT !.state = "CONNECTED"]
               IN  [s |-> IF WaitingToVerify(c) THEN c ELSE Emit(c, "open"),
                    err |-> FALSE]
          [] e.res = "WANT_READ" ->
               [s |-> IF t.mode = "DTLS" /\ o.delay
                        THEN [t EXCEPT !.timer = "armed"] ELSE t,
                err |-> FALSE]
          [] e.res = "WANT_WRITE" -> [s |-> t, err |-> FALSE]
          [] e.res = "ERROR" -> [s |-> Emit(t, "hs_error"), err |-> TRUE]

(* begin_SSL: ok is FALSE when setup_SSL_context, BIO_new_stream,      *)
(* SSL_new or EC_KEY_new_by_curve_name fails.                          *)
BeginSSL(s, ok, o) ==
    IF s.state # "CONNECTING" \/ ~ok THEN [s |-> s, err |-> TRUE]
    ELSE ContinueSSL([s EXCEPT !.ssl = "hs", !.cert_seen = FALSE], o)

(* Mutation: on_event's SE_READ|SE_WRITE branch runs continue_SSL in   *)
(* every state past SSL_NONE, not only in SSL_CONNECTING.               *)
OnEventContinuePastNone(s, ev, ok, o1, o2) ==
    LET beginNow == "OPEN" \in ev /\ s.state = "WAIT"
        b == BeginSSL([s EXCEPT !.state = "CONNECTING"], ok, o1)
        fwdOpen == IF "OPEN" \in ev /\ s.state \notin {"WAIT", "NONE"}
                   THEN {"open"} ELSE {}
        s1 == IF beginNow THEN b.s ELSE s
        contNow == "IO" \in ev /\ s1.state # "NONE"
        c == ContinueSSL(s1, o2)
        s2 == IF contNow THEN c.s ELSE s1
        closeNow == "CLOSE" \in ev
        s3 == IF closeNow THEN Cleanup(s2) ELSE s2
    IN  IF beginNow /\ b.err THEN ErrorInfo(b.s, TRUE)
        ELSE IF contNow /\ c.err THEN ErrorInfo(c.s, TRUE)
        ELSE EmitAll(s3, fwdOpen \cup (IF closeNow THEN {"close"} ELSE {}))

(* on_event: the bits of the mask are handled in the order SE_OPEN,    *)
(* SE_READ|SE_WRITE ("IO"), SE_CLOSE; a failure returns at once (the   *)
(* first failure wins), and the forwarded events are signalled         *)
(* together at the end.                                                *)
OnEvent(s, ev, ok, o1, o2) ==
    LET beginNow == "OPEN" \in ev /\ s.state = "WAIT"
        b == BeginSSL([s EXCEPT !.state = "CONNECTING"], ok, o1)
        fwdOpen == IF "OPEN" \in ev /\ s.state \notin {"WAIT", "NONE"}
                   THEN {"open"} ELSE {}
        s1 == IF beginNow THEN b.s ELSE s
        contNow == "IO" \in ev /\ s1.state = "CONNECTING"
        c == ContinueSSL(s1, o2)
        s2 == IF contNow THEN c.s ELSE s1
        closeNow == "CLOSE" \in ev
        s3 == IF closeNow THEN Cleanup(s2) ELSE s2
    IN  IF beginNow /\ b.err THEN ErrorInfo(b.s, TRUE)
        ELSE IF contNow /\ c.err THEN ErrorInfo(c.s, TRUE)
        ELSE EmitAll(s3, fwdOpen \cup (IF closeNow THEN {"close"} ELSE {}))

(* Mutation: the algorithm and length checks are dropped. *)
SetDigestUnchecked(s, in) ==
    LET t == [s EXCEPT !.peer_digest = [alg |-> in.alg, val |-> in.val]]
    IN  IF t.peer_certificate = NoCert THEN t
        ELSE IF VerifyOk(t) THEN VerifyPeerCertificate(t)
        ELSE ErrorInfo(t, FALSE)

(* set_peer_certificate_digest *)
SetDigest(s, in) ==
    IF in.alg \notin KnownAlgs \/ in.len # DigestSize[in.alg] THEN s
    ELSE LET t == [s EXCEPT !.peer_digest = [alg |-> in.alg, val |-> in.val]]
         IN  IF t.peer_certificate = NoCert THEN t
             ELSE IF VerifyOk(t) THEN VerifyPeerCertificate(t)
             ELSE ErrorInfo(t, FALSE)

-----------------------------------------------------------------------------
(* The constructor, after the configuration setters were called. *)
Init ==
    /\ stream \in StreamStates
    /\ remote \in Certs \cup {NoCert}
    /\ \E role \in Roles, mode \in Modes, ca \in BOOLEAN :
         adapter = [state |-> "NONE", role |-> role, mode |-> mode,
                    client_auth |-> ca, peer_digest |-> NoDigest,
                    peer_certificate |-> NoCert, verified |-> FALSE,
                    timer |-> "stopped", ssl |-> "null", cert_seen |-> FALSE,
                    sig |-> [k \in SignalKinds |-> 0]]
    (* A TLS server always presents a certificate (the cipher list     *)
    (* excludes anonymous suites).                                     *)
    /\ adapter.role = "CLIENT" => remote \in Certs
    /\ exported = "none"

(* Mutation: start_SSL without its "called twice" guard. *)
StartSSLUnguarded ==
    /\ IF stream # "OPEN"
         THEN adapter' = [adapter EXCEPT !.state = "WAIT"]
         ELSE \E ok \in BOOLEAN, o \in Outcomes :
                LET r == BeginSSL([adapter EXCEPT !.state = "CONNECTING"], ok, o)
                IN  adapter' = IF r.err THEN ErrorInfo(r.s, FALSE) ELSE r.s
    /\ UNCHANGED <<stream, remote, exported>>

(* start_SSL (a second call returns -1 and changes nothing). *)
StartSSL ==
    /\ adapter.state = "NONE"
    /\ IF stream # "OPEN"
         THEN adapter' = [adapter EXCEPT !.state = "WAIT"]
         ELSE \E ok \in BOOLEAN, o \in Outcomes :
                LET r == BeginSSL([adapter EXCEPT !.state = "CONNECTING"], ok, o)
                IN  adapter' = IF r.err THEN ErrorInfo(r.s, FALSE) ELSE r.s
    /\ UNCHANGED <<stream, remote, exported>>

(* The wrapped stream opens: SE_OPEN, possibly with SE_READ|SE_WRITE. *)
StreamOpens ==
    /\ stream = "OPENING"
    /\ stream' = "OPEN"
    /\ \E ev \in {{"OPEN"}, {"OPEN", "IO"}}, ok \in BOOLEAN, o1, o2 \in Outcomes :
         adapter' = OnEvent(adapter, ev, ok, o1, o2)
    /\ UNCHANGED <<remote, exported>>

(* The wrapped stream becomes readable or writable (handshake data). *)
StreamIO ==
    /\ stream = "OPEN"
    /\ \E o \in Outcomes : adapter' = OnEvent(adapter, {"IO"}, TRUE, o, o)
    /\ UNCHANGED <<stream, remote, exported>>

(* The wrapped stream closes: SE_CLOSE, possibly with SE_READ. *)
StreamCloses ==
    /\ stream # "CLOSED"
    /\ stream' = "CLOSED"
    /\ \E ev \in {{"CLOSE"}, {"IO", "CLOSE"}}, o \in Outcomes :
         adapter' = OnEvent(adapter, ev, TRUE, o, o)
    /\ UNCHANGED <<remote, exported>>

(* dtls_handshake_timeout_callback: the one-shot watcher fires, the    *)
(* flight is retransmitted and continue_SSL's result is ignored.       *)
TimerFires ==
    /\ adapter.timer = "armed"
    /\ \E o \in Outcomes :
         adapter' = ContinueSSL([adapter EXCEPT !.timer = "stopped"], o).s
    /\ UNCHANGED <<stream, remote, exported>>

(* The consumer calls set_peer_certificate_digest. *)
SetPeerCertificateDigest ==
    /\ \E in \in DigestInputs : adapter' = SetDigest(adapter, in)
    /\ UNCHANGED <<stream, remote, exported>>

(* export_keying_material: SSL_export_keying_material is called on _ssl *)
(* whatever the state.  On a NULL _ssl (before start_SSL, while waiting *)
(* for the stream, after cleanup) OpenSSL dereferences it; on a live    *)
(* engine it derives the material or fails.                             *)
ExportOutcomes(s) ==
    IF s.ssl = "null" THEN {"crash"}
    ELSE IF s.ssl = "failed" THEN {"fail"}
    ELSE {"ok", "fail"}
ExportKeyingMaterial ==
    /\ exported' \in ExportOutcomes(adapter)
    /\ UNCHANGED <<adapter, stream, remote>>

Next ==
    \/ StartSSL
    \/ StreamOpens
    \/ StreamIO
    \/ StreamCloses
    \/ TimerFires
    \/ SetPeerCertificateDigest
    \/ ExportKeyingMaterial

Spec == Init /\ [][Next]_vars


-----------------------------------------------------------------------------
(* Every field of the object and of the environment has its type. *)
TypeOK ==
    /\ adapter \in Adapters
    /\ stream \in StreamStates
    /\ remote \in Certs \cup {NoCert}
    /\ exported \in ExportResults

(* Trust: with client authentication on (the production setting), once *)
(* continue_SSL or on_event has told the consumer that the secure       *)
(* stream is open and it is still connected, the peer's certificate was *)
(* verified and the certificate the remote peer actually presents is    *)
(* the one whose digest the consumer set (SSL_verify_callback,          *)
(* verify_peer_certificate and the SE_OPEN in continue_SSL).           *)
TrustedPeerOnOpen ==
    (/\ adapter.client_auth
     /\ adapter.state = "CONNECTED"
     /\ adapter.sig.open > 0)
    => /\ adapter.verified
       /\ adapter.peer_digest # NoDigest
       /\ adapter.peer_digest.val = remote

(* The inductive strengthening of TrustedPeerOnOpen.  While the session *)
(* is live, a verified adapter holds the remote peer's certificate and a *)
(* digest of it (a later set_peer_certificate_digest either re-verifies  *)
(* or ends the session); the only certificate SSL_verify_callback ever   *)
(* records is the remote one; the timer is armed only while negotiating *)
(* (so dtls_handshake_timeout_callback runs continue_SSL only there);    *)
(* nothing has been reported open before SSL_CONNECTED; negotiation runs *)
(* only on an open stream, so on_event's SE_OPEN forwarding happens only *)
(* in a terminal state.                                                  *)
TrustInvariant ==
    /\ TypeOK
    /\ TrustedPeerOnOpen
    /\ adapter.verified /\ adapter.state \notin Terminal =>
          /\ adapter.peer_certificate = remote
          /\ adapter.peer_digest # NoDigest
          /\ adapter.peer_digest.val = remote
    /\ adapter.peer_certificate # NoCert => adapter.peer_certificate = remote
    /\ adapter.timer = "armed" => adapter.state = "CONNECTING"
    /\ adapter.state \in {"NONE", "WAIT", "CONNECTING"} => adapter.sig.open = 0
    /\ adapter.state \in {"CONNECTING", "CONNECTED"} => stream = "OPEN"

(* Mutual authentication: a server that requires a client certificate  *)
(* never reaches SSL_CONNECTED with a peer that presented none          *)
(* (SSL_VERIFY_FAIL_IF_NO_PEER_CERT set in setup_SSL_context).          *)
MutualAuthEnforced ==
    (adapter.role = "SERVER" /\ adapter.client_auth /\ remote = NoCert)
    => adapter.state # "CONNECTED"

(* Scoped release of the timer and the SSL object: the retransmission  *)
(* timer is armed only while negotiating, the watcher exists whenever   *)
(* continue_SSL may run, and a terminal state holds neither the SSL     *)
(* object, the watcher nor the peer certificate (cleanup, continue_SSL,*)
(* dtls_handshake_timeout_callback).                                    *)
ScopedRelease ==
    /\ adapter.timer = "armed" => adapter.state = "CONNECTING"
    /\ adapter.state = "CONNECTING" => adapter.timer # "deleted"
    /\ adapter.state \in Terminal =>
          /\ adapter.ssl = "null"
          /\ adapter.timer = "deleted"
          /\ adapter.peer_certificate = NoCert

(* The consumer is told at most once that the secure stream opened,    *)
(* whatever timer expiries and stream events follow the handshake      *)
(* (continue_SSL's SE_OPEN and the SE_OPEN forwarding of on_event).    *)
SecureOpenOnce == adapter.sig.open <= 1

(* SSL_ERROR and SSL_CLOSED are terminal: no later call or event moves *)
(* the adapter out of them, nor from one to the other (cleanup keeps   *)
(* SSL_ERROR).                                                         *)
TerminalStable ==
    [][adapter.state \in Terminal => adapter'.state = adapter.state]_vars

(* What cleanup, continue_SSL and the engine leave in one object: the    *)
(* watcher is deleted exactly in a terminal state, where _ssl is NULL;  *)
(* a peer certificate is held only while negotiating or connected;      *)
(* SE_OPEN was raised at most once; a completed engine means            *)
(* SSL_CONNECTED; and a client-auth server never connected to a peer    *)
(* without a certificate.                                               *)
Released(a) ==
    /\ a.timer = "deleted" <=> a.state \in Terminal
    /\ a.state \in Terminal => a.ssl = "null"
    /\ a.peer_certificate # NoCert => a.state \in {"CONNECTING", "CONNECTED"}
    /\ a.sig.open <= 1
    /\ a.ssl = "done" => a.state = "CONNECTED"
    /\ a.role = "SERVER" /\ a.client_auth /\ remote = NoCert => a.state # "CONNECTED"

(* The inductive invariant behind ScopedRelease, SecureOpenOnce,         *)
(* MutualAuthEnforced and TerminalStable: TrustInvariant, Released, and  *)
(* a stream still opening has an adapter that has not begun the          *)
(* handshake, so SE_OPEN from the stream is never forwarded as a second  *)
(* secure open (on_event's SE_OPEN branch).                              *)
ReleaseInvariant ==
    /\ TrustInvariant
    /\ Released(adapter)
    /\ stream = "OPENING" => adapter.state \in {"NONE", "WAIT"}

(* The adapter seen through its SSLState and whether SE_OPEN was        *)
(* signalled.                                                            *)
Lifecycle == INSTANCE SSLLifecycle
    WITH phase <- adapter.state, announced <- adapter.sig.open > 0

(* The adapter implements SSLLifecycle: start_SSL, on_event, the timer   *)
(* callback and set_peer_certificate_digest only move the state forward, *)
(* never out of SSL_ERROR or SSL_CLOSED, and SE_OPEN is signalled once,  *)
(* by a call that ends in or passes through SSL_CONNECTED: never before  *)
(* connecting, never from a final state, and a stream SE_OPEN is never   *)
(* forwarded as a second one.                                            *)
LifecycleRefinement == Lifecycle!Spec

(* Spec 7: a protocol failure reported through                          *)
(* signal_ssl_handshake_error moves the session to SSL_ERROR in the     *)
(* same step, including when it happens on a retransmission timeout.    *)
HandshakeErrorIsFatal ==
    [][adapter'.sig.hs_error > adapter.sig.hs_error
       => adapter'.state = "ERROR"]_vars

(* Spec 4.5 and 7: export_keying_material before SSL_CONNECTED is a    *)
(* configuration error that fails and never terminates the session; the *)
(* code hands a NULL _ssl to OpenSSL before start_SSL and after cleanup. *)
ExportNeverCrashes == exported # "crash"

=============================================================================
