---------------------- MODULE OpenSSLStreamAdapterProofs ----------------------
(***************************************************************************)
(* Proofs about OpenSSLStreamAdapter for every value of the constants:    *)
(* the type invariant, and the fingerprint trust property                 *)
(* TrustedPeerOnOpen through its inductive strengthening TrustInvariant.  *)
(*                                                                         *)
(* Each member-function operator gets a lemma stating what it preserves,  *)
(* so that the step proofs only combine them.                             *)
(***************************************************************************)
EXTENDS OpenSSLStreamAdapter, TLAPS

-----------------------------------------------------------------------------
(* Types of the member-function operators. *)

(* A saturating signal counter stays within its bound. *)
LEMMA BumpType ==
    ASSUME NEW n \in 0..MaxSignal
    PROVE  Bump(n) \in 0..MaxSignal
BY MaxSignalAssumption DEF Bump

(* Raising signals keeps the object well typed. *)
LEMMA EmitAllType ==
    ASSUME NEW s \in Adapters, NEW K \in SUBSET SignalKinds
    PROVE  EmitAll(s, K) \in Adapters
<1>1. [k \in SignalKinds |-> IF k \in K THEN Bump(s.sig[k]) ELSE s.sig[k]]
        \in [SignalKinds -> 0..MaxSignal]
  BY BumpType DEF Adapters
<1>2. QED
  BY <1>1 DEF EmitAll, Adapters

(* cleanup keeps the object well typed. *)
LEMMA CleanupType ==
    ASSUME NEW s \in Adapters
    PROVE  Cleanup(s) \in Adapters
<1>1. (IF s.state = "ERROR" THEN s.state ELSE "CLOSED") \in States
  BY DEF Adapters, States
<1>2. QED
  BY <1>1 DEF Cleanup, Adapters, TimerStates, SslStates

(* error_info keeps the object well typed. *)
LEMMA ErrorInfoType ==
    ASSUME NEW s \in Adapters, NEW signal \in BOOLEAN
    PROVE  ErrorInfo(s, signal) \in Adapters
<1>1. [s EXCEPT !.state = "ERROR"] \in Adapters
  BY DEF Adapters, States
<1>2. Cleanup([s EXCEPT !.state = "ERROR"]) \in Adapters
  BY <1>1, CleanupType
<1>3. QED
  BY <1>2, EmitAllType DEF ErrorInfo, Emit, SignalKinds

(* One engine call keeps the object well typed and yields a result class. *)
LEMMA EngineStepType ==
    ASSUME NEW s \in Adapters, NEW o \in Outcomes,
           remote \in Certs \cup {NoCert}
    PROVE  /\ EngineStep(s, o).s \in Adapters
           /\ EngineStep(s, o).res \in Results
<1>1. CallbackState(s) \in Adapters
  BY DEF CallbackState, VerifyPeerCertificate, Adapters
<1>2. QED
  BY <1>1 DEF EngineStep, Adapters, SslStates, Results, Outcomes

(* continue_SSL keeps the object well typed. *)
LEMMA ContinueSSLType ==
    ASSUME NEW s \in Adapters, NEW o \in Outcomes,
           remote \in Certs \cup {NoCert}
    PROVE  /\ ContinueSSL(s, o).s \in Adapters
           /\ ContinueSSL(s, o).err \in BOOLEAN
<1> DEFINE s0 == [s EXCEPT !.timer = IF @ = "armed" THEN "stopped" ELSE @]
           e == EngineStep(s0, o)
           t == e.s
<1>1. s0 \in Adapters
  BY DEF Adapters, TimerStates
<1>2. t \in Adapters /\ e.res \in Results
  BY <1>1, EngineStepType
<1>3. [t EXCEPT !.state = "CONNECTED"] \in Adapters
      /\ [t EXCEPT !.timer = "armed"] \in Adapters
  BY <1>2 DEF Adapters, States, TimerStates
<1>4. \A c \in Adapters, k \in SignalKinds : Emit(c, k) \in Adapters
  BY EmitAllType DEF Emit
<1>5. QED
  BY <1>2, <1>3, <1>4 DEF ContinueSSL, Results, SignalKinds

(* begin_SSL keeps the object well typed. *)
LEMMA BeginSSLType ==
    ASSUME NEW s \in Adapters, NEW ok \in BOOLEAN, NEW o \in Outcomes,
           remote \in Certs \cup {NoCert}
    PROVE  /\ BeginSSL(s, ok, o).s \in Adapters
           /\ BeginSSL(s, ok, o).err \in BOOLEAN
<1>1. [s EXCEPT !.ssl = "hs", !.cert_seen = FALSE] \in Adapters
  BY DEF Adapters, SslStates
<1>2. QED
  BY <1>1, ContinueSSLType DEF BeginSSL

(* on_event keeps the object well typed. *)
LEMMA OnEventType ==
    ASSUME NEW s \in Adapters, NEW ev \in SUBSET {"OPEN", "IO", "CLOSE"},
           NEW ok \in BOOLEAN, NEW o1 \in Outcomes, NEW o2 \in Outcomes,
           remote \in Certs \cup {NoCert}
    PROVE  OnEvent(s, ev, ok, o1, o2) \in Adapters
<1> DEFINE b == BeginSSL([s EXCEPT !.state = "CONNECTING"], ok, o1)
           fwdOpen == IF "OPEN" \in ev /\ s.state \notin {"WAIT", "NONE"}
                      THEN {"open"} ELSE {}
           s1 == IF "OPEN" \in ev /\ s.state = "WAIT" THEN b.s ELSE s
           c == ContinueSSL(s1, o2)
           s2 == IF "IO" \in ev /\ s1.state = "CONNECTING" THEN c.s ELSE s1
           s3 == IF "CLOSE" \in ev THEN Cleanup(s2) ELSE s2
<1>1. [s EXCEPT !.state = "CONNECTING"] \in Adapters
  BY DEF Adapters, States
<1>2. b.s \in Adapters /\ b.err \in BOOLEAN
  BY <1>1, BeginSSLType
<1>3. s1 \in Adapters
  BY <1>2
<1>4. c.s \in Adapters /\ c.err \in BOOLEAN
  BY <1>3, ContinueSSLType
<1>5. s2 \in Adapters
  BY <1>3, <1>4
<1>6. s3 \in Adapters
  BY <1>5, CleanupType
<1>7. EmitAll(s3, fwdOpen \cup (IF "CLOSE" \in ev THEN {"close"} ELSE {}))
        \in Adapters
  BY <1>6, EmitAllType DEF SignalKinds
<1>8. ErrorInfo(b.s, TRUE) \in Adapters /\ ErrorInfo(c.s, TRUE) \in Adapters
  BY <1>2, <1>4, ErrorInfoType
<1>9. QED
  BY <1>7, <1>8 DEF OnEvent

(* set_peer_certificate_digest keeps the object well typed. *)
LEMMA SetDigestType ==
    ASSUME NEW s \in Adapters, NEW in \in DigestInputs
    PROVE  SetDigest(s, in) \in Adapters
<1>1. CASE in.alg \in KnownAlgs
  <2> DEFINE t == [s EXCEPT !.peer_digest = [alg |-> in.alg, val |-> in.val]]
  <2>1. t \in Adapters
    BY <1>1 DEF Adapters, Digests, DigestInputs
  <2>2. VerifyPeerCertificate(t) \in Adapters /\ ErrorInfo(t, FALSE) \in Adapters
    BY <2>1, ErrorInfoType DEF VerifyPeerCertificate, Adapters
  <2>3. QED
    BY <2>1, <2>2 DEF SetDigest
<1>2. CASE in.alg \notin KnownAlgs
  BY <1>2 DEF SetDigest
<1>3. QED
  BY <1>1, <1>2

-----------------------------------------------------------------------------
(* The part of TrustInvariant that speaks of one adapter object, given  *)
(* the remote peer's certificate.                                        *)
Good(a) ==
    /\ a \in Adapters
    /\ a.verified /\ a.state \notin Terminal =>
          /\ a.peer_certificate = remote
          /\ a.peer_digest # NoDigest
          /\ a.peer_digest.val = remote
    /\ a.peer_certificate # NoCert => a.peer_certificate = remote
    /\ a.timer = "armed" => a.state = "CONNECTING"
    /\ a.state \in {"NONE", "WAIT", "CONNECTING"} => a.sig.open = 0
    /\ a.client_auth /\ a.state = "CONNECTED" /\ a.sig.open > 0 => a.verified

(* A Good object is well typed. *)
LEMMA GoodTyped ==
    ASSUME NEW a, Good(a)
    PROVE  a \in Adapters
BY DEF Good

(* Raising signals preserves Good when SE_OPEN is raised only in a       *)
(* terminal state or once connected and no longer waiting to verify.    *)
LEMMA GoodEmitAll ==
    ASSUME NEW s, Good(s), NEW K \in SUBSET SignalKinds,
           "open" \in K => \/ s.state \in Terminal
                           \/ s.state = "CONNECTED" /\ ~WaitingToVerify(s)
    PROVE  /\ Good(EmitAll(s, K))
           /\ EmitAll(s, K).state = s.state
<1> DEFINE e == EmitAll(s, K)
<1>0. s \in Adapters
  BY DEF Good
<1>1. e \in Adapters
  BY <1>0, EmitAllType
<1>2. /\ e.state = s.state /\ e.verified = s.verified
      /\ e.client_auth = s.client_auth /\ e.timer = s.timer
      /\ e.peer_certificate = s.peer_certificate
      /\ e.peer_digest = s.peer_digest
      /\ e.sig.open = IF "open" \in K THEN Bump(s.sig.open) ELSE s.sig.open
  BY <1>0 DEF EmitAll, Adapters, SignalKinds
<1>3. QED
  BY <1>1, <1>2 DEF Good, WaitingToVerify, Terminal

(* After cleanup, whatever the object held, Good holds and the state is *)
(* terminal: cleanup releases the peer certificate and the watcher.     *)
LEMMA GoodCleanup ==
    ASSUME NEW s \in Adapters
    PROVE  /\ Good(Cleanup(s))
           /\ Cleanup(s).state \in Terminal
<1>1. Cleanup(s) \in Adapters
  BY CleanupType
<1>2. QED
  BY <1>1 DEF Good, Cleanup, Terminal

(* The same for error_info, with or without its SE_CLOSE. *)
LEMMA GoodErrorInfo ==
    ASSUME NEW s \in Adapters, NEW signal \in BOOLEAN
    PROVE  /\ Good(ErrorInfo(s, signal))
           /\ ErrorInfo(s, signal).state \in Terminal
<1> DEFINE c == Cleanup([s EXCEPT !.state = "ERROR"])
<1>1. [s EXCEPT !.state = "ERROR"] \in Adapters
  BY DEF Adapters, States
<1>2. Good(c) /\ c.state \in Terminal
  BY <1>1, GoodCleanup
<1>3. Good(Emit(c, "close")) /\ Emit(c, "close").state = c.state
  BY <1>2, GoodEmitAll DEF Emit, SignalKinds
<1>4. QED
  BY <1>2, <1>3 DEF ErrorInfo

(* verify_peer_certificate sets the verified flag only for the remote  *)
(* certificate and a digest of it.                                     *)
LEMMA GoodVerify ==
    ASSUME NEW s, Good(s)
    PROVE  /\ Good(VerifyPeerCertificate(s))
           /\ VerifyPeerCertificate(s).state = s.state
           /\ VerifyPeerCertificate(s).timer = s.timer
BY DEF Good, VerifyPeerCertificate, VerifyOk, HasDigest, Adapters

(* SSL_verify_callback records the remote certificate and verifies it. *)
LEMMA GoodCallback ==
    ASSUME NEW s, Good(s), remote \in Certs \cup {NoCert}
    PROVE  /\ Good(CallbackState(s))
           /\ CallbackState(s).state = s.state
           /\ CallbackState(s).timer = s.timer
<1>1. CASE s.peer_digest = NoDigest \/ s.verified
  BY <1>1 DEF CallbackState
<1>2. CASE ~(s.peer_digest = NoDigest \/ s.verified)
  <2> DEFINE t == [s EXCEPT !.peer_certificate = remote]
  <2>1. Good(t) /\ t.state = s.state /\ t.timer = s.timer
    BY <1>2 DEF Good, Adapters
  <2>2. QED
    BY <1>2, <2>1, GoodVerify DEF CallbackState
<1>3. QED
  BY <1>1, <1>2

(* Changing the engine's state (ssl, cert_seen) does not disturb Good. *)
LEMMA GoodSslField ==
    ASSUME NEW s, Good(s), NEW x \in SslStates
    PROVE  Good([s EXCEPT !.ssl = x])
BY DEF Good, Adapters

LEMMA GoodCertSeenField ==
    ASSUME NEW s, Good(s), NEW y \in BOOLEAN
    PROVE  Good([s EXCEPT !.cert_seen = y])
BY DEF Good, Adapters

(* One engine call preserves Good and leaves the adapter's state, timer *)
(* and signals alone.                                                    *)
LEMMA GoodEngineStep ==
    ASSUME NEW s, Good(s), NEW o \in Outcomes, remote \in Certs \cup {NoCert}
    PROVE  /\ Good(EngineStep(s, o).s)
           /\ EngineStep(s, o).s.state = s.state
           /\ EngineStep(s, o).s.timer = s.timer
           /\ EngineStep(s, o).s.sig = s.sig
           /\ EngineStep(s, o).s.client_auth = s.client_auth
           /\ EngineStep(s, o).res \in Results
<1> DEFINE seen == o.cert /\ s.ssl = "hs" /\ ~s.cert_seen /\ remote # NoCert
           s1 == IF seen THEN [CallbackState(s) EXCEPT !.cert_seen = TRUE] ELSE s
<1>0. s \in Adapters
  BY DEF Good
<1>1. /\ Good(CallbackState(s))
      /\ CallbackState(s).state = s.state
      /\ CallbackState(s).timer = s.timer
  BY GoodCallback
<1>2. CallbackState(s).sig = s.sig /\ CallbackState(s).client_auth = s.client_auth
  BY DEF CallbackState, VerifyPeerCertificate
<1>3. /\ Good(s1) /\ s1.state = s.state /\ s1.timer = s.timer
      /\ s1.sig = s.sig /\ s1.client_auth = s.client_auth
  <2> DEFINE cb == CallbackState(s)
  <2>1. CASE seen
    <3>1. Good([cb EXCEPT !.cert_seen = TRUE])
      BY <1>1, GoodCertSeenField
    <3>2. cb \in Adapters
      BY <1>1 DEF Good
    <3>3. QED
      BY <1>1, <1>2, <2>1, <3>1, <3>2 DEF Adapters
  <2>2. CASE ~seen
    BY <2>2
  <2>3. QED
    BY <2>1, <2>2
<1> DEFINE rejected == seen /\ ~CallbackAccepts(s)
           complete == o.res = "NONE" /\ (s.cert_seen \/ seen \/ remote = NoCert)
           noPeerCert == complete /\ remote = NoCert /\ s.role = "SERVER"
                         /\ FailIfNoPeerCert(s)
           res == IF s.ssl = "failed" THEN "ERROR"
                  ELSE IF s.ssl = "done" THEN "NONE"
                  ELSE IF rejected \/ noPeerCert THEN "ERROR"
                  ELSE IF o.res = "NONE" /\ ~complete THEN "WANT_READ"
                  ELSE o.res
           x == CASE res = "ERROR" -> "failed"
                  [] res = "NONE"  -> "done"
                  [] OTHER         -> "hs"
<1>4. EngineStep(s, o) = [s |-> [s1 EXCEPT !.ssl = x], res |-> res]
  BY DEF EngineStep
<1>5. x \in SslStates
  BY DEF SslStates
<1>6. Good([s1 EXCEPT !.ssl = x])
  BY <1>3, <1>5, GoodSslField
<1>7. s1 \in Adapters
  BY <1>3 DEF Good
<1>8. QED
  BY <1>0, <1>3, <1>4, <1>6, <1>7, EngineStepType DEF Adapters

(* continue_SSL, called while negotiating, preserves Good and leaves    *)
(* the adapter negotiating or connected: it signals SE_OPEN only once    *)
(* the handshake completed and no peer certificate is awaited.           *)
LEMMA GoodContinueSSL ==
    ASSUME NEW s, Good(s), s.state = "CONNECTING", NEW o \in Outcomes,
           remote \in Certs \cup {NoCert}
    PROVE  /\ Good(ContinueSSL(s, o).s)
           /\ ContinueSSL(s, o).s.state \in {"CONNECTING", "CONNECTED"}
           /\ ContinueSSL(s, o).err \in BOOLEAN
<1> DEFINE s0 == [s EXCEPT !.timer = IF @ = "armed" THEN "stopped" ELSE @]
           e == EngineStep(s0, o)
           t == e.s
           c == [t EXCEPT !.state = "CONNECTED"]
           done == IF WaitingToVerify(c) THEN c ELSE Emit(c, "open")
           armed == IF t.mode = "DTLS" /\ o.delay
                      THEN [t EXCEPT !.timer = "armed"] ELSE t
<1>0. ContinueSSL(s, o) =
        CASE e.res = "NONE"       -> [s |-> done, err |-> FALSE]
          [] e.res = "WANT_READ"  -> [s |-> armed, err |-> FALSE]
          [] e.res = "WANT_WRITE" -> [s |-> t, err |-> FALSE]
          [] e.res = "ERROR"      -> [s |-> Emit(t, "hs_error"), err |-> TRUE]
  BY DEF ContinueSSL
<1>1. Good(s0) /\ s0.state = "CONNECTING" /\ s0.timer # "armed"
  BY DEF Good, Adapters, TimerStates
<1> HIDE DEF s0
<1>2. /\ Good(t) /\ t.state = "CONNECTING" /\ t.timer # "armed"
      /\ t.sig.open = 0 /\ e.res \in Results
  <2>1. /\ Good(t) /\ t.state = s0.state /\ t.timer = s0.timer
        /\ t.sig = s0.sig /\ e.res \in Results
    BY <1>1, GoodEngineStep
  <2>2. s0.sig.open = 0
    BY <1>1 DEF Good
  <2>3. QED
    BY <1>1, <2>1, <2>2
<1> HIDE DEF e
<1>3. Good(c) /\ c.state = "CONNECTED"
  <2>1. t \in Adapters
    BY <1>2 DEF Good
  <2>2. c \in Adapters /\ c.state = "CONNECTED"
    BY <2>1 DEF Adapters, States
  <2>3. QED
    BY <1>2, <2>1, <2>2 DEF Good, Terminal
<1> HIDE DEF c
<1>4. Good(done) /\ done.state = "CONNECTED"
  <2>1. CASE WaitingToVerify(c)
    BY <1>3, <2>1
  <2>2. CASE ~WaitingToVerify(c)
    <3>1. Good(EmitAll(c, {"open"})) /\ EmitAll(c, {"open"}).state = "CONNECTED"
      BY <1>3, <2>2, GoodEmitAll DEF SignalKinds
    <3>2. QED
      BY <2>2, <3>1 DEF Emit
  <2>3. QED
    BY <2>1, <2>2
<1>5. Good(armed) /\ armed.state = "CONNECTING"
  <2>1. Good([t EXCEPT !.timer = "armed"])
        /\ [t EXCEPT !.timer = "armed"].state = "CONNECTING"
    BY <1>2 DEF Good, Adapters, TimerStates
  <2>2. QED
    BY <1>2, <2>1
<1>6. Good(Emit(t, "hs_error")) /\ Emit(t, "hs_error").state = "CONNECTING"
  <2>1. Good(EmitAll(t, {"hs_error"})) /\ EmitAll(t, {"hs_error"}).state = t.state
    BY <1>2, GoodEmitAll DEF SignalKinds
  <2>2. QED
    BY <1>2, <2>1 DEF Emit
<1> HIDE DEF done, armed, t
<1>7. CASE e.res = "NONE"
  <2>1. ContinueSSL(s, o) = [s |-> done, err |-> FALSE]
    BY <1>0, <1>7
  <2>2. QED
    BY <1>4, <2>1
<1>8. CASE e.res = "WANT_READ"
  <2>1. ContinueSSL(s, o) = [s |-> armed, err |-> FALSE]
    BY <1>0, <1>8
  <2>2. QED
    BY <1>5, <2>1
<1>9. CASE e.res = "WANT_WRITE"
  <2>1. ContinueSSL(s, o) = [s |-> t, err |-> FALSE]
    BY <1>0, <1>9
  <2>2. QED
    BY <1>2, <2>1
<1>10. CASE e.res = "ERROR"
  <2>1. ContinueSSL(s, o) = [s |-> Emit(t, "hs_error"), err |-> TRUE]
    BY <1>0, <1>10
  <2>2. QED
    BY <1>6, <2>1
<1>11. QED
  BY <1>2, <1>7, <1>8, <1>9, <1>10 DEF Results

(* begin_SSL, called while negotiating, preserves Good and leaves the   *)
(* adapter negotiating or connected.                                    *)
LEMMA GoodBeginSSL ==
    ASSUME NEW s, Good(s), s.state = "CONNECTING", NEW ok \in BOOLEAN,
           NEW o \in Outcomes, remote \in Certs \cup {NoCert}
    PROVE  /\ Good(BeginSSL(s, ok, o).s)
           /\ BeginSSL(s, ok, o).s.state \in {"CONNECTING", "CONNECTED"}
           /\ BeginSSL(s, ok, o).err \in BOOLEAN
<1> DEFINE h1 == [s EXCEPT !.ssl = "hs"]
           h == [s EXCEPT !.ssl = "hs", !.cert_seen = FALSE]
<1>1. Good(h) /\ h.state = "CONNECTING"
  <2>0. "hs" \in SslStates
    BY DEF SslStates
  <2>1. Good(h1)
    BY <2>0, GoodSslField
  <2>1a. h1.state = "CONNECTING"
    BY GoodTyped DEF Adapters
  <2>2. h = [h1 EXCEPT !.cert_seen = FALSE]
    OBVIOUS
  <2> HIDE DEF h1
  <2>3. Good([h1 EXCEPT !.cert_seen = FALSE])
    BY <2>1, GoodCertSeenField, Zenon
  <2>3a. h1 \in Adapters
    BY <2>1, GoodTyped
  <2>4. [h1 EXCEPT !.cert_seen = FALSE].state = "CONNECTING"
    BY <2>3a, <2>1a DEF Adapters
  <2>5. QED
    BY <2>2, <2>3, <2>4
<1>2. BeginSSL(s, ok, o) = IF ~ok THEN [s |-> s, err |-> TRUE]
                           ELSE ContinueSSL(h, o)
  BY DEF BeginSSL
<1> HIDE DEF h
<1>3. Good(ContinueSSL(h, o).s)
      /\ ContinueSSL(h, o).s.state \in {"CONNECTING", "CONNECTED"}
      /\ ContinueSSL(h, o).err \in BOOLEAN
  BY <1>1, GoodContinueSSL
<1>4. CASE ok
  BY <1>2, <1>3, <1>4
<1>5. CASE ~ok
  BY <1>2, <1>5
<1>6. QED
  BY <1>4, <1>5

(* on_event preserves Good when SE_OPEN arrives only before negotiation *)
(* started or after it ended; with SE_CLOSE it always ends terminal.    *)
LEMMA GoodOnEvent ==
    ASSUME NEW s, Good(s), NEW ev \in SUBSET {"OPEN", "IO", "CLOSE"},
           NEW ok \in BOOLEAN, NEW o1 \in Outcomes, NEW o2 \in Outcomes,
           remote \in Certs \cup {NoCert},
           "OPEN" \in ev => s.state \notin {"CONNECTING", "CONNECTED"}
    PROVE  /\ Good(OnEvent(s, ev, ok, o1, o2))
           /\ "CLOSE" \in ev => OnEvent(s, ev, ok, o1, o2).state \in Terminal
<1> DEFINE sC == [s EXCEPT !.state = "CONNECTING"]
           beginNow == "OPEN" \in ev /\ s.state = "WAIT"
           b == BeginSSL(sC, ok, o1)
           fwdOpen == IF "OPEN" \in ev /\ s.state \notin {"WAIT", "NONE"}
                      THEN {"open"} ELSE {}
           s1 == IF beginNow THEN b.s ELSE s
           contNow == "IO" \in ev /\ s1.state = "CONNECTING"
           c == ContinueSSL(s1, o2)
           s2 == IF contNow THEN c.s ELSE s1
           s3 == IF "CLOSE" \in ev THEN Cleanup(s2) ELSE s2
           K == fwdOpen \cup (IF "CLOSE" \in ev THEN {"close"} ELSE {})
<1>0. /\ s \in Adapters
      /\ OnEvent(s, ev, ok, o1, o2) =
           IF beginNow /\ b.err THEN ErrorInfo(b.s, TRUE)
           ELSE IF contNow /\ c.err THEN ErrorInfo(c.s, TRUE)
           ELSE EmitAll(s3, K)
  BY DEF Good, OnEvent
<1>1. beginNow => /\ Good(b.s) /\ b.err \in BOOLEAN
                  /\ b.s.state \in {"CONNECTING", "CONNECTED"}
  <2>1. beginNow => Good(sC) /\ sC.state = "CONNECTING"
    BY DEF Good, Adapters, States, Terminal
  <2> HIDE DEF sC
  <2>2. QED
    BY <2>1, GoodBeginSSL
<1> HIDE DEF sC, b
<1>2. Good(s1)
  BY <1>1
<1>3. contNow => Good(c.s) /\ c.err \in BOOLEAN
  BY <1>2, GoodContinueSSL
<1> HIDE DEF c
<1>4. Good(s2) /\ s2 \in Adapters
  BY <1>2, <1>3 DEF Good
<1>5. Good(s3) /\ ("CLOSE" \in ev => s3.state \in Terminal)
  BY <1>4, GoodCleanup
<1>6. "open" \in K => s3.state \in Terminal
  <2>1. "open" \in K => s.state \in Terminal /\ s1 = s /\ s2 = s
    BY <1>0 DEF Adapters, States, Terminal
  <2>2. s.state \in Terminal => Cleanup(s).state \in Terminal
    BY <1>0, GoodCleanup
  <2>3. QED
    BY <2>1, <2>2
<1>7. K \in SUBSET SignalKinds
  BY DEF SignalKinds
<1> HIDE DEF s3, K
<1>8. Good(EmitAll(s3, K)) /\ EmitAll(s3, K).state = s3.state
  <2>1. "open" \in K => \/ s3.state \in Terminal
                        \/ s3.state = "CONNECTED" /\ ~WaitingToVerify(s3)
    BY <1>6
  <2>2. QED
    BY <1>5, <1>7, <2>1, GoodEmitAll
<1>9. beginNow /\ b.err => /\ Good(ErrorInfo(b.s, TRUE))
                           /\ ErrorInfo(b.s, TRUE).state \in Terminal
  <2>1. beginNow => b.s \in Adapters
    BY <1>1, GoodTyped
  <2>2. QED
    BY <2>1, GoodErrorInfo, Zenon
<1>10. contNow /\ c.err => /\ Good(ErrorInfo(c.s, TRUE))
                           /\ ErrorInfo(c.s, TRUE).state \in Terminal
  <2>1. contNow => c.s \in Adapters
    BY <1>3, GoodTyped
  <2>2. QED
    BY <2>1, GoodErrorInfo, Zenon
<1> HIDE DEF beginNow, contNow
<1>11. CASE beginNow /\ b.err
  <2>1. OnEvent(s, ev, ok, o1, o2) = ErrorInfo(b.s, TRUE)
    BY <1>0, <1>11, Zenon
  <2>2. QED
    BY <1>9, <1>11, <2>1, Zenon
<1>12. CASE ~(beginNow /\ b.err) /\ contNow /\ c.err
  <2>1. OnEvent(s, ev, ok, o1, o2) = ErrorInfo(c.s, TRUE)
    BY <1>0, <1>12, Zenon
  <2>2. QED
    BY <1>10, <1>12, <2>1, Zenon
<1>13. CASE ~(beginNow /\ b.err) /\ ~(contNow /\ c.err)
  <2>1. OnEvent(s, ev, ok, o1, o2) = EmitAll(s3, K)
    BY <1>0, <1>13, Zenon
  <2>2. QED
    BY <1>5, <1>8, <2>1
<1>14. QED
  BY <1>11, <1>12, <1>13

(* set_peer_certificate_digest preserves Good: a digest that replaces  *)
(* the one a verified session was checked against is either verified   *)
(* again against the held certificate or ends the session.             *)
LEMMA GoodSetDigest ==
    ASSUME NEW s, Good(s), NEW in \in DigestInputs,
           remote \in Certs \cup {NoCert}
    PROVE  /\ Good(SetDigest(s, in))
           /\ SetDigest(s, in).state \in {s.state} \cup Terminal
<1>0. s \in Adapters
  BY DEF Good
<1>1. CASE in.alg \in KnownAlgs /\ in.len = DigestSize[in.alg]
  <2> DEFINE t == [s EXCEPT !.peer_digest = [alg |-> in.alg, val |-> in.val]]
  <2>1. t \in Adapters
    BY <1>0, <1>1 DEF Adapters, Digests, DigestInputs
  <2>2. CASE t.peer_certificate = NoCert
    <3>1. ~(s.verified /\ s.state \notin Terminal)
      BY <2>2, CertsAssumption DEF Good, Adapters, Digests
    <3>2. QED
      BY <1>1, <2>1, <2>2, <3>1 DEF SetDigest, Good
  <2>3. CASE t.peer_certificate # NoCert /\ VerifyOk(t)
    <3>1. Good(t)
      BY <2>1, <2>3 DEF Good, VerifyOk, HasDigest
    <3>2. SetDigest(s, in) = VerifyPeerCertificate(t)
      BY <1>1, <2>3 DEF SetDigest
    <3>3. t.state = s.state
      BY <1>0 DEF Adapters
    <3>4. Good(VerifyPeerCertificate(t))
          /\ VerifyPeerCertificate(t).state = t.state
      BY <3>1, GoodVerify, Zenon
    <3>5. QED
      BY <3>2, <3>3, <3>4
  <2>4. CASE t.peer_certificate # NoCert /\ ~VerifyOk(t)
    BY <1>1, <2>1, <2>4, GoodErrorInfo DEF SetDigest
  <2>5. QED
    BY <2>2, <2>3, <2>4
<1>2. CASE ~(in.alg \in KnownAlgs /\ in.len = DigestSize[in.alg])
  BY <1>2 DEF SetDigest
<1>3. QED
  BY <1>1, <1>2

-----------------------------------------------------------------------------
(* Type correctness: every member of the adapter, the wrapped stream's  *)
(* state and the remote certificate keep their types through every      *)
(* handler (start_SSL, on_event, the timer callback and                 *)
(* set_peer_certificate_digest).                                        *)
LEMMA TypeInit == Init => TypeOK
BY MaxSignalAssumption
   DEF Init, TypeOK, Adapters, States, Roles, Modes, TimerStates, SslStates,
       SignalKinds, ExportResults

LEMMA TypeStep == TypeOK /\ [Next]_vars => TypeOK'
<1> SUFFICES ASSUME TypeOK, [Next]_vars PROVE TypeOK'
  OBVIOUS
<1>0. adapter \in Adapters /\ stream \in StreamStates /\ remote \in Certs \cup {NoCert}
  BY DEF TypeOK
<1>1. CASE StartSSL
  <2>1. [adapter EXCEPT !.state = "WAIT"] \in Adapters
        /\ [adapter EXCEPT !.state = "CONNECTING"] \in Adapters
    BY <1>0 DEF Adapters, States
  <2>2. \A ok \in BOOLEAN, o \in Outcomes :
          LET r == BeginSSL([adapter EXCEPT !.state = "CONNECTING"], ok, o)
          IN  (IF r.err THEN ErrorInfo(r.s, FALSE) ELSE r.s) \in Adapters
    BY <1>0, <2>1, BeginSSLType, ErrorInfoType
  <2>3. QED
    BY <1>0, <1>1, <2>1, <2>2 DEF StartSSL, TypeOK
<1>2. CASE StreamOpens
  BY <1>0, <1>2, OnEventType DEF StreamOpens, TypeOK, StreamStates
<1>3. CASE StreamIO
  BY <1>0, <1>3, OnEventType DEF StreamIO, TypeOK
<1>4. CASE StreamCloses
  <2>1. PICK ev \in {{"CLOSE"}, {"IO", "CLOSE"}}, o \in Outcomes :
               adapter' = OnEvent(adapter, ev, TRUE, o, o)
    BY <1>4 DEF StreamCloses
  <2>2. ev \in SUBSET {"OPEN", "IO", "CLOSE"}
    OBVIOUS
  <2>3. adapter' \in Adapters
    BY <1>0, <2>1, <2>2, OnEventType, Zenon
  <2>4. QED
    BY <1>0, <1>4, <2>3 DEF StreamCloses, TypeOK, StreamStates
<1>5. CASE TimerFires
  <2>1. [adapter EXCEPT !.timer = "stopped"] \in Adapters
    BY <1>0 DEF Adapters, TimerStates
  <2>2. QED
    BY <1>0, <1>5, <2>1, ContinueSSLType DEF TimerFires, TypeOK
<1>6. CASE SetPeerCertificateDigest
  BY <1>0, <1>6, SetDigestType DEF SetPeerCertificateDigest, TypeOK
<1>7. CASE UNCHANGED vars
  BY <1>0, <1>7 DEF vars, TypeOK
<1>8. CASE ExportKeyingMaterial
  BY <1>0, <1>8 DEF ExportKeyingMaterial, ExportOutcomes, ExportResults, TypeOK
<1>9. QED
  BY <1>1, <1>2, <1>3, <1>4, <1>5, <1>6, <1>7, <1>8 DEF Next

(* The type invariant of the handshake model holds in every state. *)
THEOREM TypeCorrect == Spec => []TypeOK
BY TypeInit, TypeStep, PTL DEF Spec


-----------------------------------------------------------------------------
(* TrustInvariant is TypeOK, Good of the adapter, and the stream fact.  *)
LEMMA TrustFromGood ==
    ASSUME TypeOK, Good(adapter),
           adapter.state \in {"CONNECTING", "CONNECTED"} => stream = "OPEN"
    PROVE  TrustInvariant
BY DEF TrustInvariant, Good, TrustedPeerOnOpen, Terminal

LEMMA TrustInit == Init => TrustInvariant
<1> SUFFICES ASSUME Init PROVE TrustInvariant
  OBVIOUS
<1>1. TypeOK
  BY TypeInit
<1>2. /\ adapter.state = "NONE" /\ adapter.verified = FALSE
      /\ adapter.peer_certificate = NoCert /\ adapter.timer = "stopped"
      /\ adapter.sig.open = 0
  BY DEF Init, SignalKinds
<1>5. Good(adapter)
  BY <1>1, <1>2 DEF Good, TypeOK
<1>4. QED
  BY <1>1, <1>2, <1>5, TrustFromGood

LEMMA TrustStep == TrustInvariant /\ [Next]_vars => TrustInvariant'
<1> SUFFICES ASSUME TrustInvariant, [Next]_vars PROVE TrustInvariant'
  OBVIOUS
<1> DEFINE Live(st) == st \in {"CONNECTING", "CONNECTED"}
<1>0. /\ TypeOK /\ Good(adapter) /\ (Live(adapter.state) => stream = "OPEN")
      /\ remote \in Certs \cup {NoCert}
  BY DEF TrustInvariant, Good, TypeOK, TrustedPeerOnOpen
<1>1. TypeOK'
  BY <1>0, TypeStep
(* It suffices to show Good of the new object and the stream fact. *)
<1>2. SUFFICES /\ Good(adapter') /\ remote' = remote
               /\ Live(adapter'.state) => stream' = "OPEN"
  BY <1>1 DEF TrustInvariant, Good, TrustedPeerOnOpen, Terminal, TypeOK
<1>3. CASE StartSSL
  <2>0. adapter.state = "NONE" /\ remote' = remote /\ stream' = stream
    BY <1>3 DEF StartSSL
  <2>1. adapter.timer # "armed" /\ adapter.sig.open = 0
    BY <1>0, <2>0 DEF Good
  <2>2. CASE stream # "OPEN"
    <3>1. adapter' = [adapter EXCEPT !.state = "WAIT"]
      BY <1>3, <2>2 DEF StartSSL
    <3>2. /\ Good([adapter EXCEPT !.state = "WAIT"])
          /\ [adapter EXCEPT !.state = "WAIT"].state = "WAIT"
      BY <1>0, <2>0, <2>1 DEF Good, Adapters, States, Terminal
    <3>3. QED
      BY <2>0, <3>1, <3>2
  <2>3. CASE stream = "OPEN"
    <3> DEFINE a0 == [adapter EXCEPT !.state = "CONNECTING"]
    <3>1. Good(a0) /\ a0.state = "CONNECTING"
      BY <1>0, <2>0, <2>1 DEF Good, Adapters, States, Terminal
    <3>2. PICK ok \in BOOLEAN, o \in Outcomes :
            adapter' = IF BeginSSL(a0, ok, o).err
                         THEN ErrorInfo(BeginSSL(a0, ok, o).s, FALSE)
                         ELSE BeginSSL(a0, ok, o).s
      BY <1>3, <2>3 DEF StartSSL
    <3> DEFINE r == BeginSSL(a0, ok, o)
    <3> HIDE DEF a0
    <3>3. Good(r.s) /\ r.s.state \in {"CONNECTING", "CONNECTED"}
      BY <1>0, <3>1, GoodBeginSSL, Zenon
    <3>4. r.s \in Adapters
      BY <3>3 DEF Good
    <3> HIDE DEF r
    <3>5. CASE r.err
      <4>1. Good(ErrorInfo(r.s, FALSE)) /\ ErrorInfo(r.s, FALSE).state \in Terminal
        BY <3>4, GoodErrorInfo, Zenon
      <4>2. QED
        BY <2>0, <3>2, <3>5, <4>1 DEF Terminal, r
    <3>6. CASE ~r.err
      BY <2>0, <2>3, <3>2, <3>3, <3>6 DEF r
    <3>7. QED
      BY <3>5, <3>6
  <2>4. QED
    BY <2>2, <2>3
<1>4. CASE StreamOpens
  <2>1. adapter.state \notin {"CONNECTING", "CONNECTED"}
    BY <1>0, <1>4 DEF StreamOpens
  <2>2. \A ev \in {{"OPEN"}, {"OPEN", "IO"}}, ok \in BOOLEAN, o1, o2 \in Outcomes :
          Good(OnEvent(adapter, ev, ok, o1, o2))
    BY <1>0, <2>1, GoodOnEvent
  <2>3. QED
    BY <1>4, <2>2 DEF StreamOpens
<1>5. CASE StreamIO
  <2>1. \A o \in Outcomes : Good(OnEvent(adapter, {"IO"}, TRUE, o, o))
    BY <1>0, GoodOnEvent
  <2>2. QED
    BY <1>5, <2>1 DEF StreamIO
<1>6. CASE StreamCloses
  <2>1. \A ev \in {{"CLOSE"}, {"IO", "CLOSE"}}, o \in Outcomes :
          /\ Good(OnEvent(adapter, ev, TRUE, o, o))
          /\ OnEvent(adapter, ev, TRUE, o, o).state \in Terminal
    BY <1>0, GoodOnEvent
  <2>2. QED
    BY <1>6, <2>1 DEF StreamCloses, Terminal
<1>7. CASE TimerFires
  <2>1. adapter.state = "CONNECTING" /\ stream = "OPEN"
    BY <1>0, <1>7 DEF TimerFires, Good
  <2>2. Good([adapter EXCEPT !.timer = "stopped"])
        /\ [adapter EXCEPT !.timer = "stopped"].state = "CONNECTING"
    BY <1>0, <2>1 DEF Good, Adapters, TimerStates
  <2>3. \A o \in Outcomes :
          Good(ContinueSSL([adapter EXCEPT !.timer = "stopped"], o).s)
    BY <1>0, <2>2, GoodContinueSSL
  <2>4. QED
    BY <1>7, <2>1, <2>3 DEF TimerFires
<1>8. CASE SetPeerCertificateDigest
  <2>1. \A in \in DigestInputs :
          /\ Good(SetDigest(adapter, in))
          /\ SetDigest(adapter, in).state \in {adapter.state} \cup Terminal
    BY <1>0, GoodSetDigest
  <2>2. QED
    BY <1>0, <1>8, <2>1 DEF SetPeerCertificateDigest, Terminal
<1>9. CASE UNCHANGED vars
  BY <1>0, <1>9 DEF vars
<1>10. CASE ExportKeyingMaterial
  BY <1>0, <1>10 DEF ExportKeyingMaterial
<1>11. QED
  BY <1>3, <1>4, <1>5, <1>6, <1>7, <1>8, <1>9, <1>10 DEF Next

(* The inductive strengthening holds in every state. *)
THEOREM TrustInvariantHolds == Spec => []TrustInvariant
BY TrustInit, TrustStep, PTL DEF Spec

(* Fingerprint trust: with client authentication on, whenever the       *)
(* adapter is connected and has signalled SE_OPEN, the peer certificate  *)
(* was verified by SSL_verify_callback or set_peer_certificate_digest    *)
(* against a digest of exactly the certificate the remote presents.      *)
THEOREM TrustedPeerOnOpenHolds == Spec => []TrustedPeerOnOpen
<1>1. TrustInvariant => TrustedPeerOnOpen
  BY DEF TrustInvariant
<1>2. QED
  BY TrustInvariantHolds, <1>1, PTL

=============================================================================
