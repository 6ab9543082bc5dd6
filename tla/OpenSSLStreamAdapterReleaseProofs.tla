------------------- MODULE OpenSSLStreamAdapterReleaseProofs -------------------
(***************************************************************************)
(* Proofs, for every value of the constants, of the resource and          *)
(* signalling properties of OpenSSLStreamAdapter: ScopedRelease,          *)
(* SecureOpenOnce, MutualAuthEnforced and the action property             *)
(* TerminalStable, through the inductive invariant ReleaseInvariant.      *)
(*                                                                         *)
(* As in OpenSSLStreamAdapterProofs, each member-function operator gets a *)
(* lemma stating what it does to Released; the step proof combines them   *)
(* with the Good lemmas proved there.                                     *)
(***************************************************************************)
EXTENDS OpenSSLStreamAdapterProofs

-----------------------------------------------------------------------------
(* Raising signals keeps Released and the state, provided SE_OPEN is     *)
(* raised only while none was raised before.                             *)
LEMMA RelEmitAll ==
    ASSUME NEW s \in Adapters, Released(s), NEW K \in SUBSET SignalKinds,
           "open" \in K => s.sig.open = 0
    PROVE  /\ Released(EmitAll(s, K))
           /\ EmitAll(s, K).state = s.state
<1> DEFINE e == EmitAll(s, K)
<1>1. /\ e.state = s.state /\ e.timer = s.timer /\ e.ssl = s.ssl
      /\ e.peer_certificate = s.peer_certificate
      /\ e.role = s.role /\ e.client_auth = s.client_auth
      /\ e.sig.open = IF "open" \in K THEN Bump(s.sig.open) ELSE s.sig.open
  BY DEF EmitAll, Adapters, SignalKinds
<1>2. e.sig.open <= 1
  <2>1. CASE "open" \in K
    BY <1>1, <2>1, MaxSignalAssumption DEF Bump
  <2>2. CASE "open" \notin K
    BY <1>1, <2>2 DEF Released
  <2>3. QED
    BY <2>1, <2>2
<1>3. QED
  BY <1>1, <1>2 DEF Released

(* After cleanup Released holds and a terminal state is kept, whatever  *)
(* else the object held.                                                 *)
LEMMA RelCleanup ==
    ASSUME NEW s \in Adapters, s.sig.open <= 1
    PROVE  /\ Released(Cleanup(s))
           /\ s.state \in Terminal => Cleanup(s).state = s.state
BY DEF Released, Cleanup, Terminal, Adapters, States

(* The same for error_info. *)
LEMMA RelErrorInfo ==
    ASSUME NEW s \in Adapters, s.sig.open <= 1, NEW signal \in BOOLEAN
    PROVE  Released(ErrorInfo(s, signal))
<1> DEFINE c == Cleanup([s EXCEPT !.state = "ERROR"])
<1>1. [s EXCEPT !.state = "ERROR"] \in Adapters
      /\ [s EXCEPT !.state = "ERROR"].sig.open <= 1
  BY DEF Adapters, States
<1>2. Released(c) /\ c \in Adapters /\ c.sig.open <= 1
  BY <1>1, RelCleanup, CleanupType DEF Released
<1>3. Released(Emit(c, "close"))
  BY <1>2, RelEmitAll DEF Emit, SignalKinds
<1>4. QED
  BY <1>2, <1>3 DEF ErrorInfo

(* One engine call on an engine that has not completed: the handshake   *)
(* completes exactly when the result is SSL_ERROR_NONE, and never for a  *)
(* client-auth server whose peer presented no certificate               *)
(* (SSL_VERIFY_FAIL_IF_NO_PEER_CERT).                                   *)
LEMMA RelEngineStep ==
    ASSUME NEW s \in Adapters, NEW o \in Outcomes,
           remote \in Certs \cup {NoCert}, s.ssl # "done"
    PROVE  LET e == EngineStep(s, o)
           IN  /\ e.s.role = s.role /\ e.s.client_auth = s.client_auth
               /\ e.s.state = s.state /\ e.s.timer = s.timer
               /\ e.s.sig = s.sig
               /\ e.s.peer_certificate \in {s.peer_certificate, remote}
               /\ e.s.ssl = "done" <=> e.res = "NONE"
               /\ e.res = "NONE" =>
                     ~(s.role = "SERVER" /\ s.client_auth /\ remote = NoCert)
<1> DEFINE seen == o.cert /\ s.ssl = "hs" /\ ~s.cert_seen /\ remote # NoCert
           s1 == IF seen THEN [CallbackState(s) EXCEPT !.cert_seen = TRUE] ELSE s
           rejected == seen /\ ~CallbackAccepts(s)
           complete == o.res = "NONE" /\ (s.cert_seen \/ seen \/ remote = NoCert)
           noPeerCert == complete /\ remote = NoCert /\ s.role = "SERVER"
                         /\ FailIfNoPeerCert(s)
           res == IF s.ssl = "failed" THEN "ERROR"
                  ELSE IF s.ssl = "done" THEN "NONE"
                  ELSE IF rejected \/ noPeerCert THEN "ERROR"
                  ELSE IF o.res = "NONE" /\ ~complete THEN "WANT_READ"
                  ELSE o.res
           x == CASE res = "ERROR" -> "failed"
                  [] res = "NONE"  -> "done"
                  [] OTHER         -> "hs"
<1>1. EngineStep(s, o) = [s |-> [s1 EXCEPT !.ssl = x], res |-> res]
  BY DEF EngineStep
<1>2. CallbackState(s) \in Adapters
      /\ CallbackState(s).role = s.role
      /\ CallbackState(s).client_auth = s.client_auth
      /\ CallbackState(s).state = s.state /\ CallbackState(s).timer = s.timer
      /\ CallbackState(s).sig = s.sig
      /\ CallbackState(s).peer_certificate \in {s.peer_certificate, remote}
  BY DEF CallbackState, VerifyPeerCertificate, Adapters
<1>3. /\ s1 \in Adapters
      /\ s1.role = s.role /\ s1.client_auth = s.client_auth
      /\ s1.state = s.state /\ s1.timer = s.timer /\ s1.sig = s.sig
      /\ s1.peer_certificate \in {s.peer_certificate, remote}
  BY <1>2 DEF Adapters
<1>4. res = "NONE" => ~(s.role = "SERVER" /\ s.client_auth /\ remote = NoCert)
  BY DEF FailIfNoPeerCert
<1>5. res \in Results
  BY DEF Results, Outcomes
<1>6. x = "done" <=> res = "NONE"
  BY <1>5 DEF Results
<1> HIDE DEF s1, res, x
<1>7. QED
  BY <1>1, <1>3, <1>4, <1>6 DEF Adapters

(* continue_SSL while negotiating keeps Released: the stopped timer is  *)
(* never the deleted one, SE_OPEN is raised only from zero, and the     *)
(* engine completes (SSL_CONNECTED) only when the mutual-authentication *)
(* check passed.                                                         *)
LEMMA RelContinueSSL ==
    ASSUME NEW s, Good(s), Released(s), s.state = "CONNECTING",
           NEW o \in Outcomes, remote \in Certs \cup {NoCert}
    PROVE  Released(ContinueSSL(s, o).s)
<1> DEFINE s0 == [s EXCEPT !.timer = IF @ = "armed" THEN "stopped" ELSE @]
           e == EngineStep(s0, o)
           t == e.s
           c == [t EXCEPT !.state = "CONNECTED"]
           done == IF WaitingToVerify(c) THEN c ELSE Emit(c, "open")
           armed == IF t.mode = "DTLS" /\ o.delay
                      THEN [t EXCEPT !.timer = "armed"] ELSE t
<1>0. ContinueSSL(s, o) =
        CASE e.res = "NONE"       -> [s |-> done, err |-> FALSE]
          [] e.res = "WANT_READ"  -> [s |-> armed, err |-> FALSE]
          [] e.res = "WANT_WRITE" -> [s |-> t, err |-> FALSE]
          [] e.res = "ERROR"      -> [s |-> Emit(t, "hs_error"), err |-> TRUE]
  BY DEF ContinueSSL
<1>1. /\ s0 \in Adapters /\ s0.state = "CONNECTING" /\ s0.timer # "deleted"
      /\ s0.ssl # "done" /\ s0.sig.open = 0
      /\ s0.role = s.role /\ s0.client_auth = s.client_auth
  BY GoodTyped DEF Good, Released, Adapters, TimerStates, Terminal
<1> HIDE DEF s0
<1>2. /\ t \in Adapters /\ e.res \in Results
      /\ t.state = "CONNECTING" /\ t.timer # "deleted" /\ t.sig.open = 0
      /\ t.role = s.role /\ t.client_auth = s.client_auth
      /\ t.ssl = "done" <=> e.res = "NONE"
      /\ e.res = "NONE" =>
            ~(s.role = "SERVER" /\ s.client_auth /\ remote = NoCert)
  BY <1>1, RelEngineStep, EngineStepType
<1> HIDE DEF e, t
<1>3. e.res # "NONE" => Released(t)
  BY <1>2 DEF Released, Terminal
<1>4. CASE e.res = "NONE"
  <2>1. /\ c \in Adapters /\ Released(c) /\ c.sig.open = 0
    BY <1>2, <1>4 DEF Adapters, States, Released, Terminal
  <2>2. Released(Emit(c, "open"))
    BY <2>1, RelEmitAll DEF Emit, SignalKinds
  <2>3. QED
    BY <1>0, <1>4, <2>1, <2>2
<1>5. CASE e.res = "WANT_READ"
  <2>1. Released([t EXCEPT !.timer = "armed"])
    BY <1>2, <1>3, <1>5 DEF Adapters, Released
  <2>2. QED
    BY <1>0, <1>3, <1>5, <2>1
<1>6. CASE e.res = "WANT_WRITE"
  BY <1>0, <1>3, <1>6
<1>7. CASE e.res = "ERROR"
  <2>1. Released(Emit(t, "hs_error"))
    BY <1>2, <1>3, <1>7, RelEmitAll DEF Emit, SignalKinds
  <2>2. QED
    BY <1>0, <1>7, <2>1
<1>8. QED
  BY <1>2, <1>4, <1>5, <1>6, <1>7 DEF Results

(* begin_SSL on an object just moved to SSL_CONNECTING keeps Released. *)
LEMMA RelBeginSSL ==
    ASSUME NEW s, Good(s), Released(s), s.state = "CONNECTING",
           NEW ok \in BOOLEAN, NEW o \in Outcomes,
           remote \in Certs \cup {NoCert}
    PROVE  Released(BeginSSL(s, ok, o).s)
<1> DEFINE h1 == [s EXCEPT !.ssl = "hs"]
           h == [h1 EXCEPT !.cert_seen = FALSE]
<1>1. Good(h)
  <2>1. Good(h1)
    BY GoodSslField DEF SslStates
  <2> HIDE DEF h1
  <2>2. QED
    BY <2>1, GoodCertSeenField, Zenon
<1>2. Released(h) /\ h.state = "CONNECTING"
  BY GoodTyped DEF Released, Adapters, Terminal
<1>3. BeginSSL(s, ok, o) = IF ~ok THEN [s |-> s, err |-> TRUE]
                           ELSE ContinueSSL(h, o)
  BY DEF BeginSSL
<1> HIDE DEF h
<1>4. Released(ContinueSSL(h, o).s)
  BY <1>1, <1>2, RelContinueSSL
<1>5. QED
  BY <1>3, <1>4

(* on_event keeps Released when SE_OPEN arrives only before the          *)
(* handshake began (so it is never forwarded as a second SE_OPEN), and   *)
(* it never moves a terminal adapter: neither begin_SSL nor continue_SSL *)
(* runs there, and cleanup keeps SSL_ERROR and SSL_CLOSED.              *)
LEMMA RelOnEvent ==
    ASSUME NEW s, Good(s), Released(s), NEW ev \in SUBSET {"OPEN", "IO", "CLOSE"},
           NEW ok \in BOOLEAN, NEW o1 \in Outcomes, NEW o2 \in Outcomes,
           remote \in Certs \cup {NoCert},
           "OPEN" \in ev => s.state \in {"NONE", "WAIT"}
    PROVE  /\ Released(OnEvent(s, ev, ok, o1, o2))
           /\ s.state \in Terminal => OnEvent(s, ev, ok, o1, o2).state = s.state
<1> DEFINE sC == [s EXCEPT !.state = "CONNECTING"]
           beginNow == "OPEN" \in ev /\ s.state = "WAIT"
           b == BeginSSL(sC, ok, o1)
           fwdOpen == IF "OPEN" \in ev /\ s.state \notin {"WAIT", "NONE"}
                      THEN {"open"} ELSE {}
           s1 == IF beginNow THEN b.s ELSE s
           contNow == "IO" \in ev /\ s1.state = "CONNECTING"
           c == ContinueSSL(s1, o2)
           s2 == IF contNow THEN c.s ELSE s1
           s3 == IF "CLOSE" \in ev THEN Cleanup(s2) ELSE s2
           K == fwdOpen \cup (IF "CLOSE" \in ev THEN {"close"} ELSE {})
<1>0. OnEvent(s, ev, ok, o1, o2) =
        IF beginNow /\ b.err THEN ErrorInfo(b.s, TRUE)
        ELSE IF contNow /\ c.err THEN ErrorInfo(c.s, TRUE)
        ELSE EmitAll(s3, K)
  BY DEF OnEvent
<1>1. s \in Adapters
  BY GoodTyped
<1>2. beginNow => /\ Good(sC) /\ Released(sC) /\ sC.state = "CONNECTING"
  BY <1>1 DEF Good, Released, Adapters, States, Terminal
<1>3. beginNow => /\ Good(b.s) /\ Released(b.s) /\ b.err \in BOOLEAN
  BY <1>2, GoodBeginSSL, RelBeginSSL
<1> HIDE DEF sC, b
<1>4. Good(s1) /\ Released(s1) /\ s1 \in Adapters
  BY <1>3, GoodTyped
<1>5. contNow => /\ Good(c.s) /\ Released(c.s) /\ c.err \in BOOLEAN
  BY <1>4, GoodContinueSSL, RelContinueSSL
<1> HIDE DEF c
<1>6. Good(s2) /\ Released(s2) /\ s2 \in Adapters
  BY <1>4, <1>5, GoodTyped
<1> HIDE DEF s1, s2
<1>7. s3 \in Adapters /\ Released(s3)
  BY <1>6, RelCleanup, CleanupType DEF Released
<1>8. fwdOpen = {} /\ K \in SUBSET SignalKinds /\ "open" \notin K
  BY DEF SignalKinds
<1> HIDE DEF s3, fwdOpen, K
<1>9. Released(EmitAll(s3, K))
  BY <1>7, <1>8, RelEmitAll
<1>10. Released(OnEvent(s, ev, ok, o1, o2))
  <2>1. beginNow /\ b.err => Released(ErrorInfo(b.s, TRUE))
    BY <1>3, GoodTyped, RelErrorInfo DEF Released
  <2>2. contNow /\ c.err => Released(ErrorInfo(c.s, TRUE))
    BY <1>5, GoodTyped, RelErrorInfo DEF Released
  <2>3. QED
    BY <1>0, <1>9, <2>1, <2>2
<1>11. ASSUME s.state \in Terminal
       PROVE  OnEvent(s, ev, ok, o1, o2).state = s.state
  <2>1. ~beginNow /\ s1 = s
    BY <1>11 DEF Terminal, s1
  <2>2. ~contNow /\ s2 = s
    BY <1>11, <2>1 DEF Terminal, s2
  <2>3. s3.state = s.state
    BY <1>1, <1>11, <2>2, RelCleanup DEF Released, s3
  <2>4. EmitAll(s3, K).state = s.state
    BY <1>7, <1>8, <2>3, RelEmitAll
  <2>5. QED
    BY <1>0, <2>1, <2>2, <2>4
<1>12. QED
  BY <1>10, <1>11

(* set_peer_certificate_digest keeps Released, and changes the state   *)
(* only by error_info when a peer certificate is held (so never in a    *)
(* terminal state, nor before the handshake began).                     *)
LEMMA RelSetDigest ==
    ASSUME NEW s \in Adapters, Released(s), NEW in \in DigestInputs
    PROVE  /\ Released(SetDigest(s, in))
           /\ s.peer_certificate = NoCert => SetDigest(s, in).state = s.state
<1>1. CASE in.alg \notin KnownAlgs \/ in.len # DigestSize[in.alg]
  BY <1>1 DEF SetDigest
<1>2. CASE in.alg \in KnownAlgs /\ in.len = DigestSize[in.alg]
  <2> DEFINE t == [s EXCEPT !.peer_digest = [alg |-> in.alg, val |-> in.val]]
  <2>1. /\ t \in Adapters /\ Released(t) /\ t.state = s.state
        /\ t.peer_certificate = s.peer_certificate
    BY <1>2 DEF Adapters, DigestInputs, Digests, Released
  <2>2. Released(VerifyPeerCertificate(t)) /\ Released(ErrorInfo(t, FALSE))
    BY <2>1, RelErrorInfo DEF VerifyPeerCertificate, Adapters, Released
  <2>3. SetDigest(s, in) =
          IF t.peer_certificate = NoCert THEN t
          ELSE IF VerifyOk(t) THEN VerifyPeerCertificate(t)
          ELSE ErrorInfo(t, FALSE)
    BY <1>2 DEF SetDigest
  <2> HIDE DEF t
  <2>4. QED
    BY <2>1, <2>2, <2>3
<1>3. QED
  BY <1>1, <1>2

-----------------------------------------------------------------------------
LEMMA ReleaseInit == Init => ReleaseInvariant
<1> SUFFICES ASSUME Init PROVE ReleaseInvariant
  OBVIOUS
<1>1. TrustInvariant
  BY TrustInit
<1>2. /\ adapter.state = "NONE" /\ adapter.timer = "stopped"
      /\ adapter.ssl = "null" /\ adapter.peer_certificate = NoCert
      /\ adapter.sig.open = 0
  BY DEF Init, SignalKinds
<1>3. QED
  BY <1>1, <1>2 DEF ReleaseInvariant, Released, Terminal

(* One step keeps ReleaseInvariant and never leaves a terminal state. *)
LEMMA ReleaseStep ==
    ReleaseInvariant /\ [Next]_vars =>
        /\ ReleaseInvariant'
        /\ adapter.state \in Terminal => adapter'.state = adapter.state
<1> SUFFICES ASSUME ReleaseInvariant, [Next]_vars
             PROVE  /\ ReleaseInvariant'
                    /\ adapter.state \in Terminal => adapter'.state = adapter.state
  OBVIOUS
<1>0. /\ TrustInvariant /\ Good(adapter) /\ Released(adapter)
      /\ adapter \in Adapters /\ remote \in Certs \cup {NoCert}
      /\ adapter.state \in {"CONNECTING", "CONNECTED"} => stream = "OPEN"
      /\ stream = "OPENING" => adapter.state \in {"NONE", "WAIT"}
  BY DEF ReleaseInvariant, TrustInvariant, TypeOK, Good, TrustedPeerOnOpen
<1>1. TrustInvariant'
  BY <1>0, TrustStep
(* The rest is Released of the new object and the stream fact. *)
<1>2. SUFFICES /\ Released(adapter') /\ remote' = remote
               /\ stream' = "OPENING" => adapter'.state \in {"NONE", "WAIT"}
               /\ adapter.state \in Terminal => adapter'.state = adapter.state
  BY <1>1 DEF ReleaseInvariant, Released
<1>3. CASE StartSSL
  <2>0. adapter.state = "NONE" /\ remote' = remote /\ stream' = stream
    BY <1>3 DEF StartSSL
  <2>1. CASE stream # "OPEN"
    <3>1. adapter' = [adapter EXCEPT !.state = "WAIT"]
      BY <1>3, <2>1 DEF StartSSL
    <3>2. QED
      BY <1>0, <2>0, <3>1 DEF Released, Adapters, Terminal
  <2>2. CASE stream = "OPEN"
    <3> DEFINE a0 == [adapter EXCEPT !.state = "CONNECTING"]
    <3>1. Good(a0) /\ Released(a0) /\ a0.state = "CONNECTING"
      BY <1>0, <2>0 DEF Good, Released, Adapters, States, Terminal
    <3>2. PICK ok \in BOOLEAN, o \in Outcomes :
            adapter' = IF BeginSSL(a0, ok, o).err
                         THEN ErrorInfo(BeginSSL(a0, ok, o).s, FALSE)
                         ELSE BeginSSL(a0, ok, o).s
      BY <1>3, <2>2 DEF StartSSL
    <3> DEFINE r == BeginSSL(a0, ok, o)
    <3> HIDE DEF a0
    <3>3. Released(r.s) /\ r.s \in Adapters
      BY <1>0, <3>1, RelBeginSSL, GoodBeginSSL, GoodTyped
    <3>4. Released(ErrorInfo(r.s, FALSE))
      BY <3>3, RelErrorInfo DEF Released
    <3> HIDE DEF r
    <3>5. QED
      BY <2>0, <2>2, <3>2, <3>3, <3>4 DEF Terminal, r
  <2>3. QED
    BY <2>1, <2>2
<1>4. CASE StreamOpens
  <2>1. adapter.state \in {"NONE", "WAIT"} /\ stream' = "OPEN" /\ remote' = remote
    BY <1>0, <1>4 DEF StreamOpens
  <2>2. PICK ev \in {{"OPEN"}, {"OPEN", "IO"}}, ok \in BOOLEAN, o1, o2 \in Outcomes :
          adapter' = OnEvent(adapter, ev, ok, o1, o2)
    BY <1>4 DEF StreamOpens
  <2>3. Released(OnEvent(adapter, ev, ok, o1, o2))
    BY <1>0, <2>1, RelOnEvent
  <2>4. QED
    BY <2>1, <2>2, <2>3 DEF Terminal
<1>5. CASE StreamIO
  <2>1. stream' = "OPEN" /\ remote' = remote
    BY <1>5 DEF StreamIO
  <2>2. PICK o \in Outcomes : adapter' = OnEvent(adapter, {"IO"}, TRUE, o, o)
    BY <1>5 DEF StreamIO
  <2>3. /\ Released(OnEvent(adapter, {"IO"}, TRUE, o, o))
        /\ adapter.state \in Terminal =>
              OnEvent(adapter, {"IO"}, TRUE, o, o).state = adapter.state
    BY <1>0, RelOnEvent
  <2>4. QED
    BY <2>1, <2>2, <2>3
<1>6. CASE StreamCloses
  <2>1. stream' = "CLOSED" /\ remote' = remote
    BY <1>6 DEF StreamCloses
  <2>2. PICK ev \in {{"CLOSE"}, {"IO", "CLOSE"}}, o \in Outcomes :
          adapter' = OnEvent(adapter, ev, TRUE, o, o)
    BY <1>6 DEF StreamCloses
  <2>3. /\ Released(OnEvent(adapter, ev, TRUE, o, o))
        /\ adapter.state \in Terminal =>
              OnEvent(adapter, ev, TRUE, o, o).state = adapter.state
    BY <1>0, RelOnEvent
  <2>4. QED
    BY <2>1, <2>2, <2>3
<1>7. CASE TimerFires
  <2> DEFINE a1 == [adapter EXCEPT !.timer = "stopped"]
  <2>1. adapter.state = "CONNECTING" /\ stream = "OPEN"
    BY <1>0, <1>7 DEF TimerFires, Good
  <2>2. Good(a1) /\ Released(a1) /\ a1.state = "CONNECTING"
    BY <1>0, <2>1 DEF Good, Released, Adapters, TimerStates, Terminal
  <2> HIDE DEF a1
  <2>3. \A o \in Outcomes : Released(ContinueSSL(a1, o).s)
    BY <1>0, <2>2, RelContinueSSL
  <2>4. QED
    BY <1>7, <2>1, <2>3 DEF TimerFires, a1, Terminal
<1>8. CASE SetPeerCertificateDigest
  <2>1. stream' = stream /\ remote' = remote
    BY <1>8 DEF SetPeerCertificateDigest
  <2>2. PICK in \in DigestInputs : adapter' = SetDigest(adapter, in)
    BY <1>8 DEF SetPeerCertificateDigest
  <2>3. /\ Released(SetDigest(adapter, in))
        /\ adapter.peer_certificate = NoCert =>
              SetDigest(adapter, in).state = adapter.state
    BY <1>0, RelSetDigest
  <2>4. stream = "OPENING" \/ adapter.state \in Terminal
          => adapter.peer_certificate = NoCert
    BY <1>0 DEF Released, Terminal
  <2>5. QED
    BY <1>0, <2>1, <2>2, <2>3, <2>4
<1>9. CASE UNCHANGED vars
  BY <1>0, <1>9 DEF vars
<1>10. CASE ExportKeyingMaterial
  BY <1>0, <1>10 DEF ExportKeyingMaterial
<1>11. QED
  BY <1>3, <1>4, <1>5, <1>6, <1>7, <1>8, <1>9, <1>10 DEF Next

(* The inductive invariant holds in every state. *)
THEOREM ReleaseInvariantHolds == Spec => []ReleaseInvariant
BY ReleaseInit, ReleaseStep, PTL DEF Spec

(* Scoped release: the DTLS retransmission timer is armed only while    *)
(* negotiating, the watcher exists whenever continue_SSL may run, and    *)
(* after cleanup neither the SSL object, the watcher nor the peer        *)
(* certificate is held.                                                  *)
THEOREM ScopedReleaseHolds == Spec => []ScopedRelease
<1>1. ReleaseInvariant => ScopedRelease
  BY DEF ReleaseInvariant, TrustInvariant, Released, ScopedRelease, Terminal
<1>2. QED
  BY ReleaseInvariantHolds, <1>1, PTL

(* continue_SSL and on_event tell the consumer at most once that the    *)
(* secure stream opened.                                                 *)
THEOREM SecureOpenOnceHolds == Spec => []SecureOpenOnce
<1>1. ReleaseInvariant => SecureOpenOnce
  BY DEF ReleaseInvariant, Released, SecureOpenOnce
<1>2. QED
  BY ReleaseInvariantHolds, <1>1, PTL

(* SSL_VERIFY_FAIL_IF_NO_PEER_CERT: a client-auth server never reaches  *)
(* SSL_CONNECTED with a peer that presented no certificate.             *)
THEOREM MutualAuthEnforcedHolds == Spec => []MutualAuthEnforced
<1>1. ReleaseInvariant => MutualAuthEnforced
  BY DEF ReleaseInvariant, Released, MutualAuthEnforced
<1>2. QED
  BY ReleaseInvariantHolds, <1>1, PTL

(* SSL_ERROR and SSL_CLOSED are never left: no call, event or timer      *)
(* expiry moves a terminal adapter.                                      *)
THEOREM TerminalStableHolds == Spec => TerminalStable
<1>1. ReleaseInvariant /\ [Next]_vars =>
        [adapter.state \in Terminal => adapter'.state = adapter.state]_vars
  BY ReleaseStep
<1>2. QED
  BY ReleaseInvariantHolds, <1>1, PTL DEF Spec, TerminalStable

=============================================================================
