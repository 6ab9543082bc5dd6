------------------ MODULE OpenSSLStreamAdapterLifecycleProofs ------------------
(***************************************************************************)
(* Proof that OpenSSLStreamAdapter implements SSLLifecycle under the      *)
(* mapping phase <- adapter.state, announced <- adapter.sig.open > 0      *)
(* (LifecycleRefinement), for every value of the constants.               *)
(*                                                                         *)
(* Moves(a, b) says that going from object a to object b is a lifecycle   *)
(* step or a stutter.  It is transitive, so the member functions that a   *)
(* handler runs one after the other (begin_SSL, continue_SSL, cleanup,    *)
(* error_info, the final signalling) each get a lemma that it Moves, and *)
(* the handler Moves by chaining them.  ReleaseInvariant supplies what   *)
(* the chain needs: SE_OPEN not yet raised while negotiating, the timer  *)
(* armed only in SSL_CONNECTING, a peer certificate only while           *)
(* negotiating or connected, and a stream SE_OPEN only before start.     *)
(***************************************************************************)
EXTENDS OpenSSLStreamAdapterReleaseProofs

Rank == Lifecycle!Rank

(* Whether SE_OPEN has been signalled: the refinement's "announced". *)
Announced(x) == x.sig.open > 0

(* From object a to object b is a lifecycle step or a stutter. *)
Moves(a, b) ==
    \/ b.state = a.state /\ (Announced(b) <=> Announced(a))
    \/ /\ a.state \notin Terminal /\ b.state \in States
       /\ Rank[b.state] > Rank[a.state] /\ (Announced(b) <=> Announced(a))
    \/ /\ a.state \notin Terminal /\ ~Announced(a) /\ Announced(b)
       /\ b.state \in {"CONNECTED"} \cup Terminal

-----------------------------------------------------------------------------
(* Two moves make a move. *)
LEMMA MovesTrans ==
    ASSUME NEW a, NEW b, NEW c, a.state \in States, b.state \in States,
           Moves(a, b), Moves(b, c)
    PROVE  Moves(a, c)
BY DEF Moves, Rank, Lifecycle!Rank, Terminal, States

(* A move depends only on the state and on whether SE_OPEN was raised. *)
LEMMA MovesSame ==
    ASSUME NEW a, NEW b, NEW a2, NEW b2,
           a2.state = a.state, a2.sig.open = a.sig.open,
           b2.state = b.state, b2.sig.open = b.sig.open,
           Moves(a, b)
    PROVE  Moves(a2, b2)
BY DEF Moves, Announced

(* Reaching SSL_CONNECTED from a live state, SE_OPEN possibly raised on *)
(* the way, is a move.                                                   *)
LEMMA MovesToConnected ==
    ASSUME NEW a, NEW b, a.state \in States \ Terminal, b.state = "CONNECTED",
           a.sig.open \in Nat, b.sig.open \in Nat, b.sig.open >= a.sig.open
    PROVE  Moves(a, b)
BY DEF Moves, Announced, Rank, Lifecycle!Rank, Terminal, States

(* Raising signals leaves the state alone and never lowers SE_OPEN;     *)
(* without SE_OPEN among them it leaves the SE_OPEN count alone.         *)
LEMMA EmitOpen ==
    ASSUME NEW s \in Adapters, NEW K \in SUBSET SignalKinds
    PROVE  /\ EmitAll(s, K).state = s.state
           /\ EmitAll(s, K).sig.open \in Nat
           /\ EmitAll(s, K).sig.open >= s.sig.open
           /\ "open" \notin K => EmitAll(s, K).sig.open = s.sig.open
BY DEF EmitAll, Bump, Adapters, SignalKinds

(* cleanup ends the session: SSL_CLOSED, or SSL_ERROR kept. *)
LEMMA CleanupMoves ==
    ASSUME NEW s \in Adapters
    PROVE  /\ Moves(s, Cleanup(s))
           /\ Cleanup(s).state \in Terminal
BY DEF Moves, Announced, Cleanup, Adapters, States, Terminal, Rank, Lifecycle!Rank

(* error_info from a live state is a move to SSL_ERROR. *)
LEMMA ErrorInfoMoves ==
    ASSUME NEW s \in Adapters, s.state \notin Terminal, NEW signal \in BOOLEAN
    PROVE  Moves(s, ErrorInfo(s, signal))
<1> DEFINE c == Cleanup([s EXCEPT !.state = "ERROR"])
<1>1. c \in Adapters /\ c.state = "ERROR" /\ c.sig.open = s.sig.open
  BY CleanupType DEF Cleanup, Adapters, States
<1>2. ErrorInfo(s, signal).state = "ERROR"
      /\ ErrorInfo(s, signal).sig.open = s.sig.open
  BY <1>1, EmitOpen DEF ErrorInfo, Emit, SignalKinds
<1>3. QED
  BY <1>2 DEF Moves, Announced, Adapters, States, Terminal, Rank, Lifecycle!Rank

(* One engine call touches neither the state nor the signals. *)
LEMMA EngineKeeps ==
    ASSUME NEW s \in Adapters, NEW o \in Outcomes, remote \in Certs \cup {NoCert}
    PROVE  EngineStep(s, o).s.state = s.state /\ EngineStep(s, o).s.sig = s.sig
<1> DEFINE seen == o.cert /\ s.ssl = "hs" /\ ~s.cert_seen /\ remote # NoCert
           s1 == IF seen THEN [CallbackState(s) EXCEPT !.cert_seen = TRUE] ELSE s
<1>1. CallbackState(s) \in Adapters /\ CallbackState(s).state = s.state
      /\ CallbackState(s).sig = s.sig
  BY DEF CallbackState, VerifyPeerCertificate, Adapters
<1>2. s1.state = s.state /\ s1.sig = s.sig /\ s1 \in Adapters
  BY <1>1 DEF Adapters
<1>3. \E x : EngineStep(s, o).s = [s1 EXCEPT !.ssl = x]
  BY DEF EngineStep
<1>4. QED
  BY <1>2, <1>3 DEF Adapters
(* continue_SSL from a live state is a move: it leaves the state as it *)
(* was, SE_OPEN included, or completes to SSL_CONNECTED, raising        *)
(* SE_OPEN unless a peer certificate is still awaited.                  *)
LEMMA ContinueMoves ==
    ASSUME NEW s \in Adapters, s.state \notin Terminal, NEW o \in Outcomes,
           remote \in Certs \cup {NoCert}
    PROVE  /\ Moves(s, ContinueSSL(s, o).s)
           /\ ContinueSSL(s, o).s.state \in {s.state, "CONNECTED"}
           /\ ContinueSSL(s, o).s \in Adapters
           /\ ContinueSSL(s, o).err \in BOOLEAN
<1> DEFINE s0 == [s EXCEPT !.timer = IF @ = "armed" THEN "stopped" ELSE @]
           e == EngineStep(s0, o)
           t == e.s
           c == [t EXCEPT !.state = "CONNECTED"]
           done == IF WaitingToVerify(c) THEN c ELSE Emit(c, "open")
           armed == IF t.mode = "DTLS" /\ o.delay
                      THEN [t EXCEPT !.timer = "armed"] ELSE t
<1>0. ContinueSSL(s, o) =
        CASE e.res = "NONE"       -> [s |-> done, err |-> FALSE]
          [] e.res = "WANT_READ"  -> [s |-> armed, err |-> FALSE]
          [] e.res = "WANT_WRITE" -> [s |-> t, err |-> FALSE]
          [] e.res = "ERROR"      -> [s |-> Emit(t, "hs_error"), err |-> TRUE]
  BY DEF ContinueSSL
<1>1. s0 \in Adapters /\ s0.state = s.state /\ s0.sig = s.sig
  BY DEF Adapters, TimerStates
<1> HIDE DEF s0
<1>2. t \in Adapters /\ t.state = s.state /\ t.sig = s.sig /\ e.res \in Results
  BY <1>1, EngineKeeps, EngineStepType
<1> HIDE DEF e
<1>3. s.state \in States /\ s.sig.open \in Nat
  BY MaxSignalAssumption DEF Adapters, SignalKinds
<1>4. c \in Adapters /\ c.state = "CONNECTED" /\ c.sig = s.sig
  BY <1>2 DEF Adapters, States
<1> HIDE DEF c
<1>5. Moves(s, done) /\ done.state = "CONNECTED"
  <2>1. done.state = "CONNECTED" /\ done.sig.open \in Nat
        /\ done.sig.open >= s.sig.open
    BY <1>3, <1>4, EmitOpen DEF Emit, SignalKinds
  <2>2. QED
    BY <1>3, <2>1, MovesToConnected DEF States
<1>6. Moves(s, armed) /\ armed.state = s.state
  <2>1. armed.state = t.state /\ armed.sig = t.sig
    BY <1>2 DEF Adapters
  <2>2. QED
    BY <1>2, <2>1 DEF Moves, Announced
<1>7. Moves(s, t) /\ Moves(s, Emit(t, "hs_error"))
      /\ Emit(t, "hs_error").state = s.state
  <2>1. Emit(t, "hs_error").state = s.state
        /\ Emit(t, "hs_error").sig.open = s.sig.open
    BY <1>2, EmitOpen DEF Emit, SignalKinds
  <2>2. QED
    BY <1>2, <2>1 DEF Moves, Announced
<1> HIDE DEF done, armed, t
<1>8. ContinueSSL(s, o).s \in Adapters /\ ContinueSSL(s, o).err \in BOOLEAN
  BY ContinueSSLType
<1>9. CASE e.res = "NONE"
  BY <1>0, <1>5, <1>8, <1>9
<1>10. CASE e.res = "WANT_READ"
  BY <1>0, <1>6, <1>8, <1>10
<1>11. CASE e.res = "WANT_WRITE"
  BY <1>0, <1>2, <1>7, <1>8, <1>11
<1>12. CASE e.res = "ERROR"
  BY <1>0, <1>7, <1>8, <1>12
<1>13. QED
  BY <1>2, <1>9, <1>10, <1>11, <1>12 DEF Results
(* begin_SSL from a live state is a move, with continue_SSL's outcome. *)
LEMMA BeginMoves ==
    ASSUME NEW s \in Adapters, s.state \notin Terminal, NEW ok \in BOOLEAN,
           NEW o \in Outcomes, remote \in Certs \cup {NoCert}
    PROVE  /\ Moves(s, BeginSSL(s, ok, o).s)
           /\ BeginSSL(s, ok, o).s.state \in {s.state, "CONNECTED"}
           /\ BeginSSL(s, ok, o).s \in Adapters
           /\ BeginSSL(s, ok, o).err \in BOOLEAN
<1>1. CASE s.state # "CONNECTING" \/ ~ok
  <2>1. BeginSSL(s, ok, o) = [s |-> s, err |-> TRUE]
    BY <1>1 DEF BeginSSL
  <2>2. QED
    BY <2>1 DEF Moves
<1>2. CASE s.state = "CONNECTING" /\ ok
  <2> DEFINE u == [s EXCEPT !.ssl = "hs", !.cert_seen = FALSE]
  <2>1. BeginSSL(s, ok, o) = ContinueSSL(u, o)
    BY <1>2 DEF BeginSSL
  <2>2. u \in Adapters /\ u.state = s.state /\ u.sig = s.sig
    BY DEF Adapters, SslStates
  <2> HIDE DEF u
  <2>3. /\ Moves(u, ContinueSSL(u, o).s)
        /\ ContinueSSL(u, o).s.state \in {u.state, "CONNECTED"}
        /\ ContinueSSL(u, o).s \in Adapters
        /\ ContinueSSL(u, o).err \in BOOLEAN
    BY <2>2, ContinueMoves
  <2>4. Moves(s, ContinueSSL(u, o).s)
    BY <2>2, <2>3, MovesSame
  <2>5. QED
    BY <2>1, <2>2, <2>3, <2>4
<1>3. QED
  BY <1>1, <1>2

(* on_event is a move whenever SE_OPEN from the stream arrives before   *)
(* start_SSL or while waiting for the stream (ReleaseInvariant shows   *)
(* it always does): begin_SSL, continue_SSL, cleanup and error_info    *)
(* move one after the other, and the final signalling raises no        *)
(* SE_OPEN.                                                             *)
LEMMA OnEventMoves ==
    ASSUME NEW s \in Adapters, NEW ev \in SUBSET {"OPEN", "IO", "CLOSE"},
           NEW ok \in BOOLEAN, NEW o1 \in Outcomes, NEW o2 \in Outcomes,
           remote \in Certs \cup {NoCert},
           "OPEN" \in ev => s.state \in {"NONE", "WAIT"}
    PROVE  Moves(s, OnEvent(s, ev, ok, o1, o2))
<1> DEFINE beginNow == "OPEN" \in ev /\ s.state = "WAIT"
           w == [s EXCEPT !.state = "CONNECTING"]
           b == BeginSSL(w, ok, o1)
           fwdOpen == IF "OPEN" \in ev /\ s.state \notin {"WAIT", "NONE"}
                      THEN {"open"} ELSE {}
           s1 == IF beginNow THEN b.s ELSE s
           contNow == "IO" \in ev /\ s1.state = "CONNECTING"
           c == ContinueSSL(s1, o2)
           s2 == IF contNow THEN c.s ELSE s1
           closeNow == "CLOSE" \in ev
           s3 == IF closeNow THEN Cleanup(s2) ELSE s2
           K == fwdOpen \cup (IF closeNow THEN {"close"} ELSE {})
<1>0. OnEvent(s, ev, ok, o1, o2) =
        IF beginNow /\ b.err THEN ErrorInfo(b.s, TRUE)
        ELSE IF contNow /\ c.err THEN ErrorInfo(c.s, TRUE)
        ELSE EmitAll(s3, K)
  BY DEF OnEvent
<1>1. K \in SUBSET SignalKinds /\ "open" \notin K
  BY DEF SignalKinds
<1> HIDE DEF fwdOpen, K
<1>2. s.state \in States /\ Moves(s, s)
  BY DEF Adapters, Moves
<1>3. beginNow => /\ Moves(s, b.s) /\ b.s \in Adapters
                  /\ b.s.state \in {"CONNECTING", "CONNECTED"}
                  /\ b.err \in BOOLEAN
  <2> SUFFICES ASSUME beginNow PROVE /\ Moves(s, b.s) /\ b.s \in Adapters
                  /\ b.s.state \in {"CONNECTING", "CONNECTED"}
                  /\ b.err \in BOOLEAN
    OBVIOUS
  <2>1. w \in Adapters /\ w.state = "CONNECTING" /\ Moves(s, w)
    BY DEF Adapters, States, Moves, Announced, Rank, Lifecycle!Rank, Terminal
  <2> HIDE DEF w
  <2>2. /\ Moves(w, b.s) /\ b.s \in Adapters
        /\ b.s.state \in {"CONNECTING", "CONNECTED"} /\ b.err \in BOOLEAN
    BY <2>1, BeginMoves DEF Terminal
  <2>3. QED
    BY <1>2, <2>1, <2>2, MovesTrans DEF States
<1> HIDE DEF b
<1>4. Moves(s, s1) /\ s1 \in Adapters
  BY <1>2, <1>3
<1>5. contNow => /\ Moves(s1, c.s) /\ c.s \in Adapters
                 /\ c.s.state \in {"CONNECTING", "CONNECTED"}
                 /\ c.err \in BOOLEAN
  BY <1>4, ContinueMoves DEF Terminal
<1> HIDE DEF c
<1>6. Moves(s, s2) /\ s2 \in Adapters
  <2>1. CASE contNow
    BY <1>2, <1>4, <1>5, <2>1, MovesTrans DEF Adapters
  <2>2. QED
    BY <1>4, <2>1
<1> HIDE DEF s1
<1>7. Moves(s, s3) /\ s3 \in Adapters
  <2>1. CASE closeNow
    <3>1. Moves(s2, Cleanup(s2)) /\ Cleanup(s2) \in Adapters
      BY <1>6, CleanupMoves, CleanupType
    <3>2. QED
      BY <1>2, <1>6, <2>1, <3>1, MovesTrans DEF Adapters
  <2>2. QED
    BY <1>6, <2>1
<1> HIDE DEF s2, s3
<1>8. CASE beginNow /\ b.err
  <2>1. Moves(b.s, ErrorInfo(b.s, TRUE))
    BY <1>3, <1>8, ErrorInfoMoves DEF Terminal
  <2>2. QED
    BY <1>0, <1>2, <1>3, <1>8, <2>1, MovesTrans DEF Adapters
<1>9. CASE ~(beginNow /\ b.err) /\ contNow /\ c.err
  <2>1. Moves(c.s, ErrorInfo(c.s, TRUE))
    BY <1>5, <1>9, ErrorInfoMoves DEF Terminal
  <2>2. Moves(s, c.s)
    BY <1>2, <1>4, <1>5, <1>9, MovesTrans DEF Adapters
  <2>3. QED
    BY <1>0, <1>2, <1>5, <1>9, <2>1, <2>2, MovesTrans DEF Adapters
<1>10. CASE ~(beginNow /\ b.err) /\ ~(contNow /\ c.err)
  <2>1. EmitAll(s3, K).state = s3.state /\ EmitAll(s3, K).sig.open = s3.sig.open
    BY <1>1, <1>7, EmitOpen
  <2>2. QED
    BY <1>0, <1>7, <1>10, <2>1, MovesSame
<1>11. QED
  BY <1>8, <1>9, <1>10
(* set_peer_certificate_digest is a move when a peer certificate is    *)
(* held only in a live state: it stores the digest and either verifies *)
(* or ends the session through error_info.                             *)
LEMMA SetDigestMoves ==
    ASSUME NEW s \in Adapters, NEW in \in DigestInputs,
           s.peer_certificate # NoCert => s.state \notin Terminal
    PROVE  Moves(s, SetDigest(s, in))
<1>1. Moves(s, s)
  BY DEF Moves
<1>2. CASE in.alg \notin KnownAlgs \/ in.len # DigestSize[in.alg]
  BY <1>1, <1>2 DEF SetDigest
<1>3. CASE in.alg \in KnownAlgs /\ in.len = DigestSize[in.alg]
  <2> DEFINE t == [s EXCEPT !.peer_digest = [alg |-> in.alg, val |-> in.val]]
  <2>1. SetDigest(s, in) = IF t.peer_certificate = NoCert THEN t
                           ELSE IF VerifyOk(t) THEN VerifyPeerCertificate(t)
                           ELSE ErrorInfo(t, FALSE)
    BY <1>3 DEF SetDigest
  <2>2. /\ t \in Adapters /\ t.state = s.state /\ t.sig = s.sig
        /\ t.peer_certificate = s.peer_certificate
    BY <1>3 DEF Adapters, Digests, DigestInputs
  <2>3. VerifyPeerCertificate(t).state = s.state
        /\ VerifyPeerCertificate(t).sig = s.sig
    BY <2>2 DEF VerifyPeerCertificate
  <2> HIDE DEF t
  <2>4. t.peer_certificate # NoCert => Moves(s, ErrorInfo(t, FALSE))
    <3> SUFFICES ASSUME t.peer_certificate # NoCert
                 PROVE  Moves(s, ErrorInfo(t, FALSE))
      OBVIOUS
    <3>1. Moves(t, ErrorInfo(t, FALSE))
      BY <2>2, ErrorInfoMoves
    <3>2. QED
      BY <2>2, <3>1, MovesSame
  <2>5. QED
    BY <1>1, <2>1, <2>2, <2>3, <2>4 DEF Moves, Announced
<1>4. QED
  BY <1>2, <1>3

(* Every step of the adapter, its stream and its consumer is a move of  *)
(* the adapter.                                                          *)
LEMMA StepMoves ==
    ASSUME ReleaseInvariant, [Next]_vars
    PROVE  Moves(adapter, adapter')
<1>0. /\ adapter \in Adapters /\ remote \in Certs \cup {NoCert}
      /\ adapter.state \in States
      /\ adapter.timer = "armed" => adapter.state = "CONNECTING"
      /\ stream = "OPENING" => adapter.state \in {"NONE", "WAIT"}
      /\ adapter.peer_certificate # NoCert
           => adapter.state \in {"CONNECTING", "CONNECTED"}
  BY DEF ReleaseInvariant, TrustInvariant, TypeOK, Released, Adapters
<1>1. Moves(adapter, adapter)
  BY DEF Moves
<1>2. CASE StartSSL
  <2>1. CASE stream # "OPEN"
    <3>1. adapter' = [adapter EXCEPT !.state = "WAIT"]
      BY <1>2, <2>1 DEF StartSSL
    <3>2. QED
      BY <1>0, <1>2, <3>1 DEF StartSSL, Moves, Announced, Adapters, States,
                              Terminal, Rank, Lifecycle!Rank
  <2>2. CASE stream = "OPEN"
    <3> DEFINE w == [adapter EXCEPT !.state = "CONNECTING"]
    <3>1. PICK ok \in BOOLEAN, o \in Outcomes :
            adapter' = IF BeginSSL(w, ok, o).err
                       THEN ErrorInfo(BeginSSL(w, ok, o).s, FALSE)
                       ELSE BeginSSL(w, ok, o).s
      BY <1>2, <2>2 DEF StartSSL
    <3>2. w \in Adapters /\ w.state = "CONNECTING" /\ Moves(adapter, w)
      BY <1>0, <1>2 DEF StartSSL, Adapters, States, Moves, Announced, Rank,
                        Lifecycle!Rank, Terminal
    <3> DEFINE r == BeginSSL(w, ok, o)
    <3> HIDE DEF w
    <3>3. /\ Moves(w, r.s) /\ r.s \in Adapters
          /\ r.s.state \in {"CONNECTING", "CONNECTED"}
      BY <1>0, <3>2, BeginMoves DEF Terminal
    <3>4. Moves(adapter, r.s)
      BY <1>0, <3>2, <3>3, MovesTrans DEF Adapters
    <3>5. Moves(r.s, ErrorInfo(r.s, FALSE))
      BY <3>3, ErrorInfoMoves DEF Terminal
    <3>6. QED
      BY <1>0, <3>1, <3>3, <3>4, <3>5, MovesTrans DEF Adapters
  <2>3. QED
    BY <2>1, <2>2
<1>3. CASE StreamOpens
  <2>1. PICK ev \in {{"OPEN"}, {"OPEN", "IO"}}, ok \in BOOLEAN,
             o1 \in Outcomes, o2 \in Outcomes :
          adapter' = OnEvent(adapter, ev, ok, o1, o2)
    BY <1>3 DEF StreamOpens
  <2>2. adapter.state \in {"NONE", "WAIT"}
    BY <1>0, <1>3 DEF StreamOpens
  <2>3. QED
    BY <1>0, <2>1, <2>2, OnEventMoves
<1>4. CASE StreamIO
  <2>1. PICK o \in Outcomes : adapter' = OnEvent(adapter, {"IO"}, TRUE, o, o)
    BY <1>4 DEF StreamIO
  <2>2. QED
    BY <1>0, <2>1, OnEventMoves
<1>5. CASE StreamCloses
  <2>1. PICK ev \in {{"CLOSE"}, {"IO", "CLOSE"}}, o \in Outcomes :
          adapter' = OnEvent(adapter, ev, TRUE, o, o)
    BY <1>5 DEF StreamCloses
  <2>2. QED
    BY <1>0, <2>1, OnEventMoves
<1>6. CASE TimerFires
  <2> DEFINE u == [adapter EXCEPT !.timer = "stopped"]
  <2>1. PICK o \in Outcomes : adapter' = ContinueSSL(u, o).s
    BY <1>6 DEF TimerFires
  <2>2. u \in Adapters /\ u.state = "CONNECTING" /\ u.sig = adapter.sig
    BY <1>0, <1>6 DEF TimerFires, Adapters, TimerStates
  <2> HIDE DEF u
  <2>3. Moves(u, ContinueSSL(u, o).s)
    BY <1>0, <2>2, ContinueMoves DEF Terminal
  <2>4. QED
    BY <1>0, <1>6, <2>1, <2>2, <2>3, MovesSame DEF TimerFires
<1>7. CASE SetPeerCertificateDigest
  <2>1. PICK in \in DigestInputs : adapter' = SetDigest(adapter, in)
    BY <1>7 DEF SetPeerCertificateDigest
  <2>2. QED
    BY <1>0, <2>1, SetDigestMoves DEF Terminal
<1>8. CASE ExportKeyingMaterial \/ UNCHANGED vars
  BY <1>1, <1>8 DEF ExportKeyingMaterial, vars
<1>9. QED
  BY <1>2, <1>3, <1>4, <1>5, <1>6, <1>7, <1>8 DEF Next
(* A move of the adapter between typed objects is a step of            *)
(* SSLLifecycle or a stutter under the refinement mapping.             *)
LEMMA MovesRefine ==
    ASSUME Moves(adapter, adapter'), adapter.state \in States,
           adapter'.state \in States
    PROVE  [Lifecycle!Next]_<<adapter.state, adapter.sig.open > 0>>
BY DEF Moves, Announced, Lifecycle!Next, Lifecycle!Advance, Lifecycle!Announce,
       Lifecycle!Phases, Lifecycle!Final, Rank, States, Terminal

(* The refinement: seen through its SSLState and whether SE_OPEN was    *)
(* signalled, OpenSSLStreamAdapter only moves forward through           *)
(* SSL_NONE, SSL_WAIT, SSL_CONNECTING and SSL_CONNECTED, never leaves   *)
(* SSL_ERROR or SSL_CLOSED, and raises SE_OPEN only by a call that      *)
(* leaves it connected or ended (start_SSL, on_event, the DTLS timeout  *)
(* callback and set_peer_certificate_digest).                           *)
THEOREM LifecycleRefinementHolds == Spec => LifecycleRefinement
<1>1. Init => Lifecycle!Init
  BY DEF Init, Lifecycle!Init, SignalKinds
<1>2. ReleaseInvariant /\ ReleaseInvariant' /\ [Next]_vars
        => [Lifecycle!Next]_<<adapter.state, adapter.sig.open > 0>>
  <2> SUFFICES ASSUME ReleaseInvariant, ReleaseInvariant', [Next]_vars
               PROVE  [Lifecycle!Next]_<<adapter.state, adapter.sig.open > 0>>
    OBVIOUS
  <2>1. Moves(adapter, adapter')
    BY StepMoves
  <2>2. adapter.state \in States /\ adapter'.state \in States
    BY DEF ReleaseInvariant, TrustInvariant, TypeOK, Adapters
  <2>3. QED
    BY <2>1, <2>2, MovesRefine
<1>3. QED
  BY <1>1, <1>2, ReleaseInvariantHolds, PTL
     DEF Spec, LifecycleRefinement, Lifecycle!Spec
=============================================================================
