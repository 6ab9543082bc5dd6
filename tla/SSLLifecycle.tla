---------------------------- MODULE SSLLifecycle ----------------------------
(***************************************************************************)
(* What OpenSSLStreamAdapter promises its consumer about the session's    *)
(* life (ssl_stream_adapter.h, the SSLState of openssl_stream_adapter.h): *)
(* the state only moves forward, SSL_NONE, SSL_WAIT, SSL_CONNECTING,      *)
(* SSL_CONNECTED, and ends in SSL_ERROR or SSL_CLOSED, which are final;   *)
(* the consumer is told that the secure stream opened (SE_OPEN) at most  *)
(* once, and only by a call that leaves it SSL_CONNECTED or passes       *)
(* through SSL_CONNECTED.                                                 *)
(***************************************************************************)
EXTENDS Naturals

VARIABLES
    phase,      \* the adapter's SSLState
    announced   \* whether SE_OPEN has been signalled

Phases == {"NONE", "WAIT", "CONNECTING", "CONNECTED", "ERROR", "CLOSED"}
Final == {"ERROR", "CLOSED"}

(* The order of the states; the two final states are not ordered.  *)
Rank == [NONE |-> 0, WAIT |-> 1, CONNECTING |-> 2, CONNECTED |-> 3,
         ERROR |-> 4, CLOSED |-> 4]

Init == phase = "NONE" /\ announced = FALSE

(* A call or event moves the state forward, and tells nothing. *)
Advance ==
    /\ phase \notin Final
    /\ phase' \in Phases
    /\ Rank[phase'] > Rank[phase]
    /\ UNCHANGED announced

(* The one SE_OPEN: signalled by a call that leaves the session          *)
(* connected (the continue_SSL that completes the handshake, or, per the *)
(* comment in continue_SSL, a later set_peer_certificate_digest), or     *)
(* that connects and then ends it.                                       *)
Announce ==
    /\ phase \notin Final
    /\ ~announced
    /\ announced'
    /\ phase' \in {"CONNECTED"} \cup Final

Next == Advance \/ Announce

Spec == Init /\ [][Next]_<<phase, announced>>
=============================================================================
