----------------------------- MODULE SrtpSuites -----------------------------
(***************************************************************************)
(* The DTLS-SRTP crypto-suite offer of OpenSSLStreamAdapter and the suite  *)
(* tables of ssl_stream_adapter.cpp.                                       *)
(*                                                                         *)
(* The tables (suite id <-> name, key and salt lengths, the default offer) *)
(* are operators.  The adapter's part is a small state machine: the        *)
(* consumer calls set_dtls_srtp_crypto_suites, start_SSL hands the         *)
(* profile list to SSL_CTX_set_tlsext_use_srtp in setup_SSL_context, the  *)
(* handshake selects a profile both sides support, and the consumer asks   *)
(* get_dtls_srtp_crypto_suite, also after the session was cleaned up.     *)
(* The handshake itself is abstracted to one step (OpenSSLStreamAdapter    *)
(* models it in detail).                                                   *)
(***************************************************************************)
EXTENDS Naturals, Sequences

CONSTANTS
    MaxOffer   \* longest candidate list a consumer passes

ASSUME MaxOfferAssumption == MaxOffer \in Nat

(* SRTP_* protection-profile ids, ssl_stream_adapter.h 31-42. *)
SRTP_INVALID_CRYPTO_SUITE == 0
SRTP_AES128_CM_SHA1_80 == 1
SRTP_AES128_CM_SHA1_32 == 2
SRTP_AEAD_AES_128_GCM == 7
SRTP_AEAD_AES_256_GCM == 8
KnownSuites == {SRTP_AES128_CM_SHA1_80, SRTP_AES128_CM_SHA1_32,
                SRTP_AEAD_AES_128_GCM, SRTP_AEAD_AES_256_GCM}
(* Ids a consumer may pass: the known ones, the invalid id, an unknown. *)
CandidateIds == KnownSuites \cup {SRTP_INVALID_CRYPTO_SUITE, 3}
CandidateLists == UNION {[1 .. n -> CandidateIds] : n \in 0 .. MaxOffer}

(* Mutation: the two SHA1 tag lengths swapped in the name table. *)
SuiteToNameSwapped(id) ==
    CASE id = SRTP_AES128_CM_SHA1_32 -> "AES_CM_128_HMAC_SHA1_80"
      [] id = SRTP_AES128_CM_SHA1_80 -> "AES_CM_128_HMAC_SHA1_32"
      [] id = SRTP_AEAD_AES_128_GCM  -> "AEAD_AES_128_GCM"
      [] id = SRTP_AEAD_AES_256_GCM  -> "AEAD_AES_256_GCM"
      [] OTHER                       -> ""

(* srtp_crypto_suite_to_name *)
SrtpCryptoSuiteToName(id) ==
    CASE id = SRTP_AES128_CM_SHA1_32 -> "AES_CM_128_HMAC_SHA1_32"
      [] id = SRTP_AES128_CM_SHA1_80 -> "AES_CM_128_HMAC_SHA1_80"
      [] id = SRTP_AEAD_AES_128_GCM  -> "AEAD_AES_128_GCM"
      [] id = SRTP_AEAD_AES_256_GCM  -> "AEAD_AES_256_GCM"
      [] OTHER                       -> ""

(* srtp_crypto_suite_from_name *)
SrtpCryptoSuiteFromName(n) ==
    IF n = "AES_CM_128_HMAC_SHA1_32" THEN SRTP_AES128_CM_SHA1_32
    ELSE IF n = "AES_CM_128_HMAC_SHA1_80" THEN SRTP_AES128_CM_SHA1_80
    ELSE IF n = "AEAD_AES_128_GCM" THEN SRTP_AEAD_AES_128_GCM
    ELSE IF n = "AEAD_AES_256_GCM" THEN SRTP_AEAD_AES_256_GCM
    ELSE SRTP_INVALID_CRYPTO_SUITE

(* get_srtp_key_and_salt_lengths: whether it returns true, and the     *)
(* <<key, salt>> lengths it writes then.                                *)
HasKeyAndSaltLengths(id) == id \in KnownSuites
SrtpKeyAndSaltLengths(id) ==
    CASE id \in {SRTP_AES128_CM_SHA1_32, SRTP_AES128_CM_SHA1_80} -> <<16, 14>>
      [] id = SRTP_AEAD_AES_128_GCM -> <<16, 12>>
      [] id = SRTP_AEAD_AES_256_GCM -> <<32, 12>>

(* is_gcm_crypto_suite_name *)
IsGcmCryptoSuiteName(n) == n \in {"AEAD_AES_256_GCM", "AEAD_AES_128_GCM"}

(* get_supported_dtls_srtp_crypto_suites *)
SupportedDtlsSrtpCryptoSuites(enableGcm) ==
    (IF enableGcm THEN <<SRTP_AEAD_AES_256_GCM, SRTP_AEAD_AES_128_GCM>>
                  ELSE <<>>)
    \o <<SRTP_AES128_CM_SHA1_32, SRTP_AES128_CM_SHA1_80>>

(* srtp_cipher_map: the OpenSSL profile name of each id it lists. *)
SrtpCipherMap ==
    [id \in KnownSuites |->
        CASE id = SRTP_AES128_CM_SHA1_80 -> "SRTP_AES128_CM_SHA1_80"
          [] id = SRTP_AES128_CM_SHA1_32 -> "SRTP_AES128_CM_SHA1_32"
          [] id = SRTP_AEAD_AES_128_GCM  -> "SRTP_AEAD_AES_128_GCM"
          [] id = SRTP_AEAD_AES_256_GCM  -> "SRTP_AEAD_AES_256_GCM"]
ProfileNames == {SrtpCipherMap[id] : id \in KnownSuites}

(* Mutation: set_dtls_srtp_crypto_suites without its SSL_NONE check. *)
SetSuitesAcceptsAnyState(state, l) ==
    /\ \A i \in 1 .. Len(l) : l[i] \in DOMAIN SrtpCipherMap
    /\ l # <<>>

(* set_dtls_srtp_crypto_suites: refused outside SSL_NONE, on the first *)
(* id srtp_cipher_map lacks, and for an empty list; otherwise the       *)
(* colon-separated profile string, kept here as the sequence of names.  *)
SetSuitesAccepts(state, l) ==
    /\ state = "NONE"
    /\ \A i \in 1 .. Len(l) : l[i] \in DOMAIN SrtpCipherMap
    /\ l # <<>>
(* Mutation: the RFC suite names passed instead of OpenSSL's profile names. *)
ProfileListRfcNames(l) == [i \in 1 .. Len(l) |-> SrtpCryptoSuiteToName(l[i])]
ProfileList(l) == [i \in 1 .. Len(l) |-> SrtpCipherMap[l[i]]]

(* SSL_CTX_set_tlsext_use_srtp parses the list and refuses one that    *)
(* names a profile twice (SSL_R_BAD_SRTP_PROTECTION_PROFILE_LIST).      *)
HasDuplicate(p) == \E i, j \in 1 .. Len(p) : i < j /\ p[i] = p[j]
ProfileIds(p) == {id \in KnownSuites : \E i \in 1 .. Len(p) : p[i] = SrtpCipherMap[id]}

-----------------------------------------------------------------------------
VARIABLES
    state,         \* _state, abstracted to the steps that matter here
    srtp_ciphers,  \* _srtp_ciphers, as a sequence of profile names
    ssl,           \* _ssl: "null" or "live"
    selected,      \* profile OpenSSL selected in the handshake (0: none)
    peer           \* profiles the remote peer supports

vars == <<state, srtp_ciphers, ssl, selected, peer>>

States == {"NONE", "CONNECTING", "CONNECTED", "ERROR", "CLOSED"}

Init ==
    /\ state = "NONE"
    /\ srtp_ciphers = <<>>
    /\ ssl = "null"
    /\ selected = SRTP_INVALID_CRYPTO_SUITE
    /\ peer \in SUBSET KnownSuites

(* Mutation: get_dtls_srtp_crypto_suite without its SSL_CONNECTED check. *)
GetSrtpSuiteNoStateCheck(st, s, sel) == sel # SRTP_INVALID_CRYPTO_SUITE

(* get_dtls_srtp_crypto_suite: whether it returns true. *)
GetDtlsSrtpCryptoSuite(st, s, sel) ==
    /\ st = "CONNECTED"
    /\ sel # SRTP_INVALID_CRYPTO_SUITE

(* The consumer calls set_dtls_srtp_crypto_suites. *)
SetDtlsSrtpCryptoSuites ==
    /\ \E l \in CandidateLists :
         srtp_ciphers' = IF SetSuitesAccepts(state, l) THEN ProfileList(l)
                         ELSE srtp_ciphers
    /\ UNCHANGED <<state, ssl, selected, peer>>

(* start_SSL on an open stream: setup_SSL_context hands a non-empty     *)
(* list to SSL_CTX_set_tlsext_use_srtp; its failure makes begin_SSL     *)
(* fail and error_info end the session.                                 *)
StartSSL ==
    /\ state = "NONE"
    /\ IF srtp_ciphers # <<>> /\ HasDuplicate(srtp_ciphers)
         THEN state' = "ERROR" /\ UNCHANGED ssl
         ELSE state' = "CONNECTING" /\ ssl' = "live"
    /\ UNCHANGED <<srtp_ciphers, selected, peer>>

(* The handshake completes; use_srtp selects a profile both sides list, *)
(* or none when they share none.                                        *)
HandshakeDone ==
    /\ state = "CONNECTING"
    /\ state' = "CONNECTED"
    /\ LET common == ProfileIds(srtp_ciphers) \cap peer
       IN  selected' \in IF common = {} THEN {SRTP_INVALID_CRYPTO_SUITE}
                         ELSE common
    /\ UNCHANGED <<srtp_ciphers, ssl, peer>>

(* cleanup: _ssl freed, state SSL_CLOSED (SSL_ERROR kept). *)
Cleanup ==
    /\ state \in {"CONNECTING", "CONNECTED"}
    /\ state' = "CLOSED"
    /\ ssl' = "null"
    /\ UNCHANGED <<srtp_ciphers, selected, peer>>

Next ==
    \/ SetDtlsSrtpCryptoSuites
    \/ StartSSL
    \/ HandshakeDone
    \/ Cleanup

Spec == Init /\ [][Next]_vars

-----------------------------------------------------------------------------
(* Every variable has its type. *)
TypeOK ==
    /\ state \in States
    /\ srtp_ciphers \in Seq(ProfileNames)
    /\ ssl \in {"null", "live"}
    /\ selected \in KnownSuites \cup {SRTP_INVALID_CRYPTO_SUITE}
    /\ peer \subseteq KnownSuites

(* A suite that get_dtls_srtp_crypto_suite reports was offered by this *)
(* side through set_dtls_srtp_crypto_suites before negotiation began,  *)
(* the session is connected, and the suite has a name that maps back to *)
(* it and key and salt lengths (spec 3: the negotiated suite is set only *)
(* while Connected and only if negotiation was requested).              *)
NegotiatedSuiteOffered ==
    GetDtlsSrtpCryptoSuite(state, ssl, selected) =>
        /\ state = "CONNECTED"
        /\ ssl = "live"
        /\ selected \in ProfileIds(srtp_ciphers) \cap peer
        /\ SrtpCryptoSuiteFromName(SrtpCryptoSuiteToName(selected)) = selected
        /\ HasKeyAndSaltLengths(selected)

(* The inductive invariant behind NegotiatedSuiteOffered: negotiation   *)
(* runs on a live _ssl, and a selected profile exists only after         *)
(* start_SSL, is one both sides list, and stays one this side offered,   *)
(* because set_dtls_srtp_crypto_suites changes _srtp_ciphers only in     *)
(* SSL_NONE, to which the adapter never returns.                         *)
SuiteInvariant ==
    /\ TypeOK
    /\ state \in {"CONNECTING", "CONNECTED"} => ssl = "live"
    /\ selected # SRTP_INVALID_CRYPTO_SUITE =>
          /\ state # "NONE"
          /\ selected \in ProfileIds(srtp_ciphers) \cap peer

(* The suite tables agree with spec 4.4: every known id has a name that *)
(* maps back to it, GCM names exactly for the AEAD suites, 16/14 bytes  *)
(* for the baseline suites and 16/12 or 32/12 for the AEAD ones; an     *)
(* unknown id has no name and no lengths; the default offer prepends    *)
(* the AEAD suites only when enabled, and set_dtls_srtp_crypto_suites   *)
(* accepts it in SSL_NONE without naming a profile twice.               *)
SuiteTablesMatchSpec ==
    /\ \A id \in CandidateIds :
          IF id \in KnownSuites
          THEN /\ SrtpCryptoSuiteFromName(SrtpCryptoSuiteToName(id)) = id
               /\ HasKeyAndSaltLengths(id)
               /\ IsGcmCryptoSuiteName(SrtpCryptoSuiteToName(id))
                    <=> id \in {SRTP_AEAD_AES_128_GCM, SRTP_AEAD_AES_256_GCM}
               /\ SrtpKeyAndSaltLengths(id) =
                    IF id = SRTP_AEAD_AES_256_GCM THEN <<32, 12>>
                    ELSE IF id = SRTP_AEAD_AES_128_GCM THEN <<16, 12>>
                    ELSE <<16, 14>>
          ELSE /\ SrtpCryptoSuiteToName(id) = ""
               /\ ~HasKeyAndSaltLengths(id)
    /\ SrtpCryptoSuiteFromName("AES_CM_128_HMAC_SHA1_81") = SRTP_INVALID_CRYPTO_SUITE
    /\ \A gcm \in BOOLEAN :
          LET l == SupportedDtlsSrtpCryptoSuites(gcm)
          IN  /\ SetSuitesAccepts("NONE", l)
              /\ ~HasDuplicate(ProfileList(l))
              /\ {l[i] : i \in 1 .. Len(l)} =
                   IF gcm THEN KnownSuites
                   ELSE {SRTP_AES128_CM_SHA1_32, SRTP_AES128_CM_SHA1_80}
              /\ gcm => IsGcmCryptoSuiteName(SrtpCryptoSuiteToName(l[1]))

=============================================================================
