------------------------------ MODULE SrtpSuitesProofs ------------------------------
(***************************************************************************)
(* Proofs about SrtpSuites for every bound MaxOffer on the candidate      *)
(* lists: the type invariant, and that a suite get_dtls_srtp_crypto_suite *)
(* reports was offered by both sides and has a name and key lengths,      *)
(* through the inductive invariant SuiteInvariant.                        *)
(***************************************************************************)
EXTENDS SrtpSuites, SequenceTheorems, TLAPS

-----------------------------------------------------------------------------
(* The tables: every known suite id has a name that maps back to it, and  *)
(* key and salt lengths (srtp_crypto_suite_to_name / _from_name,          *)
(* get_srtp_key_and_salt_lengths).                                        *)
LEMMA KnownSuiteTables ==
    ASSUME NEW id \in KnownSuites
    PROVE  /\ SrtpCryptoSuiteFromName(SrtpCryptoSuiteToName(id)) = id
           /\ HasKeyAndSaltLengths(id)
BY DEF KnownSuites, SrtpCryptoSuiteFromName, SrtpCryptoSuiteToName,
       HasKeyAndSaltLengths, SRTP_AES128_CM_SHA1_80, SRTP_AES128_CM_SHA1_32,
       SRTP_AEAD_AES_128_GCM, SRTP_AEAD_AES_256_GCM

(* Every candidate list is a finite sequence of candidate ids. *)
LEMMA CandidateListIsSeq ==
    ASSUME NEW l \in CandidateLists
    PROVE  l \in Seq(CandidateIds)
<1>1. PICK n \in 0 .. MaxOffer : l \in [1 .. n -> CandidateIds]
  BY DEF CandidateLists
<1>2. n \in Nat
  BY MaxOfferAssumption
<1>3. QED
  BY <1>1, <1>2, SeqDef

(* A list set_dtls_srtp_crypto_suites accepts becomes a sequence of the  *)
(* profile names srtp_cipher_map lists.                                  *)
LEMMA ProfileListType ==
    ASSUME NEW st, NEW l \in CandidateLists, SetSuitesAccepts(st, l)
    PROVE  ProfileList(l) \in Seq(ProfileNames)
<1>1. l \in Seq(CandidateIds)
  BY CandidateListIsSeq
<1>2. Len(l) \in Nat
  BY <1>1, LenProperties
<1>3. \A i \in 1 .. Len(l) : SrtpCipherMap[l[i]] \in ProfileNames
  BY DEF SetSuitesAccepts, ProfileNames, SrtpCipherMap
<1>4. QED
  BY <1>2, <1>3, SeqDef DEF ProfileList

-----------------------------------------------------------------------------
LEMMA SuiteInit == Init => SuiteInvariant
<1> SUFFICES ASSUME Init PROVE SuiteInvariant
  OBVIOUS
<1>1. srtp_ciphers \in Seq(ProfileNames)
  BY EmptySeq DEF Init
<1>2. QED
  BY <1>1 DEF Init, SuiteInvariant, TypeOK, States, KnownSuites

(* Every step keeps SuiteInvariant. *)
LEMMA SuiteStep == SuiteInvariant /\ [Next]_vars => SuiteInvariant'
<1> SUFFICES ASSUME SuiteInvariant, [Next]_vars PROVE SuiteInvariant'
  OBVIOUS
<1> USE DEF SuiteInvariant, TypeOK, States
<1>1. CASE SetDtlsSrtpCryptoSuites
  <2>1. PICK l \in CandidateLists :
          srtp_ciphers' = IF SetSuitesAccepts(state, l) THEN ProfileList(l)
                          ELSE srtp_ciphers
    BY <1>1 DEF SetDtlsSrtpCryptoSuites
  <2>2. UNCHANGED <<state, ssl, selected, peer>>
    BY <1>1 DEF SetDtlsSrtpCryptoSuites
  <2>3. CASE SetSuitesAccepts(state, l)
    (* Only in SSL_NONE, where no profile has been selected yet. *)
    <3>1. state = "NONE" /\ selected = SRTP_INVALID_CRYPTO_SUITE
      BY <2>3 DEF SetSuitesAccepts
    <3>2. ProfileList(l) \in Seq(ProfileNames)
      BY <2>3, ProfileListType
    <3>3. QED
      BY <2>1, <2>2, <2>3, <3>1, <3>2
  <2>4. CASE ~SetSuitesAccepts(state, l)
    BY <2>1, <2>2, <2>4
  <2>5. QED
    BY <2>3, <2>4
<1>2. CASE StartSSL
  (* From SSL_NONE, where nothing is selected; SSL_CONNECTING gets a live *)
  (* _ssl, SSL_ERROR keeps the null one.                                  *)
  <2>1. selected = SRTP_INVALID_CRYPTO_SUITE
    BY <1>2 DEF StartSSL
  <2>2. QED
    BY <1>2, <2>1 DEF StartSSL
<1>3. CASE HandshakeDone
  <2> DEFINE common == ProfileIds(srtp_ciphers) \cap peer
  <2>1. selected' \in IF common = {} THEN {SRTP_INVALID_CRYPTO_SUITE} ELSE common
    BY <1>3 DEF HandshakeDone
  <2>2. common \subseteq KnownSuites
    BY DEF ProfileIds
  <2>3. QED
    BY <1>3, <2>1, <2>2 DEF HandshakeDone
<1>4. CASE Cleanup
  BY <1>4 DEF Cleanup
<1>5. CASE UNCHANGED vars
  BY <1>5 DEF vars
<1>6. QED
  BY <1>1, <1>2, <1>3, <1>4, <1>5 DEF Next

(* The strengthening holds in every state. *)
THEOREM SuiteInvariantHolds == Spec => []SuiteInvariant
BY SuiteInit, SuiteStep, PTL DEF Spec

(* Every variable keeps its type, for every MaxOffer: _srtp_ciphers only *)
(* ever holds profile names srtp_cipher_map lists.                        *)
THEOREM TypeCorrect == Spec => []TypeOK
<1>1. SuiteInvariant => TypeOK
  BY DEF SuiteInvariant
<1>2. QED
  BY SuiteInvariantHolds, <1>1, PTL

(* get_dtls_srtp_crypto_suite reports a suite only while connected on a *)
(* live _ssl, the suite is one this side offered through               *)
(* set_dtls_srtp_crypto_suites and the peer supports, and it has a name *)
(* that maps back to it and key and salt lengths: whatever the          *)
(* consumer's lists and calls, for every MaxOffer.                      *)
THEOREM NegotiatedSuiteOfferedHolds == Spec => []NegotiatedSuiteOffered
<1>1. SuiteInvariant => NegotiatedSuiteOffered
  <2> SUFFICES ASSUME SuiteInvariant, GetDtlsSrtpCryptoSuite(state, ssl, selected)
               PROVE  /\ state = "CONNECTED"
                      /\ ssl = "live"
                      /\ selected \in ProfileIds(srtp_ciphers) \cap peer
                      /\ SrtpCryptoSuiteFromName(SrtpCryptoSuiteToName(selected)) = selected
                      /\ HasKeyAndSaltLengths(selected)
    BY DEF NegotiatedSuiteOffered
  <2>1. /\ state = "CONNECTED" /\ ssl = "live"
        /\ selected \in ProfileIds(srtp_ciphers) \cap peer
    BY DEF SuiteInvariant, GetDtlsSrtpCryptoSuite
  <2>2. selected \in KnownSuites
    BY <2>1 DEF ProfileIds
  <2>3. QED
    BY <2>1, <2>2, KnownSuiteTables
<1>2. QED
  BY SuiteInvariantHolds, <1>1, PTL

-----------------------------------------------------------------------------
(* The default offer of get_supported_dtls_srtp_crypto_suites, spelled  *)
(* out.                                                                  *)
LEMMA SupportedSuitesValue ==
    /\ SupportedDtlsSrtpCryptoSuites(TRUE) =
          <<SRTP_AEAD_AES_256_GCM, SRTP_AEAD_AES_128_GCM,
            SRTP_AES128_CM_SHA1_32, SRTP_AES128_CM_SHA1_80>>
    /\ SupportedDtlsSrtpCryptoSuites(FALSE) =
          <<SRTP_AES128_CM_SHA1_32, SRTP_AES128_CM_SHA1_80>>
<1> DEFINE gcm == <<SRTP_AEAD_AES_256_GCM, SRTP_AEAD_AES_128_GCM>>
           base == <<SRTP_AES128_CM_SHA1_32, SRTP_AES128_CM_SHA1_80>>
           all == <<SRTP_AEAD_AES_256_GCM, SRTP_AEAD_AES_128_GCM,
                    SRTP_AES128_CM_SHA1_32, SRTP_AES128_CM_SHA1_80>>
<1>1. gcm \in Seq(Nat) /\ base \in Seq(Nat) /\ all \in Seq(Nat)
  BY DEF SRTP_AES128_CM_SHA1_80, SRTP_AES128_CM_SHA1_32,
         SRTP_AEAD_AES_128_GCM, SRTP_AEAD_AES_256_GCM
<1>2. gcm \o base = all
  <2>1. /\ gcm \o base \in Seq(Nat)
        /\ Len(gcm \o base) = 4
        /\ \A i \in 1 .. 4 : (gcm \o base)[i] = IF i <= 2 THEN gcm[i] ELSE base[i - 2]
    BY <1>1, ConcatProperties
  <2>2. \A i \in 1 .. 4 : (gcm \o base)[i] = all[i]
    BY <2>1
  <2>3. QED
    BY <1>1, <2>1, <2>2, SeqEqual
<1>3. <<>> \o base = base
  BY <1>1, ConcatEmptySeq
<1>4. QED
  BY <1>2, <1>3 DEF SupportedDtlsSrtpCryptoSuites

(* The suite tables and the default offer agree with spec 4.4: names    *)
(* that map back, GCM names exactly for the AEAD suites, the key and    *)
(* salt lengths, nothing for an unknown id, and a default offer that     *)
(* set_dtls_srtp_crypto_suites accepts without naming a profile twice.  *)
THEOREM SuiteTablesHold == SuiteTablesMatchSpec
<1> USE DEF SRTP_AES128_CM_SHA1_80, SRTP_AES128_CM_SHA1_32,
            SRTP_AEAD_AES_128_GCM, SRTP_AEAD_AES_256_GCM, SRTP_INVALID_CRYPTO_SUITE
<1>1. \A id \in CandidateIds :
          IF id \in KnownSuites
          THEN /\ SrtpCryptoSuiteFromName(SrtpCryptoSuiteToName(id)) = id
               /\ HasKeyAndSaltLengths(id)
               /\ IsGcmCryptoSuiteName(SrtpCryptoSuiteToName(id))
                    <=> id \in {SRTP_AEAD_AES_128_GCM, SRTP_AEAD_AES_256_GCM}
               /\ SrtpKeyAndSaltLengths(id) =
                    IF id = SRTP_AEAD_AES_256_GCM THEN <<32, 12>>
                    ELSE IF id = SRTP_AEAD_AES_128_GCM THEN <<16, 12>>
                    ELSE <<16, 14>>
          ELSE /\ SrtpCryptoSuiteToName(id) = ""
               /\ ~HasKeyAndSaltLengths(id)
  BY DEF CandidateIds, KnownSuites, SrtpCryptoSuiteFromName, SrtpCryptoSuiteToName,
         HasKeyAndSaltLengths, IsGcmCryptoSuiteName, SrtpKeyAndSaltLengths
<1>2. SrtpCryptoSuiteFromName("AES_CM_128_HMAC_SHA1_81") = SRTP_INVALID_CRYPTO_SUITE
  BY DEF SrtpCryptoSuiteFromName
<1>3. ASSUME NEW gcm \in BOOLEAN
      PROVE  LET l == SupportedDtlsSrtpCryptoSuites(gcm)
             IN  /\ SetSuitesAccepts("NONE", l)
                 /\ ~HasDuplicate(ProfileList(l))
                 /\ {l[i] : i \in 1 .. Len(l)} =
                      IF gcm THEN KnownSuites
                      ELSE {SRTP_AES128_CM_SHA1_32, SRTP_AES128_CM_SHA1_80}
                 /\ gcm => IsGcmCryptoSuiteName(SrtpCryptoSuiteToName(l[1]))
  <2>1. CASE gcm
    <3> DEFINE l == <<8, 7, 2, 1>>
    <3>1. SupportedDtlsSrtpCryptoSuites(gcm) = l
      BY <2>1, SupportedSuitesValue
    <3>2. ProfileList(l) = <<"SRTP_AEAD_AES_256_GCM", "SRTP_AEAD_AES_128_GCM",
                             "SRTP_AES128_CM_SHA1_32", "SRTP_AES128_CM_SHA1_80">>
      BY DEF ProfileList, SrtpCipherMap, KnownSuites
    <3>3. SetSuitesAccepts("NONE", l)
      BY DEF SetSuitesAccepts, SrtpCipherMap, KnownSuites
    <3>4. ~HasDuplicate(ProfileList(l))
      BY <3>2 DEF HasDuplicate
    <3>5. {l[i] : i \in 1 .. Len(l)} = KnownSuites
      BY DEF KnownSuites
    <3>6. IsGcmCryptoSuiteName(SrtpCryptoSuiteToName(l[1]))
      BY DEF IsGcmCryptoSuiteName, SrtpCryptoSuiteToName
    <3>7. QED
      BY <2>1, <3>1, <3>3, <3>4, <3>5, <3>6
  <2>2. CASE ~gcm
    <3> DEFINE l == <<2, 1>>
    <3>1. SupportedDtlsSrtpCryptoSuites(gcm) = l
      BY <2>2, SupportedSuitesValue
    <3>2. ProfileList(l) = <<"SRTP_AES128_CM_SHA1_32", "SRTP_AES128_CM_SHA1_80">>
      BY DEF ProfileList, SrtpCipherMap, KnownSuites
    <3>3. SetSuitesAccepts("NONE", l)
      BY DEF SetSuitesAccepts, SrtpCipherMap, KnownSuites
    <3>4. ~HasDuplicate(ProfileList(l))
      BY <3>2 DEF HasDuplicate
    <3>5. {l[i] : i \in 1 .. Len(l)} = {2, 1}
      OBVIOUS
    <3>6. QED
      BY <2>2, <3>1, <3>3, <3>4, <3>5
  <2>3. QED
    BY <2>1, <2>2
<1>4. QED
  BY <1>1, <1>2, <1>3 DEF SuiteTablesMatchSpec

=============================================================================
