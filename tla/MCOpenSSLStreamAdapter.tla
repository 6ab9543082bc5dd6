----------------------- MODULE MCOpenSSLStreamAdapter -----------------------
(* Model-checking instance of OpenSSLStreamAdapter: two certificates (the *)
(* one the consumer trusts and an impostor's), two registry algorithms of *)
(* different sizes and one unknown name, so that every early return of    *)
(* set_peer_certificate_digest is reachable.                              *)
EXTENDS OpenSSLStreamAdapter, TLC

MCKnownAlgs == {"sha-1", "sha-256"}
MCUnknownAlgs == {"md2"}
MCLengths == {20, 32}
MCDigestSize == ("sha-1" :> 20) @@ ("sha-256" :> 32)
MCSymmetry == Permutations(Certs)
=============================================================================
