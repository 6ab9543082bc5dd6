---------------------------- MODULE MCSrtpSuites ----------------------------
(* Model-checking instance of SrtpSuites: candidate lists of up to three *)
(* ids, so that a list naming a profile twice and a list with an unknown *)
(* id after a known one both occur.                                      *)
EXTENDS SrtpSuites

MCMaxOffer == 3
=============================================================================
