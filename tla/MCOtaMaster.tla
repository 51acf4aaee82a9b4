----------------------------- MODULE MCOtaMaster -----------------------------
(* OtaMaster with two slaves, an image of two chunks, the second of them   *)
(* half empty, and one too big.                                            *)
EXTENDS OtaMaster

CONSTANTS s1, s2

TwoAndTooBig == <<24, 80>>
=============================================================================
