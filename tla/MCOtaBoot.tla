------------------------------ MODULE MCOtaBoot ------------------------------
(* OtaBoot with sectors of three pages and images of up to three sectors.    *)
EXTENDS OtaBoot
=============================================================================
