------------------------------ MODULE MCKeyScan ------------------------------
(* KeyScan with two keys on different scan pins.                           *)
EXTENDS KeyScan, TLC

CONSTANTS a, b

ColOf == (a :> 0) @@ (b :> 1)
=============================================================================
