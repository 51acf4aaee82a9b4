----------------------------- MODULE MCSppUart -------------------------------
(* SppUart with rings of two slots and indices that wrap at four.          *)
EXTENDS SppUart
=============================================================================
