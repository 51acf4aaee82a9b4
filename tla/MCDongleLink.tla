---------------------------- MODULE MCDongleLink -----------------------------
(* DongleLink with two slaves, of which one fits the table.                *)
EXTENDS DongleLink

CONSTANTS s1, s2
=============================================================================
