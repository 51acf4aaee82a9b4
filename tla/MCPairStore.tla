----------------------------- MODULE MCPairStore -----------------------------
(* PairStore with two or one bonds, a sector of a few records and power    *)
(* failures at every step.                                                 *)
EXTENDS PairStore

CONSTANTS a1, a2, a3

(* An interrupted erase has not reached a record, or left it blank, with a *)
(* torn mark, or marked as a bond.                                         *)
TornBytes == {[mark |-> AsItWas, adr |-> AsItWas], [mark |-> Blank, adr |-> Blank],
              [mark |-> Junk, adr |-> AsItWas], [mark |-> Bond, adr |-> AsItWas]}
Whole == {[mark |-> AsItWas, adr |-> AsItWas], [mark |-> Blank, adr |-> Blank]}

(* The slaves are told apart only by equality; what was added and removed  *)
(* matters to the properties only while every sector was readable, and     *)
(* what is owed only while no clean was cut.                               *)
Symmetric == Permutations(Addr)
Observed == <<flash, pc, tbl, cfgIdx, pend, k, adds, scar,
              IF scar # "none" THEN <<>>
              ELSE <<dropped \cap Addr, cleanCut, IF cleanCut THEN {} ELSE owed>> >>
=============================================================================
