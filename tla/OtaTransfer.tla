----------------------------- MODULE OtaTransfer -----------------------------
(***************************************************************************)
(* What a firmware update by the dongle promises: the slave that was told  *)
(* to start receives the 16-byte chunks of one image, in order and without *)
(* a gap, sees the end only behind the last of them, and an update is only *)
(* reported as done when the slave has seen that end.  It may be given up  *)
(* at any time, and the slave may be lost at any time.                     *)
(***************************************************************************)
EXTENDS Integers, Sequences

CONSTANTS
  Image,     \* the firmware images the dongle holds
  Chunks     \* their number of chunks

VARIABLES
  busy,      \* the image being sent, or none
  slave,     \* what the connected slave has received since its last start
  outcome    \* of the last update

NoImage == 0
NoSlave == [img |-> NoImage, got |-> <<>>, ended |-> FALSE]

Init == busy = NoImage /\ slave = NoSlave /\ outcome = "none"

Begin(i) == busy = NoImage /\ busy' = i /\ UNCHANGED <<slave, outcome>>

Start(i) == /\ slave' = [img |-> i, got |-> <<>>, ended |-> FALSE]
            /\ UNCHANGED <<busy, outcome>>

Data == /\ slave.img # NoImage /\ ~slave.ended
        /\ Len(slave.got) < Chunks[slave.img]
        /\ slave' = [slave EXCEPT !.got = Append(@, <<slave.img, Len(@)>>)]
        /\ UNCHANGED <<busy, outcome>>

End == /\ slave.img # NoImage /\ ~slave.ended
       /\ Len(slave.got) = Chunks[slave.img]
       /\ slave' = [slave EXCEPT !.ended = TRUE]
       /\ UNCHANGED <<busy, outcome>>

Succeed == /\ slave.img = busy /\ slave.ended
           /\ busy' = NoImage /\ outcome' = "ok" /\ UNCHANGED slave

Fail == busy' = NoImage /\ outcome' = "fail" /\ UNCHANGED slave

Lose == slave' = NoSlave /\ UNCHANGED <<busy, outcome>>

Next == (\E i \in Image : Begin(i) \/ Start(i)) \/ Data \/ End \/ Succeed \/ Fail \/ Lose

Spec == Init /\ [][Next]_<<busy, slave, outcome>>
=============================================================================
