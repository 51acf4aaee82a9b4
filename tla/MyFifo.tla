------------------------------- MODULE MyFifo --------------------------------
(* The ring buffer my_fifo_t: its write and read indices are unsigned      *)
(* bytes that run on and wrap, and address one of num slots by their low   *)
(* bits.                                                                   *)
EXTENDS Integers

CONSTANT Wrap   \* values of an index, 256 in the code

ASSUME WrapAssumption == Wrap \in Nat \ {0}

Index == 0 .. (Wrap - 1)
Slots(num) == 0 .. (num - 1)

(* Mutations: an index that does not wrap, a ring that is full one entry   *)
(* too late.                                                               *)
IncNoWrap(x) == x + 1
FullLate(wptr, rptr, num) == (wptr - rptr) % Wrap > num

Inc(x) == (x + 1) % Wrap
Slot(x, num) == x % num
Count(wptr, rptr) == (wptr - rptr) % Wrap
Full(wptr, rptr, num) == Count(wptr, rptr) >= num
=============================================================================
