--------------------------- MODULE MCTaskMemoryMap ---------------------------
(***************************************************************************)
(* Four target pages of two bytes and a heap of three pages. Two threads   *)
(* of a program that maps with MachOKit, or one of a program that maps     *)
(* with libMachO: what that one leaks multiplies the states. The target    *)
(* starts out whole, as one region or with a hole, and reserved2 happens   *)
(* to hold no page, or two. The requests start on and off a page boundary, *)
(* cover nothing, part of a page, one page and several, end on the last    *)
(* page the arithmetic admits and past it, and overflow in the offset, in  *)
(* the length and in the rounding; each may be made in full or not.        *)
(***************************************************************************)
EXTENDS TaskMemoryMap

Range(o, a, l, full) == [offset |-> o, address |-> a, length |-> l, requireFull |-> full]

MCHeapPages == 1 .. 3
MCTargets == {0 .. 3, {1, 2}, {0, 2}}
MCRequests ==
  {Range(0, 2, 2, TRUE), Range(1, 2, 2, TRUE), Range(0, 1, 3, FALSE), Range(1, 1, 0, TRUE),
   Range(3, 6, 1, TRUE), Range(0, 6, 7, TRUE), Range(0, 5, 3, TRUE), Range(1, 2, 6, FALSE)}

\* For the runs that ask one question of libMachO.
MCOneThread == {Range(0, 2, 2, TRUE), Range(1, 0, 2, TRUE), Range(0, 2, 2, FALSE)}
==============================================================================
