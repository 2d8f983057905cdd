--------------------------- MODULE MCRebaseMachine ---------------------------
(***************************************************************************)
(* Two segments, the second near the end of the address space, and infos   *)
(* of up to five commands: type and segment settings, one of a segment     *)
(* that is not there; moves on and off the end of a segment and of the     *)
(* address space; loops that make no fixup, several, run off the segment,  *)
(* overflow, and stand still because skip and pointer size wrap to zero.   *)
(***************************************************************************)
EXTENDS RebaseMachine

Cmd(op, size, n, k) == [op |-> op, size |-> size, n |-> n, k |-> k]

At(n, k) == Cmd("SET_SEGMENT_AND_OFFSET_ULEB", 2, n, k)
Type(n) == Cmd("SET_TYPE_IMM", 1, n, 0)
Move(n) == Cmd("ADD_ADDR_ULEB", 2, n, 0)
MoveBy(n) == Cmd("ADD_ADDR_IMM_SCALED", 1, n, 0)
Times(n) == Cmd("DO_REBASE_IMM_TIMES", 1, n, 0)
ManyTimes(n) == Cmd("DO_REBASE_ULEB_TIMES", 2, n, 0)
AndMove(n) == Cmd("DO_REBASE_ADD_ADDR_ULEB", 2, n, 0)
Skipping(n, k) == Cmd("DO_REBASE_ULEB_TIMES_SKIPPING_ULEB", 3, n, k)
Finish == Cmd("DONE", 1, 0, 0)

Info(nodeSize, cs) == [nodeSize |-> nodeSize, commands |-> cs]

MCSegments == <<[vmAddress |-> 8, vmSize |-> 24], [vmAddress |-> 48, vmSize |-> 15]>>

MCInfos ==
  {Info(0, {Finish}),
   Info(7, {At(0, 0), At(7, 1), At(0, 2), Type(1), Type(2), Times(1), Times(2), Finish}),
   Info(8, {At(8, 0), Move(8), Move(60), MoveBy(1), AndMove(0), AndMove(4), AndMove(60), ManyTimes(2)}),
   Info(8, {At(0, 0), At(4, 1), MoveBy(2), Skipping(0, 4), Skipping(2, 4), Skipping(3, 40),
            Skipping(2, 60), ManyTimes(9)})}
==============================================================================
