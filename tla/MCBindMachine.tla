---------------------------- MODULE MCBindMachine ----------------------------
(***************************************************************************)
(* Two segments, the second of which ends at the last address there is,    *)
(* and infos of up to five commands from vocabularies that each go after   *)
(* one part of the machine: the settings, the moves of the bind location   *)
(* on and off the end of a segment and of the address space, the counted   *)
(* loop, threaded chains, lazy and weak infos.  The chains' deltas let     *)
(* them end, leave their segment, and visit the same place from two        *)
(* commands.                                                               *)
(***************************************************************************)
EXTENDS BindMachine

Cmd(op, size, n, k) == [op |-> op, size |-> size, n |-> n, k |-> k]

At(n, k) == Cmd("SET_SEGMENT_AND_OFFSET_ULEB", 2, n, k)
Bind == Cmd("DO_BIND", 1, 0, 0)
Finish == Cmd("DONE", 1, 0, 0)
Ordinal == Cmd("SET_DYLIB_ORDINAL", 1, 2, 0)
Symbol == Cmd("SET_SYMBOL", 3, 1, 0)
Addend == Cmd("SET_ADDEND", 2, -3, 0)
Type == Cmd("SET_TYPE", 1, 1, 0)
Times(n, k) == Cmd("DO_BIND_ULEB_TIMES_SKIPPING_ULEB", 3, n, k)
Scaled(n) == Cmd("DO_BIND_ADD_ADDR_IMM_SCALED", 1, n, 0)
BindAdd(n) == Cmd("DO_BIND_ADD_ADDR_ULEB", 2, n, 0)
Move(n) == Cmd("ADD_ADDR_ULEB", 2, n, 0)
TableSize == Cmd("THREADED_SET_TABLE_SIZE", 2, 1, 0)
Apply == Cmd("THREADED_APPLY", 1, 0, 0)

Info(kind, nodeSize, cs) == [kind |-> kind, nodeSize |-> nodeSize, commands |-> cs]

MCSegments == <<[vmAddress |-> 8, vmSize |-> 24], [vmAddress |-> 48, vmSize |-> 15]>>

MCInfos ==
  {Info("bind", 0, {Bind}),
   Info("bind", 8, {At(0, 0), Ordinal, Symbol, Type, Addend, Bind, Finish}),
   Info("bind", 8, {At(0, 0), At(16, 1), At(8, 2), Bind, BindAdd(60), BindAdd(0), Scaled(1), Move(-8)}),
   Info("bind", 8, {At(0, 0), At(7, 1), Times(0, 0), Times(3, 0), Times(3, 40), Times(2, 56),
                    Move(20), Move(-20), Bind}),
   Info("bind", 8, {At(0, 0), Ordinal, Bind, TableSize, Apply}),
   Info("weak", 6, {At(8, 0), At(0, 1), Ordinal, Symbol, Bind, TableSize, Apply, Finish}),
   Info("lazy", 7, {At(0, 0), At(8, 0), Ordinal, Symbol, Bind, Finish, Times(2, 0), Apply})}

MCLinks == {l \in [isBind : BOOLEAN, ordinal : {0, 1}, delta : 0 .. 2] : l.isBind \/ l.ordinal = 0}
==============================================================================
