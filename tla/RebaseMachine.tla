---------------------------- MODULE RebaseMachine ----------------------------
(***************************************************************************)
(* From the bytes of a rebase info to the list of fixups                   *)
(* (MachOKit/Rebase).  The info is parsed into commands up to DONE, and    *)
(* the commands are run over a context: they set the type, set or move the *)
(* fixup location, or make fixups in a loop, one step per turn.            *)
(*                                                                         *)
(* A command is [op, size, n, k]: its opcode, its bytes, and its operands: *)
(* n a count, an offset, a scale or a type, k a skip or a segment index.   *)
(***************************************************************************)
EXTENDS VMArith, Sequences, FiniteSetsExt

CONSTANTS PointerSize,    \* dataModel.pointerSize
          Segments,       \* the image's segments in order, [vmAddress, vmSize]
          Infos,          \* the infos: [nodeSize, commands], the last what may be in one
          MaxCommands     \* bound on the commands of an info

Loops == {"DO_REBASE_IMM_TIMES", "DO_REBASE_ULEB_TIMES", "DO_REBASE_ADD_ADDR_ULEB",
          "DO_REBASE_ULEB_TIMES_SKIPPING_ULEB"}
Opcodes == {"DONE", "SET_TYPE_IMM", "SET_SEGMENT_AND_OFFSET_ULEB", "ADD_ADDR_ULEB",
            "ADD_ADDR_IMM_SCALED"} \cup Loops

ASSUME RebaseAssumption ==
  /\ PointerSize \in {4, 8}
  /\ Segments \in Seq([vmAddress : Word, vmSize : Word])
  /\ \A info \in Infos :
       /\ info.nodeSize \in Nat
       /\ info.commands \subseteq [op : Opcodes, size : Nat \ {0}, n : Word, k : Word]
  /\ MaxCommands \in Nat

VARIABLES info,         \* the info being read
          commands,     \* its commands, each with the offset it was found `at'
          phase,        \* "parse", "run", "loop" or "done"
          next,         \* the command being run, or to be run next
          turns,        \* the turns left in a loop
          context,      \* struct MKRebaseContext
          fixups,       \* the fixups so far, each with the index of its command in `by'
          keepGoing,
          thrown        \* an exception has ended it all

vars == <<info, commands, phase, next, turns, context, fixups, keepGoing, thrown>>

Contexts == [start : Nat, command : BOOLEAN, type : Word, segmentIndex : Word, offset : Word]
Fixups == [start : Nat, by : Nat, type : Word, segment : DOMAIN Segments, offset : Word]

TypeOK ==
  /\ info \in Infos
  /\ commands \in Seq([c : info.commands, at : Nat]) /\ Len(commands) <= MaxCommands
  /\ phase \in {"parse", "run", "loop", "done"}
  /\ next \in 1 .. (Len(commands) + 1)
  /\ turns \in Word
  /\ context \in Contexts
  /\ fixups \in Seq(Fixups)
  /\ keepGoing \in BOOLEAN /\ thrown \in BOOLEAN

\* "Initialize the rebase context to zero in order to match dyld's behavior."
ZeroContext == [start |-> 0, command |-> FALSE, type |-> 0, segmentIndex |-> 0, offset |-> 0]

Init ==
  /\ info \in Infos
  /\ commands = << >> /\ fixups = << >>
  /\ phase = IF info.nodeSize = 0 THEN "done" ELSE "parse"
  /\ next = 1 /\ turns = 0
  /\ context = ZeroContext
  /\ keepGoing = TRUE /\ thrown = FALSE

----------------------------------------------------------------------------
(* Parsing.                                                                *)

ParseOffset ==
  IF commands = << >> THEN 0 ELSE commands[Len(commands)].at + commands[Len(commands)].c.size

\* "Stop parsing once we hit a DONE opcode."  Operands at the very end are looked for behind it.
ParseCommand ==
  /\ phase = "parse" /\ ~ thrown /\ ParseOffset < info.nodeSize /\ Len(commands) < MaxCommands
  /\ \E c \in info.commands :
       /\ commands' = Append(commands, [c |-> c, at |-> ParseOffset])
       /\ phase' = IF c.op = "DONE" THEN "run" ELSE "parse"
  /\ UNCHANGED <<info, next, turns, context, fixups, keepGoing, thrown>>

\* The end of the info, or bytes that cannot be read: the commands so far are run.
ParseEnds ==
  /\ phase = "parse" /\ ~ thrown
  /\ phase' = IF commands = << >> THEN "done" ELSE "run"
  /\ UNCHANGED <<info, commands, next, turns, context, fixups, keepGoing, thrown>>

UnknownOpcode ==
  /\ phase = "parse" /\ ~ thrown /\ ParseOffset < info.nodeSize
  /\ thrown' = TRUE
  /\ UNCHANGED <<info, commands, phase, next, turns, context, fixups, keepGoing>>

----------------------------------------------------------------------------
(* Fixups.                                                                 *)

\* Mutant of MakeFixup: the offset is compared with the end of the segment.
MakeFixupLoose(ctx) ==
  IF ctx.segmentIndex >= Len(Segments) THEN Fails("ENOT_FOUND")
  ELSE LET s == Segments[ctx.segmentIndex + 1]
       IN  IF ctx.offset >= s.vmAddress + s.vmSize THEN Fails("EOUT_OF_RANGE")
           ELSE Ok([start |-> ctx.start, by |-> next, type |-> ctx.type,
                    segment |-> ctx.segmentIndex + 1, offset |-> ctx.offset])

\* -[MKFixup initWithContext:error:]: the segment is looked up, and its range checked, only here.
MakeFixup(ctx) ==
  IF ctx.segmentIndex >= Len(Segments) THEN Fails("ENOT_FOUND")
  ELSE LET s == Segments[ctx.segmentIndex + 1]
           inside == mk_vm_range_contains_address(mk_vm_range_make(s.vmAddress, s.vmSize),
                                                  ctx.offset, s.vmAddress)
       IN  IF ~ Succeeded(inside) THEN Fails(inside.err)
           ELSE Ok([start |-> ctx.start, by |-> next, type |-> ctx.type,
                    segment |-> ctx.segmentIndex + 1, offset |-> ctx.offset])

----------------------------------------------------------------------------
(* Running a command.                                                      *)

Command == commands[next].c

Running(ops) == phase = "run" /\ next <= Len(commands) /\ Command.op \in ops

\* A command is the start of a fixup unless the one before it left its own in the context.
Begun ==
  IF context.command THEN context
  ELSE [context EXCEPT !.start = commands[next].at, !.command = TRUE]

\* Mutants of EndCommand: the failure of a fixup is overwritten; a command that failed is run again.
EndCommandForgets(ctx, success) ==
  /\ context' = ctx
  /\ keepGoing' = success
  /\ next' = next + 1
  /\ phase' = IF keepGoing' /\ next' <= Len(commands) THEN "run" ELSE "done"
  /\ turns' = 0
  /\ UNCHANGED <<info, commands, fixups, thrown>>

EndCommandRetries(ctx, success) ==
  /\ context' = ctx
  /\ next' = IF success THEN next + 1 ELSE next
  /\ phase' = IF keepGoing /\ next' <= Len(commands) THEN "run" ELSE "done"
  /\ turns' = 0
  /\ UNCHANGED <<info, commands, fixups, keepGoing, thrown>>

\* keepGoing &= [command rebase:...].
EndCommand(ctx, success) ==
  /\ context' = ctx
  /\ keepGoing' = (keepGoing /\ success)
  /\ next' = next + 1
  /\ phase' = IF keepGoing' /\ next' <= Len(commands) THEN "run" ELSE "done"
  /\ turns' = 0
  /\ UNCHANGED <<info, commands, fixups, thrown>>

SetType == Running({"SET_TYPE_IMM"}) /\ EndCommand([Begun EXCEPT !.type = Command.n], TRUE)

SetSegmentAndOffset ==
  /\ Running({"SET_SEGMENT_AND_OFFSET_ULEB"})
  /\ EndCommand([Begun EXCEPT !.segmentIndex = Command.k, !.offset = Command.n], TRUE)

\* By an offset, or by a number of pointers.
AddAddress ==
  LET by == IF Command.op = "ADD_ADDR_ULEB" THEN Command.n ELSE Command.n * PointerSize
      moved == mk_vm_offset_add(Begun.offset, by)
  IN  /\ Running({"ADD_ADDR_ULEB", "ADD_ADDR_IMM_SCALED"})
      /\ IF Succeeded(moved) THEN EndCommand([Begun EXCEPT !.offset = moved.value], TRUE)
                             ELSE EndCommand(Begun, FALSE)

Done == Running({"DONE"}) /\ EndCommand([Begun EXCEPT !.command = FALSE], FALSE)

\* The fixups of a loop.
Count(c) == IF c.op = "DO_REBASE_ADD_ADDR_ULEB" THEN 1 ELSE c.n

\* Mutant of Stride: what is skipped is taken for the whole step.
StrideShort(c) ==
  CASE c.op = "DO_REBASE_ADD_ADDR_ULEB" -> Wrap(c.n + PointerSize)
    [] c.op = "DO_REBASE_ULEB_TIMES_SKIPPING_ULEB" -> c.k
    [] OTHER -> PointerSize

\* What a loop adds to the location after each of them: unsigned sums that wrap.
Stride(c) ==
  CASE c.op = "DO_REBASE_ADD_ADDR_ULEB" -> Wrap(c.n + PointerSize)
    [] c.op = "DO_REBASE_ULEB_TIMES_SKIPPING_ULEB" -> Wrap(c.k + PointerSize)
    [] OTHER -> PointerSize

BeginLoop ==
  /\ Running(Loops)
  /\ phase' = "loop"
  /\ context' = Begun /\ turns' = Count(Command)
  /\ UNCHANGED <<info, commands, next, fixups, keepGoing, thrown>>

\* Mutant of LoopTurn: the addition is not checked.
LoopTurnUnchecked ==
  LET made == MakeFixup(context)
  IN  /\ phase = "loop" /\ turns > 0
      /\ fixups' = IF Succeeded(made) THEN Append(fixups, made.value) ELSE fixups
      /\ context' = [context EXCEPT !.offset = @ + Stride(Command)]
      /\ turns' = turns - 1
      /\ keepGoing' = (keepGoing /\ Succeeded(made))
      /\ UNCHANGED <<info, commands, phase, next, thrown>>

\* One turn.  A fixup that fails clears keepGoing; the loop looks only at the addition.
LoopTurn ==
  LET made == MakeFixup(context)
      moved == mk_vm_offset_add(context.offset, Stride(Command))
  IN  /\ phase = "loop" /\ turns > 0
      /\ fixups' = IF Succeeded(made) THEN Append(fixups, made.value) ELSE fixups
      /\ UNCHANGED <<info, commands, thrown>>
      /\ IF Succeeded(moved)
         THEN /\ context' = [context EXCEPT !.offset = moved.value]
              /\ turns' = turns - 1
              /\ keepGoing' = (keepGoing /\ Succeeded(made))
              /\ UNCHANGED <<phase, next>>
         ELSE /\ keepGoing' = FALSE /\ phase' = "done"
              /\ next' = next + 1 /\ turns' = 0
              /\ UNCHANGED context

\* Mutant of EndLoop: the next command does not start a fixup of its own.
EndLoopKeepsStart == phase = "loop" /\ turns = 0 /\ EndCommand(context, TRUE)

EndLoop == phase = "loop" /\ turns = 0 /\ EndCommand([context EXCEPT !.command = FALSE], TRUE)

Next ==
  \/ ParseCommand \/ ParseEnds \/ UnknownOpcode
  \/ SetType \/ SetSegmentAndOffset \/ AddAddress \/ Done
  \/ BeginLoop \/ LoopTurn \/ EndLoop

Spec == Init /\ [][Next]_vars

\* One thread: the whole list is made while the info is initialised.
FairSpec == Spec /\ WF_vars(Next)

----------------------------------------------------------------------------
(* Properties.                                                             *)

LastBefore(i, ops) == Max({0} \cup {j \in 1 .. (i - 1) : commands[j].c.op \in ops})

\* "dyld will refuse to load a Mach-O if a fixup address is not within the segment": no fixup is
\* outside its segment, or of the address space.
FixupsInSegment ==
  \A f \in DOMAIN fixups :
    LET s == Segments[fixups[f].segment]
    IN  fixups[f].offset < s.vmSize /\ s.vmAddress + fixups[f].offset <= MaxWord

\* The node of a fixup begins at the first command after the last one that made fixups, and so
\* behind every such command before its own: the nodes of two commands' fixups begin apart, those of
\* the turns of one command at the same place.
FixupStarts ==
  \A f \in DOMAIN fixups :
    /\ fixups[f].start = commands[LastBefore(fixups[f].by, Loops) + 1].at
    /\ \A i \in 1 .. (fixups[f].by - 1) :
         commands[i].c.op \in Loops => commands[i].at < fixups[f].start

\* How far one turn, and a whole command, moves the location.
TurnTravel(c) ==
  PointerSize + (CASE c.op = "DO_REBASE_ADD_ADDR_ULEB" -> c.n
                   [] c.op = "DO_REBASE_ULEB_TIMES_SKIPPING_ULEB" -> c.k
                   [] OTHER -> 0)

Travel(c) ==
  CASE c.op = "ADD_ADDR_ULEB" -> c.n
    [] c.op = "ADD_ADDR_IMM_SCALED" -> c.n * PointerSize
    [] c.op \in Loops -> Count(c) * TurnTravel(c)
    [] OTHER -> 0

Travels == [i \in DOMAIN commands |-> Travel(commands[i].c)]

\* A fixup is where the last segment command, or the zeroed context, put the location and the
\* commands and turns since have moved it; its type is the last one set.
FixupsAddUp ==
  \A f \in DOMAIN fixups :
    LET by == fixups[f].by
        base == LastBefore(by, {"SET_SEGMENT_AND_OFFSET_ULEB"})
        typed == LastBefore(by, {"SET_TYPE_IMM"})
        from == IF base = 0 THEN 0 ELSE commands[base].c.n
        moved == SumFunctionOnSet(Travels, (base + 1) .. (by - 1))
        turn == Cardinality({g \in 1 .. (f - 1) : fixups[g].by = by})
    IN  /\ fixups[f].segment = IF base = 0 THEN 1 ELSE commands[base].c.k + 1
        /\ fixups[f].type = IF typed = 0 THEN 0 ELSE commands[typed].c.n
        /\ fixups[f].offset = Wrap(from + moved + turn * TurnTravel(commands[by].c))

\* No fixup is lost or made twice: every command before the one that failed has all of its fixups.
FixupsComplete ==
  \A i \in 1 .. (next - 1) :
    (i < next - 1 \/ keepGoing) =>
      Cardinality({f \in DOMAIN fixups : fixups[f].by = i}) =
        (IF commands[i].c.op \in Loops THEN Count(commands[i].c) ELSE 0)

\* The fixups are the ones the commands call for: none missing, none twice, each at its place
\* (the context of MKRebaseInfo.m through all of the MKRebase*.m commands).
FixupsAreDue == FixupsAddUp /\ FixupsComplete

\* After a fixup or a command has failed no other command runs; the loop it failed in goes on, but
\* adds no fixup any more.
StopsAtFailure ==
  [][~ keepGoing => /\ ~ keepGoing' /\ phase' # "run" /\ next' <= next + 1
                    /\ fixups' = fixups]_vars

\* Every info is read to an end.
Terminates == <>(phase = "done" \/ thrown)
=============================================================================
