----------------------------- MODULE BindMachine -----------------------------
(***************************************************************************)
(* From the bytes of a bindings info to the list of bind actions           *)
(* (MachOKit/Bindings): the info is parsed into commands, and the commands *)
(* are run one after the other over a context, each of them setting a      *)
(* part of it, moving the bind location, or producing actions.  The two    *)
(* commands that loop take one step per turn.                              *)
(*                                                                         *)
(* A command is [op, size, n, k]: its opcode, its bytes, and its operands. *)
(* Symbol names, with their flags, are numbers; 0 is no name.  What memory *)
(* holds at the links of a threaded chain is chosen when it is read.       *)
(***************************************************************************)
EXTENDS VMArith, Sequences, FiniteSetsExt

CONSTANTS PointerSize,    \* dataModel.pointerSize
          Segments,       \* the image's segments in order, [vmAddress, vmSize]
          Infos,          \* the infos: [kind, nodeSize, commands], the last what may be in one
          Links,          \* what a chain may hold: [isBind, ordinal, delta]
          MaxCommands     \* bound on the commands of an info

Kinds == {"bind", "weak", "lazy"}

Setters == {"SET_DYLIB_ORDINAL", "SET_SYMBOL", "SET_TYPE", "SET_ADDEND"}
Binders == {"DO_BIND", "DO_BIND_ADD_ADDR_ULEB", "DO_BIND_ADD_ADDR_IMM_SCALED",
            "DO_BIND_ULEB_TIMES_SKIPPING_ULEB"}
ThreadedOps == {"THREADED_SET_TABLE_SIZE", "THREADED_APPLY"}
Opcodes == {"DONE", "SET_SEGMENT_AND_OFFSET_ULEB", "ADD_ADDR_ULEB"}
             \cup Setters \cup Binders \cup ThreadedOps

ASSUME BindAssumption ==
  /\ PointerSize \in {4, 8}
  /\ Segments \in Seq([vmAddress : Word, vmSize : Word])
  /\ \A info \in Infos :
       /\ info.kind \in Kinds /\ info.nodeSize \in Nat
       /\ info.commands \subseteq [op : Opcodes, size : Nat \ {0}, n : Int, k : Int]
       /\ \A c \in info.commands :
            /\ c.op \notin Setters => c.k \in Word
            /\ c.op \notin (Setters \cup {"ADD_ADDR_ULEB"}) => c.n \in Word
            /\ c.op = "ADD_ADDR_ULEB" => c.n \in Slide
  /\ Links \subseteq [isBind : BOOLEAN, ordinal : Nat, delta : Nat]
  /\ MaxCommands \in Nat

NoSegment == 0
BIND_TYPE_POINTER == 1
BIND_TYPE_THREADED_BIND == 100
BIND_TYPE_THREADED_REBASE == 102

VARIABLES info,         \* the info being read
          commands,     \* its commands, each with the offset it was found `at'
          phase,        \* "parse", "run", inside one of the two loops, or "done"
          next,         \* the command being run, or to be run next
          turns,        \* the turns left in a counted loop
          context,      \* struct MKBindContext
          actions,      \* the actions so far, each with the index of its command in `by'
          keepGoing,
          crashed       \* an exception was thrown, or the ordinal table used after it was deallocated

vars == <<info, commands, phase, next, turns, context, actions, keepGoing, crashed>>

Phases == {"parse", "run", "times", "apply", "done"}

Settings == [libraryOrdinal : Int, addend : Int, symbolName : Int]

Contexts ==
  [start : Nat, command : BOOLEAN, segment : 0 .. Len(Segments), segmentOffset : Word,
   derivedOffset : Word, libraryOrdinal : Int, addend : Int, symbolName : Int, type : Int,
   threaded : BOOLEAN, ordinalTable : Seq(Settings)]

Actions ==
  [start : Nat, by : Nat, segment : DOMAIN Segments, offset : Word, type : Int,
   libraryOrdinal : Int, addend : Int, symbolName : Int]

TypeOK ==
  /\ info \in Infos
  /\ commands \in Seq([c : info.commands, at : Nat]) /\ Len(commands) <= MaxCommands
  /\ phase \in Phases
  /\ next \in 1 .. (Len(commands) + 1)
  /\ turns \in Word
  /\ context \in Contexts
  /\ actions \in Seq(Actions)
  /\ keepGoing \in BOOLEAN /\ crashed \in BOOLEAN

\* "Initialize the context to zero"; a lazy binding starts out with the pointer type.
ZeroContext(kind) ==
  [start |-> 0, command |-> FALSE, segment |-> NoSegment, segmentOffset |-> 0, derivedOffset |-> 0,
   libraryOrdinal |-> 0, addend |-> 0, symbolName |-> 0,
   type |-> IF kind = "lazy" THEN BIND_TYPE_POINTER ELSE 0,
   threaded |-> FALSE, ordinalTable |-> << >>]

Init ==
  /\ info \in Infos
  /\ commands = << >> /\ actions = << >>
  /\ phase = IF info.nodeSize = 0 THEN "done" ELSE "parse"
  /\ next = 1 /\ turns = 0
  /\ context = ZeroContext(info.kind)
  /\ keepGoing = TRUE /\ crashed = FALSE

----------------------------------------------------------------------------
(* Parsing.                                                                *)

ParseOffset ==
  IF commands = << >> THEN 0 ELSE commands[Len(commands)].at + commands[Len(commands)].c.size

\* Operands at the very end of the info are looked for behind it; a symbol name is not.
ParseCommand ==
  /\ phase = "parse" /\ ~ crashed /\ ParseOffset < info.nodeSize /\ Len(commands) < MaxCommands
  /\ \E c \in info.commands :
       /\ c.op = "SET_SYMBOL" => ParseOffset + c.size <= info.nodeSize
       /\ commands' = Append(commands, [c |-> c, at |-> ParseOffset])
       /\ phase' = IF c.op = "DONE" /\ info.kind # "lazy" THEN "run" ELSE "parse"
  /\ UNCHANGED <<info, next, turns, context, actions, keepGoing, crashed>>

\* The end of the info, or bytes that cannot be read: the commands so far are run.
ParseEnds ==
  /\ phase = "parse" /\ ~ crashed
  /\ phase' = "run"
  /\ UNCHANGED <<info, commands, next, turns, context, actions, keepGoing, crashed>>

\* No class for the opcode: an exception, and no info.
UnknownOpcode ==
  /\ phase = "parse" /\ ~ crashed /\ ParseOffset < info.nodeSize
  /\ crashed' = TRUE
  /\ UNCHANGED <<info, commands, phase, next, turns, context, actions, keepGoing>>

----------------------------------------------------------------------------
(* Actions.                                                                *)

\* Is the offset inside the segment?
InSegment(segment, offset) ==
  LET s == Segments[segment]
  IN  Succeeded(mk_vm_range_contains_address(mk_vm_range_make(s.vmAddress, s.vmSize), offset, s.vmAddress))

\* Mutant of MakeAction: only the last byte before the end is out of range.
MakeActionLoose(ctx) ==
  IF ctx.segment = NoSegment THEN Fails("ENOT_FOUND")
  ELSE IF ctx.derivedOffset > Segments[ctx.segment].vmSize THEN Fails("EOUT_OF_RANGE")
  ELSE Ok([start |-> ctx.start, by |-> next, segment |-> ctx.segment, offset |-> ctx.derivedOffset,
           type |-> ctx.type, libraryOrdinal |-> ctx.libraryOrdinal, addend |-> ctx.addend,
           symbolName |-> ctx.symbolName])

\* -[MKBindAction initWithContext:error:].
MakeAction(ctx) ==
  IF ctx.segment = NoSegment THEN Fails("ENOT_FOUND")
  ELSE IF ~ InSegment(ctx.segment, ctx.derivedOffset) THEN Fails("EOUT_OF_RANGE")
  ELSE Ok([start |-> ctx.start, by |-> next, segment |-> ctx.segment, offset |-> ctx.derivedOffset,
           type |-> ctx.type, libraryOrdinal |-> ctx.libraryOrdinal, addend |-> ctx.addend,
           symbolName |-> ctx.symbolName])

\* The binder block: the list of actions and keepGoing after one more bind.
Bound(ctx) ==
  LET made == MakeAction(ctx)
  IN  IF Succeeded(made) THEN [actions |-> Append(actions, made.value), keepGoing |-> keepGoing]
                         ELSE [actions |-> actions, keepGoing |-> FALSE]

Unbound == [actions |-> actions, keepGoing |-> keepGoing]

----------------------------------------------------------------------------
(* Running a command.                                                      *)

Command == commands[next].c

Running(op) == phase = "run" /\ ~ crashed /\ next <= Len(commands) /\ Command.op = op

\* What the loop over the commands does to the context before it hands it to one: a command is the
\* start of an action unless the one before it left its own in place.
Begun ==
  IF context.command THEN context
  ELSE [context EXCEPT !.start = commands[next].at, !.command = TRUE]

\* Mutant of EndCommand: the failure of a bind is overwritten by the success of its command.
EndCommandForgets(ctx, result, success) ==
  /\ context' = ctx
  /\ actions' = result.actions
  /\ keepGoing' = success
  /\ next' = next + 1
  /\ phase' = IF keepGoing' /\ next' <= Len(commands) THEN "run" ELSE "done"
  /\ turns' = 0
  /\ UNCHANGED <<info, commands>>

\* keepGoing &= [command bind:...]: the block has cleared it before it is read.
EndCommand(ctx, result, success) ==
  /\ context' = ctx
  /\ actions' = result.actions
  /\ keepGoing' = (result.keepGoing /\ success)
  /\ next' = next + 1
  /\ phase' = IF keepGoing' /\ next' <= Len(commands) THEN "run" ELSE "done"
  /\ turns' = 0
  /\ UNCHANGED <<info, commands>>

Succeeds(ctx) == EndCommand(ctx, Unbound, TRUE) /\ UNCHANGED crashed

\* Mutant of FailsWith: a command that failed is run again.
FailsWithRetry(ctx) ==
  /\ context' = ctx /\ phase' = "run"
  /\ UNCHANGED <<info, commands, next, turns, actions, keepGoing, crashed>>

FailsWith(ctx) == EndCommand(ctx, Unbound, FALSE) /\ UNCHANGED crashed

\* The location after a bind and the step past it; on overflow the context stays.
Advance(ctx, result, by) ==
  LET moved == mk_vm_offset_add(ctx.derivedOffset, by)
  IN  /\ UNCHANGED crashed
      /\ IF Succeeded(moved)
         THEN EndCommand([ctx EXCEPT !.derivedOffset = moved.value, !.command = FALSE], result, TRUE)
         ELSE EndCommand(ctx, result, FALSE)

\* There were no commands at all.
NothingToRun ==
  /\ phase = "run" /\ commands = << >>
  /\ phase' = "done"
  /\ UNCHANGED <<info, commands, next, turns, context, actions, keepGoing, crashed>>

\* "There is a BIND_OPCODE_DONE at the end of each lazy bind; don't stop until the end of the
\* sequence."
Done ==
  /\ Running("DONE")
  /\ EndCommand([Begun EXCEPT !.command = FALSE], Unbound, info.kind = "lazy")
  /\ UNCHANGED crashed

\* The segment is looked up last: a failed lookup leaves the old one next to the new offset.
SetSegmentAndOffset ==
  LET moved == [Begun EXCEPT !.segmentOffset = Command.n, !.derivedOffset = Command.n]
  IN  /\ Running("SET_SEGMENT_AND_OFFSET_ULEB")
      /\ IF Command.k < Len(Segments)
         THEN Succeeds([moved EXCEPT !.segment = Command.k + 1])
         ELSE FailsWith(moved)

AddAddress ==
  LET moved == mk_vm_address_apply_slide(Begun.derivedOffset, Command.n)
  IN  /\ Running("ADD_ADDR_ULEB")
      /\ IF Succeeded(moved) THEN Succeeds([Begun EXCEPT !.derivedOffset = moved.value])
                             ELSE FailsWith(Begun)

\* The ordinal commands' -weakBind: refuses them, but a weak info's commands are run with -bind:.
SetDylibOrdinal ==
  Running("SET_DYLIB_ORDINAL") /\ Succeeds([Begun EXCEPT !.libraryOrdinal = Command.n])

SetSymbol == Running("SET_SYMBOL") /\ Succeeds([Begun EXCEPT !.symbolName = Command.n])
SetType == Running("SET_TYPE") /\ Succeeds([Begun EXCEPT !.type = Command.n])
SetAddend == Running("SET_ADDEND") /\ Succeeds([Begun EXCEPT !.addend = Command.n])

\* Mutant of DoBind: the next command does not start an action of its own.
DoBindKeepsStart ==
  LET moved == mk_vm_offset_add(Begun.derivedOffset, PointerSize)
  IN  /\ Running("DO_BIND") /\ ~ context.threaded
      /\ UNCHANGED crashed
      /\ IF Succeeded(moved)
         THEN EndCommand([Begun EXCEPT !.derivedOffset = moved.value], Bound(Begun), TRUE)
         ELSE EndCommand(Begun, Bound(Begun), FALSE)

DoBind ==
  /\ Running("DO_BIND") /\ ~ context.threaded
  /\ Advance(Begun, Bound(Begun), PointerSize)

\* Nothing retains the ordinal table: it is deallocated as soon as it has been made, and whoever
\* uses it crashes, or finds it as it was.
TableCrashes ==
  /\ crashed' = TRUE
  /\ UNCHANGED <<info, commands, phase, next, turns, context, actions, keepGoing>>

\* With threaded binds the settings are put in the ordinal table instead.
DoBindThreaded ==
  LET entry == [libraryOrdinal |-> Begun.libraryOrdinal, addend |-> Begun.addend,
                symbolName |-> Begun.symbolName]
  IN  /\ Running("DO_BIND") /\ context.threaded
      /\ \/ Succeeds([Begun EXCEPT !.ordinalTable = Append(@, entry), !.command = FALSE])
         \/ TableCrashes

\* "Lazy bindings only use BIND_OPCODE_DO_BIND", and "threaded bind commands do not appear in lazy
\* bindings".
NotInLazy ==
  /\ info.kind = "lazy"
  /\ \E op \in (Binders \ {"DO_BIND"}) \cup ThreadedOps : Running(op)
  /\ FailsWith(Begun)

\* Mutants of DoBindAddAddress: the pointer itself is not stepped over; no check of the sum.
DoBindAddAddressShort ==
  /\ Running("DO_BIND_ADD_ADDR_ULEB") /\ info.kind # "lazy"
  /\ Advance(Begun, Bound(Begun), Command.n)

DoBindAddAddressUnchecked ==
  /\ Running("DO_BIND_ADD_ADDR_ULEB") /\ info.kind # "lazy"
  /\ EndCommand([Begun EXCEPT !.derivedOffset = @ + Command.n + PointerSize, !.command = FALSE],
                Bound(Begun), TRUE)
  /\ UNCHANGED crashed

\* self.offset + pointerSize, self.skip + pointerSize: unsigned sums that wrap.
DoBindAddAddress ==
  /\ Running("DO_BIND_ADD_ADDR_ULEB") /\ info.kind # "lazy"
  /\ Advance(Begun, Bound(Begun), Wrap(Command.n + PointerSize))

DoBindAddAddressScaled ==
  /\ Running("DO_BIND_ADD_ADDR_IMM_SCALED") /\ info.kind # "lazy"
  /\ Advance(Begun, Bound(Begun), Wrap(Command.n * PointerSize + PointerSize))

\* Mutant of BeginTimes: the command is taken to make one bind before its turns.
BeginTimesShort ==
  /\ Running("DO_BIND_ULEB_TIMES_SKIPPING_ULEB") /\ info.kind # "lazy"
  /\ phase' = "times"
  /\ context' = Begun /\ turns' = IF Command.n = 0 THEN 0 ELSE Command.n - 1
  /\ UNCHANGED <<info, commands, next, actions, keepGoing, crashed>>

\* n times, k bytes apart.
BeginTimes ==
  /\ Running("DO_BIND_ULEB_TIMES_SKIPPING_ULEB") /\ info.kind # "lazy"
  /\ phase' = "times"
  /\ context' = Begun /\ turns' = Command.n
  /\ UNCHANGED <<info, commands, next, actions, keepGoing, crashed>>

\* One turn.  A bind that fails clears keepGoing; the loop looks only at the addition.
TimesTurn ==
  LET moved == mk_vm_offset_add(context.derivedOffset, Wrap(Command.k + PointerSize))
  IN  /\ phase = "times" /\ turns > 0
      /\ IF Succeeded(moved)
         THEN /\ context' = [context EXCEPT !.derivedOffset = moved.value]
              /\ turns' = turns - 1
              /\ actions' = Bound(context).actions
              /\ keepGoing' = Bound(context).keepGoing
              /\ UNCHANGED <<info, commands, phase, next, crashed>>
         ELSE EndCommand(context, Bound(context), FALSE) /\ UNCHANGED crashed

EndTimes == phase = "times" /\ turns = 0 /\ Succeeds([context EXCEPT !.command = FALSE])

SetTableSize ==
  /\ Running("THREADED_SET_TABLE_SIZE") /\ info.kind # "lazy"
  /\ Succeeds([Begun EXCEPT !.ordinalTable = << >>, !.threaded = TRUE])

\* "Threaded bind opcodes should only appear in 64-bit binaries", and need a segment.
BeginApply ==
  /\ Running("THREADED_APPLY") /\ info.kind # "lazy"
  /\ IF PointerSize # 8 \/ context.segment = NoSegment
     THEN FailsWith(Begun)
     ELSE /\ phase' = "apply" /\ context' = Begun
          /\ UNCHANGED <<info, commands, next, turns, actions, keepGoing, crashed>>

\* The context a link of the chain is bound with.  A bind takes everything but its type from the
\* ordinal table; a rebase has nothing but its place.  A weak info makes weak binds of both.
LinkContext(ctx, link) ==
  LET typed == [ctx EXCEPT !.type = IF link.isBind THEN BIND_TYPE_THREADED_BIND
                                                   ELSE BIND_TYPE_THREADED_REBASE]
      entry == IF link.isBind THEN ctx.ordinalTable[link.ordinal + 1]
                              ELSE [libraryOrdinal |-> 0, addend |-> 0, symbolName |-> 0]
  IN  IF info.kind = "weak" THEN typed
      ELSE [typed EXCEPT !.libraryOrdinal = entry.libraryOrdinal, !.addend = entry.addend,
                         !.symbolName = entry.symbolName]

\* What a link produces: a bind whose ordinal is not in the table fails.
BoundLink(ctx, link) ==
  IF info.kind # "weak" /\ link.isBind /\ link.ordinal >= Len(ctx.ordinalTable)
  THEN [actions |-> actions, keepGoing |-> FALSE]
  ELSE Bound(LinkContext(ctx, link))

\* Mutant of ApplyTurn: the last link's settings stay behind.
ApplyTurnKeepsSettings(link) ==
  LET at == LinkContext([context EXCEPT !.derivedOffset = context.segmentOffset], link)
  IN  /\ phase = "apply" /\ ~ crashed /\ ~ (link.isBind /\ info.kind # "weak") /\ link.delta = 0
      /\ InSegment(context.segment, at.derivedOffset)
      /\ EndCommand(at, Bound(at), TRUE) /\ UNCHANGED crashed

\* One link: the place is checked, its value read, bound, and the delta to the next one added.
\* "Need to preserve the original 'type'": the context is as before when the block returns.
ApplyTurn(link) ==
  LET at == [context EXCEPT !.derivedOffset = context.segmentOffset]
      delta == link.delta * PointerSize
      moved == mk_vm_offset_add(at.segmentOffset, delta)
      result == BoundLink(at, link)
  IN  /\ phase = "apply" /\ ~ crashed
      /\ IF ~ InSegment(context.segment, at.derivedOffset) THEN FailsWith(at)
         ELSE \/ UNCHANGED crashed
                 /\ IF ~ Succeeded(moved) THEN EndCommand(at, result, FALSE)
                    ELSE IF delta = 0 THEN EndCommand(at, result, TRUE)
                    ELSE /\ context' = [at EXCEPT !.segmentOffset = moved.value]
                         /\ actions' = result.actions /\ keepGoing' = result.keepGoing
                         /\ UNCHANGED <<info, commands, phase, next, turns>>
              \/ context.threaded /\ link.isBind /\ info.kind # "weak" /\ TableCrashes

\* The link's bytes are not in the file.
LinkUnreadable ==
  /\ phase = "apply" /\ ~ crashed
  /\ FailsWith([context EXCEPT !.derivedOffset = context.segmentOffset])

Run ==
  \/ NothingToRun \/ Done \/ SetSegmentAndOffset \/ AddAddress
  \/ SetDylibOrdinal \/ SetSymbol \/ SetType \/ SetAddend
  \/ DoBind \/ DoBindThreaded \/ NotInLazy
  \/ DoBindAddAddress \/ DoBindAddAddressScaled
  \/ BeginTimes \/ TimesTurn \/ EndTimes
  \/ SetTableSize \/ BeginApply \/ (\E link \in Links : ApplyTurn(link)) \/ LinkUnreadable

Next == ParseCommand \/ ParseEnds \/ UnknownOpcode \/ Run

Spec == Init /\ [][Next]_vars

\* One thread runs the parser and then the commands to their end.
FairSpec == Spec /\ WF_vars(Next)

----------------------------------------------------------------------------
(* Properties.                                                             *)

\* The last command before the i-th with one of these opcodes, or 0.
LastBefore(i, ops) == Max({0} \cup {j \in 1 .. (i - 1) : commands[j].c.op \in ops})

\* Every action is inside its segment and of the address space: MKBindAction computes its address
\* unchecked because the "range check in initializer would have failed".
ActionsInSegment ==
  \A a \in DOMAIN actions :
    LET s == Segments[actions[a].segment]
    IN  actions[a].offset < s.vmSize /\ s.vmAddress + actions[a].offset <= MaxWord

\* The node of an action begins at the first command after the last one that took the context's
\* command away, a binder or the end of a lazy bind, and so behind every binder before its own: of two
\* binders' actions the nodes begin apart.  The turns of a loop, and the links of a chain, begin at
\* the same place; and as MKBindThreadedApply leaves the command in the context, so do the actions of
\* a chain and those of whatever binds next.
ActionStarts ==
  \A a \in DOMAIN actions :
    /\ actions[a].start = commands[LastBefore(actions[a].by, Binders \cup {"DONE"}) + 1].at
    /\ \A i \in 1 .. (actions[a].by - 1) :
         commands[i].c.op \in Binders => commands[i].at < actions[a].start

Latest(i, op, zero) ==
  LET j == LastBefore(i, {op}) IN IF j = 0 THEN zero ELSE commands[j].c.n

\* The settings in force when the i-th command runs.
SettingsAt(i) ==
  [type |-> Latest(i, "SET_TYPE", ZeroContext(info.kind).type),
   libraryOrdinal |-> Latest(i, "SET_DYLIB_ORDINAL", 0),
   addend |-> Latest(i, "SET_ADDEND", 0),
   symbolName |-> Latest(i, "SET_SYMBOL", 0)]

SettingsOf(r) == [type |-> r.type, libraryOrdinal |-> r.libraryOrdinal, addend |-> r.addend,
                  symbolName |-> r.symbolName]

Untyped(r) == [SettingsOf(r) EXCEPT !.type = 0]

\* A setting holds until it is set again, whatever is bound in between, a threaded chain with its
\* borrowed settings included.  An action carries the settings in force at its command; a threaded
\* bind carries those in force at a bind command that went into the ordinal table before it.
SettingsStick ==
  /\ SettingsOf(context) = SettingsAt(next)
  /\ \A a \in DOMAIN actions :
       LET by == actions[a].by
       IN  IF commands[by].c.op # "THREADED_APPLY" THEN SettingsOf(actions[a]) = SettingsAt(by)
           ELSE IF info.kind = "weak" THEN Untyped(actions[a]) = Untyped(SettingsAt(by))
           ELSE \/ actions[a].type = BIND_TYPE_THREADED_REBASE
                \/ \E j \in 1 .. (by - 1) : /\ commands[j].c.op = "DO_BIND"
                                            /\ Untyped(actions[a]) = Untyped(SettingsAt(j))

\* How far a command moves the bind location.
Travel(c) ==
  CASE c.op = "ADD_ADDR_ULEB" -> c.n
    [] c.op = "DO_BIND" -> PointerSize
    [] c.op = "DO_BIND_ADD_ADDR_ULEB" -> c.n + PointerSize
    [] c.op = "DO_BIND_ADD_ADDR_IMM_SCALED" -> (c.n + 1) * PointerSize
    [] c.op = "DO_BIND_ULEB_TIMES_SKIPPING_ULEB" -> c.n * (c.k + PointerSize)
    [] OTHER -> 0

Travels == [i \in DOMAIN commands |-> Travel(commands[i].c)]

\* Without threaded binds, an action is where the last segment command put it and the commands
\* since have moved it, plus the steps of the turns before its own in a counted loop.
OffsetsAddUp ==
  \A a \in DOMAIN actions :
    LET by == actions[a].by
        base == LastBefore(by, {"SET_SEGMENT_AND_OFFSET_ULEB"})
        moved == SumFunctionOnSet(Travels, (base + 1) .. (by - 1))
        turn == Cardinality({b \in 1 .. (a - 1) : actions[b].by = by})
    IN  LastBefore(by + 1, ThreadedOps) = 0 =>
          /\ base > 0 /\ actions[a].segment = commands[base].c.k + 1
          /\ actions[a].offset =
               Wrap(commands[base].c.n + moved + turn * (commands[by].c.k + PointerSize))

\* The binds a command is to make without a threaded chain.
Binds(c) ==
  IF c.op \notin Binders THEN 0
  ELSE IF c.op = "DO_BIND_ULEB_TIMES_SKIPPING_ULEB" THEN c.n ELSE 1

\* No bind is lost or made twice: every command before the one that failed has all of its actions.
ActionsComplete ==
  \A i \in 1 .. (next - 1) :
    LastBefore(i + 1, ThreadedOps) = 0 /\ (i < next - 1 \/ keepGoing) =>
      Cardinality({a \in DOMAIN actions : actions[a].by = i}) = Binds(commands[i].c)

\* The actions are the ones the commands call for: none missing, none twice, each at its place
\* (MKBindContext's derived offset through all of the MKBind*.m commands).
ActionsAreDue == OffsetsAddUp /\ ActionsComplete

\* After a bind or a command has failed nothing more is begun: what was begun may go on, but in a
\* counted loop adds no action any more, and the failure is never forgotten.
StopsAtFailure ==
  [][~ keepGoing => /\ ~ keepGoing' /\ phase' # "run" /\ next' <= next + 1
                    /\ phase = "times" => actions' = actions]_vars

\* Every info is read to an end: a threaded chain, whatever memory holds, leaves its segment, and a
\* counted loop runs out.
Terminates == <>(phase = "done" \/ crashed)

\* "This command should never appear in a weak binding": a weak info with a dylib ordinal in it is
\* refused at that command.
WeakRefusesOrdinals ==
  info.kind = "weak" /\ keepGoing =>
    \A i \in 1 .. (next - 1) : commands[i].c.op # "SET_DYLIB_ORDINAL"
=============================================================================
