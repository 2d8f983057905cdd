------------------------- MODULE RebaseMachineProofs -------------------------
(***************************************************************************)
(* What holds of the rebase machine for every word width, pointer size,    *)
(* list of segments and vocabulary of commands, however long the info is.  *)
(***************************************************************************)
EXTENDS RebaseMachine, CoreProofs, SequenceTheorems

\* Every fixup made so far is inside its segment.
InSegment(f) ==
  LET s == Segments[f.segment]
  IN  f.offset < s.vmSize /\ s.vmAddress + f.offset <= MaxWord

\* Between commands nothing has failed; a loop belongs to a looping command, and once a fixup of it
\* has failed, the next one would fail too.
Controlled ==
  /\ phase \in {"parse", "run"} => keepGoing
  /\ phase = "loop" =>
       /\ next <= Len(commands) /\ commands[next].c.op \in Loops
       /\ ~ keepGoing => ~ Succeeded(MakeFixup(context))

IInv == TypeOK /\ FixupsInSegment /\ Controlled

----------------------------------------------------------------------------
(* The operators the steps are built from.                                 *)

\* A checked addition of any natural number to a word is exact and a word.
LEMMA AdditionStays ==
  ASSUME NEW a \in Word, NEW b \in Nat, Succeeded(mk_vm_offset_add(a, b))
  PROVE  mk_vm_offset_add(a, b).value = a + b /\ a + b \in Word
  BY WordAssumption DEF mk_vm_offset_add, Adds, Succeeded, Ok, Fails, Word

\* What commands are made of.
LEMMA CommandIsTyped ==
  ASSUME TypeOK, NEW i \in DOMAIN commands
  PROVE  /\ commands[i].at \in Nat
         /\ commands[i].c \in [op : Opcodes, size : Nat \ {0}, n : Word, k : Word]
<1>1. commands[i] \in [c : info.commands, at : Nat]
  <2>1. commands \in Seq([c : info.commands, at : Nat]) BY DEF TypeOK
  <2>2. QED BY <2>1, ElementOfSeq, LenProperties
<1>2. info \in Infos BY DEF TypeOK
<1>3. info.commands \subseteq [op : Opcodes, size : Nat \ {0}, n : Word, k : Word]
  BY <1>2, RebaseAssumption
<1>4. QED BY <1>1, <1>3

\* Steps and counts of a loop are numbers.
LEMMA LoopOperands ==
  ASSUME NEW c \in [op : Opcodes, size : Nat \ {0}, n : Word, k : Word]
  PROVE  Stride(c) \in Nat /\ Count(c) \in Word
<1>1. c.n \in Word /\ c.k \in Word /\ 1 \in Word /\ PointerSize \in Nat
  BY WordAssumption, RebaseAssumption DEF Word
<1>2. Wrap(c.n + PointerSize) \in Nat /\ Wrap(c.k + PointerSize) \in Nat
  BY <1>1, WordAssumption DEF Wrap, Word
<1>3. QED BY <1>1, <1>2 DEF Stride, Count

\* The context a command is handed is one.
LEMMA BegunIsTyped ==
  ASSUME TypeOK, next <= Len(commands)
  PROVE  Begun \in Contexts
<1>1. next \in DOMAIN commands BY DEF TypeOK
<1>2. commands[next].at \in Nat BY <1>1, CommandIsTyped
<1>3. QED BY <1>2 DEF Begun, TypeOK, Contexts

\* A segment of the image.
LEMMA SegmentIsTyped ==
  ASSUME NEW i \in DOMAIN Segments
  PROVE  Segments[i].vmAddress \in Word /\ Segments[i].vmSize \in Word
<1>1. Segments[i] \in [vmAddress : Word, vmSize : Word]
  BY RebaseAssumption, ElementOfSeq, LenProperties
<1>2. QED BY <1>1

\* A fixup that is made has its segment, and is inside it.
LEMMA MadeFixup ==
  ASSUME NEW ctx \in Contexts, next \in Nat, Succeeded(MakeFixup(ctx))
  PROVE  MakeFixup(ctx).value \in Fixups /\ InSegment(MakeFixup(ctx).value)
<1> DEFINE i == ctx.segmentIndex + 1
           s == Segments[i]
           r == mk_vm_range_make(s.vmAddress, s.vmSize)
           inside == mk_vm_range_contains_address(r, ctx.offset, s.vmAddress)
<1>0. ctx.segmentIndex \in Word /\ ctx.offset \in Word /\ ctx.type \in Word /\ ctx.start \in Nat
  BY DEF Contexts
<1>1. ctx.segmentIndex < Len(Segments) /\ Succeeded(inside)
  BY <1>0, RebaseAssumption DEF MakeFixup, Succeeded, Fails, Ok, Word
<1>2. i \in DOMAIN Segments BY <1>0, <1>1, RebaseAssumption DEF Word
<1>3. s.vmAddress \in Word /\ s.vmSize \in Word BY <1>2, SegmentIsTyped
<1>4. r \in mk_vm_range /\ r.location = s.vmAddress /\ r.length = s.vmSize
  BY <1>3 DEF mk_vm_range_make, mk_vm_range
<1>5. /\ s.vmAddress + ctx.offset \in s.vmAddress .. (s.vmAddress + s.vmSize - 1)
      /\ s.vmAddress + s.vmSize <= MaxWord
  <2> HIDE DEF r, s
  <2>1. /\ s.vmAddress + ctx.offset \in r.location .. (r.location + r.length - 1)
        /\ r.location + r.length <= MaxWord
    BY <1>0, <1>1, <1>3, <1>4, ContainedAddress
  <2>2. QED BY <2>1, <1>4
<1>6. MakeFixup(ctx).value = [start |-> ctx.start, by |-> next, type |-> ctx.type,
                              segment |-> i, offset |-> ctx.offset]
  BY <1>0, <1>1, RebaseAssumption DEF MakeFixup, Ok, Word
<1>7. ctx.offset < s.vmSize /\ s.vmAddress + ctx.offset <= MaxWord
  <2> HIDE DEF s
  <2>1. QED BY <1>0, <1>3, <1>5, WordAssumption DEF Word
<1>8. QED BY <1>0, <1>2, <1>6, <1>7 DEF InSegment, Fixups

\* Behind a place where a fixup fails it fails as well: the segment is not there, or its end has
\* been passed.
LEMMA StaysFailed ==
  ASSUME NEW ctx \in Contexts, NEW offset \in Word, ctx.offset <= offset,
         ~ Succeeded(MakeFixup(ctx))
  PROVE  ~ Succeeded(MakeFixup([ctx EXCEPT !.offset = offset]))
<1> DEFINE i == ctx.segmentIndex + 1
           s == Segments[i]
           r == mk_vm_range_make(s.vmAddress, s.vmSize)
           after == [ctx EXCEPT !.offset = offset]
<1>0. /\ ctx.segmentIndex \in Word /\ ctx.offset \in Word
      /\ after.segmentIndex = ctx.segmentIndex /\ after.offset = offset
  BY DEF Contexts
<1>1. CASE ctx.segmentIndex >= Len(Segments)
  BY <1>0, <1>1 DEF MakeFixup, Succeeded, Fails
<1>2. CASE ctx.segmentIndex < Len(Segments)
  <2>1. i \in DOMAIN Segments BY <1>0, <1>2, RebaseAssumption DEF Word
  <2>2. s.vmAddress \in Word /\ s.vmSize \in Word BY <2>1, SegmentIsTyped
  <2>3. ~ (ctx.segmentIndex >= Len(Segments)) BY <1>0, <1>2, RebaseAssumption DEF Word
  <2>4. ~ Succeeded(mk_vm_range_contains_address(r, ctx.offset, s.vmAddress))
    BY <2>3 DEF MakeFixup, Succeeded, Ok
  <2>5. ~ Succeeded(mk_vm_range_contains_address(r, offset, s.vmAddress))
    <3> HIDE DEF s
    <3>1. QED
      BY <1>0, <2>2, <2>4, WordAssumption
      DEF mk_vm_range_contains_address, mk_vm_address_apply_offset, Adds, RangeOverflows,
          mk_vm_range_make, Succeeded, Ok, Fails, Word
  <2>6. QED BY <1>0, <2>3, <2>5 DEF MakeFixup, Succeeded, Fails
<1>3. QED BY <1>0, <1>1, <1>2, RebaseAssumption DEF Word

----------------------------------------------------------------------------
(* The steps.                                                              *)

\* What StopsAtFailure says of a step.
Stops ==
  ~ keepGoing => ~ keepGoing' /\ phase' # "run" /\ next' <= next + 1 /\ fixups' = fixups

LEMMA InitHolds == Init => IInv
<1>1. SUFFICES ASSUME Init PROVE IInv OBVIOUS
<1>2. << >> \in Seq([c : info.commands, at : Nat]) /\ << >> \in Seq(Fixups) /\ Len(<< >>) = 0
  BY EmptySeq
<1>3. TypeOK
  <2>1. MaxCommands \in Nat /\ 0 \in Word BY WordAssumption, RebaseAssumption DEF Word
  <2>2. context \in Contexts BY <1>1, <2>1 DEF Init, ZeroContext, Contexts
  <2>3. /\ info \in Infos /\ keepGoing \in BOOLEAN /\ thrown \in BOOLEAN
        /\ phase \in {"parse", "run", "loop", "done"}
    BY <1>1 DEF Init
  <2>4. commands \in Seq([c : info.commands, at : Nat]) /\ Len(commands) <= MaxCommands
        /\ fixups \in Seq(Fixups) /\ next \in 1 .. (Len(commands) + 1) /\ turns \in Word
    BY <1>1, <1>2, <2>1 DEF Init
  <2>5. QED BY <2>2, <2>3, <2>4 DEF TypeOK
<1>4. FixupsInSegment BY <1>1 DEF Init, FixupsInSegment
<1>5. Controlled BY <1>1 DEF Init, Controlled
<1>6. QED BY <1>3, <1>4, <1>5 DEF IInv

\* A step that makes no fixup leaves them where they are.
LEMMA FixupsUnchanged ==
  ASSUME FixupsInSegment, UNCHANGED fixups
  PROVE  FixupsInSegment'
  BY DEF FixupsInSegment

\* Handing the context back, from a command or at the end of a loop.
LEMMA EndCommandHolds ==
  ASSUME IInv, phase \in {"run", "loop"}, next <= Len(commands),
         NEW ctx \in Contexts, NEW success \in BOOLEAN, EndCommand(ctx, success)
  PROVE  IInv' /\ Stops
<1>1. next' = next + 1 /\ next' \in 1 .. (Len(commands') + 1)
  <2>1. Len(commands) \in Nat BY LenProperties DEF IInv, TypeOK
  <2>2. QED BY <2>1 DEF EndCommand, IInv, TypeOK
<1>2. TypeOK'
  BY <1>1, WordAssumption DEF IInv, TypeOK, EndCommand, Word
<1>3. FixupsInSegment' BY FixupsUnchanged DEF IInv, EndCommand
<1>4. Controlled' BY DEF EndCommand, Controlled
<1>5. Stops BY <1>1 DEF EndCommand, Stops, IInv, TypeOK
<1>6. QED BY <1>2, <1>3, <1>4, <1>5 DEF IInv

LEMMA ParseCommandHolds == IInv /\ ParseCommand => IInv' /\ Stops
<1>1. SUFFICES ASSUME IInv, ParseCommand PROVE IInv' /\ Stops OBVIOUS
<1>2. PICK c \in info.commands : commands' = Append(commands, [c |-> c, at |-> ParseOffset])
  BY <1>1 DEF ParseCommand
<1>3. ParseOffset \in Nat
  <2>1. CASE commands = << >> BY <2>1 DEF ParseOffset
  <2>2. CASE commands # << >>
    <3>1. Len(commands) \in DOMAIN commands
      BY <1>1, <2>2, EmptySeq, LenProperties DEF IInv, TypeOK
    <3>2. QED BY <1>1, <2>2, <3>1, CommandIsTyped DEF ParseOffset, IInv
  <2>3. QED BY <2>1, <2>2
<1>4. /\ commands' \in Seq([c : info.commands, at : Nat])
      /\ Len(commands') = Len(commands) + 1 /\ Len(commands) \in Nat
  BY <1>1, <1>2, <1>3, AppendProperties, LenProperties DEF IInv, TypeOK
<1>5. TypeOK'
  <2>1. Len(commands') <= MaxCommands
    BY <1>1, <1>4, RebaseAssumption DEF ParseCommand
  <2>2. next' \in 1 .. (Len(commands') + 1) BY <1>1, <1>4 DEF ParseCommand, IInv, TypeOK
  <2>3. QED BY <1>1, <1>4, <2>1, <2>2 DEF ParseCommand, IInv, TypeOK
<1>6. FixupsInSegment' BY <1>1, FixupsUnchanged DEF IInv, ParseCommand
<1>7. Controlled' BY <1>1 DEF ParseCommand, IInv, Controlled
<1>8. Stops BY <1>1 DEF ParseCommand, IInv, Controlled, Stops
<1>9. QED BY <1>5, <1>6, <1>7, <1>8 DEF IInv

LEMMA ParseEndsHolds == IInv /\ (ParseEnds \/ UnknownOpcode) => IInv' /\ Stops
<1>1. SUFFICES ASSUME IInv, ParseEnds \/ UnknownOpcode PROVE IInv' /\ Stops OBVIOUS
<1>2. TypeOK' BY <1>1 DEF ParseEnds, UnknownOpcode, IInv, TypeOK
<1>3. FixupsInSegment' BY <1>1, FixupsUnchanged DEF IInv, ParseEnds, UnknownOpcode
<1>4. Controlled' BY <1>1 DEF ParseEnds, UnknownOpcode, IInv, Controlled
<1>5. Stops BY <1>1 DEF ParseEnds, UnknownOpcode, IInv, Controlled, Stops
<1>6. QED BY <1>2, <1>3, <1>4, <1>5 DEF IInv

\* The commands that make no fixup.
LEMMA SimpleCommandHolds ==
  IInv /\ (SetType \/ SetSegmentAndOffset \/ AddAddress \/ Done) => IInv' /\ Stops
<1>1. SUFFICES ASSUME IInv, SetType \/ SetSegmentAndOffset \/ AddAddress \/ Done
               PROVE  IInv' /\ Stops
  OBVIOUS
<1>2. phase = "run" /\ next <= Len(commands)
  BY <1>1 DEF SetType, SetSegmentAndOffset, AddAddress, Done, Running
<1>3. Begun \in Contexts BY <1>1, <1>2, BegunIsTyped DEF IInv
<1>4. Command.n \in Word /\ Command.k \in Word
  <2>1. next \in DOMAIN commands BY <1>1, <1>2, LenProperties DEF IInv, TypeOK
  <2>2. QED BY <1>1, <2>1, CommandIsTyped DEF IInv, Command
<1>5. CASE SetType
  BY <1>1, <1>2, <1>3, <1>4, <1>5, EndCommandHolds DEF SetType, Contexts
<1>6. CASE SetSegmentAndOffset
  <2>1. [Begun EXCEPT !.segmentIndex = Command.k, !.offset = Command.n] \in Contexts
    BY <1>3, <1>4 DEF Contexts
  <2>2. QED BY <1>1, <1>2, <1>6, <2>1, EndCommandHolds DEF SetSegmentAndOffset
<1>7. CASE Done
  BY <1>1, <1>2, <1>3, <1>7, EndCommandHolds DEF Done, Contexts
<1>8. CASE AddAddress
  <2> DEFINE by == IF Command.op = "ADD_ADDR_ULEB" THEN Command.n ELSE Command.n * PointerSize
             moved == mk_vm_offset_add(Begun.offset, by)
  <2>1. by \in Nat BY <1>4, WordAssumption, RebaseAssumption DEF Word
  <2>2. Begun.offset \in Word BY <1>3 DEF Contexts
  <2>3. CASE Succeeded(moved)
    <3>1. moved.value \in Word BY <2>1, <2>2, <2>3, AdditionStays
    <3>2. [Begun EXCEPT !.offset = moved.value] \in Contexts BY <1>3, <3>1 DEF Contexts
    <3>3. EndCommand([Begun EXCEPT !.offset = moved.value], TRUE)
      BY <1>8, <2>3 DEF AddAddress
    <3>4. QED BY <1>1, <1>2, <3>2, <3>3, EndCommandHolds
  <2>4. CASE ~ Succeeded(moved)
    <3>1. EndCommand(Begun, FALSE) BY <1>8, <2>4 DEF AddAddress
    <3>2. QED BY <1>1, <1>2, <1>3, <3>1, EndCommandHolds
  <2>5. QED BY <2>3, <2>4
<1>9. QED BY <1>1, <1>5, <1>6, <1>7, <1>8

LEMMA BeginLoopHolds == IInv /\ BeginLoop => IInv' /\ Stops
<1>1. SUFFICES ASSUME IInv, BeginLoop PROVE IInv' /\ Stops OBVIOUS
<1>2. phase = "run" /\ next <= Len(commands) BY <1>1 DEF BeginLoop, Running
<1>3. Begun \in Contexts BY <1>1, <1>2, BegunIsTyped DEF IInv
<1>4. Count(Command) \in Word
  <2>1. next \in DOMAIN commands BY <1>1, <1>2, LenProperties DEF IInv, TypeOK
  <2>2. QED BY <1>1, <2>1, CommandIsTyped, LoopOperands DEF IInv, Command
<1>5. keepGoing BY <1>1, <1>2 DEF IInv, Controlled
<1>6. TypeOK' BY <1>1, <1>3, <1>4 DEF BeginLoop, IInv, TypeOK
<1>7. FixupsInSegment' BY <1>1, FixupsUnchanged DEF IInv, BeginLoop
<1>8. Controlled' BY <1>1, <1>2, <1>5 DEF BeginLoop, Running, Command, Controlled
<1>9. QED BY <1>5, <1>6, <1>7, <1>8 DEF IInv, Stops

LEMMA EndLoopHolds == IInv /\ EndLoop => IInv' /\ Stops
<1>1. SUFFICES ASSUME IInv, EndLoop PROVE IInv' /\ Stops OBVIOUS
<1>2. phase = "loop" /\ next <= Len(commands) BY <1>1 DEF EndLoop, IInv, Controlled
<1>3. [context EXCEPT !.command = FALSE] \in Contexts BY <1>1 DEF IInv, TypeOK, Contexts
<1>4. QED BY <1>1, <1>2, <1>3, EndCommandHolds DEF EndLoop

\* A turn makes a fixup that is inside its segment, or fails and from then on makes none.
LEMMA LoopTurnHolds == IInv /\ LoopTurn => IInv' /\ Stops
<1>1. SUFFICES ASSUME IInv, LoopTurn PROVE IInv' /\ Stops OBVIOUS
<1> DEFINE made == MakeFixup(context)
           moved == mk_vm_offset_add(context.offset, Stride(Command))
<1>2. /\ phase = "loop" /\ turns > 0 /\ next <= Len(commands) /\ Command.op \in Loops
      /\ ~ keepGoing => ~ Succeeded(made)
  BY <1>1 DEF LoopTurn, IInv, Controlled, Command
<1>3. /\ fixups' = IF Succeeded(made) THEN Append(fixups, made.value) ELSE fixups
      /\ UNCHANGED <<info, commands, thrown>>
  BY <1>1 DEF LoopTurn
<1>4. context \in Contexts /\ next \in Nat /\ turns \in Word /\ Len(commands) \in Nat
  BY <1>1, LenProperties DEF IInv, TypeOK
<1>5. Stride(Command) \in Nat
  <2>1. next \in DOMAIN commands BY <1>1, <1>2, LenProperties DEF IInv, TypeOK
  <2>2. QED BY <1>1, <2>1, CommandIsTyped, LoopOperands DEF IInv, Command
<1>6. fixups' \in Seq(Fixups) /\ FixupsInSegment'
  <2>1. fixups \in Seq(Fixups) BY <1>1 DEF IInv, TypeOK
  <2>2. CASE ~ Succeeded(made) BY <1>1, <1>3, <2>1, <2>2, FixupsUnchanged DEF IInv
  <2>3. CASE Succeeded(made)
    <3>1. made.value \in Fixups /\ InSegment(made.value) BY <1>4, <2>3, MadeFixup
    <3>2. fixups' = Append(fixups, made.value) BY <1>3, <2>3
    <3>3. fixups' \in Seq(Fixups) BY <2>1, <3>1, <3>2, AppendProperties
    <3>4. \A f \in DOMAIN fixups : InSegment(fixups[f])
      BY <1>1 DEF IInv, FixupsInSegment, InSegment
    <3>5. ASSUME NEW f \in DOMAIN fixups' PROVE InSegment(fixups'[f])
      <4>1. f \in 1 .. (Len(fixups) + 1) /\ Len(fixups) \in Nat
        BY <2>1, <3>1, <3>2, <3>3, AppendProperties, LenProperties
      <4>2. CASE f = Len(fixups) + 1
        BY <2>1, <3>1, <3>2, <4>2, AppendProperties
      <4>3. CASE f \in 1 .. Len(fixups)
        <5>1. fixups'[f] = fixups[f] BY <2>1, <3>1, <3>2, <4>3, AppendProperties
        <5>2. QED BY <2>1, <3>4, <4>3, <5>1, LenProperties
      <4>4. QED BY <4>1, <4>2, <4>3
    <3>6. QED BY <3>3, <3>5 DEF FixupsInSegment, InSegment
  <2>4. QED BY <2>2, <2>3
<1>7. CASE Succeeded(moved)
  <2>1. /\ context' = [context EXCEPT !.offset = moved.value] /\ turns' = turns - 1
        /\ keepGoing' = (keepGoing /\ Succeeded(made)) /\ UNCHANGED <<phase, next>>
    BY <1>1, <1>7 DEF LoopTurn
  <2>2. moved.value \in Word /\ context.offset <= moved.value
    <3>1. context.offset \in Word BY <1>4 DEF Contexts
    <3>2. moved.value = context.offset + Stride(Command) /\ moved.value \in Word
      BY <1>5, <1>7, <3>1, AdditionStays
    <3>3. QED BY <1>5, <3>1, <3>2, WordAssumption DEF Word
  <2>3. TypeOK'
    <3>1. context' \in Contexts BY <1>4, <2>1, <2>2 DEF Contexts
    <3>2. turns' \in Word BY <1>2, <1>4, <2>1, WordAssumption DEF Word
    <3>3. keepGoing' \in BOOLEAN BY <1>1, <2>1 DEF IInv, TypeOK
    <3>4. QED BY <1>1, <1>3, <1>6, <2>1, <3>1, <3>2, <3>3 DEF IInv, TypeOK
  <2>4. Controlled'
    <3>1. ~ keepGoing' => ~ Succeeded(made) BY <1>2, <2>1
    <3>2. ~ Succeeded(made) => ~ Succeeded(MakeFixup(context'))
      BY <1>4, <2>1, <2>2, StaysFailed
    <3>3. MakeFixup(context)' = MakeFixup(context') BY <2>1 DEF MakeFixup
    <3>4. QED BY <1>2, <1>3, <2>1, <3>1, <3>2, <3>3 DEF Controlled, Command
  <2>5. Stops
    <3>1. SUFFICES ASSUME ~ keepGoing
                   PROVE  ~ keepGoing' /\ phase' # "run" /\ next' <= next + 1 /\ fixups' = fixups
      BY DEF Stops
    <3>2. ~ Succeeded(made) BY <1>2, <3>1
    <3>3. ~ keepGoing' /\ fixups' = fixups BY <1>3, <2>1, <3>1, <3>2
    <3>4. next' <= next + 1 /\ phase' # "run" BY <1>2, <1>4, <2>1
    <3>5. QED BY <3>3, <3>4
  <2>6. QED BY <1>6, <2>3, <2>4, <2>5 DEF IInv
<1>8. CASE ~ Succeeded(moved)
  <2>1. keepGoing' = FALSE /\ phase' = "done" /\ next' = next + 1 /\ turns' = 0 /\ context' = context
    BY <1>1, <1>8 DEF LoopTurn
  <2>2. TypeOK'
    <3>1. next' \in 1 .. (Len(commands') + 1) BY <1>1, <1>2, <1>3, <1>4, <2>1 DEF IInv, TypeOK
    <3>2. keepGoing' \in BOOLEAN BY <2>1, Zenon
    <3>3. context' \in Contexts /\ phase' \in {"parse", "run", "loop", "done"} BY <1>4, <2>1
    <3>4. turns' \in Word BY <2>1, WordAssumption DEF Word
    <3>5. QED BY <1>1, <1>3, <1>6, <3>1, <3>2, <3>3, <3>4 DEF IInv, TypeOK
  <2>3. Controlled' BY <2>1 DEF Controlled
  <2>4. Stops BY <1>2, <1>3, <1>4, <2>1 DEF Stops
  <2>5. QED BY <1>6, <2>2, <2>3, <2>4 DEF IInv
<1>9. QED BY <1>7, <1>8

LEMMA StepHolds == IInv /\ [Next]_vars => IInv' /\ [Stops]_vars
<1>1. SUFFICES ASSUME IInv, [Next]_vars PROVE IInv' /\ [Stops]_vars OBVIOUS
<1>2. CASE UNCHANGED vars
  <2>1. IInv' BY <1>1, <1>2 DEF vars, IInv, TypeOK, FixupsInSegment, Controlled, MakeFixup
  <2>2. QED BY <1>2, <2>1
<1>3. CASE Next
  BY <1>1, <1>3, ParseCommandHolds, ParseEndsHolds, SimpleCommandHolds, BeginLoopHolds,
     LoopTurnHolds, EndLoopHolds DEF Next
<1>4. QED BY <1>1, <1>2, <1>3

----------------------------------------------------------------------------
(* What the fixups have to be.                                             *)

\* What the commands before the i-th leave in the context, and where it leaves the location.
TypeAt(cs, i) ==
  LET j == LastIn(cs, i, {"SET_TYPE_IMM"}) IN IF j = 0 THEN 0 ELSE cs[j].c.n

SegmentAt(cs, i) ==
  LET j == LastIn(cs, i, {"SET_SEGMENT_AND_OFFSET_ULEB"}) IN IF j = 0 THEN 0 ELSE cs[j].c.k

OriginAt(cs, i) ==
  LET j == LastIn(cs, i, {"SET_SEGMENT_AND_OFFSET_ULEB"})
  IN  (IF j = 0 THEN 0 ELSE cs[j].c.n)
        + SumFunctionOnSet([l \in DOMAIN cs |-> Travel(cs[l].c)], (j + 1) .. (i - 1))

StartAt(cs, i) == cs[LastIn(cs, i, Loops) + 1].at

\* The fixups a command calls for.
DueOf(c) == IF c.op \in Loops THEN Count(c) ELSE 0

FixupIsDue(f) ==
  LET by == fixups[f].by
  IN  /\ by \in DOMAIN commands /\ by <= next /\ (by = next => phase = "loop")
      /\ fixups[f].start = StartAt(commands, by)
      /\ fixups[f].segment = SegmentAt(commands, by) + 1
      /\ fixups[f].type = TypeAt(commands, by)
      /\ fixups[f].offset =
           Wrap(OriginAt(commands, by) + TurnOf(fixups, f) * TurnTravel(commands[by].c))

\* The context is what the commands so far have made of it; of its location and its settings that
\* holds only while nothing has failed.
ContextIsDue ==
  /\ IF context.command THEN context.start = StartAt(commands, next)
                        ELSE LastIn(commands, next, Loops) = next - 1
  /\ keepGoing => /\ context.type = TypeAt(commands, next)
                  /\ context.segmentIndex = SegmentAt(commands, next)

NotBegun == next = 1 /\ fixups = << >> /\ context = ZeroContext

RunIsDue ==
  /\ next <= Len(commands) /\ ContextIsDue
  /\ context.offset = Wrap(OriginAt(commands, next))

LoopIsDue ==
  /\ context.command /\ ContextIsDue
  /\ keepGoing =>
       /\ context.offset =
            Wrap(OriginAt(commands, next) + MadeBy(fixups, next) * TurnTravel(commands[next].c))
       /\ MadeBy(fixups, next) + turns = Count(commands[next].c)

CommandsAreDone ==
  \A i \in 1 .. (next - 1) :
    i < next - 1 \/ keepGoing \/ phase = "loop" => MadeBy(fixups, i) = DueOf(commands[i].c)

AllIsDue ==
  /\ phase = "parse" => NotBegun
  /\ \A f \in DOMAIN fixups : FixupIsDue(f)
  /\ CommandsAreDone
  /\ phase = "run" => RunIsDue
  /\ phase = "loop" => LoopIsDue

\* What one more command does to them.
CommandType == [op : Opcodes, size : Nat \ {0}, n : Word, k : Word]
CommandLists == Seq([c : CommandType, at : Nat])

LEMMA CommandsAreTyped == TypeOK => commands \in CommandLists
<1>1. SUFFICES ASSUME TypeOK PROVE commands \in CommandLists OBVIOUS
<1>2. info.commands \subseteq CommandType
  BY <1>1, RebaseAssumption DEF TypeOK, CommandType
<1>3. [c : info.commands, at : Nat] \subseteq [c : CommandType, at : Nat] BY <1>2
<1>4. commands \in Seq([c : info.commands, at : Nat]) BY <1>1 DEF TypeOK
<1> DEFINE S == [c : info.commands, at : Nat]
           T == [c : CommandType, at : Nat]
<1>5. S \subseteq T /\ commands \in Seq(S) BY <1>3, <1>4
<1> HIDE DEF S, T
<1>6. commands \in Seq(T) BY <1>5, SeqMonotonic
<1>7. QED BY <1>6 DEF T, CommandLists

\* How far commands and turns move the location.
LEMMA TravelIsTyped ==
  ASSUME NEW c \in CommandType
  PROVE  /\ TurnTravel(c) \in Nat /\ Travel(c) \in Nat /\ DueOf(c) \in Nat /\ Count(c) \in Nat
         /\ c.op \in Loops => Travel(c) = Count(c) * TurnTravel(c)
<1>1. c.n \in Nat /\ c.k \in Nat /\ PointerSize \in Nat
  BY WordAssumption, RebaseAssumption DEF Word, CommandType
<1>2. TurnTravel(c) \in Nat BY <1>1 DEF TurnTravel
<1>3. Count(c) \in Nat BY <1>1 DEF Count
<1>4. c.n * PointerSize \in Nat /\ Count(c) * TurnTravel(c) \in Nat BY <1>1, <1>2, <1>3
<1>5. Travel(c) \in Nat BY <1>1, <1>4 DEF Travel
<1>6. ASSUME c.op \in Loops PROVE Travel(c) = Count(c) * TurnTravel(c)
  <2>1. c.op # "ADD_ADDR_ULEB" /\ c.op # "ADD_ADDR_IMM_SCALED" BY <1>6 DEF Loops
  <2>2. QED BY <1>6, <2>1 DEF Travel
<1>7. QED BY <1>2, <1>3, <1>5, <1>6 DEF DueOf

LEMMA TravelsAreTyped ==
  ASSUME NEW cs \in CommandLists
  PROVE  \A l \in DOMAIN cs : cs[l].c \in CommandType /\ Travel(cs[l].c) \in Int
<1>1. SUFFICES ASSUME NEW l \in DOMAIN cs
               PROVE  cs[l].c \in CommandType /\ Travel(cs[l].c) \in Int
  OBVIOUS
<1>2. cs[l].c \in CommandType
  <2>1. cs[l] \in [c : CommandType, at : Nat] BY ElementOfSeq, LenProperties DEF CommandLists
  <2>2. QED BY <2>1
<1>3. QED BY <1>2, TravelIsTyped

LEMMA Firsts ==
  ASSUME NEW cs
  PROVE  TypeAt(cs, 1) = 0 /\ SegmentAt(cs, 1) = 0 /\ OriginAt(cs, 1) = 0
<1> DEFINE f == [l \in DOMAIN cs |-> Travel(cs[l].c)]
<1>1. (0 + 1) .. (1 - 1) = {} OBVIOUS
<1>2. SumFunctionOnSet(f, (0 + 1) .. (1 - 1)) = 0 BY <1>1, EmptySum
<1>3. QED BY <1>2, LastInFirst DEF TypeAt, SegmentAt, OriginAt

LEMMA Nexts ==
  ASSUME NEW cs \in CommandLists, NEW i \in DOMAIN cs
  PROVE  /\ TypeAt(cs, i + 1) = IF cs[i].c.op = "SET_TYPE_IMM" THEN cs[i].c.n ELSE TypeAt(cs, i)
         /\ SegmentAt(cs, i + 1) = IF cs[i].c.op = "SET_SEGMENT_AND_OFFSET_ULEB"
                                   THEN cs[i].c.k ELSE SegmentAt(cs, i)
         /\ OriginAt(cs, i + 1) = IF cs[i].c.op = "SET_SEGMENT_AND_OFFSET_ULEB"
                                  THEN cs[i].c.n ELSE OriginAt(cs, i) + Travel(cs[i].c)
         /\ OriginAt(cs, i) \in Int
         /\ LastIn(cs, i + 1, Loops) = IF cs[i].c.op \in Loops THEN i ELSE LastIn(cs, i, Loops)
<1> DEFINE f == [l \in DOMAIN cs |-> Travel(cs[l].c)]
           seg == {"SET_SEGMENT_AND_OFFSET_ULEB"}
           j == LastIn(cs, i, seg)
<1>1. Len(cs) \in Nat /\ DOMAIN cs = 1 .. Len(cs) /\ i \in Nat \ {0} /\ (i + 1) - 1 = i
  BY LenProperties DEF CommandLists
<1>2. \A l \in DOMAIN cs : f[l] \in Int /\ cs[l].c.n \in Int
  <2>1. \A l \in DOMAIN cs : cs[l].c.n \in Word
    BY TravelsAreTyped DEF CommandType
  <2>2. \A w \in Word : w \in Int BY WordAssumption DEF Word
  <2>3. QED BY <2>1, <2>2, TravelsAreTyped
<1>3. j \in 0 .. (i - 1) /\ (j # 0 => cs[j].c.op \in seg) BY <1>1, LastInIs
<1>4. LastIn(cs, i + 1, seg) = IF cs[i].c.op \in seg THEN i ELSE j
  <2> HIDE DEF seg
  <2>1. QED BY <1>1, LastInNext
<1> HIDE DEF f
<1>5. SumFunctionOnSet(f, (j + 1) .. (i - 1)) \in Int
  <2>1. \A l \in (j + 1) .. (i - 1) : f[l] \in Int BY <1>1, <1>2, <1>3
  <2>2. j + 1 \in Int /\ i - 1 \in Int BY <1>1, <1>3
  <2>3. QED BY <2>1, <2>2, IntervalSum
<1>6. OriginAt(cs, i) = (IF j = 0 THEN 0 ELSE cs[j].c.n) + SumFunctionOnSet(f, (j + 1) .. (i - 1))
  BY DEF OriginAt, f
<1>7. j # 0 => cs[j].c.n \in Int BY <1>1, <1>2, <1>3
<1>8. OriginAt(cs, i) \in Int BY <1>5, <1>6, <1>7
<1>9. OriginAt(cs, i + 1) = IF cs[i].c.op \in seg THEN cs[i].c.n
                            ELSE OriginAt(cs, i) + Travel(cs[i].c)
  <2>1. CASE cs[i].c.op \in seg
    <3>1. (i + 1) .. ((i + 1) - 1) = {} BY <1>1
    <3>2. OriginAt(cs, i + 1) = cs[i].c.n + SumFunctionOnSet(f, (i + 1) .. ((i + 1) - 1))
      BY <1>1, <1>4, <2>1 DEF OriginAt, f
    <3>3. SumFunctionOnSet(f, (i + 1) .. ((i + 1) - 1)) = 0 BY <3>1, EmptySum
    <3> HIDE DEF seg
    <3>4. QED BY <1>2, <2>1, <3>2, <3>3
  <2>2. CASE cs[i].c.op \notin seg
    <3>1. OriginAt(cs, i + 1) =
            (IF j = 0 THEN 0 ELSE cs[j].c.n) + SumFunctionOnSet(f, (j + 1) .. ((i + 1) - 1))
      BY <1>4, <2>2 DEF OriginAt, f
    <3>2. SumFunctionOnSet(f, (j + 1) .. i) = SumFunctionOnSet(f, (j + 1) .. (i - 1)) + f[i]
      <4>1. \A l \in (j + 1) .. i : f[l] \in Int BY <1>1, <1>2, <1>3
      <4>2. j + 1 \in Int /\ i \in Int /\ j + 1 <= i BY <1>1, <1>3
      <4>3. QED BY <4>1, <4>2, IntervalSum
    <3>3. f[i] = Travel(cs[i].c) /\ f[i] \in Int BY <1>2 DEF f
    <3>4. QED BY <1>1, <1>5, <1>6, <1>7, <2>2, <3>1, <3>2, <3>3
  <2>3. QED BY <2>1, <2>2
<1>10. LastIn(cs, i + 1, Loops) = IF cs[i].c.op \in Loops THEN i ELSE LastIn(cs, i, Loops)
  BY <1>1, LastInNext
<1>11. TypeAt(cs, i + 1) = IF cs[i].c.op = "SET_TYPE_IMM" THEN cs[i].c.n ELSE TypeAt(cs, i)
  <2>1. LastIn(cs, i + 1, {"SET_TYPE_IMM"}) =
          IF cs[i].c.op \in {"SET_TYPE_IMM"} THEN i ELSE LastIn(cs, i, {"SET_TYPE_IMM"})
    <3> DEFINE ops == {"SET_TYPE_IMM"}
    <3> HIDE DEF ops
    <3>1. LastIn(cs, i + 1, ops) = IF cs[i].c.op \in ops THEN i ELSE LastIn(cs, i, ops)
      BY <1>1, LastInNext
    <3>2. QED BY <3>1 DEF ops
  <2>2. QED BY <1>1, <2>1 DEF TypeAt
<1>12. SegmentAt(cs, i + 1) = IF cs[i].c.op \in seg THEN cs[i].c.k ELSE SegmentAt(cs, i)
  BY <1>1, <1>4 DEF SegmentAt
<1>13. QED BY <1>8, <1>9, <1>10, <1>11, <1>12

----------------------------------------------------------------------------
(* That every step makes what is due.                                      *)

Whole == IInv /\ AllIsDue

LEMMA InitIsDue == Init => AllIsDue
<1>1. SUFFICES ASSUME Init PROVE AllIsDue OBVIOUS
<1>2. next = 1 /\ fixups = << >> /\ context = ZeroContext /\ phase \in {"parse", "done"}
  BY <1>1 DEF Init
<1>3. DOMAIN fixups = {} BY <1>2
<1>4. CommandsAreDone BY <1>2 DEF CommandsAreDone
<1>5. QED BY <1>2, <1>3, <1>4 DEF AllIsDue, NotBegun

\* The context is that of the first command when the parser hands over.
LEMMA ParseIsDue ==
  ASSUME Whole, phase = "parse", phase' \in {"parse", "run", "done"},
         UNCHANGED <<next, context, fixups>>, phase' = "run" => Len(commands') \in Nat \ {0}
  PROVE  AllIsDue'
<1>1. next' = 1 /\ fixups' = << >> /\ context' = ZeroContext
  BY DEF Whole, AllIsDue, NotBegun
<1>2. DOMAIN fixups' = {} BY <1>1
<1>3. CommandsAreDone' BY <1>1 DEF CommandsAreDone
<1>4. ASSUME phase' = "run" PROVE RunIsDue'
  <2>1. next' <= Len(commands') BY <1>1, <1>4
  <2>2. /\ TypeAt(commands', next') = 0 /\ SegmentAt(commands', next') = 0
        /\ OriginAt(commands', next') = 0 /\ LastIn(commands', next', Loops) = 0
    BY <1>1, Firsts, LastInFirst
  <2>3. Wrap(0) = 0 BY WrapOfWord, WordAssumption DEF Word
  <2>4. ContextIsDue' BY <1>1, <2>2 DEF ContextIsDue, ZeroContext
  <2>5. context'.offset = Wrap(OriginAt(commands', next')) BY <1>1, <2>2, <2>3 DEF ZeroContext
  <2>6. QED BY <2>1, <2>4, <2>5 DEF RunIsDue
<1>5. QED BY <1>1, <1>2, <1>3, <1>4 DEF AllIsDue, NotBegun

\* Handing back a context that is what the next command should find, when all is done.
LEMMA EndIsDue ==
  ASSUME Whole, phase \in {"run", "loop"}, next <= Len(commands),
         NEW ctx, NEW success \in BOOLEAN, EndCommand(ctx, success),
         keepGoing /\ success =>
           /\ ctx.type = TypeAt(commands, next + 1) /\ ctx.segmentIndex = SegmentAt(commands, next + 1)
           /\ ctx.offset = Wrap(OriginAt(commands, next + 1))
           /\ IF ctx.command THEN ctx.start = StartAt(commands, next + 1)
                             ELSE LastIn(commands, next + 1, Loops) = next
           /\ MadeBy(fixups, next) = DueOf(commands[next].c)
  PROVE  AllIsDue'
<1>1. /\ commands' = commands /\ fixups' = fixups /\ next' = next + 1 /\ context' = ctx
      /\ keepGoing' = (keepGoing /\ success)
      /\ phase' = IF keepGoing' /\ next' <= Len(commands) THEN "run" ELSE "done"
  BY DEF EndCommand
<1>2. next \in Nat \ {0} /\ Len(commands) \in Nat /\ keepGoing \in BOOLEAN
  BY LenProperties DEF Whole, IInv, TypeOK
<1>3. ASSUME NEW f \in DOMAIN fixups' PROVE FixupIsDue(f)'
  <2>1. FixupIsDue(f) BY <1>1 DEF Whole, AllIsDue
  <2>2. fixups[f].by \in Nat BY <2>1, <1>2, LenProperties DEF FixupIsDue, Whole, IInv, TypeOK
  <2>3. fixups[f].by <= next' /\ fixups[f].by # next' BY <1>1, <1>2, <2>1, <2>2 DEF FixupIsDue
  <2>4. QED BY <1>1, <2>1, <2>3 DEF FixupIsDue
<1>4. CommandsAreDone'
  <2>1. SUFFICES ASSUME NEW i \in 1 .. (next' - 1), i < next' - 1 \/ keepGoing' \/ phase' = "loop"
                 PROVE  MadeBy(fixups, i) = DueOf(commands[i].c)
    BY <1>1 DEF CommandsAreDone
  <2>2. CASE i = next BY <1>1, <1>2, <2>1, <2>2
  <2>3. CASE i # next
    <3>1. i \in 1 .. (next - 1) BY <1>1, <1>2, <2>3
    <3>2. keepGoing \/ phase = "loop" BY DEF Whole, IInv, Controlled
    <3>3. QED BY <3>1, <3>2 DEF Whole, AllIsDue, CommandsAreDone
  <2>4. QED BY <2>2, <2>3
<1>5. ASSUME phase' = "run" PROVE RunIsDue'
  <2>1. keepGoing /\ success /\ next' <= Len(commands) BY <1>1, <1>2, <1>5
  <2>2. next' - 1 = next BY <1>1, <1>2
  <2>3. ContextIsDue' BY <1>1, <2>1, <2>2 DEF ContextIsDue
  <2>4. QED BY <1>1, <2>1, <2>3 DEF RunIsDue
<1>6. phase' # "parse" /\ phase' # "loop" BY <1>1
<1>7. QED BY <1>3, <1>4, <1>5, <1>6 DEF AllIsDue

\* What a command finds: its context, and none of its own fixups.
LEMMA BegunIsDue ==
  ASSUME Whole, phase = "run"
  PROVE  /\ keepGoing /\ next \in DOMAIN commands /\ commands \in CommandLists
         /\ Begun.command /\ Begun.start = StartAt(commands, next)
         /\ Begun.type = TypeAt(commands, next) /\ Begun.segmentIndex = SegmentAt(commands, next)
         /\ Begun.offset = Wrap(OriginAt(commands, next)) /\ Begun.offset \in Word
         /\ Begun \in Contexts
         /\ MadeBy(fixups, next) = 0
<1>1. /\ keepGoing /\ next \in DOMAIN commands /\ commands \in CommandLists /\ context \in Contexts
      /\ next \in Nat /\ Begun \in Contexts
  <2>1. TypeOK /\ RunIsDue /\ keepGoing BY DEF Whole, IInv, AllIsDue, Controlled
  <2>2. next \in DOMAIN commands BY <2>1, LenProperties DEF TypeOK, RunIsDue
  <2>3. QED BY <2>1, <2>2, CommandsAreTyped, BegunIsTyped DEF TypeOK, RunIsDue
<1>2. RunIsDue /\ ContextIsDue BY DEF Whole, AllIsDue, RunIsDue
<1>3. Begun.command /\ Begun.start = StartAt(commands, next)
  <2>1. CASE context.command BY <1>2, <2>1 DEF Begun, ContextIsDue
  <2>2. CASE ~ context.command
    <3>1. LastIn(commands, next, Loops) + 1 = next BY <1>1, <1>2, <2>2 DEF ContextIsDue
    <3>2. Begun.start = commands[next].at /\ Begun.command BY <1>1, <2>2 DEF Begun, Contexts
    <3>3. QED BY <3>1, <3>2 DEF StartAt
  <2>3. QED BY <2>1, <2>2
<1>4. /\ Begun.type = context.type /\ Begun.segmentIndex = context.segmentIndex
      /\ Begun.offset = context.offset
  BY <1>1 DEF Begun, Contexts
<1>5. context.offset \in Word BY <1>1 DEF Contexts
<1>6. MadeBy(fixups, next) = 0
  <2>1. ASSUME NEW f \in DOMAIN fixups PROVE fixups[f].by # next
    BY DEF Whole, AllIsDue, FixupIsDue
  <2>2. QED BY <2>1, MadeByNone DEF Whole, IInv, TypeOK
<1>7. QED BY <1>1, <1>2, <1>3, <1>4, <1>5, <1>6 DEF RunIsDue, ContextIsDue

\* The commands that make no fixup.
LEMMA SimpleIsDue ==
  ASSUME Whole, SetType \/ SetSegmentAndOffset \/ AddAddress \/ Done
  PROVE  AllIsDue'
<1>1. phase = "run" /\ next <= Len(commands)
  BY DEF SetType, SetSegmentAndOffset, AddAddress, Done, Running
<1> DEFINE c == commands[next].c
<1>2. /\ keepGoing /\ next \in DOMAIN commands /\ commands \in CommandLists
      /\ Begun.command /\ Begun.start = StartAt(commands, next)
      /\ Begun.type = TypeAt(commands, next) /\ Begun.segmentIndex = SegmentAt(commands, next)
      /\ Begun.offset = Wrap(OriginAt(commands, next)) /\ Begun.offset \in Word
      /\ Begun \in Contexts
      /\ MadeBy(fixups, next) = 0
  BY <1>1, BegunIsDue
<1>3. c \in CommandType /\ c.n \in Word BY <1>2, TravelsAreTyped DEF CommandType
<1>4. ASSUME c.op \notin Loops
      PROVE  MadeBy(fixups, next) = DueOf(c) /\ StartAt(commands, next + 1) = StartAt(commands, next)
  BY <1>2, <1>4, Nexts DEF DueOf, StartAt
<1>5. /\ TypeAt(commands, next + 1) = IF c.op = "SET_TYPE_IMM" THEN c.n ELSE TypeAt(commands, next)
      /\ SegmentAt(commands, next + 1) = IF c.op = "SET_SEGMENT_AND_OFFSET_ULEB"
                                         THEN c.k ELSE SegmentAt(commands, next)
      /\ OriginAt(commands, next + 1) = IF c.op = "SET_SEGMENT_AND_OFFSET_ULEB"
                                        THEN c.n ELSE OriginAt(commands, next) + Travel(c)
      /\ OriginAt(commands, next) \in Int
  BY <1>2, Nexts
<1> HIDE DEF c
<1>6. CASE SetType
  <2> DEFINE ctx == [Begun EXCEPT !.type = c.n]
  <2>1. c.op = "SET_TYPE_IMM" /\ EndCommand(ctx, TRUE)
    BY <1>6 DEF SetType, Running, Command, c
  <2>2. c.op \notin Loops /\ Travel(c) = 0 BY <2>1 DEF Loops, Travel
  <2>3. /\ ctx.type = TypeAt(commands, next + 1) /\ ctx.segmentIndex = SegmentAt(commands, next + 1)
        /\ ctx.offset = Wrap(OriginAt(commands, next + 1))
        /\ ctx.command /\ ctx.start = StartAt(commands, next + 1)
    BY <1>2, <1>4, <1>5, <2>1, <2>2 DEF Contexts
  <2> HIDE DEF ctx
  <2>4. QED BY <1>1, <1>4, <2>1, <2>2, <2>3, EndIsDue DEF c
<1>7. CASE SetSegmentAndOffset
  <2> DEFINE ctx == [Begun EXCEPT !.segmentIndex = c.k, !.offset = c.n]
  <2>1. c.op = "SET_SEGMENT_AND_OFFSET_ULEB" /\ EndCommand(ctx, TRUE)
    BY <1>7 DEF SetSegmentAndOffset, Running, Command, c
  <2>2. c.op \notin Loops BY <2>1 DEF Loops
  <2>3. Wrap(c.n) = c.n BY <1>3, WrapOfWord
  <2>4. /\ ctx.type = TypeAt(commands, next + 1) /\ ctx.segmentIndex = SegmentAt(commands, next + 1)
        /\ ctx.offset = Wrap(OriginAt(commands, next + 1))
        /\ ctx.command /\ ctx.start = StartAt(commands, next + 1)
    BY <1>2, <1>4, <1>5, <2>1, <2>2, <2>3 DEF Contexts
  <2> HIDE DEF ctx
  <2>5. QED BY <1>1, <1>4, <2>1, <2>2, <2>4, EndIsDue DEF c
<1>8. CASE AddAddress
  <2> DEFINE by == IF c.op = "ADD_ADDR_ULEB" THEN c.n ELSE c.n * PointerSize
             moved == mk_vm_offset_add(Begun.offset, by)
             ctx == [Begun EXCEPT !.offset = moved.value]
  <2>1. c.op \in {"ADD_ADDR_ULEB", "ADD_ADDR_IMM_SCALED"}
        /\ IF Succeeded(moved) THEN EndCommand(ctx, TRUE) ELSE EndCommand(Begun, FALSE)
    BY <1>8 DEF AddAddress, Running, Command, c
  <2>2. c.op \notin Loops /\ Travel(c) = by BY <2>1 DEF Loops, Travel
  <2>3. by \in Nat BY <1>3, WordAssumption, RebaseAssumption DEF Word
  <2>4. CASE Succeeded(moved)
    <3>1. moved.value = Begun.offset + by /\ Begun.offset + by \in Word
      BY <1>2, <2>3, <2>4, AdditionStays
    <3>2. by \in Word BY <1>2, <2>3, <3>1, WordAssumption DEF Word
    <3> HIDE DEF by
    <3>3. moved.value = Wrap(OriginAt(commands, next) + by)
      <4>1. Wrap(by) = by /\ Wrap(Begun.offset + by) = Begun.offset + by
        BY <3>1, <3>2, WrapOfWord
      <4>2. Wrap(Wrap(OriginAt(commands, next)) + Wrap(by)) = Wrap(OriginAt(commands, next) + by)
        BY <1>5, <2>3, WrapOfSum
      <4>3. QED BY <1>2, <3>1, <4>1, <4>2
    <3> HIDE DEF moved
    <3>4. /\ ctx.type = TypeAt(commands, next + 1) /\ ctx.segmentIndex = SegmentAt(commands, next + 1)
          /\ ctx.offset = Wrap(OriginAt(commands, next + 1))
          /\ ctx.command /\ ctx.start = StartAt(commands, next + 1)
      BY <1>2, <1>4, <1>5, <2>1, <2>2, <3>3 DEF Contexts
    <3> HIDE DEF ctx
    <3>5. QED BY <1>1, <1>4, <2>1, <2>2, <2>4, <3>4, EndIsDue DEF c
  <2>5. CASE ~ Succeeded(moved)
    <3>1. EndCommand(Begun, FALSE) BY <2>1, <2>5
    <3>2. QED BY <1>1, <3>1, EndIsDue
  <2>6. QED BY <2>4, <2>5
<1>9. CASE Done
  <2> DEFINE ctx == [Begun EXCEPT !.command = FALSE]
  <2>1. EndCommand(ctx, FALSE) BY <1>9 DEF Done
  <2> HIDE DEF ctx
  <2>2. QED BY <1>1, <2>1, EndIsDue
<1>10. QED BY <1>6, <1>7, <1>8, <1>9

LEMMA BeginLoopIsDue ==
  ASSUME Whole, BeginLoop
  PROVE  AllIsDue'
<1> DEFINE c == commands[next].c
<1>1. /\ phase = "run" /\ phase' = "loop" /\ context' = Begun /\ turns' = Count(c)
      /\ UNCHANGED <<info, commands, next, fixups, keepGoing, thrown>>
  BY DEF BeginLoop, Running, Command
<1>2. /\ keepGoing /\ next \in DOMAIN commands /\ commands \in CommandLists
      /\ Begun.command /\ Begun.start = StartAt(commands, next)
      /\ Begun.type = TypeAt(commands, next) /\ Begun.segmentIndex = SegmentAt(commands, next)
      /\ Begun.offset = Wrap(OriginAt(commands, next)) /\ Begun.offset \in Word
      /\ MadeBy(fixups, next) = 0
  BY <1>1, BegunIsDue
<1>3. /\ TurnTravel(c) \in Nat /\ Count(c) \in Nat /\ OriginAt(commands, next) \in Int
  BY <1>2, TravelsAreTyped, TravelIsTyped, Nexts
<1>4. ASSUME NEW f \in DOMAIN fixups' PROVE FixupIsDue(f)'
  <2>1. FixupIsDue(f) BY <1>1 DEF Whole, AllIsDue
  <2>2. QED BY <1>1, <2>1 DEF FixupIsDue
<1>5. CommandsAreDone' BY <1>1, <1>2 DEF Whole, AllIsDue, CommandsAreDone
<1> HIDE DEF c
<1>6. LoopIsDue'
  <2>1. ContextIsDue' BY <1>1, <1>2 DEF ContextIsDue
  <2>2. OriginAt(commands, next) + 0 * TurnTravel(c) = OriginAt(commands, next) BY <1>3
  <2>3. context'.offset = Wrap(OriginAt(commands, next) + MadeBy(fixups, next) * TurnTravel(c))
    BY <1>1, <1>2, <2>2
  <2>4. MadeBy(fixups, next) + turns' = Count(c) BY <1>1, <1>2, <1>3
  <2>5. QED BY <1>1, <1>2, <2>1, <2>3, <2>4 DEF LoopIsDue, c
<1>7. QED BY <1>1, <1>4, <1>5, <1>6 DEF AllIsDue

LEMMA EndLoopIsDue ==
  ASSUME Whole, EndLoop
  PROVE  AllIsDue'
<1> DEFINE c == commands[next].c
           ctx == [context EXCEPT !.command = FALSE]
<1>1. phase = "loop" /\ turns = 0 /\ EndCommand(ctx, TRUE) BY DEF EndLoop
<1>2. /\ next \in DOMAIN commands /\ next <= Len(commands) /\ commands \in CommandLists
      /\ c.op \in Loops /\ context \in Contexts /\ LoopIsDue /\ next \in Nat \ {0}
  BY <1>1, CommandsAreTyped, LenProperties DEF Whole, IInv, TypeOK, Controlled, AllIsDue
<1>3. /\ TypeAt(commands, next + 1) = TypeAt(commands, next)
      /\ SegmentAt(commands, next + 1) = SegmentAt(commands, next)
      /\ OriginAt(commands, next + 1) = OriginAt(commands, next) + Travel(c)
      /\ LastIn(commands, next + 1, Loops) = next
  <2>1. c.op # "SET_TYPE_IMM" /\ c.op # "SET_SEGMENT_AND_OFFSET_ULEB" BY <1>2 DEF Loops
  <2>2. QED BY <1>2, <2>1, Nexts
<1>4. Travel(c) = Count(c) * TurnTravel(c) /\ DueOf(c) = Count(c)
  BY <1>2, TravelsAreTyped, TravelIsTyped DEF DueOf
<1> HIDE DEF c
<1>5. ASSUME keepGoing
      PROVE  /\ ctx.type = TypeAt(commands, next + 1) /\ ctx.segmentIndex = SegmentAt(commands, next + 1)
             /\ ctx.offset = Wrap(OriginAt(commands, next + 1))
             /\ MadeBy(fixups, next) = DueOf(c)
  <2>1. MadeBy(fixups, next) \in Nat
    <3>1. fixups \in Seq(Fixups) BY DEF Whole, IInv, TypeOK
    <3>2. PICK T, x : x \in T /\ fixups \in Seq(T)
      <4>1. fixups \in Seq(Fixups \cup {0}) BY <3>1, SeqMonotonic
      <4>2. 0 \in Fixups \cup {0} OBVIOUS
      <4>3. QED BY <4>1, <4>2
    <3>3. QED BY <3>2, MadeByMore
  <2>2. MadeBy(fixups, next) = Count(c)
    BY <1>1, <1>2, <1>5, <2>1 DEF LoopIsDue, c
  <2>3. context.offset = Wrap(OriginAt(commands, next) + Travel(c))
    BY <1>2, <1>4, <1>5, <2>2 DEF LoopIsDue, c
  <2>4. context.type = TypeAt(commands, next) /\ context.segmentIndex = SegmentAt(commands, next)
    BY <1>2, <1>5 DEF LoopIsDue, ContextIsDue
  <2>5. QED BY <1>2, <1>3, <1>4, <2>2, <2>3, <2>4 DEF Contexts
<1>6. ctx.command = FALSE BY <1>2 DEF Contexts
<1> HIDE DEF ctx
<1>7. QED BY <1>1, <1>2, <1>3, <1>5, <1>6, EndIsDue DEF c

\* The step past a fixup, wrapped or not, is how far a turn moves the location.
LEMMA TurnMoves ==
  ASSUME NEW c \in CommandType, NEW offset \in Word, offset + Stride(c) \in Word,
         NEW x \in Int, offset = Wrap(x)
  PROVE  offset + Stride(c) = Wrap(x + TurnTravel(c))
<1>1. c.n \in Nat /\ c.k \in Nat /\ PointerSize \in Nat /\ TurnTravel(c) \in Nat /\ offset \in Nat
  BY WordAssumption, RebaseAssumption, TravelIsTyped DEF Word, CommandType
<1>2. Stride(c) \in Word /\ Wrap(Stride(c)) = Wrap(TurnTravel(c))
  <2>1. Stride(c) \in Nat BY LoopOperands DEF CommandType
  <2>2. Stride(c) \in Word BY <1>1, <2>1, WordAssumption DEF Word
  <2>3. Wrap(Stride(c)) = Stride(c) BY <2>2, WrapOfWord
  <2>4. CASE c.op = "DO_REBASE_ADD_ADDR_ULEB"
    <3>1. Stride(c) = Wrap(c.n + PointerSize) /\ TurnTravel(c) = PointerSize + c.n
      BY <2>4 DEF Stride, TurnTravel
    <3>2. PointerSize + c.n = c.n + PointerSize BY <1>1
    <3>3. QED BY <2>2, <2>3, <3>1, <3>2
  <2>5. CASE c.op = "DO_REBASE_ULEB_TIMES_SKIPPING_ULEB"
    <3>1. Stride(c) = Wrap(c.k + PointerSize) /\ TurnTravel(c) = PointerSize + c.k
      BY <2>5 DEF Stride, TurnTravel
    <3>2. PointerSize + c.k = c.k + PointerSize BY <1>1
    <3>3. QED BY <2>2, <2>3, <3>1, <3>2
  <2>6. CASE c.op # "DO_REBASE_ADD_ADDR_ULEB" /\ c.op # "DO_REBASE_ULEB_TIMES_SKIPPING_ULEB"
    <3>1. Stride(c) = PointerSize /\ TurnTravel(c) = PointerSize + 0
      BY <2>6 DEF Stride, TurnTravel
    <3>2. QED BY <1>1, <2>2, <3>1
  <2>7. QED BY <2>4, <2>5, <2>6
<1>3. Wrap(offset + Stride(c)) = offset + Stride(c) /\ Wrap(offset) = offset BY WrapOfWord
<1>4. Wrap(Wrap(x) + Wrap(TurnTravel(c))) = Wrap(x + TurnTravel(c)) BY <1>1, WrapOfSum
<1>5. Wrap(Stride(c)) = Stride(c) BY <1>2, WrapOfWord
<1>6. QED BY <1>2, <1>3, <1>4, <1>5

LEMMA LoopTurnIsDue ==
  ASSUME Whole, LoopTurn
  PROVE  AllIsDue'
<1> DEFINE c == commands[next].c
           made == MakeFixup(context)
           moved == mk_vm_offset_add(context.offset, Stride(Command))
           m == MadeBy(fixups, next)
           x == OriginAt(commands, next) + m * TurnTravel(c)
<1>1. /\ phase = "loop" /\ turns > 0 /\ UNCHANGED <<info, commands, thrown>>
      /\ fixups' = IF Succeeded(made) THEN Append(fixups, made.value) ELSE fixups
      /\ ~ keepGoing => ~ Succeeded(made)
  BY DEF LoopTurn, Whole, IInv, Controlled
<1>2. /\ next \in DOMAIN commands /\ next <= Len(commands) /\ commands \in CommandLists
      /\ c.op \in Loops /\ context \in Contexts /\ LoopIsDue /\ ContextIsDue /\ next \in Nat \ {0}
      /\ fixups \in Seq(Fixups) /\ keepGoing \in BOOLEAN /\ turns \in Word
  BY <1>1, CommandsAreTyped, LenProperties
  DEF Whole, IInv, TypeOK, Controlled, AllIsDue, LoopIsDue
<1>3. c \in CommandType /\ TurnTravel(c) \in Nat /\ Count(c) \in Nat
      /\ OriginAt(commands, next) \in Int
  BY <1>2, TravelsAreTyped, TravelIsTyped, Nexts
<1>4. context.offset \in Word /\ turns \in Nat BY <1>2, WordAssumption DEF Contexts, Word
<1>5. ASSUME Succeeded(made)
      PROVE  /\ made.value \in Fixups /\ fixups' = Append(fixups, made.value)
             /\ made.value.by = next /\ made.value.start = StartAt(commands, next)
             /\ made.value.segment = SegmentAt(commands, next) + 1
             /\ made.value.type = TypeAt(commands, next)
             /\ made.value.offset = Wrap(x)
  <2>1. keepGoing BY <1>1, <1>5
  <2>2. made.value \in Fixups BY <1>2, <1>5, MadeFixup
  <2>3. /\ made.value.by = next /\ made.value.start = context.start
        /\ made.value.segment = context.segmentIndex + 1
        /\ made.value.type = context.type /\ made.value.offset = context.offset
    <3>1. made.value = [start |-> context.start, by |-> next, type |-> context.type,
                        segment |-> context.segmentIndex + 1, offset |-> context.offset]
      BY <1>5 DEF MakeFixup, Succeeded, Fails, Ok
    <3>2. QED BY <3>1
  <2>4. /\ context.start = StartAt(commands, next) /\ context.type = TypeAt(commands, next)
        /\ context.segmentIndex = SegmentAt(commands, next) /\ context.offset = Wrap(x)
    BY <1>2, <2>1 DEF LoopIsDue, ContextIsDue
  <2>5. QED BY <1>1, <1>5, <2>2, <2>3, <2>4
<1> HIDE DEF c, made, moved, x
<1>6. /\ \A i : MadeBy(fixups, i) \in Nat
      /\ \A i : i # next => MadeBy(fixups', i) = MadeBy(fixups, i)
      /\ MadeBy(fixups', next) = IF Succeeded(made) THEN m + 1 ELSE m
  <2>1. CASE Succeeded(made)
    <3>1. made.value \in Fixups /\ fixups' = Append(fixups, made.value) /\ made.value.by = next
      BY <1>5, <2>1
    <3>2. \A i : /\ MadeBy(fixups, i) \in Nat
                 /\ MadeBy(Append(fixups, made.value), i) =
                      IF made.value.by = i THEN MadeBy(fixups, i) + 1 ELSE MadeBy(fixups, i)
      BY <1>2, <3>1, MadeByMore
    <3>3. QED BY <2>1, <3>1, <3>2
  <2>2. CASE ~ Succeeded(made)
    <3>1. fixups \in Seq(Fixups \cup {0}) /\ 0 \in Fixups \cup {0} BY <1>2, SeqMonotonic
    <3>2. \A i : MadeBy(fixups, i) \in Nat BY <3>1, MadeByMore
    <3>3. QED BY <1>1, <2>2, <3>2
  <2>3. QED BY <2>1, <2>2
<1>7. ASSUME NEW f \in DOMAIN fixups', (next' = next /\ phase' = "loop") \/ next' = next + 1
      PROVE  FixupIsDue(f)'
  <2>1. ASSUME NEW g \in DOMAIN fixups PROVE FixupIsDue(g) BY DEF Whole, AllIsDue
  <2>2. CASE ~ Succeeded(made)
    <3>1. fixups' = fixups /\ FixupIsDue(f) BY <1>1, <2>1, <2>2
    <3>2. fixups[f].by \in Nat BY <1>2, <3>1, LenProperties DEF FixupIsDue, CommandLists
    <3>3. fixups[f].by <= next' /\ (fixups[f].by = next' => phase' = "loop")
      BY <1>2, <1>7, <3>1, <3>2 DEF FixupIsDue
    <3>4. QED BY <1>1, <3>1, <3>3 DEF FixupIsDue
  <2>3. CASE Succeeded(made)
    <3>1. /\ DOMAIN fixups = 1 .. Len(fixups) /\ Len(fixups) \in Nat
          /\ f \in 1 .. (Len(fixups) + 1)
          /\ \A g \in 1 .. Len(fixups) : fixups'[g] = fixups[g]
          /\ fixups'[Len(fixups) + 1] = made.value
      BY <1>2, <1>5, <2>3, AppendProperties, LenProperties
    <3>2. /\ TurnOf(fixups', Len(fixups) + 1) = m
          /\ \A g \in 1 .. Len(fixups) : TurnOf(fixups', g) = TurnOf(fixups, g)
      <4>1. made.value \in Fixups /\ fixups' = Append(fixups, made.value) /\ made.value.by = next
        BY <1>5, <2>3
      <4>2. /\ TurnOf(Append(fixups, made.value), Len(fixups) + 1) = MadeBy(fixups, made.value.by)
            /\ \A g \in 1 .. Len(fixups) : TurnOf(Append(fixups, made.value), g) = TurnOf(fixups, g)
        BY <1>2, <4>1, MadeByMore
      <4>3. QED BY <4>1, <4>2
    <3>3. CASE f = Len(fixups) + 1
      <4>1. next <= next' /\ (next = next' => phase' = "loop") BY <1>2, <1>7
      <4>2. fixups'[f] = made.value /\ TurnOf(fixups', f) = m BY <3>1, <3>2, <3>3
      <4>3. made.value.offset = Wrap(OriginAt(commands, next) + m * TurnTravel(commands[next].c))
        BY <1>5, <2>3 DEF x, c
      <4>4. QED BY <1>1, <1>2, <1>5, <2>3, <4>1, <4>2, <4>3 DEF FixupIsDue
    <3>4. CASE f \in 1 .. Len(fixups)
      <4>1. FixupIsDue(f) /\ fixups'[f] = fixups[f] /\ TurnOf(fixups', f) = TurnOf(fixups, f)
        BY <2>1, <3>1, <3>2, <3>4
      <4>2. fixups[f].by \in Nat BY <1>2, <4>1, LenProperties DEF FixupIsDue, CommandLists
      <4>3. fixups[f].by <= next' /\ (fixups[f].by = next' => phase' = "loop")
        BY <1>2, <1>7, <4>1, <4>2 DEF FixupIsDue
      <4>4. QED BY <1>1, <4>1, <4>3 DEF FixupIsDue
    <3>5. QED BY <3>1, <3>3, <3>4
  <2>4. QED BY <2>2, <2>3
<1>8. ASSUME NEW i \in 1 .. (next - 1) PROVE MadeBy(fixups', i) = DueOf(commands[i].c)
  <2>1. MadeBy(fixups, i) = DueOf(commands[i].c) BY <1>1 DEF Whole, AllIsDue, CommandsAreDone
  <2>2. i # next BY <1>2
  <2>3. QED BY <1>6, <2>1, <2>2
<1>9. CASE Succeeded(moved)
  <2>1. /\ context' = [context EXCEPT !.offset = moved.value] /\ turns' = turns - 1
        /\ keepGoing' = (keepGoing /\ Succeeded(made)) /\ UNCHANGED <<phase, next>>
    BY <1>9 DEF LoopTurn, moved, made
  <2>2. CommandsAreDone' BY <1>1, <1>8, <2>1 DEF CommandsAreDone
  <2>3. ContextIsDue' /\ context'.command
    <3>1. /\ context'.command = context.command /\ context'.start = context.start
          /\ context'.type = context.type /\ context'.segmentIndex = context.segmentIndex
      BY <1>2, <2>1 DEF Contexts
    <3>2. context.command BY <1>2 DEF LoopIsDue
    <3>3. keepGoing' => keepGoing BY <2>1
    <3>4. QED BY <1>1, <1>2, <2>1, <3>1, <3>2, <3>3 DEF ContextIsDue
  <2>4. ASSUME keepGoing'
        PROVE  /\ context'.offset =
                    Wrap(OriginAt(commands, next) + MadeBy(fixups', next) * TurnTravel(c))
               /\ MadeBy(fixups', next) + turns' = Count(c)
    <3>1. keepGoing /\ Succeeded(made) BY <1>2, <2>1, <2>4
    <3>2. m \in Nat /\ MadeBy(fixups', next) = m + 1 BY <1>6, <3>1
    <3>3. context.offset = Wrap(x) /\ m + turns = Count(c) BY <1>2, <3>1 DEF LoopIsDue, x, c
    <3>4. x \in Int BY <1>3, <3>2 DEF x
    <3>5. Stride(Command) = Stride(c) /\ Stride(c) \in Nat
      BY <1>3, LoopOperands DEF Command, c, CommandType
    <3>6. moved.value = context.offset + Stride(c) /\ moved.value \in Word
      BY <1>4, <1>9, <3>5, AdditionStays DEF moved
    <3>7. moved.value = Wrap(x + TurnTravel(c)) BY <1>3, <1>4, <3>3, <3>4, <3>6, TurnMoves
    <3>8. x + TurnTravel(c) = OriginAt(commands, next) + (m + 1) * TurnTravel(c)
      <4> DEFINE t == TurnTravel(c)
      <4> HIDE DEF m
      <4>1. x = OriginAt(commands, next) + m * t BY DEF x
      <4> HIDE DEF t
      <4>2. t \in Nat BY <1>3 DEF t
      <4>3. (m + 1) * t = m * t + t /\ m * t \in Nat BY <3>2, <4>2
      <4>4. x + t = OriginAt(commands, next) + (m + 1) * t BY <1>3, <4>1, <4>2, <4>3
      <4>5. QED BY <4>4 DEF t
    <3>9. context'.offset = moved.value BY <1>2, <2>1 DEF Contexts
    <3>10. MadeBy(fixups', next) + turns' = Count(c)
      <4> HIDE DEF m
      <4>1. QED BY <1>3, <1>4, <2>1, <3>2, <3>3
    <3>11. QED BY <3>2, <3>7, <3>8, <3>9, <3>10
  <2>5. LoopIsDue' BY <1>1, <2>1, <2>3, <2>4 DEF LoopIsDue, c
  <2>6. phase' = "loop" BY <1>1, <2>1
  <2>7. QED BY <1>7, <2>1, <2>2, <2>5, <2>6 DEF AllIsDue
<1>10. CASE ~ Succeeded(moved)
  <2>1. keepGoing' = FALSE /\ phase' = "done" /\ next' = next + 1
    BY <1>10 DEF LoopTurn, moved
  <2>2. next' - 1 = next BY <1>2, <2>1
  <2>3. CommandsAreDone'
    <3>1. SUFFICES ASSUME NEW i \in 1 .. next, i < next
                   PROVE  MadeBy(fixups', i) = DueOf(commands[i].c)
      BY <1>1, <2>1, <2>2 DEF CommandsAreDone
    <3>2. i \in 1 .. (next - 1) BY <1>2, <3>1
    <3>3. QED BY <1>8, <3>2
  <2>4. QED BY <1>7, <2>1, <2>3 DEF AllIsDue
<1>11. QED BY <1>9, <1>10

LEMMA StepIsDue == Whole /\ [Next]_vars => Whole'
<1>1. SUFFICES ASSUME Whole, [Next]_vars PROVE AllIsDue'
  BY StepHolds DEF Whole
<1>2. CASE UNCHANGED vars
  <2>1. /\ info' = info /\ commands' = commands /\ phase' = phase /\ next' = next /\ turns' = turns
        /\ context' = context /\ fixups' = fixups /\ keepGoing' = keepGoing
    BY <1>2 DEF vars
  <2>2. AllIsDue BY <1>1 DEF Whole
  <2>3. (\A f \in DOMAIN fixups : FixupIsDue(f))'
    BY <2>1, <2>2 DEF AllIsDue, FixupIsDue
  <2>4. CommandsAreDone' BY <2>1, <2>2 DEF AllIsDue, CommandsAreDone
  <2>5. ContextIsDue => ContextIsDue' BY <2>1 DEF ContextIsDue
  <2>6. RunIsDue => RunIsDue' BY <2>1, <2>5 DEF RunIsDue
  <2>7. LoopIsDue => LoopIsDue' BY <2>1, <2>5 DEF LoopIsDue
  <2>8. NotBegun => NotBegun' BY <2>1 DEF NotBegun
  <2>9. QED BY <2>1, <2>2, <2>3, <2>4, <2>6, <2>7, <2>8 DEF AllIsDue
<1>3. CASE ParseCommand
  <2>1. PICK c \in info.commands : /\ commands' = Append(commands, [c |-> c, at |-> ParseOffset])
                                   /\ phase' = IF c.op = "DONE" THEN "run" ELSE "parse"
    BY <1>3 DEF ParseCommand
  <2>2. TypeOK' BY <1>1, StepHolds DEF Whole, IInv
  <2>3. Len(commands') = Len(commands) + 1 /\ Len(commands) \in Nat
    BY <1>1, <2>1, LenProperties DEF Whole, IInv, TypeOK
  <2>4. QED BY <1>1, <1>3, <2>1, <2>3, ParseIsDue DEF ParseCommand
<1>4. CASE ParseEnds
  <2>1. commands # << >> => Len(commands) \in Nat \ {0}
    BY <1>1, EmptySeq DEF Whole, IInv, TypeOK
  <2>2. QED BY <1>1, <1>4, <2>1, ParseIsDue DEF ParseEnds
<1>5. CASE UnknownOpcode BY <1>1, <1>5, ParseIsDue DEF UnknownOpcode
<1>6. CASE SetType \/ SetSegmentAndOffset \/ AddAddress \/ Done BY <1>1, <1>6, SimpleIsDue
<1>7. CASE BeginLoop BY <1>1, <1>7, BeginLoopIsDue
<1>8. CASE LoopTurn BY <1>1, <1>8, LoopTurnIsDue
<1>9. CASE EndLoop BY <1>1, <1>9, EndLoopIsDue
<1>10. QED BY <1>1, <1>2, <1>3, <1>4, <1>5, <1>6, <1>7, <1>8, <1>9 DEF Next

\* In the words of the properties.
LEMMA DueIsDue == Whole => FixupsAreDue
<1>1. SUFFICES ASSUME Whole PROVE FixupsAreDue OBVIOUS
<1>2. ASSUME NEW f \in DOMAIN fixups PROVE FixupIsDue(f) BY <1>1 DEF Whole, AllIsDue
<1>4. FixupsAddUp
  <2> SUFFICES ASSUME NEW f \in DOMAIN fixups
               PROVE  LET by == fixups[f].by
                          base == LastBefore(by, {"SET_SEGMENT_AND_OFFSET_ULEB"})
                          typed == LastBefore(by, {"SET_TYPE_IMM"})
                          from == IF base = 0 THEN 0 ELSE commands[base].c.n
                          moved == SumFunctionOnSet(Travels, (base + 1) .. (by - 1))
                          turn == Cardinality({g \in 1 .. (f - 1) : fixups[g].by = by})
                      IN  /\ fixups[f].segment = IF base = 0 THEN 1 ELSE commands[base].c.k + 1
                          /\ fixups[f].type = IF typed = 0 THEN 0 ELSE commands[typed].c.n
                          /\ fixups[f].offset =
                               Wrap(from + moved + turn * TurnTravel(commands[by].c))
    BY DEF FixupsAddUp
  <2> DEFINE by == fixups[f].by
             base == LastBefore(by, {"SET_SEGMENT_AND_OFFSET_ULEB"})
             typed == LastBefore(by, {"SET_TYPE_IMM"})
             from == IF base = 0 THEN 0 ELSE commands[base].c.n
             moved == SumFunctionOnSet(Travels, (base + 1) .. (by - 1))
             turn == Cardinality({g \in 1 .. (f - 1) : fixups[g].by = by})
  <2>1. by = fixups[f].by OBVIOUS
  <2>2. /\ base = LastIn(commands, by, {"SET_SEGMENT_AND_OFFSET_ULEB"})
        /\ typed = LastIn(commands, by, {"SET_TYPE_IMM"})
    BY <2>1 DEF LastIn, LastBefore
  <2>3. FixupIsDue(f) BY <1>2
  <2>4. fixups[f].segment = IF base = 0 THEN 1 ELSE commands[base].c.k + 1
    BY <2>1, <2>2, <2>3 DEF FixupIsDue, SegmentAt
  <2>5. fixups[f].type = IF typed = 0 THEN 0 ELSE commands[typed].c.n
    BY <2>1, <2>2, <2>3 DEF FixupIsDue, TypeAt
  <2>6. fixups[f].offset = Wrap(OriginAt(commands, by) + TurnOf(fixups, f) * TurnTravel(commands[by].c))
    BY <2>1, <2>3 DEF FixupIsDue
  <2>7. OriginAt(commands, by) = from + moved BY <2>2 DEF OriginAt, Travels
  <2>8. TurnOf(fixups, f) = turn BY DEF TurnOf
  <2> HIDE DEF by, base, typed, from, moved, turn
  <2>9. fixups[f].offset = Wrap(from + moved + turn * TurnTravel(commands[by].c))
    BY <2>6, <2>7, <2>8
  <2>10. QED BY <2>4, <2>5, <2>9 DEF by, base, typed, from, moved, turn
<1>5. FixupsComplete
  BY <1>1 DEF FixupsComplete, Whole, AllIsDue, CommandsAreDone, MadeBy, DueOf
<1>6. QED BY <1>4, <1>5 DEF FixupsAreDue

LEMMA WholeHolds == Spec => []Whole
<1>1. Init => Whole BY InitHolds, InitIsDue DEF Whole
<1>2. QED BY <1>1, StepIsDue, PTL DEF Spec

----------------------------------------------------------------------------
(* The theorems.                                                           *)

LEMMA InvariantHolds == Spec => []IInv
<1>1. IInv /\ [Next]_vars => IInv' BY StepHolds
<1>2. QED BY <1>1, InitHolds, PTL DEF Spec

\* Only the parser touches the commands, and it adds each behind the one before it.
LEMMA CommandsGrow == [Next]_vars => ParseCommand \/ commands' = commands
BY DEF Next, vars, EndCommand, ParseEnds, UnknownOpcode, SetType, SetSegmentAndOffset, AddAddress,
       Done, BeginLoop, LoopTurn, EndLoop

LEMMA InOrderHolds == Spec => []InOrder(commands)
<1>1. Init => InOrder(commands) BY DEF Init, InOrder
<1>2. IInv /\ InOrder(commands) /\ [Next]_vars => InOrder(commands)'
  <2>1. SUFFICES ASSUME IInv, InOrder(commands), ParseCommand PROVE InOrder(commands')
    BY CommandsGrow DEF InOrder
  <2> DEFINE T == [c : info.commands, at : Nat]
  <2>2. commands \in Seq(T) BY <2>1 DEF IInv, TypeOK
  <2>3. PICK c \in info.commands : commands' = Append(commands, [c |-> c, at |-> ParseOffset])
    BY <2>1 DEF ParseCommand
  <2> DEFINE x == [c |-> c, at |-> ParseOffset]
  <2>4. /\ ParseOffset \in Nat
        /\ commands # << >> => commands[Len(commands)].at < ParseOffset
    <3>1. CASE commands = << >> BY <3>1 DEF ParseOffset
    <3>2. CASE commands # << >>
      <4>1. Len(commands) \in DOMAIN commands BY <2>2, <3>2, EmptySeq, LenProperties
      <4>2. /\ commands[Len(commands)].c.size \in Nat \ {0}
            /\ commands[Len(commands)].at \in Nat
        <5>1. commands[Len(commands)] \in T BY <2>2, <4>1, ElementOfSeq, LenProperties
        <5>2. info.commands \subseteq CommandType
          BY <2>1, RebaseAssumption DEF IInv, TypeOK, CommandType
        <5>3. QED BY <5>1, <5>2 DEF CommandType
      <4>3. QED BY <3>2, <4>2 DEF ParseOffset
    <3>3. QED BY <3>1, <3>2
  <2>5. x \in T /\ x.at = ParseOffset BY <2>4
  <2>6. \A t \in T : t.at \in Nat OBVIOUS
  <2> HIDE DEF T, x
  <2>7. InOrder(Append(commands, x)) BY <2>1, <2>2, <2>4, <2>5, <2>6, OneMoreInOrder
  <2>8. QED BY <2>3, <2>7 DEF x
<1>3. QED BY <1>1, <1>2, InvariantHolds, PTL DEF Spec

\* The machine's state has its type in every reachable state: the location never leaves the address
\* space, and the command being run is one of the info's (-[MKRebaseInfo initWithParent:error:]).
THEOREM TypeCorrect == Spec => []TypeOK
<1>1. IInv => TypeOK BY DEF IInv
<1>2. QED BY <1>1, InvariantHolds, PTL

\* No info, whatever its commands, makes a fixup outside of its segment or of the address space
\* (-[MKFixup initWithContext:error:]).
THEOREM FixupsStayInside == Spec => []FixupsInSegment
<1>1. IInv => FixupsInSegment BY DEF IInv
<1>2. QED BY <1>1, InvariantHolds, PTL

\* After a failure no other command is begun and no fixup is added, even by the loop that goes on:
\* a place behind one that was refused is refused as well (the rebase methods' loops).
THEOREM FailureStops == Spec => StopsAtFailure
<1>1. IInv /\ [Next]_vars => [Stops]_vars BY StepHolds
<1>2. [Stops]_vars => [~ keepGoing => /\ ~ keepGoing' /\ phase' # "run" /\ next' <= next + 1
                                      /\ fixups' = fixups]_vars
  BY DEF Stops
<1>3. QED BY <1>1, <1>2, InvariantHolds, PTL DEF Spec, StopsAtFailure

\* The node of a fixup begins at the first command after the last one that made fixups, and so behind
\* every such command before its own; the nodes of two commands' fixups begin apart
\* (MKRebaseContext's info and command, through the loops of -[MKRebaseInfo initWithParent:error:]).
THEOREM FixupsStartApart == Spec => []FixupStarts
<1>1. Whole /\ InOrder(commands) => FixupStarts
  <2>1. SUFFICES ASSUME Whole, InOrder(commands), NEW f \in DOMAIN fixups
                 PROVE  LET by == fixups[f].by
                        IN  /\ fixups[f].start = commands[LastIn(commands, by, Loops) + 1].at
                            /\ \A i \in 1 .. (by - 1) :
                                 commands[i].c.op \in Loops => commands[i].at < fixups[f].start
    BY DEF FixupStarts, LastBefore, LastIn
  <2> DEFINE by == fixups[f].by
  <2>2. /\ fixups[f].start = commands[LastIn(commands, by, Loops) + 1].at
        /\ by \in DOMAIN commands
    BY <2>1 DEF Whole, AllIsDue, FixupIsDue, StartAt
  <2>3. by \in Nat \ {0} /\ 1 .. by \subseteq DOMAIN commands
    <3>1. commands \in CommandLists BY <2>1, CommandsAreTyped DEF Whole, IInv
    <3>2. DOMAIN commands = 1 .. Len(commands) /\ Len(commands) \in Nat
      BY <3>1, LenProperties DEF CommandLists
    <3>3. QED BY <2>2, <3>2
  <2> HIDE DEF by
  <2>4. ASSUME NEW i \in 1 .. (by - 1), commands[i].c.op \in Loops
        PROVE  commands[i].at < fixups[f].start
    BY <2>1, <2>2, <2>3, <2>4, AfterTheLast
  <2>5. QED BY <2>2, <2>4 DEF by
<1>2. QED BY <1>1, WholeHolds, InOrderHolds, PTL

\* The fixups are those the commands call for.  Each is where the last segment command put the
\* location and the commands and turns since have moved it, although every step was checked or
\* wrapped on its own; its type is the last one set; and every command before the one that failed
\* has made all of its fixups and none twice.
THEOREM FixupsFallDue == Spec => []FixupsAreDue
<1>1. QED BY WholeHolds, DueIsDue, PTL
=============================================================================
