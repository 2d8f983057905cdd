-------------------------- MODULE BindMachineProofs --------------------------
(***************************************************************************)
(* What holds of the bind machine for every word width, pointer size, list *)
(* of segments, vocabulary of commands and contents of memory, however     *)
(* long the info is.                                                       *)
(***************************************************************************)
EXTENDS BindMachine, CoreProofs, SequenceTheorems

CommandRecord == [op : Opcodes, size : Nat \ {0}, n : Int, k : Int]

\* The action is inside its segment.
Inside(a) ==
  LET s == Segments[a.segment]
  IN  a.offset < s.vmSize /\ s.vmAddress + a.offset <= MaxWord

\* Between commands nothing has failed; a loop belongs to a command that is there; once a bind of a
\* counted loop has failed, the next one would fail too; and a chain is only followed in a segment.
Controlled ==
  /\ phase \in {"parse", "run"} => keepGoing
  /\ phase \in {"times", "apply"} => next <= Len(commands)
  /\ phase = "times" =>
       /\ commands[next].c.op = "DO_BIND_ULEB_TIMES_SKIPPING_ULEB"
       /\ ~ keepGoing => ~ Succeeded(MakeAction(context))
  /\ phase = "apply" => context.segment # NoSegment

IInv == TypeOK /\ ActionsInSegment /\ Controlled

\* What StopsAtFailure says of a step.
Stops ==
  ~ keepGoing => /\ ~ keepGoing' /\ phase' # "run" /\ next' <= next + 1
                 /\ phase = "times" => actions' = actions

\* The outcome of a bind: the actions are still actions of this kind, no failure is forgotten, and a
\* counted loop that has failed adds none.
Good(result) ==
  /\ result.actions \in Seq(Actions) /\ result.keepGoing \in BOOLEAN
  /\ \A a \in DOMAIN result.actions : Inside(result.actions[a])
  /\ ~ keepGoing => ~ result.keepGoing
  /\ ~ keepGoing /\ phase = "times" => result.actions = actions

----------------------------------------------------------------------------
(* The operators the steps are built from.                                 *)

\* A checked addition of any natural number to a word is exact and a word.
LEMMA AdditionStays ==
  ASSUME NEW a \in Word, NEW b \in Nat, Succeeded(mk_vm_offset_add(a, b))
  PROVE  mk_vm_offset_add(a, b).value = a + b /\ a + b \in Word
  BY WordAssumption DEF mk_vm_offset_add, Adds, Succeeded, Ok, Fails, Word

\* What commands are made of, and which operands are words or slides.
LEMMA CommandIsTyped ==
  ASSUME TypeOK, NEW i \in DOMAIN commands
  PROVE  /\ commands[i].at \in Nat /\ commands[i].c \in CommandRecord
         /\ commands[i].c.op \notin Setters => commands[i].c.k \in Word
         /\ commands[i].c.op \notin (Setters \cup {"ADD_ADDR_ULEB"}) => commands[i].c.n \in Word
         /\ commands[i].c.op = "ADD_ADDR_ULEB" => commands[i].c.n \in Slide
<1>1. commands[i] \in [c : info.commands, at : Nat]
  <2>1. commands \in Seq([c : info.commands, at : Nat]) BY DEF TypeOK
  <2>2. QED BY <2>1, ElementOfSeq, LenProperties
<1>2. info \in Infos BY DEF TypeOK
<1>3. commands[i].at \in Nat /\ commands[i].c \in info.commands BY <1>1
<1> DEFINE c == commands[i].c
<1> HIDE DEF c
<1>4. c \in info.commands BY <1>3 DEF c
<1>5. /\ c \in CommandRecord
      /\ c.op \notin Setters => c.k \in Word
      /\ c.op \notin (Setters \cup {"ADD_ADDR_ULEB"}) => c.n \in Word
      /\ c.op = "ADD_ADDR_ULEB" => c.n \in Slide
  BY <1>2, <1>4, BindAssumption DEF CommandRecord
<1>6. QED BY <1>3, <1>5 DEF c

\* The context a command is handed is one.
LEMMA BegunIsTyped ==
  ASSUME TypeOK, next <= Len(commands)
  PROVE  Begun \in Contexts /\ next \in DOMAIN commands
<1>1. next \in DOMAIN commands
  <2>1. commands \in Seq([c : info.commands, at : Nat]) BY DEF TypeOK
  <2>2. next \in 1 .. Len(commands) BY <2>1, LenProperties DEF TypeOK
  <2>3. QED BY <2>1, <2>2, LenProperties
<1>2. commands[next].at \in Nat BY <1>1, CommandIsTyped
<1>3. context \in Contexts BY DEF TypeOK
<1>4. QED BY <1>1, <1>2, <1>3 DEF Begun, Contexts

\* A segment of the image.
LEMMA SegmentIsTyped ==
  ASSUME NEW i \in DOMAIN Segments
  PROVE  Segments[i].vmAddress \in Word /\ Segments[i].vmSize \in Word
<1>1. Segments[i] \in [vmAddress : Word, vmSize : Word]
  BY BindAssumption, ElementOfSeq, LenProperties
<1>2. QED BY <1>1

\* A context's segment is one of the image's, or none.
LEMMA ContextSegment ==
  ASSUME NEW ctx \in Contexts, ctx.segment # NoSegment
  PROVE  ctx.segment \in DOMAIN Segments
<1>1. Len(Segments) \in Nat /\ DOMAIN Segments = 1 .. Len(Segments)
  BY BindAssumption, LenProperties
<1>2. QED BY <1>1 DEF Contexts, NoSegment

\* An action that is made has its segment, and is inside it.
LEMMA MadeAction ==
  ASSUME NEW ctx \in Contexts, next \in Nat, Succeeded(MakeAction(ctx))
  PROVE  MakeAction(ctx).value \in Actions /\ Inside(MakeAction(ctx).value)
<1> DEFINE s == Segments[ctx.segment]
           r == mk_vm_range_make(s.vmAddress, s.vmSize)
<1>0. /\ ctx.derivedOffset \in Word /\ ctx.start \in Nat /\ ctx.type \in Int
      /\ ctx.libraryOrdinal \in Int /\ ctx.addend \in Int /\ ctx.symbolName \in Int
  BY DEF Contexts
<1>1. ctx.segment # NoSegment /\ InSegment(ctx.segment, ctx.derivedOffset)
  BY DEF MakeAction, Succeeded, Fails
<1>2. ctx.segment \in DOMAIN Segments BY <1>1, ContextSegment
<1>3. s.vmAddress \in Word /\ s.vmSize \in Word BY <1>2, SegmentIsTyped
<1>4. r \in mk_vm_range /\ r.location = s.vmAddress /\ r.length = s.vmSize
  BY <1>3 DEF mk_vm_range_make, mk_vm_range
<1>5. Succeeded(mk_vm_range_contains_address(r, ctx.derivedOffset, s.vmAddress))
  BY <1>1 DEF InSegment
<1>6. /\ s.vmAddress + ctx.derivedOffset \in s.vmAddress .. (s.vmAddress + s.vmSize - 1)
      /\ s.vmAddress + s.vmSize <= MaxWord
  <2> HIDE DEF r, s
  <2>1. /\ s.vmAddress + ctx.derivedOffset \in r.location .. (r.location + r.length - 1)
        /\ r.location + r.length <= MaxWord
    BY <1>0, <1>3, <1>4, <1>5, ContainedAddress
  <2>2. QED BY <2>1, <1>4
<1>7. MakeAction(ctx).value =
        [start |-> ctx.start, by |-> next, segment |-> ctx.segment, offset |-> ctx.derivedOffset,
         type |-> ctx.type, libraryOrdinal |-> ctx.libraryOrdinal, addend |-> ctx.addend,
         symbolName |-> ctx.symbolName]
  BY <1>1 DEF MakeAction, Ok
<1>8. ctx.derivedOffset < s.vmSize /\ s.vmAddress + ctx.derivedOffset <= MaxWord
  <2> HIDE DEF s
  <2>1. QED BY <1>0, <1>3, <1>6, WordAssumption DEF Word
<1>9. QED BY <1>0, <1>2, <1>7, <1>8 DEF Inside, Actions

\* Behind a place where a bind fails it fails as well: there is no segment, or its end has been
\* passed.
LEMMA StaysFailed ==
  ASSUME NEW ctx \in Contexts, NEW offset \in Word, ctx.derivedOffset <= offset,
         ~ Succeeded(MakeAction(ctx))
  PROVE  ~ Succeeded(MakeAction([ctx EXCEPT !.derivedOffset = offset]))
<1> DEFINE s == Segments[ctx.segment]
           r == mk_vm_range_make(s.vmAddress, s.vmSize)
           after == [ctx EXCEPT !.derivedOffset = offset]
<1>0. /\ ctx.derivedOffset \in Word
      /\ after.segment = ctx.segment /\ after.derivedOffset = offset
  BY DEF Contexts
<1>1. CASE ctx.segment = NoSegment
  BY <1>0, <1>1 DEF MakeAction, Succeeded, Fails
<1>2. CASE ctx.segment # NoSegment
  <2>1. s.vmAddress \in Word /\ s.vmSize \in Word BY <1>2, ContextSegment, SegmentIsTyped
  <2>2. ~ Succeeded(mk_vm_range_contains_address(r, ctx.derivedOffset, s.vmAddress))
    BY <1>2 DEF MakeAction, InSegment, Succeeded, Ok
  <2>3. ~ Succeeded(mk_vm_range_contains_address(r, offset, s.vmAddress))
    <3> HIDE DEF s
    <3>1. QED
      BY <1>0, <2>1, <2>2, WordAssumption
      DEF mk_vm_range_contains_address, mk_vm_address_apply_offset, Adds, RangeOverflows,
          mk_vm_range_make, Succeeded, Ok, Fails, Word
  <2>4. QED BY <1>0, <1>2, <2>3 DEF MakeAction, InSegment, Succeeded, Fails
<1>3. QED BY <1>1, <1>2

\* No bind: the actions stay.
LEMMA UnboundIsGood ==
  ASSUME IInv
  PROVE  Good(Unbound)
<1>1. \A a \in DOMAIN actions : Inside(actions[a])
  BY DEF IInv, ActionsInSegment, Inside
<1>2. actions \in Seq(Actions) /\ keepGoing \in BOOLEAN BY DEF IInv, TypeOK
<1>3. Unbound.actions = actions /\ Unbound.keepGoing = keepGoing BY DEF Unbound
<1>4. QED BY <1>1, <1>2, <1>3 DEF Good

\* A bind that was refused.
LEMMA RefusalIsGood ==
  ASSUME IInv
  PROVE  Good([actions |-> actions, keepGoing |-> FALSE])
<1>1. \A a \in DOMAIN actions : Inside(actions[a])
  BY DEF IInv, ActionsInSegment, Inside
<1>2. actions \in Seq(Actions) BY DEF IInv, TypeOK
<1>3. QED BY <1>1, <1>2 DEF Good

\* A bind adds one action inside its segment, or fails.
LEMMA BoundIsGood ==
  ASSUME IInv, NEW ctx \in Contexts,
         ~ keepGoing /\ phase = "times" => ~ Succeeded(MakeAction(ctx))
  PROVE  Good(Bound(ctx))
<1> DEFINE made == MakeAction(ctx)
<1>1. actions \in Seq(Actions) /\ next \in Nat /\ keepGoing \in BOOLEAN BY DEF IInv, TypeOK
<1>2. \A a \in DOMAIN actions : Inside(actions[a])
  BY DEF IInv, ActionsInSegment, Inside
<1>3. CASE ~ Succeeded(made)
  <2>1. Bound(ctx) = [actions |-> actions, keepGoing |-> FALSE] BY <1>3 DEF Bound
  <2>2. QED BY <2>1, RefusalIsGood
<1>4. CASE Succeeded(made)
  <2>1. Bound(ctx).actions = Append(actions, made.value) /\ Bound(ctx).keepGoing = keepGoing
    BY <1>4 DEF Bound
  <2>2. made.value \in Actions /\ Inside(made.value) BY <1>1, <1>4, MadeAction
  <2> DEFINE after == Append(actions, made.value)
  <2>3. after \in Seq(Actions) BY <1>1, <2>2, AppendProperties
  <2>4. ASSUME NEW a \in DOMAIN after PROVE Inside(after[a])
    <3>1. a \in 1 .. (Len(actions) + 1) /\ Len(actions) \in Nat
      BY <1>1, <2>2, <2>3, AppendProperties, LenProperties
    <3>2. CASE a = Len(actions) + 1 BY <1>1, <2>2, <3>2, AppendProperties
    <3>3. CASE a \in 1 .. Len(actions)
      <4>1. after[a] = actions[a] BY <1>1, <2>2, <3>3, AppendProperties
      <4>2. QED BY <1>1, <1>2, <3>3, <4>1, LenProperties
    <3>4. QED BY <3>1, <3>2, <3>3
  <2>5. ~ (~ keepGoing /\ phase = "times") BY <1>4
  <2> HIDE DEF after
  <2>6. Bound(ctx).actions = after BY <2>1 DEF after
  <2>7. QED BY <1>1, <2>1, <2>3, <2>4, <2>5, <2>6 DEF Good
<1>5. QED BY <1>3, <1>4

\* The actions after a good outcome are inside their segments.
LEMMA GoodActions ==
  ASSUME NEW result, Good(result), actions' = result.actions
  PROVE  ActionsInSegment' /\ actions' \in Seq(Actions)
  BY DEF Good, ActionsInSegment, Inside

LEMMA ActionsUnchanged ==
  ASSUME ActionsInSegment, UNCHANGED actions
  PROVE  ActionsInSegment'
  BY DEF ActionsInSegment

----------------------------------------------------------------------------
(* The steps.                                                              *)

LEMMA InitHolds == Init => IInv
<1>1. SUFFICES ASSUME Init PROVE IInv OBVIOUS
<1>2. 0 \in Word /\ MaxCommands \in Nat /\ Len(Segments) \in Nat
  BY WordAssumption, BindAssumption, LenProperties DEF Word
<1>3. context \in Contexts
  <2>1. << >> \in Seq(Settings) BY EmptySeq
  <2>2. QED BY <1>1, <1>2, <2>1 DEF Init, ZeroContext, Contexts, NoSegment, BIND_TYPE_POINTER
<1>4. /\ commands \in Seq([c : info.commands, at : Nat]) /\ Len(commands) <= MaxCommands
      /\ actions \in Seq(Actions) /\ next \in 1 .. (Len(commands) + 1) /\ turns \in Word
  BY <1>1, <1>2, EmptySeq DEF Init
<1>5. /\ info \in Infos /\ keepGoing \in BOOLEAN /\ crashed \in BOOLEAN /\ phase \in Phases
  BY <1>1 DEF Init, Phases
<1>6. TypeOK BY <1>3, <1>4, <1>5 DEF TypeOK
<1>7. ActionsInSegment BY <1>1 DEF Init, ActionsInSegment
<1>8. Controlled BY <1>1 DEF Init, Controlled
<1>9. QED BY <1>6, <1>7, <1>8 DEF IInv

\* Handing the context back, from a command or at the end of a loop.
LEMMA EndCommandHolds ==
  ASSUME IInv, phase \in {"run", "times", "apply"}, next <= Len(commands), NEW ctx \in Contexts,
         NEW result, Good(result), NEW success \in BOOLEAN,
         EndCommand(ctx, result, success), crashed' \in BOOLEAN
  PROVE  IInv' /\ Stops
<1>1. next' = next + 1 /\ next' \in 1 .. (Len(commands') + 1)
  <2>1. Len(commands) \in Nat BY LenProperties DEF IInv, TypeOK
  <2>2. QED BY <2>1 DEF EndCommand, IInv, TypeOK
<1>2. TypeOK'
  <2>1. keepGoing' \in BOOLEAN BY DEF EndCommand
  <2>2. actions' \in Seq(Actions) BY GoodActions DEF EndCommand
  <2>3. turns' \in Word /\ phase' \in Phases BY WordAssumption DEF EndCommand, Word, Phases
  <2>4. context' \in Contexts BY DEF EndCommand
  <2>5. QED BY <1>1, <2>1, <2>2, <2>3, <2>4 DEF IInv, TypeOK, EndCommand
<1>3. ActionsInSegment' BY GoodActions DEF EndCommand
<1>4. Controlled' BY DEF EndCommand, Controlled
<1>5. Stops
  <2>1. SUFFICES ASSUME ~ keepGoing
                 PROVE  /\ ~ keepGoing' /\ phase' # "run" /\ next' <= next + 1
                        /\ phase = "times" => actions' = actions
    BY DEF Stops
  <2>2. ~ keepGoing' BY <2>1 DEF Good, EndCommand
  <2>3. phase' # "run" BY <2>2 DEF EndCommand
  <2>4. next' <= next + 1 BY <1>1
  <2>5. phase = "times" => actions' = actions BY <2>1 DEF Good, EndCommand
  <2>6. QED BY <2>2, <2>3, <2>4, <2>5
<1>6. QED BY <1>2, <1>3, <1>4, <1>5 DEF IInv

\* A command without a bind, that succeeds or fails.
LEMMA PlainHolds ==
  ASSUME IInv, phase \in {"run", "times", "apply"}, next <= Len(commands),
         NEW ctx \in Contexts, Succeeds(ctx) \/ FailsWith(ctx)
  PROVE  IInv' /\ Stops
<1>1. crashed' \in BOOLEAN BY DEF Succeeds, FailsWith, IInv, TypeOK
<1>2. Good(Unbound) BY UnboundIsGood
<1>3. CASE Succeeds(ctx) BY <1>1, <1>2, <1>3, EndCommandHolds DEF Succeeds
<1>4. CASE FailsWith(ctx) BY <1>1, <1>2, <1>4, EndCommandHolds DEF FailsWith
<1>5. QED BY <1>3, <1>4

\* A bind and the step past it.
LEMMA AdvanceHolds ==
  ASSUME IInv, phase = "run", next <= Len(commands),
         NEW ctx \in Contexts, NEW by \in Nat, Advance(ctx, Bound(ctx), by)
  PROVE  IInv' /\ Stops
<1> DEFINE moved == mk_vm_offset_add(ctx.derivedOffset, by)
<1>1. crashed' \in BOOLEAN BY DEF Advance, IInv, TypeOK
<1>2. Good(Bound(ctx)) BY BoundIsGood
<1>3. CASE Succeeded(moved)
  <2>1. ctx.derivedOffset \in Word BY DEF Contexts
  <2>2. moved.value \in Word BY <1>3, <2>1, AdditionStays
  <2>3. [ctx EXCEPT !.derivedOffset = moved.value, !.command = FALSE] \in Contexts
    BY <2>2 DEF Contexts
  <2>4. EndCommand([ctx EXCEPT !.derivedOffset = moved.value, !.command = FALSE], Bound(ctx), TRUE)
    BY <1>3 DEF Advance
  <2>5. QED BY <1>1, <1>2, <2>3, <2>4, EndCommandHolds
<1>4. CASE ~ Succeeded(moved)
  <2>1. EndCommand(ctx, Bound(ctx), FALSE) BY <1>4 DEF Advance
  <2>2. QED BY <1>1, <1>2, <2>1, EndCommandHolds
<1>5. QED BY <1>3, <1>4

LEMMA ParseCommandHolds == IInv /\ ParseCommand => IInv' /\ Stops
<1>1. SUFFICES ASSUME IInv, ParseCommand PROVE IInv' /\ Stops OBVIOUS
<1>2. PICK c \in info.commands : commands' = Append(commands, [c |-> c, at |-> ParseOffset])
  BY <1>1 DEF ParseCommand
<1>3. ParseOffset \in Nat
  <2>1. CASE commands = << >> BY <2>1 DEF ParseOffset
  <2>2. CASE commands # << >>
    <3>1. Len(commands) \in DOMAIN commands
      BY <1>1, <2>2, EmptySeq, LenProperties DEF IInv, TypeOK
    <3>2. commands[Len(commands)].c \in CommandRecord /\ commands[Len(commands)].at \in Nat
      BY <1>1, <3>1, CommandIsTyped DEF IInv
    <3>3. commands[Len(commands)].c.size \in Nat BY <3>2 DEF CommandRecord
    <3>4. QED BY <2>2, <3>2, <3>3 DEF ParseOffset
  <2>3. QED BY <2>1, <2>2
<1>4. /\ commands' \in Seq([c : info.commands, at : Nat])
      /\ Len(commands') = Len(commands) + 1 /\ Len(commands) \in Nat
  BY <1>1, <1>2, <1>3, AppendProperties, LenProperties DEF IInv, TypeOK
<1>5. TypeOK'
  <2>1. Len(commands') <= MaxCommands BY <1>1, <1>4, BindAssumption DEF ParseCommand
  <2>2. next' \in 1 .. (Len(commands') + 1) BY <1>1, <1>4 DEF ParseCommand, IInv, TypeOK
  <2>3. phase' \in Phases BY <1>1 DEF ParseCommand, Phases
  <2>4. QED BY <1>1, <1>4, <2>1, <2>2, <2>3 DEF ParseCommand, IInv, TypeOK
<1>6. ActionsInSegment' BY <1>1, ActionsUnchanged DEF IInv, ParseCommand
<1>7. Controlled' BY <1>1 DEF ParseCommand, IInv, Controlled
<1>8. Stops BY <1>1 DEF ParseCommand, IInv, Controlled, Stops
<1>9. QED BY <1>5, <1>6, <1>7, <1>8 DEF IInv

LEMMA ParseEndsHolds == IInv /\ (ParseEnds \/ UnknownOpcode \/ NothingToRun) => IInv' /\ Stops
<1>1. SUFFICES ASSUME IInv, ParseEnds \/ UnknownOpcode \/ NothingToRun PROVE IInv' /\ Stops
  OBVIOUS
<1>2. TypeOK' BY <1>1 DEF ParseEnds, UnknownOpcode, NothingToRun, IInv, TypeOK, Phases
<1>3. ActionsInSegment'
  BY <1>1, ActionsUnchanged DEF IInv, ParseEnds, UnknownOpcode, NothingToRun
<1>4. Controlled' BY <1>1 DEF ParseEnds, UnknownOpcode, NothingToRun, IInv, Controlled
<1>5. Stops BY <1>1 DEF ParseEnds, UnknownOpcode, NothingToRun, IInv, Controlled, Stops
<1>6. QED BY <1>2, <1>3, <1>4, <1>5 DEF IInv

\* What is known when a command is run.
LEMMA RunningFacts ==
  ASSUME IInv, phase = "run", next <= Len(commands)
  PROVE  /\ Begun \in Contexts /\ keepGoing
         /\ Command.n \in Int
         /\ Command.op \notin Setters => Command.k \in Word
         /\ Command.op \notin (Setters \cup {"ADD_ADDR_ULEB"}) => Command.n \in Word
         /\ Command.op = "ADD_ADDR_ULEB" => Command.n \in Slide
<1>1. Begun \in Contexts /\ next \in DOMAIN commands BY BegunIsTyped DEF IInv
<1>2. keepGoing BY DEF IInv, Controlled
<1>3. QED BY <1>1, <1>2, CommandIsTyped DEF IInv, Command, CommandRecord

\* The commands that bind nothing and do not loop.
LEMMA SettingHolds ==
  IInv /\ (SetDylibOrdinal \/ SetSymbol \/ SetType \/ SetAddend \/ SetTableSize \/ NotInLazy)
    => IInv' /\ Stops
<1>1. SUFFICES ASSUME IInv, SetDylibOrdinal \/ SetSymbol \/ SetType \/ SetAddend \/ SetTableSize
                              \/ NotInLazy
               PROVE  IInv' /\ Stops
  OBVIOUS
<1>2. phase = "run" /\ next <= Len(commands)
  BY <1>1 DEF SetDylibOrdinal, SetSymbol, SetType, SetAddend, SetTableSize, NotInLazy, Running
<1>3. Begun \in Contexts /\ Command.n \in Int BY <1>1, <1>2, RunningFacts
<1>4. PICK ctx \in Contexts : Succeeds(ctx) \/ FailsWith(ctx)
  <2>1. [Begun EXCEPT !.libraryOrdinal = Command.n] \in Contexts BY <1>3 DEF Contexts
  <2>2. [Begun EXCEPT !.symbolName = Command.n] \in Contexts BY <1>3 DEF Contexts
  <2>3. [Begun EXCEPT !.type = Command.n] \in Contexts BY <1>3 DEF Contexts
  <2>4. [Begun EXCEPT !.addend = Command.n] \in Contexts BY <1>3 DEF Contexts
  <2>5. [Begun EXCEPT !.ordinalTable = << >>, !.threaded = TRUE] \in Contexts
    <3>1. << >> \in Seq(Settings) BY EmptySeq
    <3>2. QED BY <1>3, <3>1 DEF Contexts
  <2>6. QED
    BY <1>1, <1>3, <2>1, <2>2, <2>3, <2>4, <2>5
    DEF SetDylibOrdinal, SetSymbol, SetType, SetAddend, SetTableSize, NotInLazy
<1>5. QED BY <1>1, <1>2, <1>4, PlainHolds

LEMMA DoneHolds == IInv /\ Done => IInv' /\ Stops
<1>1. SUFFICES ASSUME IInv, Done PROVE IInv' /\ Stops OBVIOUS
<1>2. phase = "run" /\ next <= Len(commands) BY <1>1 DEF Done, Running
<1>3. [Begun EXCEPT !.command = FALSE] \in Contexts
  <2>1. Begun \in Contexts BY <1>1, <1>2, RunningFacts
  <2>2. QED BY <2>1 DEF Contexts
<1>4. Good(Unbound) BY <1>1, UnboundIsGood
<1>5. crashed' \in BOOLEAN BY <1>1 DEF Done, IInv, TypeOK
<1>6. EndCommand([Begun EXCEPT !.command = FALSE], Unbound, info.kind = "lazy") BY <1>1 DEF Done
<1>7. (info.kind = "lazy") \in BOOLEAN OBVIOUS
<1>8. QED BY <1>1, <1>2, <1>3, <1>4, <1>5, <1>6, <1>7, EndCommandHolds

LEMMA SetSegmentHolds == IInv /\ SetSegmentAndOffset => IInv' /\ Stops
<1>1. SUFFICES ASSUME IInv, SetSegmentAndOffset PROVE IInv' /\ Stops OBVIOUS
<1> DEFINE moved == [Begun EXCEPT !.segmentOffset = Command.n, !.derivedOffset = Command.n]
<1>2. phase = "run" /\ next <= Len(commands) /\ Command.op = "SET_SEGMENT_AND_OFFSET_ULEB"
  BY <1>1 DEF SetSegmentAndOffset, Running
<1>3. Begun \in Contexts /\ Command.n \in Word /\ Command.k \in Word
  BY <1>1, <1>2, RunningFacts DEF Setters
<1>4. moved \in Contexts BY <1>3 DEF Contexts
<1>5. CASE Command.k < Len(Segments)
  <2>1. Len(Segments) \in Nat BY BindAssumption, LenProperties
  <2>2. Command.k + 1 \in 0 .. Len(Segments) BY <1>3, <1>5, <2>1 DEF Word
  <2>3. [moved EXCEPT !.segment = Command.k + 1] \in Contexts BY <1>4, <2>2 DEF Contexts
  <2>4. Succeeds([moved EXCEPT !.segment = Command.k + 1])
    BY <1>1, <1>5 DEF SetSegmentAndOffset
  <2>5. QED BY <1>1, <1>2, <2>3, <2>4, PlainHolds
<1>6. CASE ~ (Command.k < Len(Segments))
  <2>1. FailsWith(moved) BY <1>1, <1>6 DEF SetSegmentAndOffset
  <2>2. QED BY <1>1, <1>2, <1>4, <2>1, PlainHolds
<1>7. QED BY <1>5, <1>6

LEMMA AddAddressHolds == IInv /\ AddAddress => IInv' /\ Stops
<1>1. SUFFICES ASSUME IInv, AddAddress PROVE IInv' /\ Stops OBVIOUS
<1> DEFINE moved == mk_vm_address_apply_slide(Begun.derivedOffset, Command.n)
<1>2. phase = "run" /\ next <= Len(commands) /\ Command.op = "ADD_ADDR_ULEB"
  BY <1>1 DEF AddAddress, Running
<1>3. Begun \in Contexts /\ Command.n \in Slide BY <1>1, <1>2, RunningFacts
<1>4. CASE Succeeded(moved)
  <2>1. Begun.derivedOffset \in Word BY <1>3 DEF Contexts
  <2>2. moved.value \in Word BY <1>3, <1>4, <2>1, AppliedSlide
  <2>3. [Begun EXCEPT !.derivedOffset = moved.value] \in Contexts BY <1>3, <2>2 DEF Contexts
  <2>4. Succeeds([Begun EXCEPT !.derivedOffset = moved.value]) BY <1>1, <1>4 DEF AddAddress
  <2>5. QED BY <1>1, <1>2, <2>3, <2>4, PlainHolds
<1>5. CASE ~ Succeeded(moved)
  <2>1. FailsWith(Begun) BY <1>1, <1>5 DEF AddAddress
  <2>2. QED BY <1>1, <1>2, <1>3, <2>1, PlainHolds
<1>6. QED BY <1>4, <1>5

\* The commands that make one bind.
LEMMA BinderHolds ==
  IInv /\ (DoBind \/ DoBindAddAddress \/ DoBindAddAddressScaled) => IInv' /\ Stops
<1>1. SUFFICES ASSUME IInv, DoBind \/ DoBindAddAddress \/ DoBindAddAddressScaled
               PROVE  IInv' /\ Stops
  OBVIOUS
<1>2. phase = "run" /\ next <= Len(commands)
  BY <1>1 DEF DoBind, DoBindAddAddress, DoBindAddAddressScaled, Running
<1>3. Begun \in Contexts /\ Command.n \in Int BY <1>1, <1>2, RunningFacts
<1>4. PICK by \in Nat : Advance(Begun, Bound(Begun), by)
  <2>1. PointerSize \in Nat BY BindAssumption
  <2>2. \A i \in Int : Wrap(i) \in Nat BY WordAssumption DEF Wrap
  <2>3. Wrap(Command.n + PointerSize) \in Nat BY <1>3, <2>1, <2>2
  <2>4. Wrap(Command.n * PointerSize + PointerSize) \in Nat
    <3>1. Command.n * PointerSize + PointerSize \in Int BY <1>3, <2>1
    <3>2. QED BY <2>2, <3>1
  <2>5. QED
    BY <1>1, <2>1, <2>3, <2>4 DEF DoBind, DoBindAddAddress, DoBindAddAddressScaled
<1>5. QED BY <1>1, <1>2, <1>3, <1>4, AdvanceHolds

\* The use of a table that is gone.
LEMMA TableCrashesHolds == IInv /\ TableCrashes => IInv' /\ Stops
<1>1. SUFFICES ASSUME IInv, TableCrashes PROVE IInv' /\ Stops OBVIOUS
<1>2. TypeOK' BY <1>1 DEF TableCrashes, IInv, TypeOK
<1>3. ActionsInSegment' BY <1>1, ActionsUnchanged DEF IInv, TableCrashes
<1>4. Controlled'
  BY <1>1 DEF TableCrashes, IInv, Controlled, MakeAction
<1>5. Stops
  <2>1. keepGoing' = keepGoing /\ phase' = phase /\ next' = next /\ actions' = actions
    BY <1>1 DEF TableCrashes
  <2>2. next' <= next + 1 BY <1>1, <2>1 DEF IInv, TypeOK
  <2>3. ~ keepGoing => phase # "run" BY <1>1 DEF IInv, Controlled
  <2>4. QED BY <2>1, <2>2, <2>3 DEF Stops
<1>6. QED BY <1>2, <1>3, <1>4, <1>5 DEF IInv

LEMMA DoBindThreadedHolds == IInv /\ DoBindThreaded => IInv' /\ Stops
<1>1. SUFFICES ASSUME IInv, DoBindThreaded PROVE IInv' /\ Stops OBVIOUS
<1> DEFINE entry == [libraryOrdinal |-> Begun.libraryOrdinal, addend |-> Begun.addend,
                     symbolName |-> Begun.symbolName]
           ctx == [Begun EXCEPT !.ordinalTable = Append(@, entry), !.command = FALSE]
<1>2. phase = "run" /\ next <= Len(commands) BY <1>1 DEF DoBindThreaded, Running
<1>3. Begun \in Contexts BY <1>1, <1>2, RunningFacts
<1>4. entry \in Settings BY <1>3 DEF Contexts, Settings
<1>5. ctx \in Contexts
  <2>1. Begun.ordinalTable \in Seq(Settings) BY <1>3 DEF Contexts
  <2>2. Append(Begun.ordinalTable, entry) \in Seq(Settings) BY <1>4, <2>1, AppendProperties
  <2> HIDE DEF entry
  <2>3. QED BY <1>3, <2>2 DEF Contexts
<1>6. Succeeds(ctx) \/ TableCrashes BY <1>1 DEF DoBindThreaded
<1> HIDE DEF ctx
<1>7. QED BY <1>1, <1>2, <1>5, <1>6, PlainHolds, TableCrashesHolds

\* The counted loop.
LEMMA BeginTimesHolds == IInv /\ BeginTimes => IInv' /\ Stops
<1>1. SUFFICES ASSUME IInv, BeginTimes PROVE IInv' /\ Stops OBVIOUS
<1>2. /\ phase = "run" /\ next <= Len(commands)
      /\ Command.op = "DO_BIND_ULEB_TIMES_SKIPPING_ULEB"
  BY <1>1 DEF BeginTimes, Running
<1>3. Begun \in Contexts /\ keepGoing /\ Command.n \in Word
  BY <1>1, <1>2, RunningFacts DEF Setters
<1>4. TypeOK' BY <1>1, <1>3 DEF BeginTimes, IInv, TypeOK, Phases
<1>5. ActionsInSegment' BY <1>1, ActionsUnchanged DEF IInv, BeginTimes
<1>6. Controlled' BY <1>1, <1>2, <1>3 DEF BeginTimes, Command, Controlled
<1>7. QED BY <1>3, <1>4, <1>5, <1>6 DEF IInv, Stops

\* A turn makes an action inside its segment, or fails and from then on makes none.
LEMMA TimesTurnHolds == IInv /\ TimesTurn => IInv' /\ Stops
<1>1. SUFFICES ASSUME IInv, TimesTurn PROVE IInv' /\ Stops OBVIOUS
<1> DEFINE by == Wrap(Command.k + PointerSize)
           moved == mk_vm_offset_add(context.derivedOffset, by)
<1>2. /\ phase = "times" /\ turns > 0 /\ next <= Len(commands)
      /\ Command.op = "DO_BIND_ULEB_TIMES_SKIPPING_ULEB"
      /\ ~ keepGoing => ~ Succeeded(MakeAction(context))
  BY <1>1 DEF TimesTurn, IInv, Controlled, Command
<1>3. context \in Contexts /\ turns \in Word BY <1>1 DEF IInv, TypeOK
<1>4. by \in Nat
  <2>1. next \in DOMAIN commands BY <1>1, <1>2, BegunIsTyped DEF IInv
  <2>2. Command.k \in Int BY <1>1, <2>1, CommandIsTyped DEF IInv, Command, CommandRecord
  <2>3. QED BY <2>2, WordAssumption, BindAssumption DEF Wrap
<1>5. Good(Bound(context)) BY <1>1, <1>2, <1>3, BoundIsGood
<1>6. CASE ~ Succeeded(moved)
  <2>1. EndCommand(context, Bound(context), FALSE) /\ UNCHANGED crashed
    BY <1>1, <1>6 DEF TimesTurn
  <2>2. crashed' \in BOOLEAN BY <1>1, <2>1 DEF IInv, TypeOK
  <2>3. QED BY <1>1, <1>2, <1>3, <1>5, <2>1, <2>2, EndCommandHolds
<1>7. CASE Succeeded(moved)
  <2>1. /\ context' = [context EXCEPT !.derivedOffset = moved.value] /\ turns' = turns - 1
        /\ actions' = Bound(context).actions /\ keepGoing' = Bound(context).keepGoing
        /\ UNCHANGED <<info, commands, phase, next, crashed>>
    BY <1>1, <1>7 DEF TimesTurn
  <2>2. moved.value \in Word /\ context.derivedOffset <= moved.value
    <3>1. context.derivedOffset \in Word BY <1>3 DEF Contexts
    <3>2. moved.value = context.derivedOffset + by /\ moved.value \in Word
      BY <1>4, <1>7, <3>1, AdditionStays
    <3> HIDE DEF by, moved
    <3>3. QED BY <1>4, <3>1, <3>2, WordAssumption DEF Word
  <2>3. TypeOK'
    <3>1. context' \in Contexts BY <1>3, <2>1, <2>2 DEF Contexts
    <3>2. turns' \in Word BY <1>2, <1>3, <2>1, WordAssumption DEF Word
    <3>3. actions' \in Seq(Actions) /\ keepGoing' \in BOOLEAN BY <1>5, <2>1 DEF Good
    <3>4. QED BY <1>1, <2>1, <3>1, <3>2, <3>3 DEF IInv, TypeOK
  <2>4. ActionsInSegment' BY <1>5, <2>1, GoodActions
  <2>5. Controlled'
    <3>1. ~ keepGoing' => ~ Succeeded(MakeAction(context))
      <4>1. keepGoing' = (keepGoing /\ Succeeded(MakeAction(context)))
        BY <1>1, <2>1 DEF Bound, IInv, TypeOK
      <4>2. QED BY <1>2, <4>1
    <3>2. ~ Succeeded(MakeAction(context)) => ~ Succeeded(MakeAction(context'))
      BY <1>3, <2>1, <2>2, StaysFailed
    <3>3. MakeAction(context)' = MakeAction(context') BY <2>1 DEF MakeAction
    <3>4. phase' = "times" /\ next' <= Len(commands')
          /\ commands'[next'].c.op = "DO_BIND_ULEB_TIMES_SKIPPING_ULEB"
      BY <1>2, <2>1 DEF Command
    <3>5. QED BY <3>1, <3>2, <3>3, <3>4 DEF Controlled
  <2>6. Stops
    <3>1. SUFFICES ASSUME ~ keepGoing
                   PROVE  /\ ~ keepGoing' /\ phase' # "run" /\ next' <= next + 1
                          /\ phase = "times" => actions' = actions
      BY DEF Stops
    <3>2. ~ keepGoing' BY <1>5, <2>1, <3>1 DEF Good
    <3>3. actions' = actions BY <1>2, <1>5, <2>1, <3>1 DEF Good
    <3>4. next' <= next + 1 /\ phase' # "run" BY <1>1, <1>2, <2>1 DEF IInv, TypeOK
    <3>5. QED BY <3>2, <3>3, <3>4
  <2>7. QED BY <2>3, <2>4, <2>5, <2>6 DEF IInv
<1>8. QED BY <1>6, <1>7

LEMMA EndTimesHolds == IInv /\ EndTimes => IInv' /\ Stops
<1>1. SUFFICES ASSUME IInv, EndTimes PROVE IInv' /\ Stops OBVIOUS
<1>2. phase = "times" /\ next <= Len(commands) BY <1>1 DEF EndTimes, IInv, Controlled
<1>3. [context EXCEPT !.command = FALSE] \in Contexts BY <1>1 DEF IInv, TypeOK, Contexts
<1>4. QED BY <1>1, <1>2, <1>3, PlainHolds DEF EndTimes

\* The threaded chain.
LEMMA BeginApplyHolds == IInv /\ BeginApply => IInv' /\ Stops
<1>1. SUFFICES ASSUME IInv, BeginApply PROVE IInv' /\ Stops OBVIOUS
<1>2. phase = "run" /\ next <= Len(commands) BY <1>1 DEF BeginApply, Running
<1>3. Begun \in Contexts /\ keepGoing BY <1>1, <1>2, RunningFacts
<1>4. CASE PointerSize # 8 \/ context.segment = NoSegment
  <2>1. FailsWith(Begun) BY <1>1, <1>4 DEF BeginApply
  <2>2. QED BY <1>1, <1>2, <1>3, <2>1, PlainHolds
<1>5. CASE ~ (PointerSize # 8 \/ context.segment = NoSegment)
  <2>1. /\ phase' = "apply" /\ context' = Begun
        /\ UNCHANGED <<info, commands, next, turns, actions, keepGoing, crashed>>
    BY <1>1, <1>5 DEF BeginApply
  <2>2. TypeOK' BY <1>1, <1>3, <2>1 DEF IInv, TypeOK, Phases
  <2>3. ActionsInSegment' BY <1>1, <2>1, ActionsUnchanged DEF IInv
  <2>4. Begun.segment = context.segment
    <3>1. context \in Contexts BY <1>1 DEF IInv, TypeOK
    <3>2. QED BY <3>1 DEF Begun, Contexts
  <2>5. Controlled' BY <1>2, <1>5, <2>1, <2>4 DEF Controlled
  <2>6. QED BY <1>3, <2>2, <2>3, <2>5 DEF IInv, Stops
<1>6. QED BY <1>4, <1>5

\* Whatever a link borrows from the ordinal table, what it is bound with is a context.
LEMMA LinkContextIsTyped ==
  ASSUME NEW ctx \in Contexts, NEW link \in Links,
         ~ (info.kind # "weak" /\ link.isBind /\ link.ordinal >= Len(ctx.ordinalTable))
  PROVE  /\ LinkContext(ctx, link) \in Contexts
         /\ link.isBind /\ info.kind # "weak" => link.ordinal + 1 \in DOMAIN ctx.ordinalTable
<1> DEFINE typed == [ctx EXCEPT !.type = IF link.isBind THEN BIND_TYPE_THREADED_BIND
                                                        ELSE BIND_TYPE_THREADED_REBASE]
<1>1. typed \in Contexts
  BY SMTT(40) DEF Contexts, BIND_TYPE_THREADED_BIND, BIND_TYPE_THREADED_REBASE
<1>2. CASE info.kind = "weak" BY <1>1, <1>2 DEF LinkContext
<1>3. CASE info.kind # "weak"
  <2> DEFINE entry == IF link.isBind THEN ctx.ordinalTable[link.ordinal + 1]
                                     ELSE [libraryOrdinal |-> 0, addend |-> 0, symbolName |-> 0]
  <2>1. ASSUME link.isBind
        PROVE  link.ordinal + 1 \in DOMAIN ctx.ordinalTable /\ entry \in Settings
    <3>1. ctx.ordinalTable \in Seq(Settings) BY DEF Contexts
    <3>2. link.ordinal \in Nat BY BindAssumption
    <3>3. link.ordinal + 1 \in 1 .. Len(ctx.ordinalTable)
      BY <1>3, <2>1, <3>1, <3>2, LenProperties
    <3>4. ctx.ordinalTable[link.ordinal + 1] \in Settings BY <3>1, <3>3, ElementOfSeq
    <3>5. QED BY <2>1, <3>1, <3>3, <3>4, LenProperties
  <2>2. entry \in Settings BY <2>1 DEF Settings
  <2>3. LinkContext(ctx, link) =
          [typed EXCEPT !.libraryOrdinal = entry.libraryOrdinal, !.addend = entry.addend,
                        !.symbolName = entry.symbolName]
    BY <1>3 DEF LinkContext
  <2> HIDE DEF entry, typed
  <2>4. entry.libraryOrdinal \in Int /\ entry.addend \in Int /\ entry.symbolName \in Int
    BY <2>2 DEF Settings
  <2>5. QED BY <1>1, <2>1, <2>3, <2>4 DEF Contexts
<1>4. QED BY <1>2, <1>3

LEMMA BoundLinkIsGood ==
  ASSUME IInv, phase = "apply", NEW ctx \in Contexts, NEW link \in Links
  PROVE  Good(BoundLink(ctx, link))
<1> DEFINE refused == info.kind # "weak" /\ link.isBind /\ link.ordinal >= Len(ctx.ordinalTable)
<1>1. CASE refused
  <2>1. BoundLink(ctx, link) = [actions |-> actions, keepGoing |-> FALSE]
    BY <1>1 DEF BoundLink
  <2>2. QED BY <2>1, RefusalIsGood
<1>2. CASE ~ refused
  <2>1. LinkContext(ctx, link) \in Contexts BY <1>2, LinkContextIsTyped
  <2>2. BoundLink(ctx, link) = Bound(LinkContext(ctx, link)) BY <1>2 DEF BoundLink
  <2>3. QED BY <2>1, <2>2, BoundIsGood
<1>3. QED BY <1>1, <1>2

LEMMA ApplyTurnHolds ==
  ASSUME NEW link \in Links
  PROVE  IInv /\ ApplyTurn(link) => IInv' /\ Stops
<1>1. SUFFICES ASSUME IInv, ApplyTurn(link) PROVE IInv' /\ Stops OBVIOUS
<1> DEFINE at == [context EXCEPT !.derivedOffset = context.segmentOffset]
           delta == link.delta * PointerSize
           moved == mk_vm_offset_add(at.segmentOffset, delta)
           result == BoundLink(at, link)
<1>2. phase = "apply" /\ next <= Len(commands) /\ context.segment # NoSegment
  BY <1>1 DEF ApplyTurn, IInv, Controlled
<1>3. at \in Contexts /\ at.segment = context.segment /\ at.segmentOffset \in Word
  BY <1>1 DEF IInv, TypeOK, Contexts
<1>4. delta \in Nat
  <2>1. link.delta \in Nat BY BindAssumption
  <2>2. QED BY <2>1, BindAssumption
<1>5. Good(result) BY <1>1, <1>2, <1>3, BoundLinkIsGood
<1>6. \/ FailsWith(at)
      \/ TableCrashes
      \/ EndCommand(at, result, FALSE) /\ UNCHANGED crashed
      \/ EndCommand(at, result, TRUE) /\ UNCHANGED crashed
      \/ /\ Succeeded(moved)
         /\ context' = [at EXCEPT !.segmentOffset = moved.value]
         /\ actions' = result.actions /\ keepGoing' = result.keepGoing
         /\ UNCHANGED <<info, commands, phase, next, turns, crashed>>
  BY <1>1 DEF ApplyTurn
<1>7. CASE FailsWith(at) BY <1>1, <1>2, <1>3, <1>7, PlainHolds
<1>8. CASE TableCrashes BY <1>1, <1>8, TableCrashesHolds
<1>9. ASSUME NEW success \in BOOLEAN, EndCommand(at, result, success), UNCHANGED crashed
      PROVE  IInv' /\ Stops
  <2>1. crashed' \in BOOLEAN BY <1>1, <1>9 DEF IInv, TypeOK
  <2> HIDE DEF at, result
  <2>2. QED BY <1>1, <1>2, <1>3, <1>5, <1>9, <2>1, EndCommandHolds
<1>10. CASE /\ Succeeded(moved)
            /\ context' = [at EXCEPT !.segmentOffset = moved.value]
            /\ actions' = result.actions /\ keepGoing' = result.keepGoing
            /\ UNCHANGED <<info, commands, phase, next, turns, crashed>>
  <2>1. moved.value \in Word BY <1>3, <1>4, <1>10, AdditionStays
  <2> HIDE DEF at, result, moved, delta
  <2>2. context' \in Contexts /\ context'.segment = context.segment
    BY <1>3, <1>10, <2>1 DEF Contexts
  <2>3. actions' \in Seq(Actions) /\ ActionsInSegment' /\ keepGoing' \in BOOLEAN
    BY <1>5, <1>10, GoodActions DEF Good
  <2>4. TypeOK' BY <1>1, <1>10, <2>2, <2>3 DEF IInv, TypeOK
  <2>5. Controlled' BY <1>2, <1>10, <2>2 DEF Controlled
  <2>6. Stops
    <3>1. ~ keepGoing => ~ keepGoing' BY <1>5, <1>10 DEF Good
    <3>2. next' <= next + 1 /\ phase' # "run" /\ phase # "times"
      BY <1>1, <1>2, <1>10 DEF IInv, TypeOK
    <3>3. QED BY <3>1, <3>2 DEF Stops
  <2>7. QED BY <2>3, <2>4, <2>5 , <2>6 DEF IInv
<1>11. QED BY <1>6, <1>7, <1>8, <1>9, <1>10

LEMMA LinkUnreadableHolds == IInv /\ LinkUnreadable => IInv' /\ Stops
<1>1. SUFFICES ASSUME IInv, LinkUnreadable PROVE IInv' /\ Stops OBVIOUS
<1>2. phase = "apply" /\ next <= Len(commands) BY <1>1 DEF LinkUnreadable, IInv, Controlled
<1>3. [context EXCEPT !.derivedOffset = context.segmentOffset] \in Contexts
  BY <1>1 DEF IInv, TypeOK, Contexts
<1>4. QED BY <1>1, <1>2, <1>3, PlainHolds DEF LinkUnreadable

LEMMA StepHolds == IInv /\ [Next]_vars => IInv' /\ [Stops]_vars
<1>1. SUFFICES ASSUME IInv, [Next]_vars PROVE IInv' /\ [Stops]_vars OBVIOUS
<1>2. CASE UNCHANGED vars
  <2>1. IInv' BY <1>1, <1>2 DEF vars, IInv, TypeOK, ActionsInSegment, Controlled, MakeAction
  <2>2. QED BY <1>2, <2>1
<1>3. CASE Run
  BY <1>1, <1>3, ParseEndsHolds, DoneHolds, SetSegmentHolds, AddAddressHolds, SettingHolds,
     BinderHolds, DoBindThreadedHolds, BeginTimesHolds, TimesTurnHolds, EndTimesHolds,
     BeginApplyHolds, ApplyTurnHolds, LinkUnreadableHolds
  DEF Run
<1>4. CASE ParseCommand \/ ParseEnds \/ UnknownOpcode
  BY <1>1, <1>4, ParseCommandHolds, ParseEndsHolds
<1>5. QED BY <1>1, <1>2, <1>3, <1>4 DEF Next

----------------------------------------------------------------------------
(* What the actions have to be.                                            *)

Enders == Binders \cup {"DONE"}

\* What the commands before the i-th have set, and where they have put the location.
LatestIn(cs, i, op, zero) ==
  LET j == LastIn(cs, i, {op}) IN IF j = 0 THEN zero ELSE cs[j].c.n

SettingsIn(cs, kind, i) ==
  [type |-> LatestIn(cs, i, "SET_TYPE", ZeroContext(kind).type),
   libraryOrdinal |-> LatestIn(cs, i, "SET_DYLIB_ORDINAL", 0),
   addend |-> LatestIn(cs, i, "SET_ADDEND", 0),
   symbolName |-> LatestIn(cs, i, "SET_SYMBOL", 0)]

StartAt(cs, i) == cs[LastIn(cs, i, Enders) + 1].at

PlacedIn(cs, i) == LastIn(cs, i, {"SET_SEGMENT_AND_OFFSET_ULEB"})

SegmentAt(cs, i) == IF PlacedIn(cs, i) = 0 THEN NoSegment ELSE cs[PlacedIn(cs, i)].c.k + 1

OriginAt(cs, i) ==
  (IF PlacedIn(cs, i) = 0 THEN 0 ELSE cs[PlacedIn(cs, i)].c.n)
    + SumFunctionOnSet([l \in DOMAIN cs |-> Travel(cs[l].c)], (PlacedIn(cs, i) + 1) .. (i - 1))

\* No threaded bind has been asked for before the i-th command.
Plain(cs, i) == LastIn(cs, i, ThreadedOps) = 0

\* What a link of a chain borrows from the ordinal table.
Borrowed(r) == [libraryOrdinal |-> r.libraryOrdinal, addend |-> r.addend, symbolName |-> r.symbolName]

PutInTable(r, i) ==
  \E j \in 1 .. (i - 1) : /\ commands[j].c.op = "DO_BIND"
                          /\ Borrowed(r) = Borrowed(SettingsIn(commands, info.kind, j))

\* The settings of a context, and its table, at the i-th command.
SettingsAreDue(ctx, i) ==
  /\ SettingsOf(ctx) = SettingsIn(commands, info.kind, i)
  /\ \A e \in DOMAIN ctx.ordinalTable : PutInTable(ctx.ordinalTable[e], i)

\* The commands that make up the node of an action: the context's start, at the i-th command.
StartIsDue(ctx, i) ==
  IF ctx.command THEN ctx.start = StartAt(commands, i) ELSE LastIn(commands, i, Enders) = i - 1

\* The location, at the i-th command and `turn' turns into it.
LocationIsDue(r, i, location, turn) ==
  /\ r.segment = SegmentAt(commands, i)
  /\ location = Wrap(OriginAt(commands, i) + turn * (commands[i].c.k + PointerSize))

PlaceIsDue(ctx, i) ==
  Plain(commands, i) =>
    /\ ~ ctx.threaded
    /\ ctx.segment = SegmentAt(commands, i) /\ ctx.derivedOffset = Wrap(OriginAt(commands, i))

\* The settings of what a command binds: those in force, or what its link has borrowed.
BoundAsSet(r, i) ==
  IF commands[i].c.op # "THREADED_APPLY" THEN SettingsOf(r) = SettingsIn(commands, info.kind, i)
  ELSE IF info.kind = "weak" THEN Borrowed(r) = Borrowed(SettingsIn(commands, info.kind, i))
  ELSE r.type = BIND_TYPE_THREADED_REBASE \/ PutInTable(r, i)

ActionIsDue(list, a) ==
  LET by == list[a].by
  IN  /\ by \in DOMAIN commands /\ by <= next
      /\ list[a].start = StartAt(commands, by)
      /\ BoundAsSet(list[a], by)
      /\ Plain(commands, by + 1) => LocationIsDue(list[a], by, list[a].offset, TurnOf(list, a))

NotBegun == next = 1 /\ actions = << >> /\ context = ZeroContext(info.kind)

CommandsAreDone ==
  \A i \in 1 .. (next - 1) :
    Plain(commands, i + 1) /\ (i < next - 1 \/ keepGoing \/ phase \in {"times", "apply"}) =>
      MadeBy(actions, i) = Binds(commands[i].c)

TimesAreDue ==
  keepGoing /\ Plain(commands, next) =>
    /\ ~ context.threaded
    /\ LocationIsDue(context, next, context.derivedOffset, MadeBy(actions, next))
    /\ MadeBy(actions, next) + turns = commands[next].c.n

AllIsDue ==
  /\ phase = "parse" => NotBegun
  /\ SettingsAreDue(context, next)
  /\ \A a \in DOMAIN actions : /\ ActionIsDue(actions, a)
                               /\ actions[a].by = next => phase \in {"times", "apply"}
  /\ CommandsAreDone
  /\ phase \in {"run", "times", "apply"} => StartIsDue(context, next)
  /\ phase \in {"times", "apply"} => context.command
  /\ phase = "run" => PlaceIsDue(context, next)
  /\ phase = "times" => TimesAreDue
  /\ phase = "apply" => commands[next].c.op = "THREADED_APPLY"

Whole == IInv /\ AllIsDue

\* What one more command does to them.
CommandLists == Seq([c : CommandRecord, at : Nat])

LEMMA CommandsAreTyped == TypeOK => commands \in CommandLists
<1>1. SUFFICES ASSUME TypeOK PROVE commands \in CommandLists OBVIOUS
<1> DEFINE S == [c : info.commands, at : Nat]
           T == [c : CommandRecord, at : Nat]
<1>2. info.commands \subseteq CommandRecord
  BY <1>1, BindAssumption DEF TypeOK, CommandRecord
<1>3. S \subseteq T /\ commands \in Seq(S) BY <1>1, <1>2 DEF TypeOK
<1> HIDE DEF S, T
<1>4. commands \in Seq(T) BY <1>3, SeqMonotonic
<1>5. QED BY <1>4 DEF T, CommandLists

LEMMA CommandInList ==
  ASSUME NEW cs \in CommandLists, NEW i \in DOMAIN cs
  PROVE  /\ cs[i].c \in CommandRecord /\ Travel(cs[i].c) \in Int
         /\ cs[i].c.n \in Int /\ cs[i].c.k \in Int
         /\ Len(cs) \in Nat /\ DOMAIN cs = 1 .. Len(cs) /\ i \in Nat \ {0}
<1>1. Len(cs) \in Nat /\ DOMAIN cs = 1 .. Len(cs) BY LenProperties DEF CommandLists
<1>2. cs[i] \in [c : CommandRecord, at : Nat] BY <1>1, ElementOfSeq DEF CommandLists
<1>3. cs[i].c \in CommandRecord BY <1>2
<1>4. cs[i].c.n \in Int /\ cs[i].c.k \in Int /\ PointerSize \in Int
  BY <1>3, BindAssumption DEF CommandRecord
<1>5. Travel(cs[i].c) \in Int BY <1>4 DEF Travel
<1>6. QED BY <1>1, <1>3, <1>4, <1>5

LEMMA LatestNext ==
  ASSUME NEW cs, NEW i \in Nat \ {0}, NEW op, NEW zero
  PROVE  LatestIn(cs, i + 1, op, zero) =
           IF cs[i].c.op = op THEN cs[i].c.n ELSE LatestIn(cs, i, op, zero)
<1> DEFINE ops == {op}
<1>1. cs[i].c.op \in ops <=> cs[i].c.op = op OBVIOUS
<1> HIDE DEF ops
<1>2. LastIn(cs, i + 1, ops) = IF cs[i].c.op \in ops THEN i ELSE LastIn(cs, i, ops)
  BY LastInNext
<1>3. i # 0 OBVIOUS
<1>4. QED BY <1>1, <1>2, <1>3 DEF LatestIn, ops

LEMMA Firsts ==
  ASSUME NEW cs, NEW kind
  PROVE  /\ SettingsIn(cs, kind, 1) = SettingsOf(ZeroContext(kind))
         /\ SegmentAt(cs, 1) = NoSegment /\ OriginAt(cs, 1) = 0 /\ LastIn(cs, 1, Enders) = 0
<1> DEFINE f == [l \in DOMAIN cs |-> Travel(cs[l].c)]
<1>1. (0 + 1) .. (1 - 1) = {} OBVIOUS
<1>2. SumFunctionOnSet(f, (0 + 1) .. (1 - 1)) = 0 BY <1>1, EmptySum
<1>3. PlacedIn(cs, 1) = 0 /\ LastIn(cs, 1, Enders) = 0 BY LastInFirst DEF PlacedIn
<1>4. SegmentAt(cs, 1) = NoSegment /\ OriginAt(cs, 1) = 0 BY <1>2, <1>3 DEF SegmentAt, OriginAt
<1>5. \A op, zero : LatestIn(cs, 1, op, zero) = zero BY LastInFirst DEF LatestIn
<1>6. SettingsIn(cs, kind, 1) = SettingsOf(ZeroContext(kind))
  BY <1>5 DEF SettingsIn, SettingsOf, ZeroContext
<1>7. QED BY <1>3, <1>4, <1>6

LEMMA Nexts ==
  ASSUME NEW cs \in CommandLists, NEW i \in DOMAIN cs
  PROVE  /\ SegmentAt(cs, i + 1) = IF cs[i].c.op = "SET_SEGMENT_AND_OFFSET_ULEB"
                                   THEN cs[i].c.k + 1 ELSE SegmentAt(cs, i)
         /\ OriginAt(cs, i + 1) = IF cs[i].c.op = "SET_SEGMENT_AND_OFFSET_ULEB"
                                  THEN cs[i].c.n ELSE OriginAt(cs, i) + Travel(cs[i].c)
         /\ OriginAt(cs, i) \in Int
         /\ LastIn(cs, i + 1, Enders) = IF cs[i].c.op \in Enders THEN i ELSE LastIn(cs, i, Enders)
         /\ Plain(cs, i + 1) <=> Plain(cs, i) /\ cs[i].c.op \notin ThreadedOps
<1> DEFINE f == [l \in DOMAIN cs |-> Travel(cs[l].c)]
           seg == {"SET_SEGMENT_AND_OFFSET_ULEB"}
           j == PlacedIn(cs, i)
<1>1. Len(cs) \in Nat /\ DOMAIN cs = 1 .. Len(cs) /\ i \in Nat \ {0} /\ (i + 1) - 1 = i
  BY LenProperties DEF CommandLists
<1>2. \A l \in DOMAIN cs : f[l] \in Int /\ cs[l].c.n \in Int BY CommandInList
<1>3. j \in 0 .. (i - 1) BY <1>1, LastInIs DEF PlacedIn
<1>4. PlacedIn(cs, i + 1) = IF cs[i].c.op = "SET_SEGMENT_AND_OFFSET_ULEB" THEN i ELSE j
  <2>1. cs[i].c.op \in seg <=> cs[i].c.op = "SET_SEGMENT_AND_OFFSET_ULEB" OBVIOUS
  <2> HIDE DEF seg
  <2>2. LastIn(cs, i + 1, seg) = IF cs[i].c.op \in seg THEN i ELSE LastIn(cs, i, seg)
    BY <1>1, LastInNext
  <2>3. QED BY <2>1, <2>2 DEF PlacedIn, seg
<1> HIDE DEF f, j
<1>5. SumFunctionOnSet(f, (j + 1) .. (i - 1)) \in Int
  <2>1. \A l \in (j + 1) .. (i - 1) : f[l] \in Int BY <1>1, <1>2, <1>3
  <2>2. j + 1 \in Int /\ i - 1 \in Int BY <1>1, <1>3
  <2>3. QED BY <2>1, <2>2, IntervalSum
<1>6. OriginAt(cs, i) = (IF j = 0 THEN 0 ELSE cs[j].c.n) + SumFunctionOnSet(f, (j + 1) .. (i - 1))
  BY DEF OriginAt, f, j
<1>7. j # 0 => cs[j].c.n \in Int BY <1>1, <1>2, <1>3
<1>8. OriginAt(cs, i) \in Int BY <1>5, <1>6, <1>7
<1>9. OriginAt(cs, i + 1) = IF cs[i].c.op = "SET_SEGMENT_AND_OFFSET_ULEB" THEN cs[i].c.n
                            ELSE OriginAt(cs, i) + Travel(cs[i].c)
  <2>1. CASE cs[i].c.op = "SET_SEGMENT_AND_OFFSET_ULEB"
    <3>1. (i + 1) .. ((i + 1) - 1) = {} BY <1>1
    <3>2. OriginAt(cs, i + 1) = cs[i].c.n + SumFunctionOnSet(f, (i + 1) .. ((i + 1) - 1))
      BY <1>1, <1>4, <2>1 DEF OriginAt, f
    <3>3. SumFunctionOnSet(f, (i + 1) .. ((i + 1) - 1)) = 0 BY <3>1, EmptySum
    <3>4. QED BY <1>2, <2>1, <3>2, <3>3
  <2>2. CASE cs[i].c.op # "SET_SEGMENT_AND_OFFSET_ULEB"
    <3>1. OriginAt(cs, i + 1) =
            (IF j = 0 THEN 0 ELSE cs[j].c.n) + SumFunctionOnSet(f, (j + 1) .. ((i + 1) - 1))
      BY <1>4, <2>2 DEF OriginAt, f
    <3>2. SumFunctionOnSet(f, (j + 1) .. i) = SumFunctionOnSet(f, (j + 1) .. (i - 1)) + f[i]
      <4>1. \A l \in (j + 1) .. i : f[l] \in Int BY <1>1, <1>2, <1>3
      <4>2. j + 1 \in Int /\ i \in Int /\ j + 1 <= i BY <1>1, <1>3
      <4>3. QED BY <4>1, <4>2, IntervalSum
    <3>3. f[i] = Travel(cs[i].c) /\ f[i] \in Int BY <1>2 DEF f
    <3>4. QED BY <1>1, <1>5, <1>6, <1>7, <2>2, <3>1, <3>2, <3>3
  <2>3. QED BY <2>1, <2>2
<1>10. SegmentAt(cs, i + 1) = IF cs[i].c.op = "SET_SEGMENT_AND_OFFSET_ULEB"
                              THEN cs[i].c.k + 1 ELSE SegmentAt(cs, i)
  BY <1>1, <1>4 DEF SegmentAt, j
<1>11. LastIn(cs, i + 1, Enders) = IF cs[i].c.op \in Enders THEN i ELSE LastIn(cs, i, Enders)
  BY <1>1, LastInNext
<1>12. Plain(cs, i + 1) <=> Plain(cs, i) /\ cs[i].c.op \notin ThreadedOps
  <2>1. LastIn(cs, i + 1, ThreadedOps) =
          IF cs[i].c.op \in ThreadedOps THEN i ELSE LastIn(cs, i, ThreadedOps)
    BY <1>1, LastInNext
  <2>2. QED BY <1>1, <2>1 DEF Plain
<1>13. QED BY <1>8, <1>9, <1>10, <1>11, <1>12

\* What the next command is to find set, and a setting in the table stays one.
LEMMA SettingsNext ==
  ASSUME NEW cs, NEW kind, NEW i \in Nat \ {0}
  PROVE  LET c == cs[i].c
             before == SettingsIn(cs, kind, i)
         IN  SettingsIn(cs, kind, i + 1) =
               [type |-> IF c.op = "SET_TYPE" THEN c.n ELSE before.type,
                libraryOrdinal |-> IF c.op = "SET_DYLIB_ORDINAL" THEN c.n ELSE before.libraryOrdinal,
                addend |-> IF c.op = "SET_ADDEND" THEN c.n ELSE before.addend,
                symbolName |-> IF c.op = "SET_SYMBOL" THEN c.n ELSE before.symbolName]
<1>1. \A op, zero : LatestIn(cs, i + 1, op, zero) =
                    IF cs[i].c.op = op THEN cs[i].c.n ELSE LatestIn(cs, i, op, zero)
  BY LatestNext
<1> DEFINE zeroType == ZeroContext(kind).type
<1>2. \A j : SettingsIn(cs, kind, j) =
                [type |-> LatestIn(cs, j, "SET_TYPE", zeroType),
                 libraryOrdinal |-> LatestIn(cs, j, "SET_DYLIB_ORDINAL", 0),
                 addend |-> LatestIn(cs, j, "SET_ADDEND", 0),
                 symbolName |-> LatestIn(cs, j, "SET_SYMBOL", 0)]
  BY DEF SettingsIn
<1> HIDE DEF zeroType
<1>3. QED BY <1>1, <1>2

LEMMA PutStays ==
  ASSUME NEW i \in Nat, NEW r, PutInTable(r, i)
  PROVE  PutInTable(r, i + 1)
BY DEF PutInTable

\* A command that is no setter leaves them to the next one as they are.
LEMMA SettingsPass ==
  ASSUME next \in Nat \ {0}, NEW ctx, SettingsAreDue(ctx, next), commands[next].c.op \notin Setters
  PROVE  SettingsAreDue(ctx, next + 1)
<1>1. SettingsOf(ctx) = SettingsIn(commands, info.kind, next + 1)
  <2>1. LET before == SettingsIn(commands, info.kind, next)
        IN  SettingsIn(commands, info.kind, next + 1) =
              [type |-> before.type, libraryOrdinal |-> before.libraryOrdinal,
               addend |-> before.addend, symbolName |-> before.symbolName]
    BY SettingsNext DEF Setters
  <2>2. QED BY <2>1 DEF SettingsAreDue, SettingsIn
<1>2. QED BY <1>1, PutStays DEF SettingsAreDue

----------------------------------------------------------------------------
(* That every step makes what is due.                                      *)

LEMMA InitIsDue == Init => AllIsDue
<1>1. SUFFICES ASSUME Init PROVE AllIsDue OBVIOUS
<1>2. /\ next = 1 /\ actions = << >> /\ context = ZeroContext(info.kind)
      /\ phase \in {"parse", "done"}
  BY <1>1 DEF Init
<1>3. DOMAIN actions = {} BY <1>2
<1>4. CommandsAreDone BY <1>2 DEF CommandsAreDone
<1>5. SettingsAreDue(context, next) BY <1>2, Firsts DEF SettingsAreDue, ZeroContext
<1>6. QED BY <1>2, <1>3, <1>4, <1>5 DEF AllIsDue, NotBegun

\* The context is that of the first command when the parser hands over.
LEMMA ParseIsDue ==
  ASSUME Whole, phase = "parse", phase' \in {"parse", "run"},
         UNCHANGED <<info, next, context, actions>>
  PROVE  AllIsDue'
<1>1. /\ next' = 1 /\ actions' = << >> /\ context' = ZeroContext(info.kind) /\ info' = info
      /\ next = 1 /\ context = ZeroContext(info.kind)
  BY DEF Whole, AllIsDue, NotBegun
<1>2. DOMAIN actions' = {} BY <1>1
<1>3. CommandsAreDone' BY <1>1 DEF CommandsAreDone
<1>4. SettingsAreDue(context, next)'
  <2>1. context'.ordinalTable = << >> BY <1>1 DEF ZeroContext
  <2>2. SettingsOf(context') = SettingsIn(commands', info'.kind, next') BY <1>1, Firsts
  <2>3. QED BY <2>1, <2>2 DEF SettingsAreDue
<1>5. StartIsDue(context, next)'
  <2>1. ~ context'.command BY <1>1 DEF ZeroContext
  <2>2. LastIn(commands', 1, Enders) = 0 /\ 0 = 1 - 1 BY LastInFirst
  <2>3. QED BY <1>1, <2>1, <2>2 DEF StartIsDue
<1>6. PlaceIsDue(context, next)'
  <2>1. Wrap(0) = 0 BY WrapOfWord, WordAssumption DEF Word
  <2>2. QED BY <1>1, <2>1, Firsts DEF PlaceIsDue, ZeroContext
<1>7. NotBegun' BY <1>1 DEF NotBegun
<1>8. QED BY <1>2, <1>3, <1>4, <1>5, <1>6, <1>7 DEF AllIsDue

LEMMA StaysDue ==
  ASSUME AllIsDue, UNCHANGED <<info, commands, phase, next, turns, context, actions, keepGoing>>
  PROVE  AllIsDue'
<1>1. (\A a \in DOMAIN actions : /\ ActionIsDue(actions, a)
                                 /\ actions[a].by = next => phase \in {"times", "apply"})'
  BY DEF AllIsDue, ActionIsDue, BoundAsSet, LocationIsDue, PutInTable
<1>2. SettingsAreDue(context, next)' BY DEF AllIsDue, SettingsAreDue, PutInTable
<1>3. CommandsAreDone' BY DEF AllIsDue, CommandsAreDone
<1>4. StartIsDue(context, next) => StartIsDue(context, next)' BY DEF StartIsDue
<1>5. PlaceIsDue(context, next) => PlaceIsDue(context, next)' BY DEF PlaceIsDue
<1>6. TimesAreDue => TimesAreDue' BY DEF TimesAreDue, LocationIsDue
<1>7. NotBegun => NotBegun' BY DEF NotBegun
<1>8. QED BY <1>1, <1>2, <1>3, <1>4, <1>5, <1>6, <1>7 DEF AllIsDue

\* The list of actions when the command being run has added to it.
ListIsDue(list) ==
  /\ \A a \in DOMAIN list : ActionIsDue(list, a)
  /\ \A i : i # next => MadeBy(list, i) = MadeBy(actions, i)

LEMMA UnboundListIsDue == Whole => ListIsDue(actions) /\ ListIsDue(Unbound.actions)
BY DEF Whole, AllIsDue, ListIsDue, Unbound

LEMMA ListStaysDue ==
  ASSUME NEW list, ListIsDue(list), actions' = list, UNCHANGED <<info, commands>>,
         next \in Nat, next' \in Nat, next <= next', commands \in CommandLists
  PROVE  \A a \in DOMAIN actions' : ActionIsDue(actions, a)'
<1>1. SUFFICES ASSUME NEW a \in DOMAIN list PROVE ActionIsDue(actions, a)' OBVIOUS
<1>2. ActionIsDue(list, a) BY DEF ListIsDue
<1>3. list[a].by \in Nat BY <1>2, LenProperties DEF ActionIsDue, CommandLists
<1>4. list[a].by <= next' BY <1>2, <1>3 DEF ActionIsDue
<1>5. BoundAsSet(actions[a], actions[a].by)' BY <1>2 DEF ActionIsDue, BoundAsSet, PutInTable
<1>6. QED BY <1>2, <1>4, <1>5 DEF ActionIsDue, LocationIsDue

\* Handing back a context that is what the next command should find, when all is done.
LEMMA EndIsDue ==
  ASSUME Whole, phase \in {"run", "times", "apply"}, next <= Len(commands),
         NEW ctx, NEW result, NEW success \in BOOLEAN, EndCommand(ctx, result, success),
         SettingsAreDue(ctx, next + 1), ListIsDue(result.actions),
         result.keepGoing /\ success =>
           /\ StartIsDue(ctx, next + 1) /\ PlaceIsDue(ctx, next + 1)
           /\ Plain(commands, next + 1) =>
                MadeBy(result.actions, next) = Binds(commands[next].c)
  PROVE  AllIsDue'
<1>1. /\ info' = info /\ commands' = commands /\ next' = next + 1 /\ context' = ctx
      /\ actions' = result.actions /\ keepGoing' = (result.keepGoing /\ success)
      /\ phase' = IF keepGoing' /\ next' <= Len(commands) THEN "run" ELSE "done"
  BY DEF EndCommand
<1>2. next \in Nat \ {0} /\ commands \in CommandLists
  BY LenProperties, CommandsAreTyped DEF Whole, IInv, TypeOK
<1>3. ASSUME NEW a \in DOMAIN actions'
      PROVE  ActionIsDue(actions, a)' /\ actions'[a].by # next'
  <2>1. ActionIsDue(result.actions, a) BY <1>1, <1>3 DEF ListIsDue
  <2>2. result.actions[a].by \in Nat /\ result.actions[a].by <= next
    BY <1>2, <2>1, LenProperties DEF ActionIsDue, CommandLists
  <2>3. ActionIsDue(actions, a)' BY <1>1, <1>2, <1>3, ListStaysDue
  <2>4. QED BY <1>1, <1>2, <2>2, <2>3
<1>4. CommandsAreDone'
  <2>1. SUFFICES ASSUME NEW i \in 1 .. (next' - 1), Plain(commands, i + 1),
                        i < next' - 1 \/ keepGoing'
                 PROVE  MadeBy(actions', i) = Binds(commands[i].c)
    <3>1. phase' \notin {"times", "apply"} BY <1>1
    <3>2. QED BY <1>1, <3>1 DEF CommandsAreDone
  <2>2. CASE i = next
    <3>1. keepGoing' BY <1>1, <1>2, <2>1, <2>2
    <3>2. result.keepGoing /\ success BY <1>1, <3>1
    <3>3. QED BY <1>1, <2>1, <2>2, <3>2
  <2>3. CASE i # next
    <3>1. i \in 1 .. (next - 1) BY <1>1, <1>2, <2>3
    <3>2. keepGoing \/ phase \in {"times", "apply"} BY DEF Whole, IInv, Controlled
    <3>3. MadeBy(actions, i) = Binds(commands[i].c)
      BY <2>1, <3>1, <3>2 DEF Whole, AllIsDue, CommandsAreDone
    <3>4. QED BY <1>1, <2>3, <3>3 DEF ListIsDue
  <2>4. QED BY <2>2, <2>3
<1>5. SettingsAreDue(context, next)' BY <1>1 DEF SettingsAreDue, PutInTable
<1>6. ASSUME phase' = "run" PROVE StartIsDue(context, next)' /\ PlaceIsDue(context, next)'
  <2>1. result.keepGoing /\ success BY <1>1, <1>6
  <2>2. StartIsDue(ctx, next + 1) /\ PlaceIsDue(ctx, next + 1) BY <2>1
  <2>3. QED BY <1>1, <2>2 DEF StartIsDue, PlaceIsDue
<1>7. phase' \notin {"parse", "times", "apply"} BY <1>1
<1>8. QED BY <1>3, <1>4, <1>5, <1>6, <1>7 DEF AllIsDue

\* Entering a loop, or going on in it.
LEMMA LoopsOn ==
  ASSUME Whole, phase \in {"run", "times", "apply"}, phase' \in {"times", "apply"},
         UNCHANGED <<info, commands, next>>,
         SettingsAreDue(context', next), context'.command, context'.start = StartAt(commands, next),
         ListIsDue(actions'), phase' = "times" => TimesAreDue',
         phase' = "apply" => commands[next].c.op = "THREADED_APPLY"
  PROVE  AllIsDue'
<1>1. next \in Nat /\ commands \in CommandLists
  BY LenProperties, CommandsAreTyped DEF Whole, IInv, TypeOK
<1>2. \A a \in DOMAIN actions' : ActionIsDue(actions, a)'
  <2> DEFINE list == actions'
  <2>1. ListIsDue(list) /\ actions' = list OBVIOUS
  <2> HIDE DEF list
  <2>2. QED BY <1>1, <2>1, ListStaysDue
<1>3. CommandsAreDone'
  <2>1. SUFFICES ASSUME NEW i \in 1 .. (next - 1), Plain(commands, i + 1)
                 PROVE  MadeBy(actions', i) = Binds(commands[i].c)
    BY DEF CommandsAreDone
  <2>2. keepGoing \/ phase \in {"times", "apply"} BY DEF Whole, IInv, Controlled
  <2>3. MadeBy(actions, i) = Binds(commands[i].c)
    BY <2>1, <2>2 DEF Whole, AllIsDue, CommandsAreDone
  <2>4. i # next BY <1>1
  <2>5. QED BY <2>3, <2>4 DEF ListIsDue
<1>4. SettingsAreDue(context, next)' BY DEF SettingsAreDue, PutInTable
<1>5. StartIsDue(context, next)' BY DEF StartIsDue
<1>6. QED BY <1>2, <1>3, <1>4, <1>5 DEF AllIsDue

\* What a command finds: its context, and none of its own actions.
LEMMA BegunIsDue ==
  ASSUME Whole, phase = "run", next <= Len(commands)
  PROVE  /\ keepGoing /\ next \in DOMAIN commands /\ commands \in CommandLists
         /\ next \in Nat \ {0}
         /\ Begun \in Contexts /\ Begun.command /\ Begun.start = StartAt(commands, next)
         /\ SettingsAreDue(Begun, next) /\ PlaceIsDue(Begun, next)
         /\ Begun.threaded = context.threaded /\ Begun.segment = context.segment
         /\ ListIsDue(actions) /\ ListIsDue(Unbound.actions) /\ MadeBy(actions, next) = 0
<1>1. /\ keepGoing /\ next \in DOMAIN commands /\ commands \in CommandLists /\ next \in Nat \ {0}
      /\ Begun \in Contexts /\ context \in Contexts
  BY CommandsAreTyped, BegunIsTyped DEF Whole, IInv, TypeOK, Controlled
<1>2. /\ Begun.type = context.type /\ Begun.libraryOrdinal = context.libraryOrdinal
      /\ Begun.addend = context.addend /\ Begun.symbolName = context.symbolName
      /\ Begun.ordinalTable = context.ordinalTable
      /\ Begun.threaded = context.threaded /\ Begun.segment = context.segment
      /\ Begun.derivedOffset = context.derivedOffset
  BY <1>1 DEF Begun, Contexts
<1>3. Begun.command /\ Begun.start = StartAt(commands, next)
  <2>1. StartIsDue(context, next) BY DEF Whole, AllIsDue
  <2>2. CASE context.command BY <2>1, <2>2 DEF Begun, StartIsDue
  <2>3. CASE ~ context.command
    <3>1. LastIn(commands, next, Enders) + 1 = next BY <1>1, <2>1, <2>3 DEF StartIsDue
    <3>2. Begun.start = commands[next].at /\ Begun.command BY <1>1, <2>3 DEF Begun, Contexts
    <3>3. QED BY <3>1, <3>2 DEF StartAt
  <2>4. QED BY <2>2, <2>3
<1>4. SettingsAreDue(Begun, next)
  BY <1>2 DEF Whole, AllIsDue, SettingsAreDue, SettingsOf
<1>5. PlaceIsDue(Begun, next) BY <1>2 DEF Whole, AllIsDue, PlaceIsDue
<1>6. MadeBy(actions, next) = 0
  <2>1. \A a \in DOMAIN actions : actions[a].by # next BY DEF Whole, AllIsDue
  <2>2. QED BY <2>1, MadeByNone DEF Whole, IInv, TypeOK
<1>7. QED BY <1>1, <1>2, <1>3, <1>4, <1>5, <1>6, UnboundListIsDue

\* How many actions a command has made is a number.
LEMMA MadeByIsNat == TypeOK => \A i : MadeBy(actions, i) \in Nat
<1>1. SUFFICES ASSUME TypeOK PROVE \A i : MadeBy(actions, i) \in Nat OBVIOUS
<1>2. actions \in Seq(Actions \cup {0}) /\ 0 \in Actions \cup {0} BY <1>1, SeqMonotonic DEF TypeOK
<1>3. QED BY <1>2, MadeByMore

\* A bind from a context that is due, at a place that is, adds an action that is due.
LEMMA BoundListIsDue ==
  ASSUME Whole, next \in DOMAIN commands, NEW ctx \in Contexts,
         ctx.start = StartAt(commands, next), BoundAsSet(ctx, next),
         Succeeded(MakeAction(ctx)) /\ Plain(commands, next + 1) =>
           LocationIsDue(ctx, next, ctx.derivedOffset, MadeBy(actions, next))
  PROVE  /\ ListIsDue(Bound(ctx).actions)
         /\ Bound(ctx).keepGoing => keepGoing /\ MadeBy(Bound(ctx).actions, next) = MadeBy(actions, next) + 1
         /\ Bound(ctx).keepGoing \in BOOLEAN
<1> DEFINE made == MakeAction(ctx)
           more == Append(actions, made.value)
<1>1. actions \in Seq(Actions) /\ next \in Nat /\ keepGoing \in BOOLEAN
  BY DEF Whole, IInv, TypeOK
<1>2. CASE ~ Succeeded(made)
  <2>1. Bound(ctx).actions = actions /\ Bound(ctx).keepGoing = FALSE BY <1>2 DEF Bound
  <2>2. QED BY <2>1, UnboundListIsDue
<1>3. CASE Succeeded(made)
  <2>1. Bound(ctx).actions = more /\ Bound(ctx).keepGoing = keepGoing BY <1>3 DEF Bound
  <2>2. made.value \in Actions BY <1>1, <1>3, MadeAction
  <2>3. /\ made.value.start = ctx.start /\ made.value.by = next
        /\ made.value.segment = ctx.segment /\ made.value.offset = ctx.derivedOffset
        /\ made.value.type = ctx.type /\ made.value.libraryOrdinal = ctx.libraryOrdinal
        /\ made.value.addend = ctx.addend /\ made.value.symbolName = ctx.symbolName
    BY <1>3 DEF MakeAction, Succeeded, Fails, Ok
  <2>4. /\ DOMAIN actions = 1 .. Len(actions) /\ Len(actions) \in Nat
        /\ DOMAIN more = 1 .. (Len(actions) + 1)
        /\ \A a \in 1 .. Len(actions) : more[a] = actions[a]
        /\ more[Len(actions) + 1] = made.value
    BY <1>1, <2>2, AppendProperties, LenProperties
  <2>5. /\ TurnOf(more, Len(actions) + 1) = MadeBy(actions, next)
        /\ \A a \in 1 .. Len(actions) : TurnOf(more, a) = TurnOf(actions, a)
        /\ \A i : i # next => MadeBy(more, i) = MadeBy(actions, i)
        /\ MadeBy(more, next) = MadeBy(actions, next) + 1
    BY <1>1, <2>2, <2>3, MadeByMore
  <2>6. BoundAsSet(made.value, next)
    <3>1. SettingsOf(made.value) = SettingsOf(ctx) /\ Borrowed(made.value) = Borrowed(ctx)
      BY <2>3 DEF SettingsOf, Borrowed
    <3>2. QED BY <2>3, <3>1 DEF BoundAsSet, PutInTable
  <2>7. Plain(commands, next + 1) =>
          LocationIsDue(made.value, next, made.value.offset, MadeBy(actions, next))
    BY <1>3, <2>3 DEF LocationIsDue
  <2> HIDE DEF made, more
  <2>8. ASSUME NEW a \in DOMAIN more PROVE ActionIsDue(more, a)
    <3>1. CASE a = Len(actions) + 1
      <4>1. more[a] = made.value /\ TurnOf(more, a) = MadeBy(actions, next) BY <2>4, <2>5, <3>1
      <4>2. next <= next BY <1>1
      <4>3. QED BY <2>3, <2>6, <2>7, <4>1, <4>2 DEF ActionIsDue
    <3>2. CASE a \in 1 .. Len(actions)
      <4>1. more[a] = actions[a] /\ TurnOf(more, a) = TurnOf(actions, a) BY <2>4, <2>5, <3>2
      <4>2. ActionIsDue(actions, a) BY <2>4, <3>2 DEF Whole, AllIsDue
      <4>3. QED BY <4>1, <4>2 DEF ActionIsDue
    <3>3. QED BY <2>4, <3>1, <3>2
  <2>9. ListIsDue(more) BY <2>5, <2>8 DEF ListIsDue
  <2>10. QED BY <1>1, <2>1, <2>5, <2>9
<1>4. QED BY <1>2, <1>3

\* A command that makes one bind and steps past it.
LEMMA AdvanceIsDue ==
  ASSUME Whole, phase = "run", next <= Len(commands),
         commands[next].c.op \in Binders \ {"DO_BIND_ULEB_TIMES_SKIPPING_ULEB"},
         NEW by \in Nat, Wrap(by) = Wrap(Travel(commands[next].c)),
         Advance(Begun, Bound(Begun), by)
  PROVE  AllIsDue'
<1> DEFINE c == commands[next].c
           moved == mk_vm_offset_add(Begun.derivedOffset, by)
           ctx == [Begun EXCEPT !.derivedOffset = moved.value, !.command = FALSE]
<1>1. /\ keepGoing /\ next \in DOMAIN commands /\ commands \in CommandLists
      /\ next \in Nat \ {0}
      /\ Begun \in Contexts /\ Begun.command /\ Begun.start = StartAt(commands, next)
      /\ SettingsAreDue(Begun, next) /\ PlaceIsDue(Begun, next)
      /\ ListIsDue(actions) /\ MadeBy(actions, next) = 0
  BY BegunIsDue
<1>2. /\ c.op \notin Setters /\ c.op \notin ThreadedOps /\ c.op \in Enders
      /\ c.op # "SET_SEGMENT_AND_OFFSET_ULEB" /\ Binds(c) = 1
  BY DEF Setters, Binders, ThreadedOps, Enders, Binds
<1>3. /\ SegmentAt(commands, next + 1) = SegmentAt(commands, next)
      /\ OriginAt(commands, next + 1) = OriginAt(commands, next) + Travel(c)
      /\ OriginAt(commands, next) \in Int
      /\ LastIn(commands, next + 1, Enders) = next
      /\ Plain(commands, next + 1) <=> Plain(commands, next)
  BY <1>1, <1>2, Nexts
<1>4. Travel(c) \in Int /\ c.k \in Int /\ PointerSize \in Int
  BY <1>1, CommandInList, BindAssumption
<1> HIDE DEF c
<1>5. SettingsAreDue(Begun, next + 1) BY <1>1, <1>2, SettingsPass DEF c
<1>6. /\ ListIsDue(Bound(Begun).actions)
      /\ Bound(Begun).keepGoing => MadeBy(Bound(Begun).actions, next) = 1
  <2>1. BoundAsSet(Begun, next)
    BY <1>1, <1>2 DEF BoundAsSet, SettingsAreDue, ThreadedOps, c
  <2>2. ASSUME Plain(commands, next + 1)
        PROVE  LocationIsDue(Begun, next, Begun.derivedOffset, MadeBy(actions, next))
    <3>1. Begun.segment = SegmentAt(commands, next)
          /\ Begun.derivedOffset = Wrap(OriginAt(commands, next))
      BY <1>1, <1>3, <2>2 DEF PlaceIsDue
    <3>2. OriginAt(commands, next) + 0 * (c.k + PointerSize) = OriginAt(commands, next)
      BY <1>3, <1>4
    <3>3. QED BY <1>1, <3>1, <3>2 DEF LocationIsDue, c
  <2>3. QED BY <1>1, <2>1, <2>2, BoundListIsDue
<1>7. CASE Succeeded(moved)
  <2>1. moved.value = Begun.derivedOffset + by /\ moved.value \in Word
    <3>1. Begun.derivedOffset \in Word BY <1>1 DEF Contexts
    <3>2. QED BY <1>7, <3>1, AdditionStays
  <2> HIDE DEF moved
  <2>2. /\ ~ ctx.command /\ SettingsOf(ctx) = SettingsOf(Begun)
        /\ ctx.ordinalTable = Begun.ordinalTable /\ ctx.threaded = Begun.threaded
        /\ ctx.segment = Begun.segment /\ ctx.derivedOffset = moved.value
    BY <1>1 DEF Contexts, SettingsOf
  <2>3. EndCommand(ctx, Bound(Begun), TRUE) BY <1>7 DEF Advance, moved
  <2> HIDE DEF ctx
  <2>4. SettingsAreDue(ctx, next + 1) BY <1>5, <2>2 DEF SettingsAreDue
  <2>5. StartIsDue(ctx, next + 1) BY <1>1, <1>3, <2>2 DEF StartIsDue
  <2>6. PlaceIsDue(ctx, next + 1)
    <3>1. SUFFICES ASSUME Plain(commands, next)
                   PROVE  /\ ~ ctx.threaded /\ ctx.segment = SegmentAt(commands, next)
                          /\ ctx.derivedOffset = Wrap(OriginAt(commands, next) + Travel(c))
      BY <1>3 DEF PlaceIsDue
    <3>2. /\ ~ Begun.threaded /\ Begun.segment = SegmentAt(commands, next)
          /\ Begun.derivedOffset = Wrap(OriginAt(commands, next))
      BY <1>1, <3>1 DEF PlaceIsDue
    <3>3. Wrap(OriginAt(commands, next)) + by = Wrap(OriginAt(commands, next) + Travel(c))
      BY <1>3, <1>4, <2>1, <3>2, WrapOfMove DEF c
    <3>4. QED BY <2>1, <2>2, <3>2, <3>3
  <2>7. QED BY <1>2, <1>6, <2>3, <2>4, <2>5, <2>6, EndIsDue DEF c
<1>8. CASE ~ Succeeded(moved)
  <2>1. EndCommand(Begun, Bound(Begun), FALSE) BY <1>8 DEF Advance
  <2>2. QED BY <1>5, <1>6, <2>1, EndIsDue
<1>9. QED BY <1>7, <1>8

LEMMA BindersAreDue ==
  ASSUME Whole, DoBind \/ DoBindAddAddress \/ DoBindAddAddressScaled
  PROVE  AllIsDue'
<1> DEFINE c == commands[next].c
<1>1. phase = "run" /\ next <= Len(commands) /\ Command = c
  BY DEF DoBind, DoBindAddAddress, DoBindAddAddressScaled, Running, Command
<1>2. next \in DOMAIN commands /\ commands \in CommandLists BY <1>1, BegunIsDue
<1>3. c.n \in Int /\ PointerSize \in Nat BY <1>2, CommandInList, BindAssumption
<1> HIDE DEF c
<1>4. ASSUME NEW i \in Int PROVE Wrap(i) \in Nat /\ Wrap(Wrap(i)) = Wrap(i)
  <2>1. Wrap(i) \in Word BY WrapDivides
  <2>2. QED BY <2>1, WrapOfWord, WordAssumption DEF Word
<1>5. CASE DoBind
  <2>1. c.op = "DO_BIND" /\ Advance(Begun, Bound(Begun), PointerSize)
    BY <1>1, <1>5 DEF DoBind, Running
  <2>2. Travel(c) = PointerSize BY <2>1 DEF Travel
  <2>3. c.op \in Binders \ {"DO_BIND_ULEB_TIMES_SKIPPING_ULEB"} BY <2>1 DEF Binders
  <2>4. QED BY <1>1, <1>3, <2>1, <2>2, <2>3, AdvanceIsDue DEF c
<1>6. CASE DoBindAddAddress
  <2> DEFINE by == c.n + PointerSize
  <2>1. c.op = "DO_BIND_ADD_ADDR_ULEB" /\ Advance(Begun, Bound(Begun), Wrap(by))
    BY <1>1, <1>6 DEF DoBindAddAddress, Running
  <2>2. Travel(c) = by BY <2>1 DEF Travel
  <2>3. c.op \in Binders \ {"DO_BIND_ULEB_TIMES_SKIPPING_ULEB"} BY <2>1 DEF Binders
  <2>4. by \in Int BY <1>3
  <2> HIDE DEF by
  <2>5. Wrap(by) \in Nat /\ Wrap(Wrap(by)) = Wrap(Travel(c)) BY <1>4, <2>2, <2>4
  <2>6. QED BY <1>1, <2>1, <2>3, <2>5, AdvanceIsDue DEF c
<1>7. CASE DoBindAddAddressScaled
  <2> DEFINE by == c.n * PointerSize + PointerSize
  <2>1. c.op = "DO_BIND_ADD_ADDR_IMM_SCALED" /\ Advance(Begun, Bound(Begun), Wrap(by))
    BY <1>1, <1>7 DEF DoBindAddAddressScaled, Running
  <2>2. Travel(c) = (c.n + 1) * PointerSize BY <2>1 DEF Travel
  <2>3. c.op \in Binders \ {"DO_BIND_ULEB_TIMES_SKIPPING_ULEB"} BY <2>1 DEF Binders
  <2>4. by \in Int /\ by = (c.n + 1) * PointerSize BY <1>3
  <2> HIDE DEF by
  <2>5. Wrap(by) \in Nat /\ Wrap(Wrap(by)) = Wrap(Travel(c)) BY <1>4, <2>2, <2>4
  <2>6. QED BY <1>1, <2>1, <2>3, <2>5, AdvanceIsDue DEF c
<1>8. QED BY <1>5, <1>6, <1>7

\* A command that binds nothing, and leaves the location and the settings that it should.
LEMMA SucceedsIsDue ==
  ASSUME Whole, phase = "run", next <= Len(commands), NEW ctx, Succeeds(ctx),
         SettingsAreDue(ctx, next + 1), PlaceIsDue(ctx, next + 1),
         ctx.command /\ ctx.start = Begun.start,
         commands[next].c.op \notin Enders
  PROVE  AllIsDue'
<1>1. /\ next \in DOMAIN commands /\ commands \in CommandLists
      /\ Begun.start = StartAt(commands, next)
      /\ ListIsDue(Unbound.actions) /\ MadeBy(actions, next) = 0
  BY BegunIsDue
<1>2. StartAt(commands, next + 1) = StartAt(commands, next) BY <1>1, Nexts DEF StartAt
<1>3. StartIsDue(ctx, next + 1) BY <1>1, <1>2 DEF StartIsDue
<1>4. MadeBy(Unbound.actions, next) = Binds(commands[next].c)
  BY <1>1 DEF Unbound, Binds, Enders
<1>5. EndCommand(ctx, Unbound, TRUE) BY DEF Succeeds
<1>6. QED BY <1>1, <1>3, <1>4, <1>5, EndIsDue

\* A command that fails, without a bind.
LEMMA FailsIsDue ==
  ASSUME Whole, phase \in {"run", "times", "apply"}, next <= Len(commands),
         NEW ctx, FailsWith(ctx), SettingsAreDue(ctx, next + 1)
  PROVE  AllIsDue'
<1>1. ListIsDue(Unbound.actions) BY UnboundListIsDue
<1>2. EndCommand(ctx, Unbound, FALSE) BY DEF FailsWith
<1>3. QED BY <1>1, <1>2, EndIsDue

\* The commands that set something.
LEMMA SettersAreDue ==
  ASSUME Whole, SetDylibOrdinal \/ SetSymbol \/ SetType \/ SetAddend
  PROVE  AllIsDue'
<1> DEFINE c == commands[next].c
           before == SettingsIn(commands, info.kind, next)
<1>1. /\ phase = "run" /\ next <= Len(commands) /\ Command = c /\ c.op \in Setters
  BY DEF SetDylibOrdinal, SetSymbol, SetType, SetAddend, Running, Command, Setters
<1>2. /\ next \in DOMAIN commands /\ commands \in CommandLists /\ next \in Nat \ {0}
      /\ Begun \in Contexts /\ Begun.command
      /\ SettingsAreDue(Begun, next) /\ PlaceIsDue(Begun, next)
  BY <1>1, BegunIsDue
<1>3. /\ c.op \notin Enders /\ c.op # "SET_SEGMENT_AND_OFFSET_ULEB" /\ Travel(c) = 0
  BY <1>1 DEF Setters, Enders, Binders, Travel
<1>4. SettingsIn(commands, info.kind, next + 1) =
        [type |-> IF c.op = "SET_TYPE" THEN c.n ELSE before.type,
         libraryOrdinal |-> IF c.op = "SET_DYLIB_ORDINAL" THEN c.n ELSE before.libraryOrdinal,
         addend |-> IF c.op = "SET_ADDEND" THEN c.n ELSE before.addend,
         symbolName |-> IF c.op = "SET_SYMBOL" THEN c.n ELSE before.symbolName]
  BY <1>2, SettingsNext
<1>5. /\ Begun.type = before.type /\ Begun.libraryOrdinal = before.libraryOrdinal
      /\ Begun.addend = before.addend /\ Begun.symbolName = before.symbolName
  <2>1. SettingsOf(Begun) = before BY <1>2 DEF SettingsAreDue
  <2> HIDE DEF before
  <2>2. QED BY <2>1 DEF SettingsOf
<1>6. /\ SegmentAt(commands, next + 1) = SegmentAt(commands, next)
      /\ OriginAt(commands, next + 1) = OriginAt(commands, next) + 0
      /\ OriginAt(commands, next) \in Int
      /\ Plain(commands, next + 1) => Plain(commands, next)
  BY <1>2, <1>3, Nexts
<1>7. OriginAt(commands, next + 1) = OriginAt(commands, next) BY <1>6
<1> HIDE DEF c, before
<1>8. PICK ctx : /\ Succeeds(ctx)
                 /\ SettingsOf(ctx) = SettingsIn(commands, info.kind, next + 1)
                 /\ ctx.command = Begun.command /\ ctx.start = Begun.start
                 /\ ctx.threaded = Begun.threaded /\ ctx.segment = Begun.segment
                 /\ ctx.derivedOffset = Begun.derivedOffset
                 /\ ctx.ordinalTable = Begun.ordinalTable
  <2>1. CASE SetDylibOrdinal
    <3> DEFINE ctx == [Begun EXCEPT !.libraryOrdinal = c.n]
    <3>1. c.op = "SET_DYLIB_ORDINAL" /\ Succeeds(ctx)
      BY <1>1, <2>1 DEF SetDylibOrdinal, Running
    <3>2. SettingsOf(ctx) = SettingsIn(commands, info.kind, next + 1)
      BY <1>2, <1>4, <1>5, <3>1 DEF SettingsOf, Contexts
    <3>3. /\ ctx.command = Begun.command /\ ctx.start = Begun.start
          /\ ctx.threaded = Begun.threaded /\ ctx.segment = Begun.segment
          /\ ctx.derivedOffset = Begun.derivedOffset
          /\ ctx.ordinalTable = Begun.ordinalTable
      BY <1>2 DEF Contexts
    <3> HIDE DEF ctx
    <3>4. QED BY <3>1, <3>2, <3>3
  <2>2. CASE SetSymbol
    <3> DEFINE ctx == [Begun EXCEPT !.symbolName = c.n]
    <3>1. c.op = "SET_SYMBOL" /\ Succeeds(ctx) BY <1>1, <2>2 DEF SetSymbol, Running
    <3>2. SettingsOf(ctx) = SettingsIn(commands, info.kind, next + 1)
      BY <1>2, <1>4, <1>5, <3>1 DEF SettingsOf, Contexts
    <3>3. /\ ctx.command = Begun.command /\ ctx.start = Begun.start
          /\ ctx.threaded = Begun.threaded /\ ctx.segment = Begun.segment
          /\ ctx.derivedOffset = Begun.derivedOffset
          /\ ctx.ordinalTable = Begun.ordinalTable
      BY <1>2 DEF Contexts
    <3> HIDE DEF ctx
    <3>4. QED BY <3>1, <3>2, <3>3
  <2>3. CASE SetType
    <3> DEFINE ctx == [Begun EXCEPT !.type = c.n]
    <3>1. c.op = "SET_TYPE" /\ Succeeds(ctx) BY <1>1, <2>3 DEF SetType, Running
    <3>2. SettingsOf(ctx) = SettingsIn(commands, info.kind, next + 1)
      BY <1>2, <1>4, <1>5, <3>1 DEF SettingsOf, Contexts
    <3>3. /\ ctx.command = Begun.command /\ ctx.start = Begun.start
          /\ ctx.threaded = Begun.threaded /\ ctx.segment = Begun.segment
          /\ ctx.derivedOffset = Begun.derivedOffset
          /\ ctx.ordinalTable = Begun.ordinalTable
      BY <1>2 DEF Contexts
    <3> HIDE DEF ctx
    <3>4. QED BY <3>1, <3>2, <3>3
  <2>4. CASE SetAddend
    <3> DEFINE ctx == [Begun EXCEPT !.addend = c.n]
    <3>1. c.op = "SET_ADDEND" /\ Succeeds(ctx) BY <1>1, <2>4 DEF SetAddend, Running
    <3>2. SettingsOf(ctx) = SettingsIn(commands, info.kind, next + 1)
      BY <1>2, <1>4, <1>5, <3>1 DEF SettingsOf, Contexts
    <3>3. /\ ctx.command = Begun.command /\ ctx.start = Begun.start
          /\ ctx.threaded = Begun.threaded /\ ctx.segment = Begun.segment
          /\ ctx.derivedOffset = Begun.derivedOffset
          /\ ctx.ordinalTable = Begun.ordinalTable
      BY <1>2 DEF Contexts
    <3> HIDE DEF ctx
    <3>4. QED BY <3>1, <3>2, <3>3
  <2>5. QED BY <2>1, <2>2, <2>3, <2>4
<1>9. SettingsAreDue(ctx, next + 1)
  BY <1>2, <1>8, PutStays DEF SettingsAreDue
<1>10. PlaceIsDue(ctx, next + 1) BY <1>2, <1>6, <1>7, <1>8 DEF PlaceIsDue
<1>11. QED BY <1>1, <1>2, <1>3, <1>8, <1>9, <1>10, SucceedsIsDue DEF c

\* The commands that move the location without a bind.
LEMMA MovesAreDue ==
  ASSUME Whole, SetSegmentAndOffset \/ AddAddress
  PROVE  AllIsDue'
<1> DEFINE c == commands[next].c
<1>1. /\ phase = "run" /\ next <= Len(commands) /\ Command = c
      /\ c.op \in {"SET_SEGMENT_AND_OFFSET_ULEB", "ADD_ADDR_ULEB"}
  BY DEF SetSegmentAndOffset, AddAddress, Running, Command
<1>2. /\ next \in DOMAIN commands /\ commands \in CommandLists /\ next \in Nat \ {0}
      /\ Begun \in Contexts /\ Begun.command
      /\ SettingsAreDue(Begun, next) /\ PlaceIsDue(Begun, next)
  BY <1>1, BegunIsDue
<1>3. c.op \notin Enders /\ c.op \notin Setters
  BY <1>1 DEF Setters, Enders, Binders
<1>4. /\ SegmentAt(commands, next + 1) = IF c.op = "SET_SEGMENT_AND_OFFSET_ULEB"
                                         THEN c.k + 1 ELSE SegmentAt(commands, next)
      /\ OriginAt(commands, next + 1) = IF c.op = "SET_SEGMENT_AND_OFFSET_ULEB"
                                        THEN c.n ELSE OriginAt(commands, next) + Travel(c)
      /\ OriginAt(commands, next) \in Int
      /\ Plain(commands, next + 1) => Plain(commands, next)
  BY <1>2, Nexts
<1>5. /\ c.op = "ADD_ADDR_ULEB" => c.n \in Slide
      /\ c.op = "SET_SEGMENT_AND_OFFSET_ULEB" => c.n \in Word
      /\ c.n \in Int
  BY <1>2, CommandIsTyped, CommandInList DEF Whole, IInv, Setters
<1>6. ASSUME NEW ctx, SettingsOf(ctx) = SettingsOf(Begun), ctx.ordinalTable = Begun.ordinalTable
      PROVE  SettingsAreDue(ctx, next + 1)
  <2>1. SettingsAreDue(ctx, next) BY <1>2, <1>6 DEF SettingsAreDue
  <2>2. QED BY <1>2, <1>3, <2>1, SettingsPass
<1> HIDE DEF c
<1>7. CASE SetSegmentAndOffset
  <2> DEFINE moved == [Begun EXCEPT !.segmentOffset = c.n, !.derivedOffset = c.n]
             ctx == [moved EXCEPT !.segment = c.k + 1]
  <2>1. /\ c.op = "SET_SEGMENT_AND_OFFSET_ULEB"
        /\ IF c.k < Len(Segments) THEN Succeeds(ctx) ELSE FailsWith(moved)
    BY <1>1, <1>7 DEF SetSegmentAndOffset, Running
  <2>2. CASE c.k < Len(Segments)
    <3>1. Succeeds(ctx) BY <2>1, <2>2
    <3>2. /\ SettingsOf(ctx) = SettingsOf(Begun) /\ ctx.ordinalTable = Begun.ordinalTable
          /\ ctx.command = Begun.command /\ ctx.start = Begun.start
          /\ ctx.threaded = Begun.threaded /\ ctx.segment = c.k + 1 /\ ctx.derivedOffset = c.n
      BY <1>2 DEF Contexts, SettingsOf
    <3> HIDE DEF ctx
    <3>3. SettingsAreDue(ctx, next + 1) BY <1>6, <3>2
    <3>4. PlaceIsDue(ctx, next + 1)
      BY <1>2, <1>4, <1>5, <2>1, <3>2, WrapOfWord DEF PlaceIsDue
    <3>5. QED BY <1>1, <1>2, <1>3, <3>1, <3>2, <3>3, <3>4, SucceedsIsDue DEF c
  <2>3. CASE ~ (c.k < Len(Segments))
    <3>1. FailsWith(moved) BY <2>1, <2>3
    <3>2. SettingsOf(moved) = SettingsOf(Begun) /\ moved.ordinalTable = Begun.ordinalTable
      BY <1>2 DEF Contexts, SettingsOf
    <3> HIDE DEF moved
    <3>3. QED BY <1>1, <1>6, <3>1, <3>2, FailsIsDue
  <2>4. QED BY <2>2, <2>3
<1>8. CASE AddAddress
  <2> DEFINE moved == mk_vm_address_apply_slide(Begun.derivedOffset, c.n)
             ctx == [Begun EXCEPT !.derivedOffset = moved.value]
  <2>1. /\ c.op = "ADD_ADDR_ULEB"
        /\ IF Succeeded(moved) THEN Succeeds(ctx) ELSE FailsWith(Begun)
    BY <1>1, <1>8 DEF AddAddress, Running
  <2>2. Travel(c) = c.n /\ c.n \in Slide BY <1>5, <2>1 DEF Travel
  <2>3. CASE Succeeded(moved)
    <3>1. moved.value = Begun.derivedOffset + c.n /\ moved.value \in Word
      <4>1. Begun.derivedOffset \in Word BY <1>2 DEF Contexts
      <4>2. QED BY <2>2, <2>3, <4>1, AppliedSlide
    <3> HIDE DEF moved
    <3>2. Succeeds(ctx) BY <2>1, <2>3
    <3>3. /\ SettingsOf(ctx) = SettingsOf(Begun) /\ ctx.ordinalTable = Begun.ordinalTable
          /\ ctx.command = Begun.command /\ ctx.start = Begun.start
          /\ ctx.threaded = Begun.threaded /\ ctx.segment = Begun.segment
          /\ ctx.derivedOffset = moved.value
      BY <1>2 DEF Contexts, SettingsOf
    <3> HIDE DEF ctx
    <3>4. SettingsAreDue(ctx, next + 1) BY <1>6, <3>3
    <3>5. PlaceIsDue(ctx, next + 1)
      <4>1. SUFFICES ASSUME Plain(commands, next)
                     PROVE  /\ ~ ctx.threaded /\ ctx.segment = SegmentAt(commands, next)
                            /\ ctx.derivedOffset = Wrap(OriginAt(commands, next) + c.n)
        BY <1>4, <2>1, <2>2 DEF PlaceIsDue
      <4>2. /\ ~ Begun.threaded /\ Begun.segment = SegmentAt(commands, next)
            /\ Begun.derivedOffset = Wrap(OriginAt(commands, next))
        BY <1>2, <4>1 DEF PlaceIsDue
      <4>3. Wrap(OriginAt(commands, next)) + c.n = Wrap(OriginAt(commands, next) + c.n)
        BY <1>4, <1>5, <3>1, <4>2, WrapOfMove
      <4>4. QED BY <3>1, <3>3, <4>2, <4>3
    <3>6. QED BY <1>1, <1>2, <1>3, <3>2, <3>3, <3>4, <3>5, SucceedsIsDue DEF c
  <2>4. CASE ~ Succeeded(moved)
    <3>1. FailsWith(Begun) BY <2>1, <2>4
    <3>2. QED BY <1>1, <1>6, <3>1, FailsIsDue
  <2>5. QED BY <2>3, <2>4
<1>9. QED BY <1>7, <1>8

\* The end of a lazy bind, and of an info.
LEMMA DoneIsDue ==
  ASSUME Whole, Done
  PROVE  AllIsDue'
<1> DEFINE c == commands[next].c
           ctx == [Begun EXCEPT !.command = FALSE]
<1>1. /\ phase = "run" /\ next <= Len(commands) /\ c.op = "DONE"
      /\ EndCommand(ctx, Unbound, info.kind = "lazy")
  BY DEF Done, Running, Command
<1>2. /\ next \in DOMAIN commands /\ commands \in CommandLists /\ next \in Nat \ {0}
      /\ Begun \in Contexts
      /\ SettingsAreDue(Begun, next) /\ PlaceIsDue(Begun, next)
      /\ ListIsDue(Unbound.actions) /\ MadeBy(actions, next) = 0
  BY <1>1, BegunIsDue
<1>3. /\ c.op \in Enders /\ c.op \notin Setters /\ c.op # "SET_SEGMENT_AND_OFFSET_ULEB"
      /\ Travel(c) = 0 /\ Binds(c) = 0
  BY <1>1 DEF Enders, Setters, Binders, Travel, Binds
<1>4. /\ SegmentAt(commands, next + 1) = SegmentAt(commands, next)
      /\ OriginAt(commands, next + 1) = OriginAt(commands, next) + 0
      /\ OriginAt(commands, next) \in Int
      /\ LastIn(commands, next + 1, Enders) = next
      /\ Plain(commands, next + 1) => Plain(commands, next)
  BY <1>2, <1>3, Nexts
<1>5. OriginAt(commands, next + 1) = OriginAt(commands, next) BY <1>4
<1> HIDE DEF c
<1>6. /\ SettingsOf(ctx) = SettingsOf(Begun) /\ ctx.ordinalTable = Begun.ordinalTable
      /\ ~ ctx.command /\ ctx.threaded = Begun.threaded /\ ctx.segment = Begun.segment
      /\ ctx.derivedOffset = Begun.derivedOffset
  BY <1>2 DEF Contexts, SettingsOf
<1> HIDE DEF ctx
<1>7. SettingsAreDue(ctx, next + 1)
  <2>1. SettingsAreDue(ctx, next) BY <1>2, <1>6 DEF SettingsAreDue
  <2>2. QED BY <1>2, <1>3, <2>1, SettingsPass DEF c
<1>8. StartIsDue(ctx, next + 1) BY <1>2, <1>4, <1>6 DEF StartIsDue
<1>9. PlaceIsDue(ctx, next + 1) BY <1>2, <1>4, <1>5, <1>6 DEF PlaceIsDue
<1>10. MadeBy(Unbound.actions, next) = Binds(c) BY <1>2, <1>3 DEF Unbound
<1>11. (info.kind = "lazy") \in BOOLEAN OBVIOUS
<1>12. QED BY <1>1, <1>2, <1>7, <1>8, <1>9, <1>10, <1>11, EndIsDue DEF c

LEMMA NotInLazyIsDue ==
  ASSUME Whole, NotInLazy
  PROVE  AllIsDue'
<1>1. /\ phase = "run" /\ next <= Len(commands) /\ FailsWith(Begun)
      /\ commands[next].c.op \in Binders \cup ThreadedOps
  BY DEF NotInLazy, Running, Command
<1>2. commands[next].c.op \notin Setters BY <1>1 DEF Binders, ThreadedOps, Setters
<1>3. SettingsAreDue(Begun, next + 1) BY <1>1, <1>2, BegunIsDue, SettingsPass
<1>4. QED BY <1>1, <1>3, FailsIsDue

\* What is put in the ordinal table are the settings in force at its bind command.
LEMMA DoBindThreadedIsDue ==
  ASSUME Whole, DoBindThreaded
  PROVE  AllIsDue'
<1> DEFINE entry == [libraryOrdinal |-> Begun.libraryOrdinal, addend |-> Begun.addend,
                     symbolName |-> Begun.symbolName]
           table == Append(Begun.ordinalTable, entry)
           ctx == [Begun EXCEPT !.ordinalTable = table, !.command = FALSE]
<1>1. /\ phase = "run" /\ next <= Len(commands) /\ context.threaded
      /\ commands[next].c.op = "DO_BIND"
      /\ Succeeds(ctx) \/ TableCrashes
  BY DEF DoBindThreaded, Running, Command
<1>2. CASE TableCrashes BY <1>2, StaysDue DEF Whole, TableCrashes
<1>3. CASE Succeeds(ctx)
  <2>1. /\ next \in DOMAIN commands /\ commands \in CommandLists /\ next \in Nat \ {0}
        /\ Begun \in Contexts /\ Begun.threaded
        /\ SettingsAreDue(Begun, next) /\ PlaceIsDue(Begun, next)
        /\ ListIsDue(Unbound.actions)
    BY <1>1, BegunIsDue
  <2>2. /\ commands[next].c.op \in Enders /\ commands[next].c.op \notin Setters
    BY <1>1 DEF Enders, Binders, Setters
  <2>3. LastIn(commands, next + 1, Enders) = next
        /\ (Plain(commands, next + 1) => Plain(commands, next))
    BY <2>1, <2>2, Nexts
  <2>4. ~ Plain(commands, next + 1) BY <2>1, <2>3 DEF PlaceIsDue
  <2>5. /\ ~ ctx.command /\ SettingsOf(ctx) = SettingsOf(Begun) /\ ctx.ordinalTable = table
    BY <2>1 DEF Contexts, SettingsOf
  <2>6. entry \in Settings /\ Begun.ordinalTable \in Seq(Settings)
    BY <2>1 DEF Contexts, Settings
  <2>7. Borrowed(entry) = Borrowed(SettingsIn(commands, info.kind, next))
    <3>1. SettingsOf(Begun) = SettingsIn(commands, info.kind, next) BY <2>1 DEF SettingsAreDue
    <3>2. /\ entry.libraryOrdinal = SettingsOf(Begun).libraryOrdinal
          /\ entry.addend = SettingsOf(Begun).addend
          /\ entry.symbolName = SettingsOf(Begun).symbolName
      BY DEF SettingsOf
    <3>3. QED BY <3>1, <3>2 DEF Borrowed
  <2> HIDE DEF ctx, entry
  <2>8. ASSUME NEW e \in DOMAIN table PROVE PutInTable(table[e], next + 1)
    <3>1. /\ e \in 1 .. (Len(Begun.ordinalTable) + 1)
          /\ DOMAIN Begun.ordinalTable = 1 .. Len(Begun.ordinalTable)
          /\ Len(Begun.ordinalTable) \in Nat
          /\ table[Len(Begun.ordinalTable) + 1] = entry
          /\ \A d \in 1 .. Len(Begun.ordinalTable) : table[d] = Begun.ordinalTable[d]
      BY <2>6, <2>8, AppendProperties, LenProperties
    <3>2. CASE e = Len(Begun.ordinalTable) + 1
      <4>1. table[e] = entry /\ next \in 1 .. ((next + 1) - 1) BY <2>1, <3>1, <3>2
      <4>2. QED BY <1>1, <2>7, <4>1 DEF PutInTable
    <3>3. CASE e \in 1 .. Len(Begun.ordinalTable)
      <4>1. PutInTable(table[e], next) BY <2>1, <3>1, <3>3 DEF SettingsAreDue
      <4>2. QED BY <2>1, <4>1, PutStays
    <3>4. QED BY <3>1, <3>2, <3>3
  <2> HIDE DEF table
  <2>9. SettingsAreDue(ctx, next + 1)
    <3>1. SettingsAreDue(Begun, next + 1) BY <2>1, <2>2, SettingsPass
    <3>2. QED BY <2>5, <2>8, <3>1 DEF SettingsAreDue
  <2>10. StartIsDue(ctx, next + 1) BY <2>1, <2>3, <2>5 DEF StartIsDue
  <2>11. PlaceIsDue(ctx, next + 1) BY <2>4 DEF PlaceIsDue
  <2>12. EndCommand(ctx, Unbound, TRUE) BY <1>3 DEF Succeeds
  <2>13. QED BY <1>1, <2>1, <2>4, <2>9, <2>10, <2>11, <2>12, EndIsDue
<1>4. QED BY <1>1, <1>2, <1>3

LEMMA SetTableSizeIsDue ==
  ASSUME Whole, SetTableSize
  PROVE  AllIsDue'
<1> DEFINE ctx == [Begun EXCEPT !.ordinalTable = << >>, !.threaded = TRUE]
<1>1. /\ phase = "run" /\ next <= Len(commands) /\ Succeeds(ctx)
      /\ commands[next].c.op = "THREADED_SET_TABLE_SIZE"
  BY DEF SetTableSize, Running, Command
<1>2. /\ next \in DOMAIN commands /\ commands \in CommandLists /\ next \in Nat \ {0}
      /\ Begun \in Contexts /\ Begun.command /\ SettingsAreDue(Begun, next)
  BY <1>1, BegunIsDue
<1>3. /\ commands[next].c.op \notin Enders /\ commands[next].c.op \notin Setters
      /\ commands[next].c.op \in ThreadedOps
  BY <1>1 DEF Enders, Binders, Setters, ThreadedOps
<1>4. ~ Plain(commands, next + 1) BY <1>2, <1>3, Nexts
<1>5. /\ SettingsOf(ctx) = SettingsOf(Begun) /\ ctx.ordinalTable = << >>
      /\ ctx.command = Begun.command /\ ctx.start = Begun.start
  BY <1>2 DEF Contexts, SettingsOf
<1> HIDE DEF ctx
<1>6. SettingsAreDue(ctx, next + 1)
  <2>1. SettingsAreDue(Begun, next + 1) BY <1>2, <1>3, SettingsPass
  <2>2. DOMAIN ctx.ordinalTable = {} BY <1>5
  <2>3. QED BY <1>5, <2>1, <2>2 DEF SettingsAreDue
<1>7. PlaceIsDue(ctx, next + 1) BY <1>4 DEF PlaceIsDue
<1>8. QED BY <1>1, <1>2, <1>3, <1>5, <1>6, <1>7, SucceedsIsDue

\* The counted loop.
LEMMA BeginTimesIsDue ==
  ASSUME Whole, BeginTimes
  PROVE  AllIsDue'
<1> DEFINE c == commands[next].c
<1>1. /\ phase = "run" /\ next <= Len(commands) /\ phase' = "times"
      /\ context' = Begun /\ turns' = c.n
      /\ UNCHANGED <<info, commands, next, actions, keepGoing, crashed>>
      /\ c.op = "DO_BIND_ULEB_TIMES_SKIPPING_ULEB"
  BY DEF BeginTimes, Running, Command
<1>2. /\ next \in DOMAIN commands /\ commands \in CommandLists
      /\ Begun.command /\ Begun.start = StartAt(commands, next)
      /\ SettingsAreDue(Begun, next) /\ PlaceIsDue(Begun, next)
      /\ ListIsDue(actions) /\ MadeBy(actions, next) = 0
  BY <1>1, BegunIsDue
<1>3. OriginAt(commands, next) \in Int /\ c.n \in Int /\ c.k + PointerSize \in Int
  BY <1>2, Nexts, CommandInList, BindAssumption
<1> HIDE DEF c
<1>4. TimesAreDue'
  <2>1. SUFFICES ASSUME Plain(commands, next)
                 PROVE  /\ ~ Begun.threaded /\ LocationIsDue(Begun, next, Begun.derivedOffset, 0)
                        /\ 0 + c.n = c.n
    BY <1>1, <1>2 DEF TimesAreDue, LocationIsDue, c
  <2>2. OriginAt(commands, next) + 0 * (c.k + PointerSize) = OriginAt(commands, next) BY <1>3
  <2>3. 0 + c.n = c.n BY <1>3
  <2>4. QED BY <1>2, <2>1, <2>2, <2>3 DEF PlaceIsDue, LocationIsDue, c
<1>5. QED BY <1>1, <1>2, <1>4, LoopsOn

LEMMA TimesTurnIsDue ==
  ASSUME Whole, TimesTurn
  PROVE  AllIsDue'
<1> DEFINE c == commands[next].c
           by == Wrap(c.k + PointerSize)
           moved == mk_vm_offset_add(context.derivedOffset, by)
           ctx == [context EXCEPT !.derivedOffset = moved.value]
           m == MadeBy(actions, next)
           x == OriginAt(commands, next) + m * (c.k + PointerSize)
<1>1. /\ phase = "times" /\ next <= Len(commands) /\ turns > 0 /\ Command = c
      /\ c.op = "DO_BIND_ULEB_TIMES_SKIPPING_ULEB"
      /\ ~ keepGoing => ~ Succeeded(MakeAction(context))
      /\ TimesAreDue /\ context.command /\ StartIsDue(context, next) /\ SettingsAreDue(context, next)
  BY DEF TimesTurn, Whole, IInv, Controlled, AllIsDue, Command
<1>2. /\ next \in DOMAIN commands /\ commands \in CommandLists /\ next \in Nat \ {0}
      /\ context \in Contexts /\ turns \in Nat /\ keepGoing \in BOOLEAN
  BY <1>1, CommandsAreTyped, BegunIsTyped, WordAssumption DEF Whole, IInv, TypeOK, Word
<1>3. /\ c.op \notin Setters /\ c.op \notin ThreadedOps
  BY <1>1 DEF Setters, ThreadedOps
<1>4. /\ OriginAt(commands, next) \in Int /\ c.k + PointerSize \in Int
      /\ Plain(commands, next + 1) <=> Plain(commands, next)
  BY <1>2, <1>3, Nexts, CommandInList, BindAssumption
<1>5. m \in Nat BY MadeByIsNat DEF Whole, IInv
<1>6. by \in Nat /\ Wrap(by) = Wrap(c.k + PointerSize)
  <2>1. by \in Word BY <1>4, WrapDivides
  <2>2. QED BY <2>1, WrapOfWord, WordAssumption DEF Word
<1>7. /\ ListIsDue(Bound(context).actions)
      /\ Bound(context).keepGoing => keepGoing /\ MadeBy(Bound(context).actions, next) = m + 1
      /\ Bound(context).keepGoing \in BOOLEAN
  <2>1. context.start = StartAt(commands, next) BY <1>1 DEF StartIsDue
  <2>2. BoundAsSet(context, next)
    BY <1>1 DEF BoundAsSet, SettingsAreDue
  <2>3. Succeeded(MakeAction(context)) /\ Plain(commands, next + 1) =>
          LocationIsDue(context, next, context.derivedOffset, MadeBy(actions, next))
    BY <1>1, <1>4 DEF TimesAreDue
  <2>4. QED BY <1>2, <2>1, <2>2, <2>3, BoundListIsDue
<1> HIDE DEF c, by, m
<1>8. CASE Succeeded(moved)
  <2>1. /\ context' = ctx /\ turns' = turns - 1
        /\ actions' = Bound(context).actions /\ keepGoing' = Bound(context).keepGoing
        /\ UNCHANGED <<info, commands, phase, next>>
    BY <1>1, <1>8 DEF TimesTurn, by
  <2>2. moved.value = context.derivedOffset + by /\ moved.value \in Word
    <3>1. context.derivedOffset \in Word BY <1>2 DEF Contexts
    <3>2. QED BY <1>6, <1>8, <3>1, AdditionStays
  <2> HIDE DEF moved
  <2>3. /\ SettingsOf(ctx) = SettingsOf(context) /\ ctx.ordinalTable = context.ordinalTable
        /\ ctx.command = context.command /\ ctx.start = context.start
        /\ ctx.threaded = context.threaded /\ ctx.segment = context.segment
        /\ ctx.derivedOffset = moved.value
    BY <1>2 DEF Contexts, SettingsOf
  <2> HIDE DEF ctx
  <2>4. SettingsAreDue(context', next) BY <1>1, <2>1, <2>3 DEF SettingsAreDue
  <2>5. context'.command /\ context'.start = StartAt(commands, next)
    BY <1>1, <2>1, <2>3 DEF StartIsDue
  <2>6. TimesAreDue'
    <3>1. SUFFICES ASSUME keepGoing', Plain(commands, next)
                   PROVE  /\ ~ ctx.threaded
                          /\ LocationIsDue(ctx, next, ctx.derivedOffset, m + 1)
                          /\ (m + 1) + (turns - 1) = c.n
      BY <1>7, <2>1 DEF TimesAreDue, LocationIsDue, c
    <3>2. keepGoing BY <1>7, <2>1, <3>1
    <3>3. /\ ~ context.threaded /\ context.segment = SegmentAt(commands, next)
          /\ context.derivedOffset = Wrap(x) /\ m + turns = c.n
      BY <1>1, <3>1, <3>2 DEF TimesAreDue, LocationIsDue, m, c
    <3>4. (m + 1) + (turns - 1) = c.n BY <1>2, <1>5, <3>3
    <3>5. moved.value = Wrap(OriginAt(commands, next) + (m + 1) * (c.k + PointerSize))
      <4> DEFINE t == c.k + PointerSize
      <4>1. x = OriginAt(commands, next) + m * t OBVIOUS
      <4>2. t \in Int BY <1>4
      <4> HIDE DEF t
      <4>3. x \in Int /\ x + t = OriginAt(commands, next) + (m + 1) * t
        <5>1. (m + 1) * t = m * t + t /\ m * t \in Int BY <1>5, <4>2
        <5>2. QED BY <1>4, <4>1, <4>2, <5>1
      <4>4. Wrap(by) = Wrap(t) BY <1>6 DEF t
      <4> HIDE DEF x
      <4>5. Wrap(x) + by = Wrap(x + t)
        BY <1>6, <2>2, <3>3, <4>2, <4>3, <4>4, WrapOfMove
      <4>6. QED BY <2>2, <3>3, <4>3, <4>5 DEF t
    <3>6. QED BY <2>3, <3>3, <3>4, <3>5 DEF LocationIsDue, c
  <2>7. QED BY <1>1, <1>7, <2>1, <2>4, <2>5, <2>6, LoopsOn
<1>9. CASE ~ Succeeded(moved)
  <2>1. EndCommand(context, Bound(context), FALSE) BY <1>1, <1>9 DEF TimesTurn, by
  <2>2. SettingsAreDue(context, next + 1) BY <1>1, <1>2, <1>3, SettingsPass DEF c
  <2>3. QED BY <1>1, <1>7, <2>1, <2>2, EndIsDue
<1>10. QED BY <1>8, <1>9

LEMMA EndTimesIsDue ==
  ASSUME Whole, EndTimes
  PROVE  AllIsDue'
<1> DEFINE c == commands[next].c
           ctx == [context EXCEPT !.command = FALSE]
           m == MadeBy(actions, next)
<1>1. /\ phase = "times" /\ next <= Len(commands) /\ turns = 0
      /\ EndCommand(ctx, Unbound, TRUE)
      /\ c.op = "DO_BIND_ULEB_TIMES_SKIPPING_ULEB"
      /\ TimesAreDue /\ SettingsAreDue(context, next)
  BY DEF EndTimes, Succeeds, Whole, IInv, Controlled, AllIsDue
<1>2. /\ next \in DOMAIN commands /\ commands \in CommandLists /\ next \in Nat \ {0}
      /\ context \in Contexts /\ ListIsDue(Unbound.actions)
  BY <1>1, CommandsAreTyped, BegunIsTyped, UnboundListIsDue DEF Whole, IInv, TypeOK
<1>3. /\ c.op \notin Setters /\ c.op \notin ThreadedOps /\ c.op \in Enders
      /\ c.op # "SET_SEGMENT_AND_OFFSET_ULEB" /\ Binds(c) = c.n
      /\ Travel(c) = c.n * (c.k + PointerSize)
  BY <1>1 DEF Setters, Binders, ThreadedOps, Enders, Binds, Travel
<1>4. /\ SegmentAt(commands, next + 1) = SegmentAt(commands, next)
      /\ OriginAt(commands, next + 1) = OriginAt(commands, next) + Travel(c)
      /\ LastIn(commands, next + 1, Enders) = next
      /\ Plain(commands, next + 1) => Plain(commands, next)
  BY <1>2, <1>3, Nexts
<1>5. m \in Nat BY MadeByIsNat DEF Whole, IInv
<1> HIDE DEF c, m
<1>6. /\ SettingsOf(ctx) = SettingsOf(context) /\ ctx.ordinalTable = context.ordinalTable
      /\ ~ ctx.command /\ ctx.threaded = context.threaded /\ ctx.segment = context.segment
      /\ ctx.derivedOffset = context.derivedOffset
  BY <1>2 DEF Contexts, SettingsOf
<1> HIDE DEF ctx
<1>7. SettingsAreDue(ctx, next + 1)
  <2>1. SettingsAreDue(ctx, next) BY <1>1, <1>6 DEF SettingsAreDue
  <2>2. QED BY <1>2, <1>3, <2>1, SettingsPass DEF c
<1>8. StartIsDue(ctx, next + 1) BY <1>2, <1>4, <1>6 DEF StartIsDue
<1>9. ASSUME keepGoing, Plain(commands, next + 1)
      PROVE  /\ m = c.n /\ ~ context.threaded /\ context.segment = SegmentAt(commands, next)
             /\ context.derivedOffset = Wrap(OriginAt(commands, next) + Travel(c))
  <2>1. /\ ~ context.threaded /\ context.segment = SegmentAt(commands, next)
        /\ context.derivedOffset = Wrap(OriginAt(commands, next) + m * (c.k + PointerSize))
        /\ m + turns = c.n
    BY <1>1, <1>4, <1>9 DEF TimesAreDue, LocationIsDue, m, c
  <2>2. m = c.n BY <1>1, <1>5, <2>1
  <2>3. QED BY <1>3, <2>1, <2>2
<1>10. keepGoing => PlaceIsDue(ctx, next + 1) BY <1>4, <1>6, <1>9 DEF PlaceIsDue
<1>11. keepGoing /\ Plain(commands, next + 1) => MadeBy(Unbound.actions, next) = Binds(c)
  BY <1>3, <1>9 DEF Unbound, m
<1>12. Unbound.keepGoing = keepGoing BY DEF Unbound
<1>13. QED BY <1>1, <1>2, <1>7, <1>8, <1>10, <1>11, <1>12, EndIsDue DEF c

\* The threaded chain.
LEMMA BeginApplyIsDue ==
  ASSUME Whole, BeginApply
  PROVE  AllIsDue'
<1>1. /\ phase = "run" /\ next <= Len(commands) /\ commands[next].c.op = "THREADED_APPLY"
      /\ \/ FailsWith(Begun)
         \/ /\ phase' = "apply" /\ context' = Begun
            /\ UNCHANGED <<info, commands, next, turns, actions, keepGoing, crashed>>
  BY DEF BeginApply, Running, Command
<1>2. /\ next \in Nat \ {0} /\ Begun.command /\ Begun.start = StartAt(commands, next)
      /\ SettingsAreDue(Begun, next) /\ ListIsDue(actions)
  BY <1>1, BegunIsDue
<1>3. CASE FailsWith(Begun)
  <2>1. commands[next].c.op \notin Setters BY <1>1 DEF Setters
  <2>2. SettingsAreDue(Begun, next + 1) BY <1>2, <2>1, SettingsPass
  <2>3. QED BY <1>1, <1>3, <2>2, FailsIsDue
<1>4. CASE /\ phase' = "apply" /\ context' = Begun
           /\ UNCHANGED <<info, commands, next, turns, actions, keepGoing, crashed>>
  BY <1>1, <1>2, <1>4, LoopsOn
<1>5. QED BY <1>1, <1>3, <1>4

\* In a chain the context is one for every link, and none of its binds is counted.
LEMMA ChainFacts ==
  ASSUME Whole, phase = "apply", NEW at, at = [context EXCEPT !.derivedOffset = context.segmentOffset]
  PROVE  /\ next \in DOMAIN commands /\ next <= Len(commands) /\ next \in Nat \ {0}
         /\ commands[next].c.op = "THREADED_APPLY"
         /\ at \in Contexts /\ at.command /\ at.start = StartAt(commands, next)
         /\ at.threaded = context.threaded /\ at.segmentOffset = context.segmentOffset
         /\ SettingsAreDue(at, next) /\ SettingsAreDue(at, next + 1)
         /\ StartIsDue(at, next + 1) /\ ~ Plain(commands, next + 1)
<1>1. /\ next <= Len(commands) /\ commands[next].c.op = "THREADED_APPLY"
      /\ SettingsAreDue(context, next) /\ StartIsDue(context, next) /\ context.command
  BY DEF Whole, IInv, Controlled, AllIsDue
<1>2. /\ next \in DOMAIN commands /\ commands \in CommandLists /\ next \in Nat \ {0}
      /\ context \in Contexts
  BY <1>1, CommandsAreTyped, BegunIsTyped DEF Whole, IInv, TypeOK
<1>3. /\ at \in Contexts
      /\ SettingsOf(at) = SettingsOf(context) /\ at.ordinalTable = context.ordinalTable
      /\ at.command = context.command /\ at.start = context.start
      /\ at.threaded = context.threaded /\ at.segmentOffset = context.segmentOffset
  BY <1>2 DEF Contexts, SettingsOf
<1>4. SettingsAreDue(at, next) BY <1>1, <1>3 DEF SettingsAreDue
<1>5. /\ commands[next].c.op \notin Setters /\ commands[next].c.op \notin Enders
      /\ commands[next].c.op \in ThreadedOps
  BY <1>1 DEF Setters, Enders, Binders, ThreadedOps
<1>6. SettingsAreDue(at, next + 1) BY <1>2, <1>4, <1>5, SettingsPass
<1>7. /\ LastIn(commands, next + 1, Enders) = LastIn(commands, next, Enders)
      /\ ~ Plain(commands, next + 1)
  BY <1>2, <1>5, Nexts
<1>8. at.start = StartAt(commands, next) /\ StartIsDue(at, next + 1)
  BY <1>1, <1>3, <1>7 DEF StartIsDue, StartAt
<1>9. QED BY <1>1, <1>2, <1>3, <1>4, <1>6, <1>7, <1>8

\* A link is bound with the settings in force, or with those of a bind in the ordinal table.
LEMMA BoundLinkIsDue ==
  ASSUME Whole, phase = "apply", NEW link \in Links,
         NEW at, at = [context EXCEPT !.derivedOffset = context.segmentOffset]
  PROVE  ListIsDue(BoundLink(at, link).actions)
<1> DEFINE refused == info.kind # "weak" /\ link.isBind /\ link.ordinal >= Len(at.ordinalTable)
           ctx == LinkContext(at, link)
<1>1. /\ next \in DOMAIN commands /\ commands[next].c.op = "THREADED_APPLY"
      /\ at \in Contexts /\ at.start = StartAt(commands, next)
      /\ SettingsAreDue(at, next) /\ ~ Plain(commands, next + 1)
  BY ChainFacts
<1>2. CASE refused
  <2>1. BoundLink(at, link).actions = actions BY <1>2 DEF BoundLink
  <2>2. QED BY <2>1, UnboundListIsDue
<1>3. CASE ~ refused
  <2>1. BoundLink(at, link) = Bound(ctx) BY <1>3 DEF BoundLink
  <2>2. /\ ctx \in Contexts
        /\ link.isBind /\ info.kind # "weak" => link.ordinal + 1 \in DOMAIN at.ordinalTable
    BY <1>1, <1>3, LinkContextIsTyped
  <2>3. ctx.start = at.start BY <1>1 DEF LinkContext, Contexts
  <2>4. BoundAsSet(ctx, next)
    <3>1. CASE info.kind = "weak"
      <4>1. Borrowed(ctx) = Borrowed(at)
        <5>1. ctx = [at EXCEPT !.type = IF link.isBind THEN BIND_TYPE_THREADED_BIND
                                                      ELSE BIND_TYPE_THREADED_REBASE]
          BY <3>1 DEF LinkContext
        <5>2. QED BY <1>1, <5>1 DEF Contexts, Borrowed
      <4>2. Borrowed(at) = Borrowed(SettingsIn(commands, info.kind, next))
        <5>1. SettingsOf(at) = SettingsIn(commands, info.kind, next)
          BY <1>1 DEF SettingsAreDue
        <5>2. Borrowed(at) = Borrowed(SettingsOf(at)) BY DEF Borrowed, SettingsOf
        <5>3. QED BY <5>1, <5>2
      <4>3. QED BY <1>1, <3>1, <4>1, <4>2 DEF BoundAsSet
    <3>2. CASE info.kind # "weak" /\ ~ link.isBind
      <4>1. ctx.type = BIND_TYPE_THREADED_REBASE BY <1>1, <3>2 DEF LinkContext, Contexts
      <4>2. QED BY <1>1, <3>2, <4>1 DEF BoundAsSet
    <3>3. CASE info.kind # "weak" /\ link.isBind
      <4> DEFINE entry == at.ordinalTable[link.ordinal + 1]
                 typed == [at EXCEPT !.type = BIND_TYPE_THREADED_BIND]
      <4>1. ctx = [typed EXCEPT !.libraryOrdinal = entry.libraryOrdinal, !.addend = entry.addend,
                                !.symbolName = entry.symbolName]
        BY <3>3 DEF LinkContext
      <4>2. PutInTable(entry, next) BY <1>1, <2>2, <3>3 DEF SettingsAreDue
      <4> HIDE DEF entry, ctx
      <4>3. Borrowed(ctx) = Borrowed(entry) BY <1>1, <4>1 DEF Contexts, Borrowed
      <4>4. PutInTable(ctx, next) BY <4>2, <4>3 DEF PutInTable
      <4>5. QED BY <1>1, <3>3, <4>4 DEF BoundAsSet
    <3>4. QED BY <3>1, <3>2, <3>3
  <2> HIDE DEF ctx
  <2>5. ListIsDue(Bound(ctx).actions) BY <1>1, <2>2, <2>3, <2>4, BoundListIsDue
  <2>6. QED BY <2>1, <2>5
<1>4. QED BY <1>2, <1>3

LEMMA ApplyTurnIsDue ==
  ASSUME Whole, NEW link \in Links, ApplyTurn(link)
  PROVE  AllIsDue'
<1> DEFINE at == [context EXCEPT !.derivedOffset = context.segmentOffset]
           moved == mk_vm_offset_add(at.segmentOffset, link.delta * PointerSize)
           on == [at EXCEPT !.segmentOffset = moved.value]
           result == BoundLink(at, link)
<1>1. phase = "apply" BY DEF ApplyTurn
<1>2. /\ next <= Len(commands) /\ commands[next].c.op = "THREADED_APPLY"
      /\ at \in Contexts /\ at.command /\ at.start = StartAt(commands, next)
      /\ SettingsAreDue(at, next) /\ SettingsAreDue(at, next + 1)
      /\ StartIsDue(at, next + 1) /\ ~ Plain(commands, next + 1)
  BY <1>1, ChainFacts
<1>3. ListIsDue(result.actions) BY <1>1, BoundLinkIsDue
<1>4. \/ FailsWith(at)
      \/ TableCrashes
      \/ EndCommand(at, result, FALSE)
      \/ EndCommand(at, result, TRUE)
      \/ context' = on /\ actions' = result.actions /\ UNCHANGED <<info, commands, phase, next>>
  BY DEF ApplyTurn
<1>5. /\ SettingsOf(on) = SettingsOf(at) /\ on.ordinalTable = at.ordinalTable
      /\ on.command = at.command /\ on.start = at.start
  <2> HIDE DEF at, moved
  <2>1. QED BY <1>2 DEF Contexts, SettingsOf
<1>6. PlaceIsDue(at, next + 1) BY <1>2 DEF PlaceIsDue
<1> HIDE DEF at, on, result
<1>7. CASE FailsWith(at) BY <1>1, <1>2, <1>7, FailsIsDue
<1>8. CASE TableCrashes BY <1>8, StaysDue DEF Whole, TableCrashes
<1>9. ASSUME NEW success \in BOOLEAN, EndCommand(at, result, success) PROVE AllIsDue'
  BY <1>1, <1>2, <1>3, <1>6, <1>9, EndIsDue
<1>10. CASE context' = on /\ actions' = result.actions /\ UNCHANGED <<info, commands, phase, next>>
  <2>1. SettingsAreDue(context', next) BY <1>2, <1>5, <1>10 DEF SettingsAreDue
  <2>2. context'.command /\ context'.start = StartAt(commands, next) BY <1>2, <1>5, <1>10
  <2>3. QED BY <1>1, <1>2, <1>3, <1>10, <2>1, <2>2, LoopsOn
<1>11. QED BY <1>4, <1>7, <1>8, <1>9, <1>10

LEMMA LinkUnreadableIsDue ==
  ASSUME Whole, LinkUnreadable
  PROVE  AllIsDue'
<1> DEFINE at == [context EXCEPT !.derivedOffset = context.segmentOffset]
<1>1. phase = "apply" /\ FailsWith(at) BY DEF LinkUnreadable
<1>2. next <= Len(commands) /\ SettingsAreDue(at, next + 1) BY <1>1, ChainFacts
<1> HIDE DEF at
<1>3. QED BY <1>1, <1>2, FailsIsDue

\* There were no commands.
LEMMA NothingIsDue ==
  ASSUME Whole, NothingToRun
  PROVE  AllIsDue'
<1>1. /\ phase = "run" /\ phase' = "done" /\ actions' = actions /\ context' = context
      /\ info' = info /\ commands' = commands /\ next' = next /\ keepGoing' = keepGoing
  BY DEF NothingToRun
<1>2. commands \in CommandLists /\ next \in Nat BY CommandsAreTyped DEF Whole, IInv, TypeOK
<1>3. next <= next BY <1>2
<1>4. \A a \in DOMAIN actions' : ActionIsDue(actions, a)' /\ actions'[a].by # next'
  <2>1. \A a \in DOMAIN actions' : actions'[a].by # next' BY <1>1 DEF Whole, AllIsDue
  <2>2. QED BY <1>1, <1>2, <1>3, <2>1, UnboundListIsDue, ListStaysDue
<1>5. CommandsAreDone' BY <1>1 DEF Whole, AllIsDue, CommandsAreDone
<1>6. SettingsAreDue(context, next)'
  BY <1>1 DEF Whole, AllIsDue, SettingsAreDue, PutInTable
<1>7. QED BY <1>1, <1>4, <1>5, <1>6 DEF AllIsDue

LEMMA StepIsDue == Whole /\ [Next]_vars => Whole'
<1>1. SUFFICES ASSUME Whole, [Next]_vars PROVE AllIsDue'
  BY StepHolds DEF Whole
<1>2. CASE UNCHANGED vars BY <1>1, <1>2, StaysDue DEF vars, Whole
<1>3. CASE ParseCommand
  <2>1. phase = "parse" /\ phase' \in {"parse", "run"} /\ UNCHANGED <<info, next, context, actions>>
    BY <1>3 DEF ParseCommand
  <2>2. QED BY <1>1, <2>1, ParseIsDue
<1>4. CASE ParseEnds BY <1>1, <1>4, ParseIsDue DEF ParseEnds
<1>5. CASE UnknownOpcode BY <1>1, <1>5, StaysDue DEF UnknownOpcode, Whole
<1>6. CASE Run
  BY <1>1, <1>6, NothingIsDue, DoneIsDue, MovesAreDue, SettersAreDue, BindersAreDue,
     DoBindThreadedIsDue, NotInLazyIsDue, BeginTimesIsDue, TimesTurnIsDue, EndTimesIsDue,
     SetTableSizeIsDue, BeginApplyIsDue, ApplyTurnIsDue, LinkUnreadableIsDue
  DEF Run
<1>7. QED BY <1>1, <1>2, <1>3, <1>4, <1>5, <1>6 DEF Next

\* In the words of the properties.
LEMMA DueIsDue == Whole => SettingsStick /\ ActionsAreDue
<1>1. SUFFICES ASSUME Whole PROVE SettingsStick /\ ActionsAreDue OBVIOUS
<1>2. \A a \in DOMAIN actions : ActionIsDue(actions, a) BY <1>1 DEF Whole, AllIsDue
<1>3. \A i, ops : LastBefore(i, ops) = LastIn(commands, i, ops) BY DEF LastBefore, LastIn
<1>5. \A i : SettingsAt(i) = SettingsIn(commands, info.kind, i)
  BY <1>3 DEF SettingsAt, SettingsIn, Latest, LatestIn
<1>6. SettingsStick
  <2>1. SettingsOf(context) = SettingsAt(next)
    BY <1>1, <1>5 DEF Whole, AllIsDue, SettingsAreDue
  <2>2. ASSUME NEW r, NEW i, Borrowed(r) = Borrowed(SettingsIn(commands, info.kind, i))
        PROVE  Untyped(r) = Untyped(SettingsAt(i))
    <3>1. \A s : Untyped(s) = [type |-> 0, libraryOrdinal |-> Borrowed(s).libraryOrdinal,
                               addend |-> Borrowed(s).addend, symbolName |-> Borrowed(s).symbolName]
      BY DEF Untyped, SettingsOf, Borrowed
    <3>2. QED BY <1>5, <2>2, <3>1
  <2>3. ASSUME NEW a \in DOMAIN actions
        PROVE  LET by == actions[a].by
               IN  IF commands[by].c.op # "THREADED_APPLY"
                   THEN SettingsOf(actions[a]) = SettingsAt(by)
                   ELSE IF info.kind = "weak" THEN Untyped(actions[a]) = Untyped(SettingsAt(by))
                   ELSE \/ actions[a].type = BIND_TYPE_THREADED_REBASE
                        \/ \E j \in 1 .. (by - 1) :
                             /\ commands[j].c.op = "DO_BIND"
                             /\ Untyped(actions[a]) = Untyped(SettingsAt(j))
    BY <1>2, <1>5, <2>2 DEF ActionIsDue, BoundAsSet, PutInTable
  <2>4. QED BY <2>1, <2>3 DEF SettingsStick
<1>7. OffsetsAddUp
  <2>1. SUFFICES ASSUME NEW a \in DOMAIN actions, Plain(commands, actions[a].by + 1)
                 PROVE  LET by == actions[a].by
                            base == PlacedIn(commands, by)
                            moved == SumFunctionOnSet(Travels, (base + 1) .. (by - 1))
                        IN  /\ base > 0 /\ actions[a].segment = commands[base].c.k + 1
                            /\ actions[a].offset =
                                 Wrap(commands[base].c.n + moved
                                        + TurnOf(actions, a) * (commands[by].c.k + PointerSize))
    BY <1>3 DEF OffsetsAddUp, Plain, PlacedIn, TurnOf
  <2> DEFINE by == actions[a].by
             base == PlacedIn(commands, by)
  <2>2. /\ LocationIsDue(actions[a], by, actions[a].offset, TurnOf(actions, a))
        /\ by \in DOMAIN commands
    BY <1>2, <2>1 DEF ActionIsDue
  <2>3. by \in Nat \ {0}
    BY <1>1, <2>2, CommandsAreTyped, CommandInList DEF Whole, IInv
  <2>4. actions[a].segment \in DOMAIN Segments
    <3>1. actions \in Seq(Actions) BY <1>1 DEF Whole, IInv, TypeOK
    <3>2. actions[a] \in Actions BY <3>1, ElementOfSeq, LenProperties
    <3>3. QED BY <3>2 DEF Actions
  <2>5. actions[a].segment # NoSegment
    BY <2>4, BindAssumption, LenProperties DEF NoSegment
  <2>6. base # 0 /\ base \in 0 .. (by - 1) /\ actions[a].segment = commands[base].c.k + 1
    BY <2>2, <2>3, <2>5, LastInIs DEF LocationIsDue, SegmentAt, PlacedIn
  <2>7. OriginAt(commands, by) =
          commands[base].c.n + SumFunctionOnSet(Travels, (base + 1) .. (by - 1))
    BY <2>6 DEF OriginAt, Travels
  <2>8. base > 0 BY <2>3, <2>6
  <2>9. QED BY <2>2, <2>6, <2>7, <2>8 DEF LocationIsDue
<1>8. ActionsComplete
  BY <1>1, <1>3 DEF ActionsComplete, Whole, AllIsDue, CommandsAreDone, MadeBy, Plain
<1>9. QED BY <1>6, <1>7, <1>8 DEF ActionsAreDue

LEMMA WholeHolds == Spec => []Whole
<1>1. Init => Whole BY InitHolds, InitIsDue DEF Whole
<1>2. QED BY <1>1, StepIsDue, PTL DEF Spec

----------------------------------------------------------------------------
(* The theorems.                                                           *)

LEMMA InvariantHolds == Spec => []IInv
<1>1. IInv /\ [Next]_vars => IInv' BY StepHolds
<1>2. QED BY <1>1, InitHolds, PTL DEF Spec

\* Only the parser touches the commands, and it adds each behind the one before it.
LEMMA CommandsGrow == [Next]_vars => ParseCommand \/ commands' = commands
<1> USE DEF EndCommand, Succeeds, FailsWith, Advance, TableCrashes
<1>1. Run => commands' = commands
  <2>1. NothingToRun \/ Done \/ SetSegmentAndOffset \/ AddAddress => commands' = commands
    BY DEF NothingToRun, Done, SetSegmentAndOffset, AddAddress
  <2>2. SetDylibOrdinal \/ SetSymbol \/ SetType \/ SetAddend => commands' = commands
    BY DEF SetDylibOrdinal, SetSymbol, SetType, SetAddend
  <2>3. DoBind \/ DoBindThreaded \/ NotInLazy \/ DoBindAddAddress \/ DoBindAddAddressScaled
          => commands' = commands
    BY DEF DoBind, DoBindThreaded, NotInLazy, DoBindAddAddress, DoBindAddAddressScaled
  <2>4. BeginTimes \/ TimesTurn \/ EndTimes \/ SetTableSize \/ BeginApply => commands' = commands
    BY DEF BeginTimes, TimesTurn, EndTimes, SetTableSize, BeginApply
  <2>5. ASSUME NEW link \in Links, ApplyTurn(link) PROVE commands' = commands
    BY <2>5 DEF ApplyTurn
  <2>6. LinkUnreadable => commands' = commands BY DEF LinkUnreadable
  <2>7. QED BY <2>1, <2>2, <2>3, <2>4, <2>5, <2>6 DEF Run
<1>2. ParseEnds \/ UnknownOpcode \/ UNCHANGED vars => commands' = commands
  BY DEF ParseEnds, UnknownOpcode, vars
<1>3. QED BY <1>1, <1>2 DEF Next

LEMMA InOrderHolds == Spec => []InOrder(commands)
<1>1. Init => InOrder(commands) BY DEF Init, InOrder
<1>2. IInv /\ InOrder(commands) /\ [Next]_vars => InOrder(commands)'
  <2>1. SUFFICES ASSUME IInv, InOrder(commands), ParseCommand PROVE InOrder(commands')
    BY CommandsGrow DEF InOrder
  <2> DEFINE T == [c : info.commands, at : Nat]
  <2>2. commands \in Seq(T) BY <2>1 DEF IInv, TypeOK
  <2>3. PICK c \in info.commands : commands' = Append(commands, [c |-> c, at |-> ParseOffset])
    BY <2>1 DEF ParseCommand
  <2> DEFINE x == [c |-> c, at |-> ParseOffset]
  <2>4. /\ ParseOffset \in Nat
        /\ commands # << >> => commands[Len(commands)].at < ParseOffset
    <3>1. CASE commands = << >> BY <3>1 DEF ParseOffset
    <3>2. CASE commands # << >>
      <4>1. Len(commands) \in DOMAIN commands BY <2>2, <3>2, EmptySeq, LenProperties
      <4>2. /\ commands[Len(commands)].c.size \in Nat \ {0}
            /\ commands[Len(commands)].at \in Nat
        <5>1. commands[Len(commands)] \in T BY <2>2, <4>1, ElementOfSeq, LenProperties
        <5>2. info.commands \subseteq CommandRecord
          BY <2>1, BindAssumption DEF IInv, TypeOK, CommandRecord
        <5>3. QED BY <5>1, <5>2 DEF CommandRecord
      <4>3. QED BY <3>2, <4>2 DEF ParseOffset
    <3>3. QED BY <3>1, <3>2
  <2>5. x \in T /\ x.at = ParseOffset BY <2>4
  <2>6. \A t \in T : t.at \in Nat OBVIOUS
  <2> HIDE DEF T, x
  <2>7. InOrder(Append(commands, x)) BY <2>1, <2>2, <2>4, <2>5, <2>6, OneMoreInOrder
  <2>8. QED BY <2>3, <2>7 DEF x
<1>3. QED BY <1>1, <1>2, InvariantHolds, PTL DEF Spec

\* The machine's state has its type in every reachable state: the bind location never leaves the
\* address space, whatever is added to it or found in a chain, and the segment in the context is one
\* of the image's (the run over the commands in the three -initWithParent:error:).
THEOREM TypeCorrect == Spec => []TypeOK
<1>1. IInv => TypeOK BY DEF IInv
<1>2. QED BY <1>1, InvariantHolds, PTL

\* No info, whatever its commands and whatever memory holds at the links of a chain, makes an action
\* outside of its segment or of the address space (-[MKBindAction initWithContext:error:]).
THEOREM ActionsStayInside == Spec => []ActionsInSegment
<1>1. IInv => ActionsInSegment BY DEF IInv
<1>2. QED BY <1>1, InvariantHolds, PTL

\* After a failure no other command is begun, it is never forgotten, and a counted loop that goes on
\* adds no action: a place behind one that was refused is refused as well.
THEOREM FailureStops == Spec => StopsAtFailure
<1>1. IInv /\ [Next]_vars => [Stops]_vars BY StepHolds
<1>2. [Stops]_vars => [~ keepGoing => /\ ~ keepGoing' /\ phase' # "run" /\ next' <= next + 1
                                      /\ phase = "times" => actions' = actions]_vars
  BY DEF Stops
<1>3. QED BY <1>1, <1>2, InvariantHolds, PTL DEF Spec, StopsAtFailure

\* Whatever an info holds, the node of an action begins at the first command after the last that took
\* the context's command away, and so behind every binder before its own: the nodes of two binders'
\* actions begin apart.  MKBindThreadedApply is not among those, and where a chain's nodes begin the
\* next bind's begins again (MKBindContext's `actionStartOffset' through the run of the commands).
THEOREM ActionsStartApart == Spec => []ActionStarts
<1>1. Whole /\ InOrder(commands) => ActionStarts
  <2>1. SUFFICES ASSUME Whole, InOrder(commands), NEW a \in DOMAIN actions
                 PROVE  LET by == actions[a].by
                        IN  /\ actions[a].start = commands[LastIn(commands, by, Enders) + 1].at
                            /\ \A i \in 1 .. (by - 1) :
                                 commands[i].c.op \in Binders => commands[i].at < actions[a].start
    BY DEF ActionStarts, LastBefore, LastIn, Enders
  <2> DEFINE by == actions[a].by
  <2>2. /\ actions[a].start = commands[LastIn(commands, by, Enders) + 1].at
        /\ by \in DOMAIN commands
    BY <2>1 DEF Whole, AllIsDue, ActionIsDue, StartAt
  <2>3. by \in Nat \ {0} /\ 1 .. by \subseteq DOMAIN commands
    <3>1. commands \in CommandLists BY <2>1, CommandsAreTyped DEF Whole, IInv
    <3>2. DOMAIN commands = 1 .. Len(commands) /\ Len(commands) \in Nat
      BY <2>2, <3>1, CommandInList
    <3>3. QED BY <2>2, <3>2
  <2> HIDE DEF by
  <2>4. ASSUME NEW i \in 1 .. (by - 1), commands[i].c.op \in Binders
        PROVE  commands[i].at < actions[a].start
    BY <2>1, <2>2, <2>3, <2>4, AfterTheLast DEF Enders
  <2>5. QED BY <2>2, <2>4 DEF by
<1>2. QED BY <1>1, WholeHolds, InOrderHolds, PTL

\* A setting holds until it is set again, through binds and through chains whose links have settings
\* of their own; what a link binds with is what was in force at a bind command that went into the
\* ordinal table (the set commands, -[MKBindDoBind bind:error:], and MKBindThreadedApply).
THEOREM SettingsHold == Spec => []SettingsStick
<1>1. Whole => SettingsStick BY DueIsDue
<1>2. QED BY <1>1, WholeHolds, PTL

\* Without threaded binds the actions are the ones the commands call for, each at the place to which
\* the commands before it have moved the location, counted turn by turn, however long the info is
\* and however its unsigned operands wrap; every command before a failure has made all of its own.
THEOREM ActionsFallDue == Spec => []ActionsAreDue
<1>1. Whole => ActionsAreDue BY DueIsDue
<1>2. QED BY <1>1, WholeHolds, PTL
=============================================================================
