--------------------------- MODULE KitImageProofs ---------------------------
(***************************************************************************)
(* The choice of classes by MachOKit, whatever images hold, however many   *)
(* threads open them and whatever classes the program loads meanwhile.     *)
(***************************************************************************)
EXTENDS KitImage, CoreProofs

----------------------------------------------------------------------------
(* Ranking.                                                                *)

LEMMA RanksAreWords ==
  ASSUME NEW class, NEW cmd \in Word
  PROVE  RankOf(class, cmd) \in Word
<1>1. 0 \in Word BY WordAssumption DEF Word
<1>2. QED BY <1>1, KitAssumption DEF RankOf

\* Ranks are bounded, so one of a set of classes has the greatest.
LEMMA BestExists ==
  ASSUME NEW set, set # {}, NEW cmd \in Word
  PROVE  \E class \in set : \A other \in set : RankOf(other, cmd) <= RankOf(class, cmd)
<1> DEFINE Gap(class) == MaxWord - RankOf(class, cmd)
           Gaps == {Gap(class) : class \in set}
<1>1. \A class \in set : Gap(class) \in Nat BY RanksAreWords, WordAssumption DEF Word
<1>2. Gaps \in SUBSET Nat /\ Gaps # {} BY <1>1
<1>3. PICK gap \in Gaps : \A other \in Gaps : gap <= other
  <2> HIDE DEF Gaps
  <2>1. QED BY <1>2, LeastNatural
<1>4. PICK class \in set : gap = Gap(class) BY <1>3
<1>5. \A other \in set : Gap(class) <= Gap(other) BY <1>3, <1>4
<1>6. \A other \in set : RankOf(other, cmd) <= RankOf(class, cmd)
  BY <1>5, RanksAreWords, WordAssumption DEF Word
<1>7. QED BY <1>6

LEMMA BestType ==
  ASSUME NEW set, set # {}, NEW cmd \in Word
  PROVE  bestSubclassWithRanking(set, cmd) \in set \union {MKLoadCommand}
<1> DEFINE best == CHOOSE class \in set : \A other \in set : RankOf(other, cmd) <= RankOf(class, cmd)
<1>1. best \in set
  <2>1. \E class \in set : \A other \in set : RankOf(other, cmd) <= RankOf(class, cmd) BY BestExists
  <2>2. QED BY <2>1, Zenon
<1>2. QED BY <1>1, Zenon DEF bestSubclassWithRanking
----------------------------------------------------------------------------
(* Types.                                                                  *)

\* A thread that has listed the classes has found MKLoadCommand among them.
TypeInv ==
  /\ TypeOK
  /\ Linked \subseteq loaded
  /\ \A t \in Threads : pc[t] = "store" => listed[t] # {}

LEMMA ReadType ==
  ASSUME target \in Seq(Word), NEW offset \in Nat, NEW n \in Nat, Has(offset, n + 1)
  PROVE  At(offset + n) \in Word
BY DEF Has, At

LEMMA FoundType ==
  ASSUME TypeOK, NEW t \in Threads, NEW class \in AnyClass, Found(t, class)
  PROVE  /\ pc' \in [Threads -> Places]
         /\ \A u \in Threads : pc'[u] = "store" => u # t /\ pc[u] = "store"
         /\ image' \in [Threads -> Image]
<1>1. CASE stage[t] = "choose"
  <2>1. /\ pc' = [pc EXCEPT ![t] = "init"]
        /\ image' = [image EXCEPT ![t] = [image[t] EXCEPT !.class = class]]
    BY <1>1 DEF Found
  <2>2. [image[t] EXCEPT !.class = class] \in Image
    <3>1. image[t] \in Image BY DEF TypeOK
    <3>2. QED BY <3>1 DEF Image
  <2> HIDE DEF Image
  <2>3. QED BY <2>1, <2>2 DEF TypeOK, Places
<1>2. CASE stage[t] # "choose" BY <1>2 DEF Found, TypeOK, Places
<1>3. QED BY <1>1, <1>2

LEMMA RankedType ==
  ASSUME TypeOK, NEW t \in Threads, NEW set \in SUBSET AnyClass, set # {}, Ranked(t, set)
  PROVE  /\ pc' \in [Threads -> Places]
         /\ \A u \in Threads : pc'[u] = "store" => u # t /\ pc[u] = "store"
         /\ image' \in [Threads -> Image]
<1> DEFINE best == bestSubclassWithRanking(set, id[t])
<1>1. best \in AnyClass
  <2>1. id[t] \in Word BY DEF TypeOK
  <2>2. best \in set \union {MKLoadCommand} BY <2>1, BestType
  <2>3. QED BY <2>2, KitAssumption DEF AnyClass, Classes
<1>2. CASE best # MKLoadCommand
  <2>1. Found(t, best) BY <1>2 DEF Ranked
  <2> HIDE DEF best
  <2>2. QED BY <1>1, <2>1, FoundType
<1>3. CASE best = MKLoadCommand
  <2>1. pc' = [pc EXCEPT ![t] = "unknown"] /\ image' = image BY <1>3 DEF Ranked
  <2>2. QED BY <2>1 DEF TypeOK, Places
<1>4. QED BY <1>2, <1>3

\* A step of a lookup disturbs the places, the locals and the shared classes.
LEMMA LookupType ==
  ASSUME TypeInv, NEW t \in Threads, Lookup(t)
  PROVE  TypeInv'
<1>1. CASE UseCache(t)
  <2>1. cache \in SUBSET AnyClass /\ cache # {} /\ Ranked(t, cache) BY <1>1 DEF UseCache, TypeInv, TypeOK
  <2>2. QED BY <1>1, <2>1, RankedType DEF UseCache, TypeInv, TypeOK, world, shared, locals
<1>2. CASE MissCache(t) BY <1>2 DEF MissCache, TypeInv, TypeOK, Places, world, locals
<1>3. CASE CopyClassList(t)
  <2>1. MKLoadCommand \in subclasses BY KitAssumption DEF TypeInv, subclasses, Classes
  <2>2. subclasses \in SUBSET AnyClass BY DEF TypeInv, TypeOK, subclasses, AnyClass
  <2> HIDE DEF subclasses
  <2>3. QED BY <1>3, <2>1, <2>2 DEF CopyClassList, TypeInv, TypeOK, Places, world, shared
<1>4. CASE FillCache(t)
  <2>1. listed[t] \in SUBSET AnyClass /\ listed[t] # {} /\ Ranked(t, listed[t])
    BY <1>4 DEF FillCache, TypeInv, TypeOK
  <2>2. QED BY <1>4, <2>1, RankedType DEF FillCache, TypeInv, TypeOK, world, locals
<1>5. CASE UseRuntimeClass(t)
  <2>1. runtimeLCDict[id[t]] \in AnyClass /\ Found(t, runtimeLCDict[id[t]])
    BY <1>5 DEF UseRuntimeClass, TypeInv, TypeOK, AnyClass
  <2>2. QED BY <1>5, <2>1, FoundType DEF UseRuntimeClass, TypeInv, TypeOK, world, shared, locals
<1>6. CASE MissRuntimeClass(t) BY <1>6 DEF MissRuntimeClass, TypeInv, TypeOK, Places, world, locals
<1>7. CASE AllocateClass(t) BY <1>7 DEF AllocateClass, TypeInv, TypeOK, Places, world, locals
<1>8. CASE RegisterClass(t)
  <2> DEFINE class == [id |-> id[t], by |-> t]
  <2>1. class \in RuntimeClass /\ class \in AnyClass BY DEF TypeInv, TypeOK, RuntimeClass, AnyClass
  <2>2. Found(t, class) BY <1>8 DEF RegisterClass
  <2>3. registered' = registered \union {class}
        /\ runtimeLCDict' = [c \in DOMAIN runtimeLCDict \union {id[t]} |->
                               IF c = id[t] THEN class ELSE runtimeLCDict[c]]
    BY <1>8 DEF RegisterClass
  <2> HIDE DEF class
  <2>4. /\ registered' \subseteq RuntimeClass
        /\ \A cmd \in DOMAIN runtimeLCDict' : runtimeLCDict'[cmd] \in registered'
    BY <2>1, <2>3 DEF TypeInv, TypeOK
  <2>5. QED BY <1>8, <2>1, <2>2, <2>4, FoundType DEF RegisterClass, TypeInv, TypeOK, world, locals
<1>9. QED BY <1>1, <1>2, <1>3, <1>4, <1>5, <1>6, <1>7, <1>8 DEF Lookup
LEMMA UnreadableType ==
  ASSUME TypeInv, NEW t \in Threads, Unreadable(t)
  PROVE  /\ pc' \in [Threads -> Places] /\ image' \in [Threads -> Image]
         /\ \A u \in Threads : pc'[u] = "store" => pc[u] = "store"
<1>1. /\ pc' = [pc EXCEPT ![t] = "slide"]
      /\ image' = [image EXCEPT ![t] = [image[t] EXCEPT !.warned = TRUE]]
  BY DEF Unreadable
<1>2. image[t] \in Image BY DEF TypeInv, TypeOK
<1>3. [image[t] EXCEPT !.warned = TRUE] \in Image BY <1>2 DEF Image
<1> HIDE DEF Image
<1>4. QED BY <1>1, <1>3 DEF TypeInv, TypeOK, Places

\* A step outside a lookup disturbs the place and the image of its thread.
LEMMA MoveType ==
  ASSUME TypeInv, NEW t \in Threads, NEW place \in Places \ {"store"}, NEW new \in Image,
         pc' = [pc EXCEPT ![t] = place], image' = [image EXCEPT ![t] = new],
         UNCHANGED <<world, shared, listed>>, stage' \in [Threads -> {"choose", "check"}],
         id' \in [Threads -> Word]
  PROVE  TypeInv'
BY DEF TypeInv, TypeOK, world, shared

LEMMA OpenType ==
  ASSUME TypeInv, NEW t \in Threads, OpenImage(t) \/ ReadHeader(t)
  PROVE  TypeInv'
<1>0. image[t] \in Image BY DEF TypeInv, TypeOK
<1>1. CASE OpenImage(t)
  <2>1. CASE Has(0, 1) /\ At(0) \in {MH_MAGIC, MH_MAGIC_64}
    <3>1. At(0) \in Word BY <2>1, ReadType DEF TypeInv, TypeOK
    <3>2. [image[t] EXCEPT !.magic = At(0)] \in Image BY <1>0, <3>1 DEF Image
    <3>3. /\ pc' = [pc EXCEPT ![t] = "header"]
          /\ image' = [image EXCEPT ![t] = [image[t] EXCEPT !.magic = At(0)]]
      BY <1>1, <2>1 DEF OpenImage
    <3>4. QED BY <1>1, <3>2, <3>3, MoveType DEF OpenImage, locals, TypeInv, TypeOK, Places
  <2>2. CASE ~(Has(0, 1) /\ At(0) \in {MH_MAGIC, MH_MAGIC_64})
    BY <1>1, <2>2 DEF OpenImage, Fail, TypeInv, TypeOK, Places, world, shared, locals
  <2>3. QED BY <2>1, <2>2
<1>2. CASE ReadHeader(t)
  <2> DEFINE size == SizeOfHeader(image[t].magic)
  <2>1. CASE Has(0, size) /\ At(2) \in SupportedTypes
    <3>1. size \in {5, 6} BY DEF SizeOfHeader
    <3>2. At(3) \in Word /\ At(4) \in Word
      <4>1. Has(0, 4) /\ Has(0, 5) BY <2>1, <3>1 DEF Has, TypeInv, TypeOK
      <4>2. QED BY <4>1 DEF At, Has, TypeInv, TypeOK
    <3> DEFINE pointerSize == IF At(1) \in CPU_TYPES_64 \/ image[t].magic = MH_MAGIC_64 THEN 8 ELSE 4
               new == [image[t] EXCEPT !.pointerSize = pointerSize, !.ncmds = At(3), !.left = At(3),
                                       !.end = size + At(4), !.offset = size]
    <3>3. pc' = [pc EXCEPT ![t] = "next"] /\ image' = [image EXCEPT ![t] = new]
      BY <1>2, <2>1, Zenon DEF ReadHeader, TypeInv, TypeOK
    <3>4. new \in Image
      <4>1. At(3) \in Nat /\ size + At(4) \in Nat /\ size \in Nat BY <3>1, <3>2 DEF Word
      <4>2. pointerSize \in {0, 4, 8} OBVIOUS
      <4> HIDE DEF pointerSize, size
      <4>3. QED BY <1>0, <4>1, <4>2 DEF Image
    <3> HIDE DEF new, Image
    <3>5. QED BY <1>2, <3>3, <3>4, MoveType DEF ReadHeader, locals, TypeInv, TypeOK, Places
  <2>2. CASE ~(Has(0, size) /\ At(2) \in SupportedTypes)
    BY <1>2, <2>2 DEF ReadHeader, Fail, TypeInv, TypeOK, Places, world, shared, locals
  <2>3. QED BY <2>1, <2>2
<1>3. QED BY <1>1, <1>2
LEMMA ReadsType ==
  ASSUME TypeInv, NEW t \in Threads, NextCommand(t) \/ InitCommand(t)
  PROVE  TypeInv'
<1>0. /\ image[t] \in Image /\ image[t].offset \in Nat
      /\ target \in Seq(Word) /\ id \in [Threads -> Word] /\ stage \in [Threads -> {"choose", "check"}]
  BY DEF TypeInv, TypeOK, Image
<1> DEFINE offset == image[t].offset
<1>1. ASSUME Unreadable(t), UNCHANGED <<stage, id>>, UNCHANGED <<world, shared, listed>>
      PROVE  TypeInv'
  BY <1>1, UnreadableType DEF TypeInv, TypeOK, world, shared
<1>2. CASE NextCommand(t)
  <2>1. CASE Has(offset, 1)
    <3>1. At(offset) \in Word BY <1>0, <2>1 DEF Has, At
    <3> DEFINE new == [image[t] EXCEPT !.left = @ - 1, !.read = At(offset)]
    <3>2. /\ pc' = [pc EXCEPT ![t] = "lookup"] /\ image' = [image EXCEPT ![t] = new]
          /\ stage' = [stage EXCEPT ![t] = "choose"] /\ id' = [id EXCEPT ![t] = At(offset)]
      BY <1>0, <1>2, <2>1 DEF NextCommand
    <3>3. new \in Image
      <4>1. image[t].left - 1 \in Nat BY <1>0, <1>2 DEF NextCommand, Image
      <4> HIDE DEF offset
      <4>2. QED BY <1>0, <3>1, <4>1 DEF Image
    <3> HIDE DEF new, offset, Image
    <3>4. QED BY <1>0, <1>2, <3>1, <3>2, <3>3, MoveType DEF NextCommand, Places
  <2>2. CASE ~Has(offset, 1) BY <1>1, <1>2, <2>2 DEF NextCommand
  <2>3. QED BY <2>1, <2>2
<1>3. CASE InitCommand(t)
  <2>1. CASE Has(offset, 2)
    <3>1. At(offset) \in Word /\ At(offset + 1) \in Word BY <1>0, <2>1, SMTT(40) DEF Has, At
    <3> DEFINE new == [image[t] EXCEPT !.cmd = At(offset), !.size = At(offset + 1)]
    <3>2. /\ pc' = [pc EXCEPT ![t] = "lookup"] /\ image' = [image EXCEPT ![t] = new]
          /\ stage' = [stage EXCEPT ![t] = "check"] /\ id' = [id EXCEPT ![t] = At(offset)]
      BY <1>0, <1>3, <2>1 DEF InitCommand
    <3>3. new \in Image
      <4> HIDE DEF offset
      <4>1. QED BY <1>0, <3>1 DEF Image
    <3> HIDE DEF new, offset, Image
    <3>4. QED BY <1>0, <1>3, <3>1, <3>2, <3>3, MoveType DEF InitCommand, Places
  <2>2. CASE ~Has(offset, 2) BY <1>1, <1>3, <2>2 DEF InitCommand
  <2>3. QED BY <2>1, <2>2
<1>4. QED BY <1>2, <1>3

LEMMA ImageType ==
  ASSUME TypeInv, NEW t \in Threads
  PROVE  /\ image[t] \in Image /\ image[t].class \in AnyClass /\ image[t].commands \in Seq(Command)
         /\ image[t].read \in Word /\ image[t].cmd \in Word /\ image[t].size \in Word
         /\ image[t].offset \in Nat /\ image[t].end \in Nat /\ image[t].warned \in BOOLEAN
<1>1. image[t] \in Image BY DEF TypeInv, TypeOK
<1>2. QED BY <1>1 DEF Image

\* The command that ReadFields appends.
CommandRead(t) ==
  [class |-> image[t].class, read |-> image[t].read, cmd |-> image[t].cmd, size |-> image[t].size,
   at |-> image[t].offset, segment |-> SegmentAt(image[t].offset, image[t].class)]

LEMMA CommandReadType ==
  ASSUME TypeInv, NEW t \in Threads, Has(image[t].offset, FieldsOf(image[t].class))
  PROVE  CommandRead(t) \in Command
<1> DEFINE offset == image[t].offset
           class == image[t].class
           segment == SegmentAt(offset, class)
<1>1. /\ offset \in Nat /\ class \in AnyClass /\ image[t].read \in Word /\ image[t].cmd \in Word
      /\ image[t].size \in Word /\ target \in Seq(Word) /\ 0 \in Word
  <2>1. target \in Seq(Word) BY DEF TypeInv, TypeOK
  <2>2. 0 \in Word BY WordAssumption DEF Word
  <2>3. QED BY <2>1, <2>2, ImageType
<1>2. segment \in Segment
  <2>1. CASE class \in SegmentClasses
    <3>1. FieldsOf(class) \in Nat /\ FieldsOf(class) >= 5
      BY <2>1, KitAssumption DEF SegmentClasses, FieldsOf
    <3>2. At(offset + 2) \in Word /\ At(offset + 3) \in Word /\ At(offset + 4) \in Word
      <4> HIDE DEF class
      <4>1. offset + 5 <= Len(target) BY <1>1, <3>1 DEF Has, class
      <4>2. QED BY <1>1, <4>1, SMTT(40) DEF At
    <3>3. QED BY <2>1, <3>2 DEF SegmentAt, Segment
  <2>2. CASE class \notin SegmentClasses BY <1>1, <2>2 DEF SegmentAt, Segment
  <2>3. QED BY <2>1, <2>2
<1> HIDE DEF segment, class, offset
<1>3. QED BY <1>1, <1>2 DEF CommandRead, Command, segment, class, offset

LEMMA FieldsType ==
  ASSUME TypeInv, NEW t \in Threads, ReadFields(t)
  PROVE  TypeInv'
<1>0. /\ image[t] \in Image /\ image[t].offset \in Nat /\ image[t].size \in Nat /\ image[t].end \in Nat
      /\ image[t].commands \in Seq(Command) /\ image[t].warned \in BOOLEAN
  <2>1. image[t].size \in Nat BY ImageType DEF Word
  <2>2. QED BY <2>1, ImageType
<1>1. CASE Has(image[t].offset, FieldsOf(image[t].class))
  <2> DEFINE i == image[t]
             commands == Append(i.commands, CommandRead(t))
             warned == i.warned \/ Exceeds(i)
             new == [i EXCEPT !.commands = commands, !.offset = i.offset + i.size, !.warned = warned]
  <2>1. pc' = [pc EXCEPT ![t] = "next"] /\ image' = [image EXCEPT ![t] = new]
    BY <1>1, Zenon DEF ReadFields, CommandRead, TypeInv, TypeOK
  <2>2. commands \in Seq(Command) BY <1>0, <1>1, CommandReadType
  <2>3. warned \in BOOLEAN /\ i.offset + i.size \in Nat BY <1>0
  <2>4. new \in Image
    <3> HIDE DEF commands, warned
    <3>1. QED BY <1>0, <2>2, <2>3 DEF Image
  <2> HIDE DEF new, Image
  <2>5. QED BY <2>1, <2>4, MoveType DEF ReadFields, locals, TypeInv, TypeOK, Places
<1>2. CASE ~Has(image[t].offset, FieldsOf(image[t].class))
  BY <1>2, UnreadableType DEF ReadFields, TypeInv, TypeOK, world, shared, locals
<1>3. QED BY <1>1, <1>2

LEMMA EndType ==
  ASSUME TypeInv, NEW t \in Threads, EndCommands(t) \/ ComputeSlide(t)
  PROVE  TypeInv'
<1>1. PICK place \in Places \ {"store"} : pc' = [pc EXCEPT ![t] = place]
  BY DEF EndCommands, ComputeSlide, Fail, Places
<1>2. UNCHANGED <<world, shared, locals, image>> BY DEF EndCommands, ComputeSlide
<1>3. QED BY <1>1, <1>2 DEF TypeInv, TypeOK, world, shared, locals

LEMMA WorldType ==
  ASSUME TypeInv, LoadClass \/ ChangeTarget
  PROVE  TypeInv'
<1>1. CASE LoadClass BY <1>1 DEF LoadClass, TypeInv, TypeOK, Classes, shared, locals
<1>2. CASE ChangeTarget
  <2>1. PICK rewrite \in Rewrites :
          rewrite[1] < Len(target) /\ target' = [target EXCEPT ![rewrite[1] + 1] = rewrite[2]]
    BY <1>2 DEF ChangeTarget
  <2>2. rewrite[1] \in Nat /\ rewrite[2] \in Word BY <2>1, KitAssumption
  <2>3. target' \in Seq(Word) BY <2>1, <2>2 DEF TypeInv, TypeOK
  <2>4. changes' \in Nat BY <1>2 DEF ChangeTarget, TypeInv, TypeOK
  <2>5. QED BY <1>2, <2>3, <2>4 DEF ChangeTarget, TypeInv, TypeOK, shared, locals
<1>3. QED BY <1>1, <1>2

LEMMA TypeInit == Init => TypeInv
<1> SUFFICES ASSUME Init PROVE TypeInv OBVIOUS
<1>1. 0 \in Word BY WordAssumption DEF Word
<1>2. NoImage \in Image
  <2>1. MKLoadCommand \in AnyClass /\ <<>> \in Seq(Command) BY KitAssumption DEF AnyClass, Classes
  <2>2. QED BY <1>1, <2>1 DEF NoImage, Image
<1> HIDE DEF Image, NoImage
<1>3. QED BY <1>1, <1>2, KitAssumption DEF Init, TypeInv, TypeOK, Classes, Places, NoImage

LEMMA TypeStep == TypeInv /\ [Next]_vars => TypeInv'
<1> SUFFICES ASSUME TypeInv, [Next]_vars PROVE TypeInv' OBVIOUS
<1>1. ASSUME NEW t \in Threads, OpenImage(t) PROVE TypeInv' BY <1>1, OpenType
<1>2. ASSUME NEW t \in Threads, Step(t) PROVE TypeInv'
  BY <1>2, OpenType, ReadsType, FieldsType, EndType, LookupType DEF Step
<1>3. CASE LoadClass \/ ChangeTarget BY <1>3, WorldType
<1>4. CASE UNCHANGED vars BY <1>4 DEF vars, world, shared, locals, TypeInv, TypeOK
<1>5. QED BY <1>1, <1>2, <1>3, <1>4 DEF Next

\* The state has its type whatever images hold and classes can do.
THEOREM TypeCorrect == Spec => []TypeOK
<1>1. TypeInv => TypeOK BY DEF TypeInv
<1>2. QED BY <1>1, TypeInit, TypeStep, PTL DEF Spec
----------------------------------------------------------------------------
(* The answer to a lookup is settled when it is given.                     *)

\* What classes were listed and made decides on the class of an id.
Settled(set, made, cmd, class) ==
  /\ set # {}
  /\ LET best == bestSubclassWithRanking(set, cmd)
     IN  IF best # MKLoadCommand THEN class = best
         ELSE cmd \in DOMAIN made /\ class = made[cmd]

LEMMA SettledOnce ==
  ASSUME NEW set, NEW made, NEW cmd, NEW class, NEW other,
         Settled(set, made, cmd, class), Settled(set, made, cmd, other)
  PROVE  class = other
BY DEF Settled

Grows(made, more) == DOMAIN made \subseteq DOMAIN more /\ \A c \in DOMAIN made : more[c] = made[c]

LEMMA SettledStays ==
  ASSUME NEW set, NEW new, NEW made, NEW more, NEW cmd, NEW class,
         Settled(set, made, cmd, class), set # {} => new = set, Grows(made, more)
  PROVE  Settled(new, more, cmd, class)
BY DEF Settled, Grows

LEMMA SubclassOfItself == ASSUME NEW class PROVE isSubclassOfClass(class, class)
BY KitAssumption DEF isSubclassOfClass, Supers

Inside == {"list", "store", "allocate", "register"}
Looking == {"lookup", "unknown"} \union Inside

\* Under the lock nobody else lists or makes classes; the class of the command at hand is settled.
ThreadInv(t) ==
  /\ pc[t] \in Inside => lock = t
  /\ pc[t] \in {"list", "store"} => cache = {}
  /\ pc[t] \in {"unknown", "allocate", "register"} =>
       cache # {} /\ bestSubclassWithRanking(cache, id[t]) = MKLoadCommand
  /\ pc[t] \in {"allocate", "register"} => id[t] \notin DOMAIN runtimeLCDict
  /\ pc[t] \in Looking => id[t] = IF stage[t] = "choose" THEN image[t].read ELSE image[t].cmd
  /\ \/ pc[t] \in {"init", "fields"}
     \/ pc[t] \in Looking /\ stage[t] = "check"
     => Settled(cache, runtimeLCDict, image[t].read, image[t].class)

\* So are those of the commands before it.
CommandsInv(t) ==
  \A n \in 1 .. Len(image[t].commands) :
    Settled(cache, runtimeLCDict, image[t].commands[n].read, image[t].commands[n].class)

RefusedInv(t) ==
  pc[t] = "thrown" => \/ stage[t] = "check" /\ image[t].read # image[t].cmd
                     \/ \E class \in loaded : Name[class] = RuntimeName[id[t]]

RegisteredInv == \A class \in registered : class.id \in DOMAIN runtimeLCDict

KitInv ==
  /\ TypeInv
  /\ \A t \in Threads : ThreadInv(t) /\ CommandsInv(t) /\ RefusedInv(t)
  /\ RegisteredInv

\* What a step of a thread does to the shared classes: nothing without the lock.
SharedStep(t) ==
  /\ lock' = lock \/ lock \in {NoThread, t}
  /\ cache' = cache \/ lock = t
  /\ runtimeLCDict' = runtimeLCDict \/ lock = t
  /\ cache # {} => cache' = cache
  /\ Grows(runtimeLCDict, runtimeLCDict')

LEMMA OthersKeep ==
  ASSUME KitInv, NEW t \in Threads, NEW u \in Threads, u # t, SharedStep(t),
         pc'[u] = pc[u], id'[u] = id[u], stage'[u] = stage[u], image'[u] = image[u],
         loaded \subseteq loaded'
  PROVE  ThreadInv(u)' /\ CommandsInv(u)' /\ RefusedInv(u)'
<1>0. NoThread \notin Threads BY KitAssumption
<1>1. ThreadInv(u) /\ CommandsInv(u) /\ RefusedInv(u) BY DEF KitInv
<1>2. pc[u] \in Inside => lock = u BY <1>1 DEF ThreadInv
<1>3. pc[u] \in Inside => lock' = lock /\ cache' = cache /\ runtimeLCDict' = runtimeLCDict
  BY <1>0, <1>2 DEF SharedStep
<1>4. \A cmd, class : Settled(cache, runtimeLCDict, cmd, class) => Settled(cache', runtimeLCDict', cmd, class)
  BY SettledStays DEF SharedStep
<1>5. pc[u] \in {"unknown", "allocate", "register"} => cache' = cache
  BY <1>1 DEF ThreadInv, SharedStep
<1>6. ThreadInv(u)'
  <2> HIDE DEF Looking, SharedStep
  <2>1. QED BY <1>1, <1>2, <1>3, <1>4, <1>5 DEF ThreadInv, Inside
<1>7. CommandsInv(u)' BY <1>1, <1>4 DEF CommandsInv
<1>8. RefusedInv(u)' BY <1>1 DEF RefusedInv
<1>9. QED BY <1>6, <1>7, <1>8
\* Enough to see of a step of one thread.
LEMMA OneThread ==
  ASSUME KitInv, NEW t \in Threads, SharedStep(t), TypeInv', RegisteredInv',
         \A u \in Threads \ {t} : /\ pc'[u] = pc[u] /\ id'[u] = id[u]
                                  /\ stage'[u] = stage[u] /\ image'[u] = image[u],
         loaded' = loaded, ThreadInv(t)', CommandsInv(t)', RefusedInv(t)'
  PROVE  KitInv'
<1>1. \A u \in Threads : ThreadInv(u)' /\ CommandsInv(u)' /\ RefusedInv(u)'
  <2> TAKE u \in Threads
  <2>1. CASE u = t BY <2>1
  <2>2. CASE u # t BY <2>2, OthersKeep
  <2>3. QED BY <2>1, <2>2
<1>2. QED BY <1>1 DEF KitInv

\* The answer of a lookup either becomes the class of the command, or is compared with it: they
\* are the same if the command has not changed.
LEMMA FoundSettled ==
  ASSUME KitInv, NEW t \in Threads, NEW class, Found(t, class), pc[t] \in Looking, SharedStep(t),
         Settled(cache', runtimeLCDict', id[t], class),
         stage' = stage, id' = id, loaded' = loaded
  PROVE  /\ ThreadInv(t)' /\ CommandsInv(t)' /\ RefusedInv(t)'
         /\ \A u \in Threads \ {t} : pc'[u] = pc[u] /\ image'[u] = image[u]
<1>0. /\ image \in [Threads -> Image] /\ image[t] \in Image /\ pc \in [Threads -> Places]
      /\ stage[t] \in {"choose", "check"}
  BY DEF KitInv, TypeInv, TypeOK
<1>1. ThreadInv(t) /\ CommandsInv(t) BY DEF KitInv
<1>2. \A cmd, k : Settled(cache, runtimeLCDict, cmd, k) => Settled(cache', runtimeLCDict', cmd, k)
  BY SettledStays DEF SharedStep
<1>3. CASE stage[t] = "choose"
  <2>1. /\ pc' = [pc EXCEPT ![t] = "init"]
        /\ image' = [image EXCEPT ![t] = [image[t] EXCEPT !.class = class]]
    BY <1>3 DEF Found
  <2>2. /\ image'[t].class = class /\ image'[t].read = image[t].read
        /\ image'[t].commands = image[t].commands /\ pc'[t] = "init"
    BY <1>0, <2>1 DEF Image
  <2>3. id[t] = image[t].read BY <1>1, <1>3 DEF ThreadInv
  <2>4. ThreadInv(t)' BY <2>2, <2>3 DEF ThreadInv, Inside, Looking
  <2>5. CommandsInv(t)' BY <1>1, <1>2, <2>2 DEF CommandsInv
  <2>6. RefusedInv(t)' BY <2>2 DEF RefusedInv
  <2>7. QED BY <1>0, <2>1, <2>4, <2>5, <2>6
<1>4. CASE stage[t] = "check"
  <2>1. /\ image' = image
        /\ pc' = [pc EXCEPT ![t] = IF isSubclassOfClass(image[t].class, class) THEN "fields" ELSE "thrown"]
    BY <1>4 DEF Found
  <2>2. Settled(cache', runtimeLCDict', image[t].read, image[t].class)
    BY <1>1, <1>2, <1>4 DEF ThreadInv
  <2>3. id[t] = image[t].cmd BY <1>1, <1>4 DEF ThreadInv
  <2>4. CommandsInv(t)' BY <1>1, <1>2, <2>1 DEF CommandsInv
  <2>5. CASE isSubclassOfClass(image[t].class, class)
    <3>1. pc'[t] = "fields" BY <1>0, <2>1, <2>5
    <3>2. ThreadInv(t)' BY <2>1, <2>2, <3>1 DEF ThreadInv, Inside, Looking
    <3>3. RefusedInv(t)' BY <3>1 DEF RefusedInv
    <3>4. QED BY <1>0, <2>1, <2>4, <3>2, <3>3
  <2>6. CASE ~isSubclassOfClass(image[t].class, class)
    <3>1. pc'[t] = "thrown" BY <1>0, <2>1, <2>6
    <3>2. image[t].read # image[t].cmd
      BY <2>2, <2>3, <2>6, SettledOnce, SubclassOfItself
    <3>3. ThreadInv(t)' BY <3>1 DEF ThreadInv, Inside, Looking
    <3>4. RefusedInv(t)' BY <1>4, <2>1, <3>2 DEF RefusedInv
    <3>5. QED BY <1>0, <2>1, <2>4, <3>3, <3>4
  <2>7. QED BY <2>5, <2>6
<1>5. QED BY <1>0, <1>3, <1>4

\* A thread that stays inside the lookup of the same id.
LEMMA StaysLooking ==
  ASSUME KitInv, NEW t \in Threads, SharedStep(t), pc[t] \in Looking,
         NEW place \in Looking, pc' = [pc EXCEPT ![t] = place],
         stage' = stage, id' = id, image' = image, loaded' = loaded,
         place \in Inside => lock' = t,
         place \in {"list", "store"} => cache' = {},
         place \in {"unknown", "allocate", "register"} =>
           cache' # {} /\ bestSubclassWithRanking(cache', id[t]) = MKLoadCommand,
         place \in {"allocate", "register"} => id[t] \notin DOMAIN runtimeLCDict'
  PROVE  /\ ThreadInv(t)' /\ CommandsInv(t)' /\ RefusedInv(t)'
         /\ \A u \in Threads \ {t} : pc'[u] = pc[u] /\ image'[u] = image[u]
<1>0. pc'[t] = place /\ \A u \in Threads \ {t} : pc'[u] = pc[u] BY DEF KitInv, TypeInv, TypeOK
<1>1. ThreadInv(t) /\ CommandsInv(t) BY DEF KitInv
<1>2. \A cmd, k : Settled(cache, runtimeLCDict, cmd, k) => Settled(cache', runtimeLCDict', cmd, k)
  BY SettledStays DEF SharedStep
<1>3. ThreadInv(t)'
  <2>1. id[t] = (IF stage[t] = "choose" THEN image[t].read ELSE image[t].cmd) BY <1>1 DEF ThreadInv
  <2>2. stage[t] = "check" => Settled(cache', runtimeLCDict', image[t].read, image[t].class)
    BY <1>1, <1>2 DEF ThreadInv
  <2>3. place \notin {"init", "fields"} BY DEF Looking, Inside
  <2> HIDE DEF Looking, Inside
  <2>4. QED BY <1>0, <2>1, <2>2, <2>3 DEF ThreadInv
<1>4. CommandsInv(t)' BY <1>1, <1>2 DEF CommandsInv
<1>5. RefusedInv(t)' BY <1>0 DEF RefusedInv, Looking, Inside
<1>6. QED BY <1>0, <1>3, <1>4, <1>5
LEMMA RankedSettled ==
  ASSUME KitInv, NEW t \in Threads, Ranked(t, cache'), cache' # {}, pc[t] \in Looking, SharedStep(t),
         runtimeLCDict' = runtimeLCDict, stage' = stage, id' = id, loaded' = loaded
  PROVE  /\ ThreadInv(t)' /\ CommandsInv(t)' /\ RefusedInv(t)'
         /\ \A u \in Threads \ {t} : pc'[u] = pc[u] /\ image'[u] = image[u]
<1> DEFINE best == bestSubclassWithRanking(cache', id[t])
<1>1. CASE best # MKLoadCommand
  <2>1. Found(t, best) BY <1>1 DEF Ranked
  <2>2. Settled(cache', runtimeLCDict', id[t], best) BY <1>1 DEF Settled
  <2> HIDE DEF best, Looking
  <2>3. QED BY <2>1, <2>2, FoundSettled
<1>2. CASE best = MKLoadCommand
  <2>1. pc' = [pc EXCEPT ![t] = "unknown"] /\ image' = image BY <1>2 DEF Ranked
  <2>2. "unknown" \in Looking /\ "unknown" \notin Inside BY DEF Looking, Inside
  <2> HIDE DEF Looking, Inside
  <2>3. QED BY <1>2, <2>1, <2>2, StaysLooking
<1>3. QED BY <1>1, <1>2

LEMMA CacheSteps ==
  ASSUME KitInv, TypeInv', NEW t \in Threads,
         UseCache(t) \/ MissCache(t) \/ CopyClassList(t) \/ FillCache(t)
  PROVE  KitInv'
<1>0. ThreadInv(t) /\ TypeInv /\ RegisteredInv BY DEF KitInv
<1>1. CASE UseCache(t)
  <2>1. /\ pc[t] \in Looking /\ cache' # {} /\ Ranked(t, cache')
        /\ runtimeLCDict' = runtimeLCDict /\ stage' = stage /\ id' = id /\ loaded' = loaded
        /\ registered' = registered
    BY <1>1 DEF UseCache, world, shared, locals, Looking
  <2>2. SharedStep(t) BY <1>1 DEF UseCache, shared, SharedStep, Grows
  <2>3. RegisteredInv' BY <1>0, <2>1 DEF RegisteredInv
  <2> HIDE DEF Looking
  <2>4. QED BY <2>1, <2>2, <2>3, RankedSettled, OneThread
<1>2. CASE MissCache(t)
  <2>1. /\ pc[t] \in Looking /\ cache' = {} /\ lock' = t /\ pc' = [pc EXCEPT ![t] = "list"]
        /\ runtimeLCDict' = runtimeLCDict /\ stage' = stage /\ id' = id /\ loaded' = loaded
        /\ image' = image /\ registered' = registered
    BY <1>2 DEF MissCache, world, locals, Looking
  <2>2. SharedStep(t) BY <1>2 DEF MissCache, SharedStep, Grows
  <2>3. RegisteredInv' BY <1>0, <2>1 DEF RegisteredInv
  <2>4. "list" \in Looking BY DEF Looking, Inside
  <2> HIDE DEF Looking
  <2>5. QED BY <2>1, <2>2, <2>3, <2>4, StaysLooking, OneThread
<1>3. CASE CopyClassList(t)
  <2>1. /\ pc[t] \in Looking /\ cache = {} /\ cache' = cache /\ lock = t /\ lock' = lock
        /\ pc' = [pc EXCEPT ![t] = "store"]
        /\ runtimeLCDict' = runtimeLCDict /\ stage' = stage /\ id' = id /\ loaded' = loaded
        /\ image' = image /\ registered' = registered
    BY <1>0, <1>3 DEF CopyClassList, world, shared, ThreadInv, Looking, Inside
  <2>2. SharedStep(t) BY <2>1 DEF SharedStep, Grows
  <2>3. RegisteredInv' BY <1>0, <2>1 DEF RegisteredInv
  <2>4. "store" \in Looking BY DEF Looking, Inside
  <2> HIDE DEF Looking
  <2>5. QED BY <2>1, <2>2, <2>3, <2>4, StaysLooking, OneThread
<1>4. CASE FillCache(t)
  <2>1. /\ pc[t] \in Looking /\ cache = {} /\ cache' = listed[t] /\ listed[t] # {} /\ lock = t
        /\ Ranked(t, cache')
        /\ runtimeLCDict' = runtimeLCDict /\ stage' = stage /\ id' = id /\ loaded' = loaded
        /\ registered' = registered
    BY <1>0, <1>4 DEF FillCache, world, locals, ThreadInv, TypeInv, Looking, Inside
  <2>2. SharedStep(t) BY <2>1, <1>4 DEF SharedStep, Grows
  <2>3. RegisteredInv' BY <1>0, <2>1 DEF RegisteredInv
  <2> HIDE DEF Looking
  <2>4. QED BY <2>1, <2>2, <2>3, RankedSettled, OneThread
<1>5. QED BY <1>1, <1>2, <1>3, <1>4

LEMMA RuntimeSteps ==
  ASSUME KitInv, TypeInv', NEW t \in Threads,
         UseRuntimeClass(t) \/ MissRuntimeClass(t) \/ RegisterClass(t)
  PROVE  KitInv'
<1>0. ThreadInv(t) /\ TypeInv /\ RegisteredInv BY DEF KitInv
<1>1. cache # {} /\ bestSubclassWithRanking(cache, id[t]) = MKLoadCommand /\ pc[t] \in Looking
  BY <1>0 DEF ThreadInv, UseRuntimeClass, MissRuntimeClass, RegisterClass, Looking, Inside
<1>2. CASE UseRuntimeClass(t)
  <2>1. /\ Found(t, runtimeLCDict[id[t]]) /\ cache' = cache
        /\ runtimeLCDict' = runtimeLCDict /\ stage' = stage /\ id' = id /\ loaded' = loaded
        /\ registered' = registered /\ id[t] \in DOMAIN runtimeLCDict
    BY <1>2 DEF UseRuntimeClass, world, shared, locals
  <2>2. SharedStep(t) BY <1>2 DEF UseRuntimeClass, shared, SharedStep, Grows
  <2>3. RegisteredInv' BY <1>0, <2>1 DEF RegisteredInv
  <2>4. Settled(cache', runtimeLCDict', id[t], runtimeLCDict[id[t]]) BY <1>1, <2>1 DEF Settled
  <2> HIDE DEF Looking
  <2>5. QED BY <1>1, <2>1, <2>2, <2>3, <2>4, FoundSettled, OneThread
<1>3. CASE MissRuntimeClass(t)
  <2>1. /\ cache' = cache /\ lock' = t /\ pc' = [pc EXCEPT ![t] = "allocate"]
        /\ runtimeLCDict' = runtimeLCDict /\ stage' = stage /\ id' = id /\ loaded' = loaded
        /\ image' = image /\ registered' = registered /\ id[t] \notin DOMAIN runtimeLCDict
    BY <1>3 DEF MissRuntimeClass, world, locals
  <2>2. SharedStep(t) BY <1>3 DEF MissRuntimeClass, SharedStep, Grows
  <2>3. RegisteredInv' BY <1>0, <2>1 DEF RegisteredInv
  <2>4. "allocate" \in Looking BY DEF Looking, Inside
  <2> HIDE DEF Looking
  <2>5. QED BY <1>1, <2>1, <2>2, <2>3, <2>4, StaysLooking, OneThread
<1>4. CASE RegisterClass(t)
  <2> DEFINE class == [id |-> id[t], by |-> t]
  <2>1. /\ lock = t /\ lock' = NoThread /\ cache' = cache /\ stage' = stage /\ id' = id
        /\ loaded' = loaded /\ id[t] \notin DOMAIN runtimeLCDict
        /\ registered' = registered \union {class}
        /\ runtimeLCDict' = [c \in DOMAIN runtimeLCDict \union {id[t]} |->
                               IF c = id[t] THEN class ELSE runtimeLCDict[c]]
        /\ Found(t, class)
    BY <1>0, <1>4 DEF RegisterClass, world, locals, ThreadInv, Inside
  <2> HIDE DEF class, Looking
  <2>2. Grows(runtimeLCDict, runtimeLCDict') BY <2>1 DEF Grows
  <2>3. SharedStep(t) BY <2>1, <2>2 DEF SharedStep
  <2>4. RegisteredInv' BY <1>0, <2>1 DEF RegisteredInv, class
  <2>5. Settled(cache', runtimeLCDict', id[t], class) BY <1>1, <2>1 DEF Settled
  <2>6. QED BY <1>1, <2>1, <2>3, <2>4, <2>5, FoundSettled, OneThread
<1>5. QED BY <1>2, <1>3, <1>4

\* A name is taken by a class of the program, since no class was made for the id.
LEMMA AllocateStep ==
  ASSUME KitInv, TypeInv', NEW t \in Threads, AllocateClass(t)
  PROVE  KitInv'
<1>0. ThreadInv(t) /\ CommandsInv(t) /\ TypeInv /\ RegisteredInv BY DEF KitInv
<1>1. /\ cache' = cache /\ runtimeLCDict' = runtimeLCDict /\ stage' = stage /\ id' = id
      /\ loaded' = loaded /\ image' = image /\ registered' = registered /\ lock = t
      /\ cache # {} /\ bestSubclassWithRanking(cache, id[t]) = MKLoadCommand
      /\ id[t] \notin DOMAIN runtimeLCDict
  BY <1>0 DEF AllocateClass, world, locals, ThreadInv, Inside
<1>2. SharedStep(t) BY <1>1 DEF AllocateClass, SharedStep, Grows
<1>3. RegisteredInv' BY <1>0, <1>1 DEF RegisteredInv
<1>4. CASE NameTaken(id[t])
  <2>1. pc' = [pc EXCEPT ![t] = "thrown"] BY <1>4 DEF AllocateClass
  <2>2. pc'[t] = "thrown" /\ \A u \in Threads \ {t} : pc'[u] = pc[u] BY <1>0, <2>1 DEF TypeInv, TypeOK
  <2>3. \E class \in loaded : Name[class] = RuntimeName[id[t]]
    <3>1. ASSUME NEW class \in registered, RuntimeName[class.id] = RuntimeName[id[t]] PROVE FALSE
      <4>1. class.id \in Word /\ id[t] \in Word BY <1>0 DEF TypeInv, TypeOK, RuntimeClass
      <4>2. class.id = id[t] BY <3>1, <4>1, KitAssumption
      <4>3. QED BY <1>0, <1>1, <4>2 DEF RegisteredInv
    <3>2. QED BY <1>4, <3>1 DEF NameTaken
  <2>4. ThreadInv(t)' BY <2>2 DEF ThreadInv, Inside, Looking
  <2>5. CommandsInv(t)' BY <1>0, <1>1 DEF CommandsInv
  <2>6. RefusedInv(t)' BY <1>1, <2>3 DEF RefusedInv
  <2>7. QED BY <1>1, <1>2, <1>3, <2>2, <2>4, <2>5, <2>6, OneThread
<1>5. CASE ~NameTaken(id[t])
  <2>1. pc' = [pc EXCEPT ![t] = "register"] /\ lock' = lock BY <1>5 DEF AllocateClass
  <2>2. pc[t] \in Looking /\ "register" \in Looking BY DEF AllocateClass, Looking, Inside
  <2> HIDE DEF Looking
  <2>3. QED BY <1>1, <1>2, <1>3, <2>1, <2>2, StaysLooking, OneThread
<1>6. QED BY <1>4, <1>5
\* A step outside the lookups leaves the shared classes alone.
LEMMA WalkStep ==
  ASSUME KitInv, TypeInv', NEW t \in Threads, UNCHANGED <<world, shared>>,
         \A u \in Threads \ {t} : /\ pc'[u] = pc[u] /\ id'[u] = id[u]
                                  /\ stage'[u] = stage[u] /\ image'[u] = image[u],
         pc'[t] # "thrown", ThreadInv(t)', CommandsInv(t)'
  PROVE  KitInv'
<1>1. SharedStep(t) BY DEF shared, SharedStep, Grows
<1>2. RegisteredInv' BY DEF KitInv, RegisteredInv, shared
<1>3. RefusedInv(t)' BY DEF RefusedInv
<1>4. loaded' = loaded BY DEF world
<1>5. QED BY <1>1, <1>2, <1>3, <1>4, OneThread

LEMMA OutsideSteps ==
  ASSUME KitInv, TypeInv', NEW t \in Threads,
         OpenImage(t) \/ ReadHeader(t) \/ EndCommands(t) \/ ComputeSlide(t)
  PROVE  KitInv'
<1>0. /\ pc \in [Threads -> Places] /\ image \in [Threads -> Image] /\ image[t] \in Image
      /\ CommandsInv(t)
  BY DEF KitInv, TypeInv, TypeOK
<1>1. PICK place \in {"header", "next", "slide", "open", "failed"} : pc' = [pc EXCEPT ![t] = place]
  BY DEF OpenImage, ReadHeader, EndCommands, ComputeSlide, Fail
<1>2. pc'[t] = place /\ \A u \in Threads \ {t} : pc'[u] = pc[u] BY <1>0, <1>1
<1>3. UNCHANGED <<world, shared, locals>> BY DEF OpenImage, ReadHeader, EndCommands, ComputeSlide
<1>4. /\ image'[t].commands = image[t].commands
      /\ \A u \in Threads \ {t} : image'[u] = image[u]
  <2>1. CASE image' = image BY <2>1
  <2>2. CASE OpenImage(t) /\ image' # image
    <3>1. image' = [image EXCEPT ![t] = [image[t] EXCEPT !.magic = At(0)]] BY <2>2 DEF OpenImage
    <3>2. QED BY <1>0, <3>1 DEF Image
  <2>3. CASE ReadHeader(t) /\ image' # image
    <3> DEFINE size == SizeOfHeader(image[t].magic)
               pointerSize == IF At(1) \in CPU_TYPES_64 \/ image[t].magic = MH_MAGIC_64 THEN 8 ELSE 4
               new == [image[t] EXCEPT !.pointerSize = pointerSize, !.ncmds = At(3), !.left = At(3),
                                       !.end = size + At(4), !.offset = size]
    <3>1. image' = [image EXCEPT ![t] = new] BY <1>0, <2>3, Zenon DEF ReadHeader
    <3>2. new.commands = image[t].commands
      <4> HIDE DEF size, pointerSize
      <4>1. QED BY <1>0 DEF Image
    <3> HIDE DEF new, Image
    <3>3. QED BY <1>0, <3>1, <3>2
  <2>4. QED BY <2>1, <2>2, <2>3 DEF EndCommands, ComputeSlide
<1>5. ThreadInv(t)' BY <1>2 DEF ThreadInv, Inside, Looking
<1>6. CommandsInv(t)' BY <1>0, <1>3, <1>4 DEF CommandsInv, shared
<1>7. pc'[t] # "thrown" BY <1>2
<1>8. QED BY <1>2, <1>3, <1>4, <1>5, <1>6, <1>7, WalkStep DEF locals

LEMMA UnreadableStep ==
  ASSUME KitInv, TypeInv', NEW t \in Threads, Unreadable(t), UNCHANGED <<world, shared, stage, id>>
  PROVE  KitInv'
<1>0. /\ pc \in [Threads -> Places] /\ image \in [Threads -> Image] /\ image[t] \in Image
      /\ CommandsInv(t)
  BY DEF KitInv, TypeInv, TypeOK
<1>1. /\ pc' = [pc EXCEPT ![t] = "slide"]
      /\ image' = [image EXCEPT ![t] = [image[t] EXCEPT !.warned = TRUE]]
  BY DEF Unreadable
<1>2. /\ pc'[t] = "slide" /\ image'[t].commands = image[t].commands
      /\ \A u \in Threads \ {t} : pc'[u] = pc[u] /\ image'[u] = image[u]
  BY <1>0, <1>1 DEF Image
<1>3. ThreadInv(t)' BY <1>2 DEF ThreadInv, Inside, Looking
<1>4. CommandsInv(t)' BY <1>0, <1>2 DEF CommandsInv, shared
<1>5. QED BY <1>2, <1>3, <1>4, WalkStep

\* A new lookup is for the id that was read; that of a check finds the class already settled.
LEMMA ReadSteps ==
  ASSUME KitInv, TypeInv', NEW t \in Threads, NextCommand(t) \/ InitCommand(t)
  PROVE  KitInv'
<1>0. /\ pc \in [Threads -> Places] /\ image \in [Threads -> Image] /\ image[t] \in Image
      /\ id \in [Threads -> Word] /\ stage \in [Threads -> {"choose", "check"}]
      /\ CommandsInv(t) /\ ThreadInv(t)
  BY DEF KitInv, TypeInv, TypeOK
<1> DEFINE offset == image[t].offset
<1>1. CASE NextCommand(t) /\ Has(offset, 1)
  <2>1. /\ pc' = [pc EXCEPT ![t] = "lookup"] /\ stage' = [stage EXCEPT ![t] = "choose"]
        /\ id' = [id EXCEPT ![t] = At(offset)]
        /\ image' = [image EXCEPT ![t] = [image[t] EXCEPT !.left = @ - 1, !.read = At(offset)]]
        /\ UNCHANGED <<world, shared>>
    BY <1>0, <1>1 DEF NextCommand
  <2>2. /\ pc'[t] = "lookup" /\ stage'[t] = "choose" /\ id'[t] = At(offset)
        /\ image'[t].read = At(offset) /\ image'[t].commands = image[t].commands
        /\ \A u \in Threads \ {t} : /\ pc'[u] = pc[u] /\ id'[u] = id[u]
                                    /\ stage'[u] = stage[u] /\ image'[u] = image[u]
    <3> HIDE DEF offset
    <3>1. QED BY <1>0, <2>1 DEF Image
  <2>3. ThreadInv(t)' BY <2>2 DEF ThreadInv, Inside, Looking
  <2>4. CommandsInv(t)' BY <1>0, <2>1, <2>2 DEF CommandsInv, shared
  <2> HIDE DEF offset
  <2>5. QED BY <2>1, <2>2, <2>3, <2>4, WalkStep
<1>2. CASE InitCommand(t) /\ Has(offset, 2)
  <2>1. /\ pc' = [pc EXCEPT ![t] = "lookup"] /\ stage' = [stage EXCEPT ![t] = "check"]
        /\ id' = [id EXCEPT ![t] = At(offset)]
        /\ image' = [image EXCEPT ![t] = [image[t] EXCEPT !.cmd = At(offset), !.size = At(offset + 1)]]
        /\ UNCHANGED <<world, shared>>
    BY <1>0, <1>2 DEF InitCommand
  <2>2. /\ pc'[t] = "lookup" /\ stage'[t] = "check" /\ id'[t] = At(offset)
        /\ image'[t].cmd = At(offset) /\ image'[t].commands = image[t].commands
        /\ image'[t].read = image[t].read /\ image'[t].class = image[t].class
        /\ \A u \in Threads \ {t} : /\ pc'[u] = pc[u] /\ id'[u] = id[u]
                                    /\ stage'[u] = stage[u] /\ image'[u] = image[u]
    <3> HIDE DEF offset
    <3>1. QED BY <1>0, <2>1 DEF Image
  <2>3. Settled(cache, runtimeLCDict, image[t].read, image[t].class)
    BY <1>0, <1>2 DEF ThreadInv, InitCommand
  <2>4. ThreadInv(t)' BY <2>1, <2>2, <2>3 DEF ThreadInv, Inside, Looking, shared
  <2>5. CommandsInv(t)' BY <1>0, <2>1, <2>2 DEF CommandsInv, shared
  <2> HIDE DEF offset
  <2>6. QED BY <2>1, <2>2, <2>4, <2>5, WalkStep
<1>3. CASE NextCommand(t) /\ ~Has(offset, 1) BY <1>3, UnreadableStep DEF NextCommand
<1>4. CASE InitCommand(t) /\ ~Has(offset, 2) BY <1>4, UnreadableStep DEF InitCommand
<1>5. QED BY <1>1, <1>2, <1>3, <1>4

\* The command that is added has the class that was settled for it.
LEMMA FieldsStep ==
  ASSUME KitInv, TypeInv', NEW t \in Threads, ReadFields(t)
  PROVE  KitInv'
<1>0. /\ pc \in [Threads -> Places] /\ image \in [Threads -> Image] /\ TypeInv
      /\ CommandsInv(t) /\ ThreadInv(t)
  BY DEF KitInv, TypeInv, TypeOK
<1>1. CASE Has(image[t].offset, FieldsOf(image[t].class))
  <2> DEFINE i == image[t]
             new == [i EXCEPT !.commands = Append(i.commands, CommandRead(t)), !.offset = i.offset + i.size,
                              !.warned = i.warned \/ Exceeds(i)]
  <2>1. /\ pc' = [pc EXCEPT ![t] = "next"] /\ image' = [image EXCEPT ![t] = new]
        /\ UNCHANGED <<world, shared, locals>>
    BY <1>0, <1>1, Zenon DEF ReadFields, CommandRead
  <2>2. new.commands = Append(i.commands, CommandRead(t))
    <3>1. i \in Image BY <1>0, ImageType
    <3>2. QED BY <3>1 DEF Image
  <2> HIDE DEF new
  <2>3. /\ pc'[t] = "next" /\ image'[t] = new
        /\ \A u \in Threads \ {t} : pc'[u] = pc[u] /\ image'[u] = image[u]
    BY <1>0, <2>1
  <2>4. Settled(cache, runtimeLCDict, CommandRead(t).read, CommandRead(t).class)
    BY <1>0 DEF ThreadInv, ReadFields, CommandRead
  <2>5. CommandsInv(t)'
    <3>1. i.commands \in Seq(Command) /\ CommandRead(t) \in Command
      BY <1>0, <1>1, ImageType, CommandReadType
    <3>2. cache' = cache /\ runtimeLCDict' = runtimeLCDict BY <2>1 DEF shared
    <3>3. ASSUME NEW n \in 1 .. Len(image'[t].commands)
          PROVE  Settled(cache, runtimeLCDict, image'[t].commands[n].read, image'[t].commands[n].class)
      <4>1. CASE n = Len(i.commands) + 1 BY <2>2, <2>3, <2>4, <3>1, <4>1
      <4>2. CASE n # Len(i.commands) + 1
        <5>1. n \in 1 .. Len(i.commands) /\ image'[t].commands[n] = i.commands[n]
          BY <2>2, <2>3, <3>1, <3>3, <4>2
        <5>2. QED BY <1>0, <5>1 DEF CommandsInv
      <4>3. QED BY <4>1, <4>2
    <3>4. QED BY <3>2, <3>3 DEF CommandsInv
  <2>6. ThreadInv(t)' BY <2>3 DEF ThreadInv, Inside, Looking
  <2>7. QED BY <2>1, <2>3, <2>5, <2>6, WalkStep DEF locals
<1>2. CASE ~Has(image[t].offset, FieldsOf(image[t].class))
  BY <1>2, UnreadableStep DEF ReadFields, locals
<1>3. QED BY <1>1, <1>2

LEMMA WorldStep ==
  ASSUME KitInv, TypeInv', LoadClass \/ ChangeTarget
  PROVE  KitInv'
<1>1. /\ UNCHANGED <<registered, cache, runtimeLCDict, lock, stage, id, listed, pc, image>>
      /\ loaded \subseteq loaded'
  BY DEF LoadClass, ChangeTarget, shared, locals
<1>2. \A t \in Threads : ThreadInv(t)' /\ CommandsInv(t)' /\ RefusedInv(t)'
  BY <1>1 DEF KitInv, ThreadInv, CommandsInv, RefusedInv
<1>3. RegisteredInv' BY <1>1 DEF KitInv, RegisteredInv
<1>4. QED BY <1>2, <1>3 DEF KitInv

----------------------------------------------------------------------------
(* The walk keeps count, and the commands follow each other.               *)

Between == Looking \union {"init", "fields"}

Ends(c) == c.at + c.size

Chained(i) ==
  /\ \A n \in 1 .. Len(i.commands) : Ends(i.commands[n]) <= i.end
  /\ \A n \in 1 .. Len(i.commands) - 1 : i.commands[n + 1].at = Ends(i.commands[n])
  /\ Len(i.commands) > 0 => i.offset = Ends(i.commands[Len(i.commands)])

\* One more command is under way between its first read and its last.
Counted(i, place) ==
  /\ place = "next" => Len(i.commands) + i.left = i.ncmds
  /\ place \in Between => Len(i.commands) + i.left + 1 = i.ncmds
  /\ place \in {"slide", "open"} => Len(i.commands) = i.ncmds

SilentInv(t) ==
  /\ pc[t] \in {"closed", "header"} => image[t].commands = <<>>
  /\ ~image[t].warned => Chained(image[t]) /\ Counted(image[t], pc[t])

\* A lookup moves inside the command, or throws, and at most chooses the class.
Moved(t) ==
  /\ \E place \in Between \union {"thrown"} : pc' = [pc EXCEPT ![t] = place]
  /\ \/ image' = image
     \/ \E class : image' = [image EXCEPT ![t] = [image[t] EXCEPT !.class = class]]

LEMMA LookupMoved ==
  ASSUME NEW t \in Threads, Lookup(t)
  PROVE  Moved(t)
<1>1. ASSUME NEW class, Found(t, class) PROVE Moved(t)
  <2>1. CASE stage[t] = "choose" BY <1>1, <2>1 DEF Found, Between, Moved
  <2>2. CASE stage[t] # "choose" BY <1>1, <2>2 DEF Found, Between, Moved
  <2>3. QED BY <2>1, <2>2
<1>2. ASSUME NEW set, Ranked(t, set) PROVE Moved(t)
  <2>1. CASE pc' = [pc EXCEPT ![t] = "unknown"] /\ image' = image
    BY <2>1 DEF Between, Looking, Moved
  <2>2. QED BY <1>1, <1>2, <2>1, Zenon DEF Ranked
<1>3. CASE UseCache(t) \/ FillCache(t) BY <1>2, <1>3 DEF UseCache, FillCache
<1>4. CASE UseRuntimeClass(t) \/ RegisterClass(t)
  BY <1>1, <1>4 DEF UseRuntimeClass, RegisterClass
<1>5. CASE MissCache(t) \/ CopyClassList(t) \/ MissRuntimeClass(t) \/ AllocateClass(t)
  BY <1>5 DEF MissCache, CopyClassList, MissRuntimeClass, AllocateClass, Between, Looking, Inside, Moved
<1>6. QED BY <1>3, <1>4, <1>5 DEF Lookup

LEMMA LookupMoves ==
  ASSUME TypeInv, NEW t \in Threads, Lookup(t), NEW u \in Threads, SilentInv(u)
  PROVE  SilentInv(u)'
<1>0. /\ pc \in [Threads -> Places] /\ image \in [Threads -> Image] /\ pc[t] \in Looking
  BY DEF TypeInv, TypeOK, Lookup, UseCache, MissCache, CopyClassList, FillCache, UseRuntimeClass,
         MissRuntimeClass, AllocateClass, RegisterClass, Looking, Inside
<1>1. Moved(t) BY LookupMoved
<1>2. PICK place \in Between \union {"thrown"} : pc' = [pc EXCEPT ![t] = place] BY <1>1 DEF Moved
<1>3. CASE u # t
  <2>1. pc'[u] = pc[u] /\ image'[u] = image[u] BY <1>0, <1>1, <1>2, <1>3 DEF Moved
  <2>2. QED BY <2>1 DEF SilentInv
<1>4. CASE u = t
  <2>1. /\ image'[t].commands = image[t].commands /\ image'[t].warned = image[t].warned
        /\ image'[t].end = image[t].end /\ image'[t].offset = image[t].offset
        /\ image'[t].left = image[t].left /\ image'[t].ncmds = image[t].ncmds
    <3>1. CASE image' = image BY <3>1
    <3>2. CASE image' # image
      <4>1. PICK class : image' = [image EXCEPT ![t] = [image[t] EXCEPT !.class = class]]
        BY <1>1, <3>2 DEF Moved
      <4>2. QED BY <1>0, <4>1 DEF Image
    <3>3. QED BY <3>1, <3>2
  <2>2. pc'[t] = place /\ pc[t] \in Between BY <1>0, <1>2 DEF Between
  <2>3. place \notin {"closed", "header", "next", "slide", "open"}
    BY DEF Between, Looking, Inside
  <2>4. Chained(image[t]) => Chained(image'[t]) BY <2>1 DEF Chained
  <2>5. Counted(image[t], pc[t]) => Counted(image'[t], place)
    <3> HIDE DEF Between
    <3>1. QED BY <2>1, <2>2, <2>3 DEF Counted
  <2>6. QED BY <1>4, <2>1, <2>2, <2>3, <2>4, <2>5 DEF SilentInv
<1>5. QED BY <1>3, <1>4

\* A step outside a lookup keeps the count: a command is added when its last read is done.
LEMMA MoveSilent ==
  ASSUME TypeInv, NEW t \in Threads, NEW place, NEW new,
         pc' = [pc EXCEPT ![t] = place], image' = [image EXCEPT ![t] = new],
         place \in {"closed", "header"} => new.commands = <<>>,
         ~new.warned => Chained(new) /\ Counted(new, place),
         NEW u \in Threads, SilentInv(u)
  PROVE  SilentInv(u)'
<1>1. pc \in [Threads -> Places] /\ image \in [Threads -> Image] BY DEF TypeInv, TypeOK
<1>2. CASE u = t
  <2>1. pc'[t] = place /\ image'[t] = new BY <1>1
  <2>2. QED BY <1>2, <2>1 DEF SilentInv
<1>3. CASE u # t
  <2>1. pc'[u] = pc[u] /\ image'[u] = image[u] BY <1>1, <1>3
  <2>2. QED BY <2>1 DEF SilentInv
<1>4. QED BY <1>2, <1>3

LEMMA UnreadableSilent ==
  ASSUME TypeInv, NEW t \in Threads, Unreadable(t), NEW u \in Threads, SilentInv(u)
  PROVE  SilentInv(u)'
<1> DEFINE new == [image[t] EXCEPT !.warned = TRUE]
<1>1. pc' = [pc EXCEPT ![t] = "slide"] /\ image' = [image EXCEPT ![t] = new] BY DEF Unreadable
<1>2. new.warned BY ImageType DEF Image
<1> HIDE DEF new
<1>3. QED BY <1>1, <1>2, MoveSilent

\* A walk begins without commands, and its count is that of the header.
LEMMA OpenSilent ==
  ASSUME TypeInv, NEW t \in Threads, OpenImage(t) \/ ReadHeader(t), NEW u \in Threads,
         SilentInv(t), SilentInv(u)
  PROVE  SilentInv(u)'
<1>0. image[t] \in Image /\ image[t].commands = <<>> /\ image = [image EXCEPT ![t] = image[t]]
  BY DEF OpenImage, ReadHeader, SilentInv, TypeInv, TypeOK
<1>1. CASE Fail(t) /\ image' = image
  <2>1. pc' = [pc EXCEPT ![t] = "failed"] /\ image' = [image EXCEPT ![t] = image[t]]
    BY <1>0, <1>1 DEF Fail
  <2>2. ~image[t].warned => Chained(image[t]) BY DEF SilentInv
  <2>3. Counted(image[t], "failed") BY DEF Counted, Between, Looking, Inside
  <2>4. QED BY <2>1, <2>2, <2>3, MoveSilent
<1>2. CASE OpenImage(t) /\ ~(Fail(t) /\ image' = image)
  <2> DEFINE new == [image[t] EXCEPT !.magic = At(0)]
  <2>1. pc' = [pc EXCEPT ![t] = "header"] /\ image' = [image EXCEPT ![t] = new]
    BY <1>2 DEF OpenImage
  <2>2. new.commands = <<>> BY <1>0 DEF Image
  <2> HIDE DEF new
  <2>3. Chained(new) BY <2>2 DEF Chained
  <2>4. Counted(new, "header") BY DEF Counted, Between, Looking, Inside
  <2>5. QED BY <2>1, <2>2, <2>3, <2>4, MoveSilent
<1>3. CASE ReadHeader(t) /\ ~(Fail(t) /\ image' = image)
  <2> DEFINE size == SizeOfHeader(image[t].magic)
             pointerSize == IF At(1) \in CPU_TYPES_64 \/ image[t].magic = MH_MAGIC_64 THEN 8 ELSE 4
             new == [image[t] EXCEPT !.pointerSize = pointerSize, !.ncmds = At(3), !.left = At(3),
                                     !.end = size + At(4), !.offset = size]
  <2>1. pc' = [pc EXCEPT ![t] = "next"] /\ image' = [image EXCEPT ![t] = new]
        /\ Has(0, size) /\ At(2) \in SupportedTypes
    BY <1>0, <1>3, ZenonT(60) DEF ReadHeader, TypeInv, TypeOK
  <2>2. At(3) \in Nat
    <3>1. size \in {5, 6} BY DEF SizeOfHeader
    <3>2. Has(0, 4) BY <2>1, <3>1 DEF Has, TypeInv, TypeOK
    <3>3. At(3) \in Word BY <3>2 DEF At, Has, TypeInv, TypeOK
    <3>4. QED BY <3>3 DEF Word
  <2>3. new.commands = <<>> /\ new.left = At(3) /\ new.ncmds = At(3)
    <3> HIDE DEF size, pointerSize
    <3>1. QED BY <1>0 DEF Image
  <2> HIDE DEF new
  <2>4. Chained(new) BY <2>3 DEF Chained
  <2>5. Counted(new, "next") BY <2>2, <2>3 DEF Counted, Between, Looking, Inside
  <2>6. QED BY <2>1, <2>4, <2>5, MoveSilent
<1>4. QED BY <1>1, <1>2, <1>3

LEMMA ReadsSilent ==
  ASSUME TypeInv, NEW t \in Threads, NextCommand(t) \/ InitCommand(t), NEW u \in Threads,
         SilentInv(t), SilentInv(u)
  PROVE  SilentInv(u)'
<1>0. image[t] \in Image BY ImageType
<1> DEFINE offset == image[t].offset
<1>1. CASE NextCommand(t) /\ Has(offset, 1)
  <2> DEFINE new == [image[t] EXCEPT !.left = image[t].left - 1, !.read = At(offset)]
  <2>1. /\ pc' = [pc EXCEPT ![t] = "lookup"] /\ image' = [image EXCEPT ![t] = new]
        /\ pc[t] = "next"
    BY <1>1 DEF NextCommand
  <2>2. /\ new.commands = image[t].commands /\ new.warned = image[t].warned
        /\ new.end = image[t].end /\ new.offset = image[t].offset
        /\ new.left = image[t].left - 1 /\ new.ncmds = image[t].ncmds
    <3> HIDE DEF offset
    <3>1. QED BY <1>0 DEF Image, offset
  <2> HIDE DEF new
  <2>3. image[t].left \in Nat /\ Len(image[t].commands) \in Nat BY <1>0, ImageType DEF Image
  <2>4. ~new.warned => Chained(new) BY <2>2 DEF SilentInv, Chained
  <2>5. ~new.warned => Counted(new, "lookup")
    BY <2>1, <2>2, <2>3 DEF SilentInv, Counted, Between, Looking, Inside
  <2>6. QED BY <2>1, <2>4, <2>5, MoveSilent
<1>2. CASE InitCommand(t) /\ Has(offset, 2)
  <2> DEFINE new == [image[t] EXCEPT !.cmd = At(offset), !.size = At(offset + 1)]
  <2>1. /\ pc' = [pc EXCEPT ![t] = "lookup"] /\ image' = [image EXCEPT ![t] = new]
        /\ pc[t] = "init"
    BY <1>2 DEF InitCommand
  <2>2. /\ new.commands = image[t].commands /\ new.warned = image[t].warned
        /\ new.end = image[t].end /\ new.offset = image[t].offset
        /\ new.left = image[t].left /\ new.ncmds = image[t].ncmds
    <3> HIDE DEF offset
    <3>1. QED BY <1>0 DEF Image, offset
  <2> HIDE DEF new
  <2>4. ~new.warned => Chained(new) BY <2>2 DEF SilentInv, Chained
  <2>5. ~new.warned => Counted(new, "lookup")
    BY <2>1, <2>2 DEF SilentInv, Counted, Between, Looking, Inside
  <2>6. QED BY <2>1, <2>4, <2>5, MoveSilent
<1>3. CASE NextCommand(t) /\ ~Has(offset, 1) BY <1>3, UnreadableSilent DEF NextCommand
<1>4. CASE InitCommand(t) /\ ~Has(offset, 2) BY <1>4, UnreadableSilent DEF InitCommand
<1>5. QED BY <1>1, <1>2, <1>3, <1>4

\* The command that is added begins where the last one ends, and ends inside sizeofcmds or warns.
LEMMA FieldsSilent ==
  ASSUME TypeInv, NEW t \in Threads, ReadFields(t), NEW u \in Threads, SilentInv(t), SilentInv(u)
  PROVE  SilentInv(u)'
<1> DEFINE i == image[t]
<1>0. /\ i \in Image /\ i.commands \in Seq(Command) /\ i.offset \in Nat /\ i.end \in Nat
      /\ i.left \in Nat /\ i.ncmds \in Nat /\ i.warned \in BOOLEAN /\ i.size \in Nat
  <2>1. i \in Image BY ImageType
  <2>2. i.size \in Word BY ImageType
  <2> HIDE DEF i
  <2>3. QED BY <2>1, <2>2 DEF Image, Word
<1>1. CASE Has(i.offset, FieldsOf(i.class))
  <2> DEFINE c == CommandRead(t)
             new == [i EXCEPT !.commands = Append(i.commands, c), !.offset = i.offset + i.size,
                              !.warned = i.warned \/ Exceeds(i)]
  <2>1. pc' = [pc EXCEPT ![t] = "next"] /\ image' = [image EXCEPT ![t] = new] /\ pc[t] = "fields"
    BY <1>1, Zenon DEF ReadFields, CommandRead, TypeInv, TypeOK
  <2>2. /\ new.commands = Append(i.commands, c) /\ new.offset = i.offset + i.size
        /\ new.warned = (i.warned \/ Exceeds(i)) /\ new.end = i.end
        /\ new.left = i.left /\ new.ncmds = i.ncmds
    <3> HIDE DEF i, c
    <3>1. QED BY <1>0 DEF Image
  <2>3. c \in Command /\ c.at = i.offset /\ c.size = i.size
    BY <1>1, CommandReadType DEF CommandRead
  <2>4. Ends(c) = i.offset + i.size BY <2>3 DEF Ends
  <2> HIDE DEF new, c, i
  <2>5. ASSUME ~new.warned PROVE Chained(new) /\ Counted(new, "next")
    <3>1. ~i.warned /\ Ends(c) <= i.end
      <4>1. ~i.warned /\ ~Exceeds(i) BY <2>2, <2>5, Zenon
      <4>2. QED BY <1>0, <2>4, <4>1 DEF Exceeds
    <3>2. Chained(i) /\ Counted(i, "fields") BY <2>1, <3>1 DEF SilentInv, i
    <3>3. /\ Len(new.commands) = Len(i.commands) + 1
          /\ new.commands[Len(i.commands) + 1] = c
          /\ \A n \in 1 .. Len(i.commands) : new.commands[n] = i.commands[n]
      BY <1>0, <2>2, <2>3
    <3>4. Len(i.commands) \in Nat BY <1>0
    <3>5. \A n \in 1 .. Len(new.commands) : Ends(new.commands[n]) <= new.end
      <4>1. TAKE n \in 1 .. Len(new.commands)
      <4>2. CASE n = Len(i.commands) + 1 BY <2>2, <3>1, <3>3, <4>2
      <4>3. CASE n # Len(i.commands) + 1
        <5>1. n \in 1 .. Len(i.commands) BY <3>3, <3>4, <4>3
        <5>2. QED BY <2>2, <3>2, <3>3, <5>1 DEF Chained
      <4>4. QED BY <4>2, <4>3
    <3>6. \A n \in 1 .. Len(new.commands) - 1 : new.commands[n + 1].at = Ends(new.commands[n])
      <4>1. TAKE n \in 1 .. Len(new.commands) - 1
      <4>2. n \in 1 .. Len(i.commands) /\ new.commands[n] = i.commands[n] BY <3>3, <3>4
      <4>3. CASE n = Len(i.commands)
        <5>1. i.offset = Ends(i.commands[n]) BY <3>2, <4>2, <4>3 DEF Chained
        <5>2. new.commands[n + 1] = c BY <3>3, <4>3
        <5>3. QED BY <2>3, <4>2, <5>1, <5>2
      <4>4. CASE n # Len(i.commands)
        <5>1. n \in 1 .. Len(i.commands) - 1 /\ n + 1 \in 1 .. Len(i.commands) BY <3>4, <4>2, <4>4
        <5>2. i.commands[n + 1].at = Ends(i.commands[n]) BY <3>2, <5>1 DEF Chained
        <5>3. new.commands[n + 1] = i.commands[n + 1] BY <3>3, <5>1
        <5>4. QED BY <4>2, <5>2, <5>3
      <4>5. QED BY <4>3, <4>4
    <3>7. new.offset = Ends(new.commands[Len(new.commands)]) BY <2>2, <2>4, <3>3
    <3>8. Len(i.commands) + i.left + 1 = i.ncmds BY <3>2 DEF Counted, Between
    <3>9. Counted(new, "next")
      BY <1>0, <2>2, <3>3, <3>4, <3>8 DEF Counted, Between, Looking, Inside
    <3>10. QED BY <3>5, <3>6, <3>7, <3>9 DEF Chained
  <2>6. QED BY <2>1, <2>5, MoveSilent
<1>2. CASE ~Has(i.offset, FieldsOf(i.class)) BY <1>2, UnreadableSilent DEF ReadFields
<1>3. QED BY <1>1, <1>2

\* The walk ends when no command is left.
LEMMA EndSilent ==
  ASSUME TypeInv, NEW t \in Threads, EndCommands(t) \/ ComputeSlide(t), NEW u \in Threads,
         SilentInv(t), SilentInv(u)
  PROVE  SilentInv(u)'
<1>0. /\ image' = [image EXCEPT ![t] = image[t]] /\ image[t].left \in Nat
      /\ Len(image[t].commands) \in Nat
  <2>1. image[t] \in Image /\ image[t].commands \in Seq(Command) BY ImageType
  <2>2. image' = image /\ image \in [Threads -> Image]
    BY DEF EndCommands, ComputeSlide, TypeInv, TypeOK
  <2>3. QED BY <2>1, <2>2 DEF Image
<1>1. ~image[t].warned => Chained(image[t]) /\ Counted(image[t], pc[t]) BY DEF SilentInv
<1>2. CASE EndCommands(t)
  <2>1. pc' = [pc EXCEPT ![t] = "slide"] /\ pc[t] = "next" /\ image[t].left = 0
    BY <1>2 DEF EndCommands
  <2>2. ~image[t].warned => Counted(image[t], "slide")
    BY <1>0, <1>1, <2>1 DEF Counted, Between, Looking, Inside
  <2>3. QED BY <1>0, <1>1, <2>1, <2>2, MoveSilent
<1>3. CASE ComputeSlide(t)
  <2>1. PICK place \in {"open", "failed"} : pc' = [pc EXCEPT ![t] = place]
    BY <1>3 DEF ComputeSlide, Fail
  <2>2. pc[t] = "slide" BY <1>3 DEF ComputeSlide
  <2>3. ~image[t].warned => Counted(image[t], place)
    BY <1>1, <2>1, <2>2 DEF Counted, Between, Looking, Inside
  <2>4. QED BY <1>0, <1>1, <2>1, <2>3, MoveSilent
<1>4. QED BY <1>2, <1>3

LEMMA SilentInvariant == Spec => [](TypeInv /\ \A t \in Threads : SilentInv(t))
<1>1. Init => TypeInv /\ \A t \in Threads : SilentInv(t)
  <2> SUFFICES ASSUME Init, NEW t \in Threads PROVE SilentInv(t) BY TypeInit
  <2>1. /\ pc[t] = "closed" /\ image[t].commands = <<>> BY DEF Init, NoImage
  <2>2. Chained(image[t]) BY <2>1 DEF Chained
  <2>3. Counted(image[t], pc[t]) BY <2>1 DEF Counted, Between, Looking, Inside
  <2>4. QED BY <2>1, <2>2, <2>3 DEF SilentInv
<1>2. TypeInv /\ (\A t \in Threads : SilentInv(t)) /\ [Next]_vars
        => (TypeInv /\ \A t \in Threads : SilentInv(t))'
  <2> SUFFICES ASSUME TypeInv, \A t \in Threads : SilentInv(t), [Next]_vars
               PROVE  (\A u \in Threads : SilentInv(u))'
    BY TypeStep
  <2>1. ASSUME NEW u \in Threads PROVE SilentInv(u)'
    <3>1. ASSUME NEW t \in Threads, OpenImage(t) \/ Step(t) PROVE SilentInv(u)'
      BY <3>1, OpenSilent, ReadsSilent, FieldsSilent, EndSilent, LookupMoves DEF Step
    <3>2. CASE LoadClass \/ ChangeTarget \/ UNCHANGED vars
      <4>1. pc' = pc /\ image' = image BY <3>2 DEF LoadClass, ChangeTarget, vars
      <4>2. QED BY <4>1 DEF SilentInv
    <3>3. QED BY <3>1, <3>2 DEF Next
  <2>2. QED BY <2>1
<1>3. QED BY <1>1, <1>2, PTL DEF Spec

----------------------------------------------------------------------------
(* The invariant of the lookups.                                           *)

LEMMA KitInit == Init => KitInv
<1> SUFFICES ASSUME Init PROVE KitInv OBVIOUS
<1>1. TypeInv BY TypeInit
<1>2. \A t \in Threads : pc[t] = "closed" /\ image[t].commands = <<>> BY DEF Init, NoImage
<1>3. \A t \in Threads : ThreadInv(t) /\ RefusedInv(t)
  BY <1>2 DEF ThreadInv, RefusedInv, Inside, Looking
<1>4. \A t \in Threads : CommandsInv(t) BY <1>2 DEF CommandsInv
<1>5. RegisteredInv BY DEF Init, RegisteredInv
<1>6. QED BY <1>1, <1>3, <1>4, <1>5 DEF KitInv

LEMMA KitStep == KitInv /\ [Next]_vars => KitInv'
<1> SUFFICES ASSUME KitInv, [Next]_vars PROVE KitInv' OBVIOUS
<1>0. TypeInv' BY TypeStep DEF KitInv
<1>1. ASSUME NEW t \in Threads, OpenImage(t) PROVE KitInv' BY <1>0, <1>1, OutsideSteps
<1>2. ASSUME NEW t \in Threads, Step(t) PROVE KitInv'
  <2>1. CASE Lookup(t) BY <1>0, <2>1, CacheSteps, RuntimeSteps, AllocateStep DEF Lookup
  <2>2. QED BY <1>0, <1>2, <2>1, OutsideSteps, ReadSteps, FieldsStep DEF Step
<1>3. CASE LoadClass \/ ChangeTarget BY <1>0, <1>3, WorldStep
<1>4. CASE UNCHANGED vars
  BY <1>0, <1>4 DEF vars, world, shared, locals, KitInv, ThreadInv, CommandsInv, RefusedInv, RegisteredInv
<1>5. QED BY <1>1, <1>2, <1>3, <1>4 DEF Next

LEMMA KitInvariant == Spec => []KitInv
BY KitInit, KitStep, PTL DEF Spec

----------------------------------------------------------------------------
(* The class of a command suits the id of its second read.                 *)

LinkedCommands == {class \in Linked : MKLoadCommand \in Superclasses[class]}

\* The classes that are listed hold those of the program, and a class is made for an id.
ListedInv ==
  /\ cache # {} => LinkedCommands \subseteq cache
  /\ \A t \in Threads : pc[t] = "store" => LinkedCommands \subseteq listed[t]
  /\ \A cmd \in DOMAIN runtimeLCDict : runtimeLCDict[cmd].id = cmd

\* The class, or one it extends, is the answer to a lookup of the id.
Suits(set, made, class, cmd) == \E super \in Supers(class) : Settled(set, made, cmd, super)

\* The check of a command ends with its class settled for the id that was read again.
SuitsInv(t) ==
  /\ pc[t] = "fields" => Suits(cache, runtimeLCDict, image[t].class, image[t].cmd)
  /\ \A n \in 1 .. Len(image[t].commands) :
       Suits(cache, runtimeLCDict, image[t].commands[n].class, image[t].commands[n].cmd)

AllSuit == KitInv /\ ListedInv /\ \A t \in Threads : SuitsInv(t)

\* No class of a set ranks higher than the best of it, which ranks at all unless it is MKLoadCommand.
LEMMA BestRanks ==
  ASSUME NEW set, set # {}, NEW cmd \in Word
  PROVE  LET best == bestSubclassWithRanking(set, cmd)
         IN  /\ \A other \in set : RankOf(other, cmd) <= RankOf(best, cmd)
             /\ best # MKLoadCommand => RankOf(best, cmd) > 0
<1> DEFINE best == bestSubclassWithRanking(set, cmd)
           top == CHOOSE class \in set : \A other \in set : RankOf(other, cmd) <= RankOf(class, cmd)
<1>1. top \in set /\ \A other \in set : RankOf(other, cmd) <= RankOf(top, cmd)
  <2>1. \E class \in set : \A other \in set : RankOf(other, cmd) <= RankOf(class, cmd) BY BestExists
  <2>2. QED BY <2>1, Zenon
<1>2. best = IF RankOf(top, cmd) > 0 THEN top ELSE MKLoadCommand
  BY Zenon DEF bestSubclassWithRanking
<1>3. RankOf(MKLoadCommand, cmd) = 0 BY KitAssumption DEF RankOf, Classes
<1>4. \A class : RankOf(class, cmd) \in Nat BY RanksAreWords DEF Word
<1> HIDE DEF best, top
<1>5. CASE RankOf(top, cmd) > 0 BY <1>1, <1>2, <1>5 DEF best
<1>6. CASE ~(RankOf(top, cmd) > 0)
  <2>1. best = MKLoadCommand /\ RankOf(top, cmd) = 0 BY <1>2, <1>4, <1>6
  <2>2. QED BY <1>1, <1>3, <2>1 DEF best
<1>7. QED BY <1>5, <1>6

\* An answer to a lookup is a class of load commands that suits the id best.
LEMMA SettledIsBest ==
  ASSUME KitInv, ListedInv, NEW cmd \in Word, NEW class, Settled(cache, runtimeLCDict, cmd, class)
  PROVE  class # MKLoadCommand /\ BestOf(class, cmd)
<1> DEFINE best == bestSubclassWithRanking(cache, cmd)
<1>1. /\ cache # {} /\ best \in cache \union {MKLoadCommand}
      /\ \A other \in cache : RankOf(other, cmd) <= RankOf(best, cmd)
      /\ best # MKLoadCommand => RankOf(best, cmd) > 0
  BY BestType, BestRanks DEF Settled
<1>2. IF best # MKLoadCommand THEN class = best
      ELSE cmd \in DOMAIN runtimeLCDict /\ class = runtimeLCDict[cmd]
  BY DEF Settled
<1> HIDE DEF best
<1>3. \A other \in Linked : RankOf(other, cmd) <= RankOf(best, cmd)
  <2>1. TAKE other \in Linked
  <2>2. CASE other \in LinkedCommands BY <1>1, <2>2 DEF ListedInv
  <2>3. CASE other \notin LinkedCommands
    <3>1. RankOf(other, cmd) = 0 BY <2>3, KitAssumption DEF LinkedCommands, RankOf, Classes
    <3>2. RankOf(best, cmd) \in Nat BY RanksAreWords DEF Word
    <3>3. QED BY <3>1, <3>2
  <2>4. QED BY <2>2, <2>3
<1>4. CASE best # MKLoadCommand BY <1>1, <1>2, <1>3, <1>4 DEF BestOf
<1>5. CASE best = MKLoadCommand
  <2>1. class \in RuntimeClass /\ class.id = cmd
    BY <1>2, <1>5 DEF KitInv, TypeInv, TypeOK, ListedInv
  <2>2. class \notin Classes /\ MKLoadCommand \in Classes
    BY <2>1, KitAssumption DEF RuntimeClass, Classes
  <2>3. RankOf(class, cmd) = 0 /\ RankOf(best, cmd) = 0 /\ IDOf(class) = cmd
    BY <1>5, <2>1, <2>2, KitAssumption DEF RankOf, IDOf
  <2>4. QED BY <1>3, <2>2, <2>3 DEF BestOf
<1>6. QED BY <1>4, <1>5

\* The classes are listed once, and one is made for an id that has none.
SharedGrows == (cache # {} => cache' = cache) /\ Grows(runtimeLCDict, runtimeLCDict')

LEMMA SuitsStays ==
  ASSUME SharedGrows, NEW class, NEW cmd, Suits(cache, runtimeLCDict, class, cmd)
  PROVE  Suits(cache', runtimeLCDict', class, cmd)
BY SettledStays DEF SharedGrows, Suits

LEMMA LookupGrows ==
  ASSUME KitInv, NEW t \in Threads, Lookup(t)
  PROVE  SharedGrows
<1>1. ThreadInv(t) BY DEF KitInv
<1>2. CASE FillCache(t) BY <1>1, <1>2 DEF FillCache, ThreadInv, SharedGrows, Grows
<1>3. CASE RegisterClass(t)
  <2>1. id[t] \notin DOMAIN runtimeLCDict /\ cache' = cache BY <1>1, <1>3 DEF RegisterClass, ThreadInv
  <2>2. QED BY <1>3, <2>1 DEF RegisterClass, SharedGrows, Grows
<1>4. CASE UseCache(t) \/ MissCache(t) \/ CopyClassList(t) \/ UseRuntimeClass(t)
           \/ MissRuntimeClass(t) \/ AllocateClass(t)
  BY <1>4 DEF UseCache, MissCache, CopyClassList, UseRuntimeClass, MissRuntimeClass, AllocateClass,
              SharedGrows, Grows, shared
<1>5. QED BY <1>2, <1>3, <1>4 DEF Lookup

LEMMA ListedStep ==
  ASSUME KitInv, ListedInv, NEW t \in Threads, Lookup(t)
  PROVE  ListedInv'
<1>1. /\ ThreadInv(t) /\ TypeInv /\ listed \in [Threads -> SUBSET AnyClass] /\ pc \in [Threads -> Places]
  BY DEF KitInv, TypeInv, TypeOK
<1>2. ASSUME NEW class, Found(t, class) PROVE \A u \in Threads : pc'[u] = "store" => pc[u] = "store"
  BY <1>1, <1>2 DEF Found
<1>3. ASSUME NEW set, Ranked(t, set) PROVE \A u \in Threads : pc'[u] = "store" => pc[u] = "store"
  <2>1. CASE pc' = [pc EXCEPT ![t] = "unknown"] BY <1>1, <2>1
  <2>2. QED BY <1>2, <1>3, <2>1, Zenon DEF Ranked
<1>4. CASE UseCache(t) \/ UseRuntimeClass(t)
  BY <1>2, <1>3, <1>4 DEF UseCache, UseRuntimeClass, ListedInv, shared, locals
<1>5. CASE MissCache(t) \/ MissRuntimeClass(t) \/ AllocateClass(t)
  BY <1>1, <1>5 DEF MissCache, MissRuntimeClass, AllocateClass, ListedInv, locals
<1>6. CASE CopyClassList(t)
  <2>1. LinkedCommands \subseteq subclasses
    BY <1>1 DEF LinkedCommands, subclasses, TypeInv
  <2> HIDE DEF LinkedCommands, subclasses
  <2>2. QED BY <1>1, <1>6, <2>1 DEF CopyClassList, ListedInv, shared
<1>7. CASE FillCache(t) BY <1>3, <1>7 DEF FillCache, ListedInv, locals
<1>8. CASE RegisterClass(t)
  <2> DEFINE class == [id |-> id[t], by |-> t]
  <2>1. /\ Found(t, class) /\ cache' = cache /\ listed' = listed
        /\ runtimeLCDict' = [c \in DOMAIN runtimeLCDict \union {id[t]} |->
                               IF c = id[t] THEN class ELSE runtimeLCDict[c]]
    BY <1>8 DEF RegisterClass, locals
  <2>2. class.id = id[t] OBVIOUS
  <2> HIDE DEF class
  <2>3. \A cmd \in DOMAIN runtimeLCDict' : runtimeLCDict'[cmd].id = cmd BY <2>1, <2>2 DEF ListedInv
  <2>4. QED BY <1>2, <2>1, <2>3 DEF ListedInv
<1>9. QED BY <1>4, <1>5, <1>6, <1>7, <1>8 DEF Lookup

\* A class that passes the check is a subclass of the one that is settled.
LEMMA FoundSuits ==
  ASSUME KitInv, NEW t \in Threads, NEW class, Found(t, class), pc[t] \in Looking,
         Settled(cache', runtimeLCDict', id[t], class)
  PROVE  pc'[t] = "fields" => Suits(cache', runtimeLCDict', image'[t].class, image'[t].cmd)
<1>1. ThreadInv(t) /\ pc \in [Threads -> Places] /\ stage[t] \in {"choose", "check"}
  BY DEF KitInv, TypeInv, TypeOK
<1>2. CASE stage[t] = "choose" BY <1>1, <1>2 DEF Found
<1>3. CASE stage[t] = "check"
  <2>1. id[t] = image[t].cmd /\ image' = image BY <1>1, <1>3 DEF ThreadInv, Found
  <2>2. pc'[t] = "fields" => class \in Supers(image[t].class)
    BY <1>1, <1>3 DEF Found, isSubclassOfClass
  <2>3. QED BY <2>1, <2>2 DEF Suits
<1>4. QED BY <1>1, <1>2, <1>3

LEMMA RankedSuits ==
  ASSUME KitInv, NEW t \in Threads, Ranked(t, cache'), cache' # {}, pc[t] \in Looking
  PROVE  pc'[t] = "fields" => Suits(cache', runtimeLCDict', image'[t].class, image'[t].cmd)
<1> DEFINE best == bestSubclassWithRanking(cache', id[t])
<1>1. CASE best # MKLoadCommand
  <2>1. Found(t, best) /\ Settled(cache', runtimeLCDict', id[t], best) BY <1>1 DEF Ranked, Settled
  <2> HIDE DEF best, Looking
  <2>2. QED BY <2>1, FoundSuits
<1>2. CASE best = MKLoadCommand
  <2>1. pc' = [pc EXCEPT ![t] = "unknown"] BY <1>2 DEF Ranked
  <2>2. QED BY <2>1 DEF KitInv, TypeInv, TypeOK
<1>3. QED BY <1>1, <1>2

LEMMA LookupSuits ==
  ASSUME KitInv, NEW t \in Threads, Lookup(t)
  PROVE  pc'[t] = "fields" => Suits(cache', runtimeLCDict', image'[t].class, image'[t].cmd)
<1>1. ThreadInv(t) /\ TypeInv /\ pc \in [Threads -> Places] BY DEF KitInv, TypeInv, TypeOK
<1>2. pc[t] \in Looking
  BY DEF Lookup, UseCache, MissCache, CopyClassList, FillCache, UseRuntimeClass, MissRuntimeClass,
         AllocateClass, RegisterClass, Looking, Inside
<1>3. CASE UseCache(t)
  <2>1. cache' # {} /\ Ranked(t, cache') BY <1>3 DEF UseCache, shared
  <2>2. QED BY <1>2, <2>1, RankedSuits
<1>4. CASE FillCache(t)
  <2>1. cache' # {} /\ Ranked(t, cache') BY <1>1, <1>4 DEF FillCache, TypeInv
  <2>2. QED BY <1>2, <2>1, RankedSuits
<1>5. CASE UseRuntimeClass(t) \/ RegisterClass(t)
  <2>1. cache' = cache /\ cache # {} /\ bestSubclassWithRanking(cache, id[t]) = MKLoadCommand
    BY <1>1, <1>5 DEF UseRuntimeClass, RegisterClass, shared, ThreadInv
  <2>2. Found(t, runtimeLCDict'[id[t]]) /\ id[t] \in DOMAIN runtimeLCDict'
    <3>1. CASE UseRuntimeClass(t) BY <3>1 DEF UseRuntimeClass, shared
    <3>2. CASE RegisterClass(t)
      <4> DEFINE class == [id |-> id[t], by |-> t]
      <4>1. /\ Found(t, class)
            /\ runtimeLCDict' = [c \in DOMAIN runtimeLCDict \union {id[t]} |->
                                   IF c = id[t] THEN class ELSE runtimeLCDict[c]]
        BY <3>2 DEF RegisterClass
      <4> HIDE DEF class
      <4>2. runtimeLCDict'[id[t]] = class /\ id[t] \in DOMAIN runtimeLCDict' BY <4>1
      <4>3. QED BY <4>1, <4>2
    <3>3. QED BY <1>5, <3>1, <3>2
  <2>3. Settled(cache', runtimeLCDict', id[t], runtimeLCDict'[id[t]]) BY <2>1, <2>2 DEF Settled
  <2>4. QED BY <1>2, <2>2, <2>3, FoundSuits
<1>6. CASE MissCache(t) \/ CopyClassList(t) \/ MissRuntimeClass(t) \/ AllocateClass(t)
  BY <1>1, <1>6 DEF MissCache, CopyClassList, MissRuntimeClass, AllocateClass
<1>7. QED BY <1>3, <1>4, <1>5, <1>6 DEF Lookup

\* A lookup adds no command.
LEMMA LookupAddsNone ==
  ASSUME TypeInv, NEW t \in Threads, Lookup(t)
  PROVE  /\ image'[t].commands = image[t].commands
         /\ \A u \in Threads \ {t} : pc'[u] = pc[u] /\ image'[u] = image[u]
<1>0. pc \in [Threads -> Places] /\ image \in [Threads -> Image] /\ image[t] \in Image
  BY DEF TypeInv, TypeOK
<1>1. Moved(t) BY LookupMoved
<1>2. image'[t].commands = image[t].commands /\ \A u \in Threads \ {t} : image'[u] = image[u]
  <2>1. CASE image' = image BY <2>1
  <2>2. CASE image' # image
    <3>1. PICK class : image' = [image EXCEPT ![t] = [image[t] EXCEPT !.class = class]]
      BY <1>1, <2>2 DEF Moved
    <3>2. QED BY <1>0, <3>1 DEF Image
  <2>3. QED BY <2>1, <2>2
<1>3. QED BY <1>0, <1>1, <1>2 DEF Moved

\* Steps outside the lookups leave the classes alone; only the last read of a command adds one.
LEMMA WalkSuits ==
  ASSUME AllSuit, NEW t \in Threads, OpenImage(t) \/ (Step(t) /\ ~Lookup(t))
  PROVE  (\A u \in Threads : SuitsInv(u)') /\ ListedInv'
<1>0. /\ pc \in [Threads -> Places] /\ image \in [Threads -> Image] /\ image[t] \in Image
      /\ SuitsInv(t) /\ TypeInv
  BY DEF AllSuit, KitInv, TypeInv, TypeOK
<1>1. cache' = cache /\ runtimeLCDict' = runtimeLCDict /\ listed' = listed
  BY DEF Step, OpenImage, ReadHeader, NextCommand, InitCommand, ReadFields, EndCommands, ComputeSlide,
         shared, locals
<1>2. PICK place \in Places \ {"store", "fields"} : pc' = [pc EXCEPT ![t] = place]
  BY DEF Step, OpenImage, ReadHeader, NextCommand, InitCommand, ReadFields, EndCommands, ComputeSlide,
         Fail, Unreadable, Places
<1>3. \A u \in Threads \ {t} : pc'[u] = pc[u] /\ image'[u] = image[u]
  <2>1. \A u \in Threads \ {t} : pc'[u] = pc[u] BY <1>0, <1>2
  <2>2. ASSUME NEW new, image' = [image EXCEPT ![t] = new]
        PROVE  \A u \in Threads \ {t} : image'[u] = image[u]
    BY <1>0, <2>2
  <2>3. image' = image \/ \E new : image' = [image EXCEPT ![t] = new]
    <3>1. CASE OpenImage(t) BY <3>1, <1>0 DEF OpenImage
    <3>2. CASE ReadHeader(t)
      <4> DEFINE size == SizeOfHeader(image[t].magic)
                 pointerSize == IF At(1) \in CPU_TYPES_64 \/ image[t].magic = MH_MAGIC_64 THEN 8 ELSE 4
                 new == [image[t] EXCEPT !.pointerSize = pointerSize, !.ncmds = At(3), !.left = At(3),
                                         !.end = size + At(4), !.offset = size]
      <4>1. image' = image \/ image' = [image EXCEPT ![t] = new] BY <1>0, <3>2, Zenon DEF ReadHeader
      <4> HIDE DEF new
      <4>2. QED BY <4>1
    <3>3. CASE NextCommand(t) BY <3>3, <1>0, ZenonT(60) DEF NextCommand, Unreadable
    <3>4. CASE InitCommand(t) BY <3>4, <1>0, ZenonT(60) DEF InitCommand, Unreadable
    <3>5. CASE ReadFields(t) BY <3>5, <1>0, ZenonT(60) DEF ReadFields, Unreadable
    <3>6. CASE EndCommands(t) \/ ComputeSlide(t) BY <3>6 DEF EndCommands, ComputeSlide
    <3>7. QED BY <3>1, <3>2, <3>3, <3>4, <3>5, <3>6 DEF Step
  <2>4. QED BY <2>1, <2>2, <2>3
<1>4. ListedInv'
  <2>1. \A u \in Threads : pc'[u] = "store" => pc[u] = "store" BY <1>0, <1>2
  <2>2. QED BY <1>1, <2>1 DEF AllSuit, ListedInv
<1>5. \A u \in Threads \ {t} : SuitsInv(u)' BY <1>1, <1>3 DEF AllSuit, SuitsInv
<1>6. pc'[t] # "fields" BY <1>0, <1>2
<1>7. ASSUME image'[t].commands = image[t].commands PROVE SuitsInv(t)'
  BY <1>0, <1>1, <1>6, <1>7 DEF SuitsInv
<1>8. SuitsInv(t)'
  <2>1. ASSUME Unreadable(t) PROVE image'[t].commands = image[t].commands
    <3>1. image' = [image EXCEPT ![t] = [image[t] EXCEPT !.warned = TRUE]] BY <2>1 DEF Unreadable
    <3>2. QED BY <1>0, <3>1 DEF Image
  <2>2. CASE OpenImage(t) \/ ReadHeader(t)
    <3>1. CASE image' = image BY <1>7, <3>1
    <3>2. CASE OpenImage(t) /\ image' # image
      <4>1. image' = [image EXCEPT ![t] = [image[t] EXCEPT !.magic = At(0)]] BY <3>2 DEF OpenImage
      <4>2. QED BY <1>0, <1>7, <4>1 DEF Image
    <3>3. CASE ReadHeader(t) /\ image' # image
      <4> DEFINE size == SizeOfHeader(image[t].magic)
                 pointerSize == IF At(1) \in CPU_TYPES_64 \/ image[t].magic = MH_MAGIC_64 THEN 8 ELSE 4
                 new == [image[t] EXCEPT !.pointerSize = pointerSize, !.ncmds = At(3), !.left = At(3),
                                         !.end = size + At(4), !.offset = size]
      <4>1. image' = [image EXCEPT ![t] = new] BY <1>0, <3>3, Zenon DEF ReadHeader
      <4>2. new.commands = image[t].commands
        <5> HIDE DEF size, pointerSize
        <5>1. QED BY <1>0 DEF Image
      <4> HIDE DEF new, Image
      <4>3. QED BY <1>0, <1>7, <4>1, <4>2
    <3>4. QED BY <2>2, <3>1, <3>2, <3>3
  <2>3. CASE NextCommand(t)
    <3> DEFINE word == At(image[t].offset)
    <3>1. CASE image' = [image EXCEPT ![t] = [image[t] EXCEPT !.left = @ - 1, !.read = word]]
      <4> HIDE DEF word
      <4>1. QED BY <1>0, <1>7, <3>1 DEF Image
    <3>2. QED BY <1>0, <1>7, <2>1, <2>3, <3>1, Zenon DEF NextCommand
  <2>4. CASE InitCommand(t)
    <3> DEFINE word == At(image[t].offset)
               size == At(image[t].offset + 1)
    <3>1. CASE image' = [image EXCEPT ![t] = [image[t] EXCEPT !.cmd = word, !.size = size]]
      <4> HIDE DEF word, size
      <4>1. QED BY <1>0, <1>7, <3>1 DEF Image
    <3>2. QED BY <1>0, <1>7, <2>1, <2>4, <3>1, Zenon DEF InitCommand
  <2>5. CASE ReadFields(t) /\ ~Has(image[t].offset, FieldsOf(image[t].class))
    BY <1>7, <2>1, <2>5 DEF ReadFields
  <2>6. CASE ReadFields(t) /\ Has(image[t].offset, FieldsOf(image[t].class))
    <3> DEFINE i == image[t]
               c == CommandRead(t)
               new == [i EXCEPT !.commands = Append(i.commands, c), !.offset = i.offset + i.size,
                                !.warned = i.warned \/ Exceeds(i)]
    <3>1. image' = [image EXCEPT ![t] = new] /\ pc[t] = "fields"
      BY <1>0, <2>6, Zenon DEF ReadFields, CommandRead
    <3>2. new.commands = Append(i.commands, c)
      <4> HIDE DEF c
      <4>1. QED BY <1>0 DEF Image
    <3> HIDE DEF new
    <3>3. image'[t].commands = Append(i.commands, c) BY <1>0, <3>1, <3>2
    <3>4. i.commands \in Seq(Command) /\ c \in Command BY <1>0, <2>6, ImageType, CommandReadType
    <3>5. c.class = i.class /\ c.cmd = i.cmd BY DEF CommandRead
    <3> HIDE DEF c
    <3>6. ASSUME NEW n \in 1 .. Len(image'[t].commands)
          PROVE  Suits(cache, runtimeLCDict, image'[t].commands[n].class, image'[t].commands[n].cmd)
      <4>1. CASE n = Len(i.commands) + 1
        <5>1. image'[t].commands[n] = c BY <3>3, <3>4, <4>1
        <5>2. QED BY <1>0, <3>1, <3>5, <5>1 DEF SuitsInv
      <4>2. CASE n # Len(i.commands) + 1
        <5>1. n \in 1 .. Len(i.commands) /\ image'[t].commands[n] = i.commands[n]
          BY <3>3, <3>4, <3>6, <4>2
        <5>2. QED BY <1>0, <5>1 DEF SuitsInv
      <4>3. QED BY <4>1, <4>2
    <3>7. QED BY <1>1, <1>6, <3>6 DEF SuitsInv
  <2>7. CASE EndCommands(t) \/ ComputeSlide(t) BY <1>7, <2>7 DEF EndCommands, ComputeSlide
  <2>8. QED BY <2>2, <2>3, <2>4, <2>5, <2>6, <2>7 DEF Step
<1>9. QED BY <1>4, <1>5, <1>8

LEMMA SuitsInvariant == Spec => []AllSuit
<1>1. Init => AllSuit
  <2> SUFFICES ASSUME Init PROVE AllSuit OBVIOUS
  <2>1. \A t \in Threads : pc[t] = "closed" /\ image[t].commands = <<>> BY DEF Init, NoImage
  <2>2. ListedInv BY <2>1 DEF Init, ListedInv
  <2>3. \A t \in Threads : SuitsInv(t) BY <2>1 DEF SuitsInv
  <2>4. QED BY <2>2, <2>3, KitInit DEF AllSuit
<1>2. AllSuit /\ [Next]_vars => AllSuit'
  <2> SUFFICES ASSUME AllSuit, [Next]_vars PROVE AllSuit' OBVIOUS
  <2>0. KitInv /\ ListedInv /\ TypeInv BY DEF AllSuit, KitInv
  <2>1. KitInv' BY <2>0, KitStep
  <2>2. ASSUME NEW t \in Threads, Lookup(t)
        PROVE  (\A u \in Threads : SuitsInv(u)') /\ ListedInv'
    <3>1. SharedGrows BY <2>0, <2>2, LookupGrows
    <3>2. /\ image'[t].commands = image[t].commands
          /\ \A u \in Threads \ {t} : pc'[u] = pc[u] /\ image'[u] = image[u]
      BY <2>0, <2>2, LookupAddsNone
    <3>3. pc'[t] = "fields" => Suits(cache', runtimeLCDict', image'[t].class, image'[t].cmd)
      BY <2>0, <2>2, LookupSuits
    <3>4. \A class, cmd : Suits(cache, runtimeLCDict, class, cmd) => Suits(cache', runtimeLCDict', class, cmd)
      BY <3>1, SuitsStays
    <3>5. \A u \in Threads : SuitsInv(u) BY DEF AllSuit
    <3>6. \A u \in Threads : SuitsInv(u)' BY <3>2, <3>3, <3>4, <3>5 DEF SuitsInv
    <3>7. QED BY <2>0, <2>2, <3>6, ListedStep
  <2>3. ASSUME NEW t \in Threads, OpenImage(t) \/ Step(t)
        PROVE  (\A u \in Threads : SuitsInv(u)') /\ ListedInv'
    BY <2>2, <2>3, WalkSuits
  <2>4. CASE LoadClass \/ ChangeTarget \/ UNCHANGED vars
    <3>1. UNCHANGED <<cache, runtimeLCDict, listed, pc, image>>
      BY <2>4 DEF LoadClass, ChangeTarget, vars, shared, locals
    <3>2. QED BY <2>1, <3>1 DEF AllSuit, ListedInv, SuitsInv
  <2>5. QED BY <2>1, <2>3, <2>4 DEF Next, AllSuit
<1>3. QED BY <1>1, <1>2, PTL DEF Spec

----------------------------------------------------------------------------
(* The theorems.                                                           *)

\* However many threads open images of whatever commands, and whatever classes the program loads
\* in between, commands of one id that do not change while they are read have one class.
THEOREM OneClass == Spec => []OneClassPerCommand
<1>1. KitInv => OneClassPerCommand
  <2>1. ASSUME KitInv, NEW c \in Commands PROVE Settled(cache, runtimeLCDict, c.read, c.class)
    <3>1. PICK t \in Threads : c \in Range(image[t].commands) BY <2>1 DEF Commands
    <3>2. image[t].commands \in Seq(Command) BY <2>1, ImageType DEF KitInv
    <3>3. PICK n \in 1 .. Len(image[t].commands) : c = image[t].commands[n]
      BY <3>1, <3>2 DEF Range
    <3>4. QED BY <2>1, <3>3 DEF KitInv, CommandsInv
  <2>2. QED BY <2>1, SettledOnce DEF OneClassPerCommand, Agrees
<1>2. QED BY <1>1, KitInvariant, PTL

\* An exception is the answer only to a command that changed while it was read, or to a class of
\* the program that has the name of the class to be made.
THEOREM OnlyChangesRefused == Spec => []OnlyChangesAreRefused
<1>1. KitInv => OnlyChangesAreRefused BY DEF KitInv, RefusedInv, OnlyChangesAreRefused
<1>2. QED BY <1>1, KitInvariant, PTL

\* Whatever the target holds and however it changes meanwhile, an image that opens without a
\* warning has the commands its header counts, one after the other inside sizeofcmds.
THEOREM SilenceIsComplete == Spec => []SilentIsComplete
<1>1. TypeInv /\ (\A t \in Threads : SilentInv(t)) => SilentIsComplete
  <2> SUFFICES ASSUME TypeInv, NEW t \in Threads, SilentInv(t), pc[t] = "open", ~image[t].warned
               PROVE  LET i == image[t]
                          End(n) == i.commands[n].at + i.commands[n].size
                      IN  /\ Len(i.commands) = i.ncmds
                          /\ \A n \in 1 .. i.ncmds : End(n) <= i.end
                          /\ \A n \in 1 .. i.ncmds - 1 : i.commands[n + 1].at = End(n)
    BY DEF SilentIsComplete
  <2>1. Chained(image[t]) /\ Len(image[t].commands) = image[t].ncmds BY DEF SilentInv, Counted
  <2>2. QED BY <2>1 DEF Chained, Ends
<1>2. QED BY <1>1, SilentInvariant, PTL

\* Every command an image holds is of the class that suits its id best among those linked into the
\* program, or of a subclass of it, even if the id changed after the class was chosen, and however
\* the lookups of other threads interleave.
THEOREM ClassesSuit == Spec => []ClassSuitsCommand
<1>1. AllSuit => ClassSuitsCommand
  <2> SUFFICES ASSUME AllSuit, NEW c \in Commands
               PROVE  \E class \in Supers(c.class) : class # MKLoadCommand /\ BestOf(class, c.cmd)
    BY DEF ClassSuitsCommand
  <2>1. PICK t \in Threads : c \in Range(image[t].commands) BY DEF Commands
  <2>2. image[t].commands \in Seq(Command) BY ImageType DEF AllSuit, KitInv
  <2>3. PICK n \in 1 .. Len(image[t].commands) : c = image[t].commands[n] BY <2>1, <2>2 DEF Range
  <2>4. c.cmd \in Word
    <3>1. c \in Command BY <2>2, <2>3
    <3>2. QED BY <3>1 DEF Command
  <2>5. PICK class \in Supers(c.class) : Settled(cache, runtimeLCDict, c.cmd, class)
    BY <2>3 DEF AllSuit, SuitsInv, Suits
  <2>6. QED BY <2>4, <2>5, SettledIsBest DEF AllSuit
<1>2. QED BY <1>1, SuitsInvariant, PTL

=============================================================================
