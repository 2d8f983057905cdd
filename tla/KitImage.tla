------------------------------ MODULE KitImage ------------------------------
(***************************************************************************)
(* Opening Mach-O images with MachOKit: MKMachOImage of MKMachO.m, and the *)
(* choice of a class for every load command in MKLoadCommand.m and         *)
(* MKNode.m.  Threads open images independently of each other; what they   *)
(* share is the set of subclasses, which is listed once, and the classes   *)
(* made at run time for commands that have none.  A load command is read   *)
(* three times, for its class, by MKLoadCommand and by its class, and the  *)
(* target may change in between.  Memory is a sequence of words, one per   *)
(* field, in the byte order of the host.                                   *)
(***************************************************************************)
EXTENDS VMArith, Sequences, FiniteSets, SequencesExt

CONSTANTS
  Threads, NoThread,
  FromMemory,      \* the threads that open images loaded by dyld (MKMachOImageProcessedByDYLD)
  Targets,         \* the images the target may hold
  Rewrites,        \* pairs of a place in the target and the word written there
  MaxChanges,      \* bounds the changes of the target
  ContextAddress,  \* where the target holds the image
  MKLoadCommand,   \* the class of all load commands
  Linked,          \* classes the program has from the start
  Loadable,        \* classes that it may load later
  MaxLoads,        \* bounds how many of them it does
  Superclasses,    \* of a class: those it is a subclass of, itself included
  Rank,            \* of a class and an id: canInstantiateWithLoadCommandID
  ID,              \* of a class: the id of its commands
  Name,            \* of a class
  RuntimeName,     \* of an id: how a class for it is called when it is made
  Fields           \* of a class: the words of a command that its initialiser reads

CONSTANTS MH_MAGIC, MH_MAGIC_64, SupportedTypes, CPU_TYPES_64, LC_SEGMENT, LC_SEGMENT_64

Classes == Linked \union Loadable

ASSUME KitAssumption ==
  /\ NoThread \notin Threads /\ FromMemory \subseteq Threads
  /\ \A image \in Targets : image \in Seq(Word)
  /\ Rewrites \subseteq Nat \X Word /\ MaxChanges \in Nat /\ MaxLoads \in Nat
  /\ ContextAddress \in Word
  /\ MKLoadCommand \in Linked
  /\ \A class \in Classes : class \in Superclasses[class] /\ Superclasses[class] \subseteq Classes
  /\ Rank \in [Classes -> [Word -> Word]] /\ \A id \in Word : Rank[MKLoadCommand][id] = 0
  /\ \A class \in Classes : \* only load commands are ranked, and a class made at run time is new
       /\ MKLoadCommand \notin Superclasses[class] => \A id \in Word : Rank[class][id] = 0
       /\ class \notin [id : Word, by : Threads]
  /\ \A a, b \in Word : RuntimeName[a] = RuntimeName[b] => a = b
  /\ Fields \in [Classes -> Nat]
  /\ \A class \in Classes : ID[class] \in {LC_SEGMENT, LC_SEGMENT_64} => Fields[class] >= 5

VARIABLES
  target,         \* the words of the image
  changes,        \* how often the target has changed
  loaded,         \* the classes of the program
  registered,     \* the classes made at run time, each with the thread that made it
  cache,          \* _subclasses: the set of classes listed first, empty before
  runtimeLCDict,  \* from ids to classes made at run time
  lock,           \* the thread inside @synchronized (MKLoadCommand)
  pc,             \* where a thread is
  stage,          \* of a lookup: whether it chooses the class or checks it
  id,             \* the id that is looked up
  listed,         \* the local set of +subclasses
  image,          \* the MKMachOImage a thread opens
  placed          \* its address and slide, once they are known

shared == <<registered, cache, runtimeLCDict, lock>>
world == <<target, changes, loaded>>
locals == <<stage, id, listed>>
vars == <<world, shared, locals, pc, image, placed>>

----------------------------------------------------------------------------
(* Memory.                                                                 *)

Has(offset, length) == offset + length <= Len(target)
At(offset) == target[offset + 1]

SizeOfHeader(magic) == IF magic = MH_MAGIC THEN 5 ELSE 6

----------------------------------------------------------------------------
(* Classes.                                                                *)

Supers(class) == IF class \in Classes THEN Superclasses[class] ELSE {class, MKLoadCommand}
RankOf(class, cmd) == IF class \in Classes THEN Rank[class][cmd] ELSE 0
IDOf(class) == IF class \in Classes THEN ID[class] ELSE class.id
FieldsOf(class) == IF class \in Classes THEN Fields[class] ELSE 2

\* Of classes with the same rank the sort leaves one last, for the same set always the same.
bestSubclassWithRanking(set, cmd) ==
  LET best == CHOOSE class \in set : \A other \in set : RankOf(other, cmd) <= RankOf(class, cmd)
  IN  IF RankOf(best, cmd) > 0 THEN best ELSE MKLoadCommand

subclasses == {class \in loaded : MKLoadCommand \in Superclasses[class]} \union registered

NameTaken(cmd) ==
  \/ \E class \in loaded : Name[class] = RuntimeName[cmd]
  \/ \E class \in registered : RuntimeName[class.id] = RuntimeName[cmd]

----------------------------------------------------------------------------
(* Opening an image up to its first load command.                          *)

Fail(t) == pc' = [pc EXCEPT ![t] = "failed"]

\* The magic decides on the header and on the data model.
OpenImage(t) ==
  /\ pc[t] = "closed"
  /\ IF Has(0, 1) /\ At(0) \in {MH_MAGIC, MH_MAGIC_64}
     THEN /\ pc' = [pc EXCEPT ![t] = "header"]
          /\ image' = [image EXCEPT ![t].magic = At(0)]
     ELSE Fail(t) /\ UNCHANGED image
  /\ UNCHANGED <<world, shared, locals, placed>>

\* A CPU type may select a data model that does not go with the magic.
ReadHeader(t) ==
  /\ pc[t] = "header"
  /\ LET size == SizeOfHeader(image[t].magic)
     IN  IF Has(0, size) /\ At(2) \in SupportedTypes
         THEN /\ pc' = [pc EXCEPT ![t] = "next"]
              /\ image' = [image EXCEPT
                   ![t].pointerSize = IF At(1) \in CPU_TYPES_64 \/ image[t].magic = MH_MAGIC_64 THEN 8 ELSE 4,
                   ![t].ncmds = At(3), ![t].left = At(3),
                   ![t].end = size + At(4), ![t].offset = size]
         ELSE Fail(t) /\ UNCHANGED image
  /\ UNCHANGED <<world, shared, locals, placed>>

----------------------------------------------------------------------------
(* The class for an id: classForCommandID.                                 *)

isSubclassOfClass(class, other) == other \in Supers(class)

\* Mutant of Found: the class of a command is not compared with the one it was made for.
FoundUnchecked(t, class) ==
  /\ pc' = [pc EXCEPT ![t] = IF stage[t] = "choose" THEN "init" ELSE "fields"]
  /\ image' = [image EXCEPT ![t].class = IF stage[t] = "choose" THEN class ELSE @]

\* The lookup has found a class: for the command to come, or to compare with that of the command.
Found(t, class) ==
  IF stage[t] = "choose"
  THEN /\ pc' = [pc EXCEPT ![t] = "init"]
       /\ image' = [image EXCEPT ![t].class = class]
  ELSE /\ pc' = [pc EXCEPT ![t] = IF isSubclassOfClass(image[t].class, class)
                                  THEN "fields" ELSE "thrown"]
       /\ UNCHANGED image

Ranked(t, set) ==
  LET best == bestSubclassWithRanking(set, id[t])
  IN  IF best # MKLoadCommand THEN Found(t, best)
      ELSE pc' = [pc EXCEPT ![t] = "unknown"] /\ UNCHANGED image

\* +subclasses: under the lock, the set that was listed before, or a new one.
UseCache(t) ==
  /\ pc[t] = "lookup" /\ lock = NoThread
  /\ cache # {}
  /\ Ranked(t, cache)
  /\ UNCHANGED <<world, shared, locals, placed>>

MissCache(t) ==
  /\ pc[t] = "lookup" /\ lock = NoThread
  /\ cache = {}
  /\ lock' = t
  /\ pc' = [pc EXCEPT ![t] = "list"]
  /\ UNCHANGED <<world, registered, cache, runtimeLCDict, locals, image, placed>>

CopyClassList(t) ==
  /\ pc[t] = "list"
  /\ listed' = [listed EXCEPT ![t] = subclasses]
  /\ pc' = [pc EXCEPT ![t] = "store"]
  /\ UNCHANGED <<world, shared, stage, id, image, placed>>

\* Mutant of FillCache: every lookup lists the classes anew.
FillCacheForgets(t) ==
  /\ pc[t] = "store"
  /\ lock' = NoThread
  /\ Ranked(t, listed[t])
  /\ UNCHANGED <<world, registered, cache, runtimeLCDict, locals, placed>>

FillCache(t) ==
  /\ pc[t] = "store"
  /\ cache' = listed[t]
  /\ lock' = NoThread
  /\ Ranked(t, listed[t])
  /\ UNCHANGED <<world, registered, runtimeLCDict, locals, placed>>

\* No class can be instantiated: under the lock, one made before, or a new one.
UseRuntimeClass(t) ==
  /\ pc[t] = "unknown" /\ lock = NoThread
  /\ id[t] \in DOMAIN runtimeLCDict
  /\ Found(t, runtimeLCDict[id[t]])
  /\ UNCHANGED <<world, shared, locals, placed>>

MissRuntimeClass(t) ==
  /\ pc[t] = "unknown" /\ lock = NoThread
  /\ id[t] \notin DOMAIN runtimeLCDict
  /\ lock' = t
  /\ pc' = [pc EXCEPT ![t] = "allocate"]
  /\ UNCHANGED <<world, registered, cache, runtimeLCDict, locals, image, placed>>

\* Mutant of AllocateClass: the exception leaves the lock behind it closed.
AllocateClassLocked(t) ==
  /\ pc[t] = "allocate"
  /\ pc' = [pc EXCEPT ![t] = IF NameTaken(id[t]) THEN "thrown" ELSE "register"]
  /\ UNCHANGED <<world, shared, locals, image, placed>>

\* A name that is taken is an exception, which leaves the lock behind it open.
AllocateClass(t) ==
  /\ pc[t] = "allocate"
  /\ IF NameTaken(id[t])
     THEN lock' = NoThread /\ pc' = [pc EXCEPT ![t] = "thrown"]
     ELSE pc' = [pc EXCEPT ![t] = "register"] /\ UNCHANGED lock
  /\ UNCHANGED <<world, registered, cache, runtimeLCDict, locals, image, placed>>

\* Mutant of RegisterClass: the class is not remembered.
RegisterClassForgets(t) ==
  /\ pc[t] = "register"
  /\ LET class == [id |-> id[t], by |-> t]
     IN  registered' = registered \union {class} /\ Found(t, class)
  /\ lock' = NoThread
  /\ UNCHANGED <<world, cache, runtimeLCDict, locals, placed>>

RegisterClass(t) ==
  /\ pc[t] = "register"
  /\ LET class == [id |-> id[t], by |-> t]
     IN  /\ registered' = registered \union {class}
         /\ runtimeLCDict' = [c \in DOMAIN runtimeLCDict \union {id[t]} |->
                                IF c = id[t] THEN class ELSE runtimeLCDict[c]]
         /\ Found(t, class)
  /\ lock' = NoThread
  /\ UNCHANGED <<world, cache, locals, placed>>

----------------------------------------------------------------------------
(* The loop over the load commands.                                        *)

\* The walk has come to where nothing can be read: that is a warning, and its end.
Unreadable(t) ==
  /\ pc' = [pc EXCEPT ![t] = "slide"]
  /\ image' = [image EXCEPT ![t].warned = TRUE]

\* The first read, for the class of the command.
NextCommand(t) ==
  /\ pc[t] = "next" /\ image[t].left > 0
  /\ LET offset == image[t].offset
     IN  IF Has(offset, 1)
         THEN /\ pc' = [pc EXCEPT ![t] = "lookup"]
              /\ stage' = [stage EXCEPT ![t] = "choose"]
              /\ id' = [id EXCEPT ![t] = At(offset)]
              /\ image' = [image EXCEPT ![t].left = @ - 1, ![t].read = At(offset)]
         ELSE Unreadable(t) /\ UNCHANGED <<stage, id>>
  /\ UNCHANGED <<world, shared, listed, placed>>

\* The second, in the initialiser of MKLoadCommand, whose id is looked up again.
InitCommand(t) ==
  /\ pc[t] = "init"
  /\ LET offset == image[t].offset
     IN  IF Has(offset, 2)
         THEN /\ pc' = [pc EXCEPT ![t] = "lookup"]
              /\ stage' = [stage EXCEPT ![t] = "check"]
              /\ id' = [id EXCEPT ![t] = At(offset)]
              /\ image' = [image EXCEPT ![t].cmd = At(offset), ![t].size = At(offset + 1)]
         ELSE Unreadable(t) /\ UNCHANGED <<stage, id>>
  /\ UNCHANGED <<world, shared, listed, placed>>

\* The fields of a segment, and nothing of other commands.
SegmentClasses == {class \in Classes : ID[class] \in {LC_SEGMENT, LC_SEGMENT_64}}

SegmentAt(offset, class) ==
  IF class \in SegmentClasses
  THEN [vmaddr |-> At(offset + 2), fileoff |-> At(offset + 3), filesize |-> At(offset + 4)]
  ELSE [vmaddr |-> 0, fileoff |-> 0, filesize |-> 0]

\* Mutant of Exceeds: a command that begins inside sizeofcmds is taken to end there.
ExceedsLoose(i) == i.offset > i.end

\* The command leaves the area of the header's sizeofcmds.
Exceeds(i) == i.offset + i.size > i.end

\* The third, in the initialiser of the class; the command is complete and the walk moves on.
ReadFields(t) ==
  /\ pc[t] = "fields"
  /\ LET i == image[t]
         command == [class |-> i.class, read |-> i.read, cmd |-> i.cmd, size |-> i.size,
                     at |-> i.offset, segment |-> SegmentAt(i.offset, i.class)]
     IN  IF Has(i.offset, FieldsOf(i.class))
         THEN /\ pc' = [pc EXCEPT ![t] = "next"]
              /\ image' = [image EXCEPT ![t].commands = Append(@, command), ![t].offset = @ + i.size,
                                        ![t].warned = @ \/ Exceeds(i)]
         ELSE Unreadable(t)
  /\ UNCHANGED <<world, shared, locals, placed>>

----------------------------------------------------------------------------
(* The image's address and slide.                                          *)

EndCommands(t) ==
  /\ pc[t] = "next" /\ image[t].left = 0
  /\ pc' = [pc EXCEPT ![t] = "slide"]
  /\ UNCHANGED <<world, shared, locals, image, placed>>

loadCommandsOfType(commands, type) == SelectSeq(commands, LAMBDA c : IDOf(c.class) = type)

\* The address the last segment states that holds the start of the file.
vmAddress(i) ==
  LET type == IF i.pointerSize = 8 THEN LC_SEGMENT_64 ELSE LC_SEGMENT
      first == SelectSeq(loadCommandsOfType(i.commands, type),
                         LAMBDA c : c.segment.fileoff = 0 /\ c.segment.filesize # 0)
  IN  IF first = <<>> THEN 0 ELSE Last(first).segment.vmaddr

ComputeSlide(t) ==
  /\ pc[t] = "slide"
  /\ LET slide == mk_vm_address_difference(ContextAddress, vmAddress(image[t]))
     IN  IF t \in FromMemory /\ ~Succeeded(slide)
         THEN Fail(t) /\ UNCHANGED placed
         ELSE /\ pc' = [pc EXCEPT ![t] = "open"]
              /\ placed' = [placed EXCEPT ![t] =
                   [vmAddress |-> vmAddress(image[t]),
                    slide |-> IF t \in FromMemory THEN slide.value ELSE 0]]
  /\ UNCHANGED <<world, shared, locals, image>>

----------------------------------------------------------------------------
(* The program loads classes and the target changes while images open.     *)

LoadClass ==
  /\ Cardinality(loaded \ Linked) < MaxLoads
  /\ \E class \in Loadable \ loaded : loaded' = loaded \union {class}
  /\ UNCHANGED <<target, changes, shared, locals, pc, image, placed>>

ChangeTarget ==
  /\ changes < MaxChanges
  /\ changes' = changes + 1
  /\ \E rewrite \in Rewrites :
       rewrite[1] < Len(target) /\ target' = [target EXCEPT ![rewrite[1] + 1] = rewrite[2]]
  /\ UNCHANGED <<loaded, shared, locals, pc, image, placed>>

----------------------------------------------------------------------------
NoImage == [magic |-> 0, pointerSize |-> 0, ncmds |-> 0, left |-> 0, end |-> 0,
            offset |-> 0, read |-> 0, class |-> MKLoadCommand, cmd |-> 0, size |-> 0,
            commands |-> <<>>, warned |-> FALSE]

Init ==
  /\ target \in Targets /\ changes = 0
  /\ loaded = Linked /\ registered = {} /\ cache = {} /\ runtimeLCDict = [c \in {} |-> 0]
  /\ lock = NoThread
  /\ pc = [t \in Threads |-> "closed"]
  /\ stage = [t \in Threads |-> "choose"]
  /\ id = [t \in Threads |-> 0]
  /\ listed = [t \in Threads |-> {}]
  /\ image = [t \in Threads |-> NoImage]
  /\ placed = [t \in Threads |-> [vmAddress |-> 0, slide |-> 0]]

Lookup(t) ==
  \/ UseCache(t) \/ MissCache(t) \/ CopyClassList(t) \/ FillCache(t)
  \/ UseRuntimeClass(t) \/ MissRuntimeClass(t) \/ AllocateClass(t) \/ RegisterClass(t)

Step(t) ==
  \/ ReadHeader(t) \/ NextCommand(t) \/ InitCommand(t) \/ ReadFields(t)
  \/ EndCommands(t) \/ ComputeSlide(t)
  \/ Lookup(t)

Next ==
  \/ \E t \in Threads : OpenImage(t) \/ Step(t)
  \/ LoadClass \/ ChangeTarget

Spec == Init /\ [][Next]_vars

\* A step of the thread is possible: it only ever waits for the lock.
Ready(t) ==
  /\ pc[t] \notin {"closed", "open", "failed", "thrown"}
  /\ pc[t] \in {"lookup", "unknown"} => lock = NoThread

\* A thread that opens an image goes on; whether it opens one is up to the program.  This is
\* WF_vars(Step(t)), with ENABLED Step(t) written out and a step known by the place it leaves.
FairSpec == Spec /\ \A t \in Threads : []<>~Ready(t) \/ []<><<pc'[t] # pc[t]>>_pc

----------------------------------------------------------------------------
(* Properties.                                                             *)

Commands == UNION {Range(image[t].commands) : t \in Threads}
Agrees(command) == command.read = command.cmd

Places == {"closed", "header", "next", "lookup", "list", "store", "unknown", "allocate", "register",
           "init", "fields", "slide", "open", "failed", "thrown"}

RuntimeClass == [id : Word, by : Threads]

AnyClass == Classes \union RuntimeClass
Segment == [vmaddr : Word, fileoff : Word, filesize : Word]
Command == [class : AnyClass, read : Word, cmd : Word, size : Word, at : Nat, segment : Segment]
Image == [magic : Word, pointerSize : {0, 4, 8}, ncmds : Nat, left : Nat, end : Nat, offset : Nat,
          read : Word, class : AnyClass, cmd : Word, size : Word, commands : Seq(Command),
          warned : BOOLEAN]

TypeOK ==
  /\ target \in Seq(Word) /\ changes \in Nat
  /\ loaded \subseteq Classes /\ registered \subseteq RuntimeClass
  /\ cache \subseteq AnyClass
  /\ \A cmd \in DOMAIN runtimeLCDict : runtimeLCDict[cmd] \in registered
  /\ lock \in Threads \union {NoThread}
  /\ pc \in [Threads -> Places] /\ stage \in [Threads -> {"choose", "check"}]
  /\ id \in [Threads -> Word] /\ listed \in [Threads -> SUBSET AnyClass]
  /\ image \in [Threads -> Image]

\* Commands whose reads agree, and that have the same id, have the same class, in whatever image
\* and by whatever thread they were read, and whatever classes were loaded in between: the lookup
\* is neither atomic nor under one lock (MKLoadCommand.m:57-123, MKNode.m:165-229).
OneClassPerCommand ==
  \A c, d \in Commands : Agrees(c) /\ Agrees(d) /\ c.cmd = d.cmd => c.class = d.class

\* No class linked into the program suits an id better.
BestOf(class, cmd) ==
  /\ \A other \in Linked : RankOf(other, cmd) <= RankOf(class, cmd)
  /\ RankOf(class, cmd) = 0 => IDOf(class) = cmd

\* A command is of the best class for its id, or of a subclass of it, even if its id changed after
\* the class was chosen (MKLoadCommand.h:60-65, and the exception of MKLoadCommand.m:166-169).
ClassSuitsCommand ==
  \A c \in Commands : \E class \in Supers(c.class) : class # MKLoadCommand /\ BestOf(class, c.cmd)

\* An exception is thrown only for a command that changed while it was read, or when a class of the
\* program has the name of the class to be made (MKLoadCommand.m:106-110, 166-169).
OnlyChangesAreRefused ==
  \A t \in Threads :
    pc[t] = "thrown" => \/ stage[t] = "check" /\ image[t].read # image[t].cmd
                       \/ \E class \in loaded : Name[class] = RuntimeName[id[t]]

\* An image that opens without a warning has all commands its header counts, and they follow each
\* other inside sizeofcmds (MKMachO.m:133-180).
SilentIsComplete ==
  \A t \in Threads :
    pc[t] = "open" /\ ~image[t].warned =>
      LET i == image[t]
          Ends(n) == i.commands[n].at + i.commands[n].size
      IN  /\ Len(i.commands) = i.ncmds
          /\ \A n \in 1 .. i.ncmds : Ends(n) <= i.end
          /\ \A n \in 1 .. i.ncmds - 1 : i.commands[n + 1].at = Ends(n)

\* Opening an image ends, also when another thread is inside the lock or has thrown there.
OpeningsEnd ==
  \A t \in Threads : pc[t] # "closed" ~> pc[t] \in {"open", "failed", "thrown"}

=============================================================================
