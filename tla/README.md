# Formal models of Mach-O Kit

Mach-O Kit reads Mach-O images out of files, out of its own process and out of other tasks. It is
two libraries: *libMachO* (C, `src/libMachO`) and *MachOKit* (Objective-C, `src/MachOKit`), which
builds on it. This directory holds TLA+ models of the parts where the order of steps, failure or
arithmetic decides whether the result is right, TLC configurations that check them on small
instances, and TLAPS proofs of the most important results for every instance.

## 1. Inventory

| Component | State | Operations | Hard about it | What makes it correct | Here |
|---|---|---|---|---|---|
| Checked arithmetic, `libMachO/Core/core.c` | none | `mk_vm_*` on addresses, sizes, offsets, slides, ranges | overflow, signed slides, clamped range ends | exact result or an error | `VMArith` |
| Memory object, `Core/Memory/memory_object.c` | window: target address, host address, length | remap, unmap, verify, typed reads | two address spaces, checks at the ends | remap stays inside; unmap reverses it; a word read is the target's | `MemoryObject`, `MemoryReads` |
| Task maps, `_MKTaskMemoryMap.m`, `memory_map_task.c` | heap reservation, entry rights, what is mapped so far | map a range, hand it out, release it | kernel calls that fail half-way, a target that changes, threads, page rounding | bytes shown are the target's; nothing leaks | `TaskMemoryMap` |
| Self map, `memory_map_self.c` | nothing | map, test, free in the own address space | an assertion where the length may be shorter | an object shows pages that are there | `MemoryMapSelf` |
| File and in-memory maps, `_MKFileMemoryMap.m`, `_MKMemoryMemoryMap.m` | an `NSData` | the same | own window arithmetic | same promise as the task map | planned |
| Copy and read functions of `memory_map.c`, `MKMemoryMap.m` | none | copy, read 1-8 bytes, has mapping | short mappings | no byte invented | `MemoryReads` for libMachO |
| Byte order and data model, `data_model.c`, `MKDataModel.m` | none | read a word as the image stores it | two swaps, of the host and of the image | the same value on every host | `ByteOrder` for libMachO |
| Bindings, `MachOKit/Bindings` | bind context, actions, ordinal table | parse commands, run them, make actions | context left behind by failures, loops, threaded chains, three kinds of info | actions are those the commands call for | `BindMachine` |
| Rebase, `MachOKit/Rebase` | rebase context, fixups | parse, run, make fixups | loops near the ends of things | fixups are those the commands call for | `RebaseMachine` |
| Nodes, `Core/MKNode.m`, `MKBackedNode.m`, `MKOffsetNode.m` | parent (weak), set of subclasses, cached description | subclass ranking, description, child lookup, addresses | caches vs. classes loaded or made later | one class per id, whoever asks first | `KitImage` (ranking, cache), `ExportsInfo` (lookup by address) |
| Lazy pointers, `Core/Impl/MKPtr.m` | one tagged word: context, class or pointee | init, resolve, target class | resolving may come back to itself; ownership moves with the tag | resolved once, nothing released twice | planned |
| LEB128, C strings, `Shared/MKLEB.m`, `MKCString.m`, `_mach_trie.c` | none | decode, with bounds | bounds taken from an enclosing node | decoded value, consumed bytes in bounds | `ExportsTrie` (unsigned numbers, strings) |
| Exports, `exports_trie.c`, `export.c`, `MachOKit/Exports` | place of the search; nodes, queue and path of the traversal | find a symbol and read its export; parse all nodes, list all exports | branch offsets from the file may lead back, two stacks kept in step, lookup of nodes by address | a symbol is found exactly if it is listed, with the same values; the search ends, inside the trie | `ExportsSearch`, `ExportsTerminal`, `ExportsInfo`, `Exports` |
| Image (libMachO), `macho_image.c` | header mapping, slide | open with a slide or derive one, walk and find commands, close | the header is read twice, partial failure, sizes from the file | the walk stays in the mapping and visits each command; one mapping per open image | `MachOImage` |
| Load commands (libMachO), `load_command.c`, `LoadCommands/` | none | class for a command, its fields, strings, sections, tools | fifty classes written by hand, either byte order, counts against sizes | every value is the file's | `LoadCommandClasses`, `LoadCommand` |
| Image (Objective-C), `MKMachO.m` | header, load commands, slide, lazy children | open, find commands, make a child once | warnings against errors, a target that changes | an image without warnings is whole | `KitImage` (opening) |
| Load commands (Objective-C), `MKLoadCommand.m` | set of subclasses, classes made at run time | class for an id, initialise, check | two caches under two uses of one lock, exceptions inside it | one class per id, for all threads | `KitImage` |
| Segments and sections, `Segments/` of both | mapping, slide | initialise from a command, section of it | slide, empty sections, parts outside | a section lies in its segment | `Segments` for libMachO |
| Symbols, strings, indirect symbols, of both | tables in the link-edit segment | initialise, item by index or by the one before, enumerate | counts from the file, 32 and 64 bit, unterminated strings | no item outside its table, none left out | `LinkEdit` for libMachO |
| Function starts, data in code, split segment info | running delta | decode deltas | zero delta ends the list | increasing addresses | planned |
| Shared cache, `MachOKit/DSC` | images, extracting flag, slide info | extraction on a background queue, slide walk | flag without a lock, one image failing | one extraction at a time | planned |
| ObjC and CF metadata | lazy pointers | field access | deferred contexts capture a weak self | context read only while self lives | with lazy pointers |
| Fat binaries | header, slices | list | none beyond a bounded loop | - | not modelled |
| Descriptions, formatters | none | text | none | - | not modelled |

How they interact. A parser (`MKBindingsInfo`, `MKRebaseInfo`, ...) is a node; a node reads bytes
through its memory map by handing it a block that is called with a pointer valid only inside the
call; it looks up segments of its image; and it reports through `NSError`. The bind and rebase
infos call a command with a block (`doBind`, `doRebase`) that the command calls once per action and
that shares the context with the command by pointer; the block's failures come back through a
variable it captured, not through the command. Memory maps call the Mach kernel. Nothing in the
libraries locks a map: threads that share one rely on every call owning its own reservation. In
libMachO an image holds the mapping of its header, and load commands are pointers into it; a segment
is a command and a mapping of its own, and sections, tables, symbols and exports are pointers into
that. In MachOKit an image makes an object per load command, of a class that is chosen by asking
every subclass for a rank; the set of subclasses and the classes made for unknown ids are shared by
all images and threads, under one lock.

## 2. Modules and the code

**`VMArith`** is `core.c`. A function that returns an `mk_error_t` and writes a result on success is
an operator that returns `[err, value]`, without `value` on failure. Words are `0 .. MaxWord`;
`MaxWord` is a parameter whose only assumption is that it is odd (`2^w - 1`), slides are the signed
words of that width, and unchecked C arithmetic goes through `Wrap`.

**`MemoryObject`** is `mk_memory_object_remap_address` and its inverse, over a window
`[target_address, address, length]`.

**`TaskMemoryMap`** is `remapBytesAtOffset:fromAddress:length:requireFull:withHandler:` of
`_MKTaskMemoryMap.m` and `__mk_memory_map_task_init_object`/`free_object` of `memory_map_task.c`. The
two are one algorithm; they differ in the error for an overflow, in the length they report and in
how the result is released. A program maps with one of them (`library`): MachOKit makes none of
libMachO's maps. One action is one kernel
call with what leads to it: `Begin` (arithmetic, refusals, the alignment assertion), `VerifyEntry`
and `VerifyDone` (how much of a short mapping is there), `Reserve`, `MakeEntry`, `MapEntry` and their
failures, `Finish` (the object, or the call of the handler) and `HandlerReturns` or `free_object`. The
variables are the target's pages, this process's heap pages with owner and contents, and the local
variables of every call. The kernel is modelled from its use: an entry covers at least one and at
most as many of the wanted pages as are mapped; `vm_map` with `FIXED|OVERWRITE` replaces whatever is
there; any call may fail if `KernelFaults`; the target changes its own pages `MaxChanges` times at
any moment.

**`MemoryMediation`** is what a memory map promises, without pages or calls: a request is refused or
granted a view that maps every address to its own byte, and a request made in full gets a full view.
`TaskMemoryMap` implements it under the mapping `View(c)`, which reads the bytes through the pages
that were really mapped.

**`BindMachine`** is `MKBindingsInfo`, `MKWeakBindingsInfo` and `MKLazyBindingsInfo` with all command
classes and `MKBindAction`. `ParseCommand`, `ParseEnds` and `UnknownOpcode` are the parser; then there
is one action per kind of command, with the shared frame of the loop over the commands in `Begun`
(the context's start and command) and `EndCommand` (the order in which `keepGoing` is read and
cleared). The two commands that loop have an action per turn (`TimesTurn`, `ApplyTurn`), since a turn
that fails leaves the loop running. What memory holds at a link of a threaded chain is chosen when it
is read. `crashed` stands for an exception (an opcode without a class) and for the ordinal table,
which nothing retains: every use of it may crash or find it intact.

**`RebaseMachine`** is `MKRebaseInfo` with its command classes and `MKFixup`, along the same lines.

**`ExportsTrie`** holds the bytes of an exports trie and of what follows it in the segment, the
number format of `_mach_trie.c` with the limit its callers give it, and the end of a string.
**`ExportsInfo`** is `MKExportsInfo` with the node, terminal and branch classes: `ParseNode` and
`EndParse` are the loop over the bytes; `FollowBranch`, `LeaveNode` and `EndWalk` the traversal, whose
`queue` holds nodes and branches still to do and whose `path` the nodes from the root to here;
`NodeOccupying` is the binary search of `MKBackedNode`, `ExportName` what `MKExport` puts together
from a path. `trapped` stands for a failed assertion (`NSAssert`), `warned` for a warning of the node.
**`ExportsSearch`** is `mk_exports_trie_get_terminal_node_for_symbol`: a step per node entered
(`ReadNode`, `LeaveTrie`) and per branch tried (`TryChild`, `NoChild`); an advance asks
`mk_vm_range_contains_address`, as the code does. **`Exports`** puts the two readers over the same
bytes. They share nothing else, so the model runs the searches once the list is made, and loses no
behaviour of either. Of the data it abstracts: a byte of 128 or more in a label stands for one that
is not UTF-8 (such a label has no string); ties in the sort by address keep their order.

**`ExportsTerminal`** is `export.c`: an export is a range of the trie, read anew by each getter;
`ExportsInfo` reads the same bytes as `MKExportTrieTerminalNode` and the `MKExport` classes do.

**`ByteOrder`** is `data_model.c` and the two byte orders of `core.c`: a processor loads the bytes of
a word in its own order, and the model of the image says whether the word is then swapped.
**`MemoryReads`** puts the reads of one to eight bytes on a memory object, or on one that a memory map
makes for the call. **`LoaderABI`** stands for `<mach-o/loader.h>`: the ids, and structures as
sequences of fields with widths, from which offsets and sizes follow.

**`LoadCommandClasses`** has one definition per file of `LoadCommands/`: a class is its layout, what
`copy_native` swaps and what it copies, which getters read which field at which width, and what each
returns for a command of another class; where the code reads a field at another width, or forgets
one, so does the class. **`LoadCommand`** is `load_command.c` with its switch, and the functions that
classes share: strings (`_mach_lcstr.c`), options, sections and tools behind a command.
**`MachOImage`** is `macho_image.c`. `mk_macho_init_with_slide` copies the header; then the target may
change; `MapHeader` or `MapFails` maps it with the commands; when the slide is to be derived,
`SlideStep` is one turn of the loop over the segments and `SlideEnds` the subtraction. `NextCommand`
is the client's walk; `mk_macho_free` closes. When mapping fails the code returns an `err` that it
never set: the model lets it be the code of success (`MapFails`), after which nothing is known of the
image. **`MemoryMapSelf`** and **`Segments`** open a segment of an image in the own process, from
either kind of command, and a section of it. **`LinkEdit`** adds the tables of the link-edit segment
and a client that opens a segment, a part of it and reads that item by item. That process can end (`crashed`): at the assertion of the self map when a short mapping's
length was cut off a page boundary (`Trapped`), and at an indirect symbol that is not mapped
(`ReadUnmapped`), which the client cannot know of, since the getter looks at the address instead of the
pointer.

**`KitImage`** is `initWithName:flags:atAddress:inMapping:error:` of `MKMachO.m` with
`loadCommandAtOffset:`, `initWithOffset:` and `classForCommandID:` of `MKLoadCommand.m` and
`subclasses`, `bestSubclassWithRanking:` of `MKNode.m`, run by several threads. `NextCommand`,
`InitCommand` and `ReadFields` are the three reads of a command, between which the target may change;
the class is looked up after the first, and again after the second to check the class of the object.
A lookup is a step per critical section (`UseCache`, `UseRuntimeClass`) or, when it has work to do
there, several with the lock held (`MissCache`, `CopyClassList`, `FillCache`; `MissRuntimeClass`,
`AllocateClass`, `RegisterClass`). `LoadClass` is the program loading a bundle. A class is a model
value with its superclasses, its rank for each id, its name and how many words its initialiser reads.
`thrown` is an exception; one inside `@synchronized` releases the lock. The lock is recursive and
belongs to the class object: both uses name `MKLoadCommand`. Abstracted: names but for being taken, all fields but those of segments, the
byte order (`LoadCommand` has it), the sections a segment command makes, and whether a warning is about one command or another.
A command's size may wrap the offset in no image, since sizes have 32 bits and offsets 64.

In the bind and rebase machines opcodes' operands are decoded values: the byte-level readers are not part of them,
except for the size a command has and the fact that an operand may lie behind the info.

`MC*` modules give the constants their values; `*Proofs` modules hold theorems only.

## 3. Runs

| Run | Shows | States |
|---|---|---|
| `task_map` | Two threads with MachOKit or one with libMachO, eight requests, a target of four pages that may change twice, kernel failures anywhere | 61 k |
| `bind` | Every info of up to five commands out of eight vocabularies, ordinary, weak and lazy | 450 k |
| `rebase` | Every info of up to five commands out of four vocabularies | 436 k |
| `exports` | A trie of four nodes, with each byte replaced, cut at each length, and seventeen others; seven symbols looked up, and what is found read | 21 k |
| `image` | Images with a command of each class, whole, cut and with wrong sizes, changed between the reads of their header, opened with and without a slide, on hosts of either byte order | 7 k |
| `linkedit` | A segment, each part of it and each item of the part, in images whose tables, sections and strings fit, touch and miss each other | 3 k |
| `classes` | Two threads open one of 14 images with MachOKit; the target changes once, and one of three classes is loaded | 163 k |
| `lib_free`, `lib_window`, `lib_has_mapping` | Three places where libMachO's task map does not do what its headers say | violated |
| `weak_bind` | Weak infos accept commands whose comments forbid them | violated |
| `class_match` | Two commands are given the class of another | violated |

Properties of `task_map`: a pointer the handler can form shows the byte it stands for
(`PointersReadTarget`); a thread outside a call holds neither pages nor rights (`IdleHoldsNothing`);
no step touches another's pages (`OthersUndisturbed`); and the refinement (`MediatesAccess`): these
are MachOKit's. libMachO promises none of them: it never sets `reserved2`, so what it frees may be
anybody's, and the window it reports is too long (section 5). Every call ends, with either
(`CallsReturn`).

Properties of `bind` and `rebase`: results are inside their segment (`ActionsInSegment`,
`FixupsInSegment`), although the code computes their address unchecked because "range check in
initializer would have failed"; the node of a result begins behind the commands of all results
before, but for those of the same command (`ActionStarts`, `FixupStarts`), and but for a threaded chain and what
binds next after it, since `MKBindThreadedApply` leaves the command in the context; a setting is in force until it is set again, threaded chains
included (`SettingsStick`); a result is where the last segment command and the moves since have put
it, computed by a sum over the commands that knows nothing of the context (`OffsetsAddUp`,
`FixupsAddUp`), and every command that ran has all its results (`ActionsComplete`, `FixupsComplete`),
which together are `ActionsAreDue` and `FixupsAreDue`;
failure is never forgotten (`StopsAtFailure`); reading ends (`Terminates`).

Properties of `exports`: queue and path of the traversal stay in step, and no export is named after a
path with a gap (`NoBranchMismatch`: the code asserts both); the binary search finds the node that
holds an address, and only it (`NodesAreFound`); the search stands inside the trie wherever it is
about to read (`SearchStaysInside`); on a trie as linkers write it the two libraries agree on every
symbol and on the values of what it exports (`ReadersAgree`); the traversal ends exactly if the branches
of the trie do not lead on for ever (`LeadsRound`), and the search ends unless branches without a
label do, from a node it can get to (`SilentRound`; together `ReadersEnd`): a search that comes to such
a cycle runs for ever, and so does the traversal on any cycle. `Orderly` says what a trie as linkers write it is: parsed and followed to its end
without a warning, and the branches of a node differ in their first character and in where they lead.
The second half matters: of two branches from one node to another MachOKit names both exports after
the last.

Properties of `image`: however the target changed, a command the walk comes to lies in the mapping
(`CommandsAreMapped`); the walk of an image whose header adds up visits its commands, in order, and
nothing else (`WalkIsComplete`); mappings are released once on each path (`MappingsBalance`, but for
the one path on which the code keeps one); a derived slide takes the lowest segment that is in the
file to the load address (`SlideMovesImage`); the numbers of a command are those of the file, through
its getters, `copy_native`, a memory object or a memory map (`ValuesAgree`), and so are the strings,
options, sections and tools behind it (`AttachmentsAgree`). What "those of the file" means is defined
from the bytes and the layout alone (`FileField`, `FileCommands`, `FileString`), least significant
byte first whatever the host. Opening ends, whatever sizes header and commands state, unless the walk comes to a
command of size zero (`EmptyCommand`), at which the code stays for ever (`OpeningEnds`).

Properties of `linkedit`: a table that was made lies in its segment, a section that was set in what is
mapped, and each item that is read in its table and in what is mapped; the process ends only in an image of a shared
cache, whose link-edit segment may be mapped short, before the segment is open or at an indirect symbol behind what
is mapped (`PartsInSegment`); read to its end a table has given exactly the items the file has
there, and its enumerator the same (`TablesAreComplete`); each item's fields and bytes are the file's
(`ItemsAgree`).

Properties of `classes`: commands with the same id have the same class, in whatever image, by whatever
thread, and whatever was loaded in between (`OneClassPerCommand`); the class suits the id the command
ends up with, even if it changed while it was read (`ClassSuitsCommand`); an exception is thrown only
for such a change, or when the name of the class to be made is taken (`OnlyChangesAreRefused`), so
never because two threads looked up at once; an image that opens without a warning has all the
commands its header counts, back to back inside `sizeofcmds` (`SilentIsComplete`); opening ends, also
for a thread that waits for one that throws inside the lock (`OpeningsEnd`).

### Bounds

* `MaxWord` is 7 with pages of 2 bytes for the map, 63 for the machines: the smallest words in which a
  request can be aligned and not, end on the last page and behind it, overflow in the offset, the
  length and the rounding; and in which moves, skips and counts can leave the segment without leaving
  the address space, leave both, and wrap to zero together with the pointer size.
* Three heap pages are enough for two mappings at once and too few for every pair, so `Reserve` fails
  for want of memory as well. One change of the target between any two steps covers the race of
  measuring against mapping.
* `MaxCommands` is 5: a segment, a setting, a bind, a command between and another bind; or a table
  size, an entry and two chains. Vocabularies keep what interacts together, because all opcodes at
  once would spend the bound on combinations that cannot interact.
* Links have deltas 0, 1 and 2, so a chain ends, steps and leaves the segment.
* Tries are 22 to 29 bytes at address 4000 of 4096, so that offsets near the largest word overflow the
  address; numbers take up to `LEBBytes` = 3 bytes instead of 10 and the
  size libMachO reads of an export up to `SizeBytes` = 2 instead of 8; tries have numbers
  that are too long for either. The replacements (0, 1, 9, a letter, 128 and 255) make counts, sizes, offsets
  and labels empty, short, out of the trie and unterminated at every place a byte can be. The trie is
  followed by four bytes, which is more than any step can run over without being seen. Four tries have
  a cycle, two of them one of branches with empty labels, on which the search of `exports_trie.c` goes
  round. A path longer than there are nodes has met one of them twice: the code goes on for ever, the
  model stops there and does not call the list made.
* A byte of an image has 8 values and half a byte 4, so that eight bytes make a word of 24 bits: fields
  keep their widths and places, and every byte of a command's numbers differs from its neighbours, so
  that a field that is taken from elsewhere, too narrow or not swapped is another number. Each class
  has a file with one of its commands in either byte order; 41 more have sizes of 0, 1, 7, 8, one less and
  one more than the command, and the file's end, counts that agree with the size or not, strings at
  each end of a command. Seven pairs of files replace each other between the reads of the header:
  with more commands, fewer, another word size, another kind of file. Two mappings at most.
* Objects that a memory map makes have the length asked for or 12 bytes more (`Slacks`).
* In `linkedit` the image is not replaced and not slid out of its pages; the last string may miss its
  zero, tables may reach up to, over and behind the end of the segment, and over and behind that of what
  is mapped of it; segments end at the last address, or their size is the largest, in a shared cache and not.
* In `classes` the words are 6 bits, a command one to five words. Two threads are enough for every
  order of two critical sections with the reads between them; the ids have a class, a class with a
  subclass, none, none of which a better one may be loaded, and one whose name is then taken. The
  change of the target turns an id with a class into one that has none, and a size into another.
* Counts stop at 9 and turns are counted exactly; nothing in a turn depends on the count.

### Fairness

`FairSpec` of the task map assumes weak fairness of each thread's own steps and nothing of the target
or the clients: a call is straight-line code that the scheduler eventually runs, and its kernel calls
return. The machines run on one thread, to which `WF_vars(Next)` is all there is. In `Exports` a traversal or a
search that has begun goes on; that another search begins is not assumed.
In `MachOImage` the loop that derives the slide goes on, as nothing in it waits; clients need not do
anything. `mk_macho_next_command` returns the same command again if its size is zero, so of images in which the
walk comes to one nothing is claimed; all others end. In `KitImage` a thread that opens an image goes on
unless it waits for the lock; who holds it always has a next step, and a thread takes the lock a
bounded number of times per image, so no stronger fairness is needed. These three are weak fairness with
the `ENABLED` written out, which TLC evaluates faster. `LinkEdit` has safety properties only, and its run
does not look for deadlocks, since its process may really end.

## 4. Theorems

| Module | Theorem | For every instance |
|---|---|---|
| `CoreProofs` | `CheckedAddition`, `AppliedSlide`, `SlideRoundTrip`, `SignedDifference`, `CheckedProduct`, `ContainedAddress`, `ContainedRange` | the arithmetic is exact or fails |
| | `RemapStaysInside`, `UnmapReversesRemap` | pointers stay in the window and convert back |
| `TaskMemoryMapProofs` | `TypeCorrect`, `CleansUp`, `LeavesOthersAlone`, `PointersAreTruthful`, `Mediates` | `TypeOK`, `IdleHoldsNothing`, `OthersUndisturbed`, `PointersReadTarget`, the refinement `MediatesAccess` |
| `BindMachineProofs` | `TypeCorrect`, `ActionsStayInside`, `FailureStops`, `ActionsStartApart`, `SettingsHold`, `ActionsFallDue` | `TypeOK`, `ActionsInSegment`, `StopsAtFailure`, `ActionStarts`, `SettingsStick`, `ActionsAreDue` |
| `RebaseMachineProofs` | `TypeCorrect`, `FixupsStayInside`, `FailureStops`, `FixupsStartApart`, `FixupsFallDue` | `TypeOK`, `FixupsInSegment`, `StopsAtFailure`, `FixupStarts`, `FixupsAreDue` |
| `MachOImageProofs` | `TypeCorrect`, `WalkStaysMapped`, `MappingsAreBalanced`, `WalkCompletes`, `SlideDerived`, `ValuesRead`, `AttachmentsRead` | `TypeOK`, `CommandsAreMapped`, `MappingsBalance`, `WalkIsComplete`, `SlideMovesImage`, `ValuesAgree`, `AttachmentsAgree` |
| `LinkEditProofs` | `PartsStayInside`, `ItemsAreRead`, `TablesRead` | `PartsInSegment`, `ItemsAgree`, `TablesAreComplete` |
| `KitImageProofs` | `TypeCorrect`, `OneClass`, `ClassesSuit`, `OnlyChangesRefused`, `SilenceIsComplete` | `TypeOK` of `KitImage`, `OneClassPerCommand`, `ClassSuitsCommand`, `OnlyChangesAreRefused`, `SilentIsComplete` |
| `ExportsProofs` | `NumberRead`, `SearchTypeCorrect`, `SearchStaysInsideHolds`, `NodesFound`, `BranchesMatch` | numbers read are words inside the limit; `SearchStaysInside`, `NodesAreFound`, `NoBranchMismatch` |

*Task map.* `TypeInv` adds to the types how far a call has come: an entry never exceeds what is left
of the mapping, which page counting needs to stay in bounds. `ReservedInv` says that every page a
thread owns is inside the reservation of the call it is in; `CleansUp` follows. `WindowInv` says the
converse, that the whole reservation belongs to its thread, and that its first `mapped` pages show
consecutive pages of the target from the base page on: `LeavesOthersAlone` follows, since every
overwrite and deallocation is inside a reservation, and `PointersAreTruthful`, with the division of an
address into page and rest. `Mediates` is the refinement: `NothingAssumption` says that the value for
"nothing asked or seen" is neither a request nor bytes, `EnoughInv` says that what is mapped is enough for the call, `ShownInv` that the client has
been shown the target's bytes, and each step maps to one of `MemoryMediation` or to a stutter.
Assumptions are those of the modules. `CleansUp`, `LeavesOthersAlone`,
`PointersAreTruthful` and `Mediates` are about a program that maps with MachOKit (`OneLibrary`: it stays
with it), for any `StaleSizes`; with libMachO the first three are false, as the violated runs show or,
for `LeavesOthersAlone`, as any number but zero in `reserved2` does.

*Machines.* The invariant is the type, the safety property and `Controlled`: between commands nothing
has failed; a loop belongs to a command that is there; and once a result of a loop has failed, the
next would fail too. The last part is what makes `StopsAtFailure` inductive: the loops do not look at
the failure and go on, and only since the location never moves back and refusal is monotone in it
(`StaysFailed`) do they add nothing. A second invariant over the first (`AllIsDue`) says what was due: the commands before the next one have
made as many as they count, the one under way as many as its count less the turns left, each at its
distance from where the segment and the offset were last set, and the context holds what the last command of each kind set.
Where nodes begin (`ActionsStartApart`, `FixupsStartApart`) follows from commands being parsed in the order of their
addresses (`InOrder`, `AfterTheLast`).
Lemmas about sums, wrapping addition and appended lists carry it. Segments, vocabularies, chains and their contents are arbitrary.

*Exports.* The search is safe for every byte string: `SearchInv` is its type together with
`SearchStaysInside`, and inductive because what is read from the trie is a word, for which the checks
of the advance mean something (`AdvanceInside`, from `ContainedAddress`). The number reader is defined
by recursion over the bytes; that the recursion defines a function, and what it returns, is proved
from the least byte for which it would not (`NumbersFromDef`, `NumbersFromType`). The proof assumes
that the segment ends below the last address, as `TrieAssumption` says. `ReadersApart`, a lemma, carries it from the
search alone to the composition. Of the traversal, `NodesFound` follows from the nodes being parsed in the order of their
addresses, once each, which is what the binary search needs; `BranchesMatch` from an invariant that
keeps the queue of branches and the path as two stacks, with the depth of each branch as the witness
that the walk returns to where it came from.

*Image.* `ImageInv` says where the mapping is in each state, how long, and that the header size goes
with the magic that is now in memory: the code compares the mapped magic with the copied one, and it
is the only word of the header that both reads have to agree on. `NextIsMapped` is the step of the
walk: the three comparisons of `mk_macho_next_command` bound the next command by the mapping for
every size it may state. Words are sums over bytes defined by recursion (`Horner`); that they are
natural numbers is proved from the least length for which they would not be, as with the trie's
numbers. `PowerAssumption` writes out the powers of the byte: positive, and each the byte's values times the
one before. Bytes make a round trip through a word (`WordOfBytes`, `LoadedWord`) on a host of either byte
order, so a field that is swapped when the magic asks for it is the file's; what the magics are written with must be
bytes (`MagicAssumption`) for the four to differ. `WalkCompletes` compares the walk with `FileCommands`, a function defined
by recursion over the file: the walk is always at the end of a prefix of it (`Placed`), and what is
left follows from where it stands (`NextListed`). `SlideDerived` adds that the lowest address so far is that of
the segments before the walk (`Lowest`). `ImageAssumption` says that a mapping lies in the address spaces of
this process and of the target, as any mapping the system gives out does; without it a pointer into it would wrap.

*Values of a command.* A class is `Faithful` if it reads each field where its layout has it and at its
width; that all classes are is proved class by class (`AllFaithful`), and it is the one place that the
tables of `LoadCommandClasses` are unfolded. What is left is the same for every command: it lies in the
mapping (from `ImageInv`), so its bytes there are the file's, and a field of a class that is faithful is
the number the file has there, by a getter, by `copy_native`, through a memory object or through the map
(`ValuesRead`). A version is put together from nibbles, which needs that the numbers of a byte are whole
nibbles (`NibbleAssumption`). `AttachmentsRead` is about what lies behind a command, which has no fixed place. A
string is what stands before the first zero (`UpToZero`, `CopiedRead`). Sections and tools are reached
one from the other; the list of them is a function defined by recursion, which exists since its domain is bounded
(`ListExists`, by the longest list that exists), and its n-th element starts at n sizes of one (`ElementsForm`).
The n-th option begins behind the n-th zero: `Ends` says where the zeros are, and
both the code's walk and the file's reading are shown to go from one to the next (`OptionEnds`,
`OptionsRead`).
Three statements turned out not to hold as they stood, and now say what does: the version of a tool whose numbers
exceed their nibbles; the strings of an options command that counts all ones, which its getter also returns for
"not one of these", so that no option of it is ever found; and the window of the mapping, which has to end inside
the target's address space too.

*Link edit.* `LinkInv` has four layers. `Known`: an open image has a slide that fits its type, so moving an
address by it never wraps when it succeeds (`MovedAddress`). `SegmentInv`: the memory object of a segment is
`Backed`, that is, the pages from that of its address on to that of its end hold the file; that is
stronger than its length and what a section's own mapping needs, which is made again
from the pages and not from the segment's (`RangeIsMapped`, by way of the rounding and the wrapping of
the self map). `PartInv`: the range of a table lies in the segment's without wrapping, and it is as long as the entries
its command counts, since a count of four bytes times the size of an entry fits a word (`CountsFit`). `SeenInv`:
every item so far lies in the part and is `Reachable` through the segment, a string up to the end of its
table. `ItemsAreRead` follows with the fields of the section and symbol structures being apart (`SectionFields`,
`EntryFields`), so that reading one by its width is reading the file's (`ReadIsFile`). Where the process may end is a layer
of its own (`EndInv`): a segment that must be mapped in full is, to the byte, and the assertion holds for it
(`FullObject`), so what is short or traps is a shared cache's (`OpensShort`), and an indirect symbol is not
mapped only behind the end of what is (`UnmappedIsBehind`).

`TablesRead` needs where things come from besides, `ReadInv`: the segment is that of its command, and
a table lies where its command says (`SegmentFrom`, `PartFrom`). The command of a table is found by searches that
call themselves; they are functions since a search climbs through the mapping (`TailExists`, by the
longest end of the mapping on which it is one), and what they find is the last command of its kind in
the file (`LastIsFiles`), given that the walk over the commands is `MachOImage`'s. `SeenFrom` says of the items
so far that they are the first entries of the table (`EntriesFrom`), or strings one behind the other with
none passed over (`StringsFrom`). At the end of the table they are therefore all of them, and the enumerators,
again functions that climb (`ChainExists`), go through the same ones from any place on. Two facts
came to light on the way. `SegmentAssumption`: no image takes the first page of the address space, to
which `NULL` points and which would stand for "no command", nor the last. And a table of
2^32 - 1 bytes whose last byte is not zero never comes to its end, as the offset behind its last string
wraps to zero (`Cycles`); the theorem holds there because such a table is never read to its end (`StringsEnd`).

*Choice of classes.* `TypeInv` gives every class that is read, cached, listed or made its type;
ranking has a best class since ranks are words (`BestExists`, by the class whose rank is nearest to
the largest word). `KitInv` adds, for each thread, that inside the lock the lock is its own,
and that what it has found is `Settled`: decided by the cache and the table of run-time classes as
they now are. The heart is that what is settled stays so (`SettledStays`): the cache is filled once,
by whoever holds the lock, and the table only grows, since a thread looks again inside the lock before
it makes a class. Hence two lookups of an id agree, whenever they were made (`SettledOnce`), and
`OneClass` and `OnlyChangesRefused` follow; for the second, every class made at run time is in the
table, so a name that is taken is one of the program's (`RegisteredInv`, with names being different
for different ids). `ClassesSuit` is a layer of the same shape (`AllSuit`): what is
settled for an id is ranked for it, and it needs the two conjuncts of `KitAssumption` that say that only load
commands rank above zero, as `+canInstantiateWithLoadCommandID:` is theirs, and that a class made at run
time is none of the program's. `SilenceIsComplete` rests on `SilentInv`: as long as there is no warning,
the commands so far follow each other and the walk stands where the last one ends (`Chained`), and
they, the one that is being read and those still due are as many as the header counts (`Counted`).

Only model-checked: the liveness properties, which are out of the prover's reach, and of the exports
`ReadersAgree`, which compares two parsers that are both recursive over the bytes.

## 5. Disagreements found

1. `memory_map_task.c:192-193` sets `reserved1` twice and `reserved2` never, so freeing an object
   deallocates the wrong range (`lib_free`).
2. `memory_map_task.c:184` adds the offset of the address in its page to the length instead of
   subtracting it (`lib_window`).
3. `memory_map.c:73` wants more than the length asked for (`lib_has_mapping`).
4. `MKWeakBindingsInfo.m:78` calls `-bind:` where the commands' refusals are in `-weakBind:`
   (`weak_bind`).
5. `load_command.c:299-306` gives `LC_SUB_LIBRARY` the class of `LC_SUB_FRAMEWORK` and
   `LC_TWOLEVEL_HINTS` that of `LC_SUB_LIBRARY` (`class_match`).

Also, seen while modelling and without a run of their own:

* `MKBindThreadedSetBindOrdinalTableSizeULEB.m:82` bridges the ordinal table without a retain, so it is
  deallocated at once; the model lets every use of it crash.
* `macho_image.c:113` returns `err` when the mapping fails, which nothing has set; `macho_image.c:121`
  returns without giving back the mapping (`MappingsBalance` excepts it).
* `section.c:117` returns the error of a call that succeeded when a section is not inside its segment:
  the caller is told that it has a section (`value.set` in `Segments`).
* `exports_trie.c:255` does not let the search advance to the end of the trie, so for some symbols that
  are not there it reports `MK_EOUT_OF_RANGE` where `exports_trie.h:127` says `MK_ENOT_FOUND`.
* `indirect_symbol_table.c:186` compares `addr` with `UINTPTR_MAX` where it should compare `entry`, so an
  indirect symbol that is in its table and not in what is mapped, as in a shared cache mapped short, is
  read at `UINTPTR_MAX` and ends the process (`ReadUnmapped`; `PartsInSegment` says where only).
* `memory_map_self.c:60` and `:70` cut a length that may be short to one that is no number of pages, and
  the assertion behind them (`:78`, which no build leaves out) ends the process: for the link-edit
  segment of a shared cache whose stated size runs past the last address (`Trapped`).
* `macho_image.c:336` moves on by the size a command states; at a size of zero `mk_macho_init` never
  returns (`EmptyCommand`).
* `exports_trie.c:194` never ends on a cycle of branches without labels, and `MKExportsInfo.m:100` on
  any cycle at all (`SilentRound`, `LeadsRound`).
* `load_command.c:244` switches on the id as it lies in memory: the commands of an image in the other byte order
  have no class.
* `MKBindThreadedApply.m:57-117` leaves its command in the context, so the node of what binds next
  begins where the chain's does (`ActionStarts` excepts it).
* `string_table.c` counts offsets in 32 bits: in a table of 2^32 - 1 bytes that ends without a zero the
  string behind the last is the first again, and a client that reads on never ends.
* `MKRebaseInfo.m:85` says that commands lie inside the info; an operand at its end is read on behind it.
* `MKLoadCommand.h:60-65` invites subclasses that return a larger rank; one that is loaded after the
  first load command was parsed is never asked (`KitImage`, `LoadClass`).
* `MKSharedCache.m:389` marks the extraction as running before the directory is made; if that fails
  the mark stays, and no extraction starts any more.

## 6. Plan

Done: arithmetic, memory objects and reads, task and self map with the task map's promise, bind and
rebase machines, both readers of the exports trie, libMachO's image with its commands, segments,
sections, tables and exports, MachOKit's opening of an image with the choice of classes, and their
proofs. Next, in this order:

1. The rest of MachOKit's image: `initWithDSC:`, which reads commands from a structure, the children
   that are made on demand and what a failing one leaves, the sections a segment makes.
2. `Pointers`: `MKPtr` as a state machine over its tagged word, with pointers that lead to each other,
   resolved by recursion; the cached description of `MKNode` (`MKNode.m:238`) with several threads.
3. `SharedCache`: background extraction, slide info; `DeltaLists`: function starts, data in code,
   split segment info, with the signed numbers.
4. The file and in-memory maps as further implementations of `MemoryMediation`, and the copying of
   `MKMemoryMap.m` above it (which reports the full length for a short mapping, `MKMemoryMap.m:150`);
   then a proof that they refine it too.

## 7. Not modelled

Formatting and description, in both libraries, with the strings `architecture.c` makes of CPU types;
the layouts of `dyld_cache_format.h` and the shared cache that uses them; fat binaries; Core
Foundation and Objective-C metadata; `NSError` objects beyond their code; logging; the fact that a
system's page size is fixed at build or run time (it is a parameter here). Memory exhaustion inside
the process is not modelled except for page reservations, heap allocation failing nowhere.

Of libMachO every file with control flow of its own is modelled, except `architecture.c`; what is left
of its lines are headers with declarations and their documentation, licence texts, includes and the
functions that print. MachOKit is modelled where it parses by a machine (bindings, rebase, exports),
where it maps memory and where threads meet (class choice); most of its other classes copy the fields
of one structure each.
