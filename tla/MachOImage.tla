----------------------------- MODULE MachOImage -----------------------------
(***************************************************************************)
(* A Mach-O image (libMachO/MachO_ABI/macho_image.c): one client opens an  *)
(* image of a target, walks its load commands and closes it again.  The    *)
(* header is read twice, once copied and once mapped, and the target may   *)
(* change in between.  The loop that derives the slide takes one step per  *)
(* load command, so that it may also fail to end.  What a memory map does  *)
(* is the business of TaskMemoryMap: here it succeeds, with the bytes asked *)
(* for or more, when the target has them, and may always fail.             *)
(***************************************************************************)
EXTENDS LoadCommand

CONSTANTS
  Contents,        \* the bytes of the target, for each file that may be loaded there
  Rewrites,        \* the pairs of files of which the second may replace the first
  LoadAddress,     \* where the image is in the target
  HeaderAddress,   \* where its header is mapped in this process
  Slides,          \* the slides a client passes
  Slacks,          \* how many bytes more than asked for a mapping may have
  MaxMappings,     \* bounds the mappings that are never freed
  MaxOutput        \* bounds the buffers strings are copied to

Files == DOMAIN Contents

ASSUME ImageAssumption ==
  /\ \A f \in Files : Contents[f] \in Seq(Byte)
  /\ Rewrites \subseteq Files \X Files
  /\ LoadAddress \in Word /\ HeaderAddress \in Word /\ HeaderAddress # NULL
  /\ Slides \subseteq Slide /\ Slacks \subseteq Word
  /\ MaxMappings \in Nat /\ MaxOutput \in Nat
  \* A mapping lies in the address space of this process, and what it shows in that of the target:
  \* the last pages of an address space are no task's.
  /\ \A f \in Files : \A slack \in Slacks :
       \A start \in {HeaderAddress, LoadAddress} : start + Len(Contents[f]) + slack <= MaxWord

VARIABLES
  cpu,       \* the byte order of this process, fixed when the library is compiled
  file,      \* what the target holds
  pc,        \* "closed", or where the client's call stands
  call,      \* its slide, whether it derives one, and the header it has copied
  image,     \* the client's mk_macho_t
  low,       \* low_address of the loop that derives the slide
  lc,        \* the load command a loop, or the client's walk, has come to
  walked,    \* the commands of the walk so far
  result,    \* what the last call returned
  mappings   \* the header mappings that have not been freed

vars == <<cpu, file, pc, call, image, low, lc, walked, result, mappings>>

----------------------------------------------------------------------------
(* The mapped header.                                                      *)

NoImage == [open |-> FALSE]
NoCall == [open |-> FALSE]

mem == [cpu |-> cpu, at |-> HeaderAddress, bytes |-> Contents[file]]

TargetHas(length) == length <= Len(Contents[file])

mk_macho_get_header_mapping(macho) == macho.header_mapping

HeaderField(field) == Read(mem, HeaderAddress, struct_mach_header, field, 4)
mk_macho_get_filetype == HeaderField("filetype")
mk_macho_get_ncmds == HeaderField("ncmds")
mk_macho_get_sizeofcmds == HeaderField("sizeofcmds")
mk_macho_get_flags == HeaderField("flags")
mk_macho_is_64_bit == HeaderField("magic") = MH_MAGIC_64
mk_macho_is_from_shared_cache == mk_macho_get_flags >= MH_DYLIB_IN_CACHE
mk_macho_get_address(macho) == macho.header_mapping.target_address

\* The data model a magic, not swapped, selects, and with it the size of the header.
ModelOf(magic) ==
  IF magic \in {MH_MAGIC, MH_CIGAM}
  THEN Ok([data_model |-> mk_data_model_ilp32, header_size |-> Sizeof(struct_mach_header)])
  ELSE IF magic \in {MH_MAGIC_64, MH_CIGAM_64}
  THEN Ok([data_model |-> mk_data_model_lp64, header_size |-> Sizeof(struct_mach_header_64)])
  ELSE Fails("EINVALID_DATA")

SupportedTypes == {MH.EXECUTE, MH.DYLIB, MH.DYLINKER, MH.BUNDLE}

----------------------------------------------------------------------------
(* Enumerating load commands.                                              *)

\* Mutant of Past: the place where the commands end is not past them.
PastLoose(macho, next) ==
  next > mk_macho_get_header_mapping(macho).address + macho.header_size + mk_macho_get_sizeofcmds

Past(macho, next) ==
  next >= mk_macho_get_header_mapping(macho).address + macho.header_size + mk_macho_get_sizeofcmds

\* Mutant of Fits: the size the command gives itself is believed.
FitsHeader(mapping, next) == Within(mapping, next, Sizeof(struct_load_command))

\* The command is in the mapping: its first two words, and then all of it.
Fits(mapping, next) ==
  /\ Within(mapping, next, Sizeof(struct_load_command))
  /\ Within(mapping, next, cmdsize(mem, next))

\* The next command, and with `locate' its address in the target, which must exist.
mk_macho_next_command(macho, previous, locate) ==
  LET mapping == mk_macho_get_header_mapping(macho)
      width == Sizeof(struct_load_command)
      next == IF previous = NULL THEN mapping.address + macho.header_size
              ELSE previous + cmdsize(mem, previous)
  IN  IF \/ previous = NULL /\ (mk_macho_get_ncmds = 0 \/ mk_macho_get_sizeofcmds < width)
         \/ previous # NULL /\ ~Within(mapping, previous, width)
         \/ Past(macho, next)
         \/ ~Fits(mapping, next)
         \/ locate /\ ~Succeeded(mk_memory_object_unmap_address(mapping, 0, next, width))
      THEN NULL ELSE next

\* Where a walk can be: before the first command, or at an address of the mapping.
Places(macho) == {NULL} \union (HeaderAddress .. HeaderAddress + macho.header_mapping.length)

FirstOf(commands) == IF commands = <<>> THEN NULL ELSE Head(commands)

\* The first command of an id behind `previous'.  There is none when the walk comes to a command
\* of size zero, where the code does not return.
mk_macho_next_command_type(macho, previous, id) ==
  LET Next(p) == mk_macho_next_command(macho, p, FALSE)
      first[p \in Places(macho)] ==
        IF Next(p) \in {NULL, p} THEN NULL
        ELSE IF Read(mem, Next(p), struct_load_command, "cmd", 4) = id THEN Next(p)
        ELSE first[Next(p)]
  IN  first[previous]

mk_macho_find_command(macho, id) == mk_macho_next_command_type(macho, NULL, id)

mk_macho_last_command_type(macho, id) ==
  LET Next(p) == mk_macho_next_command_type(macho, p, id)
      last[p \in Places(macho)] == IF Next(p) = NULL THEN p ELSE last[Next(p)]
  IN  last[NULL]

----------------------------------------------------------------------------
(* Opening and closing an image.                                           *)

Init ==
  /\ cpu \in Cpus /\ file \in Files
  /\ pc = "closed" /\ call = NoCall /\ image = NoImage
  /\ low = 0 /\ lc = NULL /\ walked = <<>> /\ result = "none" /\ mappings = 0

Returns(err) ==
  /\ result' = err
  /\ pc' = "closed"
  /\ UNCHANGED <<cpu, file, call, image, low, lc, walked, mappings>>

\* mk_macho_init (which derives the slide) or mk_macho_init_with_slide, up to the mapping of the
\* header.  The words of the copied header are swapped, except for the magic.
mk_macho_init_with_slide(derives, slide) ==
  LET magic == Raw(mem, HeaderAddress, struct_mach_header, "magic")
      model == ModelOf(magic)
  IN  /\ pc = "closed"
      /\ \/ /\ slide < 0
            /\ Returns("EINVAL")
         \/ /\ slide >= 0
            /\ Returns("EBAD_ACCESS")
         \/ /\ slide >= 0
            /\ TargetHas(Sizeof(struct_mach_header))
            /\ IF ~Succeeded(model) THEN Returns("EINVALID_DATA")
               ELSE IF mk_macho_get_filetype \notin SupportedTypes THEN Returns("EINVAL")
               ELSE /\ pc' = "copied"
                    /\ call' = [open |-> TRUE, derives |-> derives, slide |-> slide, magic |-> magic,
                                header_size |-> model.value.header_size,
                                length |-> mk_macho_get_sizeofcmds + model.value.header_size]
                    /\ UNCHANGED <<cpu, file, image, low, lc, walked, result, mappings>>

\* The target is not stopped while it is read.
TargetChanges ==
  /\ pc = "copied"
  /\ \E g \in Files : <<file, g>> \in Rewrites /\ file' = g
  /\ UNCHANGED <<cpu, pc, call, image, low, lc, walked, result, mappings>>

\* The header could not be mapped.  What is returned is `err', which was never written: a copy
\* that succeeds does not set it.
MapFails ==
  /\ pc = "copied"
  /\ \E err \in {"ESUCCESS", "garbage"} : result' = err
  /\ pc' = IF result' = "ESUCCESS" THEN "wild" ELSE "closed"
  /\ call' = NoCall
  /\ UNCHANGED <<cpu, file, image, low, lc, walked, mappings>>

\* The client was told that its image is open, and there is no saying what follows; here it
\* drops the image.
DropWild ==
  /\ pc = "wild"
  /\ pc' = "closed" /\ result' = "none"
  /\ UNCHANGED <<cpu, file, call, image, low, lc, walked, mappings>>

\* The header is mapped.  When it does not begin with the magic that was copied, the call fails
\* and the mapping stays.
MapHeader ==
  /\ pc = "copied"
  /\ TargetHas(call.length) /\ mappings < MaxMappings
  /\ mappings' = mappings + 1
  /\ IF Raw(mem, HeaderAddress, struct_mach_header, "magic") # call.magic
     THEN /\ pc' = "closed" /\ result' = "ECLIENT_INVALID_RESULT" /\ call' = NoCall
          /\ UNCHANGED <<cpu, file, image, low, lc, walked>>
     ELSE /\ \E slack \in Slacks :
               image' = [open |-> TRUE, slide |-> call.slide, header_size |-> call.header_size,
                         header_mapping |-> [target_address |-> LoadAddress,
                                             address |-> HeaderAddress,
                                             length |-> call.length + slack]]
          /\ pc' = IF call.derives THEN "slide" ELSE "open"
          /\ result' = IF call.derives THEN "none" ELSE "ESUCCESS"
          /\ low' = (IF call.derives THEN MaxWord ELSE 0) /\ lc' = NULL /\ walked' = <<>>
          /\ UNCHANGED <<cpu, file, call>>

\* Mutant of Frees: a failing call forgets the mapping.
FreesForgets(err) ==
  /\ image' = NoImage /\ pc' = "closed" /\ result' = err
  /\ call' = NoCall /\ low' = 0 /\ lc' = NULL /\ walked' = <<>>
  /\ mappings' = IF err = "none" THEN mappings - 1 ELSE mappings
  /\ UNCHANGED <<cpu, file>>

\* mk_macho_free, and the failures of mk_macho_init, which call it.
Frees(err) ==
  /\ image' = NoImage /\ pc' = "closed" /\ result' = err
  /\ mappings' = mappings - 1
  /\ call' = NoCall /\ low' = 0 /\ lc' = NULL /\ walked' = <<>>
  /\ UNCHANGED <<cpu, file>>

\* The class the loop is after, of the image's kind.
SegmentClass == IF mk_macho_is_64_bit THEN mk_load_command_segment_64 ELSE mk_load_command_segment

\* Mutant of IsPageZero: it counts as the lowest segment.
NoPageZero(vmaddr, vmsize, filesize) == FALSE

IsPageZero(vmaddr, vmsize, filesize) == vmaddr = 0 /\ vmsize # 0 /\ filesize = 0

\* Mutant of Skip: the loop starts again.
SkipRestarts(next) ==
  lc' = NULL /\ UNCHANGED <<cpu, file, pc, call, image, low, walked, result, mappings>>

\* A command that is no segment.
Skip(next) ==
  lc' = next /\ UNCHANGED <<cpu, file, pc, call, image, low, walked, result, mappings>>

\* One command of the loop in mk_macho_init.
SlideStep ==
  /\ pc = "slide"
  /\ \E next \in {mk_macho_next_command(image, lc, FALSE)} \ {NULL} :
       \E command \in {mk_load_command_init(mem, image.header_mapping, next)} :
         LET Segment(field) == getter(mem, command.value, SegmentClass, field)
         IN  IF Read(mem, next, struct_load_command, "cmd", 4) # LC[SegmentClass.name]
             THEN Skip(next)
             ELSE IF \/ ~Succeeded(command)
                     \/ \E f \in {"vmaddr", "vmsize", "filesize"} :
                          Segment(f) = UINT_MAX(SegmentClass.reads[f])
             THEN Frees("EDERIVED")
             ELSE /\ lc' = next
                  /\ low' = IF IsPageZero(Segment("vmaddr"), Segment("vmsize"), Segment("filesize"))
                            THEN low ELSE Smaller(Segment("vmaddr"), low)
                  /\ UNCHANGED <<cpu, file, pc, call, image, walked, result, mappings>>

\* Mutant of SlideFrom: no check.
SlideFromUnchecked(lowest) == Ok(LoadAddress - lowest)

SlideFrom(lowest) == mk_vm_address_difference(LoadAddress, lowest)

\* The loop has ended: the slide is the distance from the lowest segment.
SlideEnds ==
  /\ pc = "slide"
  /\ mk_macho_next_command(image, lc, FALSE) = NULL
  /\ IF ~Succeeded(SlideFrom(low)) THEN Frees("EDERIVED")
     ELSE /\ image' = [image EXCEPT !.slide = SlideFrom(low).value]
          /\ pc' = "open" /\ result' = "ESUCCESS" /\ lc' = NULL
          /\ UNCHANGED <<cpu, file, call, low, walked, mappings>>

mk_macho_free == pc = "open" /\ Frees("none")

----------------------------------------------------------------------------
(* The client's walk: mk_macho_enumerate_commands, one call at a time.     *)

\* From a command of size zero the walk goes back to the same command.
NextCommand ==
  LET next == mk_macho_next_command(image, lc, TRUE)
  IN  /\ pc = "open"
      /\ next # NULL /\ next # lc
      /\ lc' = next /\ walked' = Append(walked, next)
      /\ UNCHANGED <<cpu, file, pc, call, image, low, result, mappings>>

Open ==
  \/ \E slide \in Slides : mk_macho_init_with_slide(FALSE, slide)
  \/ mk_macho_init_with_slide(TRUE, 0)

Next ==
  \/ Open \/ TargetChanges \/ MapFails \/ DropWild \/ MapHeader
  \/ SlideStep \/ SlideEnds \/ mk_macho_free \/ NextCommand

Spec == Init /\ [][Next]_vars

\* A call runs until it returns: nothing in it waits, so while the slide is derived there is
\* always another step of the loop.  From a command of size zero that step goes nowhere.
\* (This is WF_vars(SlideStep \/ SlideEnds), with its ENABLED written out.)
Stuck == lc # NULL /\ cmdsize(mem, lc) = 0
FairSpec == Spec /\ ([]<>(pc # "slide" \/ Stuck) \/ []<><<pc = "slide">>_vars)

----------------------------------------------------------------------------
(* What the file says, read without the library: its words are stored from *)
(* the least significant byte on, and its commands follow each other.      *)

FileWord(p, width) == FromBytes(Peek(mem, p, width))
FileField(p, layout, f) == FileWord(p + OffsetOf(layout, f), WidthOf(layout, f))
FileHeader(f) == FileField(HeaderAddress, struct_mach_header, f)
FileSize(p) == FileField(p, struct_load_command, "cmdsize")

FileHeaderSize ==
  Sizeof(IF FileHeader("magic") = MH_MAGIC_64 THEN struct_mach_header_64 ELSE struct_mach_header)

\* The n-th command, and where the commands end.
Listed[n \in 0 .. UINT_MAX(4)] ==
  IF n = 0 THEN HeaderAddress + FileHeaderSize
  ELSE LET previous == Listed[n - 1] IN previous + FileSize(previous)

WellFormed ==
  LET ncmds == FileHeader("ncmds")
  IN  /\ FileHeader("magic") \in {MH_MAGIC, MH_MAGIC_64}
      /\ \A n \in 0 .. ncmds - 1 : /\ FileSize(Listed[n]) >= Sizeof(struct_load_command)
                                  /\ Listed[n] < HeaderAddress + Len(Contents[file])
      /\ Listed[ncmds] = HeaderAddress + FileHeaderSize + FileHeader("sizeofcmds")

\* The header adds up, and what was mapped is as long as it says now.
Whole == WellFormed /\ image.header_mapping.length >= image.header_size + FileHeader("sizeofcmds")

FileCommands == [n \in 1 .. FileHeader("ncmds") |-> Listed[n - 1]]

----------------------------------------------------------------------------
Pcs == {"closed", "copied", "slide", "open", "wild"}
Results == {"none", "ESUCCESS", "EINVAL", "EINVALID_DATA", "EBAD_ACCESS", "ECLIENT_INVALID_RESULT",
            "EDERIVED", "garbage"}

TypeOK ==
  /\ cpu \in Cpus /\ file \in Files /\ pc \in Pcs /\ result \in Results
  /\ \/ image = NoImage
     \/ image.open /\ image.slide \in Slide /\ image.header_mapping \in mk_memory_object
  /\ low \in Word /\ lc \in Word /\ walked \in Seq(Word) /\ mappings \in 0 .. MaxMappings

\* However the target changed between the two reads of its header, a command the walk or the
\* derivation of the slide has come to lies with its whole size in the mapping, behind a header
\* of the size the mapped magic calls for, where the header, as it is now, says there are
\* commands.  (macho_image.c:118-121, 305-368)
CommandsAreMapped ==
  lc # NULL =>
    /\ image.header_size = ModelOf(Raw(mem, HeaderAddress, struct_mach_header, "magic")).value.header_size
    /\ lc >= image.header_mapping.address + image.header_size
    /\ lc < image.header_mapping.address + image.header_size + mk_macho_get_sizeofcmds
    /\ lc + cmdsize(mem, lc) <= image.header_mapping.address + image.header_mapping.length

\* The walk of an image whose header adds up visits every command once, in order, and
\* nothing else, on either kind of host.
WalkIsComplete ==
  pc = "open" /\ Whole =>
    /\ IsPrefix(walked, FileCommands)
    /\ mk_macho_next_command(image, lc, TRUE) = NULL => walked = FileCommands

\* A header mapping comes with an open image and goes with it: no call frees what is in use,
\* frees twice, or keeps a mapping it does not return, except the one that finds another magic
\* than it copied.  (macho_image.c:111-121, 221-233)
Holds(state) == IF state \in {"slide", "open"} THEN 1 ELSE 0
MappingsBalance ==
  [][\/ mappings' - mappings = Holds(pc') - Holds(pc)
     \/ result' = "ECLIENT_INVALID_RESULT" /\ mappings' = mappings + 1]_vars

\* A derived slide takes the lowest segment that is in the file to the load address.
Segments ==
  {p \in {FileCommands[i] : i \in DOMAIN FileCommands} :
     FileField(p, struct_load_command, "cmd") = LC[SegmentClass.name]}
FirstSegments ==
  {p \in Segments : ~ /\ FileField(p, SegmentClass.layout, "vmaddr") = 0
                      /\ FileField(p, SegmentClass.layout, "vmsize") # 0
                      /\ FileField(p, SegmentClass.layout, "filesize") = 0}
SlideMovesImage ==
  pc = "open" /\ call.derives /\ Whole =>
    /\ \E p \in FirstSegments : FileField(p, SegmentClass.layout, "vmaddr") + image.slide = LoadAddress
    /\ \A p \in FirstSegments : FileField(p, SegmentClass.layout, "vmaddr") + image.slide >= LoadAddress

\* One of the commands that follow each other from the header on, as far as the header says there
\* are commands, has no size.
EmptyCommand ==
  LET first == HeaderAddress + image.header_size
      end == HeaderAddress + Len(Contents[file])
      from[p \in first .. end] ==
        /\ p < first + FileHeader("sizeofcmds") /\ p + Sizeof(struct_load_command) <= end
        /\ FileSize(p) = 0 \/ (p + FileSize(p) <= end /\ from[p + FileSize(p)])
  IN  from[first]

\* The loop that derives the slide ends, however wrong the sizes in the header and in the commands
\* are, as long as none that it comes to is zero: at such a command mk_macho_init stays for ever.
\* (macho_image.c:129-191, 330-338)
OpeningEnds == pc = "slide" /\ ~ EmptyCommand ~> pc # "slide"

----------------------------------------------------------------------------
(* The command the walk has come to.                                       *)

Commands ==
  IF pc = "open" /\ lc # NULL
  THEN {opened.value :
          opened \in {o \in {mk_load_command_init(mem, image.header_mapping, lc)} : Succeeded(o)}}
  ELSE {}

\* It is as large as its class.  The library does not ask for that.
WholeCommands == {command \in Commands : FileSize(lc) >= mk_load_command_base_size(command)}

\* Each number of a command is the file's, read with its getter or out of the structure
\* copy_native fills, and copy_native fills every field but the padding.
Numbers(command) ==
  LET class == command.vtable
      copy == copy_native(mem, command, class)
  IN  /\ \A f \in DOMAIN class.reads :
           getter(mem, command, class, f) = FileField(lc, class.layout, f)
      /\ class.refuses # "none" =>
           /\ \A f \in DOMAIN class.swaps : copy.value[f] = FileField(lc, class.layout, f)
           /\ \A i \in DOMAIN class.layout :
                class.layout[i][1] \in DOMAIN copy.value \union {class.string, "pad"}

\* Each number is at its place behind the command's address in the target, whether it is read
\* through the mapping of the header or through one that a memory map makes for it.
Reads(command) ==
  LET class == command.vtable
      place == mk_load_command_get_target_address(mem, image.header_mapping, command)
      made(f, slack) ==
        LET address == place.value + OffsetOf(class.layout, f)
        IN  Ok([target_address |-> address, address |-> HeaderAddress + (address - LoadAddress),
                length |-> class.reads[f] + slack])
  IN  \A f \in DOMAIN class.reads :
        LET width == class.reads[f]
            word == Ok(FileField(lc, class.layout, f))
        IN  /\ mk_memory_object_read(mem, image.header_mapping, OffsetOf(class.layout, f),
                                     place.value, width, TRUE) = word
            /\ \A slack \in Slacks : mk_memory_map_read(mem, made(f, slack), width, TRUE) = word

\* A version whose numbers, of two bytes and of one, fit the bits their getters take is read back
\* whole from its parts.
Versions(command) ==
  LET class == command.vtable
      whole(f, primary, major, minor) ==
        LET word == FileField(lc, class.layout, f)
            part(name) == part_getter(mem, command, class, name)
            fits(name, number) == number < class.parts[name].size
        IN  (/\ fits(primary, word \div ByteValues ^ 2)
             /\ fits(major, (word \div ByteValues) % ByteValues) /\ fits(minor, word % ByteValues)) =>
              part(primary) * ByteValues ^ 2 + part(major) * ByteValues + part(minor) = word
  IN  /\ "sdk_minor" \in DOMAIN class.parts => whole("sdk", "sdk_primary", "sdk_major", "sdk_minor")
      /\ "minos_minor" \in DOMAIN class.parts =>
           whole("minos", "minos_primary", "minos_major", "minos_minor")
      /\ "version_minor" \in DOMAIN class.parts =>
           whole("version", "version_primary", "version_major", "version_minor")

\* The numbers of a command are the file's whichever way they are read, on a host of either byte
\* order, and the parts of a version make up the version.  (LoadCommands/*.c,
\* memory_object.c:193-272, memory_map.c:80-162)
ValuesAgree ==
  \A command \in WholeCommands : Numbers(command) /\ Reads(command) /\ Versions(command)

\* A copied string is the command's, from its offset up to the first zero or the end of the
\* command, cut to what the buffer holds and terminated; a string that is not in the command is
\* empty.
FileString(p, offset) == BeforeZero(Peek(mem, p + offset, FileSize(p) - offset))

CopiedStrings(command) ==
  LET class == command.vtable
      offset == FileField(lc, class.layout, class.string)
      string == IF offset < FileSize(lc) THEN FileString(lc, offset) ELSE <<>>
  IN  class.string # "" =>
        \A n \in 0 .. MaxOutput :
          LET copy == copy_string(mem, command, class, n)
          IN  /\ Len(copy.output) <= n
              /\ n = 0 => copy.returns = Len(string)
              /\ n > 0 => copy.returns = Smaller(Len(string), n - 1)
              /\ n > 0 /\ offset < FileSize(lc) =>
                   copy.output = SubSeq(string, 1, copy.returns) \o <<0>>

\* A native copy with room for as many bytes as the command has holds the same string; with
\* less room it is cut, and with room for the structure alone it keeps the offset.
NativeStrings(command) ==
  LET class == command.vtable
      base == Sizeof(class.layout)
      offset == FileField(lc, class.layout, class.string)
  IN  class.string # "" /\ offset < FileSize(lc) =>
        \A extra \in 0 .. MaxOutput :
          LET copy == copy_native_string(mem, command, class, extra)
              string == FileString(lc, offset)
          IN  /\ copy.wrote /\ copy.offset = offset
              /\ offset + Len(copy.output) <= base + extra \/ copy.output = <<>>
              /\ offset + Len(string) < base + extra => copy.output = string \o <<0>>

\* The options of a linker option are the terminated strings behind it, in order, unless it counts
\* as many as the getter of its count returns for another command.
OptionStrings(command) ==
  LET base == Sizeof(struct_linker_option_command)
      count == FileField(lc, struct_linker_option_command, "count")
      tail == Peek(mem, lc + base, FileSize(lc) - base)
      copy(i) == mk_load_command_linker_option_copy_string(mem, command, i, FileSize(lc))
      found == {i \in 0 .. count : mk_load_command_linker_option_get_string(mem, command, i) # NULL}
  IN  IsA(command, mk_load_command_linker_option) /\ cpu = "little" /\ count # UINT_MAX(4) =>
        /\ found \subseteq 0 .. count - 1
        /\ \A i \in found : \A j \in 0 .. i : j \in found
        /\ IsPrefix(FlattenSeq([i \in 1 .. Cardinality(found) |-> copy(i - 1).output]), tail)
        /\ \/ Cardinality(found) = count
           \/ Cardinality({i \in 1 .. Len(tail) : tail[i] = 0}) = Cardinality(found)

\* A string of a command is the same in each of the forms it is copied in, never longer than the
\* buffer, and terminated where it should be; options are found up to the one that is not
\* terminated.  (_mach_lcstr.c, load_command_linker_option.c)
StringsAgree ==
  \A command \in WholeCommands :
    CopiedStrings(command) /\ NativeStrings(command) /\ OptionStrings(command)

Walk(step(_)) ==
  LET rest[p \in {NULL} \union (lc .. lc + FileSize(lc))] ==
        IF step(p) = NULL THEN <<>> ELSE <<step(p)>> \o rest[step(p)]
  IN  rest[NULL]

\* When a command is as large as its count calls for, the walk of its sections or tools finds
\* that many, one behind the other, and each can be initialised.  (load_command_segment.c:201-296,
\* load_command_segment_64.c:201-296, load_command_build_version.c:203-298)
ElementsAgree ==
  LET agrees(step(_), start(_), layout, count, element) ==
        LET n == FileField(lc, layout, count)
            elements == Walk(step)
        IN  FileSize(lc) = Sizeof(layout) + n * Sizeof(element) =>
              /\ elements = [i \in 1 .. n |-> lc + Sizeof(layout) + (i - 1) * Sizeof(element)]
              /\ \A i \in 1 .. n : Succeeded(start(elements[i]))
      mapping == image.header_mapping
  IN  \A command \in WholeCommands :
        /\ IsA(command, mk_load_command_segment) =>
             agrees(LAMBDA p : mk_load_command_segment_next_section(mem, mapping, command, p, TRUE),
                    LAMBDA p : mk_load_command_segment_section_init(mem, command, p),
                    struct_segment_command, "nsects", struct_section)
        /\ IsA(command, mk_load_command_segment_64) =>
             agrees(LAMBDA p : mk_load_command_segment_64_next_section(mem, mapping, command, p, TRUE),
                    LAMBDA p : mk_load_command_segment_64_section_init(mem, command, p),
                    struct_segment_command_64, "nsects", struct_section_64)
        /\ IsA(command, mk_load_command_build_version) =>
             agrees(LAMBDA p : mk_load_command_build_version_get_next_tool(mem, mapping, command, p, TRUE),
                    LAMBDA p : mk_load_command_build_version_build_tool_version_init(mem, command, p),
                    struct_build_version_command, "ntools", struct_build_tool_version)

\* What lies behind the fields of a command, strings and elements, is read as the file has it.
\* (_mach_lcstr.c, load_command_segment.c:201-296 and the other commands with elements)
AttachmentsAgree == StringsAgree /\ ElementsAgree

----------------------------------------------------------------------------
(* What the headers say of the library and the code does not keep.         *)

\* load_command.h:162: "Returns the id of the specified load command.  This will match the value
\* defined in <mach-o/loader.h> for the load command type."
IdsMatch ==
  cpu = "little" => \A command \in Commands :
    mk_load_command_id(command) = mk_mach_load_command_id(mem, image.header_mapping, lc)
=============================================================================
