---------------------------- MODULE LoadCommand ----------------------------
(***************************************************************************)
(* Load commands (libMachO/MachO_ABI/load_command.c and the functions of   *)
(* its classes).  The library reads an image through the mapping of its    *)
(* header: `mem' is what the process sees there.  A load command is its    *)
(* class and the pointer to the mapped command.                            *)
(***************************************************************************)
EXTENDS LoadCommandClasses, MemoryReads

NULL == 0

\* What a call returns that gives up when the one before it fails.
Then(outcome, call(_)) == IF Succeeded(outcome) THEN call(outcome.value) ELSE outcome

Raw(mem, p, layout, field) ==
  Load(mem.cpu, Peek(mem, p + OffsetOf(layout, field), WidthOf(layout, field)))

\* byte_order->swap<width>( p->field )
Swap(mem, word, width) == mk_data_model_get_byte_order(mem.cpu, word % ByteValues ^ width, width)
Read(mem, p, layout, field, width) == Swap(mem, Raw(mem, p, layout, field), width)

Within(mapping, p, length) == Succeeded(mk_memory_object_verify_local_pointer(mapping, 0, p, length))

----------------------------------------------------------------------------
_mk_load_command_classes ==
  {mk_load_command_segment, mk_load_command_symtab, mk_load_command_dysymtab,
   mk_load_command_load_dylib, mk_load_command_id_dylib, mk_load_command_load_dylinker,
   mk_load_command_id_dylinker, mk_load_command_routines, mk_load_command_sub_framework,
   mk_load_command_sub_client, mk_load_command_sub_library, mk_load_command_twolevel_hints,
   mk_load_command_prebind_cksum, mk_load_command_load_weak_dylib, mk_load_command_segment_64,
   mk_load_command_routines_64, mk_load_command_uuid, mk_load_command_rpath,
   mk_load_command_code_signature, mk_load_command_segment_split_info,
   mk_load_command_reexport_dylib, mk_load_command_lazy_load_dylib,
   mk_load_command_encryption_info, mk_load_command_dyld_info, mk_load_command_dyld_info_only,
   mk_load_command_load_upward_dylib, mk_load_command_version_min_macosx,
   mk_load_command_version_min_iphoneos, mk_load_command_function_starts,
   mk_load_command_dyld_environment, mk_load_command_main, mk_load_command_data_in_code,
   mk_load_command_source_version, mk_load_command_code_sign_drs,
   mk_load_command_encryption_info_64, mk_load_command_linker_option,
   mk_load_command_version_min_tvos, mk_load_command_version_min_watchos, mk_load_command_note,
   mk_load_command_build_version, mk_load_command_dyld_exports_trie,
   mk_load_command_dyld_chained_fixups}

\* The class the switch of mk_load_command_init comes to, if any.  Two cases do not name their
\* own class.
ClassOf(cmd) ==
  LET id == IF cmd = LC.SUB_LIBRARY THEN LC.SUB_FRAMEWORK
            ELSE IF cmd = LC.TWOLEVEL_HINTS THEN LC.SUB_LIBRARY ELSE cmd
  IN  {class \in _mk_load_command_classes : LC[class.name] = id}

mk_mach_load_command_id(mem, mapping, lc) ==
  IF Within(mapping, lc, Sizeof(struct_load_command))
  THEN Read(mem, lc, struct_load_command, "cmd", 4)
  ELSE 0

cmdsize(mem, lc) == Read(mem, lc, struct_load_command, "cmdsize", 4)

\* The size is swapped before it is used; the id the switch looks at is not.
mk_load_command_init(mem, mapping, lc) ==
  LET opened == {[vtable |-> class, mach_load_command |-> lc] :
                   class \in ClassOf(Raw(mem, lc, struct_load_command, "cmd"))}
      only(commands) == IF commands = {} THEN Fails("EINVALID_DATA")
                        ELSE Ok(CHOOSE command \in commands : TRUE)
  IN  IF /\ Within(mapping, lc, Sizeof(struct_load_command))
         /\ Within(mapping, lc, cmdsize(mem, lc))
      THEN only(opened)
      ELSE Fails("EINVALID_DATA")

mk_load_command_id(command) == LC[command.vtable.name]
mk_load_command_base_size(command) == command.vtable.command_base_size
mk_load_command_size(mem, command) == cmdsize(mem, command.mach_load_command)

mk_load_command_get_target_address(mem, mapping, command) ==
  mk_memory_object_unmap_address(mapping, 0, command.mach_load_command,
                                 mk_load_command_size(mem, command))

\* Two commands of one image are equal when their classes, sizes and bytes are.
mk_load_command_equal(mem, command, other) ==
  LET p == command.mach_load_command
      q == other.mach_load_command
      size == Raw(mem, p, struct_load_command, "cmdsize")
  IN  /\ command.vtable.name = other.vtable.name
      /\ size = Raw(mem, q, struct_load_command, "cmdsize")
      /\ Peek(mem, p, size) = Peek(mem, q, size)

----------------------------------------------------------------------------
(* What the functions of a class do with a command.                        *)

IsA(command, class) == command.vtable.name = class.name

getter(mem, command, class, field) ==
  IF IsA(command, class)
  THEN Read(mem, command.mach_load_command, class.layout, field, class.reads[field])
  ELSE class.otherwise[field]

part_getter(mem, command, class, name) ==
  LET part == class.parts[name]
  IN  IF IsA(command, class)
      THEN PartOf(part, Read(mem, command.mach_load_command, class.layout, part.field, 4))
      ELSE part.otherwise

\* The structure copy_native fills: the numbers as the processor reads them, and the bytes.
native(mem, p, class) ==
  [f \in DOMAIN class.swaps \union class.bytes |->
     IF f \in DOMAIN class.swaps THEN Read(mem, p, class.layout, f, class.swaps[f])
     ELSE Peek(mem, p + OffsetOf(class.layout, f), WidthOf(class.layout, f))]

copy_native(mem, command, class) ==
  IF IsA(command, class) THEN Ok(native(mem, command.mach_load_command, class))
  ELSE Fails(class.refuses)

copy_chars(mem, command, class, field) ==
  IF IsA(command, class)
  THEN Peek(mem, command.mach_load_command + OffsetOf(class.layout, field),
            WidthOf(class.layout, field))
  ELSE <<>>

----------------------------------------------------------------------------
(* Strings.                                                                *)

\* What strncmp and strnlen see of a field of characters.
BeforeZero(bytes) ==
  LET zero == SelectInSeq(bytes, LAMBDA byte : byte = 0)
  IN  IF zero = 0 THEN bytes ELSE SubSeq(bytes, 1, zero - 1)

strnlen(mem, p, max) == Len(BeforeZero(Peek(mem, p, max)))

Smaller(m, n) == IF m < n THEN m ELSE n

\* The offset of the string in the command, or why there is none.
LcStrOffset(mem, command, lc_str) ==
  LET cmd == command.mach_load_command
      size == mk_load_command_size(mem, command)
      offset == Swap(mem, Load(mem.cpu, Peek(mem, lc_str, 4)), 4)
  IN  IF /\ size >= mk_load_command_base_size(command)
         /\ Succeeded(mk_vm_range_contains_range(mk_vm_range_make(cmd, size),
                                                 mk_vm_range_make(lc_str, 4), FALSE))
         /\ offset < size
      THEN Ok(offset)
      ELSE Fails("EINVALID_DATA")

\* Mutant of CopiedLength: there is no room left for the terminator.
CopiedLengthWhole(length, output_len, include_terminator) == Smaller(length, output_len)

CopiedLength(length, output_len, include_terminator) ==
  Smaller(length, IF include_terminator THEN output_len - 1 ELSE output_len)

\* What is returned, and the bytes written to an output of output_len bytes (none for NULL).
_mk_mach_lc_str_copy(mem, command, lc_str, output_len, include_terminator) ==
  LET offset == LcStrOffset(mem, command, lc_str)
      at == command.mach_load_command + offset.value
      length == strnlen(mem, at, mk_load_command_size(mem, command) - offset.value)
      count == CopiedLength(length, output_len, include_terminator)
      terminated == length < output_len \/ include_terminator
  IN  IF ~Succeeded(offset) \/ MaxWord - offset.value < command.mach_load_command
      THEN [returns |-> 0, output |-> <<>>]
      ELSE IF output_len = 0 THEN [returns |-> length, output |-> <<>>]
      ELSE [returns |-> count,
            output |-> Peek(mem, at, count) \o (IF terminated THEN <<0>> ELSE <<>>)]

\* Into a structure of dest_cmdsize bytes, that holds its own lc_str at `dest_field': the
\* offset it is given, if any, and the bytes written from that offset on.
_mk_mach_lc_str_copy_native(mem, command, src_lc_str, dest_field, dest_cmdsize) ==
  LET offset == LcStrOffset(mem, command, src_lc_str)
      at == command.mach_load_command + offset.value
      length == strnlen(mem, at, mk_load_command_size(mem, command) - offset.value)
      room == dest_cmdsize - offset.value
      count == Smaller(length, room)
  IN  IF ~Succeeded(offset) \/ dest_field + 4 > dest_cmdsize
      THEN [returns |-> 0, wrote |-> FALSE, offset |-> 0, output |-> <<>>]
      ELSE IF room <= 0
      THEN [returns |-> 0, wrote |-> TRUE, offset |-> offset.value, output |-> <<>>]
      ELSE [returns |-> count, wrote |-> TRUE, offset |-> offset.value,
            output |-> Peek(mem, at, count) \o (IF length < room THEN <<0>> ELSE <<>>)]

\* The string functions of a class.
copy_string(mem, command, class, output_len) ==
  IF IsA(command, class)
  THEN _mk_mach_lc_str_copy(mem, command,
         command.mach_load_command + OffsetOf(class.layout, class.string), output_len, TRUE)
  ELSE [returns |-> 0, output |-> <<>>]

copy_native_string(mem, command, class, extra) ==
  _mk_mach_lc_str_copy_native(mem, command,
    command.mach_load_command + OffsetOf(class.layout, class.string),
    OffsetOf(class.layout, class.string), Sizeof(class.layout) + extra)

\* The start and the length of the index-th string of a linker option: the size of the command
\* is not swapped here, and every string up to that one must be terminated inside of it.
mk_load_command_linker_option_get_string(mem, command, index) ==
  LET class == mk_load_command_linker_option
      nstrings == getter(mem, command, class, "count")
      start == command.mach_load_command
      end == start + Raw(mem, start, struct_load_command, "cmdsize")
      Length(at) == strnlen(mem, at, end - at)
      option[i \in 0 .. index] ==
        LET previous == IF i = 0 THEN start ELSE option[i - 1]
            at == IF i = 0 THEN start + Sizeof(class.layout) ELSE previous + Length(previous) + 1
        IN  IF previous = NULL \/ at >= end \/ Length(at) = end - at THEN NULL ELSE at
  IN  IF nstrings = UINT_MAX(4) \/ index >= nstrings THEN NULL ELSE option[index]

mk_load_command_linker_option_copy_string(mem, command, index, output_len) ==
  LET at == mk_load_command_linker_option_get_string(mem, command, index)
      end == command.mach_load_command +
             Raw(mem, command.mach_load_command, struct_load_command, "cmdsize")
      length == IF at = NULL THEN 0 ELSE strnlen(mem, at, end - at)
      count == Smaller(length, output_len - 1)
  IN  IF ~IsA(command, mk_load_command_linker_option) THEN [returns |-> 0, output |-> <<>>]
      ELSE IF output_len = 0 THEN [returns |-> length, output |-> <<>>]
      ELSE [returns |-> count, output |-> Peek(mem, at, count) \o <<0>>]

----------------------------------------------------------------------------
(* What follows a command: the sections of a segment and the tools of a    *)
(* build version.                                                          *)

\* Mutant of HasElement: the command must be longer than one element calls for.
HasLongerElement(size, base, width) == size > base + width

HasElement(size, base, width) == size >= base + width

\* The walk of the elements of `width' bytes.  `count' is only compared with 0; with `locate'
\* the element's address in the target is asked for too, and must exist.
NextElement(mem, mapping, command, class, count, width, previous, locate) ==
  LET cmd == command.mach_load_command
      size == mk_load_command_size(mem, command)
      next == IF previous = NULL THEN cmd + Sizeof(class.layout) ELSE previous + width
  IN  IF \/ ~IsA(command, class)
         \/ /\ previous = NULL
            /\ getter(mem, command, class, count) = 0 \/ ~HasElement(size, Sizeof(class.layout), width)
         \/ /\ previous # NULL
            /\ ~Succeeded(mk_vm_range_contains_address(mk_vm_range_make(cmd, size), 0, previous))
         \/ next >= cmd + size
         \/ locate /\ ~Succeeded(mk_memory_object_unmap_address(mapping, 0, next, width))
      THEN NULL ELSE next

mk_load_command_segment_next_section(mem, mapping, command, previous, locate) ==
  NextElement(mem, mapping, command, mk_load_command_segment, "nsects", Sizeof(struct_section),
              previous, locate)

mk_load_command_segment_64_next_section(mem, mapping, command, previous, locate) ==
  NextElement(mem, mapping, command, mk_load_command_segment_64, "nsects",
              Sizeof(struct_section_64), previous, locate)

mk_load_command_build_version_get_next_tool(mem, mapping, command, previous, locate) ==
  NextElement(mem, mapping, command, mk_load_command_build_version, "ntools",
              Sizeof(struct_build_tool_version), previous, locate)

\* The element must lie in the command; the class of the command is not looked at.
InitElement(mem, command, p, width) ==
  LET range == mk_vm_range_make(command.mach_load_command, mk_load_command_size(mem, command))
  IN  IF Succeeded(mk_vm_range_contains_range(range, mk_vm_range_make(p, width), FALSE))
      THEN Ok(p) ELSE Fails("EINVAL")

mk_load_command_segment_section_init(mem, command, p) ==
  InitElement(mem, command, p, Sizeof(struct_section))
mk_load_command_segment_64_section_init(mem, command, p) ==
  InitElement(mem, command, p, Sizeof(struct_section_64))
mk_load_command_build_version_build_tool_version_init(mem, command, p) ==
  InitElement(mem, command, p, Sizeof(struct_build_tool_version))
=============================================================================
