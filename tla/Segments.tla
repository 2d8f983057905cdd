------------------------------ MODULE Segments ------------------------------
(***************************************************************************)
(* Segments and sections of an open image (libMachO/MachO_ABI/Segments).   *)
(* The image is one of this process: a segment is a load command and the   *)
(* memory object for the range the command, moved by the slide, speaks of. *)
(***************************************************************************)
EXTENDS MachOImage, MemoryMapSelf

\* No image takes the first page of the address space, which NULL points to, or the last.
ASSUME SegmentAssumption ==
  \A f \in Files : /\ LoadAddress >= PageSize
                   /\ LoadAddress + Len(Contents[f]) + PageSize <= MaxWord + 1

\* The pages that hold the file.
Pages == LoadAddress \div PageSize .. (LoadAddress + Len(Contents[file]) - 1) \div PageSize

mk_memory_map_init_object(offset, address, length, require_full) ==
  __mk_memory_map_self_init_object(Pages, offset, address, length, require_full)

----------------------------------------------------------------------------
(* Segments.                                                               *)

SegmentClasses == {mk_load_command_segment.name, mk_load_command_segment_64.name}

\* The values of a segment, each read with the getter of its command's class.
segment_getter(command, field) == getter(mem, command, command.vtable, field)
mk_segment_copy_name(command) == copy_chars(mem, command, command.vtable, "segname")

mk_segment_get_vmaddr(segment) == segment_getter(segment.command, "vmaddr")
mk_segment_get_vmsize(segment) == segment_getter(segment.command, "vmsize")
mk_segment_get_fileoff(segment) == segment_getter(segment.command, "fileoff")
mk_segment_get_filesize(segment) == segment_getter(segment.command, "filesize")
mk_segment_get_maxprot(segment) == segment_getter(segment.command, "maxprot")
mk_segment_get_initprot(segment) == segment_getter(segment.command, "initprot")
mk_segment_get_nsects(segment) == segment_getter(segment.command, "nsects")
mk_segment_get_flags(segment) == segment_getter(segment.command, "flags")

\* The link-edit segment of a shared cache may be larger than what is there.
AllowShortMappings(command) ==
  mk_macho_is_from_shared_cache /\ BeforeZero(mk_segment_copy_name(command)) = SEG_LINKEDIT

mk_segment_init(command) ==
  LET mapping(address) ==
        IF BeforeZero(mk_segment_copy_name(command)) = SEG_PAGEZERO THEN Fails("EUNAVAILABLE")
        ELSE mk_memory_map_init_object(0, address, segment_getter(command, "vmsize"),
                                       ~AllowShortMappings(command))
  IN  IF command.vtable.name \notin SegmentClasses THEN Fails("EINVAL")
      ELSE Then(Then(mk_vm_address_apply_slide(segment_getter(command, "vmaddr"), image.slide), mapping),
                LAMBDA object : Ok([command |-> command, memory_object |-> object]))

mk_segment_init_with_mach_load_command(p) ==
  Then(mk_load_command_init(mem, image.header_mapping, p), mk_segment_init)

\* "Safely applying the slide to addr was checked in the initializer."
mk_segment_get_target_range(segment) ==
  mk_vm_range_make(Wrap(mk_segment_get_vmaddr(segment) + image.slide), mk_segment_get_vmsize(segment))

mk_segment_get_mapping(segment) == segment.memory_object

mk_segment_next_section(segment, previous) ==
  IF IsA(segment.command, mk_load_command_segment_64)
  THEN mk_load_command_segment_64_next_section(mem, image.header_mapping, segment.command, previous, FALSE)
  ELSE mk_load_command_segment_next_section(mem, image.header_mapping, segment.command, previous, FALSE)

----------------------------------------------------------------------------
(* Sections.                                                               *)

SectionClass(segment) ==
  IF IsA(segment.command, mk_load_command_segment_64)
  THEN mk_load_command_section_64 ELSE mk_load_command_section

section_getter(segment, p, field) ==
  getter(mem, [vtable |-> SectionClass(segment), mach_load_command |-> p], SectionClass(segment), field)

mk_section_get_addr(segment, p) == section_getter(segment, p, "addr")
mk_section_get_size(segment, p) == section_getter(segment, p, "size")

\* A section that is not within its segment is left as it was, but the call does not fail: what
\* is returned is the success of the slide.
Unset == [set |-> FALSE]

mk_section_init(segment, p) ==
  LET address == mk_vm_address_apply_slide(mk_section_get_addr(segment, p), image.slide)
      mapping == mk_segment_get_mapping(segment)
      within == mk_vm_range_contains_range(mk_vm_range_make(mapping.target_address, mapping.length),
                  mk_vm_range_make(address.value, mk_section_get_size(segment, p)), FALSE)
  IN  IF ~Succeeded(address) THEN address
      ELSE IF Succeeded(within) THEN Ok([set |-> TRUE, command |-> p])
      ELSE Ok(Unset)

mk_section_init_wih_mach_section_command(segment, p) ==
  Then(IF IsA(segment.command, mk_load_command_segment_64)
       THEN mk_load_command_segment_64_section_init(mem, segment.command, p)
       ELSE mk_load_command_segment_section_init(mem, segment.command, p),
       LAMBDA command : mk_section_init(segment, command))

mk_section_get_target_range(segment, p) ==
  mk_vm_range_make(Wrap(mk_section_get_addr(segment, p) + image.slide), mk_section_get_size(segment, p))

\* Stub libraries have an empty section.
mk_section_init_mapping(segment, p) ==
  LET range == mk_section_get_target_range(segment, p)
  IN  IF range.length = 0 THEN Fails("ENOT_FOUND")
      ELSE mk_memory_map_init_object(0, range.location, range.length, FALSE)
=============================================================================
