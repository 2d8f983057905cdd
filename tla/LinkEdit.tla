------------------------------ MODULE LinkEdit ------------------------------
(***************************************************************************)
(* The tables of the link-edit segment of an open image: symbols, strings, *)
(* indirect symbols and the exports trie (libMachO/MachO_ABI/*_table.c,    *)
(* exports_trie.c, Symbols/symbol.c).  A client opens an image, one of its *)
(* segments, and one part of the segment (a section or a table), and reads *)
(* the part item by item.  A table is [range], the part of the target it   *)
(* takes, and the command it was made from.                                *)
(***************************************************************************)
EXTENDS Segments

VARIABLES
  segment,   \* the client's mk_segment_t
  part,      \* the section or table it has initialised in it
  item,      \* the item the client's reading of the part has come to
  seen,      \* the items so far
  crashed    \* whether the process has ended, at an assertion or at a pointer to nothing

segmentVars == <<segment, part, item, seen, crashed>>
allVars == <<vars, segmentVars>>

----------------------------------------------------------------------------
(* Initialising tables.                                                    *)

Contained(range) ==
  Then(mk_vm_range_contains_range(mk_segment_get_target_range(segment), range, FALSE),
       LAMBDA contained : Ok(range))

\* Mutant of TableRange: it may be anywhere.
TableRangeAnywhere(offset, size) ==
  Ok(mk_vm_range_make(mk_segment_get_target_range(segment).location + offset
                      - mk_segment_get_fileoff(segment), size))

\* The range of a table at a place in the file: the segment's, from the place on less where the
\* segment is in the file.  It must be contained in the segment.
TableRange(offset, size) ==
  Then(mk_vm_address_apply_offset(mk_segment_get_target_range(segment).location, offset),
       LAMBDA moved : Then(mk_vm_address_subtract(moved, mk_segment_get_fileoff(segment)),
                           LAMBDA start : Contained(mk_vm_range_make(start, size))))

nlist_layout == IF mk_macho_is_64_bit THEN struct_nlist_64 ELSE struct_nlist

TableFrom(range, command) ==
  Then(range, LAMBDA place : Ok([range |-> place, command |-> command]))

Value(command, field) == getter(mem, command, command.vtable, field)

mk_symbol_table_init(symtab, dysymtab) ==
  LET symoff == Value(symtab, "symoff")
  IN  IF \/ ~IsA(symtab, mk_load_command_symtab)
         \/ /\ dysymtab # NULL
            /\ ~IsA(mk_load_command_init(mem, image.header_mapping, dysymtab).value, mk_load_command_dysymtab)
      THEN Fails("EINVAL")
      ELSE IF symoff = 0 THEN Fails("ENOT_FOUND")
      ELSE TableFrom(TableRange(symoff, Wrap(Value(symtab, "nsyms") * Sizeof(nlist_layout))), symtab)

mk_string_table_init(symtab) ==
  IF ~IsA(symtab, mk_load_command_symtab) THEN Fails("EINVAL")
  ELSE IF Value(symtab, "stroff") = 0 THEN Fails("ENOT_FOUND")
  ELSE TableFrom(TableRange(Value(symtab, "stroff"), Value(symtab, "strsize")), symtab)

mk_indirect_symbol_table_init(dysymtab) ==
  IF ~IsA(dysymtab, mk_load_command_dysymtab) THEN Fails("EINVAL")
  ELSE IF Value(dysymtab, "indirectsymoff") = 0 THEN Fails("ENOT_FOUND")
  ELSE TableFrom(TableRange(Value(dysymtab, "indirectsymoff"),
                            Wrap(Value(dysymtab, "nindirectsyms") * 4)), dysymtab)

mk_exports_trie_init(command) ==
  LET place == IF IsA(command, mk_load_command_dyld_exports_trie)
               THEN <<"dataoff", "datasize">> ELSE <<"export_off", "export_size">>
  IN  IF command.vtable.name \notin {mk_load_command_dyld_exports_trie.name, mk_load_command_dyld_info.name,
                                mk_load_command_dyld_info_only.name} THEN Fails("EINVAL")
      ELSE IF Value(command, place[2]) = 0 THEN Fails("ENOT_FOUND")
      ELSE TableFrom(TableRange(Value(command, place[1]), Value(command, place[2])), command)

\* A load command of the image, or why there is none.
CommandAt(p) ==
  IF p = NULL THEN Fails("ENOT_FOUND") ELSE mk_load_command_init(mem, image.header_mapping, p)

\* "dyld uses the *last* LC_SYMTAB in the load commands list."  Of LC_DYSYMTAB it is the first.
mk_symbol_table_init_with_segment ==
  LET from(symtab, dysymtab) ==
        IF dysymtab = NULL THEN mk_symbol_table_init(symtab, dysymtab)
        ELSE Then(CommandAt(dysymtab), LAMBDA command : mk_symbol_table_init(symtab, dysymtab))
  IN  Then(CommandAt(mk_macho_last_command_type(image, LC.SYMTAB)),
           LAMBDA symtab : from(symtab, mk_macho_find_command(image, LC.DYSYMTAB)))

mk_string_table_init_with_segment ==
  Then(CommandAt(mk_macho_last_command_type(image, LC.SYMTAB)), mk_string_table_init)

mk_indirect_symbol_table_init_with_segment ==
  Then(CommandAt(mk_macho_last_command_type(image, LC.DYSYMTAB)), mk_indirect_symbol_table_init)

\* "dyld prefers LC_DYLD_EXPORTS_TRIE if it is present"
mk_exports_trie_init_with_segment ==
  LET ids == <<LC.DYLD_EXPORTS_TRIE, LC.DYLD_INFO, LC.DYLD_INFO_ONLY>>
      found == SelectSeq([i \in DOMAIN ids |-> mk_macho_last_command_type(image, ids[i])],
                         LAMBDA p : p # NULL)
  IN  Then(CommandAt(FirstOf(found)), mk_exports_trie_init)

----------------------------------------------------------------------------
(* Symbols.                                                                *)

\* The pointer to `length' bytes of the target, through the segment's mapping, or NULL.
Remapped(address, length) ==
  LET found == mk_memory_object_remap_address(mk_segment_get_mapping(segment), 0, address, length)
  IN  IF Succeeded(found) THEN found.value ELSE NULL

\* The place in the table of a pointer a client passes, if it is in the mapping and the table.
PlaceOf(table, p) ==
  LET address == mk_memory_object_unmap_address(mk_segment_get_mapping(segment), 0, p, 1)
  IN  IF ~Succeeded(address) THEN address
      ELSE IF ~Succeeded(mk_vm_range_contains_address(table.range, 0, address.value))
      THEN Fails("EOUT_OF_RANGE")
      ELSE Ok(address.value - table.range.location)

mk_symbol_table_get_symbol_count(table) == Value(table.command, "nsyms")

mk_symbol_table_get_mach_symbol_at_index(table, index) ==
  LET address == mk_vm_address_apply_offset(table.range.location, Wrap(index * Sizeof(nlist_layout)))
  IN  IF index >= mk_symbol_table_get_symbol_count(table) \/ ~Succeeded(address) THEN NULL
      ELSE Remapped(address.value, Sizeof(nlist_layout))

\* Mutant of mk_symbol_table_next_mach_symbol: the first entry is passed over.
mk_symbol_table_next_mach_symbolLate(table, previous) ==
  LET place == PlaceOf(table, previous)
  IN  IF previous = NULL THEN mk_symbol_table_get_mach_symbol_at_index(table, 1)
      ELSE IF ~Succeeded(place) THEN NULL
      ELSE mk_symbol_table_get_mach_symbol_at_index(table, place.value \div Sizeof(nlist_layout) + 1)

mk_symbol_table_next_mach_symbol(table, previous) ==
  LET place == PlaceOf(table, previous)
  IN  IF previous = NULL THEN mk_symbol_table_get_mach_symbol_at_index(table, 0)
      ELSE IF ~Succeeded(place) THEN NULL
      ELSE mk_symbol_table_get_mach_symbol_at_index(table, place.value \div Sizeof(nlist_layout) + 1)

\* The pointers a table's enumerator is called with, from an index on: what is left of the table
\* must be mapped as a whole.
EnumerateFrom(table, index, count, size) ==
  LET address == mk_vm_address_add(table.range.location, Wrap(index * size))
      length == mk_vm_address_subtract(table.range.length, Wrap(index * size))
      start == Remapped(address.value, length.value)
  IN  IF index >= count \/ ~Succeeded(address) \/ ~Succeeded(length) \/ start = NULL THEN <<>>
      ELSE [i \in 1 .. count - index |-> start + (i - 1) * size]

mk_symbol_table_enumerate_mach_symbols(table, index) ==
  EnumerateFrom(table, index, mk_symbol_table_get_symbol_count(table), Sizeof(nlist_layout))

\* The symbol of a pointer: its place in the target must be in the table.
mk_symbol_init(table, p) ==
  LET size == Sizeof(nlist_layout)
      address == mk_memory_object_unmap_address(mk_segment_get_mapping(segment), 0, p, size)
  IN  IF /\ Succeeded(address)
         /\ Succeeded(mk_vm_range_contains_range(table.range, mk_vm_range_make(address.value, size), FALSE))
      THEN Ok([nlist |-> p]) ELSE Fails("EINVAL")

mk_symbol_get_target_range(symbol) ==
  mk_vm_range_make(mk_memory_object_unmap_address(mk_segment_get_mapping(segment), 0, symbol.nlist,
                                                  Sizeof(nlist_layout)).value, Sizeof(nlist_layout))

\* Mutant of mk_symbol_value: the value of an entry has four bytes in both.
mk_symbol_valueNarrow(symbol, field) ==
  Read(mem, symbol.nlist, nlist_layout, field, Smaller(4, WidthOf(nlist_layout, field)))

\* The values of a symbol, of either kind of entry; only the last field is wider in one.
mk_symbol_value(symbol, field) ==
  Read(mem, symbol.nlist, nlist_layout, field, WidthOf(nlist_layout, field))

----------------------------------------------------------------------------
(* Strings.                                                                *)

\* The pointer to the string at an offset: the rest of the table must be mapped.  Whether the
\* string ends in the table is not looked at.
mk_string_table_get_string_at_offset(table, offset) ==
  LET address == mk_vm_address_apply_offset(table.range.location, offset)
  IN  IF \/ ~Succeeded(address)
         \/ ~Succeeded(mk_vm_range_contains_address(table.range, 0, address.value))
      THEN NULL ELSE Remapped(address.value, table.range.length - offset)

mk_string_table_copy_string_at_offset(table, offset, max_len) ==
  LET string == mk_string_table_get_string_at_offset(table, offset)
      length == strnlen(mem, string, table.range.length - offset)
  IN  IF string = NULL THEN <<>> ELSE Peek(mem, string, Smaller(length, max_len))

mk_string_table_next_string(table, previous) ==
  LET place == PlaceOf(table, previous)
      length == strnlen(mem, previous, table.range.length - place.value)
  IN  IF previous = NULL THEN mk_string_table_get_string_at_offset(table, 0)
      ELSE IF ~Succeeded(place) THEN NULL
      ELSE mk_string_table_get_string_at_offset(table, (place.value + length + 1) % (UINT_MAX(4) + 1))

\* The pointers the block is called with.
mk_string_table_enumerate_strings(table, offset) ==
  LET start == mk_string_table_get_string_at_offset(table, offset)
      from[o \in offset .. table.range.length + 1] ==
        IF o >= table.range.length THEN <<>>
        ELSE LET p == start + (o - offset)
             IN  <<p>> \o from[o + strnlen(mem, p, table.range.length - o) + 1]
  IN  IF start = NULL THEN <<>> ELSE from[offset]

----------------------------------------------------------------------------
(* Indirect symbols.                                                       *)

mk_indirect_symbol_table_get_entry_count(table) == Value(table.command, "nindirectsyms")

UINTPTR_MAX == MaxWord

\* The pointer an entry is read at, which is not one when the entry is not mapped.
EntryAt(table, index) ==
  LET address == mk_vm_address_apply_offset(table.range.location, Wrap(index * 4))
      entry == Remapped(address.value, 4)
  IN  IF ~Succeeded(address) \/ entry = NULL THEN UINTPTR_MAX ELSE entry

\* The entry, as the processor loads it.  The check whether it is mapped looks at the address
\* instead of the pointer, which is then followed.
mk_indirect_symbol_table_get_entry_at_index(table, index) ==
  LET address == mk_vm_address_apply_offset(table.range.location, Wrap(index * 4))
  IN  IF \/ index >= mk_indirect_symbol_table_get_entry_count(table)
         \/ ~Succeeded(address) \/ address.value = UINTPTR_MAX
      THEN Ok(UINT_MAX(4))
      ELSE IF EntryAt(table, index) = UINTPTR_MAX THEN Fails("crashed")
      ELSE Ok(Load(mem.cpu, Peek(mem, EntryAt(table, index), 4)))

mk_indirect_symbol_table_enumerate_entries(table, index) ==
  EnumerateFrom(table, index, mk_indirect_symbol_table_get_entry_count(table), 4)

----------------------------------------------------------------------------
(* The client.                                                             *)

None == [kind |-> "none"]
NoSegment == [open |-> FALSE]

LinkEditInit ==
  Init /\ segment = NoSegment /\ part = None /\ item = NULL /\ seen = <<>>
  /\ crashed = FALSE

ImageNext == segment = NoSegment /\ Next /\ UNCHANGED segmentVars

InitSegment ==
  /\ pc = "open" /\ segment = NoSegment /\ lc # NULL
  /\ LET opened == mk_segment_init_with_mach_load_command(lc)
     IN  /\ result' = opened.err
         /\ segment' = IF Succeeded(opened) THEN opened.value ELSE NoSegment
         /\ crashed' = (opened = Trapped)
         /\ UNCHANGED <<cpu, file, pc, call, image, low, lc, walked, mappings, part, item, seen>>

\* The parts must not outlive their segment; nothing enforces it.
mk_segment_free ==
  /\ segment # NoSegment /\ part = None
  /\ segment' = NoSegment
  /\ UNCHANGED <<vars, part, item, seen, crashed>>

InitPart(kind, made) ==
  /\ segment # NoSegment /\ part = None
  /\ result' = made.err
  /\ part' = IF Succeeded(made) THEN [kind |-> kind, value |-> made.value] ELSE None
  /\ item' = NULL /\ seen' = <<>>
  /\ UNCHANGED <<cpu, file, pc, call, image, low, lc, walked, mappings, segment, crashed>>

SectionPointers ==
  LET from[p \in {NULL} \union (HeaderAddress .. HeaderAddress + image.header_mapping.length)] ==
        LET next == mk_segment_next_section(segment, p)
        IN  IF next = NULL THEN {} ELSE {next} \union from[next]
  IN  from[NULL]

InitSection ==
  segment # NoSegment /\ \E p \in SectionPointers :
    InitPart("section", mk_section_init_wih_mach_section_command(segment, p))
InitSymbols == InitPart("symbols", mk_symbol_table_init_with_segment)
InitStrings == InitPart("strings", mk_string_table_init_with_segment)
InitIndirect == InitPart("indirect", mk_indirect_symbol_table_init_with_segment)
InitExports == InitPart("exports", mk_exports_trie_init_with_segment)

\* The part is freed: its vtable is forgotten.
FreePart ==
  /\ part # None
  /\ part' = None /\ item' = NULL /\ seen' = <<>>
  /\ UNCHANGED <<vars, segment, crashed>>

\* The pointer to what is read next, or NULL at the end of the part.
NextItem ==
  CASE part.kind = "symbols" -> mk_symbol_table_next_mach_symbol(part.value, item)
    [] part.kind = "strings" -> mk_string_table_next_string(part.value, item)
    [] part.kind = "indirect" /\ Len(seen) < mk_indirect_symbol_table_get_entry_count(part.value) ->
         EntryAt(part.value, Len(seen))
    [] OTHER -> NULL

\* The next indirect symbol is in the table, but not in what is mapped.
NextUnmapped == part.kind = "indirect" /\ NextItem = UINTPTR_MAX

\* The client asks for the next symbol, string or indirect symbol.
ReadItem ==
  /\ part # None /\ NextItem # NULL /\ ~NextUnmapped
  /\ item' = NextItem /\ seen' = Append(seen, NextItem)
  /\ UNCHANGED <<vars, segment, part, crashed>>

\* It has no way to know that the next indirect symbol must not be asked for.
ReadUnmapped ==
  /\ part # None /\ NextUnmapped
  /\ crashed' = ~Succeeded(mk_indirect_symbol_table_get_entry_at_index(part.value, Len(seen)))
  /\ UNCHANGED <<vars, segment, part, item, seen>>

LinkEditNext ==
  /\ ~crashed
  /\ \/ ImageNext \/ InitSegment \/ mk_segment_free
     \/ InitSection \/ InitSymbols \/ InitStrings \/ InitIndirect \/ InitExports
     \/ FreePart \/ ReadItem \/ ReadUnmapped

LinkEditSpec == LinkEditInit /\ [][LinkEditNext]_allVars

----------------------------------------------------------------------------
(* Properties.  A place in the target is where this process reads it.      *)

InMapping(p, length) ==
  LET mapping == mk_segment_get_mapping(segment)
  IN  p >= mapping.address /\ p + length <= mapping.address + mapping.length

Table == part.kind \in {"symbols", "strings", "indirect", "exports"}
ItemSize == IF part.kind = "symbols" THEN Sizeof(nlist_layout) ELSE IF part.kind = "indirect" THEN 4 ELSE 1

\* A process ends only where the link-edit segment of a shared cache may be less than its command
\* says: before it is open, when the range it is to have runs past the last address
\* (memory_map_self.c:58-78), and when it is open and not mapped as a whole, at an indirect symbol
\* that is not mapped (indirect_symbol_table.c:185-190).
EndsForShortCache ==
  crashed => /\ mk_macho_is_from_shared_cache
             /\ segment # NoSegment =>
                  /\ part.kind = "indirect"
                  /\ mk_segment_get_mapping(segment).length < mk_segment_get_vmsize(segment)

\* Whatever the file says and however it is slid, a part a call has succeeded in making, and has
\* set, lies in its segment, and each item that is read in the part and in what is mapped of the
\* segment, which may be less; what lies behind that of symbols and strings is not given out,
\* and of indirect symbols ends the process, which nothing else does to an open segment.  A
\* section can be mapped by itself unless it is empty.  A section that is reported but not set is
\* left out.  (segment.c:63-125, section.c:63-186, symbol_table.c:52-274, string_table.c:52-265,
\* indirect_symbol_table.c:52-191, exports_trie.c:52-116, memory_map_self.c:36-130)
PartsInSegment ==
  /\ EndsForShortCache
  /\ part # None /\ (part.kind = "section" => part.value.set) =>
       LET outer == mk_segment_get_target_range(segment)
           mapping == mk_segment_get_mapping(segment)
           range == IF Table THEN part.value.range
                    ELSE mk_section_get_target_range(segment, part.value.command)
       IN  /\ Table => /\ range.location >= outer.location
                       /\ range.location + range.length <= outer.location + outer.length
           /\ ~Table => /\ range.location >= mapping.target_address
                        /\ range.location + range.length <= mapping.target_address + mapping.length
                        /\ range.length > 0 =>
                             LET mapped == mk_section_init_mapping(segment, part.value.command)
                             IN  /\ Succeeded(mapped)
                                 /\ mapped.value.target_address = range.location
                                 /\ mapped.value.length >= range.length
           /\ \A i \in DOMAIN seen :
                /\ InMapping(seen[i], ItemSize)
                /\ seen[i] >= range.location /\ seen[i] + ItemSize <= range.location + range.length

\* The fields of the command that makes the table: the last one of its kind in the file.
LastCommand(ids) ==
  LET found == {n \in DOMAIN FileCommands :
                  FileField(FileCommands[n], struct_load_command, "cmd") \in ids}
  IN  FileCommands[Max(found)]
FilePlace(layout, field) ==
  LET command == LastCommand({IF part.kind = "indirect" THEN LC.DYSYMTAB ELSE LC.SYMTAB})
      link_edit == FileField(lc, segment.command.vtable.layout, "fileoff")
      vmaddr == FileField(lc, segment.command.vtable.layout, "vmaddr")
  IN  vmaddr + image.slide + FileField(command, layout, field) - link_edit
FileCount(layout, field) ==
  FileField(LastCommand({IF part.kind = "indirect" THEN LC.DYSYMTAB ELSE LC.SYMTAB}), layout, field)

\* Where the entries of the table are, by the file: one behind the other.
FileEntries ==
  CASE part.kind = "symbols" ->
         [i \in 1 .. FileCount(struct_symtab_command, "nsyms") |->
            FilePlace(struct_symtab_command, "symoff") + (i - 1) * ItemSize]
    [] part.kind = "indirect" ->
         [i \in 1 .. FileCount(struct_dysymtab_command, "nindirectsyms") |->
            FilePlace(struct_dysymtab_command, "indirectsymoff") + (i - 1) * ItemSize]

\* Where its strings begin: at the start of the table and behind each zero but the last.
FileStrings ==
  LET start == FilePlace(struct_symtab_command, "stroff")
      end == start + FileCount(struct_symtab_command, "strsize")
  IN  {p \in start .. end - 1 : p = start \/ FileWord(p - 1, 1) = 0}

Increasing(s) == \A i, j \in DOMAIN s : i < j => s[i] < s[j]

Enumerated ==
  CASE part.kind = "symbols" -> mk_symbol_table_enumerate_mach_symbols(part.value, 0)
    [] part.kind = "indirect" -> mk_indirect_symbol_table_enumerate_entries(part.value, 0)
    [] part.kind = "strings" -> mk_string_table_enumerate_strings(part.value, 0)

\* Read as far as it goes, a table of a segment that is mapped as a whole has given exactly the
\* items the file has there, in order, and the enumerator is called with the same ones; from a later place
\* it is called with the rest.  (symbol_table.c:206-313, string_table.c:168-302,
\* indirect_symbol_table.c:174-226)
TablesAreComplete ==
  part.kind \in {"symbols", "strings", "indirect"} /\ Whole /\ (NextItem = NULL \/ NextUnmapped)
    /\ mk_segment_get_mapping(segment).length >= mk_segment_get_vmsize(segment) =>
      /\ IF part.kind = "strings" THEN Range(seen) = FileStrings /\ Increasing(seen)
         ELSE seen = FileEntries
      /\ Enumerated = seen
      /\ \A i \in DOMAIN seen :
           CASE part.kind = "symbols" ->
                  mk_symbol_table_enumerate_mach_symbols(part.value, i - 1) = SubSeq(seen, i, Len(seen))
             [] part.kind = "indirect" ->
                  mk_indirect_symbol_table_enumerate_entries(part.value, i - 1) = SubSeq(seen, i, Len(seen))
             [] part.kind = "strings" ->
                  mk_string_table_enumerate_strings(part.value, seen[i] - seen[1]) =
                    SubSeq(seen, i, Len(seen))

\* What is read of an item is what the file has there: the numbers of a section, on a host of
\* either byte order, and of a symbol, a string up to its zero or the end of the table, and an
\* indirect symbol where the host has the byte order of the file.  (section.c:193-310,
\* symbol.c:52-143, string_table.c:196-220, indirect_symbol_table.c:174-191)
ItemsAgree ==
  /\ part.kind = "section" /\ part.value.set =>
       \A f \in DOMAIN SectionClass(segment).reads :
         section_getter(segment, part.value.command, f) =
           FileField(part.value.command, SectionClass(segment).layout, f)
  /\ part.kind = "symbols" /\ item # NULL =>
       LET symbol == mk_symbol_init(part.value, item)
       IN  /\ Succeeded(symbol)
           /\ mk_symbol_get_target_range(symbol.value).location = item
           /\ \A i \in DOMAIN nlist_layout :
                mk_symbol_value(symbol.value, nlist_layout[i][1]) =
                  FileField(item, nlist_layout, nlist_layout[i][1])
  /\ part.kind = "strings" /\ item # NULL =>
       LET end == part.value.range.location + part.value.range.length
           string == BeforeZero(Peek(mem, item, end - item))
       IN  \A n \in 0 .. MaxOutput :
             mk_string_table_copy_string_at_offset(part.value, item - part.value.range.location, n) =
               SubSeq(string, 1, Smaller(n, Len(string)))
  /\ part.kind = "indirect" /\ item # NULL /\ cpu = "little" =>
       mk_indirect_symbol_table_get_entry_at_index(part.value, Len(seen) - 1) = Ok(FileWord(item, 4))

=============================================================================
