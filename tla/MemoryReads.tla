---------------------------- MODULE MemoryReads ----------------------------
(***************************************************************************)
(* Reading words of the target (memory_object.c and memory_map.c of        *)
(* libMachO/Core/Memory): through a memory object that is there, or        *)
(* through one that a memory map makes for the call.  `mem' is what the    *)
(* process sees: the bytes from the pointer `at' on, loaded by a processor *)
(* of either byte order.                                                   *)
(***************************************************************************)
EXTENDS ByteOrder, MemoryObject

\* The pages that are mapped end in zeros.
Peek(mem, p, n) ==
  [i \in 1 .. n |-> IF p - mem.at + i \in DOMAIN mem.bytes THEN mem.bytes[p - mem.at + i] ELSE 0]

\* A word is swapped as the data model says, if there is one; a single byte never is.
Ordered(mem, word, width, has_model) ==
  IF has_model /\ width > 1 THEN mk_data_model_get_byte_order(mem.cpu, word, width) ELSE word

\* mk_memory_object_read_byte, _word, _dword and _qword.
mk_memory_object_read(mem, mobj, offset, address, width, has_model) ==
  LET pointer == mk_memory_object_remap_address(mobj, offset, address, width)
  IN  IF Succeeded(pointer)
      THEN Ok(Ordered(mem, Load(mem.cpu, Peek(mem, pointer.value, width)), width, has_model))
      ELSE pointer

\* Mutant of Copied: as much as the mapping holds.
CopiedWhole(mem, object, length) == Peek(mem, object.address, object.length)

\* What memcpy takes out of the object a map made for `length' bytes.
Copied(mem, object, length) ==
  Peek(mem, object.address, IF length < object.length THEN length ELSE object.length)

mk_memory_map_copy_bytes(mem, object, length) ==
  IF Succeeded(object) THEN Ok(Copied(mem, object.value, length)) ELSE object

\* mk_memory_map_read_byte, _word, _dword and _qword, which ask for the full width.
mk_memory_map_read(mem, object, width, has_model) ==
  LET copied == mk_memory_map_copy_bytes(mem, object, width)
  IN  IF ~Succeeded(copied) THEN copied
      ELSE IF Len(copied.value) < width THEN Fails("EBAD_ACCESS")
      ELSE Ok(Ordered(mem, Load(mem.cpu, copied.value), width, has_model))
=============================================================================
