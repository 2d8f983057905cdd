-------------------------- MODULE ExportsTerminal --------------------------
(***************************************************************************)
(* What libMachO makes of a terminal node (MachO_ABI/Exports/export.c): an *)
(* export is the range of the node's terminal information, and each time   *)
(* it is asked it reads its values there.                                  *)
(***************************************************************************)
EXTENDS ExportsSearch

\* sizeof(uint64_t), the longest size of terminal information mk_export_init reads: 8, where a
\* number may take 10 bytes.
CONSTANT SizeBytes

ASSUME SizeAssumption == SizeBytes \in 1 .. LEBBytes

\* mk_memory_object_verify_local_pointer, of the segment the trie is in.
Mapped(p, length) == p + length <= End

\* Mutant of TerminalSize: the number may take one byte less.
TerminalSizeShort(p) ==
  IF ~ Mapped(p, 1) THEN Fails("EINVAL")
  ELSE IF ByteAt(p) < 128 THEN [err |-> "ESUCCESS", value |-> ByteAt(p), size |-> 1]
  ELSE Fails("EINVALID_DATA")

\* The size of the terminal information of the node at p.  How long a number is it does not
\* know: it tries with one byte more, until the number ends.
TerminalSize(p) ==
  LET number(s) == _mk_mach_trie_copy_uleb128(p, p + s)
      stops == {s \in 2 .. SizeBytes : ~ Mapped(p, s) \/ Succeeded(number(s))}
  IN  IF ~ Mapped(p, 1) THEN Fails("EINVAL")
      ELSE IF ByteAt(p) < 128 THEN [err |-> "ESUCCESS", value |-> ByteAt(p), size |-> 1]
      ELSE IF stops = {} THEN Fails("EINVALID_DATA")
      ELSE IF ~ Mapped(p, Min(stops)) THEN Fails("EINVAL")
      ELSE number(Min(stops))

mk_export_init(p) ==
  LET size == TerminalSize(p)
      contents == p + size.size
      information == mk_vm_range_make(TrieAddress + contents, size.value)
  IN  IF ~ Succeeded(size) THEN size
      ELSE IF \/ size.value = 0 \/ ~ Mapped(contents, size.value)
              \/ ~ Succeeded(mk_vm_range_contains_range(TargetRange, information, FALSE))
      THEN Fails("EINVAL")
      ELSE Ok([terminal_data |-> contents, terminal_data_size |-> size.value])

\* The imported name is not held to the end of the information: it runs up to the first zero.
mk_export_get_info(export) ==
  LET end == export.terminal_data + export.terminal_data_size
      flags == _mk_mach_trie_copy_uleb128(export.terminal_data, end)
      place == export.terminal_data + flags.size
      offset == _mk_mach_trie_copy_uleb128(place, end)
      behind == place + offset.size
      resolver == _mk_mach_trie_copy_uleb128(behind, end)
      info == [flags |-> flags.value, offset |-> 0, ordinal |-> 0, imported |-> <<>>,
               resolver |-> 0]
  IN  IF ~ Succeeded(flags) THEN flags
      ELSE IF ~ Succeeded(offset) THEN offset
      ELSE IF ReExport(flags.value)
      THEN IF behind >= end THEN Fails("EOUT_OF_RANGE")
           ELSE Ok([info EXCEPT !.ordinal = offset.value,
                                !.imported = Characters(behind, StringEnd(behind, End))])
      ELSE IF Kind(flags.value) = 0 /\ StubAndResolver(flags.value)
      THEN IF ~ Succeeded(resolver) THEN resolver
           ELSE Ok([info EXCEPT !.offset = offset.value, !.resolver = resolver.value])
      ELSE Ok([info EXCEPT !.offset = offset.value])
=============================================================================
