------------------------------ MODULE MCFiles ------------------------------
(***************************************************************************)
(* Mach-O files for TLC: a structure is given by its layout and some of    *)
(* its fields; the others have bytes that differ from each other.          *)
(***************************************************************************)
EXTENDS LoaderABI, TLC

\* The bytes of a structure: a field's value is a number or, for characters, a sequence.
Encode(layout, values) ==
  FlattenSeq([i \in DOMAIN layout |->
    IF layout[i][1] \in {"segname", "sectname", "uuid", "data_owner"}
    THEN values[layout[i][1]] ELSE ToBytes(values[layout[i][1]], layout[i][2])])

Fill(layout) ==
  [f \in {layout[i][1] : i \in DOMAIN layout} |->
     LET i == FieldIndex(layout, f)
         bytes == [k \in 1 .. WidthOf(layout, f) |-> (i + k * (1 + i \div 8)) % ByteValues]
     IN  IF f \in {"segname", "sectname", "uuid", "data_owner"} THEN bytes ELSE FromBytes(bytes)]

\* A command: some of its fields, and the bytes behind its structure.
Cmd(id, layout, fields, tail) ==
  Encode(layout, [cmd |-> id, cmdsize |-> Sizeof(layout) + Len(tail)] @@ fields @@ Fill(layout)) \o tail

HeaderFields == [filetype |-> MH.EXECUTE, flags |-> 1]

Image64(fields, cmds) ==
  Encode(struct_mach_header_64,
         fields @@ [magic |-> MH_MAGIC_64, ncmds |-> Len(cmds), sizeofcmds |-> Len(FlattenSeq(cmds))]
         @@ HeaderFields @@ Fill(struct_mach_header_64)) \o FlattenSeq(cmds)

Image32(fields, cmds) ==
  Encode(struct_mach_header,
         fields @@ [magic |-> MH_MAGIC, ncmds |-> Len(cmds), sizeofcmds |-> Len(FlattenSeq(cmds))]
         @@ HeaderFields @@ Fill(struct_mach_header)) \o FlattenSeq(cmds)

Reversed(id) == mk_byteorder_swapped(id, 4)
=============================================================================
