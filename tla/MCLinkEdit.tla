----------------------------- MODULE MCLinkEdit -----------------------------
(***************************************************************************)
(* An image of this process with a text segment, a link-edit segment and,  *)
(* in the latter, two symbols, three strings (the last one may miss its    *)
(* zero), two indirect symbols and an exports trie of a few bytes.  The    *)
(* files are that one and ones that differ from it in a way the code tells *)
(* apart.  Both segments are mapped where the slide puts them, one after   *)
(* the other, as the loader does.                                          *)
(***************************************************************************)
EXTENDS LinkEdit, MCFiles

\* Where the segments begin in the file, and where the first is linked.
LinkEditAt == 512
TextAt == 112

Name(chars) == chars \o [i \in 1 .. 16 - Len(chars) |-> 0]

Defaults ==
  [kind |-> 64, id |-> LC.SEGMENT_64, name |-> SEG_LINKEDIT, flags |-> 1, vmaddr |-> TextAt + LinkEditAt,
   vmsize |-> 64, fileoff |-> LinkEditAt, symoff |-> LinkEditAt, nsyms |-> 2,
   stroff |-> LinkEditAt + 40, strsize |-> 8, indirectsymoff |-> LinkEditAt + 32,
   nindirectsyms |-> 2, export_off |-> LinkEditAt + 48, export_size |-> 8,
   strings |-> <<0, 2, 3, 0, 4, 5, 6, 0>>, section |-> [addr |-> TextAt + 200, size |-> 16],
   first |-> <<>>, more |-> <<>>, tail |-> <<>>]

SegmentCmd(f, fields, tail) ==
  IF f.kind = 64 THEN Cmd(f.id, struct_segment_command_64, fields, tail)
  ELSE Cmd(LC.SEGMENT, struct_segment_command, fields, tail)

SectionOf(f) ==
  LET layout == IF f.kind = 64 THEN struct_section_64 ELSE struct_section
  IN  Encode(layout, f.section @@ Fill(layout))

Symtab(fields) == Cmd(LC.SYMTAB, struct_symtab_command, fields, <<>>)
Dysymtab(fields) == Cmd(LC.DYSYMTAB, struct_dysymtab_command, fields, <<>>)
Trie(fields) == Cmd(LC.DYLD_EXPORTS_TRIE, struct_linkedit_data_command, fields, <<>>)
Info(fields) == Cmd(LC.DYLD_INFO_ONLY, struct_dyld_info_command, fields, <<>>)

\* The file: `first' and `more' are further commands, `tail' bytes behind the tables.
File(changes) ==
  LET f == changes @@ Defaults
      commands ==
        <<SegmentCmd(f, [segname |-> Name(<<5, 4>>), vmaddr |-> TextAt, vmsize |-> LinkEditAt,
                         fileoff |-> 0, filesize |-> LinkEditAt, nsects |-> 1], SectionOf(f)),
          SegmentCmd(f, [segname |-> Name(f.name), vmaddr |-> f.vmaddr, vmsize |-> f.vmsize,
                         fileoff |-> f.fileoff, filesize |-> f.vmsize, nsects |-> 0], <<>>)>> \o
        f.first \o
        <<Symtab([symoff |-> f.symoff, nsyms |-> f.nsyms, stroff |-> f.stroff, strsize |-> f.strsize]),
          Dysymtab([indirectsymoff |-> f.indirectsymoff, nindirectsyms |-> f.nindirectsyms])>> \o f.more
      header == IF f.kind = 64 THEN Image64([flags |-> f.flags], commands)
                ELSE Image32([flags |-> f.flags], commands)
      nlist == IF f.kind = 64 THEN struct_nlist_64 ELSE struct_nlist
      symbol(n, strx) == Encode(nlist, [n_strx |-> strx, n_value |-> n + 3 * ByteValues ^ 5] @@ Fill(nlist))
      symbols == symbol(1, 1) \o symbol(2, 4)
  IN  header \o [i \in 1 .. LinkEditAt - Len(header) |-> 0] \o
      symbols \o [i \in 1 .. 32 - Len(symbols) |-> 0] \o
      ToBytes(9, 4) \o ToBytes(MaxWord % 7, 4) \o f.strings \o [i \in 1 .. 8 |-> i % 3] \o f.tail

TableFiles ==
  [plain       |-> File(Nothing),
   image32     |-> File([kind |-> 32]),
   \* What a big-endian host takes for two segments.
   reversed    |-> File([id |-> Reversed(LC.SEGMENT_64)]),
   tools       |-> File([more |-> <<Trie([dataoff |-> LinkEditAt + 48, datasize |-> 8]),
                                    Info([export_off |-> LinkEditAt + 90, export_size |-> 9])>>]),
   info        |-> File([more |-> <<Info([export_off |-> LinkEditAt + 50, export_size |-> 6])>>]),
   no_exports  |-> File([more |-> <<Info([export_off |-> LinkEditAt + 50, export_size |-> 0])>>]),
   \* The first LC_SYMTAB is not the last; the first LC_DYSYMTAB has no table.
   two_symtabs |-> File([first |-> <<Symtab([symoff |-> LinkEditAt + 8, nsyms |-> 1,
                                             stroff |-> LinkEditAt + 44, strsize |-> 4]),
                                     Dysymtab([indirectsymoff |-> 0])>>]),
   \* No strings and no indirect symbols, and tables that are empty.
   absent      |-> File([stroff |-> 0, indirectsymoff |-> 0, symoff |-> 0]),
   none        |-> File([nsyms |-> 0, nindirectsyms |-> 0, strsize |-> 0]),
   \* A string without a zero, at the end of the table and of the segment.
   cut         |-> File([strings |-> <<0, 2, 3, 0, 4, 5, 6, 7>>]),
   one_string  |-> File([strings |-> <<1, 2, 3, 4, 5, 6, 7, 1>>, vmsize |-> 48]),
   \* Tables that are not in the segment, or not all of them.
   before      |-> File([symoff |-> LinkEditAt - 8, stroff |-> 8]),
   outside     |-> File([nsyms |-> 7, strsize |-> 60, nindirectsyms |-> 20]),
   behind      |-> File([symoff |-> LinkEditAt + 64, stroff |-> LinkEditAt + 63,
                         indirectsymoff |-> 4000]),
   \* The segment is somewhere else, is the page zero, or is larger than what is mapped.
   elsewhere   |-> File([vmaddr |-> TextAt + LinkEditAt + 8]),
   far         |-> File([vmaddr |-> 2 * ByteValues ^ 4]),
   page_zero   |-> File([name |-> SEG_PAGEZERO]),
   large       |-> File([vmsize |-> 4000]),
   cached      |-> File([vmsize |-> 4000, flags |-> MH_DYLIB_IN_CACHE, tail |-> <<1, 0, 1>>]),
   cached_less |-> File([vmsize |-> 4000, flags |-> MH_DYLIB_IN_CACHE, nindirectsyms |-> 40]),
   \* Where the segment would end is behind the last address, or its size is when it is rounded.
   endless     |-> File([vmsize |-> MaxWord - 100]),
   cached_end  |-> File([vmsize |-> MaxWord - 100, flags |-> MH_DYLIB_IN_CACHE]),
   cached_wrap |-> File([vmsize |-> MaxWord - 3, flags |-> MH_DYLIB_IN_CACHE]),
   cached_more |-> File([vmsize |-> 4000, flags |-> MH_DYLIB_IN_CACHE, nsyms |-> 9, strsize |-> 400]),
   \* Sections that are not in their segment.
   at_end      |-> File([section |-> [addr |-> TextAt + LinkEditAt - 16, size |-> 16]]),
   too_long    |-> File([section |-> [addr |-> TextAt + LinkEditAt - 16, size |-> 400]]),
   below       |-> File([section |-> [addr |-> TextAt - 1, size |-> 8]]),
   no_bytes    |-> File([section |-> [addr |-> TextAt + 32, size |-> 0]])]
\* TLC keeps the value of a definition, but not of one that replaces a constant.
MCContents == LET files == TableFiles IN files
MCSlides == {0, LoadAddress - TextAt}
=============================================================================
