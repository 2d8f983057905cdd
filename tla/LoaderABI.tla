----------------------------- MODULE LoaderABI -----------------------------
(***************************************************************************)
(* What <mach-o/loader.h> and <mach-o/nlist.h> give the library: the ids   *)
(* of the load commands and the layout of the structures.  They are system *)
(* headers; the layouts are read off the fields the code uses.  A layout   *)
(* is the sequence of the fields with their widths in bytes.               *)
(***************************************************************************)
EXTENDS ByteOrder

Words(names) == [i \in DOMAIN names |-> <<names[i], 4>>]
Quads(names) == [i \in DOMAIN names |-> <<names[i], 8>>]
Chars(name, width) == <<<<name, width>>>>
Header == Words(<<"cmd", "cmdsize">>)

\* The width of the first n fields.
Widths(layout, n) == Horner(1, [i \in 1 .. n |-> layout[i][2]])
Sizeof(layout) == Widths(layout, Len(layout))
FieldIndex(layout, field) == CHOOSE i \in DOMAIN layout : layout[i][1] = field
OffsetOf(layout, field) == Widths(layout, FieldIndex(layout, field) - 1)
WidthOf(layout, field) == layout[FieldIndex(layout, field)][2]
HasField(layout, field) == \E i \in DOMAIN layout : layout[i][1] = field

Section(address, more) ==
  Chars("sectname", 16) \o Chars("segname", 16) \o address \o
  Words(<<"offset", "align", "reloff", "nreloc", "flags", "reserved1", "reserved2">>) \o more

struct_mach_header ==
  Words(<<"magic", "cputype", "cpusubtype", "filetype", "ncmds",
  "sizeofcmds", "flags">>)
struct_mach_header_64 ==
  Words(<<"magic", "cputype", "cpusubtype", "filetype", "ncmds",
  "sizeofcmds", "flags", "reserved">>)
struct_load_command == Header
struct_segment_command ==
  Header \o Chars("segname", 16) \o
  Words(<<"vmaddr", "vmsize", "fileoff", "filesize", "maxprot", "initprot", "nsects", "flags">>)
struct_segment_command_64 ==
  Header \o Chars("segname", 16) \o Quads(<<"vmaddr", "vmsize", "fileoff", "filesize">>) \o
  Words(<<"maxprot", "initprot", "nsects", "flags">>)
struct_section == Section(Words(<<"addr", "size">>), <<>>)
struct_section_64 == Section(Quads(<<"addr", "size">>), Words(<<"reserved3">>))
struct_symtab_command == Header \o Words(<<"symoff", "nsyms", "stroff", "strsize">>)
struct_dysymtab_command ==
  Header \o Words(<<"ilocalsym", "nlocalsym", "iextdefsym", "nextdefsym", "iundefsym",
  "nundefsym", "tocoff", "ntoc", "modtaboff", "nmodtab", "extrefsymoff", "nextrefsyms",
  "indirectsymoff", "nindirectsyms", "extreloff", "nextrel", "locreloff", "nlocrel">>)
struct_dylib_command ==
  Header \o Words(<<"name", "timestamp", "current_version", "compatibility_version">>)
struct_dylinker_command == Header \o Words(<<"name">>)
struct_rpath_command == Header \o Words(<<"path">>)
struct_sub_framework_command == Header \o Words(<<"umbrella">>)
struct_sub_client_command == Header \o Words(<<"client">>)
struct_sub_library_command == Header \o Words(<<"sub_library">>)
struct_routines_command ==
  Header \o Words(<<"init_address", "init_module", "reserved1", "reserved2", "reserved3",
  "reserved4", "reserved5", "reserved6">>)
struct_routines_command_64 ==
  Header \o Quads(<<"init_address", "init_module", "reserved1", "reserved2", "reserved3",
  "reserved4", "reserved5", "reserved6">>)
struct_twolevel_hints_command == Header \o Words(<<"offset", "nhints">>)
struct_prebind_cksum_command == Header \o Words(<<"cksum">>)
struct_uuid_command == Header \o Chars("uuid", 16)
struct_linkedit_data_command == Header \o Words(<<"dataoff", "datasize">>)
struct_encryption_info_command == Header \o Words(<<"cryptoff", "cryptsize", "cryptid">>)
struct_encryption_info_command_64 == Header \o Words(<<"cryptoff", "cryptsize", "cryptid", "pad">>)
struct_dyld_info_command ==
  Header \o Words(<<"rebase_off", "rebase_size", "bind_off", "bind_size", "weak_bind_off",
  "weak_bind_size", "lazy_bind_off", "lazy_bind_size", "export_off", "export_size">>)
struct_version_min_command == Header \o Words(<<"version", "sdk">>)
struct_entry_point_command == Header \o Quads(<<"entryoff", "stacksize">>)
struct_source_version_command == Header \o Quads(<<"version">>)
struct_linker_option_command == Header \o Words(<<"count">>)
struct_note_command == Header \o Chars("data_owner", 16) \o Quads(<<"offset", "size">>)
struct_build_version_command == Header \o Words(<<"platform", "minos", "sdk", "ntools">>)
struct_build_tool_version == Words(<<"tool", "version">>)
struct_nlist ==
  Words(<<"n_strx">>) \o Chars("n_type", 1) \o Chars("n_sect", 1) \o Chars("n_desc", 2) \o
  Words(<<"n_value">>)
struct_nlist_64 ==
  Words(<<"n_strx">>) \o Chars("n_type", 1) \o Chars("n_sect", 1) \o Chars("n_desc", 2) \o
  Quads(<<"n_value">>)

----------------------------------------------------------------------------
\* The top bit of the word: the command must be understood by dyld.
LC_REQ_DYLD == (UINT_MAX(4) + 1) \div 2

LC ==
  [SEGMENT |-> 1, SYMTAB |-> 2, DYSYMTAB |-> 11, LOAD_DYLIB |-> 12, ID_DYLIB |-> 13,
   LOAD_DYLINKER |-> 14, ID_DYLINKER |-> 15, ROUTINES |-> 17, SUB_FRAMEWORK |-> 18,
   SUB_UMBRELLA |-> 19, SUB_CLIENT |-> 20, SUB_LIBRARY |-> 21, TWOLEVEL_HINTS |-> 22,
   PREBIND_CKSUM |-> 23, LOAD_WEAK_DYLIB |-> 24 + LC_REQ_DYLD, SEGMENT_64 |-> 25,
   ROUTINES_64 |-> 26, UUID |-> 27, RPATH |-> 28 + LC_REQ_DYLD, CODE_SIGNATURE |-> 29,
   SEGMENT_SPLIT_INFO |-> 30, REEXPORT_DYLIB |-> 31 + LC_REQ_DYLD, LAZY_LOAD_DYLIB |-> 32,
   ENCRYPTION_INFO |-> 33, DYLD_INFO |-> 34, DYLD_INFO_ONLY |-> 34 + LC_REQ_DYLD,
   LOAD_UPWARD_DYLIB |-> 35 + LC_REQ_DYLD, VERSION_MIN_MACOSX |-> 36,
   VERSION_MIN_IPHONEOS |-> 37, FUNCTION_STARTS |-> 38, DYLD_ENVIRONMENT |-> 39,
   MAIN |-> 40 + LC_REQ_DYLD, DATA_IN_CODE |-> 41, SOURCE_VERSION |-> 42,
   DYLIB_CODE_SIGN_DRS |-> 43, ENCRYPTION_INFO_64 |-> 44, LINKER_OPTION |-> 45,
   VERSION_MIN_TVOS |-> 47, VERSION_MIN_WATCHOS |-> 48, NOTE |-> 49, BUILD_VERSION |-> 50,
   DYLD_EXPORTS_TRIE |-> 51 + LC_REQ_DYLD, DYLD_CHAINED_FIXUPS |-> 52 + LC_REQ_DYLD]

\* Four magics, none of which is another one reversed.  MH_CIGAM is MH_MAGIC as the other
\* byte order reads it.
MH_MAGIC == FromBytes(<<2, 3, 1, 5>>)
MH_MAGIC_64 == FromBytes(<<3, 3, 1, 5>>)
MH_CIGAM == mk_byteorder_swapped(MH_MAGIC, 4)
MH_CIGAM_64 == mk_byteorder_swapped(MH_MAGIC_64, 4)

\* What they are written with are bytes.
ASSUME MagicAssumption == 5 \in Byte

MH == [OBJECT |-> 1, EXECUTE |-> 2, DYLIB |-> 6, DYLINKER |-> 7, BUNDLE |-> 8]
\* The names of two segments, without the zeros they are filled up with.
SEG_PAGEZERO == <<5, 6>>
SEG_LINKEDIT == <<5, 7>>

\* The top bit of the header's flags.
MH_DYLIB_IN_CACHE == (UINT_MAX(4) + 1) \div 2
=============================================================================
