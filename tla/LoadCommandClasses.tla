------------------------- MODULE LoadCommandClasses -------------------------
(***************************************************************************)
(* The load command classes of libMachO/MachO_ABI/LoadCommands, one per    *)
(* file.  A class is its vtable and what its functions do with the mapped  *)
(* command: copy_native swaps each field of `swaps' with the width given   *)
(* and copies the `bytes' fields as they are; get_<field> swaps the field  *)
(* of `reads'; `string' is the lc_str copied by the class's string         *)
(* functions, and `parts' are the getters of some bits of a field.  A      *)
(* getter called with a command of another class returns its value of      *)
(* `otherwise' (for a part, of the part), copy_native returns `refuses',   *)
(* or, when that is "none", the class has no copy_native.  Descriptions    *)
(* and version strings are built from the same getters and are left out.   *)
(***************************************************************************)
EXTENDS LoaderABI, TLC

\* What 0xF leaves of a byte: the values of its lowest bits.
CONSTANT NibbleValues

ASSUME NibbleAssumption == NibbleValues \in 2 .. ByteValues - 1 /\ ByteValues % NibbleValues = 0

swap32(fields) == [f \in fields |-> 4]
swap64(fields) == [f \in fields |-> 8]
swap(words, quads) == [f \in words \union quads |-> IF f \in words THEN 4 ELSE 8]
Nothing == [f \in {} |-> 0]

\* (field >> shift) & mask, and what the getter returns for another class: `from' is the
\* lowest bit's value, and `size' the number of values the mask leaves.
Part(field, from, size, otherwise) ==
  [field |-> field, from |-> from, size |-> size, unit |-> 1, otherwise |-> otherwise]
PartOf(part, word) == ((word \div part.from) % part.size) * part.unit

\* The vtable and the convention most files follow.
Class(name, layout, swaps, reads) ==
  [name |-> name, layout |-> layout, command_base_size |-> Sizeof(layout),
   swaps |-> swaps, bytes |-> {}, reads |-> reads, parts |-> Nothing,
   otherwise |-> [f \in DOMAIN reads |-> UINT_MAX(reads[f])], string |-> "", refuses |-> "EINVAL"]

----------------------------------------------------------------------------
(* The functions several classes share.                                    *)

LinkeditClass(name) ==
  Class(name, struct_linkedit_data_command, swap32({"cmd", "cmdsize", "dataoff", "datasize"}),
        swap32({"dataoff", "datasize"}))

DyldInfoClass(name) ==
  LET streams == {"rebase_off", "rebase_size", "bind_off", "bind_size", "weak_bind_off",
                  "weak_bind_size", "lazy_bind_off", "lazy_bind_size", "export_off", "export_size"}
  IN  Class(name, struct_dyld_info_command, swap32({"cmd", "cmdsize"} \union streams),
            swap32(streams))

DylibClass(name) ==
  LET numbers == {"timestamp", "current_version", "compatibility_version"}
  IN  [Class(name, struct_dylib_command, swap32({"cmd", "cmdsize"} \union numbers),
             swap32(numbers)) EXCEPT !.string = "name"]

DylinkerClass(name) ==
  [Class(name, struct_dylinker_command, swap32({"cmd", "cmdsize"}), Nothing)
    EXCEPT !.string = "name"]

\* A command that holds one string and nothing else.
StringClass(name, layout, field) ==
  [Class(name, layout, swap32({"cmd", "cmdsize"}), Nothing) EXCEPT !.string = field]

----------------------------------------------------------------------------
(* Segments and symbols.                                                   *)

mk_load_command_segment ==
  LET numbers == {"vmaddr", "vmsize", "fileoff", "filesize", "maxprot", "initprot", "nsects", "flags"}
      class == Class("SEGMENT", struct_segment_command,
                     swap32({"cmd", "cmdsize"} \union numbers), swap32(numbers))
  IN  [class EXCEPT !.bytes = {"segname"},
         \* INT_MAX, the largest vm_prot_t.
         !.otherwise["maxprot"] = UINT_MAX(4) \div 2, !.otherwise["initprot"] = UINT_MAX(4) \div 2]

mk_load_command_segment_64 ==
  LET addresses == {"vmaddr", "vmsize", "fileoff", "filesize"}
      numbers == {"maxprot", "initprot", "nsects", "flags"}
      class == Class("SEGMENT_64", struct_segment_command_64,
                     swap({"cmd", "cmdsize"} \union numbers, addresses),
                     swap(numbers, addresses))
  IN  [class EXCEPT !.bytes = {"segname"},
         !.otherwise["maxprot"] = UINT_MAX(4) \div 2, !.otherwise["initprot"] = UINT_MAX(4) \div 2]

\* The section a segment command is followed by.  It has no vtable.  SECTION_TYPE is the low
\* byte of the flags and SECTION_ATTRIBUTES the bytes above it, which are not shifted.
SectionParts ==
  [type |-> Part("flags", 1, ByteValues, UINT_MAX(1)),
   attributes |-> [Part("flags", ByteValues, ByteValues ^ 3, UINT_MAX(4)) EXCEPT !.unit = ByteValues]]

mk_load_command_section ==
  LET numbers == {"addr", "size", "offset", "align", "reloff", "nreloc", "reserved1", "reserved2"}
  IN  [Class("section", struct_section, swap32({"flags"} \union numbers), swap32(numbers))
        EXCEPT !.bytes = {"sectname", "segname"}, !.parts = SectionParts]

mk_load_command_section_64 ==
  LET numbers == {"offset", "align", "reloff", "nreloc", "reserved1", "reserved2", "reserved3"}
      addresses == {"addr", "size"}
  IN  [Class("section_64", struct_section_64, swap({"flags"} \union numbers, addresses),
             swap(numbers, addresses))
        EXCEPT !.bytes = {"sectname", "segname"}, !.parts = SectionParts]

mk_load_command_symtab ==
  LET numbers == {"symoff", "nsyms", "stroff", "strsize"}
  IN  Class("SYMTAB", struct_symtab_command,
            swap32({"cmd", "cmdsize"} \union numbers), swap32(numbers))

dysymtab_numbers ==
  {"ilocalsym", "nlocalsym", "iextdefsym", "nextdefsym", "iundefsym", "nundefsym", "tocoff",
   "ntoc", "modtaboff", "nmodtab", "extrefsymoff", "nextrefsyms", "indirectsymoff",
   "nindirectsyms", "extreloff", "nextrel", "locreloff", "nlocrel"}
mk_load_command_dysymtab_copy_native == swap32({"cmd", "cmdsize"} \union dysymtab_numbers)
mk_load_command_dysymtab_getters == swap32(dysymtab_numbers)
mk_load_command_dysymtab ==
  Class("DYSYMTAB", struct_dysymtab_command,
        mk_load_command_dysymtab_copy_native, mk_load_command_dysymtab_getters)

----------------------------------------------------------------------------
(* Libraries, linkers and names.                                           *)

mk_load_command_load_dylib == DylibClass("LOAD_DYLIB")
mk_load_command_id_dylib == DylibClass("ID_DYLIB")
mk_load_command_load_weak_dylib == DylibClass("LOAD_WEAK_DYLIB")
mk_load_command_reexport_dylib == DylibClass("REEXPORT_DYLIB")
mk_load_command_lazy_load_dylib == DylibClass("LAZY_LOAD_DYLIB")
mk_load_command_load_upward_dylib == DylibClass("LOAD_UPWARD_DYLIB")

mk_load_command_load_dylinker ==
  [DylinkerClass("LOAD_DYLINKER") EXCEPT !.refuses = "EINVALID_DATA"]
\* Refuses with 0, which is MK_ESUCCESS.
mk_load_command_id_dylinker ==
  [DylinkerClass("ID_DYLINKER") EXCEPT !.refuses = "ESUCCESS"]
mk_load_command_dyld_environment == DylinkerClass("DYLD_ENVIRONMENT")

mk_load_command_rpath == StringClass("RPATH", struct_rpath_command, "path")
mk_load_command_sub_framework ==
  StringClass("SUB_FRAMEWORK", struct_sub_framework_command, "umbrella")
mk_load_command_sub_client ==
  StringClass("SUB_CLIENT", struct_sub_client_command, "client")
mk_load_command_sub_library ==
  StringClass("SUB_LIBRARY", struct_sub_library_command, "sub_library")

\* There is no copy_native; get_nstrings reads `count'.
mk_load_command_linker_option ==
  [Class("LINKER_OPTION", struct_linker_option_command, Nothing,
         swap32({"count"})) EXCEPT !.refuses = "none"]

----------------------------------------------------------------------------
(* Ranges of the link-edit segment.                                        *)

mk_load_command_code_signature == LinkeditClass("CODE_SIGNATURE")
mk_load_command_segment_split_info == LinkeditClass("SEGMENT_SPLIT_INFO")
mk_load_command_function_starts == LinkeditClass("FUNCTION_STARTS")
mk_load_command_data_in_code == LinkeditClass("DATA_IN_CODE")
mk_load_command_code_sign_drs == LinkeditClass("DYLIB_CODE_SIGN_DRS")
mk_load_command_dyld_exports_trie == LinkeditClass("DYLD_EXPORTS_TRIE")
mk_load_command_dyld_chained_fixups ==
  LinkeditClass("DYLD_CHAINED_FIXUPS")
mk_load_command_dyld_info == DyldInfoClass("DYLD_INFO")
mk_load_command_dyld_info_only == DyldInfoClass("DYLD_INFO_ONLY")

----------------------------------------------------------------------------
(* The rest.                                                               *)

mk_load_command_routines ==
  LET reserved == {"reserved1", "reserved2", "reserved3", "reserved4", "reserved5", "reserved6"}
      numbers == {"init_address", "init_module"}
  IN  Class("ROUTINES", struct_routines_command,
            swap32({"cmd", "cmdsize"} \union numbers \union reserved), swap32(numbers))

mk_load_command_routines_64 ==
  LET reserved == {"reserved1", "reserved2", "reserved3", "reserved4", "reserved5", "reserved6"}
      numbers == {"init_address", "init_module"}
  IN  Class("ROUTINES_64", struct_routines_command_64,
            swap({"cmd", "cmdsize"}, numbers \union reserved), swap64(numbers))

\* UINT8_MAX where the other classes return UINT32_MAX.
mk_load_command_twolevel_hints ==
  LET numbers == {"offset", "nhints"}
  IN  [Class("TWOLEVEL_HINTS", struct_twolevel_hints_command,
             swap32({"cmd", "cmdsize"} \union numbers), swap32(numbers))
        EXCEPT !.otherwise = [f \in numbers |-> UINT_MAX(1)]]

mk_load_command_prebind_cksum ==
  [Class("PREBIND_CKSUM", struct_prebind_cksum_command,
         swap32({"cmd", "cmdsize", "cksum"}), swap32({"cksum"}))
    EXCEPT !.otherwise["cksum"] = UINT_MAX(1)]

mk_load_command_uuid ==
  [Class("UUID", struct_uuid_command, swap32({"cmd", "cmdsize"}), Nothing)
    EXCEPT !.bytes = {"uuid"}]

mk_load_command_encryption_info ==
  LET numbers == {"cryptoff", "cryptsize", "cryptid"}
  IN  Class("ENCRYPTION_INFO", struct_encryption_info_command,
            swap32({"cmd", "cmdsize"} \union numbers), swap32(numbers))

\* Mutant of mk_load_command_encryption_info_64: what is copied is the structure of 32 bits.
encryption_info_64Short ==
  LET numbers == {"cryptoff", "cryptsize", "cryptid"}
  IN  Class("ENCRYPTION_INFO_64", struct_encryption_info_command_64,
            swap32({"cmd", "cmdsize", "cryptoff", "cryptsize"}), swap32(numbers))

\* The pad is not copied.
mk_load_command_encryption_info_64 ==
  LET numbers == {"cryptoff", "cryptsize", "cryptid"}
  IN  Class("ENCRYPTION_INFO_64", struct_encryption_info_command_64,
            swap32({"cmd", "cmdsize"} \union numbers), swap32(numbers))

\* The four files are the same but for the name.  Of a version X.Y.Z, kept in two bytes and
\* twice one, each getter takes four bits.
VersionMinClass(name) ==
  LET part(field, from) == Part(field, from, NibbleValues, UINT_MAX(1))
  IN  [Class(name, struct_version_min_command, swap32({"cmd", "cmdsize", "version", "sdk"}),
             Nothing)
        EXCEPT !.parts = [version_primary |-> part("version", ByteValues ^ 2),
                          version_major |-> part("version", ByteValues),
                          version_minor |-> part("version", 1),
                          sdk_primary |-> part("sdk", ByteValues ^ 2),
                          sdk_major |-> part("sdk", ByteValues), sdk_minor |-> part("sdk", 1)]]

mk_load_command_version_min_macosx == VersionMinClass("VERSION_MIN_MACOSX")
mk_load_command_version_min_iphoneos ==
  VersionMinClass("VERSION_MIN_IPHONEOS")
mk_load_command_version_min_tvos == VersionMinClass("VERSION_MIN_TVOS")
mk_load_command_version_min_watchos ==
  VersionMinClass("VERSION_MIN_WATCHOS")

mk_load_command_main ==
  LET numbers == {"entryoff", "stacksize"}
  IN  Class("MAIN", struct_entry_point_command,
            swap({"cmd", "cmdsize"}, numbers), swap64(numbers))

\* The components of the version, pieces of ten bits that are no whole bytes, are left out.
mk_load_command_source_version ==
  Class("SOURCE_VERSION", struct_source_version_command,
        swap({"cmd", "cmdsize"}, {"version"}), swap64({"version"}))

mk_load_command_note ==
  LET numbers == {"offset", "size"}
  IN  [Class("NOTE", struct_note_command,
             swap({"cmd", "cmdsize"}, numbers), swap64(numbers))
        EXCEPT !.bytes = {"data_owner"}]

\* The primary number is all of its two bytes, the other two are four bits each.
mk_load_command_build_version ==
  LET numbers == {"platform", "ntools"}
      primary(field) == Part(field, ByteValues ^ 2, ByteValues ^ 2, UINT_MAX(2))
      nibble(field, from) == Part(field, from, NibbleValues, UINT_MAX(1))
  IN  [Class("BUILD_VERSION", struct_build_version_command,
             swap32({"cmd", "cmdsize", "minos", "sdk"} \union numbers), swap32(numbers))
        EXCEPT !.parts = [minos_primary |-> primary("minos"),
                          minos_major |-> nibble("minos", ByteValues),
                          minos_minor |-> nibble("minos", 1),
                          sdk_primary |-> primary("sdk"),
                          sdk_major |-> nibble("sdk", ByteValues), sdk_minor |-> nibble("sdk", 1)]]

\* A tool a build version is followed by; no vtable.
mk_load_command_build_tool_version ==
  Class("build_tool_version", struct_build_tool_version, swap32({"tool", "version"}),
        swap32({"tool", "version"}))
=============================================================================
