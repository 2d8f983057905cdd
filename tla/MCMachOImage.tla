---------------------------- MODULE MCMachOImage ----------------------------
(***************************************************************************)
(* Bytes of eight values.  One file for each class of load command, with a *)
(* segment, a command of the class, all of whose numbers have different    *)
(* bytes, and the same command with the bytes of its id reversed, which is *)
(* the one a big-endian host takes for a command of the class; and files   *)
(* for the cases the code tells apart.                                     *)
(***************************************************************************)
EXTENDS MachOImage, MCFiles

Segment(vmaddr, vmsize, filesize) ==
  Cmd(LC.SEGMENT_64, struct_segment_command_64,
      [vmaddr |-> vmaddr, vmsize |-> vmsize, filesize |-> filesize, nsects |-> 0], <<>>)
Segment32(vmaddr, vmsize, filesize) ==
  Cmd(LC.SEGMENT, struct_segment_command,
      [vmaddr |-> vmaddr, vmsize |-> vmsize, filesize |-> filesize, nsects |-> 0], <<>>)

----------------------------------------------------------------------------
\* Versions each of whose numbers fits four bits, and a string behind the structure.
ClassFile(class) ==
  LET versions == [f \in {"version", "sdk", "minos"} |->
                     FromBytes(IF f = "sdk" THEN <<3, 1, 2, 0>> ELSE <<2, 3, 1, 0>>)]
      fields == IF class.string # "" THEN class.string :> Sizeof(class.layout)
                ELSE IF class.parts # Nothing THEN versions
                ELSE IF class.name = "LINKER_OPTION" THEN [count |-> 2] ELSE Nothing
      tail == IF class.string = "" THEN <<>> ELSE <<3, 2, 0, 1>>
  IN  Image64(Nothing, <<Segment(300, 20, 20), Cmd(LC[class.name], class.layout, fields, tail),
                         Cmd(Reversed(LC[class.name]), class.layout, fields, tail)>>)

OfClasses ==
  [name \in {class.name : class \in _mk_load_command_classes} |->
     ClassFile(CHOOSE class \in _mk_load_command_classes : class.name = name)]

Both(id, layout, fields, tail) ==
  Image64(Nothing, <<Cmd(id, layout, fields, tail), Cmd(Reversed(id), layout, fields, tail)>>)

Rpath(offset, tail) == Both(LC.RPATH, struct_rpath_command, [path |-> offset], tail)
Options(count, tail) == Both(LC.LINKER_OPTION, struct_linker_option_command, [count |-> count], tail)
Tools(count, n) ==
  Both(LC.BUILD_VERSION, struct_build_version_command, [ntools |-> count],
       FlattenSeq([i \in 1 .. n |-> Encode(struct_build_tool_version, Fill(struct_build_tool_version))]))
Sections(count, n) ==
  Both(LC.SEGMENT_64, struct_segment_command_64, [nsects |-> count],
       FlattenSeq([i \in 1 .. n |-> Encode(struct_section_64, Fill(struct_section_64))]))
Sections32(count, n) ==
  LET tail == FlattenSeq([i \in 1 .. n |-> Encode(struct_section, Fill(struct_section))])
  IN  Image32(Nothing, <<Cmd(LC.SEGMENT, struct_segment_command, [nsects |-> count], tail),
                         Cmd(Reversed(LC.SEGMENT), struct_segment_command, [nsects |-> count], tail)>>)

\* The last command has another size than its bytes.
Sized(size) ==
  Image64(Nothing, <<Segment(300, 20, 20),
                     Cmd(LC.RPATH, struct_rpath_command, [cmdsize |-> size, path |-> 12], <<3, 2, 0, 1>>)>>)

Layouts ==
  [lowest     |-> Image64(Nothing, <<Segment(0, 8, 0), Segment(300, 20, 20), Segment(200, 20, 20)>>),
   at_zero    |-> Image64([filetype |-> MH.DYLIB], <<Segment(0, 20, 20), Segment(300, 20, 20)>>),
   image32    |-> Image32([filetype |-> MH.BUNDLE], <<Segment32(0, 8, 0), Segment32(90, 20, 20)>>),
   other_kind |-> Image64(Nothing, <<Segment32(100, 20, 20), Segment(300, 20, 20)>>),
   high       |-> Image64(Nothing, <<Segment(MaxWord - 5, 2, 2)>>),
   all_ones   |-> Image64(Nothing, <<Segment(200, MaxWord, 20), Segment(300, 20, 20)>>),
   no_segment |-> Image64(Nothing, <<Cmd(LC.UUID, struct_uuid_command, Nothing, <<>>)>>),
   empty      |-> Image64(Nothing, <<>>),
   no_ncmds   |-> Image64([ncmds |-> 0], <<Segment(300, 20, 20)>>),
   short      |-> Image64([sizeofcmds |-> 4], <<Segment(300, 20, 20)>>),
   cut        |-> Image64([sizeofcmds |-> 90], <<Segment(300, 20, 20), Segment(400, 20, 20)>>),
   longer     |-> Image64(Nothing, <<Segment(300, 20, 20), Segment(400, 20, 20), Segment(200, 20, 20)>>),
   missing    |-> Image64([sizeofcmds |-> 500], <<Segment(300, 20, 20)>>),
   cigam      |-> Image64([magic |-> MH_CIGAM_64], <<Segment(300, 20, 20)>>),
   no_magic   |-> Image64([magic |-> 5], <<Segment(300, 20, 20)>>),
   object     |-> Image64([filetype |-> MH.OBJECT], <<Segment(300, 20, 20)>>),
   size_0     |-> Sized(0), size_1 |-> Sized(1), size_7 |-> Sized(7), size_8 |-> Sized(8),
   size_15    |-> Sized(15), size_17 |-> Sized(17),
   size_4000  |-> Sized(4000)]

Tails ==
  [rpath_whole |-> Rpath(12, <<3, 2, 1, 4>>), rpath_inner |-> Rpath(14, <<3, 2, 0, 1>>),
   rpath_empty |-> Rpath(12, <<0, 1>>), rpath_last |-> Rpath(15, <<3, 2, 0, 1>>),
   rpath_end |-> Rpath(16, <<3, 2, 0, 1>>), rpath_bare |-> Rpath(12, <<>>),
   options_none |-> Options(0, <<>>), options_two |-> Options(2, <<1, 0, 2, 3, 0, 0>>),
   options_cut |-> Options(2, <<1, 0, 2>>), options_more |-> Options(4, <<1, 0, 2, 3, 0, 0>>),
   tools_none |-> Tools(0, 0), tools_one |-> Tools(1, 1), tools_two |-> Tools(2, 2),
   tools_fewer |-> Tools(1, 2),
   sections_none |-> Sections(0, 0), sections_one |-> Sections(1, 1), sections_two |-> Sections(2, 2),
   sections_more |-> Sections(2, 1),
   sections32_two |-> Sections32(2, 2)]

AllFiles == OfClasses @@ Layouts @@ Tails
\* TLC keeps the value of a definition, but not of one that replaces a constant.
MCContents == LET files == AllFiles IN files
MCRewrites ==
  {<<"longer", "cut">>, <<"cut", "longer">>, <<"lowest", "image32">>, <<"image32", "lowest">>,
   <<"longer", "missing">>, <<"at_zero", "object">>, <<"lowest", "UUID">>}
MCSlides == {-1, 0, 7}
MCSlacks == {0, 12}
=============================================================================
