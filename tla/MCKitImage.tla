----------------------------- MODULE MCKitImage -----------------------------
(***************************************************************************)
(* Two threads open the same image.  Its commands are a segment, commands  *)
(* of two classes of which one extends the other, and two that have no     *)
(* class.  A program may load a class that suits one of these better, one  *)
(* that extends a class, and one that has the name of a class to be made.  *)
(***************************************************************************)
EXTENDS KitImage

CONSTANTS MKNode, MKLCSegment, MKLCSegment64, MKLCDyldInfo, MKLCDyldInfoOnly,
          PluginDyldInfo, PluginUnknown, PluginNamesake

MCLinked == {MKNode, MKLoadCommand, MKLCSegment, MKLCSegment64, MKLCDyldInfo, MKLCDyldInfoOnly}
MCLoadable == {PluginDyldInfo, PluginUnknown, PluginNamesake}

Table(class) ==
  CASE class = MKLCSegment -> [id |-> 1, rank |-> 10, fields |-> 5]
    [] class = MKLCSegment64 -> [id |-> 2, rank |-> 10, fields |-> 5]
    [] class = MKLCDyldInfo -> [id |-> 3, rank |-> 10, fields |-> 3]
    [] class = MKLCDyldInfoOnly -> [id |-> 4, rank |-> 10, fields |-> 3]
    [] class = PluginDyldInfo -> [id |-> 3, rank |-> 20, fields |-> 3]
    [] class = PluginUnknown -> [id |-> 5, rank |-> 10, fields |-> 2]
    [] OTHER -> [id |-> 0, rank |-> 0, fields |-> 2]

MCRank == [c \in MCLinked \union MCLoadable |->
             [cmd \in Word |-> IF cmd = Table(c).id THEN Table(c).rank ELSE 0]]
MCID == [c \in MCLinked \union MCLoadable |-> Table(c).id]
MCFields == [c \in MCLinked \union MCLoadable |-> Table(c).fields]

MCSuperclasses ==
  [c \in MCLinked \union MCLoadable |->
     CASE c = MKNode -> {MKNode}
       [] c \in {MKLCDyldInfoOnly, PluginDyldInfo} -> {c, MKLCDyldInfo, MKLoadCommand, MKNode}
       [] OTHER -> {c, MKLoadCommand, MKNode}]

MCName == [c \in MCLinked \union MCLoadable |->
             IF c = PluginNamesake THEN <<"MKLC_", 6>> ELSE <<"MKLC", Table(c).id>>]
MCRuntimeName == [cmd \in Word |-> <<"MKLC_", cmd>>]

\* Words of the target: magics, CPU types, file types and ids are small numbers.
Header64(ncmds, size) == <<41, 7, 2, ncmds, size, 0>>
Segment64(vmaddr, fileoff, filesize) == <<2, 5, vmaddr, fileoff, filesize>>

MCTargets == {
  Header64(2, 8) \o Segment64(9, 0, 3) \o <<4, 3, 0>>,
  Header64(2, 4) \o <<5, 2>> \o <<6, 2>>,
  Header64(2, 5) \o <<4, 3, 0>> \o <<5, 2>>,
  Header64(2, 9) \o <<3, 0, 0>>,
  <<40, 7, 2, 2, 10>> \o <<1, 5, 9, 0, 3>> \o <<1, 5, 12, 1, 3>>,
  <<40, 8, 2, 1, 5>> \o <<1, 5, 9, 0, 3>>,
  Header64(1, 5) \o Segment64(40, 0, 3),
  Header64(1, 5) \o <<3, 3>>,
  Header64(2, 2) \o <<5, 2>>,
  Header64(1, 1) \o <<5>>,
  <<41, 7, 3, 0, 0, 0>>, <<41, 7, 2, 0>>, <<>>, <<50>> }

\* The id of the first command of a 64-bit image, or the size it states.
MCRewrites == {<<6, 3>>, <<7, 2>>}
=============================================================================
