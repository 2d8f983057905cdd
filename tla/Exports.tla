------------------------------ MODULE Exports ------------------------------
(***************************************************************************)
(* The two readers of one exports trie: MachOKit lists all its exports,    *)
(* libMachO looks one symbol up at a time.  They share nothing but the     *)
(* bytes, and neither changes them.                                        *)
(***************************************************************************)
EXTENDS ExportsInfo, ExportsTerminal

vars == <<image, infoVars, search>>

Init == image \in Images /\ InfoInit /\ SearchInit

\* Neither reader can tell what the other has done: the searches are left until the list is made,
\* or has turned out to be without end.
ListOver == phase = "done" \/ Len(path) > Len(nodes)

Next ==
  \/ ~ ListOver /\ InfoNext /\ UNCHANGED search
  \/ ListOver /\ SearchNext /\ UNCHANGED infoVars

Spec == Init /\ [][Next]_vars

\* A reader that has begun goes on.  (This is weak fairness of the steps of each, with its ENABLED written
\* out: a traversal has a step until its list is over or an assertion fails, a search until it is idle.)
FairSpec ==
  /\ Spec
  /\ []<>(ListOver \/ trapped) \/ []<><<~ ListOver>>_vars
  /\ []<>(search.pc = "idle") \/ []<><<search.pc # "idle">>_vars

----------------------------------------------------------------------------
(* Properties.                                                             *)

NodeType(n) ==
  /\ DOMAIN n = {"at", "size", "terminal", "branches", "information"}
  /\ n.at \in 0 .. (image.size - 1) /\ n.size \in 1 .. (End - n.at)
  /\ n.terminal \in BOOLEAN
  /\ \A b \in 1 .. Len(n.branches) : n.branches[b].offset \in Word

TypeOK ==
  /\ SearchTypeOK
  /\ phase \in {"parse", "walk", "done"}
  /\ \A i \in 1 .. Len(nodes) : NodeType(nodes[i])
  /\ \A k \in 1 .. Len(path) : path[k] \in 1 .. Len(nodes)
  /\ \A k \in 1 .. Len(queue) :
       queue[k].node \in 1 .. Len(nodes)
       /\ queue[k].branch \in 0 .. Len(nodes[queue[k].node].branches)
  /\ warned \in BOOLEAN /\ trapped \in BOOLEAN

\* The traversal never comes back to a node that is not the end of its path (NSAssert(next ==
\* path.lastObject, "Branch mismatch.")), and never names an export after a path with a gap
\* (NSAssert(branch != nil)).  The queue and the path are two stacks that only agree because all
\* that lies between two nodes of the queue is dealt with before the lower one.
NoBranchMismatch == ~ trapped

\* The nodes are looked up by address as if each of them had been asked: the binary search relies
\* on the nodes having been parsed in order, without gaps or overlaps.
NodesAreFound ==
  phase # "parse" =>
    \A p \in 0 .. (End - 1) :
      NodeOccupying(TrieAddress + p)
        = LET here == {i \in 1 .. Len(nodes) :
                         nodes[i].at <= p /\ p < nodes[i].at + nodes[i].size}
          IN  IF here = {} THEN 0 ELSE CHOOSE i \in here : here = {i}

\* A trie as a linker writes it: it could be read and followed to its end, it lies inside its
\* size, and the branches of a node differ in the first character and lead to different nodes.
Orderly ==
  /\ phase = "done" /\ ~ warned
  /\ \A i \in 1 .. Len(nodes) :
       LET branches == nodes[i].branches
       IN  /\ nodes[i].at + nodes[i].size <= image.size
           /\ \A b \in 1 .. Len(branches) :
                branches[b].label # <<>> /\ Decodable(branches[b].label)
           /\ \A b, c \in 1 .. Len(branches) :
                b # c => /\ branches[b].label[1] # branches[c].label[1]
                         /\ branches[b].offset # branches[c].offset

Searched == search.pc = "idle" /\ search.err # "ESUCCESS"
Found == search.pc = "idle" /\ search.err = "ESUCCESS" /\ search.symbol # <<>>

SearchesAgree ==
  /\ Found => \E k \in 1 .. Len(exports) :
                exports[k].name = search.symbol /\ exports[k].at = search.offset
  /\ Searched => \A k \in 1 .. Len(exports) : exports[k].name # search.symbol

\* What libMachO reads of a node.
ExportAt(p) ==
  LET export == mk_export_init(p)
  IN  IF Succeeded(export) THEN mk_export_get_info(export.value) ELSE export

\* The values of the class of a listed export are those libMachO reads, except for the offset of
\* one of no known kind, which only libMachO reads, and for a name without characters.
SameValues(export, info) ==
  /\ info.flags = export.flags
  /\ export.class = "MKReExport" =>
       /\ info.ordinal = export.sourceLibraryOrdinal
       /\ Decodable(info.imported) => info.imported = export.importedName
  /\ export.class # "MKReExport" /\ Kind(export.flags) # 3 => info.offset = export.address
  /\ export.class = "MKResolvedExport" => info.resolver = export.resolverAddress

\* Does a node hold its information to the size it announces, in a number libMachO can read?
Announced(node) ==
  LET terminal == _mk_mach_trie_copy_uleb128(node.at, image.size)
  IN  /\ terminal.size <= SizeBytes
      /\ ReExport(node.information.flags) \/ Kind(node.information.flags) # 3
      /\ node.information.end <= node.at + terminal.size + terminal.value

ValuesAgree ==
  \A k \in 1 .. Len(exports) :
    LET export == exports[k]
        info == ExportAt(export.at)
        node == CHOOSE n \in {nodes[i] : i \in 1 .. Len(nodes)} : n.at = export.at
    IN  /\ Succeeded(info) => SameValues(export, info.value)
        /\ Announced(node) => Succeeded(info)

\* libMachO finds a symbol, at a node, exactly if MachOKit lists an export of that name, of that
\* node, and reads the same values of it if the node keeps to the size it announces: the two
\* libraries were written apart and read the same bytes in different ways.
ReadersAgree == Orderly => SearchesAgree /\ ValuesAgree

\* The traversal's branches lead back to where they came from: from the root one can follow as many
\* of them as there are nodes.
LeadsRound ==
  LET follow(here) == UNION {{Target(nodes[i].branches[b]) : b \in DOMAIN nodes[i].branches} : i \in here}
      after[k \in 0 .. Len(nodes)] == IF k = 0 THEN {1} ELSE follow(after[k - 1]) \ {0}
  IN  after[Len(nodes)] # {}

\* The traversal of a trie whose branches lead to no node for ever ends, and that of any other trie
\* never does: nothing remembers where it has been.
WalkEnds ==
  /\ <>(phase # "parse")
  /\ phase = "walk" /\ ~ LeadsRound ~> phase = "done"
  /\ [][phase = "walk" /\ phase' = "done" => ~ LeadsRound]_vars

\* The branches a search may take from the node at p.
BranchesAt(p) ==
  LET terminal == MKULEBRead(p)
      count == p + terminal.size + terminal.value
  IN  IF ~ Succeeded(terminal) \/ count >= image.size THEN {}
      ELSE {branch \in Range(BranchesFrom(count + 1, ByteAt(count))) :
              IsNode(branch) /\ branch.offset \in 1 .. (image.size - 1)}

\* From somewhere a search may get to, branches without a label lead on and on.
SilentRound ==
  LET reached[k \in 0 .. image.size] ==         \* by k branches at most, and by no fewer
        IF k = 0 THEN [all |-> {0}, last |-> {0}]
        ELSE LET before == reached[k - 1]
                 last == {b.offset : b \in UNION {BranchesAt(p) : p \in before.last}} \ before.all
             IN  [all |-> before.all \cup last, last |-> last]
      places == reached[image.size].all
      silently == UNION {{<<p, b.offset>> : b \in {c \in BranchesAt(p) : c.label = <<>>}} : p \in places}
      follow(ps) == {edge[2] : edge \in {e \in silently : e[1] \in ps}}
      after[k \in 0 .. image.size] == IF k = 0 THEN places ELSE follow(after[k - 1])
  IN  after[image.size] # {}

\* A search ends, because it uses up the symbol whatever the offsets of the trie are, cycles included,
\* if they are not of branches without a label: of those it goes round and round.
SearchEnds ==
  search.pc = "node" /\ search.offset = 0 /\ ~ SilentRound ~> search.pc = "idle"

\* Both readers come to an end for every trie but those two kinds (MKExportsInfo.m:73-170,
\* exports_trie.c:180-283).
ReadersEnd == WalkEnds /\ SearchEnds
=============================================================================
