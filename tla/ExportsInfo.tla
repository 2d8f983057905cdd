---------------------------- MODULE ExportsInfo ----------------------------
(***************************************************************************)
(* MachOKit's reading of the exports trie (MKExportsInfo.m): the nodes are *)
(* parsed one behind the other as they lie in the file, and a depth-first, *)
(* postorder traversal from the first of them then makes an export of      *)
(* every terminal node it reaches, named after the path it took.           *)
(***************************************************************************)
EXTENDS ExportsTrie

VARIABLES phase,        \* "parse", "walk" or "done"
          nodes,        \* the trie nodes parsed so far
          queue,        \* nodes and branches yet to be dealt with, the next one last
          path,         \* the nodes, by index, from the root to where the traversal is
          exports,      \* the exports made so far
          warned,       \* some part of the trie could not be read or followed
          trapped       \* the traversal's assertion has failed

infoVars == <<phase, nodes, queue, path, exports, warned, trapped>>

InfoInit ==
  /\ phase = "parse"
  /\ nodes = <<>> /\ queue = <<>> /\ path = <<>> /\ exports = <<>>
  /\ warned = FALSE /\ trapped = FALSE

----------------------------------------------------------------------------
(* One node.                                                               *)

\* While a node is being initialised it has no size, and neither has its branch: a number in it
\* is bounded by the exports info, and behind that only by the segment.
MKULEBRead(p) ==
  IF p >= End THEN Fails("EBAD_ACCESS")
  ELSE _mk_mach_trie_copy_uleb128(p, IF p < image.size THEN image.size ELSE End)

\* Bytes that are not ASCII stand for bytes that are not UTF-8: such a string has no characters.
Decodable(string) == \A k \in 1 .. Len(string) : string[k] < 128

\* The terminal information at p, which is not held to the size the node announces.  One of no
\* known kind has no offset.
TerminalInformation(p) ==
  LET flags == MKULEBRead(p)
      place == p + flags.size
      number == MKULEBRead(place)         \* the ordinal, or the offset
      behind == place + number.size
      resolver == MKULEBRead(behind)
      name == Characters(behind, StringEnd(behind, End))
      info == [flags |-> flags.value, offset |-> 0, ordinal |-> 0, imported |-> <<>>,
               resolver |-> 0, end |-> place]
  IN  IF ~ Succeeded(flags) THEN flags
      ELSE IF ~ ReExport(flags.value) /\ Kind(flags.value) = 3 THEN Ok(info)
      ELSE IF ~ Succeeded(number) THEN number
      ELSE IF ReExport(flags.value)
      THEN IF behind >= End THEN Fails("EBAD_ACCESS")
           ELSE Ok([info EXCEPT !.ordinal = number.value, !.end = behind + 1,
                                !.imported = IF Decodable(name) THEN name ELSE <<>>])
      ELSE IF ~ (StubAndResolver(flags.value) /\ Kind(flags.value) = 0)
      THEN Ok([info EXCEPT !.offset = number.value, !.end = behind])
      ELSE IF ~ Succeeded(resolver) THEN resolver
      ELSE Ok([info EXCEPT !.offset = number.value, !.resolver = resolver.value,
                           !.end = behind + resolver.size])

\* "Could not parse trie node": nil.
NoNode == [at |-> -1]
IsNode(n) == n.at # -1

\* The branch at p; one whose label has no end runs through the segment.
MKExportTrieBranch(p) ==
  LET labelEnd == StringEnd(p, End)
      offset == MKULEBRead(labelEnd + 1)
  IN  IF Succeeded(offset)
      THEN [at |-> p, label |-> Characters(p, labelEnd), offset |-> offset.value,
            size |-> labelEnd + 1 + offset.size - p]
      ELSE NoNode

\* The branch at p, and what follows it.
BranchThen(p, rest) ==
  LET branch == MKExportTrieBranch(p)
  IN  IF IsNode(branch) THEN <<branch>> \o rest[p + branch.size] ELSE <<NoNode>>

BranchesUpTo(n) ==
  LET from[k \in 0 .. n] ==
        [q \in 0 .. End |-> IF k = 0 THEN <<>> ELSE BranchThen(q, from[k - 1])]
  IN  from

\* The n branches that begin at p; the list ends with one that cannot be parsed.
BranchesFrom(p, n) == BranchesUpTo(n)[n][p]

\* The node at p, whichever of the two classes it is an instance of.
MKExportTrieNode(p) ==
  LET terminal == MKULEBRead(p)
      count == p + terminal.size + terminal.value
      information == TerminalInformation(p + terminal.size)
      branches == BranchesFrom(count + 1, ByteAt(count))
      end == IF branches = <<>> THEN count + 1 ELSE Last(branches).at + Last(branches).size
  IN  IF ~ Succeeded(terminal) \/ count >= End THEN NoNode
      ELSE IF terminal.value > 0 /\ ~ Succeeded(information) THEN NoNode
      ELSE IF branches # <<>> /\ ~ IsNode(Last(branches)) THEN NoNode
      ELSE [at |-> p, size |-> end - p, terminal |-> terminal.value > 0, branches |-> branches,
            information |-> IF terminal.value > 0 THEN information.value ELSE NoNode]

----------------------------------------------------------------------------
(* Parsing the nodes.                                                      *)

ParseOffset == IF nodes = <<>> THEN 0 ELSE Last(nodes).at + Last(nodes).size

ParseNode ==
  /\ phase = "parse" /\ ParseOffset < image.size
  /\ \E node \in {MKExportTrieNode(ParseOffset)} : IsNode(node) /\ nodes' = Append(nodes, node)
  /\ UNCHANGED <<image, phase, queue, path, exports, warned, trapped>>

\* What is put in the queue for a node: the node, and its branches so that the first is taken
\* first.
NodeItem(i) == [node |-> i, branch |-> 0]
BranchItem(i, b) == [node |-> i, branch |-> b]
Items(i) ==
  <<NodeItem(i)>> \o Reverse([b \in 1 .. Len(nodes[i].branches) |-> BranchItem(i, b)])

\* The loop ends with the trie or at a node that cannot be parsed; the traversal is seeded.
EndParse ==
  /\ phase = "parse"
  /\ ParseOffset >= image.size \/ ~ IsNode(MKExportTrieNode(ParseOffset))
  /\ warned' = (ParseOffset < image.size)
  /\ phase' = IF nodes = <<>> THEN "done" ELSE "walk"
  /\ path' = IF nodes = <<>> THEN <<>> ELSE <<1>>
  /\ queue' = IF nodes = <<>> THEN <<>> ELSE Items(1)
  /\ UNCHANGED <<image, nodes, exports, trapped>>

----------------------------------------------------------------------------
(* The traversal.                                                          *)

NodeAddress(i) == TrieAddress + nodes[i].at
NodeRange(i) == mk_vm_range_make(NodeAddress(i), nodes[i].size)

\* The binary search of childNodeOccupyingVMAddress among the nodes from lo to hi: the index of
\* the node there, 0 if none.
Halve(address, lo, hi, find) ==
  LET mid == (lo + hi) \div 2
  IN  IF lo > hi THEN 0
      ELSE IF address < NodeAddress(mid) THEN find[lo][mid - 1]
      ELSE IF Succeeded(mk_vm_range_contains_address(NodeRange(mid), 0, address)) THEN mid
      ELSE find[mid + 1][hi]

NodeAmong(address) ==
  LET find[lo \in 1 .. (Len(nodes) + 1)] ==
        [hi \in 0 .. Len(nodes) |-> Halve(address, lo, hi, find)]
  IN  find

\* Mutant of NodeOccupying: the search leaves the last node out.
NodeOccupyingShort(address) == NodeAmong(address)[1][Max({0, Len(nodes) - 1})]

NodeOccupying(address) == NodeAmong(address)[1][Len(nodes)]

\* childNodeAtVMAddress: the node must begin there.
NodeAt(address) ==
  LET i == NodeOccupying(address)
  IN  IF i \in DOMAIN nodes /\ NodeAddress(i) = address THEN i ELSE 0

Target(branch) ==
  LET address == mk_vm_address_apply_offset(TrieAddress, branch.offset)
  IN  IF Succeeded(address) THEN NodeAt(address.value) ELSE 0

\* The branches of a node that lead to the next one; the name takes its label from the last.
Leads(i, next) ==
  {b \in 1 .. Len(nodes[i].branches) : nodes[i].branches[b].offset = nodes[next].at}
BranchTo(i, next) == nodes[i].branches[Max(Leads(i, next))]

\* The name is put together from the labels along the path, up to one without a string.
ExportName ==
  LET labels == [k \in 1 .. (Len(path) - 1) |-> BranchTo(path[k], path[k + 1]).label]
      bad == {k \in 1 .. Len(labels) : ~ Decodable(labels[k])}
  IN  FlattenSeq(IF bad = {} THEN labels ELSE SubSeq(labels, 1, Min(bad) - 1))

\* The class of an export: the one that ranks itself highest.
ExportClass(flags) ==
  IF ReExport(flags) THEN "MKReExport"
  ELSE IF StubAndResolver(flags) THEN "MKResolvedExport"
  ELSE "MKRegularExport"

\* The export of a terminal node at the end of the path, with the values of its class.
MKExport(node) ==
  LET info == node.information
  IN  [class |-> ExportClass(info.flags), name |-> ExportName, at |-> node.at,
       flags |-> info.flags, address |-> info.offset, resolverAddress |-> info.resolver,
       sourceLibraryOrdinal |-> info.ordinal, importedName |-> info.imported]

Walking == phase = "walk" /\ ~ trapped /\ queue # <<>>
IsBranch(item) == item.branch # 0
Current == Last(queue)

\* Mutant of CannotFollow: where no node is found the root is taken.
CannotFollowToRoot ==
  warned' = TRUE /\ path' = Append(path, 1) /\ queue' = Front(queue) \o Items(1)

\* "Could not locate the trie node referenced by branch".
CannotFollow == queue' = Front(queue) /\ warned' = TRUE /\ UNCHANGED path

\* A branch is followed to the node it names.  A path longer than there are nodes has met one of
\* them twice: the traversal of such a trie never ends, and the model stops there.
FollowBranch ==
  /\ Walking /\ IsBranch(Current)
  /\ Len(path) <= Len(nodes)
  /\ LET target == Target(nodes[Current.node].branches[Current.branch])
     IN  IF target = 0 THEN CannotFollow
         ELSE /\ path' = Append(path, target) /\ queue' = Front(queue) \o Items(target)
              /\ UNCHANGED warned
  /\ UNCHANGED <<image, phase, nodes, exports, trapped>>

\* Mutant of Pop: only terminal nodes are taken off the path.
PopTerminal ==
  /\ queue' = Front(queue)
  /\ path' = IF nodes[Current.node].terminal THEN Front(path) ELSE path

Pop == queue' = Front(queue) /\ path' = Front(path)

\* What initWithTrieNodes asserts: every node of the path "is referenced by" one before it.
PathIsLinked == \A k \in 1 .. (Len(path) - 1) : Leads(path[k], path[k + 1]) # {}

\* The branches of a node are done with, and the node is the last of the path, or "Branch
\* mismatch."
LeaveNode ==
  /\ Walking /\ ~ IsBranch(Current)
  /\ LET node == nodes[Current.node]
     IN  IF Current.node # Last(path) \/ (node.terminal /\ ~ PathIsLinked)
         THEN trapped' = TRUE /\ UNCHANGED <<queue, path, exports>>
         ELSE /\ Pop
              /\ exports' = IF node.terminal
                            THEN Append(exports, MKExport(node))
                            ELSE exports
              /\ UNCHANGED trapped
  /\ UNCHANGED <<image, phase, nodes, warned>>

\* The exports are sorted by address.
EndWalk ==
  /\ phase = "walk" /\ ~ trapped /\ queue = <<>>
  /\ phase' = "done"
  /\ exports' = SortSeq(exports, LAMBDA left, right : left.at < right.at)
  /\ UNCHANGED <<image, nodes, queue, path, warned, trapped>>

InfoNext == ParseNode \/ EndParse \/ FollowBranch \/ LeaveNode \/ EndWalk

InfoSpec == image \in Images /\ InfoInit /\ [][InfoNext]_<<image, infoVars>>
=============================================================================
