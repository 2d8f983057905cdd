--------------------------- MODULE ExportsSearch ---------------------------
(***************************************************************************)
(* libMachO's search for a symbol in the exports trie,                     *)
(* mk_exports_trie_get_terminal_node_for_symbol: one step per node entered *)
(* and one per branch tried.  The search advances an address through the   *)
(* trie and asks, before every advance, whether the trie still contains    *)
(* the place it would get to.                                              *)
(***************************************************************************)
EXTENDS ExportsTrie

CONSTANT Symbols            \* the symbols looked for, as sequences of characters

ASSUME SymbolsAssumption == Symbols \subseteq Seq(1 .. 255)

VARIABLE search             \* [pc, symbol, matched, offset, at, children, err]

Results == Errors \cup {"ESIZE", "ENOT_FOUND"}

SearchTypeOK ==
  /\ search.pc \in {"idle", "node", "child"}
  /\ search.symbol \in Symbols \cup {<<>>}
  /\ search.matched \in 0 .. Len(search.symbol)
  /\ search.offset \in Word
  /\ search.at \in Nat
  /\ search.children \in Byte
  /\ search.err \in Results

SearchInit ==
  search = [pc |-> "idle", symbol |-> <<>>, matched |-> 0, offset |-> 0, at |-> 0,
            children |-> 0, err |-> "ESUCCESS"]

TargetRange == mk_vm_range_make(TrieAddress, image.size)

\* Mutant of Advance: the end of the trie is still inside.
AdvanceToEnd(p, n) ==
  IF p + n <= image.size THEN Ok(TrieAddress + p + n) ELSE Fails("EOUT_OF_RANGE")

\* May the search advance from p by n bytes?
Advance(p, n) == mk_vm_range_contains_address(TargetRange, n, TrieAddress + p)

Goes(to) == search' = to /\ UNCHANGED image
Returns(err) == Goes([search EXCEPT !.pc = "idle", !.err = err])

\* Mutant of Search: what is left of the symbol is not set up.
SearchForgets(symbol) ==
  /\ search.pc = "idle"
  /\ Goes([search EXCEPT !.pc = "node", !.symbol = symbol, !.offset = 0])

Search(symbol) ==
  /\ search.pc = "idle"
  /\ Goes([search EXCEPT !.pc = "node", !.symbol = symbol, !.matched = 0, !.offset = 0])

\* current_offset is not below the trie's length.
LeaveTrie ==
  /\ search.pc = "node" /\ search.offset >= image.size
  /\ Returns("ENOT_FOUND")

\* The node at current_offset is the symbol's, or the search goes on to its branches.
ReadNode ==
  LET terminal == _mk_mach_trie_copy_uleb128(search.offset, image.size)
      contents == search.offset + terminal.size
      count == contents + terminal.value
  IN  /\ search.pc = "node" /\ search.offset < image.size
      /\ IF ~ Succeeded(terminal) THEN Returns(terminal.err)
         ELSE IF search.matched = Len(search.symbol) /\ terminal.value # 0
         THEN Returns("ESUCCESS")
         ELSE IF ~ Succeeded(Advance(search.offset, terminal.size))
         THEN Returns(Advance(search.offset, terminal.size).err)
         ELSE IF ~ Succeeded(Advance(contents, terminal.value))
         THEN Returns(Advance(contents, terminal.value).err)
         ELSE IF ~ Succeeded(Advance(count, 1)) THEN Returns(Advance(count, 1).err)
         ELSE Goes([search EXCEPT !.pc = "child", !.at = count + 1, !.children = ByteAt(count)])

\* Mutant of LabelMatches: only the first character is compared.
LabelMatchesFirst(label) ==
  /\ search.matched + Len(label) <= Len(search.symbol)
  /\ label # <<>> => label[1] = search.symbol[search.matched + 1]

\* Does the label agree with what is left of the symbol?
LabelMatches(label) ==
  /\ search.matched + Len(label) <= Len(search.symbol)
  /\ \A k \in 1 .. Len(label) : label[k] = search.symbol[search.matched + k]

\* Mutant of Descend: an offset of zero leads back to the root.
DescendAnywhere(offset, n) ==
  Goes([search EXCEPT !.pc = "node", !.offset = offset, !.matched = search.matched + n])

\* "Set branch offset as the current offset and loop again": an offset of zero is none.
Descend(offset, n) ==
  IF offset = 0 THEN Returns("ENOT_FOUND")
  ELSE Goes([search EXCEPT !.pc = "node", !.offset = offset, !.matched = search.matched + n])

\* The first branch whose label agrees with the symbol is taken.
TryChild ==
  LET labelEnd == StringEnd(search.at, image.size)
      label == Characters(search.at, labelEnd)
      branch == _mk_mach_trie_copy_uleb128(labelEnd + 1, image.size)
      after == labelEnd + 1 + branch.size
  IN  /\ search.pc = "child" /\ search.children > 0
      /\ IF ~ Succeeded(Advance(search.at, labelEnd - search.at))
         THEN Returns(Advance(search.at, labelEnd - search.at).err)
         ELSE IF ~ Succeeded(Advance(labelEnd, 1)) THEN Returns(Advance(labelEnd, 1).err)
         ELSE IF ~ Succeeded(branch) THEN Returns(branch.err)
         ELSE IF LabelMatches(label)
         THEN Descend(branch.value, Len(label))
         ELSE IF ~ Succeeded(Advance(labelEnd + 1, branch.size))
         THEN Returns(Advance(labelEnd + 1, branch.size).err)
         ELSE Goes([search EXCEPT !.at = after, !.children = search.children - 1])

\* "Did not find a child branch to continue with.  Symbol does not exist in the trie".
NoChild ==
  /\ search.pc = "child" /\ search.children = 0
  /\ Returns("ENOT_FOUND")

SearchStep == LeaveTrie \/ ReadNode \/ TryChild \/ NoChild
SearchNext == SearchStep \/ \E symbol \in Symbols : Search(symbol)

SearchSpec == image \in Images /\ SearchInit /\ [][SearchNext]_<<image, search>>

----------------------------------------------------------------------------
(* Properties.                                                             *)

\* The search never stands outside the trie where it is about to read: the label is scanned up
\* to the trie's end, so a start past that end would never meet it, and run through the segment.
SearchStaysInside == search.pc = "child" => search.at < image.size
=============================================================================
