--------------------------- MODULE ExportsProofs ---------------------------
(***************************************************************************)
(* What holds of libMachO's search whatever bytes the trie is made of: no  *)
(* length, number or offset in it leads the search out of it.              *)
(***************************************************************************)
EXTENDS Exports, CoreProofs

----------------------------------------------------------------------------
(* Reading the trie.                                                       *)

\* The steps of a number follow from one another: the function that NumbersFrom defines in terms
\* of itself exists.
LEMMA NumbersFromDef ==
  ASSUME NEW p, NEW limit
  PROVE  \A k \in 0 .. LEBBytes :
           NumbersFrom(p, limit)[k] = NumberFrom(p, limit, k, NumbersFrom(p, limit)[k + 1])
<1> DEFINE From(n) == (LEBBytes - n) .. LEBBytes
           Fits(f, n) == f = [k \in From(n) |-> NumberFrom(p, limit, k, f[k + 1])]
           S == {n \in 0 .. LEBBytes : ~ \E f : Fits(f, n)}
<1>0. LEBBytes \in Nat \ {0} BY TrieAssumption
<1>1. SUFFICES ASSUME S # {} PROVE FALSE
  <2>1. LEBBytes \notin S BY <1>1
  <2>2. From(LEBBytes) = 0 .. LEBBytes BY <1>0
  <2>3. \E f : f = [k \in 0 .. LEBBytes |-> NumberFrom(p, limit, k, f[k + 1])]
    BY <1>0, <2>1, <2>2
  <2>4. NumbersFrom(p, limit)
          = [k \in 0 .. LEBBytes |-> NumberFrom(p, limit, k, NumbersFrom(p, limit)[k + 1])]
    BY <2>3, Zenon DEF NumbersFrom
  <2>5. QED BY <2>4, Zenon
<1>2. PICK n \in S : \A m \in S : n <= m
  <2>1. S \in SUBSET Nat BY <1>0
  <2>2. QED BY <1>1, <2>1, LeastNatural
<1>3. CASE n = 0
  <2> DEFINE f == [k \in {LEBBytes} |-> NumberFrom(p, limit, LEBBytes, 0)]
  <2>1. From(0) = {LEBBytes} BY <1>0
  <2>2. NumberFrom(p, limit, LEBBytes, 0) = NumberFrom(p, limit, LEBBytes, f[LEBBytes + 1])
    BY DEF NumberFrom
  <2>3. Fits(f, 0) BY <2>1, <2>2
  <2>4. QED BY <1>2, <1>3, <2>3
<1>4. CASE n # 0
  <2>1. n \in 1 .. LEBBytes /\ n - 1 \in 0 .. LEBBytes /\ n - 1 \notin S BY <1>0, <1>2, <1>4
  <2>2. PICK f : Fits(f, n - 1) BY <2>1
  <2> DEFINE at == LEBBytes - n
             g == [k \in From(n) |-> IF k = at THEN NumberFrom(p, limit, at, f[at + 1]) ELSE f[k]]
  <2>3. at \in 0 .. LEBBytes /\ at + 1 \in From(n - 1) /\ From(n) = {at} \cup From(n - 1)
        /\ at \notin From(n - 1)
    BY <1>0, <2>1
  <2>4. \A k \in From(n - 1) : g[k] = f[k] BY <2>3
  <2>5. \A k \in From(n) : k # LEBBytes => k + 1 \in From(n - 1) BY <1>0, <2>1
  <2>6. ASSUME NEW k \in From(n)
        PROVE  NumberFrom(p, limit, k, g[k + 1]) = NumberFrom(p, limit, k, f[k + 1])
    <3>1. CASE k = LEBBytes BY <3>1 DEF NumberFrom
    <3>2. CASE k # LEBBytes BY <2>4, <2>5, <3>2, Zenon
    <3>3. QED BY <3>1, <3>2
  <2>7. ASSUME NEW k \in From(n) PROVE g[k] = NumberFrom(p, limit, k, g[k + 1])
    <3>1. CASE k = at BY <2>6, <3>1
    <3>2. CASE k # at
      <4>1. k \in From(n - 1) BY <2>3, <3>2
      <4>2. f[k] = NumberFrom(p, limit, k, f[k + 1]) BY <2>2, <4>1, Zenon
      <4>3. QED BY <2>4, <2>6, <4>1, <4>2
    <3>3. QED BY <3>1, <3>2
  <2> HIDE DEF From
  <2>8. Fits(g, n) BY <2>7
  <2>9. QED BY <1>2, <2>8
<1>5. QED BY <1>3, <1>4

\* What reading a number at p returns: an error, or a number of at least one byte that ends
\* within the limit.
Reading(p, limit) ==
  [err : {"EOUT_OF_RANGE", "ESIZE"}]
    \cup {r \in [err : {"ESUCCESS"}, value : Nat, size : Nat \ {0}] : p + r.size <= limit}

LEMMA NumbersFromType ==
  ASSUME image \in Images, NEW p \in Nat, NEW limit \in 0 .. End
  PROVE  \A k \in 0 .. LEBBytes : NumbersFrom(p, limit)[k] \in Reading(p, limit)
<1> DEFINE from == NumbersFrom(p, limit)
           S == {n \in 0 .. LEBBytes : from[LEBBytes - n] \notin Reading(p, limit)}
<1>0. LEBBytes \in Nat \ {0} /\ image.bytes \in Seq(Byte) /\ End \in Nat
  BY TrieAssumption DEF End
<1>1. \A k \in 0 .. LEBBytes : from[k] = NumberFrom(p, limit, k, from[k + 1])
  BY NumbersFromDef, Zenon
<1> HIDE DEF from
<1>2. SUFFICES ASSUME S # {} PROVE FALSE
  <2>1. ASSUME NEW k \in 0 .. LEBBytes PROVE from[k] \in Reading(p, limit)
    <3>1. LEBBytes - k \in 0 .. LEBBytes /\ LEBBytes - (LEBBytes - k) = k BY <1>0
    <3>2. QED BY <1>2, <3>1
  <2>2. QED BY <2>1 DEF from
<1>3. PICK n \in S : \A m \in S : n <= m
  <2>1. S \in SUBSET Nat BY <1>0
  <2>2. QED BY <1>2, <2>1, LeastNatural
<1> DEFINE k == LEBBytes - n
<1>4. k \in 0 .. LEBBytes /\ from[k] = NumberFrom(p, limit, k, from[k + 1])
  BY <1>0, <1>1, <1>3
<1>5. from[k] \notin Reading(p, limit) BY <1>3
<1>6. CASE p + k >= limit \/ k = LEBBytes
  BY <1>4, <1>5, <1>6 DEF NumberFrom, Fails, Reading
<1>7. CASE p + k < limit /\ k # LEBBytes
  <2>1. ByteAt(p + k) \in Byte
    <3>1. p + k + 1 \in 1 .. Len(image.bytes) BY <1>0, <1>4, <1>7 DEF End
    <3>2. QED BY <1>0, <3>1 DEF ByteAt
  <2>2. from[k + 1] \in Reading(p, limit)
    <3>1. n - 1 \in 0 .. LEBBytes /\ LEBBytes - (n - 1) = k + 1 /\ n - 1 < n BY <1>0, <1>3, <1>7
    <3>2. n - 1 \notin S BY <1>3, <3>1
    <3>3. QED BY <3>1, <3>2
  <2> HIDE DEF k
  <2>3. CASE ByteAt(p + k) < 128
    <3>1. from[k] = [err |-> "ESUCCESS", value |-> ByteAt(p + k), size |-> k + 1]
      BY <1>0, <1>4, <1>7, <2>1, <2>3 DEF NumberFrom
    <3>2. ByteAt(p + k) \in Nat BY <2>1 DEF Byte
    <3>3. k \in Nat /\ limit \in Nat BY <1>0, <1>4
    <3>4. k + 1 \in Nat \ {0} /\ p + (k + 1) <= limit BY <1>7, <3>3
    <3>5. QED BY <1>5, <3>1, <3>2, <3>4 DEF Reading
  <2>4. CASE ~ (ByteAt(p + k) < 128) /\ Succeeded(from[k + 1])
    <3> DEFINE v == (ByteAt(p + k) % 128) + 128 * from[k + 1].value
    <3>1. from[k + 1] \in [err : {"ESUCCESS"}, value : Nat, size : Nat \ {0}]
          /\ p + from[k + 1].size <= limit
      BY <2>2, <2>4 DEF Reading, Succeeded
    <3>2. v \in Nat BY <2>1, <3>1 DEF Byte
    <3>3. from[k] = [from[k + 1] EXCEPT !.value = v]
      BY <1>0, <1>4, <1>7, <2>1, <2>4 DEF NumberFrom
    <3> HIDE DEF v
    <3>4. QED BY <1>5, <3>1, <3>2, <3>3 DEF Reading
  <2>5. CASE ~ (ByteAt(p + k) < 128) /\ ~ Succeeded(from[k + 1])
    BY <1>0, <1>4, <1>5, <1>7, <2>1, <2>2, <2>5 DEF NumberFrom
  <2>6. QED BY <2>3, <2>4, <2>5
<1>8. QED BY <1>0, <1>4, <1>6, <1>7

\* What _mk_mach_trie_copy_uleb128 returns: a word, with its bytes before the limit, or an error.
THEOREM NumberRead ==
  ASSUME image \in Images, NEW p \in Nat, NEW limit \in 0 .. End
  PROVE  LET r == _mk_mach_trie_copy_uleb128(p, limit)
         IN  /\ r.err \in {"ESUCCESS", "EOUT_OF_RANGE", "ESIZE"}
             /\ Succeeded(r) => /\ r.value \in Word /\ r.size \in Nat \ {0}
                                /\ p + r.size <= limit
<1> DEFINE number == NumbersFrom(p, limit)[0]
           r == _mk_mach_trie_copy_uleb128(p, limit)
<1>1. number \in Reading(p, limit)
  BY NumbersFromType, TrieAssumption
<1>2. r = IF Succeeded(number) THEN [number EXCEPT !.value = Wrap(@)] ELSE number
  BY DEF _mk_mach_trie_copy_uleb128
<1> HIDE DEF number, r
<1>3. CASE Succeeded(number)
  <2>1. number \in [err : {"ESUCCESS"}, value : Nat, size : Nat \ {0}] /\ p + number.size <= limit
    BY <1>1, <1>3 DEF Reading, Succeeded
  <2>2. Wrap(number.value) \in Word BY <2>1, WrapBelow
  <2>3. r = [number EXCEPT !.value = Wrap(number.value)] BY <1>2, <1>3
  <2>4. r.value = Wrap(number.value) /\ r.size = number.size /\ r.err = "ESUCCESS" BY <2>1, <2>3
  <2>5. QED BY <2>1, <2>2, <2>4 DEF r
<1>4. CASE ~ Succeeded(number)
  <2>1. r = number /\ number \in [err : {"EOUT_OF_RANGE", "ESIZE"}]
    BY <1>1, <1>2, <1>4 DEF Reading, Succeeded
  <2>2. QED BY <2>1 DEF r, Succeeded
<1>5. QED BY <1>3, <1>4

\* A string ends between where it starts and the limit.
LEMMA StringEndType ==
  ASSUME NEW limit \in Nat, NEW p \in 0 .. limit
  PROVE  StringEnd(p, limit) \in p .. limit
<1> DEFINE S == {q \in p .. (limit - 1) : ByteAt(q) = 0} \cup {limit}
<1>1. S \in SUBSET (p .. limit) /\ S # {} OBVIOUS
<1>2. \E n \in S : \A m \in S : n <= m
  <2>1. S \in SUBSET Nat BY <1>1
  <2>2. QED BY <1>1, <2>1, LeastNatural
<1>3. StringEnd(p, limit) = Min(S) BY DEF StringEnd
<1> HIDE DEF S
<1>4. Min(S) \in S BY <1>2 DEF Min
<1>5. QED BY <1>1, <1>3, <1>4

----------------------------------------------------------------------------
(* The search.                                                             *)

\* The search is a record of its type, and stands inside the trie.  Its types matter to its place:
\* an offset taken from the trie has to be a word for the checks of the advance to mean anything.
SearchInv ==
  /\ image \in Images
  /\ search \in [pc : {"idle", "node", "child"}, symbol : Symbols \cup {<<>>}, matched : Nat,
                 offset : Word, at : Nat, children : Byte, err : Results]
  /\ search.matched <= Len(search.symbol)
  /\ SearchStaysInside

\* What the invariant and the assumptions say of the trie.
LEMMA TrieFacts ==
  ASSUME image \in Images
  PROVE  /\ TrieAddress \in Nat /\ MaxWord \in Nat /\ End \in Nat /\ image.size \in 1 .. End
         /\ TrieAddress + End <= MaxWord /\ image.bytes \in Seq(Byte)
         /\ \A p \in 0 .. (End - 1) : ByteAt(p) \in Byte
<1>1. /\ image.bytes \in Seq(Byte) /\ image.size \in Nat \ {0}
      /\ image.size <= Len(image.bytes) /\ TrieAddress + Len(image.bytes) <= MaxWord
  BY TrieAssumption
<1>2. TrieAddress \in Nat /\ MaxWord \in Nat BY TrieAssumption, WordAssumption DEF Word
<1>3. End \in Nat /\ image.size \in 1 .. End BY <1>1 DEF End
<1>4. ASSUME NEW p \in 0 .. (End - 1) PROVE ByteAt(p) \in Byte
  <2>1. p + 1 \in 1 .. Len(image.bytes) BY <1>1 DEF End
  <2>2. QED BY <1>1, <2>1 DEF ByteAt
<1>5. QED BY <1>1, <1>2, <1>3, <1>4 DEF End

\* An advance that is allowed ends inside the trie; one that is not fails with an error of core.c.
LEMMA AdvanceInside ==
  ASSUME image \in Images, NEW p \in 0 .. End, NEW n \in Word
  PROVE  /\ Advance(p, n).err \in Errors
         /\ Succeeded(Advance(p, n)) => p + n < image.size
<1>1. TrieAddress + p \in Word BY TrieFacts DEF Word
<1>2. TargetRange \in mk_vm_range BY TrieFacts DEF TargetRange, mk_vm_range_make, mk_vm_range, Word
<1>3. TargetRange.location = TrieAddress /\ TargetRange.length = image.size
  BY DEF TargetRange, mk_vm_range_make
<1>4. ASSUME Succeeded(Advance(p, n)) PROVE p + n < image.size
  <2>1. TrieAddress + p + n \in TrieAddress .. (TrieAddress + image.size - 1)
    BY <1>1, <1>2, <1>3, <1>4, ContainedAddress DEF Advance
  <2>2. n \in Nat BY TrieFacts DEF Word
  <2>3. QED BY <2>1, <2>2, TrieFacts
<1>5. Advance(p, n).err \in Errors
  BY DEF Advance, mk_vm_range_contains_address, mk_vm_address_apply_offset, Adds, Ok, Fails,
         Succeeded, Errors
<1>6. QED BY <1>4, <1>5

LEMMA SearchInvInit == image \in Images /\ SearchInit => SearchInv
<1> SUFFICES ASSUME image \in Images, SearchInit PROVE SearchInv OBVIOUS
<1>1. 0 \in Word /\ 0 \in Byte /\ Len(<<>>) = 0 BY WordAssumption DEF Word, Byte
<1>2. "ESUCCESS" \in Results BY DEF Results, Errors
<1>3. QED BY <1>1, <1>2 DEF SearchInv, SearchInit, SearchStaysInside

\* A return leaves the search idle, where it stands nowhere.
LEMMA ReturnKeeps ==
  ASSUME SearchInv, NEW err \in Results, Returns(err)
  PROVE  SearchInv'
<1>1. /\ image' = image
      /\ search' = [search EXCEPT !.pc = "idle", !.err = err]
  BY DEF Returns, Goes
<1>2. search'.pc = "idle" /\ search'.matched = search.matched /\ search'.symbol = search.symbol
  BY <1>1 DEF SearchInv
<1>3. QED BY <1>1, <1>2 DEF SearchInv, SearchStaysInside

LEMMA ReadNodeKeeps == SearchInv /\ ReadNode => SearchInv'
<1> SUFFICES ASSUME SearchInv, ReadNode PROVE SearchInv' OBVIOUS
<1> DEFINE terminal == _mk_mach_trie_copy_uleb128(search.offset, image.size)
           contents == search.offset + terminal.size
           count == contents + terminal.value
<1>1. image \in Images /\ search.offset \in Word /\ search.offset \in Nat
      /\ search.offset < image.size
  BY TrieFacts DEF SearchInv, ReadNode, Word
<1>2. /\ terminal.err \in {"ESUCCESS", "EOUT_OF_RANGE", "ESIZE"}
      /\ Succeeded(terminal) => /\ terminal.value \in Word /\ terminal.size \in Nat \ {0}
                                /\ contents <= image.size
  BY <1>1, TrieFacts, NumberRead
<1>3. \/ \E err \in Results : Returns(err)
      \/ /\ Succeeded(terminal) /\ Succeeded(Advance(search.offset, terminal.size))
         /\ Succeeded(Advance(contents, terminal.value)) /\ Succeeded(Advance(count, 1))
         /\ Goes([search EXCEPT !.pc = "child", !.at = count + 1, !.children = ByteAt(count)])
  <2> HIDE DEF terminal
  <2>1. CASE ~ Succeeded(terminal)
    <3>1. terminal.err \in Results BY <1>2 DEF Results, Errors
    <3>2. Returns(terminal.err) BY <1>1, <2>1, Zenon DEF ReadNode, terminal
    <3>3. QED BY <3>1, <3>2, Zenon
  <2>2. CASE Succeeded(terminal)
    <3>1. contents \in 0 .. End /\ terminal.size \in Word /\ terminal.value \in Word
      BY <1>1, <1>2, <2>2, TrieFacts DEF Word
    <3>2. Advance(search.offset, terminal.size).err \in Results
      BY <1>1, <3>1, TrieFacts, AdvanceInside DEF Results
    <3>3. Advance(contents, terminal.value).err \in Results
      BY <1>1, <3>1, AdvanceInside DEF Results
    <3>4. Succeeded(Advance(contents, terminal.value)) => Advance(count, 1).err \in Results
      <4> SUFFICES ASSUME Succeeded(Advance(contents, terminal.value))
                   PROVE  Advance(count, 1).err \in Results
        OBVIOUS
      <4>1. count < image.size BY <1>1, <3>1, AdvanceInside
      <4>2. count \in 0 .. End /\ 1 \in Word
          BY <1>1, <3>1, <4>1, TrieFacts, WordAssumption DEF Word
      <4>3. QED BY <1>1, <4>2, AdvanceInside DEF Results
    <3>5. "ESUCCESS" \in Results BY DEF Results, Errors
    <3> HIDE DEF contents, count
    <3>6. QED BY <2>2, <3>2, <3>3, <3>4, <3>5 DEF ReadNode, terminal, contents, count
  <2>3. QED BY <2>1, <2>2
<1>4. CASE \E err \in Results : Returns(err) BY <1>4, ReturnKeeps
<1>5. ASSUME Succeeded(terminal), Succeeded(Advance(search.offset, terminal.size)),
             Succeeded(Advance(contents, terminal.value)), Succeeded(Advance(count, 1)),
             Goes([search EXCEPT !.pc = "child", !.at = count + 1, !.children = ByteAt(count)])
      PROVE  SearchInv'
  <2> HIDE DEF terminal
  <2>1. contents \in 0 .. End /\ terminal.value \in Word /\ 1 \in Word
    BY <1>1, <1>2, <1>5, TrieFacts, WordAssumption, SMTT(30) DEF Word
  <2>2. count < image.size /\ count \in 0 .. (End - 1)
    <3>1. count < image.size BY <1>1, <1>5, <2>1, AdvanceInside
    <3>2. QED BY <2>1, <3>1, TrieFacts, <1>1 DEF Word
  <2> HIDE DEF contents, count
  <2>3. count + 1 < image.size
    <3>1. count \in 0 .. End BY <1>1, <2>2, TrieFacts
    <3>2. QED BY <1>1, <1>5, <2>1, <3>1, AdvanceInside
  <2>4. ByteAt(count) \in Byte /\ count + 1 \in Nat BY <1>1, <2>2, TrieFacts
  <2>5. /\ image' = image
        /\ search' = [search EXCEPT !.pc = "child", !.at = count + 1, !.children = ByteAt(count)]
    BY <1>5 DEF Goes
  <2>6. search'.at = count + 1 /\ search'.matched = search.matched
        /\ search'.symbol = search.symbol
    BY <2>5 DEF SearchInv
  <2>7. QED BY <2>3, <2>4, <2>5, <2>6 DEF SearchInv, SearchStaysInside
<1>6. QED BY <1>3, <1>4, <1>5

\* A node's offset is a word, wherever in the trie or out of it.
LEMMA DescendKeeps ==
  ASSUME SearchInv, NEW offset \in Word, NEW n \in Nat,
         search.matched + n <= Len(search.symbol), Descend(offset, n)
  PROVE  SearchInv'
<1>1. CASE offset = 0
  <2>1. Returns("ENOT_FOUND") BY <1>1 DEF Descend
  <2>2. QED BY <2>1, ReturnKeeps DEF Results
<1>2. CASE offset # 0
  <2>1. /\ image' = image
        /\ search' = [search EXCEPT !.pc = "node", !.offset = offset, !.matched = search.matched + n]
    BY <1>2 DEF Descend, Goes
  <2>2. search'.pc = "node" /\ search'.matched = search.matched + n
        /\ search'.symbol = search.symbol
    BY <2>1 DEF SearchInv
  <2>3. search.matched + n \in Nat BY DEF SearchInv
  <2>4. QED BY <2>1, <2>2, <2>3 DEF SearchInv, SearchStaysInside
<1>3. QED BY <1>1, <1>2

LEMMA TryChildKeeps == SearchInv /\ TryChild => SearchInv'
<1> SUFFICES ASSUME SearchInv, TryChild PROVE SearchInv' OBVIOUS
<1> DEFINE labelEnd == StringEnd(search.at, image.size)
           label == Characters(search.at, labelEnd)
           branch == _mk_mach_trie_copy_uleb128(labelEnd + 1, image.size)
           after == labelEnd + 1 + branch.size
<1>1. image \in Images /\ search.at \in Nat /\ search.at < image.size /\ search.children \in Byte
      /\ search.children > 0 /\ image.size \in Nat /\ image.size \in 1 .. End
      /\ End \in Nat /\ 1 \in Word
  BY TrieFacts, WordAssumption DEF SearchInv, SearchStaysInside, TryChild, Word
<1>2. labelEnd \in search.at .. image.size /\ labelEnd \in 0 .. End /\ labelEnd \in Nat
      /\ labelEnd - search.at \in Word
  <2>1. labelEnd \in search.at .. image.size BY <1>1, StringEndType
  <2> HIDE DEF labelEnd
  <2>2. QED BY <1>1, <2>1, TrieFacts DEF Word
<1>3. Len(label) \in Nat
  <2>1. image.bytes \in Seq(Byte) BY <1>1, TrieFacts
  <2>2. search.at + 1 \in 1 .. (Len(image.bytes) + 1) /\ labelEnd \in 0 .. Len(image.bytes)
    BY <1>1, <1>2 DEF End
  <2>3. label \in Seq(Byte) BY <2>1, <2>2 DEF Characters
  <2>4. QED BY <2>3
<1>4. /\ Advance(search.at, labelEnd - search.at).err \in Results
      /\ Advance(labelEnd, 1).err \in Results
  BY <1>1, <1>2, AdvanceInside DEF Results
<1>5. ASSUME Succeeded(Advance(labelEnd, 1))
      PROVE  /\ labelEnd + 1 < image.size /\ branch.err \in Results
             /\ Succeeded(branch) => /\ branch.value \in Word /\ branch.size \in Nat \ {0}
                                     /\ after <= image.size /\ branch.size \in Word
                                     /\ Advance(labelEnd + 1, branch.size).err \in Results
  <2>1. labelEnd + 1 < image.size BY <1>1, <1>2, <1>5, AdvanceInside
  <2>2. branch.err \in {"ESUCCESS", "EOUT_OF_RANGE", "ESIZE"}
        /\ (Succeeded(branch) => branch.value \in Word /\ branch.size \in Nat \ {0}
                                 /\ labelEnd + 1 + branch.size <= image.size)
    <3>1. labelEnd + 1 \in Nat /\ image.size \in 0 .. End BY <1>1, <1>2
    <3>2. QED BY <1>1, <3>1, NumberRead
  <2> HIDE DEF branch, labelEnd
  <2>3. branch.err \in Results BY <2>2 DEF Results, Errors
  <2>4. ASSUME Succeeded(branch)
        PROVE  branch.size \in Word /\ Advance(labelEnd + 1, branch.size).err \in Results
    <3>1. branch.size \in Word BY <1>1, <1>2, <2>2, <2>4, TrieFacts DEF Word
    <3>2. labelEnd + 1 \in 0 .. End BY <1>1, <1>2, <2>1
    <3>3. QED BY <1>1, <3>1, <3>2, AdvanceInside DEF Results
  <2>5. QED BY <2>1, <2>2, <2>3, <2>4
<1>6. \/ \E err \in Results : Returns(err)
      \/ /\ Succeeded(Advance(labelEnd, 1)) /\ Succeeded(branch) /\ LabelMatches(label)
         /\ Descend(branch.value, Len(label))
      \/ /\ Succeeded(Advance(labelEnd, 1)) /\ Succeeded(branch)
         /\ Succeeded(Advance(labelEnd + 1, branch.size))
         /\ Goes([search EXCEPT !.at = after, !.children = search.children - 1])
  <2>1. \/ Returns(Advance(search.at, labelEnd - search.at).err)
        \/ Returns(Advance(labelEnd, 1).err)
        \/ Succeeded(Advance(labelEnd, 1)) /\ Returns(branch.err)
        \/ /\ Succeeded(Advance(labelEnd, 1)) /\ Succeeded(branch) /\ LabelMatches(label)
           /\ Descend(branch.value, Len(label))
        \/ /\ Succeeded(Advance(labelEnd, 1)) /\ Succeeded(branch)
           /\ Returns(Advance(labelEnd + 1, branch.size).err)
        \/ /\ Succeeded(Advance(labelEnd, 1)) /\ Succeeded(branch)
           /\ Succeeded(Advance(labelEnd + 1, branch.size))
           /\ Goes([search EXCEPT !.at = after, !.children = search.children - 1])
    BY Zenon DEF TryChild
  <2> HIDE DEF labelEnd, label, branch, after
  <2>2. QED BY <1>4, <1>5, <2>1, Zenon
<1> HIDE DEF labelEnd, label, branch
<1>7. CASE \E err \in Results : Returns(err) BY <1>7, ReturnKeeps
<1>8. ASSUME Succeeded(Advance(labelEnd, 1)), Succeeded(branch), LabelMatches(label),
             Descend(branch.value, Len(label))
      PROVE  SearchInv'
  <2>1. branch.value \in Word BY <1>5, <1>8
  <2>2. search.matched + Len(label) <= Len(search.symbol) BY <1>8 DEF LabelMatches
  <2>3. QED BY <1>3, <1>8, <2>1, <2>2, DescendKeeps
<1>9. ASSUME Succeeded(Advance(labelEnd, 1)), Succeeded(branch),
             Succeeded(Advance(labelEnd + 1, branch.size)),
             Goes([search EXCEPT !.at = after, !.children = search.children - 1])
      PROVE  SearchInv'
  <2>1. labelEnd + 1 \in 0 .. End /\ branch.size \in Word /\ branch.size \in Nat
    BY <1>1, <1>2, <1>5, <1>9
  <2>2. after < image.size /\ after \in Nat
    <3>1. labelEnd + 1 + branch.size < image.size BY <1>1, <1>9, <2>1, AdvanceInside
    <3>2. QED BY <1>2, <2>1, <3>1
  <2> HIDE DEF after
  <2>3. search.children - 1 \in Byte BY <1>1 DEF Byte
  <2>4. image' = image /\ search' = [search EXCEPT !.at = after, !.children = search.children - 1]
    BY <1>9 DEF Goes
  <2>5. search'.at = after /\ search'.matched = search.matched /\ search'.symbol = search.symbol
    BY <2>4 DEF SearchInv
  <2>6. QED BY <2>2, <2>3, <2>4, <2>5 DEF SearchInv, SearchStaysInside
<1>10. QED BY <1>6, <1>7, <1>8, <1>9

LEMMA SearchInvNext == SearchInv /\ [SearchNext]_<<image, search>> => SearchInv'
<1> SUFFICES ASSUME SearchInv, [SearchNext]_<<image, search>> PROVE SearchInv' OBVIOUS
<1>1. CASE LeaveTrie
  <2>1. Returns("ENOT_FOUND") BY <1>1 DEF LeaveTrie
  <2>2. QED BY <2>1, ReturnKeeps DEF Results
<1>2. CASE ReadNode BY <1>2, ReadNodeKeeps
<1>3. CASE TryChild BY <1>3, TryChildKeeps
<1>4. CASE NoChild
  <2>1. Returns("ENOT_FOUND") BY <1>4 DEF NoChild
  <2>2. QED BY <2>1, ReturnKeeps DEF Results
<1>5. ASSUME NEW symbol \in Symbols, Search(symbol) PROVE SearchInv'
  <2>1. image' = image
        /\ search' = [search EXCEPT !.pc = "node", !.symbol = symbol, !.matched = 0, !.offset = 0]
    BY <1>5 DEF Search, Goes
  <2>2. 0 \in Word /\ Len(symbol) \in Nat BY WordAssumption, SymbolsAssumption DEF Word
  <2>3. search'.pc = "node" /\ search'.matched = 0 /\ search'.symbol = symbol
    BY <2>1 DEF SearchInv
  <2>4. search'.matched \in Nat /\ search'.matched <= Len(search'.symbol) BY <2>2, <2>3
  <2>5. search' \in [pc : {"idle", "node", "child"}, symbol : Symbols \cup {<<>>}, matched : Nat,
                     offset : Word, at : Nat, children : Byte, err : Results]
    BY <1>5, <2>1, <2>2 DEF SearchInv
  <2>6. QED BY <2>1, <2>3, <2>4, <2>5 DEF SearchInv, SearchStaysInside
<1>6. CASE UNCHANGED <<image, search>> BY <1>6 DEF SearchInv, SearchStaysInside
<1>7. QED BY <1>1, <1>2, <1>3, <1>4, <1>5, <1>6 DEF SearchNext, SearchStep

LEMMA SearchInvAlways == SearchSpec => []SearchInv
<1>1. image \in Images /\ SearchInit => SearchInv BY SearchInvInit
<1>2. SearchInv /\ [SearchNext]_<<image, search>> => SearchInv' BY SearchInvNext
<1>3. QED BY <1>1, <1>2, PTL DEF SearchSpec

\* A search is a record of its types for every trie, even one that is not a trie at all: the
\* numbers read from it are words, the place in the symbol never passes its end, and the errors
\* are those of core.c, of the number reader and MK_ENOT_FOUND.
THEOREM SearchTypeCorrect == SearchSpec => []SearchTypeOK
<1>1. SearchInv => SearchTypeOK
  <2> SUFFICES ASSUME SearchInv PROVE SearchTypeOK OBVIOUS
  <2>1. search.matched \in 0 .. Len(search.symbol)
    <3>1. Len(search.symbol) \in Nat BY SymbolsAssumption DEF SearchInv
    <3>2. QED BY <3>1 DEF SearchInv
  <2>2. QED BY <2>1 DEF SearchInv, SearchTypeOK
<1>2. QED BY <1>1, SearchInvAlways, PTL

\* Beside MKExportsInfo the search takes the steps it takes alone: the traversal leaves the bytes
\* and the search as they are, whatever it makes of them.
LEMMA ReadersApart == Spec => SearchSpec
<1>1. Init => image \in Images /\ SearchInit BY DEF Init
<1>2. [Next]_vars => [SearchNext]_<<image, search>>
  <2> SUFFICES ASSUME [Next]_vars PROVE [SearchNext]_<<image, search>> OBVIOUS
  <2>1. CASE InfoNext /\ UNCHANGED search
    <3>1. UNCHANGED image
      BY <2>1, Zenon DEF InfoNext, ParseNode, EndParse, FollowBranch, LeaveNode, EndWalk
    <3>2. QED BY <2>1, <3>1
  <2>2. CASE SearchNext BY <2>2
  <2>3. CASE UNCHANGED vars BY <2>3 DEF vars
  <2>4. QED BY <2>1, <2>2, <2>3 DEF Next
<1>3. QED BY <1>1, <1>2, PTL DEF Spec, SearchSpec

\* The search never stands outside the trie where it is about to read, whatever the bytes of the
\* trie, its size, where it is in the address space and how wide a word is.
THEOREM SearchStaysInsideHolds == Spec => []SearchStaysInside
<1>1. SearchInv => SearchStaysInside BY DEF SearchInv
<1>2. QED BY <1>1, SearchInvAlways, ReadersApart, PTL
----------------------------------------------------------------------------
(* Parsing the nodes.                                                      *)

LEMMA MKNumberRead ==
  ASSUME image \in Images, NEW p \in Nat, Succeeded(MKULEBRead(p))
  PROVE  /\ MKULEBRead(p).value \in Word /\ MKULEBRead(p).size \in Nat \ {0}
         /\ p + MKULEBRead(p).size <= End
<1> DEFINE limit == IF p < image.size THEN image.size ELSE End
           r == _mk_mach_trie_copy_uleb128(p, limit)
<1>1. limit \in 0 .. End /\ End \in Nat BY TrieFacts
<1>2. MKULEBRead(p) = r BY DEF MKULEBRead, Fails, Succeeded
<1>3. Succeeded(r) => r.value \in Word /\ r.size \in Nat \ {0} /\ p + r.size <= limit
  <2> HIDE DEF limit
  <2>1. QED BY <1>1, NumberRead
<1> HIDE DEF r, limit
<1>4. Succeeded(r) /\ r.size \in Nat /\ p + r.size <= limit BY <1>2, <1>3
<1>5. p + r.size <= End BY <1>1, <1>4
<1>6. QED BY <1>2, <1>3, <1>5

\* What can be a branch of a node: it lies between p and the end of the segment.
BranchesAfter(p) ==
  {b \in [at : Nat, label : Seq(Byte), offset : Word, size : Nat \ {0}] :
     p <= b.at /\ b.at + b.size <= End}

\* What lies after a later place lies after an earlier one.
LEMMA BranchesLater ==
  ASSUME NEW p \in Nat, NEW q \in Nat, p <= q
  PROVE  BranchesAfter(q) \subseteq BranchesAfter(p)
<1> DEFINE B == [at : Nat, label : Seq(Byte), offset : Word, size : Nat \ {0}]
<1>1. \A b \in B : b.at \in Nat OBVIOUS
<1> HIDE DEF B
<1>2. \A b \in B : q <= b.at => p <= b.at BY <1>1
<1>3. BranchesAfter(q) = {b \in B : q <= b.at /\ b.at + b.size <= End}
  BY DEF BranchesAfter, B
<1>4. BranchesAfter(p) = {b \in B : p <= b.at /\ b.at + b.size <= End}
  BY DEF BranchesAfter, B
<1>5. QED BY <1>2, <1>3, <1>4

LEMMA BranchType ==
  ASSUME image \in Images, NEW p \in 0 .. End, IsNode(MKExportTrieBranch(p))
  PROVE  /\ MKExportTrieBranch(p) \in BranchesAfter(p) /\ MKExportTrieBranch(p).at = p
         /\ p + MKExportTrieBranch(p).size \in 0 .. End
<1> DEFINE labelEnd == StringEnd(p, End)
           offset == MKULEBRead(labelEnd + 1)
           label == Characters(p, labelEnd)
           size == labelEnd + 1 + offset.size - p
           b == [at |-> p, label |-> label, offset |-> offset.value, size |-> size]
<1>1. End \in Nat /\ image.bytes \in Seq(Byte) BY TrieFacts
<1>2. labelEnd \in p .. End BY <1>1, StringEndType
<1>3. label \in Seq(Byte)
  <2>1. p + 1 \in 1 .. (Len(image.bytes) + 1) /\ labelEnd \in 0 .. Len(image.bytes)
    BY <1>1, <1>2 DEF End
  <2> HIDE DEF labelEnd
  <2>2. QED BY <1>1, <2>1 DEF Characters
<1>4. Succeeded(offset) BY DEF MKExportTrieBranch, IsNode, NoNode
<1>5. MKExportTrieBranch(p) = b BY <1>4 DEF MKExportTrieBranch
<1>6. offset.value \in Word /\ offset.size \in Nat \ {0} /\ labelEnd + 1 + offset.size <= End
  <2>1. labelEnd + 1 \in Nat BY <1>1, <1>2
  <2> HIDE DEF labelEnd
  <2>2. QED BY <1>4, <2>1, MKNumberRead
<1> HIDE DEF labelEnd, label, offset
<1>7. size \in Nat \ {0} /\ p + size <= End BY <1>1, <1>2, <1>6
<1> HIDE DEF size
<1>8. b \in BranchesAfter(p) BY <1>3, <1>6, <1>7 DEF BranchesAfter
<1>9. p + b.size \in 0 .. End BY <1>1, <1>7
<1>10. b.at = p OBVIOUS
<1> HIDE DEF b
<1>11. QED BY <1>5, <1>8, <1>9, <1>10

\* The function that BranchesUpTo defines in terms of itself exists.
LEMMA BranchesUpToDef ==
  ASSUME NEW n \in Nat
  PROVE  BranchesUpTo(n)
           = [k \in 0 .. n |-> [q \in 0 .. End |->
                IF k = 0 THEN <<>> ELSE BranchThen(q, BranchesUpTo(n)[k - 1])]]
<1> DEFINE Made(f, k) == [q \in 0 .. End |-> IF k = 0 THEN <<>> ELSE BranchThen(q, f[k - 1])]
           Fits(f, m) == \A k \in 0 .. n : k <= m => f[k] = Made(f, k)
           S == {m \in Nat : ~ \E f : Fits(f, m)}
<1>1. S = {}
  <2> SUFFICES ASSUME S # {} PROVE FALSE OBVIOUS
  <2>1. PICK m \in S : \A other \in S : m <= other
    <3>1. S \in SUBSET Nat OBVIOUS
    <3>2. QED BY <3>1, LeastNatural
  <2>2. CASE m = 0
    <3> DEFINE f == [k \in {0} |-> [q \in 0 .. End |-> <<>>]]
    <3>1. f[0] = Made(f, 0) OBVIOUS
    <3>2. \A k \in 0 .. n : k <= 0 => k = 0 OBVIOUS
    <3> HIDE DEF f, Made
    <3>3. Fits(f, 0) BY <3>1, <3>2
    <3>4. QED BY <2>1, <2>2, <3>3
  <2>3. CASE m # 0
    <3>1. m - 1 \in Nat /\ m - 1 \notin S
      <4> HIDE DEF Fits
      <4>1. QED BY <2>1, <2>3
    <3>2. PICK f : Fits(f, m - 1)
      <4> HIDE DEF Fits
      <4>1. QED BY <3>1
    <3> DEFINE g == [k \in 0 .. n |-> Made(f, k)]
    <3>3. ASSUME NEW k \in 0 .. n, k <= m PROVE g[k] = Made(g, k)
      <4>1. CASE k = 0 BY <4>1
      <4>2. CASE k # 0
        <5>1. k - 1 \in 0 .. n /\ k - 1 <= m - 1 BY <3>3, <4>2, <2>1
        <5>2. g[k - 1] = f[k - 1]
          <6> HIDE DEF Made
          <6>1. QED BY <3>2, <5>1
        <5> HIDE DEF g
        <5>3. Made(f, k) = Made(g, k) BY <5>2
        <5>4. g[k] = Made(f, k) BY DEF g
        <5>5. QED BY <5>3, <5>4
      <4>3. QED BY <4>1, <4>2
    <3> HIDE DEF g
    <3>4. Fits(g, m) BY <3>3
    <3> HIDE DEF Fits
    <3>5. QED BY <2>1, <3>4
  <2>4. QED BY <2>2, <2>3
<1>2. PICK f : Fits(f, n)
  <2> HIDE DEF Fits
  <2>1. QED BY <1>1
<1> DEFINE g == [k \in 0 .. n |-> Made(f, k)]
<1>3. \A k \in 0 .. n : g[k] = f[k]
  <2> HIDE DEF Made
  <2>1. QED BY <1>2
<1>4. ASSUME NEW k \in 0 .. n PROVE Made(f, k) = Made(g, k)
  <2>1. CASE k = 0 BY <2>1
  <2>2. CASE k # 0
    <3>1. k - 1 \in 0 .. n BY <2>2
    <3>2. g[k - 1] = f[k - 1] BY <1>3, <3>1
    <3> HIDE DEF g
    <3>3. QED BY <3>2
  <2>3. QED BY <2>1, <2>2
<1>5. g = [k \in 0 .. n |-> Made(g, k)] BY <1>4, Zenon
<1> HIDE DEF g
<1>6. \E from : from = [k \in 0 .. n |-> [q \in 0 .. End |->
                          IF k = 0 THEN <<>> ELSE BranchThen(q, from[k - 1])]]
  BY <1>5, Zenon
<1>7. QED BY <1>6, Zenon DEF BranchesUpTo

\* Branches that follow one another from q: only the last may be one that cannot be parsed.
Listing(q) ==
  {s \in Seq(BranchesAfter(q) \cup {NoNode}) : \A j \in 1 .. (Len(s) - 1) : s[j] \in BranchesAfter(q)}

LEMMA BranchesType ==
  ASSUME image \in Images, NEW n \in Nat, NEW p \in 0 .. End
  PROVE  BranchesFrom(p, n) \in Listing(p)
<1> DEFINE from == BranchesUpTo(n)
           S == {k \in 0 .. n : \E q \in 0 .. End : from[k][q] \notin Listing(q)}
<1>1. \A k \in 0 .. n : \A q \in 0 .. End :
        from[k][q] = IF k = 0 THEN <<>> ELSE BranchThen(q, from[k - 1])
  <2>1. from = [k \in 0 .. n |-> [q \in 0 .. End |->
                IF k = 0 THEN <<>> ELSE BranchThen(q, from[k - 1])]]
    BY BranchesUpToDef, Zenon
  <2> HIDE DEF from
  <2>2. ASSUME NEW k \in 0 .. n
        PROVE  from[k] = [q \in 0 .. End |-> IF k = 0 THEN <<>> ELSE BranchThen(q, from[k - 1])]
    BY <2>1, Zenon
  <2>3. QED BY <2>2, Zenon
<1> HIDE DEF from
<1>2. S = {}
  <2> SUFFICES ASSUME S # {} PROVE FALSE OBVIOUS
  <2>1. PICK k \in S : \A m \in S : k <= m
    <3>1. S \in SUBSET Nat OBVIOUS
    <3>2. QED BY <3>1, LeastNatural
  <2>2. PICK q \in 0 .. End : from[k][q] \notin Listing(q) BY <2>1
  <2>3. CASE k = 0
    <3>1. from[k][q] = <<>> BY <1>1, <2>3
    <3>2. <<>> \in Listing(q) BY DEF Listing
    <3>3. QED BY <2>2, <3>1, <3>2
  <2>4. CASE k # 0
    <3> DEFINE branch == MKExportTrieBranch(q)
               rest == from[k - 1][q + branch.size]
    <3>1. from[k][q] = IF IsNode(branch) THEN <<branch>> \o rest ELSE <<NoNode>>
      BY <1>1, <2>1, <2>4 DEF BranchThen
    <3>2. CASE ~ IsNode(branch)
      <4>1. <<NoNode>> \in Listing(q) BY DEF Listing
      <4>2. QED BY <2>2, <3>1, <3>2, <4>1
    <3>3. CASE IsNode(branch)
      <4>1. branch \in BranchesAfter(q) /\ q + branch.size \in 0 .. End /\ branch.size \in Nat
        <5>1. branch \in BranchesAfter(q) /\ q + branch.size \in 0 .. End BY <3>3, BranchType
        <5> HIDE DEF branch
        <5>2. QED BY <5>1 DEF BranchesAfter
      <4>2. rest \in Listing(q + branch.size)
        <5>1. k - 1 \in 0 .. n /\ k - 1 \notin S BY <2>1, <2>4
        <5>2. QED BY <4>1, <5>1
      <4>3. BranchesAfter(q + branch.size) \subseteq BranchesAfter(q)
        <5>1. q \in Nat /\ q + branch.size \in Nat /\ q <= q + branch.size
          <6> HIDE DEF branch
          <6>1. QED BY <4>1
        <5> HIDE DEF branch
        <5>2. QED BY <5>1, BranchesLater
      <4> HIDE DEF branch, rest
      <4> DEFINE B == BranchesAfter(q)
                 whole == <<branch>> \o rest
      <4>4. rest \in Seq(B \cup {NoNode}) /\ \A j \in 1 .. (Len(rest) - 1) : rest[j] \in B
        BY <4>2, <4>3, SeqMonotonic DEF Listing
      <4>5. branch \in B BY <4>1
      <4> HIDE DEF B
      <4>6. /\ whole \in Seq(B \cup {NoNode}) /\ Len(whole) = Len(rest) + 1 /\ whole[1] = branch
            /\ \A j \in 1 .. Len(rest) : whole[j + 1] = rest[j]
            /\ Len(rest) \in Nat
        BY <4>4, <4>5
      <4> HIDE DEF whole
      <4>7. ASSUME NEW j \in 1 .. (Len(whole) - 1) PROVE whole[j] \in B
        <5>1. CASE j = 1 BY <4>5, <4>6, <5>1
        <5>2. CASE j # 1
          <6>1. j - 1 \in 1 .. (Len(rest) - 1) /\ j - 1 \in 1 .. Len(rest) /\ (j - 1) + 1 = j
            BY <4>6, <5>2
          <6>2. QED BY <4>4, <4>6, <6>1
        <5>3. QED BY <5>1, <5>2
      <4>8. whole \in Listing(q) BY <4>6, <4>7 DEF Listing, B
      <4>9. QED BY <2>2, <3>1, <3>3, <4>8 DEF whole
    <3>4. QED BY <3>2, <3>3
  <2>5. QED BY <2>3, <2>4
<1>3. QED BY <1>2 DEF BranchesFrom, from

\* A node begins where it was looked for, and lies in the segment with all its branches.
LEMMA NodeParsed ==
  ASSUME image \in Images, NEW p \in 0 .. (End - 1), IsNode(MKExportTrieNode(p))
  PROVE  LET node == MKExportTrieNode(p)
         IN  /\ node.at = p /\ node.size \in Nat \ {0} /\ p + node.size <= End
             /\ node.terminal \in BOOLEAN /\ node.branches \in Seq(BranchesAfter(p))
<1> DEFINE terminal == MKULEBRead(p)
           count == p + terminal.size + terminal.value
           information == TerminalInformation(p + terminal.size)
           branches == BranchesFrom(count + 1, ByteAt(count))
           end == IF branches = <<>> THEN count + 1 ELSE Last(branches).at + Last(branches).size
           node == [at |-> p, size |-> end - p, terminal |-> terminal.value > 0, branches |-> branches,
                    information |-> IF terminal.value > 0 THEN information.value ELSE NoNode]
<1>1. /\ MKExportTrieNode(p) = node /\ Succeeded(terminal) /\ ~ (count >= End)
      /\ ~ (branches # <<>> /\ ~ IsNode(Last(branches)))
  BY Zenon DEF MKExportTrieNode, IsNode, NoNode
<1>2. /\ End \in Nat /\ terminal.value \in Nat /\ terminal.size \in Nat \ {0}
  <2>1. p \in Nat BY TrieFacts
  <2>2. terminal.value \in Word /\ terminal.size \in Nat \ {0} BY <1>1, <2>1, MKNumberRead
  <2>3. QED BY <2>2, TrieFacts DEF Word
<1>3. count \in 0 .. (End - 1) /\ count > p
  <2> HIDE DEF terminal
  <2>1. QED BY <1>1, <1>2
<1>4. branches \in Listing(count + 1)
  <2>1. ByteAt(count) \in Nat /\ count + 1 \in 0 .. End
    <3> HIDE DEF count
    <3>1. ByteAt(count) \in Byte BY <1>3, TrieFacts
    <3>2. QED BY <1>2, <1>3, <3>1 DEF Byte
  <2> HIDE DEF count
  <2>2. QED BY <2>1, BranchesType
<1> HIDE DEF branches, terminal, count, information
<1>5. branches \in Seq(BranchesAfter(p))
  <2> DEFINE B == BranchesAfter(count + 1)
  <2>1. /\ branches \in Seq(B \cup {NoNode}) /\ \A j \in 1 .. (Len(branches) - 1) : branches[j] \in B
    BY <1>4 DEF Listing
  <2>2. branches # <<>> => branches[Len(branches)] # NoNode
    BY <1>1 DEF IsNode, NoNode, Last
  <2> HIDE DEF B
  <2>3. \A j \in 1 .. Len(branches) : branches[j] \in B
    <3>1. TAKE j \in 1 .. Len(branches)
    <3>2. branches[j] \in B \cup {NoNode} BY <2>1
    <3>3. CASE j = Len(branches) BY <2>1, <2>2, <3>2, <3>3
    <3>4. CASE j # Len(branches)
      <4>1. j \in 1 .. (Len(branches) - 1) BY <2>1, <3>4
      <4>2. QED BY <2>1, <4>1
    <3>5. QED BY <3>3, <3>4
  <2>4. branches \in Seq(B)
    <3>1. branches = [j \in 1 .. Len(branches) |-> branches[j]] /\ Len(branches) \in Nat BY <2>1
    <3>2. QED BY <2>3, <3>1
  <2>5. B \subseteq BranchesAfter(p) BY <1>2, <1>3 DEF B, BranchesAfter
  <2>6. QED BY <2>4, <2>5, SeqMonotonic
<1>6. end \in (p + 1) .. End
  <2>1. CASE branches = <<>> BY <1>2, <1>3, <2>1
  <2>2. CASE branches # <<>>
    <3> DEFINE last == branches[Len(branches)]
    <3>1. last \in BranchesAfter(p)
      <4> DEFINE B == BranchesAfter(p)
      <4> HIDE DEF B
      <4>1. branches \in Seq(B) BY <1>5 DEF B
      <4>2. QED BY <2>2, <4>1 DEF B
    <3> HIDE DEF last
    <3>2. last.at \in Nat /\ last.size \in Nat \ {0} /\ p <= last.at /\ last.at + last.size <= End
      BY <3>1 DEF BranchesAfter
    <3>3. end = last.at + last.size BY <2>2 DEF last, Last
    <3> HIDE DEF end
    <3>4. QED BY <1>2, <3>2, <3>3
  <2>3. QED BY <2>1, <2>2
<1> HIDE DEF end
<1>7. end - p \in Nat \ {0} /\ p + (end - p) <= End BY <1>2, <1>6
<1>8. /\ node.at = p /\ node.size = end - p /\ node.branches = branches
      /\ node.terminal = (terminal.value > 0)
  OBVIOUS
<1>9. node.terminal \in BOOLEAN BY <1>8
<1> HIDE DEF node
<1>10. QED BY <1>1, <1>5, <1>7, <1>8, <1>9

\* What is known of a node that was parsed.
ParsedNode(n) ==
  /\ n.at \in 0 .. (End - 1) /\ n.size \in Nat \ {0} /\ n.at + n.size <= End
  /\ n.terminal \in BOOLEAN /\ n.branches \in Seq(BranchesAfter(n.at))

\* The nodes follow one another from the start of the trie.
ParseInv ==
  /\ image \in Images
  /\ nodes \in Seq({nodes[i] : i \in 1 .. Len(nodes)})
  /\ \A i \in 1 .. Len(nodes) : ParsedNode(nodes[i])
  /\ Len(nodes) > 0 => nodes[1].at = 0
  /\ \A i \in 1 .. (Len(nodes) - 1) : nodes[i + 1].at = nodes[i].at + nodes[i].size

LEMMA NodeFacts ==
  ASSUME ParseInv, NEW i \in 1 .. Len(nodes)
  PROVE  /\ nodes[i].at \in 0 .. (End - 1) /\ nodes[i].size \in Nat \ {0}
         /\ nodes[i].at + nodes[i].size <= End /\ nodes[i].terminal \in BOOLEAN
         /\ nodes[i].branches \in Seq(BranchesAfter(nodes[i].at))
         /\ nodes[i].at \in Nat /\ nodes[i].size \in Nat
<1>1. ParsedNode(nodes[i]) BY DEF ParseInv
<1>2. End \in Nat BY TrieFacts DEF ParseInv
<1>3. QED BY <1>1, <1>2 DEF ParsedNode

\* The place behind the last node is that of the next.
LEMMA ParseStep ==
  ASSUME ParseInv, ParseNode
  PROVE  ParseInv'
<1> DEFINE node == MKExportTrieNode(ParseOffset)
<1>1. /\ ParseOffset < image.size /\ IsNode(node) /\ nodes' = Append(nodes, node) /\ image' = image
  BY DEF ParseNode
<1>2. nodes # <<>> => Len(nodes) \in 1 .. Len(nodes) /\ Last(nodes) = nodes[Len(nodes)]
  BY DEF ParseInv, Last
<1>3. ParseOffset \in 0 .. (End - 1)
  <2>1. image.size \in 1 .. End /\ End \in Nat BY TrieFacts DEF ParseInv
  <2>2. CASE nodes = <<>> BY <1>1, <2>1, <2>2 DEF ParseOffset
  <2>3. CASE nodes # <<>>
    <3>1. Last(nodes).at \in Nat /\ Last(nodes).size \in Nat BY <1>2, <2>3, NodeFacts
    <3>2. QED BY <1>1, <2>1, <2>3, <3>1 DEF ParseOffset
  <2>4. QED BY <2>2, <2>3
<1>4. ParsedNode(node)
  <2>1. /\ node.at = ParseOffset /\ node.size \in Nat \ {0} /\ ParseOffset + node.size <= End
        /\ node.terminal \in BOOLEAN /\ node.branches \in Seq(BranchesAfter(ParseOffset))
    BY <1>1, <1>3, NodeParsed DEF ParseInv
  <2> HIDE DEF node
  <2>2. QED BY <1>3, <2>1 DEF ParsedNode
<1>5. node.at = ParseOffset BY <1>1, <1>3, NodeParsed DEF ParseInv
<1> HIDE DEF node
<1>6. nodes \in Seq({nodes[i] : i \in 1 .. Len(nodes)}) BY DEF ParseInv
<1>7. /\ Len(nodes') = Len(nodes) + 1 /\ Len(nodes) \in Nat
      /\ nodes'[Len(nodes) + 1] = node /\ \A i \in 1 .. Len(nodes) : nodes'[i] = nodes[i]
      /\ nodes' = [i \in 1 .. Len(nodes') |-> nodes'[i]]
  <2> DEFINE R == {nodes[i] : i \in 1 .. Len(nodes)}
             T == R \cup {node}
  <2>1. nodes \in Seq(T)
    <3>1. nodes \in Seq(R) BY <1>6
    <3> HIDE DEF R
    <3>2. QED BY <3>1, SeqMonotonic
  <2>2. node \in T OBVIOUS
  <2> HIDE DEF T
  <2>3. /\ nodes' \in Seq(T) /\ Len(nodes') = Len(nodes) + 1 /\ Len(nodes) \in Nat
        /\ nodes'[Len(nodes) + 1] = node /\ \A i \in 1 .. Len(nodes) : nodes'[i] = nodes[i]
    BY <1>1, <2>1, <2>2, AppendProperties
  <2>4. nodes' = [i \in 1 .. Len(nodes') |-> nodes'[i]] BY <2>3
  <2>5. QED BY <2>3, <2>4
<1>8. nodes'[1].at = 0
  <2>1. CASE nodes = <<>> BY <1>5, <1>7, <2>1 DEF ParseOffset
  <2>2. CASE nodes # <<>> BY <1>7, <2>2 DEF ParseInv
  <2>3. QED BY <2>1, <2>2
<1>9. ASSUME NEW i \in 1 .. (Len(nodes') - 1) PROVE nodes'[i + 1].at = nodes'[i].at + nodes'[i].size
  <2>1. i \in 1 .. Len(nodes) /\ nodes'[i] = nodes[i] BY <1>7
  <2>2. CASE i = Len(nodes)
    <3>1. ParseOffset = nodes[i].at + nodes[i].size BY <1>2, <2>1, <2>2 DEF ParseOffset
    <3>2. QED BY <1>5, <1>7, <2>1, <2>2, <3>1
  <2>3. CASE i # Len(nodes)
    <3>1. i \in 1 .. (Len(nodes) - 1) /\ nodes'[i + 1] = nodes[i + 1] BY <1>7, <2>1, <2>3
    <3>2. QED BY <2>1, <3>1 DEF ParseInv
  <2>4. QED BY <2>2, <2>3
<1>10. nodes' \in Seq({nodes'[i] : i \in 1 .. Len(nodes')})
  <2> DEFINE T == {nodes'[i] : i \in 1 .. Len(nodes')}
  <2>1. \A i \in 1 .. Len(nodes') : nodes'[i] \in T OBVIOUS
  <2>2. Len(nodes') \in Nat BY <1>7
  <2> HIDE DEF T
  <2>3. nodes' \in Seq(T) BY <1>7, <2>1, <2>2
  <2>4. QED BY <2>3 DEF T
<1>11. \A i \in 1 .. Len(nodes') : ParsedNode(nodes'[i])
  <2>1. TAKE i \in 1 .. Len(nodes')
  <2>2. CASE i = Len(nodes) + 1 BY <1>4, <1>7, <2>2
  <2>3. CASE i # Len(nodes) + 1
    <3>1. i \in 1 .. Len(nodes) BY <1>7, <2>3
    <3>2. QED BY <1>7, <3>1 DEF ParseInv
  <2>4. QED BY <2>2, <2>3
<1>12. (\A i \in 1 .. Len(nodes) : ParsedNode(nodes[i]))'
  BY <1>1, <1>11 DEF ParsedNode, BranchesAfter, End
<1>13. image' \in Images BY <1>1 DEF ParseInv
<1>14. QED BY <1>8, <1>9, <1>10, <1>12, <1>13 DEF ParseInv

LEMMA ParseInvariant == Spec => []ParseInv
<1>1. Init => ParseInv BY DEF Init, InfoInit, ParseInv
<1>2. ParseInv /\ [Next]_vars => ParseInv'
  <2> SUFFICES ASSUME ParseInv, [Next]_vars PROVE ParseInv' OBVIOUS
  <2>1. ASSUME UNCHANGED <<image, nodes>> PROVE ParseInv'
    BY <2>1 DEF ParseInv, ParsedNode, BranchesAfter, End
  <2>2. CASE ParseNode BY <2>2, ParseStep
  <2>3. CASE EndParse \/ FollowBranch \/ LeaveNode \/ EndWalk
    BY <2>1, <2>3 DEF EndParse, FollowBranch, LeaveNode, EndWalk
  <2>4. CASE SearchNext /\ UNCHANGED infoVars
    <3>1. image' = image
      BY <2>4, Zenon DEF SearchNext, SearchStep, Search, LeaveTrie, ReadNode, TryChild, NoChild,
                         Descend, Returns, Goes
    <3>2. QED BY <2>1, <2>4, <3>1 DEF infoVars
  <2>5. CASE UNCHANGED vars BY <2>1, <2>5 DEF vars, infoVars
  <2>6. QED BY <2>2, <2>3, <2>4, <2>5 DEF Next, InfoNext
<1>3. QED BY <1>1, <1>2, PTL DEF Spec

----------------------------------------------------------------------------
(* The binary search among the nodes.                                      *)

\* Nodes that follow one another are in order and do not overlap.
LEMMA NodesInOrder ==
  ASSUME ParseInv, NEW i \in 1 .. Len(nodes), NEW j \in 1 .. Len(nodes), i < j
  PROVE  nodes[i].at + nodes[i].size <= nodes[j].at
<1> DEFINE end == nodes[i].at + nodes[i].size
           S == {k \in (i + 1) .. Len(nodes) : ~ (end <= nodes[k].at)}
<1>0. Len(nodes) \in Nat /\ end \in Nat
  <2>1. Len(nodes) \in Nat BY DEF ParseInv
  <2>2. nodes[i].at \in Nat /\ nodes[i].size \in Nat BY NodeFacts
  <2>3. QED BY <2>1, <2>2
<1>1. S = {}
  <2> SUFFICES ASSUME S # {} PROVE FALSE OBVIOUS
  <2>1. PICK k \in S : \A m \in S : k <= m
    <3>1. S \in SUBSET Nat BY <1>0
    <3>2. QED BY <3>1, LeastNatural
  <2>2. /\ k - 1 \in 1 .. (Len(nodes) - 1) /\ k - 1 \in 1 .. Len(nodes) /\ (k - 1) + 1 = k
        /\ k \in 1 .. Len(nodes) /\ k - 1 \in i .. Len(nodes)
    BY <1>0, <2>1
  <2>3. nodes[k].at = nodes[k - 1].at + nodes[k - 1].size
    <3>1. nodes[(k - 1) + 1].at = nodes[k - 1].at + nodes[k - 1].size
      <4> DEFINE before == k - 1
      <4>1. before \in 1 .. (Len(nodes) - 1) BY <2>2
      <4> HIDE DEF before
      <4>2. nodes[before + 1].at = nodes[before].at + nodes[before].size BY <4>1 DEF ParseInv
      <4>3. QED BY <4>2 DEF before
    <3>2. QED BY <2>2, <3>1
  <2>4. nodes[k - 1].at \in Nat /\ nodes[k - 1].size \in Nat BY <2>2, NodeFacts
  <2>5. CASE k - 1 = i
    <3>1. nodes[k].at = end BY <2>3, <2>5
    <3> HIDE DEF end
    <3>2. QED BY <1>0, <2>1, <3>1
  <2>6. CASE k - 1 # i
    <3>1. k - 1 \notin S BY <1>0, <2>1
    <3>2. k - 1 \in (i + 1) .. Len(nodes) BY <2>2, <2>6
    <3> HIDE DEF end
    <3>3. end <= nodes[k - 1].at BY <3>1, <3>2
    <3>4. QED BY <1>0, <2>1, <2>3, <2>4, <3>3, SMTT(40)
  <2>7. QED BY <2>5, <2>6
<1>2. QED BY <1>0, <1>1

\* A node's range contains an address of the trie exactly if it is between its ends.
Occupies(i, p) == nodes[i].at <= p /\ p < nodes[i].at + nodes[i].size

LEMMA RangeOfNode ==
  ASSUME ParseInv, NEW i \in 1 .. Len(nodes), NEW p \in 0 .. (End - 1)
  PROVE  /\ TrieAddress + p < NodeAddress(i) <=> p < nodes[i].at
         /\ Succeeded(mk_vm_range_contains_address(NodeRange(i), 0, TrieAddress + p)) <=> Occupies(i, p)
<1> DEFINE at == nodes[i].at
           size == nodes[i].size
           range == NodeRange(i)
           address == TrieAddress + p
<1>1. /\ at \in Nat /\ size \in Nat \ {0} /\ at + size <= End
  BY NodeFacts
<1>2. TrieAddress \in Nat /\ MaxWord \in Nat /\ End \in Nat /\ TrieAddress + End <= MaxWord
  BY TrieFacts DEF ParseInv
<1>3. range = [location |-> TrieAddress + at, length |-> size] /\ NodeAddress(i) = TrieAddress + at
  BY DEF NodeRange, NodeAddress, mk_vm_range_make
<1>4. range.location = TrieAddress + at /\ range.length = size BY <1>3
<1> HIDE DEF range, at, size
<1>5. ~ RangeOverflows(range) BY <1>1, <1>2, <1>4 DEF RangeOverflows
<1>6. mk_vm_address_apply_offset(address, 0) = Ok(address)
  BY <1>2 DEF mk_vm_address_apply_offset, Adds
<1>7. Succeeded(Ok(address)) /\ Ok(address).value = address BY DEF Ok, Succeeded
<1>8. Succeeded(mk_vm_range_contains_address(range, 0, address))
        <=> ~ (address < range.location \/ address >= range.location + range.length)
  <2> HIDE DEF address
  <2>1. QED BY <1>5, <1>6, <1>7 DEF mk_vm_range_contains_address, Fails, Succeeded
<1>9. address < range.location <=> p < at BY <1>1, <1>2, <1>4, SMTT(30)
<1>10. address >= range.location + range.length <=> p >= at + size BY <1>1, <1>2, <1>4, SMTT(30)
<1>11. Occupies(i, p) <=> ~ (p < at \/ p >= at + size)
  BY <1>1, <1>2, SMTT(30) DEF Occupies, at, size
<1>12. QED BY <1>3, <1>4, <1>8, <1>9, <1>10, <1>11 DEF range, at

\* The function of the binary search exists: each half is shorter than the whole.
LEMMA NodeAmongDef ==
  ASSUME ParseInv, NEW address
  PROVE  NodeAmong(address)
           = [lo \in 1 .. (Len(nodes) + 1) |-> [hi \in 0 .. Len(nodes) |->
                Halve(address, lo, hi, NodeAmong(address))]]
<1> DEFINE Los == 1 .. (Len(nodes) + 1)
           His == 0 .. Len(nodes)
           Made(f) == [lo \in Los |-> [hi \in His |-> Halve(address, lo, hi, f)]]
           Fits(f, n) == \A lo \in Los, hi \in His : hi - lo + 1 <= n => f[lo][hi] = Halve(address, lo, hi, f)
           S == {n \in Nat : ~ \E f : Fits(f, n)}
<1>0. Len(nodes) \in Nat BY DEF ParseInv
<1>1. ASSUME NEW f, NEW n \in Nat, NEW lo \in Los, NEW hi \in His, hi - lo + 1 <= n,
             \A a \in Los, b \in His : b - a + 1 < n => Made(f)[a][b] = f[a][b]
      PROVE  Made(f)[lo][hi] = Halve(address, lo, hi, Made(f))
  <2> DEFINE g == Made(f)
             mid == (lo + hi) \div 2
  <2>1. g[lo][hi] = Halve(address, lo, hi, f) OBVIOUS
  <2> HIDE DEF g
  <2>2. CASE lo > hi BY <2>1, <2>2 DEF Halve
  <2>3. CASE ~ (lo > hi)
    <3>1. mid \in lo .. hi BY <2>3
    <3>2. mid - 1 \in His /\ mid + 1 \in Los /\ (mid - 1) - lo + 1 < n /\ hi - (mid + 1) + 1 < n
      <4> HIDE DEF mid
      <4>1. QED BY <1>0, <1>1, <2>3, <3>1
    <3>3. g[lo][mid - 1] = f[lo][mid - 1] /\ g[mid + 1][hi] = f[mid + 1][hi]
      <4> HIDE DEF mid, Made
      <4>1. QED BY <1>1, <3>2 DEF g
    <3>4. Halve(address, lo, hi, f) = Halve(address, lo, hi, g) BY <3>3 DEF Halve
    <3>5. QED BY <2>1, <3>4 DEF g
  <2>4. QED BY <2>2, <2>3 DEF g
<1>2. ASSUME NEW f, NEW n \in Nat, Fits(f, n)
      PROVE  \A a \in Los, b \in His : b - a + 1 < n + 1 => Made(f)[a][b] = f[a][b]
  <2> SUFFICES ASSUME NEW a \in Los, NEW b \in His, b - a + 1 < n + 1
               PROVE  Made(f)[a][b] = f[a][b]
    OBVIOUS
  <2>1. b - a + 1 <= n BY <1>0
  <2>2. f[a][b] = Halve(address, a, b, f) BY <1>2, <2>1
  <2>3. Made(f)[a][b] = Halve(address, a, b, f) OBVIOUS
  <2>4. QED BY <2>2, <2>3
<1>3. S = {}
  <2> SUFFICES ASSUME S # {} PROVE FALSE OBVIOUS
  <2> HIDE DEF Fits
  <2>1. PICK n \in S : \A m \in S : n <= m
    <3>1. S \in SUBSET Nat OBVIOUS
    <3>2. QED BY <3>1, LeastNatural
  <2>2. CASE n = 0
    <3> DEFINE f == [lo \in Los |-> [hi \in His |-> 0]]
    <3>1. ASSUME NEW lo \in Los, NEW hi \in His, hi - lo + 1 <= 0
          PROVE  f[lo][hi] = Halve(address, lo, hi, f)
      <4>1. lo > hi /\ f[lo][hi] = 0 BY <1>0, <3>1
      <4> HIDE DEF f
      <4>2. QED BY <4>1 DEF Halve
    <3> HIDE DEF f
    <3>2. Fits(f, 0) BY <3>1 DEF Fits
    <3>3. QED BY <2>1, <2>2, <3>2
  <2>3. CASE n # 0
    <3>1. n - 1 \in Nat /\ n - 1 \notin S BY <2>1, <2>3
    <3>2. PICK f : Fits(f, n - 1) BY <3>1
    <3>3. \A a \in Los, b \in His : b - a + 1 < n => Made(f)[a][b] = f[a][b]
      <4> HIDE DEF Made, Los, His
      <4>1. \A a \in Los, b \in His : b - a + 1 < (n - 1) + 1 => Made(f)[a][b] = f[a][b]
        BY <1>2, <3>1, <3>2
      <4>2. n \in Nat /\ (n - 1) + 1 = n BY <2>1
      <4>3. QED BY <4>1, <4>2
    <3> DEFINE g == Made(f)
    <3>4. Fits(g, n)
      <4>1. n \in Nat BY <2>1
      <4> HIDE DEF Made, Los, His
      <4>2. QED BY <1>1, <3>3, <4>1 DEF Fits
    <3> HIDE DEF g
    <3>5. QED BY <2>1, <3>4
  <2>4. QED BY <2>2, <2>3
<1>4. PICK f : Fits(f, Len(nodes))
  <2> HIDE DEF Fits
  <2>1. QED BY <1>0, <1>3
<1> DEFINE g == Made(f)
<1>5. ASSUME NEW lo \in Los, NEW hi \in His
      PROVE  Halve(address, lo, hi, f) = Halve(address, lo, hi, g)
  <2>1. hi - lo + 1 <= Len(nodes) BY <1>0
  <2>2. g[lo][hi] = Halve(address, lo, hi, f) OBVIOUS
  <2>3. \A a \in Los, b \in His : b - a + 1 < Len(nodes) + 1 => g[a][b] = f[a][b]
    <3> HIDE DEF Made, Los, His
    <3>1. QED BY <1>0, <1>2, <1>4
  <2>4. hi - lo + 1 <= Len(nodes) + 1 /\ Len(nodes) + 1 \in Nat BY <1>0, <2>1
  <2>5. g[lo][hi] = Halve(address, lo, hi, g)
    <3> HIDE DEF Made, Los, His, Fits
    <3>1. QED BY <1>1, <2>3, <2>4
  <2>6. QED BY <2>2, <2>5
<1>6. g = [lo \in Los |-> [hi \in His |-> Halve(address, lo, hi, g)]]
  <2>1. g = [lo \in Los |-> [hi \in His |-> Halve(address, lo, hi, f)]] OBVIOUS
  <2> HIDE DEF g
  <2>2. QED BY <1>5, <2>1, Zenon
<1> HIDE DEF g
<1>7. \E find : find = [lo \in 1 .. (Len(nodes) + 1) |-> [hi \in 0 .. Len(nodes) |->
                          Halve(address, lo, hi, find)]]
  BY <1>6, Zenon
<1>8. QED BY <1>7, Zenon DEF NodeAmong

\* The search among the nodes from lo to hi finds the one that occupies the place, if there is one.
LEMMA NodeAmongFinds ==
  ASSUME ParseInv, NEW p \in 0 .. (End - 1), NEW lo \in 1 .. (Len(nodes) + 1), NEW hi \in 0 .. Len(nodes)
  PROVE  LET i == NodeAmong(TrieAddress + p)[lo][hi]
         IN  \/ i \in lo .. hi /\ Occupies(i, p)
             \/ i = 0 /\ \A j \in lo .. hi : ~ Occupies(j, p)
<1> DEFINE Los == 1 .. (Len(nodes) + 1)
           His == 0 .. Len(nodes)
           find == NodeAmong(TrieAddress + p)
           Finds(a, b) == \/ find[a][b] \in a .. b /\ Occupies(find[a][b], p)
                          \/ find[a][b] = 0 /\ \A j \in a .. b : ~ Occupies(j, p)
           S == {n \in Nat : \E a \in Los, b \in His : b - a + 1 <= n /\ ~ Finds(a, b)}
<1>0. Len(nodes) \in Nat /\ End \in Nat /\ p \in Nat BY TrieFacts DEF ParseInv
<1>1. ASSUME NEW a \in Los, NEW b \in His
      PROVE  find[a][b] = Halve(TrieAddress + p, a, b, find)
  <2>1. find = [x \in Los |-> [y \in His |-> Halve(TrieAddress + p, x, y, find)]]
    BY NodeAmongDef, Zenon
  <2> HIDE DEF find
  <2>2. find[a] = [y \in His |-> Halve(TrieAddress + p, a, y, find)] BY <2>1, Zenon
  <2>3. QED BY <2>2, Zenon
<1> HIDE DEF find
<1>2. ASSUME NEW a \in Los, NEW b \in His, ~ Finds(a, b)
      PROVE  \E c \in Los, d \in His : d - c < b - a /\ ~ Finds(c, d) /\ a <= b
  <2> DEFINE mid == (a + b) \div 2
  <2>1. CASE a > b
    <3>1. find[a][b] = 0 BY <1>1, <2>1 DEF Halve
    <3>2. \A j \in a .. b : FALSE BY <2>1
    <3>3. QED BY <1>2, <3>1, <3>2
  <2>2. CASE ~ (a > b)
    <3>1. mid \in a .. b BY <2>2
    <3>2. find[a][b] = IF TrieAddress + p < NodeAddress(mid) THEN find[a][mid - 1]
                       ELSE IF Succeeded(mk_vm_range_contains_address(NodeRange(mid), 0, TrieAddress + p))
                       THEN mid ELSE find[mid + 1][b]
      BY <1>1, <2>2, Zenon DEF Halve
    <3> HIDE DEF mid
    <3>3. /\ mid \in 1 .. Len(nodes) /\ mid - 1 \in His /\ mid + 1 \in Los
          /\ (mid - 1) - a < b - a /\ b - (mid + 1) < b - a /\ a <= b
      BY <1>0, <2>2, <3>1
    <3>4. /\ nodes[mid].at \in Nat /\ nodes[mid].size \in Nat
          /\ TrieAddress + p < NodeAddress(mid) <=> p < nodes[mid].at
          /\ Succeeded(mk_vm_range_contains_address(NodeRange(mid), 0, TrieAddress + p))
               <=> Occupies(mid, p)
      BY <3>3, RangeOfNode, NodeFacts
    <3>5. CASE p < nodes[mid].at
      <4>1. find[a][b] = find[a][mid - 1] BY <3>2, <3>4, <3>5
      <4>2. ASSUME NEW j \in mid .. b PROVE ~ Occupies(j, p)
        <5>1. j \in 1 .. Len(nodes) BY <1>0, <3>3
        <5>2. nodes[j].at \in Nat BY <5>1, NodeFacts
        <5>3. nodes[mid].at <= nodes[j].at
          <6>1. CASE j = mid BY <3>4, <6>1
          <6>2. CASE j # mid
            <7>1. mid < j BY <3>3, <6>2
            <7>2. nodes[mid].at + nodes[mid].size <= nodes[j].at BY <3>3, <5>1, <7>1, NodesInOrder
            <7>3. QED BY <3>4, <5>2, <7>2, SMTT(40)
          <6>3. QED BY <6>1, <6>2
        <5>4. QED BY <3>4, <3>5, <5>2, <5>3, SMTT(40) DEF Occupies
      <4>3. ASSUME Finds(a, mid - 1) PROVE Finds(a, b)
        <5>1. a .. b = (a .. (mid - 1)) \cup (mid .. b) BY <3>1, <3>3
        <5>2. QED BY <4>1, <4>2, <4>3, <5>1
      <4>4. QED BY <1>2, <3>3, <4>3
    <3>6. CASE ~ (p < nodes[mid].at) /\ Occupies(mid, p)
      <4>1. find[a][b] = mid BY <3>2, <3>4, <3>6
      <4>2. QED BY <1>2, <3>1, <3>6, <4>1
    <3>7. CASE ~ (p < nodes[mid].at) /\ ~ Occupies(mid, p)
      <4>1. find[a][b] = find[mid + 1][b] BY <3>2, <3>4, <3>7
      <4>2. nodes[mid].at + nodes[mid].size <= p BY <3>4, <3>7 DEF Occupies
      <4>3. ASSUME NEW j \in a .. mid PROVE ~ Occupies(j, p)
        <5>1. j \in 1 .. Len(nodes) BY <1>0, <3>3
        <5>2. nodes[j].at \in Nat /\ nodes[j].size \in Nat BY <5>1, NodeFacts
        <5>3. nodes[j].at + nodes[j].size <= p
          <6>1. CASE j = mid BY <4>2, <6>1
          <6>2. CASE j # mid
            <7>1. j < mid BY <3>3, <6>2
            <7>2. nodes[j].at + nodes[j].size <= nodes[mid].at BY <3>3, <5>1, <7>1, NodesInOrder
            <7>3. nodes[mid].at \in Nat /\ nodes[mid].size \in Nat BY <3>4
            <7>4. p \in Nat BY <1>0
            <7>5. \A s, t, u, v \in Nat : s + t <= u /\ u + v <= p => s + t <= p BY <7>4
            <7>6. QED BY <4>2, <5>2, <7>2, <7>3, <7>5
          <6>3. QED BY <6>1, <6>2
        <5>4. QED BY <1>0, <5>2, <5>3 DEF Occupies
      <4>4. ASSUME Finds(mid + 1, b) PROVE Finds(a, b)
        <5>1. a .. b = (a .. mid) \cup ((mid + 1) .. b) BY <3>1, <3>3
        <5>2. QED BY <4>1, <4>3, <4>4, <5>1
      <4>5. QED BY <1>2, <3>3, <4>4
    <3>8. QED BY <3>5, <3>6, <3>7
  <2>3. QED BY <2>1, <2>2
<1> HIDE DEF Finds
<1>3. S = {}
  <2> SUFFICES ASSUME S # {} PROVE FALSE OBVIOUS
  <2>1. PICK n \in S : \A m \in S : n <= m
    <3>1. S \in SUBSET Nat OBVIOUS
    <3>2. QED BY <3>1, LeastNatural
  <2>2. PICK a \in Los, b \in His : b - a + 1 <= n /\ ~ Finds(a, b) BY <2>1
  <2>3. PICK c \in Los, d \in His : d - c < b - a /\ ~ Finds(c, d) /\ a <= b BY <1>2, <2>2
  <2>4. n - 1 \in Nat /\ d - c + 1 <= n - 1 BY <1>0, <2>1, <2>2, <2>3
  <2>5. n - 1 \in S BY <2>3, <2>4
  <2>6. n \in Nat BY <2>1
  <2> HIDE DEF S
  <2>7. QED BY <2>1, <2>5, <2>6
<1>4. Len(nodes) \in Nat /\ hi - lo + 1 <= Len(nodes) BY <1>0
<1>5. Finds(lo, hi) BY <1>3, <1>4
<1>6. QED BY <1>5 DEF Finds, find

\* The nodes are found by address as if each of them had been asked, whatever the bytes of the trie
\* are: they are parsed in order, without gaps or overlaps, and no range of theirs wraps.
THEOREM NodesFound == Spec => []NodesAreFound
<1>1. ParseInv => NodesAreFound
  <2> SUFFICES ASSUME ParseInv, NEW p \in 0 .. (End - 1)
               PROVE  NodeOccupying(TrieAddress + p)
                        = LET here == {i \in 1 .. Len(nodes) :
                                         nodes[i].at <= p /\ p < nodes[i].at + nodes[i].size}
                          IN  IF here = {} THEN 0 ELSE CHOOSE i \in here : here = {i}
    BY Zenon DEF NodesAreFound
  <2> DEFINE here == {i \in 1 .. Len(nodes) : nodes[i].at <= p /\ p < nodes[i].at + nodes[i].size}
             found == NodeAmong(TrieAddress + p)[1][Len(nodes)]
  <2>1. Len(nodes) \in Nat BY DEF ParseInv
  <2>2. here = {i \in 1 .. Len(nodes) : Occupies(i, p)} BY DEF Occupies
  <2>3. \/ found \in 1 .. Len(nodes) /\ Occupies(found, p)
        \/ found = 0 /\ \A j \in 1 .. Len(nodes) : ~ Occupies(j, p)
    <3>1. 1 \in 1 .. (Len(nodes) + 1) /\ Len(nodes) \in 0 .. Len(nodes) BY <2>1
    <3>2. QED BY <3>1, NodeAmongFinds
  <2> HIDE DEF here, found
  <2>4. CASE found = 0 /\ \A j \in 1 .. Len(nodes) : ~ Occupies(j, p)
    <3>1. here = {} BY <2>2, <2>4
    <3>2. QED BY <2>4, <3>1 DEF NodeOccupying, found, here
  <2>5. CASE found \in 1 .. Len(nodes) /\ Occupies(found, p)
    <3>1. ASSUME NEW j \in 1 .. Len(nodes), Occupies(j, p) PROVE j = found
      <4>1. /\ nodes[j].at \in Nat /\ nodes[j].size \in Nat
            /\ nodes[found].at \in Nat /\ nodes[found].size \in Nat
        BY <2>5, NodeFacts
      <4>2. CASE j < found
        <5>1. nodes[j].at + nodes[j].size <= nodes[found].at BY <2>5, <4>2, NodesInOrder
        <5>2. QED BY <2>5, <3>1, <4>1, <5>1 DEF Occupies
      <4>3. CASE found < j
        <5>1. nodes[found].at + nodes[found].size <= nodes[j].at BY <2>5, <4>3, NodesInOrder
        <5>2. QED BY <2>5, <3>1, <4>1, <5>1 DEF Occupies
      <4>4. QED BY <2>1, <2>5, <4>2, <4>3
    <3>2. here = {found} BY <2>2, <2>5, <3>1
    <3>3. (CHOOSE i \in here : here = {i}) = found BY <3>2
    <3>4. QED BY <3>2, <3>3 DEF NodeOccupying, found, here
  <2>6. QED BY <2>3, <2>4, <2>5
<1>2. QED BY <1>1, ParseInvariant, PTL

----------------------------------------------------------------------------
(* The traversal.                                                          *)

\* An item of the queue: a node, or one of its branches.
Item(item) ==
  /\ item.node \in 1 .. Len(nodes)
  /\ item.branch \in 0 .. Len(nodes[item.node].branches)

\* The queue holds the nodes of the path in their order, each followed by those of its branches
\* that are left: depth says of an item which node of the path it belongs to.
Stacked(items, line, depth) ==
  /\ depth \in [1 .. Len(items) -> 1 .. Len(line)]
  /\ \A j \in 1 .. Len(items) : items[j].node = line[depth[j]]
  /\ \A j, k \in 1 .. Len(items) : j <= k => depth[j] <= depth[k]
  /\ \A j \in 1 .. (Len(items) - 1) :
       depth[j + 1] = IF IsBranch(items[j + 1]) THEN depth[j] ELSE depth[j] + 1
  /\ Len(items) > 0 => ~ IsBranch(items[1]) /\ depth[1] = 1 /\ depth[Len(items)] = Len(line)
  /\ Len(items) = 0 => Len(line) = 0

WalkInv ==
  /\ ParseInv
  /\ ~ trapped
  /\ phase = "parse" => queue = <<>> /\ path = <<>>
  /\ queue \in Seq([node : Nat, branch : Nat]) /\ path \in Seq(1 .. Len(nodes))
  /\ \A j \in 1 .. Len(queue) : Item(queue[j])
  /\ PathIsLinked
  /\ \E depth : Stacked(queue, path, depth)

\* A queue and a path of which the lengths are known.
LEMMA StackedIs ==
  ASSUME NEW items, NEW line, NEW a \in Nat \ {0}, NEW b \in Nat, Len(items) = a, Len(line) = b,
         NEW depth \in [1 .. a -> 1 .. b],
         \A j \in 1 .. a : items[j].node = line[depth[j]],
         \A j, k \in 1 .. a : j <= k => depth[j] <= depth[k],
         \A j \in 1 .. (a - 1) :
           depth[j + 1] = IF IsBranch(items[j + 1]) THEN depth[j] ELSE depth[j] + 1,
         ~ IsBranch(items[1]), depth[1] = 1, depth[a] = b
  PROVE  Stacked(items, line, depth)
<1>1. depth \in [1 .. Len(items) -> 1 .. Len(line)] OBVIOUS
<1>2. \A j \in 1 .. Len(items) : items[j].node = line[depth[j]] BY Zenon
<1>3. \A j, k \in 1 .. Len(items) : j <= k => depth[j] <= depth[k] BY Zenon
<1>4. \A j \in 1 .. (Len(items) - 1) :
        depth[j + 1] = IF IsBranch(items[j + 1]) THEN depth[j] ELSE depth[j] + 1
  BY Zenon
<1>5. ~ IsBranch(items[1]) /\ depth[1] = 1 /\ depth[Len(items)] = Len(line) OBVIOUS
<1>6. Len(items) # 0 OBVIOUS
<1>7. QED BY <1>1, <1>2, <1>3, <1>4, <1>5, <1>6, Zenon DEF Stacked

\* A list without its last element.
LEMMA FrontOf ==
  ASSUME NEW S, NEW list \in Seq(S), list # <<>>
  PROVE  /\ Len(list) \in Nat \ {0}
         /\ Front(list) \in Seq(S) /\ Len(Front(list)) = Len(list) - 1
         /\ \A k \in 1 .. (Len(list) - 1) : Front(list)[k] = list[k]
<1>1. Len(list) \in Nat \ {0} BY EmptySeq
<1> DEFINE n == Len(list) - 1
<1>2. 1 \in 1 .. (Len(list) + 1) /\ n \in 0 .. Len(list) BY <1>1
<1>3. /\ Front(list) \in Seq(S) /\ Len(Front(list)) = IF 1 <= n THEN n - 1 + 1 ELSE 0
      /\ \A k \in 1 .. n - 1 + 1 : Front(list)[k] = list[1 + k - 1]
  BY <1>2, SubSeqProperties DEF Front
<1>4. Len(Front(list)) = n
  <2>1. n \in Nat BY <1>1
  <2> HIDE DEF n
  <2>2. QED BY <1>3, <2>1
<1>5. \A k \in 1 .. n : k \in 1 .. n - 1 + 1 /\ 1 + k - 1 = k BY <1>1
<1>6. QED BY <1>1, <1>3, <1>4, <1>5

\* What is put in the queue for a node: the node first, and then its branches.
LEMMA ItemsOf ==
  ASSUME WalkInv, NEW i \in 1 .. Len(nodes)
  PROVE  /\ Items(i) \in Seq([node : Nat, branch : Nat]) /\ Len(Items(i)) \in Nat \ {0}
         /\ \A j \in 1 .. Len(Items(i)) : Item(Items(i)[j]) /\ Items(i)[j].node = i
         /\ ~ IsBranch(Items(i)[1])
         /\ \A j \in 2 .. Len(Items(i)) : IsBranch(Items(i)[j])
<1> DEFINE n == Len(nodes[i].branches)
           R == [node : Nat, branch : Nat]
           given == [b \in 1 .. n |-> BranchItem(i, b)]
           rest == Reverse(given)
<1>1. n \in Nat /\ i \in Nat
  <2>1. nodes[i].branches \in Seq(BranchesAfter(nodes[i].at)) BY NodeFacts DEF WalkInv
  <2>2. Len(nodes) \in Nat BY DEF WalkInv, ParseInv
  <2>3. QED BY <2>1, <2>2
<1> HIDE DEF n
<1>2. \A b \in 1 .. n : BranchItem(i, b) = [node |-> i, branch |-> b] BY DEF BranchItem
<1>3. given \in Seq(R) /\ Len(given) = n
  <2>1. \A b \in 1 .. n : BranchItem(i, b) \in R BY <1>1, <1>2
  <2> HIDE DEF R
  <2>2. QED BY <1>1, <2>1
<1>4. rest = [j \in 1 .. n |-> BranchItem(i, n - j + 1)]
  <2>1. rest = [j \in 1 .. n |-> given[n - j + 1]]
    <3>1. rest = [j \in 1 .. Len(given) |-> given[(Len(given) - j) + 1]] BY Zenon DEF Reverse
    <3> HIDE DEF rest, given
    <3>2. QED BY <1>3, <3>1, Zenon
  <2>2. \A j \in 1 .. n : given[n - j + 1] = BranchItem(i, n - j + 1) BY <1>1
  <2> HIDE DEF given, rest
  <2>3. QED BY <2>1, <2>2
<1>5. rest \in Seq(R) /\ Len(rest) = n /\ \A j \in 1 .. n : rest[j] = [node |-> i, branch |-> n - j + 1]
  <2>1. \A j \in 1 .. n : /\ BranchItem(i, n - j + 1) = [node |-> i, branch |-> n - j + 1]
                          /\ BranchItem(i, n - j + 1) \in R
    BY <1>1, <1>2
  <2> DEFINE B(j) == BranchItem(i, n - j + 1)
  <2>2. rest = [j \in 1 .. n |-> B(j)] /\ \A j \in 1 .. n : B(j) \in R BY <1>4, <2>1
  <2> HIDE DEF R, rest, B
  <2>3. rest \in [1 .. n -> R] BY <2>2
  <2>4. rest \in Seq(R) /\ Len(rest) = n BY <1>1, <2>3
  <2>5. \A j \in 1 .. n : rest[j] = BranchItem(i, n - j + 1) BY <2>2 DEF B
  <2>6. QED BY <2>1, <2>4, <2>5
<1>6. Items(i) = <<NodeItem(i)>> \o rest BY DEF Items, n
<1>7. NodeItem(i) \in R /\ NodeItem(i).node = i /\ NodeItem(i).branch = 0 BY <1>1 DEF NodeItem
<1> HIDE DEF rest, given
<1>8. /\ Items(i) \in Seq(R) /\ Len(Items(i)) = n + 1 /\ Items(i)[1] = NodeItem(i)
      /\ \A j \in 2 .. (n + 1) : Items(i)[j] = rest[j - 1]
  <2> HIDE DEF R
  <2>1. QED BY <1>1, <1>5, <1>6, <1>7
<1>9. Item(Items(i)[1]) /\ Items(i)[1].node = i /\ ~ IsBranch(Items(i)[1])
  <2>1. Items(i)[1].node = i /\ Items(i)[1].branch = 0 BY <1>7, <1>8
  <2>2. Items(i)[1].branch \in 0 .. n BY <1>1, <2>1
  <2>3. QED BY <2>1, <2>2 DEF Item, IsBranch, n
<1>10. ASSUME NEW j \in 2 .. (n + 1)
       PROVE  Item(Items(i)[j]) /\ Items(i)[j].node = i /\ IsBranch(Items(i)[j])
  <2>1. j - 1 \in 1 .. n /\ Items(i)[j] = rest[j - 1] BY <1>1, <1>8
  <2>2. Items(i)[j] = [node |-> i, branch |-> n - (j - 1) + 1] BY <1>5, <2>1
  <2>3. n - (j - 1) + 1 \in 1 .. n BY <1>1, <2>1
  <2>4. Items(i)[j].node = i /\ Items(i)[j].branch \in 1 .. n BY <2>2, <2>3
  <2>5. Items(i)[j].branch \in 0 .. n /\ Items(i)[j].branch # 0 BY <1>1, <2>4
  <2>6. QED BY <2>4, <2>5 DEF Item, IsBranch, n
<1>11. \A j \in 1 .. (n + 1) : Item(Items(i)[j]) /\ Items(i)[j].node = i
  <2>1. \A j \in 1 .. (n + 1) : j = 1 \/ j \in 2 .. (n + 1) BY <1>1
  <2>2. QED BY <1>9, <1>10, <2>1
<1>12. Len(Items(i)) \in Nat \ {0} BY <1>1, <1>8
<1>13. QED BY <1>8, <1>9, <1>10, <1>11, <1>12

\* What the items say of the state: of the last one, and of the queue without it.
LEMMA LastItem ==
  ASSUME WalkInv, queue # <<>>, NEW depth, Stacked(queue, path, depth)
  PROVE  /\ Len(queue) \in Nat \ {0} /\ Len(path) \in Nat \ {0} /\ Len(nodes) \in Nat
         /\ Current = queue[Len(queue)] /\ Item(Current)
         /\ Last(path) = path[Len(path)] /\ Current.node = Last(path)
         /\ Front(queue) \in Seq([node : Nat, branch : Nat]) /\ Len(Front(queue)) = Len(queue) - 1
         /\ \A j \in 1 .. (Len(queue) - 1) : Front(queue)[j] = queue[j]
<1> DEFINE R == [node : Nat, branch : Nat]
<1>1. queue \in Seq(R) /\ path \in Seq(1 .. Len(nodes)) /\ Len(nodes) \in Nat
  BY DEF WalkInv, ParseInv
<1> HIDE DEF R
<1>2. Len(queue) \in Nat \ {0} BY <1>1
<1>3. Len(path) \in Nat BY <1>1
<1>4. Len(queue) \in 1 .. Len(queue) /\ depth[Len(queue)] = Len(path) BY <1>2 DEF Stacked
<1>5. Len(path) \in 1 .. Len(path) BY <1>4 DEF Stacked
<1>6. Current = queue[Len(queue)] /\ Last(path) = path[Len(path)] BY DEF Current, Last
<1>7. Item(Current) BY <1>4, <1>6 DEF WalkInv
<1>8. Current.node = path[Len(path)] BY <1>4, <1>6 DEF Stacked
<1>9. /\ Front(queue) \in Seq(R) /\ Len(Front(queue)) = Len(queue) - 1
      /\ \A j \in 1 .. (Len(queue) - 1) : Front(queue)[j] = queue[j]
  <2>1. queue # <<>> OBVIOUS
  <2>2. QED BY <1>1, <2>1, FrontOf
<1>10. QED BY <1>1, <1>2, <1>3, <1>5, <1>6, <1>7, <1>8, <1>9 DEF R

\* A branch names the place at which the node it leads to begins.
LEMMA TargetLeads ==
  ASSUME WalkInv, NEW i \in 1 .. Len(nodes), NEW b \in 1 .. Len(nodes[i].branches),
         Target(nodes[i].branches[b]) # 0
  PROVE  /\ Target(nodes[i].branches[b]) \in 1 .. Len(nodes)
         /\ b \in Leads(i, Target(nodes[i].branches[b]))
<1> DEFINE branch == nodes[i].branches[b]
           t == Target(branch)
           address == mk_vm_address_apply_offset(TrieAddress, branch.offset)
<1>1. branch.offset \in Word
  <2> DEFINE B == BranchesAfter(nodes[i].at)
  <2>1. nodes[i].branches \in Seq(B) BY NodeFacts DEF WalkInv
  <2>2. branch \in B
    <3> HIDE DEF B
    <3>1. QED BY <2>1
  <2> HIDE DEF branch
  <2>3. QED BY <2>2 DEF BranchesAfter
<1>2. Succeeded(address) /\ t = NodeAt(address.value) BY DEF Target
<1>3. t \in DOMAIN nodes /\ NodeAddress(t) = address.value BY <1>2 DEF NodeAt
<1>4. address.value = TrieAddress + branch.offset
  <2> HIDE DEF branch
  <2>1. address = Adds(TrieAddress, branch.offset) BY DEF mk_vm_address_apply_offset
  <2>2. Fails("EOVERFLOW").err # "ESUCCESS" BY DEF Fails
  <2>3. address = Ok(TrieAddress + branch.offset)
    BY <1>2, <2>1, <2>2, Zenon DEF Adds, Succeeded
  <2>4. QED BY <2>3 DEF Ok
<1>5. t \in 1 .. Len(nodes)
  <2>1. DOMAIN nodes = 1 .. Len(nodes)
    <3> DEFINE S == {nodes[k] : k \in 1 .. Len(nodes)}
    <3>1. nodes \in Seq(S) BY DEF WalkInv, ParseInv
    <3> HIDE DEF S
    <3>2. QED BY <3>1
  <2>2. QED BY <1>3, <2>1, Zenon
<1>6. nodes[t].at \in Nat BY <1>5, NodeFacts DEF WalkInv
<1>7. TrieAddress \in Nat /\ branch.offset \in Nat
  <2>1. TrieAddress \in Nat BY TrieFacts DEF WalkInv, ParseInv
  <2> HIDE DEF branch
  <2>2. QED BY <1>1, <2>1, WordAssumption DEF Word
<1>8. TrieAddress + nodes[t].at = TrieAddress + branch.offset BY <1>3, <1>4 DEF NodeAddress
<1> HIDE DEF t
<1>9. branch.offset = nodes[t].at BY <1>6, <1>7, <1>8, SMTT(40)
<1>10. QED BY <1>5, <1>9 DEF Leads, t

\* The last item of a path's last node is a branch: it can be dropped.
LEMMA DropBranch ==
  ASSUME WalkInv, queue # <<>>, IsBranch(Current), NEW depth, Stacked(queue, path, depth)
  PROVE  LET less == [j \in 1 .. (Len(queue) - 1) |-> depth[j]]
         IN  /\ Len(queue) - 1 \in Nat \ {0}
             /\ less \in [1 .. (Len(queue) - 1) -> 1 .. Len(path)]
             /\ \A j \in 1 .. (Len(queue) - 1) : depth[j] \in 1 .. Len(path) /\ queue[j].node = path[depth[j]]
             /\ depth[Len(queue) - 1] = Len(path) /\ depth[1] = 1 /\ ~ IsBranch(queue[1])
<1>1. Len(queue) \in Nat \ {0} /\ Current = queue[Len(queue)] BY LastItem
<1>2. ~ IsBranch(queue[1]) /\ depth[1] = 1
  <2>1. Len(queue) > 0 BY <1>1
  <2>2. QED BY <2>1 DEF Stacked
<1>3. Len(queue) # 1
  <2>1. IsBranch(queue[Len(queue)]) BY <1>1
  <2>2. QED BY <1>2, <2>1
<1>4. Len(queue) - 1 \in 1 .. (Len(queue) - 1) /\ (Len(queue) - 1) + 1 = Len(queue) BY <1>1, <1>3
<1>5. depth[(Len(queue) - 1) + 1] = depth[Len(queue) - 1] BY <1>1, <1>4 DEF Stacked
<1>6. depth[Len(queue) - 1] = Len(path)
  <2>1. Len(queue) > 0 BY <1>1
  <2>2. depth[Len(queue)] = Len(path) BY <2>1 DEF Stacked
  <2>3. QED BY <1>4, <1>5, <2>2
<1>7. \A j \in 1 .. (Len(queue) - 1) : depth[j] \in 1 .. Len(path) /\ queue[j].node = path[depth[j]]
  <2>1. \A j \in 1 .. (Len(queue) - 1) : j \in 1 .. Len(queue) BY <1>1
  <2>2. QED BY <2>1 DEF Stacked
<1>8. QED BY <1>2, <1>4, <1>6, <1>7

LEMMA FollowStep ==
  ASSUME WalkInv, FollowBranch, ParseInv'
  PROVE  WalkInv'
<1> DEFINE target == Target(nodes[Current.node].branches[Current.branch])
           R == [node : Nat, branch : Nat]
           L == Len(queue)
           m == Len(path)
<1>1. /\ queue # <<>> /\ IsBranch(Current) /\ phase = "walk" /\ phase' = phase /\ nodes' = nodes
      /\ trapped' = trapped
  BY DEF FollowBranch, Walking
<1>2. PICK depth : Stacked(queue, path, depth) BY DEF WalkInv
<1>3. /\ L \in Nat \ {0} /\ m \in Nat \ {0} /\ Len(nodes) \in Nat
      /\ Current = queue[L] /\ Item(Current) /\ Last(path) = path[m] /\ Current.node = Last(path)
      /\ Front(queue) \in Seq(R) /\ Len(Front(queue)) = L - 1
      /\ \A j \in 1 .. (L - 1) : Front(queue)[j] = queue[j]
  BY <1>1, <1>2, LastItem
<1>4. /\ L - 1 \in Nat \ {0}
      /\ \A j \in 1 .. (L - 1) : depth[j] \in 1 .. m /\ queue[j].node = path[depth[j]]
      /\ depth[L - 1] = m /\ depth[1] = 1 /\ ~ IsBranch(queue[1])
  BY <1>1, <1>2, DropBranch
<1>5. /\ \A j, k \in 1 .. L : j <= k => depth[j] <= depth[k]
      /\ \A j \in 1 .. (L - 1) : depth[j + 1] = IF IsBranch(queue[j + 1]) THEN depth[j] ELSE depth[j] + 1
  BY <1>2 DEF Stacked
<1>6. /\ path \in Seq(1 .. Len(nodes)) /\ PathIsLinked
      /\ \A j \in 1 .. L : Item(queue[j])
  BY DEF WalkInv
<1>7. \A item : Item(item)' <=> Item(item) BY <1>1 DEF Item
<1> HIDE DEF R, L, m
<1>8. CASE target = 0
  <2>1. queue' = Front(queue) /\ path' = path BY <1>8 DEF FollowBranch, CannotFollow
  <2> DEFINE less == [j \in 1 .. (L - 1) |-> depth[j]]
  <2>2. less \in [1 .. (L - 1) -> 1 .. m] /\ \A j \in 1 .. (L - 1) : less[j] = depth[j]
    BY <1>4
  <2> HIDE DEF less
  <2>3. /\ Len(queue') = L - 1 /\ Len(path') = m /\ \A j \in 1 .. (L - 1) : queue'[j] = queue[j]
    BY <1>3, <2>1 DEF m
  <2>4. Stacked(queue', path', less)
    <3>1. \A j \in 1 .. (L - 1) : queue'[j].node = path'[less[j]] BY <1>4, <2>1, <2>2, <2>3
    <3>2. \A j, k \in 1 .. (L - 1) : j <= k => less[j] <= less[k]
      <4>1. \A j \in 1 .. (L - 1) : j \in 1 .. L BY <1>3
      <4>2. QED BY <1>5, <2>2, <4>1, Zenon
    <3>3. ASSUME NEW j \in 1 .. (L - 1 - 1)
          PROVE  less[j + 1] = IF IsBranch(queue'[j + 1]) THEN less[j] ELSE less[j] + 1
      <4>1. j \in 1 .. (L - 1) /\ j + 1 \in 1 .. (L - 1) BY <1>3
      <4>2. QED BY <1>5, <2>2, <2>3, <4>1
    <3>4. 1 \in 1 .. (L - 1) /\ L - 1 \in 1 .. (L - 1) BY <1>3, <1>4
    <3>5. ~ IsBranch(queue'[1]) /\ less[1] = 1 /\ less[L - 1] = m BY <1>4, <2>2, <2>3, <3>4
    <3>6. QED BY <1>3, <1>4, <2>2, <2>3, <3>1, <3>2, <3>3, <3>5, StackedIs
  <2>5. \A j \in 1 .. Len(queue') : Item(queue'[j])
    <3>1. \A j \in 1 .. (L - 1) : j \in 1 .. L BY <1>3
    <3>2. QED BY <1>6, <2>3, <3>1, Zenon
  <2>6. PathIsLinked' BY <1>1, <1>6, <2>1 DEF PathIsLinked, Leads
  <2>7. (\A j \in 1 .. Len(queue) : Item(queue[j]))' BY <1>1, <2>5 DEF Item
  <2>8. queue' \in Seq(R) /\ path' \in Seq(1 .. Len(nodes')) BY <1>1, <1>3, <1>6, <2>1
  <2>9. QED BY <1>1, <2>4, <2>6, <2>7, <2>8 DEF WalkInv, R
<1>9. CASE target # 0
  <2> DEFINE items == Items(target)
             more == [j \in 1 .. (L - 1 + Len(items)) |-> IF j <= L - 1 THEN depth[j] ELSE m + 1]
  <2>1. path' = Append(path, target) /\ queue' = Front(queue) \o items
    BY <1>9 DEF FollowBranch
  <2>2. Current.node \in 1 .. Len(nodes) /\ Current.branch \in 1 .. Len(nodes[Current.node].branches)
    BY <1>1, <1>3 DEF Item, IsBranch
  <2>3. target \in 1 .. Len(nodes) /\ Current.branch \in Leads(Current.node, target)
    BY <1>9, <2>2, TargetLeads
  <2> HIDE DEF target
  <2>4. /\ items \in Seq(R) /\ Len(items) \in Nat \ {0}
        /\ \A j \in 1 .. Len(items) : Item(items[j]) /\ items[j].node = target
        /\ ~ IsBranch(items[1]) /\ \A j \in 2 .. Len(items) : IsBranch(items[j])
    BY <2>3, ItemsOf DEF R
  <2> DEFINE n == Len(items)
  <2> HIDE DEF items
  <2>5. /\ queue' \in Seq(R) /\ Len(queue') = L - 1 + n
        /\ \A j \in 1 .. (L - 1) : queue'[j] = queue[j]
        /\ \A j \in L .. (L - 1 + n) : queue'[j] = items[j - (L - 1)]
    <3>1. Front(queue) \in Seq(R) /\ items \in Seq(R) /\ Len(Front(queue)) = L - 1 BY <1>3, <2>4
    <3>2. /\ queue' \in Seq(R) /\ Len(queue') = L - 1 + n
          /\ \A j \in 1 .. (L - 1 + n) :
               queue'[j] = IF j <= L - 1 THEN Front(queue)[j] ELSE items[j - (L - 1)]
      <4> DEFINE front == Front(queue)
      <4> HIDE DEF front, items
      <4>1. front \in Seq(R) /\ items \in Seq(R) /\ Len(front) = L - 1 BY <3>1 DEF front
      <4>2. /\ front \o items \in Seq(R) /\ Len(front \o items) = Len(front) + Len(items)
            /\ \A j \in 1 .. (Len(front) + Len(items)) :
                 (front \o items)[j] = IF j <= Len(front) THEN front[j] ELSE items[j - Len(front)]
        BY <4>1, ConcatProperties
      <4>3. queue' = front \o items BY <2>1 DEF front
      <4> HIDE DEF n
      <4>4. Len(items) = n BY DEF n
      <4>5. QED BY <4>1, <4>2, <4>3, <4>4 DEF front
    <3>3. \A j \in 1 .. (L - 1) : j \in 1 .. (L - 1 + n) /\ j <= L - 1 BY <1>3, <2>4
    <3>4. \A j \in L .. (L - 1 + n) : j \in 1 .. (L - 1 + n) /\ ~ (j <= L - 1)
      BY <1>3, <2>4
    <3> HIDE DEF n
    <3>5. QED BY <1>3, <3>2, <3>3, <3>4, Zenon
  <2>6. /\ path' \in Seq(1 .. Len(nodes)) /\ Len(path') = m + 1 /\ path'[m + 1] = target
        /\ \A k \in 1 .. m : path'[k] = path[k]
    BY <1>6, <2>1, <2>3, AppendProperties DEF m
  <2>7. n \in Nat \ {0} BY <2>4
  <2> HIDE DEF n
  <2>8. /\ more \in [1 .. (L - 1 + n) -> 1 .. (m + 1)]
        /\ \A j \in 1 .. (L - 1) : more[j] = depth[j]
        /\ \A j \in L .. (L - 1 + n) : more[j] = m + 1
    BY <1>3, <1>4, <2>7 DEF n
  <2> HIDE DEF more
  <2>9. Stacked(queue', path', more)
    <3> DEFINE a == L - 1 + n
               b == m + 1
    <3>1. ASSUME NEW j \in 1 .. (L - 1 + n) PROVE queue'[j].node = path'[more[j]]
      <4>1. CASE j \in 1 .. (L - 1)
        <5>1. depth[j] \in 1 .. m /\ queue[j].node = path[depth[j]] BY <1>4, <4>1
        <5>2. QED BY <2>5, <2>6, <2>8, <4>1, <5>1
      <4>2. CASE j \in L .. (L - 1 + n)
        <5>1. j - (L - 1) \in 1 .. n BY <1>3, <2>7, <4>2
        <5>2. items[j - (L - 1)].node = target BY <2>4, <5>1 DEF n
        <5>3. QED BY <2>5, <2>6, <2>8, <4>2, <5>2
      <4>3. QED BY <1>3, <2>7, <4>1, <4>2
    <3>2. ASSUME NEW j \in 1 .. (L - 1 + n), NEW k \in 1 .. (L - 1 + n), j <= k
          PROVE  more[j] <= more[k]
      <4>1. CASE k \in 1 .. (L - 1)
        <5>1. j \in 1 .. (L - 1) /\ j \in 1 .. L /\ k \in 1 .. L BY <1>3, <3>2, <4>1
        <5>2. QED BY <1>5, <2>8, <3>2, <4>1, <5>1
      <4>2. CASE k \in L .. (L - 1 + n)
        <5>1. more[k] = m + 1 /\ more[j] \in 1 .. (m + 1) BY <2>8, <4>2
        <5>2. QED BY <1>3, <5>1
      <4>3. QED BY <1>3, <2>7, <4>1, <4>2
    <3>3. ASSUME NEW j \in 1 .. (a - 1)
          PROVE  more[j + 1] = IF IsBranch(queue'[j + 1]) THEN more[j] ELSE more[j] + 1
      <4>1. CASE j + 1 \in 1 .. (L - 1)
        <5>1. j \in 1 .. (L - 1) BY <1>3, <4>1
        <5>2. QED BY <1>5, <2>5, <2>8, <4>1, <5>1
      <4>2. CASE j + 1 = L
        <5>1. j = L - 1 /\ j \in 1 .. (L - 1) /\ j + 1 \in L .. (L - 1 + n) BY <1>3, <1>4, <2>7, <4>2
        <5>2. more[j] = m /\ more[j + 1] = m + 1 BY <1>4, <2>8, <5>1
        <5>3. queue'[j + 1] = items[1]
          <6>1. (j + 1) - (L - 1) = 1 BY <1>3, <5>1
          <6>2. QED BY <2>5, <5>1, <6>1
        <5>4. QED BY <2>4, <5>2, <5>3
      <4>3. CASE j \in L .. (L - 1 + n)
        <5>1. j + 1 \in L .. (L - 1 + n) /\ (j + 1) - (L - 1) \in 2 .. n BY <1>3, <2>7, <4>3
        <5>2. IsBranch(queue'[j + 1]) BY <2>4, <2>5, <5>1 DEF n
        <5>3. QED BY <2>8, <4>3, <5>1, <5>2
      <4>4. QED BY <1>3, <2>7, <4>1, <4>2, <4>3
    <3>4. 1 \in 1 .. (L - 1) /\ L - 1 + n \in L .. (L - 1 + n) BY <1>3, <1>4, <2>7
    <3>5. ~ IsBranch(queue'[1]) /\ more[1] = 1 /\ more[L - 1 + n] = m + 1
      BY <1>4, <2>5, <2>8, <3>4
    <3>6. L - 1 + n \in Nat \ {0} /\ m + 1 \in Nat BY <1>3, <1>4, <2>7
    <3>7. a \in Nat \ {0} /\ b \in Nat BY <3>6
    <3>8. Len(queue') = a /\ Len(path') = b BY <2>5, <2>6
    <3>9. more \in [1 .. a -> 1 .. b] BY <2>8
    <3>10. \A j \in 1 .. a : queue'[j].node = path'[more[j]] BY <3>1
    <3>11. \A j, k \in 1 .. a : j <= k => more[j] <= more[k] BY <3>2
    <3>12. ~ IsBranch(queue'[1]) /\ more[1] = 1 /\ more[a] = b BY <3>5
    <3> HIDE DEF a, b
    <3>13. QED BY <3>3, <3>7, <3>8, <3>9, <3>10, <3>11, <3>12, StackedIs
  <2>10. (\A j \in 1 .. Len(queue) : Item(queue[j]))'
    <3>1. ASSUME NEW j \in 1 .. Len(queue') PROVE Item(queue'[j])
      <4>1. CASE j \in 1 .. (L - 1) BY <1>3, <1>6, <2>5, <4>1
      <4>2. CASE j \in L .. (L - 1 + n)
        <5>1. j - (L - 1) \in 1 .. n BY <1>3, <2>7, <4>2
        <5>2. QED BY <2>4, <2>5, <4>2, <5>1 DEF n
      <4>3. QED BY <1>3, <2>5, <2>7, <4>1, <4>2
    <3>2. QED BY <1>1, <3>1 DEF Item
  <2>11. PathIsLinked'
    <3>1. ASSUME NEW k \in 1 .. (Len(path') - 1) PROVE Leads(path'[k], path'[k + 1]) # {}
      <4>1. CASE k = m
        <5>1. path'[k] = Current.node /\ path'[k + 1] = target BY <1>3, <2>6, <4>1
        <5>2. QED BY <2>3, <5>1
      <4>2. CASE k # m
        <5>1. k \in 1 .. (m - 1) /\ path'[k] = path[k] /\ path'[k + 1] = path[k + 1]
          BY <1>3, <2>6, <4>2
        <5>2. QED BY <1>6, <5>1 DEF PathIsLinked, m
      <4>3. QED BY <4>1, <4>2
    <3>2. QED BY <1>1, <3>1 DEF PathIsLinked, Leads
  <2>12. QED BY <1>1, <2>5, <2>6, <2>9, <2>10, <2>11 DEF WalkInv, R
<1>10. QED BY <1>8, <1>9

\* A node that comes up is the last of the path, which is linked: the assertions hold, and both the
\* queue and the path lose it.
LEMMA LeaveStep ==
  ASSUME WalkInv, LeaveNode, ParseInv'
  PROVE  WalkInv'
<1> DEFINE R == [node : Nat, branch : Nat]
           L == Len(queue)
           m == Len(path)
<1>1. /\ queue # <<>> /\ ~ IsBranch(Current) /\ phase = "walk" /\ phase' = phase /\ nodes' = nodes
  BY DEF LeaveNode, Walking
<1>2. PICK depth : Stacked(queue, path, depth) BY DEF WalkInv
<1>3. /\ L \in Nat \ {0} /\ m \in Nat \ {0} /\ Len(nodes) \in Nat
      /\ Current = queue[L] /\ Current.node = Last(path)
      /\ Front(queue) \in Seq(R) /\ Len(Front(queue)) = L - 1
      /\ \A j \in 1 .. (L - 1) : Front(queue)[j] = queue[j]
  BY <1>1, <1>2, LastItem
<1>4. /\ path \in Seq(1 .. Len(nodes)) /\ PathIsLinked /\ ~ trapped
      /\ \A j \in 1 .. L : Item(queue[j])
  BY DEF WalkInv
<1>5. queue' = Front(queue) /\ path' = Front(path) /\ trapped' = trapped
  BY <1>3, <1>4 DEF LeaveNode, Pop
<1>6. /\ depth \in [1 .. L -> 1 .. m]
      /\ \A j \in 1 .. L : queue[j].node = path[depth[j]]
      /\ \A j, k \in 1 .. L : j <= k => depth[j] <= depth[k]
      /\ \A j \in 1 .. (L - 1) : depth[j + 1] = IF IsBranch(queue[j + 1]) THEN depth[j] ELSE depth[j] + 1
      /\ ~ IsBranch(queue[1]) /\ depth[1] = 1 /\ depth[L] = m
  BY <1>2, <1>3 DEF Stacked
<1>7. /\ path' \in Seq(1 .. Len(nodes)) /\ Len(path') = m - 1
      /\ \A k \in 1 .. (m - 1) : path'[k] = path[k]
  <2>1. path # <<>> BY <1>3
  <2>2. QED BY <1>4, <1>5, <2>1, FrontOf
<1> HIDE DEF R, L, m
<1>8. Len(queue') = L - 1 /\ \A j \in 1 .. (L - 1) : queue'[j] = queue[j] BY <1>3, <1>5
<1>9. L # 1 => L - 1 \in 1 .. (L - 1) /\ depth[L - 1] = m - 1
  <2> SUFFICES ASSUME L # 1 PROVE L - 1 \in 1 .. (L - 1) /\ depth[L - 1] = m - 1 OBVIOUS
  <2>1. L - 1 \in 1 .. (L - 1) /\ (L - 1) + 1 = L /\ L - 1 \in 1 .. L BY <1>3
  <2>2. ~ IsBranch(queue[L]) BY <1>1, <1>3
  <2>3. depth[(L - 1) + 1] = depth[L - 1] + 1 BY <1>6, <2>1, <2>2
  <2>4. depth[L - 1] \in 1 .. m BY <1>6, <2>1
  <2>5. QED BY <1>3, <1>6, <2>1, <2>3, <2>4
<1> DEFINE less == [j \in 1 .. (L - 1) |-> depth[j]]
<1>10. less \in [1 .. (L - 1) -> 1 .. (m - 1)] /\ \A j \in 1 .. (L - 1) : less[j] = depth[j]
  <2>1. ASSUME NEW j \in 1 .. (L - 1) PROVE depth[j] \in 1 .. (m - 1)
    <3>1. L # 1 /\ j \in 1 .. L /\ L - 1 \in 1 .. L /\ j <= L - 1 BY <1>3
    <3>2. depth[j] \in 1 .. m /\ depth[j] <= depth[L - 1] BY <1>6, <3>1
    <3>3. QED BY <1>3, <1>9, <3>1, <3>2
  <2>2. QED BY <2>1
<1> HIDE DEF less
<1>11. Stacked(queue', path', less)
  <2>1. ASSUME NEW j \in 1 .. (L - 1) PROVE queue'[j].node = path'[less[j]]
    <3>1. less[j] \in 1 .. (m - 1) /\ less[j] = depth[j] /\ j \in 1 .. L BY <1>3, <1>10
    <3>2. QED BY <1>6, <1>7, <1>8, <3>1
  <2>2. \A j, k \in 1 .. (L - 1) : j <= k => less[j] <= less[k] BY <1>3, <1>6, <1>10
  <2>3. ASSUME NEW j \in 1 .. (L - 1 - 1)
        PROVE  less[j + 1] = IF IsBranch(queue'[j + 1]) THEN less[j] ELSE less[j] + 1
    <3>1. j \in 1 .. (L - 1) /\ j + 1 \in 1 .. (L - 1) BY <1>3
    <3>2. QED BY <1>6, <1>8, <1>10, <3>1
  <2>4. CASE L = 1
    <3>1. m = 1 BY <1>6, <2>4
    <3>2. Len(queue') = 0 /\ Len(path') = 0 BY <1>7, <1>8, <2>4, <3>1
    <3>3. less \in [1 .. 0 -> 1 .. 0] BY <1>10, <2>4, <3>1
    <3>4. QED BY <3>2, <3>3 DEF Stacked
  <2>5. CASE L # 1
    <3>1. 1 \in 1 .. (L - 1) /\ L - 1 \in 1 .. (L - 1) BY <1>3, <2>5
    <3>2. ~ IsBranch(queue'[1]) /\ less[1] = 1 /\ less[L - 1] = m - 1
      BY <1>6, <1>8, <1>9, <1>10, <2>5, <3>1
    <3>3. L - 1 \in Nat \ {0} /\ m - 1 \in Nat BY <1>3, <2>5
    <3>4. QED BY <1>7, <1>8, <1>10, <2>1, <2>2, <2>3, <3>2, <3>3, StackedIs
  <2>6. QED BY <2>4, <2>5
<1>12. (\A j \in 1 .. Len(queue) : Item(queue[j]))'
  <2>1. \A j \in 1 .. Len(queue') : Item(queue'[j]) BY <1>3, <1>4, <1>8
  <2>2. QED BY <1>1, <2>1 DEF Item
<1>13. PathIsLinked'
  <2>1. ASSUME NEW k \in 1 .. (Len(path') - 1) PROVE Leads(path'[k], path'[k + 1]) # {}
    <3>1. k \in 1 .. (m - 1) /\ k \in 1 .. (m - 1) /\ k + 1 \in 1 .. (m - 1) BY <1>3, <1>7
    <3>2. Leads(path[k], path[k + 1]) # {} BY <1>4, <3>1 DEF PathIsLinked, m
    <3>3. QED BY <1>7, <3>1, <3>2
  <2>2. QED BY <1>1, <2>1 DEF PathIsLinked, Leads
<1>14. QED BY <1>1, <1>3, <1>4, <1>5, <1>7, <1>11, <1>12, <1>13 DEF WalkInv, R

\* The traversal is seeded with the first node and its branches.
LEMMA SeedStep ==
  ASSUME WalkInv, EndParse, ParseInv'
  PROVE  WalkInv'
<1>1. /\ nodes' = nodes /\ trapped' = trapped /\ Len(nodes) \in Nat
      /\ queue = <<>> /\ path = <<>> /\ phase' # "parse"
  BY DEF EndParse, WalkInv, ParseInv
<1>2. CASE nodes = <<>>
  <2>1. queue' = <<>> /\ path' = <<>> BY <1>2 DEF EndParse
  <2>2. Stacked(queue', path', <<>>) BY <2>1 DEF Stacked
  <2>3. (\A j \in 1 .. Len(queue) : Item(queue[j]))' BY <2>1
  <2>4. PathIsLinked' BY <2>1 DEF PathIsLinked
  <2>5. queue' \in Seq([node : Nat, branch : Nat]) /\ path' \in Seq(1 .. Len(nodes'))
    BY <2>1, EmptySeq
  <2>6. ~ trapped' /\ phase' # "parse" BY <1>1 DEF WalkInv
  <2>7. QED BY <2>2, <2>3, <2>4, <2>5, <2>6 DEF WalkInv
<1>3. CASE nodes # <<>>
  <2> DEFINE items == Items(1)
             depth == [j \in 1 .. Len(items) |-> 1]
             R == [node : Nat, branch : Nat]
  <2>1. queue' = items /\ path' = <<1>> BY <1>3 DEF EndParse
  <2>2. 1 \in 1 .. Len(nodes)
    <3> DEFINE S == {nodes[i] : i \in 1 .. Len(nodes)}
    <3>1. nodes \in Seq(S) BY DEF WalkInv, ParseInv
    <3> HIDE DEF S
    <3>2. QED BY <1>3, <3>1
  <2>3. /\ items \in Seq(R) /\ Len(items) \in Nat \ {0}
        /\ \A j \in 1 .. Len(items) : Item(items[j]) /\ items[j].node = 1
        /\ ~ IsBranch(items[1]) /\ \A j \in 2 .. Len(items) : IsBranch(items[j])
    BY <2>2, ItemsOf
  <2>4. /\ path' \in Seq(1 .. Len(nodes)) /\ Len(path') = 1 /\ path'[1] = 1 BY <2>1, <2>2
  <2> HIDE DEF items, R
  <2>5. depth \in [1 .. Len(items) -> 1 .. 1] /\ \A j \in 1 .. Len(items) : depth[j] = 1 OBVIOUS
  <2> HIDE DEF depth
  <2>6. Stacked(queue', path', depth)
    <3>1. \A j \in 1 .. Len(items) : items[j].node = path'[depth[j]] BY <2>3, <2>4, <2>5
    <3>2. \A j, k \in 1 .. Len(items) : j <= k => depth[j] <= depth[k] BY <2>5
    <3>3. ASSUME NEW j \in 1 .. (Len(items) - 1)
          PROVE  depth[j + 1] = IF IsBranch(items[j + 1]) THEN depth[j] ELSE depth[j] + 1
      <4>1. j + 1 \in 2 .. Len(items) /\ j + 1 \in 1 .. Len(items) /\ j \in 1 .. Len(items) BY <2>3
      <4>2. QED BY <2>3, <2>5, <4>1
    <3>4. 1 \in 1 .. Len(items) /\ Len(items) \in 1 .. Len(items) BY <2>3
    <3>5. depth[1] = 1 /\ depth[Len(items)] = 1 /\ Len(items) # 0 BY <2>3, <2>5, <3>4
    <3>6. QED BY <2>1, <2>3, <2>4, <2>5, <3>1, <3>2, <3>3, <3>5, StackedIs
  <2>7. (\A j \in 1 .. Len(queue) : Item(queue[j]))' BY <1>1, <2>1, <2>3 DEF Item
  <2>8. PathIsLinked'
    <3>1. 1 .. (Len(path') - 1) = {} BY <2>4
    <3>2. QED BY <3>1 DEF PathIsLinked
  <2>9. QED BY <1>1, <2>1, <2>3, <2>4, <2>6, <2>7, <2>8 DEF WalkInv, R
<1>4. QED BY <1>2, <1>3

\* While the nodes are parsed nothing is traversed.
LEMMA WalkParseStep ==
  ASSUME WalkInv, ParseNode, ParseInv'
  PROVE  WalkInv'
<1>1. queue = <<>> /\ path = <<>> /\ UNCHANGED <<phase, queue, path, trapped>>
  BY DEF WalkInv, ParseNode
<1>2. Stacked(queue', path', <<>>)
  BY <1>1 DEF Stacked
<1>3. QED BY <1>1, <1>2 DEF WalkInv, PathIsLinked

LEMMA WalkInvariant == Spec => []WalkInv
<1>1. Init => WalkInv
  <2> SUFFICES ASSUME Init PROVE WalkInv OBVIOUS
  <2>1. queue = <<>> /\ path = <<>> /\ nodes = <<>> /\ trapped = FALSE BY DEF Init, InfoInit
  <2>2. ParseInv BY DEF Init, InfoInit, ParseInv
  <2>3. Stacked(queue, path, <<>>) BY <2>1 DEF Stacked
  <2>4. QED BY <2>1, <2>2, <2>3 DEF WalkInv, PathIsLinked
<1>2. WalkInv /\ ParseInv' /\ [Next]_vars => WalkInv'
  <2> SUFFICES ASSUME WalkInv, ParseInv', [Next]_vars PROVE WalkInv' OBVIOUS
  <2>1. CASE ParseNode BY <2>1, WalkParseStep
  <2>2. CASE EndParse BY <2>2, SeedStep
  <2>3. CASE FollowBranch BY <2>3, FollowStep
  <2>4. CASE LeaveNode BY <2>4, LeaveStep
  <2>5. CASE EndWalk \/ UNCHANGED infoVars
    <3>1. UNCHANGED <<nodes, queue, path, trapped>> BY <2>5 DEF EndWalk, infoVars
    <3>2. phase' = "parse" => phase = "parse" BY <2>5 DEF EndWalk, infoVars
    <3>3. QED BY <3>1, <3>2, ZenonT(60) DEF WalkInv, Item, PathIsLinked, Leads, Stacked
  <2>6. QED BY <2>1, <2>2, <2>3, <2>4, <2>5 DEF Next, InfoNext, vars, infoVars
<1>3. QED BY <1>1, <1>2, ParseInvariant, PTL DEF Spec

\* The traversal's assertions never fail, whatever the bytes of the trie are, tries with cycles and
\* with several branches to one node included: a node comes up when it is the last of the path, and
\* each node of the path is led to by the one before it.
THEOREM BranchesMatch == Spec => []NoBranchMismatch
<1>1. WalkInv => NoBranchMismatch BY DEF WalkInv, NoBranchMismatch
<1>2. QED BY <1>1, WalkInvariant, PTL
=============================================================================
