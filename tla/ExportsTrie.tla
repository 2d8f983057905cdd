---------------------------- MODULE ExportsTrie ----------------------------
(***************************************************************************)
(* The bytes of an exports trie, and the number format both libraries read *)
(* them in (_mach_trie.c).  A place in the trie is its offset from the     *)
(* trie's first byte.  The trie is followed by more of the __LINKEDIT      *)
(* segment: a reader that runs off its end does not run into a fault.      *)
(***************************************************************************)
EXTENDS VMArith, SequencesExt

CONSTANTS LEBBytes,       \* the most bytes a number may take: 10 for words of 64 bits
          TrieAddress,    \* where the trie is in the image's address space
          Images          \* [bytes, size]: the segment's bytes from the trie on, the trie's size

Byte == 0 .. 255

ASSUME TrieAssumption ==
  /\ LEBBytes \in Nat \ {0}
  /\ TrieAddress \in Word
  /\ Images \subseteq [bytes : Seq(Byte), size : Nat \ {0}]
  /\ \A i \in Images : i.size <= Len(i.bytes) /\ TrieAddress + Len(i.bytes) <= MaxWord

VARIABLE image

End == Len(image.bytes)
ByteAt(p) == image.bytes[p + 1]

\* What the k-th byte of the number at p makes of it, if the bytes after that one say rest.
NumberFrom(p, limit, k, rest) ==
  IF p + k >= limit THEN Fails("EOUT_OF_RANGE")
  ELSE IF k = LEBBytes THEN Fails("ESIZE")
  ELSE IF ByteAt(p + k) < 128 THEN [err |-> "ESUCCESS", value |-> ByteAt(p + k), size |-> k + 1]
  ELSE IF Succeeded(rest) THEN [rest EXCEPT !.value = (ByteAt(p + k) % 128) + 128 * @]
  ELSE rest

NumbersFrom(p, limit) ==
  LET from[k \in 0 .. LEBBytes] == NumberFrom(p, limit, k, from[k + 1]) IN from

\* The number at p, read up to limit: seven bits of each byte, the least significant ones first,
\* up to the first byte without the top bit.  The shift may not reach the width of a word; bits
\* of the result that do are lost.
_mk_mach_trie_copy_uleb128(p, limit) ==
  LET number == NumbersFrom(p, limit)[0]
  IN  IF Succeeded(number) THEN [number EXCEPT !.value = Wrap(@)] ELSE number

\* The place of the NUL that ends a string at p, or limit.
StringEnd(p, limit) == Min({q \in p .. (limit - 1) : ByteAt(q) = 0} \cup {limit})

Characters(p, end) == SubSeq(image.bytes, p + 1, end)

----------------------------------------------------------------------------
(* The flags of an export (<mach-o/loader.h>).                             *)

Kind(flags) == flags % 4                \* EXPORT_SYMBOL_FLAGS_KIND_MASK
HasFlag(flags, bit) == (flags \div bit) % 2 = 1
ReExport(flags) == HasFlag(flags, 8)
StubAndResolver(flags) == HasFlag(flags, 16)
=============================================================================
