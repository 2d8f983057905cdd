----------------------------- MODULE ByteOrder -----------------------------
(***************************************************************************)
(* Words in memory.  The bytes of an image are in the order of the target, *)
(* a load gives them the order of the host, and the byte order of the      *)
(* image's data model (libMachO/Core/Data_Model/data_model.c) says whether *)
(* a loaded word is then swapped.  A byte has ByteValues values, so that a *)
(* word of eight of them fits the numbers TLC counts with.                 *)
(***************************************************************************)
EXTENDS VMArith, SequencesExt

CONSTANT ByteValues

\* 2^8, or a smaller power of two; the largest eight-byte word is the largest address.
ASSUME ByteAssumption == ByteValues \in Nat /\ ByteValues > 1 /\ MaxWord = ByteValues ^ 8 - 1
\* That follows; it is written out because the provers know nothing of powers.
ASSUME PowerAssumption ==
  /\ ByteValues ^ 0 = 1
  /\ \A width \in 0 .. 8 : ByteValues ^ width \in Nat \ {0}
  /\ \A width \in 1 .. 8 : ByteValues ^ width = ByteValues * ByteValues ^ (width - 1)

Byte == 0 .. ByteValues - 1
Cpus == {"little", "big"}

\* UINT8_MAX, UINT32_MAX and UINT64_MAX: every bit of `width' bytes.
UINT_MAX(width) == ByteValues ^ width - 1

----------------------------------------------------------------------------
\* The number written with these digits, the most significant one first.
Horner(base, digits) ==
  LET number[i \in 0 .. Len(digits)] == IF i = 0 THEN 0 ELSE base * number[i - 1] + digits[i]
  IN  number[Len(digits)]

\* The word whose bytes are given from the least significant one, and the bytes of a word.
FromBytes(bytes) == Horner(ByteValues, Reverse(bytes))
ToBytes(word, width) == [i \in 1 .. width |-> (word \div ByteValues ^ (i - 1)) % ByteValues]

\* What the processor loads from `bytes', and what it stores for `word'.
Load(cpu, bytes) == FromBytes(IF cpu = "little" THEN bytes ELSE Reverse(bytes))
Store(cpu, word, width) ==
  IF cpu = "little" THEN ToBytes(word, width) ELSE Reverse(ToBytes(word, width))

----------------------------------------------------------------------------
\* swap16, swap32, swap64 and swap_any of the two byte orders.
mk_byteorder_direct(word, width) == word
mk_byteorder_swapped(word, width) == FromBytes(Reverse(ToBytes(word, width)))

\* Both models take the image to be little-endian, whatever its magic says: the order is
\* chosen when the library is compiled, from the byte order of the host.
mk_data_model_get_byte_order(cpu, word, width) ==
  IF cpu = "big" THEN mk_byteorder_swapped(word, width) ELSE mk_byteorder_direct(word, width)

mk_data_model_ilp32 == [name |-> "ilp32_data_model", pointer_size |-> 4, pointer_alignment |-> 4]
mk_data_model_lp64 == [name |-> "lp64_data_model", pointer_size |-> 8, pointer_alignment |-> 8]
=============================================================================
