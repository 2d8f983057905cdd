------------------------------ MODULE VMArith ------------------------------
(***************************************************************************)
(* The checked arithmetic of libMachO/Core/core.c.  Addresses, sizes and   *)
(* offsets are unsigned words 0..MaxWord; slides are signed words.  Every  *)
(* function returns an error code and, through a pointer, a result that is *)
(* only written on success.  Here a call returns a record with the error   *)
(* and, when it is "ESUCCESS", the value.                                  *)
(***************************************************************************)
EXTENDS Integers

CONSTANT MaxWord            \* MK_VM_ADDRESS_MAX = MK_VM_SIZE_MAX = MK_VM_OFF_MAX

\* Words are w bits wide: the largest one is 2^w - 1, an odd number.
ASSUME WordAssumption == MaxWord \in Nat /\ MaxWord % 2 = 1

Word == 0 .. MaxWord
MaxSlide == MaxWord \div 2  \* MK_VM_SLIDE_MAX: the largest signed word
Slide == -MaxSlide .. MaxSlide

Errors == {"ESUCCESS", "EOVERFLOW", "EUNDERFLOW", "EOUT_OF_RANGE", "EBAD_ACCESS", "EINTERNAL"}

Ok(v) == [err |-> "ESUCCESS", value |-> v]
Fails(e) == [err |-> e]
Succeeded(r) == r.err = "ESUCCESS"

\* C's unsigned addition and multiplication keep the low w bits.
Wrap(n) == n % (MaxWord + 1)

----------------------------------------------------------------------------
(* Safe arithmetic operations.                                             *)

Adds(left, right) == IF MaxWord - right < left THEN Fails("EOVERFLOW") ELSE Ok(left + right)

mk_vm_address_apply_offset(addr, offset) == Adds(addr, offset)
mk_vm_address_add(addr1, addr2) == Adds(addr1, addr2)
mk_vm_offset_add(offset, size) == Adds(offset, size)
mk_vm_size_add(left, right) == Adds(left, right)

mk_vm_address_apply_slide(addr, slide) ==
  IF slide > 0 /\ MaxSlide - slide < addr THEN Fails("EOVERFLOW")
  ELSE IF slide < 0 /\ -slide > addr THEN Fails("EUNDERFLOW")
  ELSE Ok(addr + slide)

mk_vm_address_remove_slide(addr, slide) ==
  IF slide < 0
  THEN IF MaxSlide - (-slide) < addr THEN Fails("EOVERFLOW") ELSE Ok(addr - slide)
  ELSE IF slide > addr THEN Fails("EUNDERFLOW") ELSE Ok(addr - slide)

mk_vm_address_subtract(left, right) ==
  IF right > left THEN Fails("EUNDERFLOW") ELSE Ok(left - right)

mk_vm_size_subtract_offset(left, right) == mk_vm_address_subtract(left, right)

\* The difference is signed, so neither address may have its top bit set.
mk_vm_address_difference(left, right) ==
  IF left > MaxSlide \/ right > MaxSlide THEN Fails("EUNDERFLOW") ELSE Ok(left - right)

mk_vm_address_check_length(addr, length) ==
  IF MaxWord - length < addr THEN Fails("EOVERFLOW") ELSE Ok(addr)

\* The product is computed first and divided back to find out whether it wrapped.
mk_vm_size_multiply(size, multiplier) ==
  LET temp == Wrap(size * multiplier)
  IN  IF size # 0 /\ temp \div size # multiplier THEN Fails("EOVERFLOW") ELSE Ok(temp)

mk_vm_size_add_with_multiply(base, size, multiplier) ==
  LET product == mk_vm_size_multiply(size, multiplier)
  IN  IF Succeeded(product) THEN Adds(base, product.value) ELSE product

----------------------------------------------------------------------------
(* Ranges.                                                                 *)

mk_vm_range == [location : Word, length : Word]

mk_vm_range_make(location, length) == [location |-> location, length |-> length]

RangeOverflows(range) == MaxWord - range.length < range.location

\* The end of a range that runs past the last word is clamped to it.
mk_vm_range_end(range) ==
  IF RangeOverflows(range) THEN MaxWord ELSE range.location + range.length

mk_vm_range_contains_address(range, offset, address) ==
  LET at == mk_vm_address_apply_offset(address, offset)
  IN  IF ~ Succeeded(at) THEN at
      ELSE IF RangeOverflows(range) THEN Fails("EOVERFLOW")
      ELSE IF at.value < range.location \/ at.value >= range.location + range.length
           THEN Fails("EOUT_OF_RANGE")
      ELSE Ok(at.value)

mk_vm_range_contains_range(outer, inner, partial) ==
  LET outerEnd == outer.location + outer.length
      innerEnd == inner.location + inner.length
      outside == IF partial
                 THEN \/ inner.location < outer.location /\ innerEnd < outer.location
                      \/ inner.location > outerEnd
                 ELSE inner.location < outer.location \/ innerEnd > outerEnd
  IN  IF RangeOverflows(outer) \/ RangeOverflows(inner) THEN Fails("EOVERFLOW")
      ELSE IF outside THEN Fails("EOUT_OF_RANGE")
      ELSE Ok(inner.location)
=============================================================================
