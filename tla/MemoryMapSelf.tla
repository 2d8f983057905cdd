--------------------------- MODULE MemoryMapSelf ---------------------------
(***************************************************************************)
(* The memory map of the library's own process                             *)
(* (libMachO/Core/Memory/memory_map_self.c).  Nothing is mapped: the       *)
(* object gives back the address it was asked for, and the kernel is only  *)
(* asked how far the pages from there on are there.  Freeing one does      *)
(* nothing.                                                                *)
(***************************************************************************)
EXTENDS MemoryObject, FiniteSets

CONSTANT PageSize

ASSUME PageAssumption == PageSize \in Nat /\ PageSize > 0 /\ (MaxWord + 1) % PageSize = 0

mach_vm_trunc_page(address) == address - (address % PageSize)
mach_vm_round_page(length) == mach_vm_trunc_page(Wrap(length + PageSize - 1))

\* How many pages in a row are there from `page' on, asked for one memory entry after the other.
PagesFrom(pages, page, most) ==
  CHOOSE n \in 0 .. most : /\ \A k \in 0 .. n - 1 : page + k \in pages
                           /\ n = most \/ page + n \notin pages

\* The assertion that the length is a number of pages ends the process in every build.
Trapped == Fails("trapped")

\* The two branches that cut the length leave one that is not.
__mk_memory_map_self_init_object(pages, offset, address, length, require_full) ==
  LET at == address + offset
      base == mach_vm_trunc_page(at)
      rounded == mach_vm_round_page(Wrap(length + (at - base)))
      overflows == rounded < length \/ MaxWord - rounded < base
      total == IF rounded < length THEN MaxWord
               ELSE IF overflows THEN MaxWord - base ELSE rounded
      wanted == total \div PageSize
      most == IF wanted > Cardinality(pages) THEN Cardinality(pages) + 1 ELSE wanted
      mapped == PagesFrom(pages, base \div PageSize, most)
  IN  IF MaxWord - offset < address \/ (overflows /\ require_full) THEN Fails("EOVERFLOW")
      ELSE IF total % PageSize # 0 THEN Trapped
      ELSE IF mapped = 0 \/ (require_full /\ mapped < wanted) THEN Fails("EBAD_ACCESS")
      ELSE Ok([target_address |-> at, address |-> at,
               length |-> mapped * PageSize - (at - base)])
=============================================================================
