---------------------------- MODULE MemoryObject ----------------------------
(***************************************************************************)
(* A memory object (libMachO/Core/Memory/memory_object.c): a window of     *)
(* `length' bytes of a target, starting at `target_address' there, that    *)
(* can be read in this process starting at `address'.  Both words are 64   *)
(* bits wide, as in the only builds the target supports.                   *)
(***************************************************************************)
EXTENDS VMArith

mk_memory_object == [target_address : Word, address : Word, length : Word]

\* "overflow check should have been performed at creation time": the accessors add the length
\* to either address without looking.
NeverWraps(mobj) ==
  mobj.target_address + mobj.length <= MaxWord /\ mobj.address + mobj.length <= MaxWord

\* The steps verify_local_pointer and remap_address share: is [address + offset, + length)
\* within the `size' bytes at `start'?
Locate(start, size, offset, address, length) ==
  LET at == address + offset
  IN  IF MaxWord - offset < address \/ MaxWord - length < at THEN Fails("EOVERFLOW")
      ELSE IF at < start \/ Wrap(start + size) < at + length THEN Fails("EOUT_OF_RANGE")
      ELSE Ok(at)

mk_memory_object_verify_local_pointer(mobj, offset, address, length) ==
  Locate(mobj.address, mobj.length, offset, address, length)

\* From the target's address to the pointer it can be read at.
mk_memory_object_remap_address(mobj, offset, address, length) ==
  LET found == Locate(mobj.target_address, mobj.length, offset, address, length)
  IN  IF Succeeded(found)
      THEN Ok(Wrap(mobj.address + (found.value - mobj.target_address)))
      ELSE found

\* From a pointer back to the target's address.  The address and the offset change places
\* in the call to verify_local_pointer, which adds them.
mk_memory_object_unmap_address(mobj, offset, address, length) ==
  LET found == mk_memory_object_verify_local_pointer(mobj, address, offset, length)
  IN  IF Succeeded(found)
      THEN Ok(Wrap(mobj.target_address + (Wrap(address + offset) - mobj.address)))
      ELSE found
=============================================================================
