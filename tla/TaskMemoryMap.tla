---------------------------- MODULE TaskMemoryMap ----------------------------
(***************************************************************************)
(* Mapping another task's memory into this process, one kernel call at a   *)
(* time: remapBytes... of MachOKit's _MKTaskMemoryMap.m and its twin       *)
(* __mk_memory_map_task_init_object of libMachO's memory_map_task.c, which *)
(* differ only in how the result is described and released.  Several       *)
(* threads of a program map through the same map while the target goes on  *)
(* running and changes what it has mapped, and kernel calls may fail.  A   *)
(* program maps with one of the two libraries: MachOKit makes no map of    *)
(* libMachO's.                                                             *)
(*                                                                         *)
(* Byte addresses are words.  Whole pages are counted in pages: past the   *)
(* page alignment assertion every length of the algorithm is a number of   *)
(* pages.  The kernel's calls are modelled from their use here.            *)
(***************************************************************************)
EXTENDS MemoryObject, FiniteSets

CONSTANTS PageSize,         \* vm_page_size
          HeapPages,        \* the pages of this process vm_allocate may hand out
          Clients,          \* the threads that map the target's memory
          LibClients,       \* those of a program that maps with libMachO: a bound
          Nobody, Blank,    \* the owner of a free page, the contents of an unmapped one
          Requests,         \* [offset, address, length, requireFull]
          InitialTargets,   \* the sets of pages the target may start out with
          KernelFaults,     \* may kernel calls fail for reasons of their own?
          MaxChanges,       \* bound on the changes the target makes to its own memory
          StaleSizes        \* the page counts reserved2 may happen to hold: nothing sets it

Pages == (MaxWord + 1) \div PageSize
Page == 0 .. (Pages - 1)

ASSUME MapAssumption ==
  /\ LibClients \subseteq Clients
  /\ PageSize \in Nat \ {0} /\ (MaxWord + 1) % PageSize = 0 /\ 2 * PageSize <= MaxWord
  /\ HeapPages \subseteq Page \ {0}
  /\ Nobody \notin Clients
  /\ Blank \notin Page
  /\ Requests \subseteq [offset : Word, address : Word, length : Word, requireFull : BOOLEAN]
  /\ InitialTargets \subseteq SUBSET Page
  /\ KernelFaults \in BOOLEAN
  /\ MaxChanges \in Nat
  /\ StaleSizes \subseteq Nat /\ 0 \in StaleSizes

VARIABLES library,      \* the one the program maps with: "MachOKit" or "libMachO"
          target,       \* is this page of the target mapped and readable?
          changes,      \* how often the target has changed that
          local,        \* this process's heap pages: who reserved each, which page it shows
          call,         \* the call each thread is in
          trapped       \* an assertion has failed

vars == <<library, target, changes, local, call, trapped>>

FreePage == [owner |-> Nobody, shows |-> Blank]

NoRequest == [offset |-> 0, address |-> 0, length |-> 0, requireFull |-> FALSE]

\* Between calls.  `err' is what the last call returned.
Returned(err) ==
  [pc |-> "idle", req |-> NoRequest, total |-> 0, verified |-> 0, mapped |-> 0,
   mapping |-> 0, entry |-> 0, rights |-> 0, err |-> err]

PCs == {"idle", "verify", "reserve", "map", "mapentry", "object"}

Count == 0 .. Pages

Kit == library = "MachOKit"

Threads == IF Kit THEN Clients ELSE LibClients

TypeOK ==
  /\ library \in {"MachOKit", "libMachO"}
  /\ target \in [Page -> BOOLEAN]
  /\ changes \in 0 .. MaxChanges
  /\ local \in [HeapPages -> [owner : Clients \cup {Nobody}, shows : Page \cup {Blank}]]
  /\ call \in [Clients -> [pc : PCs, req : Requests \cup {NoRequest}, total : Count,
                           verified : Count, mapped : Count, mapping : HeapPages \cup {0},
                           entry : Count, rights : 0 .. 1, err : Errors]]
  /\ trapped \in BOOLEAN

Init ==
  /\ library \in {"MachOKit", "libMachO"}
  /\ \E start \in InitialTargets : target = [p \in Page |-> p \in start]
  /\ changes = 0
  /\ local = [p \in HeapPages |-> FreePage]
  /\ call = [c \in Clients |-> Returned("ESUCCESS")]
  /\ trapped = FALSE

----------------------------------------------------------------------------
(* The arithmetic in front of the first kernel call.                       *)

ContextAddress(r) == r.address + r.offset
BasePage(r) == ContextAddress(r) \div PageSize              \* mach_vm_trunc_page
AddressOffset(r) == ContextAddress(r) % PageSize

\* mach_vm_round_page, in pages.  Both the addition and the rounding wrap.
RoundPage(n) == Wrap(Wrap(n) + PageSize - 1) \div PageSize

\* "Derive a new length accounting for the added difference between the contextAddress and the
\* baseContextAddress, rounded to the page size."
TotalPages(r) == RoundPage(r.length + AddressOffset(r))

LengthOverflows(r) == TotalPages(r) * PageSize < r.length
EndOverflows(r) ==
  ~ LengthOverflows(r) /\ MaxWord - TotalPages(r) * PageSize < BasePage(r) * PageSize

\* The length a call that accepts a short mapping falls back to, in bytes.
ShortLength(r) ==
  IF LengthOverflows(r) THEN MaxWord ELSE MaxWord - BasePage(r) * PageSize

TotalLength(r) ==
  IF LengthOverflows(r) \/ EndOverflows(r) THEN ShortLength(r) ELSE TotalPages(r) * PageSize

\* The code the two libraries refuse a range with that runs past the address space.
RefusalCode == IF Kit THEN "EBAD_ACCESS" ELSE "EOVERFLOW"

AddressRefused(r) == ~ Succeeded(mk_vm_address_apply_offset(r.address, r.offset))
RangeRefused(r) ==
  ~ AddressRefused(r) /\ (LengthOverflows(r) \/ EndOverflows(r)) /\ r.requireFull
Misaligned(r) ==
  ~ AddressRefused(r) /\ ~ RangeRefused(r) /\ TotalLength(r) % PageSize # 0

----------------------------------------------------------------------------
(* The kernel.                                                             *)

\* mach_make_memory_entry_64 of `wanted' pages from page `first' of the target covers the first
\* of them, and as many of the following ones as lie in the same region: any number.
EntrySizes(first, wanted) ==
  {n \in 1 .. wanted : \A p \in first .. (first + n - 1) : p \in Page /\ target[p]}

EntryMayFail(first, wanted) == KernelFaults \/ EntrySizes(first, wanted) = {}

Run(first, n) == first .. (first + n - 1)

\* vm_allocate(VM_FLAGS_ANYWHERE): where a run of n free pages starts.  A run of no pages is
\* granted at address 0.
FreeRuns(n) ==
  IF n = 0 THEN {0}
  ELSE {p \in HeapPages : \A q \in Run(p, n) : q \in HeapPages /\ local[q] = FreePage}

Allocate(c, first, n) ==
  [p \in HeapPages |-> IF p \in Run(first, n) THEN [owner |-> c, shows |-> Blank] ELSE local[p]]

\* vm_map(VM_FLAGS_FIXED|VM_FLAGS_OVERWRITE): whatever was there is replaced.
Overwrite(c, first, n, page) ==
  [p \in HeapPages |->
     IF p \in Run(first, n) THEN [owner |-> c, shows |-> page + (p - first)] ELSE local[p]]

Deallocate(first, n) ==
  [p \in HeapPages |-> IF p \in Run(first, n) THEN FreePage ELSE local[p]]

----------------------------------------------------------------------------
(* One call.                                                               *)

Step(c, from, to) == ~ trapped /\ call[c].pc = from /\ call' = [call EXCEPT ![c] = to]

\* The call up to its first kernel call: refuse, trip over the assertion, or go on.
Begin(c, r) ==
  /\ ~ trapped /\ call[c].pc = "idle"
  /\ IF Misaligned(r)
     THEN trapped' = TRUE /\ UNCHANGED call
     ELSE /\ UNCHANGED trapped
          /\ call' = [call EXCEPT ![c] =
               IF AddressRefused(r) THEN Returned("EOVERFLOW")
               ELSE IF RangeRefused(r) THEN Returned(RefusalCode)
               ELSE [Returned("ESUCCESS") EXCEPT
                       !.pc = IF r.requireFull THEN "reserve" ELSE "verify",
                       !.req = r,
                       !.total = TotalLength(r) \div PageSize]]
  /\ UNCHANGED <<library, target, changes, local>>

\* One turn of the loop that measures how much can be mapped.  The send right to the entry is
\* dropped in the same turn.
VerifyEntry(c) ==
  LET k == call[c]
      first == BasePage(k.req) + k.verified
  IN  /\ k.verified * PageSize < k.req.length
      /\ \E n \in EntrySizes(first, k.total - k.verified) :
           Step(c, "verify", [k EXCEPT !.verified = k.verified + n])
      /\ UNCHANGED <<library, target, changes, local, trapped>>

\* The loop ends at the requested length or at the first page that cannot be mapped.
VerifyDone(c) ==
  LET k == call[c]
      first == BasePage(k.req) + k.verified
  IN  /\ k.verified * PageSize >= k.req.length \/ EntryMayFail(first, k.total - k.verified)
      /\ Step(c, "verify",
              IF k.verified = 0 THEN Returned("EBAD_ACCESS")
              ELSE [k EXCEPT !.pc = "reserve",
                             !.total = IF k.verified < k.total THEN k.verified ELSE k.total])
      /\ UNCHANGED <<library, target, changes, local, trapped>>

\* "Reserve enough pages to contain the mapping."
Reserve(c) ==
  LET k == call[c]
  IN  /\ \E first \in FreeRuns(k.total) :
           /\ Step(c, "reserve", [k EXCEPT !.pc = "map", !.mapping = first])
           /\ local' = Allocate(c, first, k.total)
      /\ UNCHANGED <<library, target, changes, trapped>>

ReserveFails(c) ==
  /\ KernelFaults \/ FreeRuns(call[c].total) = {}
  /\ Step(c, "reserve", Returned("EINTERNAL"))
  /\ UNCHANGED <<library, target, changes, local, trapped>>

\* Mutant of MakeEntry: every entry is asked for the whole length, not for what is left of it.
MakeEntryWhole(c) ==
  LET k == call[c]
  IN  /\ k.mapped < k.total
      /\ \E n \in EntrySizes(BasePage(k.req) + k.mapped, k.total) :
           Step(c, "map", [k EXCEPT !.pc = "mapentry", !.entry = n, !.rights = 1])
      /\ UNCHANGED <<library, target, changes, local, trapped>>

\* "Create a reference to the target pages.  The returned entry may be smaller than the
\* entryLength."
MakeEntry(c) ==
  LET k == call[c]
  IN  /\ k.mapped < k.total
      /\ \E n \in EntrySizes(BasePage(k.req) + k.mapped, k.total - k.mapped) :
           Step(c, "map", [k EXCEPT !.pc = "mapentry", !.entry = n, !.rights = 1])
      /\ UNCHANGED <<library, target, changes, local, trapped>>

\* Mutant of MakeEntryFails: the loop is left as in the self map, and what is mapped is handed out.
MakeEntryFailsShort(c) ==
  LET k == call[c]
  IN  /\ k.mapped < k.total
      /\ EntryMayFail(BasePage(k.req) + k.mapped, k.total - k.mapped)
      /\ Step(c, "map", [k EXCEPT !.pc = "object"])
      /\ UNCHANGED <<library, target, changes, local, trapped>>

\* A page that was readable a moment ago is gone: "Cleanup the reserved pages".
MakeEntryFails(c) ==
  LET k == call[c]
  IN  /\ k.mapped < k.total
      /\ EntryMayFail(BasePage(k.req) + k.mapped, k.total - k.mapped)
      /\ Step(c, "map", Returned("EBAD_ACCESS"))
      /\ local' = Deallocate(k.mapping, k.total)
      /\ UNCHANGED <<library, target, changes, trapped>>

\* Mutant of MapEntry: what is mapped is set to the last entry's length, not advanced by it.
MapEntryForgets(c) ==
  LET k == call[c]
  IN  /\ Step(c, "mapentry",
              [k EXCEPT !.pc = "map", !.mapped = k.entry, !.entry = 0, !.rights = 0])
      /\ local' = Overwrite(c, k.mapping + k.mapped, k.entry, BasePage(k.req) + k.mapped)
      /\ UNCHANGED <<library, target, changes, trapped>>

\* "Map the pages into our local task, overwriting the allocation used to reserve the target
\* space above", then drop the handle.
MapEntry(c) ==
  LET k == call[c]
  IN  /\ Step(c, "mapentry",
              [k EXCEPT !.pc = "map", !.mapped = k.mapped + k.entry, !.entry = 0, !.rights = 0])
      /\ local' = Overwrite(c, k.mapping + k.mapped, k.entry, BasePage(k.req) + k.mapped)
      /\ UNCHANGED <<library, target, changes, trapped>>

\* Mutants of MapEntryFails: the reservation is kept; the right is dropped twice.
MapEntryFailsKeepsPages(c) ==
  /\ KernelFaults
  /\ Step(c, "mapentry", Returned("EINTERNAL"))
  /\ UNCHANGED <<library, target, changes, local, trapped>>

MapEntryFailsDropsTwice(c) ==
  /\ KernelFaults
  /\ Step(c, "mapentry", [Returned("EINTERNAL") EXCEPT !.rights = -1])
  /\ local' = Deallocate(call[c].mapping, call[c].total)
  /\ UNCHANGED <<library, target, changes, trapped>>

MapEntryFails(c) ==
  /\ KernelFaults
  /\ Step(c, "mapentry", Returned("EINTERNAL"))
  /\ local' = Deallocate(call[c].mapping, call[c].total)
  /\ UNCHANGED <<library, target, changes, trapped>>

\* The handler is called, or the object is filled in and returned.
Finish(c) ==
  /\ call[c].mapped = call[c].total
  /\ Step(c, "map", [call[c] EXCEPT !.pc = "object"])
  /\ UNCHANGED <<library, target, changes, local, trapped>>

\* The handler has returned: MachOKit unmaps what it mapped.
HandlerReturns(c) ==
  /\ Kit
  /\ Step(c, "object", Returned("ESUCCESS"))
  /\ local' = Deallocate(call[c].mapping, call[c].mapped)
  /\ UNCHANGED <<library, target, changes, trapped>>

\* libMachO stores the mapping's address and its length in reserved1, one after the other, and
\* nothing in reserved2; freeing the object deallocates reserved2 bytes at reserved1.
free_object(c) ==
  /\ ~ Kit
  /\ Step(c, "object", Returned("ESUCCESS"))
  /\ \E stale \in StaleSizes : local' = Deallocate(call[c].mapped, stale)
  /\ UNCHANGED <<library, target, changes, trapped>>

\* The target maps or unmaps a page of its own.
TargetChanges(p) ==
  /\ ~ trapped /\ changes < MaxChanges
  /\ target' = [target EXCEPT ![p] = ~ @]
  /\ changes' = changes + 1
  /\ UNCHANGED <<library, local, call, trapped>>

\* What a thread does on its own once it has made a call.
Proceed(c) ==
  \/ VerifyEntry(c) \/ VerifyDone(c)
  \/ Reserve(c) \/ ReserveFails(c)
  \/ MakeEntry(c) \/ MakeEntryFails(c)
  \/ MapEntry(c) \/ MapEntryFails(c)
  \/ Finish(c) \/ HandlerReturns(c) \/ free_object(c)

Next ==
  \/ \E c \in Threads, r \in Requests : Begin(c, r)
  \/ \E c \in Clients : Proceed(c)
  \/ \E p \in Page : TargetChanges(p)

Spec == Init /\ [][Next]_vars

\* A thread inside a call keeps running; nothing obliges it to make one, or the target to change.
FairSpec == Spec /\ \A c \in Clients : WF_vars(Proceed(c))

----------------------------------------------------------------------------
(* The object a finished call hands out.                                   *)

HasObject(c) == call[c].pc = "object"

\* Mutant of ObjectLength: MachOKit adds the offset as well.
ObjectLengthAdds(c) == call[c].mapped * PageSize + AddressOffset(call[c].req)

\* libMachO adds the offset into the first page where MachOKit takes it off.
ObjectLength(c) ==
  IF Kit
  THEN call[c].mapped * PageSize - AddressOffset(call[c].req)
  ELSE call[c].mapped * PageSize + AddressOffset(call[c].req)

Object(c) ==
  [target_address |-> ContextAddress(call[c].req),
   address |-> call[c].mapping * PageSize + AddressOffset(call[c].req),
   length |-> ObjectLength(c)]

\* mk_memory_map_has_mapping and -hasMappingAtOffset: a short mapping is made and measured.
HasMapping(c) ==
  IF Kit THEN ObjectLength(c) >= call[c].req.length
         ELSE ObjectLength(c) > call[c].req.length

\* The target's byte a process-relative pointer shows, for a page c owns.
ByteAt(c, pointer) ==
  LET page == pointer \div PageSize
  IN  IF page \in HeapPages /\ local[page].owner = c /\ local[page].shows \in Page
      THEN (local[page].shows * PageSize) + (pointer % PageSize)
      ELSE Blank

----------------------------------------------------------------------------
(* Properties.                                                             *)

\* Every byte an object of MachOKit's says it covers can be read through the pointer it is remapped to, and is
\* the target's byte at the address asked for: the window never reaches past the pages that were
\* brought in, and the offset into the first page is applied the same way on both sides
\* (mk_memory_object_remap_address trusts the object's length without looking at the mapping).
ReadsTarget(c) ==
  HasObject(c) =>
    \A x \in Word :
      LET pointer == mk_memory_object_remap_address(Object(c), 0, x, 1)
      IN  Succeeded(pointer) => ByteAt(c, pointer.value) = x

PointersReadTarget == Kit => \A c \in Clients : ReadsTarget(c)

\* The same of libMachO's objects: target_range is "the (target-relative) range of memory that
\* mobj mediates access to" (memory_object.h).
LibPointersReadTarget == ~ Kit => \A c \in Clients : ReadsTarget(c)

\* A thread of MachOKit's that is not inside a call owns no heap page and no memory entry right, whichever of
\* its calls failed and wherever: every error path undoes the steps before it.
HoldsNothing(c) == call[c].rights = 0 /\ \A p \in HeapPages : local[p].owner # c

IdleHoldsNothing == Kit => \A c \in Clients : call[c].pc = "idle" => HoldsNothing(c)

\* The same of libMachO: mk_memory_map_free_object "Cleans up any resources held by
\* memory_object" (memory_map.h).
LibIdleHoldsNothing == ~ Kit => \A c \in Clients : call[c].pc = "idle" => HoldsNothing(c)

\* With MachOKit a step of one thread never changes a page another thread has reserved: the fixed,
\* overwriting vm_map stays inside the thread's own reservation and nothing is deallocated twice.
\* libMachO makes no such promise: what free_object deallocates may be anybody's.
OthersUndisturbed ==
  [][Kit => \A p \in HeapPages : \A c \in Clients :
       local[p].owner = c /\ call'[c] = call[c] => local'[p] = local[p]]_vars

\* Every call comes to an end: it is refused, or it hands out an object.  The loops make progress
\* with every entry however small the kernel makes it.
CallsReturn == \A c \in Clients : call[c].pc # "idle" ~> trapped \/ call[c].pc \in {"idle", "object"}

\* mk_memory_map_has_mapping: "Returns true if length bytes at (address + offset) can be
\* accessed".  Stated where no kernel call fails and the target never changes.
LibHasMappingComplete ==
  \A c \in Clients :
    LET r == call[c].req
    IN  /\ ~ Kit /\ HasObject(c) /\ ~ r.requireFull /\ ~ KernelFaults /\ MaxChanges = 0
        /\ \A i \in 0 .. (r.length - 1) :
             (ContextAddress(r) + i) \div PageSize \in Page
             /\ target[(ContextAddress(r) + i) \div PageSize]
        => HasMapping(c)

----------------------------------------------------------------------------
(* What the map promises, as an abstract specification: a client that is   *)
(* inside a call has asked for its range, and the object is its view.  The *)
(* promise is MachOKit's alone.                                            *)

CONSTANT Nothing

\* It is neither a range that is asked for nor something that is seen.
ASSUME NothingAssumption ==
  /\ Nothing \notin [address : Word, length : Word, requireFull : BOOLEAN]
  /\ \A first \in Word : \A last \in -1 .. (2 * MaxWord) : Nothing # [x \in first .. last |-> x]

Asked(c) ==
  IF ~ Kit \/ call[c].pc = "idle" THEN Nothing
  ELSE [address |-> ContextAddress(call[c].req), length |-> call[c].req.length,
        requireFull |-> call[c].req.requireFull]

View(c) ==
  IF ~ Kit \/ ~ HasObject(c) THEN Nothing
  ELSE [x \in ContextAddress(call[c].req) .. (ContextAddress(call[c].req) + ObjectLength(c) - 1) |->
          ByteAt(c, Object(c).address + (x - ContextAddress(call[c].req)))]

Promise == INSTANCE MemoryMediation WITH
  asked <- [c \in Clients |-> Asked(c)],
  view <- [c \in Clients |-> View(c)],
  Requests <- {[address |-> ContextAddress(r), length |-> r.length,
                requireFull |-> r.requireFull] : r \in Requests}

\* MachOKit's mapping implements what a memory map promises: a call is refused or shows the target's
\* bytes and nothing else, and a range asked for in full is covered in full, although the target
\* changes between measuring and mapping.
MediatesAccess == Promise!Spec
=============================================================================
